-------------------------- MODULE IdMappingProofs ---------------------------
(***************************************************************************)
(* Proofs about IdMapping, for every set of keys and ids.  That the maps   *)
(* are inverse to each other is inductive on its own; everything else      *)
(* follows from it, from the types and from what the loop has visited.     *)
(***************************************************************************)
EXTENDS IdMapping, TLAPS

\* The conversion to int is one to one, and AsId is its inverse.
LEMMA Conversion ==
  /\ IntIds \subseteq Int
  /\ \A id \in Ids : AsInt(id) \in IntIds /\ AsId(AsInt(id)) = id
  /\ \A id1, id2 \in Ids : AsInt(id1) = AsInt(id2) => id1 = id2
  /\ Absent \notin IntIds /\ Absent \notin Ids /\ NotANumber \notin Ids
  <1>1. Ids \subseteq Int /\ Half \in Int /\ \A id \in Ids : 0 <= id /\ id < 2 * Half
    BY IdAssumption
  <1>2. \A id \in Ids : AsInt(id) \in Int /\ AsId(AsInt(id)) = id
    BY <1>1 DEF AsInt, AsId
  <1>3. \A id \in Ids : AsInt(id) \in IntIds
    BY DEF IntIds
  <1>4. IntIds \subseteq Int
    BY <1>2 DEF IntIds
  <1>5. \A id1, id2 \in Ids : AsInt(id1) = AsInt(id2) => id1 = id2
    BY <1>2
  <1>6. Absent \notin IntIds /\ Absent \notin Ids /\ NotANumber \notin Ids
    BY <1>1, <1>4, IdAssumption
  <1> QED BY <1>2, <1>3, <1>4, <1>5, <1>6

\* The members of an entry.
LEMMA EntryType ==
  ASSUME TypeOK, NEW e \in Entries
  PROVE  EntryIds(e).matter \in Members /\ EntryIds(e).oma \in Members
  <1>1. e[1] \in Mappings /\ e[2] \in Paths
    BY DEF Entries
  <1>2. document[e[1]] \in MapSection
    BY <1>1, IdAssumption DEF TypeOK
  <1> QED BY <1>1, <1>2 DEF EntryIds, MapSection

\* What insert does to one pair of maps: it refuses and changes nothing, or the
\* pair had no translation on either side and now has one.
LEMMA InsertCases ==
  ASSUME TypeOK, NEW k \in BiMaps, NEW m \in IntIds, NEW o \in IntIds,
         insert(k, m, o)
  PROVE  \/ /\ left_map[k][m] # Absent \/ right_map[k][o] # Absent
            /\ UNCHANGED <<left_map, right_map>>
         \/ /\ left_map[k][m] = Absent /\ right_map[k][o] = Absent
            /\ left_map' \in [BiMaps -> Map] /\ right_map' \in [BiMaps -> Map]
            /\ left_map'[k][m] = o /\ right_map'[k][o] = m
            /\ \A l \in BiMaps, id \in IntIds :
                 /\ <<l, id>> # <<k, m>> => left_map'[l][id] = left_map[l][id]
                 /\ <<l, id>> # <<k, o>> => right_map'[l][id] = right_map[l][id]
  <1>1. CASE left_map[k][m] # Absent \/ right_map[k][o] # Absent
    BY <1>1 DEF insert
  <1>2. CASE left_map[k][m] = Absent /\ right_map[k][o] = Absent
    <2>1. /\ left_map' = [left_map EXCEPT ![k][m] = o]
          /\ right_map' = [right_map EXCEPT ![k][o] = m]
      BY <1>2 DEF insert
    <2>2. left_map \in [BiMaps -> Map] /\ right_map \in [BiMaps -> Map]
      BY DEF TypeOK
    <2>3. left_map' \in [BiMaps -> Map] /\ right_map' \in [BiMaps -> Map]
      BY <2>1, <2>2 DEF Map
    <2>4. left_map'[k][m] = o /\ right_map'[k][o] = m
      BY <2>1, <2>2 DEF Map
    <2>5. \A l \in BiMaps, id \in IntIds :
            /\ <<l, id>> # <<k, m>> => left_map'[l][id] = left_map[l][id]
            /\ <<l, id>> # <<k, o>> => right_map'[l][id] = right_map[l][id]
      BY <2>1, <2>2 DEF Map
    <2> QED BY <1>2, <2>3, <2>4, <2>5
  <1> QED BY <1>1, <1>2

\* A round of the loop inserts the pair of the key, or leaves the maps alone;
\* the latter only if the key gives no pair or the program died.
LEMMA RoundCases ==
  ASSUME TypeOK, NEW e \in Entries, GenerateMatterIpsoMapping(e)
  PROVE  /\ todo' = todo \ {e} /\ e \in todo /\ document' = document
         /\ \/ /\ UNCHANGED <<left_map, right_map>>
               /\ ~(/\ {EntryIds(e).matter, EntryIds(e).oma} \subseteq Ids
                    /\ BiMapOf(e) \in BiMaps)
            \/ /\ {EntryIds(e).matter, EntryIds(e).oma} \subseteq Ids
               /\ BiMapOf(e) \in BiMaps
               /\ AsInt(EntryIds(e).matter) \in IntIds
               /\ AsInt(EntryIds(e).oma) \in IntIds
               /\ insert(BiMapOf(e), AsInt(EntryIds(e).matter),
                         AsInt(EntryIds(e).oma))
         /\ fault' \in {"none", "json exception"}
  <1>1. /\ EntryIds(e).matter \in Members /\ EntryIds(e).oma \in Members
        /\ fault \in {"none", "json exception"}
    BY EntryType DEF TypeOK
  <1>2. todo' = todo \ {e} /\ e \in todo /\ document' = document
    BY DEF GenerateMatterIpsoMapping
  <1>3. CASE VisitEntry(e)
    <2>1. CASE NotANumber \in {EntryIds(e).matter, EntryIds(e).oma}
      BY <1>1, <1>2, <1>3, <2>1, Conversion DEF VisitEntry
    <2>2. CASE NotANumber \notin {EntryIds(e).matter, EntryIds(e).oma}
      <3>1. EntryIds(e).matter \in Ids /\ EntryIds(e).oma \in Ids
        BY <1>1, <1>3, <2>2 DEF VisitEntry, Members
      <3>2. /\ AsInt(EntryIds(e).matter) \in IntIds
            /\ AsInt(EntryIds(e).oma) \in IntIds
        BY <3>1, Conversion
      <3>3. fault' = fault
        BY <1>3, <2>2 DEF VisitEntry
      <3>4. IF BiMapOf(e) \in BiMaps
            THEN insert(BiMapOf(e), AsInt(EntryIds(e).matter),
                        AsInt(EntryIds(e).oma))
            ELSE UNCHANGED <<left_map, right_map>>
        BY <1>3, <2>2 DEF VisitEntry
      <3> QED BY <1>1, <1>2, <3>1, <3>2, <3>3, <3>4
    <2> QED BY <2>1, <2>2
  <1>4. CASE SkipEntry(e)
    BY <1>1, <1>2, <1>4, Conversion DEF SkipEntry
  <1> QED BY <1>3, <1>4 DEF GenerateMatterIpsoMapping

-----------------------------------------------------------------------------
LEMMA InitType == Init => TypeOK
  BY DEF Init, TypeOK, Map

LEMMA NextType == TypeOK /\ [Next]_vars => TypeOK'
  <1> SUFFICES ASSUME TypeOK, [Next]_vars PROVE TypeOK'
    OBVIOUS
  <1>1. ASSUME NEW e \in Entries, GenerateMatterIpsoMapping(e) PROVE TypeOK'
    <2>1. /\ todo' \subseteq Entries /\ document' \in [Mappings -> Sections]
          /\ fault' \in {"none", "json exception"}
      BY <1>1, RoundCases DEF TypeOK
    <2>2. left_map' \in [BiMaps -> Map] /\ right_map' \in [BiMaps -> Map]
      <3>1. CASE UNCHANGED <<left_map, right_map>>
        BY <3>1 DEF TypeOK
      <3>2. CASE ~UNCHANGED <<left_map, right_map>>
        BY <1>1, <3>2, RoundCases, InsertCases
      <3> QED BY <3>1, <3>2
    <2> QED BY <2>1, <2>2 DEF TypeOK
  <1>2. CASE UNCHANGED vars
    BY <1>2 DEF vars, TypeOK
  <1> QED BY <1>1, <1>2 DEF Next

\* Every variable keeps its type: an id in a map is always the int of an id of
\* the files.
THEOREM MapsWellTyped == Spec => []TypeOK
  BY InitType, NextType, PTL DEF Spec

-----------------------------------------------------------------------------
LEMMA InitInverse == Init => MutuallyInverse
  BY Conversion DEF Init, MutuallyInverse

LEMMA NextInverse ==
  TypeOK /\ MutuallyInverse /\ [Next]_vars => MutuallyInverse'
  <1> SUFFICES ASSUME TypeOK, MutuallyInverse, [Next]_vars
               PROVE  MutuallyInverse'
    OBVIOUS
  <1>1. CASE UNCHANGED <<left_map, right_map>>
    BY <1>1 DEF MutuallyInverse
  <1>2. ASSUME NEW e \in Entries, GenerateMatterIpsoMapping(e),
               ~UNCHANGED <<left_map, right_map>>
        PROVE  MutuallyInverse'
    <2> DEFINE kind == BiMapOf(e)
               matter == AsInt(EntryIds(e).matter)
               ipso == AsInt(EntryIds(e).oma)
    <2>1. /\ kind \in BiMaps /\ matter \in IntIds /\ ipso \in IntIds
          /\ insert(kind, matter, ipso)
      BY <1>2, RoundCases
    <2> HIDE DEF kind, matter, ipso
    <2>2. /\ left_map[kind][matter] = Absent /\ right_map[kind][ipso] = Absent
          /\ left_map'[kind][matter] = ipso /\ right_map'[kind][ipso] = matter
          /\ \A l \in BiMaps, id \in IntIds :
               /\ <<l, id>> # <<kind, matter>> => left_map'[l][id] = left_map[l][id]
               /\ <<l, id>> # <<kind, ipso>> => right_map'[l][id] = right_map[l][id]
      BY <1>2, <2>1, InsertCases
    <2>3. SUFFICES ASSUME NEW k \in BiMaps, NEW m \in IntIds, NEW o \in IntIds
                   PROVE  left_map'[k][m] = o <=> right_map'[k][o] = m
      BY DEF MutuallyInverse
    <2>4. left_map[k][m] = o <=> right_map[k][o] = m
      BY DEF MutuallyInverse
    <2>5. Absent \notin IntIds
      BY Conversion
    <2>6. CASE k = kind /\ m = matter
      <3>1. CASE o = ipso
        BY <2>2, <2>6, <3>1
      <3>2. CASE o # ipso
        <4>1. right_map'[k][o] = right_map[k][o] /\ left_map'[k][m] # o
          BY <2>2, <2>6, <3>2
        <4>2. right_map[k][o] # m
          BY <2>2, <2>4, <2>5, <2>6
        <4> QED BY <4>1, <4>2
      <3> QED BY <3>1, <3>2
    <2>7. CASE k = kind /\ m # matter /\ o = ipso
      <3>1. left_map'[k][m] = left_map[k][m] /\ right_map'[k][o] # m
        BY <2>2, <2>7
      <3>2. left_map[k][m] # o
        BY <2>2, <2>4, <2>5, <2>7
      <3> QED BY <3>1, <3>2
    <2>8. CASE k # kind \/ (m # matter /\ o # ipso)
      BY <2>2, <2>4, <2>8
    <2> QED BY <2>6, <2>7, <2>8
  <1> QED BY <1>1, <1>2 DEF Next, vars

\* The two maps of a BiMap are inverse to each other, for every pair of files and
\* every order of their entries: BiMap is the bidirectional map it is said to be.
THEOREM MapsStayInverse == Spec => []MutuallyInverse
  <1>1. TypeOK /\ MutuallyInverse /\ [Next]_vars
          => (TypeOK /\ MutuallyInverse)'
    BY NextType, NextInverse
  <1>2. Init => TypeOK /\ MutuallyInverse
    BY InitType, InitInverse
  <1> QED BY <1>1, <1>2, PTL DEF Spec

-----------------------------------------------------------------------------
\* No entry takes back or replaces a translation that an earlier one made.
LEMMA Keeps ==
  ASSUME TypeOK, [Next]_vars, NEW k \in BiMaps, NEW id \in IntIds
  PROVE  /\ left_map[k][id] # Absent => left_map'[k][id] = left_map[k][id]
         /\ right_map[k][id] # Absent => right_map'[k][id] = right_map[k][id]
  <1>1. CASE UNCHANGED <<left_map, right_map>>
    BY <1>1
  <1>2. ASSUME NEW e \in Entries, GenerateMatterIpsoMapping(e),
               ~UNCHANGED <<left_map, right_map>>
        PROVE  /\ left_map[k][id] # Absent => left_map'[k][id] = left_map[k][id]
               /\ right_map[k][id] # Absent => right_map'[k][id] = right_map[k][id]
    <2> DEFINE kind == BiMapOf(e)
               matter == AsInt(EntryIds(e).matter)
               ipso == AsInt(EntryIds(e).oma)
    <2>1. /\ kind \in BiMaps /\ matter \in IntIds /\ ipso \in IntIds
          /\ insert(kind, matter, ipso)
      BY <1>2, RoundCases
    <2> HIDE DEF kind, matter, ipso
    <2>2. /\ left_map[kind][matter] = Absent /\ right_map[kind][ipso] = Absent
          /\ \A l \in BiMaps, i \in IntIds :
               /\ <<l, i>> # <<kind, matter>> => left_map'[l][i] = left_map[l][i]
               /\ <<l, i>> # <<kind, ipso>> => right_map'[l][i] = right_map[l][i]
      BY <1>2, <2>1, InsertCases
    <2> QED BY <2>2
  <1> QED BY <1>1, <1>2 DEF Next, vars

\* The order of the entries decides between two that collide, once and for all.
THEOREM TranslationsStay == Spec => FirstInsertionWins
  <1>1. TypeOK /\ [Next]_vars =>
          [\A k \in BiMaps, id \in IntIds :
             /\ left_map[k][id] # Absent => left_map'[k][id] = left_map[k][id]
             /\ right_map[k][id] # Absent => right_map'[k][id] = right_map[k][id]]_vars
    BY Keeps
  <1> QED BY <1>1, MapsWellTyped, PTL DEF Spec, FirstInsertionWins

-----------------------------------------------------------------------------
\* A key that was visited stays visited, and its translation stays.
LEMMA StaysTranslated ==
  ASSUME TypeOK, [Next]_vars, NEW d \in Entries, Inserted(d)
  PROVE  /\ Inserted(d)'
         /\ Translates(d) => Translates(d)'
         /\ ~Translates(d)' /\ OnlyConflictsAreLeftOut =>
              LET k == BiMapOf(d) IN
              \/ left_map'[k][AsInt(EntryIds(d).matter)] # Absent
              \/ right_map'[k][AsInt(EntryIds(d).oma)] # Absent
  <1> DEFINE k == BiMapOf(d)
             m == AsInt(EntryIds(d).matter)
             o == AsInt(EntryIds(d).oma)
  <1>1. document' = document /\ todo' \subseteq todo
    BY RoundCases DEF Next, vars
  <1>2. /\ k \in BiMaps /\ m \in IntIds /\ o \in IntIds
        /\ Absent \notin IntIds
    BY Conversion DEF Inserted, EntryIds
  <1>3. /\ Translates(d) <=> left_map[k][m] = o /\ right_map[k][o] = m
        /\ Translates(d)' <=> left_map'[k][m] = o /\ right_map'[k][o] = m
    BY <1>1 DEF Translates, EntryIds
  <1>4. OnlyConflictsAreLeftOut =>
          Translates(d) \/ left_map[k][m] # Absent \/ right_map[k][o] # Absent
    BY DEF OnlyConflictsAreLeftOut
  <1>5. Inserted(d)'
    BY <1>1 DEF Inserted, EntryIds
  <1> HIDE DEF k, m, o
  <1>6. /\ left_map[k][m] # Absent => left_map'[k][m] = left_map[k][m]
        /\ right_map[k][o] # Absent => right_map'[k][o] = right_map[k][o]
    BY <1>2, Keeps
  <1>7. Translates(d) => Translates(d)'
    BY <1>2, <1>3, <1>6
  <1>8. ~Translates(d)' /\ OnlyConflictsAreLeftOut =>
          left_map'[k][m] # Absent \/ right_map'[k][o] # Absent
    BY <1>4, <1>6, <1>7
  <1> QED BY <1>5, <1>7, <1>8 DEF k, m, o

LEMMA InitLeftOut == Init => OnlyConflictsAreLeftOut
  BY DEF Init, OnlyConflictsAreLeftOut, Inserted

LEMMA NextLeftOut ==
  TypeOK /\ OnlyConflictsAreLeftOut /\ [Next]_vars => OnlyConflictsAreLeftOut'
  <1> SUFFICES ASSUME TypeOK, OnlyConflictsAreLeftOut, [Next]_vars
               PROVE  OnlyConflictsAreLeftOut'
    OBVIOUS
  <1> DEFINE Conflict(d) ==
               LET k == BiMapOf(d) IN
               \/ left_map[k][AsInt(EntryIds(d).matter)] # Absent
               \/ right_map[k][AsInt(EntryIds(d).oma)] # Absent
             Said(k, id) ==
               \E d \in Entries :
                 /\ Inserted(d) /\ Translates(d)
                 /\ BiMapOf(d) = k
                 /\ AsInt(EntryIds(d).matter) = id
  <1>1. document' = document
    BY RoundCases DEF Next, vars
  <1>2. ASSUME NEW d \in Entries, Inserted(d)
        PROVE  Translates(d)' \/ Conflict(d)'
    BY <1>1, <1>2, StaysTranslated DEF EntryIds
  <1>3. ASSUME NEW k \in BiMaps, NEW id \in IntIds, left_map[k][id] # Absent
        PROVE  Said(k, id)'
    <2>1. PICK d \in Entries : /\ Inserted(d) /\ Translates(d)
                             /\ BiMapOf(d) = k
                             /\ AsInt(EntryIds(d).matter) = id
      BY <1>3 DEF OnlyConflictsAreLeftOut
    <2>2. Inserted(d)' /\ Translates(d)'
      BY <2>1, StaysTranslated
    <2> QED BY <1>1, <2>1, <2>2 DEF EntryIds
  <1>4. CASE UNCHANGED vars
    BY <1>4 DEF vars, OnlyConflictsAreLeftOut, Inserted, Translates, EntryIds
  <1>5. ASSUME NEW e \in Entries, GenerateMatterIpsoMapping(e)
        PROVE  OnlyConflictsAreLeftOut'
    <2> DEFINE kind == BiMapOf(e)
               matter == AsInt(EntryIds(e).matter)
               ipso == AsInt(EntryIds(e).oma)
    <2>1. todo' = todo \ {e}
      BY <1>5, RoundCases
    <2>2. \A d \in Entries : d # e /\ Inserted(d)' => Inserted(d)
      BY <1>1, <2>1 DEF Inserted, EntryIds
    <2>3. CASE UNCHANGED <<left_map, right_map>>
      <3>1. Inserted(e)' => Translates(e)' \/ Conflict(e)'
        <4>1. SUFFICES ASSUME Inserted(e)' PROVE Conflict(e)'
          OBVIOUS
        <4>2. /\ {EntryIds(e).matter, EntryIds(e).oma} \subseteq Ids
              /\ kind \in BiMaps
          BY <1>1, <4>1 DEF Inserted, EntryIds
        <4>3. matter \in IntIds /\ ipso \in IntIds /\ Absent \notin IntIds
          BY <4>2, Conversion
        <4>4. insert(kind, matter, ipso)
          BY <1>5, <4>2, RoundCases
        <4> HIDE DEF kind, matter, ipso
        <4>5. left_map[kind][matter] # Absent \/ right_map[kind][ipso] # Absent
          BY <2>3, <4>2, <4>3, <4>4, InsertCases
        <4> QED BY <1>1, <2>3, <4>5 DEF EntryIds, kind, matter, ipso
      <3>2. \A d \in Entries : Inserted(d)' => Translates(d)' \/ Conflict(d)'
        BY <1>2, <2>2, <3>1
      <3>3. \A k \in BiMaps, id \in IntIds :
              left_map'[k][id] # Absent => Said(k, id)'
        BY <1>3, <2>3
      <3> QED BY <3>2, <3>3 DEF OnlyConflictsAreLeftOut
    <2>4. CASE ~UNCHANGED <<left_map, right_map>>
      <3>1. /\ kind \in BiMaps /\ matter \in IntIds /\ ipso \in IntIds
            /\ insert(kind, matter, ipso)
            /\ {EntryIds(e).matter, EntryIds(e).oma} \subseteq Ids
        BY <1>5, <2>4, RoundCases
      <3>2. Inserted(e)'
        BY <1>1, <2>1, <3>1 DEF Inserted, EntryIds
      <3>3. /\ left_map'[kind][matter] = ipso /\ right_map'[kind][ipso] = matter
            /\ \A l \in BiMaps, i \in IntIds :
                 <<l, i>> # <<kind, matter>> => left_map'[l][i] = left_map[l][i]
        <4> HIDE DEF kind, matter, ipso
        <4> QED BY <2>4, <3>1, InsertCases
      <3>4. Translates(e)'
        BY <1>1, <3>3 DEF Translates, EntryIds
      <3>5. \A d \in Entries : Inserted(d)' => Translates(d)' \/ Conflict(d)'
        BY <1>2, <2>2, <3>4
      <3>6. \A k \in BiMaps, id \in IntIds :
              left_map'[k][id] # Absent => Said(k, id)'
        <4>1. SUFFICES ASSUME NEW k \in BiMaps, NEW id \in IntIds,
                              left_map'[k][id] # Absent
                       PROVE  Said(k, id)'
          OBVIOUS
        <4>2. CASE k = kind /\ id = matter
          BY <1>1, <3>2, <3>4, <4>2 DEF EntryIds
        <4>3. CASE ~(k = kind /\ id = matter)
          <5>1. left_map[k][id] # Absent
            BY <3>3, <4>1, <4>3
          <5> QED BY <1>3, <5>1
        <4> QED BY <4>2, <4>3
      <3> QED BY <3>5, <3>6 DEF OnlyConflictsAreLeftOut
    <2> QED BY <2>3, <2>4
  <1> QED BY <1>4, <1>5 DEF Next

\* Of the entries of a file exactly those are translated that do not collide
\* with one visited before, whatever the files hold.
THEOREM NothingElseIsLeftOut == Spec => []OnlyConflictsAreLeftOut
  <1>1. Init => TypeOK /\ OnlyConflictsAreLeftOut
    BY InitType, InitLeftOut
  <1>2. TypeOK /\ OnlyConflictsAreLeftOut /\ [Next]_vars
          => (TypeOK /\ OnlyConflictsAreLeftOut)'
    BY NextType, NextLeftOut
  <1> QED BY <1>1, <1>2, PTL DEF Spec

-----------------------------------------------------------------------------
\* What an entry gives is said by the file of its mapping.
LEMMA EntrySays ==
  ASSUME TypeOK, NEW e \in Entries, NEW mapping, NEW kind,
         BiMapOf(e) = <<mapping, kind>>
  PROVE  Says(mapping, kind, EntryIds(e).matter, EntryIds(e).oma)
  <1>1. e[1] = mapping /\ e[1] \in Mappings /\ e[2] \in Paths
    BY DEF BiMapOf, Entries
  <1>2. document[e[1]] \in MapSection
    BY <1>1, IdAssumption DEF TypeOK
  <1>3. document[mapping][e[2]] = [matter |-> EntryIds(e).matter, oma |-> EntryIds(e).oma]
    BY <1>1, <1>2 DEF MapSection, EntryIds
  <1> QED BY <1>1, <1>3 DEF Says, BiMapOf

\* What a file says is the pair of an entry of its mapping.
LEMMA SaidByEntry ==
  ASSUME NEW mapping \in Mappings, NEW kind, NEW matter_id, NEW oma_id,
         Says(mapping, kind, matter_id, oma_id)
  PROVE  \E e \in Entries : /\ BiMapOf(e) = <<mapping, kind>>
                            /\ EntryIds(e).matter = matter_id
                            /\ EntryIds(e).oma = oma_id
  <1>1. PICK p \in Paths : /\ ExtractBetweenSlashes(p) = kind
                           /\ document[mapping][p] = [matter |-> matter_id, oma |-> oma_id]
    BY DEF Says
  <1>2. <<mapping, p>> \in Entries /\ BiMapOf(<<mapping, p>>) = <<mapping, kind>>
    BY <1>1 DEF Entries, BiMapOf
  <1> QED BY <1>1, <1>2 DEF EntryIds

\* The way there, through one mapping, and back, through the other, for the ids of
\* one kind the files agree about.
LEMMA AgreedIdReturns ==
  ASSUME TypeOK, MutuallyInverse, OnlyConflictsAreLeftOut, todo = {},
         NEW kind \in Kinds, NEW id \in Ids, FilesAgree(kind, id),
         get_ipso_id(<<"matter_mapping", kind>>, AsInt(id)) # -1
  PROVE  AsId(get_matter_id(<<"coap_mapping", kind>>,
                get_ipso_id(<<"matter_mapping", kind>>, AsInt(id)))) = id
  <1> DEFINE M == <<"matter_mapping", kind>>
             C == <<"coap_mapping", kind>>
             m == AsInt(id)
             o == left_map[M][m]
  <1>1. /\ M \in BiMaps /\ C \in BiMaps
        /\ m \in IntIds /\ AsId(m) = id /\ Absent \notin IntIds
    BY Conversion DEF BiMaps, Mappings
  <1>2. o \in IntIds /\ get_ipso_id(M, m) = o
    <2>1. get_ipso_id(M, m) # -1
      OBVIOUS
    <2>2. left_map[M] \in Map
      BY <1>1 DEF TypeOK
    <2> HIDE DEF M, m
    <2>3. left_map[M][m] \in IntIds \cup {Absent}
      BY <1>1, <2>2 DEF Map
    <2> QED BY <2>1, <2>3 DEF get_ipso_id
  \* The entry that the way there rests on.
  <1>3. PICK e \in Entries : /\ Inserted(e) /\ Translates(e)
                             /\ BiMapOf(e) = M /\ AsInt(EntryIds(e).matter) = m
    BY <1>1, <1>2 DEF OnlyConflictsAreLeftOut
  <1> DEFINE ipso == EntryIds(e).oma
  <1>4. EntryIds(e).matter = id /\ ipso \in Ids /\ AsInt(ipso) = o
    BY <1>3, Conversion DEF Inserted, Translates
  \* What the other file says of either id.
  <1>5. ASSUME NEW d \in Entries, Inserted(d), BiMapOf(d) = C
        PROVE  EntryIds(d).matter = id <=> EntryIds(d).oma = ipso
    <2>1. EntryIds(d).matter \in Ids /\ EntryIds(d).oma \in Ids
      BY <1>5 DEF Inserted
    <2>2. Says("coap_mapping", kind, EntryIds(d).matter, EntryIds(d).oma)
      BY <1>5, EntrySays
    <2>3. Says("matter_mapping", kind, id, ipso)
      BY <1>3, <1>4, EntrySays
    <2> QED BY <1>4, <2>1, <2>2, <2>3 DEF FilesAgree
  <1>6. PICK d \in Entries : /\ Inserted(d) /\ BiMapOf(d) = C
                             /\ EntryIds(d).matter = id /\ EntryIds(d).oma = ipso
    <2>1. PICK oma_id \in Ids : Says("coap_mapping", kind, id, oma_id)
      BY DEF FilesAgree
    <2>2. PICK d \in Entries : /\ BiMapOf(d) = C
                               /\ EntryIds(d).matter = id /\ EntryIds(d).oma = oma_id
      BY <2>1, SaidByEntry DEF Mappings
    <2>3. Inserted(d)
      BY <1>1, <2>1, <2>2 DEF Inserted
    <2> QED BY <1>5, <2>2, <2>3
  \* An entry of the other mapping that has one of the ids leads back.
  <1>7. ASSUME NEW f \in Entries, Inserted(f), Translates(f), BiMapOf(f) = C,
               AsInt(EntryIds(f).matter) = m \/ AsInt(EntryIds(f).oma) = o
        PROVE  right_map[C][o] = m
    <2>1. EntryIds(f).matter \in Ids /\ EntryIds(f).oma \in Ids
      BY <1>7 DEF Inserted
    <2>2. EntryIds(f).matter = id \/ EntryIds(f).oma = ipso
      BY <1>4, <1>7, <2>1, Conversion
    <2>3. EntryIds(f).matter = id /\ EntryIds(f).oma = ipso
      BY <1>5, <1>7, <2>2
    <2> QED BY <1>4, <1>7, <2>3 DEF Translates
  <1> HIDE DEF M, C, m, o, ipso
  <1>8. right_map[C][o] = m
    <2>1. \/ Translates(d)
          \/ left_map[C][m] # Absent
          \/ right_map[C][o] # Absent
      BY <1>4, <1>6 DEF OnlyConflictsAreLeftOut, m
    <2>2. CASE Translates(d)
      BY <1>4, <1>6, <1>7, <2>2
    <2>3. CASE left_map[C][m] # Absent
      <3>1. PICK f \in Entries : /\ Inserted(f) /\ Translates(f)
                                 /\ BiMapOf(f) = C /\ AsInt(EntryIds(f).matter) = m
        BY <1>1, <2>3 DEF OnlyConflictsAreLeftOut
      <3> QED BY <1>7, <3>1
    <2>4. CASE right_map[C][o] # Absent
      <3>1. PICK n \in IntIds : right_map[C][o] = n
        BY <1>1, <1>2, <2>4 DEF TypeOK, Map
      <3>2. left_map[C][n] = o /\ o # Absent
        BY <1>1, <1>2, <3>1 DEF MutuallyInverse
      <3>3. PICK f \in Entries : /\ Inserted(f) /\ Translates(f)
                                 /\ BiMapOf(f) = C /\ AsInt(EntryIds(f).matter) = n
        BY <1>1, <3>2 DEF OnlyConflictsAreLeftOut
      <3>4. AsInt(EntryIds(f).oma) = o
        BY <3>2, <3>3 DEF Translates
      <3> QED BY <1>7, <3>3, <3>4
    <2> QED BY <2>1, <2>2, <2>3, <2>4
  <1>9. get_matter_id(C, o) = m
    BY <1>1, <1>8 DEF get_matter_id
  <1>10. AsId(get_matter_id(C, get_ipso_id(M, m))) = id
    BY <1>1, <1>2, <1>9
  <1> QED BY <1>10 DEF M, C, m

LEMMA AgreedRoundTrip ==
  TypeOK /\ MutuallyInverse /\ OnlyConflictsAreLeftOut => RoundTrip
  <1>1. "sdfObject" \in Kinds /\ "sdfProperty" \in Kinds
    BY DEF Kinds
  <1> QED BY <1>1, AgreedIdReturns DEF RoundTrip, Target, AddressedBy

\* The two mappings are looked up in opposite directions: what the Matter side
\* reaches through matter_mapping reaches it through coap_mapping, for every pair
\* of files, as far as they agree, and every order of their entries
\* (main/main.cpp, main/CoapServer.cpp).
THEOREM AgreedFilesRoundTrip == Spec => []RoundTrip
  BY MapsWellTyped, MapsStayInverse, NothingElseIsLeftOut, AgreedRoundTrip, PTL

-----------------------------------------------------------------------------
\* No two entries of one kind and one file contradict each other: they share
\* both ids or none.
Consistent ==
  \A d, e \in Entries :
    /\ BiMapOf(d) = BiMapOf(e)
    /\ {EntryIds(d).matter, EntryIds(d).oma} \subseteq Ids
    /\ {EntryIds(e).matter, EntryIds(e).oma} \subseteq Ids
    => (EntryIds(d).matter = EntryIds(e).matter <=> EntryIds(d).oma = EntryIds(e).oma)

\* In consistent files nothing collides, whatever was inserted before.
LEMMA NoConflict ==
  ASSUME TypeOK, MutuallyInverse, OnlyConflictsAreLeftOut, Consistent
  PROVE  EveryPairTranslates
  <1> SUFFICES ASSUME NEW e \in Entries, Inserted(e), ~Translates(e)
               PROVE  FALSE
    BY DEF EveryPairTranslates
  <1> DEFINE k == BiMapOf(e)
             m == AsInt(EntryIds(e).matter)
             o == AsInt(EntryIds(e).oma)
  <1>1. /\ k \in BiMaps /\ m \in IntIds /\ o \in IntIds
        /\ EntryIds(e).matter \in Ids /\ EntryIds(e).oma \in Ids
    BY Conversion DEF Inserted, EntryIds
  \* An entry that is translated and has one of the ids has the other as well.
  <1>2. ASSUME NEW d \in Entries, Inserted(d), Translates(d),
               BiMapOf(d) = k,
               AsInt(EntryIds(d).matter) = m \/ AsInt(EntryIds(d).oma) = o
        PROVE  FALSE
    <2>1. EntryIds(d).matter \in Ids /\ EntryIds(d).oma \in Ids
      BY <1>2 DEF Inserted, EntryIds
    <2>2. \/ EntryIds(d).matter = EntryIds(e).matter
          \/ EntryIds(d).oma = EntryIds(e).oma
      BY <1>1, <1>2, <2>1, Conversion
    <2>3. /\ EntryIds(d).matter = EntryIds(e).matter
          /\ EntryIds(d).oma = EntryIds(e).oma
      BY <1>1, <1>2, <2>1, <2>2 DEF Consistent
    <2> QED BY <1>2, <2>3 DEF Translates, EntryIds
  <1>3. CASE left_map[k][m] # Absent
    BY <1>1, <1>2, <1>3 DEF OnlyConflictsAreLeftOut
  <1>4. CASE right_map[k][o] # Absent
    <2>1. PICK id \in IntIds : right_map[k][o] = id
      BY <1>1, <1>4 DEF TypeOK, Map
    <2>2. left_map[k][id] = o /\ left_map[k][id] # Absent
      <3> HIDE DEF k, o
      <3>1. left_map[k][id] = o
        BY <1>1, <2>1 DEF MutuallyInverse
      <3> QED BY <1>1, <3>1, Conversion
    <2>3. PICK d \in Entries : /\ Inserted(d) /\ Translates(d)
                             /\ BiMapOf(d) = k
                             /\ AsInt(EntryIds(d).matter) = id
      BY <1>1, <2>1, <2>2 DEF OnlyConflictsAreLeftOut
    <2>4. AsInt(EntryIds(d).oma) = o
      BY <2>2, <2>3 DEF Translates, EntryIds
    <2> QED BY <1>2, <2>3, <2>4
  <1> QED BY <1>3, <1>4 DEF OnlyConflictsAreLeftOut

\* What the comment above GenerateMatterIpsoMapping promises holds exactly as far
\* as neither file uses an id twice: consistent ones are translated completely,
\* in whichever order their entries come (main/main.cpp).
THEOREM ConsistentIsTranslated == Spec => [](Consistent => EveryPairTranslates)
  BY MapsWellTyped, MapsStayInverse, NothingElseIsLeftOut, NoConflict, PTL
=============================================================================
