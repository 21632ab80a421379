----------------------------- MODULE IdMapping ------------------------------
(***************************************************************************)
(* The translation of ids between Matter and LwM2M: class BiMap and struct *)
(* MatterIpsoMapping (main/include/BridgeUtils.h), filled from the "map"   *)
(* section of a combined sdf-mapping by GenerateMatterIpsoMapping          *)
(* (main/main.cpp).  InitServer makes two of them, each from a file of its *)
(* own: first coap_mapping, from sdf-lwm2m-to-matter-merged, which the     *)
(* CoAP handlers use, then matter_mapping, from                            *)
(* sdf-matter-to-lwm2m-merged, which the Matter callbacks use.             *)
(*                                                                         *)
(* An id is an unsigned number of 32 bits in the document and in Matter,   *)
(* and an int inside the maps; 2 * Half stands for 2^32.                   *)
(***************************************************************************)
EXTENDS Integers, Sequences

CONSTANTS
  Paths,       \* keys of a map section, each the sequence of its segments
  Ids,         \* the ids in use
  Half,        \* 2^31
  Absent,      \* no such member in an object, or no such key in a map
  NotANumber,  \* a member that holds something else than a number
  Sections     \* the map sections a file may have

Members == Ids \cup {Absent, NotANumber}

\* What a map section has under each key; a key it does not have is one whose
\* object has no ids.
MapSection == [Paths -> [matter : Members, oma : Members]]

ASSUME IdAssumption ==
  /\ Half \in Nat \ {0}
  /\ Ids \subseteq 0..(2 * Half - 1)
  /\ \A p \in Paths : Len(p) \in Nat \ {0}
  /\ Absent # NotANumber
  /\ Absent \notin Int
  /\ NotANumber \notin Int
  /\ Sections \subseteq MapSection

\* Each MatterIpsoMapping has one BiMap per kind of entry.
Mappings == {"coap_mapping", "matter_mapping"}
Kinds == {"sdfObject", "sdfProperty", "sdfAction", "sdfEvent"}
BiMaps == Mappings \X Kinds

\* The keys of both files.
Entries == Mappings \X Paths

\* The conversion of a 32 bit id to int.
AsInt(id) == IF id < Half THEN id ELSE id - 2 * Half

\* And back, where an int is assigned to a ClusterId or an AttributeId.
AsId(int) == IF int < 0 THEN int + 2 * Half ELSE int

IntIds == {AsInt(id) : id \in Ids}

\* The last segment but one.  In a string whose only slash is its first
\* character, the position before it wraps around, the search finds the same
\* slash again and everything behind it is returned.
ExtractBetweenSlashes(path) ==
  CASE Len(path) = 1 -> ""
    [] Len(path) = 2 -> IF path[1] = "" THEN path[2] ELSE ""
    [] OTHER -> path[Len(path) - 1]

\* The BiMap an entry goes to, if its kind has one.
BiMapOf(e) == <<e[1], ExtractBetweenSlashes(e[2])>>

VARIABLES
  document,   \* per mapping: the map section of its file
  todo,       \* the entries the loop has yet to visit
  left_map,   \* per BiMap: from Matter ids to LwM2M ids
  right_map,  \* per BiMap: from LwM2M ids to Matter ids
  fault       \* why the program has died

vars == <<document, todo, left_map, right_map, fault>>

\* The two ids of an entry.
EntryIds(e) == document[e[1]][e[2]]

Map == [IntIds -> IntIds \cup {Absent}]

TypeOK ==
  /\ document \in [Mappings -> Sections]
  /\ todo \subseteq Entries
  /\ left_map \in [BiMaps -> Map]
  /\ right_map \in [BiMaps -> Map]
  /\ fault \in {"none", "json exception"}

Init ==
  /\ document \in [Mappings -> Sections]
  /\ todo = Entries
  /\ left_map = [k \in BiMaps |-> [id \in IntIds |-> Absent]]
  /\ right_map = [k \in BiMaps |-> [id \in IntIds |-> Absent]]
  /\ fault = "none"

\* Four slips: a duplicate is looked for on one side only, or replaces what was
\* there before; both maps are filled the same way round; or one of them keeps
\* the id of the document.
InsertLookingLeft(k, matter_id, ipso_id) ==
  IF left_map[k][matter_id] # Absent
  THEN UNCHANGED <<left_map, right_map>>
  ELSE /\ left_map' = [left_map EXCEPT ![k][matter_id] = ipso_id]
       /\ right_map' = [right_map EXCEPT ![k][ipso_id] = matter_id]

InsertReplacing(k, matter_id, ipso_id) ==
  LET matter == right_map[k][ipso_id]
      ipso   == left_map[k][matter_id]
  IN /\ left_map' = [left_map EXCEPT
           ![k] = [id \in IntIds |-> CASE id = matter_id -> ipso_id
                                       [] id = matter /\ id # matter_id -> Absent
                                       [] OTHER -> @[id]]]
     /\ right_map' = [right_map EXCEPT
           ![k] = [id \in IntIds |-> CASE id = ipso_id -> matter_id
                                       [] id = ipso /\ id # ipso_id -> Absent
                                       [] OTHER -> @[id]]]

InsertSameWayRound(k, matter_id, ipso_id) ==
  IF left_map[k][matter_id] # Absent \/ right_map[k][ipso_id] # Absent
  THEN UNCHANGED <<left_map, right_map>>
  ELSE /\ left_map' = [left_map EXCEPT ![k][matter_id] = ipso_id]
       /\ right_map' = [right_map EXCEPT ![k][matter_id] = ipso_id]

InsertUnconverted(k, matter_id, ipso_id) ==
  IF left_map[k][matter_id] # Absent \/ right_map[k][ipso_id] # Absent
  THEN UNCHANGED <<left_map, right_map>>
  ELSE /\ left_map' = [left_map EXCEPT ![k][matter_id] = ipso_id]
       /\ right_map' = [right_map EXCEPT ![k][ipso_id] = AsId(matter_id)]

\* BiMap::insert: a pair that shares an id with another one is refused.
insert(k, matter_id, ipso_id) ==
  IF left_map[k][matter_id] # Absent \/ right_map[k][ipso_id] # Absent
  THEN UNCHANGED <<left_map, right_map>>
  ELSE /\ left_map' = [left_map EXCEPT ![k][matter_id] = ipso_id]
       /\ right_map' = [right_map EXCEPT ![k][ipso_id] = matter_id]

get_ipso_id(k, matter_id) ==
  IF left_map[k][matter_id] # Absent THEN left_map[k][matter_id] ELSE -1

get_matter_id(k, ipso_id) ==
  IF right_map[k][ipso_id] # Absent THEN right_map[k][ipso_id] ELSE -1

\* The object and the resource a Matter read or write of an attribute goes to
\* (emberAfExternalAttributeReadCallback looks them up in matter_mapping).
Target(cluster, attribute) ==
  <<get_ipso_id(<<"matter_mapping", "sdfObject">>, AsInt(cluster)),
    get_ipso_id(<<"matter_mapping", "sdfProperty">>, AsInt(attribute))>>

\* The cluster and the attribute a CoAP request on an object and a resource
\* goes to (ForwardAttributeReadMessage looks them up in coap_mapping).
AddressedBy(object, resource) ==
  <<AsId(get_matter_id(<<"coap_mapping", "sdfObject">>, object)),
    AsId(get_matter_id(<<"coap_mapping", "sdfProperty">>, resource))>>

\* One round of the loop, on an object with both ids: what the key says about
\* its kind selects the map; sdfThing and anything else is left out.
VisitEntry(e) ==
  LET matter_id == EntryIds(e).matter
      oma_id    == EntryIds(e).oma
  IN
  /\ Absent \notin {matter_id, oma_id}
  /\ IF NotANumber \in {matter_id, oma_id}
     THEN /\ fault' = "json exception"
          /\ UNCHANGED <<left_map, right_map>>
     ELSE /\ fault' = fault
          /\ IF BiMapOf(e) \in BiMaps
             THEN insert(BiMapOf(e), AsInt(matter_id), AsInt(oma_id))
             ELSE UNCHANGED <<left_map, right_map>>

\* On an object without one of them.
SkipEntry(e) ==
  /\ Absent \in {EntryIds(e).matter, EntryIds(e).oma}
  /\ UNCHANGED <<left_map, right_map, fault>>

\* GenerateMatterIpsoMapping visits the keys of a file in their order, and is
\* called for coap_mapping first.
GenerateMatterIpsoMapping(e) ==
  /\ fault = "none"
  /\ e \in todo
  /\ e[1] = "matter_mapping" => \A d \in todo : d[1] = "matter_mapping"
  /\ todo' = todo \ {e}
  /\ VisitEntry(e) \/ SkipEntry(e)
  /\ UNCHANGED document

Next == \E e \in Entries : GenerateMatterIpsoMapping(e)

Spec == Init /\ [][Next]_vars

-----------------------------------------------------------------------------
(* Properties. *)

\* The entry has been visited and gave a pair of ids to insert.
Inserted(e) ==
  /\ e \notin todo
  /\ {EntryIds(e).matter, EntryIds(e).oma} \subseteq Ids
  /\ BiMapOf(e) \in BiMaps

\* The pair an entry gives is translated both ways.
Translates(e) ==
  LET k == BiMapOf(e)
      m == AsInt(EntryIds(e).matter)
      o == AsInt(EntryIds(e).oma)
  IN left_map[k][m] = o /\ right_map[k][o] = m

\* The two maps of a BiMap are inverse to each other after any sequence of
\* insertions: what get_ipso_id makes of an id, get_matter_id of the same BiMap
\* makes that id again, and no two ids share a translation.
MutuallyInverse ==
  \A k \in BiMaps, m \in IntIds, o \in IntIds :
    left_map[k][m] = o <=> right_map[k][o] = m

\* The file of a mapping gives this pair.
Says(mapping, kind, matter_id, oma_id) ==
  \E p \in Paths :
    /\ ExtractBetweenSlashes(p) = kind
    /\ document[mapping][p] = [matter |-> matter_id, oma |-> oma_id]

\* The file of coap_mapping has the id, and with each pair that the file of
\* matter_mapping gives for it, every pair of the former has both ids in common
\* or none.
FilesAgree(kind, id) ==
  /\ \E oma_id \in Ids : Says("coap_mapping", kind, id, oma_id)
  /\ \A other, oma_id, ipso_id \in Ids :
       /\ Says("matter_mapping", kind, id, ipso_id)
       /\ Says("coap_mapping", kind, other, oma_id)
       => (other = id <=> oma_id = ipso_id)

\* The two directions of the bridge are looked up in two mappings made from two
\* files.  Once both are made, an attribute that has a target in matter_mapping
\* is what coap_mapping makes of a request on that target, if the files agree
\* about its cluster and its attribute: no collision elsewhere in either file,
\* and no order of the entries, comes in between.  Where they do not agree
\* nothing in the code makes the two directions fit together.
RoundTrip ==
  todo = {} =>
    \A cluster, attribute \in Ids :
      LET target == Target(cluster, attribute) IN
      /\ -1 \notin {target[1], target[2]}
      /\ FilesAgree("sdfObject", cluster)
      /\ FilesAgree("sdfProperty", attribute)
      => AddressedBy(target[1], target[2]) = <<cluster, attribute>>

\* A translation, once there, is never taken back or replaced by a later entry
\* of the file.
FirstInsertionWins ==
  [][\A k \in BiMaps, id \in IntIds :
       /\ left_map[k][id] # Absent => left_map'[k][id] = left_map[k][id]
       /\ right_map[k][id] # Absent => right_map'[k][id] = right_map[k][id]]_vars

\* A pair is left out only because one of its ids is translated otherwise by the
\* same mapping, and nothing is translated that no entry of its file says.
OnlyConflictsAreLeftOut ==
  /\ \A e \in Entries :
       Inserted(e) =>
         \/ Translates(e)
         \/ left_map[BiMapOf(e)][AsInt(EntryIds(e).matter)] # Absent
         \/ right_map[BiMapOf(e)][AsInt(EntryIds(e).oma)] # Absent
  /\ \A k \in BiMaps, id \in IntIds :
       left_map[k][id] # Absent =>
         \E e \in Entries :
           /\ Inserted(e) /\ Translates(e)
           /\ BiMapOf(e) = k
           /\ AsInt(EntryIds(e).matter) = id

\* What the comment above GenerateMatterIpsoMapping promises: a structure to
\* "easily translate the ids of both ecosystems".  Attributes of two clusters
\* may have one id, and resources of two objects.
EveryPairTranslates == \A e \in Entries : Inserted(e) => Translates(e)
=============================================================================
