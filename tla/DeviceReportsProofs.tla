------------------------ MODULE DeviceReportsProofs -------------------------
(***************************************************************************)
(* Proofs about DeviceTable and DeviceReports, for any number of devices,  *)
(* places and ids, any items and any length of the queue.                  *)
(***************************************************************************)
EXTENDS DeviceReports, TLAPS

\* What an add under way has done so far: the device has its place and the
\* endpoint of the place is not set; the id to try is a dynamic one.
AddInv ==
  /\ FirstDynamic <= gCurrentEndpointId
  /\ Adding => /\ gDevices[adding[2]] = adding[1]
               /\ endpoints[adding[2]] = NoEndpoint

\* StrayNeedsRefusal, which says nothing of the devices during an add, with what
\* holds of them then.
StrayInv ==
  /\ \A i \in Slots : gDevices[i] = NoDevice => endpoints[i] = NoEndpoint
  /\ \A d \in Devices \ refused : \A i, j \in PlacesOf(d) :
       i = j /\ (endpoints[i] = mEndpointId[d] \/ adding = <<d, i>>)

TableInv == TypeOK /\ AddInv /\ DynamicIdsApart /\ StrayInv

-----------------------------------------------------------------------------

\* Slots and ids are numbers, and an add under way names a device and a place.
LEMMA AddingTyped ==
  ASSUME TypeOK, Adding
  PROVE  adding[1] \in Devices /\ adding[2] \in Slots
         /\ adding = <<adding[1], adding[2]>>
  BY DEF TypeOK, TableTypeOK, Adding

\* The id tried next is again a dynamic one.
LEMMA NextIdIsDynamic ==
  ASSUME NEW id \in Ids, FirstDynamic <= id
  PROVE  NextEndpointId(id) \in Ids /\ FirstDynamic <= NextEndpointId(id)
  <1>1. IdCount \in Nat /\ FirstDynamic \in Ids /\ id \in Nat /\ id < IdCount
    BY TableAssumption DEF Ids
  <1>2. (id + 1) % IdCount \in 0..(IdCount - 1)
    BY <1>1
  <1> QED BY <1>1, <1>2 DEF NextEndpointId, Ids

\* The variables of the table do not change where only those of the reports do.
LEMMA TableStutters ==
  ASSUME TableInv, UNCHANGED tableVars, TypeOK'
  PROVE  TableInv'
  BY DEF TableInv, tableVars, AddInv, Adding, DynamicIdsApart, StrayInv, PlacesOf

-----------------------------------------------------------------------------
(* Each step of the table keeps the table in order. *)

LEMMA AddKeeps ==
  ASSUME TableInv, NEW d \in Devices, Add(d)
  PROVE  TableInv'
  <1>1. PICK i \in Slots :
          /\ IsFirst(i, PlacesOf(NoDevice))
          /\ gDevices' = [gDevices EXCEPT ![i] = d]
          /\ adding' = <<d, i>>
    BY DEF Add, AddDeviceEndpoint
  <1>2. /\ UNCHANGED <<gCurrentEndpointId, endpoints, mEndpointId, refused>>
        /\ UNCHANGED reportVars
        /\ ~Adding
        /\ PlacesOf(d) = {} \/ d \in refused
    BY DEF Add, AddDeviceEndpoint
  <1>3. gDevices \in [Slots -> Devices \cup {NoDevice}] /\ gDevices[i] = NoDevice
    BY <1>1 DEF TableInv, TypeOK, TableTypeOK, IsFirst, PlacesOf
  <1>4. endpoints[i] = NoEndpoint
    BY <1>3 DEF TableInv, StrayInv
  <1>5. TypeOK'
    BY <1>1, <1>2 DEF TableInv, TypeOK, TableTypeOK, reportVars
  <1>6. adding'[1] = d /\ adding'[2] = i
    BY <1>1
  <1>7. AddInv'
    BY <1>1, <1>2, <1>3, <1>4, <1>6 DEF TableInv, AddInv, Adding
  <1>8. DynamicIdsApart'
    BY <1>2 DEF TableInv, DynamicIdsApart
  <1>9. StrayInv'
    <2>1. \A j \in Slots : gDevices'[j] = NoDevice => endpoints'[j] = NoEndpoint
      BY <1>1, <1>2, <1>3, TableAssumption DEF TableInv, StrayInv
    <2>2. ASSUME NEW e \in Devices \ refused', NEW j \in PlacesOf(e)',
                 NEW k \in PlacesOf(e)'
          PROVE  j = k /\ (endpoints'[j] = mEndpointId'[e] \/ adding' = <<e, j>>)
      <3>1. CASE e = d
        <4>1. PlacesOf(e) = {}
          BY <1>2, <2>2, <3>1
        <4>2. j = i /\ k = i
          BY <1>1, <1>3, <2>2, <4>1 DEF PlacesOf
        <4> QED BY <1>1, <3>1, <4>2
      <3>2. CASE e # d
        <4>1. j \in PlacesOf(e) /\ k \in PlacesOf(e)
          BY <1>1, <1>3, <2>2, <3>2 DEF PlacesOf
        <4>2. e \in Devices \ refused /\ adding = <<>>
          BY <1>2, <2>2 DEF Adding
        <4>3. adding # <<e, j>>
          BY <4>2
        <4>4. j = k /\ endpoints[j] = mEndpointId[e]
          BY <4>1, <4>2, <4>3 DEF TableInv, StrayInv
        <4> QED BY <1>2, <4>4
      <3> QED BY <3>1, <3>2
    <2> QED BY <2>1, <2>2 DEF StrayInv
  <1> QED BY <1>5, <1>7, <1>8, <1>9 DEF TableInv

LEMMA TakenKeeps ==
  ASSUME TableInv, Taken
  PROVE  TableInv'
  <1> DEFINE d == adding[1]
             i == adding[2]
             id == gCurrentEndpointId
  <1>1. /\ Adding /\ ~EndpointInUse(id)
        /\ mEndpointId' = [mEndpointId EXCEPT ![d] = id]
        /\ endpoints' = [endpoints EXCEPT ![i] = id]
        /\ adding' = <<>>
        /\ UNCHANGED <<gDevices, gCurrentEndpointId, refused>>
        /\ UNCHANGED <<value, mChanged_CB, reports, unseen>>
        /\ strayed' = strayed \ Settled
    BY DEF Taken, EndpointTaken, TryEndpointId, SetEndpointId
  <1>2. d \in Devices /\ i \in Slots /\ adding = <<d, i>>
    BY <1>1, AddingTyped DEF TableInv
  <1>3. /\ endpoints \in [Slots -> Ids \cup {NoEndpoint}]
        /\ mEndpointId \in [Devices -> Ids]
        /\ id \in Ids
    BY DEF TableInv, TypeOK, TableTypeOK
  <1>4. gDevices[i] = d /\ endpoints[i] = NoEndpoint /\ FirstDynamic <= id
    BY <1>1 DEF TableInv, AddInv
  <1> HIDE DEF d, i, id
  <1>5. TypeOK'
    BY <1>1, <1>2, <1>3 DEF TableInv, TypeOK, TableTypeOK
  <1>6. AddInv'
    BY <1>1, <1>4 DEF TableInv, AddInv, Adding, id
  <1>7. DynamicIdsApart'
    <2>1. ASSUME NEW j \in Slots, endpoints'[j] # NoEndpoint
          PROVE  FirstDynamic <= endpoints'[j]
      BY <1>1, <1>2, <1>3, <1>4, <2>1 DEF TableInv, DynamicIdsApart
    <2>2. ASSUME NEW j \in Slots, endpoints'[j] # NoEndpoint,
                 NEW k \in Slots \ {j}
          PROVE  endpoints'[k] # endpoints'[j]
      <3>1. CASE j = i
        BY <1>1, <1>2, <1>3, <2>2, <3>1 DEF EndpointInUse
      <3>2. CASE k = i
        BY <1>1, <1>2, <1>3, <2>2, <3>2 DEF EndpointInUse
      <3>3. CASE j # i /\ k # i
        BY <1>1, <1>2, <1>3, <2>2, <3>3 DEF TableInv, DynamicIdsApart
      <3> QED BY <3>1, <3>2, <3>3
    <2> QED BY <2>1, <2>2 DEF DynamicIdsApart
  <1>8. StrayInv'
    <2>1. \A j \in Slots : gDevices'[j] = NoDevice => endpoints'[j] = NoEndpoint
      BY <1>1, <1>2, <1>3, <1>4, TableAssumption DEF TableInv, StrayInv
    <2>2. ASSUME NEW e \in Devices \ refused', NEW j \in PlacesOf(e)',
                 NEW k \in PlacesOf(e)'
          PROVE  j = k /\ endpoints'[j] = mEndpointId'[e]
      <3>1. /\ e \in Devices \ refused /\ j \in Slots /\ gDevices[j] = e
            /\ j \in PlacesOf(e) /\ k \in PlacesOf(e)
        BY <1>1, <2>2 DEF PlacesOf
      <3>2. j = k /\ (endpoints[j] = mEndpointId[e] \/ adding = <<e, j>>)
        BY <3>1 DEF TableInv, StrayInv
      <3>3. CASE e = d
        <4>1. i \in PlacesOf(e)
          BY <1>2, <1>4, <3>3 DEF PlacesOf
        <4>2. j = i
          BY <3>1, <4>1 DEF TableInv, StrayInv
        <4> QED BY <1>1, <1>2, <1>3, <3>2, <3>3, <4>2
      <3>4. CASE e # d
        <4>1. j # i /\ endpoints[j] = mEndpointId[e]
          BY <1>2, <1>4, <3>1, <3>2, <3>4
        <4> QED BY <1>1, <1>2, <1>3, <3>1, <3>2, <3>4, <4>1
      <3> QED BY <3>3, <3>4
    <2> QED BY <2>1, <2>2 DEF StrayInv
  <1> QED BY <1>5, <1>6, <1>7, <1>8 DEF TableInv

LEMMA DuplicateKeeps ==
  ASSUME TableInv, Duplicate
  PROVE  TableInv'
  <1>1. /\ Adding
        /\ mEndpointId' = [mEndpointId EXCEPT ![adding[1]] = gCurrentEndpointId]
        /\ gCurrentEndpointId' = NextEndpointId(gCurrentEndpointId)
        /\ UNCHANGED <<gDevices, endpoints, adding, refused>>
        /\ UNCHANGED reportVars
    BY DEF Duplicate, EndpointDuplicate, TryEndpointId, SetEndpointId
  <1>2. /\ adding[1] \in Devices /\ adding[2] \in Slots
        /\ adding = <<adding[1], adding[2]>>
    BY <1>1, AddingTyped DEF TableInv
  <1>3. gCurrentEndpointId \in Ids /\ FirstDynamic <= gCurrentEndpointId
    BY DEF TableInv, TypeOK, TableTypeOK, AddInv
  <1>4. gCurrentEndpointId' \in Ids /\ FirstDynamic <= gCurrentEndpointId'
    BY <1>1, <1>3, NextIdIsDynamic
  <1>5. TypeOK'
    BY <1>1, <1>2, <1>3, <1>4 DEF TableInv, TypeOK, TableTypeOK, reportVars
  <1>6. AddInv' /\ DynamicIdsApart'
    BY <1>1, <1>4 DEF TableInv, AddInv, Adding, DynamicIdsApart
  <1>7. StrayInv'
    <2>1. \A j \in Slots : gDevices'[j] = NoDevice => endpoints'[j] = NoEndpoint
      BY <1>1 DEF TableInv, StrayInv
    <2>2. ASSUME NEW e \in Devices \ refused', NEW j \in PlacesOf(e)',
                 NEW k \in PlacesOf(e)'
          PROVE  j = k /\ (endpoints'[j] = mEndpointId'[e] \/ adding' = <<e, j>>)
      <3>1. /\ e \in Devices \ refused
            /\ j \in PlacesOf(e) /\ k \in PlacesOf(e)
        BY <1>1, <2>2 DEF PlacesOf
      <3>2. j = k /\ (endpoints[j] = mEndpointId[e] \/ adding = <<e, j>>)
        BY <3>1 DEF TableInv, StrayInv
      <3>3. CASE e = adding[1]
        <4>1. gDevices[adding[2]] = e
          BY <1>1, <3>3 DEF TableInv, AddInv
        <4>2. adding[2] \in PlacesOf(e)
          BY <1>2, <4>1 DEF PlacesOf
        <4>3. adding[2] = j
          BY <3>1, <4>2 DEF TableInv, StrayInv
        <4> QED BY <1>1, <1>2, <3>2, <3>3, <4>3
      <3>4. CASE e # adding[1]
        <4>1. mEndpointId'[e] = mEndpointId[e]
          BY <1>1, <1>2, <1>3, <3>1, <3>4 DEF TableInv, TypeOK, TableTypeOK
        <4> QED BY <1>1, <3>2, <4>1
      <3> QED BY <3>3, <3>4
    <2> QED BY <2>1, <2>2 DEF StrayInv
  <1> QED BY <1>5, <1>6, <1>7 DEF TableInv

LEMMA RefusedKeeps ==
  ASSUME TableInv, Refused
  PROVE  TableInv'
  <1>1. /\ Adding
        /\ mEndpointId' = [mEndpointId EXCEPT ![adding[1]] = gCurrentEndpointId]
        /\ refused' = refused \cup {adding[1]}
        /\ adding' = <<>>
        /\ strayed' = strayed \cup {adding[1]}
        /\ UNCHANGED <<gDevices, endpoints, gCurrentEndpointId>>
        /\ UNCHANGED <<value, mChanged_CB, reports, unseen>>
    BY DEF Refused, EndpointRefused, TryEndpointId, SetEndpointId
  <1>2. adding[1] \in Devices
    BY <1>1, AddingTyped DEF TableInv
  <1>3. TypeOK'
    BY <1>1, <1>2 DEF TableInv, TypeOK, TableTypeOK
  <1>4. AddInv' /\ DynamicIdsApart'
    BY <1>1 DEF TableInv, AddInv, Adding, DynamicIdsApart
  <1>5. StrayInv'
    <2>1. \A j \in Slots : gDevices'[j] = NoDevice => endpoints'[j] = NoEndpoint
      BY <1>1 DEF TableInv, StrayInv
    <2>2. ASSUME NEW e \in Devices \ refused', NEW j \in PlacesOf(e)',
                 NEW k \in PlacesOf(e)'
          PROVE  j = k /\ endpoints'[j] = mEndpointId'[e]
      <3>1. /\ e \in Devices \ refused /\ e # adding[1]
            /\ j \in PlacesOf(e) /\ k \in PlacesOf(e)
        BY <1>1, <2>2 DEF PlacesOf
      <3>2. j = k /\ (endpoints[j] = mEndpointId[e] \/ adding = <<e, j>>)
        BY <3>1 DEF TableInv, StrayInv
      <3>3. endpoints[j] = mEndpointId[e]
        BY <3>1, <3>2
      <3>4. mEndpointId'[e] = mEndpointId[e]
        BY <1>1, <1>2, <3>1 DEF TableInv, TypeOK, TableTypeOK
      <3> QED BY <1>1, <3>2, <3>3, <3>4
    <2> QED BY <2>1, <2>2 DEF StrayInv
  <1> QED BY <1>3, <1>4, <1>5 DEF TableInv

LEMMA RemoveKeeps ==
  ASSUME TableInv, NEW d \in Devices, Remove(d)
  PROVE  TableInv'
  <1>1. PICK i \in Slots :
          /\ gDevices' = [gDevices EXCEPT ![i] = NoDevice]
          /\ endpoints' = [endpoints EXCEPT ![i] = NoEndpoint]
    BY DEF Remove, RemoveDeviceEndpoint
  <1>2. /\ UNCHANGED <<gCurrentEndpointId, mEndpointId, adding, refused>>
        /\ UNCHANGED <<value, mChanged_CB, reports, unseen>>
        /\ strayed' = strayed \cup {d}
        /\ ~Adding
    BY DEF Remove, RemoveDeviceEndpoint
  <1>3. /\ gDevices \in [Slots -> Devices \cup {NoDevice}]
        /\ endpoints \in [Slots -> Ids \cup {NoEndpoint}]
    BY DEF TableInv, TypeOK, TableTypeOK
  <1>4. TypeOK'
    BY <1>1, <1>2 DEF TableInv, TypeOK, TableTypeOK
  <1>5. AddInv' /\ DynamicIdsApart'
    BY <1>1, <1>2, <1>3 DEF TableInv, AddInv, Adding, DynamicIdsApart
  <1>6. StrayInv'
    <2>1. \A j \in Slots : gDevices'[j] = NoDevice => endpoints'[j] = NoEndpoint
      BY <1>1, <1>3 DEF TableInv, StrayInv
    <2>2. ASSUME NEW e \in Devices \ refused', NEW j \in PlacesOf(e)',
                 NEW k \in PlacesOf(e)'
          PROVE  j = k /\ (endpoints'[j] = mEndpointId'[e] \/ adding' = <<e, j>>)
      <3>1. /\ e \in Devices \ refused /\ j # i
            /\ j \in PlacesOf(e) /\ k \in PlacesOf(e)
        BY <1>1, <1>2, <1>3, <2>2, TableAssumption DEF PlacesOf
      <3>2. j \in Slots /\ endpoints'[j] = endpoints[j]
        BY <1>1, <1>3, <3>1 DEF PlacesOf
      <3> QED BY <1>2, <3>1, <3>2 DEF TableInv, StrayInv
    <2> QED BY <2>1, <2>2 DEF StrayInv
  <1> QED BY <1>4, <1>5, <1>6 DEF TableInv

-----------------------------------------------------------------------------
(* The steps of the devices and the reports leave the table alone. *)

LEMMA CallbackKeeps ==
  ASSUME TableInv, NEW d \in Devices, SetChangeCallback(d)
  PROVE  TableInv'
  <1>1. TypeOK'
    BY DEF TableInv, TypeOK, TableTypeOK, SetChangeCallback, tableVars
  <1> QED BY <1>1, TableStutters DEF SetChangeCallback

\* A scheduled report is a report, and there is room for it.
LEMMA ReportTyped ==
  ASSUME TypeOK, NEW d \in Devices, NEW item \in Items,
         HandleDeviceStatusChanged(d, item)
  PROVE  /\ reports' \in Seq(Reports) /\ Len(reports') <= ReportQueue
         /\ \/ reports' = reports
            \/ /\ Len(reports) < ReportQueue
               /\ reports' = Append(reports, PathOf(d, item))
  <1>1. PathOf(d, item) \in Reports
    BY DEF TypeOK, TableTypeOK, PathOf, Reports
  <1>2. reports \in Seq(Reports) /\ Len(reports) <= ReportQueue
    BY DEF TypeOK
  <1> QED BY <1>1, <1>2, ReportsAssumption
          DEF HandleDeviceStatusChanged, ScheduleReportingCallback

LEMMA SetItemKeeps ==
  ASSUME TableInv, NEW d \in Devices, NEW item \in Items, NEW new \in BOOLEAN,
         SetItem(d, item, new)
  PROVE  TableInv'
  <1>1. reports' \in Seq(Reports) /\ Len(reports') <= ReportQueue
    BY ReportTyped DEF SetItem, TableInv, TypeOK
  <1>2. /\ UNCHANGED <<tableVars, mChanged_CB, strayed>>
        /\ value' = [value EXCEPT ![<<d, item>>] = new]
        /\ unseen' \in {unseen \cup {<<d, item>>}, unseen}
    BY DEF SetItem
  <1>3. TypeOK'
    BY <1>1, <1>2 DEF TableInv, TypeOK, TableTypeOK, tableVars, Changes
  <1> QED BY <1>2, <1>3, TableStutters

LEMMA ReportingKeeps ==
  ASSUME TableInv, CallReportingCallback
  PROVE  TableInv'
  <1>1. reports \in Seq(Reports) /\ reports # <<>> /\ reports' = Tail(reports)
    BY DEF TableInv, TypeOK, CallReportingCallback
  <1>2. reports' \in Seq(Reports) /\ Len(reports') <= ReportQueue
    BY <1>1, ReportsAssumption DEF TableInv, TypeOK
  <1>3. TypeOK'
    BY <1>2 DEF TableInv, TypeOK, TableTypeOK, CallReportingCallback, tableVars
  <1> QED BY <1>3, TableStutters DEF CallReportingCallback

LEMMA NextKeeps ==
  ASSUME TableInv, [Next]_vars
  PROVE  TableInv'
  <1>1. CASE UNCHANGED vars
    <2>1. UNCHANGED tableVars /\ UNCHANGED reportVars
      BY <1>1 DEF vars
    <2>2. TypeOK'
      BY <2>1 DEF TableInv, TypeOK, TableTypeOK, tableVars, reportVars
    <2> QED BY <2>1, <2>2, TableStutters
  <1>2. ASSUME NEW d \in Devices, Add(d) \/ Remove(d) \/ SetChangeCallback(d)
        PROVE  TableInv'
    BY <1>2, AddKeeps, RemoveKeeps, CallbackKeeps
  <1>3. CASE Taken \/ Duplicate \/ Refused
    BY <1>3, TakenKeeps, DuplicateKeeps, RefusedKeeps
  <1>4. ASSUME NEW d \in Devices, NEW item \in Items, NEW new \in BOOLEAN,
               SetItem(d, item, new)
        PROVE  TableInv'
    BY <1>4, SetItemKeeps
  <1>5. CASE CallReportingCallback
    BY <1>5, ReportingKeeps
  <1> QED BY <1>1, <1>2, <1>3, <1>4, <1>5 DEF Next

LEMMA InitTableInv ==
  ASSUME Init
  PROVE  TableInv
  <1>1. 0 \in Ids /\ FirstDynamic \in Ids /\ FirstDynamic <= FirstDynamic
    BY TableAssumption DEF Ids
  <1>2. TypeOK
    BY <1>1, ReportsAssumption DEF Init, TableInit, TypeOK, TableTypeOK
  <1>3. AddInv /\ DynamicIdsApart
    BY <1>1 DEF Init, TableInit, AddInv, Adding, DynamicIdsApart
  <1>4. StrayInv
    BY TableAssumption DEF Init, TableInit, StrayInv, PlacesOf
  <1> QED BY <1>2, <1>3, <1>4 DEF TableInv

LEMMA TableInvariant == Spec => []TableInv
  <1> QED BY InitTableInv, NextKeeps, PTL DEF Spec

\* The state of the table, the devices and the reports is well typed.
THEOREM ReportsWellTyped == Spec => []TypeOK
  <1>1. TableInv => TypeOK
    BY DEF TableInv
  <1> QED BY <1>1, TableInvariant, PTL

\* No two bridged devices have one endpoint id, and none that of a fixed
\* endpoint: the loop of AddDeviceEndpoint (main/main.cpp:197).
THEOREM IdsStayApart == Spec => []DynamicIdsApart
  <1>1. TableInv => DynamicIdsApart
    BY DEF TableInv
  <1> QED BY <1>1, TableInvariant, PTL

\* A device and its endpoint come and go together, unless the stack refused it:
\* AddDeviceEndpoint and RemoveDeviceEndpoint (main/main.cpp:186-243).
THEOREM DevicesHaveEndpoints == Spec => []StrayNeedsRefusal
  <1>1. ASSUME TableInv
        PROVE  StrayNeedsRefusal
    <2>1. ASSUME NEW d \in Devices \ refused, ~Adding, NEW i \in PlacesOf(d),
                 NEW j \in PlacesOf(d)
          PROVE  i = j /\ endpoints[i] = mEndpointId[d]
      <3>1. adding # <<d, i>>
        BY <2>1 DEF Adding
      <3> QED BY <1>1, <3>1 DEF TableInv, StrayInv
    <2> QED BY <1>1, <2>1 DEF TableInv, StrayInv, StrayNeedsRefusal
  <1> QED BY <1>1, TableInvariant, PTL

-----------------------------------------------------------------------------
(* The reports *)

\* An endpoint of the device has the id.
Shows(d, id) == \E i \in PlacesOf(d) : endpoints[i] = id

\* A report of the device names the id.
Reported(d, id) ==
  \E k \in 1..Len(reports) : reports[k].dev = d /\ reports[k].endpoint = id

\* StaleReportNeedsRemoval during an add, too; and the id a device has been told
\* is that of an endpoint of it, or was never given.
StaleInv ==
  \A d \in Devices \ strayed :
    /\ \A id \in Ids \ {0} : Reported(d, id) => Shows(d, id)
    /\ \/ mEndpointId[d] = 0
       \/ Shows(d, mEndpointId[d])
       \/ Adding /\ adding[1] = d

\* The entries of the queue after the first has been taken.
LEMMA TailEntries ==
  ASSUME NEW S, NEW s \in Seq(S), s # <<>>
  PROVE  /\ Len(s) \in Nat \ {0} /\ Head(s) = s[1]
         /\ Len(Tail(s)) = Len(s) - 1
         /\ \A k \in 1..Len(Tail(s)) : Tail(s)[k] = s[k + 1] /\ k + 1 \in 1..Len(s)
         /\ \A k \in 1..Len(s) : s[k] \in S
  OBVIOUS

LEMMA AppendEntries ==
  ASSUME NEW S, NEW s \in Seq(S), NEW x \in S
  PROVE  /\ Len(s) \in Nat /\ Len(Append(s, x)) = Len(s) + 1
         /\ \A k \in 1..Len(s) : Append(s, x)[k] = s[k]
         /\ Append(s, x)[Len(s) + 1] = x
  OBVIOUS

\* A change stays reported until the stack is told.
LEMMA ChangesKept ==
  ASSUME TableInv, ChangeIsReported, [Next]_vars
  PROVE  ChangeIsReported'
  <1>1. reports \in Seq(Reports)
    BY DEF TableInv, TypeOK
  <1>2. CASE UNCHANGED <<reports, unseen>>
    BY <1>2 DEF ChangeIsReported
  <1>3. ASSUME NEW d \in Devices, NEW item \in Items, NEW new \in BOOLEAN,
               SetItem(d, item, new)
        PROVE  ChangeIsReported'
    <2>1. PathOf(d, item) \in Reports
      BY DEF TableInv, TypeOK, TableTypeOK, PathOf, Reports
    <2>2. CASE reports' = Append(reports, PathOf(d, item))
      <3>1. /\ Len(reports) \in Nat /\ Len(reports') = Len(reports) + 1
            /\ \A k \in 1..Len(reports) : reports'[k] = reports[k]
            /\ reports'[Len(reports) + 1] = PathOf(d, item)
        BY <1>1, <2>1, <2>2, AppendEntries
      <3>2. unseen' \subseteq unseen \cup {<<d, item>>}
        BY <1>3 DEF SetItem
      <3> QED BY <3>1, <3>2 DEF ChangeIsReported, PathOf
    <2>3. CASE reports' = reports
      <3>1. CASE unseen' = unseen
        BY <2>3, <3>1 DEF ChangeIsReported
      <3>2. CASE unseen' # unseen
        <4>1. value' # value /\ d \in mChanged_CB /\ HasAttribute(item)
              /\ Len(reports) < ReportQueue
          BY <1>3, <3>2 DEF SetItem
        <4>2. value' = [value EXCEPT ![<<d, item>>] = new]
          BY <1>3 DEF SetItem
        <4>3. value \in [Changes -> BOOLEAN]
          BY DEF TableInv, TypeOK
        <4>4. Changed(d, item, new)
          BY <4>1, <4>2, <4>3 DEF Changed
        <4>5. HandleDeviceStatusChanged(d, item)
          BY <1>3, <4>1, <4>4 DEF SetItem
        <4>6. reports' = Append(reports, PathOf(d, item))
          BY <4>1, <4>5 DEF HandleDeviceStatusChanged, ScheduleReportingCallback
        <4>7. Len(reports') = Len(reports) + 1 /\ Len(reports) \in Nat
          BY <1>1, <2>1, <4>6, AppendEntries
        <4> QED BY <2>3, <4>7
      <3> QED BY <3>1, <3>2
    <2> QED BY <1>3, <2>2, <2>3, ReportTyped DEF SetItem, TableInv
  <1>4. CASE CallReportingCallback
    <2>1. /\ reports # <<>> /\ reports' = Tail(reports)
          /\ unseen' = unseen \ {<<Head(reports).dev, Head(reports).item>>}
      BY <1>4 DEF CallReportingCallback
    <2>2. ASSUME NEW c \in unseen'
          PROVE  \E k \in 1..Len(reports') :
                   <<reports'[k].dev, reports'[k].item>> = c
      <3>1. c \in unseen /\ c # <<Head(reports).dev, Head(reports).item>>
        BY <2>1
      <3>2. PICK k \in 1..Len(reports) : <<reports[k].dev, reports[k].item>> = c
        BY <3>1 DEF ChangeIsReported
      <3>3. /\ Len(reports) \in Nat \ {0} /\ Head(reports) = reports[1]
            /\ Len(Tail(reports)) = Len(reports) - 1
            /\ \A j \in 1..Len(Tail(reports)) : Tail(reports)[j] = reports[j + 1]
        BY <1>1, <2>1, TailEntries
      <3>4. k # 1
        BY <3>1, <3>2, <3>3
      <3>5. k - 1 \in 1..Len(reports') /\ reports'[k - 1] = reports[k]
        BY <2>1, <3>3, <3>4
      <3> QED BY <3>2, <3>5
    <2> QED BY <2>2 DEF ChangeIsReported
  <1>5. ASSUME NEW d \in Devices, Add(d) \/ Remove(d) \/ SetChangeCallback(d)
        PROVE  UNCHANGED <<reports, unseen>>
    BY <1>5 DEF Add, Remove, SetChangeCallback, reportVars
  <1>6. CASE Taken \/ Duplicate \/ Refused \/ UNCHANGED vars
    <2>1. UNCHANGED <<reports, unseen>>
      BY <1>6 DEF Taken, Duplicate, Refused, vars, reportVars
    <2> QED BY <1>2, <2>1
  <1> QED BY <1>2, <1>3, <1>4, <1>5, <1>6 DEF Next

\* A change of a device with a callback is reported, unless the CHIP queue was
\* full: the setters of Device and HandleDeviceStatusChanged.
THEOREM ChangesAreReported == Spec => []ChangeIsReported
  <1>1. ASSUME Init
        PROVE  ChangeIsReported
    BY <1>1 DEF Init, ChangeIsReported
  <1> QED BY <1>1, TableInvariant, ChangesKept, PTL DEF Spec

\* StaleInv where devices still show what they showed, no report is new, and
\* the id of each device is told, shown or being looked for.
LEMMA StaleKept ==
  ASSUME TableInv, StaleInv,
         \A d \in Devices \ strayed', id \in Ids \ {0} :
           /\ Reported(d, id)' => d \notin strayed /\ Reported(d, id)
           /\ d \notin strayed /\ Shows(d, id) => Shows(d, id)',
         \A d \in Devices \ strayed' :
           \/ mEndpointId'[d] = 0
           \/ \E i \in PlacesOf(d)' : endpoints'[i] = mEndpointId'[d]
           \/ Adding' /\ adding'[1] = d
  PROVE  StaleInv'
  BY DEF StaleInv, Shows, PlacesOf

LEMMA AddNotStale ==
  ASSUME TableInv, StaleInv, NEW d \in Devices, Add(d)
  PROVE  StaleInv'
  <1>1. PICK i \in Slots :
          /\ gDevices[i] = NoDevice
          /\ gDevices' = [gDevices EXCEPT ![i] = d]
          /\ adding' = <<d, i>>
    BY DEF Add, AddDeviceEndpoint, IsFirst, PlacesOf
  <1>2. /\ UNCHANGED <<gCurrentEndpointId, endpoints, mEndpointId, refused>>
        /\ UNCHANGED reportVars /\ ~Adding
    BY DEF Add, AddDeviceEndpoint
  <1>3. gDevices \in [Slots -> Devices \cup {NoDevice}]
    BY DEF TableInv, TypeOK, TableTypeOK
  <1>4. ASSUME NEW e \in Devices
        PROVE  PlacesOf(e) \subseteq PlacesOf(e)'
    BY <1>1, <1>3, TableAssumption DEF PlacesOf
  <1>5. ASSUME NEW e \in Devices, NEW id
        PROVE  (Reported(e, id)' <=> Reported(e, id)) /\ (Shows(e, id) => Shows(e, id)')
    BY <1>2, <1>4 DEF Reported, Shows, reportVars
  <1>6. ASSUME NEW e \in Devices \ strayed'
        PROVE  \/ mEndpointId'[e] = 0
               \/ \E j \in PlacesOf(e)' : endpoints'[j] = mEndpointId'[e]
    <2>1. mEndpointId[e] = 0 \/ Shows(e, mEndpointId[e])
      BY <1>2 DEF StaleInv, reportVars
    <2> QED BY <1>2, <1>4, <2>1 DEF Shows
  <1>7. strayed' = strayed
    BY <1>2 DEF reportVars
  <1> QED BY <1>5, <1>6, <1>7, StaleKept

LEMMA TakenNotStale ==
  ASSUME TableInv, StaleInv, Taken
  PROVE  StaleInv'
  <1>1. /\ Adding
        /\ mEndpointId' = [mEndpointId EXCEPT ![adding[1]] = gCurrentEndpointId]
        /\ endpoints' = [endpoints EXCEPT ![adding[2]] = gCurrentEndpointId]
        /\ strayed' = strayed \ Settled
        /\ UNCHANGED <<gDevices, reports>>
    BY DEF Taken, EndpointTaken, TryEndpointId, SetEndpointId
  <1>2. adding[1] \in Devices /\ adding[2] \in Slots
    BY <1>1, AddingTyped DEF TableInv
  <1>3. /\ endpoints \in [Slots -> Ids \cup {NoEndpoint}]
        /\ mEndpointId \in [Devices -> Ids]
        /\ gCurrentEndpointId \in Ids
    BY DEF TableInv, TypeOK, TableTypeOK
  <1>4. gDevices[adding[2]] = adding[1] /\ endpoints[adding[2]] = NoEndpoint
    BY <1>1 DEF TableInv, AddInv
  <1>5. ASSUME NEW d \in Devices \ strayed', NEW id \in Ids \ {0}
        PROVE  /\ Reported(d, id)' => d \notin strayed /\ Reported(d, id)
               /\ d \notin strayed /\ Shows(d, id) => Shows(d, id)'
    <2>1. Reported(d, id)' <=> Reported(d, id)
      BY <1>1 DEF Reported
    <2>2. Reported(d, id) => d \notin strayed
      BY <1>1, <1>5 DEF Reported, Settled
    <2>3. Shows(d, id) => Shows(d, id)'
      <3>1. ASSUME NEW i \in PlacesOf(d), endpoints[i] = id
            PROVE  i \in PlacesOf(d)' /\ endpoints'[i] = id
        BY <1>1, <1>2, <1>3, <1>4, <3>1, TableAssumption DEF PlacesOf
      <3> QED BY <3>1 DEF Shows
    <2> QED BY <2>1, <2>2, <2>3
  <1>6. ASSUME NEW d \in Devices \ strayed'
        PROVE  \/ mEndpointId'[d] = 0
               \/ \E i \in PlacesOf(d)' : endpoints'[i] = mEndpointId'[d]
    <2>1. CASE d = adding[1]
      <3>1. adding[2] \in PlacesOf(d)'
        BY <1>1, <1>2, <1>4, <2>1 DEF PlacesOf
      <3>2. endpoints'[adding[2]] = mEndpointId'[d]
        BY <1>1, <1>2, <1>3, <2>1
      <3> QED BY <3>1, <3>2
    <2>2. CASE d # adding[1]
      <3>1. d \notin strayed
        BY <1>1, <2>2 DEF Settled
      <3>2. mEndpointId'[d] = mEndpointId[d] /\ mEndpointId[d] \in Ids
        BY <1>1, <1>2, <1>3, <2>2
      <3>3. mEndpointId[d] = 0 \/ Shows(d, mEndpointId[d])
        BY <2>2, <3>1 DEF StaleInv
      <3>4. ASSUME NEW i \in PlacesOf(d)
            PROVE  i \in PlacesOf(d)' /\ endpoints'[i] = endpoints[i]
        BY <1>1, <1>2, <1>3, <1>4, <2>2 DEF PlacesOf
      <3> QED BY <3>2, <3>3, <3>4 DEF Shows
    <2> QED BY <2>1, <2>2
  <1> QED BY <1>5, <1>6, StaleKept

LEMMA TriedNotStale ==
  ASSUME TableInv, StaleInv, Duplicate \/ Refused
  PROVE  StaleInv'
  <1>1. /\ Adding
        /\ mEndpointId' = [mEndpointId EXCEPT ![adding[1]] = gCurrentEndpointId]
        /\ UNCHANGED <<gDevices, endpoints, reports>>
        /\ \/ strayed' = strayed /\ adding' = adding
           \/ strayed' = strayed \cup {adding[1]}
    BY DEF Duplicate, EndpointDuplicate, Refused, EndpointRefused, TryEndpointId,
           SetEndpointId, reportVars
  <1>2. adding[1] \in Devices /\ mEndpointId \in [Devices -> Ids]
    BY <1>1, AddingTyped DEF TableInv, TypeOK, TableTypeOK
  <1>3. ASSUME NEW d \in Devices \ strayed', NEW id \in Ids \ {0}
        PROVE  /\ Reported(d, id)' => d \notin strayed /\ Reported(d, id)
               /\ d \notin strayed /\ Shows(d, id) => Shows(d, id)'
    BY <1>1, <1>3 DEF Reported, Shows, PlacesOf
  <1>4. ASSUME NEW d \in Devices \ strayed'
        PROVE  \/ mEndpointId'[d] = 0
               \/ \E i \in PlacesOf(d)' : endpoints'[i] = mEndpointId'[d]
               \/ Adding' /\ adding'[1] = d
    <2>1. CASE d = adding[1]
      BY <1>1, <2>1 DEF Adding
    <2>2. CASE d # adding[1]
      <3>1. mEndpointId'[d] = mEndpointId[d] /\ d \notin strayed
        BY <1>1, <1>2, <2>2
      <3>2. mEndpointId[d] = 0 \/ Shows(d, mEndpointId[d])
        BY <2>2, <3>1 DEF StaleInv
      <3> QED BY <1>1, <3>1, <3>2 DEF Shows, PlacesOf
    <2> QED BY <2>1, <2>2
  <1> QED BY <1>3, <1>4, StaleKept

LEMMA RemoveNotStale ==
  ASSUME TableInv, StaleInv, NEW d \in Devices, Remove(d)
  PROVE  StaleInv'
  <1>1. PICK i \in Slots :
          /\ gDevices[i] = d
          /\ gDevices' = [gDevices EXCEPT ![i] = NoDevice]
          /\ endpoints' = [endpoints EXCEPT ![i] = NoEndpoint]
    BY DEF Remove, RemoveDeviceEndpoint, IsFirst, PlacesOf
  <1>2. /\ UNCHANGED <<mEndpointId, adding, reports>> /\ ~Adding
        /\ strayed' = strayed \cup {d}
    BY DEF Remove, RemoveDeviceEndpoint
  <1>3. /\ gDevices \in [Slots -> Devices \cup {NoDevice}]
        /\ endpoints \in [Slots -> Ids \cup {NoEndpoint}]
    BY DEF TableInv, TypeOK, TableTypeOK
  <1>4. ASSUME NEW e \in Devices \ strayed', NEW j \in PlacesOf(e)
        PROVE  j \in PlacesOf(e)' /\ endpoints'[j] = endpoints[j]
    BY <1>1, <1>2, <1>3 DEF PlacesOf
  <1>5. ASSUME NEW e \in Devices \ strayed', NEW id \in Ids \ {0}
        PROVE  /\ Reported(e, id)' => e \notin strayed /\ Reported(e, id)
               /\ e \notin strayed /\ Shows(e, id) => Shows(e, id)'
    BY <1>2, <1>4 DEF Reported, Shows
  <1>6. ASSUME NEW e \in Devices \ strayed'
        PROVE  \/ mEndpointId'[e] = 0
               \/ \E j \in PlacesOf(e)' : endpoints'[j] = mEndpointId'[e]
    <2>1. mEndpointId[e] = 0 \/ Shows(e, mEndpointId[e])
      BY <1>2 DEF StaleInv
    <2> QED BY <1>2, <1>4, <2>1 DEF Shows
  <1> QED BY <1>5, <1>6, StaleKept

\* A new report names the id its device was told, and the device shows it.
LEMMA SetItemNotStale ==
  ASSUME TableInv, StaleInv, NEW d \in Devices, NEW item \in Items,
         NEW new \in BOOLEAN, SetItem(d, item, new)
  PROVE  StaleInv'
  <1>1. /\ UNCHANGED <<gDevices, endpoints, mEndpointId, adding, strayed>>
        /\ ~Adding
    BY DEF SetItem, tableVars
  <1>2. /\ reports \in Seq(Reports)
        /\ PathOf(d, item) \in Reports
    BY DEF TableInv, TypeOK, TableTypeOK, PathOf, Reports
  <1>3. reports' = reports \/ reports' = Append(reports, PathOf(d, item))
    BY ReportTyped DEF SetItem, TableInv
  <1>4. ASSUME NEW e \in Devices \ strayed', NEW id \in Ids \ {0}, Reported(e, id)'
        PROVE  Shows(e, id)
    <2>1. Reported(e, id) \/ (e = d /\ id = mEndpointId[d])
      <3>1. CASE reports' = reports
        BY <1>4, <3>1 DEF Reported
      <3>2. CASE reports' = Append(reports, PathOf(d, item))
        <4>1. /\ Len(reports) \in Nat /\ Len(reports') = Len(reports) + 1
              /\ \A k \in 1..Len(reports) : reports'[k] = reports[k]
              /\ reports'[Len(reports) + 1] = PathOf(d, item)
          BY <1>2, <3>2, AppendEntries
        <4> QED BY <1>4, <4>1 DEF Reported, PathOf
      <3> QED BY <1>3, <3>1, <3>2
    <2> QED BY <1>1, <2>1 DEF StaleInv
  <1> QED BY <1>1, <1>4 DEF StaleInv, Shows, PlacesOf, Adding

LEMMA ReportingNotStale ==
  ASSUME TableInv, StaleInv, CallReportingCallback
  PROVE  StaleInv'
  <1>1. /\ UNCHANGED <<gDevices, endpoints, mEndpointId, adding, strayed>>
        /\ reports \in Seq(Reports) /\ reports # <<>> /\ reports' = Tail(reports)
    BY DEF CallReportingCallback, tableVars, TableInv, TypeOK
  <1>2. \A k \in 1..Len(reports') :
          reports'[k] = reports[k + 1] /\ k + 1 \in 1..Len(reports)
    BY <1>1, TailEntries
  <1>3. ASSUME NEW d, NEW id, Reported(d, id)'
        PROVE  Reported(d, id)
    BY <1>2, <1>3 DEF Reported
  <1> QED BY <1>1, <1>3 DEF StaleInv, Shows, PlacesOf, Adding

LEMMA NextNotStale ==
  ASSUME TableInv, StaleInv, [Next]_vars
  PROVE  StaleInv'
  <1>1. CASE UNCHANGED vars
    BY <1>1 DEF vars, tableVars, reportVars, StaleInv, Shows, PlacesOf, Reported,
                Adding
  <1>2. ASSUME NEW d \in Devices, SetChangeCallback(d)
        PROVE  StaleInv'
    BY <1>2 DEF SetChangeCallback, tableVars, StaleInv, Shows, PlacesOf, Reported,
                Adding
  <1>3. ASSUME NEW d \in Devices, Add(d) \/ Remove(d)
        PROVE  StaleInv'
    BY <1>3, AddNotStale, RemoveNotStale
  <1>4. CASE Taken \/ Duplicate \/ Refused
    BY <1>4, TakenNotStale, TriedNotStale
  <1>5. ASSUME NEW d \in Devices, NEW item \in Items, NEW new \in BOOLEAN,
               SetItem(d, item, new)
        PROVE  StaleInv'
    BY <1>5, SetItemNotStale
  <1>6. CASE CallReportingCallback
    BY <1>6, ReportingNotStale
  <1> QED BY <1>1, <1>2, <1>3, <1>4, <1>5, <1>6 DEF Next

\* A report names an endpoint of its device, however long it has waited, unless
\* the device was removed or refused meanwhile: ScheduleReportingCallback.
THEOREM ReportsNameTheirDevice == Spec => []StaleReportNeedsRemoval
  <1>1. ASSUME Init
        PROVE  StaleInv
    <2>1. ASSUME NEW d, NEW id
          PROVE  ~Reported(d, id)
      BY <1>1 DEF Init, Reported
    <2>2. \A d \in Devices : mEndpointId[d] = 0
      BY <1>1 DEF Init, TableInit
    <2> QED BY <2>1, <2>2 DEF StaleInv
  <1>2. ASSUME TableInv, StaleInv
        PROVE  StaleReportNeedsRemoval
    <2>1. ASSUME NEW k \in 1..Len(reports), reports[k].dev \notin strayed,
                 reports[k].endpoint # 0
          PROVE  \E i \in PlacesOf(reports[k].dev) :
                   endpoints[i] = reports[k].endpoint
      <3>1. reports[k] \in Reports
        BY <1>2 DEF TableInv, TypeOK
      <3>2. reports[k].dev \in Devices \ strayed /\ reports[k].endpoint \in Ids \ {0}
        BY <2>1, <3>1 DEF Reports
      <3>3. Reported(reports[k].dev, reports[k].endpoint)
        BY DEF Reported
      <3> QED BY <1>2, <3>2, <3>3 DEF StaleInv, Shows
    <2> QED BY <2>1 DEF StaleReportNeedsRemoval
  <1> QED BY <1>1, <1>2, TableInvariant, NextNotStale, PTL DEF Spec
=============================================================================
