----------------------------- MODULE DeviceTable -----------------------------
(***************************************************************************)
(* The table of bridged devices (main/main.cpp): gDevices, the endpoint id *)
(* that is tried next, and the dynamic endpoints of the Matter stack,      *)
(* which has one for each place of gDevices.  Everything runs on the CHIP  *)
(* task.  An endpoint is its id.                                           *)
(***************************************************************************)
EXTENDS Integers

CONSTANTS
  Devices,       \* the Device objects
  SlotCount,     \* CHIP_DEVICE_CONFIG_DYNAMIC_ENDPOINT_COUNT
  IdCount,       \* endpoint ids, 2^16
  FirstDynamic,  \* the id behind those of the fixed endpoints
  NoDevice,      \* an empty place of gDevices
  NoEndpoint     \* a dynamic endpoint that is not set

Slots == 0..(SlotCount - 1)
Ids == 0..(IdCount - 1)

\* There are more ids for dynamic endpoints than places.
ASSUME TableAssumption ==
  /\ SlotCount \in Nat \ {0}
  /\ IdCount \in Nat
  /\ FirstDynamic \in Ids
  /\ SlotCount <= IdCount - FirstDynamic
  /\ NoDevice \notin Devices
  /\ NoEndpoint \notin Ids

VARIABLES
  gDevices,            \* the device at each place
  gCurrentEndpointId,  \* the id to try next
  endpoints,           \* the dynamic endpoints of the stack
  mEndpointId,         \* the id each Device has been told
  adding,              \* the device an add is under way for
  refused              \* history: devices the stack has refused an endpoint

tableVars == <<gDevices, gCurrentEndpointId, endpoints, mEndpointId, adding,
               refused>>

TableTypeOK ==
  /\ gDevices \in [Slots -> Devices \cup {NoDevice}]
  /\ gCurrentEndpointId \in Ids
  /\ endpoints \in [Slots -> Ids \cup {NoEndpoint}]
  /\ mEndpointId \in [Devices -> Ids]
  /\ adding \in (Devices \X Slots) \cup {<<>>}
  /\ refused \subseteq Devices

\* app_main clears gDevices; the constructors of the devices set the id 0.
TableInit ==
  /\ gDevices = [i \in Slots |-> NoDevice]
  /\ endpoints = [i \in Slots |-> NoEndpoint]
  /\ mEndpointId = [d \in Devices |-> 0]
  /\ adding = <<>>
  /\ refused = {}

Adding == adding # <<>>

\* The places a device is at; the lowest of a set of places.
PlacesOf(d) == {i \in Slots : gDevices[i] = d}

IsFirst(i, places) == i \in places /\ \A j \in places : i <= j

EndpointInUse(id) == \E i \in Slots : endpoints[i] = id

-----------------------------------------------------------------------------
(* AddDeviceEndpoint takes the first empty place; if there is none it does    *)
(* nothing.                                                                   *)
AddDeviceEndpoint(d) ==
  /\ ~Adding
  /\ \E i \in Slots :
       /\ IsFirst(i, PlacesOf(NoDevice))
       /\ gDevices' = [gDevices EXCEPT ![i] = d]
       /\ adding' = <<d, i>>
  /\ UNCHANGED <<gCurrentEndpointId, endpoints, mEndpointId, refused>>

\* Three slips: the id grows beyond its 16 bits, wraps round to the fixed
\* endpoints, or is not advanced.
NextEndpointIdWide(id) == id + 1
NextEndpointIdUnchecked(id) == (id + 1) % IdCount
NextEndpointIdStuck(id) == id

\* "Handle wrap condition"
NextEndpointId(id) ==
  LET next == (id + 1) % IdCount
  IN IF next < FirstDynamic THEN FirstDynamic ELSE next

\* A slip: the device is told its first id before the loop, and never again.
SetEndpointIdOnce(d, id) ==
  mEndpointId' = [mEndpointId EXCEPT ![d] = IF @ = 0 THEN id ELSE @]

SetEndpointId(d, id) == mEndpointId' = [mEndpointId EXCEPT ![d] = id]

\* One round of the loop: the device is told the id and the stack is asked.
TryEndpointId ==
  /\ Adding
  /\ SetEndpointId(adding[1], gCurrentEndpointId)
  /\ UNCHANGED gDevices

\* It takes the id for the endpoint of the place.
EndpointTaken ==
  /\ TryEndpointId
  /\ ~EndpointInUse(gCurrentEndpointId)
  /\ endpoints' = [endpoints EXCEPT ![adding[2]] = gCurrentEndpointId]
  /\ adding' = <<>>
  /\ UNCHANGED <<gCurrentEndpointId, refused>>

\* It has an endpoint with that id: the next id is tried.
EndpointDuplicate ==
  /\ TryEndpointId
  /\ EndpointInUse(gCurrentEndpointId)
  /\ gCurrentEndpointId' = NextEndpointId(gCurrentEndpointId)
  /\ UNCHANGED <<endpoints, adding, refused>>

\* It refuses for another reason: the function returns -1 and the device stays
\* in gDevices.
EndpointRefused ==
  /\ TryEndpointId
  /\ refused' = refused \cup {adding[1]}
  /\ adding' = <<>>
  /\ UNCHANGED <<gCurrentEndpointId, endpoints>>

\* A slip: the place is freed and the endpoint stays.
RemoveDeviceEndpointOnly(d) ==
  /\ ~Adding
  /\ \E i \in Slots :
       /\ IsFirst(i, PlacesOf(d))
       /\ gDevices' = [gDevices EXCEPT ![i] = NoDevice]
  /\ UNCHANGED <<gCurrentEndpointId, endpoints, mEndpointId, adding, refused>>

\* RemoveDeviceEndpoint frees the first place of the device and clears the
\* endpoint of that place.
RemoveDeviceEndpoint(d) ==
  /\ ~Adding
  /\ \E i \in Slots :
       /\ IsFirst(i, PlacesOf(d))
       /\ gDevices' = [gDevices EXCEPT ![i] = NoDevice]
       /\ endpoints' = [endpoints EXCEPT ![i] = NoEndpoint]
  /\ UNCHANGED <<gCurrentEndpointId, mEndpointId, adding, refused>>

-----------------------------------------------------------------------------
(* Properties *)

\* However often devices come and go, and although the id wraps round, no
\* bridged device gets the id of a fixed endpoint, and no two the same one.
DynamicIdsApart ==
  \A i \in Slots : endpoints[i] # NoEndpoint =>
    /\ FirstDynamic <= endpoints[i]
    /\ \A j \in Slots \ {i} : endpoints[j] # endpoints[i]

\* A device and its endpoint come and go together: a device in the table has
\* one place, its endpoint exists there and is the one the device was told; an
\* empty place has no endpoint.  Only a device the stack has refused once can
\* be at a place without an endpoint, or at two.
StrayNeedsRefusal ==
  /\ \A i \in Slots : gDevices[i] = NoDevice => endpoints[i] = NoEndpoint
  /\ \A d \in Devices \ refused : ~Adding =>
       \A i, j \in PlacesOf(d) : i = j /\ endpoints[i] = mEndpointId[d]

\* The loop of AddDeviceEndpoint finds an id, whichever ids are in use.
AddEnds == Adding ~> ~Adding
=============================================================================
