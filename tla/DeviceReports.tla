---------------------------- MODULE DeviceReports ----------------------------
(***************************************************************************)
(* Devices that change (main/Device.cpp) and the reports of their changes  *)
(* (HandleDeviceStatusChanged and what it calls in main/main.cpp), over    *)
(* the table of devices.  The bridge itself adds two devices and sets no   *)
(* callback; these functions are kept for users of the table, who may call *)
(* them in any order.                                                      *)
(***************************************************************************)
EXTENDS DeviceTable, Sequences

CONSTANTS
  Items,        \* what can change: the Changed_t of the setters in use
  ReportQueue   \* events the CHIP queue has room for

Changed_t == {"Reachable", "State", "Location", "Name"}

ASSUME ReportsAssumption ==
  /\ Items \subseteq Changed_t
  /\ ReportQueue \in Nat \ {0}

VARIABLES
  value,       \* the items of each device, of which only changes matter
  mChanged_CB, \* the devices whose callback is HandleDeviceStatusChanged
  reports,     \* paths waiting for CallReportingCallback, with their device
  unseen,      \* history: changes the stack has not been told of, without
               \* those made while the queue was full
  strayed      \* history: devices removed or refused that may have reports of
               \* the time before

reportVars == <<value, mChanged_CB, reports, unseen, strayed>>
vars == <<tableVars, reportVars>>

Changes == Devices \X Items

Reports == [dev : Devices, endpoint : Ids, item : Items]

TypeOK ==
  /\ TableTypeOK
  /\ value \in [Changes -> BOOLEAN]
  /\ mChanged_CB \subseteq Devices
  /\ reports \in Seq(Reports)
  /\ Len(reports) <= ReportQueue
  /\ unseen \subseteq Changes
  /\ strayed \subseteq Devices

Init ==
  /\ TableInit
  /\ gCurrentEndpointId = FirstDynamic
  /\ value = [c \in Changes |-> FALSE]
  /\ mChanged_CB = {}
  /\ reports = <<>>
  /\ unseen = {}
  /\ strayed = {}

-----------------------------------------------------------------------------
(* The table.  A caller adds a device that is not in the table, or tries      *)
(* again after it was refused.                                                *)

Add(d) ==
  /\ PlacesOf(d) = {} \/ d \in refused
  /\ AddDeviceEndpoint(d)
  /\ UNCHANGED reportVars

\* The device being added, if no report of it is on its way.
Settled ==
  {d \in {adding[1]} : \A k \in 1..Len(reports) : reports[k].dev # d}

Taken ==
  /\ EndpointTaken
  /\ strayed' = strayed \ Settled
  /\ UNCHANGED <<value, mChanged_CB, reports, unseen>>

Duplicate == EndpointDuplicate /\ UNCHANGED reportVars

Refused ==
  /\ EndpointRefused
  /\ strayed' = strayed \cup {adding[1]}
  /\ UNCHANGED <<value, mChanged_CB, reports, unseen>>

Remove(d) ==
  /\ RemoveDeviceEndpoint(d)
  /\ strayed' = strayed \cup {d}
  /\ UNCHANGED <<value, mChanged_CB, reports, unseen>>

-----------------------------------------------------------------------------
(* Device *)

SetChangeCallback(d) ==
  /\ ~Adding
  /\ d \notin mChanged_CB
  /\ mChanged_CB' = mChanged_CB \cup {d}
  /\ UNCHANGED <<tableVars, value, reports, unseen, strayed>>

\* The attribute of the Matter cluster that shows an item; the location has none.
HasAttribute(item) == item \in {"Reachable", "State", "Name"}

\* The path ScheduleReportingCallback allocates: the endpoint is read now.
PathOf(d, item) == [dev |-> d, endpoint |-> mEndpointId[d], item |-> item]

\* ScheduleReportingCallback: nobody looks at the result of ScheduleWork.
ScheduleReportingCallback(d, item) ==
  reports' = IF Len(reports) < ReportQueue
             THEN Append(reports, PathOf(d, item)) ELSE reports

HandleDeviceStatusChanged(d, item) ==
  \/ HasAttribute(item) /\ ScheduleReportingCallback(d, item)
  \/ ~HasAttribute(item) /\ UNCHANGED reports

\* TRUE stands for a text that is longer than the buffer of the device, which
\* keeps what fits.
Overlong(item, new) == item \in {"Location", "Name"} /\ new

\* A slip: the comparison comes after the assignment.
ChangedAfterwards(d, item, new) == new # new

\* The setters compare before they assign: the buffer with the whole text, which
\* differ whenever it does not fit.
Changed(d, item, new) == value[<<d, item>>] # new \/ Overlong(item, new)

\* SetOnOff, SetReachable, SetName and SetLocation.
SetItem(d, item, new) ==
  /\ ~Adding
  /\ value' = [value EXCEPT ![<<d, item>>] = new]
  /\ \/ /\ Changed(d, item, new) /\ d \in mChanged_CB
        /\ HandleDeviceStatusChanged(d, item)
     \/ /\ ~(Changed(d, item, new) /\ d \in mChanged_CB)
        /\ UNCHANGED reports
  /\ unseen' = IF /\ value' # value
                  /\ d \in mChanged_CB
                  /\ HasAttribute(item)
                  /\ Len(reports) < ReportQueue
               THEN unseen \cup {<<d, item>>} ELSE unseen
  /\ UNCHANGED <<tableVars, mChanged_CB, strayed>>

\* The CHIP task tells the stack that the attribute has changed.
CallReportingCallback ==
  /\ ~Adding
  /\ reports # <<>>
  /\ reports' = Tail(reports)
  /\ unseen' = unseen \ {<<Head(reports).dev, Head(reports).item>>}
  /\ UNCHANGED <<tableVars, value, mChanged_CB, strayed>>

Next ==
  \/ \E d \in Devices : Add(d) \/ Remove(d) \/ SetChangeCallback(d)
  \/ Taken \/ Duplicate \/ Refused
  \/ \E d \in Devices, item \in Items, new \in BOOLEAN : SetItem(d, item, new)
  \/ CallReportingCallback

Spec == Init /\ [][Next]_vars

\* The loop of AddDeviceEndpoint goes on; the stack need not refuse.
FairSpec == Spec /\ WF_vars(Taken \/ Duplicate)

-----------------------------------------------------------------------------
(* Properties *)

\* A change of a device that has a callback is on its way to the stack, unless
\* the CHIP queue was full; a later change is not swallowed by an earlier one.
ChangeIsReported ==
  \A c \in unseen :
    \E k \in 1..Len(reports) : <<reports[k].dev, reports[k].item>> = c

\* A path holds the endpoint id of the moment of the change and is used later.
\* Unless the device has been removed or refused in between, or the change was
\* made before the device was added, it names the endpoint of its device.
StaleReportNeedsRemoval ==
  \A k \in 1..Len(reports) :
    LET r == reports[k]
    IN ~Adding /\ r.dev \notin strayed /\ r.endpoint # 0 =>
         \E i \in PlacesOf(r.dev) : endpoints[i] = r.endpoint
=============================================================================
