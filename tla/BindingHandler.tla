--------------------------- MODULE BindingHandler ---------------------------
(***************************************************************************)
(* The Matter side of the forwarding path (main/BindingHandler.cpp): the   *)
(* work queue of the CHIP task, the BindingCommandData blocks that travel  *)
(* through it, the notifications the binding manager keeps pending, the    *)
(* read interactions under way and the global result_ptr.                  *)
(*                                                                         *)
(* Everything here runs on the CHIP task, one event at a time.  The        *)
(* coap_server task has a higher priority on the only core, so it may run  *)
(* between any two steps below, the two halves of the assignment to        *)
(* result_ptr included.                                                    *)
(*                                                                         *)
(* A request is the identity of one BindingCommandData: every CoAP request *)
(* and every button press allocates exactly one.  A cell is the value one  *)
(* read interaction reports, named by its request and its table entry.     *)
(***************************************************************************)
EXTENDS Integers, Sequences

CONSTANTS
  Requests,      \* CoAP requests and button presses
  Clusters,      \* Matter cluster ids
  OnOff,         \* the cluster id of the OnOff cluster
  AnyCluster,    \* a table entry without a cluster id matches every cluster
  Unicast,       \* binding table entries of the bridge's own endpoint, of
                 \* type EMBER_UNICAST_BINDING ...
  Multicast,     \* ... and of type EMBER_MULTICAST_BINDING
  EntryCluster,  \* the cluster id an entry is for
  QueueSize,     \* events the CHIP event queue holds
  None,          \* the null pointer
  NoData,        \* in place of a block that has not been allocated
  Freed          \* in place of a block that has been deleted

Entries == Unicast \cup Multicast

ASSUME BindingAssumption ==
  /\ OnOff \in Clusters
  /\ Unicast \cap Multicast = {}
  /\ EntryCluster \in [Entries -> Clusters \cup {AnyCluster}]
  /\ QueueSize \in Nat \ {0}
  /\ None \notin Requests
  /\ None \notin Requests \X Entries

Cells == Requests \X Entries

\* The commands of the OnOff cluster the handler knows; an id the mapping does
\* not hold comes out of get_matter_id as -1 and matches no case.
OnOffCommands == {"Off", "On", "Toggle"}
CommandIds == OnOffCommands \cup {"Unmapped"}

CommandData ==
  [clusterId : Clusters, commandId : CommandIds,
   readAttribute : BOOLEAN, writeAttribute : BOOLEAN, isGroup : BOOLEAN]

ASSUME BlockAssumption ==
  NoData # Freed /\ NoData \notin CommandData /\ Freed \notin CommandData

\* A fresh block for a cluster: the flags as the struct initialises them.
NewCommandData(cluster) ==
  [clusterId |-> cluster, commandId |-> "Unmapped",
   readAttribute |-> FALSE, writeAttribute |-> FALSE, isGroup |-> FALSE]

WorkItems ==
  [fn : {"InitServer", "InitBindingHandlerInternal"}, arg : {None}]
    \cup [fn : {"SwitchWorkerFunction"}, arg : Requests]

Work(fn, arg) == [fn |-> fn, arg |-> arg]

VARIABLES
  phase,      \* how far InitServer has come
  queue,      \* the CHIP event queue
  dropped,    \* history: the work items a full queue refused
  data,       \* the BindingCommandData of each request
  table,      \* the binding table
  bmReady,    \* BindingManager::Init has run and the handlers are registered
  pending,    \* notifications waiting for a session with their peer
  reading,    \* read interactions sent and not yet answered
  sent,       \* history: the interactions sent, by request and entry
  result_ptr, \* the cell result_ptr points to
  fresh,      \* the cell onSuccess is assigning, None outside the assignment
  old,        \* the pointer that assignment has read and will delete
  cells,      \* the allocated cells
  fault       \* why the program has died

bindingVars == <<phase, queue, dropped, data, table, bmReady, pending, reading,
                 sent, result_ptr, fresh, old, cells, fault>>

Live(r) == data[r] \notin {NoData, Freed}

Queued(r) == \E i \in 1..Len(queue) :
               queue[i] = Work("SwitchWorkerFunction", r)

Pending(r) == \E b \in Entries : <<r, b>> \in pending

\* An allocated block that nothing will ever release.
Leaked(r) == Live(r) /\ ~Queued(r) /\ ~Pending(r)

BindingTypeOK ==
  /\ phase \in {"boot", "serverInit", "deploying", "up"}
  /\ queue \in Seq(WorkItems)
  /\ dropped \subseteq WorkItems
  /\ data \in [Requests -> CommandData \cup {NoData, Freed}]
  /\ table \subseteq Entries
  /\ bmReady \in BOOLEAN
  /\ pending \subseteq Cells
  /\ reading \subseteq Cells
  /\ sent \subseteq Cells
  /\ result_ptr \in Cells \cup {None}
  /\ fresh \in Cells \cup {None}
  /\ old \in Cells \cup {None}
  /\ cells \subseteq Cells
  /\ fault \in {"none", "null peer_device", "double free"}

\* app_main has posted InitServer to the queue.
BindingInit ==
  /\ phase = "boot"
  /\ queue = <<Work("InitServer", None)>>
  /\ dropped = {}
  /\ data = [r \in Requests |-> NoData]
  /\ table \in SUBSET Entries
  /\ bmReady = FALSE
  /\ pending = {}
  /\ reading = {}
  /\ sent = {}
  /\ result_ptr = None
  /\ fresh = None
  /\ old = None
  /\ cells = {}
  /\ fault = "none"

Running == fault = "none"

\* ScheduleWork: a full queue refuses the item and no caller looks at the
\* error it gets back.
ScheduleWork(item) ==
  IF Len(queue) < QueueSize
  THEN /\ queue' = Append(queue, item)
       /\ dropped' = dropped
  ELSE /\ queue' = queue
       /\ dropped' = dropped \cup {item}

\* The CHIP task is between two events.
ChipIdle == /\ Running
            /\ phase \in {"boot", "up"}
            /\ fresh = None

NextWork(fn) == /\ ChipIdle
                /\ queue # <<>>
                /\ Head(queue).fn = fn
                /\ queue' = Tail(queue)

-----------------------------------------------------------------------------
(* InitServer: three steps, because the AppTask runs beside it. *)

\* The CHIP task takes InitServer from the queue and starts the server.
InitServer ==
  /\ NextWork("InitServer")
  /\ phase' = "serverInit"
  /\ UNCHANGED <<dropped, data, table, bmReady, pending, reading, sent,
                 result_ptr, fresh, old, cells, fault>>

\* It posts the initialisation of the binding manager behind what is queued.
InitBindingHandler ==
  /\ Running
  /\ phase = "serverInit"
  /\ phase' = "deploying"
  /\ ScheduleWork(Work("InitBindingHandlerInternal", None))
  /\ UNCHANGED <<data, table, bmReady, pending, reading, sent,
                 result_ptr, fresh, old, cells, fault>>

\* The devices are deployed, the mappings stored and coap_server is created.
CreateCoapServerTask ==
  /\ Running
  /\ phase = "deploying"
  /\ phase' = "up"
  /\ UNCHANGED <<queue, dropped, data, table, bmReady, pending, reading, sent,
                 result_ptr, fresh, old, cells, fault>>

InitBindingHandlerInternal ==
  /\ NextWork("InitBindingHandlerInternal")
  /\ bmReady' = TRUE
  /\ UNCHANGED <<phase, dropped, data, table, pending, reading, sent,
                 result_ptr, fresh, old, cells, fault>>

\* A controller writes a new entry to the binding table.
BindingWorkerFunction(b) ==
  /\ ChipIdle
  /\ phase = "up"
  /\ b \notin table
  /\ table' = table \cup {b}
  /\ UNCHANGED <<phase, queue, dropped, data, bmReady, pending, reading, sent,
                 result_ptr, fresh, old, cells, fault>>

-----------------------------------------------------------------------------
(* Notifying the bindings of a cluster. *)

Matches(d, b) == EntryCluster[b] \in {AnyCluster, d.clusterId}

\* ProcessOnOffUnicastBindingCommand sends the three commands it knows.
ProcessOnOffUnicastBindingCommand(d) == d.commandId \in OnOffCommands

\* ProcessOnOffGroupBindingCommand does the same for a group.
ProcessOnOffGroupBindingCommand(d) == d.commandId \in OnOffCommands

\* StateChangedHandler uses peer_device, which is null for a multicast entry,
\* for every write and every read.
NullPeer(d, b) ==
  /\ d.writeAttribute \/ d.readAttribute
  /\ b \in Multicast

\* Whether StateChangedHandler sends an interaction to the entry.
StateChangedHandler(d, b) ==
  \/ d.writeAttribute \/ d.readAttribute
  \/ /\ b \in Unicast
     /\ ~d.isGroup
     /\ d.clusterId = OnOff
     /\ ProcessOnOffUnicastBindingCommand(d)
  \/ /\ b \in Multicast
     /\ d.isGroup
     /\ d.clusterId = OnOff
     /\ ProcessOnOffGroupBindingCommand(d)

\* Two slips: the block goes with the first notification that is done, or the
\* release handler is never registered.
ReleaseAtOnce(r, left) == data' = [data EXCEPT ![r] = Freed]
ReleaseNever(r, left) == data' = data

\* ContextReleaseHandler runs when the last reference to the block drops: no
\* notification of the request is left among those given.
ContextReleaseHandler(r, left) ==
  data' = IF \E b \in Entries : <<r, b>> \in left
          THEN data
          ELSE [data EXCEPT ![r] = Freed]

\* NotifyBoundClusterChanged before BindingManager::Init: an error nobody looks
\* at, and the block is not released.
NotifyUninitialised(r) ==
  /\ ~bmReady
  /\ UNCHANGED <<data, pending, sent, fault>>

\* It reaches a multicast entry with an attribute access.
NotifyNullPeer(r) ==
  /\ bmReady
  /\ \E b \in table : Matches(data[r], b) /\ NullPeer(data[r], b)
  /\ fault' = "null peer_device"
  /\ UNCHANGED <<data, pending, sent>>

\* It hands the block to every entry that matches: a multicast entry at once,
\* a unicast entry when there is a session with the peer.
NotifyMatching(r) ==
  LET entries == {b \in table : Matches(data[r], b)}
      groups  == {b \in entries \cap Multicast :
                    StateChangedHandler(data[r], b)}
      waiting == pending \cup {<<r, b>> : b \in entries \cap Unicast}
  IN /\ bmReady
     /\ \A b \in entries : ~NullPeer(data[r], b)
     /\ pending' = waiting
     /\ sent' = sent \cup {<<r, b>> : b \in groups}
     /\ ContextReleaseHandler(r, waiting)
     /\ fault' = fault

SwitchWorkerFunction ==
  /\ NextWork("SwitchWorkerFunction")
  /\ LET r == Head(queue).arg
     IN NotifyUninitialised(r) \/ NotifyNullPeer(r) \/ NotifyMatching(r)
  /\ UNCHANGED <<phase, dropped, table, bmReady, reading, result_ptr, fresh,
                 old, cells>>

\* ProcessReadAttribute, ProcessWriteAttribute: the session with the peer of a
\* unicast entry is there and the handler sends the interaction.
DeviceConnected(r, b) ==
  /\ ChipIdle
  /\ <<r, b>> \in pending
  /\ pending' = pending \ {<<r, b>>}
  /\ sent' = IF StateChangedHandler(data[r], b)
             THEN sent \cup {<<r, b>>} ELSE sent
  /\ reading' = IF ~data[r].writeAttribute /\ data[r].readAttribute
                THEN reading \cup {<<r, b>>} ELSE reading
  /\ ContextReleaseHandler(r, pending')
  /\ UNCHANGED <<phase, queue, dropped, table, bmReady, result_ptr, fresh, old,
                 cells, fault>>

\* No session with the peer, or a newer notification of the entry: the binding
\* manager drops the notification.
NotificationDropped(r, b) ==
  /\ ChipIdle
  /\ <<r, b>> \in pending
  /\ pending' = pending \ {<<r, b>>}
  /\ ContextReleaseHandler(r, pending')
  /\ UNCHANGED <<phase, queue, dropped, table, bmReady, reading, sent,
                 result_ptr, fresh, old, cells, fault>>

-----------------------------------------------------------------------------
(* The callbacks of ProcessReadAttribute. *)

\* onSuccess allocates a cell and starts assigning it to result_ptr: the move
\* assignment of unique_ptr reads the old pointer ...
OnReadSuccess(r, b) ==
  /\ ChipIdle
  /\ <<r, b>> \in reading
  /\ reading' = reading \ {<<r, b>>}
  /\ cells' = cells \cup {<<r, b>>}
  /\ fresh' = <<r, b>>
  /\ old' = result_ptr
  /\ UNCHANGED <<phase, queue, dropped, data, table, bmReady, pending, sent,
                 result_ptr, fault>>

\* ... stores the new one and deletes what it read.
AssignResult ==
  /\ Running
  /\ fresh # None
  /\ result_ptr' = fresh
  /\ fresh' = None
  /\ old' = None
  /\ cells' = cells \ {old}
  /\ fault' = IF old = None \/ old \in cells THEN fault ELSE "double free"
  /\ UNCHANGED <<phase, queue, dropped, data, table, bmReady, pending, reading,
                 sent>>

\* onFailure logs and leaves result_ptr alone.
OnReadFailure(r, b) ==
  /\ ChipIdle
  /\ <<r, b>> \in reading
  /\ reading' = reading \ {<<r, b>>}
  /\ UNCHANGED <<phase, queue, dropped, data, table, bmReady, pending, sent,
                 result_ptr, fresh, old, cells, fault>>

ReadAnswered(r, b) == OnReadSuccess(r, b) \/ OnReadFailure(r, b)

ConnectionResult(r, b) == DeviceConnected(r, b) \/ NotificationDropped(r, b)

Boot == InitServer \/ InitBindingHandler \/ CreateCoapServerTask

ChipWork == InitBindingHandlerInternal \/ SwitchWorkerFunction \/ AssignResult
=============================================================================
