-------------------------- MODULE CoapServerProofs --------------------------
(***************************************************************************)
(* Proofs about CoapServer for any number of requests, table entries,      *)
(* resources, polls and queue slots.                                       *)
(***************************************************************************)
EXTENDS CoapServer, TLAPS

USE DEF Cells, Entries, Uris

LEMMA InitType == Init => TypeOK
<1> SUFFICES ASSUME Init PROVE TypeOK
  OBVIOUS
<1>1. Work("InitServer", None) \in WorkItems
  BY DEF WorkItems, Work
<1>2. queue \in Seq(WorkItems)
  BY <1>1 DEF Init, BindingInit
<1>3. BindingTypeOK
  BY <1>2 DEF Init, BindingInit, BindingTypeOK
<1> QED
  BY <1>3, CoapServerAssumption DEF Init, TypeOK

\* Every request record the three Forward functions build is a CommandData.
LEMMA CommandDataType ==
  ASSUME NEW c \in Clusters
  PROVE  /\ NewCommandData(c) \in CommandData
         /\ [NewCommandData(c) EXCEPT !.writeAttribute = TRUE] \in CommandData
         /\ [NewCommandData(c) EXCEPT !.readAttribute = TRUE] \in CommandData
         /\ \A k \in CommandIds :
              [NewCommandData(c) EXCEPT !.commandId = k] \in CommandData
  BY DEF NewCommandData, CommandData, CommandIds, OnOffCommands

\* Taking the first item of the queue or posting another one.
LEMMA QueueType ==
  ASSUME NEW q \in Seq(WorkItems)
  PROVE  /\ q # <<>> => Tail(q) \in Seq(WorkItems) /\ Head(q) \in WorkItems
         /\ \A w \in WorkItems : Append(q, w) \in Seq(WorkItems)
  OBVIOUS

LEMMA ScheduleType ==
  ASSUME TypeOK, NEW w \in WorkItems, ScheduleWork(w)
  PROVE  queue' \in Seq(WorkItems) /\ dropped' \subseteq WorkItems
  BY QueueType DEF ScheduleWork, TypeOK, BindingTypeOK

LEMMA ForwardType ==
  ASSUME TypeOK, NEW r \in Requests, NEW d \in CommandData,
         NEW how \in {"get", "put", "command", "button"}, Forward(r, d, how)
  PROVE  BindingTypeOK' /\ method' \in [Requests -> {"none", "get", "put", "command", "button"}]
<1>1. Work("SwitchWorkerFunction", r) \in WorkItems
  BY DEF WorkItems, Work
<1>2. queue' \in Seq(WorkItems) /\ dropped' \subseteq WorkItems
  BY <1>1, ScheduleType DEF Forward
<1> QED
  BY <1>2 DEF Forward, TypeOK, BindingTypeOK

LEMMA ReleaseType ==
  ASSUME TypeOK, NEW r \in Requests, NEW left, ContextReleaseHandler(r, left)
  PROVE  data' \in [Requests -> CommandData \cup {NoData, Freed}]
  BY DEF ContextReleaseHandler, TypeOK, BindingTypeOK

\* The steps of the handlers and of the button, by what they do to the state.
GetArrives(r, d) ==
  /\ Serving
  /\ Forward(r, d, "get") /\ d.readAttribute
  /\ pc' = "wait" /\ cur' = r /\ tries' = Tries
  /\ UNCHANGED <<reply, value>>

PutArrives(r, d, how) ==
  /\ Serving
  /\ Forward(r, d, how) /\ ~d.readAttribute
  /\ Changed(r)

ButtonArrives(r, d) ==
  /\ Running
  /\ Forward(r, d, "button") /\ ~d.readAttribute
  /\ UNCHANGED <<pc, cur, tries, reply, value>>

HandlerEnds(kind) ==
  /\ Asleep
  /\ Respond(kind)
  /\ kind = "content" <=> result_ptr # None

LEMMA NewCommandDataFields ==
  ASSUME NEW c \in Clusters
  PROVE  /\ [NewCommandData(c) EXCEPT !.readAttribute = TRUE].readAttribute
         /\ ~[NewCommandData(c) EXCEPT !.writeAttribute = TRUE].readAttribute
         /\ \A k \in CommandIds :
              ~[NewCommandData(c) EXCEPT !.commandId = k].readAttribute
  BY DEF NewCommandData

LEMMA NextCases ==
  ASSUME [Next]_vars
  PROVE  \/ (Boot \/ ChipWork) /\ UNCHANGED coapVars
         \/ \E b \in Entries : BindingWorkerFunction(b) /\ UNCHANGED coapVars
         \/ \E r \in Requests, b \in Entries :
              ConnectionResult(r, b) /\ UNCHANGED coapVars
         \/ \E r \in Requests, b \in Entries :
              ReadAnswered(r, b) /\ UNCHANGED coapVars
         \/ \E r \in Requests, d \in CommandData : GetArrives(r, d)
         \/ \E r \in Requests, d \in CommandData, how \in {"put", "command"} :
              PutArrives(r, d, how)
         \/ \E r \in Requests, d \in CommandData : ButtonArrives(r, d)
         \/ \E kind \in {"content", "undefined"} : HandlerEnds(kind)
         \/ PollAgain
         \/ UNCHANGED vars
<1> USE BindingAssumption, CoapServerAssumption
<1>1. CASE ChipStep /\ UNCHANGED coapVars
  BY <1>1 DEF ChipStep
<1>2. ASSUME NEW r \in Requests, NEW uri \in ReadUris, hnd_attribute_get(r, uri)
      PROVE  \E d \in CommandData : GetArrives(r, d)
  BY <1>2, CommandDataType, NewCommandDataFields
  DEF hnd_attribute_get, ForwardAttributeReadMessage, GetArrives
<1>3. ASSUME NEW r \in Requests, NEW uri \in WriteUris, hnd_attribute_put(r, uri)
      PROVE  \E d \in CommandData : PutArrives(r, d, "put")
  BY <1>3, CommandDataType, NewCommandDataFields
  DEF hnd_attribute_put, ForwardAttributeWriteMessage, PutArrives
<1>4. ASSUME NEW r \in Requests, NEW uri \in CommandUris, hnd_command_put(r, uri)
      PROVE  \E d \in CommandData : PutArrives(r, d, "command")
  BY <1>4, CommandDataType, NewCommandDataFields
  DEF hnd_command_put, ForwardCommandMessage, PutArrives
<1>5. ASSUME NEW r \in Requests, SwitchActionEventHandler(r)
      PROVE  \E d \in CommandData : ButtonArrives(r, d)
  <2>1. "Toggle" \in CommandIds
    BY DEF CommandIds, OnOffCommands
  <2> QED
    BY <1>5, <2>1, CommandDataType, NewCommandDataFields
    DEF SwitchActionEventHandler, ButtonArrives
<1>6. CASE Poll
  BY <1>6 DEF Poll, PollResult, PollGiveUp, HandlerEnds
<1> QED
  BY <1>1, <1>2, <1>3, <1>4, <1>5, <1>6 DEF Next, CoapStep, AppStep

LEMMA NextType == TypeOK /\ [Next]_vars => TypeOK'
<1> SUFFICES ASSUME TypeOK, [Next]_vars PROVE TypeOK'
  OBVIOUS
<1> USE BindingAssumption, CoapServerAssumption
<1>1. CASE Boot /\ UNCHANGED coapVars
  <2>1. Work("InitBindingHandlerInternal", None) \in WorkItems
    BY DEF WorkItems, Work
  <2>2. CASE InitServer
    BY <1>1, <2>2, QueueType
    DEF InitServer, NextWork, coapVars, TypeOK, BindingTypeOK
  <2>3. CASE InitBindingHandler
    <3>1. queue' \in Seq(WorkItems) /\ dropped' \subseteq WorkItems
      BY <2>1, <2>3, ScheduleType DEF InitBindingHandler
    <3> QED
      BY <1>1, <2>3, <3>1 DEF InitBindingHandler, coapVars, TypeOK, BindingTypeOK
  <2>4. CASE CreateCoapServerTask
    BY <1>1, <2>4 DEF CreateCoapServerTask, coapVars, TypeOK, BindingTypeOK
  <2> QED
    BY <1>1, <2>2, <2>3, <2>4 DEF Boot
<1>2. CASE ChipWork /\ UNCHANGED coapVars
  <2>1. CASE InitBindingHandlerInternal
    BY <1>2, <2>1, QueueType
    DEF InitBindingHandlerInternal, NextWork, coapVars, TypeOK, BindingTypeOK
  <2>2. CASE SwitchWorkerFunction
    <3> DEFINE r == Head(queue).arg
    <3>1. r \in Requests /\ queue' \in Seq(WorkItems)
      BY <2>2, QueueType
      DEF SwitchWorkerFunction, NextWork, WorkItems, TypeOK, BindingTypeOK
    <3>2. CASE NotifyUninitialised(r)
      BY <1>2, <2>2, <3>1, <3>2
      DEF SwitchWorkerFunction, NotifyUninitialised, coapVars, TypeOK, BindingTypeOK
    <3>3. CASE NotifyNullPeer(r)
      BY <1>2, <2>2, <3>1, <3>3
      DEF SwitchWorkerFunction, NotifyNullPeer, coapVars, TypeOK, BindingTypeOK
    <3>4. CASE NotifyMatching(r)
      <4>1. data' \in [Requests -> CommandData \cup {NoData, Freed}]
        BY <3>1, <3>4, ReleaseType DEF NotifyMatching
      <4>2. pending' \subseteq Cells /\ sent' \subseteq Cells
        <5>1. \A b \in table : b \in Entries /\ <<Head(queue).arg, b>> \in Cells
          BY <3>1 DEF TypeOK, BindingTypeOK
        <5>2. pending \subseteq Cells /\ sent \subseteq Cells
          BY DEF TypeOK, BindingTypeOK
        <5> HIDE DEF Cells
        <5> QED
          BY <3>4, <5>1, <5>2 DEF NotifyMatching
      <4>3. UNCHANGED <<phase, dropped, table, bmReady, reading, result_ptr,
                        fresh, old, cells, fault>>
        BY <2>2, <3>4 DEF SwitchWorkerFunction, NotifyMatching
      <4>4. BindingTypeOK'
        BY <3>1, <4>1, <4>2, <4>3 DEF TypeOK, BindingTypeOK
      <4> QED
        BY <1>2, <4>4 DEF coapVars, TypeOK
    <3> QED
      BY <2>2, <3>2, <3>3, <3>4 DEF SwitchWorkerFunction
  <2>3. CASE AssignResult
    BY <1>2, <2>3 DEF AssignResult, coapVars, TypeOK, BindingTypeOK
  <2> QED
    BY <1>2, <2>1, <2>2, <2>3 DEF ChipWork
<1>3. ASSUME NEW b \in Entries, BindingWorkerFunction(b), UNCHANGED coapVars
      PROVE  TypeOK'
  BY <1>3 DEF BindingWorkerFunction, coapVars, TypeOK, BindingTypeOK
<1>4. ASSUME NEW r \in Requests, NEW b \in Entries, ConnectionResult(r, b),
             UNCHANGED coapVars
      PROVE  TypeOK'
  <2>1. data' \in [Requests -> CommandData \cup {NoData, Freed}]
    BY <1>4, ReleaseType DEF ConnectionResult, DeviceConnected, NotificationDropped
  <2>2. CASE DeviceConnected(r, b)
    BY <1>4, <2>1, <2>2 DEF DeviceConnected, coapVars, TypeOK, BindingTypeOK
  <2>3. CASE NotificationDropped(r, b)
    BY <1>4, <2>1, <2>3 DEF NotificationDropped, coapVars, TypeOK, BindingTypeOK
  <2> QED
    BY <1>4, <2>2, <2>3 DEF ConnectionResult
<1>5. ASSUME NEW r \in Requests, NEW b \in Entries, ReadAnswered(r, b),
             UNCHANGED coapVars
      PROVE  TypeOK'
  BY <1>5
  DEF ReadAnswered, OnReadSuccess, OnReadFailure, coapVars, TypeOK, BindingTypeOK
<1>6. ASSUME NEW r \in Requests, NEW d \in CommandData,
             GetArrives(r, d) \/ PutArrives(r, d, "put")
               \/ PutArrives(r, d, "command") \/ ButtonArrives(r, d)
      PROVE  TypeOK'
  <2>1. BindingTypeOK' /\ method' \in [Requests -> {"none", "get", "put", "command", "button"}]
    BY <1>6, ForwardType DEF GetArrives, PutArrives, ButtonArrives
  <2> QED
    BY <1>6, <2>1 DEF GetArrives, PutArrives, ButtonArrives, Changed, TypeOK
<1>7. ASSUME NEW kind \in {"content", "undefined"}, HandlerEnds(kind)
      PROVE  TypeOK'
  <2>1. BindingTypeOK'
    BY <1>7 DEF HandlerEnds, Respond, EndOfHandler, TypeOK, BindingTypeOK
  <2>2. reply' \in [Requests -> {"none", "changed", "content", "undefined"}]
    BY <1>7 DEF HandlerEnds, Respond, EndOfHandler, TypeOK
  <2>3. value' \in [Requests -> Cells \cup {None}]
    BY <1>7 DEF HandlerEnds, Respond, EndOfHandler, TypeOK, BindingTypeOK
  <2> QED
    BY <1>7, <2>1, <2>2, <2>3 DEF HandlerEnds, Respond, EndOfHandler, TypeOK
<1>8. CASE PollAgain
  <2>1. BindingTypeOK'
    BY <1>8 DEF PollAgain, bindingVars, TypeOK, BindingTypeOK
  <2> QED
    BY <1>8, <2>1 DEF PollAgain, TypeOK
<1>9. CASE UNCHANGED vars
  BY <1>9 DEF vars, bindingVars, coapVars, TypeOK, BindingTypeOK
<1> QED
  BY <1>1, <1>2, <1>3, <1>4, <1>5, <1>6, <1>7, <1>8, <1>9, NextCases

\* The types of every variable, whatever the constants.
THEOREM TypeCorrect == Spec => []TypeOK
  BY InitType, NextType, PTL DEF Spec
-----------------------------------------------------------------------------
(* Blocks and the queue. *)

\* NoUseAfterRelease with what keeps it true: a request that has not arrived
\* owns nothing, and one that waits in the queue has sent nothing.
BlockInv ==
  /\ NoUseAfterRelease
  /\ \A r \in Requests : method[r] = "none" => data[r] = NoData
  /\ \A r \in Requests, b \in Entries :
       <<r, b>> \in sent => data[r] # NoData /\ ~Queued(r)
  /\ pending \cap sent = {}

LEMMA TailFacts ==
  ASSUME NEW S, NEW q \in Seq(S), q # <<>>
  PROVE  /\ Len(q) \in Nat /\ Len(q) > 0
         /\ Head(q) = q[1]
         /\ Len(Tail(q)) = Len(q) - 1
         /\ \A i \in 1..Len(Tail(q)) : Tail(q)[i] = q[i + 1]
  OBVIOUS

LEMMA AppendFacts ==
  ASSUME NEW S, NEW q \in Seq(S), NEW x \in S
  PROVE  /\ Len(q) \in Nat
         /\ Len(Append(q, x)) = Len(q) + 1
         /\ Append(q, x)[Len(q) + 1] = x
         /\ \A i \in 1..Len(q) : Append(q, x)[i] = q[i]
  OBVIOUS

\* Taking an item leaves no second copy of it behind.
LEMMA Dequeue ==
  ASSUME TypeOK, NoUseAfterRelease, NEW fn, NextWork(fn)
  PROVE  /\ \A s \in Requests : Queued(s)' => Queued(s)
         /\ \A i, j \in 1..Len(queue') :
              queue'[i] = queue'[j] /\ queue'[i].fn = "SwitchWorkerFunction" => i = j
         /\ fn = "SwitchWorkerFunction" =>
              \E r \in Requests : r = Head(queue).arg /\ Queued(r) /\ ~Queued(r)'
<1>1. queue \in Seq(WorkItems) /\ queue # <<>> /\ queue' = Tail(queue)
  BY DEF NextWork, TypeOK, BindingTypeOK
<1>2. /\ Len(queue) \in Nat /\ Len(queue) > 0
      /\ Head(queue) = queue[1]
      /\ Len(queue') = Len(queue) - 1
      /\ \A i \in 1..Len(queue') : queue'[i] = queue[i + 1]
  BY <1>1, TailFacts
<1>3. \A s \in Requests : Queued(s)' => Queued(s)
  BY <1>2 DEF Queued
<1>4. \A i, j \in 1..Len(queue') :
        queue'[i] = queue'[j] /\ queue'[i].fn = "SwitchWorkerFunction" => i = j
  BY <1>2 DEF NoUseAfterRelease
<1>5. ASSUME fn = "SwitchWorkerFunction"
      PROVE  \E r \in Requests : r = Head(queue).arg /\ Queued(r) /\ ~Queued(r)'
  <2>1. queue[1] \in WorkItems /\ queue[1].fn = "SwitchWorkerFunction"
    BY <1>1, <1>2, <1>5 DEF NextWork
  <2>2. PICK r \in Requests : queue[1] = Work("SwitchWorkerFunction", r)
    BY <2>1 DEF WorkItems, Work
  <2>3. \A i \in 1..Len(queue') : queue'[i] # queue[1]
    BY <1>2, <2>1 DEF NoUseAfterRelease
  <2>4. r = Head(queue).arg /\ 1 \in 1..Len(queue)
    BY <1>2, <2>2 DEF Work
  <2> QED
    BY <2>2, <2>3, <2>4 DEF Queued
<1> QED
  BY <1>3, <1>4, <1>5

\* Posting an item that is not there adds one copy, or none.
LEMMA Enqueue ==
  ASSUME TypeOK, NoUseAfterRelease, NEW w \in WorkItems, ScheduleWork(w),
         w.fn = "SwitchWorkerFunction" => ~Queued(w.arg)
  PROVE  /\ \A s \in Requests :
              Queued(s)' => Queued(s) \/ w = Work("SwitchWorkerFunction", s)
         /\ \A i, j \in 1..Len(queue') :
              queue'[i] = queue'[j] /\ queue'[i].fn = "SwitchWorkerFunction" => i = j
<1>1. CASE queue' = queue
  BY <1>1 DEF Queued, NoUseAfterRelease
<1>2. CASE queue' = Append(queue, w)
  <2>1. /\ Len(queue) \in Nat
        /\ Len(queue') = Len(queue) + 1
        /\ queue'[Len(queue) + 1] = w
        /\ \A i \in 1..Len(queue) : queue'[i] = queue[i]
    <3>1. queue \in Seq(WorkItems)
      BY DEF TypeOK, BindingTypeOK
    <3> QED
      BY <1>2, <3>1, AppendFacts
  <2>2. w.fn = "SwitchWorkerFunction" => \A i \in 1..Len(queue) : queue[i] # w
    <3>1. w.fn = "SwitchWorkerFunction" => w = Work("SwitchWorkerFunction", w.arg)
      BY DEF WorkItems, Work
    <3>2. ASSUME w.fn = "SwitchWorkerFunction" PROVE w.arg \in Requests
      BY <3>2 DEF WorkItems
    <3> QED
      BY <3>1, <3>2 DEF Queued
  <2>3. \A i \in 1..Len(queue') : i \in 1..Len(queue) \/ queue'[i] = w
    BY <2>1
  <2>4. ASSUME NEW s \in Requests, Queued(s)'
        PROVE  Queued(s) \/ w = Work("SwitchWorkerFunction", s)
    BY <2>1, <2>3, <2>4 DEF Queued
  <2>5. ASSUME NEW i \in 1..Len(queue'), NEW j \in 1..Len(queue'),
               queue'[i] = queue'[j], queue'[i].fn = "SwitchWorkerFunction"
        PROVE  i = j
    <3>1. CASE i \in 1..Len(queue) /\ j \in 1..Len(queue)
      BY <2>1, <2>5, <3>1 DEF NoUseAfterRelease
    <3>2. CASE i \notin 1..Len(queue) \/ j \notin 1..Len(queue)
      BY <2>1, <2>2, <2>3, <2>5, <3>2
    <3> QED
      BY <3>1, <3>2
  <2> QED
    BY <2>4, <2>5
<1> QED
  BY <1>1, <1>2 DEF ScheduleWork

blockVars == <<queue, data, method, pending, sent>>

LEMMA BlockStutter == BlockInv /\ UNCHANGED blockVars => BlockInv'
  BY DEF BlockInv, blockVars, NoUseAfterRelease, Queued, Pending, Live

\* The items that carry no block.
LEMMA BlockBoot ==
  ASSUME TypeOK, BlockInv, Boot \/ InitBindingHandlerInternal, UNCHANGED coapVars
  PROVE  BlockInv'
<1>1. UNCHANGED <<data, method, pending, sent>>
  BY DEF Boot, InitServer, InitBindingHandler, CreateCoapServerTask,
         InitBindingHandlerInternal, coapVars
<1>2. /\ \A s \in Requests : Queued(s)' => Queued(s)
      /\ \A i, j \in 1..Len(queue') :
           queue'[i] = queue'[j] /\ queue'[i].fn = "SwitchWorkerFunction" => i = j
  <2>1. CASE NextWork("InitServer") \/ NextWork("InitBindingHandlerInternal")
    BY <2>1, Dequeue DEF BlockInv
  <2>2. CASE ScheduleWork(Work("InitBindingHandlerInternal", None))
    <3> DEFINE w == Work("InitBindingHandlerInternal", None)
    <3>1. /\ w \in WorkItems
          /\ w.fn # "SwitchWorkerFunction"
          /\ \A s \in Requests : w # Work("SwitchWorkerFunction", s)
      BY DEF WorkItems, Work
    <3> QED
      BY <2>2, <3>1, Enqueue DEF BlockInv
  <2>3. CASE queue' = queue
    BY <2>3 DEF BlockInv, NoUseAfterRelease, Queued
  <2> QED
    BY <2>1, <2>2, <2>3
    DEF Boot, InitServer, InitBindingHandler, CreateCoapServerTask,
        InitBindingHandlerInternal
<1> QED
  BY <1>1, <1>2 DEF BlockInv, NoUseAfterRelease, Pending, Live

\* The last notification of a request releases its block.
LEMMA ReleaseFacts ==
  ASSUME TypeOK, NEW r \in Requests, NEW left, ContextReleaseHandler(r, left)
  PROVE  /\ \A s \in Requests \ {r} : data'[s] = data[s]
         /\ data'[r] = IF \E b \in Entries : <<r, b>> \in left
                        THEN data[r] ELSE Freed
  BY DEF ContextReleaseHandler, TypeOK, BindingTypeOK

LEMMA BlockSwitch ==
  ASSUME TypeOK, BlockInv, SwitchWorkerFunction, UNCHANGED coapVars
  PROVE  BlockInv'
<1>1. PICK r \in Requests : r = Head(queue).arg /\ Queued(r) /\ ~Queued(r)'
  BY Dequeue DEF SwitchWorkerFunction, BlockInv
<1>2. /\ \A s \in Requests : Queued(s)' => Queued(s)
      /\ \A i, j \in 1..Len(queue') :
           queue'[i] = queue'[j] /\ queue'[i].fn = "SwitchWorkerFunction" => i = j
  BY Dequeue DEF SwitchWorkerFunction, BlockInv
<1>3. UNCHANGED method
  BY DEF coapVars
<1>4. NotifyUninitialised(r) \/ NotifyNullPeer(r) \/ NotifyMatching(r)
  BY <1>1 DEF SwitchWorkerFunction
<1>5. CASE UNCHANGED <<data, pending, sent>>
  BY <1>2, <1>3, <1>5 DEF BlockInv, NoUseAfterRelease, Pending, Live
<1>6. CASE NotifyMatching(r)
  <2>1. PICK groups \in SUBSET Multicast, entries \in SUBSET Unicast :
          /\ pending' = pending \cup {<<r, b>> : b \in entries}
          /\ sent' = sent \cup {<<r, b>> : b \in groups}
          /\ ContextReleaseHandler(r, pending')
    BY <1>6 DEF NotifyMatching
  <2>2. /\ \A s \in Requests \ {r} : data'[s] = data[s]
        /\ data'[r] = IF \E b \in Entries : <<r, b>> \in pending'
                       THEN data[r] ELSE Freed
    BY <2>1, ReleaseFacts
  <2>3. Live(r) /\ ~Pending(r) /\ \A b \in Entries : <<r, b>> \notin sent
    BY <1>1 DEF BlockInv, NoUseAfterRelease
  <2>4. ASSUME NEW s \in Requests \ {r}
        PROVE  /\ Pending(s)' <=> Pending(s)
               /\ Live(s)' <=> Live(s)
               /\ \A b \in Entries : <<s, b>> \in sent' <=> <<s, b>> \in sent
    BY <2>1, <2>2 DEF Pending, Live
  <2>5. /\ Pending(r)' => Live(r)'
        /\ data'[r] # NoData
    BY <2>2, <2>3, BlockAssumption DEF Pending, Live
  <2>6. NoUseAfterRelease'
    BY <1>1, <1>2, <2>4, <2>5 DEF BlockInv, NoUseAfterRelease
  <2>7. \A s \in Requests : method'[s] = "none" => data'[s] = NoData
    BY <1>3, <2>2, <2>3 DEF BlockInv, Live
  <2>8. \A s \in Requests, b \in Entries :
          <<s, b>> \in sent' => data'[s] # NoData /\ ~Queued(s)'
    BY <1>1, <1>2, <2>2, <2>4, <2>5 DEF BlockInv
  <2>9. pending' \cap sent' = {}
    <3>1. ASSUME NEW c \in pending', c \in sent' PROVE FALSE
      <4>1. CASE c \in pending /\ c \in sent
        BY <4>1 DEF BlockInv
      <4>2. CASE c \in pending /\ c \notin sent
        BY <2>1, <2>3, <3>1, <4>2 DEF Pending
      <4>3. CASE c \notin pending /\ c \in sent
        BY <2>1, <2>3, <3>1, <4>3
      <4>4. CASE c \notin pending /\ c \notin sent
        BY <2>1, <3>1, <4>4, BindingAssumption
      <4> QED
        BY <4>1, <4>2, <4>3, <4>4
    <3> QED
      BY <3>1
  <2> QED
    BY <2>6, <2>7, <2>8, <2>9 DEF BlockInv
<1> QED
  BY <1>4, <1>5, <1>6 DEF NotifyUninitialised, NotifyNullPeer

LEMMA BlockConnection ==
  ASSUME TypeOK, BlockInv, NEW r \in Requests, NEW b \in Entries,
         ConnectionResult(r, b), UNCHANGED coapVars
  PROVE  BlockInv'
<1>1. /\ <<r, b>> \in pending
      /\ pending' = pending \ {<<r, b>>}
      /\ sent' \in {sent, sent \cup {<<r, b>>}}
      /\ ContextReleaseHandler(r, pending')
      /\ queue' = queue /\ method' = method
  BY DEF ConnectionResult, DeviceConnected, NotificationDropped, coapVars
<1>2. /\ \A s \in Requests \ {r} : data'[s] = data[s]
      /\ data'[r] = IF \E c \in Entries : <<r, c>> \in pending'
                     THEN data[r] ELSE Freed
  BY <1>1, ReleaseFacts
<1>3. Pending(r) /\ Live(r) /\ ~Queued(r)
  BY <1>1 DEF BlockInv, NoUseAfterRelease, Pending
<1>4. \A s \in Requests : Queued(s)' <=> Queued(s)
  BY <1>1 DEF Queued
<1>5. \A s \in Requests \ {r} : (Pending(s)' <=> Pending(s)) /\ (Live(s)' <=> Live(s))
  BY <1>1, <1>2 DEF Pending, Live
<1>6. (Pending(r)' => Live(r)') /\ data'[r] # NoData
  BY <1>2, <1>3, BlockAssumption DEF Pending, Live
<1>7. NoUseAfterRelease'
  BY <1>1, <1>3, <1>4, <1>5, <1>6 DEF BlockInv, NoUseAfterRelease
<1>8. \A s \in Requests : method'[s] = "none" => data'[s] = NoData
  BY <1>1, <1>2, <1>3 DEF BlockInv, Live
<1>9. ASSUME NEW s \in Requests, NEW c \in Entries, <<s, c>> \in sent'
      PROVE  data'[s] # NoData /\ ~Queued(s)'
  <2>1. CASE s = r
    BY <1>3, <1>4, <1>6, <2>1
  <2>2. CASE s # r
    BY <1>1, <1>2, <1>4, <1>9, <2>2 DEF BlockInv
  <2> QED
    BY <2>1, <2>2
<1>10. pending' \cap sent' = {}
  BY <1>1 DEF BlockInv
<1> QED
  BY <1>7, <1>8, <1>9, <1>10 DEF BlockInv

LEMMA BlockForward ==
  ASSUME TypeOK, BlockInv, NEW r \in Requests, NEW d \in CommandData,
         NEW how \in {"get", "put", "command", "button"}, Forward(r, d, how)
  PROVE  BlockInv'
<1> DEFINE w == Work("SwitchWorkerFunction", r)
<1>1. /\ w \in WorkItems /\ w.arg = r
      /\ \A s \in Requests : w = Work("SwitchWorkerFunction", s) => s = r
  BY DEF WorkItems, Work
<1>2. /\ method[r] = "none" /\ data[r] = NoData
      /\ ~Queued(r) /\ ~Pending(r)
      /\ \A b \in Entries : <<r, b>> \notin sent
  BY DEF Forward, BlockInv, NoUseAfterRelease, Live
<1>3. /\ \A s \in Requests : Queued(s)' => Queued(s) \/ s = r
      /\ \A i, j \in 1..Len(queue') :
           queue'[i] = queue'[j] /\ queue'[i].fn = "SwitchWorkerFunction" => i = j
  BY <1>1, <1>2, Enqueue DEF Forward, BlockInv
<1>4. /\ pending' = pending /\ sent' = sent
      /\ \A s \in Requests \ {r} : data'[s] = data[s] /\ method'[s] = method[s]
      /\ data'[r] = d /\ method'[r] # "none"
      /\ d # NoData /\ d # Freed
  BY BlockAssumption DEF Forward, TypeOK, BindingTypeOK
<1>5. \A s \in Requests : Pending(s)' <=> Pending(s)
  BY <1>4 DEF Pending
<1>6. Live(r)' /\ \A s \in Requests \ {r} : Live(s)' <=> Live(s)
  BY <1>4 DEF Live
<1>7. NoUseAfterRelease'
  BY <1>2, <1>3, <1>5, <1>6 DEF BlockInv, NoUseAfterRelease
<1> QED
  BY <1>2, <1>3, <1>4, <1>7 DEF BlockInv

LEMMA NextBlock == TypeOK /\ BlockInv /\ [Next]_vars => BlockInv'
<1> SUFFICES ASSUME TypeOK, BlockInv, [Next]_vars PROVE BlockInv'
  OBVIOUS
<1>1. CASE (Boot \/ ChipWork) /\ UNCHANGED coapVars
  <2>1. CASE AssignResult
    BY <1>1, <2>1, BlockStutter DEF AssignResult, blockVars, coapVars
  <2> QED
    BY <1>1, <2>1, BlockBoot, BlockSwitch DEF ChipWork
<1>2. ASSUME NEW b \in Entries, BindingWorkerFunction(b), UNCHANGED coapVars
      PROVE  BlockInv'
  BY <1>2, BlockStutter DEF BindingWorkerFunction, blockVars, coapVars
<1>3. ASSUME NEW r \in Requests, NEW b \in Entries, ReadAnswered(r, b),
             UNCHANGED coapVars
      PROVE  BlockInv'
  BY <1>3, BlockStutter
  DEF ReadAnswered, OnReadSuccess, OnReadFailure, blockVars, coapVars
<1>4. ASSUME NEW r \in Requests, NEW d \in CommandData,
             GetArrives(r, d) \/ PutArrives(r, d, "put")
               \/ PutArrives(r, d, "command") \/ ButtonArrives(r, d)
      PROVE  BlockInv'
  BY <1>4, BlockForward DEF GetArrives, PutArrives, ButtonArrives
<1>5. CASE (\E kind \in {"content", "undefined"} : HandlerEnds(kind)) \/ PollAgain
  BY <1>5, BlockStutter
  DEF HandlerEnds, Respond, EndOfHandler, PollAgain, blockVars, bindingVars
<1>6. CASE UNCHANGED vars
  BY <1>6, BlockStutter DEF vars, bindingVars, coapVars, blockVars
<1> QED
  BY <1>1, <1>2, <1>3, <1>4, <1>5, <1>6, BlockConnection, NextCases

LEMMA InitBlock == Init => BlockInv
<1> SUFFICES ASSUME Init PROVE BlockInv
  OBVIOUS
<1>1. Len(queue) = 1 /\ queue[1].fn = "InitServer"
  BY DEF Init, BindingInit, Work
<1>2. \A r \in Requests : ~Queued(r)
  BY <1>1 DEF Queued, Work
<1>3. \A i, j \in 1..Len(queue) : i = j
  BY <1>1
<1> QED
  BY <1>2, <1>3 DEF Init, BindingInit, BlockInv, NoUseAfterRelease, Pending

\* NoUseAfterRelease holds for any number of requests, entries and queue slots.
THEOREM BlocksReleasedOnce == Spec => []NoUseAfterRelease
<1>1. Init => TypeOK /\ BlockInv
  BY InitType, InitBlock
<1>2. TypeOK /\ BlockInv /\ [Next]_vars => (TypeOK /\ BlockInv)'
  BY NextType, NextBlock
<1>3. BlockInv => NoUseAfterRelease
  BY DEF BlockInv
<1> QED
  BY <1>1, <1>2, <1>3, PTL DEF Spec
-----------------------------------------------------------------------------
(* The cells that travel from the CHIP task to the handler. *)

\* Where the handler is, and what the requests it has seen were answered.
ServeInv ==
  /\ pc = "wait" <=> cur # None
  /\ cur # None => method[cur] = "get" /\ reply[cur] = "none"
  /\ \A r \in Requests :
       method[r] = "get" => r = cur \/ reply[r] \in {"content", "undefined"}
  /\ \A r \in Requests : reply[r] = "content" <=> value[r] # None
  /\ \A r \in Requests : method[r] = "none" => reply[r] = "none"

LEMMA InitServe == Init => ServeInv
  BY BindingAssumption DEF Init, ServeInv

LEMMA NextServe == TypeOK /\ ServeInv /\ [Next]_vars => ServeInv'
<1> SUFFICES ASSUME TypeOK, ServeInv, [Next]_vars PROVE ServeInv'
  OBVIOUS
<1> USE BindingAssumption
<1>1. CASE UNCHANGED coapVars
  BY <1>1 DEF coapVars, ServeInv
<1>2. ASSUME NEW r \in Requests, NEW d \in CommandData, GetArrives(r, d)
      PROVE  ServeInv'
  BY <1>2 DEF GetArrives, Serving, Forward, ServeInv, TypeOK
<1>3. ASSUME NEW r \in Requests, NEW d \in CommandData,
             PutArrives(r, d, "put") \/ PutArrives(r, d, "command")
      PROVE  ServeInv'
  BY <1>3 DEF PutArrives, Serving, Forward, Changed, ServeInv, TypeOK
<1>4. ASSUME NEW r \in Requests, NEW d \in CommandData, ButtonArrives(r, d)
      PROVE  ServeInv'
  BY <1>4 DEF ButtonArrives, Forward, ServeInv, TypeOK
<1>5. ASSUME NEW kind \in {"content", "undefined"}, HandlerEnds(kind)
      PROVE  ServeInv'
  BY <1>5 DEF HandlerEnds, Asleep, Respond, EndOfHandler, ServeInv, TypeOK,
              BindingTypeOK
<1>6. CASE PollAgain
  BY <1>6 DEF PollAgain, bindingVars, ServeInv
<1> QED
  BY <1>1, <1>2, <1>3, <1>4, <1>5, <1>6, NextCases DEF vars

\* A cell is being read, allocated or the value of an answer, never two of the
\* three, and the assignment under way has read the pointer it will delete.
CellInv ==
  /\ reading \subseteq sent /\ cells \subseteq sent
  /\ reading \cap cells = {}
  /\ \A r \in Requests :
       value[r] # None => value[r] \in sent \ (reading \cup cells)
  /\ AnswerUsedOnce
  /\ NoCellLeaked
  /\ fresh = None => old = None
  /\ fresh # None => result_ptr \in {old, None} /\ old # fresh

cellVars == <<reading, sent, cells, value, result_ptr, fresh, old>>

LEMMA CellStutter == CellInv /\ UNCHANGED cellVars => CellInv'
  BY DEF CellInv, cellVars, AnswerUsedOnce, NoCellLeaked

LEMMA InitCell == Init => CellInv
  BY DEF Init, BindingInit, CellInv, AnswerUsedOnce, NoCellLeaked

LEMMA CellSent ==
  ASSUME CellInv, sent \subseteq sent',
         UNCHANGED <<reading, cells, value, result_ptr, fresh, old>>
  PROVE  CellInv'
  BY DEF CellInv, AnswerUsedOnce, NoCellLeaked

LEMMA CellConnection ==
  ASSUME TypeOK, BlockInv, CellInv, NEW r \in Requests, NEW b \in Entries,
         ConnectionResult(r, b), UNCHANGED coapVars
  PROVE  CellInv'
<1>1. CASE reading' = reading
  BY <1>1, CellSent
  DEF ConnectionResult, DeviceConnected, NotificationDropped, coapVars
<1>2. CASE reading' # reading
  <2>1. /\ <<r, b>> \in pending
        /\ reading' = reading \cup {<<r, b>>}
        /\ sent' = sent \cup {<<r, b>>}
        /\ UNCHANGED <<cells, value, result_ptr, fresh, old>>
    BY <1>2 DEF ConnectionResult, DeviceConnected, NotificationDropped,
                StateChangedHandler, coapVars
  <2>2. <<r, b>> \notin sent
    BY <2>1 DEF BlockInv
  <2> HIDE DEF Cells
  <2> QED
    BY <2>1, <2>2 DEF CellInv, AnswerUsedOnce, NoCellLeaked
<1> QED
  BY <1>1, <1>2

LEMMA CellAnswer ==
  ASSUME TypeOK, CellInv, NEW r \in Requests, NEW b \in Entries,
         ReadAnswered(r, b), UNCHANGED coapVars
  PROVE  CellInv'
<1>1. CASE OnReadSuccess(r, b)
  <2>1. /\ <<r, b>> \in reading /\ <<r, b>> # None
        /\ fresh = None /\ old = None
        /\ reading' = reading \ {<<r, b>>}
        /\ cells' = cells \cup {<<r, b>>}
        /\ fresh' = <<r, b>> /\ old' = result_ptr
        /\ UNCHANGED <<sent, value, result_ptr>>
    BY <1>1, BindingAssumption
    DEF OnReadSuccess, ChipIdle, coapVars, CellInv, TypeOK, BindingTypeOK
  <2>2. cells = {result_ptr} \ {None}
    BY <2>1 DEF CellInv, NoCellLeaked
  <2>3. NoCellLeaked'
    BY <2>1, <2>2 DEF NoCellLeaked
  <2>4. <<r, b>> # result_ptr
    BY <2>1, <2>2 DEF CellInv
  <2> QED
    BY <2>1, <2>3, <2>4 DEF CellInv, AnswerUsedOnce
<1>2. CASE OnReadFailure(r, b)
  BY <1>2 DEF OnReadFailure, coapVars, CellInv, AnswerUsedOnce, NoCellLeaked
<1> QED
  BY <1>1, <1>2 DEF ReadAnswered

LEMMA CellAssign ==
  ASSUME CellInv, AssignResult, UNCHANGED coapVars
  PROVE  CellInv'
<1>1. /\ fresh # None /\ result_ptr \in {old, None} /\ old # fresh
      /\ cells = {result_ptr, fresh} \ {None}
      /\ cells' = cells \ {old}
      /\ result_ptr' = fresh /\ fresh' = None /\ old' = None
      /\ UNCHANGED <<reading, sent, value>>
  BY DEF AssignResult, CellInv, NoCellLeaked, coapVars
<1>2. cells' = {fresh}
  BY <1>1
<1> QED
  BY <1>1, <1>2 DEF CellInv, AnswerUsedOnce, NoCellLeaked

LEMMA CellHandler ==
  ASSUME TypeOK, CellInv, NEW kind \in {"content", "undefined"}, HandlerEnds(kind)
  PROVE  CellInv'
<1>1. /\ value' = [value EXCEPT ![cur] = result_ptr]
      /\ value \in [Requests -> Cells \cup {None}]
      /\ result_ptr' = None
      /\ cells' = cells \ {result_ptr}
      /\ UNCHANGED <<reading, sent, fresh, old>>
  BY DEF HandlerEnds, Respond, EndOfHandler, TypeOK
<1>2. cells = {result_ptr, fresh} \ {None} /\ (fresh # None => result_ptr # fresh)
  BY DEF CellInv, NoCellLeaked
<1>3. NoCellLeaked'
  BY <1>1, <1>2 DEF NoCellLeaked
<1>4. result_ptr # None => result_ptr \in cells
  BY <1>2
<1>5. ASSUME NEW r \in Requests
      PROVE  \/ value'[r] = value[r]
             \/ r = cur /\ value'[r] = result_ptr
  BY <1>1
<1>6. AnswerUsedOnce'
  BY <1>4, <1>5 DEF CellInv, AnswerUsedOnce
<1>7. \A r \in Requests :
        value'[r] # None => value'[r] \in sent' \ (reading' \cup cells')
  BY <1>1, <1>4, <1>5 DEF CellInv
<1> QED
  BY <1>1, <1>3, <1>6, <1>7 DEF CellInv

LEMMA NextCell == TypeOK /\ BlockInv /\ CellInv /\ [Next]_vars => CellInv'
<1> SUFFICES ASSUME TypeOK, BlockInv, CellInv, [Next]_vars PROVE CellInv'
  OBVIOUS
<1>1. CASE (Boot \/ ChipWork) /\ UNCHANGED coapVars
  <2>1. CASE Boot \/ InitBindingHandlerInternal
    BY <1>1, <2>1, CellStutter
    DEF Boot, InitServer, InitBindingHandler, CreateCoapServerTask,
        InitBindingHandlerInternal, cellVars, coapVars
  <2>2. CASE SwitchWorkerFunction
    BY <1>1, <2>2, CellSent
    DEF SwitchWorkerFunction, NotifyUninitialised, NotifyNullPeer,
        NotifyMatching, coapVars
  <2> QED
    BY <1>1, <2>1, <2>2, CellAssign DEF ChipWork
<1>2. ASSUME NEW b \in Entries, BindingWorkerFunction(b), UNCHANGED coapVars
      PROVE  CellInv'
  BY <1>2, CellStutter DEF BindingWorkerFunction, cellVars, coapVars
<1>3. ASSUME NEW r \in Requests, NEW d \in CommandData,
             GetArrives(r, d) \/ PutArrives(r, d, "put")
               \/ PutArrives(r, d, "command") \/ ButtonArrives(r, d)
      PROVE  CellInv'
  BY <1>3, CellStutter
  DEF GetArrives, PutArrives, ButtonArrives, Changed, Forward, cellVars
<1>4. CASE PollAgain
  BY <1>4, CellStutter DEF PollAgain, bindingVars, cellVars
<1>5. CASE UNCHANGED vars
  BY <1>5, CellStutter DEF vars, bindingVars, coapVars, cellVars
<1> QED
  BY <1>1, <1>2, <1>3, <1>4, <1>5, CellConnection, CellAnswer, CellHandler,
     NextCases
-----------------------------------------------------------------------------
(* Whose value a GET is answered with. *)

\* Without a surplus read, whatever is read or allocated is for the request
\* the handler waits for.
OwnInv ==
  /\ \A r \in Requests : Live(r) /\ data[r].readAttribute => method[r] = "get"
  /\ \A r \in Requests, b \in Entries :
       <<r, b>> \in reading \cup cells => method[r] = "get"
  /\ \A r \in Requests : value[r] # None => method[r] = "get"
  /\ ~Surplus =>
       /\ \A r \in Requests, b \in Entries :
            <<r, b>> \in reading \cup cells => r = cur
       /\ \A r \in Requests : value[r] # None => value[r][1] = r
       /\ old = None
       /\ fault # "double free"

LEMMA InitOwn == Init => OwnInv
  BY DEF Init, BindingInit, OwnInv, Live

\* A surplus is for good.
LEMMA SurplusStays ==
  ASSUME TypeOK, ServeInv, [Next]_vars, Surplus
  PROVE  Surplus'
<1>1. sent \subseteq sent'
  BY NextCases
  DEF Boot, InitServer, InitBindingHandler, CreateCoapServerTask, ChipWork,
      InitBindingHandlerInternal, SwitchWorkerFunction, NotifyUninitialised,
      NotifyNullPeer, NotifyMatching, AssignResult, BindingWorkerFunction,
      ConnectionResult, DeviceConnected, NotificationDropped, ReadAnswered,
      OnReadSuccess, OnReadFailure, GetArrives, PutArrives, ButtonArrives,
      Forward, HandlerEnds, Respond, EndOfHandler, PollAgain, vars, bindingVars
<1>2. \A r \in Requests : method[r] # "none" => method'[r] = method[r]
  BY NextCases
  DEF GetArrives, PutArrives, ButtonArrives, Forward, HandlerEnds, Respond,
      EndOfHandler, PollAgain, vars, coapVars, TypeOK
<1>3. \A r \in Requests : reply[r] # "none" => reply'[r] = reply[r]
  <2>1. CASE reply' = reply
    BY <2>1
  <2>2. ASSUME NEW r \in Requests, NEW d \in CommandData,
               PutArrives(r, d, "put") \/ PutArrives(r, d, "command")
        PROVE  \A s \in Requests : reply[s] # "none" => reply'[s] = reply[s]
    BY <2>2 DEF PutArrives, Forward, Changed, ServeInv, TypeOK
  <2>3. ASSUME NEW kind, HandlerEnds(kind)
        PROVE  \A s \in Requests : reply[s] # "none" => reply'[s] = reply[s]
    BY <2>3 DEF HandlerEnds, Asleep, Respond, EndOfHandler, ServeInv, TypeOK
  <2> QED
    BY <2>1, <2>2, <2>3, NextCases
    DEF GetArrives, ButtonArrives, PollAgain, vars, coapVars
<1>4. PICK r \in Requests : method[r] = "get" /\ (TimedOut(r) \/ FannedOut(r))
  BY DEF Surplus
<1>5. method'[r] = "get"
  BY <1>2, <1>4
<1>6. CASE TimedOut(r)
  BY <1>3, <1>5, <1>6 DEF Surplus, TimedOut
<1>7. CASE FannedOut(r)
  BY <1>1, <1>5, <1>7 DEF Surplus, FannedOut
<1> QED
  BY <1>4, <1>6, <1>7

LEMMA CellParts ==
  ASSUME NEW c \in Requests \X Entries
  PROVE  \E r \in Requests, b \in Entries : c = <<r, b>> /\ c[1] = r
  OBVIOUS

LEMMA CellTypes ==
  ASSUME TypeOK
  PROVE  /\ \A c \in reading \cup cells : c \in Requests \X Entries
         /\ result_ptr # None => result_ptr \in Requests \X Entries
         /\ \A r \in Requests : value[r] # None => value[r] \in Requests \X Entries
  BY DEF TypeOK, BindingTypeOK

\* Two interactions of one read are a surplus.
LEMMA TwoSent ==
  ASSUME NEW r \in Requests, NEW b \in Entries, NEW c \in Entries,
         method[r] = "get", <<r, b>> \in sent, <<r, c>> \in sent, b # c
  PROVE  Surplus
  BY DEF Surplus, FannedOut

\* Steps that leave the cells and the answers alone: a block is at most released.
LEMMA OwnStutter ==
  ASSUME OwnInv, Surplus => Surplus',
         \A r \in Requests : data'[r] \in {data[r], Freed},
         UNCHANGED <<method, reading, cells, value, cur, old>>,
         fault' # "double free" \/ fault' = fault
  PROVE  OwnInv'
  BY DEF OwnInv, Live

LEMMA OwnConnection ==
  ASSUME TypeOK, BlockInv, ServeInv, CellInv, OwnInv, Surplus => Surplus',
         NEW r \in Requests, NEW b \in Entries, ConnectionResult(r, b),
         UNCHANGED coapVars
  PROVE  OwnInv'
<1>1. /\ <<r, b>> \in pending
      /\ ContextReleaseHandler(r, pending')
      /\ UNCHANGED <<method, cells, value, cur, old, fault, reply>>
  BY DEF ConnectionResult, DeviceConnected, NotificationDropped, coapVars
<1>2. \A s \in Requests : data'[s] \in {data[s], Freed}
  BY <1>1, ReleaseFacts
<1>3. CASE reading' = reading
  BY <1>1, <1>2, <1>3, OwnStutter
<1>4. CASE reading' # reading
  <2>1. /\ data[r].readAttribute
        /\ reading' = reading \cup {<<r, b>>}
        /\ sent' = sent \cup {<<r, b>>}
    BY <1>4 DEF ConnectionResult, DeviceConnected, NotificationDropped,
                StateChangedHandler
  <2>2. Live(r) /\ method[r] = "get" /\ <<r, b>> \notin sent
    BY <1>1, <2>1 DEF BlockInv, NoUseAfterRelease, Pending, OwnInv
  <2>3. ASSUME ~Surplus' PROVE r = cur
    <3>1. ~Surplus
      BY <2>3
    <3>2. CASE reply[r] = "undefined"
      BY <2>2, <3>1, <3>2 DEF Surplus, TimedOut
    <3>3. CASE reply[r] = "content"
      <4>1. value[r] # None /\ value[r] \in sent
        BY <3>3 DEF ServeInv, CellInv
      <4>2. PICK c \in Entries : value[r] = <<r, c>>
        <5>1. PICK s \in Requests, c \in Entries :
                value[r] = <<s, c>> /\ value[r][1] = s
          BY <4>1, CellTypes, CellParts
        <5>2. value[r][1] = r
          BY <3>1, <4>1 DEF OwnInv
        <5> QED
          BY <5>1, <5>2
      <4>3. b # c /\ <<r, c>> \in sent' /\ <<r, b>> \in sent' /\ method'[r] = "get"
        BY <1>1, <2>1, <2>2, <4>1, <4>2
      <4>4. Surplus'
        BY <4>3 DEF Surplus, FannedOut
      <4> QED
        BY <2>3, <4>4
    <3> QED
      BY <2>2, <3>2, <3>3 DEF ServeInv
  <2>4. \A s \in Requests, c \in Entries :
          <<s, c>> \in reading' \cup cells' =>
            (<<s, c>> \in reading \cup cells) \/ s = r
    BY <1>1, <2>1
  <2>5. \A s \in Requests : Live(s)' => data'[s] = data[s] /\ Live(s)
    BY <1>2 DEF Live
  <2> QED
    BY <1>1, <2>2, <2>3, <2>4, <2>5 DEF OwnInv
<1> QED
  BY <1>3, <1>4

LEMMA OwnAnswer ==
  ASSUME TypeOK, CellInv, OwnInv, Surplus => Surplus',
         NEW r \in Requests, NEW b \in Entries, ReadAnswered(r, b),
         UNCHANGED coapVars
  PROVE  OwnInv'
<1>1. CASE OnReadSuccess(r, b)
  <2>1. /\ <<r, b>> \in reading
        /\ reading' = reading \ {<<r, b>>}
        /\ cells' = cells \cup {<<r, b>>}
        /\ old' = result_ptr
        /\ UNCHANGED <<data, method, value, cur, fault, sent, reply>>
    BY <1>1 DEF OnReadSuccess, coapVars
  <2>2. reading' \cup cells' = reading \cup cells
    BY <2>1
  <2>3. ASSUME ~Surplus' PROVE old' = None
    <3>1. SUFFICES ASSUME result_ptr # None PROVE FALSE
      BY <2>1
    <3>2. result_ptr \in cells /\ <<r, b>> \notin cells /\ result_ptr \in sent
      BY <2>1, <3>1 DEF CellInv, NoCellLeaked
    <3>3. PICK s \in Requests, c \in Entries : result_ptr = <<s, c>>
      BY <3>1, CellTypes, CellParts
    <3>4. s = cur /\ r = cur /\ method[r] = "get" /\ <<r, b>> \in sent
      BY <2>1, <2>3, <3>2, <3>3 DEF OwnInv, CellInv
    <3>5. Surplus
      BY <3>2, <3>3, <3>4, TwoSent
    <3> QED
      BY <2>3, <3>5
  <2> QED
    BY <2>1, <2>2, <2>3 DEF OwnInv, Live
<1>2. CASE OnReadFailure(r, b)
  BY <1>2 DEF OnReadFailure, coapVars, OwnInv, Live
<1> QED
  BY <1>1, <1>2 DEF ReadAnswered

LEMMA OwnAssign ==
  ASSUME OwnInv, Surplus => Surplus', AssignResult, UNCHANGED coapVars
  PROVE  OwnInv'
<1>1. /\ cells' \subseteq cells /\ old' = None
      /\ old = None => fault' = fault
      /\ UNCHANGED <<data, method, reading, value, cur>>
  BY DEF AssignResult, coapVars
<1> QED
  BY <1>1 DEF OwnInv, Live

LEMMA OwnForward ==
  ASSUME TypeOK, BlockInv, ServeInv, CellInv, OwnInv, Surplus => Surplus',
         NEW r \in Requests, NEW d \in CommandData,
         GetArrives(r, d) \/ PutArrives(r, d, "put")
           \/ PutArrives(r, d, "command") \/ ButtonArrives(r, d)
  PROVE  OwnInv'
<1>1. /\ \A s \in Requests \ {r} : data'[s] = data[s] /\ method'[s] = method[s]
      /\ data'[r] = d /\ method[r] = "none"
      /\ d.readAttribute => method'[r] = "get"
      /\ UNCHANGED <<reading, cells, value, old, fault, sent>>
  BY DEF GetArrives, PutArrives, ButtonArrives, Changed, Forward, TypeOK,
         BindingTypeOK
<1>2. /\ \A b \in Entries : <<r, b>> \notin reading \cup cells
      /\ value[r] = None
  BY <1>1 DEF OwnInv
<1>3. ASSUME ~Surplus', NEW s \in Requests, NEW b \in Entries,
             <<s, b>> \in reading \cup cells
      PROVE  s = cur'
  <2>1. s = cur /\ cur # None
    BY <1>3, BindingAssumption DEF OwnInv
  <2>2. pc = "wait"
    BY <2>1 DEF ServeInv
  <2> QED
    BY <2>1, <2>2 DEF GetArrives, PutArrives, ButtonArrives, Changed, Serving
<1> QED
  BY <1>1, <1>2, <1>3 DEF OwnInv, Live

LEMMA OwnHandler ==
  ASSUME TypeOK, ServeInv, CellInv, OwnInv, Surplus => Surplus',
         NEW kind \in {"content", "undefined"}, HandlerEnds(kind)
  PROVE  OwnInv'
<1>1. /\ cur \in Requests /\ method[cur] = "get"
      /\ value' = [value EXCEPT ![cur] = result_ptr]
      /\ reply' = [reply EXCEPT ![cur] = kind]
      /\ kind = "content" <=> result_ptr # None
      /\ cells' = cells \ {result_ptr}
      /\ UNCHANGED <<data, method, reading, old, fault, sent>>
  BY DEF HandlerEnds, Asleep, Respond, EndOfHandler, ServeInv, TypeOK
<1>2. ASSUME ~Surplus'
      PROVE  /\ reading' \cup cells' = {}
             /\ result_ptr # None /\ result_ptr[1] = cur
  <2>1. ~Surplus /\ kind = "content"
    BY <1>1, <1>2 DEF Surplus, TimedOut, TypeOK
  <2>2. result_ptr # None /\ result_ptr \in cells
    BY <1>1, <2>1 DEF CellInv, NoCellLeaked
  <2>3. PICK b \in Entries : result_ptr = <<cur, b>>
    <3>1. PICK s \in Requests, b \in Entries : result_ptr = <<s, b>>
      BY <2>2, CellTypes, CellParts
    <3> QED
      BY <2>1, <2>2, <3>1 DEF OwnInv
  <2>4. ASSUME NEW c \in reading \cup cells PROVE c = result_ptr
    <3>1. PICK s \in Requests, e \in Entries : c = <<s, e>>
      BY CellTypes, CellParts
    <3>2. s = cur /\ c \in sent /\ result_ptr \in sent
      BY <2>1, <2>2, <2>4, <3>1 DEF OwnInv, CellInv
    <3> QED
      BY <1>1, <2>1, <2>3, <3>1, <3>2, TwoSent
  <2>5. reading' \cup cells' = {}
    BY <1>1, <2>2, <2>4 DEF CellInv
  <2> QED
    BY <2>2, <2>3, <2>5
<1>3. \A r \in Requests :
        value'[r] = value[r] \/ (r = cur /\ value'[r] = result_ptr)
  BY <1>1 DEF TypeOK
<1> QED
  BY <1>1, <1>2, <1>3 DEF OwnInv, Live

LEMMA NextOwn ==
  TypeOK /\ BlockInv /\ ServeInv /\ CellInv /\ OwnInv /\ [Next]_vars => OwnInv'
<1> SUFFICES ASSUME TypeOK, BlockInv, ServeInv, CellInv, OwnInv, [Next]_vars
             PROVE  OwnInv'
  OBVIOUS
<1>0. Surplus => Surplus'
  BY SurplusStays
<1>1. CASE (Boot \/ ChipWork) /\ UNCHANGED coapVars
  <2>1. CASE Boot \/ InitBindingHandlerInternal
    BY <1>0, <1>1, <2>1, OwnStutter
    DEF Boot, InitServer, InitBindingHandler, CreateCoapServerTask,
        InitBindingHandlerInternal, coapVars
  <2>2. CASE SwitchWorkerFunction
    <3>1. PICK r \in Requests : r = Head(queue).arg
      BY <2>2, Dequeue DEF SwitchWorkerFunction, BlockInv
    <3>2. \A s \in Requests : data'[s] \in {data[s], Freed}
      BY <2>2, <3>1, ReleaseFacts
      DEF SwitchWorkerFunction, NotifyUninitialised, NotifyNullPeer, NotifyMatching
    <3>3. fault' \in {fault, "null peer_device"}
      BY <2>2 DEF SwitchWorkerFunction, NotifyUninitialised, NotifyNullPeer,
                  NotifyMatching
    <3> QED
      BY <1>0, <1>1, <2>2, <3>2, <3>3, OwnStutter DEF SwitchWorkerFunction, coapVars
  <2> QED
    BY <1>0, <1>1, <2>1, <2>2, OwnAssign DEF ChipWork
<1>2. ASSUME NEW b \in Entries, BindingWorkerFunction(b), UNCHANGED coapVars
      PROVE  OwnInv'
  BY <1>0, <1>2, OwnStutter DEF BindingWorkerFunction, coapVars
<1>3. CASE PollAgain \/ UNCHANGED vars
  BY <1>0, <1>3, OwnStutter DEF PollAgain, vars, bindingVars, coapVars
<1> QED
  BY <1>0, <1>1, <1>2, <1>3, OwnConnection, OwnAnswer, OwnForward, OwnHandler,
     NextCases

-----------------------------------------------------------------------------
(* The theorems. *)

IInv == TypeOK /\ BlockInv /\ ServeInv /\ CellInv /\ OwnInv

LEMMA Invariant == Spec => []IInv
<1>1. Init => IInv
  BY InitType, InitBlock, InitServe, InitCell, InitOwn DEF IInv
<1>2. IInv /\ [Next]_vars => IInv'
  BY NextType, NextBlock, NextServe, NextCell, NextOwn DEF IInv
<1> QED
  BY <1>1, <1>2, PTL DEF Spec

\* The value of one read interaction answers one GET at most.
THEOREM EachValueAnswersOnce == Spec => []AnswerUsedOnce
<1>1. IInv => AnswerUsedOnce
  BY DEF IInv, CellInv
<1> QED
  BY <1>1, Invariant, PTL

\* No cell gets lost between onSuccess and the handler.
THEOREM EveryCellIsHeld == Spec => []NoCellLeaked
<1>1. IInv => NoCellLeaked
  BY DEF IInv, CellInv
<1> QED
  BY <1>1, Invariant, PTL

\* As long as no read has timed out or gone to two table entries, every GET is
\* answered with the value that was read for it.
THEOREM ForeignAnswerIsLate == Spec => []ForeignAnswerNeedsSurplus
<1>1. IInv => ForeignAnswerNeedsSurplus
  BY DEF IInv, OwnInv, ForeignAnswerNeedsSurplus
<1> QED
  BY <1>1, Invariant, PTL

\* Under the same condition the two tasks never delete the same cell.
THEOREM DoubleFreeIsLate == Spec => []DoubleFreeNeedsSurplus
<1>1. IInv => DoubleFreeNeedsSurplus
  BY DEF IInv, OwnInv, DoubleFreeNeedsSurplus
<1> QED
  BY <1>1, Invariant, PTL

-----------------------------------------------------------------------------
(* The GET path implements the service with a mailbox of one slot. *)

gets == {r \in Requests : method[r] = "get"}

LEMMA ServiceStutter ==
  UNCHANGED <<method, cur, result_ptr, value>> => UNCHANGED Service!serviceVars
  BY DEF Service!serviceVars

LEMMA ServiceInit == Init => Service!Init
  BY DEF Init, BindingInit, Service!Init

LEMMA ServiceStep == IInv /\ [Next]_vars => [Service!Next]_(Service!serviceVars)
<1> SUFFICES ASSUME IInv, [Next]_vars
             PROVE  [Service!Next]_(Service!serviceVars)
  OBVIOUS
<1>1. CASE (Boot \/ ChipWork) /\ UNCHANGED coapVars
  <2>1. CASE AssignResult
    <3>1. /\ fresh # None /\ fresh \in cells /\ result_ptr' = fresh
          /\ UNCHANGED <<method, cur, value>>
      BY <1>1, <2>1 DEF AssignResult, coapVars, IInv, CellInv, NoCellLeaked
    <3>2. PICK r \in Requests, b \in Entries : fresh = <<r, b>> /\ fresh[1] = r
      BY <3>1, CellTypes, CellParts DEF IInv
    <3>3. method[r] = "get" /\ \A s \in Requests : value[s] # fresh
      BY <3>1, <3>2 DEF IInv, CellInv, OwnInv
    <3>4. Service!Report(fresh) /\ fresh \in Service!Reports
      BY <3>1, <3>2, <3>3 DEF Service!Report, Service!Reports
    <3> QED
      BY <3>4 DEF Service!Next
  <2>2. CASE Boot \/ InitBindingHandlerInternal \/ SwitchWorkerFunction
    <3>1. UNCHANGED <<method, cur, result_ptr, value>>
      BY <1>1, <2>2
      DEF Boot, InitServer, InitBindingHandler, CreateCoapServerTask,
          InitBindingHandlerInternal, SwitchWorkerFunction, coapVars
    <3> QED
      BY <3>1, ServiceStutter
  <2> QED
    BY <1>1, <2>1, <2>2 DEF ChipWork
<1>2. ASSUME NEW r, NEW b, UNCHANGED coapVars,
             BindingWorkerFunction(b) \/ ConnectionResult(r, b) \/ ReadAnswered(r, b)
      PROVE  [Service!Next]_(Service!serviceVars)
  <2>1. UNCHANGED <<method, cur, result_ptr, value>>
    BY <1>2
    DEF BindingWorkerFunction, ConnectionResult, DeviceConnected,
        NotificationDropped, ReadAnswered, OnReadSuccess, OnReadFailure, coapVars
  <2> QED
    BY <2>1, ServiceStutter
<1>3. ASSUME NEW r \in Requests, NEW d \in CommandData, GetArrives(r, d)
      PROVE  [Service!Next]_(Service!serviceVars)
  <2>1. /\ cur = None /\ cur' = r /\ method[r] = "none"
        /\ method' = [method EXCEPT ![r] = "get"]
        /\ UNCHANGED <<result_ptr, value>>
    BY <1>3 DEF GetArrives, Serving, Forward, IInv, ServeInv
  <2>2. r \notin gets /\ gets' = gets \cup {r}
    BY <2>1 DEF gets, IInv, TypeOK
  <2>3. Service!Accept(r)
    BY <2>1, <2>2 DEF gets, Service!Accept
  <2> QED
    BY <2>3 DEF Service!Next
<1>4. ASSUME NEW r \in Requests, NEW d \in CommandData,
             PutArrives(r, d, "put") \/ PutArrives(r, d, "command")
               \/ ButtonArrives(r, d)
      PROVE  [Service!Next]_(Service!serviceVars)
  <2>1. /\ method[r] = "none" /\ method'[r] # "get"
        /\ \A s \in Requests \ {r} : method'[s] = method[s]
        /\ UNCHANGED <<cur, result_ptr, value>>
    BY <1>4 DEF PutArrives, ButtonArrives, Forward, Changed, IInv, TypeOK
  <2>2. gets' = gets
    BY <2>1 DEF gets
  <2> QED
    BY <2>1, <2>2 DEF gets, Service!serviceVars
<1>5. ASSUME NEW kind \in {"content", "undefined"}, HandlerEnds(kind)
      PROVE  [Service!Next]_(Service!serviceVars)
  <2>1. /\ cur # None /\ cur' = None
        /\ value' = [value EXCEPT ![cur] = result_ptr]
        /\ result_ptr' = None
        /\ method' = method
    BY <1>5 DEF HandlerEnds, Asleep, Respond, EndOfHandler, IInv, ServeInv
  <2>2. Service!Answer
    BY <2>1 DEF Service!Answer
  <2> QED
    BY <2>2 DEF Service!Next
<1>6. CASE PollAgain \/ UNCHANGED vars
  <2>1. UNCHANGED <<method, cur, result_ptr, value>>
    BY <1>6 DEF PollAgain, vars, bindingVars, coapVars
  <2> QED
    BY <2>1, ServiceStutter
<1> QED
  BY <1>1, <1>2, <1>3, <1>4, <1>5, <1>6, NextCases

\* Every behaviour of the bridge is a behaviour of ReadService.
THEOREM BridgeServesReads == Spec => ServesReads
<1>1. Spec => []IInv
  BY Invariant
<1> QED
  BY <1>1, ServiceInit, ServiceStep, PTL DEF Spec, ServesReads, Service!Spec
=============================================================================
