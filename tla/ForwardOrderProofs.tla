------------------------- MODULE ForwardOrderProofs -------------------------
(***************************************************************************)
(* The proof that the order of start-up, queue and requests loses no CoAP  *)
(* request: the initialisation of the binding manager is in the queue      *)
(* before coap_server exists, so it is ahead of every forwarded block.     *)
(***************************************************************************)
EXTENDS CoapServerProofs

Initialise == Work("InitBindingHandlerInternal", None)
Switch(r) == Work("SwitchWorkerFunction", r)
Forwarded(r) == method[r] \in {"get", "put", "command"}

\* The binding manager is ready, never will be, or has its turn among the
\* first n items of the queue.
ReadyWithin(n) ==
  \/ bmReady
  \/ Initialise \in dropped
  \/ \E i \in 1..Len(queue) : i <= n /\ queue[i] = Initialise

OrderInv ==
  /\ \A i \in 1..Len(queue) :
       queue[i].fn = "InitServer" => phase = "boot" /\ i = 1
  /\ phase # "up" => \A r \in Requests : ~Forwarded(r)
  /\ phase \in {"deploying", "up"} => ReadyWithin(Len(queue))
  /\ \A r \in Requests, j \in 1..Len(queue) :
       Forwarded(r) /\ queue[j] = Switch(r) => ReadyWithin(j - 1)
  /\ ForwardLostOnlyByFullQueue

LEMMA InitOrder == Init => OrderInv
<1> SUFFICES ASSUME Init PROVE OrderInv
  OBVIOUS
<1>1. Len(queue) = 1 /\ queue[1].fn = "InitServer" /\ phase = "boot"
  BY DEF Init, BindingInit, Work
<1>2. \A r \in Requests : ~Forwarded(r)
  BY DEF Init, Forwarded
<1> QED
  BY <1>1, <1>2 DEF OrderInv, ForwardLostOnlyByFullQueue, Forwarded

orderVars == <<phase, queue, dropped, data, bmReady, pending, method>>

LEMMA OrderStutter ==
  ASSUME OrderInv, UNCHANGED orderVars, Running' => Running
  PROVE  OrderInv'
<1>1. /\ \A n : ReadyWithin(n)' <=> ReadyWithin(n)
      /\ \A r : Forwarded(r)' <=> Forwarded(r)
      /\ \A r : Leaked(r)' <=> Leaked(r)
  BY DEF orderVars, ReadyWithin, Forwarded, Leaked, Live, Queued, Pending
<1>2. ForwardLostOnlyByFullQueue'
  BY <1>1 DEF orderVars, OrderInv, ForwardLostOnlyByFullQueue, Forwarded
<1> QED
  BY <1>1, <1>2 DEF orderVars, OrderInv, Initialise, Switch, Work

\* Taking the first item moves the others up by one.
LEMMA TakenOrder ==
  ASSUME TypeOK, OrderInv, NEW fn, NextWork(fn)
  PROVE  /\ Len(queue) \in Nat /\ Len(queue) > 0 /\ queue[1].fn = fn
         /\ Len(queue') = Len(queue) - 1
         /\ \A i \in 1..Len(queue') : queue'[i] = queue[i + 1]
         /\ \A i \in 1..Len(queue') : queue'[i].fn # "InitServer"
         /\ fn = "InitServer" => phase = "boot"
<1>1. queue \in Seq(WorkItems) /\ queue # <<>> /\ queue' = Tail(queue)
      /\ Head(queue).fn = fn
  BY DEF NextWork, TypeOK, BindingTypeOK
<1>2. /\ Len(queue) \in Nat /\ Len(queue) > 0 /\ queue[1].fn = fn
      /\ Len(queue') = Len(queue) - 1
      /\ \A i \in 1..Len(queue') : queue'[i] = queue[i + 1]
  BY <1>1, TailFacts
<1>3. 1 \in 1..Len(queue) /\ \A i \in 1..Len(queue') : i + 1 \in 1..Len(queue) /\ i + 1 # 1
  BY <1>2
<1> QED
  BY <1>2, <1>3 DEF OrderInv

\* Unless it is the initialisation that was taken, it keeps its place ahead of
\* the others.
LEMMA TakenReady ==
  ASSUME TypeOK, OrderInv, NEW fn, NextWork(fn),
         fn # "InitBindingHandlerInternal", UNCHANGED <<bmReady, dropped>>,
         NEW n \in Int, ReadyWithin(n + 1)
  PROVE  ReadyWithin(n)'
<1>1. CASE bmReady \/ Initialise \in dropped
  BY <1>1 DEF ReadyWithin, Initialise, Work
<1>2. CASE \E i \in 1..Len(queue) : i <= n + 1 /\ queue[i] = Initialise
  <2>1. PICK i \in 1..Len(queue) : i <= n + 1 /\ queue[i] = Initialise
    BY <1>2
  <2>2. i # 1
    BY <2>1, TakenOrder DEF Initialise, Work
  <2>3. i - 1 \in 1..Len(queue') /\ i - 1 <= n /\ queue'[i - 1] = queue[i]
    BY <2>1, <2>2, TakenOrder
  <2> QED
    BY <2>1, <2>3 DEF ReadyWithin, Initialise, Work
<1> QED
  BY <1>1, <1>2 DEF ReadyWithin

\* The start-up: nothing has been forwarded yet.
LEMMA OrderBoot ==
  ASSUME TypeOK, OrderInv, Boot, UNCHANGED coapVars
  PROVE  OrderInv'
<1>1. UNCHANGED <<data, method, pending, bmReady, fault>>
  BY DEF Boot, InitServer, InitBindingHandler, CreateCoapServerTask, coapVars
<1>2. phase # "up" /\ \A r \in Requests : ~Forwarded(r) /\ ~Forwarded(r)'
  <2>1. phase # "up"
    BY TakenOrder DEF Boot, InitServer, InitBindingHandler, CreateCoapServerTask
  <2> QED
    BY <1>1, <2>1 DEF OrderInv, Forwarded
<1>3. ForwardLostOnlyByFullQueue'
  BY <1>2 DEF ForwardLostOnlyByFullQueue, Forwarded
<1>4. CASE InitServer
  <2>1. \A i \in 1..Len(queue') : queue'[i].fn # "InitServer"
    BY <1>4, TakenOrder DEF InitServer
  <2> QED
    BY <1>2, <1>3, <1>4, <2>1 DEF InitServer, OrderInv
<1>5. CASE InitBindingHandler
  <2>1. Initialise \in WorkItems /\ Initialise.fn # "InitServer"
    BY DEF Initialise, Work, WorkItems
  <2>2. /\ Len(queue) \in Nat /\ Len(queue') \in Nat
        /\ \A i \in 1..Len(queue') :
             \/ i \in 1..Len(queue) /\ queue'[i] = queue[i]
             \/ queue'[i] = Initialise
        /\ \/ queue'[Len(queue')] = Initialise /\ Len(queue') > 0
           \/ Initialise \in dropped'
    <3>1. queue \in Seq(WorkItems)
      BY DEF TypeOK, BindingTypeOK
    <3>2. CASE queue' = queue /\ Initialise \in dropped'
      BY <3>1, <3>2
    <3>3. CASE queue' = Append(queue, Initialise)
      <4>1. /\ Len(queue) \in Nat /\ Len(queue') = Len(queue) + 1
            /\ queue'[Len(queue) + 1] = Initialise
            /\ \A i \in 1..Len(queue) : queue'[i] = queue[i]
        BY <2>1, <3>1, <3>3, AppendFacts
      <4> QED
        BY <4>1
    <3> QED
      BY <1>5, <3>2, <3>3 DEF InitBindingHandler, ScheduleWork, Initialise
  <2>3. ReadyWithin(Len(queue))'
    BY <2>2 DEF ReadyWithin, Initialise, Work
  <2>4. \A i \in 1..Len(queue') : queue'[i].fn # "InitServer"
    BY <1>5, <2>1, <2>2 DEF InitBindingHandler, OrderInv
  <2> QED
    BY <1>2, <1>3, <2>3, <2>4 DEF OrderInv
<1>6. CASE CreateCoapServerTask
  <2>1. ReadyWithin(Len(queue)) /\ (ReadyWithin(Len(queue)) => ReadyWithin(Len(queue))')
    BY <1>6, <1>1 DEF CreateCoapServerTask, OrderInv, ReadyWithin, Initialise, Work
  <2>2. \A i \in 1..Len(queue') : queue'[i].fn # "InitServer"
    BY <1>6 DEF CreateCoapServerTask, OrderInv
  <2> QED
    BY <1>2, <1>3, <2>1, <2>2 DEF OrderInv
<1> QED
  BY <1>4, <1>5, <1>6 DEF Boot

LEMMA OrderInitialised ==
  ASSUME TypeOK, OrderInv, InitBindingHandlerInternal, UNCHANGED coapVars
  PROVE  OrderInv'
<1>1. /\ UNCHANGED <<phase, dropped, data, pending, method, fault>>
      /\ \A n : ReadyWithin(n)'
  BY DEF InitBindingHandlerInternal, ReadyWithin, coapVars
<1>2. NextWork("InitBindingHandlerInternal")
  BY DEF InitBindingHandlerInternal
<1>3. \A r \in Requests : Queued(r) => Queued(r)'
  <2>1. ASSUME NEW r \in Requests, NEW i \in 1..Len(queue),
               queue[i] = Work("SwitchWorkerFunction", r)
        PROVE  Queued(r)'
    <3>1. i # 1
      BY <1>2, <2>1, TakenOrder DEF Work
    <3>2. i - 1 \in 1..Len(queue') /\ queue'[i - 1] = queue[i]
      BY <1>2, <3>1, TakenOrder
    <3> QED
      BY <2>1, <3>2 DEF Queued
  <2> QED
    BY <2>1 DEF Queued
<1>4. ForwardLostOnlyByFullQueue'
  BY <1>1, <1>3 DEF OrderInv, ForwardLostOnlyByFullQueue, Leaked, Live, Pending,
                    Running
<1>5. \A i \in 1..Len(queue') : queue'[i].fn # "InitServer"
  BY <1>2, TakenOrder
<1>6. \A r \in Requests : Forwarded(r)' <=> Forwarded(r)
  BY <1>1 DEF Forwarded
<1> QED
  BY <1>1, <1>4, <1>5, <1>6 DEF OrderInv

\* A block that is handed to the bindings is not lost: the binding manager is
\* ready when the turn of a forwarded block comes.
LEMMA OrderSwitch ==
  ASSUME TypeOK, BlockInv, OrderInv, SwitchWorkerFunction, UNCHANGED coapVars
  PROVE  OrderInv'
<1>1. PICK r \in Requests : r = Head(queue).arg /\ Queued(r) /\ ~Queued(r)'
  BY Dequeue DEF SwitchWorkerFunction, BlockInv
<1>2. /\ NextWork("SwitchWorkerFunction")
      /\ UNCHANGED <<phase, dropped, bmReady, method>>
  BY DEF SwitchWorkerFunction, coapVars
<1>3. NotifyUninitialised(r) \/ NotifyNullPeer(r) \/ NotifyMatching(r)
  BY <1>1 DEF SwitchWorkerFunction
<1>4. 1 \in 1..Len(queue) /\ queue[1] = Switch(r)
  <2>1. queue \in Seq(WorkItems) /\ queue # <<>>
    BY <1>2 DEF NextWork, TypeOK, BindingTypeOK
  <2>2. 1 \in 1..Len(queue) /\ Head(queue) = queue[1] /\ queue[1] \in WorkItems
    BY <2>1, TailFacts
  <2> QED
    BY <1>1, <1>2, <2>2 DEF NextWork, WorkItems, Switch, Work
<1>5. \A s \in Requests \ {r} : Queued(s) => Queued(s)'
  <2>1. ASSUME NEW s \in Requests \ {r}, NEW i \in 1..Len(queue),
               queue[i] = Work("SwitchWorkerFunction", s)
        PROVE  Queued(s)'
    <3>1. i # 1
      BY <1>4, <2>1 DEF Switch, Work
    <3>2. i - 1 \in 1..Len(queue') /\ queue'[i - 1] = queue[i]
      BY <1>2, <3>1, TakenOrder
    <3> QED
      BY <2>1, <3>2 DEF Queued
  <2> QED
    BY <2>1 DEF Queued
<1>6. Forwarded(r) => bmReady \/ Initialise \in dropped
  <2>1. Forwarded(r) => ReadyWithin(0)
    BY <1>4 DEF OrderInv
  <2>2. Len(queue) \in Nat
    BY <1>2, TakenOrder
  <2> QED
    BY <2>1, <2>2 DEF ReadyWithin
<1>7. \A s \in Requests \ {r} : Leaked(s)' => Leaked(s)
  <2>1. \A s \in Requests \ {r} :
          data'[s] \in {data[s]} /\ (Pending(s) => Pending(s)')
    <3>1. CASE UNCHANGED <<data, pending>>
      BY <3>1 DEF Pending
    <3>2. CASE NotifyMatching(r)
      BY <3>2, ReleaseFacts DEF NotifyMatching, Pending
    <3> QED
      BY <1>3, <3>1, <3>2 DEF NotifyUninitialised, NotifyNullPeer
  <2> QED
    BY <1>5, <2>1 DEF Leaked, Live
<1>8. Leaked(r)' /\ Forwarded(r) /\ Running' => Initialise \in dropped
  <2>1. CASE NotifyUninitialised(r)
    BY <1>6, <2>1 DEF NotifyUninitialised
  <2>2. CASE NotifyNullPeer(r)
    BY <2>2 DEF NotifyNullPeer, Running
  <2>3. CASE NotifyMatching(r)
    <3>1. data'[r] = IF \E b \in Entries : <<r, b>> \in pending'
                      THEN data[r] ELSE Freed
      BY <2>3, ReleaseFacts DEF NotifyMatching
    <3> QED
      BY <3>1 DEF Leaked, Live, Pending
  <2> QED
    BY <1>3, <2>1, <2>2, <2>3
<1>9. Running
  BY <1>2 DEF NextWork, ChipIdle
<1>10. ForwardLostOnlyByFullQueue'
  BY <1>2, <1>7, <1>8, <1>9
  DEF OrderInv, ForwardLostOnlyByFullQueue, Forwarded, Initialise, Work
<1>11. \A n \in Int : ReadyWithin(n + 1) => ReadyWithin(n)'
  BY <1>2, TakenReady
<1>12. phase \in {"deploying", "up"} => ReadyWithin(Len(queue))'
  <2>1. PICK n \in Int : n = Len(queue') /\ n + 1 = Len(queue)
    BY <1>2, TakenOrder
  <2>2. phase \in {"deploying", "up"} => ReadyWithin(n)'
    BY <1>11, <2>1 DEF OrderInv
  <2> QED
    BY <2>1, <2>2 DEF ReadyWithin
<1>13. ASSUME NEW s \in Requests, NEW j \in 1..Len(queue'), Forwarded(s)',
              queue'[j] = Switch(s)
       PROVE  ReadyWithin(j - 1)'
  <2>1. j + 1 \in 1..Len(queue) /\ queue[j + 1] = Switch(s)
    BY <1>2, <1>13, TakenOrder
  <2>2. ReadyWithin((j + 1) - 1)
    BY <1>2, <1>13, <2>1 DEF OrderInv, Forwarded
  <2>3. j - 1 \in Int /\ (j + 1) - 1 = (j - 1) + 1
    OBVIOUS
  <2> QED
    BY <1>11, <2>2, <2>3
<1>14. \A i \in 1..Len(queue') : queue'[i].fn # "InitServer"
  BY <1>2, TakenOrder
<1>15. phase' # "up" => \A s \in Requests : ~Forwarded(s)'
  BY <1>2 DEF OrderInv, Forwarded
<1> QED
  BY <1>2, <1>10, <1>12, <1>13, <1>14, <1>15 DEF OrderInv, Switch, Work

LEMMA OrderConnection ==
  ASSUME TypeOK, BlockInv, OrderInv, NEW r \in Requests, NEW b \in Entries,
         ConnectionResult(r, b), UNCHANGED coapVars
  PROVE  OrderInv'
<1>1. /\ pending' = pending \ {<<r, b>>}
      /\ ContextReleaseHandler(r, pending')
      /\ UNCHANGED <<phase, queue, dropped, bmReady, method, fault>>
  BY DEF ConnectionResult, DeviceConnected, NotificationDropped, coapVars
<1>2. /\ \A s \in Requests \ {r} : data'[s] = data[s]
      /\ data'[r] = IF \E c \in Entries : <<r, c>> \in pending'
                     THEN data[r] ELSE Freed
  BY <1>1, ReleaseFacts
<1>3. \A s \in Requests : Leaked(s)' => Leaked(s)
  BY <1>1, <1>2 DEF Leaked, Live, Queued, Pending
<1>4. ForwardLostOnlyByFullQueue'
  BY <1>1, <1>3 DEF OrderInv, ForwardLostOnlyByFullQueue, Running
<1>5. /\ \A n : ReadyWithin(n)' <=> ReadyWithin(n)
      /\ \A s : Forwarded(s)' <=> Forwarded(s)
  BY <1>1 DEF ReadyWithin, Forwarded
<1> QED
  BY <1>1, <1>4, <1>5 DEF OrderInv, Switch, Work

\* A block is posted behind the initialisation, or refused.
LEMMA OrderForward ==
  ASSUME TypeOK, BlockInv, OrderInv, NEW r \in Requests, NEW d \in CommandData,
         NEW how \in {"get", "put", "command", "button"}, Forward(r, d, how),
         how # "button" => phase = "up"
  PROVE  OrderInv'
<1>1. /\ method[r] = "none" /\ method'[r] = how
      /\ \A s \in Requests \ {r} : method'[s] = method[s] /\ data'[s] = data[s]
      /\ UNCHANGED <<phase, bmReady, pending, fault>>
      /\ ScheduleWork(Switch(r))
  BY DEF Forward, Switch, TypeOK, BindingTypeOK
<1>2. ~Queued(r)
  BY <1>1 DEF BlockInv, NoUseAfterRelease, Live
<1>3. /\ Len(queue) \in Nat /\ Len(queue') \in Nat /\ Len(queue) <= Len(queue')
      /\ \A i \in 1..Len(queue) : queue'[i] = queue[i]
      /\ dropped \subseteq dropped'
      /\ \A i \in 1..Len(queue') :
           \/ i \in 1..Len(queue)
           \/ /\ i = Len(queue) + 1
              /\ queue'[i] = Switch(r)
      /\ \/ Switch(r) \in dropped'
         \/ /\ Len(queue) + 1 \in 1..Len(queue')
            /\ queue'[Len(queue) + 1] = Switch(r)
  <2>1. queue \in Seq(WorkItems) /\ Switch(r) \in WorkItems
    BY DEF TypeOK, BindingTypeOK, Switch, Work, WorkItems
  <2>2. CASE queue' = queue /\ dropped' = dropped \cup {Switch(r)}
    BY <2>1, <2>2
  <2>3. CASE queue' = Append(queue, Switch(r)) /\ dropped' = dropped
    <3>1. /\ Len(queue) \in Nat /\ Len(queue') = Len(queue) + 1
          /\ queue'[Len(queue) + 1] = Switch(r)
          /\ \A i \in 1..Len(queue) : queue'[i] = queue[i]
      BY <2>1, <2>3, AppendFacts
    <3> QED
      BY <2>3, <3>1
  <2> QED
    BY <1>1, <2>2, <2>3 DEF ScheduleWork
<1>4. \A n : ReadyWithin(n) => ReadyWithin(n)'
  <2>1. \A i \in 1..Len(queue) : i \in 1..Len(queue') /\ queue'[i] = queue[i]
    BY <1>3
  <2> QED
    BY <1>1, <1>3, <2>1 DEF ReadyWithin, Initialise, Work
<1>5. ReadyWithin(Len(queue)) => ReadyWithin(Len(queue))'
  <2>1. PICK n \in Int : n = Len(queue')
    BY <1>3
  <2>2. ReadyWithin(Len(queue)) => ReadyWithin(n)'
    BY <1>3, <1>4, <2>1 DEF ReadyWithin
  <2> QED
    BY <2>1, <2>2 DEF ReadyWithin
<1>6. \A s \in Requests \ {r} : (Forwarded(s)' <=> Forwarded(s))
  BY <1>1 DEF Forwarded
<1>7. ASSUME NEW s \in Requests, NEW j \in 1..Len(queue'), Forwarded(s)',
             queue'[j] = Switch(s)
      PROVE  ReadyWithin(j - 1)'
  <2>1. CASE j \in 1..Len(queue)
    <3>1. queue[j] = Switch(s) /\ s # r
      BY <1>2, <1>3, <1>7, <2>1 DEF Queued, Switch
    <3> QED
      BY <1>4, <1>6, <1>7, <2>1, <3>1 DEF OrderInv
  <2>2. CASE j = Len(queue) + 1
    <3>1. s = r /\ j - 1 = Len(queue)
      BY <1>3, <1>7, <2>2 DEF Switch, Work
    <3>2. phase = "up"
      BY <1>1, <1>7, <3>1 DEF Forwarded
    <3> QED
      BY <1>4, <3>1, <3>2 DEF OrderInv
  <2> QED
    BY <1>3, <2>1, <2>2
<1>8. ForwardLostOnlyByFullQueue'
  <2>1. ASSUME NEW s \in Requests \ {r}, Leaked(s)' PROVE Leaked(s)
    <3>1. \A i \in 1..Len(queue) : i \in 1..Len(queue') /\ queue'[i] = queue[i]
      BY <1>3
    <3>2. Queued(s) => Queued(s)'
      BY <3>1 DEF Queued
    <3> QED
      BY <1>1, <2>1, <3>2 DEF Leaked, Live, Pending
  <2>2. Queued(r)' \/ Switch(r) \in dropped'
    BY <1>3 DEF Queued, Switch
  <2>3. Running' = Running
    BY <1>1 DEF Running
  <2> QED
    BY <1>1, <1>3, <2>1, <2>2, <2>3
    DEF OrderInv, ForwardLostOnlyByFullQueue, Leaked, Switch
<1>9. \A i \in 1..Len(queue') :
        queue'[i].fn = "InitServer" => phase' = "boot" /\ i = 1
  BY <1>1, <1>3 DEF OrderInv, Switch, Work
<1>10. phase' # "up" => \A s \in Requests : ~Forwarded(s)'
  BY <1>1, <1>6 DEF OrderInv, Forwarded
<1> QED
  BY <1>1, <1>5, <1>7, <1>8, <1>9, <1>10 DEF OrderInv, Switch, Work

LEMMA NextOrder == TypeOK /\ BlockInv /\ OrderInv /\ [Next]_vars => OrderInv'
<1> SUFFICES ASSUME TypeOK, BlockInv, OrderInv, [Next]_vars PROVE OrderInv'
  OBVIOUS
<1>1. CASE (Boot \/ ChipWork) /\ UNCHANGED coapVars
  <2>1. CASE AssignResult
    BY <1>1, <2>1, OrderStutter DEF AssignResult, orderVars, coapVars
  <2> QED
    BY <1>1, <2>1, OrderBoot, OrderInitialised, OrderSwitch DEF ChipWork
<1>2. ASSUME NEW b \in Entries, BindingWorkerFunction(b), UNCHANGED coapVars
      PROVE  OrderInv'
  BY <1>2, OrderStutter DEF BindingWorkerFunction, orderVars, coapVars, Running
<1>3. ASSUME NEW r \in Requests, NEW b \in Entries, ReadAnswered(r, b),
             UNCHANGED coapVars
      PROVE  OrderInv'
  BY <1>3, OrderStutter
  DEF ReadAnswered, OnReadSuccess, OnReadFailure, orderVars, coapVars, Running
<1>4. ASSUME NEW r \in Requests, NEW d \in CommandData,
             GetArrives(r, d) \/ PutArrives(r, d, "put")
               \/ PutArrives(r, d, "command") \/ ButtonArrives(r, d)
      PROVE  OrderInv'
  BY <1>4, OrderForward DEF GetArrives, PutArrives, ButtonArrives, Serving
<1>5. CASE (\E kind \in {"content", "undefined"} : HandlerEnds(kind)) \/ PollAgain
  BY <1>5, OrderStutter
  DEF HandlerEnds, Respond, EndOfHandler, PollAgain, orderVars, bindingVars,
      Running
<1>6. CASE UNCHANGED vars
  BY <1>6, OrderStutter DEF vars, bindingVars, coapVars, orderVars, Running
<1> QED
  BY <1>1, <1>2, <1>3, <1>4, <1>5, <1>6, OrderConnection, NextCases

\* ForwardLostOnlyByFullQueue for any number of requests and queue slots: no
\* order of start-up, button presses and requests loses a request but a full
\* queue.
THEOREM OnlyAFullQueueLoses == Spec => []ForwardLostOnlyByFullQueue
<1>1. Init => TypeOK /\ BlockInv /\ OrderInv
  BY InitType, InitBlock, InitOrder
<1>2. TypeOK /\ BlockInv /\ OrderInv /\ [Next]_vars =>
        (TypeOK /\ BlockInv /\ OrderInv)'
  BY NextType, NextBlock, NextOrder
<1>3. OrderInv => ForwardLostOnlyByFullQueue
  BY DEF OrderInv
<1> QED
  BY <1>1, <1>2, <1>3, PTL DEF Spec

\* What is answered 2.04 Changed is a PUT from CoAP, never a press of the button.
ChangedIsPut ==
  \A r \in Requests : reply[r] = "changed" => method[r] \in {"put", "command"}

LEMMA NextChanged ==
  ASSUME TypeOK, ChangedIsPut, ServeInv, [Next]_vars
  PROVE  ChangedIsPut'
<1>1. CASE UNCHANGED coapVars
  BY <1>1 DEF coapVars, ChangedIsPut
<1>2. ASSUME NEW r \in Requests, NEW d \in CommandData,
             GetArrives(r, d) \/ ButtonArrives(r, d)
      PROVE  ChangedIsPut'
  BY <1>2 DEF GetArrives, ButtonArrives, Forward, ChangedIsPut, ServeInv, TypeOK
<1>3. ASSUME NEW r \in Requests, NEW d \in CommandData,
             NEW how \in {"put", "command"}, PutArrives(r, d, how)
      PROVE  ChangedIsPut'
  BY <1>3 DEF PutArrives, Forward, Changed, ChangedIsPut, TypeOK
<1>4. ASSUME NEW kind \in {"content", "undefined"}, HandlerEnds(kind)
      PROVE  ChangedIsPut'
  BY <1>4 DEF HandlerEnds, Respond, EndOfHandler, ChangedIsPut, TypeOK
<1>5. CASE PollAgain
  BY <1>5 DEF PollAgain, ChangedIsPut
<1> QED
  BY <1>1, <1>2, <1>3, <1>4, <1>5, NextCases DEF vars

\* As long as the CHIP queue has refused nothing, 2.04 Changed means what it says:
\* the block is with the CHIP task, with the bindings or released.
THEOREM ChangedMeansForwarded == Spec => [](dropped = {} => ChangedIsForwarded)
<1>1. Init => TypeOK /\ ServeInv /\ ChangedIsPut
  BY InitType, InitServe DEF Init, ChangedIsPut
<1>2. TypeOK /\ ServeInv /\ ChangedIsPut /\ [Next]_vars =>
        (TypeOK /\ ServeInv /\ ChangedIsPut)'
  BY NextType, NextServe, NextChanged
<1>3. ChangedIsPut /\ ForwardLostOnlyByFullQueue =>
        (dropped = {} => ChangedIsForwarded)
  BY DEF ChangedIsPut, ForwardLostOnlyByFullQueue, ChangedIsForwarded
<1> QED
  BY <1>1, <1>2, <1>3, OnlyAFullQueueLoses, PTL DEF Spec
=============================================================================
