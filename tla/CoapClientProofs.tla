--------------------------- MODULE CoapClientProofs ---------------------------
(***************************************************************************)
(* The proofs about the CoAP client: as long as the calls of the two tasks *)
(* do not overlap, the globals of main/CoapClient.cpp belong to the one    *)
(* call under way, whichever of its steps fail, and its callers get what   *)
(* ClientCall promises them.                                               *)
(***************************************************************************)
EXTENDS CoapClient, TLAPS

-----------------------------------------------------------------------------
(* The inductive invariant. *)

\* A task is inside a call that has been begun.
CallInv ==
  \A t \in Tasks :
    /\ pc[t] = "idle" <=> call[t] = None
    /\ pc[t] # "idle" => fn[call[t]] # NoFunction

\* What the globals hold for call c of a task: its context with the session of
\* c, with no session, or no context at all.
Linked(c) ==
  /\ ctx = c
  /\ contexts = {c}
  /\ sessions = [x \in Calls |-> IF x = c THEN {c} ELSE {}]

NoSessions == sessions = [x \in Calls |-> {}]

Unlinked(c) == ctx = c /\ contexts = {c} /\ NoSessions

Clear == ctx = None /\ contexts = {} /\ NoSessions

\* The flag is raised by the answer to the call, and by nothing else.
FlagIsAnswer(c) == have_response = 1 <=> c \in handled

Unanswered(c) == have_response = 0 /\ c \notin handled

Undecided(c) == outcome[c] = "none"

Decided(c) == outcome[c] # "none" /\ (outcome[c] = "answered" <=> c \in handled)

\* The answer on the context of a GET goes to the handler of its function.
OwnHandler(c) == fn[c].method = "GET" => handler[c] = fn[c]

\* The globals, the history and the place of the call fit together.
AtContext(c) == Clear /\ optlist = {} /\ Unanswered(c) /\ Undecided(c)

AtSession(c) == Unlinked(c) /\ optlist = {} /\ Unanswered(c) /\ Undecided(c)

AtSend(c) ==
  Linked(c) /\ OwnHandler(c) /\ optlist = {} /\ Unanswered(c) /\ Undecided(c)

AtLoop(c) ==
  /\ Linked(c) /\ OwnHandler(c) /\ optlist = {c} /\ FlagIsAnswer(c)
  /\ Undecided(c)

AtIo(c) == AtLoop(c) /\ Unanswered(c)

AtFinish(c) ==
  /\ Linked(c) \/ Unlinked(c) \/ Clear
  /\ optlist \subseteq {c} /\ FlagIsAnswer(c) /\ Decided(c)

AtFree(c) ==
  /\ Unlinked(c) \/ Clear
  /\ optlist = {} /\ have_response = 0 /\ Decided(c)

Placed(t) ==
  LET c == call[t] IN
  /\ pc[t] = "context" => AtContext(c)
  /\ pc[t] = "session" => AtSession(c)
  /\ pc[t] = "send"    => AtSend(c)
  /\ pc[t] = "loop"    => AtLoop(c)
  /\ pc[t] = "io"      => AtIo(c) /\ using[t] = c
  /\ pc[t] = "finish"  => AtFinish(c)
  /\ pc[t] = "free"    => AtFree(c)

AllIdle == \A t \in Tasks : pc[t] = "idle"

OneAtATime == \A s, t \in Tasks : pc[s] # "idle" /\ pc[t] # "idle" => s = t

UnusedUntouched ==
  \A c \in Calls : fn[c] = NoFunction => c \notin handled /\ outcome[c] = "none"

ClientInv ==
  ~overlapped =>
    /\ OneAtATime
    /\ AllIdle => Clear /\ optlist = {} /\ have_response = 0
    /\ \A t \in Tasks : Placed(t)
    /\ UnusedUntouched
    /\ AnswersGoHome
    /\ fault \in {"none", "json exception"}

-----------------------------------------------------------------------------
(* Types. *)

LEMMA FunctionFacts ==
  /\ NoFunction \notin Functions
  /\ \A t \in Tasks : FunctionsOf(t) \subseteq Functions
  /\ NoFunction.sink \notin Documents
  /\ NoFunction.method # "GET"
<1> DEFINE methods == {LoadClusterXmlFile, LoadSdfModelFile,
                       LoadSdfMappingLwm2mFile, LoadSdfMappingMatterFile,
                       LoadLwm2mFile, CoapClientGet, CoapClientGetAnswer,
                       CoapClientPut, CoapClientPutData}
<1>1. \A f \in methods : f.method \in {"GET", "PUT"}
  BY DEF Function, LoadClusterXmlFile, LoadSdfModelFile,
         LoadSdfMappingLwm2mFile, LoadSdfMappingMatterFile, LoadLwm2mFile,
         CoapClientGet, CoapClientGetAnswer, CoapClientPut, CoapClientPutData
<1>2. NoFunction.method = "none" /\ NoFunction.sink = "none"
  BY DEF NoFunction, Function
<1>3. Functions \subseteq methods
  BY DEF Functions, FunctionsOf
<1>4. \A t \in Tasks : FunctionsOf(t) \subseteq Functions
  BY DEF Tasks, Functions
<1> QED
  BY <1>1, <1>2, <1>3, <1>4 DEF Documents

LEMMA InitTypes == Init => TypeOK /\ CallInv
<1>1. Init => TypeOK
  <2>1. 0 \in 0..Wait
    BY CoapClientAssumption
  <2>2. Init => handler \in [Calls -> Functions \cup {NoFunction}]
              /\ fn \in [Calls -> Functions \cup {NoFunction}]
    BY DEF Init
  <2>3. Init => overlapped \in BOOLEAN
    BY DEF Init
  <2>4. Init => status \in [Calls -> {"none", "Success"}]
    BY DEF Init
  <2> QED
    BY <2>1, <2>2, <2>3, <2>4 DEF Init, TypeOK
<1>2. Init => CallInv
  BY DEF Init, CallInv
<1> QED
  BY <1>1, <1>2

LEMMA StepTypes ==
  ASSUME TypeOK, CallInv, [Next]_vars
  PROVE  TypeOK' /\ CallInv'
<1>1. ASSUME NEW t \in Tasks, NEW c \in Calls, NEW f \in Functions,
             Begin(t, c, f)
      PROVE  TypeOK' /\ CallInv'
  <2>1. f # NoFunction
    BY FunctionFacts
  <2>2. TypeOK'
    <3>1. overlapped' \in BOOLEAN
      BY <1>1, ZenonT(20) DEF Begin
    <3>2. pc' \in [Tasks -> {"idle", "context", "session", "send", "loop",
                            "io", "finish", "free"}]
      BY <1>1 DEF Begin, Goto, TypeOK
    <3>4. outcome' \in [Calls -> {"none", "failed", "sent", "answered", "timeout"}]
      BY <1>1 DEF Begin, TypeOK
    <3>3. call' \in [Tasks -> Calls \cup {None}]
          /\ fn' \in [Calls -> Functions \cup {NoFunction}]
      BY <1>1 DEF Begin, TypeOK
    <3> QED
      BY <1>1, <3>1, <3>2, <3>3, <3>4 DEF Begin, TypeOK, globalVars
  <2>3. ASSUME NEW s \in Tasks
        PROVE  /\ pc'[s] = "idle" <=> call'[s] = None
               /\ pc'[s] # "idle" => fn'[call'[s]] # NoFunction
    <3>1. CASE s = t
      BY <1>1, <2>1, <3>1, CoapClientAssumption DEF Begin, Goto, TypeOK
    <3>2. CASE s # t
      <4>1. pc'[s] = pc[s] /\ call'[s] = call[s]
        BY <1>1, <3>2 DEF Begin, Goto, TypeOK
      <4>2. pc[s] # "idle" => call[s] \in Calls
        BY DEF TypeOK, CallInv
      <4>3. \A x \in Calls : fn'[x] = IF x = c THEN f ELSE fn[x]
        BY <1>1 DEF Begin, TypeOK
      <4> QED
        BY <2>1, <4>1, <4>2, <4>3 DEF CallInv
    <3> QED
      BY <3>1, <3>2
  <2> QED
    BY <2>2, <2>3 DEF CallInv
<1>2. ASSUME NEW t \in Tasks, Step(t)
      PROVE  TypeOK' /\ CallInv'
  <2> USE DEF At, Goto, Fail, Dies, globalVars, taskVars, historyVars
  <2>0. pc[t] # "idle" => call[t] \in Calls /\ fn[call[t]] # NoFunction
    BY DEF TypeOK, CallInv
  <2>1. CASE NewContext(t)
    <3>1. TypeOK'
      BY <2>0, <2>1 DEF NewContext, TypeOK
    <3>2. CallInv'
      BY <2>1 DEF NewContext, TypeOK, CallInv
    <3> QED
      BY <3>1, <3>2
  <2>2. CASE NewSession(t)
    <3>1. CASE BadContext(t, ctx)
      BY <3>1 DEF BadContext, TypeOK, CallInv
    <3>2. CASE /\ ctx \in contexts
               /\ Goto(t, "send")
               /\ sessions' = [sessions EXCEPT ![ctx] = @ \cup {call[t]}]
               /\ handler' = [handler EXCEPT
                                ![ctx] = IF fn[call[t]].method = "GET"
                                         THEN fn[call[t]] ELSE @]
               /\ UNCHANGED <<ctx, optlist, have_response, contexts, doc, call,
                              using, wait_ms, historyVars, fault>>
      <4>1. /\ ctx \in Calls
            /\ fn[call[t]] \in Functions \cup {NoFunction}
            /\ {call[t]} \subseteq Calls
        BY <2>0, <2>2, <3>2 DEF NewSession, TypeOK
      <4>2. sessions' \in [Calls -> SUBSET Calls]
            /\ handler' \in [Calls -> Functions \cup {NoFunction}]
        BY <3>2, <4>1 DEF TypeOK
      <4>3. pc' \in [Tasks -> {"idle", "context", "session", "send", "loop",
                              "io", "finish", "free"}]
        BY <3>2 DEF TypeOK
      <4>4. TypeOK'
        BY <3>2, <4>2, <4>3 DEF TypeOK
      <4>5. CallInv'
        BY <2>2, <3>2 DEF NewSession, TypeOK, CallInv
      <4> QED
        BY <4>4, <4>5
    <3>3. CASE /\ Fail(t)
               /\ UNCHANGED <<globalVars, call, using, wait_ms, fn, uri,
                              handled, status, overlapped, fault>>
      BY <2>2, <3>3 DEF NewSession, TypeOK, CallInv
    <3> QED
      BY <2>2, <3>1, <3>2, <3>3 DEF NewSession
  <2>3. CASE Send(t)
    <3>1. TypeOK'
      <4>1. call[t] \in Calls /\ optlist' \subseteq Calls
        BY <2>0, <2>3 DEF Send, TypeOK
      <4>2. /\ \/ outcome' = outcome
               \/ outcome' = [outcome EXCEPT ![call[t]] = "failed"]
               \/ outcome' = [outcome EXCEPT ![call[t]] = "sent"]
            /\ \/ pc' = [pc EXCEPT ![t] = "loop"]
               \/ pc' = [pc EXCEPT ![t] = "finish"]
        BY <2>3 DEF Send
      <4>3. Wait \in 0..Wait
        BY CoapClientAssumption
      <4>4. uri' \in [Calls -> SUBSET Calls]
        <5>1. uri' = uri \/ uri' = [uri EXCEPT ![call[t]] = optlist']
          BY <2>3 DEF Send
        <5>2. uri \in [Calls -> SUBSET Calls]
          BY DEF TypeOK
        <5> QED
          BY <4>1, <5>1, <5>2
      <4>5. wait_ms' \in [Tasks -> 0..Wait]
        <5>1. wait_ms' = wait_ms \/ wait_ms' = [wait_ms EXCEPT ![t] = Wait]
          BY <2>3 DEF Send
        <5>2. wait_ms \in [Tasks -> 0..Wait]
          BY DEF TypeOK
        <5> QED
          BY <4>3, <5>1, <5>2
      <4>6. outcome' \in [Calls -> {"none", "failed", "sent", "answered",
                                   "timeout"}]
        BY <4>2 DEF TypeOK
      <4>7. pc' \in [Tasks -> {"idle", "context", "session", "send", "loop",
                              "io", "finish", "free"}]
        BY <4>2 DEF TypeOK
      <4> QED
        BY <2>3, <4>1, <4>4, <4>5, <4>6, <4>7 DEF Send, TypeOK
    <3>2. CallInv'
      BY <2>3 DEF Send, TypeOK, CallInv
    <3> QED
      BY <3>1, <3>2
  <2>4. CASE UseFreedSession(t)
    BY <2>4 DEF UseFreedSession, TypeOK, CallInv
  <2>5. CASE LoopEnter(t)
    <3>1. TypeOK'
      BY <2>5 DEF LoopEnter, BadContext, TypeOK
    <3>2. CallInv'
      BY <2>5 DEF LoopEnter, BadContext, TypeOK, CallInv
    <3> QED
      BY <3>1, <3>2
  <2>6. CASE LoopExit(t)
    BY <2>0, <2>6 DEF LoopExit, TypeOK, CallInv
  <2>7. CASE IoFreed(t)
    BY <2>7 DEF IoFreed, TypeOK, CallInv
  <2>8. ASSUME NEW c \in Calls, IoResponse(t, c)
        PROVE  TypeOK' /\ CallInv'
    <3>1. PICK payload \in {"valid", "malformed", "empty"} :
            ResponseHandler(handler[using[t]], c, payload)
      BY <2>8 DEF IoResponse
    <3>2. TypeOK'
      BY <2>8, <3>1 DEF IoResponse, ResponseHandler, TypeOK
    <3>3. CallInv'
      BY <2>8 DEF IoResponse, TypeOK, CallInv
    <3> QED
      BY <3>2, <3>3
  <2>9. CASE IoElapsed(t)
    <3>1. TypeOK'
      <4>1. wait_ms[t] \in 0..Wait /\ wait_ms \in [Tasks -> 0..Wait]
        BY DEF TypeOK
      <4>2. \A x \in 0..Wait : ~(x <= 1) => x - 1 \in 0..Wait
        BY CoapClientAssumption
      <4>3. /\ \/ wait_ms' = wait_ms
               \/ /\ ~(wait_ms[t] <= 1)
                  /\ wait_ms' = [wait_ms EXCEPT ![t] = @ - 1]
            /\ \/ outcome' = outcome
               \/ outcome' = [outcome EXCEPT ![call[t]] = "timeout"]
            /\ \/ pc' = [pc EXCEPT ![t] = "loop"]
               \/ pc' = [pc EXCEPT ![t] = "finish"]
        BY <2>9 DEF IoElapsed
      <4>4. wait_ms' \in [Tasks -> 0..Wait]
        BY <4>1, <4>2, <4>3
      <4>5. /\ outcome' \in [Calls -> {"none", "failed", "sent", "answered",
                                      "timeout"}]
            /\ pc' \in [Tasks -> {"idle", "context", "session", "send", "loop",
                                 "io", "finish", "free"}]
        BY <4>3 DEF TypeOK
      <4> QED
        BY <2>9, <4>4, <4>5 DEF IoElapsed, TypeOK
    <3>2. CallInv'
      BY <2>9 DEF IoElapsed, TypeOK, CallInv
    <3> QED
      BY <3>1, <3>2
  <2>10. CASE IoError(t)
    BY <2>10 DEF IoError, TypeOK, CallInv
  <2>11. CASE Finish(t)
    BY <2>11 DEF Finish, TypeOK, CallInv
  <2>12. CASE FreeContext(t)
    <3>1. TypeOK'
      BY <2>12 DEF FreeContext, CallbackStatus, TypeOK
    <3>2. CallInv'
      BY <2>12 DEF FreeContext, TypeOK, CallInv
    <3> QED
      BY <3>1, <3>2
  <2> QED
    BY <1>2, <2>1, <2>2, <2>3, <2>4, <2>5, <2>6, <2>7, <2>8, <2>9, <2>10,
       <2>11, <2>12 DEF Step
<1>3. CASE UNCHANGED vars
  BY <1>3 DEF vars, globalVars, taskVars, historyVars, TypeOK, CallInv
<1> QED
  BY <1>1, <1>2, <1>3 DEF Next

-----------------------------------------------------------------------------
(* The globals belong to the call under way. *)

LEMMA InitClient == Init => ClientInv
<1> SUFFICES ASSUME Init PROVE ClientInv
  OBVIOUS
<1>1. OneAtATime /\ \A t \in Tasks : Placed(t)
  BY DEF Init, OneAtATime, Placed
<1>2. Clear /\ optlist = {} /\ have_response = 0
  BY DEF Init, Clear, NoSessions
<1>3. UnusedUntouched /\ AnswersGoHome
  BY DEF Init, UnusedUntouched, AnswersGoHome
<1> QED
  BY <1>1, <1>2, <1>3 DEF Init, ClientInv

\* What the invariant says of the call of a task that is inside one.
LEMMA InOneCall ==
  ASSUME TypeOK, CallInv, ClientInv, ~overlapped,
         NEW t \in Tasks, pc[t] # "idle"
  PROVE  /\ call[t] \in Calls /\ call[t] # None /\ fn[call[t]] # NoFunction
         /\ \A s \in Tasks : s # t => pc[s] = "idle"
         /\ Placed(t)
         /\ UnusedUntouched
         /\ \A c \in Calls : uri[c] \subseteq {c}
         /\ \A d \in Documents : doc[d] # None => fn[doc[d]].sink = d
         /\ fault \in {"none", "json exception"}
<1>1. call[t] \in Calls /\ call[t] # None /\ fn[call[t]] # NoFunction
  BY DEF TypeOK, CallInv
<1>2. OneAtATime /\ Placed(t) /\ UnusedUntouched /\ AnswersGoHome
      /\ fault \in {"none", "json exception"}
  BY DEF ClientInv
<1>3. \A s \in Tasks : s # t => pc[s] = "idle"
  BY <1>2 DEF OneAtATime
<1> QED
  BY <1>1, <1>2, <1>3 DEF AnswersGoHome

\* A step inside the call: it is enough to look at the call itself.
LEMMA InCallStep ==
  ASSUME TypeOK, CallInv, ClientInv, ~overlapped,
         NEW t \in Tasks, pc[t] # "idle",
         NEW where, where # "idle", pc' = [pc EXCEPT ![t] = where],
         fn' = fn,
         handled' \subseteq handled \cup {call[t]},
         outcome' = outcome \/ \E r : outcome' = [outcome EXCEPT ![call[t]] = r],
         \A c \in Calls : uri'[c] \subseteq {c},
         doc' = doc \/ \E d \in Documents : /\ doc' = [doc EXCEPT ![d] = call[t]]
                                           /\ fn[call[t]].sink = d,
         fault' \in {"none", "json exception"},
         Placed(t)'
  PROVE  ClientInv'
<1>1. pc'[t] = where /\ \A s \in Tasks : s # t => pc'[s] = "idle"
  BY InOneCall DEF TypeOK
<1>2. OneAtATime' /\ ~AllIdle' /\ \A s \in Tasks : Placed(s)'
  BY <1>1 DEF OneAtATime, AllIdle, Placed
<1>3. UnusedUntouched'
  <2>1. fn[call[t]] # NoFunction /\ UnusedUntouched
    BY InOneCall
  <2>2. \A c \in Calls : c # call[t] => outcome'[c] = outcome[c]
    BY DEF TypeOK
  <2> QED
    BY <2>1, <2>2 DEF UnusedUntouched
<1>4. \A d \in Documents : doc'[d] # None => fn'[doc'[d]].sink = d
  <2>1. \A d \in Documents : doc[d] # None => fn[doc[d]].sink = d
    BY InOneCall
  <2>2. doc \in [Documents -> Calls \cup {None}]
    BY DEF TypeOK
  <2> QED
    BY <2>1, <2>2
<1> QED
  BY <1>2, <1>3, <1>4 DEF ClientInv, AnswersGoHome
\* While no two calls overlap a call never meets a freed session.
LEMMA SessionStays ==
  ASSUME TypeOK, CallInv, ClientInv, ~overlapped,
         NEW t \in Tasks, pc[t] \in {"send", "finish"}
  PROVE  ~SessionFreed(t)
<1>1. Linked(call[t]) \/ Unlinked(call[t]) \/ Clear
  BY InOneCall DEF Placed, AtSend, AtFinish
<1>2. \A c \in Calls : c \notin contexts => sessions[c] = {}
  BY <1>1 DEF Linked, Unlinked, Clear, NoSessions
<1> QED
  BY <1>2 DEF SessionFreed

LEMMA BeginClient ==
  ASSUME TypeOK, CallInv, ClientInv, NEW t \in Tasks, NEW c \in Calls,
         NEW f \in Functions, Begin(t, c, f), ~overlapped'
  PROVE  ClientInv'
<1>1. ~overlapped /\ AllIdle
  BY DEF Begin, AllIdle
<1>2. Clear /\ optlist = {} /\ have_response = 0 /\ UnusedUntouched
      /\ AnswersGoHome /\ fault \in {"none", "json exception"}
  BY <1>1 DEF ClientInv
<1>3. /\ pc' = [pc EXCEPT ![t] = "context"] \/ pc' = [pc EXCEPT ![t] = "finish"]
      /\ pc' = [pc EXCEPT ![t] = "context"] => outcome' = outcome
      /\ pc' = [pc EXCEPT ![t] = "finish"] =>
           outcome' = [outcome EXCEPT ![c] = "failed"]
  <2>1. "context" # "finish" /\ t \in DOMAIN pc
    BY DEF TypeOK
  <2>2. [pc EXCEPT ![t] = "context"][t] = "context"
        /\ [pc EXCEPT ![t] = "finish"][t] = "finish"
    BY <2>1
  <2> QED
    BY <2>2 DEF Begin, Goto
<1>4. \A s \in Tasks : s # t => pc'[s] = "idle"
  BY <1>1, <1>3 DEF AllIdle, TypeOK
<1>5. OneAtATime' /\ ~AllIdle'
  BY <1>3, <1>4 DEF OneAtATime, AllIdle, TypeOK
<1>6. fn[c] = NoFunction /\ c \notin handled /\ outcome[c] = "none"
  BY <1>2 DEF Begin, UnusedUntouched
<1>7. Placed(t)'
  <2>1. call'[t] = c /\ UNCHANGED <<globalVars, handled>>
    BY DEF Begin, TypeOK
  <2>2. Clear' /\ optlist' = {} /\ have_response' = 0 /\ c \notin handled'
    BY <1>2, <1>6, <2>1 DEF Clear, NoSessions, globalVars
  <2>3. CASE pc' = [pc EXCEPT ![t] = "context"]
    <3>1. pc'[t] = "context" /\ outcome'[c] = "none"
      BY <1>3, <1>6, <2>3 DEF TypeOK
    <3> QED
      BY <2>1, <2>2, <3>1 DEF Placed, AtContext, Unanswered, Undecided
  <2>4. CASE pc' = [pc EXCEPT ![t] = "finish"]
    <3>1. pc'[t] = "finish" /\ outcome'[c] = "failed"
      BY <1>3, <2>4 DEF TypeOK
    <3> QED
      BY <2>1, <2>2, <3>1 DEF Placed, AtFinish, FlagIsAnswer, Decided
  <2> QED
    BY <1>3, <2>3, <2>4
<1>8. \A s \in Tasks : Placed(s)'
  BY <1>4, <1>7 DEF Placed
<1>9. UnusedUntouched'
  <2>1. f # NoFunction /\ \A x \in Calls : fn'[x] = IF x = c THEN f ELSE fn[x]
    BY FunctionFacts DEF Begin, TypeOK
  <2>2. handled' = handled /\ \A x \in Calls : x # c => outcome'[x] = outcome[x]
    BY <1>3 DEF Begin, TypeOK
  <2> QED
    BY <1>2, <2>1, <2>2 DEF UnusedUntouched
<1>10. AnswersGoHome'
  <2>1. \A x \in Calls : x # c => fn'[x] = fn[x]
    BY DEF Begin, TypeOK
  <2>2. \A d \in Documents : doc[d] # None => doc[d] \in Calls /\ doc[d] # c
    <3>1. \A d \in Documents : doc[d] # None => fn[doc[d]].sink = d
      BY <1>1, <1>2 DEF AnswersGoHome
    <3>2. \A d \in Documents : doc[d] \in Calls \cup {None}
      BY DEF TypeOK
    <3>3. fn[c].sink \notin Documents
      BY <1>6, FunctionFacts
    <3> QED
      BY <3>1, <3>2, <3>3
  <2> QED
    BY <1>1, <1>2, <2>1, <2>2 DEF AnswersGoHome, Begin, globalVars
<1> QED
  BY <1>2, <1>5, <1>8, <1>9, <1>10 DEF ClientInv, Begin
LEMMA StepClient ==
  ASSUME TypeOK, CallInv, ClientInv, ~overlapped, NEW t \in Tasks, Step(t)
  PROVE  ClientInv'
<1>1. pc[t] # "idle"
  BY DEF Step, At, NewContext, NewSession, Send, UseFreedSession, LoopEnter,
         LoopExit, IoFreed, IoResponse, IoElapsed, IoError, Finish, FreeContext
<1>2. PICK c \in Calls : c = call[t]
  BY <1>1, InOneCall
<1>3. /\ c # None /\ fn[c] # NoFunction
      /\ \A s \in Tasks : s # t => pc[s] = "idle"
      /\ Placed(t)
      /\ UnusedUntouched
      /\ \A x \in Calls : uri[x] \subseteq {x}
      /\ fault \in {"none", "json exception"}
  BY <1>1, <1>2, InOneCall
\* A step inside the call, from one place to another.
<1>4. ASSUME NEW where, where # "idle", Goto(t, where), call' = call, fn' = fn,
             handled' \subseteq handled \cup {c},
             \/ outcome' = outcome
             \/ \E r : outcome' = [outcome EXCEPT ![call[t]] = r],
             \A x \in Calls : uri'[x] \subseteq {x},
             \/ doc' = doc
             \/ \E d \in Documents : /\ doc' = [doc EXCEPT ![d] = c]
                                    /\ fn[c].sink = d,
             fault' \in {"none", "json exception"},
             /\ where = "context" => AtContext(c)'
             /\ where = "session" => AtSession(c)'
             /\ where = "send"    => AtSend(c)'
             /\ where = "loop"    => AtLoop(c)'
             /\ where = "io"      => AtIo(c)' /\ using'[t] = c
             /\ where = "finish"  => AtFinish(c)'
             /\ where = "free"    => AtFree(c)'
      PROVE  ClientInv'
  <2>1. pc' = [pc EXCEPT ![t] = where] /\ pc'[t] = where /\ call'[t] = c
    BY <1>2, <1>4 DEF Goto, TypeOK
  <2>2. Placed(t)'
    BY <1>4, <2>1 DEF Placed
  <2> QED
    BY <1>1, <1>2, <1>4, <2>1, <2>2, InCallStep
<1>5. ASSUME NEW r, outcome' = [outcome EXCEPT ![call[t]] = r]
      PROVE  outcome'[c] = r
  BY <1>2, <1>5 DEF TypeOK
<1>6. CASE NewContext(t)
  <2>1. UNCHANGED <<fn, handled, uri, doc, fault, optlist, have_response,
                    sessions, call>>
        /\ AtContext(c)
    BY <1>2, <1>3, <1>6 DEF NewContext, At, Placed
  <2>2. CASE Goto(t, "session") /\ ctx' = c /\ contexts' = contexts \cup {c}
             /\ outcome' = outcome
    <3>1. AtSession(c)'
      BY <2>1, <2>2 DEF AtContext, AtSession, Clear, Unlinked, NoSessions,
                        Unanswered, Undecided
    <3> QED
      BY <1>3, <1>4, <2>1, <2>2, <3>1
  <2>3. CASE Fail(t) /\ ctx' = None /\ contexts' = contexts
    <3>0. outcome'[c] = "failed"
      BY <1>5, <2>3 DEF Fail
    <3>1. AtFinish(c)'
      BY <2>1, <2>3, <3>0 DEF AtContext, AtFinish, Clear, NoSessions,
                              Unanswered, FlagIsAnswer, Decided
    <3> QED
      BY <1>3, <1>4, <2>1, <2>3, <3>1 DEF Fail
  <2> QED
    BY <1>2, <1>6, <2>2, <2>3 DEF NewContext
<1>7. CASE NewSession(t)
  <2>1. AtSession(c) /\ ctx \in contexts /\ ctx = c
    BY <1>2, <1>3, <1>7 DEF NewSession, At, Placed, AtSession, Unlinked
  <2>2. UNCHANGED <<fn, handled, uri, doc, fault, optlist, have_response,
                    ctx, contexts, call>>
    BY <1>3, <1>7, <2>1 DEF NewSession, BadContext, globalVars, historyVars
  <2>3. CASE /\ Goto(t, "send")
             /\ sessions' = [sessions EXCEPT ![ctx] = @ \cup {call[t]}]
             /\ handler' = [handler EXCEPT
                              ![ctx] = IF fn[call[t]].method = "GET"
                                       THEN fn[call[t]] ELSE @]
             /\ outcome' = outcome
    <3>1. Linked(c)'
      BY <1>2, <2>1, <2>2, <2>3 DEF AtSession, Unlinked, NoSessions, Linked
    <3>2. OwnHandler(c)'
      BY <1>2, <2>1, <2>2, <2>3 DEF OwnHandler, TypeOK
    <3>3. AtSend(c)'
      BY <2>1, <2>2, <2>3, <3>1, <3>2
         DEF AtSession, AtSend, Unanswered, Undecided
    <3> QED
      BY <1>3, <1>4, <2>2, <2>3, <3>3
  <2>4. CASE Fail(t) /\ sessions' = sessions
    <3>0. outcome'[c] = "failed"
      BY <1>5, <2>4 DEF Fail
    <3>1. AtFinish(c)'
      BY <2>1, <2>2, <2>4, <3>0 DEF AtSession, AtFinish, Unlinked, NoSessions,
                                    Unanswered, FlagIsAnswer, Decided
    <3> QED
      BY <1>3, <1>4, <2>2, <2>4, <3>1 DEF Fail
  <2> QED
    BY <1>3, <1>7, <2>1, <2>3, <2>4
       DEF NewSession, BadContext, globalVars, historyVars
<1>8. CASE Send(t)
  <2>1. AtSend(c)
    BY <1>2, <1>3, <1>8 DEF Send, At, Placed
  <2>2. UNCHANGED <<fn, handled, doc, fault, have_response, ctx, contexts,
                    handler, sessions, call>>
        /\ optlist' = optlist \cup {c}
    BY <1>2, <1>8 DEF Send
  <2>3. optlist' = {c} /\ Linked(c)' /\ OwnHandler(c)'
        /\ have_response' = 0 /\ c \notin handled'
    BY <2>1, <2>2 DEF AtSend, Linked, OwnHandler, Unanswered
  <2>4. \A x \in Calls : uri'[x] \subseteq {x}
    <3>1. uri' = uri \/ uri' = [uri EXCEPT ![c] = {c}]
      BY <1>2, <1>8, <2>3 DEF Send
    <3>2. uri \in [Calls -> SUBSET Calls]
      BY DEF TypeOK
    <3> QED
      BY <1>3, <3>1, <3>2
  <2>5. CASE Goto(t, "loop") /\ outcome' = outcome
    <3>1. AtLoop(c)'
      BY <2>1, <2>3, <2>5 DEF AtSend, AtLoop, FlagIsAnswer, Undecided
    <3> QED
      BY <1>3, <1>4, <2>2, <2>4, <2>5, <3>1
  <2>6. ASSUME NEW r \in {"sent", "failed"}, Goto(t, "finish"),
               outcome' = [outcome EXCEPT ![call[t]] = r]
        PROVE  ClientInv'
    <3>0. outcome'[c] = r
      BY <1>5, <2>6
    <3>1. AtFinish(c)'
      BY <2>3, <2>6, <3>0 DEF AtFinish, FlagIsAnswer, Decided
    <3> QED
      BY <1>3, <1>4, <2>2, <2>4, <2>6, <3>1
  <2> QED
    BY <1>2, <1>8, <2>5, <2>6 DEF Send, Fail
<1>9. CASE UseFreedSession(t)
  BY <1>9, SessionStays DEF UseFreedSession, At
<1>10. CASE LoopEnter(t)
  <2>1. AtLoop(c) /\ ctx \in contexts /\ ctx = c /\ have_response = 0
    BY <1>2, <1>3, <1>10 DEF LoopEnter, At, Placed, AtLoop, Linked
  <2>2. UNCHANGED <<globalVars, call, historyVars, fault>> /\ Goto(t, "io")
        /\ using' = [using EXCEPT ![t] = ctx]
    BY <1>3, <1>10, <2>1 DEF LoopEnter, BadContext
  <2>3. using'[t] = c
    BY <2>1, <2>2 DEF TypeOK
  <2>4. AtIo(c)'
    BY <2>1, <2>2 DEF AtLoop, AtIo, Linked, OwnHandler, FlagIsAnswer, Unanswered,
                      Undecided, globalVars, historyVars
  <2> QED
    BY <1>3, <1>4, <2>2, <2>3, <2>4 DEF globalVars, historyVars
<1>11. CASE LoopExit(t)
  <2>1. AtLoop(c) /\ have_response = 1
    BY <1>2, <1>3, <1>11 DEF LoopExit, At, Placed, TypeOK
  <2>2. /\ UNCHANGED <<globalVars, call, fn, uri, handled, fault>>
        /\ Goto(t, "finish")
        /\ outcome' = [outcome EXCEPT ![call[t]] = "answered"]
    BY <1>11 DEF LoopExit
  <2>3. AtFinish(c)'
    BY <1>5, <2>1, <2>2 DEF AtLoop, AtFinish, Linked, FlagIsAnswer, Decided,
                            globalVars
  <2> QED
    BY <1>3, <1>4, <2>2, <2>3 DEF globalVars
<1>12. CASE IoFreed(t)
  BY <1>2, <1>3, <1>12 DEF IoFreed, At, Placed, AtIo, AtLoop, Linked
<1>13. ASSUME NEW x \in Calls, IoResponse(t, x)
       PROVE  ClientInv'
  <2>0. AtIo(c) /\ using[t] = c
    BY <1>2, <1>3, <1>13 DEF IoResponse, At, Placed
  <2>1. x = c
    <3>1. x \in sessions[c]
      BY <1>13, <2>0 DEF IoResponse
    <3> QED
      BY <2>0, <3>1 DEF AtIo, AtLoop, Linked
  <2>2. PICK payload : ResponseHandler(fn[c], c, payload)
    BY <1>13, <2>0, <2>1 DEF IoResponse, AtIo, AtLoop, OwnHandler
  <2>3. UNCHANGED <<optlist, ctx, contexts, handler, sessions, call, fn, uri,
                    outcome>>
        /\ Goto(t, "loop")
    BY <1>13 DEF IoResponse
  <2>4. /\ have_response' = 1 /\ handled' = handled \cup {c}
        /\ fault' \in {"none", "json exception"}
        /\ \/ doc' = doc
           \/ \E d \in Documents : /\ doc' = [doc EXCEPT ![d] = c]
                                   /\ fn[c].sink = d
    BY <1>3, <2>2 DEF ResponseHandler
  <2>5. AtLoop(c)'
    BY <2>0, <2>3, <2>4 DEF AtIo, AtLoop, Linked, OwnHandler, FlagIsAnswer,
                            Undecided
  <2> QED
    BY <1>3, <1>4, <2>3, <2>4, <2>5
<1>14. CASE IoElapsed(t)
  <2>1. AtIo(c)
    BY <1>2, <1>3, <1>14 DEF IoElapsed, At, Placed
  <2>2. UNCHANGED <<globalVars, call, fn, uri, handled, fault>>
    BY <1>14 DEF IoElapsed
  <2>3. CASE Goto(t, "finish") /\ outcome' = [outcome EXCEPT ![call[t]] = "timeout"]
    <3>1. AtFinish(c)'
      BY <1>5, <2>1, <2>2, <2>3 DEF AtIo, AtLoop, AtFinish, Linked, Unanswered,
                                    FlagIsAnswer, Decided, globalVars
    <3> QED
      BY <1>3, <1>4, <2>2, <2>3, <3>1 DEF globalVars
  <2>4. CASE Goto(t, "loop") /\ outcome' = outcome
    <3>1. AtLoop(c)'
      BY <2>1, <2>2, <2>4 DEF AtIo, AtLoop, Linked, OwnHandler, FlagIsAnswer,
                              Undecided, globalVars
    <3> QED
      BY <1>3, <1>4, <2>2, <2>4, <3>1 DEF globalVars
  <2> QED
    BY <1>14, <2>3, <2>4 DEF IoElapsed
<1>15. CASE IoError(t)
  <2>1. AtIo(c) /\ UNCHANGED <<globalVars, call, historyVars, fault>>
        /\ Goto(t, "loop")
    BY <1>2, <1>3, <1>15 DEF IoError, At, Placed
  <2>2. AtLoop(c)'
    BY <2>1 DEF AtIo, AtLoop, Linked, OwnHandler, FlagIsAnswer, Undecided,
                globalVars, historyVars
  <2> QED
    BY <1>3, <1>4, <2>1, <2>2 DEF globalVars, historyVars
<1>16. CASE Finish(t)
  <2>1. AtFinish(c)
    BY <1>2, <1>3, <1>16 DEF Finish, At, Placed
  <2>2. /\ UNCHANGED <<ctx, contexts, doc, call, historyVars, fault>>
        /\ have_response' = 0 /\ optlist' = {} /\ Goto(t, "free")
        /\ sessions' = [x \in Calls |-> sessions[x] \ {c}]
    BY <1>2, <1>16 DEF Finish
  <2>3. NoSessions'
    BY <2>1, <2>2 DEF AtFinish, Linked, Unlinked, Clear, NoSessions
  <2>4. AtFree(c)'
    BY <2>1, <2>2, <2>3 DEF AtFinish, AtFree, Linked, Unlinked, Clear, Decided,
                            historyVars
  <2> QED
    BY <1>3, <1>4, <2>2, <2>4 DEF historyVars
\* The call returns: no task is inside one.
<1>17. CASE FreeContext(t)
  <2>1. AtFree(c) /\ fault = "none"
    BY <1>2, <1>3, <1>17 DEF FreeContext, At, Running, Placed
  <2>2. /\ UNCHANGED <<optlist, have_response, sessions, doc, fn, uri, handled,
                      outcome>>
        /\ ctx' = None /\ contexts' = contexts \ {ctx} /\ fault' = fault
    BY <1>17, <2>1 DEF FreeContext, AtFree, Unlinked, Clear
  <2>3. Clear' /\ optlist' = {} /\ have_response' = 0
    BY <1>3, <2>1, <2>2 DEF AtFree, Unlinked, Clear, NoSessions
  <2>4. \A s \in Tasks : pc'[s] = "idle"
    BY <1>3, <1>17 DEF FreeContext, Goto, TypeOK
  <2>5. OneAtATime' /\ \A s \in Tasks : Placed(s)'
    BY <2>4 DEF OneAtATime, Placed
  <2>6. UnusedUntouched' /\ AnswersGoHome'
    BY <1>1, <1>3, <2>2, InOneCall DEF UnusedUntouched, AnswersGoHome
  <2> QED
    BY <2>1, <2>2, <2>3, <2>5, <2>6 DEF ClientInv
<1> QED
  BY <1>6, <1>7, <1>8, <1>9, <1>10, <1>11, <1>12, <1>13, <1>14, <1>15, <1>16,
     <1>17 DEF Step

LEMMA ClientStep ==
  ASSUME TypeOK, CallInv, ClientInv, [Next]_vars
  PROVE  ClientInv'
<1> SUFFICES ASSUME ~overlapped' PROVE ClientInv'
  BY DEF ClientInv
<1>1. ~overlapped
  BY DEF Next, Begin, Step, NewContext, NewSession, BadContext, Dies, Send,
         UseFreedSession, LoopEnter, LoopExit, IoFreed, IoResponse, IoElapsed,
         IoError, Finish, FreeContext, vars, historyVars
<1>2. CASE UNCHANGED vars
  <2>1. UNCHANGED <<globalVars, taskVars, historyVars, fault>>
    BY <1>2 DEF vars
  <2>2. \A t \in Tasks : Placed(t) => Placed(t)'
    BY <2>1
       DEF globalVars, taskVars, historyVars, Placed, AtContext, AtSession,
           AtSend, AtLoop, AtIo, AtFinish, AtFree, Clear, NoSessions, Linked,
           Unlinked, OwnHandler, FlagIsAnswer, Unanswered, Undecided, Decided
  <2>3. AnswersGoHome => AnswersGoHome'
    BY <2>1 DEF globalVars, historyVars, AnswersGoHome
  <2>4. UnusedUntouched => UnusedUntouched'
    BY <2>1 DEF historyVars, UnusedUntouched
  <2>5. (AllIdle' <=> AllIdle) /\ (OneAtATime' <=> OneAtATime)
        /\ (Clear' <=> Clear)
    BY <2>1 DEF globalVars, taskVars, AllIdle, OneAtATime, Clear, NoSessions
  <2> QED
    BY <1>1, <2>1, <2>2, <2>3, <2>4, <2>5 DEF globalVars, ClientInv
<1> QED
  BY <1>1, <1>2, BeginClient, StepClient DEF Next

LEMMA ClientInvariant == Spec => [](TypeOK /\ CallInv /\ ClientInv)
BY InitTypes, InitClient, StepTypes, ClientStep, PTL DEF Spec

\* All variables keep their types, with any number of calls on both tasks and
\* whichever of their steps fail (main/CoapClient.cpp, the nine functions).
THEOREM ClientTypes == Spec => []TypeOK
BY ClientInvariant, PTL

\* The label finish leaves ctx, optlist, have_response and the contexts as the
\* next call needs them, however the last one came to it.
THEOREM CleanBetweenCalls == Spec => []GlobalsClean
<1>1. ClientInv => GlobalsClean
  BY DEF ClientInv, AllIdle, Clear, GlobalsClean
<1> QED
  BY <1>1, ClientInvariant, PTL

\* The options of a request and the document an answer is stored in are those of
\* the call they belong to: the shared list and the handler on the shared context
\* mix nothing up.
THEOREM AnswersStayHome == Spec => []AnswersGoHome
<1>1. ClientInv => AnswersGoHome
  BY DEF ClientInv, AnswersGoHome
<1> QED
  BY <1>1, ClientInvariant, PTL

\* coap_new_client_session, coap_send, coap_io_process and coap_free_context are
\* given a context or a session that exists.
THEOREM ContextsStayValid == Spec => []ContextsValid
<1>1. ClientInv => ContextsValid
  BY DEF ClientInv, ContextsValid
<1> QED
  BY <1>1, ClientInvariant, PTL

\* What the comment above coap_new_context promises holds as long as the calls of
\* the two tasks do not overlap: up to its end a call works on its own context.
THEOREM OwnContextAlone == Spec => [](~overlapped => ContextIsOwn)
<1>1. ClientInv => (~overlapped => ContextIsOwn)
  BY DEF ClientInv, ContextIsOwn, Placed, AtSession, AtSend, AtLoop, AtIo,
         Linked, Unlinked
<1> QED
  BY <1>1, ClientInvariant, PTL

-----------------------------------------------------------------------------
(* The client implements ClientCall. *)

\* What the mapping puts for the variables of ClientCall.
Current == IF InCall = {} THEN None ELSE CHOOSE c \in InCall : TRUE

Loads == [c \in Calls |-> IF fn[c].sink \in Documents THEN fn[c].sink ELSE None]

Result == [c \in Calls |-> IF c \in InCall THEN "none" ELSE outcome[c]]

LEMMA NoCurrent ==
  ASSUME \A t \in Tasks : call[t] = None
  PROVE  InCall = {} /\ Current = None
BY DEF InCall, Current

LEMMA OneCurrent ==
  ASSUME NEW t \in Tasks, call[t] # None,
         \A s \in Tasks : s # t => call[s] = None
  PROVE  InCall = {call[t]} /\ Current = call[t]
<1>1. InCall = {call[t]}
  BY DEF InCall
<1> QED
  BY <1>1 DEF Current

LEMMA InitMaps == Init => ClientCalls!Init
<1> SUFFICES ASSUME Init PROVE ClientCalls!Init
  OBVIOUS
<1>1. InCall = {} /\ Current = None
  BY NoCurrent DEF Init
<1>2. Result = [c \in Calls |-> "none"]
  BY <1>1 DEF Init, Result
<1>3. Loads = [c \in Calls |-> None]
  BY FunctionFacts DEF Init, Loads
<1> QED
  BY <1>1, <1>2, <1>3 DEF Init, ClientCalls!Init, Current, Loads, Result

\* A step that keeps the calls under way, the answers and the results is one of
\* which ClientCall sees nothing.
LEMMA HiddenStep ==
  ASSUME ~overlapped', NEW t \in Tasks, call[t] # None,
         \A s \in Tasks : s # t => call[s] = None,
         UNCHANGED <<call, fn, overlapped, handled, doc>>,
         \A x \in Calls : x # call[t] => outcome'[x] = outcome[x]
  PROVE  UNCHANGED ClientCalls!callVars
<1>1. InCall = {call[t]} /\ Current = call[t]
  BY OneCurrent
<1>2. InCall' = InCall /\ Current' = Current
  BY DEF InCall, Current
<1>3. Loads' = Loads
  BY DEF Loads
<1>4. Result' = Result
  BY <1>1, <1>2 DEF Result
<1> QED
  BY <1>2, <1>3, <1>4 DEF ClientCalls!callVars, Current, Loads, Result

LEMMA BeginMaps ==
  ASSUME TypeOK, CallInv, ClientInv, NEW t \in Tasks, NEW c \in Calls,
         NEW f \in Functions, Begin(t, c, f), ~overlapped'
  PROVE  ClientCalls!Begin(c)
<1>1. ~overlapped /\ \A s \in Tasks : pc[s] = "idle"
  BY DEF Begin
<1>2. \A s \in Tasks : call[s] = None
  BY <1>1 DEF CallInv
<1>3. InCall = {} /\ Current = None
  BY <1>2, NoCurrent
<1>4. c # None /\ call'[t] = c /\ \A s \in Tasks : s # t => call'[s] = None
  BY <1>2, CoapClientAssumption DEF Begin, TypeOK
<1>5. InCall' = {c} /\ Current' = c
  BY <1>4 DEF InCall, Current
<1>6. Result[c] = "none"
  BY <1>1, <1>3 DEF Result, Begin, ClientInv, UnusedUntouched
<1>7. Result' = Result
  <2>1. \A x \in Calls : x # c => outcome'[x] = outcome[x]
    BY DEF Begin, TypeOK
  <2> QED
    BY <1>3, <1>5, <1>6, <2>1 DEF Result
<1>8. \E d \in Documents \cup {None} : Loads' = [Loads EXCEPT ![c] = d]
  <2>1. \A x \in Calls : fn'[x] = IF x = c THEN f ELSE fn[x]
    BY DEF Begin, TypeOK
  <2>2. Loads' = [Loads EXCEPT ![c] = IF f.sink \in Documents
                                      THEN f.sink ELSE None]
    BY <2>1 DEF Loads
  <2> QED
    BY <2>2
<1> QED
  BY <1>3, <1>5, <1>6, <1>7, <1>8
     DEF Begin, globalVars, ClientCalls!Begin, Current, Loads, Result

LEMMA AnswerMaps ==
  ASSUME TypeOK, CallInv, ClientInv, ~overlapped, NEW t \in Tasks,
         NEW x \in Calls, IoResponse(t, x)
  PROVE  ClientCalls!Answer
<1>1. pc[t] = "io"
  BY DEF IoResponse, At
<1>2. PICK c \in Calls : c = call[t]
  BY <1>1, InOneCall
<1>3. c # None /\ Placed(t) /\ \A s \in Tasks : s # t => pc[s] = "idle"
  BY <1>1, <1>2, InOneCall
<1>4. Current = c /\ InCall = {c}
  BY <1>2, <1>3, OneCurrent DEF CallInv
<1>5. AtIo(c) /\ using[t] = c
  BY <1>1, <1>2, <1>3 DEF Placed
<1>6. x = c
  <2>1. x \in sessions[c]
    BY <1>5 DEF IoResponse
  <2> QED
    BY <1>5, <2>1 DEF AtIo, AtLoop, Linked
<1>7. PICK payload : ResponseHandler(fn[c], c, payload)
  BY <1>5, <1>6 DEF IoResponse, AtIo, AtLoop, OwnHandler
<1>8. c \notin handled /\ handled' = handled \cup {c}
  BY <1>5, <1>7 DEF AtIo, Unanswered, ResponseHandler
<1>9. \/ doc' = doc
      \/ Loads[c] # None /\ doc' = [doc EXCEPT ![Loads[c]] = c]
  <2>1. CASE fn[c].sink \in Documents
    <3>1. Loads[c] = fn[c].sink /\ Loads[c] # None
      BY <2>1, CoapClientAssumption DEF Loads
    <3> QED
      BY <1>7, <3>1 DEF ResponseHandler
  <2> QED
    BY <1>7, <2>1 DEF ResponseHandler
<1>10. InCall' = InCall /\ Current' = Current /\ Loads' = Loads /\ Result' = Result
  BY DEF IoResponse, InCall, Current, Loads, Result
<1> QED
  BY <1>3, <1>4, <1>8, <1>9, <1>10
     DEF ClientCalls!Answer, Current, Loads, Result

LEMMA ReturnMaps ==
  ASSUME TypeOK, CallInv, ClientInv, ~overlapped, NEW t \in Tasks,
         FreeContext(t)
  PROVE  ClientCalls!Return
<1>1. pc[t] = "free"
  BY DEF FreeContext, At
<1>2. PICK c \in Calls : c = call[t]
  BY <1>1, InOneCall
<1>3. c # None /\ Placed(t) /\ \A s \in Tasks : s # t => pc[s] = "idle"
  BY <1>1, <1>2, InOneCall
<1>4. \A s \in Tasks : s # t => call[s] = None
  BY <1>3 DEF CallInv
<1>5. Current = c /\ InCall = {c}
  BY <1>2, <1>3, <1>4, OneCurrent
<1>6. \A s \in Tasks : call'[s] = None
  BY <1>4 DEF FreeContext, TypeOK
<1>7. Current' = None /\ InCall' = {}
  BY <1>6 DEF InCall, Current
<1>8. Decided(c)
  BY <1>1, <1>2, <1>3 DEF Placed, AtFree
<1>9. outcome[c] \in ClientCalls!Results
  BY <1>8 DEF Decided, TypeOK, ClientCalls!Results
<1>10. Result' = [Result EXCEPT ![c] = outcome[c]]
  BY <1>5, <1>7 DEF Result, FreeContext
<1>11. Loads' = Loads /\ handled' = handled /\ doc' = doc
  BY DEF FreeContext, Loads
<1>12. \E r \in ClientCalls!Results :
         /\ r = "answered" <=> Current \in handled
         /\ Result' = [Result EXCEPT ![Current] = r]
  BY <1>5, <1>8, <1>9, <1>10 DEF Decided
<1> QED
  BY <1>3, <1>5, <1>7, <1>11, <1>12
     DEF ClientCalls!Return, Current, Loads, Result

\* A step of a task before the end of its call, other than the arrival of an
\* answer, is hidden.
LEMMA StepMaps ==
  ASSUME TypeOK, CallInv, ClientInv, ~overlapped, NEW t \in Tasks, Step(t)
  PROVE  [ClientCalls!Next]_(ClientCalls!callVars)
<1>1. pc[t] # "idle"
  BY DEF Step, At, NewContext, NewSession, Send, UseFreedSession, LoopEnter,
         LoopExit, IoFreed, IoResponse, IoElapsed, IoError, Finish, FreeContext
<1>2. ~overlapped'
  BY DEF Step, NewContext, NewSession, BadContext, Dies, Send, UseFreedSession,
         LoopEnter, LoopExit, IoFreed, IoResponse, IoElapsed, IoError, Finish,
         FreeContext, historyVars
<1>3. call[t] # None /\ \A s \in Tasks : s # t => call[s] = None
  BY <1>1, InOneCall DEF CallInv
<1>4. CASE FreeContext(t)
  BY <1>2, <1>4, ReturnMaps DEF ClientCalls!Next
<1>5. CASE \E x \in Calls : IoResponse(t, x)
  BY <1>2, <1>5, AnswerMaps DEF ClientCalls!Next
<1>6. CASE /\ UNCHANGED <<call, fn, overlapped, handled, doc>>
           /\ \/ outcome' = outcome
              \/ \E r : outcome' = [outcome EXCEPT ![call[t]] = r]
  <2>1. \A x \in Calls : x # call[t] => outcome'[x] = outcome[x]
    BY <1>6 DEF TypeOK
  <2> QED
    BY <1>2, <1>3, <1>6, <2>1, HiddenStep
<1> QED
  BY <1>4, <1>5, <1>6
     DEF Step, NewContext, NewSession, BadContext, Dies, Send, UseFreedSession,
         LoopEnter, LoopExit, IoFreed, IoElapsed, IoError, Finish, Fail,
         globalVars, taskVars, historyVars

\* Every behaviour of the nine functions is one of ClientCall: as long as the
\* calls of the two tasks do not overlap, a call is answered at most once and
\* before it returns, returns as answered just if it was, and changes no document
\* but the one it loads.
THEOREM ClientImplementsCalls == Spec => PromisesCalls
<1>1. Init => ClientCalls!Init
  BY InitMaps
<1>2. TypeOK /\ CallInv /\ ClientInv /\ [Next]_vars =>
        [ClientCalls!Next]_(ClientCalls!callVars)
  <2> SUFFICES ASSUME TypeOK, CallInv, ClientInv, [Next]_vars
               PROVE  [ClientCalls!Next]_(ClientCalls!callVars)
    OBVIOUS
  <2>1. CASE overlapped'
    BY <2>1 DEF ClientCalls!Next
  <2>2. CASE UNCHANGED vars
    BY <2>2 DEF vars, globalVars, taskVars, historyVars, InCall,
                ClientCalls!callVars
  <2>3. ASSUME ~overlapped', NEW t \in Tasks, NEW c \in Calls,
               NEW f \in Functions, Begin(t, c, f)
        PROVE  ClientCalls!Next
    BY <2>3, BeginMaps DEF ClientCalls!Next
  <2>4. ASSUME ~overlapped', NEW t \in Tasks, Step(t)
        PROVE  [ClientCalls!Next]_(ClientCalls!callVars)
    <3>1. ~overlapped
      BY <2>4 DEF Step, NewContext, NewSession, BadContext, Dies, Send,
                  UseFreedSession, LoopEnter, LoopExit, IoFreed, IoResponse,
                  IoElapsed, IoError, Finish, FreeContext, historyVars
    <3> QED
      BY <2>4, <3>1, StepMaps
  <2> QED
    BY <2>1, <2>2, <2>3, <2>4 DEF Next
<1> QED
  BY <1>1, <1>2, ClientInvariant, PTL DEF Spec, PromisesCalls, ClientCalls!Spec
=============================================================================
