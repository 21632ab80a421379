----------------------------- MODULE CoapClient -----------------------------
(***************************************************************************)
(* The CoAP client (main/CoapClient.cpp): nine functions with the same     *)
(* body, which share the globals ctx, optlist and have_response, and the   *)
(* Matter callbacks of main.cpp that call them.  They are called from the  *)
(* CHIP task and, while the LwM2M file is loaded, from the coap_server     *)
(* task.  The coap_server task has the higher priority: the CHIP task runs *)
(* only while the other one is outside a call or blocked in                *)
(* coap_io_process.                                                        *)
(*                                                                         *)
(* A context is named by the call that creates it.                         *)
(***************************************************************************)
EXTENDS Integers

CONSTANTS
  Chip, CoapServerTask,  \* the two tasks
  Calls,                 \* calls of client functions
  Wait,                  \* wait_ms at the start, in calls of coap_io_process
  None                   \* the null pointer, and a document never loaded

Tasks == {Chip, CoapServerTask}

\* What tells the nine functions apart: the method, where the response handler
\* puts the payload, and how it parses it.  A PUT does not wait for an answer.
Function(method, sink, parser) ==
  [method |-> method, sink |-> sink, parser |-> parser]

LoadClusterXmlFile       == Function("GET", "cluster_xml", "xml")
LoadSdfModelFile         == Function("GET", "sdf_model_file", "json")
LoadSdfMappingLwm2mFile  == Function("GET", "sdf_mapping_lwm2m_file", "json")
LoadSdfMappingMatterFile == Function("GET", "sdf_mapping_matter_file", "json")
LoadLwm2mFile            == Function("GET", "lwm2m_xml_file", "xml")
CoapClientGet            == Function("GET", "log", "none")
CoapClientGetAnswer      == Function("GET", "answer", "none")
CoapClientPut            == Function("PUT", "log", "none")
CoapClientPutData        == Function("PUT", "log", "data")

Documents == {"cluster_xml", "sdf_model_file", "sdf_mapping_lwm2m_file",
              "sdf_mapping_matter_file", "lwm2m_xml_file"}

ASSUME CoapClientAssumption ==
  /\ Chip # CoapServerTask
  /\ Wait \in Nat \ {0}
  /\ None \notin Calls \cup Documents

FunctionsOf(t) ==
  IF t = CoapServerTask
  THEN {LoadLwm2mFile}
  ELSE {LoadClusterXmlFile, LoadSdfModelFile, LoadSdfMappingLwm2mFile,
        LoadSdfMappingMatterFile, CoapClientGet, CoapClientGetAnswer,
        CoapClientPut, CoapClientPutData}

Functions == FunctionsOf(Chip) \cup FunctionsOf(CoapServerTask)

NoFunction == Function("none", "none", "none")

VARIABLES
  ctx,            \* the global context
  optlist,        \* the calls whose uri options are in the global list
  have_response,  \* the global flag
  contexts,       \* the allocated contexts
  handler,        \* the response handler registered on each context
  sessions,       \* the calls with a session on each context
  doc,            \* the call whose answer each document holds
  pc, call,       \* per task: where it is, and in which call
  using,          \* per task: the context coap_io_process was called with
  wait_ms,        \* per task: what is left of the time to wait
  fn,             \* history: the function of each call
  uri,            \* history: the calls whose options the request carried
  handled,        \* history: the calls whose answer was given to a handler
  outcome,        \* history: how each call ended
  status,         \* history: what the Matter callback around a call returned
  overlapped,     \* history: a call was begun inside one of the other task
  fault           \* why the program has died

globalVars == <<ctx, optlist, have_response, contexts, handler, sessions, doc>>
taskVars   == <<pc, call, using, wait_ms>>
historyVars == <<fn, uri, handled, outcome, status, overlapped>>
vars == <<globalVars, taskVars, historyVars, fault>>

TypeOK ==
  /\ ctx \in Calls \cup {None}
  /\ optlist \subseteq Calls
  /\ have_response \in {0, 1}
  /\ contexts \subseteq Calls
  /\ handler \in [Calls -> Functions \cup {NoFunction}]
  /\ sessions \in [Calls -> SUBSET Calls]
  /\ doc \in [Documents -> Calls \cup {None}]
  /\ pc \in [Tasks -> {"idle", "context", "session", "send", "loop", "io",
                       "finish", "free"}]
  /\ call \in [Tasks -> Calls \cup {None}]
  /\ using \in [Tasks -> Calls \cup {None}]
  /\ wait_ms \in [Tasks -> 0..Wait]
  /\ fn \in [Calls -> Functions \cup {NoFunction}]
  /\ uri \in [Calls -> SUBSET Calls]
  /\ handled \subseteq Calls
  /\ outcome \in [Calls -> {"none", "failed", "sent", "answered", "timeout"}]
  /\ status \in [Calls -> {"none", "Success"}]
  /\ overlapped \in BOOLEAN
  /\ fault \in {"none", "null context", "freed context", "freed session",
                "json exception"}

Init ==
  /\ ctx = None
  /\ optlist = {}
  /\ have_response = 0
  /\ contexts = {}
  /\ handler = [c \in Calls |-> NoFunction]
  /\ sessions = [c \in Calls |-> {}]
  /\ doc = [d \in Documents |-> None]
  /\ pc = [t \in Tasks |-> "idle"]
  /\ call = [t \in Tasks |-> None]
  /\ using = [t \in Tasks |-> None]
  /\ wait_ms = [t \in Tasks |-> 0]
  /\ fn = [c \in Calls |-> NoFunction]
  /\ uri = [c \in Calls |-> {}]
  /\ handled = {}
  /\ outcome = [c \in Calls |-> "none"]
  /\ status = [c \in Calls |-> "none"]
  /\ overlapped = FALSE
  /\ fault = "none"

Running == fault = "none"

\* The task has the core: it is the one of higher priority or the other one
\* is blocked or has nothing to do.
HasCore(t) == t = CoapServerTask \/ pc[CoapServerTask] \in {"idle", "io"}

At(t, where) == Running /\ HasCore(t) /\ pc[t] = where

Goto(t, where) == pc' = [pc EXCEPT ![t] = where]

\* A slip: the function returns where it should go to its end.
ReturnAtOnce(t) ==
  /\ Goto(t, "idle")
  /\ outcome' = [outcome EXCEPT ![call[t]] = "failed"]

\* goto finish, after a message to the log.
Fail(t) ==
  /\ Goto(t, "finish")
  /\ outcome' = [outcome EXCEPT ![call[t]] = "failed"]

\* A pointer to a context is used.
Dies(t, why) ==
  /\ fault' = why
  /\ UNCHANGED <<globalVars, taskVars, historyVars>>

-----------------------------------------------------------------------------
(* The body of the nine functions. *)

\* coap_startup, coap_split_uri and resolve_address.
Begin(t, c, f) ==
  /\ At(t, "idle")
  /\ fn[c] = NoFunction
  /\ f \in FunctionsOf(t)
  /\ call' = [call EXCEPT ![t] = c]
  /\ fn' = [fn EXCEPT ![c] = f]
  /\ overlapped' = (overlapped \/ \E s \in Tasks : pc[s] # "idle")
  /\ \/ Goto(t, "context") /\ outcome' = outcome
     \/ Goto(t, "finish") /\ outcome' = [outcome EXCEPT ![c] = "failed"]
  /\ UNCHANGED <<globalVars, using, wait_ms, uri, handled, status, fault>>

\* ctx = coap_new_context
NewContext(t) ==
  /\ At(t, "context")
  /\ \/ /\ ctx' = call[t]
        /\ contexts' = contexts \cup {call[t]}
        /\ Goto(t, "session")
        /\ outcome' = outcome
     \/ /\ ctx' = None
        /\ contexts' = contexts
        /\ Fail(t)
  /\ UNCHANGED <<optlist, have_response, handler, sessions, doc, call, using,
                 wait_ms, fn, uri, handled, status, overlapped, fault>>

BadContext(t, p) ==
  \/ p = None /\ Dies(t, "null context")
  \/ p # None /\ p \notin contexts /\ Dies(t, "freed context")

\* coap_new_client_session and the handlers, on whatever ctx points to now.
NewSession(t) ==
  /\ At(t, "session")
  /\ \/ BadContext(t, ctx)
     \/ /\ ctx \in contexts
        /\ sessions' = [sessions EXCEPT ![ctx] = @ \cup {call[t]}]
        /\ handler' = [handler EXCEPT
                         ![ctx] = IF fn[call[t]].method = "GET"
                                  THEN fn[call[t]] ELSE @]
        /\ Goto(t, "send")
        /\ UNCHANGED <<ctx, optlist, have_response, contexts, doc, call, using,
                       wait_ms, historyVars, fault>>
     \/ /\ ctx \in contexts
        /\ Fail(t)
        /\ UNCHANGED <<globalVars, call, using, wait_ms, fn, uri, handled,
                       status, overlapped, fault>>

\* Freeing a context frees its sessions, the one of this call included.
SessionFreed(t) == \E c \in Calls \ contexts : call[t] \in sessions[c]

\* coap_uri_into_options appends to the global list, the list goes into the
\* PDU and the PDU is sent through the session of the call.
Send(t) ==
  LET c == call[t] IN
  /\ At(t, "send")
  /\ ~SessionFreed(t)
  /\ optlist' = optlist \cup {c}
  /\ \/ /\ uri' = [uri EXCEPT ![c] = optlist']
        /\ IF fn[c].method = "GET"
           THEN /\ Goto(t, "loop")
                /\ wait_ms' = [wait_ms EXCEPT ![t] = Wait]
                /\ outcome' = outcome
           ELSE /\ Goto(t, "finish")
                /\ wait_ms' = wait_ms
                /\ outcome' = [outcome EXCEPT ![c] = "sent"]
     \/ /\ uri' = uri
        /\ wait_ms' = wait_ms
        /\ Fail(t)
  /\ UNCHANGED <<ctx, have_response, contexts, handler, sessions, doc, call,
                 using, fn, handled, status, overlapped, fault>>

\* coap_session_max_pdu_size, coap_send or coap_session_release is given a
\* session that the other task has freed with its context.
UseFreedSession(t) ==
  /\ At(t, "send") \/ At(t, "finish")
  /\ SessionFreed(t)
  /\ Dies(t, "freed session")

\* while (have_response == 0) coap_io_process(ctx, 1000)
LoopEnter(t) ==
  /\ At(t, "loop")
  /\ have_response = 0
  /\ \/ BadContext(t, ctx)
     \/ /\ ctx \in contexts
        /\ using' = [using EXCEPT ![t] = ctx]
        /\ Goto(t, "io")
        /\ UNCHANGED <<globalVars, call, wait_ms, historyVars, fault>>

LoopExit(t) ==
  /\ At(t, "loop")
  /\ have_response # 0
  /\ Goto(t, "finish")
  /\ outcome' = [outcome EXCEPT ![call[t]] = "answered"]
  /\ UNCHANGED <<globalVars, call, using, wait_ms, fn, uri, handled, status,
                 overlapped, fault>>

\* coap_io_process works on a context the other task has freed.
IoFreed(t) ==
  /\ At(t, "io")
  /\ using[t] \notin contexts
  /\ Dies(t, "freed context")

\* What the lambda passed to coap_register_response_handler does: it sets the
\* flag and stores the payload, if there is one.  A document that is no JSON
\* is an exception nobody catches; XML is stored as far as it could be parsed.
ResponseHandler(f, c, payload) ==
  /\ have_response' = 1
  /\ handled' = handled \cup {c}
  /\ IF payload = "malformed" /\ f.parser = "json"
     THEN fault' = "json exception" /\ doc' = doc
     ELSE /\ fault' = fault
          /\ doc' = IF payload # "empty" /\ f.sink \in Documents
                    THEN [doc EXCEPT ![f.sink] = c] ELSE doc

\* An answer to a request that was sent on the context arrives.
IoResponse(t, c) ==
  /\ At(t, "io")
  /\ using[t] \in contexts
  /\ c \in sessions[using[t]] \ handled
  /\ uri[c] # {}
  /\ fn[c].method = "GET"
  /\ \E payload \in {"valid", "malformed", "empty"} :
       ResponseHandler(handler[using[t]], c, payload)
  /\ Goto(t, "loop")
  /\ using' = [using EXCEPT ![t] = None]
  /\ UNCHANGED <<ctx, optlist, contexts, handler, sessions, call, wait_ms, fn,
                 uri, outcome, status, overlapped>>

\* Two slips: the time left is not compared with the time spent, or not reduced.
IoElapsedUnchecked(t) ==
  /\ At(t, "io")
  /\ using[t] \in contexts
  /\ using' = [using EXCEPT ![t] = None]
  /\ Goto(t, "loop")
  /\ wait_ms' = [wait_ms EXCEPT ![t] = @ - 1]
  /\ UNCHANGED <<globalVars, call, historyVars, fault>>

IoElapsedUncounted(t) ==
  /\ At(t, "io")
  /\ using[t] \in contexts
  /\ using' = [using EXCEPT ![t] = None]
  /\ Goto(t, "loop")
  /\ UNCHANGED <<globalVars, call, wait_ms, historyVars, fault>>

\* Nothing arrives; the time spent is taken from wait_ms, or is all of it.
IoElapsed(t) ==
  /\ At(t, "io")
  /\ using[t] \in contexts
  /\ using' = [using EXCEPT ![t] = None]
  /\ IF wait_ms[t] <= 1
     THEN /\ Goto(t, "finish")
          /\ outcome' = [outcome EXCEPT ![call[t]] = "timeout"]
          /\ wait_ms' = wait_ms
     ELSE /\ Goto(t, "loop")
          /\ outcome' = outcome
          /\ wait_ms' = [wait_ms EXCEPT ![t] = @ - 1]
  /\ UNCHANGED <<globalVars, call, fn, uri, handled, status, overlapped, fault>>

\* coap_io_process returns an error, which the loop ignores.
IoError(t) ==
  /\ At(t, "io")
  /\ using[t] \in contexts
  /\ using' = [using EXCEPT ![t] = None]
  /\ Goto(t, "loop")
  /\ UNCHANGED <<globalVars, call, wait_ms, historyVars, fault>>

\* Two slips: the flag or the option list is left to the next call.
FinishKeepingFlag(t) ==
  /\ At(t, "finish")
  /\ ~SessionFreed(t)
  /\ optlist' = {}
  /\ sessions' = [c \in Calls |-> sessions[c] \ {call[t]}]
  /\ Goto(t, "free")
  /\ UNCHANGED <<ctx, have_response, contexts, handler, doc, call, using,
                 wait_ms, historyVars, fault>>

FinishKeepingOptions(t) ==
  /\ At(t, "finish")
  /\ ~SessionFreed(t)
  /\ have_response' = 0
  /\ sessions' = [c \in Calls |-> sessions[c] \ {call[t]}]
  /\ Goto(t, "free")
  /\ UNCHANGED <<ctx, optlist, contexts, handler, doc, call, using, wait_ms,
                 historyVars, fault>>

\* The label finish: the flag, the option list, the session ...
Finish(t) ==
  /\ At(t, "finish")
  /\ ~SessionFreed(t)
  /\ have_response' = 0
  /\ optlist' = {}
  /\ sessions' = [c \in Calls |-> sessions[c] \ {call[t]}]
  /\ Goto(t, "free")
  /\ UNCHANGED <<ctx, contexts, handler, doc, call, using, wait_ms,
                 historyVars, fault>>

\* emberAfExternalAttributeReadCallback, emberAfExternalAttributeWriteCallback
\* and emberAfActionsClusterInstantActionCallback do not look at the result.
CallbackStatus(f) ==
  IF f \in {CoapClientGetAnswer, CoapClientPutData, CoapClientPut}
  THEN "Success" ELSE "none"

\* A slip: ctx still points to the context that was freed.
FreeContextKeepingPointer(t) ==
  /\ At(t, "free")
  /\ contexts' = contexts \ {ctx}
  /\ fault' = IF ctx = None \/ ctx \in contexts THEN fault ELSE "freed context"
  /\ Goto(t, "idle")
  /\ call' = [call EXCEPT ![t] = None]
  /\ status' = [status EXCEPT ![call[t]] = CallbackStatus(fn[call[t]])]
  /\ UNCHANGED <<ctx, optlist, have_response, handler, sessions, doc, using,
                 wait_ms, fn, uri, handled, outcome, overlapped>>

\* ... and the context that ctx points to; then the function returns.
FreeContext(t) ==
  /\ At(t, "free")
  /\ contexts' = contexts \ {ctx}
  /\ ctx' = None
  /\ fault' = IF ctx = None \/ ctx \in contexts THEN fault ELSE "freed context"
  /\ Goto(t, "idle")
  /\ call' = [call EXCEPT ![t] = None]
  /\ status' = [status EXCEPT ![call[t]] = CallbackStatus(fn[call[t]])]
  /\ UNCHANGED <<optlist, have_response, handler, sessions, doc, using, wait_ms,
                 fn, uri, handled, outcome, overlapped>>

Step(t) ==
  \/ NewContext(t)
  \/ NewSession(t)
  \/ Send(t)
  \/ UseFreedSession(t)
  \/ LoopEnter(t)
  \/ LoopExit(t)
  \/ IoFreed(t)
  \/ \E c \in Calls : IoResponse(t, c)
  \/ IoElapsed(t)
  \/ IoError(t)
  \/ Finish(t)
  \/ FreeContext(t)

Next ==
  \/ \E t \in Tasks, c \in Calls, f \in Functions : Begin(t, c, f)
  \/ \E t \in Tasks : Step(t)

Spec == Init /\ [][Next]_vars

\* A task that can run goes on, and coap_io_process does not fail for ever: now
\* and then it comes back after the time it was to wait.
Fairness == \A t \in Tasks : WF_vars(Step(t)) /\ SF_vars(IoElapsed(t))

FairSpec == Spec /\ Fairness

-----------------------------------------------------------------------------
(* Properties.  Those about the globals hold as long as the two tasks have    *)
(* not been inside a call at the same time.                                   *)

\* Between two calls the globals are as the next call expects them and no
\* context is left allocated, whichever step of the last call failed.
GlobalsClean ==
  Running /\ ~overlapped /\ (\A t \in Tasks : pc[t] = "idle") =>
    ctx = None /\ optlist = {} /\ have_response = 0 /\ contexts = {}

\* A request carries the uri of its own call only, and a document holds the
\* answer to a call that was made to load it.
AnswersGoHome ==
  ~overlapped =>
    /\ \A c \in Calls : uri[c] \subseteq {c}
    /\ \A d \in Documents : doc[d] # None => fn[doc[d]].sink = d

\* No call uses a context or a session that is null or freed.
ContextsValid ==
  ~overlapped =>
    fault \notin {"null context", "freed context", "freed session"}

\* Every call returns, with or without an answer, even when the calls of the
\* two tasks overlap: neither can keep the other in its loop.
CallReturns == \A t \in Tasks : pc[t] # "idle" ~> (pc[t] = "idle" \/ ~Running)

\* What the code around a call may rely on is ClientCall, as long as the calls of
\* the two tasks do not overlap: the globals keep the answer, the result and the
\* document of a call apart from those of every other, whichever steps fail.
InCall == {call[t] : t \in Tasks} \ {None}

ClientCalls ==
  INSTANCE ClientCall WITH
    current <- IF InCall = {} THEN None ELSE CHOOSE c \in InCall : TRUE,
    loads   <- [c \in Calls |-> IF fn[c].sink \in Documents
                               THEN fn[c].sink ELSE None],
    result  <- [c \in Calls |-> IF c \in InCall THEN "none" ELSE outcome[c]],
    void    <- overlapped

PromisesCalls == ClientCalls!Spec

\* What the comment above coap_new_context promises each call: "create CoAP
\* context and a client session".  Up to its end the call works on its own one.
ContextIsOwn ==
  \A t \in Tasks :
    Running /\ pc[t] \in {"session", "send", "loop", "io"} => ctx = call[t]

\* What emberAfExternalAttributeReadCallback says it does: "translate the read
\* interaction into a CoAP GET request and return the response".
ReadReturnsResponse ==
  \A c \in Calls :
    fn[c] = CoapClientGetAnswer /\ status[c] = "Success" => c \in handled
=============================================================================
