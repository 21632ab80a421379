----------------------------- MODULE CoapServer -----------------------------
(***************************************************************************)
(* The coap_server task (main/CoapServer.cpp) on top of the CHIP task of   *)
(* BindingHandler: the resource handlers that turn a CoAP request into a   *)
(* BindingCommandData and the GET handler that waits for result_ptr; and   *)
(* the button handler of the AppTask, which feeds the same queue.          *)
(*                                                                         *)
(* libcoap calls the handlers one at a time from coap_io_process.  A       *)
(* handler runs without interruption, because no task of a higher priority *)
(* exists, up to where it sleeps.                                          *)
(***************************************************************************)
EXTENDS BindingHandler

CONSTANTS
  ReadUris,     \* the resources with a GET handler
  WriteUris,    \* the attribute resources with a PUT handler
  CommandUris,  \* the command resources
  ClusterOf,    \* the cluster the object id of a resource maps to
  CommandOf,    \* the command the resource id of a command resource maps to
  Tries         \* how often the GET handler looks at result_ptr

Uris == ReadUris \cup WriteUris \cup CommandUris

ASSUME CoapServerAssumption ==
  /\ ClusterOf \in [Uris -> Clusters]
  /\ CommandOf \in [CommandUris -> CommandIds]
  /\ Tries \in Nat \ {0}

VARIABLES
  pc,      \* where the coap_server task is: in coap_io_process or asleep
  cur,     \* the GET request being waited for
  tries,   \* the local variable of ForwardAttributeReadMessage
  method,  \* what each request was
  reply,   \* the kind of answer each request got
  value    \* the cell whose value a GET was answered with

coapVars == <<pc, cur, tries, method, reply, value>>
vars == <<bindingVars, coapVars>>

TypeOK ==
  /\ BindingTypeOK
  /\ pc \in {"io", "wait"}
  /\ cur \in Requests \cup {None}
  /\ tries \in 0..Tries
  /\ method \in [Requests -> {"none", "get", "put", "command", "button"}]
  /\ reply \in [Requests -> {"none", "changed", "content", "undefined"}]
  /\ value \in [Requests -> Cells \cup {None}]

Init ==
  /\ BindingInit
  /\ pc = "io"
  /\ cur = None
  /\ tries = 0
  /\ method = [r \in Requests |-> "none"]
  /\ reply = [r \in Requests |-> "none"]
  /\ value = [r \in Requests |-> None]

\* What the three Forward functions have in common: a block for the request is
\* allocated, filled in and posted to the CHIP task.
Forward(r, d, how) ==
  /\ method[r] = "none"
  /\ method' = [method EXCEPT ![r] = how]
  /\ data' = [data EXCEPT ![r] = d]
  /\ ScheduleWork(Work("SwitchWorkerFunction", r))
  /\ UNCHANGED <<phase, table, bmReady, pending, reading, sent, result_ptr,
                 fresh, old, cells, fault>>

\* A slip: coap_server is created before InitServer has run.
ServingEarly == Running /\ pc = "io"

\* The server is up and its task is in coap_io_process.
Serving == Running /\ phase = "up" /\ pc = "io"

Changed(r) ==
  /\ reply' = [reply EXCEPT ![r] = "changed"]
  /\ UNCHANGED <<pc, cur, tries, value>>

ForwardAttributeWriteMessage(r, uri) ==
  Forward(r, [NewCommandData(ClusterOf[uri]) EXCEPT !.writeAttribute = TRUE],
          "put")

\* 2.04 Changed, whether there was a payload and wherever the block went.
hnd_attribute_put(r, uri) ==
  /\ Serving
  /\ ForwardAttributeWriteMessage(r, uri)
  /\ Changed(r)

ForwardCommandMessage(r, uri) ==
  Forward(r, [NewCommandData(ClusterOf[uri])
                EXCEPT !.commandId = CommandOf[uri]], "command")

hnd_command_put(r, uri) ==
  /\ Serving
  /\ ForwardCommandMessage(r, uri)
  /\ Changed(r)

\* The first half of ForwardAttributeReadMessage, up to the first sleep.
ForwardAttributeReadMessage(r, uri) ==
  Forward(r, [NewCommandData(ClusterOf[uri]) EXCEPT !.readAttribute = TRUE],
          "get")

hnd_attribute_get(r, uri) ==
  /\ Serving
  /\ ForwardAttributeReadMessage(r, uri)
  /\ pc' = "wait"
  /\ cur' = r
  /\ tries' = Tries
  /\ UNCHANGED <<reply, value>>

Asleep == Running /\ pc = "wait"

\* The handler is done: the cell it answers with, and what it leaves behind in
\* result_ptr and on the heap.
EndOfHandler(kind, found, ptr, left) ==
  /\ reply' = [reply EXCEPT ![cur] = kind]
  /\ value' = [value EXCEPT ![cur] = found]
  /\ result_ptr' = ptr
  /\ cells' = left
  /\ pc' = "io"
  /\ cur' = None
  /\ tries' = 0
  /\ UNCHANGED <<phase, queue, dropped, data, table, bmReady, pending, reading,
                 sent, fresh, old, fault, method>>

\* Four slips there: result_ptr keeps its cell, is left dangling behind a
\* delete, is a plain pointer nulled without a delete, or is reset before the
\* value is copied to the response.
RespondKeepingResult(kind) == EndOfHandler(kind, result_ptr, result_ptr, cells)
RespondDangling(kind) ==
  EndOfHandler(kind, result_ptr, result_ptr, cells \ {result_ptr})
RespondLeaking(kind) == EndOfHandler(kind, result_ptr, None, cells)
RespondResetFirst(kind) == EndOfHandler(kind, None, None, cells \ {result_ptr})

\* The response carries the cell the handler found, or, when it found none, as
\* many bytes of the buffer as the uninitialised response_len says; resetting
\* result_ptr deletes what it holds.
Respond(kind) == EndOfHandler(kind, result_ptr, None, cells \ {result_ptr})

\* The handler wakes up and result_ptr holds something.
PollResult == Asleep /\ result_ptr # None /\ Respond("content")

\* It wakes up for the last time and result_ptr is still null.
PollGiveUp == Asleep /\ result_ptr = None /\ tries = 1 /\ Respond("undefined")

\* Two slips in the loop: it does not stop, or it does not count.
PollBelowZero ==
  /\ Asleep
  /\ result_ptr = None
  /\ tries' = tries - 1
  /\ UNCHANGED <<bindingVars, pc, cur, method, reply, value>>

PollUncounted ==
  /\ Asleep
  /\ result_ptr = None
  /\ tries > 1
  /\ UNCHANGED vars

\* It wakes up, finds nothing and sleeps again.
PollAgain ==
  /\ Asleep
  /\ result_ptr = None
  /\ tries > 1
  /\ tries' = tries - 1
  /\ UNCHANGED <<bindingVars, pc, cur, method, reply, value>>

Poll == PollResult \/ PollGiveUp \/ PollAgain

\* A button press toggles whatever is bound to the OnOff cluster.  The AppTask
\* has the priority of the CHIP task and starts before InitServer has run.
SwitchActionEventHandler(r) ==
  /\ Running
  /\ Forward(r, [NewCommandData(OnOff) EXCEPT !.commandId = "Toggle"], "button")
  /\ UNCHANGED <<pc, cur, tries, reply, value>>

ChipStep ==
  \/ Boot
  \/ ChipWork
  \/ \E b \in Entries : BindingWorkerFunction(b)
  \/ \E r \in Requests, b \in Entries : ConnectionResult(r, b)
  \/ \E r \in Requests, b \in Entries : ReadAnswered(r, b)

CoapStep ==
  \/ \E r \in Requests, uri \in ReadUris : hnd_attribute_get(r, uri)
  \/ \E r \in Requests, uri \in WriteUris : hnd_attribute_put(r, uri)
  \/ \E r \in Requests, uri \in CommandUris : hnd_command_put(r, uri)
  \/ Poll

AppStep == \E r \in Requests : SwitchActionEventHandler(r)

Next == (ChipStep /\ UNCHANGED coapVars) \/ CoapStep \/ AppStep

Spec == Init /\ [][Next]_vars

\* The sleep of a handler ends and the CHIP task gets the core whenever the
\* coap_server task sleeps or waits for a packet; a session is established or
\* given up on by the timers of the stack.
Fairness ==
  /\ WF_vars(Poll)
  /\ WF_vars((Boot \/ ChipWork) /\ UNCHANGED coapVars)
  /\ \A r \in Requests, b \in Entries :
       WF_vars(ConnectionResult(r, b) /\ UNCHANGED coapVars)

FairSpec == Spec /\ Fairness

-----------------------------------------------------------------------------
(* Properties. *)

\* A read that timed out, or one that was sent to two entries, may have its
\* value reported when its own handler no longer waits for it.
TimedOut(r) == reply[r] = "undefined"
FannedOut(r) == \E b, c \in Entries : b # c /\ {<<r, b>>, <<r, c>>} \subseteq sent
Surplus == \E r \in Requests : method[r] = "get" /\ (TimedOut(r) \/ FannedOut(r))

\* A block the CHIP task will still be given, from the queue or by the binding
\* manager, is allocated, and sits in one of the two, once: it is released by
\* ContextReleaseHandler exactly when its last notification is done.
NoUseAfterRelease ==
  /\ \A r \in Requests : Queued(r) \/ Pending(r) => Live(r)
  /\ \A r \in Requests : ~(Queued(r) /\ Pending(r))
  /\ \A i, j \in 1..Len(queue) :
       queue[i] = queue[j] /\ queue[i].fn = "SwitchWorkerFunction" => i = j

\* The value one read interaction reported answers at most one GET, because
\* every handler leaves result_ptr empty behind it.
AnswerUsedOnce ==
  \A r, s \in Requests : value[r] # None /\ value[r] = value[s] => r = s

\* A GET is answered with the value of another request only after some read
\* timed out or went to more than one entry.
ForeignAnswerNeedsSurplus ==
  \A r \in Requests : value[r] # None /\ value[r][1] # r => Surplus

\* The handler deletes what the CHIP task is about to delete only after some
\* read timed out or went to more than one entry.
DoubleFreeNeedsSurplus == fault = "double free" => Surplus

\* No cell is lost between the two tasks: what is allocated is what result_ptr
\* points to or what onSuccess is assigning.
NoCellLeaked == cells = {result_ptr, fresh} \ {None}

\* The block of a CoAP request is lost only when the queue was full, for the
\* request itself or for the initialisation of the binding manager: in any
\* other order of the tasks the binding manager is ready before the request.
ForwardLostOnlyByFullQueue ==
  \A r \in Requests :
    Running /\ method[r] \in {"get", "put", "command"} /\ Leaked(r) =>
      \/ Work("SwitchWorkerFunction", r) \in dropped
      \/ Work("InitBindingHandlerInternal", None) \in dropped

\* A GET that is being waited for is answered, whatever the CHIP task does.
GetAnswered ==
  \A r \in Requests :
    method[r] = "get" ~> (reply[r] \in {"content", "undefined"} \/ ~Running)

\* A block the CHIP task still has in its queue when the binding manager is
\* ready is released in the end, whichever of its notifications fail.
BlockReleased ==
  \A r \in Requests : Queued(r) /\ bmReady ~> (data[r] = Freed \/ ~Running)

\* The GET path is a service with a mailbox of one slot: result_ptr is the
\* mailbox, the handler that sleeps is the read being served, and the two
\* halves of the assignment on the CHIP task look like one report.
Service == INSTANCE ReadService
             WITH accepted <- {r \in Requests : method[r] = "get"},
                  serving <- cur,
                  mailbox <- result_ptr,
                  answer <- value

ServesReads == Service!Spec

\* What the comment in ForwardAttributeReadMessage says the loop waits for:
\* "the response of the command".
AnswerBelongsToRequest ==
  \A r \in Requests : value[r] # None => value[r][1] = r

\* A request that is answered 2.04 Changed has been forwarded: its block is
\* with the CHIP task or was handed to the bindings and released.
ChangedIsForwarded ==
  \A r \in Requests : Running /\ reply[r] = "changed" => ~Leaked(r)
=============================================================================
