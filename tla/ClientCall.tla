----------------------------- MODULE ClientCall -----------------------------
(***************************************************************************)
(* What a function of the CoAP client promises the code that calls it, and *)
(* no more (main/CoapClient.cpp).                                          *)
(*                                                                         *)
(* One call at a time is under way.  A call may be answered once, before   *)
(* it returns, and returns as answered just if it was.  A document changes *)
(* only by the answer to the call that loads it, and need not change then. *)
(* Once two calls have overlapped nothing is promised any more.            *)
(***************************************************************************)
CONSTANTS Calls, Documents, None

Results == {"failed", "sent", "answered", "timeout"}

VARIABLES
  current,  \* the call under way
  loads,    \* the document each call loads, if it loads one
  handled,  \* the calls whose answer was handled
  doc,      \* the call whose answer each document holds
  result,   \* how each call ended
  void      \* two calls have overlapped

callVars == <<current, loads, handled, doc, result, void>>

Init ==
  /\ current = None
  /\ loads = [c \in Calls |-> None]
  /\ handled = {}
  /\ doc = [d \in Documents |-> None]
  /\ result = [c \in Calls |-> "none"]
  /\ void = FALSE

Begin(c) ==
  /\ current = None
  /\ result[c] = "none"
  /\ current' = c
  /\ \E d \in Documents \cup {None} : loads' = [loads EXCEPT ![c] = d]
  /\ UNCHANGED <<handled, doc, result>>

Answer ==
  /\ current # None
  /\ current \notin handled
  /\ handled' = handled \cup {current}
  /\ \/ doc' = doc
     \/ /\ loads[current] # None
        /\ doc' = [doc EXCEPT ![loads[current]] = current]
  /\ UNCHANGED <<current, loads, result>>

Return ==
  /\ current # None
  /\ \E r \in Results :
       /\ r = "answered" <=> current \in handled
       /\ result' = [result EXCEPT ![current] = r]
  /\ current' = None
  /\ UNCHANGED <<loads, handled, doc>>

Next ==
  \/ ~void' /\ ((\E c \in Calls : Begin(c)) \/ Answer \/ Return)
  \/ void'

Spec == Init /\ [][Next]_callVars
=============================================================================
