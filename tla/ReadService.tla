---------------------------- MODULE ReadService -----------------------------
(***************************************************************************)
(* What the bridge promises a CoAP client that reads an attribute          *)
(* (hnd_attribute_get in main/CoapServer.cpp), and no more than that.      *)
(*                                                                         *)
(* Reads are served one at a time.  The values bound devices report land   *)
(* in a mailbox of one slot, where a report replaces one nobody has        *)
(* fetched.  The read being served is answered with what is in the         *)
(* mailbox, and leaves it empty; an empty mailbox is an answer too.  A     *)
(* report is about a read that has been accepted, and answers one read.    *)
(***************************************************************************)
CONSTANTS Requests, Entries, None

Reports == Requests \X Entries

VARIABLES
  accepted,  \* the reads that have arrived
  serving,   \* the one being served
  mailbox,   \* the report nobody has fetched yet
  answer     \* the report each read was answered with

serviceVars == <<accepted, serving, mailbox, answer>>

Init ==
  /\ accepted = {}
  /\ serving = None
  /\ mailbox = None
  /\ answer = [r \in Requests |-> None]

Accept(r) ==
  /\ serving = None
  /\ r \notin accepted
  /\ accepted' = accepted \cup {r}
  /\ serving' = r
  /\ UNCHANGED <<mailbox, answer>>

Report(c) ==
  /\ c[1] \in accepted
  /\ \A r \in Requests : answer[r] # c
  /\ mailbox' = c
  /\ UNCHANGED <<accepted, serving, answer>>

Answer ==
  /\ serving # None
  /\ answer' = [answer EXCEPT ![serving] = mailbox]
  /\ serving' = None
  /\ mailbox' = None
  /\ UNCHANGED accepted

Next ==
  \/ \E r \in Requests : Accept(r)
  \/ \E c \in Reports : Report(c)
  \/ Answer

Spec == Init /\ [][Next]_serviceVars
=============================================================================
