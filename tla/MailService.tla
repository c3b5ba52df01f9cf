------------------------------ MODULE MailService ------------------------------
(***************************************************************************)
(* What mail-service promises to whoever sends it commands: a command that *)
(* was sent is answered once, with a result that is true, and at most one  *)
(* mail leaves before; or it is dead-lettered, because nothing can be read *)
(* from it.  It never disappears.                                          *)
(*                                                                         *)
(* Nothing here knows about records, offsets, claims, retries or           *)
(* processes: MailPipeline has to implement this specification.            *)
(***************************************************************************)
EXTENDS Naturals

CONSTANTS
  Events,      \* the identities of the commands
  Unreadable,  \* those whose envelope or payload cannot be read
  Rejection    \* Rejection[e]: why the command e is rejected, if it has a defect

VARIABLES
  state,   \* state[e]: "unsent", "open", "answered" or "dead"
  mails,   \* mails[e]: mails that left for e
  results  \* results[e]: the results published for e

vars == <<state, mails, results>>

Init ==
  /\ state = [e \in Events |-> "unsent"]
  /\ mails = [e \in Events |-> 0]
  /\ results = [e \in Events |-> {}]

Rejected == DOMAIN Rejection

\* What may be answered: the defect, or what became of the mail.  A failed
\* sending leaves open whether the mail left, any other failure does not.
Truth(e) ==
  IF e \in Rejected THEN {Rejection[e]}
  ELSE IF mails[e] = 0 THEN {"failed to send mail", "internal mail delivery error"}
  ELSE {"success", "failed to send mail"}

\* The state of e changes.
Turn(e, from, to) ==
  /\ state[e] = from
  /\ state' = [state EXCEPT ![e] = to]

Send(e) ==
  /\ Turn(e, "unsent", "open")
  /\ UNCHANGED <<mails, results>>

\* The only mail for e leaves while e is open.
Mail(e) ==
  /\ state[e] = "open"
  /\ e \notin Unreadable \cup Rejected
  /\ mails[e] = 0
  /\ mails' = [mails EXCEPT ![e] = 1]
  /\ UNCHANGED <<state, results>>

Answer(e) ==
  /\ e \notin Unreadable
  /\ Turn(e, "open", "answered")
  /\ \E v \in Truth(e) : results' = [results EXCEPT ![e] = {v}]
  /\ UNCHANGED mails

Bury(e) ==
  /\ e \in Unreadable
  /\ Turn(e, "open", "dead")
  /\ UNCHANGED <<mails, results>>

Next == \E e \in Events : Send(e) \/ Mail(e) \/ Answer(e) \/ Bury(e)

Spec == Init /\ [][Next]_vars
=============================================================================
