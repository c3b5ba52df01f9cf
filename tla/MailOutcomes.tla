----------------------------- MODULE MailOutcomes -----------------------------
(***************************************************************************)
(* What mail-service keeps to whatever fails, on Kafka and on NATS alike:  *)
(* a command may be mailed and answered more than once, but every answer   *)
(* was true when it was given, nothing is made of what cannot be read, a   *)
(* command with a defect is never mailed, and a command is recorded as     *)
(* dealt with only when it has an answer.  That none is lost before that   *)
(* is not promised here.                                                   *)
(*                                                                         *)
(* Nothing here knows how commands are delivered.  MailService is the      *)
(* stronger promise, which takes a Redis that works.                       *)
(***************************************************************************)
EXTENDS Naturals

CONSTANTS
  Commands,    \* their identities
  Unreadable,  \* those whose envelope or payload cannot be read
  Rejection    \* Rejection[e]: why the command e is rejected, if it has a defect

VARIABLES
  sent,     \* the commands that were sent
  mails,    \* mails[e]: mails that left for e
  results,  \* results[e]: the results published for e
  settled   \* the commands on record as dealt with: no delivery of them is handled
            \* again.  On Kafka the record is the Redis key "done", on NATS the
            \* acknowledgement; a committed offset is no such record.

vars == <<sent, mails, results, settled>>

Init ==
  /\ sent = {}
  /\ mails = [e \in Commands |-> 0]
  /\ results = [e \in Commands |-> {}]
  /\ settled = {}

Rejected == DOMAIN Rejection

\* What may be answered: the defect, or what became of the mail.  A failed
\* delivery of the command may follow one that succeeded.
Truth(e) ==
  IF e \in Rejected THEN {Rejection[e]}
  ELSE {"failed to send mail", "internal mail delivery error"}
         \cup (IF mails[e] > 0 THEN {"success"} ELSE {})

Send(e) ==
  /\ sent' = sent \cup {e}
  /\ UNCHANGED <<mails, results, settled>>

Mail(e) ==
  /\ e \in sent \ (Unreadable \cup Rejected)
  /\ mails' = [mails EXCEPT ![e] = @ + 1]
  /\ UNCHANGED <<sent, results, settled>>

Answer(e) ==
  /\ e \in sent \ Unreadable
  /\ \E v \in Truth(e) : results' = [results EXCEPT ![e] = @ \cup {v}]
  /\ UNCHANGED <<sent, mails, settled>>

Settle(e) ==
  /\ results[e] # {}
  /\ settled' = settled \cup {e}
  /\ UNCHANGED <<sent, mails, results>>

Next == \E e \in Commands : Send(e) \/ Mail(e) \/ Answer(e) \/ Settle(e)

Spec == Init /\ [][Next]_vars
=============================================================================
