----------------------------- MODULE MailPipeline -----------------------------
(***************************************************************************)
(* mail-service as it is wired in production: each process runs the Kafka  *)
(* loop (KafkaConsumer), whose handler is the claiming wrapper             *)
(* (ClaimedHandler) around the command handler (MailHandler).              *)
(*                                                                         *)
(* A step of the pipeline is a step of one of them or, where one calls or  *)
(* returns to another, of two of them together.                            *)
(***************************************************************************)
EXTENDS Naturals, Sequences, FiniteSets

CONSTANTS
  Processes, Partitions, Events, BadEnvelope, Kind, MaxAttempts,
  NoOwner, NoRecord, NoEvent, Faults,
  MaxProduced, MaxLog, MaxCopies, MaxMails, MaxExpired  \* bounds

VARIABLES
  log, committed, owner, pos, mode, cur, retry, accounted, buried,  \* KafkaConsumer
  claims, stage, event, expired,                                    \* ClaimedHandler
  step, task, verdict, mails, results,                              \* MailHandler
  abandoned  \* history: the events that a process gave up unanswered

\* No error of the command handler is a resilience.PermanentError.
Kafka == INSTANCE KafkaConsumer WITH
  Consumers <- Processes, Outcomes <- {"ok", "transient"}

Claims == INSTANCE ClaimedHandler WITH Workers <- Processes

Mail == INSTANCE MailHandler WITH Workers <- Processes

\* What the three components assume of their constants.
ASSUME PipelineAssumption ==
  /\ NoOwner \notin Processes
  /\ MaxAttempts \in Nat \ {0}
  /\ MaxCopies \in Nat \ {0}
  /\ NoRecord \notin Kafka!Place
  /\ NoEvent \notin Events
  /\ IsFiniteSet(Processes)
  /\ MaxExpired \in Nat
  /\ Kind \in [Events -> Mail!Defect \cup {"undecodable", "deliverable"}]
  /\ MaxMails \in Nat \ {0}

consumerVars ==
  <<log, committed, owner, pos, mode, cur, retry, accounted, buried>>
claimVars == <<claims, stage, event, expired>>
mailVars == <<step, task, verdict, mails, results>>

vars == <<consumerVars, claimVars, mailVars, abandoned>>

Init == Kafka!Init /\ Claims!Init /\ Mail!Init /\ abandoned = {}

-----------------------------------------------------------------------------
\* The event of the record that process c works on.
Current(c) == Kafka!At(cur[c]).event

\* The loop has called the wrapped handler, which has not yet asked for the claim.
Delivered(c) == mode[c] = "handling" /\ stage[c] = "idle"

Answered(e) == results[e] # {}

\* Process c is at work on a record that it has neither committed nor passed on.
AtRecord(c) == mode[c] \in {"handling", "requeueing", "burying"}

\* What c works on is written down as given up, if no result was published for it.
GiveUp(c) ==
  abandoned' = IF AtRecord(c) /\ ~ Answered(Current(c))
               THEN abandoned \cup {Current(c)} ELSE abandoned

\* Steps of the loop in which the handler has no part.  A copy or a dead letter
\* that cannot be written is given up.
Transport ==
  /\ \/ (Kafka!Environment \/ \E c \in Processes : Kafka!Loop(c)) /\ UNCHANGED abandoned
     \/ \E c \in Processes : Kafka!Failure(c) /\ GiveUp(c)
  /\ UNCHANGED <<claimVars, mailVars>>

\* The claim is taken and the command handler is called.
Claim(c) ==
  /\ Delivered(c)
  /\ Claims!ClaimTaken(c, Current(c))
  /\ Mail!Take(c, Current(c))
  /\ UNCHANGED <<consumerVars, abandoned>>

\* The claim is somebody's, or the event is done: nil goes back to the loop.
Refused(c) ==
  /\ Delivered(c)
  /\ Claims!ClaimRefused(c, Current(c))
  /\ Kafka!HandlerReturns(c, "ok")
  /\ UNCHANGED <<mailVars, abandoned>>

\* A key that was set nevertheless is nobody's: c has given up its event.
ClaimError(c) ==
  /\ Delivered(c)
  /\ Claims!ClaimError(c, Current(c))
  /\ Kafka!HandlerReturns(c, "transient")
  /\ IF claims' = claims THEN UNCHANGED abandoned ELSE GiveUp(c)
  /\ UNCHANGED mailVars

\* Steps inside the command handler.
Work(c) ==
  /\ Mail!Reject(c) \/ Mail!Render(c) \/ Mail!SendOK(c)
  /\ UNCHANGED <<consumerVars, claimVars, abandoned>>

SendFails(c) ==
  /\ Mail!SendRefused(c) \/ Mail!ReplyLost(c) \/ Mail!BreakerOpen(c)
  /\ UNCHANGED <<consumerVars, claimVars, abandoned>>

\* The command handler returns to the wrapper.
HandleOK(c) ==
  /\ Mail!Publish(c)
  /\ Claims!HandlerOK(c)
  /\ UNCHANGED <<consumerVars, abandoned>>

HandleError(c) ==
  /\ Mail!DecodeError(c)
  /\ Claims!HandlerErr(c)
  /\ UNCHANGED <<consumerVars, abandoned>>

\* Mutant: the error of Publish is dropped.
PublishFailsUnnoticed(c) ==
  /\ Mail!PublishError(c)
  /\ Claims!HandlerOK(c)
  /\ UNCHANGED <<consumerVars, abandoned>>

PublishFails(c) ==
  /\ Mail!PublishError(c)
  /\ Claims!HandlerErr(c)
  /\ UNCHANGED <<consumerVars, abandoned>>

\* The wrapper returns to the loop.
Complete(c) ==
  /\ Claims!Complete(c)
  /\ Kafka!HandlerReturns(c, "ok")
  /\ UNCHANGED <<mailVars, abandoned>>

Release(c) ==
  /\ Claims!Release(c)
  /\ Kafka!HandlerReturns(c, "transient")
  /\ UNCHANGED <<mailVars, abandoned>>

RedisFails(c) ==
  /\ Claims!CompleteError(c) \/ Claims!ReleaseError(c)
  /\ Kafka!HandlerReturns(c, "transient")
  /\ GiveUp(c)
  /\ UNCHANGED mailVars

\* Mutant: the loop ends without its handler.
ExitDetached(c) ==
  /\ Kafka!Exit(c)
  /\ GiveUp(c)
  /\ UNCHANGED <<claimVars, mailVars>>

\* The process ends, wherever it is.  (OnStop is no better: it cancels the
\* context of the handler and waits for nobody.)
Exit(c) ==
  /\ Kafka!Exit(c)
  /\ IF stage[c] = "idle" THEN UNCHANGED claimVars ELSE Claims!Exit(c)
  /\ IF step[c] = "idle" THEN UNCHANGED mailVars ELSE Mail!Exit(c)
  /\ GiveUp(c)

Expire(e) ==
  /\ Claims!Expire(e)
  /\ UNCHANGED <<consumerVars, mailVars, abandoned>>

Next ==
  \/ Transport
  \/ \E c \in Processes :
       \/ Claim(c) \/ Refused(c) \/ ClaimError(c)
       \/ Work(c) \/ SendFails(c)
       \/ HandleOK(c) \/ HandleError(c) \/ PublishFails(c)
       \/ Complete(c) \/ Release(c) \/ RedisFails(c)
       \/ Exit(c)
  \/ \E e \in Events : Expire(e)

Spec == Init /\ [][Next]_vars

-----------------------------------------------------------------------------
\* What process c does when nothing fails.
Progress(c) ==
  \/ Kafka!Loop(c) /\ UNCHANGED <<claimVars, mailVars, abandoned>>
  \/ Claim(c) \/ Refused(c) \/ Work(c) \/ HandleOK(c) \/ HandleError(c)
  \/ Complete(c) \/ Release(c)

Assign(p) ==
  /\ \E c \in Processes : Kafka!Assign(p, c)
  /\ UNCHANGED <<claimVars, mailVars, abandoned>>

Forward(r) ==
  /\ \E p \in Partitions : Kafka!Forward(p, r)
  /\ UNCHANGED <<claimVars, mailVars, abandoned>>

Disturbance ==
  \/ Kafka!Disturbance
  \/ \E c \in Processes :
       ClaimError(c) \/ SendFails(c) \/ PublishFails(c) \/ RedisFails(c)

\* Every process goes on, partitions get assigned, copies are put back, and at
\* some time nothing fails any more.
QuietSpec ==
  /\ Spec
  /\ \A c \in Processes : WF_vars(Progress(c))
  /\ \A p \in Partitions : WF_vars(Assign(p))
  /\ \A r \in Kafka!Record : WF_vars(Forward(r))
  /\ <>[][~Disturbance]_vars

-----------------------------------------------------------------------------
(* Properties.                                                               *)

\* The three components agree on what every process is doing: the wrapped
\* handler runs only while the loop waits for it, on the event of the record
\* the loop has fetched, and the command handler only inside the wrapper.
TypeOK ==
  /\ Kafka!TypeOK
  /\ Claims!TypeOK
  /\ Mail!TypeOK
  /\ abandoned \subseteq Events
  /\ \A c \in Processes :
       /\ stage[c] # "idle" => mode[c] = "handling" /\ event[c] = Current(c)
       /\ step[c] # "idle" <=> stage[c] = "handling"
       /\ step[c] # "idle" => task[c] = event[c]

Sent(e) == \E p \in Partitions : \E n \in DOMAIN log[p] : log[p][n].event = e

DeadLettered(e) == \E place \in buried : Kafka!At(place).event = e

\* Something will still deal with e: a record not committed, a copy in the
\* retry topic, or a process at work on a record of it.
Outstanding(e) ==
  \/ \E p \in Partitions : \E n \in (committed[p] + 1)..Len(log[p]) : log[p][n].event = e
  \/ \E r \in Kafka!Record : r.event = e /\ retry[r] > 0
  \/ \E c \in Processes : mode[c] \in Kafka!Working \ {"committing"} /\ Current(c) = e

\* A command never just disappears: until a result is published for it, or it
\* is in the dead-letter topic, something will still deal with it.  A refused
\* claim is committed, so this rests on the one who holds the claim.
Kept(e) == Sent(e) => Answered(e) \/ DeadLettered(e) \/ Outstanding(e)

NoSilentLoss == \A e \in Events : Kept(e)

\* Whatever fails: a command that does disappear was given up by a process, which
\* ended at work on it, could not write its copy or dead letter, or left its key
\* behind.  No rebalance, redelivery, refused claim, commit that passes over a
\* requeued record, key that expires under its handler or failed publication
\* loses one, alone or together.
LostOnlyIfGivenUp == \A e \in Events \ abandoned : Kept(e)

\* An event is recorded as done only after a result was published for it:
\* from then on every delivery of it is refused.
DoneIsAnswered ==
  \A e \in Events : claims[e] = "done" => Answered(e)

\* Redelivered, requeued and duplicated records of a command cause one mail
\* and one result, not two that contradict each other.
HandledOnce ==
  \A e \in Events : mails[e] <= 1 /\ \A r, s \in results[e] : r = s

\* The fate of a command, read off the topics and the processes.
Fate(e) ==
  IF ~Sent(e) THEN "unsent"
  ELSE IF Answered(e) THEN "answered"
  ELSE IF DeadLettered(e) THEN "dead"
  ELSE IF Outstanding(e) THEN "open"
  ELSE "lost"

Unreadable == {e \in Events : e \in BadEnvelope \/ Kind[e] = "undecodable"}

Defective == {e \in Events : Kind[e] \in Mail!Defect}

Service == INSTANCE MailService WITH
  state <- [e \in Events |-> Fate(e)],
  Rejection <- [e \in Defective |-> Mail!Reason[Kind[e]]]

\* Whatever the loop, the SMTP server and the consumer group do, every step of
\* the service is one that MailService allows: no command is lost, answered
\* twice, mailed after its answer, or dead-lettered though it can be read.
ServiceSpec == Service!Spec

Promise == INSTANCE MailOutcomes WITH
  Commands <- Events,
  sent <- {e \in Events : Sent(e)},
  settled <- {e \in Claims!Guarded : claims[e] = "done"},
  Rejection <- [e \in Defective |-> Mail!Reason[Kind[e]]]

\* Whatever fails, Redis, the result topic and the processes included, every
\* step is one that MailOutcomes allows: no untrue answer, no mail for a command
\* with a defect, nothing recorded as done without an answer or, unless a handler
\* of it outlived its key, forgotten again.
OutcomesSpec == Promise!Spec

\* Every command that can be delivered is answered at last.
EventuallyAnswered ==
  \A e \in Events : Kind[e] = "deliverable" /\ e \notin BadEnvelope =>
    (Sent(e) ~> Answered(e))
=============================================================================
