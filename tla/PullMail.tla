------------------------------- MODULE PullMail -------------------------------
(***************************************************************************)
(* mail-service on NATS: PullConsumer with the command handler of          *)
(* nats/mail_command_subscriber.go, which is MailHandler.  No claims keep  *)
(* the deliveries of one command apart here: each is handled.              *)
(*                                                                         *)
(* A step is a step of the runtime, of the handler or, where the one calls *)
(* or returns to the other, of both.                                       *)
(***************************************************************************)
EXTENDS PullConsumer

CONSTANTS
  Kind, NoMessage,  \* Kind and NoEvent of MailHandler
  MaxMails          \* bound: mails counted per command

VARIABLES step, task, verdict, mails, results  \* of MailHandler

Mail == INSTANCE MailHandler WITH Events <- Messages, NoEvent <- NoMessage

mailVars == <<step, task, verdict, mails, results>>
vars == <<pullVars, mailVars>>

ASSUME MailAssumption ==
  /\ NoMessage \notin Messages
  /\ Kind \in [Messages -> Mail!Defect \cup {"undecodable", "deliverable"}]
  /\ MaxMails \in Nat \ {0}

\* The handler runs in a worker exactly while the worker waits for it, on the
\* message the worker has.
HandlerTypeOK ==
  /\ Mail!TypeOK
  /\ \A w \in Workers : step[w] # "idle" <=> worker[w] = "handling"
  /\ \A w \in Workers : step[w] # "idle" => task[w] = job[w].msg

\* The runtime and the handler in its workers together.
MailTypeOK == TypeOK /\ HandlerTypeOK

MailInit == Init /\ Mail!Init

-----------------------------------------------------------------------------
\* The worker takes a message and calls the handler with it.
Receive(w) == Take(w) /\ Mail!Take(w, Head(jobs).msg)

\* Steps inside the handler, with a mail sent or not.
Work(w) ==
  /\ \/ Mail!Reject(w) \/ Mail!Render(w)
     \/ Mail!SendOK(w) \/ Mail!SendRefused(w) \/ Mail!ReplyLost(w) \/ Mail!BreakerOpen(w)
  /\ UNCHANGED pullVars

\* A result is published, of a failure too, and the handler returns nil.
Answer(w) == Mail!Publish(w) /\ HandlerOK(w)

\* Mutant: the error of Publish is dropped.
RefuseUnnoticed(w) ==
  \/ Mail!DecodeError(w) /\ HandlerErr(w)
  \/ Mail!PublishError(w) /\ HandlerOK(w)

\* Mutant: when Publish fails the handler begins again.
RefuseRetried(w) ==
  \/ Mail!DecodeError(w) /\ HandlerErr(w)
  \/ /\ "publish" \in Faults
     /\ step[w] = "publishing"
     /\ step' = [step EXCEPT ![w] = "decoding"]
     /\ verdict' = [verdict EXCEPT ![w] = "none"]
     /\ UNCHANGED <<task, mails, results, pullVars>>

\* The handler returns an error.
Refuse(w) ==
  /\ Mail!DecodeError(w) \/ Mail!PublishError(w)
  /\ HandlerErr(w)

\* What the worker does outside the handler.
Settle(w) ==
  /\ Ack(w) \/ Nak(w) \/ AckLost(w) \/ WorkerStopped(w)
  /\ UNCHANGED mailVars

\* Fetcher, JetStream and the end of the context.
Around ==
  /\ RunFetcher \/ Stop \/ \E m \in Messages : Publish(m) \/ AckWaitOver(m)
  /\ UNCHANGED mailVars

\* Mutant: the handlers of the old process go on.
RestartDetached == Restart /\ UNCHANGED mailVars

\* The process ends, and its handlers wherever they are.
RestartAll ==
  /\ Restart
  /\ step' = [w \in Workers |-> "idle"]
  /\ task' = [w \in Workers |-> NoMessage]
  /\ verdict' = [w \in Workers |-> "none"]
  /\ UNCHANGED <<mails, results>>

MailNext ==
  \/ \E w \in Workers :
       Receive(w) \/ Work(w) \/ Answer(w) \/ Refuse(w) \/ Settle(w)
  \/ Around \/ RestartAll

MailSpec == MailInit /\ [][MailNext]_vars

\* The fairness of PullConsumer: that a worker goes on means here that its
\* handler returns, whatever it returns.
SteadyMailSpec == MailSpec /\ Fairness /\ <>[][~Stop /\ ~Restart]_pullVars

-----------------------------------------------------------------------------
(* Properties.                                                               *)

Promise == INSTANCE MailOutcomes WITH
  Commands <- Messages,
  Unreadable <- {m \in Messages : Kind[m] = "undecodable"},
  Rejection <- [m \in {m \in Messages : Kind[m] \in Mail!Defect} |-> Mail!Reason[Kind[m]]],
  sent <- {m \in Messages : stream[m] # "absent"},
  settled <- {m \in Messages : stream[m] = "acked"}

\* Whatever fails, every step is one that MailOutcomes allows: stops, restarts
\* and several deliveries of a command at work at the same time cause no untrue
\* answer, no mail or answer for what cannot be decoded, and no acknowledgement
\* without an answer.
OutcomesSpec == Promise!Spec

\* JetStream drops a command only after a result was published for it: handler
\* and Ack are two steps, by workers that stop, fail and have late deliveries.
AckedIsAnswered ==
  \A m \in Messages : stream[m] = "acked" => results[m] # {}

\* A command causes one mail per delivery at most.  The handler fails after it
\* has sent the mail when Publish fails, AckWait ends, the process ends; only
\* MaxDeliver then limits how often the recipient gets it.
MailsWithinDeliveries ==
  \A m \in Messages : mails[m] <= deliveries[m]
=============================================================================
