----------------------------- MODULE MailHandler -----------------------------
(***************************************************************************)
(* What mail-service does with one command: mailCommandSubscriber.handle   *)
(* (internal/presentation/event_broker/kafka/mail_command_subscriber.go)   *)
(* decodes it, mailService.Send (internal/application/service.go)          *)
(* validates, renders and sends it, and handle publishes the result.       *)
(*                                                                         *)
(* The SMTP server and the result topic are outside the process, so        *)
(* sending and publishing are steps of their own, each of which may fail   *)
(* before or after the other side acted on it.  SmtpSender has the sending *)
(* in detail.                                                              *)
(***************************************************************************)
EXTENDS Naturals

CONSTANTS
  Workers,  \* the processes, one command at a time each
  Events,   \* identities of the commands
  Kind,     \* Kind[e]: what the command holds, see below
  NoEvent,  \* the command of a worker that has none
  Faults,   \* "smtp", "reply", "breaker", "publish", "exit"
  MaxMails  \* bound: mails counted per command

\* The defects of a command that Send reports ...
Defect ==
  {"blankType", "badRecipient", "noTemplate", "renderError", "emptySubject", "emptyBody"}

\* ... and the words of SendMailFailureReason for them.
Reason ==
  [d \in Defect |->
     CASE d = "blankType" -> "invalid message type"
       [] d = "badRecipient" -> "invalid recipient email"
       [] d = "noTemplate" -> "mail template not found"
       [] d = "renderError" -> "failed to render mail template"
       [] d = "emptySubject" -> "mail template subject is empty"
       [] d = "emptyBody" -> "mail template body is empty"]

ASSUME KindAssumption ==
  /\ NoEvent \notin Events
  /\ Kind \in [Events -> Defect \cup {"undecodable", "deliverable"}]
  /\ MaxMails \in Nat \ {0}

VARIABLES
  step,     \* step[w]: where w is in handle
  task,     \* task[w]: the command w handles
  verdict,  \* verdict[w]: the result w is about to publish
  mails,    \* mails[e]: mails the SMTP server accepted for e
  results   \* results[e]: the results published for e

mailVars == <<step, task, verdict, mails, results>>

Step == {"idle", "decoding", "sending", "publishing"}
Failed == {Reason[d] : d \in Defect}
            \cup {"failed to send mail", "internal mail delivery error"}
Verdict == Failed \cup {"success"}

\* A worker has a command exactly while it is in handle, and a verdict exactly
\* while it publishes.
TypeOK ==
  /\ step \in [Workers -> Step]
  /\ task \in [Workers -> Events \cup {NoEvent}]
  /\ verdict \in [Workers -> Verdict \cup {"none"}]
  /\ mails \in [Events -> 0..MaxMails]
  /\ results \in [Events -> SUBSET Verdict]
  /\ \A w \in Workers : step[w] = "idle" <=> task[w] = NoEvent
  /\ \A w \in Workers : step[w] = "publishing" <=> verdict[w] # "none"

Init ==
  /\ step = [w \in Workers |-> "idle"]
  /\ task = [w \in Workers |-> NoEvent]
  /\ verdict = [w \in Workers |-> "none"]
  /\ mails = [e \in Events |-> 0]
  /\ results = [e \in Events |-> {}]

-----------------------------------------------------------------------------
Take(w, e) ==
  /\ step[w] = "idle"
  /\ step' = [step EXCEPT ![w] = "decoding"]
  /\ task' = [task EXCEPT ![w] = e]
  /\ UNCHANGED <<verdict, mails, results>>

\* handle returns, or the process ends.
Leave(w) ==
  /\ step' = [step EXCEPT ![w] = "idle"]
  /\ task' = [task EXCEPT ![w] = NoEvent]
  /\ verdict' = [verdict EXCEPT ![w] = "none"]

\* json.Unmarshal fails: handle returns the error and publishes nothing.
DecodeError(w) ==
  /\ step[w] = "decoding"
  /\ Kind[task[w]] = "undecodable"
  /\ Leave(w)
  /\ UNCHANGED <<mails, results>>

Conclude(w, v) ==
  /\ step' = [step EXCEPT ![w] = "publishing"]
  /\ verdict' = [verdict EXCEPT ![w] = v]
  /\ UNCHANGED <<task, results>>

\* Send finds the defect before it turns to the SMTP server.
Reject(w) ==
  /\ step[w] = "decoding"
  /\ Kind[task[w]] \in Defect
  /\ Conclude(w, Reason[Kind[task[w]]])
  /\ UNCHANGED mails

\* Mutant: the recipient is not validated.
RenderUnchecked(w) ==
  /\ step[w] = "decoding"
  /\ Kind[task[w]] \in {"deliverable", "badRecipient"}
  /\ step' = [step EXCEPT ![w] = "sending"]
  /\ UNCHANGED <<task, verdict, mails, results>>

\* The mail is rendered and handed to the SMTP sender.
Render(w) ==
  /\ step[w] = "decoding"
  /\ Kind[task[w]] = "deliverable"
  /\ step' = [step EXCEPT ![w] = "sending"]
  /\ UNCHANGED <<task, verdict, mails, results>>

Accept(e) ==
  mails' = [mails EXCEPT ![e] = IF @ < MaxMails THEN @ + 1 ELSE @]

SendOK(w) ==
  /\ step[w] = "sending"
  /\ Accept(task[w])
  /\ Conclude(w, "success")

\* An SMTP command fails before the server took the message.
SendRefused(w) ==
  /\ "smtp" \in Faults
  /\ step[w] = "sending"
  /\ UNCHANGED mails
  /\ Conclude(w, "failed to send mail")

\* The server took the message but writer.Close reports an error.
ReplyLost(w) ==
  /\ "reply" \in Faults
  /\ step[w] = "sending"
  /\ Accept(task[w])
  /\ Conclude(w, "failed to send mail")

\* The breaker does not let the call through; its error is none of the
\* domain's.
BreakerOpen(w) ==
  /\ "breaker" \in Faults
  /\ step[w] = "sending"
  /\ UNCHANGED mails
  /\ Conclude(w, "internal mail delivery error")

PublishResult(w) == results' = [results EXCEPT ![task[w]] = @ \cup {verdict[w]}]

\* handle returns nil, for a failure result too.
Publish(w) ==
  /\ step[w] = "publishing"
  /\ PublishResult(w)
  /\ Leave(w)
  /\ UNCHANGED mails

\* WriteMessages returns an error, before or after the result was written;
\* handle returns it.
PublishError(w) ==
  /\ "publish" \in Faults
  /\ step[w] = "publishing"
  /\ PublishResult(w) \/ UNCHANGED results
  /\ Leave(w)
  /\ UNCHANGED mails

Exit(w) ==
  /\ "exit" \in Faults
  /\ step[w] # "idle"
  /\ Leave(w)
  /\ UNCHANGED <<mails, results>>

Next ==
  \/ \E w \in Workers, e \in Events : Take(w, e)
  \/ \E w \in Workers : DecodeError(w) \/ Reject(w) \/ Render(w)
  \/ \E w \in Workers : SendOK(w) \/ SendRefused(w) \/ ReplyLost(w) \/ BreakerOpen(w)
  \/ \E w \in Workers : Publish(w) \/ PublishError(w) \/ Exit(w)

Spec == Init /\ [][Next]_mailVars

-----------------------------------------------------------------------------
(* Properties.                                                               *)

\* A success result is published only for a command whose mail an SMTP server
\* accepted, by whichever delivery of the command and worker.
SuccessMeansMailed ==
  \A e \in Events : "success" \in results[e] => mails[e] > 0

\* A command with a defect causes no mail, and its result names the defect,
\* however often and by however many workers it is handled.
DefectIsReported ==
  \A e \in Events : Kind[e] \in Defect =>
    mails[e] = 0 /\ results[e] \subseteq {Reason[Kind[e]]}
=============================================================================
