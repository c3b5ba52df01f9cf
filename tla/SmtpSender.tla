------------------------------ MODULE SmtpSender ------------------------------
(***************************************************************************)
(* MailHandler with the SMTP sender in detail (pkg/mailer/smtp/smtp.go):   *)
(* what MailHandler takes for one step, sending, is a call through the     *)
(* circuit breaker that opens a connection and goes through the commands   *)
(* of the SMTP dialogue, any of which may fail.                            *)
(***************************************************************************)
EXTENDS MailHandler

CONSTANT Mode  \* Mode[w]: SMTPConfig.Mode of process w

ASSUME ModeAssumption == Mode \in [Workers -> {"tls", "starttls"}]

VARIABLES
  dialog,  \* dialog[w]: the call of the sender that w is in, see Dialog
  conn     \* conn[w]: the connection to the SMTP server

senderVars == <<mailVars, dialog, conn>>

\* The calls of newClient, and those of send once it has a client.
ClientStage == {"dial", "greeting", "starttls"}
CommandStage == {"auth", "mail", "rcpt", "data", "write", "close"}
Dialog == {"none", "breaker", "quit"} \cup ClientStage \cup CommandStage

\* A worker is in the sender exactly while MailHandler says it sends.
SenderTypeOK ==
  /\ dialog \in [Workers -> Dialog]
  /\ conn \in [Workers -> {"closed", "plain", "tls"}]
  /\ \A w \in Workers : step[w] = "sending" <=> dialog[w] # "none"

SenderInit ==
  /\ Init
  /\ dialog = [w \in Workers |-> "none"]
  /\ conn = [w \in Workers |-> "closed"]

-----------------------------------------------------------------------------
GoTo(w, stage) == dialog' = [dialog EXCEPT ![w] = stage]

\* Mutant: the connection is closed and the dialogue is not left.
HangUpInDialog(w) ==
  /\ UNCHANGED dialog
  /\ conn' = [conn EXCEPT ![w] = "closed"]

\* The deferred conn.Close and client.Close, or conn.Close in newClient.
HangUp(w) ==
  /\ GoTo(w, "none")
  /\ conn' = [conn EXCEPT ![w] = "closed"]

\* The call that follows a call that succeeded.
After(w) ==
  [dial |-> "greeting",
   greeting |-> IF Mode[w] = "starttls" THEN "starttls" ELSE "auth",
   starttls |-> "auth", auth |-> "mail", mail |-> "rcpt", rcpt |-> "data",
   data |-> "write", write |-> "close"]

\* What the call at this stage makes of the connection.
Connected(w, stage) ==
  IF stage = "starttls" \/ (stage = "dial" /\ Mode[w] = "tls") THEN "tls"
  ELSE IF stage = "dial" THEN "plain"
  ELSE conn[w]

\* The steps of handle that do not concern the sender.
Handle(w) ==
  /\ \/ \E e \in Events : Take(w, e)
     \/ DecodeError(w) \/ Reject(w) \/ Publish(w) \/ PublishError(w)
  /\ UNCHANGED <<dialog, conn>>

\* sender.Send is called.  It parses the recipient again, with the same
\* function as mailService.Send did, so this check cannot fail.
Call(w) ==
  /\ Render(w)
  /\ GoTo(w, "breaker")
  /\ UNCHANGED conn

LetThrough(w) ==
  /\ dialog[w] = "breaker"
  /\ GoTo(w, "dial")
  /\ UNCHANGED <<mailVars, conn>>

NotLetThrough(w) ==
  /\ dialog[w] = "breaker"
  /\ BreakerOpen(w)
  /\ HangUp(w)

\* Mutant: STARTTLS is left out and the dialogue goes on in the clear.
AdvanceInTheClear(w) ==
  /\ dialog[w] \in DOMAIN After(w)
  /\ GoTo(w, After(w)[dialog[w]])
  /\ conn' = [conn EXCEPT ![w] = IF dialog[w] = "starttls" THEN @ ELSE Connected(w, dialog[w])]
  /\ UNCHANGED mailVars

\* The call succeeds.
Advance(w) ==
  /\ dialog[w] \in DOMAIN After(w)
  /\ GoTo(w, After(w)[dialog[w]])
  /\ conn' = [conn EXCEPT ![w] = Connected(w, dialog[w])]
  /\ UNCHANGED mailVars

\* Mutant: newClient returns the error and leaves the connection open.
ClientFailsOpen(w) ==
  /\ dialog[w] \in ClientStage
  /\ SendRefused(w)
  /\ GoTo(w, "none")
  /\ UNCHANGED conn

\* newClient closes what it has opened and returns an error.
ClientFails(w) ==
  /\ dialog[w] \in ClientStage
  /\ SendRefused(w)
  /\ HangUp(w)

\* Mutant: the error of the sender is lost on its way through the breaker.
CommandFailsUnnoticed(w) ==
  /\ "smtp" \in Faults
  /\ dialog[w] \in CommandStage
  /\ UNCHANGED mails
  /\ Conclude(w, "success")
  /\ HangUp(w)

\* A command fails.  After a failed write the message has no end, so the
\* server does not take it.
CommandFails(w) ==
  /\ dialog[w] \in CommandStage
  /\ SendRefused(w)
  /\ HangUp(w)

\* writer.Close: the server has the whole message and says so, ...
Accepted(w) ==
  /\ dialog[w] = "close"
  /\ Accept(task[w])
  /\ GoTo(w, "quit")
  /\ UNCHANGED <<step, task, verdict, results, conn>>

\* ... or its answer does not arrive.
AnswerLost(w) ==
  /\ dialog[w] = "close"
  /\ ReplyLost(w)
  /\ HangUp(w)

\* Mutant: an error of Quit counts as an error of the mail.
QuitReported(w) ==
  /\ dialog[w] = "quit"
  /\ \E v \in {"success", "failed to send mail"} : Conclude(w, v)
  /\ UNCHANGED mails
  /\ HangUp(w)

\* Whatever Quit returns, the mail is sent.
Quit(w) ==
  /\ dialog[w] = "quit"
  /\ Conclude(w, "success")
  /\ UNCHANGED mails
  /\ HangUp(w)

\* The process ends and its connection with it.
SenderExit(w) == Exit(w) /\ HangUp(w)

SenderNext ==
  \E w \in Workers :
    \/ Handle(w) \/ Call(w) \/ LetThrough(w) \/ NotLetThrough(w)
    \/ Advance(w) \/ ClientFails(w) \/ CommandFails(w)
    \/ Accepted(w) \/ AnswerLost(w) \/ Quit(w) \/ SenderExit(w)

SenderSpec == SenderInit /\ [][SenderNext]_senderVars

-----------------------------------------------------------------------------
(* Properties.                                                               *)

\* However the sender returns, it leaves no connection behind: newClient closes
\* the one it made when it fails (once in mode tls, twice otherwise), send has
\* deferred calls that close it on every way out after that.
NoConnectionLeft ==
  \A w \in Workers : conn[w] # "closed" => step[w] = "sending"

\* Neither the password nor the message crosses a connection that is not
\* encrypted, in both modes.
SecretsEncrypted ==
  \A w \in Workers : dialog[w] \in CommandStage \cup {"quit"} => conn[w] = "tls"

\* The sender is the send step of MailHandler: once the server took the mail
\* its result is success, and before that no way out of the dialogue is.
Handling == INSTANCE MailHandler WITH
  step <- [w \in Workers |-> IF dialog[w] = "quit" THEN "publishing" ELSE step[w]],
  verdict <- [w \in Workers |-> IF dialog[w] = "quit" THEN "success" ELSE verdict[w]]

HandlerSpec == Handling!Spec
=============================================================================
