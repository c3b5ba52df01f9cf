--------------------------- MODULE SmtpSenderProofs ---------------------------
(***************************************************************************)
(* Proofs about SmtpSender for any number of workers and commands, in any  *)
(* mixture of modes.                                                       *)
(***************************************************************************)
EXTENDS SmtpSender, TLAPS

\* What the connection is at each stage of the dialogue.
ConnFits ==
  \A w \in Workers :
    /\ dialog[w] \in {"none", "breaker", "dial"} => conn[w] = "closed"
    /\ dialog[w] \in CommandStage \cup {"quit"} => conn[w] = "tls"
    /\ dialog[w] \in {"greeting", "starttls"} => conn[w] \in {"plain", "tls"}
    /\ dialog[w] = "greeting" /\ Mode[w] = "tls" => conn[w] = "tls"

SenderInv ==
  /\ SenderTypeOK
  /\ ConnFits
  /\ step \in [Workers -> Step]
  /\ verdict \in [Workers -> Verdict \cup {"none"}]

\* A worker that hangs up as it leaves the sending step is out of the sender.
LEMMA HangUpKeeps ==
  ASSUME SenderInv, NEW w \in Workers, HangUp(w),
         NEW s \in Step \ {"sending"}, step' = [step EXCEPT ![w] = s],
         NEW v \in Verdict \cup {"none"}, verdict' = [verdict EXCEPT ![w] = v]
  PROVE  SenderInv'
<1>1. SenderTypeOK'
  BY DEF SenderInv, SenderTypeOK, HangUp, GoTo, Dialog
<1>2. ConnFits'
  <2>1. ASSUME NEW u \in Workers, u # w
        PROVE  dialog'[u] = dialog[u] /\ conn'[u] = conn[u]
    BY <2>1 DEF HangUp, GoTo, SenderInv, SenderTypeOK
  <2>2. dialog'[w] = "none" /\ conn'[w] = "closed"
    BY DEF HangUp, GoTo, SenderInv, SenderTypeOK
  <2> QED
    BY <2>1, <2>2 DEF ConnFits, SenderInv, CommandStage
<1> QED
  BY <1>1, <1>2 DEF SenderInv

\* Every verdict the sender or the handler concludes is one.
LEMMA ConcludedIsVerdict ==
  /\ "success" \in Verdict
  /\ "failed to send mail" \in Verdict
  /\ "internal mail delivery error" \in Verdict
  /\ \A d \in Defect : Reason[d] \in Verdict
BY DEF Verdict, Failed

\* Every step of the sender and of the handler around it keeps the invariant.
LEMMA SenderStep ==
  ASSUME SenderInv, [SenderNext]_senderVars
  PROVE  SenderInv'
<1> USE DEF Step
<1>1. ASSUME NEW w \in Workers, Handle(w)
      PROVE  SenderInv'
  <2>1. ASSUME NEW e \in Events, Take(w, e)
        PROVE  SenderInv'
    BY <1>1, <2>1 DEF Handle, Take, SenderInv, SenderTypeOK, ConnFits
  <2>2. CASE Reject(w)
    BY <1>1, <2>2, ConcludedIsVerdict
       DEF Handle, Reject, Conclude, SenderInv, SenderTypeOK, ConnFits
  <2>3. CASE DecodeError(w) \/ Publish(w) \/ PublishError(w)
    BY <1>1, <2>3 DEF Handle, DecodeError, Publish, PublishError, Leave,
                      SenderInv, SenderTypeOK, ConnFits
  <2> QED
    BY <1>1, <2>1, <2>2, <2>3 DEF Handle
<1>2. ASSUME NEW w \in Workers, Call(w)
      PROVE  SenderInv'
  BY <1>2 DEF Call, Render, GoTo, SenderInv, SenderTypeOK, ConnFits, Dialog, CommandStage
<1>3. ASSUME NEW w \in Workers, LetThrough(w)
      PROVE  SenderInv'
  BY <1>3 DEF LetThrough, GoTo, SenderInv, SenderTypeOK, ConnFits, mailVars,
              Dialog, ClientStage, CommandStage
<1>4. ASSUME NEW w \in Workers, Advance(w)
      PROVE  SenderInv'
  <2> DEFINE next == After(w)[dialog[w]]
             made == Connected(w, dialog[w])
  <2>1. /\ dialog[w] \in {"dial", "greeting", "starttls", "auth", "mail", "rcpt", "data", "write"}
        /\ dialog' = [dialog EXCEPT ![w] = next]
        /\ conn' = [conn EXCEPT ![w] = made]
        /\ step' = step /\ verdict' = verdict
    BY <1>4 DEF Advance, After, GoTo, mailVars
  <2>2. /\ next \in (ClientStage \cup CommandStage) \ {"dial"}
        /\ made \in {"plain", "tls"}
        /\ next \in CommandStage => made = "tls"
        /\ next = "greeting" /\ Mode[w] = "tls" => made = "tls"
    <3>1. CASE dialog[w] \in CommandStage
      BY <2>1, <3>1 DEF After, Connected, ClientStage, CommandStage, SenderInv, ConnFits
    <3>2. CASE dialog[w] = "dial"
      BY <3>2 DEF After, Connected, ClientStage, CommandStage
    <3>3. CASE dialog[w] = "greeting"
      <4>1. made = conn[w] /\ next = IF Mode[w] = "starttls" THEN "starttls" ELSE "auth"
        BY <3>3 DEF After, Connected
      <4>2. conn[w] \in {"plain", "tls"}
        BY <2>1, <3>3 DEF Connected, SenderInv, SenderTypeOK, ConnFits
      <4> QED
        BY <3>3, <4>1, <4>2, ModeAssumption DEF ClientStage, CommandStage, SenderInv, ConnFits
    <3>4. CASE dialog[w] = "starttls"
      BY <3>4 DEF After, Connected, ClientStage, CommandStage
    <3> QED
      BY <2>1, <3>1, <3>2, <3>3, <3>4 DEF CommandStage
  <2> HIDE DEF next, made
  <2>3. SenderTypeOK'
    BY <2>1, <2>2 DEF SenderInv, SenderTypeOK, Dialog, ClientStage, CommandStage
  <2>4. ConnFits'
    BY <2>1, <2>2 DEF SenderInv, SenderTypeOK, ConnFits, ClientStage, CommandStage
  <2> QED
    BY <2>1, <2>3, <2>4 DEF SenderInv
<1>5. ASSUME NEW w \in Workers,
             NotLetThrough(w) \/ ClientFails(w) \/ CommandFails(w) \/ AnswerLost(w) \/ Quit(w)
      PROVE  SenderInv'
  BY <1>5, HangUpKeeps, ConcludedIsVerdict
     DEF NotLetThrough, BreakerOpen, ClientFails, CommandFails, SendRefused,
         AnswerLost, ReplyLost, Quit, Conclude
<1>6. ASSUME NEW w \in Workers, Accepted(w)
      PROVE  SenderInv'
  BY <1>6 DEF Accepted, GoTo, SenderInv, SenderTypeOK, ConnFits, Dialog, CommandStage
<1>7. ASSUME NEW w \in Workers, SenderExit(w)
      PROVE  SenderInv'
  BY <1>7, HangUpKeeps DEF SenderExit, Exit, Leave
<1>8. CASE UNCHANGED senderVars
  BY <1>8 DEF senderVars, mailVars, SenderInv, SenderTypeOK, ConnFits
<1> QED
  BY <1>1, <1>2, <1>3, <1>4, <1>5, <1>6, <1>7, <1>8 DEF SenderNext

LEMMA SenderInvariant == SenderSpec => []SenderInv
<1>1. SenderInit => SenderInv
  BY DEF SenderInit, Init, SenderInv, SenderTypeOK, ConnFits, Step, Dialog, CommandStage
<1> QED
  BY <1>1, SenderStep, PTL DEF SenderSpec

\* Every reachable state is well typed: a worker is in the sender exactly while
\* its command is being sent.
THEOREM SenderTypeCorrect == SenderSpec => []SenderTypeOK
<1>1. SenderInv => SenderTypeOK
  BY DEF SenderInv
<1> QED
  BY <1>1, SenderInvariant, PTL

\* No way out of the sender leaves a connection open.
THEOREM ConnectionsClosed == SenderSpec => []NoConnectionLeft
<1>1. SenderInv => NoConnectionLeft
  BY DEF SenderInv, SenderTypeOK, ConnFits, NoConnectionLeft
<1> QED
  BY <1>1, SenderInvariant, PTL

\* In both modes the connection is encrypted when the password and the message
\* are sent.
THEOREM AlwaysEncrypted == SenderSpec => []SecretsEncrypted
<1>1. SenderInv => SecretsEncrypted
  BY DEF SenderInv, ConnFits, SecretsEncrypted
<1> QED
  BY <1>1, SenderInvariant, PTL

-----------------------------------------------------------------------------
\* The sender implements the send step of MailHandler: it succeeds when the
\* server takes the message, and what follows that is a stutter.
THEOREM ImplementsHandler == SenderSpec => HandlerSpec
<1> DEFINE s == [w \in Workers |-> IF dialog[w] = "quit" THEN "publishing" ELSE step[w]]
           d == [w \in Workers |-> IF dialog[w] = "quit" THEN "success" ELSE verdict[w]]
<1>1. SenderInit => Handling!Init
  BY DEF SenderInit, Init, Handling!Init
<1>2. SenderInv /\ [SenderNext]_senderVars => [Handling!Next]_(Handling!mailVars)
  <2> SUFFICES ASSUME SenderInv, [SenderNext]_senderVars
               PROVE  Handling!Next \/ UNCHANGED <<s, task, d, mails, results>>
    BY DEF Handling!mailVars
  <2>1. ASSUME NEW w \in Workers, dialog[w] # "quit"
        PROVE  s[w] = step[w] /\ d[w] = verdict[w]
    BY <2>1
  <2>2. ASSUME NEW w \in Workers, NEW x, NEW y,
               step' = [step EXCEPT ![w] = x], verdict' = [verdict EXCEPT ![w] = y],
               \/ dialog' = dialog /\ dialog[w] # "quit"
               \/ \E stage \in Dialog \ {"quit"} : GoTo(w, stage)
        PROVE  s' = [s EXCEPT ![w] = x] /\ d' = [d EXCEPT ![w] = y]
    BY <2>2 DEF GoTo, SenderInv, SenderTypeOK
  <2>3. ASSUME NEW w \in Workers, NEW stage \in Dialog \ {"quit"}, GoTo(w, stage),
               dialog[w] # "quit", step' = step, verdict' = verdict
        PROVE  s' = s /\ d' = d
    BY <2>3 DEF GoTo, SenderInv, SenderTypeOK
  <2>4. ASSUME NEW w \in Workers, Handle(w)
        PROVE  Handling!Next
    <3>1. step[w] # "sending" /\ dialog[w] = "none"
      BY <2>4 DEF Handle, Take, DecodeError, Reject, Publish, PublishError,
                  SenderInv, SenderTypeOK
    <3>2. s[w] = step[w] /\ d[w] = verdict[w]
      BY <2>1, <3>1
    <3>3. ASSUME NEW e \in Events, Take(w, e)
          PROVE  Handling!Next
      <4>1. s' = [s EXCEPT ![w] = "decoding"] /\ d' = d
        BY <2>4, <3>1, <3>3 DEF Handle, Take, SenderInv
      <4> QED
        BY <3>2, <3>3, <4>1 DEF Take, Handling!Take, Handling!Next
    <3>4. CASE Reject(w)
      <4>1. /\ s' = [s EXCEPT ![w] = "publishing"]
            /\ d' = [d EXCEPT ![w] = Reason[Kind[task[w]]]]
        BY <2>2, <2>4, <3>1, <3>4 DEF Handle, Reject, Conclude
      <4> QED
        BY <3>2, <3>4, <4>1 DEF Reject, Conclude, Handling!Reject, Handling!Conclude,
                                Handling!Defect, Defect, Handling!Reason, Reason, Handling!Next
    <3>5. CASE DecodeError(w) \/ Publish(w) \/ PublishError(w)
      <4>1. s' = [s EXCEPT ![w] = "idle"] /\ d' = [d EXCEPT ![w] = "none"]
        BY <2>2, <2>4, <3>1, <3>5 DEF Handle, DecodeError, Publish, PublishError, Leave
      <4> QED
        BY <3>2, <3>5, <4>1 DEF DecodeError, Publish, PublishError, PublishResult, Leave,
             Handling!DecodeError, Handling!Publish, Handling!PublishError,
             Handling!PublishResult, Handling!Leave, Handling!Next
    <3> QED
      BY <2>4, <3>3, <3>4, <3>5 DEF Handle
  <2>5. ASSUME NEW w \in Workers, Call(w)
        PROVE  Handling!Next
    <3>1. step[w] = "decoding" /\ dialog[w] = "none"
      BY <2>5 DEF Call, Render, SenderInv, SenderTypeOK
    <3>2. s' = [s EXCEPT ![w] = "sending"] /\ d' = d
      BY <2>5, <3>1 DEF Call, Render, GoTo, SenderInv, SenderTypeOK
    <3> QED
      BY <2>1, <2>5, <3>1, <3>2 DEF Call, Render, Handling!Render, Handling!Next
  <2>6. ASSUME NEW w \in Workers, LetThrough(w) \/ Advance(w)
        PROVE  UNCHANGED <<s, task, d, mails, results>>
    <3>1. /\ dialog[w] # "quit"
          /\ \E stage \in Dialog \ {"quit"} : GoTo(w, stage)
      BY <2>6 DEF LetThrough, Advance, After, Dialog, ClientStage, CommandStage
    <3> QED
      BY <2>3, <2>6, <3>1 DEF LetThrough, Advance, mailVars
  <2>7. ASSUME NEW w \in Workers,
               NotLetThrough(w) \/ ClientFails(w) \/ CommandFails(w) \/ AnswerLost(w)
        PROVE  Handling!Next
    <3>1. /\ dialog[w] # "quit"
          /\ \E stage \in Dialog \ {"quit"} : GoTo(w, stage)
          /\ s[w] = step[w]
      BY <2>7 DEF NotLetThrough, ClientFails, CommandFails, AnswerLost, HangUp,
                  Dialog, ClientStage, CommandStage
    <3>2. CASE NotLetThrough(w)
      <4>1. /\ s' = [s EXCEPT ![w] = "publishing"]
            /\ d' = [d EXCEPT ![w] = "internal mail delivery error"]
        <5>1. /\ step' = [step EXCEPT ![w] = "publishing"]
              /\ verdict' = [verdict EXCEPT ![w] = "internal mail delivery error"]
          BY <3>2 DEF NotLetThrough, BreakerOpen, Conclude
        <5> QED
          BY <2>2, <3>1, <5>1
      <4> QED
        BY <3>1, <3>2, <4>1 DEF NotLetThrough, BreakerOpen, Conclude,
             Handling!BreakerOpen, Handling!Conclude, Handling!Next
    <3>3. CASE ClientFails(w) \/ CommandFails(w)
      <4>1. /\ s' = [s EXCEPT ![w] = "publishing"]
            /\ d' = [d EXCEPT ![w] = "failed to send mail"]
        <5>1. /\ step' = [step EXCEPT ![w] = "publishing"]
              /\ verdict' = [verdict EXCEPT ![w] = "failed to send mail"]
          BY <3>3 DEF ClientFails, CommandFails, SendRefused, Conclude
        <5> QED
          BY <2>2, <3>1, <5>1
      <4> QED
        BY <3>1, <3>3, <4>1 DEF ClientFails, CommandFails, SendRefused, Conclude,
             Handling!SendRefused, Handling!Conclude, Handling!Next
    <3>4. CASE AnswerLost(w)
      <4>1. /\ s' = [s EXCEPT ![w] = "publishing"]
            /\ d' = [d EXCEPT ![w] = "failed to send mail"]
        <5>1. /\ step' = [step EXCEPT ![w] = "publishing"]
              /\ verdict' = [verdict EXCEPT ![w] = "failed to send mail"]
          BY <3>4 DEF AnswerLost, ReplyLost, Conclude
        <5> QED
          BY <2>2, <3>1, <5>1
      <4>2. Handling!Accept(task[w])
        BY <3>4 DEF AnswerLost, ReplyLost, Accept, Handling!Accept
      <4>3. Handling!Conclude(w, "failed to send mail")
        BY <3>4, <4>1 DEF AnswerLost, ReplyLost, Conclude, Handling!Conclude
      <4>4. Handling!ReplyLost(w)
        BY <3>1, <3>4, <4>2, <4>3 DEF AnswerLost, ReplyLost, Handling!ReplyLost
      <4> QED
        BY <4>4 DEF Handling!Next
    <3> QED
      BY <2>7, <3>2, <3>3, <3>4
  <2>8. ASSUME NEW w \in Workers, Accepted(w)
        PROVE  Handling!Next
    <3>1. s[w] = "sending"
      BY <2>8 DEF Accepted, SenderInv, SenderTypeOK
    <3>2. s' = [s EXCEPT ![w] = "publishing"] /\ d' = [d EXCEPT ![w] = "success"]
      BY <2>8 DEF Accepted, GoTo, SenderInv, SenderTypeOK
    <3> QED
      BY <2>8, <3>1, <3>2 DEF Accepted, Accept, Handling!SendOK, Handling!Accept,
                              Handling!Conclude, Handling!Next
  <2>9. ASSUME NEW w \in Workers, Quit(w)
        PROVE  UNCHANGED <<s, task, d, mails, results>>
    BY <2>9 DEF Quit, Conclude, HangUp, GoTo, SenderInv, SenderTypeOK
  <2>10. ASSUME NEW w \in Workers, SenderExit(w)
         PROVE  Handling!Next
    <3>1. s[w] # "idle"
      BY <2>10 DEF SenderExit, Exit
    <3>2. s' = [s EXCEPT ![w] = "idle"] /\ d' = [d EXCEPT ![w] = "none"]
      BY <2>10 DEF SenderExit, Exit, Leave, HangUp, GoTo, SenderInv, SenderTypeOK
    <3> QED
      BY <2>10, <3>1, <3>2 DEF SenderExit, Exit, Leave, Handling!Exit, Handling!Leave,
                               Handling!Next
  <2>11. CASE UNCHANGED senderVars
    BY <2>11 DEF senderVars, mailVars
  <2> QED
    BY <2>4, <2>5, <2>6, <2>7, <2>8, <2>9, <2>10, <2>11 DEF SenderNext
<1> QED
  BY <1>1, <1>2, SenderInvariant, PTL DEF SenderSpec, HandlerSpec, Handling!Spec

-----------------------------------------------------------------------------
(* What MailHandler guarantees holds with the sender in it.                  *)
HandlerFacts == INSTANCE MailHandlerProofs WITH
  step <- [w \in Workers |-> IF dialog[w] = "quit" THEN "publishing" ELSE step[w]],
  verdict <- [w \in Workers |-> IF dialog[w] = "quit" THEN "success" ELSE verdict[w]]

\* The two copies of MailHandler say the same.
LEMMA HandlerTwice == HandlerSpec => HandlerFacts!Spec
<1>1. Handling!Init => HandlerFacts!Init
  BY DEF Handling!Init, HandlerFacts!Init
<1>2. [Handling!Next]_(Handling!mailVars) => [HandlerFacts!Next]_(HandlerFacts!mailVars)
  BY DEF Handling!Take, HandlerFacts!Take, Handling!Leave, HandlerFacts!Leave,
         Handling!DecodeError, HandlerFacts!DecodeError,
         Handling!Conclude, HandlerFacts!Conclude, Handling!Reject, HandlerFacts!Reject,
         Handling!Reason, HandlerFacts!Reason, Handling!Defect, HandlerFacts!Defect,
         Handling!Render, HandlerFacts!Render, Handling!Accept, HandlerFacts!Accept,
         Handling!SendOK, HandlerFacts!SendOK,
         Handling!SendRefused, HandlerFacts!SendRefused,
         Handling!ReplyLost, HandlerFacts!ReplyLost,
         Handling!BreakerOpen, HandlerFacts!BreakerOpen,
         Handling!PublishResult, HandlerFacts!PublishResult,
         Handling!Publish, HandlerFacts!Publish,
         Handling!PublishError, HandlerFacts!PublishError,
         Handling!Exit, HandlerFacts!Exit, Handling!Next, HandlerFacts!Next,
         Handling!mailVars, HandlerFacts!mailVars
<1> QED
  BY <1>1, <1>2, PTL DEF HandlerSpec, Handling!Spec, HandlerFacts!Spec

\* A success result is true of the mail the SMTP dialogue delivered.
THEOREM SenderSuccessIsTrue == SenderSpec => []SuccessMeansMailed
<1>1. HandlerFacts!KindAssumption
  BY KindAssumption DEF HandlerFacts!KindAssumption, HandlerFacts!Defect, Defect
<1>2. HandlerFacts!Spec => []HandlerFacts!SuccessMeansMailed
  BY <1>1, HandlerFacts!SuccessIsTrue
<1>3. HandlerFacts!SuccessMeansMailed => SuccessMeansMailed
  BY DEF HandlerFacts!SuccessMeansMailed, SuccessMeansMailed
<1> QED
  BY <1>2, <1>3, ImplementsHandler, HandlerTwice, PTL

\* A command with a defect never gets to the SMTP dialogue, and its results name
\* the defect.
THEOREM SenderReportsDefects == SenderSpec => []DefectIsReported
<1>1. HandlerFacts!KindAssumption
  BY KindAssumption DEF HandlerFacts!KindAssumption, HandlerFacts!Defect, Defect
<1>2. HandlerFacts!Spec => []HandlerFacts!DefectIsReported
  BY <1>1, HandlerFacts!DefectsReported
<1>3. HandlerFacts!DefectIsReported => DefectIsReported
  BY DEF HandlerFacts!DefectIsReported, DefectIsReported, HandlerFacts!Defect, Defect,
         HandlerFacts!Reason, Reason
<1> QED
  BY <1>2, <1>3, ImplementsHandler, HandlerTwice, PTL
=============================================================================
