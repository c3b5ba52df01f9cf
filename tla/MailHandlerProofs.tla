-------------------------- MODULE MailHandlerProofs --------------------------
(***************************************************************************)
(* Proofs about MailHandler for any number of workers and commands.        *)
(***************************************************************************)
EXTENDS MailHandler, TLAPS

\* What the verdict of a worker at work says about the mails of its command.
\* A success is concluded before it is published, possibly with other workers
\* at the same command in between.
VerdictHolds ==
  \A w \in Workers : task[w] # NoEvent =>
    /\ verdict[w] = "success" => mails[task[w]] > 0
    /\ Kind[task[w]] \in Defect =>
         step[w] # "sending" /\ verdict[w] \in {"none", Reason[Kind[task[w]]]}

MailInv == TypeOK /\ VerdictHolds /\ SuccessMeansMailed /\ DefectIsReported

\* The reasons are failures, none of them the word that reports success.
LEMMA ReasonFails ==
  /\ \A d \in Defect : Reason[d] \in Failed
  /\ "success" \notin Failed /\ "none" \notin Failed
  /\ "undecodable" \notin Defect /\ "deliverable" \notin Defect
<1>1. "undecodable" \notin Defect /\ "deliverable" \notin Defect
  BY DEF Defect
<1>2. \A d \in Defect : Reason[d] # "success" /\ Reason[d] # "none"
  BY DEF Defect, Reason
<1>3. \A d \in Defect : Reason[d] \in Failed
  BY DEF Failed
<1>4. "success" \notin Failed /\ "none" \notin Failed
  BY <1>2 DEF Failed
<1> QED
  BY <1>1, <1>3, <1>4

\* A worker that leaves takes its verdict with it and harms no other's.
LEMMA LeaveKeeps ==
  ASSUME MailInv, NEW w \in Workers, Leave(w), mails' = mails
  PROVE  /\ VerdictHolds'
         /\ step' \in [Workers -> Step]
         /\ task' \in [Workers -> Events \cup {NoEvent}]
         /\ verdict' \in [Workers -> Verdict \cup {"none"}]
         /\ \A v \in Workers : step'[v] = "idle" <=> task'[v] = NoEvent
         /\ \A v \in Workers : step'[v] = "publishing" <=> verdict'[v] # "none"
BY KindAssumption DEF MailInv, TypeOK, VerdictHolds, Leave, Step

\* A verdict is published that is true of the command.
LEMMA PublishKeeps ==
  ASSUME MailInv, NEW w \in Workers, step[w] = "publishing",
         PublishResult(w) \/ UNCHANGED results, mails' = mails
  PROVE  /\ results' \in [Events -> SUBSET Verdict]
         /\ SuccessMeansMailed' /\ DefectIsReported'
<1>1. PICK e \in Events : task[w] = e
  BY DEF MailInv, TypeOK
<1>2. verdict[w] \in Verdict /\ verdict[w] # "none"
  BY DEF MailInv, TypeOK
<1>3. CASE UNCHANGED results
  BY <1>3 DEF MailInv, TypeOK, SuccessMeansMailed, DefectIsReported
<1>4. CASE PublishResult(w)
  <2>1. results' = [results EXCEPT ![e] = @ \cup {verdict[w]}]
    BY <1>1, <1>4 DEF PublishResult
  <2>2. /\ verdict[w] = "success" => mails[e] > 0
        /\ Kind[e] \in Defect => verdict[w] = Reason[Kind[e]]
    BY <1>1, <1>2, KindAssumption DEF MailInv, VerdictHolds
  <2>3. results' \in [Events -> SUBSET Verdict]
    BY <1>2, <2>1 DEF MailInv, TypeOK
  <2>4. SuccessMeansMailed'
    BY <2>1, <2>2 DEF MailInv, TypeOK, SuccessMeansMailed
  <2>5. DefectIsReported'
    BY <2>1, <2>2 DEF MailInv, TypeOK, DefectIsReported
  <2> QED
    BY <2>3, <2>4, <2>5
<1> QED
  BY <1>3, <1>4

\* A verdict is reached on a command that has one coming: more mails never
\* make an earlier verdict or result wrong.
LEMMA ConcludeKeeps ==
  ASSUME MailInv, NEW w \in Workers, NEW v \in Verdict, Conclude(w, v),
         step[w] \in {"decoding", "sending"},
         mails' = mails \/ (Accept(task[w]) /\ step[w] = "sending"),
         v = "success" => mails'[task[w]] > 0,
         Kind[task[w]] \in Defect => v = Reason[Kind[task[w]]]
  PROVE  MailInv'
<1> USE KindAssumption, ReasonFails
<1>1. PICK e \in Events : task[w] = e
  BY DEF MailInv, TypeOK
<1>2. /\ mails' \in [Events -> 0..MaxMails]
      /\ \A f \in Events : mails[f] > 0 => mails'[f] > 0
      /\ \A f \in Events : Kind[f] \in Defect => mails'[f] = mails[f]
  <2>1. CASE mails' = mails
    BY <2>1 DEF MailInv, TypeOK
  <2>2. CASE Accept(task[w]) /\ step[w] = "sending"
    <3>1. Kind[e] \notin Defect
      BY <1>1, <2>2 DEF MailInv, VerdictHolds
    <3>2. mails' = [mails EXCEPT ![e] = IF mails[e] < MaxMails THEN mails[e] + 1 ELSE mails[e]]
      BY <1>1, <2>2 DEF Accept
    <3> QED
      BY <3>1, <3>2 DEF MailInv, TypeOK
  <2> QED
    BY <2>1, <2>2
<1>3. TypeOK'
  <2>1. v # "none"
    BY DEF Verdict
  <2> QED
    BY <1>2, <2>1 DEF MailInv, TypeOK, Conclude, Step
<1>4. VerdictHolds'
  <2>1. ASSUME NEW u \in Workers, u # w
        PROVE  step'[u] = step[u] /\ verdict'[u] = verdict[u] /\ task'[u] = task[u]
    BY <2>1 DEF MailInv, TypeOK, Conclude
  <2>2. step'[w] = "publishing" /\ verdict'[w] = v /\ task'[w] = task[w]
    BY DEF MailInv, TypeOK, Conclude
  <2> QED
    BY <1>2, <2>1, <2>2 DEF MailInv, TypeOK, VerdictHolds
<1>5. SuccessMeansMailed' /\ DefectIsReported'
  BY <1>2 DEF MailInv, SuccessMeansMailed, DefectIsReported, Conclude
<1> QED
  BY <1>3, <1>4, <1>5 DEF MailInv

\* Every step of handle, of a failure and of an exit keeps the invariant.
LEMMA MailStep ==
  ASSUME MailInv, [Next]_mailVars
  PROVE  MailInv'
<1> USE KindAssumption, ReasonFails
<1>1. ASSUME NEW w \in Workers, NEW e \in Events, Take(w, e)
      PROVE  MailInv'
  <2>1. TypeOK'
    BY <1>1 DEF Take, MailInv, TypeOK, Step
  <2>2. VerdictHolds'
    BY <1>1 DEF Take, MailInv, TypeOK, VerdictHolds
  <2>3. SuccessMeansMailed' /\ DefectIsReported'
    BY <1>1 DEF Take, MailInv, SuccessMeansMailed, DefectIsReported
  <2> QED
    BY <2>1, <2>2, <2>3 DEF MailInv
<1>2. ASSUME NEW w \in Workers, DecodeError(w) \/ Exit(w)
      PROVE  MailInv'
  <2>1. SuccessMeansMailed' /\ DefectIsReported'
    BY <1>2 DEF DecodeError, Exit, MailInv, SuccessMeansMailed, DefectIsReported
  <2>2. mails' \in [Events -> 0..MaxMails] /\ results' \in [Events -> SUBSET Verdict]
    BY <1>2 DEF DecodeError, Exit, MailInv, TypeOK
  <2> QED
    BY <1>2, <2>1, <2>2, LeaveKeeps DEF DecodeError, Exit, MailInv, TypeOK
<1>3. ASSUME NEW w \in Workers, Reject(w)
      PROVE  MailInv'
  <2>1. Reason[Kind[task[w]]] \in Verdict /\ Reason[Kind[task[w]]] # "success"
    BY <1>3 DEF Reject, Verdict
  <2> QED
    BY <1>3, <2>1, ConcludeKeeps DEF Reject
<1>4. ASSUME NEW w \in Workers, Render(w)
      PROVE  MailInv'
  <2>1. TypeOK'
    BY <1>4 DEF Render, MailInv, TypeOK, Step
  <2>2. VerdictHolds'
    BY <1>4 DEF Render, MailInv, TypeOK, VerdictHolds
  <2>3. SuccessMeansMailed' /\ DefectIsReported'
    BY <1>4 DEF Render, MailInv, SuccessMeansMailed, DefectIsReported
  <2> QED
    BY <2>1, <2>2, <2>3 DEF MailInv
<1>5. ASSUME NEW w \in Workers, step[w] = "sending"
      PROVE  /\ task[w] \in Events /\ Kind[task[w]] \notin Defect
             /\ Accept(task[w]) => mails'[task[w]] > 0
  <2>1. task[w] \in Events /\ Kind[task[w]] \notin Defect
    BY <1>5 DEF MailInv, TypeOK, VerdictHolds
  <2> QED
    BY <2>1 DEF Accept, MailInv, TypeOK
<1>6. ASSUME NEW w \in Workers, SendOK(w)
      PROVE  MailInv'
  <2>1. "success" \in Verdict
    BY DEF Verdict
  <2> QED
    BY <1>5, <1>6, <2>1, ConcludeKeeps DEF SendOK
<1>7. ASSUME NEW w \in Workers, SendRefused(w) \/ ReplyLost(w) \/ BreakerOpen(w)
      PROVE  MailInv'
  <2>1. \A v \in {"failed to send mail", "internal mail delivery error"} :
          v \in Verdict /\ v # "success"
    BY DEF Verdict, Failed
  <2> QED
    BY <1>5, <1>7, <2>1, ConcludeKeeps DEF SendRefused, ReplyLost, BreakerOpen
<1>8. ASSUME NEW w \in Workers, Publish(w) \/ PublishError(w)
      PROVE  MailInv'
  <2>1. mails' \in [Events -> 0..MaxMails]
    BY <1>8 DEF Publish, PublishError, MailInv, TypeOK
  <2> QED
    BY <1>8, <2>1, LeaveKeeps, PublishKeeps DEF Publish, PublishError, MailInv, TypeOK
<1>9. CASE UNCHANGED mailVars
  BY <1>9 DEF mailVars, MailInv, TypeOK, VerdictHolds, SuccessMeansMailed, DefectIsReported
<1> QED
  BY <1>1, <1>2, <1>3, <1>4, <1>6, <1>7, <1>8, <1>9 DEF Next

\* The invariant holds in every reachable state.
THEOREM MailInvariant == Spec => []MailInv
<1>1. Init => MailInv
  BY KindAssumption
     DEF Init, MailInv, TypeOK, Step, VerdictHolds, SuccessMeansMailed, DefectIsReported
<1> QED
  BY <1>1, MailStep, PTL DEF Spec

\* Every reachable state is well typed: a worker has a verdict exactly while
\* it publishes it.
THEOREM TypeCorrect == Spec => []TypeOK
<1>1. MailInv => TypeOK
  BY DEF MailInv
<1> QED
  BY <1>1, MailInvariant, PTL

\* A success is reported only of a command whose mail was accepted.
THEOREM SuccessIsTrue == Spec => []SuccessMeansMailed
<1>1. MailInv => SuccessMeansMailed
  BY DEF MailInv
<1> QED
  BY <1>1, MailInvariant, PTL

\* A command with a defect is never mailed, and only its defect is reported.
THEOREM DefectsReported == Spec => []DefectIsReported
<1>1. MailInv => DefectIsReported
  BY DEF MailInv
<1> QED
  BY <1>1, MailInvariant, PTL

-----------------------------------------------------------------------------
\* What may be answered for e: its defect, or what became of a mail.
Answers(e) ==
  IF Kind[e] \in Defect THEN {Reason[Kind[e]]}
  ELSE {"failed to send mail", "internal mail delivery error"}
         \cup (IF mails[e] > 0 THEN {"success"} ELSE {})

\* A verdict is one of the answers to the command at hand, also when other
\* workers have gone on with the same command since it was reached; what cannot
\* be decoded gets none.
HonestInv ==
  \A w \in Workers :
    /\ step[w] = "sending" => Kind[task[w]] = "deliverable"
    /\ step[w] = "publishing" =>
         Kind[task[w]] # "undecodable" /\ verdict[w] \in Answers(task[w])

\* More mails take no answer away.
LEMMA AnswersGrow ==
  ASSUME NEW e \in Events, mails[e] > 0 => mails'[e] > 0, NEW v \in Answers(e)
  PROVE  v \in Answers(e)'
BY DEF Answers

\* A step in which only w moves, takes back no mail, and has a true verdict
\* afterwards if it has one.
LEMMA HonestOne ==
  ASSUME TypeOK, HonestInv, NEW w \in Workers,
         \A u \in Workers \ {w} :
           step'[u] = step[u] /\ task'[u] = task[u] /\ verdict'[u] = verdict[u],
         \A f \in Events : mails[f] > 0 => mails'[f] > 0,
         step'[w] = "sending" => Kind[task'[w]] = "deliverable",
         step'[w] = "publishing" =>
           Kind[task'[w]] # "undecodable" /\ verdict'[w] \in Answers(task[w])' /\ task'[w] = task[w]
  PROVE  HonestInv'
<1>1. ASSUME NEW u \in Workers, u # w, step[u] = "publishing"
      PROVE  verdict'[u] \in Answers(task[u])'
  <2>1. PICK e \in Events : e = task[u]
    BY <1>1 DEF TypeOK
  <2>2. verdict[u] \in Answers(e) /\ verdict'[u] = verdict[u] /\ task'[u] = e
    BY <1>1, <2>1 DEF HonestInv
  <2>3. verdict[u] \in Answers(e)'
    BY <2>2, AnswersGrow
  <2> QED
    BY <2>1, <2>2, <2>3 DEF Answers
<1>2. ASSUME NEW u \in Workers, u # w
      PROVE  /\ step'[u] = "sending" => Kind[task'[u]] = "deliverable"
             /\ step'[u] = "publishing" => Kind[task'[u]] # "undecodable"
  BY <1>2 DEF HonestInv
<1>3. ASSUME NEW u \in Workers, step'[u] = "publishing"
      PROVE  Kind[task'[u]] # "undecodable" /\ verdict'[u] \in Answers(task[u])'
  <2>1. CASE u = w
    BY <1>3, <2>1
  <2>2. CASE u # w
    BY <1>1, <1>2, <1>3, <2>2
  <2> QED
    BY <2>1, <2>2
<1>4. ASSUME NEW u \in Workers, step'[u] = "sending"
      PROVE  Kind[task'[u]] = "deliverable"
  <2>1. CASE u = w
    BY <1>4, <2>1
  <2>2. CASE u # w
    BY <1>2, <1>4, <2>2
  <2> QED
    BY <2>1, <2>2
<1> QED
  BY <1>3, <1>4 DEF HonestInv

\* Every step keeps it.
LEMMA HonestStep ==
  ASSUME MailInv, HonestInv, [Next]_mailVars
  PROVE  HonestInv'
<1> USE KindAssumption, ReasonFails
<1>0. TypeOK
  BY DEF MailInv
<1>1. ASSUME NEW w \in Workers, NEW e \in Events, Take(w, e)
      PROVE  HonestInv'
  BY <1>0, <1>1, HonestOne DEF Take, TypeOK
<1>2. ASSUME NEW w \in Workers, DecodeError(w) \/ Exit(w) \/ Publish(w) \/ PublishError(w)
      PROVE  HonestInv'
  BY <1>0, <1>2, HonestOne DEF DecodeError, Exit, Publish, PublishError, Leave, TypeOK
<1>3. ASSUME NEW w \in Workers, Reject(w)
      PROVE  HonestInv'
  <2>1. /\ step' = [step EXCEPT ![w] = "publishing"] /\ task' = task /\ mails' = mails
        /\ verdict' = [verdict EXCEPT ![w] = Reason[Kind[task[w]]]]
        /\ Kind[task[w]] \in Defect
    BY <1>3 DEF Reject, Conclude
  <2>2. verdict'[w] = Reason[Kind[task[w]]] /\ task'[w] = task[w]
    BY <1>0, <2>1 DEF TypeOK
  <2>3. verdict'[w] \in Answers(task[w])'
    BY <2>1, <2>2 DEF Answers
  <2> QED
    BY <1>0, <2>1, <2>3, HonestOne DEF TypeOK
<1>4. ASSUME NEW w \in Workers, Render(w)
      PROVE  HonestInv'
  BY <1>0, <1>4, HonestOne DEF Render, TypeOK
<1>5. ASSUME NEW w \in Workers, NEW v \in Verdict, Conclude(w, v), step[w] = "sending",
             \/ /\ mails' = mails
                /\ v \in {"failed to send mail", "internal mail delivery error"}
             \/ Accept(task[w]) /\ v \in {"success", "failed to send mail"}
      PROVE  HonestInv'
  <2>1. PICK e \in Events : e = task[w]
    BY <1>0, <1>5 DEF TypeOK
  <2>2. Kind[e] = "deliverable" /\ Kind[e] \notin Defect
    BY <1>5, <2>1 DEF HonestInv
  <2>3. /\ \A f \in Events : mails[f] > 0 => mails'[f] > 0
        /\ Accept(e) => mails'[e] > 0
    <3>1. CASE Accept(e)
      <4>1. mails' = [mails EXCEPT ![e] = IF mails[e] < MaxMails THEN mails[e] + 1 ELSE mails[e]]
        BY <3>1 DEF Accept
      <4>2. mails[e] \in 0..MaxMails /\ MaxMails \in Nat \ {0} /\ e \in DOMAIN mails
        BY <1>0 DEF TypeOK
      <4>3. mails'[e] > 0
        BY <4>1, <4>2
      <4>4. \A f \in Events \ {e} : mails'[f] = mails[f]
        BY <1>0, <4>1 DEF TypeOK
      <4> QED
        BY <4>3, <4>4
    <3>2. CASE ~ Accept(e)
      BY <1>5, <2>1, <3>2
    <3> QED
      BY <3>1, <3>2
  <2>4. task' = task /\ task'[w] = e /\ verdict'[w] = v
    BY <1>0, <1>5, <2>1 DEF Conclude, TypeOK
  <2>5. v \in Answers(e)'
    BY <1>5, <2>1, <2>2, <2>3 DEF Answers
  <2>6. verdict'[w] \in Answers(task[w])'
    BY <2>1, <2>4, <2>5 DEF Answers
  <2>7. \A u \in Workers \ {w} : step'[u] = step[u] /\ verdict'[u] = verdict[u]
    BY <1>0, <1>5 DEF Conclude, TypeOK
  <2>8. step'[w] = "publishing"
    BY <1>0, <1>5 DEF Conclude, TypeOK
  <2> QED
    BY <1>0, <2>1, <2>2, <2>3, <2>4, <2>6, <2>7, <2>8, HonestOne
<1>6. ASSUME NEW w \in Workers,
             SendOK(w) \/ SendRefused(w) \/ ReplyLost(w) \/ BreakerOpen(w)
      PROVE  HonestInv'
  <2>1. {"success", "failed to send mail", "internal mail delivery error"} \subseteq Verdict
    BY DEF Verdict, Failed
  <2> QED
    BY <1>5, <1>6, <2>1 DEF SendOK, SendRefused, ReplyLost, BreakerOpen
<1>7. CASE UNCHANGED mailVars
  BY <1>7 DEF mailVars, HonestInv, Answers
<1> QED
  BY <1>1, <1>2, <1>3, <1>4, <1>6, <1>7 DEF Next

\* Every verdict is true when it is published.
THEOREM VerdictsHonest == Spec => []HonestInv
<1>1. Init => HonestInv
  BY DEF Init, HonestInv
<1> QED
  BY <1>1, HonestStep, MailInvariant, PTL DEF Spec
=============================================================================
