-------------------------- MODULE MailPipelineProofs --------------------------
(***************************************************************************)
(* The pipeline implements each of its components, so that what is proved  *)
(* of a component for every environment holds in the pipeline.             *)
(***************************************************************************)
EXTENDS MailPipeline, TLAPS

KafkaFacts == INSTANCE KafkaConsumerProofs WITH
  Consumers <- Processes, Outcomes <- {"ok", "transient"}

\* Every step of the pipeline is a step of the Kafka loop or leaves it alone.
LEMMA LoopStep ==
  ASSUME [Next]_vars
  PROVE  [Kafka!Next]_(Kafka!consumerVars)
<1> SUFFICES ASSUME [Next]_vars, ~ UNCHANGED consumerVars
             PROVE  Kafka!Next
  BY DEF consumerVars, Kafka!consumerVars
<1>1. ASSUME Transport
      PROVE  Kafka!Next
  BY <1>1 DEF Transport, Kafka!Next
<1>2. ASSUME NEW c \in Processes, NEW outcome \in {"ok", "transient"},
             Kafka!HandlerReturns(c, outcome)
      PROVE  Kafka!Next
  BY <1>2 DEF Kafka!Next, Kafka!Handler
<1>3. ASSUME NEW c \in Processes, Exit(c)
      PROVE  Kafka!Next
  BY <1>3 DEF Exit, Kafka!Next
<1>4. ASSUME NEW c \in Processes,
             \/ Refused(c) \/ ClaimError(c) \/ Complete(c) \/ Release(c) \/ RedisFails(c)
      PROVE  Kafka!Next
  BY <1>2, <1>4 DEF Refused, ClaimError, Complete, Release, RedisFails
<1>5. ASSUME NEW c \in Processes,
             \/ Claim(c) \/ Work(c) \/ SendFails(c)
             \/ HandleOK(c) \/ HandleError(c) \/ PublishFails(c)
      PROVE  FALSE
  BY <1>5 DEF Claim, Work, SendFails, HandleOK, HandleError, PublishFails, consumerVars
<1>6. ASSUME NEW e \in Events, Expire(e)
      PROVE  FALSE
  BY <1>6 DEF Expire, consumerVars
<1>7. CASE UNCHANGED vars
  BY <1>7 DEF vars
<1> QED
  BY <1>1, <1>3, <1>4, <1>5, <1>6, <1>7 DEF Next

\* The pipeline's loop is the one of KafkaConsumer.
THEOREM ImplementsKafka == Spec => Kafka!Spec
<1>1. Init => Kafka!Init
  BY DEF Init
<1>2. [Next]_vars => [Kafka!Next]_(Kafka!consumerVars)
  BY LoopStep
<1> QED
  BY <1>1, <1>2, PTL DEF Spec, Kafka!Spec

-----------------------------------------------------------------------------
\* KafkaFacts holds the definitions of KafkaConsumer once more; the two copies
\* say the same, and what is proved of the one holds of the pipeline.
LEMMA KafkaTwice == Kafka!Spec => KafkaFacts!Spec
<1>1. Kafka!Init => KafkaFacts!Init
  BY DEF Kafka!Init, KafkaFacts!Init, Kafka!Record, KafkaFacts!Record
<1>2. [Kafka!Next]_(Kafka!consumerVars) => [KafkaFacts!Next]_(KafkaFacts!consumerVars)
  BY DEF Kafka!Produce, KafkaFacts!Produce, Kafka!Forward, KafkaFacts!Forward,
           Kafka!AssignTo, KafkaFacts!AssignTo, Kafka!Assign, KafkaFacts!Assign,
           Kafka!Rebalance, KafkaFacts!Rebalance, Kafka!Write, KafkaFacts!Write,
           Kafka!Subscribe, KafkaFacts!Subscribe, Kafka!Start, KafkaFacts!Start,
           Kafka!Resubscribe, KafkaFacts!Resubscribe, Kafka!Leave, KafkaFacts!Leave,
           Kafka!Continue, KafkaFacts!Continue, Kafka!Fetch, KafkaFacts!Fetch,
           Kafka!FetchError, KafkaFacts!FetchError,
           Kafka!HandlerReturns, KafkaFacts!HandlerReturns,
           Kafka!SetOffset, KafkaFacts!SetOffset, Kafka!Commit, KafkaFacts!Commit,
           Kafka!CommitError, KafkaFacts!CommitError,
           Kafka!RetryCopy, KafkaFacts!RetryCopy, Kafka!Enqueue, KafkaFacts!Enqueue,
           Kafka!Requeue, KafkaFacts!Requeue,
           Kafka!RequeueError, KafkaFacts!RequeueError, Kafka!Bury, KafkaFacts!Bury,
           Kafka!BuryError, KafkaFacts!BuryError, Kafka!Exit, KafkaFacts!Exit,
           Kafka!Environment, KafkaFacts!Environment, Kafka!Loop, KafkaFacts!Loop,
           Kafka!Failure, KafkaFacts!Failure, Kafka!Handler, KafkaFacts!Handler,
           Kafka!Next, KafkaFacts!Next, Kafka!consumerVars, KafkaFacts!consumerVars,
           Kafka!Member, KafkaFacts!Member, Kafka!At, KafkaFacts!At,
           Kafka!RetryAttempt, KafkaFacts!RetryAttempt,
           Kafka!Record, KafkaFacts!Record
<1> QED
  BY <1>1, <1>2, PTL DEF Kafka!Spec, KafkaFacts!Spec

\* The assumptions of KafkaConsumer hold in the pipeline.
LEMMA KafkaAssumptions == KafkaFacts!ConsumerAssumption /\ KafkaFacts!NoRecordAssumption
BY PipelineAssumption
   DEF KafkaFacts!ConsumerAssumption, KafkaFacts!NoRecordAssumption,
       Kafka!Place, KafkaFacts!Place

\* No process of the pipeline commits past a record that its handler did not
\* accept and the retry topic did not get.
THEOREM PipelineSkipsNothing == Spec => []Kafka!CommittedAccounted
<1>1. KafkaFacts!Spec => []KafkaFacts!CommittedAccounted
  BY KafkaAssumptions, KafkaFacts!NothingSkipped
<1>2. KafkaFacts!CommittedAccounted => Kafka!CommittedAccounted
  BY DEF KafkaFacts!CommittedAccounted, Kafka!CommittedAccounted
<1> QED
  BY <1>1, <1>2, ImplementsKafka, KafkaTwice, PTL

\* While the loop of a process waits for the handler there is an event.
HasEvent == \A c \in Processes : mode[c] = "handling" => Current(c) \in Events

\* HasEvent holds in every state, by what is proved of the loop.
LEMMA PipelineHasEvent == Spec => []HasEvent
<1>1. KafkaFacts!Spec => []KafkaFacts!CurrentIsRecord
  BY KafkaAssumptions, KafkaFacts!WorksOnRecords
<1>2. KafkaFacts!Spec => []KafkaFacts!TypeOK
  BY KafkaAssumptions, KafkaFacts!TypeCorrect
<1>3. KafkaFacts!CurrentIsRecord /\ KafkaFacts!TypeOK => HasEvent
  BY DEF KafkaFacts!CurrentIsRecord, KafkaFacts!TypeOK, KafkaFacts!Working,
         KafkaFacts!Record, KafkaFacts!At, Kafka!At, HasEvent, Current
<1> QED
  BY <1>1, <1>2, <1>3, ImplementsKafka, KafkaTwice, PTL

-----------------------------------------------------------------------------
ClaimFacts == INSTANCE ClaimedHandlerProofs WITH Workers <- Processes

\* Every step of the pipeline is a step of the wrapped handler, with the event
\* of the record at hand, or leaves it alone.
THEOREM ImplementsClaims == Spec => Claims!Spec
<1>1. Init => Claims!Init
  BY DEF Init
<1>2. HasEvent /\ [Next]_vars => [Claims!Next]_(Claims!claimVars)
  <2> SUFFICES ASSUME HasEvent, [Next]_vars, ~ UNCHANGED claimVars
               PROVE  Claims!Next
    BY DEF claimVars, Claims!claimVars
  <2>1. ASSUME NEW c \in Processes, Claim(c) \/ ClaimError(c)
        PROVE  Claims!Next
    <3>1. PICK e \in Events : e = Current(c)
      BY <2>1 DEF Claim, ClaimError, Delivered, HasEvent
    <3>2. Claims!ClaimTaken(c, e) \/ Claims!ClaimError(c, e)
      BY <2>1, <3>1 DEF Claim, ClaimError, Claims!ClaimTaken, Claims!ClaimError
    <3> QED
      BY <3>2 DEF Claims!Next
  <2>2. ASSUME NEW c \in Processes,
               \/ HandleOK(c) \/ HandleError(c) \/ PublishFails(c)
               \/ Complete(c) \/ Release(c) \/ RedisFails(c)
        PROVE  Claims!Next
    BY <2>2 DEF HandleOK, HandleError, PublishFails, Complete, Release, RedisFails, Claims!Next
  <2>3. ASSUME NEW c \in Processes, Exit(c)
        PROVE  Claims!Next
    BY <2>3 DEF Exit, Claims!Next
  <2>4. ASSUME NEW e \in Events, Expire(e)
        PROVE  Claims!Next
    BY <2>4 DEF Expire, Claims!Next
  <2>5. ASSUME \/ Transport
               \/ \E c \in Processes : Refused(c) \/ Work(c) \/ SendFails(c)
        PROVE  FALSE
    BY <2>5 DEF Transport, Refused, Work, SendFails, Claims!ClaimRefused, Claims!claimVars, claimVars
  <2>6. CASE UNCHANGED vars
    BY <2>6 DEF vars
  <2> QED
    BY <2>1, <2>2, <2>3, <2>4, <2>5, <2>6 DEF Next
<1> QED
  BY <1>1, <1>2, PipelineHasEvent, PTL DEF Spec, Claims!Spec

\* The two copies of ClaimedHandler say the same.
LEMMA ClaimsTwice == Claims!Spec => ClaimFacts!Spec
<1>1. Claims!Init => ClaimFacts!Init
  BY DEF Claims!Init, ClaimFacts!Init
<1>2. [Claims!Next]_(Claims!claimVars) => [ClaimFacts!Next]_(ClaimFacts!claimVars)
  BY DEF Claims!Holders, ClaimFacts!Holders, Claims!Return, ClaimFacts!Return,
         Claims!ClaimTaken, ClaimFacts!ClaimTaken,
         Claims!ClaimRefused, ClaimFacts!ClaimRefused,
         Claims!ClaimError, ClaimFacts!ClaimError,
         Claims!HandlerOK, ClaimFacts!HandlerOK,
         Claims!HandlerErr, ClaimFacts!HandlerErr,
         Claims!Complete, ClaimFacts!Complete,
         Claims!CompleteError, ClaimFacts!CompleteError,
         Claims!Release, ClaimFacts!Release,
         Claims!ReleaseError, ClaimFacts!ReleaseError,
         Claims!Exit, ClaimFacts!Exit, Claims!Expire, ClaimFacts!Expire,
         Claims!Next, ClaimFacts!Next, Claims!claimVars, ClaimFacts!claimVars
<1> QED
  BY <1>1, <1>2, PTL DEF Claims!Spec, ClaimFacts!Spec

\* The pipeline assumes what the claims assume of their constants.
LEMMA ClaimAssumptions == ClaimFacts!EventsAssumption
BY PipelineAssumption DEF ClaimFacts!EventsAssumption, IsFiniteSet, ClaimFacts!IsFiniteSet

\* Whatever the broker redelivers: two processes of the pipeline handle one event
\* at the same time only after its key expired under a handler, and each such
\* expiry lets in one more at most.
THEOREM PipelineExclusive == Spec => []Claims!ExclusiveHolder
<1>1. ClaimFacts!Spec => []ClaimFacts!ExclusiveHolder
  BY ClaimAssumptions, ClaimFacts!ClaimsExclusive
<1>2. ClaimFacts!ExclusiveHolder => Claims!ExclusiveHolder
  BY DEF ClaimFacts!ExclusiveHolder, Claims!ExclusiveHolder, ClaimFacts!Holders, Claims!Holders,
         ClaimFacts!Cardinality, Claims!Cardinality
<1> QED
  BY <1>1, <1>2, ImplementsClaims, ClaimsTwice, PTL

\* Whatever records of an event the loop brings, and whenever the processes that
\* handle them end: an event is entered by one process at a time and, once it
\* was processed to the end, never again, unless its key expired under a handler.
THEOREM PipelineProcessesOnce == Spec => Claims!ProcessingSpec
<1>1. ClaimFacts!Spec => ClaimFacts!ProcessingSpec
  BY ClaimAssumptions, ClaimFacts!ImplementsProcessing
<1>2. ClaimFacts!Processing!Init => Claims!Processing!Init
  BY DEF ClaimFacts!Holders, Claims!Holders, ClaimFacts!Guarded, Claims!Guarded,
         ClaimFacts!Processing!Init, Claims!Processing!Init
<1>3. [ClaimFacts!Processing!Next]_(ClaimFacts!Processing!vars)
        => [Claims!Processing!Next]_(Claims!Processing!vars)
  BY DEF ClaimFacts!Holders, Claims!Holders, ClaimFacts!Guarded, Claims!Guarded,
         ClaimFacts!Processing!Next, Claims!Processing!Next,
         ClaimFacts!Processing!Enter, Claims!Processing!Enter,
         ClaimFacts!Processing!Finish, Claims!Processing!Finish,
         ClaimFacts!Processing!Abandon, Claims!Processing!Abandon,
         ClaimFacts!Processing!vars, Claims!Processing!vars
<1> QED
  BY <1>1, <1>2, <1>3, ImplementsClaims, ClaimsTwice, PTL
     DEF ClaimFacts!ProcessingSpec, ClaimFacts!Processing!Spec,
         Claims!ProcessingSpec, Claims!Processing!Spec

-----------------------------------------------------------------------------
MailFacts == INSTANCE MailHandlerProofs WITH Workers <- Processes

\* Every step of the pipeline is a step of the command handler, with the event
\* of the record at hand, or leaves it alone.
THEOREM ImplementsMail == Spec => Mail!Spec
<1>1. Init => Mail!Init
  BY DEF Init
<1>2. HasEvent /\ [Next]_vars => [Mail!Next]_(Mail!mailVars)
  <2> SUFFICES ASSUME HasEvent, [Next]_vars, ~ UNCHANGED mailVars
               PROVE  Mail!Next
    BY DEF mailVars, Mail!mailVars
  <2>1. ASSUME NEW c \in Processes, Claim(c)
        PROVE  Mail!Next
    <3>1. PICK e \in Events : e = Current(c)
      BY <2>1 DEF Claim, Delivered, HasEvent
    <3>2. Mail!Take(c, e)
      BY <2>1, <3>1 DEF Claim, Mail!Take
    <3> QED
      BY <3>2 DEF Mail!Next
  <2>2. ASSUME NEW c \in Processes,
               \/ Work(c) \/ SendFails(c) \/ HandleOK(c) \/ HandleError(c)
               \/ PublishFails(c) \/ Exit(c)
        PROVE  Mail!Next
    BY <2>2 DEF Work, SendFails, HandleOK, HandleError, PublishFails, Exit, Mail!Next
  <2>3. ASSUME \/ Transport
               \/ \E c \in Processes : \/ Refused(c) \/ ClaimError(c) \/ Complete(c)
                                       \/ Release(c) \/ RedisFails(c)
               \/ \E e \in Events : Expire(e)
        PROVE  FALSE
    BY <2>3 DEF Transport, Refused, ClaimError, Complete, Release, RedisFails, Expire, mailVars
  <2>4. CASE UNCHANGED vars
    BY <2>4 DEF vars
  <2> QED
    BY <2>1, <2>2, <2>3, <2>4 DEF Next
<1> QED
  BY <1>1, <1>2, PipelineHasEvent, PTL DEF Spec, Mail!Spec

\* The two copies of MailHandler say the same.
LEMMA MailTwice == Mail!Spec => MailFacts!Spec
<1>1. Mail!Init => MailFacts!Init
  BY DEF Mail!Init, MailFacts!Init
<1>2. [Mail!Next]_(Mail!mailVars) => [MailFacts!Next]_(MailFacts!mailVars)
  BY DEF Mail!Take, MailFacts!Take, Mail!Leave, MailFacts!Leave,
         Mail!DecodeError, MailFacts!DecodeError,
         Mail!Conclude, MailFacts!Conclude, Mail!Reject, MailFacts!Reject,
         Mail!Reason, MailFacts!Reason, Mail!Defect, MailFacts!Defect,
         Mail!Render, MailFacts!Render, Mail!Accept, MailFacts!Accept,
         Mail!SendOK, MailFacts!SendOK, Mail!SendRefused, MailFacts!SendRefused,
         Mail!ReplyLost, MailFacts!ReplyLost,
         Mail!BreakerOpen, MailFacts!BreakerOpen,
         Mail!PublishResult, MailFacts!PublishResult,
         Mail!Publish, MailFacts!Publish,
         Mail!PublishError, MailFacts!PublishError, Mail!Exit, MailFacts!Exit,
         Mail!Next, MailFacts!Next, Mail!mailVars, MailFacts!mailVars
<1> QED
  BY <1>1, <1>2, PTL DEF Mail!Spec, MailFacts!Spec

\* The pipeline assumes what the command handler assumes of its constants.
LEMMA MailAssumptions == MailFacts!KindAssumption
BY PipelineAssumption DEF MailFacts!KindAssumption, MailFacts!Defect, Mail!Defect

\* In the pipeline a success is reported only of a command whose mail an SMTP
\* server accepted.
THEOREM PipelineSuccessIsTrue == Spec => []Mail!SuccessMeansMailed
<1>1. MailFacts!Spec => []MailFacts!SuccessMeansMailed
  BY MailAssumptions, MailFacts!SuccessIsTrue
<1>2. MailFacts!SuccessMeansMailed => Mail!SuccessMeansMailed
  BY DEF MailFacts!SuccessMeansMailed, Mail!SuccessMeansMailed
<1> QED
  BY <1>1, <1>2, ImplementsMail, MailTwice, PTL

\* In the pipeline a command with a defect is never mailed, and answered with
\* its defect only, by whichever records and processes.
THEOREM PipelineReportsDefects == Spec => []Mail!DefectIsReported
<1>1. MailFacts!Spec => []MailFacts!DefectIsReported
  BY MailAssumptions, MailFacts!DefectsReported
<1>2. MailFacts!DefectIsReported => Mail!DefectIsReported
  BY DEF MailFacts!DefectIsReported, Mail!DefectIsReported, MailFacts!Defect, Mail!Defect,
         MailFacts!Reason, Mail!Reason
<1> QED
  BY <1>1, <1>2, ImplementsMail, MailTwice, PTL

-----------------------------------------------------------------------------
\* The type invariants of the claims and of the command handler hold in the
\* pipeline.
LEMMA PipelineTypes == Spec => [](Claims!TypeOK /\ Mail!TypeOK)
<1>1. ClaimFacts!Spec => []ClaimFacts!TypeOK
  BY ClaimAssumptions, ClaimFacts!TypeCorrect
<1>2. MailFacts!Spec => []MailFacts!TypeOK
  BY MailAssumptions, MailFacts!TypeCorrect
<1>3. ClaimFacts!TypeOK => Claims!TypeOK
  BY DEF ClaimFacts!TypeOK, Claims!TypeOK, ClaimFacts!Claim, Claims!Claim,
         ClaimFacts!Stage, Claims!Stage
<1>4. MailFacts!TypeOK => Mail!TypeOK
  BY DEF MailFacts!TypeOK, Mail!TypeOK, MailFacts!Step, Mail!Step,
         MailFacts!Verdict, Mail!Verdict, MailFacts!Failed, Mail!Failed,
         MailFacts!Reason, Mail!Reason, MailFacts!Defect, Mail!Defect
<1> QED
  BY <1>1, <1>2, <1>3, <1>4, ImplementsClaims, ClaimsTwice, ImplementsMail, MailTwice, PTL

\* The command handler works on the event that its process has claimed.
SameEvent ==
  \A c \in Processes : step[c] # "idle" => stage[c] = "handling" /\ task[c] = event[c]

\* Complete is called only when the result is out.
CompletingAnswered ==
  \A c \in Processes : stage[c] = "completing" => Answered(event[c])

AnsweredInv == SameEvent /\ CompletingAnswered /\ DoneIsAnswered

\* What is left of a component in which c has returned or ended.
LEMMA ReturnKeeps ==
  ASSUME AnsweredInv, Claims!TypeOK, NEW c \in Processes, Claims!Return(c),
         stage[c] # "handling", step' = step, task' = task, results' = results
  PROVE  SameEvent' /\ CompletingAnswered'
<1> USE DEF AnsweredInv, Claims!TypeOK, Claims!Return
<1>1. SameEvent'
  BY DEF SameEvent
<1>2. CompletingAnswered'
  BY DEF CompletingAnswered, Answered
<1> QED
  BY <1>1, <1>2

\* Every step keeps the invariant.
LEMMA AnsweredStep ==
  ASSUME AnsweredInv, HasEvent, Claims!TypeOK, Mail!TypeOK, [Next]_vars
  PROVE  AnsweredInv'
<1> USE DEF AnsweredInv, Claims!TypeOK, Mail!TypeOK
<1>1. ASSUME UNCHANGED <<claimVars, mailVars>>
      PROVE  AnsweredInv'
  BY <1>1 DEF claimVars, mailVars, SameEvent, CompletingAnswered, DoneIsAnswered, Answered
<1>2. ASSUME NEW c \in Processes, Claim(c)
      PROVE  AnsweredInv'
  <2>1. PICK e \in Events : e = Current(c)
    BY <1>2 DEF Claim, Delivered, HasEvent
  <2>2. Claims!ClaimTaken(c, e) /\ Mail!Take(c, e)
    BY <1>2, <2>1 DEF Claim, Claims!ClaimTaken, Mail!Take
  <2>3. SameEvent'
    BY <2>2 DEF Claims!ClaimTaken, Mail!Take, SameEvent
  <2>4. CompletingAnswered'
    BY <2>2 DEF Claims!ClaimTaken, Mail!Take, CompletingAnswered, Answered
  <2>5. DoneIsAnswered'
    BY <2>2 DEF Claims!ClaimTaken, Mail!Take, DoneIsAnswered, Answered
  <2> QED
    BY <2>3, <2>4, <2>5
<1>3. ASSUME NEW c \in Processes, ClaimError(c)
      PROVE  AnsweredInv'
  <2>1. UNCHANGED <<stage, event, mailVars>>
    BY <1>3 DEF ClaimError, Claims!ClaimError
  <2>2. DoneIsAnswered'
    <3>1. PICK e \in Events : e = Current(c)
      BY <1>3 DEF ClaimError, Delivered, HasEvent
    <3>2. claims' = claims \/ claims' = [claims EXCEPT ![e] = "processing"]
      BY <1>3, <3>1 DEF ClaimError, Claims!ClaimError
    <3> QED
      BY <2>1, <3>2 DEF DoneIsAnswered, Answered, mailVars
  <2> QED
    BY <2>1, <2>2 DEF SameEvent, CompletingAnswered, Answered, mailVars
<1>4. ASSUME NEW c \in Processes, Work(c) \/ SendFails(c)
      PROVE  AnsweredInv'
  <2>1. /\ UNCHANGED <<claimVars, task, results>>
        /\ step[c] # "idle"
        /\ \A d \in Processes : step'[d] # "idle" => step[d] # "idle"
    BY <1>4 DEF Work, SendFails, Mail!Reject, Mail!Render, Mail!SendOK, Mail!SendRefused,
                Mail!ReplyLost, Mail!BreakerOpen, Mail!Conclude
  <2> QED
    BY <2>1 DEF claimVars, SameEvent, CompletingAnswered, DoneIsAnswered, Answered
<1>5. ASSUME NEW c \in Processes, Mail!Leave(c), claims' = claims, event' = event,
             \E s \in {"completing", "releasing"} : stage' = [stage EXCEPT ![c] = s],
             \A e \in Events : results[e] \subseteq results'[e],
             stage'[c] = "completing" => results'[event[c]] # {}
      PROVE  AnsweredInv'
  <2>1. SameEvent'
    BY <1>5 DEF SameEvent, Mail!Leave
  <2>2. CompletingAnswered'
    BY <1>5 DEF CompletingAnswered, Answered
  <2>3. DoneIsAnswered'
    BY <1>5 DEF DoneIsAnswered, Answered
  <2> QED
    BY <2>1, <2>2, <2>3
<1>6. ASSUME NEW c \in Processes, HandleOK(c)
      PROVE  AnsweredInv'
  <2>1. PICK e \in Events : e = task[c] /\ e = event[c]
    BY <1>6 DEF HandleOK, Mail!Publish, SameEvent
  <2>2. results' = [results EXCEPT ![e] = @ \cup {verdict[c]}]
    BY <1>6, <2>1 DEF HandleOK, Mail!Publish, Mail!PublishResult
  <2>3. results'[event[c]] # {} /\ \A f \in Events : results[f] \subseteq results'[f]
    BY <2>1, <2>2
  <2> QED
    BY <1>5, <1>6, <2>3 DEF HandleOK, Mail!Publish, Claims!HandlerOK
<1>7. ASSUME NEW c \in Processes, HandleError(c) \/ PublishFails(c)
      PROVE  AnsweredInv'
  <2>1. \A f \in Events : results[f] \subseteq results'[f]
    BY <1>7 DEF HandleError, PublishFails, Mail!DecodeError, Mail!PublishError, Mail!PublishResult
  <2>2. /\ Mail!Leave(c)
        /\ claims' = claims /\ event' = event
        /\ stage' = [stage EXCEPT ![c] = "releasing"]
    BY <1>7 DEF HandleError, PublishFails, Mail!DecodeError, Mail!PublishError, Claims!HandlerErr
  <2>3. stage'[c] # "completing"
    BY <2>2
  <2> QED
    BY <1>5, <2>1, <2>2, <2>3
<1>8. ASSUME NEW c \in Processes, Complete(c) \/ Release(c) \/ RedisFails(c)
      PROVE  AnsweredInv'
  <2>1. /\ UNCHANGED mailVars /\ Claims!Return(c) /\ stage[c] # "handling"
        /\ \/ claims' = claims
           \/ claims' = [claims EXCEPT ![event[c]] = "free"]
           \/ claims' = [claims EXCEPT ![event[c]] = "done"] /\ stage[c] = "completing"
    BY <1>8 DEF Complete, Release, RedisFails, Claims!Complete, Claims!Release,
                Claims!CompleteError, Claims!ReleaseError
  <2>2. DoneIsAnswered'
    BY <2>1 DEF DoneIsAnswered, CompletingAnswered, Answered, mailVars
  <2>3. SameEvent' /\ CompletingAnswered'
    BY <2>1, ReturnKeeps DEF mailVars
  <2> QED
    BY <2>2, <2>3
<1>9. ASSUME NEW c \in Processes, Exit(c)
      PROVE  AnsweredInv'
  <2>1. /\ claims' = claims /\ results' = results
        /\ \A d \in Processes : d # c =>
             stage'[d] = stage[d] /\ event'[d] = event[d] /\ step'[d] = step[d] /\ task'[d] = task[d]
        /\ stage'[c] = "idle" /\ step'[c] = "idle"
    BY <1>9 DEF Exit, Claims!Exit, Claims!Return, Mail!Exit, Mail!Leave, claimVars, mailVars
  <2> QED
    BY <2>1 DEF SameEvent, CompletingAnswered, DoneIsAnswered, Answered
<1>10. ASSUME NEW e \in Events, Expire(e)
       PROVE  AnsweredInv'
  BY <1>10 DEF Expire, Claims!Expire, mailVars, SameEvent, CompletingAnswered,
               DoneIsAnswered, Answered
<1>11. ASSUME NEW c \in Processes, Refused(c)
       PROVE  AnsweredInv'
  BY <1>1, <1>11 DEF Refused, Claims!ClaimRefused, Claims!claimVars, claimVars
<1>12. CASE UNCHANGED vars
  BY <1>1, <1>12 DEF vars
<1>13. CASE Transport
  BY <1>1, <1>13 DEF Transport
<1> QED
  BY <1>2, <1>3, <1>4, <1>6, <1>7, <1>8, <1>9, <1>10, <1>11, <1>12, <1>13 DEF Next

\* AnsweredInv holds in every state.
LEMMA PipelineAnswers == Spec => []AnsweredInv
<1>1. Init => AnsweredInv
  BY DEF Init, Claims!Init, Mail!Init, AnsweredInv, SameEvent, CompletingAnswered, DoneIsAnswered
<1>2. /\ AnsweredInv /\ HasEvent /\ Claims!TypeOK /\ Mail!TypeOK /\ [Next]_vars
      => AnsweredInv'
  BY AnsweredStep
<1> QED
  BY <1>1, <1>2, PipelineHasEvent, PipelineTypes, PTL DEF Spec

\* An event is recorded as done only when a result has been published for it,
\* whatever fails, ends, expires or is delivered twice.
THEOREM DoneMeansAnswered == Spec => []DoneIsAnswered
<1>1. AnsweredInv => DoneIsAnswered
  BY DEF AnsweredInv
<1> QED
  BY <1>1, PipelineAnswers, PTL

-----------------------------------------------------------------------------
\* What is proved of the loop's places and offsets, said of the pipeline.
RecordInv ==
  /\ Kafka!TypeOK
  /\ Kafka!CommittedAccounted
  /\ \A c \in Processes : cur[c] # NoRecord => cur[c].off <= Len(log[cur[c].part])
  /\ \A place \in accounted \cup buried : place.off <= Len(log[place.part])
  /\ \A c \in Processes :
       mode[c] = "requeueing" => Kafka!RetryAttempt(Kafka!At(cur[c])) < MaxAttempts

\* RecordInv holds in every state.
LEMMA PipelineRecords == Spec => []RecordInv
<1>1. KafkaFacts!Spec => []KafkaFacts!TypeOK
  BY KafkaAssumptions, KafkaFacts!TypeCorrect
<1>2. KafkaFacts!Spec => []KafkaFacts!CommittedAccounted
  BY KafkaAssumptions, KafkaFacts!NothingSkipped
<1>3. KafkaFacts!Spec => []KafkaFacts!CurrentInLog
  BY KafkaAssumptions, KafkaFacts!StaysInLog
<1>4. KafkaFacts!Spec => [](KafkaFacts!PlacesInLog /\ KafkaFacts!AttemptLeft)
  BY KafkaAssumptions, KafkaFacts!RequeuesInBounds
<1>5. /\ KafkaFacts!TypeOK /\ KafkaFacts!CommittedAccounted /\ KafkaFacts!CurrentInLog
      /\ KafkaFacts!PlacesInLog /\ KafkaFacts!AttemptLeft
      => RecordInv
  BY DEF KafkaFacts!TypeOK, Kafka!TypeOK, KafkaFacts!Record, Kafka!Record,
         KafkaFacts!Place, Kafka!Place, KafkaFacts!Mode, Kafka!Mode,
         KafkaFacts!Working, Kafka!Working, KafkaFacts!Member, Kafka!Member,
         KafkaFacts!CommittedAccounted, Kafka!CommittedAccounted,
         KafkaFacts!CurrentInLog, KafkaFacts!PlacesInLog, KafkaFacts!AttemptLeft,
         KafkaFacts!At, Kafka!At, KafkaFacts!RetryAttempt, Kafka!RetryAttempt, RecordInv
<1> QED
  BY <1>1, <1>2, <1>3, <1>4, <1>5, ImplementsKafka, KafkaTwice, PTL

\* A record stays what and where it is when another one is written.
LEMMA RecordsStay ==
  ASSUME RecordInv, NEW p \in Partitions, NEW r \in Kafka!Record, Kafka!Write(p, r),
         NEW place \in Kafka!Place, place.off <= Len(log[place.part])
  PROVE  Kafka!At(place)' = Kafka!At(place)
<1>1. PICK q \in Partitions, n \in Nat \ {0} : place = [part |-> q, off |-> n]
  BY DEF Kafka!Place
<1>2. log[q] \in Seq(Kafka!Record) /\ n \in 1..Len(log[q])
  BY <1>1 DEF RecordInv, Kafka!TypeOK
<1>3. log'[q] = log[q] \/ log'[q] = Append(log[q], r)
  BY DEF Kafka!Write, RecordInv, Kafka!TypeOK
<1> QED
  BY <1>1, <1>2, <1>3 DEF Kafka!At

\* The only steps of the pipeline that write to the command topic.
LEMMA EnvironmentWrites ==
  ASSUME Kafka!Environment
  PROVE  \/ log' = log
         \/ \E p \in Partitions, r \in Kafka!Record :
              /\ Kafka!Write(p, r)
              /\ UNCHANGED <<committed, owner, pos, mode, cur, accounted, buried>>
              /\ \/ UNCHANGED retry
                 \/ retry[r] > 0 /\ retry' = [retry EXCEPT ![r] = @ - 1]
<1>1. ASSUME NEW p \in Partitions, NEW e \in Events, Kafka!Produce(p, e)
      PROVE  \E r \in Kafka!Record : Kafka!Write(p, r)
  <2>1. [event |-> e, attempt |-> 0] \in Kafka!Record
    BY PipelineAssumption DEF Kafka!Record
  <2> QED
    BY <1>1, <2>1 DEF Kafka!Produce
<1> QED
  BY <1>1 DEF Kafka!Environment, Kafka!Produce, Kafka!Forward, Kafka!Assign, Kafka!Rebalance,
              Kafka!AssignTo

-----------------------------------------------------------------------------
\* What TypeOK says of the components together.
Agreement ==
  \A c \in Processes :
    /\ stage[c] # "idle" => mode[c] = "handling" /\ event[c] = Current(c)
    /\ step[c] # "idle" <=> stage[c] = "handling"
    /\ step[c] # "idle" => task[c] = event[c]

\* A step in which only process c moves, and in which c agrees afterwards.
LEMMA AgreementOne ==
  ASSUME Agreement, NEW c \in Processes, log' = log,
         \A d \in Processes \ {c} :
           /\ mode'[d] = mode[d] /\ cur'[d] = cur[d] /\ stage'[d] = stage[d]
           /\ event'[d] = event[d] /\ step'[d] = step[d] /\ task'[d] = task[d],
         stage'[c] # "idle" => mode'[c] = "handling" /\ event'[c] = Current(c)',
         step'[c] # "idle" <=> stage'[c] = "handling",
         step'[c] # "idle" => task'[c] = event'[c]
  PROVE  Agreement'
<1>1. \A d \in Processes \ {c} : Current(d)' = Current(d)
  BY DEF Current, Kafka!At
<1> QED
  BY <1>1 DEF Agreement

\* Every step keeps the agreement.
LEMMA AgreementStep ==
  ASSUME Agreement, RecordInv, HasEvent, Claims!TypeOK, Mail!TypeOK, [Next]_vars
  PROVE  Agreement'
<1> USE PipelineAssumption DEF Claims!TypeOK, Mail!TypeOK
<1>0. /\ mode \in [Processes -> Kafka!Mode] /\ cur \in [Processes -> Kafka!Place \cup {NoRecord}]
      /\ \A c \in Processes : mode[c] \in Kafka!Working <=> cur[c] # NoRecord
  BY DEF RecordInv, Kafka!TypeOK
<1>1. CASE Transport
  <2>1. UNCHANGED <<stage, event, step, task>>
    BY <1>1 DEF Transport, claimVars, mailVars
  <2>2. CASE Kafka!Environment
    <3>1. UNCHANGED <<mode, cur>>
      BY <2>2 DEF Kafka!Environment, Kafka!Produce, Kafka!Forward, Kafka!Assign,
                  Kafka!Rebalance, Kafka!AssignTo
    <3>2. ASSUME NEW c \in Processes, mode[c] = "handling"
          PROVE  Current(c)' = Current(c)
      <4>1. cur[c] \in Kafka!Place /\ cur[c].off <= Len(log[cur[c].part])
        BY <1>0, <3>2 DEF Kafka!Working, RecordInv
      <4> QED
        BY <2>2, <3>1, <4>1, EnvironmentWrites, RecordsStay DEF Current, Kafka!At
    <3> QED
      BY <2>1, <3>1, <3>2 DEF Agreement
  <2>3. ASSUME NEW c \in Processes, Kafka!Loop(c) \/ Kafka!Failure(c)
        PROVE  Agreement'
    <3>1. log' = log /\ mode[c] # "handling"
      BY <2>3 DEF Kafka!Loop, Kafka!Failure, Kafka!Start, Kafka!Resubscribe, Kafka!Subscribe,
                  Kafka!Fetch, Kafka!FetchError, Kafka!Commit, Kafka!CommitError, Kafka!Requeue,
                  Kafka!RequeueError, Kafka!Bury, Kafka!BuryError
    <3>2. \A d \in Processes \ {c} : mode'[d] = mode[d] /\ cur'[d] = cur[d]
      BY <1>0, <2>3 DEF Kafka!Loop, Kafka!Failure, Kafka!Start, Kafka!Resubscribe, Kafka!Subscribe,
                  Kafka!Fetch, Kafka!FetchError, Kafka!Commit, Kafka!CommitError, Kafka!Requeue,
                  Kafka!RequeueError, Kafka!Bury, Kafka!BuryError, Kafka!Leave, Kafka!Continue
    <3>3. stage'[c] = "idle" /\ step'[c] = "idle"
      BY <2>1, <3>1 DEF Agreement
    <3> QED
      BY <2>1, <3>1, <3>2, <3>3, AgreementOne
  <2> QED
    BY <1>1, <2>2, <2>3 DEF Transport
<1>2. ASSUME NEW c \in Processes, Claim(c)
      PROVE  Agreement'
  <2>1. PICK e \in Events : e = Current(c)
    BY <1>2 DEF Claim, Delivered, HasEvent
  <2>2. /\ Claims!ClaimTaken(c, e) /\ Mail!Take(c, e) /\ mode[c] = "handling"
        /\ UNCHANGED <<log, mode, cur>>
    BY <1>2, <2>1 DEF Claim, Delivered, Claims!ClaimTaken, Mail!Take, consumerVars
  <2>3. Current(c)' = e
    BY <2>1, <2>2 DEF Current, Kafka!At
  <2>4. stage'[c] = "handling" /\ event'[c] = e /\ step'[c] = "decoding" /\ task'[c] = e
    BY <2>2 DEF Claims!ClaimTaken, Mail!Take
  <2> QED
    BY <2>2, <2>3, <2>4, AgreementOne DEF Claims!ClaimTaken, Mail!Take
<1>3. ASSUME NEW c \in Processes, Work(c) \/ SendFails(c)
      PROVE  Agreement'
  <2>1. UNCHANGED <<log, mode, cur, stage, event, task>>
    BY <1>3 DEF Work, SendFails, consumerVars, claimVars, Mail!Reject, Mail!Render, Mail!SendOK,
                Mail!SendRefused, Mail!ReplyLost, Mail!BreakerOpen, Mail!Conclude
  <2>2. /\ step[c] # "idle" /\ step'[c] # "idle"
        /\ \A d \in Processes \ {c} : step'[d] = step[d]
    BY <1>3 DEF Work, SendFails, Mail!Reject, Mail!Render, Mail!SendOK, Mail!SendRefused,
                Mail!ReplyLost, Mail!BreakerOpen, Mail!Conclude
  <2>3. \A d \in Processes : Current(d)' = Current(d)
    BY <2>1 DEF Current, Kafka!At
  <2> QED
    BY <2>1, <2>2, <2>3 DEF Agreement
<1>4. ASSUME NEW c \in Processes, HandleOK(c) \/ HandleError(c) \/ PublishFails(c)
      PROVE  Agreement'
  <2>1. /\ UNCHANGED <<log, mode, cur, event>> /\ Mail!Leave(c) /\ stage[c] = "handling"
        /\ \E s \in {"completing", "releasing"} : stage' = [stage EXCEPT ![c] = s]
    BY <1>4 DEF HandleOK, HandleError, PublishFails, consumerVars, Mail!Publish,
                Mail!DecodeError, Mail!PublishError, Claims!HandlerOK, Claims!HandlerErr
  <2>2. Current(c)' = Current(c)
    BY <2>1 DEF Current, Kafka!At
  <2>3. stage'[c] \in {"completing", "releasing"} /\ step'[c] = "idle"
    BY <2>1 DEF Mail!Leave
  <2>4. \A d \in Processes \ {c} :
          stage'[d] = stage[d] /\ step'[d] = step[d] /\ task'[d] = task[d]
    BY <2>1 DEF Mail!Leave
  <2>5. mode[c] = "handling" /\ event[c] = Current(c)
    BY <2>1 DEF Agreement
  <2> QED
    BY <2>1, <2>2, <2>3, <2>4, <2>5, AgreementOne
<1>5. ASSUME NEW c \in Processes, NEW outcome \in {"ok", "transient"},
             Kafka!HandlerReturns(c, outcome), UNCHANGED mailVars,
             \/ Claims!Return(c) /\ stage[c] # "handling"
             \/ UNCHANGED <<stage, event>> /\ stage[c] = "idle"
      PROVE  Agreement'
  <2>1. log' = log /\ cur' = cur /\ \A d \in Processes \ {c} : mode'[d] = mode[d]
    BY <1>0, <1>5 DEF Kafka!HandlerReturns
  <2>2. stage'[c] = "idle" /\ \A d \in Processes \ {c} : stage'[d] = stage[d] /\ event'[d] = event[d]
    BY <1>5 DEF Claims!Return
  <2>3. step' = step /\ task' = task /\ step[c] = "idle"
    BY <1>5 DEF mailVars, Agreement
  <2> QED
    BY <2>1, <2>2, <2>3, AgreementOne
<1>6. ASSUME NEW c \in Processes,
             Refused(c) \/ ClaimError(c) \/ Complete(c) \/ Release(c) \/ RedisFails(c)
      PROVE  Agreement'
  <2>1. /\ UNCHANGED mailVars
        /\ \E outcome \in {"ok", "transient"} : Kafka!HandlerReturns(c, outcome)
    BY <1>6 DEF Refused, ClaimError, Complete, Release, RedisFails
  <2>2. \/ Claims!Return(c) /\ stage[c] # "handling"
        \/ UNCHANGED <<stage, event>> /\ stage[c] = "idle"
    BY <1>6 DEF Refused, ClaimError, Complete, Release, RedisFails, Delivered,
                Claims!ClaimRefused, Claims!ClaimError, Claims!claimVars, Claims!Complete,
                Claims!Release, Claims!CompleteError, Claims!ReleaseError
  <2> QED
    BY <1>5, <2>1, <2>2
<1>7. ASSUME NEW c \in Processes, Exit(c)
      PROVE  Agreement'
  <2>1. /\ log' = log
        /\ \A d \in Processes \ {c} : mode'[d] = mode[d] /\ cur'[d] = cur[d]
    BY <1>0, <1>7 DEF Exit, Kafka!Exit, Kafka!Leave
  <2>2. /\ stage'[c] = "idle" /\ step'[c] = "idle"
        /\ \A d \in Processes \ {c} : /\ stage'[d] = stage[d] /\ event'[d] = event[d]
                                      /\ step'[d] = step[d] /\ task'[d] = task[d]
    BY <1>7 DEF Exit, Claims!Exit, Claims!Return, Mail!Exit, Mail!Leave, claimVars, mailVars
  <2> QED
    BY <2>1, <2>2, AgreementOne
<1>8. ASSUME UNCHANGED <<log, mode, cur, stage, event, step, task>>
      PROVE  Agreement'
  BY <1>8 DEF Agreement, Current, Kafka!At
<1>9. ASSUME NEW e \in Events, Expire(e)
      PROVE  Agreement'
  BY <1>8, <1>9 DEF Expire, Claims!Expire, consumerVars, mailVars
<1>10. CASE UNCHANGED vars
  BY <1>8, <1>10 DEF vars, consumerVars, claimVars, mailVars
<1> QED
  BY <1>1, <1>2, <1>3, <1>4, <1>6, <1>7, <1>9, <1>10 DEF Next

\* The agreement of the components holds in every state.
LEMMA PipelineAgrees == Spec => []Agreement
<1>1. Init => Agreement
  BY DEF Init, Claims!Init, Mail!Init, Agreement
<1>2. /\ Agreement /\ RecordInv /\ HasEvent /\ Claims!TypeOK /\ Mail!TypeOK /\ [Next]_vars
      => Agreement'
  BY AgreementStep
<1> QED
  BY <1>1, <1>2, PipelineRecords, PipelineHasEvent, PipelineTypes, PTL DEF Spec

\* The record a process works on is in the log, and its event has been sent.
LEMMA CurrentSent ==
  ASSUME RecordInv, NEW c \in Processes, mode[c] \in Kafka!Working
  PROVE  /\ cur[c] \in Kafka!Place /\ cur[c].off <= Len(log[cur[c].part])
         /\ Current(c) \in Events /\ Sent(Current(c))
<1>1. cur[c] \in Kafka!Place /\ cur[c].off <= Len(log[cur[c].part])
  BY PipelineAssumption DEF RecordInv, Kafka!TypeOK
<1>2. PICK p \in Partitions, n \in Nat \ {0} : cur[c] = [part |-> p, off |-> n]
  BY <1>1 DEF Kafka!Place
<1>3. log[p] \in Seq(Kafka!Record) /\ n \in DOMAIN log[p]
  BY <1>1, <1>2 DEF RecordInv, Kafka!TypeOK
<1>4. log[p][n] \in Kafka!Record /\ Current(c) = log[p][n].event
  BY <1>2, <1>3 DEF Current, Kafka!At
<1> QED
  BY <1>1, <1>3, <1>4 DEF Sent, Kafka!Record

\* Only events of records are given up.
GivenUpSent == abandoned \subseteq Events

LEMMA PipelineGivesUp == Spec => []GivenUpSent
<1>1. Init => GivenUpSent
  BY DEF Init, GivenUpSent
<1>2. GivenUpSent /\ RecordInv /\ [Next]_vars => GivenUpSent'
  <2> SUFFICES ASSUME GivenUpSent, RecordInv, [Next]_vars
               PROVE  abandoned' \subseteq Events
    BY DEF GivenUpSent
  <2>1. ASSUME NEW c \in Processes, GiveUp(c)
        PROVE  abandoned' \subseteq Events
    <3>1. AtRecord(c) => Current(c) \in Events
      BY CurrentSent DEF AtRecord, Kafka!Working
    <3> QED
      BY <2>1, <3>1 DEF GiveUp, GivenUpSent
  <2>2. CASE abandoned' = abandoned
    BY <2>2 DEF GivenUpSent
  <2> QED
    BY <2>1, <2>2 DEF Next, Transport, Claim, Refused, ClaimError, Work, SendFails, HandleOK,
       HandleError, PublishFails, Complete, Release, RedisFails, Exit, Expire, vars
<1> QED
  BY <1>1, <1>2, PipelineRecords, PTL DEF Spec

\* The loop, the claims and the command handler of a process are always at the
\* same event, and the handler runs only while the loop waits for it.
THEOREM TypeCorrect == Spec => []TypeOK
<1>1. /\ RecordInv /\ Claims!TypeOK /\ Mail!TypeOK /\ Agreement /\ GivenUpSent
      => TypeOK
  BY DEF RecordInv, Agreement, GivenUpSent, TypeOK
<1> QED
  BY <1>1, PipelineGivesUp, PipelineRecords, PipelineTypes, PipelineAgrees, PTL

-----------------------------------------------------------------------------
\* What is proved of the claims, said of the pipeline: a process at work has
\* its key, and the event to itself; a key that says "processing" has a process.
Exclusive ==
  \A c, d \in Processes :
    stage[c] # "idle" /\ stage[d] # "idle" /\ event[c] = event[d] => c = d

ClaimIsHeld ==
  \A e \in Events : claims[e] = "processing" =>
    \E c \in Processes : stage[c] # "idle" /\ event[c] = e

\* A process at work has its key.
HasKey == \A c \in Processes : stage[c] # "idle" => claims[event[c]] = "processing"

\* The inductive invariant of the claims holds in the pipeline.
LEMMA PipelineClaims == Spec => []ClaimFacts!ClaimInv
<1>1. ClaimFacts!Spec => []ClaimFacts!ClaimInv
  BY ClaimAssumptions, ClaimFacts!ClaimInvariant
<1> QED
  BY <1>1, ImplementsClaims, ClaimsTwice, PTL

\* As long as no handler outlives the time to live.
LEMMA PipelineGuards ==
  ASSUME "ttl" \notin Faults
  PROVE  Spec => [](Exclusive /\ HasKey)
<1>1. ClaimFacts!Spec => []ClaimFacts!NoneExpired
  BY ClaimAssumptions, ClaimFacts!KeysLast
<1>2. ASSUME ClaimFacts!ClaimInv, ClaimFacts!NoneExpired, Claims!TypeOK
      PROVE  Exclusive /\ HasKey
  <2>1. \A c \in Processes : stage[c] # "idle" =>
          event[c] \in Events /\ expired[event[c]] = 0 /\ c \in ClaimFacts!Holders(event[c])
    BY <1>2 DEF Claims!TypeOK, ClaimFacts!NoneExpired, ClaimFacts!Holders
  <2>2. Exclusive
    BY <1>2, <2>1, ClaimAssumptions, ClaimFacts!NoSecondHolder DEF Exclusive
  <2>3. HasKey
    BY <1>2, <2>1 DEF ClaimFacts!ClaimInv, ClaimFacts!KeyKept, HasKey
  <2> QED
    BY <2>2, <2>3
<1> QED
  BY <1>1, <1>2, ImplementsClaims, ClaimsTwice, PipelineClaims, PipelineTypes, PTL

\* As long as Redis answers and no process ends.
LEMMA PipelineHolds ==
  ASSUME "redis" \notin Faults, "exit" \notin Faults
  PROVE  Spec => []ClaimIsHeld
<1>1. ClaimFacts!Spec => []ClaimFacts!ClaimIsHeld
  BY ClaimAssumptions, ClaimFacts!NoAbandonedClaims
<1>2. ClaimFacts!ClaimIsHeld => ClaimIsHeld
  BY DEF ClaimFacts!ClaimIsHeld, ClaimFacts!Holders, ClaimIsHeld
<1> QED
  BY <1>1, <1>2, ImplementsClaims, ClaimsTwice, PTL

-----------------------------------------------------------------------------
\* Nothing was done for e yet.
Untouched(e) == mails[e] = 0 /\ results[e] = {}

\* HandledOnce is not inductive: whoever may send the mail of an event must be
\* the first to, and whoever may publish its result as well.
OnceInv ==
  /\ HandledOnce
  /\ \A e \in Events : claims[e] = "free" => Untouched(e)
  /\ \A c \in Processes :
       stage[c] = "releasing" \/ step[c] \in {"decoding", "sending"} => Untouched(event[c])
  /\ \A c \in Processes : step[c] = "publishing" => results[event[c]] = {}

\* Every step keeps it.
LEMMA OnceStep ==
  ASSUME "redis" \notin Faults, "exit" \notin Faults, "ttl" \notin Faults,
         "publish" \notin Faults,
         OnceInv, Agreement, Exclusive, HasKey, ClaimIsHeld,
         HasEvent, Claims!TypeOK, Mail!TypeOK, [Next]_vars
  PROVE  OnceInv'
<1> USE PipelineAssumption DEF Claims!TypeOK, Mail!TypeOK, OnceInv, HandledOnce, Untouched
<1>1. ASSUME UNCHANGED <<claimVars, mailVars>>
      PROVE  OnceInv'
  BY <1>1 DEF claimVars, mailVars
<1>2. ASSUME NEW c \in Processes, Claim(c)
      PROVE  OnceInv'
  <2>1. PICK e \in Events : e = Current(c)
    BY <1>2 DEF Claim, Delivered, HasEvent
  <2>2. Claims!ClaimTaken(c, e) /\ Mail!Take(c, e)
    BY <1>2, <2>1 DEF Claim, Claims!ClaimTaken, Mail!Take
  <2>3. Untouched(e) /\ UNCHANGED <<mails, results>>
    BY <2>2 DEF Claims!ClaimTaken, Mail!Take
  <2>4. /\ claims' = [claims EXCEPT ![e] = "processing"]
        /\ event' = [event EXCEPT ![c] = e]
        /\ stage' = [stage EXCEPT ![c] = "handling"]
        /\ step' = [step EXCEPT ![c] = "decoding"]
    BY <2>2 DEF Claims!ClaimTaken, Mail!Take
  <2> QED
    BY <2>3, <2>4
<1>3. ASSUME NEW c \in Processes, step[c] # "idle"
      PROVE  /\ task[c] = event[c] /\ event[c] \in Events /\ stage[c] = "handling"
             /\ claims[event[c]] = "processing"
             /\ \A d \in Processes \ {c} : stage[d] # "idle" => event[d] # event[c]
             /\ \A d \in Processes : step[d] # "idle" => stage[d] # "idle"
  BY <1>3 DEF Agreement, Exclusive, HasKey
<1>4. ASSUME NEW c \in Processes, Work(c) \/ SendFails(c)
      PROVE  OnceInv'
  <2>1. /\ UNCHANGED <<claimVars, results>> /\ step[c] \in {"decoding", "sending"}
        /\ \/ step' = [step EXCEPT ![c] = "sending"] /\ mails' = mails
           \/ /\ step' = [step EXCEPT ![c] = "publishing"]
              /\ mails' = mails \/ Mail!Accept(task[c])
    <3>1. CASE Mail!Reject(c) \/ Mail!SendRefused(c) \/ Mail!BreakerOpen(c)
      BY <1>4, <3>1 DEF Work, SendFails, Mail!Reject, Mail!SendRefused, Mail!BreakerOpen,
                        Mail!Conclude
    <3>2. CASE Mail!SendOK(c) \/ Mail!ReplyLost(c)
      BY <1>4, <3>2 DEF Work, SendFails, Mail!SendOK, Mail!ReplyLost, Mail!Conclude
    <3>3. CASE Mail!Render(c)
      BY <1>4, <3>3 DEF Work, SendFails, Mail!Render
    <3> QED
      BY <1>4, <3>1, <3>2, <3>3 DEF Work, SendFails
  <2>2. PICK e \in Events : e = event[c] /\ e = task[c] /\ Untouched(e)
    BY <1>3, <2>1
  <2>3. mails' = mails \/ mails' = [mails EXCEPT ![e] = 1]
    <3>1. mails[e] = 0 /\ 0 < MaxMails
      BY <2>2
    <3> QED
      BY <2>1, <2>2, <3>1 DEF Mail!Accept
  <2>4. claims[e] = "processing" /\ \A d \in Processes \ {c} : stage[d] # "idle" => event[d] # e
    BY <1>3, <2>1, <2>2
  <2>5. \A d \in Processes : step[d] # "idle" => stage[d] # "idle"
    BY <1>3, <2>1
  <2>6. stage[c] # "releasing"
    BY <1>3, <2>1
  <2> QED
    BY <2>1, <2>2, <2>3, <2>4, <2>5, <2>6 DEF claimVars
<1>5. ASSUME NEW c \in Processes, HandleOK(c)
      PROVE  OnceInv'
  <2>1. /\ UNCHANGED <<claims, event, mails>> /\ step[c] = "publishing"
        /\ stage' = [stage EXCEPT ![c] = "completing"]
        /\ step' = [step EXCEPT ![c] = "idle"]
        /\ Mail!PublishResult(c)
    BY <1>5 DEF HandleOK, Mail!Publish, Mail!Leave, Claims!HandlerOK
  <2>2. PICK e \in Events : e = event[c] /\ e = task[c] /\ results[e] = {}
    BY <1>3, <2>1
  <2>3. results' = [results EXCEPT ![e] = {verdict[c]}]
    BY <2>1, <2>2 DEF Mail!PublishResult
  <2>4. claims[e] = "processing" /\ \A d \in Processes \ {c} : stage[d] # "idle" => event[d] # e
    BY <1>3, <2>1, <2>2
  <2>5. \A d \in Processes : step[d] # "idle" => stage[d] # "idle"
    BY <1>3, <2>1
  <2> QED
    BY <2>1, <2>2, <2>3, <2>4, <2>5
<1>6. ASSUME NEW c \in Processes, HandleError(c)
      PROVE  OnceInv'
  <2>1. /\ UNCHANGED <<claims, event, mails, results>> /\ step[c] = "decoding"
        /\ stage' = [stage EXCEPT ![c] = "releasing"]
        /\ step' = [step EXCEPT ![c] = "idle"]
    BY <1>6 DEF HandleError, Mail!DecodeError, Mail!Leave, Claims!HandlerErr
  <2> QED
    BY <2>1
<1>7. ASSUME NEW c \in Processes, Complete(c) \/ Release(c)
      PROVE  OnceInv'
  <2>1. /\ UNCHANGED mailVars /\ Claims!Return(c)
        /\ \/ stage[c] = "completing" /\ claims' = [claims EXCEPT ![event[c]] = "done"]
           \/ stage[c] = "releasing" /\ claims' = [claims EXCEPT ![event[c]] = "free"]
    BY <1>7 DEF Complete, Release, Claims!Complete, Claims!Release
  <2>2. step[c] = "idle"
    BY <2>1 DEF Agreement
  <2>3. \A d \in Processes \ {c} : stage'[d] = stage[d] /\ event'[d] = event[d]
    BY <2>1 DEF Claims!Return
  <2>4. stage'[c] = "idle"
    BY <2>1 DEF Claims!Return
  <2> QED
    BY <2>1, <2>2, <2>3, <2>4 DEF mailVars
<1>8. ASSUME NEW e \in Events, Expire(e)
      PROVE  FALSE
  BY <1>8 DEF Expire, Claims!Expire, Claims!Holders, ClaimIsHeld
<1>9. ASSUME NEW c \in Processes,
             ClaimError(c) \/ PublishFails(c) \/ RedisFails(c) \/ Exit(c)
      PROVE  FALSE
  BY <1>9 DEF ClaimError, Claims!ClaimError, PublishFails, Mail!PublishError, RedisFails,
              Claims!CompleteError, Claims!ReleaseError, Exit, Kafka!Exit
<1>10. ASSUME NEW c \in Processes, Refused(c)
       PROVE  OnceInv'
  BY <1>1, <1>10 DEF Refused, Claims!ClaimRefused, Claims!claimVars, claimVars
<1>11. CASE Transport
  BY <1>1, <1>11 DEF Transport
<1>12. CASE UNCHANGED vars
  BY <1>1, <1>12 DEF vars
<1> QED
  BY <1>2, <1>4, <1>5, <1>6, <1>7, <1>8, <1>9, <1>10, <1>11, <1>12 DEF Next

\* OnceInv holds in every state.
LEMMA PipelineOnce ==
  ASSUME "redis" \notin Faults, "exit" \notin Faults, "ttl" \notin Faults,
         "publish" \notin Faults
  PROVE  Spec => []OnceInv
<1>1. Init => OnceInv
  BY DEF Init, Claims!Init, Mail!Init, OnceInv, HandledOnce, Untouched
<1>2. /\ OnceInv /\ Agreement /\ Exclusive /\ HasKey /\ ClaimIsHeld
      /\ HasEvent /\ Claims!TypeOK /\ Mail!TypeOK /\ [Next]_vars
      => OnceInv'
  BY OnceStep
<1> QED
  BY <1>1, <1>2, PipelineAgrees, PipelineGuards, PipelineHolds, PipelineHasEvent,
     PipelineTypes, PTL DEF Spec

\* However often a command is sent, redelivered, requeued or read after a
\* rebalance, one mail leaves and one result, for any number of processes, as
\* long as Redis answers, results get published, no process ends and no handler
\* outlives its key.  The loop itself and the SMTP server may fail at will.
THEOREM OneMailOneResult ==
  ASSUME "redis" \notin Faults, "exit" \notin Faults, "ttl" \notin Faults,
         "publish" \notin Faults
  PROVE  Spec => []HandledOnce
<1>1. OnceInv => HandledOnce
  BY DEF OnceInv
<1> QED
  BY <1>1, PipelineOnce, PTL

-----------------------------------------------------------------------------
\* A record of e that nobody has accounted for, or a copy that comes back.
Waiting(e) ==
  \/ \E place \in Kafka!Place :
       /\ place.off <= Len(log[place.part])
       /\ place \notin accounted
       /\ Kafka!At(place).event = e
  \/ \E r \in Kafka!Record : r.event = e /\ retry[r] > 0

Settled(e) == Answered(e) \/ DeadLettered(e) \/ Waiting(e)

AtWork(e) ==
  \E c \in Processes : mode[c] \in {"handling", "requeueing", "burying"} /\ Current(c) = e

\* What waits is not committed yet.
LEMMA WaitingOutstanding ==
  ASSUME RecordInv, NEW e \in Events, Settled(e) \/ AtWork(e)
  PROVE  Answered(e) \/ DeadLettered(e) \/ Outstanding(e)
<1>1. ASSUME NEW place \in Kafka!Place, place.off <= Len(log[place.part]),
             place \notin accounted, Kafka!At(place).event = e
      PROVE  Outstanding(e)
  <2>1. PICK p \in Partitions, n \in Nat \ {0} : place = [part |-> p, off |-> n]
    BY DEF Kafka!Place
  <2>2. ~ n \in 1..committed[p] /\ committed[p] \in Nat /\ n <= Len(log[p])
    BY <1>1, <2>1 DEF RecordInv, Kafka!CommittedAccounted, Kafka!TypeOK
  <2>3. n \in (committed[p] + 1)..Len(log[p])
    BY <2>2 DEF RecordInv, Kafka!TypeOK
  <2> QED
    BY <1>1, <2>1, <2>3 DEF Outstanding, Kafka!At
<1>2. AtWork(e) => Outstanding(e)
  BY DEF AtWork, Outstanding, Kafka!Working
<1> QED
  BY <1>1, <1>2 DEF Settled, Waiting, Outstanding

\* A record just written waits.
LEMMA NewRecordWaits ==
  ASSUME RecordInv, NEW p \in Partitions, NEW r \in Kafka!Record, Kafka!Write(p, r),
         accounted' = accounted
  PROVE  Waiting(r.event)'
<1> DEFINE place == [part |-> p, off |-> Len(log[p]) + 1]
<1>1. log[p] \in Seq(Kafka!Record) /\ log'[p] = Append(log[p], r)
  BY DEF RecordInv, Kafka!TypeOK, Kafka!Write
<1>2. Len(log'[p]) = Len(log[p]) + 1 /\ log'[p][Len(log[p]) + 1] = r
  BY <1>1
<1>3. place \in Kafka!Place
  BY <1>1 DEF Kafka!Place
<1>4. place \notin accounted
  BY <1>1 DEF RecordInv
<1>5. place.off <= Len(log'[place.part]) /\ log'[place.part][place.off] = r
  BY <1>1, <1>2
<1> HIDE DEF place
<1> QED
  BY <1>3, <1>4, <1>5 DEF Waiting, Kafka!At

\* The kinds of steps a record in the log may meet.
LEMMA Shapes ==
  ASSUME [Next]_vars, RecordInv
  PROVE  \/ UNCHANGED <<log, accounted>> /\ buried \subseteq buried'
            /\ \A r \in Kafka!Record : retry[r] > 0 => retry'[r] > 0
         \/ \E p \in Partitions, r \in Kafka!Record :
              /\ Kafka!Write(p, r)
              /\ UNCHANGED <<mode, cur, accounted, buried>>
              /\ \A s \in Kafka!Record \ {r} : retry[s] > 0 => retry'[s] > 0
         \/ \E c \in Processes : Kafka!Requeue(c)
         \/ \E c \in Processes : Refused(c) \/ Complete(c)
<1> DEFINE Stays == UNCHANGED <<log, accounted>> /\ buried \subseteq buried'
                      /\ \A r \in Kafka!Record : retry[r] > 0 => retry'[r] > 0
<1> USE PipelineAssumption
<1>0. retry \in [Kafka!Record -> Nat]
  BY DEF RecordInv, Kafka!TypeOK
<1>1. ASSUME UNCHANGED <<log, accounted, buried, retry>>
      PROVE  Stays
  BY <1>1
<1>2. CASE Kafka!Environment
  <2>1. CASE log' = log
    <3>1. ASSUME NEW p \in Partitions, NEW r \in Kafka!Record, Kafka!Write(p, r)
          PROVE  FALSE
      <4>1. log[p] \in Seq(Kafka!Record) /\ log'[p] = Append(log[p], r)
        BY <3>1 DEF RecordInv, Kafka!TypeOK, Kafka!Write
      <4>2. Len(log'[p]) # Len(log[p])
        BY <4>1
      <4> QED
        BY <2>1, <4>2
    <3>2. \E p \in Partitions, c \in Processes : Kafka!Assign(p, c) \/ Kafka!Rebalance(p, c)
      <4>1. \A e \in Events : [event |-> e, attempt |-> 0] \in Kafka!Record
        BY DEF Kafka!Record
      <4> QED
        BY <1>2, <3>1, <4>1 DEF Kafka!Environment, Kafka!Produce, Kafka!Forward
    <3> QED
      BY <1>1, <3>2 DEF Kafka!Assign, Kafka!Rebalance, Kafka!AssignTo
  <2>2. CASE log' # log
    BY <1>0, <1>2, <2>2, EnvironmentWrites
  <2> QED
    BY <2>1, <2>2
<1>3. ASSUME NEW c \in Processes, Kafka!Loop(c) \/ Kafka!Failure(c), ~ Kafka!Requeue(c)
      PROVE  Stays
  <2>1. CASE Kafka!RequeueError(c)
    BY <1>0, <2>1 DEF Kafka!RequeueError, Kafka!Enqueue
  <2>2. CASE ~ Kafka!RequeueError(c)
    BY <1>3, <2>2 DEF Kafka!Loop, Kafka!Failure, Kafka!Start, Kafka!Resubscribe,
       Kafka!Subscribe, Kafka!Fetch, Kafka!FetchError, Kafka!Commit, Kafka!CommitError,
       Kafka!Bury, Kafka!BuryError
  <2> QED
    BY <2>1, <2>2
<1>4. ASSUME NEW c \in Processes, Kafka!HandlerReturns(c, "transient") \/ Kafka!Exit(c)
      PROVE  Stays
  BY <1>4 DEF Kafka!HandlerReturns, Kafka!Exit
<1>5. ASSUME UNCHANGED consumerVars
      PROVE  Stays
  BY <1>5 DEF consumerVars
<1>6. ASSUME NEW c \in Processes, ClaimError(c) \/ Release(c) \/ RedisFails(c) \/ Exit(c)
      PROVE  Stays
  BY <1>4, <1>6 DEF ClaimError, Release, RedisFails, Exit
<1>7. ASSUME \/ \E c \in Processes :
                  \/ Claim(c) \/ Work(c) \/ SendFails(c)
                  \/ HandleOK(c) \/ HandleError(c) \/ PublishFails(c)
             \/ \E e \in Events : Expire(e)
      PROVE  Stays
  BY <1>5, <1>7 DEF Claim, Work, SendFails, HandleOK, HandleError, PublishFails, Expire
<1>8. CASE UNCHANGED vars
  BY <1>5, <1>8 DEF vars
<1> QED
  BY <1>2, <1>3, <1>6, <1>7, <1>8 DEF Next, Transport

\* Results are only added.
LEMMA ResultsStay ==
  ASSUME [Next]_vars, Mail!TypeOK, NEW e \in Events, Answered(e)
  PROVE  Answered(e)'
<1> USE DEF Mail!TypeOK, Answered
<1>1. ASSUME NEW c \in Processes, Mail!PublishResult(c)
      PROVE  Answered(e)'
  BY <1>1 DEF Mail!PublishResult
<1>2. CASE UNCHANGED results
  BY <1>2
<1>3. ASSUME NEW c \in Processes, HandleOK(c) \/ PublishFails(c)
      PROVE  Answered(e)'
  BY <1>1, <1>2, <1>3 DEF HandleOK, PublishFails, Mail!Publish, Mail!PublishError
<1>4. ASSUME NEW c \in Processes, Claim(c) \/ Work(c) \/ SendFails(c) \/ HandleError(c) \/ Exit(c)
      PROVE  UNCHANGED results
  BY <1>4 DEF Claim, Work, SendFails, HandleError, Exit, Mail!Take, Mail!Reject, Mail!Render,
              Mail!SendOK, Mail!SendRefused, Mail!ReplyLost, Mail!BreakerOpen, Mail!Conclude,
              Mail!DecodeError, Mail!Exit, mailVars
<1>5. ASSUME \/ Transport \/ UNCHANGED vars
             \/ \E c \in Processes : \/ Refused(c) \/ ClaimError(c) \/ Complete(c)
                                     \/ Release(c) \/ RedisFails(c)
             \/ \E f \in Events : Expire(f)
      PROVE  UNCHANGED results
  BY <1>5 DEF Transport, Refused, ClaimError, Complete, Release, RedisFails, Expire, vars, mailVars
<1> QED
  BY <1>2, <1>3, <1>4, <1>5 DEF Next

\* A copy in the retry topic is a copy of the record at hand, and counted.
LEMMA RequeueWaits ==
  ASSUME RecordInv, NEW c \in Processes, mode[c] = "requeueing", Kafka!Enqueue(c),
         NEW e \in Events, Current(c) = e
  PROVE  Waiting(e)'
<1> DEFINE r == Kafka!RetryCopy(Kafka!At(cur[c]))
<1> USE PipelineAssumption
<1>1. cur[c] \in Kafka!Place /\ cur[c].off <= Len(log[cur[c].part])
  BY DEF RecordInv, Kafka!TypeOK, Kafka!Working
<1>2. Kafka!At(cur[c]) \in Kafka!Record
  <2>1. PICK p \in Partitions, n \in Nat \ {0} : cur[c] = [part |-> p, off |-> n]
    BY <1>1 DEF Kafka!Place
  <2>2. log[p] \in Seq(Kafka!Record) /\ n \in 1..Len(log[p])
    BY <1>1, <2>1 DEF RecordInv, Kafka!TypeOK
  <2> QED
    BY <2>1, <2>2 DEF Kafka!At
<1>3. Kafka!RetryAttempt(Kafka!At(cur[c])) < MaxAttempts
  BY DEF RecordInv
<1>4. r \in Kafka!Record /\ r.event = e
  BY <1>2, <1>3 DEF Kafka!RetryCopy, Kafka!RetryAttempt, Kafka!Record, Current
<1>5. retry \in [Kafka!Record -> Nat]
  BY DEF RecordInv, Kafka!TypeOK
<1>6. retry'[r] > 0
  BY <1>4, <1>5 DEF Kafka!Enqueue
<1>7. \E s \in Kafka!Record : s.event = e /\ retry'[s] > 0
  BY <1>4, <1>6
<1> QED
  BY <1>7 DEF Waiting

\* What is settled stays so, unless the loop takes it for handled.
LEMMA SettledStep ==
  ASSUME RecordInv, Mail!TypeOK, [Next]_vars, NEW e \in Events, Settled(e),
         \A c \in Processes : (Refused(c) \/ Complete(c)) /\ Current(c) = e => Answered(e)
  PROVE  Settled(e)'
<1>1. CASE Answered(e)
  BY <1>1, ResultsStay DEF Settled
<1>2. buried \subseteq Kafka!Place /\ accounted \subseteq Kafka!Place
  BY DEF RecordInv, Kafka!TypeOK
<1>3. ASSUME log' = log, buried \subseteq buried', DeadLettered(e)
      PROVE  DeadLettered(e)'
  BY <1>3 DEF DeadLettered, Kafka!At
<1>4. ASSUME log' = log, accounted' = accounted,
             \A r \in Kafka!Record : retry[r] > 0 => retry'[r] > 0, Waiting(e)
      PROVE  Waiting(e)'
  BY <1>4 DEF Waiting, Kafka!At
<1>5. ASSUME UNCHANGED <<log, accounted>>, buried \subseteq buried',
             \A r \in Kafka!Record : retry[r] > 0 => retry'[r] > 0
      PROVE  Settled(e)'
  BY <1>1, <1>3, <1>4, <1>5 DEF Settled
<1>6. ASSUME NEW p \in Partitions, NEW r \in Kafka!Record, Kafka!Write(p, r),
             UNCHANGED <<mode, cur, accounted, buried>>,
             \A s \in Kafka!Record \ {r} : retry[s] > 0 => retry'[s] > 0
      PROVE  Settled(e)'
  <2>1. \A place \in Kafka!Place : place.off <= Len(log[place.part]) =>
          Kafka!At(place)' = Kafka!At(place)
    BY <1>6, RecordsStay
  <2>2. CASE DeadLettered(e)
    <3>1. \A place \in buried : Kafka!At(place)' = Kafka!At(place)
      BY <1>2, <2>1 DEF RecordInv
    <3> QED
      BY <1>6, <2>2, <3>1 DEF DeadLettered, Settled, Kafka!At
  <2>3. ASSUME NEW place \in Kafka!Place, place.off <= Len(log[place.part]),
               place \notin accounted, Kafka!At(place).event = e
        PROVE  Waiting(e)'
    <3>1. PICK q \in Partitions, n \in Nat \ {0} : place = [part |-> q, off |-> n]
      BY DEF Kafka!Place
    <3>2. Len(log'[q]) \in {Len(log[q]), Len(log[q]) + 1} /\ Len(log[q]) \in Nat
      <4>1. log[q] \in Seq(Kafka!Record)
        BY DEF RecordInv, Kafka!TypeOK
      <4>2. log'[q] = log[q] \/ log'[q] = Append(log[q], r)
        BY <1>6 DEF Kafka!Write, RecordInv, Kafka!TypeOK
      <4> QED
        BY <4>1, <4>2
    <3>3. place.off <= Len(log'[place.part])
      BY <2>3, <3>1, <3>2
    <3>4. Kafka!At(place)' = Kafka!At(place)
      BY <2>1, <2>3
    <3> QED
      BY <1>6, <2>3, <3>3, <3>4 DEF Waiting, Kafka!At
  <2>4. ASSUME NEW s \in Kafka!Record, s.event = e, retry[s] > 0
        PROVE  Waiting(e)'
    <3>1. CASE s = r
      BY <1>6, <2>4, <3>1, NewRecordWaits
    <3>2. CASE s # r
      BY <1>6, <2>4, <3>2 DEF Waiting
    <3> QED
      BY <3>1, <3>2
  <2>5. CASE Waiting(e)
    BY <2>3, <2>4, <2>5 DEF Waiting, Settled
  <2> QED
    BY <1>1, <2>2, <2>5 DEF Settled
<1>7. ASSUME NEW c \in Processes, UNCHANGED <<log, buried>>, cur[c] \in Kafka!Place,
             accounted' = accounted \cup {cur[c]},
             \A r \in Kafka!Record : retry[r] > 0 => retry'[r] > 0,
             Current(c) = e => Settled(e)'
      PROVE  Settled(e)'
  <2>1. CASE Current(c) = e
    BY <1>7, <2>1
  <2>2. CASE Current(c) # e /\ Waiting(e)
    BY <1>7, <2>2 DEF Waiting, Settled, Current, Kafka!At
  <2> QED
    BY <1>1, <1>3, <1>7, <2>1, <2>2 DEF Settled
<1>8. ASSUME NEW c \in Processes, Kafka!Requeue(c)
      PROVE  Settled(e)'
  <2>1. /\ UNCHANGED <<log, buried>> /\ mode[c] = "requeueing" /\ Kafka!Enqueue(c)
        /\ accounted' = accounted \cup {cur[c]}
    BY <1>8 DEF Kafka!Requeue
  <2>2. cur[c] \in Kafka!Place
    BY <2>1, PipelineAssumption DEF RecordInv, Kafka!TypeOK, Kafka!Working
  <2>3. \A r \in Kafka!Record : retry[r] > 0 => retry'[r] > 0
    BY <2>1, PipelineAssumption DEF RecordInv, Kafka!TypeOK, Kafka!Enqueue
  <2>4. Current(c) = e => Settled(e)'
    BY <2>1, RequeueWaits DEF Settled
  <2> QED
    BY <1>7, <2>1, <2>2, <2>3, <2>4
<1>9. ASSUME NEW c \in Processes, Refused(c) \/ Complete(c)
      PROVE  Settled(e)'
  <2>1. Kafka!HandlerReturns(c, "ok")
    BY <1>9 DEF Refused, Complete
  <2>2. /\ UNCHANGED <<log, buried, retry>> /\ mode[c] = "handling"
        /\ accounted' = accounted \cup {cur[c]}
    BY <2>1 DEF Kafka!HandlerReturns
  <2>3. cur[c] \in Kafka!Place
    BY <2>2, PipelineAssumption DEF RecordInv, Kafka!TypeOK, Kafka!Working
  <2> QED
    BY <1>1, <1>7, <1>9, <2>2, <2>3
<1> QED
  BY <1>5, <1>6, <1>8, <1>9, Shapes

\* What is sent or put back waits.
LEMMA SentStep ==
  ASSUME RecordInv, [Next]_vars, NEW e \in Events, Sent(e)', ~ Sent(e)
  PROVE  Settled(e)'
<1>1. ASSUME log' = log
      PROVE  FALSE
  BY <1>1 DEF Sent
<1>2. PICK p \in Partitions, r \in Kafka!Record : Kafka!Write(p, r) /\ accounted' = accounted
  BY <1>1, Shapes DEF Kafka!Requeue, Refused, Complete, Kafka!HandlerReturns
<1>3. PICK q \in Partitions : \E n \in DOMAIN log'[q] : log'[q][n].event = e
  BY DEF Sent
<1>4. log[q] \in Seq(Kafka!Record)
  BY DEF RecordInv, Kafka!TypeOK
<1>5. r.event = e
  <2>1. log'[q] = log[q] \/ log'[q] = Append(log[q], r)
    BY <1>2 DEF Kafka!Write, RecordInv, Kafka!TypeOK
  <2>2. ~ \E m \in DOMAIN log[q] : log[q][m].event = e
    BY DEF Sent
  <2> QED
    BY <1>3, <1>4, <2>1, <2>2
<1> QED
  BY <1>2, <1>5, NewRecordWaits DEF Settled

\* A key that says "processing" has a process, or is no longer needed.
Held(e) ==
  claims[e] = "processing" =>
    Answered(e) \/ \E c \in Processes : stage[c] # "idle" /\ event[c] = e

\* The loop takes a record for handled when its event is answered, or when
\* another process is at work on it.
LEMMA TakenForHandled ==
  ASSUME Agreement, AnsweredInv, Claims!TypeOK, NEW c \in Processes,
         Refused(c) \/ Complete(c), NEW e \in Events, Current(c) = e, Held(e)
  PROVE  \/ Answered(e)
         \/ \E d \in Processes : d # c /\ mode[d] = "handling" /\ Current(d) = e
<1>1. CASE Complete(c)
  <2>1. stage[c] = "completing" /\ event[c] = e
    BY <1>1 DEF Complete, Claims!Complete, Agreement
  <2> QED
    BY <2>1 DEF AnsweredInv, CompletingAnswered
<1>2. CASE Refused(c)
  <2>1. claims[e] # "free" /\ stage[c] = "idle"
    BY <1>2 DEF Refused, Delivered, Claims!ClaimRefused
  <2>2. CASE claims[e] = "done"
    BY <2>2 DEF AnsweredInv, DoneIsAnswered
  <2>3. CASE claims[e] = "processing"
    <3>1. CASE Answered(e)
      BY <3>1
    <3>2. ASSUME NEW d \in Processes, stage[d] # "idle", event[d] = e
          PROVE  d # c /\ mode[d] = "handling" /\ Current(d) = e
      BY <2>1, <3>2 DEF Agreement
    <3> QED
      BY <2>3, <3>1, <3>2 DEF Held
  <2> QED
    BY <2>1, <2>2, <2>3 DEF Claims!TypeOK, Claims!Claim
<1> QED
  BY <1>1, <1>2

\* One process, whatever fails in the loop, in the retry and dead-letter
\* writes, at the SMTP server and in publishing: no command disappears.
THEOREM SoleProcessLosesNothing ==
  ASSUME "redis" \notin Faults, "exit" \notin Faults, \A c, d \in Processes : c = d
  PROVE  Spec => []NoSilentLoss
<1> DEFINE Safe == \A e \in Events : Sent(e) => Settled(e)
<1>1. Init => Safe
  BY DEF Init, Kafka!Init, Sent
<1>2. /\ Safe /\ RecordInv /\ Agreement /\ AnsweredInv /\ ClaimIsHeld
      /\ Claims!TypeOK /\ Mail!TypeOK /\ [Next]_vars
      => Safe'
  <2> SUFFICES ASSUME Safe, RecordInv, Agreement, AnsweredInv, ClaimIsHeld,
                      Claims!TypeOK, Mail!TypeOK, [Next]_vars, NEW e \in Events, Sent(e)'
               PROVE  Settled(e)'
    OBVIOUS
  <2>1. Held(e)
    BY DEF ClaimIsHeld, Held
  <2>2. \A c \in Processes : (Refused(c) \/ Complete(c)) /\ Current(c) = e => Answered(e)
    BY <2>1, TakenForHandled
  <2> QED
    BY <2>2, SettledStep, SentStep
<1>3. RecordInv /\ Safe => NoSilentLoss
  BY WaitingOutstanding DEF NoSilentLoss, Kept
<1> HIDE DEF Safe
<1> QED
  BY <1>1, <1>2, <1>3, PipelineRecords, PipelineAgrees, PipelineAnswers, PipelineHolds,
     PipelineTypes, PTL DEF Spec

\* A process at work on an event settles it, or goes on, or gives it up.
LEMMA WorkStep ==
  ASSUME RecordInv, Agreement, AnsweredInv, Claims!TypeOK, Mail!TypeOK,
         [Next]_vars, NEW e \in Events, AtWork(e), Held(e), e \notin abandoned'
  PROVE  Settled(e)' \/ AtWork(e)'
<1>0. PICK d \in Processes :
        mode[d] \in {"handling", "requeueing", "burying"} /\ Current(d) = e
  BY DEF AtWork
<1>1. /\ mode \in [Processes -> Kafka!Mode] /\ cur \in [Processes -> Kafka!Place \cup {NoRecord}]
      /\ cur[d] \in Kafka!Place /\ cur[d].off <= Len(log[cur[d].part])
  BY <1>0, PipelineAssumption DEF RecordInv, Kafka!TypeOK, Kafka!Working
<1>2. ASSUME NEW h \in Processes, Current(h) = e, UNCHANGED <<log, cur>>,
             mode'[h] \in {"handling", "requeueing", "burying"}
      PROVE  AtWork(e)'
  BY <1>2 DEF AtWork, Current, Kafka!At
<1>3. ASSUME NEW c \in Processes, NEW outcome \in {"ok", "transient"},
             Kafka!HandlerReturns(c, outcome), c # d \/ outcome = "transient"
      PROVE  AtWork(e)'
  <2>1. UNCHANGED <<log, cur>>
    BY <1>3 DEF Kafka!HandlerReturns
  <2>2. mode'[d] \in {"handling", "requeueing", "burying"}
    BY <1>0, <1>1, <1>3 DEF Kafka!HandlerReturns
  <2> QED
    BY <1>0, <1>2, <2>1, <2>2
<1>4. ASSUME NEW c \in Processes, Refused(c) \/ Complete(c)
      PROVE  Settled(e)' \/ AtWork(e)'
  <2>1. Kafka!HandlerReturns(c, "ok")
    BY <1>4 DEF Refused, Complete
  <2>2. CASE c # d
    BY <1>3, <2>1, <2>2
  <2>3. CASE c = d /\ Answered(e)
    BY <2>3, ResultsStay DEF Settled
  <2>4. ASSUME c = d, NEW h \in Processes, h # c, mode[h] = "handling", Current(h) = e
        PROVE  AtWork(e)'
    <3>1. UNCHANGED <<log, cur>> /\ mode'[h] = "handling"
      BY <1>1, <2>1, <2>4 DEF Kafka!HandlerReturns
    <3> QED
      BY <1>2, <2>4, <3>1
  <2> QED
    BY <1>0, <1>4, <2>2, <2>3, <2>4, TakenForHandled
<1>5. ASSUME NEW c \in Processes, ClaimError(c) \/ Release(c) \/ RedisFails(c)
      PROVE  AtWork(e)'
  BY <1>3, <1>5 DEF ClaimError, Release, RedisFails
<1>6. CASE Kafka!Environment
  <2>1. UNCHANGED <<mode, cur>>
    BY <1>6 DEF Kafka!Environment, Kafka!Produce, Kafka!Forward, Kafka!Assign,
                Kafka!Rebalance, Kafka!AssignTo
  <2>2. Current(d)' = Current(d)
    BY <1>1, <1>6, <2>1, EnvironmentWrites, RecordsStay DEF Current, Kafka!At
  <2> QED
    BY <1>0, <2>1, <2>2 DEF AtWork
<1>7. ASSUME NEW c \in Processes, Kafka!Loop(c) \/ (Kafka!Failure(c) /\ GiveUp(c))
      PROVE  Settled(e)' \/ AtWork(e)'
  <2>1. log' = log
    BY <1>7 DEF Kafka!Loop, Kafka!Failure, Kafka!Start, Kafka!Resubscribe, Kafka!Subscribe,
                Kafka!Fetch, Kafka!FetchError, Kafka!Commit, Kafka!CommitError, Kafka!Requeue,
                Kafka!RequeueError, Kafka!Bury, Kafka!BuryError
  <2>2. CASE c # d
    <3>1. mode'[d] = mode[d] /\ cur'[d] = cur[d]
      BY <1>1, <1>7, <2>2 DEF Kafka!Loop, Kafka!Failure, Kafka!Start, Kafka!Resubscribe,
         Kafka!Subscribe, Kafka!Fetch, Kafka!FetchError, Kafka!Commit, Kafka!CommitError,
         Kafka!Requeue, Kafka!RequeueError, Kafka!Bury, Kafka!BuryError, Kafka!Leave, Kafka!Continue
    <3> QED
      BY <1>0, <2>1, <3>1 DEF AtWork, Current, Kafka!At
  <2>3. CASE c = d /\ Kafka!Requeue(c)
    BY <1>0, <2>3, RequeueWaits DEF Kafka!Requeue, Settled
  <2>4. CASE c = d /\ Kafka!Failure(c) /\ GiveUp(c)
    <3>1. AtRecord(c) /\ Current(c) = e
      BY <1>0, <2>4 DEF AtRecord
    <3>2. Answered(e)
      BY <1>7, <2>4, <3>1 DEF GiveUp
    <3> QED
      BY <3>2, ResultsStay DEF Settled
  <2>5. CASE c = d /\ Kafka!Bury(c)
    <3>1. cur[d] \in buried' /\ log' = log
      BY <2>1, <2>5 DEF Kafka!Bury
    <3>2. DeadLettered(e)'
      BY <1>0, <3>1 DEF DeadLettered, Current, Kafka!At
    <3> QED
      BY <3>2 DEF Settled
  <2> QED
    BY <1>0, <1>7, <2>2, <2>3, <2>4, <2>5 DEF Kafka!Loop, Kafka!Start, Kafka!Resubscribe,
       Kafka!Subscribe, Kafka!Fetch, Kafka!Commit
<1>8. ASSUME UNCHANGED consumerVars
      PROVE  AtWork(e)'
  BY <1>0, <1>2, <1>8 DEF consumerVars
<1>9. ASSUME \/ UNCHANGED vars
             \/ \E c \in Processes :
                  \/ Claim(c) \/ Work(c) \/ SendFails(c)
                  \/ HandleOK(c) \/ HandleError(c) \/ PublishFails(c)
             \/ \E f \in Events : Expire(f)
      PROVE  AtWork(e)'
  BY <1>8, <1>9 DEF vars, Claim, Work, SendFails, HandleOK, HandleError, PublishFails, Expire
<1>10. ASSUME NEW c \in Processes, Exit(c)
       PROVE  Settled(e)' \/ AtWork(e)'
  <2>1. CASE c = d
    <3>1. AtRecord(c) /\ Current(c) = e /\ GiveUp(c)
      BY <1>0, <1>10, <2>1 DEF AtRecord, Exit
    <3>2. Answered(e)
      BY <3>1 DEF GiveUp
    <3> QED
      BY <3>2, ResultsStay DEF Settled
  <2>2. CASE c # d
    <3>1. log' = log /\ mode'[d] = mode[d] /\ cur'[d] = cur[d]
      BY <1>1, <1>10, <2>2 DEF Exit, Kafka!Exit, Kafka!Leave
    <3> QED
      BY <1>0, <3>1 DEF AtWork, Current, Kafka!At
  <2> QED
    BY <2>1, <2>2
<1> QED
  BY <1>4, <1>5, <1>6, <1>7, <1>9, <1>10 DEF Next, Transport

\* What is given up stays given up.
LEMMA GivenUpStays ==
  ASSUME [Next]_vars
  PROVE  abandoned \subseteq abandoned'
BY DEF Next, Transport, GiveUp, Claim, Refused, ClaimError, Work, SendFails, HandleOK,
       HandleError, PublishFails, Complete, Release, RedisFails, Exit, Expire, vars

\* Who leaves a key behind gives the event up, if it is not answered.
LEMMA HeldStep ==
  ASSUME Agreement, AnsweredInv, HasEvent, Claims!TypeOK, Mail!TypeOK, [Next]_vars,
         NEW e \in Events, Held(e), e \notin abandoned'
  PROVE  Held(e)'
<1> USE PipelineAssumption DEF Claims!TypeOK
<1>1. ASSUME claims'[e] = "processing" => claims[e] = "processing",
             \A c \in Processes : stage[c] # "idle" /\ event[c] = e =>
               stage'[c] # "idle" /\ event'[c] = e
      PROVE  Held(e)'
  BY <1>1, ResultsStay DEF Held
<1>2. ASSUME Answered(e)
      PROVE  Held(e)'
  BY <1>2, ResultsStay DEF Held
<1>3. ASSUME UNCHANGED claimVars
      PROVE  Held(e)'
  BY <1>1, <1>3 DEF claimVars
<1>4. ASSUME NEW c \in Processes, Claim(c)
      PROVE  Held(e)'
  <2>1. PICK f \in Events : Claims!ClaimTaken(c, f)
    BY <1>4 DEF Claim, Delivered, HasEvent
  <2>2. CASE f = e
    BY <2>1, <2>2 DEF Claims!ClaimTaken, Held
  <2>3. CASE f # e
    BY <1>1, <2>1, <2>3 DEF Claims!ClaimTaken
  <2> QED
    BY <2>2, <2>3
<1>5. ASSUME NEW c \in Processes, ClaimError(c)
      PROVE  Held(e)'
  <2>1. mode[c] = "handling" /\ UNCHANGED <<stage, event>>
    BY <1>5 DEF ClaimError, Delivered, Claims!ClaimError
  <2>2. CASE claims' = claims \/ Current(c) # e
    BY <1>1, <1>5, <2>1, <2>2 DEF ClaimError, Claims!ClaimError
  <2>3. CASE claims' # claims /\ Current(c) = e
    <3>1. AtRecord(c) /\ GiveUp(c)
      BY <1>5, <2>1, <2>3 DEF ClaimError, AtRecord
    <3>2. Answered(e)
      BY <2>3, <3>1 DEF GiveUp
    <3> QED
      BY <1>2, <3>2
  <2> QED
    BY <2>2, <2>3
<1>6. ASSUME NEW c \in Processes, HandleOK(c) \/ HandleError(c) \/ PublishFails(c)
      PROVE  Held(e)'
  <2>1. /\ claims' = claims /\ event' = event
        /\ \E s \in {"completing", "releasing"} : stage' = [stage EXCEPT ![c] = s]
    BY <1>6 DEF HandleOK, HandleError, PublishFails, Claims!HandlerOK, Claims!HandlerErr
  <2> QED
    BY <1>1, <2>1
<1>7. ASSUME NEW c \in Processes, stage[c] # "idle", Claims!Return(c),
             event[c] = e => claims'[e] # "processing" \/ Answered(e),
             \A f \in Events \ {event[c]} : claims'[f] = claims[f]
      PROVE  Held(e)'
  <2>1. CASE event[c] = e
    BY <1>2, <1>7, <2>1 DEF Held
  <2>2. CASE event[c] # e
    BY <1>1, <1>7, <2>2 DEF Claims!Return
  <2> QED
    BY <2>1, <2>2
<1>8. ASSUME NEW c \in Processes, Complete(c) \/ Release(c)
      PROVE  Held(e)'
  <2>1. /\ stage[c] # "idle" /\ Claims!Return(c)
        /\ \E v \in {"free", "done"} : claims' = [claims EXCEPT ![event[c]] = v]
    BY <1>8 DEF Complete, Release, Claims!Complete, Claims!Release
  <2> QED
    BY <1>7, <2>1
<1>9. ASSUME NEW c \in Processes, stage[c] # "idle", GiveUp(c)
      PROVE  event[c] = e => Answered(e)
  <2>1. mode[c] = "handling" /\ event[c] = Current(c)
    BY <1>9 DEF Agreement
  <2> QED
    BY <1>9, <2>1 DEF GiveUp, AtRecord
<1>10. ASSUME NEW c \in Processes, RedisFails(c)
       PROVE  Held(e)'
  <2>1. /\ stage[c] # "idle" /\ Claims!Return(c) /\ GiveUp(c)
        /\ claims' = claims \/ claims' = [claims EXCEPT ![event[c]] = "done"]
    BY <1>10 DEF RedisFails, Claims!CompleteError, Claims!ReleaseError
  <2>2. event[c] = e => Answered(e)
    BY <1>9, <2>1
  <2> QED
    BY <1>7, <2>1, <2>2
<1>11. ASSUME NEW c \in Processes, Exit(c)
       PROVE  Held(e)'
  <2>1. CASE stage[c] = "idle"
    BY <1>3, <1>11, <2>1 DEF Exit
  <2>2. CASE stage[c] # "idle"
    <3>1. Claims!Return(c) /\ claims' = claims /\ GiveUp(c)
      BY <1>11, <2>2 DEF Exit, Claims!Exit
    <3>2. event[c] = e => Answered(e)
      BY <1>9, <2>2, <3>1
    <3> QED
      BY <1>7, <2>2, <3>1, <3>2
  <2> QED
    BY <2>1, <2>2
<1>12. ASSUME NEW f \in Events, Expire(f)
       PROVE  Held(e)'
  BY <1>1, <1>12 DEF Expire, Claims!Expire
<1>13. ASSUME \/ Transport \/ UNCHANGED vars
              \/ \E c \in Processes : Refused(c) \/ Work(c) \/ SendFails(c)
       PROVE  Held(e)'
  BY <1>3, <1>13 DEF Transport, vars, Refused, Work, SendFails, Claims!ClaimRefused,
                     Claims!claimVars, claimVars
<1> QED
  BY <1>4, <1>5, <1>6, <1>8, <1>10, <1>11, <1>12, <1>13 DEF Next

\* Whatever fails and for any number of processes: a command that disappears was
\* given up by a process that ended at work on it, could not write its copy or
\* dead letter, or left its key behind.  A refused claim is safe, for what the
\* other process fails it requeues, buries or gives up.
THEOREM LossesAreGivenUp == Spec => []LostOnlyIfGivenUp
<1> DEFINE Safe == \A e \in Events \ abandoned :
                     Held(e) /\ (Sent(e) => Settled(e) \/ AtWork(e))
<1>1. Init => Safe
  BY DEF Init, Kafka!Init, Claims!Init, Sent, Held
<1>2. /\ Safe /\ RecordInv /\ Agreement /\ AnsweredInv /\ HasEvent
      /\ Claims!TypeOK /\ Mail!TypeOK /\ [Next]_vars
      => Safe'
  <2> SUFFICES ASSUME Safe, RecordInv, Agreement, AnsweredInv, HasEvent,
                      Claims!TypeOK, Mail!TypeOK, [Next]_vars,
                      NEW e \in Events, e \notin abandoned'
               PROVE  Held(e)' /\ (Sent(e)' => Settled(e)' \/ AtWork(e)')
    OBVIOUS
  <2>1. Held(e) /\ (Sent(e) => Settled(e) \/ AtWork(e))
    BY GivenUpStays
  <2>2. Held(e)'
    BY <2>1, HeldStep
  <2>3. ASSUME Sent(e)'
        PROVE  Settled(e)' \/ AtWork(e)'
    <3>1. CASE ~ Sent(e)
      BY <2>3, <3>1, SentStep
    <3>2. CASE AtWork(e)
      BY <2>1, <3>2, WorkStep
    <3>3. CASE Settled(e) /\ ~ AtWork(e)
      <4>1. ASSUME NEW c \in Processes, Refused(c) \/ Complete(c), Current(c) = e
            PROVE  Answered(e)
        BY <2>1, <3>3, <4>1, TakenForHandled DEF AtWork
      <4> QED
        BY <3>3, <4>1, SettledStep
    <3> QED
      BY <2>1, <3>1, <3>2, <3>3
  <2> QED
    BY <2>2, <2>3
<1>3. RecordInv /\ Safe => LostOnlyIfGivenUp
  BY WaitingOutstanding DEF LostOnlyIfGivenUp, Kept
<1> HIDE DEF Safe
<1> QED
  BY <1>1, <1>2, <1>3, PipelineRecords, PipelineAgrees, PipelineAnswers, PipelineHasEvent,
     PipelineTypes, PTL DEF Spec

\* Any number of processes, as long as Redis answers, no process ends and the
\* retry and dead-letter topics take what is written: nothing is given up, so
\* nothing is lost.  Without the last it is (pipeline_rebalance shows the command).
THEOREM NothingLost ==
  ASSUME "redis" \notin Faults, "exit" \notin Faults,
         "requeue" \notin Faults, "bury" \notin Faults
  PROVE  Spec => []NoSilentLoss
<1> DEFINE NoneGivenUp == abandoned = {}
<1>1. Init => NoneGivenUp
  BY DEF Init
<1>2. NoneGivenUp /\ [Next]_vars => NoneGivenUp'
  <2> SUFFICES ASSUME [Next]_vars
               PROVE  abandoned' = abandoned
    OBVIOUS
  <2>1. ASSUME NEW c \in Processes, Kafka!Failure(c), GiveUp(c)
        PROVE  abandoned' = abandoned
    BY <2>1 DEF GiveUp, AtRecord, Kafka!Failure, Kafka!FetchError, Kafka!CommitError,
                Kafka!RequeueError, Kafka!BuryError
  <2>2. ASSUME NEW c \in Processes, ClaimError(c) \/ RedisFails(c) \/ Exit(c)
        PROVE  FALSE
    BY <2>2 DEF ClaimError, Claims!ClaimError, RedisFails, Claims!CompleteError,
                Claims!ReleaseError, Exit, Kafka!Exit
  <2> QED
    BY <2>1, <2>2 DEF Next, Transport, Claim, Refused, Work, SendFails, HandleOK, HandleError,
                      PublishFails, Complete, Release, Expire, vars
<1>3. NoneGivenUp /\ LostOnlyIfGivenUp => NoSilentLoss
  BY DEF LostOnlyIfGivenUp, NoSilentLoss
<1> HIDE DEF NoneGivenUp
<1> QED
  BY <1>1, <1>2, <1>3, LossesAreGivenUp, PTL DEF Spec

-----------------------------------------------------------------------------
\* The loop gives the handler only what it could unwrap, and puts back or
\* dead-letters only what cannot be read: nothing else fails in the handler.
Reads(c) ==
  /\ mode[c] = "handling" => Current(c) \notin BadEnvelope
  /\ mode[c] \in {"requeueing", "burying"} => Current(c) \in Unreadable
  /\ stage[c] = "releasing" => event[c] \in Unreadable

ReadInv ==
  /\ \A c \in Processes : Reads(c)
  /\ \A place \in buried : Kafka!At(place).event \in Unreadable

\* A step in which only process c moves, and nothing is dead-lettered but what
\* c works on and cannot be read.
LEMMA ReadOne ==
  ASSUME ReadInv, NEW c \in Processes, log' = log, Reads(c)',
         \A d \in Processes \ {c} :
           /\ mode'[d] = mode[d] /\ cur'[d] = cur[d]
           /\ stage'[d] = stage[d] /\ event'[d] = event[d],
         \/ buried' = buried
         \/ buried' = buried \cup {cur[c]} /\ Current(c) \in Unreadable
  PROVE  ReadInv'
<1>1. \A d \in Processes \ {c} : Reads(d)'
  BY DEF ReadInv, Reads, Current, Kafka!At
<1>2. \A place \in buried' : Kafka!At(place)'.event \in Unreadable
  BY DEF ReadInv, Current, Kafka!At
<1> QED
  BY <1>1, <1>2 DEF ReadInv

\* Every step keeps it.
LEMMA ReadStep ==
  ASSUME "redis" \notin Faults, "exit" \notin Faults, "publish" \notin Faults,
         ReadInv, Agreement, RecordInv, HasEvent, Claims!TypeOK, Mail!TypeOK, [Next]_vars
  PROVE  ReadInv'
<1> USE PipelineAssumption DEF Claims!TypeOK, Mail!TypeOK
<1>0. /\ mode \in [Processes -> Kafka!Mode] /\ cur \in [Processes -> Kafka!Place \cup {NoRecord}]
      /\ \A c \in Processes : Reads(c)
  BY DEF RecordInv, Kafka!TypeOK, ReadInv
<1>1. CASE Kafka!Environment /\ UNCHANGED <<claimVars, mailVars>>
  <2>1. UNCHANGED <<mode, cur, buried, stage, event>>
    BY <1>1 DEF Kafka!Environment, Kafka!Produce, Kafka!Forward, Kafka!Assign,
                Kafka!Rebalance, Kafka!AssignTo, claimVars
  <2>2. \A place \in Kafka!Place : place.off <= Len(log[place.part]) =>
          Kafka!At(place)' = Kafka!At(place)
    BY <1>1, EnvironmentWrites, RecordsStay DEF Kafka!At
  <2>3. \A place \in buried : Kafka!At(place)' = Kafka!At(place)
    BY <2>2 DEF RecordInv, Kafka!TypeOK
  <2>4. \A c \in Processes : mode[c] \in Kafka!Working => Current(c)' = Current(c)
    BY <2>1, <2>2, CurrentSent DEF Current, Kafka!At
  <2>5. \A c \in Processes : Reads(c)'
    BY <1>0, <2>1, <2>4 DEF Reads, Kafka!Working
  <2> QED
    BY <2>1, <2>3, <2>5 DEF ReadInv, Kafka!At
<1>2. ASSUME NEW c \in Processes, Kafka!Loop(c) \/ Kafka!Failure(c),
             UNCHANGED <<claimVars, mailVars>>
      PROVE  ReadInv'
  <2>1. log' = log /\ mode[c] # "handling" /\ UNCHANGED <<stage, event>>
    BY <1>2 DEF Kafka!Loop, Kafka!Failure, Kafka!Start, Kafka!Resubscribe, Kafka!Subscribe,
                Kafka!Fetch, Kafka!FetchError, Kafka!Commit, Kafka!CommitError, Kafka!Requeue,
                Kafka!RequeueError, Kafka!Bury, Kafka!BuryError, claimVars
  <2>2. \A d \in Processes \ {c} : mode'[d] = mode[d] /\ cur'[d] = cur[d]
    BY <1>0, <1>2 DEF Kafka!Loop, Kafka!Failure, Kafka!Start, Kafka!Resubscribe, Kafka!Subscribe,
                Kafka!Fetch, Kafka!FetchError, Kafka!Commit, Kafka!CommitError, Kafka!Requeue,
                Kafka!RequeueError, Kafka!Bury, Kafka!BuryError, Kafka!Leave, Kafka!Continue
  <2>3. stage'[c] = "idle"
    BY <2>1 DEF Agreement
  <2>4. CASE \E p \in Partitions : Kafka!Fetch(c, p)
    <3>1. PICK p \in Partitions : Kafka!Fetch(c, p)
      BY <2>4
    <3>2. Current(c)' = log[p][pos[p] + 1].event
      BY <1>0, <3>1 DEF Kafka!Fetch, Current, Kafka!At
    <3>3. mode'[c] = IF Current(c)' \in BadEnvelope THEN "burying" ELSE "handling"
      BY <1>0, <3>1, <3>2 DEF Kafka!Fetch
    <3>4. mode'[c] \in Kafka!Working
      BY <3>3 DEF Kafka!Working
    <3>5. Current(c)' \in Events
      <4>1. log[p] \in Seq(Kafka!Record) /\ pos[p] \in Nat /\ pos[p] + 1 \in 1..Len(log[p])
        BY <3>1 DEF RecordInv, Kafka!TypeOK, Kafka!Fetch
      <4>2. log[p][pos[p] + 1] \in Kafka!Record
        BY <4>1
      <4> QED
        BY <3>2, <4>2 DEF Kafka!Record
    <3>6. Reads(c)'
      BY <2>3, <3>3, <3>5 DEF Reads, Unreadable
    <3> QED
      BY <2>1, <2>2, <3>1, <3>6, ReadOne DEF Kafka!Fetch
  <2>5. CASE ~ \E p \in Partitions : Kafka!Fetch(c, p)
    <3>1. mode'[c] \in {"polling", "backoff"}
      BY <1>0, <1>2, <2>5 DEF Kafka!Loop, Kafka!Failure, Kafka!Start, Kafka!Resubscribe,
         Kafka!Subscribe, Kafka!FetchError, Kafka!Commit, Kafka!CommitError, Kafka!Requeue,
         Kafka!RequeueError, Kafka!Bury, Kafka!BuryError, Kafka!Leave, Kafka!Continue
    <3>2. Reads(c)'
      BY <2>3, <3>1 DEF Reads
    <3>3. buried' = buried \/ (buried' = buried \cup {cur[c]} /\ mode[c] = "burying")
      BY <1>2, <2>5 DEF Kafka!Loop, Kafka!Failure, Kafka!Start, Kafka!Resubscribe,
         Kafka!Subscribe, Kafka!FetchError, Kafka!Commit, Kafka!CommitError, Kafka!Requeue,
         Kafka!RequeueError, Kafka!Bury, Kafka!BuryError
    <3> QED
      BY <1>0, <2>1, <2>2, <3>2, <3>3, ReadOne DEF Reads
  <2> QED
    BY <2>4, <2>5
<1>3. ASSUME NEW c \in Processes, UNCHANGED consumerVars,
             \A d \in Processes \ {c} : stage'[d] = stage[d] /\ event'[d] = event[d],
             stage'[c] = "releasing" => event'[c] \in Unreadable
      PROVE  ReadInv'
  <2>1. UNCHANGED <<log, mode, cur, buried>> /\ Current(c)' = Current(c)
    BY <1>3 DEF consumerVars, Current, Kafka!At
  <2>2. Reads(c)'
    BY <1>0, <1>3, <2>1 DEF Reads
  <2> QED
    BY <1>3, <2>1, <2>2, ReadOne
<1>4. ASSUME NEW c \in Processes,
             Claim(c) \/ Work(c) \/ SendFails(c) \/ HandleOK(c)
      PROVE  ReadInv'
  <2>1. CASE Claim(c)
    <3>1. stage' = [stage EXCEPT ![c] = "handling"] /\ \E e : event' = [event EXCEPT ![c] = e]
      BY <2>1 DEF Claim, Claims!ClaimTaken
    <3> QED
      BY <1>3, <2>1, <3>1 DEF Claim
  <2>2. CASE HandleOK(c)
    <3>1. stage' = [stage EXCEPT ![c] = "completing"] /\ event' = event
      BY <2>2 DEF HandleOK, Claims!HandlerOK
    <3> QED
      BY <1>3, <2>2, <3>1 DEF HandleOK
  <2>3. CASE Work(c) \/ SendFails(c)
    <3>1. UNCHANGED consumerVars /\ UNCHANGED <<stage, event>>
      BY <2>3 DEF Work, SendFails, claimVars
    <3> QED
      BY <1>0, <1>3, <3>1 DEF Reads
  <2> QED
    BY <1>4, <2>1, <2>2, <2>3
<1>5. ASSUME NEW c \in Processes, HandleError(c)
      PROVE  ReadInv'
  <2>1. /\ UNCHANGED consumerVars /\ event' = event
        /\ stage' = [stage EXCEPT ![c] = "releasing"]
        /\ Kind[task[c]] = "undecodable" /\ step[c] # "idle"
    BY <1>5 DEF HandleError, Mail!DecodeError, Claims!HandlerErr
  <2>2. event[c] = task[c] /\ event[c] \in Events
    BY <2>1 DEF Agreement
  <2>3. event'[c] \in Unreadable
    BY <2>1, <2>2 DEF Unreadable
  <2> QED
    BY <1>3, <2>1, <2>3
<1>6. ASSUME NEW c \in Processes, Refused(c) \/ Complete(c) \/ Release(c)
      PROVE  ReadInv'
  <2>1. UNCHANGED <<log, cur, buried>> /\ Current(c)' = Current(c)
    BY <1>6 DEF Refused, Complete, Release, Kafka!HandlerReturns, Current, Kafka!At
  <2>2. /\ \A d \in Processes \ {c} :
             mode'[d] = mode[d] /\ stage'[d] = stage[d] /\ event'[d] = event[d]
        /\ stage'[c] = "idle"
    <3>1. \A d \in Processes \ {c} : mode'[d] = mode[d]
      BY <1>0, <1>6 DEF Refused, Complete, Release, Kafka!HandlerReturns
    <3>2. stage'[c] = "idle" /\ \A d \in Processes \ {c} : stage'[d] = stage[d] /\ event'[d] = event[d]
      BY <1>6 DEF Refused, Complete, Release, Delivered, Claims!ClaimRefused, Claims!claimVars,
                  Claims!Complete, Claims!Release, Claims!Return
    <3> QED
      BY <3>1, <3>2
  <2>3. CASE Refused(c) \/ Complete(c)
    <3>1. mode'[c] = "committing"
      BY <1>0, <2>3 DEF Refused, Complete, Kafka!HandlerReturns
    <3> QED
      BY <2>1, <2>2, <3>1, ReadOne DEF Reads
  <2>4. CASE Release(c)
    <3>1. stage[c] = "releasing" /\ mode'[c] \in {"requeueing", "burying"}
      BY <1>0, <2>4 DEF Release, Claims!Release, Kafka!HandlerReturns
    <3>2. Current(c)' \in Unreadable
      BY <1>0, <2>1, <3>1 DEF Reads, Agreement
    <3> QED
      BY <2>1, <2>2, <3>1, <3>2, ReadOne DEF Reads
  <2> QED
    BY <1>6, <2>3, <2>4
<1>7. ASSUME NEW c \in Processes,
             ClaimError(c) \/ PublishFails(c) \/ RedisFails(c) \/ Exit(c)
      PROVE  FALSE
  BY <1>7 DEF ClaimError, Claims!ClaimError, PublishFails, Mail!PublishError, RedisFails,
              Claims!CompleteError, Claims!ReleaseError, Exit, Kafka!Exit
<1>8. ASSUME UNCHANGED <<consumerVars, stage, event>>
      PROVE  ReadInv'
  BY <1>8 DEF ReadInv, Reads, Current, Kafka!At, consumerVars
<1>9. ASSUME NEW e \in Events, Expire(e)
      PROVE  ReadInv'
  BY <1>8, <1>9 DEF Expire, Claims!Expire
<1>10. CASE UNCHANGED vars
  BY <1>8, <1>10 DEF vars, claimVars
<1> QED
  BY <1>1, <1>2, <1>4, <1>5, <1>6, <1>7, <1>9, <1>10 DEF Next, Transport

-----------------------------------------------------------------------------
\* What a process is about to publish is one of the answers MailService allows;
\* only what was sent and can be read has an answer.
TruthInv ==
  /\ \A c \in Processes :
       step[c] = "sending" => event[c] \notin Unreadable \cup Defective
  /\ \A c \in Processes :
       step[c] = "publishing" =>
         event[c] \notin Unreadable /\ verdict[c] \in Service!Truth(event[c])
  /\ \A e \in Events : Answered(e) => Sent(e) /\ e \notin Unreadable

\* What was sent stays in the topic.
LEMMA SentStays ==
  ASSUME RecordInv, [Next]_vars, NEW e \in Events, Sent(e)
  PROVE  Sent(e)'
<1>1. CASE log' = log
  BY <1>1 DEF Sent
<1>2. ASSUME NEW p \in Partitions, NEW r \in Kafka!Record, Kafka!Write(p, r)
      PROVE  Sent(e)'
  <2>0. PICK q \in Partitions : \E n \in DOMAIN log[q] : log[q][n].event = e
    BY DEF Sent
  <2>1. PICK n \in DOMAIN log[q] : log[q][n].event = e
    BY <2>0
  <2>2. log[q] \in Seq(Kafka!Record) /\ (log'[q] = log[q] \/ log'[q] = Append(log[q], r))
    BY <1>2 DEF RecordInv, Kafka!TypeOK, Kafka!Write
  <2>3. n \in DOMAIN log'[q] /\ log'[q][n] = log[q][n]
    BY <2>1, <2>2
  <2> QED
    BY <2>1, <2>3 DEF Sent
<1>3. ASSUME NEW c \in Processes, Kafka!Requeue(c) \/ Refused(c) \/ Complete(c)
      PROVE  log' = log
  BY <1>3 DEF Kafka!Requeue, Refused, Complete, Kafka!HandlerReturns
<1> QED
  BY <1>1, <1>2, <1>3, Shapes

\* The reasons are words of their own, and whether a command has a defect can
\* be told from its kind.
LEMMA Kinds ==
  /\ "undecodable" \notin Mail!Defect /\ "deliverable" \notin Mail!Defect
  /\ Defective = DOMAIN [e \in Defective |-> Mail!Reason[Kind[e]]]
BY DEF Mail!Defect

\* Every step keeps it.
LEMMA TruthStep ==
  ASSUME "redis" \notin Faults, "exit" \notin Faults, "publish" \notin Faults,
         TruthInv, ReadInv, OnceInv, Exclusive, Agreement, RecordInv, HasEvent,
         Claims!TypeOK, Mail!TypeOK, [Next]_vars
  PROVE  TruthInv'
<1> USE PipelineAssumption DEF Claims!TypeOK, Mail!TypeOK
<1>1. ASSUME NEW e \in Events, Answered(e)
      PROVE  Sent(e)' /\ e \notin Unreadable
  BY <1>1, SentStays DEF TruthInv
<1>2. ASSUME NEW c \in Processes, UNCHANGED <<mails, results>>,
             \A d \in Processes \ {c} :
               event'[d] = event[d] /\ step'[d] = step[d] /\ verdict'[d] = verdict[d],
             step'[c] \notin {"sending", "publishing"}
      PROVE  TruthInv'
  <2>1. \A e : Service!Truth(e)' = Service!Truth(e)
    BY <1>2 DEF Service!Truth, Service!Rejected
  <2> QED
    BY <1>1, <1>2, <2>1 DEF TruthInv, Answered
<1>3. ASSUME UNCHANGED <<event, step, verdict, mails, results>>
      PROVE  TruthInv'
  <2>1. \A e : Service!Truth(e)' = Service!Truth(e)
    BY <1>3 DEF Service!Truth, Service!Rejected
  <2> QED
    BY <1>1, <1>3, <2>1 DEF TruthInv, Answered
<1>4. ASSUME NEW c \in Processes, step[c] # "idle"
      PROVE  /\ event[c] \in Events /\ task[c] = event[c] /\ Sent(event[c])
             /\ event[c] \notin BadEnvelope
             /\ \A d \in Processes \ {c} : step[d] # "idle" => event[d] # event[c]
  <2>1. stage[c] = "handling" /\ task[c] = event[c] /\ mode[c] = "handling" /\ event[c] = Current(c)
    BY <1>4 DEF Agreement
  <2>2. Current(c) \in Events /\ Sent(Current(c))
    BY <2>1, CurrentSent DEF Kafka!Working
  <2>3. Current(c) \notin BadEnvelope
    BY <2>1 DEF ReadInv, Reads
  <2>4. \A d \in Processes \ {c} : step[d] # "idle" => event[d] # event[c]
    BY <2>1 DEF Agreement, Exclusive
  <2> QED
    BY <2>1, <2>2, <2>3, <2>4
<1>5. ASSUME NEW c \in Processes, Work(c) \/ SendFails(c)
      PROVE  TruthInv'
  <2>1. /\ UNCHANGED <<event, results>> /\ step[c] \in {"decoding", "sending"}
        /\ \A d \in Processes \ {c} : step'[d] = step[d] /\ verdict'[d] = verdict[d]
    BY <1>5 DEF Work, SendFails, claimVars, Mail!Reject, Mail!Render, Mail!SendOK,
                Mail!SendRefused, Mail!ReplyLost, Mail!BreakerOpen, Mail!Conclude
  <2>2. PICK e \in Events : /\ e = event[c] /\ e = task[c] /\ Sent(e) /\ e \notin BadEnvelope
                            /\ \A d \in Processes \ {c} : step[d] # "idle" => event[d] # e
    BY <1>4, <2>1
  <2>3. Untouched(e)
    BY <2>1, <2>2 DEF OnceInv
  <2>13. mails[e] = 0 /\ 0 < MaxMails
    BY <2>3 DEF Untouched
  <2>14. Mail!Accept(e) => mails' = [mails EXCEPT ![e] = 1]
    BY <2>13 DEF Mail!Accept
  <2>4. mails' = mails \/ mails' = [mails EXCEPT ![e] = 1]
    <3>1. mails' = mails \/ Mail!Accept(e)
      BY <1>5, <2>2 DEF Work, SendFails, Mail!Reject, Mail!Render, Mail!SendOK,
                  Mail!SendRefused, Mail!ReplyLost, Mail!BreakerOpen
    <3> QED
      BY <2>14, <3>1
  <2>5. ASSUME NEW d \in Processes \ {c}, step[d] = "publishing"
        PROVE  Service!Truth(event[d])' = Service!Truth(event[d])
    <3>1. mails'[event[d]] = mails[event[d]] /\ event'[d] = event[d]
      BY <1>4, <2>1, <2>2, <2>4, <2>5
    <3> QED
      BY <3>1 DEF Service!Truth, Service!Rejected
  <2>6. ASSUME step'[c] = "sending" => e \notin Unreadable \cup Defective,
               step'[c] = "publishing" => e \notin Unreadable /\ verdict'[c] \in Service!Truth(e)'
        PROVE  TruthInv'
    <3>1. ASSUME NEW d \in Processes, step'[d] = "sending"
          PROVE  event'[d] \notin Unreadable \cup Defective
      <4>1. CASE d = c
        BY <2>1, <2>2, <2>6, <3>1, <4>1
      <4>2. CASE d # c
        BY <2>1, <3>1, <4>2 DEF TruthInv
      <4> QED
        BY <4>1, <4>2
    <3>2. ASSUME NEW d \in Processes, step'[d] = "publishing"
          PROVE  event'[d] \notin Unreadable /\ verdict'[d] \in Service!Truth(event[d])'
      <4>1. CASE d = c
        BY <2>1, <2>2, <2>6, <3>2, <4>1 DEF Service!Truth, Service!Rejected
      <4>2. CASE d # c
        BY <2>1, <2>5, <3>2, <4>2 DEF TruthInv
      <4> QED
        BY <4>1, <4>2
    <3>3. \A f \in Events : Answered(f)' => Sent(f)' /\ f \notin Unreadable
      BY <1>1, <2>1 DEF Answered
    <3> QED
      BY <3>1, <3>2, <3>3 DEF TruthInv
  <2>7. CASE Mail!Reject(c)
    <3>1. /\ Kind[e] \in Mail!Defect /\ mails' = mails
          /\ step'[c] = "publishing" /\ verdict'[c] = Mail!Reason[Kind[e]]
      BY <2>2, <2>7 DEF Mail!Reject, Mail!Conclude
    <3>2. e \in Defective /\ e \notin Unreadable
      BY <2>2, <3>1, Kinds DEF Defective, Unreadable
    <3>3. Service!Truth(e)' = {Mail!Reason[Kind[e]]}
      BY <3>2, Kinds DEF Service!Truth, Service!Rejected
    <3> QED
      BY <2>6, <3>1, <3>2, <3>3
  <2>8. CASE Mail!Render(c)
    <3>1. Kind[e] = "deliverable" /\ step'[c] = "sending"
      BY <2>2, <2>8 DEF Mail!Render
    <3>2. e \notin Unreadable \cup Defective
      BY <2>2, <3>1, Kinds DEF Defective, Unreadable
    <3> QED
      BY <2>6, <3>1, <3>2
  <2>9. ASSUME step[c] = "sending", step'[c] = "publishing",
               \/ mails'[e] = 0 /\ verdict'[c] \in {"failed to send mail", "internal mail delivery error"}
               \/ mails'[e] = 1 /\ verdict'[c] \in {"success", "failed to send mail"}
        PROVE  TruthInv'
    <3>1. e \notin Unreadable \cup Defective
      BY <2>2, <2>9 DEF TruthInv
    <3>2. e \notin DOMAIN [f \in Defective |-> Mail!Reason[Kind[f]]]
      BY <3>1
    <3>3. CASE mails'[e] = 0 /\ verdict'[c] \in {"failed to send mail", "internal mail delivery error"}
      <4>1. verdict'[c] \in Service!Truth(e)'
        BY <3>2, <3>3 DEF Service!Truth, Service!Rejected
      <4> QED
        BY <2>6, <2>9, <3>1, <4>1
    <3>4. CASE mails'[e] = 1 /\ verdict'[c] \in {"success", "failed to send mail"}
      <4>1. mails'[e] # 0
        <5>1. 1 # 0
          OBVIOUS
        <5> QED
          BY ONLY <3>4, <5>1
      <4>2. Service!Truth(e)' = {"success", "failed to send mail"}
        BY <3>2, <4>1 DEF Service!Truth, Service!Rejected
      <4>3. verdict'[c] \in Service!Truth(e)'
        BY <3>4, <4>2
      <4> QED
        BY <2>6, <2>9, <3>1, <4>3
    <3> QED
      BY <2>9, <3>3, <3>4
  <2>10. CASE Mail!SendOK(c) \/ Mail!ReplyLost(c)
    <3>1. Mail!Accept(e)
      BY <2>2, <2>10 DEF Mail!SendOK, Mail!ReplyLost
    <3>2. mails'[e] = 1
      BY <2>14, <3>1
    <3> QED
      BY <2>9, <2>10, <3>2 DEF Mail!SendOK, Mail!ReplyLost, Mail!Conclude
  <2>11. CASE Mail!SendRefused(c) \/ Mail!BreakerOpen(c)
    <3>1. mails'[e] = 0
      BY <2>11, <2>13 DEF Mail!SendRefused, Mail!BreakerOpen
    <3> QED
      BY <2>9, <2>11, <3>1 DEF Mail!SendRefused, Mail!BreakerOpen, Mail!Conclude
  <2> QED
    BY <1>5, <2>7, <2>8, <2>10, <2>11 DEF Work, SendFails
<1>6. ASSUME NEW c \in Processes, HandleOK(c)
      PROVE  TruthInv'
  <2>1. /\ UNCHANGED <<event, mails>> /\ step[c] = "publishing" /\ Mail!PublishResult(c)
        /\ step' = [step EXCEPT ![c] = "idle"] /\ verdict' = [verdict EXCEPT ![c] = "none"]
    BY <1>6 DEF HandleOK, Mail!Publish, Mail!Leave, Claims!HandlerOK
  <2>2. PICK e \in Events : e = event[c] /\ e = task[c] /\ Sent(e) /\ e \notin Unreadable
    BY <1>4, <2>1 DEF TruthInv
  <2>3. \A f \in Events \ {e} : results'[f] = results[f]
    BY <2>1, <2>2 DEF Mail!PublishResult
  <2>4. \A f \in Events : Answered(f)' => Sent(f)' /\ f \notin Unreadable
    BY <1>1, <2>2, <2>3, SentStays DEF Answered
  <2>5. \A f : Service!Truth(f)' = Service!Truth(f)
    BY <2>1 DEF Service!Truth, Service!Rejected
  <2> QED
    BY <2>1, <2>4, <2>5 DEF TruthInv
<1>7. ASSUME NEW c \in Processes, Claim(c)
      PROVE  TruthInv'
  <2>1. /\ UNCHANGED <<verdict, mails, results>>
        /\ step' = [step EXCEPT ![c] = "decoding"]
        /\ \E e : event' = [event EXCEPT ![c] = e]
    BY <1>7 DEF Claim, Claims!ClaimTaken, Mail!Take
  <2> QED
    BY <1>2, <2>1
<1>8. ASSUME NEW c \in Processes, HandleError(c)
      PROVE  TruthInv'
  <2>1. /\ UNCHANGED <<event, mails, results>>
        /\ step' = [step EXCEPT ![c] = "idle"] /\ verdict' = [verdict EXCEPT ![c] = "none"]
    BY <1>8 DEF HandleError, Mail!DecodeError, Mail!Leave, Claims!HandlerErr
  <2> QED
    BY <1>2, <2>1
<1>9. ASSUME NEW c \in Processes, Complete(c) \/ Release(c)
      PROVE  TruthInv'
  <2>1. UNCHANGED mailVars /\ Claims!Return(c) /\ stage[c] # "handling"
    BY <1>9 DEF Complete, Release, Claims!Complete, Claims!Release
  <2>2. step[c] = "idle"
    BY <2>1 DEF Agreement
  <2> QED
    BY <1>2, <2>1, <2>2 DEF mailVars, Claims!Return
<1>10. ASSUME \/ Transport \/ UNCHANGED vars \/ \E c \in Processes : Refused(c)
              \/ \E e \in Events : Expire(e)
       PROVE  TruthInv'
  BY <1>3, <1>10 DEF Transport, Refused, Claims!ClaimRefused, Claims!claimVars, Expire,
                     Claims!Expire, vars, claimVars, mailVars
<1>11. ASSUME NEW c \in Processes,
              ClaimError(c) \/ PublishFails(c) \/ RedisFails(c) \/ Exit(c)
       PROVE  FALSE
  BY <1>11 DEF ClaimError, Claims!ClaimError, PublishFails, Mail!PublishError, RedisFails,
               Claims!CompleteError, Claims!ReleaseError, Exit, Kafka!Exit
<1> QED
  BY <1>5, <1>6, <1>7, <1>8, <1>9, <1>10, <1>11 DEF Next

\* ReadInv and TruthInv hold in every state.
LEMMA PipelineReads ==
  ASSUME "redis" \notin Faults, "exit" \notin Faults, "publish" \notin Faults
  PROVE  Spec => []ReadInv
<1>1. Init => ReadInv
  BY DEF Init, Kafka!Init, Claims!Init, ReadInv, Reads
<1>2. /\ ReadInv /\ Agreement /\ RecordInv /\ HasEvent /\ Claims!TypeOK /\ Mail!TypeOK
      /\ [Next]_vars
      => ReadInv'
  BY ReadStep
<1> QED
  BY <1>1, <1>2, PipelineAgrees, PipelineRecords, PipelineHasEvent, PipelineTypes, PTL DEF Spec

LEMMA PipelineTruth ==
  ASSUME "redis" \notin Faults, "exit" \notin Faults, "ttl" \notin Faults,
         "publish" \notin Faults
  PROVE  Spec => []TruthInv
<1>1. Init => TruthInv
  BY DEF Init, Mail!Init, TruthInv, Answered
<1>2. /\ TruthInv /\ ReadInv /\ OnceInv /\ Exclusive /\ Agreement /\ RecordInv /\ HasEvent
      /\ Claims!TypeOK /\ Mail!TypeOK /\ [Next]_vars
      => TruthInv'
  BY TruthStep
<1> QED
  BY <1>1, <1>2, PipelineReads, PipelineOnce, PipelineGuards, PipelineAgrees, PipelineRecords,
     PipelineHasEvent, PipelineTypes, PTL DEF Spec

-----------------------------------------------------------------------------
\* Only what was sent is dead-lettered.
LEMMA DeadSent ==
  ASSUME RecordInv, NEW e \in Events, DeadLettered(e)
  PROVE  Sent(e)
<1>1. PICK place \in buried : Kafka!At(place).event = e
  BY DEF DeadLettered
<1>2. place \in Kafka!Place /\ place.off <= Len(log[place.part])
  BY DEF RecordInv, Kafka!TypeOK
<1>3. PICK p \in Partitions, n \in Nat \ {0} : place = [part |-> p, off |-> n]
  BY <1>2 DEF Kafka!Place
<1>4. log[p] \in Seq(Kafka!Record) /\ n \in DOMAIN log[p]
  BY <1>2, <1>3 DEF RecordInv, Kafka!TypeOK
<1> QED
  BY <1>1, <1>3, <1>4 DEF Sent, Kafka!At

\* What the state of a command depends on, besides what is outstanding.
SameFate(e) ==
  /\ Sent(e)' <=> Sent(e)
  /\ Answered(e)' <=> Answered(e)
  /\ DeadLettered(e)' <=> DeadLettered(e)

\* The commands of MailService: no command is lost, so that the state of one
\* changes only when it is sent, answered or dead-lettered.
LEMMA FateStays ==
  ASSUME NoSilentLoss, NoSilentLoss', NEW e \in Events, SameFate(e)
  PROVE  Fate(e)' = Fate(e)
BY DEF NoSilentLoss, Kept, SameFate, Fate

LEMMA AllStay ==
  ASSUME NoSilentLoss, NoSilentLoss', \A e \in Events : SameFate(e)
  PROVE  [e \in Events |-> Fate(e)]' = [e \in Events |-> Fate(e)]
<1>1. \A e \in Events : Fate(e)' = Fate(e)
  BY FateStays
<1> QED
  BY <1>1

LEMMA OneTurns ==
  ASSUME NoSilentLoss, NoSilentLoss', NEW e \in Events,
         \A f \in Events \ {e} : SameFate(f),
         NEW from, NEW to, Fate(e) = from, Fate(e)' = to
  PROVE  /\ [f \in Events |-> Fate(f)][e] = from
         /\ [f \in Events |-> Fate(f)]' = [[f \in Events |-> Fate(f)] EXCEPT ![e] = to]
<1>1. \A f \in Events \ {e} : Fate(f)' = Fate(f)
  BY FateStays
<1> QED
  BY <1>1

\* What is written to the topic is sent, and nothing else.
LEMMA WriteSends ==
  ASSUME RecordInv, [Next]_vars, NEW p \in Partitions, NEW r \in Kafka!Record, Kafka!Write(p, r),
         NEW e \in Events, e = r.event
  PROVE  \A f \in Events : Sent(f)' <=> Sent(f) \/ f = e
<1>1. \A q \in Partitions : log[q] \in Seq(Kafka!Record)
  BY DEF RecordInv, Kafka!TypeOK
<1>2. \A q \in Partitions : log'[q] = IF q = p THEN Append(log[q], r) ELSE log[q]
  BY DEF Kafka!Write, RecordInv, Kafka!TypeOK
<1>3. ASSUME NEW f \in Events, Sent(f)'
      PROVE  Sent(f) \/ f = e
  <2>1. PICK q \in Partitions : \E n \in DOMAIN log'[q] : log'[q][n].event = f
    BY <1>3 DEF Sent
  <2>2. PICK n \in DOMAIN log'[q] : log'[q][n].event = f
    BY <2>1
  <2>3. \/ n \in DOMAIN log[q] /\ log'[q][n] = log[q][n]
        \/ log'[q][n] = r
    <3>1. log[q] \in Seq(Kafka!Record)
      BY <1>1
    <3>2. CASE log'[q] = log[q]
      BY <2>2, <3>2
    <3>3. CASE log'[q] = Append(log[q], r)
      <4>1. n \in 1..(Len(log[q]) + 1)
        BY <2>2, <3>1, <3>3
      <4> QED
        BY <3>1, <3>3, <4>1
    <3> QED
      BY <1>2, <3>2, <3>3
  <2> QED
    BY <2>2, <2>3 DEF Sent
<1>4. Sent(e)'
  <2>1. log[p] \in Seq(Kafka!Record) /\ log'[p] = Append(log[p], r)
    BY <1>1, <1>2
  <2>2. Len(log[p]) + 1 \in DOMAIN log'[p] /\ log'[p][Len(log[p]) + 1] = r
    BY <2>1
  <2> QED
    BY <2>2 DEF Sent
<1> QED
  BY <1>3, <1>4, SentStays

\* The step of MailService that a step of the pipeline is.
LEMMA ServiceStep ==
  ASSUME "redis" \notin Faults, "exit" \notin Faults, "publish" \notin Faults,
         NoSilentLoss, NoSilentLoss', TruthInv, ReadInv, OnceInv, Agreement, RecordInv,
         HasEvent, Claims!TypeOK, Mail!TypeOK, [Next]_vars
  PROVE  [Service!Next]_(Service!vars)
<1> USE PipelineAssumption DEF Claims!TypeOK, Mail!TypeOK
<1>0. /\ mode \in [Processes -> Kafka!Mode] /\ cur \in [Processes -> Kafka!Place \cup {NoRecord}]
      /\ \A c \in Processes : Reads(c)
  BY DEF RecordInv, Kafka!TypeOK, ReadInv
<1>1. ASSUME \A e \in Events : SameFate(e), UNCHANGED <<mails, results>>
      PROVE  UNCHANGED Service!vars
  BY <1>1, AllStay DEF Service!vars
<1>2. ASSUME UNCHANGED <<log, buried, mails, results>>
      PROVE  UNCHANGED Service!vars
  <2>1. \A e \in Events : SameFate(e)
    BY <1>2 DEF SameFate, Sent, Answered, DeadLettered, Kafka!At
  <2> QED
    BY <1>1, <1>2, <2>1
<1>3. ASSUME NEW c \in Processes, step[c] # "idle"
      PROVE  /\ event[c] \in Events /\ task[c] = event[c] /\ Sent(event[c])
  <2>1. task[c] = event[c] /\ mode[c] = "handling" /\ event[c] = Current(c)
    BY <1>3 DEF Agreement
  <2> QED
    BY <2>1, CurrentSent DEF Kafka!Working
<1>4. ASSUME NEW e \in Events, e \notin Unreadable
      PROVE  ~ DeadLettered(e)
  BY <1>4 DEF ReadInv, DeadLettered
<1>5. CASE Kafka!Environment /\ UNCHANGED <<claimVars, mailVars>>
  <2>1. UNCHANGED <<buried, mails, results>>
    BY <1>5 DEF Kafka!Environment, Kafka!Produce, Kafka!Forward, Kafka!Assign,
                Kafka!Rebalance, Kafka!AssignTo, mailVars
  <2>2. CASE log' = log
    BY <1>2, <2>1, <2>2
  <2>3. ASSUME NEW p \in Partitions, NEW r \in Kafka!Record, Kafka!Write(p, r)
        PROVE  [Service!Next]_(Service!vars)
    <3>1. PICK e \in Events : e = r.event
      BY DEF Kafka!Record
    <3>2. \A f \in Events : Sent(f)' <=> Sent(f) \/ f = e
      BY <2>3, <3>1, WriteSends
    <3>3. \A f \in Events : DeadLettered(f)' <=> DeadLettered(f)
      <4>1. \A place \in buried : Kafka!At(place)' = Kafka!At(place)
        BY <2>3, RecordsStay DEF RecordInv, Kafka!TypeOK
      <4> QED
        BY <2>1, <4>1 DEF DeadLettered
    <3>4. \A f \in Events : Answered(f)' <=> Answered(f)
      BY <2>1 DEF Answered
    <3>5. CASE Sent(e)
      BY <1>1, <2>1, <3>2, <3>3, <3>4, <3>5 DEF SameFate
    <3>6. CASE ~ Sent(e)
      <4>1. ~ Answered(e) /\ ~ DeadLettered(e)
        BY <3>6, DeadSent DEF TruthInv
      <4>2. Fate(e) = "unsent" /\ Fate(e)' = "open"
        BY <3>2, <3>3, <3>4, <3>6, <4>1 DEF Fate, NoSilentLoss, Kept
      <4>3. \A f \in Events \ {e} : SameFate(f)
        BY <3>2, <3>3, <3>4 DEF SameFate
      <4>4. Service!Send(e)
        BY <2>1, <4>2, <4>3, OneTurns DEF Service!Send, Service!Turn
      <4> QED
        BY <4>4 DEF Service!Next
    <3> QED
      BY <3>5, <3>6
  <2> QED
    BY <1>5, <2>2, <2>3, EnvironmentWrites
<1>6. ASSUME NEW c \in Processes, Kafka!Loop(c) \/ Kafka!Failure(c),
             UNCHANGED <<claimVars, mailVars>>
      PROVE  [Service!Next]_(Service!vars)
  <2>1. UNCHANGED <<log, mails, results>>
    BY <1>6 DEF Kafka!Loop, Kafka!Failure, Kafka!Start, Kafka!Resubscribe, Kafka!Subscribe,
                Kafka!Fetch, Kafka!FetchError, Kafka!Commit, Kafka!CommitError, Kafka!Requeue,
                Kafka!RequeueError, Kafka!Bury, Kafka!BuryError, mailVars
  <2>2. CASE ~ Kafka!Bury(c)
    <3>1. buried' = buried
      BY <1>6, <2>2 DEF Kafka!Loop, Kafka!Failure, Kafka!Start, Kafka!Resubscribe,
         Kafka!Subscribe, Kafka!Fetch, Kafka!FetchError, Kafka!Commit, Kafka!CommitError,
         Kafka!Requeue, Kafka!RequeueError, Kafka!BuryError
    <3> QED
      BY <1>2, <2>1, <3>1
  <2>3. CASE Kafka!Bury(c)
    <3>1. mode[c] = "burying" /\ buried' = buried \cup {cur[c]}
      BY <2>3 DEF Kafka!Bury
    <3>2. PICK e \in Events : e = Current(c) /\ Sent(e) /\ e \in Unreadable
      BY <1>0, <3>1, CurrentSent DEF Kafka!Working, Reads
    <3>3. \A f \in Events : (Sent(f)' <=> Sent(f)) /\ (Answered(f)' <=> Answered(f))
      BY <2>1 DEF Sent, Answered
    <3>4. \A f \in Events : DeadLettered(f)' <=> DeadLettered(f) \/ f = e
      BY <2>1, <3>1, <3>2 DEF DeadLettered, Current, Kafka!At
    <3>5. CASE DeadLettered(e)
      BY <1>1, <2>1, <3>3, <3>4, <3>5 DEF SameFate
    <3>6. CASE ~ DeadLettered(e)
      <4>1. ~ Answered(e)
        BY <3>2 DEF TruthInv
      <4>2. Fate(e) = "open" /\ Fate(e)' = "dead"
        BY <3>2, <3>3, <3>4, <3>6, <4>1 DEF Fate, NoSilentLoss, Kept
      <4>3. \A f \in Events \ {e} : SameFate(f)
        BY <3>3, <3>4 DEF SameFate
      <4>4. Service!Bury(e)
        BY <2>1, <3>2, <4>2, <4>3, OneTurns DEF Service!Bury, Service!Turn
      <4> QED
        BY <4>4 DEF Service!Next
    <3> QED
      BY <3>5, <3>6
  <2> QED
    BY <2>2, <2>3
<1>7. ASSUME NEW c \in Processes, Work(c) \/ SendFails(c)
      PROVE  [Service!Next]_(Service!vars)
  <2>1. UNCHANGED <<log, buried, results>> /\ step[c] # "idle"
    BY <1>7 DEF Work, SendFails, consumerVars, Mail!Reject, Mail!Render, Mail!SendOK,
                Mail!SendRefused, Mail!ReplyLost, Mail!BreakerOpen, Mail!Conclude
  <2>2. mails' = mails \/ (Mail!Accept(task[c]) /\ step[c] = "sending")
    BY <1>7 DEF Work, SendFails, Mail!Reject, Mail!Render, Mail!SendOK, Mail!SendRefused,
                Mail!ReplyLost, Mail!BreakerOpen
  <2>3. CASE mails' = mails
    BY <1>2, <2>1, <2>3
  <2>4. CASE Mail!Accept(task[c]) /\ step[c] = "sending"
    <3>1. PICK e \in Events : e = event[c] /\ e = task[c] /\ Sent(e)
      BY <1>3, <2>1
    <3>2. e \notin Unreadable \cup Defective /\ Untouched(e)
      BY <2>4, <3>1 DEF TruthInv, OnceInv
    <3>3. mails[e] = 0 /\ 0 < MaxMails /\ ~ Answered(e)
      BY <3>2 DEF Untouched, Answered
    <3>4. mails' = [mails EXCEPT ![e] = 1]
      BY <2>4, <3>1, <3>3 DEF Mail!Accept
    <3>5. Fate(e) = "open"
      BY <1>4, <3>1, <3>2, <3>3 DEF Fate, NoSilentLoss, Kept
    <3>6. \A f \in Events : SameFate(f)
      BY <2>1 DEF SameFate, Sent, Answered, DeadLettered, Kafka!At
    <3>7. e \notin Service!Rejected
      BY <3>2 DEF Service!Rejected
    <3>8. Service!Mail(e)
      BY <2>1, <3>2, <3>3, <3>4, <3>5, <3>6, <3>7, AllStay DEF Service!Mail
    <3> QED
      BY <3>8 DEF Service!Next
  <2> QED
    BY <2>2, <2>3, <2>4
<1>8. ASSUME NEW c \in Processes, HandleOK(c)
      PROVE  [Service!Next]_(Service!vars)
  <2>1. UNCHANGED <<log, buried, mails>> /\ step[c] = "publishing" /\ Mail!PublishResult(c)
    BY <1>8 DEF HandleOK, Mail!Publish, consumerVars
  <2>2. PICK e \in Events : e = event[c] /\ e = task[c] /\ Sent(e)
    BY <1>3, <2>1
  <2>3. e \notin Unreadable /\ verdict[c] \in Service!Truth(e) /\ results[e] = {}
    BY <2>1, <2>2 DEF TruthInv, OnceInv
  <2>4. results' = [results EXCEPT ![e] = {verdict[c]}]
    BY <2>1, <2>2, <2>3 DEF Mail!PublishResult
  <2>5. \A f \in Events : /\ (Sent(f)' <=> Sent(f)) /\ (DeadLettered(f)' <=> DeadLettered(f))
                          /\ f # e => (Answered(f)' <=> Answered(f))
    BY <2>1, <2>4 DEF Sent, DeadLettered, Answered, Kafka!At
  <2>6. ~ Answered(e) /\ Answered(e)'
    BY <2>3, <2>4 DEF Answered
  <2>7. Fate(e) = "open" /\ Fate(e)' = "answered"
    BY <1>4, <2>2, <2>3, <2>5, <2>6 DEF Fate, NoSilentLoss, Kept
  <2>8. \A f \in Events \ {e} : SameFate(f)
    BY <2>5 DEF SameFate
  <2>9. Service!Turn(e, "open", "answered")
    BY <2>7, <2>8, OneTurns DEF Service!Turn
  <2>10. Service!Answer(e)
    BY <2>1, <2>3, <2>4, <2>9 DEF Service!Answer
  <2> QED
    BY <2>10 DEF Service!Next
<1>9. ASSUME NEW c \in Processes,
             Claim(c) \/ Refused(c) \/ HandleError(c) \/ Complete(c) \/ Release(c)
      PROVE  [Service!Next]_(Service!vars)
  <2>1. UNCHANGED <<log, buried>>
    BY <1>9 DEF Claim, Refused, HandleError, Complete, Release, consumerVars,
                Kafka!HandlerReturns
  <2>2. UNCHANGED <<mails, results>>
    BY <1>9 DEF Claim, Refused, HandleError, Complete, Release, mailVars, Mail!Take,
                Mail!DecodeError
  <2> QED
    BY <1>2, <2>1, <2>2
<1>10. ASSUME UNCHANGED vars \/ \E e \in Events : Expire(e)
       PROVE  UNCHANGED Service!vars
  BY <1>2, <1>10 DEF Expire, vars, consumerVars, mailVars
<1>11. ASSUME NEW c \in Processes,
              ClaimError(c) \/ PublishFails(c) \/ RedisFails(c) \/ Exit(c)
       PROVE  FALSE
  BY <1>11 DEF ClaimError, Claims!ClaimError, PublishFails, Mail!PublishError, RedisFails,
               Claims!CompleteError, Claims!ReleaseError, Exit, Kafka!Exit
<1> QED
  BY <1>5, <1>6, <1>7, <1>8, <1>9, <1>10, <1>11 DEF Next, Transport

\* Whatever fails in the loop, at the SMTP server and in the consumer group, the
\* service keeps the promise of MailService: while Redis answers, results get
\* published, no process ends and no handler outlives its key; and, if there
\* are several processes, while the retry and dead-letter topics take what is
\* written.
THEOREM ImplementsService ==
  ASSUME "redis" \notin Faults, "exit" \notin Faults, "ttl" \notin Faults,
         "publish" \notin Faults,
         \/ "requeue" \notin Faults /\ "bury" \notin Faults
         \/ \A c, d \in Processes : c = d
  PROVE  Spec => ServiceSpec
<1>1. Init => Service!Init
  <2>1. ASSUME Init, NEW e \in Events
        PROVE  Fate(e) = "unsent"
    BY <2>1 DEF Init, Kafka!Init, Fate, Sent
  <2> QED
    BY <2>1 DEF Init, Mail!Init, Service!Init
<1>2. Spec => []NoSilentLoss
  BY NothingLost, SoleProcessLosesNothing
<1>3. /\ NoSilentLoss /\ NoSilentLoss' /\ TruthInv /\ ReadInv /\ OnceInv /\ Agreement
      /\ RecordInv /\ HasEvent /\ Claims!TypeOK /\ Mail!TypeOK /\ [Next]_vars
      => [Service!Next]_(Service!vars)
  BY ServiceStep
<1> QED
  BY <1>1, <1>2, <1>3, PipelineTruth, PipelineReads, PipelineOnce, PipelineAgrees,
     PipelineRecords, PipelineHasEvent, PipelineTypes, PTL DEF Spec, ServiceSpec, Service!Spec

-----------------------------------------------------------------------------
\* The loop gives the handler only records it could unwrap, whatever fails.
Opened == \A c \in Processes : mode[c] = "handling" => Current(c) \notin BadEnvelope

LEMMA OpenedStep ==
  ASSUME Opened, RecordInv, [Next]_vars
  PROVE  Opened'
<1>0. mode \in [Processes -> Kafka!Mode] /\ cur \in [Processes -> Kafka!Place \cup {NoRecord}]
  BY DEF RecordInv, Kafka!TypeOK
<1>1. ASSUME NEW c \in Processes, NEW outcome \in {"ok", "transient"},
             Kafka!HandlerReturns(c, outcome)
      PROVE  Opened'
  <2>1. UNCHANGED <<log, cur>> /\ \A d \in Processes : mode'[d] = "handling" => mode[d] = "handling"
    BY <1>0, <1>1 DEF Kafka!HandlerReturns
  <2> QED
    BY <2>1 DEF Opened, Current, Kafka!At
<1>2. CASE Kafka!Environment
  <2>1. UNCHANGED <<mode, cur>>
    BY <1>2 DEF Kafka!Environment, Kafka!Produce, Kafka!Forward, Kafka!Assign,
                Kafka!Rebalance, Kafka!AssignTo
  <2>2. \A place \in Kafka!Place : place.off <= Len(log[place.part]) =>
          Kafka!At(place)' = Kafka!At(place)
    BY <1>2, EnvironmentWrites, RecordsStay DEF Kafka!At
  <2>3. \A c \in Processes : mode[c] \in Kafka!Working => Current(c)' = Current(c)
    BY <2>1, <2>2, CurrentSent DEF Current, Kafka!At
  <2> QED
    BY <2>1, <2>3 DEF Opened, Kafka!Working
<1>3. ASSUME NEW c \in Processes, Kafka!Loop(c) \/ Kafka!Failure(c) \/ Kafka!Exit(c)
      PROVE  Opened'
  <2>1. /\ log' = log
        /\ \A d \in Processes \ {c} : mode'[d] = mode[d] /\ cur'[d] = cur[d]
    BY <1>0, <1>3 DEF Kafka!Loop, Kafka!Failure, Kafka!Start, Kafka!Resubscribe, Kafka!Subscribe,
       Kafka!Fetch, Kafka!FetchError, Kafka!Commit, Kafka!CommitError, Kafka!Requeue,
       Kafka!RequeueError, Kafka!Bury, Kafka!BuryError, Kafka!Exit, Kafka!Leave, Kafka!Continue
  <2>2. mode'[c] = "handling" => Current(c)' \notin BadEnvelope
    <3>1. CASE \E p \in Partitions : Kafka!Fetch(c, p)
      BY <1>0, <3>1 DEF Kafka!Fetch, Current, Kafka!At
    <3>2. CASE ~ \E p \in Partitions : Kafka!Fetch(c, p)
      BY <1>0, <1>3, <3>2 DEF Kafka!Loop, Kafka!Failure, Kafka!Start, Kafka!Resubscribe,
         Kafka!Subscribe, Kafka!FetchError, Kafka!Commit, Kafka!CommitError, Kafka!Requeue,
         Kafka!RequeueError, Kafka!Bury, Kafka!BuryError, Kafka!Exit, Kafka!Leave, Kafka!Continue
    <3> QED
      BY <3>1, <3>2
  <2> QED
    BY <2>1, <2>2 DEF Opened, Current, Kafka!At
<1>4. CASE UNCHANGED consumerVars
  BY <1>4 DEF consumerVars, Opened, Current, Kafka!At
<1> QED
  BY <1>1, <1>2, <1>3, <1>4, LoopStep DEF Kafka!Next, Kafka!Handler, Kafka!consumerVars,
                                          consumerVars

\* The step of MailOutcomes that a step of the pipeline is.
LEMMA OutcomesStep ==
  ASSUME Opened, AnsweredInv, MailFacts!HonestInv, ClaimFacts!KeyKept, Agreement,
         RecordInv, HasEvent, Claims!TypeOK, Mail!TypeOK, [Next]_vars
  PROVE  [Promise!Next]_(Promise!vars)
<1> DEFINE sentNow == {e \in Events : Sent(e)}
           done == {e \in Claims!Guarded : claims[e] = "done"}
<1> USE PipelineAssumption DEF Claims!TypeOK, Mail!TypeOK, Claims!Guarded
<1>1. ASSUME log' = log
      PROVE  sentNow' = sentNow
  BY <1>1 DEF Sent
<1>2. ASSUME sentNow' = sentNow, done' = done, UNCHANGED <<mails, results>>
      PROVE  UNCHANGED Promise!vars
  BY <1>2 DEF Promise!vars
<1>3. ASSUME UNCHANGED <<log, claims, expired, mails, results>>
      PROVE  UNCHANGED Promise!vars
  BY <1>1, <1>2, <1>3
<1>4. ASSUME NEW c \in Processes, step[c] # "idle"
      PROVE  /\ task[c] \in Events /\ task[c] \in sentNow
             /\ task[c] \notin BadEnvelope
  <2>1. task[c] = event[c] /\ mode[c] = "handling" /\ event[c] = Current(c)
    BY <1>4 DEF Agreement
  <2> QED
    BY <2>1, CurrentSent DEF Kafka!Working, Opened
<1>5. CASE Kafka!Environment /\ UNCHANGED <<claimVars, mailVars>>
  <2>1. UNCHANGED <<claims, expired, mails, results>>
    BY <1>5 DEF claimVars, mailVars
  <2>2. CASE log' = log
    BY <1>3, <2>1, <2>2
  <2>3. ASSUME NEW p \in Partitions, NEW r \in Kafka!Record, Kafka!Write(p, r)
        PROVE  [Promise!Next]_(Promise!vars)
    <3>1. PICK e \in Events : e = r.event
      BY DEF Kafka!Record
    <3>2. \A f \in Events : Sent(f)' <=> Sent(f) \/ f = e
      BY <2>3, <3>1, WriteSends
    <3>3. sentNow' = sentNow \cup {e} /\ done' = done
      BY <2>1, <3>2
    <3>4. Promise!Send(e)
      BY <2>1, <3>3 DEF Promise!Send
    <3> QED
      BY <3>4 DEF Promise!Next
  <2> QED
    BY <1>5, <2>2, <2>3, EnvironmentWrites
<1>6. ASSUME NEW c \in Processes, Kafka!Loop(c) \/ Kafka!Failure(c),
             UNCHANGED <<claimVars, mailVars>>
      PROVE  UNCHANGED Promise!vars
  <2>1. log' = log
    BY <1>6 DEF Kafka!Loop, Kafka!Failure, Kafka!Start, Kafka!Resubscribe, Kafka!Subscribe,
                Kafka!Fetch, Kafka!FetchError, Kafka!Commit, Kafka!CommitError, Kafka!Requeue,
                Kafka!RequeueError, Kafka!Bury, Kafka!BuryError
  <2> QED
    BY <1>3, <1>6, <2>1 DEF claimVars, mailVars
<1>7. ASSUME NEW c \in Processes, Work(c) \/ SendFails(c)
      PROVE  [Promise!Next]_(Promise!vars)
  <2>1. UNCHANGED <<log, claims, expired, results>> /\ step[c] # "idle"
    BY <1>7 DEF Work, SendFails, consumerVars, claimVars, Mail!Reject, Mail!Render, Mail!SendOK,
                Mail!SendRefused, Mail!ReplyLost, Mail!BreakerOpen, Mail!Conclude
  <2>2. mails' = mails \/ (Mail!Accept(task[c]) /\ step[c] = "sending")
    BY <1>7 DEF Work, SendFails, Mail!Reject, Mail!Render, Mail!SendOK, Mail!SendRefused,
                Mail!ReplyLost, Mail!BreakerOpen
  <2>3. CASE mails' = mails
    BY <1>3, <2>1, <2>3
  <2>4. CASE mails' # mails
    <3>1. PICK e \in Events : e = task[c] /\ e \in sentNow /\ e \notin BadEnvelope
      BY <1>4, <2>1
    <3>2. Kind[e] = "deliverable"
      BY <2>2, <2>4, <3>1 DEF MailFacts!HonestInv
    <3>3. e \notin Unreadable /\ e \notin Defective
      BY <3>1, <3>2, Kinds DEF Unreadable, Defective
    <3>4. mails' = [mails EXCEPT ![e] = IF mails[e] < MaxMails THEN mails[e] + 1 ELSE mails[e]]
      BY <2>2, <2>4, <3>1 DEF Mail!Accept
    <3>5. mails' = [mails EXCEPT ![e] = mails[e] + 1]
      BY <2>4, <3>4
    <3>6. sentNow' = sentNow /\ done' = done
      BY <1>1, <2>1
    <3>7. Promise!Mail(e)
      BY <2>1, <3>1, <3>3, <3>5, <3>6 DEF Promise!Mail, Promise!Rejected
    <3> QED
      BY <3>7 DEF Promise!Next
  <2> QED
    BY <2>3, <2>4
<1>8. ASSUME NEW c \in Processes, HandleOK(c) \/ PublishFails(c)
      PROVE  [Promise!Next]_(Promise!vars)
  <2>1. /\ UNCHANGED <<log, claims, expired, mails>> /\ step[c] = "publishing"
        /\ Mail!PublishResult(c) \/ UNCHANGED results
    BY <1>8 DEF HandleOK, PublishFails, Mail!Publish, Mail!PublishError, consumerVars,
                Claims!HandlerOK, Claims!HandlerErr
  <2>2. CASE UNCHANGED results
    BY <1>3, <2>1, <2>2
  <2>3. CASE Mail!PublishResult(c)
    <3>1. PICK e \in Events : e = task[c] /\ e \in sentNow /\ e \notin BadEnvelope
      BY <1>4, <2>1
    <3>2. Kind[e] # "undecodable" /\ verdict[c] \in MailFacts!Answers(e)
      BY <2>1, <3>1 DEF MailFacts!HonestInv
    <3>3. e \notin Unreadable
      BY <3>1, <3>2 DEF Unreadable
    <3>4. verdict[c] \in Promise!Truth(e)
      <4>1. CASE e \in Defective
        BY <3>2, <4>1 DEF Defective, MailFacts!Answers, MailFacts!Defect, Mail!Defect,
                          MailFacts!Reason, Mail!Reason, Promise!Truth, Promise!Rejected
      <4>2. CASE e \notin Defective
        BY <3>2, <4>2 DEF Defective, MailFacts!Answers, MailFacts!Defect, Mail!Defect,
                          Promise!Truth, Promise!Rejected
      <4> QED
        BY <4>1, <4>2
    <3>5. results' = [results EXCEPT ![e] = results[e] \cup {verdict[c]}]
      BY <2>3, <3>1 DEF Mail!PublishResult
    <3>6. sentNow' = sentNow /\ done' = done
      BY <1>1, <2>1
    <3>7. Promise!Answer(e)
      BY <2>1, <3>1, <3>3, <3>4, <3>5, <3>6 DEF Promise!Answer
    <3> QED
      BY <3>7 DEF Promise!Next
  <2> QED
    BY <2>1, <2>2, <2>3
<1>9. ASSUME UNCHANGED <<log, expired, mails, results>>, NEW e \in Events,
             claims' = [claims EXCEPT ![e] = "done"], results[e] # {}
      PROVE  [Promise!Next]_(Promise!vars)
  <2>1. CASE expired[e] # 0
    <3>1. done' = done
      BY <1>9, <2>1
    <3> QED
      BY <1>1, <1>2, <1>9, <3>1
  <2>2. CASE expired[e] = 0
    <3>1. sentNow' = sentNow /\ done' = done \cup {e}
      BY <1>1, <1>9, <2>2
    <3>2. Promise!Settle(e)
      BY <1>9, <3>1 DEF Promise!Settle
    <3> QED
      BY <3>2 DEF Promise!Next
  <2> QED
    BY <2>1, <2>2
<1>10. ASSUME UNCHANGED <<log, expired, mails, results>>, NEW e \in Events,
              expired[e] = 0 => claims[e] # "done",
              NEW v \in {"free", "processing"}, claims' = [claims EXCEPT ![e] = v]
       PROVE  UNCHANGED Promise!vars
  <2>1. done' = done
    BY <1>10
  <2> QED
    BY <1>1, <1>2, <1>10, <2>1
<1>11. ASSUME NEW c \in Processes,
              Claim(c) \/ Refused(c) \/ ClaimError(c) \/ HandleError(c)
       PROVE  [Promise!Next]_(Promise!vars)
  <2>1. UNCHANGED <<log, expired, mails, results>>
    BY <1>11 DEF Claim, Refused, ClaimError, HandleError, consumerVars, Kafka!HandlerReturns,
                 mailVars, Mail!Take, Mail!DecodeError, Claims!ClaimTaken, Claims!ClaimRefused,
                 Claims!claimVars, Claims!ClaimError, Claims!HandlerErr
  <2>2. \/ UNCHANGED claims
        \/ /\ Delivered(c) /\ claims[Current(c)] # "done"
           /\ claims' = [claims EXCEPT ![Current(c)] = "processing"]
    BY <1>11 DEF Claim, Refused, ClaimError, HandleError, Claims!ClaimTaken,
                 Claims!ClaimRefused, Claims!claimVars, Claims!ClaimError, Claims!HandlerErr
  <2>3. Delivered(c) => Current(c) \in Events
    BY DEF Delivered, HasEvent
  <2> QED
    BY <1>3, <1>10, <2>1, <2>2, <2>3
<1>12. ASSUME NEW c \in Processes, Complete(c) \/ Release(c) \/ RedisFails(c)
       PROVE  [Promise!Next]_(Promise!vars)
  <2>1. UNCHANGED <<log, expired, mails, results>>
    BY <1>12 DEF Complete, Release, RedisFails, Kafka!HandlerReturns, mailVars,
                 Claims!Complete, Claims!Release, Claims!CompleteError, Claims!ReleaseError,
                 Claims!Return
  <2>2. \/ UNCHANGED claims
        \/ stage[c] = "completing" /\ claims' = [claims EXCEPT ![event[c]] = "done"]
        \/ stage[c] = "releasing" /\ claims' = [claims EXCEPT ![event[c]] = "free"]
    BY <1>12 DEF Complete, Release, RedisFails, Claims!Complete, Claims!Release,
                 Claims!CompleteError, Claims!ReleaseError
  <2>3. stage[c] # "idle" =>
          event[c] \in Events /\ (expired[event[c]] = 0 => claims[event[c]] = "processing")
    BY DEF ClaimFacts!KeyKept
  <2>4. stage[c] = "completing" => results[event[c]] # {}
    BY DEF AnsweredInv, CompletingAnswered, Answered
  <2> QED
    BY <1>3, <1>9, <1>10, <2>1, <2>2, <2>3, <2>4
<1>13. ASSUME NEW c \in Processes, Exit(c)
       PROVE  UNCHANGED Promise!vars
  <2>1. UNCHANGED <<log, claims, expired, mails, results>>
    BY <1>13 DEF Exit, Kafka!Exit, Claims!Exit, Claims!Return, Mail!Exit, claimVars, mailVars
  <2> QED
    BY <1>3, <2>1
<1>14. ASSUME NEW e \in Events, Expire(e)
       PROVE  UNCHANGED Promise!vars
  <2>1. /\ UNCHANGED <<log, mails, results>>
        /\ claims[e] = "processing" /\ claims' = [claims EXCEPT ![e] = "free"]
        /\ \A f \in Events \ {e} : expired'[f] = expired[f]
    BY <1>14 DEF Expire, Claims!Expire, consumerVars, mailVars
  <2>2. done' = done
    BY <2>1
  <2> QED
    BY <1>1, <1>2, <2>1, <2>2
<1>15. CASE UNCHANGED vars
  BY <1>3, <1>15 DEF vars, consumerVars, claimVars, mailVars
<1> QED
  BY <1>5, <1>6, <1>7, <1>8, <1>11, <1>12, <1>13, <1>14, <1>15 DEF Next, Transport

\* Whatever fails: any number of processes that may end at any time, keys that
\* expire under a handler, a Redis, a result topic and an SMTP server that may
\* fail before or after they acted keep what MailOutcomes says.
THEOREM ImplementsOutcomes == Spec => OutcomesSpec
<1>1. Init => Promise!Init /\ Opened
  BY DEF Init, Kafka!Init, Claims!Init, Claims!Guarded, Mail!Init, Promise!Init, Opened, Sent
<1>2. Opened /\ RecordInv /\ [Next]_vars => Opened'
  BY OpenedStep
<1>3. /\ Opened /\ AnsweredInv /\ MailFacts!HonestInv /\ ClaimFacts!KeyKept
      /\ Agreement /\ RecordInv /\ HasEvent /\ Claims!TypeOK /\ Mail!TypeOK /\ [Next]_vars
      => [Promise!Next]_(Promise!vars)
  BY OutcomesStep
<1>4. MailFacts!Spec => []MailFacts!HonestInv
  BY MailAssumptions, MailFacts!VerdictsHonest
<1>5. ClaimFacts!ClaimInv => ClaimFacts!KeyKept
  BY DEF ClaimFacts!ClaimInv
<1> QED
  BY <1>1, <1>2, <1>3, <1>4, <1>5, ImplementsMail, MailTwice, PipelineAnswers, PipelineClaims,
     PipelineAgrees, PipelineRecords, PipelineHasEvent, PipelineTypes, PTL
     DEF Spec, OutcomesSpec, Promise!Spec
=============================================================================
