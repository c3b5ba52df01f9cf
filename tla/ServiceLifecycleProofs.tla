------------------------ MODULE ServiceLifecycleProofs ------------------------
(***************************************************************************)
(* Proofs about ServiceLifecycle, for any set of template definitions and  *)
(* any number of reconnects.                                               *)
(***************************************************************************)
EXTENDS ServiceLifecycle, TLAPS

\* The places in RunPullConsumer at which there is a reader, and those the
\* goroutine still can be at when a reader was made after the cancellation.
WithReader == {"adding", "fetching", "handling", "returning"}
LateLoop == WithReader \cup {"returned", "ended"}

\* At most one reader is late, since the goroutine leaves after it.
LateOnce ==
  /\ late \in {0, 1}
  /\ late = 1 => cancelled /\ loop \in LateLoop

\* No type is registered by two definitions.
DistinctTypes ==
  \A d, e \in Definitions : d.type = e.type => d = e

\* Whatever was registered is in the registry, and the consumer starts when
\* everything was.
Registered ==
  /\ registry = [t \in DOMAIN registry |-> registry[t]]
  /\ loop # "none" => unread = {}
  /\ DistinctTypes => \A d \in Definitions \ unread :
       d.type \in DOMAIN registry /\ registry[d.type] = Compiled(d)

LifeInv == TypeOK /\ OneReader /\ LateOnce /\ Registered

\* The construction of the process keeps the invariant.
LEMMA ConstructionStep ==
  ASSUME LifeInv, Construction
  PROVE  LifeInv'
<1> USE DEF LifeInv, OneReader, LateOnce, LateLoop, WithReader, App, Loop, readerVars
<1>1. ASSUME NEW d \in Definitions, Register(d)
      PROVE  LifeInv'
  <2>1. loop = "none" /\ loop' = "none"
    BY <1>1 DEF Register, TypeOK
  <2>2. TypeOK'
    BY <1>1 DEF Register, TypeOK
  <2>3. OneReader' /\ LateOnce'
    BY <1>1 DEF Register
  <2>4. DistinctTypes => \A e \in Definitions \ unread' :
          e.type \in DOMAIN registry' /\ registry'[e.type] = Compiled(e)
    <3> SUFFICES ASSUME DistinctTypes, NEW e \in Definitions \ unread'
                 PROVE  e.type \in DOMAIN registry' /\ registry'[e.type] = Compiled(e)
      OBVIOUS
    <3>1. CASE e = d
      BY <1>1, <3>1 DEF Register
    <3>2. CASE e # d
      <4>1. e \in Definitions \ unread /\ e.type # d.type
        BY <1>1, <3>2 DEF Register, DistinctTypes
      <4>2. e.type \in DOMAIN registry /\ registry[e.type] = Compiled(e)
        BY <4>1 DEF Registered
      <4> QED
        BY <1>1, <4>1, <4>2 DEF Register
    <3> QED
      BY <3>1, <3>2
  <2>5. Registered'
    BY <1>1, <2>1, <2>4 DEF Register, Registered, DistinctTypes
  <2> QED
    BY <2>2, <2>3, <2>5
<1>2. CASE ConnectRedis \/ ConnectFails \/ ProvideMailSender \/ SenderInvalid \/ RegisterFails
  <2>1. TypeOK'
    BY <1>2 DEF ConnectRedis, ConnectFails, ProvideMailSender, SenderInvalid, RegisterFails,
                Fail, TypeOK
  <2>2. UNCHANGED <<unread, registry, cancelled, loop, readerVars>>
    BY <1>2 DEF ConnectRedis, ConnectFails, ProvideMailSender, SenderInvalid, RegisterFails, Fail
  <2> QED
    BY <2>1, <2>2 DEF Registered, DistinctTypes
<1>3. CASE Start
  <2>1. loop = "none" /\ open = {}
    BY <1>3 DEF Start, TypeOK
  <2>2. TypeOK'
    BY <1>3 DEF Start, TypeOK
  <2>3. OneReader' /\ LateOnce'
    BY <1>3, <2>1 DEF Start
  <2>4. Registered'
    BY <1>3 DEF Start, Registered, DistinctTypes
  <2> QED
    BY <2>2, <2>3, <2>4
<1> QED
  BY <1>1, <1>2, <1>3 DEF Construction

\* A step that changes only readers, queues and the place of the goroutine keeps
\* what was registered.
LEMMA RegistryStays ==
  ASSUME LifeInv, UNCHANGED <<unread, registry>>, loop' # "none" => loop # "none"
  PROVE  Registered'
BY DEF LifeInv, Registered, DistinctTypes

\* The steps of the goroutine and of the retry queues keep the invariant.
LEMMA ConsumingStep ==
  ASSUME LifeInv, Consuming
  PROVE  LifeInv'
<1> USE DEF LifeInv, OneReader, LateOnce, LateLoop, WithReader, App, Loop, appVars, readerVars,
            GoTo
<1>1. loop # "none" \/ loop' = loop
  BY DEF Consuming, Going, Check, OpenReader, AddReader, HandlerReturns, CloseReader,
         Subscribed, TimerFires, Fetch, Return, WaitCancelled, QueueEnds
<1>2. UNCHANGED <<unread, registry, app, cancelled>>
  BY DEF Consuming, Going, Check, OpenReader, AddReader, HandlerReturns, CloseReader,
         Subscribed, TimerFires, Fetch, Return, WaitCancelled, QueueEnds
<1>3. Registered'
  BY <1>1, <1>2, RegistryStays
<1>4. loop' = "none" <=> app' \in {"connecting", "configuring", "building", "failed"}
  <2>1. loop' = "none" => loop = "none"
    BY DEF Consuming, Going, Check, OpenReader, AddReader, HandlerReturns, CloseReader,
           Subscribed, TimerFires, Fetch, Return, WaitCancelled, QueueEnds
  <2> QED
    BY <1>1, <1>2, <2>1 DEF TypeOK
<1>5. CASE Check \/ Subscribed \/ WaitCancelled
  <2>1. UNCHANGED <<backoff, readerVars>> /\ open = {}
    BY <1>5 DEF Check, Subscribed, WaitCancelled
  <2>2. loop' \in {"ended", "subscribing", "waiting"} /\ (cancelled => loop' = "ended")
    BY <1>5 DEF Check, Subscribed, WaitCancelled
  <2>3. TypeOK'
    BY <1>2, <1>4, <2>1, <2>2 DEF TypeOK
  <2> QED
    BY <1>2, <1>3, <2>1, <2>2, <2>3
<1>6. CASE TimerFires
  <2>1. loop = "waiting" /\ loop' = "checking" /\ UNCHANGED readerVars
    BY <1>6 DEF TimerFires
  <2>2. backoff' \in Backoff
    BY <1>6 DEF TimerFires, TypeOK, Backoff, MaxBackoff
  <2>3. TypeOK'
    BY <1>2, <1>4, <2>1, <2>2 DEF TypeOK
  <2> QED
    BY <1>2, <1>3, <2>1, <2>3
<1>7. CASE OpenReader
  <2>1. open = {} /\ late = 0 /\ made \in Nat
    BY <1>7 DEF OpenReader, TypeOK
  <2>2. TypeOK'
    BY <1>2, <1>4, <1>7, <2>1 DEF OpenReader, TypeOK
  <2> QED
    BY <1>2, <1>3, <1>7, <2>1, <2>2 DEF OpenReader
<1>8. CASE AddReader \/ HandlerReturns \/ Fetch \/ Return
  <2>1. /\ loop \in WithReader /\ loop' \in WithReader
        /\ UNCHANGED <<backoff, made, open, queues, late>>
        /\ listed' \in {listed, made}
    BY <1>8 DEF AddReader, HandlerReturns, Fetch, Return
  <2>2. TypeOK'
    BY <1>2, <1>4, <2>1 DEF TypeOK
  <2> QED
    BY <1>2, <1>3, <2>1, <2>2
<1>9. CASE CloseReader
  <2>1. open' = {}
    BY <1>9 DEF CloseReader
  <2>2. TypeOK'
    BY <1>2, <1>4, <1>9, <2>1 DEF CloseReader, TypeOK
  <2> QED
    BY <1>2, <1>3, <1>9, <2>1, <2>2 DEF CloseReader
<1>10. CASE QueueEnds
  <2>1. TypeOK'
    BY <1>2, <1>4, <1>10 DEF QueueEnds, TypeOK
  <2> QED
    BY <1>2, <1>3, <1>10, <2>1 DEF QueueEnds
<1> QED
  BY <1>5, <1>6, <1>7, <1>8, <1>9, <1>10 DEF Consuming, Going

\* The hooks and the end of the process keep the invariant.
LEMMA StoppingStep ==
  ASSUME LifeInv, Stopping
  PROVE  LifeInv'
<1> USE DEF LifeInv, OneReader, LateOnce, LateLoop, WithReader, App, Loop, readerVars, GoTo
<1>1. CASE Cancel \/ CloseRedis
  <2>1. TypeOK'
    BY <1>1 DEF Cancel, CloseRedis, TypeOK
  <2>2. /\ UNCHANGED <<unread, registry, loop, readerVars>>
        /\ cancelled => cancelled'
    BY <1>1 DEF Cancel, CloseRedis
  <2> QED
    BY <2>1, <2>2, RegistryStays
<1>2. CASE CloseBroker
  <2>1. TypeOK'
    BY <1>2 DEF CloseBroker, TypeOK
  <2> QED
    BY <1>2, <2>1, RegistryStays DEF CloseBroker
<1>3. CASE Exit
  <2>1. TypeOK'
    BY <1>3 DEF Exit, TypeOK
  <2>2. loop # "none"
    BY <1>3 DEF Exit, TypeOK
  <2>3. Registered'
    BY <1>3, <2>2, RegistryStays DEF Exit
  <2> QED
    BY <1>3, <2>1, <2>3 DEF Exit
<1> QED
  BY <1>1, <1>2, <1>3 DEF Stopping

LEMMA LifeInvariant == Spec => []LifeInv
<1>1. Init => LifeInv
  <2> SUFFICES ASSUME Init PROVE LifeInv
    OBVIOUS
  <2>1. DOMAIN registry = {} /\ registry = [t \in DOMAIN registry |-> registry[t]]
    BY DEF Init
  <2>2. TypeOK
    <3>1. DOMAIN registry \subseteq {d.type : d \in Definitions}
      BY <2>1
    <3>2. 0 \in 0..0 /\ {} \subseteq 1..0
      OBVIOUS
    <3>3. app \in App /\ loop \in Loop /\ backoff \in Backoff
      BY DEF Init, App, Loop, Backoff
    <3>4. loop = "none" /\ app \in {"connecting", "configuring", "building", "failed"}
      BY DEF Init
    <3> QED
      BY <3>1, <3>2, <3>3, <3>4 DEF Init, TypeOK
  <2>3. OneReader /\ LateOnce
    BY DEF Init, OneReader, LateOnce
  <2>4. Registered
    BY <2>1 DEF Init, Registered
  <2> QED
    BY <2>2, <2>3, <2>4 DEF LifeInv
<1>2. LifeInv /\ UNCHANGED lifeVars => LifeInv'
  BY DEF lifeVars, appVars, readerVars, LifeInv, TypeOK, OneReader, LateOnce, Registered,
         DistinctTypes
<1> QED
  BY <1>1, <1>2, ConstructionStep, ConsumingStep, StoppingStep, PTL DEF Spec, Next

\* Every reachable state is well typed; the pause never exceeds 30 seconds.
THEOREM TypeCorrect == Spec => []TypeOK
<1>1. LifeInv => TypeOK
  BY DEF LifeInv
<1> QED
  BY <1>1, LifeInvariant, PTL

\* A process has at most one open reader, and none while it waits to reconnect.
THEOREM OneReaderAtATime == Spec => []OneReader
<1>1. LifeInv => OneReader
  BY DEF LifeInv
<1> QED
  BY <1>1, LifeInvariant, PTL

\* After the cancellation at most one more reader is made.
THEOREM OneLateReader == Spec => []LateReader
<1>1. LifeInv => LateReader
  BY DEF LifeInv, LateOnce, LateReader
<1> QED
  BY <1>1, LifeInvariant, PTL

\* If no two definitions have a type in common, the consumer starts with all of
\* them in the registry, whatever the order in which they were registered.
THEOREM TemplatesComplete ==
  ASSUME DistinctTypes
  PROVE  Spec => []OwnTemplate
<1>1. LifeInv => OwnTemplate
  BY DEF LifeInv, Registered, OwnTemplate
<1> QED
  BY <1>1, LifeInvariant, PTL

-----------------------------------------------------------------------------
Real == INSTANCE MailTemplates

\* The definitions of the service have different types.
THEOREM RealTypesDistinct ==
  Definitions = Real!Templates => DistinctTypes
BY DEF DistinctTypes, Real!Templates, Real!AccountTemplates, Real!OrderTemplates,
       Real!Lifecycle, Real!Definition
=============================================================================
