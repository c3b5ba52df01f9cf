-------------------------- MODULE AdaptivePullProofs --------------------------
(***************************************************************************)
(* Proofs about AdaptivePull and NatsStart, for all configurations and     *)
(* backlogs.                                                               *)
(***************************************************************************)
EXTENDS NatsStart, TLAPS

\* Whatever the backlog, the plan of a valid configuration asks for something
\* and waits for some time.
LEMMA ValidPlans ==
  ASSUME NEW c \in PullConsumerConfig(Int), Valid(c), NEW n \in Int
  PROVE  /\ BasePlan(c) \in [tier : Tier, batch : Int, wait : Int]
         /\ BasePlan(c).batch > 0 /\ BasePlan(c).wait > 0 /\ BasePlan(c).tier # "none"
         /\ ResolvePullPlan(c, n) \in [tier : Tier, batch : Int, wait : Int]
         /\ ResolvePullPlan(c, n).batch > 0 /\ ResolvePullPlan(c, n).wait > 0
         /\ ResolvePullPlan(c, n).tier # "none"
<1> DEFINE a == c.adaptive
<1>1. /\ c.batchSize \in Int /\ c.maxWait \in Int
      /\ a.lowBatch \in Int /\ a.lowWait \in Int
      /\ a.mediumBatch \in Int /\ a.mediumWait \in Int
      /\ a.highBatch \in Int /\ a.highWait \in Int
      /\ a.mediumPending \in Int /\ a.highPending \in Int
      /\ a.enabled \in BOOLEAN
  BY DEF PullConsumerConfig, Adaptive
<1>2. /\ BasePlan(c) \in [tier : Tier, batch : Int, wait : Int]
      /\ BasePlan(c).batch > 0 /\ BasePlan(c).wait > 0 /\ BasePlan(c).tier # "none"
  BY <1>1 DEF Valid, ValidBase, BasePlan, Plan, Tier
<1>3. CASE ~a.enabled
  BY <1>2, <1>3 DEF ResolvePullPlan
<1>4. CASE a.enabled
  <2>1. ValidAdaptive(a)
    BY <1>4 DEF Valid
  <2> HIDE DEF a
  <2>2. \/ ResolvePullPlan(c, n) = Plan("high", a.highBatch, a.highWait)
        \/ ResolvePullPlan(c, n) = Plan("medium", a.mediumBatch, a.mediumWait)
        \/ ResolvePullPlan(c, n) = Plan("low", a.lowBatch, a.lowWait)
    BY <1>1, <1>4 DEF ResolvePullPlan, a
  <2> QED BY <1>1, <1>2, <2>1, <2>2 DEF ValidAdaptive, Plan, Tier
<1> QED BY <1>1, <1>3, <1>4

\* A running consumer was started with a valid configuration.
PullInv ==
  /\ TypeOK
  /\ runtime = "fetching" => Valid(cfg) /\ plan.batch > 0 /\ plan.wait > 0

\* PullInv holds at first and is kept by every step.
THEOREM PullInvariant == Spec => []PullInv
<1>1. Init => PullInv
  BY DEF Init, PullInv, TypeOK, NoPlan, Plan, Tier
<1>2. PullInv /\ [Next]_pullVars => PullInv'
  <2> SUFFICES ASSUME PullInv, [Next]_pullVars PROVE PullInv'
    OBVIOUS
  <2>1. /\ cfg \in PullConsumerConfig(Int)
        /\ backlog \in Int
    BY ConfigsAssumption DEF PullInv, TypeOK
  <2>2. CASE Backlog
    BY <2>2 DEF PullInv, TypeOK, Backlog
  <2>3. CASE RunPullConsumer
    <3>1. CASE Valid(cfg)
      <4>1. /\ BasePlan(cfg) \in [tier : Tier, batch : Int, wait : Int]
            /\ BasePlan(cfg).batch > 0 /\ BasePlan(cfg).wait > 0 /\ BasePlan(cfg).tier # "none"
        BY <2>1, <3>1, ValidPlans
      <4> QED BY <2>3, <3>1, <4>1 DEF PullInv, TypeOK, RunPullConsumer
    <3>2. CASE ~Valid(cfg)
      BY <2>3, <3>2 DEF PullInv, TypeOK, RunPullConsumer
    <3> QED BY <3>1, <3>2
  <2>4. CASE MaybeUpdateAdaptivePlan
    <3>1. Valid(cfg) /\ plan' = ResolvePullPlan(cfg, backlog)
      BY <2>4 DEF PullInv, MaybeUpdateAdaptivePlan
    <3>2. /\ plan' \in [tier : Tier, batch : Int, wait : Int]
          /\ plan'.batch > 0 /\ plan'.wait > 0 /\ plan'.tier # "none"
      BY <2>1, <3>1, ValidPlans
    <3> QED BY <2>4, <3>1, <3>2 DEF PullInv, TypeOK, MaybeUpdateAdaptivePlan
  <2>5. CASE UNCHANGED pullVars
    BY <2>5 DEF PullInv, TypeOK, pullVars
  <2> QED BY <2>2, <2>3, <2>4, <2>5 DEF Next
<1> QED BY <1>1, <1>2, PTL DEF Spec

\* The plan is a plan exactly while a fetcher runs by it.
THEOREM TypeCorrect == Spec => []TypeOK
<1>1. PullInv => TypeOK
  BY DEF PullInv
<1> QED BY <1>1, PullInvariant, PTL

\* Every configuration that Validate accepts keeps the fetcher of a NATS
\* consumer going: at no backlog does it ask for nothing or wait for no time.
THEOREM PlansUsable == Spec => []PlanUsable
<1>1. PullInv => PlanUsable
  BY DEF PullInv, PlanUsable
<1> QED BY <1>1, PullInvariant, PTL

-----------------------------------------------------------------------------
(* The start on NATS.                                                        *)

\* The start runs RunPullConsumer once, when everything is set up.
StartInv ==
  /\ PlaceOK
  /\ SetUp
  /\ place \in {"subscribe", "running"} => Valid(cfg)

LEMMA StartStep ==
  ASSUME StartInv, [StartNext]_startVars
  PROVE  StartInv'
<1> USE DEF StartInv, PlaceOK, SetUp, Place, Resource, Stream
<1>1. ASSUME NEW r \in Resource, Add(r) \/ Update(r)
      PROVE  StartInv'
  <2>1. /\ place = r /\ place' = After[r] /\ updating' = FALSE
        /\ server' = [server EXCEPT ![r] = "current"]
        /\ UNCHANGED <<cfg, runtime>>
    BY <1>1 DEF Add, Update, At, Set, Proceed, pullVars
  <2>2. r = "consumer" => Valid(cfg)
    BY <1>1 DEF Add, Update, At
  <2>3. place' \in {"events", "consumer", "subscribe"}
    BY <2>1 DEF After
  <2>4. /\ r = "commands" => place' = "events"
        /\ r = "events" => place' = "consumer"
        /\ r = "consumer" => place' = "subscribe"
    BY <2>1 DEF After
  <2>5. PlaceOK' /\ SetUp'
    BY <2>1, <2>3, <2>4
  <2>6. place' \in {"subscribe", "running"} => Valid(cfg)
    BY <2>2, <2>3, <2>4
  <2> QED
    BY <2>1, <2>5, <2>6
<1>2. ASSUME NEW r \in Resource, AddFails(r) \/ AddError(r)
      PROVE  StartInv'
  BY <1>2 DEF AddFails, AddError, At, Set, pullVars
<1>3. ASSUME NEW r \in Resource, UpdateFails(r) \/ UpdateError(r)
      PROVE  StartInv'
  BY <1>3 DEF UpdateFails, UpdateError, At, Set, Fail, pullVars
<1>4. CASE Reject
  <2>1. place = "consumer" /\ server["commands"] = "current" /\ server["events"] = "current"
    BY <1>4 DEF Reject
  <2>2. runtime' = "rejected"
    <3>1. ~Valid(cfg) /\ RunPullConsumer
      BY <1>4 DEF Reject
    <3> QED
      BY <3>1 DEF RunPullConsumer
  <2>3. place' = "rejected" /\ updating' = FALSE /\ server' = server
    BY <1>4 DEF Reject
  <2>4. PlaceOK' /\ SetUp'
    BY <2>1, <2>2, <2>3
  <2> QED
    BY <2>3, <2>4 DEF StartInv
<1>5. CASE Subscribe
  BY <1>5 DEF Subscribe, RunPullConsumer
<1>6. CASE ConnectError \/ SubscribeError
  BY <1>6 DEF ConnectError, SubscribeError, Fail, pullVars
<1>7. ASSUME NEW r \in Resource, Peer(r)
      PROVE  StartInv'
  BY <1>7 DEF Peer, Set, pullVars
<1>8. CASE Fetching
  BY <1>8 DEF Fetching, MaybeUpdateAdaptivePlan, Backlog
<1>9. CASE UNCHANGED startVars
  BY <1>9 DEF startVars, pullVars
<1> QED
  BY <1>1, <1>2, <1>3, <1>4, <1>5, <1>6, <1>7, <1>8, <1>9 DEF StartNext, Starting, Fault

LEMMA StartInvariant == StartSpec => []StartInv
<1>1. StartInit => StartInv
  BY DEF StartInit, Init, StartInv, PlaceOK, SetUp, Place, Resource, Stream
<1> QED
  BY <1>1, StartStep, PTL DEF StartSpec

\* A consumer fetches only from streams, and through a durable consumer, that
\* have this release's configuration.
THEOREM AllSetUp == StartSpec => []SetUp
<1>1. StartInv => SetUp
  BY DEF StartInv
<1> QED
  BY <1>1, StartInvariant, PTL

\* The start is one RunPullConsumer of AdaptivePull, so its plans are usable.
THEOREM StartImplementsPull == StartSpec => Spec
<1>1. [StartNext]_startVars => [Next]_pullVars
  BY DEF StartNext, Starting, Fault, Fetching, Next, Add, Update, AddFails, AddError,
         UpdateFails, UpdateError, Reject, Subscribe, ConnectError, SubscribeError,
         Peer, startVars
<1> QED
  BY <1>1, PTL DEF StartSpec, StartInit, Spec

\* Every state of the start is well typed, and it is past its last step exactly
\* while the consumer fetches.
THEOREM StartTypeCorrect == StartSpec => []StartTypeOK
<1>1. StartInv /\ TypeOK => StartTypeOK
  BY DEF StartInv, StartTypeOK
<1> QED
  BY <1>1, StartInvariant, StartImplementsPull, TypeCorrect, PTL

\* The consumer a start on NATS ends in never asks for nothing, whichever calls
\* failed on the way and whatever other instances did.
THEOREM StartPlansUsable == StartSpec => []PlanUsable
BY StartImplementsPull, PlansUsable, PTL
=============================================================================
