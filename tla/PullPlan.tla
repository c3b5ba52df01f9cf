------------------------------- MODULE PullPlan -------------------------------
(***************************************************************************)
(* The configuration of a NATS pull consumer: what Validate accepts        *)
(* (nats/pull_consumer_validator.go), and the plan, how many messages to   *)
(* ask for and how long to wait for them, that ResolvePullPlan             *)
(* (nats/broker.go) derives from it and the backlog.                       *)
(*                                                                         *)
(* Which error Validate returns is left out, and so are its checks that    *)
(* the names are not empty.                                                *)
(***************************************************************************)
EXTENDS Integers

\* The configurations whose numbers are taken from a set.
Adaptive(Ints) ==
  [enabled : BOOLEAN, checkInterval : Ints, mediumPending : Ints, highPending : Ints,
   lowBatch : Ints, lowWait : Ints, mediumBatch : Ints, mediumWait : Ints,
   highBatch : Ints, highWait : Ints]

PullConsumerConfig(Ints) ==
  [batchSize : Ints, maxWait : Ints, workers : Ints, queueSize : Ints,
   ackWait : Ints, maxDeliver : Ints, adaptive : Adaptive(Ints)]

ValidBase(cfg) ==
  /\ cfg.batchSize > 0 /\ cfg.maxWait > 0
  /\ cfg.workers > 0 /\ cfg.queueSize > 0
  /\ cfg.ackWait > 0 /\ cfg.maxDeliver > 0

\* Mutant: the plan of the highest tier is not validated.
ValidAdaptiveButHigh(a) ==
  /\ a.checkInterval > 0
  /\ a.mediumPending >= 0
  /\ a.highPending > a.mediumPending
  /\ a.lowBatch > 0 /\ a.lowWait > 0
  /\ a.mediumBatch > 0 /\ a.mediumWait > 0

ValidAdaptive(a) ==
  /\ a.checkInterval > 0
  /\ a.mediumPending >= 0
  /\ a.highPending > a.mediumPending
  /\ a.lowBatch > 0 /\ a.lowWait > 0
  /\ a.mediumBatch > 0 /\ a.mediumWait > 0
  /\ a.highBatch > 0 /\ a.highWait > 0

\* Validate returns nil.
Valid(cfg) ==
  /\ ValidBase(cfg)
  /\ cfg.adaptive.enabled => ValidAdaptive(cfg.adaptive)

Plan(tier, batch, wait) == [tier |-> tier, batch |-> batch, wait |-> wait]

BasePlan(cfg) == Plan("base", cfg.batchSize, cfg.maxWait)

ResolvePullPlan(cfg, pending) ==
  LET a == cfg.adaptive IN
  CASE ~a.enabled -> BasePlan(cfg)
    [] a.enabled /\ pending >= a.highPending -> Plan("high", a.highBatch, a.highWait)
    [] a.enabled /\ pending >= a.mediumPending /\ pending < a.highPending ->
         Plan("medium", a.mediumBatch, a.mediumWait)
    [] OTHER -> Plan("low", a.lowBatch, a.lowWait)
=============================================================================
