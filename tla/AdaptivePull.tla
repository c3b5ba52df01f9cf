----------------------------- MODULE AdaptivePull -----------------------------
(***************************************************************************)
(* The start of a NATS pull consumer (natsBroker.RunPullConsumer) and the  *)
(* plan its fetcher works with from then on: the configured one first,     *)
(* and, when the configuration is adaptive, the one for the backlog it     *)
(* reads from time to time (maybeUpdateAdaptivePlan in                     *)
(* nats/pull_consumer_runtime.go).                                         *)
(***************************************************************************)
EXTENDS PullPlan

CONSTANTS
  Configs,    \* the configurations to be tried, valid or not
  MaxBacklog  \* bound: messages in the stream that were never delivered

ASSUME ConfigsAssumption ==
  /\ Configs \subseteq PullConsumerConfig(Int)
  /\ MaxBacklog \in Nat

VARIABLES
  cfg,      \* the configuration RunPullConsumer is called with
  runtime,  \* "none", "rejected", or "fetching"
  plan,     \* what the fetcher asks for
  backlog   \* NumPending of the consumer

pullVars == <<cfg, runtime, plan, backlog>>

NoPlan == Plan("none", 0, 0)

Tier == {"none", "base", "low", "medium", "high"}

\* The fetcher has a plan exactly when it runs.
TypeOK ==
  /\ cfg \in Configs
  /\ runtime \in {"none", "rejected", "fetching"}
  /\ plan \in [tier : Tier, batch : Int, wait : Int]
  /\ backlog \in 0..MaxBacklog
  /\ runtime = "fetching" <=> plan.tier # "none"

Init ==
  /\ cfg \in Configs
  /\ runtime = "none"
  /\ plan = NoPlan
  /\ backlog \in 0..MaxBacklog

\* Messages are published, and delivered.
Backlog ==
  /\ backlog' \in {backlog - 1, backlog + 1} \cap 0..MaxBacklog
  /\ UNCHANGED <<cfg, runtime, plan>>

\* Mutant: the fetcher starts without a plan.
RunWithoutPlan ==
  /\ runtime = "none"
  /\ runtime' = IF Valid(cfg) THEN "fetching" ELSE "rejected"
  /\ UNCHANGED <<cfg, plan, backlog>>

\* Validate, Create and Start; the fetcher begins with the configured plan.
RunPullConsumer ==
  /\ runtime = "none"
  /\ \/ Valid(cfg) /\ runtime' = "fetching" /\ plan' = BasePlan(cfg)
     \/ ~Valid(cfg) /\ runtime' = "rejected" /\ UNCHANGED plan
  /\ UNCHANGED <<cfg, backlog>>

\* The check interval is over and ConsumerInfo tells the backlog.
MaybeUpdateAdaptivePlan ==
  /\ runtime = "fetching"
  /\ cfg.adaptive.enabled
  /\ plan' = ResolvePullPlan(cfg, backlog)
  /\ UNCHANGED <<cfg, runtime, backlog>>

Next == RunPullConsumer \/ MaybeUpdateAdaptivePlan \/ Backlog

Spec == Init /\ [][Next]_pullVars

-----------------------------------------------------------------------------
(* Properties.                                                               *)

\* A consumer that Validate let start never asks for nothing and never waits
\* for no time, whatever the backlog does: Validate checks enough.  (Fetch
\* fails at once otherwise, and the fetcher tries again for ever.)
PlanUsable ==
  runtime = "fetching" => plan.batch > 0 /\ plan.wait > 0
=============================================================================
