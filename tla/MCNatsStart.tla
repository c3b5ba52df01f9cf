---------------------------- MODULE MCNatsStart ----------------------------
(***************************************************************************)
(* Instance of NatsStart for TLC: thresholds below, at and above the       *)
(* backlogs, and plans of which one number may be zero.                    *)
(***************************************************************************)
EXTENDS NatsStart

Adaptively(on, m, h, zero) ==
  [enabled |-> on, checkInterval |-> 1,
   mediumPending |-> m, highPending |-> h,
   lowBatch |-> IF zero = "low" THEN 0 ELSE 1, lowWait |-> 2,
   mediumBatch |-> IF zero = "medium" THEN 0 ELSE 1, mediumWait |-> 1,
   highBatch |-> IF zero = "high" THEN 0 ELSE 1,
   highWait |-> IF zero = "highWait" THEN 0 ELSE 1]

MCConfigs ==
  {[batchSize |-> IF zero = "base" THEN 0 ELSE 1, maxWait |-> 1,
    workers |-> 1, queueSize |-> 1, ackWait |-> 1, maxDeliver |-> 1,
    adaptive |-> Adaptively(on, m, h, zero)]
    : on \in BOOLEAN, m \in -1..1, h \in 0..2,
      zero \in {"nothing", "base", "low", "medium", "high", "highWait"}}
=============================================================================
