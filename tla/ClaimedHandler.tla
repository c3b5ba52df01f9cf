---------------------------- MODULE ClaimedHandler ----------------------------
(***************************************************************************)
(* The handler that claimingBroker.RunPullConsumer (internal/fx/           *)
(* messaging.go) wraps around the message handler, and the Redis keys it   *)
(* keeps: one key per event, set with SETNX and a time to live before the  *)
(* handler runs, overwritten without a time to live when it succeeded,     *)
(* deleted when it failed.                                                 *)
(*                                                                         *)
(* Any worker may be handed any event at any time: which broker delivers   *)
(* the events, and how often, is left to the modules that compose this one.*)
(***************************************************************************)
EXTENDS Naturals, FiniteSets

CONSTANTS
  Workers,  \* the processes that run the handler, one event at a time each
  Events,   \* event identities (idempotency.DecodeOrFingerprint)
  NoEvent,  \* the event of a worker that runs no handler
  Faults,   \* what may go wrong: "redis", "ttl", "exit"
  MaxExpired  \* bound: expiries of one key under a running handler

ASSUME EventsAssumption ==
  /\ NoEvent \notin Events
  /\ IsFiniteSet(Workers)
  /\ MaxExpired \in Nat

VARIABLES
  claims,   \* claims[e]: the value of the Redis key of e, "free" when absent
  stage,    \* stage[w]: where w is in the wrapped handler
  event,    \* event[w]: the event w holds a claim for
  expired   \* history: expired[e] counts the expiries of the key of e that
            \* met a running handler; no step depends on it but for the bound

claimVars == <<claims, stage, event, expired>>

Claim == {"free", "processing", "done"}
Stage == {"idle", "handling", "releasing", "completing"}

\* The workers between a successful Claim and the end of the wrapped handler.
Holders(e) == {w \in Workers : stage[w] # "idle" /\ event[w] = e}

\* A worker has an event exactly while it is in the wrapped handler.
TypeOK ==
  /\ claims \in [Events -> Claim]
  /\ stage \in [Workers -> Stage]
  /\ event \in [Workers -> Events \cup {NoEvent}]
  /\ expired \in [Events -> Nat]
  /\ \A w \in Workers : stage[w] = "idle" <=> event[w] = NoEvent

Init ==
  /\ claims = [e \in Events |-> "free"]
  /\ stage = [w \in Workers |-> "idle"]
  /\ event = [w \in Workers |-> NoEvent]
  /\ expired = [e \in Events |-> 0]

-----------------------------------------------------------------------------
(* Steps of one worker.  A step that ends the wrapped handler names in its   *)
(* comment what it returns to the broker.                                    *)

\* Mutant: the event is not forgotten.
ReturnMutant(w) ==
  /\ stage' = [stage EXCEPT ![w] = "idle"]
  /\ UNCHANGED <<event, expired>>

Return(w) ==
  /\ stage' = [stage EXCEPT ![w] = "idle"]
  /\ event' = [event EXCEPT ![w] = NoEvent]
  /\ UNCHANGED expired

\* Mutant: SET instead of SETNX.
ClaimTakenBySet(w, e) ==
  /\ stage[w] = "idle"
  /\ claims' = [claims EXCEPT ![e] = "processing"]
  /\ stage' = [stage EXCEPT ![w] = "handling"]
  /\ event' = [event EXCEPT ![w] = e]
  /\ UNCHANGED expired

\* Mutant: only a key with the value "processing" keeps a worker out.
ClaimTakenIfDone(w, e) ==
  /\ stage[w] = "idle"
  /\ claims[e] # "processing"
  /\ claims' = [claims EXCEPT ![e] = "processing"]
  /\ stage' = [stage EXCEPT ![w] = "handling"]
  /\ event' = [event EXCEPT ![w] = e]
  /\ UNCHANGED expired

\* SETNX finds no key: the event is claimed and the handler starts.
ClaimTaken(w, e) ==
  /\ stage[w] = "idle"
  /\ claims[e] = "free"
  /\ claims' = [claims EXCEPT ![e] = "processing"]
  /\ stage' = [stage EXCEPT ![w] = "handling"]
  /\ event' = [event EXCEPT ![w] = e]
  /\ UNCHANGED expired

\* SETNX finds a key, whatever its value: the wrapped handler returns nil and
\* the handler is not run.
ClaimRefused(w, e) ==
  /\ stage[w] = "idle"
  /\ claims[e] # "free"
  /\ UNCHANGED claimVars

\* SETNX returns an error, before or after the key was set: the wrapped
\* handler returns the error and nobody holds a key that was set.
ClaimError(w, e) ==
  /\ "redis" \in Faults
  /\ stage[w] = "idle"
  /\ \/ UNCHANGED claims
     \/ claims[e] = "free" /\ claims' = [claims EXCEPT ![e] = "processing"]
  /\ UNCHANGED <<stage, event, expired>>

HandlerOK(w) ==
  /\ stage[w] = "handling"
  /\ stage' = [stage EXCEPT ![w] = "completing"]
  /\ UNCHANGED <<claims, event, expired>>

HandlerErr(w) ==
  /\ stage[w] = "handling"
  /\ stage' = [stage EXCEPT ![w] = "releasing"]
  /\ UNCHANGED <<claims, event, expired>>

\* Mutant: the key is left as Claim set it.
CompleteForgotten(w) ==
  /\ stage[w] = "completing"
  /\ UNCHANGED claims
  /\ Return(w)

\* SET key "done" without a time to live; returns nil.
Complete(w) ==
  /\ stage[w] = "completing"
  /\ claims' = [claims EXCEPT ![event[w]] = "done"]
  /\ Return(w)

\* SET fails, before or after it took effect; returns the error.
CompleteError(w) ==
  /\ "redis" \in Faults
  /\ stage[w] = "completing"
  /\ \/ UNCHANGED claims
     \/ claims' = [claims EXCEPT ![event[w]] = "done"]
  /\ Return(w)

\* Mutant: the key is left as Claim set it.
ReleaseForgotten(w) ==
  /\ stage[w] = "releasing"
  /\ UNCHANGED claims
  /\ Return(w)

\* DEL, whoever set the key and whatever its value; returns the handler's error.
Release(w) ==
  /\ stage[w] = "releasing"
  /\ claims' = [claims EXCEPT ![event[w]] = "free"]
  /\ Return(w)

\* DEL fails and its error is dropped; returns the handler's error.
ReleaseError(w) ==
  /\ "redis" \in Faults
  /\ stage[w] = "releasing"
  /\ UNCHANGED claims
  /\ Return(w)

\* The process of a worker ends; its key stays.
Exit(w) ==
  /\ "exit" \in Faults
  /\ stage[w] # "idle"
  /\ UNCHANGED claims
  /\ Return(w)

-----------------------------------------------------------------------------
\* Mutant: SET "done" has a time to live too.
ExpireDone(e) ==
  /\ claims[e] # "free"
  /\ Holders(e) = {}
  /\ claims' = [claims EXCEPT ![e] = "free"]
  /\ UNCHANGED <<stage, event, expired>>

(* Redis removes a key 15 minutes after SETNX, whether or not the handler is  *)
(* still running: nothing limits the time it takes or renews the key.  Without *)
(* the fault "ttl" no handler runs that long.                                 *)
Expire(e) ==
  /\ claims[e] = "processing"
  /\ Holders(e) # {} => "ttl" \in Faults /\ expired[e] < MaxExpired
  /\ claims' = [claims EXCEPT ![e] = "free"]
  /\ expired' = IF Holders(e) = {} THEN expired ELSE [expired EXCEPT ![e] = @ + 1]
  /\ UNCHANGED <<stage, event>>

Next ==
  \/ \E w \in Workers, e \in Events :
       ClaimTaken(w, e) \/ ClaimRefused(w, e) \/ ClaimError(w, e)
  \/ \E w \in Workers : HandlerOK(w) \/ HandlerErr(w)
  \/ \E w \in Workers : Complete(w) \/ CompleteError(w)
  \/ \E w \in Workers : Release(w) \/ ReleaseError(w)
  \/ \E w \in Workers : Exit(w)
  \/ \E e \in Events : Expire(e)

Spec == Init /\ [][Next]_claimVars

-----------------------------------------------------------------------------
(* Properties.                                                               *)

\* Each expiry of a key under a running handler lets at most one more worker
\* run the handler for its event, however often a worker whose key expired then
\* deletes or overwrites the key of another; without such an expiry there are
\* never two.
ExclusiveHolder ==
  \A e \in Events : Cardinality(Holders(e)) <= 1 + expired[e]

\* An event once recorded as done stays recorded, unless a handler of it outlived
\* its key: only the Release of such a handler deletes a "done" key, and no
\* expiry does, which is what makes a later delivery harmless.
DoneIsFinal ==
  [][\A e \in Events :
       claims[e] = "done" /\ expired[e] = 0 => claims'[e] = "done"]_claimVars

\* The events whose key never expired under a running handler.
Guarded == {e \in Events : expired[e] = 0}

\* Who works on what, and what is done, read off the keys and the workers.  The
\* promise for an event ends when its key expires under a running handler.
Processing == INSTANCE EventProcessing WITH
  active <- [e \in Events |-> IF e \in Guarded THEN Holders(e) ELSE {}],
  done <- {e \in Guarded : claims[e] = "done"}

\* Every step of the claim protocol is a step of EventProcessing or a stutter:
\* an event is entered only when nobody works on it and it is not done; a key
\* that expires early costs its own event this promise and no other.
ProcessingSpec == Processing!Spec
=============================================================================
