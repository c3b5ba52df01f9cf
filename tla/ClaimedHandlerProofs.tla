------------------------- MODULE ClaimedHandlerProofs -------------------------
(***************************************************************************)
(* Proofs about ClaimedHandler for any number of workers and events.       *)
(* They hold whatever fails: handlers that outlive the time to live of     *)
(* their key are counted in the history variable expired.                  *)
(***************************************************************************)
EXTENDS ClaimedHandler, FiniteSetTheorems, TLAPS

\* Every reachable state is well typed, and a worker holds a claim exactly
\* while it is in the wrapped handler.
THEOREM TypeCorrect == Spec => []TypeOK
<1>1. Init => TypeOK
  BY EventsAssumption DEF Init, TypeOK, Claim, Stage
<1>2. TypeOK /\ [Next]_claimVars => TypeOK'
  <2> SUFFICES ASSUME TypeOK, [Next]_claimVars
               PROVE  TypeOK'
    OBVIOUS
  <2> USE EventsAssumption DEF TypeOK, Claim, Stage
  <2>1. ASSUME NEW w \in Workers, NEW e \in Events, ClaimTaken(w, e)
        PROVE  TypeOK'
    BY <2>1 DEF ClaimTaken
  <2>2. ASSUME NEW w \in Workers, NEW e \in Events, ClaimRefused(w, e)
        PROVE  TypeOK'
    BY <2>2 DEF ClaimRefused, claimVars
  <2>3. ASSUME NEW w \in Workers, NEW e \in Events, ClaimError(w, e)
        PROVE  TypeOK'
    BY <2>3 DEF ClaimError
  <2>4. ASSUME NEW w \in Workers, HandlerOK(w) \/ HandlerErr(w)
        PROVE  TypeOK'
    BY <2>4 DEF HandlerOK, HandlerErr
  <2>5. ASSUME NEW w \in Workers, Complete(w) \/ CompleteError(w)
        PROVE  TypeOK'
    BY <2>5 DEF Complete, CompleteError, Return
  <2>6. ASSUME NEW w \in Workers, Release(w) \/ ReleaseError(w)
        PROVE  TypeOK'
    BY <2>6 DEF Release, ReleaseError, Return
  <2>7. ASSUME NEW w \in Workers, Exit(w)
        PROVE  TypeOK'
    BY <2>7 DEF Exit, Return
  <2>8. ASSUME NEW e \in Events, Expire(e)
        PROVE  TypeOK'
    BY <2>8 DEF Expire
  <2>9. CASE UNCHANGED claimVars
    BY <2>9 DEF claimVars
  <2> QED
    BY <2>1, <2>2, <2>3, <2>4, <2>5, <2>6, <2>7, <2>8, <2>9 DEF Next
<1> QED
  BY <1>1, <1>2, PTL DEF Spec

-----------------------------------------------------------------------------
\* The workers that hold e after a step.
HoldersNext(e) == {w \in Workers : stage'[w] # "idle" /\ event'[w] = e}

\* 1 if there is a key for e.
KeyCount(e) == IF claims[e] = "free" THEN 0 ELSE 1

\* ExclusiveHolder is not inductive: a worker that enters needs a free key, and
\* that key must have been given up by a holder, or have expired.
HolderBound(e) == Cardinality(Holders(e)) <= KeyCount(e) + expired[e]

\* A worker still has its key, unless a key of its event expired early.
KeyKept ==
  \A w \in Workers :
    stage[w] # "idle" /\ expired[event[w]] = 0 => claims[event[w]] = "processing"

\* The bound keeps a second holder out, so that the key a Complete or a Release
\* changes is the key of no other worker.
ClaimInv == TypeOK /\ (\A e \in Events : HolderBound(e)) /\ KeyKept

\* The holders of an event are finitely many.
LEMMA HoldersFinite ==
  ASSUME NEW e \in Events
  PROVE  /\ IsFiniteSet(Holders(e)) /\ Cardinality(Holders(e)) \in Nat
         /\ IsFiniteSet(HoldersNext(e)) /\ Cardinality(HoldersNext(e)) \in Nat
<1>1. Holders(e) \subseteq Workers /\ HoldersNext(e) \subseteq Workers /\ IsFiniteSet(Workers)
  BY EventsAssumption DEF Holders, HoldersNext
<1> QED
  BY <1>1, FS_Subset, FS_CardinalityType

\* Two holders of one event mean that a key of it expired early.
LEMMA NoSecondHolder ==
  ASSUME ClaimInv, NEW e \in Events, expired[e] = 0,
         NEW v \in Holders(e), NEW w \in Holders(e)
  PROVE  v = w
<1> SUFFICES ASSUME v # w
             PROVE  FALSE
  OBVIOUS
<1>1. Cardinality(Holders(e)) <= 1
  <2>1. KeyCount(e) \in {0, 1} /\ Cardinality(Holders(e)) \in Nat
    BY HoldersFinite DEF KeyCount
  <2> QED
    BY <2>1 DEF ClaimInv, HolderBound
<1>2. /\ IsFiniteSet({v} \cup {w}) /\ Cardinality({v} \cup {w}) = 2
  <2>1. IsFiniteSet({v}) /\ Cardinality({v}) = 1 /\ w \notin {v}
    BY FS_Singleton
  <2>2. /\ IsFiniteSet({v} \cup {w})
        /\ Cardinality({v} \cup {w}) = IF w \in {v} THEN Cardinality({v}) ELSE Cardinality({v}) + 1
    BY <2>1, FS_AddElement
  <2> QED
    BY <2>1, <2>2
<1>3. Cardinality({v} \cup {w}) <= Cardinality(Holders(e))
  BY HoldersFinite, FS_Subset
<1> QED
  BY <1>1, <1>2, <1>3, HoldersFinite

\* A worker that takes a claim becomes one more holder of its event.
LEMMA HolderEnters ==
  ASSUME TypeOK, NEW w \in Workers, NEW e \in Events, ClaimTaken(w, e)
  PROVE  /\ w \notin Holders(e)
         /\ HoldersNext(e) = Holders(e) \cup {w}
         /\ \A f \in Events \ {e} : HoldersNext(f) = Holders(f)
BY EventsAssumption DEF TypeOK, Stage, Claim, Holders, HoldersNext, ClaimTaken

\* A worker that returns is a holder of its event no more.
LEMMA HolderReturns ==
  ASSUME TypeOK, NEW w \in Workers, stage[w] # "idle", Return(w)
  PROVE  /\ event[w] \in Events /\ w \in Holders(event[w])
         /\ HoldersNext(event[w]) = Holders(event[w]) \ {w}
         /\ \A f \in Events \ {event[w]} : HoldersNext(f) = Holders(f)
         /\ expired' = expired
BY EventsAssumption DEF TypeOK, Stage, Holders, HoldersNext, Return

\* The steps that end the wrapped handler.
LEMMA Returns ==
  ASSUME NEW w \in Workers,
         Complete(w) \/ CompleteError(w) \/ Release(w) \/ ReleaseError(w) \/ Exit(w)
  PROVE  /\ stage[w] # "idle" /\ Return(w)
         /\ \/ UNCHANGED claims
            \/ \E v \in {"free", "done"} : claims' = [claims EXCEPT ![event[w]] = v]
BY DEF Complete, CompleteError, Release, ReleaseError, Exit

\* The steps of a worker that change no holder.
LEMMA HoldersStay ==
  ASSUME TypeOK, NEW w \in Workers, NEW e \in Events,
         ClaimRefused(w, e) \/ ClaimError(w, e) \/ HandlerOK(w) \/ HandlerErr(w)
  PROVE  /\ \A f \in Events : HoldersNext(f) = Holders(f)
         /\ \A v \in Workers : event'[v] = event[v] /\ (stage'[v] # "idle" <=> stage[v] # "idle")
         /\ expired' = expired
         /\ claims' = claims \/ (claims[e] = "free" /\ claims' = [claims EXCEPT ![e] = "processing"])
<1>1. \A v \in Workers : event'[v] = event[v] /\ (stage'[v] # "idle" <=> stage[v] # "idle")
  BY DEF ClaimRefused, ClaimError, HandlerOK, HandlerErr, claimVars, TypeOK
<1> QED
  BY <1>1 DEF ClaimRefused, ClaimError, HandlerOK, HandlerErr, claimVars, Holders, HoldersNext

\* The number of holders stays within the bound, step by step.
LEMMA BoundStep ==
  ASSUME ClaimInv, [Next]_claimVars, NEW e \in Events
  PROVE  HolderBound(e)'
<1> DEFINE n == Cardinality(Holders(e))
           m == Cardinality(HoldersNext(e))
           key == IF claims'[e] = "free" THEN 0 ELSE 1
<1> SUFFICES m <= key + expired'[e]
  BY DEF HolderBound, KeyCount, Holders, HoldersNext
<1>0. /\ TypeOK /\ n \in Nat /\ m \in Nat /\ expired[e] \in Nat
      /\ n <= KeyCount(e) + expired[e] /\ KeyCount(e) \in {0, 1} /\ key \in {0, 1}
  BY HoldersFinite DEF ClaimInv, HolderBound, KeyCount, TypeOK
<1>1. ASSUME m = n, claims'[e] = claims[e], expired' = expired
      PROVE  m <= key + expired'[e]
  BY <1>0, <1>1 DEF KeyCount
<1>2. ASSUME NEW w \in Workers, NEW f \in Events, ClaimTaken(w, f)
      PROVE  m <= key + expired'[e]
  <2>1. CASE f # e
    <3>1. m = n /\ claims'[e] = claims[e] /\ expired' = expired
      BY <1>0, <1>2, <2>1, HolderEnters DEF ClaimTaken, TypeOK
    <3> QED
      BY <1>1, <3>1
  <2>2. CASE f = e
    <3>1. m = n + 1
      <4>1. w \notin Holders(e) /\ HoldersNext(e) = Holders(e) \cup {w}
        BY <1>0, <1>2, <2>2, HolderEnters
      <4> QED
        BY <4>1, HoldersFinite, FS_AddElement
    <3>2. KeyCount(e) = 0 /\ key = 1 /\ expired' = expired
      BY <1>0, <1>2, <2>2 DEF ClaimTaken, KeyCount, TypeOK
    <3> QED
      BY <1>0, <3>1, <3>2
  <2> QED
    BY <2>1, <2>2
<1>3. ASSUME NEW w \in Workers, NEW f \in Events,
             ClaimRefused(w, f) \/ ClaimError(w, f) \/ HandlerOK(w) \/ HandlerErr(w)
      PROVE  m <= key + expired'[e]
  <2>1. m = n /\ expired' = expired
    BY <1>0, <1>3, HoldersStay
  <2>2. claims'[e] = claims[e] \/ key = 1
    BY <1>0, <1>3, HoldersStay DEF TypeOK
  <2> QED
    BY <1>0, <1>1, <2>1, <2>2
<1>4. ASSUME NEW w \in Workers,
             Complete(w) \/ CompleteError(w) \/ Release(w) \/ ReleaseError(w) \/ Exit(w)
      PROVE  m <= key + expired'[e]
  <2>1. stage[w] # "idle" /\ Return(w) /\ expired' = expired /\ event[w] \in Events
    BY <1>0, <1>4, Returns, HolderReturns
  <2>2. CASE event[w] # e
    <3>1. HoldersNext(e) = Holders(e)
      BY <1>0, <2>1, <2>2, HolderReturns
    <3>2. claims'[e] = claims[e]
      BY <1>0, <1>4, <2>1, <2>2, Returns DEF TypeOK
    <3> QED
      BY <1>1, <2>1, <3>1, <3>2
  <2>3. CASE event[w] = e
    <3>1. w \in Holders(e) /\ HoldersNext(e) = Holders(e) \ {w}
      BY <1>0, <2>1, <2>3, HolderReturns
    <3>2. m = n - 1
      BY <3>1, HoldersFinite, FS_RemoveElement
    <3> QED
      BY <1>0, <2>1, <3>2
  <2> QED
    BY <2>2, <2>3
<1>5. ASSUME NEW f \in Events, Expire(f)
      PROVE  m <= key + expired'[e]
  <2>1. m = n
    BY <1>5 DEF Expire, Holders, HoldersNext
  <2>2. CASE f # e
    <3>1. claims'[e] = claims[e] /\ expired'[e] = expired[e]
      BY <1>0, <1>5, <2>2 DEF Expire, TypeOK
    <3> QED
      BY <1>0, <2>1, <3>1 DEF KeyCount
  <2>3. CASE f = e /\ Holders(e) = {}
    <3>1. n = 0 /\ expired' = expired
      BY <1>5, <2>3, FS_EmptySet DEF Expire
    <3> QED
      BY <1>0, <2>1, <3>1
  <2>4. CASE f = e /\ Holders(e) # {}
    <3>1. expired'[e] = expired[e] + 1
      BY <1>0, <1>5, <2>4 DEF Expire, TypeOK
    <3> QED
      BY <1>0, <2>1, <3>1
  <2> QED
    BY <2>2, <2>3, <2>4
<1>6. CASE UNCHANGED claimVars
  <2>1. m = n
    BY <1>6 DEF claimVars, Holders, HoldersNext
  <2> QED
    BY <1>1, <1>6, <2>1 DEF claimVars
<1> QED
  BY <1>2, <1>3, <1>4, <1>5, <1>6 DEF Next

\* A worker of an event whose key never expired early keeps its key: whoever
\* deletes or overwrites the key would be a second holder.
LEMMA KeyKeptStep ==
  ASSUME ClaimInv, [Next]_claimVars
  PROVE  KeyKept'
<1> USE EventsAssumption DEF TypeOK, Claim, Stage, KeyKept
<1>0. TypeOK /\ KeyKept
  BY DEF ClaimInv
<1>1. ASSUME NEW w \in Workers, NEW e \in Events, ClaimTaken(w, e)
      PROVE  KeyKept'
  BY <1>0, <1>1 DEF ClaimTaken
<1>2. ASSUME NEW w \in Workers, NEW e \in Events,
             ClaimRefused(w, e) \/ ClaimError(w, e) \/ HandlerOK(w) \/ HandlerErr(w)
      PROVE  KeyKept'
  <2>1. /\ \A v \in Workers : event'[v] = event[v] /\ (stage'[v] # "idle" <=> stage[v] # "idle")
        /\ expired' = expired
        /\ claims' = claims \/ (claims[e] = "free" /\ claims' = [claims EXCEPT ![e] = "processing"])
    BY <1>0, <1>2, HoldersStay
  <2> QED
    BY <1>0, <2>1
<1>3. ASSUME NEW w \in Workers,
             Complete(w) \/ CompleteError(w) \/ Release(w) \/ ReleaseError(w) \/ Exit(w)
      PROVE  KeyKept'
  <2>1. stage[w] # "idle" /\ Return(w)
    BY <1>3, Returns
  <2>2. /\ event[w] \in Events /\ w \in Holders(event[w]) /\ expired' = expired
    BY <1>0, <2>1, HolderReturns
  <2>3. ASSUME NEW v \in Workers, stage'[v] # "idle", expired'[event'[v]] = 0
        PROVE  claims'[event'[v]] = "processing"
    <3>1. v # w /\ stage[v] # "idle" /\ event'[v] = event[v] /\ event[v] \in Events
      BY <1>0, <2>1, <2>3 DEF Return
    <3>2. event[v] # event[w]
      BY <2>2, <2>3, <3>1, NoSecondHolder DEF Holders
    <3>3. claims'[event[v]] = claims[event[v]]
      BY <1>0, <1>3, <2>2, <3>1, <3>2, Returns
    <3> QED
      BY <1>0, <2>2, <2>3, <3>1, <3>3
  <2> QED
    BY <2>3
<1>4. ASSUME NEW e \in Events, Expire(e)
      PROVE  KeyKept'
  <2>1. ASSUME NEW v \in Workers, stage'[v] # "idle", expired'[event'[v]] = 0
        PROVE  claims'[event'[v]] = "processing"
    <3>1. stage[v] # "idle" /\ event'[v] = event[v] /\ event[v] \in Events
      BY <1>0, <1>4, <2>1 DEF Expire
    <3>2. CASE event[v] = e
      <4>1. Holders(e) # {}
        BY <3>1, <3>2 DEF Holders
      <4>2. expired'[e] = expired[e] + 1 /\ expired[e] \in Nat
        BY <1>0, <1>4, <4>1 DEF Expire
      <4> QED
        BY <2>1, <3>1, <3>2, <4>2
    <3>3. CASE event[v] # e
      BY <1>0, <1>4, <2>1, <3>1, <3>3 DEF Expire
    <3> QED
      BY <3>2, <3>3
  <2> QED
    BY <2>1
<1>5. CASE UNCHANGED claimVars
  BY <1>0, <1>5 DEF claimVars
<1>6. ASSUME NEW w \in Workers, HandlerOK(w) \/ HandlerErr(w)
      PROVE  KeyKept'
  <2>1. event[w] \in Events
    BY <1>0, <1>6 DEF HandlerOK, HandlerErr
  <2> QED
    BY <1>2, <1>6, <2>1
<1> HIDE DEF TypeOK, Claim, Stage, KeyKept
<1> QED
  BY <1>1, <1>2, <1>3, <1>4, <1>5, <1>6 DEF Next

\* The inductive invariant holds in every reachable state.
THEOREM ClaimInvariant == Spec => []ClaimInv
<1>1. Init => ClaimInv
  <2>1. Init => TypeOK
    BY EventsAssumption DEF Init, TypeOK, Claim, Stage
  <2>2. ASSUME Init, NEW e \in Events
        PROVE  HolderBound(e)
    <3>1. Holders(e) = {} /\ expired[e] = 0 /\ claims[e] = "free"
      BY <2>2 DEF Init, Holders
    <3> QED
      BY <3>1, FS_EmptySet DEF HolderBound, KeyCount
  <2> QED
    BY <2>1, <2>2 DEF ClaimInv, Init, KeyKept
<1>2. ClaimInv /\ [Next]_claimVars /\ TypeOK' => ClaimInv'
  BY BoundStep, KeyKeptStep DEF ClaimInv
<1> QED
  BY <1>1, <1>2, TypeCorrect, PTL DEF Spec

\* For any number of workers and events, whatever Redis calls fail, processes
\* end or keys expire: without an early expiry two workers never handle one event
\* at the same time, and each early expiry lets in one more at most.
THEOREM ClaimsExclusive == Spec => []ExclusiveHolder
<1>1. ClaimInv => ExclusiveHolder
  <2>1. ASSUME ClaimInv, NEW e \in Events
        PROVE  Cardinality(Holders(e)) <= 1 + expired[e]
    <3>1. Cardinality(Holders(e)) \in Nat /\ KeyCount(e) \in {0, 1} /\ expired[e] \in Nat
      BY <2>1, HoldersFinite DEF KeyCount, ClaimInv, TypeOK
    <3> QED
      BY <2>1, <3>1 DEF ClaimInv, HolderBound
  <2> QED
    BY <2>1 DEF ExclusiveHolder
<1> QED
  BY <1>1, ClaimInvariant, PTL

-----------------------------------------------------------------------------
\* Without the fault "ttl" no key expires under a running handler.
NoneExpired == \A e \in Events : expired[e] = 0

LEMMA KeysLast ==
  ASSUME "ttl" \notin Faults
  PROVE  Spec => []NoneExpired
<1>1. Init => NoneExpired
  BY DEF Init, NoneExpired
<1>2. NoneExpired /\ [Next]_claimVars => NoneExpired'
  <2> SUFFICES ASSUME NoneExpired, [Next]_claimVars
               PROVE  expired' = expired
    BY DEF NoneExpired
  <2>1. ASSUME NEW e \in Events, Expire(e)
        PROVE  expired' = expired
    BY <2>1 DEF Expire
  <2>2. ASSUME ~ \E e \in Events : Expire(e)
        PROVE  expired' = expired
    BY <2>2 DEF Next, ClaimTaken, ClaimRefused, ClaimError, HandlerOK, HandlerErr, Complete,
                CompleteError, Release, ReleaseError, Exit, Return, claimVars
  <2> QED
    BY <2>1, <2>2
<1> QED
  BY <1>1, <1>2, PTL DEF Spec

-----------------------------------------------------------------------------
\* No step takes the "done" of an event away whose key never expired early: only
\* a holder deletes a key, and the key of a holder is not "done".
THEOREM DoneStaysDone == Spec => DoneIsFinal
<1>1. ASSUME ClaimInv, [Next]_claimVars
      PROVE  [\A e \in Events :
                claims[e] = "done" /\ expired[e] = 0 => claims'[e] = "done"]_claimVars
  <2> SUFFICES ASSUME Next, NEW e \in Events, claims[e] = "done", expired[e] = 0
               PROVE  claims'[e] = "done"
    BY <1>1
  <2>0. TypeOK /\ KeyKept
    BY <1>1 DEF ClaimInv
  <2>1. ASSUME NEW w \in Workers, NEW f \in Events,
               ClaimTaken(w, f) \/ ClaimRefused(w, f) \/ ClaimError(w, f)
        PROVE  claims'[e] = "done"
    BY <2>0, <2>1 DEF ClaimTaken, ClaimRefused, ClaimError, claimVars, TypeOK
  <2>2. ASSUME NEW w \in Workers, HandlerOK(w) \/ HandlerErr(w)
        PROVE  claims'[e] = "done"
    BY <2>2 DEF HandlerOK, HandlerErr
  <2>3. ASSUME NEW w \in Workers,
               Complete(w) \/ CompleteError(w) \/ Release(w) \/ ReleaseError(w) \/ Exit(w)
        PROVE  claims'[e] = "done"
    <3>1. stage[w] # "idle" /\ event[w] \in Events
      BY <2>0, <2>3, Returns, HolderReturns
    <3>2. event[w] # e
      BY <2>0, <3>1 DEF KeyKept
    <3> QED
      BY <2>0, <2>3, <3>1, <3>2, Returns DEF TypeOK
  <2>4. ASSUME NEW f \in Events, Expire(f)
        PROVE  claims'[e] = "done"
    BY <2>0, <2>4 DEF Expire, TypeOK
  <2> QED
    BY <2>1, <2>2, <2>3, <2>4 DEF Next
<1> QED
  BY <1>1, ClaimInvariant, PTL DEF Spec, DoneIsFinal

-----------------------------------------------------------------------------
\* Each step moves one worker of one event, or loses one event its promise.
LEMMA ProcessingStep ==
  ASSUME ClaimInv, [Next]_claimVars
  PROVE  [Processing!Next]_(Processing!vars)
<1> DEFINE active == [e \in Events |-> IF e \in Guarded THEN Holders(e) ELSE {}]
           finished == {e \in Guarded : claims[e] = "done"}
           GuardedNext == {e \in Events : expired'[e] = 0}
<1>0. TypeOK /\ KeyKept
  BY DEF ClaimInv
<1>1. /\ active' = [e \in Events |-> IF e \in GuardedNext THEN HoldersNext(e) ELSE {}]
      /\ finished' = {e \in GuardedNext : claims'[e] = "done"}
  BY DEF Guarded, Holders, HoldersNext
<1>2. ASSUME expired' = expired
      PROVE  GuardedNext = Guarded
  BY <1>2 DEF Guarded
<1>3. ASSUME active' = active, finished' = finished
      PROVE  UNCHANGED Processing!vars
  BY <1>3 DEF Processing!vars
<1>4. ASSUME expired' = expired, \A e \in Events : HoldersNext(e) = Holders(e),
             \A e \in Guarded : claims'[e] = "done" <=> claims[e] = "done"
      PROVE  UNCHANGED Processing!vars
  <2>1. active' = active /\ finished' = finished
    BY <1>1, <1>2, <1>4
  <2> QED
    BY <1>3, <2>1
<1>5. ASSUME NEW w \in Workers, NEW e \in Events, ClaimTaken(w, e)
      PROVE  [Processing!Next]_(Processing!vars)
  <2>1. /\ HoldersNext(e) = Holders(e) \cup {w} /\ expired' = expired
        /\ \A f \in Events \ {e} : HoldersNext(f) = Holders(f)
        /\ claims[e] = "free" /\ claims' = [claims EXCEPT ![e] = "processing"]
    BY <1>0, <1>5, HolderEnters DEF ClaimTaken
  <2>2. finished' = finished
    BY <1>0, <1>1, <1>2, <2>1 DEF TypeOK, Guarded
  <2>3. CASE e \notin Guarded
    <3>1. active' = active
      BY <1>1, <1>2, <2>1, <2>3
    <3> QED
      BY <1>3, <2>2, <3>1
  <2>4. CASE e \in Guarded
    <3>1. Holders(e) = {}
      BY <1>0, <2>1, <2>4 DEF KeyKept, Guarded, Holders
    <3>2. active[e] = {} /\ active' = [active EXCEPT ![e] = {w}]
      BY <1>1, <1>2, <2>1, <2>4, <3>1
    <3>3. e \notin finished
      BY <2>1
    <3>4. Processing!Enter(w, e)
      BY <2>2, <3>2, <3>3 DEF Processing!Enter
    <3> QED
      BY <3>4 DEF Processing!Next
  <2> QED
    BY <2>3, <2>4
<1>6. ASSUME NEW w \in Workers, NEW e \in Events,
             ClaimRefused(w, e) \/ ClaimError(w, e) \/ HandlerOK(w) \/ HandlerErr(w)
      PROVE  UNCHANGED Processing!vars
  <2>1. /\ \A f \in Events : HoldersNext(f) = Holders(f)
        /\ expired' = expired
        /\ claims' = claims \/ (claims[e] = "free" /\ claims' = [claims EXCEPT ![e] = "processing"])
    BY <1>0, <1>6, HoldersStay
  <2>2. \A f \in Guarded : claims'[f] = "done" <=> claims[f] = "done"
    BY <1>0, <2>1 DEF TypeOK, Guarded
  <2> QED
    BY <1>4, <2>1, <2>2
<1>7. ASSUME NEW w \in Workers, stage[w] # "idle", Return(w),
             \/ UNCHANGED claims
             \/ \E v \in {"free", "done"} : claims' = [claims EXCEPT ![event[w]] = v]
      PROVE  [Processing!Next]_(Processing!vars)
  <2>1. PICK e \in Events : e = event[w]
    BY <1>0, <1>7, HolderReturns
  <2>2. /\ w \in Holders(e) /\ HoldersNext(e) = Holders(e) \ {w} /\ expired' = expired
        /\ \A f \in Events \ {e} : HoldersNext(f) = Holders(f)
    BY <1>0, <1>7, <2>1, HolderReturns
  <2>3. \A f \in Events \ {e} : claims'[f] = claims[f]
    BY <1>0, <1>7, <2>1 DEF TypeOK
  <2>4. CASE e \notin Guarded
    <3>1. active' = active /\ finished' = finished
      BY <1>1, <1>2, <2>2, <2>3, <2>4 DEF Guarded
    <3> QED
      BY <1>3, <3>1
  <2>5. CASE e \in Guarded
    <3>1. Holders(e) = {w}
      BY <2>2, <2>5, NoSecondHolder DEF Guarded
    <3>2. active[e] = {w} /\ active' = [active EXCEPT ![e] = {}]
      BY <1>1, <1>2, <2>2, <2>5, <3>1
    <3>3. claims[e] = "processing"
      BY <1>0, <1>7, <2>1, <2>5 DEF KeyKept, Guarded
    <3>4. CASE claims'[e] = "done"
      <4>1. finished' = finished \cup {e}
        BY <1>1, <1>2, <2>2, <2>3, <2>5, <3>4 DEF Guarded
      <4>2. Processing!Finish(w, e)
        BY <3>2, <4>1 DEF Processing!Finish
      <4> QED
        BY <4>2 DEF Processing!Next
    <3>5. CASE claims'[e] # "done"
      <4>1. finished' = finished
        BY <1>1, <1>2, <2>2, <2>3, <3>3, <3>5 DEF Guarded
      <4>2. Processing!Abandon(w, e)
        BY <3>2, <4>1 DEF Processing!Abandon
      <4> QED
        BY <4>2 DEF Processing!Next
    <3> QED
      BY <3>4, <3>5
  <2> QED
    BY <2>4, <2>5
<1>8. ASSUME NEW e \in Events, Expire(e)
      PROVE  [Processing!Next]_(Processing!vars)
  <2>1. /\ \A f \in Events : HoldersNext(f) = Holders(f)
        /\ claims[e] = "processing" /\ claims' = [claims EXCEPT ![e] = "free"]
    BY <1>8 DEF Expire, Holders, HoldersNext
  <2>2. CASE Holders(e) = {} \/ e \notin Guarded
    <3>1. GuardedNext = Guarded
      <4>1. CASE Holders(e) = {}
        BY <1>2, <1>8, <4>1 DEF Expire
      <4>2. CASE Holders(e) # {} /\ e \notin Guarded
        <5>1. expired' = [expired EXCEPT ![e] = expired[e] + 1] /\ expired[e] \in Nat \ {0}
          BY <1>0, <1>8, <4>2 DEF Expire, TypeOK, Guarded
        <5>2. \A f \in Events : expired'[f] = 0 <=> expired[f] = 0
          BY <1>0, <5>1 DEF TypeOK
        <5> QED
          BY <5>2 DEF Guarded
      <4> QED
        BY <2>2, <4>1, <4>2
    <3>2. active' = active
      BY <1>1, <2>1, <3>1
    <3>3. finished' = finished
      BY <1>0, <1>1, <2>1, <3>1 DEF TypeOK, Guarded
    <3> QED
      BY <1>3, <3>2, <3>3
  <2>3. CASE Holders(e) # {} /\ e \in Guarded
    <3>1. PICK w \in Workers : w \in Holders(e)
      BY <2>3 DEF Holders
    <3>2. Holders(e) = {w}
      BY <2>3, <3>1, NoSecondHolder DEF Guarded
    <3>3. GuardedNext = Guarded \ {e}
      <4>1. \A f \in Events : expired'[f] = IF f = e THEN 1 ELSE expired[f]
        BY <1>0, <1>8, <2>3 DEF Expire, TypeOK, Guarded
      <4> QED
        BY <4>1 DEF Guarded
    <3>4. active[e] = {w} /\ active' = [active EXCEPT ![e] = {}]
      BY <1>1, <2>1, <2>3, <3>2, <3>3
    <3>5. finished' = finished
      BY <1>0, <1>1, <2>1, <3>3 DEF TypeOK, Guarded
    <3>6. Processing!Abandon(w, e)
      BY <3>4, <3>5 DEF Processing!Abandon
    <3> QED
      BY <3>6 DEF Processing!Next
  <2> QED
    BY <2>2, <2>3
<1>9. CASE UNCHANGED claimVars
  <2>1. expired' = expired /\ claims' = claims /\ \A e \in Events : HoldersNext(e) = Holders(e)
    BY <1>9 DEF claimVars, Holders, HoldersNext
  <2> QED
    BY <1>4, <2>1
<1>10. ASSUME NEW w \in Workers,
              Complete(w) \/ CompleteError(w) \/ Release(w) \/ ReleaseError(w) \/ Exit(w)
       PROVE  [Processing!Next]_(Processing!vars)
  BY <1>7, <1>10, Returns
<1>11. ASSUME NEW w \in Workers, HandlerOK(w) \/ HandlerErr(w)
       PROVE  UNCHANGED Processing!vars
  <2>1. event[w] \in Events
    BY <1>0, <1>11, EventsAssumption DEF HandlerOK, HandlerErr, TypeOK
  <2> QED
    BY <1>6, <1>11, <2>1
<1> HIDE DEF active, finished, GuardedNext
<1> QED
  BY <1>5, <1>6, <1>8, <1>9, <1>10, <1>11 DEF Next

\* The protocol with keys, its failures and early expiries included, implements
\* the abstract specification: one worker per event at a time, and none after
\* the end; an early expiry counts as giving up the event for good.
THEOREM ImplementsProcessing == Spec => ProcessingSpec
<1>1. Init => Processing!Init
  BY DEF Init, Processing!Init, Holders, Guarded
<1>2. ClaimInv /\ [Next]_claimVars => [Processing!Next]_(Processing!vars)
  BY ProcessingStep
<1> QED
  BY <1>1, <1>2, ClaimInvariant, PTL DEF Spec, ProcessingSpec, Processing!Spec

-----------------------------------------------------------------------------
\* A key that says "processing" has a worker who will overwrite or delete it.
ClaimIsHeld == \A e \in Events : claims[e] = "processing" => Holders(e) # {}

\* Keys are abandoned only by failing Redis calls and ending processes; even a
\* handler that outlives the time to live leaves none behind.
THEOREM NoAbandonedClaims ==
  ASSUME "redis" \notin Faults, "exit" \notin Faults
  PROVE  Spec => []ClaimIsHeld
<1>1. Init => ClaimIsHeld
  BY DEF Init, ClaimIsHeld
<1>2. TypeOK /\ ClaimIsHeld /\ [Next]_claimVars => ClaimIsHeld'
  <2> SUFFICES ASSUME TypeOK, ClaimIsHeld, [Next]_claimVars, NEW e \in Events,
                      claims'[e] = "processing"
               PROVE  \E w \in Workers : stage'[w] # "idle" /\ event'[w] = e
    BY DEF ClaimIsHeld, Holders
  <2> USE EventsAssumption DEF TypeOK
  <2>1. ASSUME claims[e] = "processing",
               \A w \in Workers : stage[w] # "idle" /\ event[w] = e =>
                 stage'[w] # "idle" /\ event'[w] = e
        PROVE  \E w \in Workers : stage'[w] # "idle" /\ event'[w] = e
    BY <2>1 DEF ClaimIsHeld, Holders
  <2>2. ASSUME NEW w \in Workers, NEW f \in Events, ClaimTaken(w, f)
        PROVE  \E v \in Workers : stage'[v] # "idle" /\ event'[v] = e
    <3>1. CASE e = f
      BY <2>2, <3>1 DEF ClaimTaken
    <3>2. CASE e # f
      BY <2>1, <2>2, <3>2 DEF ClaimTaken
    <3> QED
      BY <3>1, <3>2
  <2>3. ASSUME NEW w \in Workers, HandlerOK(w) \/ HandlerErr(w)
        PROVE  \E v \in Workers : stage'[v] # "idle" /\ event'[v] = e
    BY <2>1, <2>3 DEF HandlerOK, HandlerErr
  <2>4. ASSUME NEW w \in Workers, Complete(w) \/ Release(w)
        PROVE  \E v \in Workers : stage'[v] # "idle" /\ event'[v] = e
    BY <2>1, <2>4 DEF Complete, Release, Return
  <2>5. ASSUME NEW f \in Events, Expire(f)
        PROVE  \E v \in Workers : stage'[v] # "idle" /\ event'[v] = e
    BY <2>1, <2>5 DEF Expire
  <2>6. ASSUME UNCHANGED claimVars
        PROVE  \E v \in Workers : stage'[v] # "idle" /\ event'[v] = e
    BY <2>1, <2>6 DEF claimVars
  <2> QED
    BY <2>2, <2>3, <2>4, <2>5, <2>6
       DEF Next, ClaimRefused, ClaimError, CompleteError, ReleaseError, Exit
<1> QED
  BY <1>1, <1>2, TypeCorrect, PTL DEF Spec
=============================================================================
