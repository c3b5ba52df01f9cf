------------------------- MODULE KafkaConsumerProofs -------------------------
(***************************************************************************)
(* Proofs about KafkaConsumer for any number of consumers, partitions and  *)
(* records, whatever fails and however often the group rebalances.         *)
(***************************************************************************)
EXTENDS KafkaConsumer, TLAPS

\* The parts of TypeOK that every step on cur, mode or owner has to keep: a
\* loop works on a record exactly in the modes that say so, and only members
\* own partitions.
THEOREM TypeCorrect == Spec => []TypeOK
<1> USE ConsumerAssumption, NoRecordAssumption
<1>1. Init => TypeOK
  BY DEF Init, TypeOK, Mode, Working, Member
<1>2. TypeOK /\ [Next]_consumerVars => TypeOK'
  <2> SUFFICES ASSUME TypeOK, [Next]_consumerVars
               PROVE  TypeOK'
    OBVIOUS
  <2> USE DEF TypeOK, Mode, Working, Member
  <2>1. ASSUME NEW p \in Partitions, NEW e \in Events, Produce(p, e)
        PROVE  TypeOK'
    <3>1. [event |-> e, attempt |-> 0] \in Record
      BY DEF Record
    <3> QED
      BY <2>1, <3>1 DEF Produce, Write
  <2>2. ASSUME NEW p \in Partitions, NEW r \in Record, Forward(p, r)
        PROVE  TypeOK'
    BY <2>2 DEF Forward, Write
  <2>3. ASSUME NEW p \in Partitions, NEW c \in Consumers, Assign(p, c) \/ Rebalance(p, c)
        PROVE  TypeOK'
    <3>1. owner' = [owner EXCEPT ![p] = c] /\ pos' = [pos EXCEPT ![p] = committed[p]]
      BY <2>3 DEF Assign, Rebalance, AssignTo
    <3>2. /\ owner' \in [Partitions -> Consumers \cup {NoOwner}]
          /\ pos' \in [Partitions -> Nat]
      BY <3>1
    <3>3. \A q \in Partitions : owner'[q] # NoOwner => mode[owner'[q]] \notin {"down", "backoff"}
      BY <2>3 DEF Assign, Rebalance, AssignTo
    <3> QED
      BY <2>3, <3>2, <3>3 DEF Assign, Rebalance, AssignTo
  <2>4. ASSUME NEW c \in Consumers, Start(c) \/ Resubscribe(c)
        PROVE  TypeOK'
    <3>1. /\ mode' \in [Consumers -> Mode]
          /\ \A d \in Consumers : mode'[d] \in Working <=> mode[d] \in Working
          /\ \A d \in Consumers : Member(d) => mode'[d] \notin {"down", "backoff"}
      BY <2>4 DEF Start, Resubscribe, Subscribe
    <3> QED
      BY <2>4, <3>1 DEF Start, Resubscribe, Subscribe
  <2>5. ASSUME NEW c \in Consumers, NEW p \in Partitions, Fetch(c, p)
        PROVE  TypeOK'
    <3>1. [part |-> p, off |-> pos[p] + 1] \in Place
      BY DEF Place
    <3> QED
      BY <2>5, <3>1 DEF Fetch
  <2>6. ASSUME NEW c \in Consumers, NEW outcome \in Outcomes, HandlerReturns(c, outcome)
        PROVE  TypeOK'
    <3>1. mode'[c] \in {"committing", "requeueing", "burying"}
      BY <2>6 DEF HandlerReturns
    <3> QED
      BY <2>6, <3>1 DEF HandlerReturns
  <2>7. ASSUME NEW c \in Consumers, NEW to \in {"down", "backoff"}, Leave(c, to)
        PROVE  /\ mode' \in [Consumers -> Mode]
               /\ cur' \in [Consumers -> Place \cup {NoRecord}]
               /\ owner' \in [Partitions -> Consumers \cup {NoOwner}]
               /\ \A d \in Consumers : mode'[d] \in Working <=> cur'[d] # NoRecord
               /\ \A p \in Partitions : owner'[p] # NoOwner => Member(owner[p])'
    BY <2>7 DEF Leave
  <2>8. ASSUME NEW c \in Consumers, mode[c] \in Working, Continue(c)
         PROVE  /\ mode' \in [Consumers -> Mode]
                /\ cur' \in [Consumers -> Place \cup {NoRecord}]
                /\ \A d \in Consumers : mode'[d] \in Working <=> cur'[d] # NoRecord
                /\ \A d \in Consumers : mode'[d] \in {"down", "backoff"} => ~ Member(d)
    BY <2>8 DEF Continue
  <2>9. ASSUME NEW c \in Consumers, mode[c] \in Working
        PROVE  cur[c] \in Place /\ cur[c].part \in Partitions /\ cur[c].off \in Nat
    BY <2>9 DEF Place
  <2>10. ASSUME NEW c \in Consumers, mode[c] = "committing", SetOffset(c) \/ UNCHANGED committed
        PROVE  committed' \in [Partitions -> Nat]
    BY <2>9, <2>10 DEF SetOffset
  <2>11. ASSUME NEW c \in Consumers, Enqueue(c) \/ UNCHANGED retry
         PROVE  retry' \in [Record -> Nat]
    BY <2>11 DEF Enqueue
  <2>12. ASSUME NEW c \in Consumers, Commit(c) \/ CommitError(c)
         PROVE  TypeOK'
    <3>1. CASE Commit(c)
      BY <2>10, <2>8, <3>1 DEF Commit
    <3>2. CASE CommitError(c)
      BY <2>7, <2>10, <3>2 DEF CommitError
    <3> QED
      BY <2>12, <3>1, <3>2
  <2>13. ASSUME NEW c \in Consumers, Requeue(c) \/ RequeueError(c)
         PROVE  TypeOK'
    <3>1. CASE Requeue(c)
      BY <2>9, <2>11, <2>8, <3>1 DEF Requeue
    <3>2. CASE RequeueError(c)
      BY <2>7, <2>11, <3>2 DEF RequeueError
    <3> QED
      BY <2>13, <3>1, <3>2
  <2>14. ASSUME NEW c \in Consumers, Bury(c) \/ BuryError(c)
         PROVE  TypeOK'
    BY <2>7, <2>9, <2>14 DEF Bury, BuryError
  <2>15. ASSUME NEW c \in Consumers, FetchError(c) \/ Exit(c)
         PROVE  TypeOK'
    BY <2>7, <2>15 DEF FetchError, Exit
  <2>16. CASE UNCHANGED consumerVars
    BY <2>16 DEF consumerVars
  <2> QED
    BY <2>1, <2>2, <2>3, <2>4, <2>5, <2>6, <2>12, <2>13, <2>14, <2>15, <2>16
       DEF Next, Environment, Loop, Handler, Failure
<1> QED
  BY <1>1, <1>2, PTL DEF Spec

-----------------------------------------------------------------------------
\* All records before the one a consumer works on are accounted for, and this
\* one is too when it is about to be committed.  This needs no ownership: it
\* still holds of a consumer that has lost the partition.
BehindAccounted ==
  \A c \in Consumers : cur[c] # NoRecord =>
    /\ \A n \in 1..(cur[c].off - 1) : [part |-> cur[c].part, off |-> n] \in accounted
    /\ mode[c] = "committing" => cur[c] \in accounted

\* The owner of a partition has accounted for all it fetched, but for the
\* record it works on.
FetchedAccounted ==
  \A p \in Partitions : owner[p] # NoOwner =>
    \A n \in 1..pos[p] :
      [part |-> p, off |-> n] \in accounted \/ cur[owner[p]] = [part |-> p, off |-> n]

\* CommittedAccounted is not inductive: Commit sets any offset, Fetch goes on
\* from pos, and an assignment makes the committed offset the new pos.
DeliveryInv == TypeOK /\ CommittedAccounted /\ BehindAccounted /\ FetchedAccounted

\* The loop ends: what its consumer had fetched is no longer owned by it.
LEMMA LeaveKeeps ==
  ASSUME DeliveryInv, NEW c \in Consumers, NEW to \in {"down", "backoff"}, Leave(c, to),
         pos' = pos, accounted' = accounted
  PROVE  BehindAccounted' /\ FetchedAccounted'
<1> USE ConsumerAssumption DEF DeliveryInv, TypeOK, Leave
<1>1. BehindAccounted'
  BY DEF BehindAccounted
<1>2. FetchedAccounted'
  <2>1. \A p \in Partitions : owner'[p] # NoOwner => owner'[p] = owner[p] /\ owner[p] # c
    OBVIOUS
  <2>2. \A d \in Consumers : d # c => cur'[d] = cur[d]
    OBVIOUS
  <2> QED
    BY <2>1, <2>2 DEF FetchedAccounted
<1> QED
  BY <1>1, <1>2

\* The loop goes on after a record that is accounted for.
LEMMA ContinueKeeps ==
  ASSUME DeliveryInv, NEW c \in Consumers, Continue(c),
         pos' = pos, owner' = owner, accounted \subseteq accounted', cur[c] \in accounted'
  PROVE  BehindAccounted' /\ FetchedAccounted'
<1> USE ConsumerAssumption DEF DeliveryInv, TypeOK, Continue
<1>1. BehindAccounted'
  BY DEF BehindAccounted
<1>2. FetchedAccounted'
  BY DEF FetchedAccounted
<1> QED
  BY <1>1, <1>2

\* An offset is set only to that of a record that is accounted for, as are
\* those before it.
LEMMA SetOffsetKeeps ==
  ASSUME DeliveryInv, NEW c \in Consumers, mode[c] = "committing",
         SetOffset(c) \/ UNCHANGED committed, accounted' = accounted
  PROVE  CommittedAccounted'
<1>1. /\ cur[c] \in accounted
      /\ \A n \in 1..(cur[c].off - 1) : [part |-> cur[c].part, off |-> n] \in accounted
      /\ cur[c] \in Place
  BY DEF DeliveryInv, TypeOK, Working, BehindAccounted
<1>2. PICK q \in Partitions, k \in Nat \ {0} : cur[c] = [part |-> q, off |-> k]
  BY <1>1 DEF Place
<1>3. \A n \in 1..k : [part |-> q, off |-> n] \in accounted
  BY <1>1, <1>2
<1>4. CASE SetOffset(c)
  <2>1. committed' = [committed EXCEPT ![q] = k]
    BY <1>2, <1>4 DEF SetOffset
  <2> QED
    BY <1>3, <2>1 DEF DeliveryInv, TypeOK, CommittedAccounted
<1>5. CASE UNCHANGED committed
  BY <1>5 DEF DeliveryInv, CommittedAccounted
<1> QED
  BY <1>4, <1>5

\* Every step keeps the three parts.
LEMMA DeliveryStep ==
  ASSUME DeliveryInv, [Next]_consumerVars, TypeOK'
  PROVE  DeliveryInv'
<1> SUFFICES CommittedAccounted' /\ BehindAccounted' /\ FetchedAccounted'
  BY DEF DeliveryInv
<1> USE ConsumerAssumption, NoRecordAssumption
<1>1. ASSUME UNCHANGED <<committed, accounted>>
      PROVE  CommittedAccounted'
  BY <1>1 DEF DeliveryInv, CommittedAccounted
<1>2. ASSUME UNCHANGED <<owner, pos, mode, cur, accounted>>
      PROVE  BehindAccounted' /\ FetchedAccounted'
  BY <1>2 DEF DeliveryInv, BehindAccounted, FetchedAccounted
<1>3. ASSUME NEW p \in Partitions, NEW e \in Events, Produce(p, e)
      PROVE  CommittedAccounted' /\ BehindAccounted' /\ FetchedAccounted'
  BY <1>1, <1>2, <1>3 DEF Produce
<1>4. ASSUME NEW p \in Partitions, NEW r \in Record, Forward(p, r)
      PROVE  CommittedAccounted' /\ BehindAccounted' /\ FetchedAccounted'
  BY <1>1, <1>2, <1>4 DEF Forward
<1>5. ASSUME NEW p \in Partitions, NEW c \in Consumers, AssignTo(p, c)
      PROVE  CommittedAccounted' /\ BehindAccounted' /\ FetchedAccounted'
  <2>1. BehindAccounted'
    BY <1>5 DEF AssignTo, DeliveryInv, BehindAccounted
  <2>2. FetchedAccounted'
    BY <1>5 DEF AssignTo, DeliveryInv, TypeOK, FetchedAccounted, CommittedAccounted
  <2> QED
    BY <1>1, <1>5, <2>1, <2>2 DEF AssignTo
<1>6. ASSUME NEW c \in Consumers, Start(c) \/ Resubscribe(c)
      PROVE  CommittedAccounted' /\ BehindAccounted' /\ FetchedAccounted'
  <2>1. BehindAccounted'
    BY <1>6 DEF Start, Resubscribe, Subscribe, DeliveryInv, TypeOK, BehindAccounted
  <2>2. FetchedAccounted'
    BY <1>6 DEF Start, Resubscribe, Subscribe, DeliveryInv, FetchedAccounted
  <2> QED
    BY <1>1, <1>6, <2>1, <2>2 DEF Start, Resubscribe, Subscribe
<1>7. ASSUME NEW c \in Consumers, NEW p \in Partitions, Fetch(c, p)
      PROVE  CommittedAccounted' /\ BehindAccounted' /\ FetchedAccounted'
  <2>1. cur[c] = NoRecord
    BY <1>7 DEF Fetch, DeliveryInv, TypeOK, Working
  <2>2. \A q \in Partitions : owner[q] = c =>
          \A n \in 1..pos[q] : [part |-> q, off |-> n] \in accounted
    <3>1. \A q \in Partitions : \A n \in Nat \ {0} : [part |-> q, off |-> n] # NoRecord
      BY DEF Place
    <3>2. ASSUME NEW q \in Partitions, owner[q] = c, NEW n \in 1..pos[q]
          PROVE  [part |-> q, off |-> n] \in accounted
      <4>1. pos[q] \in Nat /\ n \in Nat \ {0} /\ owner[q] # NoOwner
        BY <3>2 DEF DeliveryInv, TypeOK
      <4>2. [part |-> q, off |-> n] \in accounted \/ cur[c] = [part |-> q, off |-> n]
        BY <3>2, <4>1 DEF DeliveryInv, FetchedAccounted
      <4> QED
        BY <2>1, <3>1, <4>1, <4>2
    <3> QED
      BY <3>2
  <2>3. BehindAccounted'
    <3>1. \A d \in Consumers \ {c} : cur'[d] = cur[d] /\ mode'[d] = mode[d]
      BY <1>7 DEF Fetch, DeliveryInv, TypeOK
    <3>2. /\ cur'[c] = [part |-> p, off |-> pos[p] + 1]
          /\ mode'[c] # "committing"
      BY <1>7 DEF Fetch, DeliveryInv, TypeOK
    <3>3. \A n \in 1..(cur'[c].off - 1) : [part |-> cur'[c].part, off |-> n] \in accounted
      BY <1>7, <2>2, <3>2 DEF Fetch, DeliveryInv, TypeOK
    <3> QED
      BY <1>7, <3>1, <3>2, <3>3 DEF Fetch, DeliveryInv, BehindAccounted
  <2>4. FetchedAccounted'
    <3>1. ASSUME NEW q \in Partitions, owner[q] = c, NEW n \in 1..pos'[q]
          PROVE  [part |-> q, off |-> n] \in accounted \/ cur'[c] = [part |-> q, off |-> n]
      BY <1>7, <2>2, <3>1 DEF Fetch, DeliveryInv, TypeOK
    <3>2. ASSUME NEW q \in Partitions, owner[q] # c, owner[q] # NoOwner
          PROVE  pos'[q] = pos[q] /\ cur'[owner[q]] = cur[owner[q]]
      BY <1>7, <3>2 DEF Fetch, DeliveryInv, TypeOK
    <3> QED
      BY <1>7, <3>1, <3>2 DEF Fetch, DeliveryInv, FetchedAccounted
  <2> QED
    BY <1>1, <1>7, <2>3, <2>4 DEF Fetch
<1>8. ASSUME NEW c \in Consumers, NEW outcome \in Outcomes, HandlerReturns(c, outcome)
      PROVE  CommittedAccounted' /\ BehindAccounted' /\ FetchedAccounted'
  <2>1. accounted \subseteq accounted'
    BY <1>8 DEF HandlerReturns
  <2>2. CommittedAccounted'
    BY <1>8, <2>1 DEF HandlerReturns, DeliveryInv, CommittedAccounted
  <2>3. FetchedAccounted'
    BY <1>8, <2>1 DEF HandlerReturns, DeliveryInv, FetchedAccounted
  <2>4. mode'[c] = "committing" => cur[c] \in accounted'
    BY <1>8 DEF HandlerReturns, DeliveryInv, TypeOK
  <2>5. \A d \in Consumers \ {c} : mode'[d] = mode[d]
    BY <1>8 DEF HandlerReturns, DeliveryInv, TypeOK
  <2>6. BehindAccounted'
    BY <1>8, <2>1, <2>4, <2>5 DEF HandlerReturns, DeliveryInv, BehindAccounted
  <2> QED
    BY <2>2, <2>3, <2>6
<1>9. ASSUME NEW c \in Consumers, Commit(c) \/ CommitError(c)
      PROVE  CommittedAccounted' /\ BehindAccounted' /\ FetchedAccounted'
  <2>1. cur[c] \in accounted
    BY <1>9 DEF Commit, CommitError, DeliveryInv, TypeOK, Working, BehindAccounted
  <2>2. CASE Commit(c)
    BY <2>1, <2>2, ContinueKeeps, SetOffsetKeeps DEF Commit
  <2>3. CASE CommitError(c)
    BY <2>3, LeaveKeeps, SetOffsetKeeps DEF CommitError
  <2> QED
    BY <1>9, <2>2, <2>3
<1>10. ASSUME NEW c \in Consumers, Requeue(c)
       PROVE  CommittedAccounted' /\ BehindAccounted' /\ FetchedAccounted'
  <2>1. CommittedAccounted'
    BY <1>10 DEF Requeue, DeliveryInv, CommittedAccounted
  <2> QED
    BY <1>10, <2>1, ContinueKeeps DEF Requeue
<1>11. ASSUME NEW c \in Consumers,
              RequeueError(c) \/ Bury(c) \/ BuryError(c) \/ FetchError(c) \/ Exit(c)
       PROVE  CommittedAccounted' /\ BehindAccounted' /\ FetchedAccounted'
  BY <1>1, <1>11, LeaveKeeps DEF RequeueError, Bury, BuryError, FetchError, Exit
<1>12. CASE UNCHANGED consumerVars
  BY <1>1, <1>2, <1>12 DEF consumerVars
<1> QED
  BY <1>3, <1>4, <1>5, <1>6, <1>7, <1>8, <1>9, <1>10, <1>11, <1>12
     DEF Next, Environment, Assign, Rebalance, Loop, Handler, Failure

\* No offset is committed past a record that nobody has taken care of: for any
\* number of consumers, under every failure, rebalance and stale commit.
THEOREM NothingSkipped == Spec => []CommittedAccounted
<1>1. Init => DeliveryInv
  <2>1. Init => TypeOK
    BY ConsumerAssumption, NoRecordAssumption DEF Init, TypeOK, Mode, Working, Member
  <2>2. Init => CommittedAccounted /\ BehindAccounted /\ FetchedAccounted
    BY DEF Init, CommittedAccounted, BehindAccounted, FetchedAccounted
  <2> QED
    BY <2>1, <2>2 DEF DeliveryInv
<1>2. DeliveryInv /\ [Next]_consumerVars /\ TypeOK' => DeliveryInv'
  BY DeliveryStep
<1>3. DeliveryInv => CommittedAccounted
  BY DEF DeliveryInv
<1> QED
  BY <1>1, <1>2, <1>3, TypeCorrect, PTL DEF Spec

-----------------------------------------------------------------------------
\* The record a consumer works on is in the log, which only grows.
CurrentInLog ==
  \A c \in Consumers : cur[c] # NoRecord => cur[c].off <= Len(log[cur[c].part])

\* What a consumer works on is a record, so that it has an event.
CurrentIsRecord ==
  \A c \in Consumers : cur[c] # NoRecord => At(cur[c]) \in Record

\* No step makes a log shorter.
LEMMA LogGrows ==
  ASSUME TypeOK, NEW p \in Partitions, NEW r \in Record, Write(p, r)
  PROVE  \A q \in Partitions : Len(log[q]) <= Len(log'[q])
<1>1. \A q \in Partitions : log[q] \in Seq(Record) /\ Len(log[q]) \in Nat
  BY DEF TypeOK
<1>2. Len(Append(log[p], r)) = Len(log[p]) + 1
  BY <1>1
<1>3. ASSUME NEW q \in Partitions
      PROVE  Len(log[q]) <= Len(log'[q])
  <2>1. CASE q = p
    BY <1>1, <1>2, <2>1 DEF Write, TypeOK
  <2>2. CASE q # p
    BY <1>1, <2>2 DEF Write, TypeOK
  <2> QED
    BY <2>1, <2>2
<1> QED
  BY <1>3

\* A consumer always works on a place in the log, in spite of rebalances.
LEMMA StaysInLog == Spec => []CurrentInLog
<1> USE ConsumerAssumption, NoRecordAssumption
<1>1. Init => CurrentInLog
  BY DEF Init, CurrentInLog
<1>2. TypeOK /\ CurrentInLog /\ [Next]_consumerVars => CurrentInLog'
  <2> SUFFICES ASSUME TypeOK, CurrentInLog, [Next]_consumerVars
               PROVE  CurrentInLog'
    OBVIOUS
  <2>1. ASSUME NEW p \in Partitions, NEW r \in Record, Write(p, r), cur' = cur
        PROVE  CurrentInLog'
    <3>1. \A q \in Partitions : Len(log[q]) <= Len(log'[q]) /\ Len(log[q]) \in Nat /\ Len(log'[q]) \in Nat
      <4>1. log' \in [Partitions -> Seq(Record)]
        BY <2>1 DEF TypeOK, Write
      <4> QED
        BY <2>1, <4>1, LogGrows DEF TypeOK
    <3>2. \A c \in Consumers : cur[c] # NoRecord => cur[c].part \in Partitions /\ cur[c].off \in Nat
      BY DEF TypeOK, Place
    <3> QED
      BY <2>1, <3>1, <3>2 DEF CurrentInLog
  <2>2. ASSUME log' = log,
               \A c \in Consumers : cur'[c] = NoRecord \/ cur'[c] = cur[c]
        PROVE  CurrentInLog'
    BY <2>2 DEF CurrentInLog
  <2>3. ASSUME NEW p \in Partitions, NEW e \in Events, Produce(p, e)
        PROVE  CurrentInLog'
    <3>1. [event |-> e, attempt |-> 0] \in Record
      BY DEF Record
    <3> QED
      BY <2>1, <2>3, <3>1 DEF Produce
  <2>4. ASSUME NEW p \in Partitions, NEW r \in Record, Forward(p, r)
        PROVE  CurrentInLog'
    BY <2>1, <2>4 DEF Forward
  <2>5. ASSUME NEW c \in Consumers, NEW p \in Partitions, Fetch(c, p)
        PROVE  CurrentInLog'
    <3>1. /\ cur'[c] = [part |-> p, off |-> pos[p] + 1]
          /\ \A d \in Consumers \ {c} : cur'[d] = cur[d]
      BY <2>5 DEF Fetch, TypeOK
    <3>2. pos[p] + 1 <= Len(log[p])
      BY <2>5 DEF Fetch, TypeOK
    <3> QED
      BY <2>5, <3>1, <3>2 DEF Fetch, CurrentInLog
  <2>6. ASSUME NEW c \in Consumers,
               \/ Commit(c) \/ CommitError(c) \/ Requeue(c) \/ RequeueError(c)
               \/ Bury(c) \/ BuryError(c) \/ FetchError(c) \/ Exit(c)
        PROVE  CurrentInLog'
    <3>1. log' = log /\ cur' = [cur EXCEPT ![c] = NoRecord]
      BY <2>6 DEF Commit, CommitError, Requeue, RequeueError, Bury, BuryError,
                  FetchError, Exit, Leave, Continue
    <3> QED
      BY <2>2, <3>1 DEF TypeOK
  <2>7. ASSUME UNCHANGED <<log, cur>>
        PROVE  CurrentInLog'
    BY <2>2, <2>7
  <2>8. CASE UNCHANGED consumerVars
    BY <2>7, <2>8 DEF consumerVars
  <2> QED
    BY <2>3, <2>4, <2>5, <2>6, <2>7, <2>8
       DEF Next, Environment, Loop, Handler, Failure, Assign, Rebalance, AssignTo,
           Start, Resubscribe, Subscribe, HandlerReturns
<1> QED
  BY <1>1, <1>2, TypeCorrect, PTL DEF Spec

\* A place in the log holds a record.
LEMMA PlaceHoldsRecord ==
  ASSUME TypeOK, NEW place \in Place, place.off <= Len(log[place.part])
  PROVE  At(place) \in Record
<1>1. PICK p \in Partitions, n \in Nat \ {0} : place = [part |-> p, off |-> n]
  BY DEF Place
<1>2. log[p] \in Seq(Record) /\ n <= Len(log[p])
  BY <1>1 DEF TypeOK
<1> QED
  BY <1>1, <1>2 DEF At

\* A consumer always works on a record that exists.
THEOREM WorksOnRecords == Spec => []CurrentIsRecord
<1>1. TypeOK /\ CurrentInLog => CurrentIsRecord
  BY NoRecordAssumption, PlaceHoldsRecord DEF TypeOK, CurrentInLog, CurrentIsRecord
<1> QED
  BY <1>1, StaysInLog, TypeCorrect, PTL DEF Spec

-----------------------------------------------------------------------------
\* What counts as accounted for or buried is in the log.
PlacesInLog ==
  \A place \in accounted \cup buried : place.off <= Len(log[place.part])

\* A record is requeued only while it has an attempt left.
AttemptLeft ==
  \A c \in Consumers : mode[c] = "requeueing" => RetryAttempt(At(cur[c])) < MaxAttempts

\* A write leaves the records of the log as they are.
LEMMA WriteKeepsRecords ==
  ASSUME TypeOK, NEW p \in Partitions, NEW r \in Record, Write(p, r),
         NEW place \in Place, place.off <= Len(log[place.part])
  PROVE  At(place)' = At(place) /\ place.off <= Len(log'[place.part])
<1>1. PICK q \in Partitions, n \in Nat \ {0} : place = [part |-> q, off |-> n]
  BY DEF Place
<1>2. log[q] \in Seq(Record) /\ n \in 1..Len(log[q])
  BY <1>1 DEF TypeOK
<1>3. log'[q] = log[q] \/ log'[q] = Append(log[q], r)
  BY DEF Write, TypeOK
<1> QED
  BY <1>1, <1>2, <1>3 DEF At

\* What MailPipelineProofs needs of the loop: the places it accounts for and
\* dead-letters are in the log, and a loop that requeues has an attempt left.
LEMMA RequeuesInBounds == Spec => [](PlacesInLog /\ AttemptLeft)
<1> USE ConsumerAssumption, NoRecordAssumption
<1>1. Init => PlacesInLog /\ AttemptLeft
  BY DEF Init, PlacesInLog, AttemptLeft
<1>2. /\ TypeOK /\ CurrentInLog /\ PlacesInLog /\ AttemptLeft /\ [Next]_consumerVars
      => PlacesInLog' /\ AttemptLeft'
  <2> SUFFICES ASSUME TypeOK, CurrentInLog, PlacesInLog, AttemptLeft, [Next]_consumerVars
               PROVE  PlacesInLog' /\ AttemptLeft'
    OBVIOUS
  <2>1. ASSUME NEW p \in Partitions, NEW r \in Record, Write(p, r),
               UNCHANGED <<mode, cur, accounted, buried>>
        PROVE  PlacesInLog' /\ AttemptLeft'
    <3>1. PlacesInLog'
      BY <2>1, WriteKeepsRecords DEF PlacesInLog, TypeOK
    <3>2. ASSUME NEW c \in Consumers, mode[c] = "requeueing"
          PROVE  At(cur[c])' = At(cur[c])
      <4>1. cur[c] \in Place /\ cur[c].off <= Len(log[cur[c].part])
        BY <3>2 DEF TypeOK, Working, CurrentInLog
      <4> QED
        BY <2>1, <4>1, WriteKeepsRecords DEF At
    <3> QED
      BY <2>1, <3>1, <3>2 DEF AttemptLeft, RetryAttempt
  <2>2. ASSUME NEW p \in Partitions, NEW e \in Events, Produce(p, e)
        PROVE  PlacesInLog' /\ AttemptLeft'
    <3>1. [event |-> e, attempt |-> 0] \in Record
      BY DEF Record
    <3> QED
      BY <2>1, <2>2, <3>1 DEF Produce
  <2>3. ASSUME NEW p \in Partitions, NEW r \in Record, Forward(p, r)
        PROVE  PlacesInLog' /\ AttemptLeft'
    BY <2>1, <2>3 DEF Forward
  <2>4. ASSUME log' = log,
               \A place \in accounted' \cup buried' :
                 place \in accounted \cup buried \/ \E c \in Consumers :
                   mode[c] \in Working /\ place = cur[c]
        PROVE  PlacesInLog'
    BY <2>4 DEF PlacesInLog, CurrentInLog, TypeOK
  <2>5. ASSUME log' = log,
               \A c \in Consumers : mode'[c] = "requeueing" =>
                 cur'[c] = cur[c] /\ mode[c] = "requeueing"
        PROVE  AttemptLeft'
    BY <2>5 DEF AttemptLeft, RetryAttempt, At
  <2>6. ASSUME NEW c \in Consumers, NEW outcome \in Outcomes, HandlerReturns(c, outcome)
        PROVE  PlacesInLog' /\ AttemptLeft'
    <3>1. PlacesInLog'
      BY <2>4, <2>6 DEF HandlerReturns, Working
    <3>2. AttemptLeft'
      BY <2>6 DEF HandlerReturns, AttemptLeft, RetryAttempt, At, TypeOK
    <3> QED
      BY <3>1, <3>2
  <2>7. ASSUME NEW c \in Consumers,
               \/ Start(c) \/ Resubscribe(c) \/ FetchError(c) \/ Exit(c)
               \/ \E p \in Partitions : Fetch(c, p)
        PROVE  PlacesInLog' /\ AttemptLeft'
    <3>1. UNCHANGED <<log, accounted, buried>>
      BY <2>7 DEF Start, Resubscribe, Subscribe, Fetch, FetchError, Exit
    <3>2. \A d \in Consumers : mode'[d] = "requeueing" =>
            cur'[d] = cur[d] /\ mode[d] = "requeueing"
      BY <2>7 DEF Start, Resubscribe, Subscribe, Fetch, FetchError, Exit, Leave, TypeOK
    <3> QED
      BY <2>4, <2>5, <3>1, <3>2
  <2>8. ASSUME NEW c \in Consumers,
               \/ Commit(c) \/ CommitError(c) \/ Requeue(c) \/ RequeueError(c)
               \/ Bury(c) \/ BuryError(c)
        PROVE  PlacesInLog' /\ AttemptLeft'
    <3>1. PlacesInLog'
      BY <2>4, <2>8 DEF Commit, CommitError, Requeue, RequeueError, Bury, BuryError, Working
    <3>2. AttemptLeft'
      BY <2>5, <2>8 DEF Commit, CommitError, Requeue, RequeueError, Bury, BuryError,
                        Leave, Continue, TypeOK
    <3> QED
      BY <3>1, <3>2
  <2>9. ASSUME UNCHANGED <<log, mode, cur, accounted, buried>>
        PROVE  PlacesInLog' /\ AttemptLeft'
    BY <2>4, <2>5, <2>9
  <2> QED
    BY <2>2, <2>3, <2>6, <2>7, <2>8, <2>9
       DEF Next, Environment, Loop, Handler, Failure, Assign, Rebalance, AssignTo, consumerVars
<1> QED
  BY <1>1, <1>2, StaysInLog, TypeCorrect, PTL DEF Spec
=============================================================================
