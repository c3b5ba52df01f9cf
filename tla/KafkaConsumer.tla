---------------------------- MODULE KafkaConsumer ----------------------------
(***************************************************************************)
(* The Kafka consume loop of mail-service: broker.RunPullConsumer          *)
(* (internal/presentation/event_broker/kafka/broker.go) and the reconnect  *)
(* loop around it (internal/fx/presentation.go), run by the processes of   *)
(* one consumer group over the partitions of the command topic.            *)
(*                                                                         *)
(* A record that the handler fails is copied to the retry topic, from      *)
(* which it comes back to the command topic with a higher attempt, or,     *)
(* after the last attempt, to the dead-letter topic.  The handler itself   *)
(* is one step that returns "ok", "transient" or "permanent".              *)
(***************************************************************************)
EXTENDS Naturals, Sequences

CONSTANTS
  Consumers,    \* the processes, one consume loop each
  Partitions,   \* of the command topic
  Events,       \* identities of the events the records carry
  BadEnvelope,  \* the events whose record commonevents.Unwrap rejects
  MaxAttempts,  \* resilience.DefaultRetryPolicy.MaxAttempts
  Outcomes,     \* what the handler may return
  NoOwner,      \* the owner of a partition that is assigned to nobody
  NoRecord,     \* what a loop that works on no record works on
  Faults,       \* what may fail: "fetch", "commit", "requeue", "bury", "exit"
  MaxProduced,  \* bound: records per partition, for commands to be sent
  MaxLog,       \* bound: records per partition, for copies to be put back
  MaxCopies     \* bound: copies of one record counted in the retry topic

ASSUME ConsumerAssumption ==
  /\ NoOwner \notin Consumers
  /\ MaxAttempts \in Nat \ {0}
  /\ MaxCopies \in Nat \ {0}
  /\ Outcomes \subseteq {"ok", "transient", "permanent"}

\* The attempt is 0 in a record without the x-ofm-retry-attempt header.
Record == [event : Events, attempt : 0..MaxAttempts]

\* A position in the log of a partition; the first record is at 1.
Place == [part : Partitions, off : Nat \ {0}]

ASSUME NoRecordAssumption == NoRecord \notin Place

VARIABLES
  log,        \* log[p]: the records of a partition
  committed,  \* committed[p]: how many of them the group has committed
  owner,      \* owner[p]: the consumer p is assigned to
  pos,        \* pos[p]: how many records were fetched, or committed before
              \* the present assignment of p
  mode,       \* mode[c]: where the loop of c is
  cur,        \* cur[c]: the place of the record c works on
  retry,      \* retry[r]: copies of r in the retry topic
  accounted,  \* places whose record the handler accepted or the retry topic got
  buried      \* places whose record the dead-letter topic got

consumerVars ==
  <<log, committed, owner, pos, mode, cur, retry, accounted, buried>>

Mode == {"down", "backoff", "polling", "handling",
         "committing", "requeueing", "burying"}

\* The modes in which the loop works on the record at cur[c].
Working == {"handling", "committing", "requeueing", "burying"}

\* A consumer whose reader is open: it is a member of the group.
Member(c) == mode[c] \notin {"down", "backoff"}

At(place) == log[place.part][place.off]

RetryAttempt(r) == IF r.attempt > 0 THEN r.attempt ELSE 1

\* A loop has a record exactly while it works on one, and only members of the
\* group own partitions.
TypeOK ==
  /\ log \in [Partitions -> Seq(Record)]
  /\ committed \in [Partitions -> Nat]
  /\ pos \in [Partitions -> Nat]
  /\ owner \in [Partitions -> Consumers \cup {NoOwner}]
  /\ mode \in [Consumers -> Mode]
  /\ cur \in [Consumers -> Place \cup {NoRecord}]
  /\ retry \in [Record -> Nat]
  /\ accounted \subseteq Place
  /\ buried \subseteq Place
  /\ \A c \in Consumers : mode[c] \in Working <=> cur[c] # NoRecord
  /\ \A p \in Partitions : owner[p] # NoOwner => Member(owner[p])

Init ==
  /\ log = [p \in Partitions |-> <<>>]
  /\ committed = [p \in Partitions |-> 0]
  /\ owner = [p \in Partitions |-> NoOwner]
  /\ pos = [p \in Partitions |-> 0]
  /\ mode = [c \in Consumers |-> "down"]
  /\ cur = [c \in Consumers |-> NoRecord]
  /\ retry = [r \in Record |-> 0]
  /\ accounted = {}
  /\ buried = {}

-----------------------------------------------------------------------------
(* The command topic, the retry topic and the consumer group.                *)

Write(p, r) == log' = [log EXCEPT ![p] = Append(@, r)]

\* Another service sends a command.
Produce(p, e) ==
  /\ Len(log[p]) < MaxProduced
  /\ Write(p, [event |-> e, attempt |-> 0])
  /\ UNCHANGED <<committed, owner, pos, mode, cur, retry, accounted, buried>>

\* The retry queue that RunPullConsumer starts puts a record back.
Forward(p, r) ==
  /\ retry[r] > 0
  /\ \E c \in Consumers : mode[c] # "down"
  /\ Len(log[p]) < MaxLog
  /\ Write(p, r)
  /\ retry' = [retry EXCEPT ![r] = @ - 1]
  /\ UNCHANGED <<committed, owner, pos, mode, cur, accounted, buried>>

\* The partition is read from the committed offset on by its new owner.  What
\* the old owner still works on it goes on working on.
AssignTo(p, c) ==
  /\ Member(c)
  /\ owner' = [owner EXCEPT ![p] = c]
  /\ pos' = [pos EXCEPT ![p] = committed[p]]
  /\ UNCHANGED <<log, committed, mode, cur, retry, accounted, buried>>

Assign(p, c) == owner[p] = NoOwner /\ AssignTo(p, c)

\* Members join, leave or miss a heartbeat: the group starts a generation.
Rebalance(p, c) == owner[p] # NoOwner /\ AssignTo(p, c)

-----------------------------------------------------------------------------
(* The loop of one consumer.                                                 *)

\* OnStart, and the end of the backoff: Subscribe opens a new reader.
Subscribe(c, from) ==
  /\ mode[c] = from
  /\ mode' = [mode EXCEPT ![c] = "polling"]
  /\ UNCHANGED <<log, committed, owner, pos, cur, retry, accounted, buried>>

\* Mutant: the loop of the subscriber ends with the first failure.
ResubscribeNever(c) == FALSE /\ Subscribe(c, "backoff")

Start(c) == Subscribe(c, "down")
Resubscribe(c) == Subscribe(c, "backoff")

\* Mutant: the reader is not closed.
LeaveOpen(c, to) ==
  /\ mode' = [mode EXCEPT ![c] = to]
  /\ cur' = [cur EXCEPT ![c] = NoRecord]
  /\ UNCHANGED owner

\* RunPullConsumer returns, or the process ends: the reader leaves the group
\* and c works on nothing.
Leave(c, to) ==
  /\ mode' = [mode EXCEPT ![c] = to]
  /\ cur' = [cur EXCEPT ![c] = NoRecord]
  /\ owner' = [p \in Partitions |-> IF owner[p] = c THEN NoOwner ELSE owner[p]]

\* The loop goes round without returning.
Continue(c) ==
  /\ mode' = [mode EXCEPT ![c] = "polling"]
  /\ cur' = [cur EXCEPT ![c] = NoRecord]

Fetch(c, p) ==
  /\ mode[c] = "polling"
  /\ owner[p] = c
  /\ pos[p] < Len(log[p])
  /\ pos' = [pos EXCEPT ![p] = @ + 1]
  /\ cur' = [cur EXCEPT ![c] = [part |-> p, off |-> pos[p] + 1]]
  /\ mode' = [mode EXCEPT ![c] =
       IF log[p][pos[p] + 1].event \in BadEnvelope THEN "burying" ELSE "handling"]
  /\ UNCHANGED <<log, committed, owner, retry, accounted, buried>>

FetchError(c) ==
  /\ "fetch" \in Faults
  /\ mode[c] = "polling"
  /\ Leave(c, "backoff")
  /\ UNCHANGED <<log, committed, pos, retry, accounted, buried>>

HandlerReturns(c, outcome) ==
  /\ mode[c] = "handling"
  /\ mode' = [mode EXCEPT ![c] =
       CASE outcome = "ok" -> "committing"
         [] outcome = "transient" /\ RetryAttempt(At(cur[c])) < MaxAttempts -> "requeueing"
         [] OTHER -> "burying"]
  /\ accounted' = IF outcome = "ok" THEN accounted \cup {cur[c]} ELSE accounted
  /\ UNCHANGED <<log, committed, owner, pos, cur, retry, buried>>

\* Mutant: the offset is that of the newest record.
SetOffsetToEnd(c) == committed' = [committed EXCEPT ![cur[c].part] = Len(log[cur[c].part])]

\* Kafka does not ask whether c still owns the partition, nor whether the
\* group has committed more: the offset is overwritten.
SetOffset(c) == committed' = [committed EXCEPT ![cur[c].part] = cur[c].off]

Commit(c) ==
  /\ mode[c] = "committing"
  /\ SetOffset(c)
  /\ Continue(c)
  /\ UNCHANGED <<log, owner, pos, retry, accounted, buried>>

\* CommitMessages returns an error, before or after it took effect.
CommitError(c) ==
  /\ "commit" \in Faults
  /\ mode[c] = "committing"
  /\ SetOffset(c) \/ UNCHANGED committed
  /\ Leave(c, "backoff")
  /\ UNCHANGED <<log, pos, retry, accounted, buried>>

RetryCopy(r) == [event |-> r.event, attempt |-> RetryAttempt(r) + 1]

Enqueue(c) ==
  retry' = [retry EXCEPT ![RetryCopy(At(cur[c]))] = IF @ < MaxCopies THEN @ + 1 ELSE @]

\* The loop continues with the next record and leaves this one uncommitted.
Requeue(c) ==
  /\ mode[c] = "requeueing"
  /\ Enqueue(c)
  /\ accounted' = accounted \cup {cur[c]}
  /\ Continue(c)
  /\ UNCHANGED <<log, committed, owner, pos, buried>>

\* Mutant: the error of Enqueue is dropped and the loop continues.
RequeueErrorIgnored(c) ==
  /\ "requeue" \in Faults
  /\ mode[c] = "requeueing"
  /\ Enqueue(c) \/ UNCHANGED retry
  /\ Continue(c)
  /\ UNCHANGED <<log, committed, owner, pos, accounted, buried>>

\* Mutant: a record whose copy was not written is committed.
RequeueErrorCommitted(c) ==
  /\ "requeue" \in Faults
  /\ mode[c] = "requeueing"
  /\ SetOffset(c)
  /\ Continue(c)
  /\ UNCHANGED <<log, owner, pos, retry, accounted, buried>>

\* Enqueue returns an error, before or after the copy was written.
RequeueError(c) ==
  /\ "requeue" \in Faults
  /\ mode[c] = "requeueing"
  /\ Enqueue(c) \/ UNCHANGED retry
  /\ Leave(c, "backoff")
  /\ UNCHANGED <<log, committed, pos, accounted, buried>>

\* deadLetterMessage: RunPullConsumer returns what it returns, so that the
\* loop ends even if the write succeeded, and the record stays uncommitted.
Bury(c) ==
  /\ mode[c] = "burying"
  /\ buried' = buried \cup {cur[c]}
  /\ Leave(c, "backoff")
  /\ UNCHANGED <<log, committed, pos, retry, accounted>>

\* The write fails before it reached the dead-letter topic; one that fails
\* after it is Bury, which ends the loop in the same way.
BuryError(c) ==
  /\ "bury" \in Faults
  /\ mode[c] = "burying"
  /\ Leave(c, "backoff")
  /\ UNCHANGED <<log, committed, pos, retry, accounted, buried>>

\* The process ends, whatever it is doing.
Exit(c) ==
  /\ "exit" \in Faults
  /\ mode[c] # "down"
  /\ Leave(c, "down")
  /\ UNCHANGED <<log, committed, pos, retry, accounted, buried>>

-----------------------------------------------------------------------------
Environment ==
  \/ \E p \in Partitions, e \in Events : Produce(p, e)
  \/ \E p \in Partitions, r \in Record : Forward(p, r)
  \/ \E p \in Partitions, c \in Consumers : Assign(p, c) \/ Rebalance(p, c)

Loop(c) ==
  \/ Start(c) \/ Resubscribe(c)
  \/ \E p \in Partitions : Fetch(c, p)
  \/ Commit(c) \/ Requeue(c) \/ Bury(c)

Failure(c) == FetchError(c) \/ CommitError(c) \/ RequeueError(c) \/ BuryError(c)

Handler(c) == \E outcome \in Outcomes : HandlerReturns(c, outcome)

Next ==
  \/ Environment
  \/ \E c \in Consumers : Loop(c) \/ Handler(c) \/ Failure(c) \/ Exit(c)

Spec == Init /\ [][Next]_consumerVars

\* A process that can take its next step takes it, unassigned partitions get
\* assigned, and a copy in the retry topic is put back.  A consumer that owns
\* several partitions fetches from each of them.
Fairness ==
  /\ \A c \in Consumers : WF_consumerVars(Loop(c) \/ Handler(c))
  /\ \A c \in Consumers, p \in Partitions : SF_consumerVars(Fetch(c, p))
  /\ \A p \in Partitions : WF_consumerVars(\E c \in Consumers : Assign(p, c))
  /\ \A r \in Record : WF_consumerVars(\E p \in Partitions : Forward(p, r))

Disturbance ==
  \/ \E c \in Consumers : Failure(c) \/ Exit(c)
  \/ \E p \in Partitions, c \in Consumers : Rebalance(p, c)

\* Faults and rebalances cease at some time.
QuietSpec == Spec /\ Fairness /\ <>[][~Disturbance]_consumerVars

-----------------------------------------------------------------------------
(* Properties.                                                               *)

\* No offset is committed past a record that the handler did not accept and
\* that has no copy in the retry topic either: RunPullConsumer leaves a record
\* it requeued uncommitted, later commits pass over it, and commits may come
\* from a consumer that lost the partition meanwhile.
CommittedAccounted ==
  \A p \in Partitions : \A n \in 1..committed[p] : [part |-> p, off |-> n] \in accounted

\* Unless a record is dead-lettered, every record is handled or requeued at last:
\* no failure or rebalance leaves a partition without a reader or makes one skip
\* a record.  (That its offset stays committed is not promised: a consumer that
\* lost the partition may set the offset back.)
EventuallyHandled ==
  [](buried = {}) =>
    \A p \in Partitions : \A n \in 1..MaxLog :
      Len(log[p]) >= n ~> [part |-> p, off |-> n] \in accounted
=============================================================================
