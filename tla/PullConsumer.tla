----------------------------- MODULE PullConsumer -----------------------------
(***************************************************************************)
(* The NATS pull consumer of mail-service (nats/pull_consumer_runtime.go): *)
(* a fetcher that takes batches of messages from a JetStream consumer and  *)
(* puts them in a bounded channel, workers that take them from it, run the *)
(* handler and acknowledge, and their end when the context is cancelled.   *)
(*                                                                         *)
(* JetStream delivers a message again that was not acknowledged within     *)
(* AckWait, or was refused, until it has delivered it MaxDeliver times.    *)
(* How large the batches are, AdaptivePull says.                           *)
(***************************************************************************)
EXTENDS Naturals, Sequences

CONSTANTS
  Workers,     \* cfg.Workers goroutines
  Messages,    \* of the command stream
  QueueSize,   \* capacity of the channel
  MaxBatch,    \* the largest batch that is asked for
  MaxDeliver,  \* deliveries of one message
  NoJob,       \* what an idle worker works on
  Faults       \* "handler", "ack", "fetch", "slow", "crash"

ASSUME PullAssumption ==
  /\ QueueSize \in Nat \ {0}
  /\ MaxBatch \in Nat \ {0}
  /\ MaxDeliver \in Nat \ {0}

\* What a *nats.Msg is: a message and which of its deliveries it came with.
Delivery == [msg : Messages, count : 1..MaxDeliver]

ASSUME NoJobAssumption == NoJob \notin Delivery

VARIABLES
  stream,      \* stream[m]: what JetStream knows about m
  deliveries,  \* deliveries[m]: how often m was delivered
  stopped,     \* the context is cancelled
  fetcher,     \* where the fetcher is
  fetched,     \* the messages of the batch it has still to dispatch
  jobs,        \* the channel
  worker,      \* worker[w]: where worker w is
  job,         \* job[w]: what w took from the channel
  handled,     \* messages the handler returned nil for
  started,     \* history: the deliveries the handler was called for
  late         \* history: messages whose AckWait ended while the process had them

serverVars == <<stream, deliveries, late>>
runtimeVars == <<stopped, fetcher, fetched, jobs, worker, job>>
pullVars == <<serverVars, runtimeVars, handled, started>>

\* "pending" messages wait for their next delivery, if there is one left.
Stream == {"absent", "pending", "delivered", "acked"}
Fetcher == {"checking", "fetching", "dispatching", "joining", "closed"}
Worker == {"idle", "handling", "acking", "naking", "exited"}

\* The channel keeps to its capacity, a batch is left over only while it is
\* dispatched, and a worker has a message exactly while it works on it.
TypeOK ==
  /\ stream \in [Messages -> Stream]
  /\ deliveries \in [Messages -> 0..MaxDeliver]
  /\ stopped \in BOOLEAN
  /\ fetcher \in Fetcher
  /\ fetched \in Seq(Delivery)
  /\ jobs \in Seq(Delivery)
  /\ worker \in [Workers -> Worker]
  /\ job \in [Workers -> Delivery \cup {NoJob}]
  /\ handled \subseteq Messages
  /\ started \subseteq Delivery
  /\ late \subseteq Messages
  /\ Len(jobs) <= QueueSize
  /\ fetched # <<>> => fetcher = "dispatching"
  /\ \A w \in Workers : worker[w] \in {"idle", "exited"} <=> job[w] = NoJob

\* The process starts: RunPullConsumer has created the channel and has started
\* the fetcher and the workers.
Fresh(st, f, batch, queue, wk, j) ==
  /\ st = FALSE
  /\ f = "checking"
  /\ batch = <<>>
  /\ queue = <<>>
  /\ wk = [w \in Workers |-> "idle"]
  /\ j = [w \in Workers |-> NoJob]

Init ==
  /\ stream = [m \in Messages |-> "absent"]
  /\ deliveries = [m \in Messages |-> 0]
  /\ Fresh(stopped, fetcher, fetched, jobs, worker, job)
  /\ handled = {}
  /\ started = {}
  /\ late = {}

-----------------------------------------------------------------------------
(* JetStream.                                                                *)

Publish(m) ==
  /\ stream[m] = "absent"
  /\ stream' = [stream EXCEPT ![m] = "pending"]
  /\ UNCHANGED <<deliveries, late, runtimeVars, handled, started>>

Deliverable == {m \in Messages : stream[m] = "pending" /\ deliveries[m] < MaxDeliver}

\* The messages of a set are delivered once more.
Deliver(S) ==
  /\ stream' = [m \in Messages |-> IF m \in S THEN "delivered" ELSE stream[m]]
  /\ deliveries' = [m \in Messages |-> IF m \in S THEN deliveries[m] + 1 ELSE deliveries[m]]
  /\ UNCHANGED late

\* The process has m in its hands: in the batch, in the channel, or in a worker.
Holds(m) ==
  \/ \E i \in 1..Len(fetched) : fetched[i].msg = m
  \/ \E i \in 1..Len(jobs) : jobs[i].msg = m
  \/ \E w \in Workers : job[w] # NoJob /\ job[w].msg = m

\* Mutant: AckWait is not what sets a message free for its next delivery.
AckWaitShort(m) ==
  /\ stream[m] = "delivered"
  /\ stream' = [stream EXCEPT ![m] = "pending"]
  /\ UNCHANGED <<deliveries, late, runtimeVars, handled, started>>

\* AckWait is over.  Without the fault "slow" the process is done by then with
\* all it got, the time in the channel included.
AckWaitOver(m) ==
  /\ stream[m] = "delivered"
  /\ "slow" \notin Faults => ~Holds(m)
  /\ stream' = [stream EXCEPT ![m] = "pending"]
  /\ late' = IF Holds(m) THEN late \cup {m} ELSE late
  /\ UNCHANGED <<deliveries, runtimeVars, handled, started>>

-----------------------------------------------------------------------------
(* The fetcher.                                                              *)

FetcherAt(here, there) == fetcher = here /\ fetcher' = there

\* shouldStop
Check ==
  /\ FetcherAt("checking", IF stopped THEN "joining" ELSE "fetching")
  /\ UNCHANGED <<serverVars, stopped, fetched, jobs, worker, job, handled, started>>

Fetch ==
  /\ FetcherAt("fetching", "dispatching")
  /\ \E n \in 1..MaxBatch : \E q \in [1..n -> Deliverable] :
       /\ \A i, k \in 1..n : q[i] = q[k] => i = k
       /\ Deliver({q[i] : i \in 1..n})
       /\ fetched' = [i \in 1..n |-> [msg |-> q[i], count |-> deliveries[q[i]] + 1]]
  /\ UNCHANGED <<stopped, jobs, worker, job, handled, started>>

\* Mutant: the fetcher returns when a Fetch fails.
FetchErrorReturns ==
  /\ FetcherAt("fetching", "joining")
  /\ UNCHANGED <<serverVars, stopped, fetched, jobs, worker, job, handled, started>>

\* Fetch returns an error: the wait was over, or messages that were delivered
\* got lost.
FetchError ==
  /\ FetcherAt("fetching", "checking")
  /\ \/ UNCHANGED serverVars
     \/ "fetch" \in Faults /\ \E m \in Deliverable : Deliver({m})
  /\ UNCHANGED <<stopped, fetched, jobs, worker, job, handled, started>>

\* Mutant: the sender does not leave the message it has sent.
DispatchTwice ==
  /\ fetcher = "dispatching"
  /\ fetched # <<>>
  /\ Len(jobs) < QueueSize
  /\ jobs' = Append(jobs, Head(fetched))
  /\ \/ fetched' = Tail(fetched)
     \/ UNCHANGED fetched
  /\ UNCHANGED <<serverVars, stopped, fetcher, worker, job, handled, started>>

\* The next message of the batch goes to the channel.
Dispatch ==
  /\ fetcher = "dispatching"
  /\ fetched # <<>>
  /\ Len(jobs) < QueueSize
  /\ jobs' = Append(jobs, Head(fetched))
  /\ fetched' = Tail(fetched)
  /\ UNCHANGED <<serverVars, stopped, fetcher, worker, job, handled, started>>

DispatchDone ==
  /\ fetched = <<>>
  /\ FetcherAt("dispatching", "checking")
  /\ UNCHANGED <<serverVars, stopped, fetched, jobs, worker, job, handled, started>>

\* Mutant: a full channel blocks for good.
DispatchBlocked == FALSE /\ UNCHANGED pullVars

\* The context is cancelled: the rest of the batch is dropped.
DispatchStopped ==
  /\ stopped
  /\ fetched # <<>>
  /\ FetcherAt("dispatching", "joining")
  /\ fetched' = <<>>
  /\ UNCHANGED <<serverVars, stopped, jobs, worker, job, handled, started>>

\* The deferred wg.Wait and close(jobs).
CloseJobs ==
  /\ \A w \in Workers : worker[w] = "exited"
  /\ FetcherAt("joining", "closed")
  /\ UNCHANGED <<serverVars, stopped, fetched, jobs, worker, job, handled, started>>

-----------------------------------------------------------------------------
(* A worker.                                                                 *)

WorkerAt(w, here, there) ==
  worker[w] = here /\ worker' = [worker EXCEPT ![w] = there]

Take(w) ==
  /\ WorkerAt(w, "idle", "handling")
  /\ jobs # <<>>
  /\ job' = [job EXCEPT ![w] = Head(jobs)]
  /\ jobs' = Tail(jobs)
  /\ started' = started \cup {Head(jobs)}
  /\ UNCHANGED <<serverVars, stopped, fetcher, fetched, handled>>

\* The context is cancelled; what is left in the channel is not handled.  (The
\* channel is closed only when no worker is left to see it.)
WorkerStopped(w) ==
  /\ stopped
  /\ WorkerAt(w, "idle", "exited")
  /\ UNCHANGED <<serverVars, stopped, fetcher, fetched, jobs, job, handled, started>>

HandlerOK(w) ==
  /\ WorkerAt(w, "handling", "acking")
  /\ handled' = handled \cup {job[w].msg}
  /\ UNCHANGED <<serverVars, stopped, fetcher, fetched, jobs, job, started>>

HandlerErr(w) ==
  /\ "handler" \in Faults
  /\ WorkerAt(w, "handling", "naking")
  /\ UNCHANGED <<serverVars, stopped, fetcher, fetched, jobs, job, handled, started>>

\* The worker goes back to its select.
WorkerDone(w, from) ==
  /\ WorkerAt(w, from, "idle")
  /\ job' = [job EXCEPT ![w] = NoJob]
  /\ UNCHANGED <<stopped, fetcher, fetched, jobs, deliveries, late, handled, started>>

\* Whichever delivery of the message the acknowledgement is for, it is acknowledged.
Ack(w) ==
  /\ WorkerDone(w, "acking")
  /\ stream' = [stream EXCEPT ![job[w].msg] = "acked"]

\* The message is pending again, unless it has been acknowledged meanwhile.
Nak(w) ==
  /\ WorkerDone(w, "naking")
  /\ stream' = [stream EXCEPT ![job[w].msg] = IF @ = "delivered" THEN "pending" ELSE @]

\* The acknowledgement is lost, or its error is logged, or dropped, and that is all.
AckLost(w) ==
  /\ "ack" \in Faults
  /\ WorkerDone(w, "acking") \/ WorkerDone(w, "naking")
  /\ UNCHANGED stream

-----------------------------------------------------------------------------
\* The context given to RunPullConsumer is cancelled.
Stop ==
  /\ ~stopped
  /\ stopped' = TRUE
  /\ UNCHANGED <<serverVars, fetcher, fetched, jobs, worker, job, handled, started>>

\* The process ends and another one starts.  Nobody waits for the fetcher and
\* the workers after the context is cancelled, and a crash does not cancel it.
Restart ==
  /\ stopped \/ "crash" \in Faults
  /\ Fresh(stopped', fetcher', fetched', jobs', worker', job')
  /\ UNCHANGED <<serverVars, handled, started>>

RunFetcher ==
  \/ Check \/ Fetch \/ FetchError
  \/ Dispatch \/ DispatchDone \/ DispatchStopped \/ CloseJobs

RunWorker(w) ==
  \/ Take(w) \/ WorkerStopped(w)
  \/ HandlerOK(w) \/ HandlerErr(w)
  \/ Ack(w) \/ Nak(w) \/ AckLost(w)

Next ==
  \/ \E m \in Messages : Publish(m) \/ AckWaitOver(m)
  \/ RunFetcher
  \/ \E w \in Workers : RunWorker(w)
  \/ Stop \/ Restart

Spec == Init /\ [][Next]_pullVars

\* The goroutines go on, which takes a handler that returns, and AckWait ends.
\* A Fetch that can return messages does not time out for ever.
Fairness ==
  /\ WF_pullVars(RunFetcher)
  /\ SF_pullVars(Fetch)
  /\ \A w \in Workers : WF_pullVars(RunWorker(w))
  /\ \A m \in Messages : WF_pullVars(AckWaitOver(m))

\* At some time nobody stops the consumer or restarts the process any more; it
\* may be stopped for good then.
SteadySpec == Spec /\ Fairness /\ <>[][~Stop /\ ~Restart]_pullVars

-----------------------------------------------------------------------------
(* Properties.                                                               *)

\* The handler never runs twice for one delivery of a message: no interleaving
\* of the fetcher, the workers, a stop and a restart has a worker take from the
\* channel what any worker took before.  So it runs at most MaxDeliver times
\* for one message.
EachDeliveryRunsOnce ==
  [][\A w \in Workers :
       job'[w] \notin {job[w], NoJob} => job'[w] \notin started]_pullVars

\* JetStream drops a message only after the handler accepted it, by whichever
\* delivery: a refused delivery never undoes or forges an acknowledgement.
AckedWasHandled ==
  \A m \in Messages : stream[m] = "acked" => m \in handled

\* Two workers have the same message only if its AckWait ended while the process
\* had it: refused and lost acknowledgements, dropped batches, stops and restarts
\* alone never put a message in a second worker's hands.
OneWorkerPerMessage ==
  \A v, w \in Workers :
    v # w /\ job[v] # NoJob /\ job[w] # NoJob /\ job[v].msg = job[w].msg =>
      job[v].msg \in late

\* A stop comes to its end: fetcher and workers do not wait for each other,
\* not even with a full channel and a batch left to dispatch.
StopCompletes == stopped ~> (fetcher = "closed" \/ ~stopped)

\* When the consumer is not stopped for good, every message published is
\* acknowledged at last, or has used up its deliveries: batches dropped by a
\* stop, a channel lost with its process and lost acknowledgements leave no
\* message behind.
EventuallySettled ==
  <>[]~stopped =>
    <>[](\A m \in Messages :
           stream[m] \in {"absent", "acked"} \/ deliveries[m] = MaxDeliver)
=============================================================================
