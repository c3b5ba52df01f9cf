-------------------------- MODULE PullConsumerProofs --------------------------
(***************************************************************************)
(* Proofs about PullConsumer and PullMail, for any number of workers and   *)
(* messages, any capacity, batch size and limit of deliveries, and all     *)
(* faults.                                                                 *)
(***************************************************************************)
EXTENDS PullMail, FiniteSetTheorems, TLAPS

-----------------------------------------------------------------------------
(* Type correctness.                                                         *)

\* Delivering a set of messages that have deliveries left keeps their types.
LEMMA DeliverTypes ==
  ASSUME TypeOK, NEW S \in SUBSET Deliverable, Deliver(S)
  PROVE  /\ stream' \in [Messages -> Stream]
         /\ deliveries' \in [Messages -> 0..MaxDeliver]
         /\ late' \subseteq Messages
  BY PullAssumption DEF TypeOK, Deliverable, Deliver, Stream

\* The empty channel of a new runtime.
LEMMA EmptyChannel ==
  <<>> \in Seq(Delivery) /\ Len(<<>>) <= QueueSize
<1>1. <<>> \in Seq(Delivery) /\ Len(<<>>) = 0
  OBVIOUS
<1> QED BY <1>1, PullAssumption

\* A stream nobody has published to and a fresh runtime have their types.
LEMMA InitTypes == Init => TypeOK
<1> SUFFICES ASSUME Init PROVE TypeOK
  OBVIOUS
<1>1. /\ fetched \in Seq(Delivery)
      /\ jobs \in Seq(Delivery)
      /\ Len(jobs) <= QueueSize
  BY EmptyChannel DEF Init, Fresh
<1>2. deliveries \in [Messages -> 0..MaxDeliver]
  BY PullAssumption DEF Init
<1> QED BY <1>1, <1>2 DEF Init, Fresh, TypeOK, Stream, Fetcher, Worker

\* A restart leaves JetStream and the history alone, and has the types of Init.
LEMMA RestartTypes ==
  ASSUME TypeOK, Restart
  PROVE  TypeOK'
<1>1. /\ fetched' \in Seq(Delivery)
      /\ jobs' \in Seq(Delivery)
      /\ Len(jobs') <= QueueSize
  BY EmptyChannel DEF Restart, Fresh
<1> QED BY <1>1 DEF Restart, Fresh, TypeOK, Stream, Fetcher, Worker, serverVars

\* TypeOK survives every step of the fetcher.
LEMMA FetcherTypes ==
  ASSUME TypeOK, RunFetcher
  PROVE  TypeOK'
<1>1. CASE Check
  BY <1>1 DEF TypeOK, Check, FetcherAt, Fetcher, serverVars
<1>2. CASE Fetch
  <2> PICK n \in 1..MaxBatch : \E q \in [1..n -> Deliverable] :
          /\ Deliver({q[i] : i \in 1..n})
          /\ fetched' = [i \in 1..n |-> [msg |-> q[i], count |-> deliveries[q[i]] + 1]]
    BY <1>2 DEF Fetch
  <2>1. PICK q \in [1..n -> Deliverable] :
          /\ Deliver({q[i] : i \in 1..n})
          /\ fetched' = [i \in 1..n |-> [msg |-> q[i], count |-> deliveries[q[i]] + 1]]
    OBVIOUS
  <2>2. /\ stream' \in [Messages -> Stream]
        /\ deliveries' \in [Messages -> 0..MaxDeliver]
        /\ late' \subseteq Messages
    <3>1. {q[i] : i \in 1..n} \in SUBSET Deliverable
      OBVIOUS
    <3> QED BY <2>1, <3>1, DeliverTypes
  <2>3. fetched' \in Seq(Delivery)
    <3>1. ASSUME NEW i \in 1..n
          PROVE  [msg |-> q[i], count |-> deliveries[q[i]] + 1] \in Delivery
      <4>1. q[i] \in Messages /\ deliveries[q[i]] < MaxDeliver
        BY DEF Deliverable
      <4>2. deliveries[q[i]] + 1 \in 1..MaxDeliver
        BY <4>1, PullAssumption DEF TypeOK
      <4> QED BY <4>1, <4>2 DEF Delivery
    <3>2. n \in Nat
      BY PullAssumption
    <3> QED BY <2>1, <3>1, <3>2
  <2> QED BY <1>2, <2>2, <2>3 DEF TypeOK, Fetch, FetcherAt, Fetcher
<1>3. CASE FetchError
  <2>1. /\ stream' \in [Messages -> Stream]
        /\ deliveries' \in [Messages -> 0..MaxDeliver]
        /\ late' \subseteq Messages
    <3>1. CASE UNCHANGED serverVars
      BY <3>1 DEF TypeOK, serverVars
    <3>2. CASE \E m \in Deliverable : Deliver({m})
      BY <3>2, DeliverTypes
    <3> QED BY <1>3, <3>1, <3>2 DEF FetchError
  <2> QED BY <1>3, <2>1 DEF TypeOK, FetchError, FetcherAt, Fetcher
<1>4. CASE Dispatch
  <2>1. Head(fetched) \in Delivery /\ Tail(fetched) \in Seq(Delivery)
    BY <1>4 DEF TypeOK, Dispatch
  <2>2. jobs' \in Seq(Delivery) /\ Len(jobs') <= QueueSize
    BY <1>4, <2>1, PullAssumption DEF TypeOK, Dispatch
  <2> QED BY <1>4, <2>1, <2>2 DEF TypeOK, Dispatch, serverVars
<1>5. CASE DispatchDone
  BY <1>5 DEF TypeOK, DispatchDone, FetcherAt, Fetcher, serverVars
<1>6. CASE DispatchStopped
  BY <1>6 DEF TypeOK, DispatchStopped, FetcherAt, Fetcher, serverVars
<1>7. CASE CloseJobs
  BY <1>7 DEF TypeOK, CloseJobs, FetcherAt, Fetcher, serverVars
<1> QED BY <1>1, <1>2, <1>3, <1>4, <1>5, <1>6, <1>7 DEF RunFetcher

\* TypeOK survives every step of a worker.
LEMMA WorkerTypes ==
  ASSUME TypeOK, NEW w \in Workers, RunWorker(w)
  PROVE  TypeOK'
<1> USE NoJobAssumption
<1>1. CASE Take(w)
  <2>1. Head(jobs) \in Delivery /\ Tail(jobs) \in Seq(Delivery) /\ Len(Tail(jobs)) <= QueueSize
    BY <1>1, PullAssumption DEF TypeOK, Take
  <2> QED BY <1>1, <2>1 DEF TypeOK, Take, WorkerAt, Worker, serverVars
<1>2. CASE WorkerStopped(w)
  BY <1>2 DEF TypeOK, WorkerStopped, WorkerAt, Worker, serverVars
<1>3. CASE HandlerOK(w)
  <2>1. job[w] \in Delivery
    BY <1>3 DEF TypeOK, HandlerOK, WorkerAt
  <2>2. handled' \subseteq Messages
    BY <1>3, <2>1 DEF TypeOK, HandlerOK, Delivery
  <2> QED BY <1>3, <2>2 DEF TypeOK, HandlerOK, WorkerAt, Worker, serverVars
<1>4. CASE HandlerErr(w)
  BY <1>4 DEF TypeOK, HandlerErr, WorkerAt, Worker, serverVars
<1>5. ASSUME NEW from \in {"acking", "naking"}, WorkerDone(w, from),
             stream' \in [Messages -> Stream]
      PROVE  TypeOK'
  BY <1>5 DEF TypeOK, WorkerDone, WorkerAt, Worker
<1>6. CASE Ack(w)
  <2>1. stream' \in [Messages -> Stream]
    BY <1>6 DEF TypeOK, Ack, Stream
  <2> QED BY <1>5, <1>6, <2>1 DEF Ack
<1>7. CASE Nak(w)
  <2>1. stream' \in [Messages -> Stream]
    BY <1>7 DEF TypeOK, Nak, Stream
  <2> QED BY <1>5, <1>7, <2>1 DEF Nak
<1>8. CASE AckLost(w)
  <2>1. stream' \in [Messages -> Stream]
    BY <1>8 DEF TypeOK, AckLost
  <2> QED BY <1>5, <1>8, <2>1 DEF AckLost
<1> QED BY <1>1, <1>2, <1>3, <1>4, <1>6, <1>7, <1>8 DEF RunWorker

\* Type correctness of the pull consumer: the channel never holds more than its
\* capacity, and a goroutine has a message exactly where the code has one.
THEOREM TypeCorrect == Spec => []TypeOK
<1>1. Init => TypeOK
  BY InitTypes
<1>2. TypeOK /\ [Next]_pullVars => TypeOK'
  <2> SUFFICES ASSUME TypeOK, [Next]_pullVars PROVE TypeOK'
    OBVIOUS
  <2>1. CASE \E m \in Messages : Publish(m) \/ AckWaitOver(m)
    BY <2>1 DEF TypeOK, Publish, AckWaitOver, Stream, runtimeVars
  <2>2. CASE RunFetcher
    BY <2>2, FetcherTypes
  <2>3. CASE \E w \in Workers : RunWorker(w)
    BY <2>3, WorkerTypes
  <2>4. CASE Stop
    BY <2>4 DEF TypeOK, Stop, serverVars
  <2>5. CASE Restart
    BY <2>5, RestartTypes
  <2>6. CASE UNCHANGED pullVars
    BY <2>6 DEF TypeOK, pullVars, serverVars, runtimeVars
  <2> QED BY <2>1, <2>2, <2>3, <2>4, <2>5, <2>6 DEF Next
<1> QED BY <1>1, <1>2, PTL DEF Spec

-----------------------------------------------------------------------------
(* Acknowledgements.                                                         *)

\* A worker acknowledges what the handler accepted.  (A message stays accepted,
\* so that a worker may be overtaken by another delivery of its message.)
AckInv ==
  /\ TypeOK
  /\ AckedWasHandled
  /\ \A w \in Workers : worker[w] = "acking" => job[w].msg \in handled

\* AckInv holds in every state.
LEMMA AckInvariant == Spec => []AckInv
<1>1. Init => AckInv
  <2>1. Init => TypeOK
    BY InitTypes
  <2> QED BY <2>1 DEF Init, Fresh, AckInv, AckedWasHandled
<1>2. AckInv /\ TypeOK' /\ [Next]_pullVars => AckInv'
  <2> SUFFICES ASSUME AckInv, TypeOK', [Next]_pullVars PROVE AckInv'
    OBVIOUS
  <2> USE DEF AckInv, AckedWasHandled
  <2>1. CASE \E m \in Messages : Publish(m) \/ AckWaitOver(m)
    BY <2>1 DEF TypeOK, Publish, AckWaitOver, runtimeVars
  <2>2. CASE RunFetcher
    <3>1. UNCHANGED <<worker, job, handled>>
      BY <2>2 DEF RunFetcher, Check, Fetch, FetchError, Dispatch, DispatchDone,
                  DispatchStopped, CloseJobs
    <3>2. \A m \in Messages : stream'[m] = "acked" => stream[m] = "acked"
      BY <2>2 DEF TypeOK, RunFetcher, Check, Fetch, FetchError, Dispatch, DispatchDone,
                  DispatchStopped, CloseJobs, Deliver, serverVars
    <3> QED BY <3>1, <3>2
  <2>3. CASE \E w \in Workers : RunWorker(w)
    <3> PICK w \in Workers : RunWorker(w)
      BY <2>3
    <3>1. CASE Take(w) \/ WorkerStopped(w) \/ HandlerErr(w)
      BY <3>1 DEF TypeOK, Take, WorkerStopped, HandlerErr, WorkerAt, serverVars
    <3>2. CASE HandlerOK(w)
      BY <3>2 DEF TypeOK, HandlerOK, WorkerAt, serverVars
    <3>3. CASE Ack(w)
      BY <3>3 DEF TypeOK, Ack, WorkerDone, WorkerAt
    <3>4. CASE Nak(w)
      BY <3>4 DEF TypeOK, Nak, WorkerDone, WorkerAt
    <3>5. CASE AckLost(w)
      BY <3>5 DEF TypeOK, AckLost, WorkerDone, WorkerAt
    <3> QED BY <3>1, <3>2, <3>3, <3>4, <3>5 DEF RunWorker
  <2>4. CASE Stop
    BY <2>4 DEF Stop, serverVars
  <2>5. CASE Restart
    BY <2>5 DEF Restart, Fresh, serverVars
  <2>6. CASE UNCHANGED pullVars
    BY <2>6 DEF pullVars, serverVars, runtimeVars
  <2> QED BY <2>1, <2>2, <2>3, <2>4, <2>5, <2>6 DEF Next
<1> QED BY <1>1, <1>2, TypeCorrect, PTL DEF Spec

\* Every message JetStream was told to drop was accepted by the handler.
THEOREM AckedHandled == Spec => []AckedWasHandled
<1>1. AckInv => AckedWasHandled
  BY DEF AckInv
<1> QED BY <1>1, AckInvariant, PTL

-----------------------------------------------------------------------------
(* Deliveries.                                                               *)

\* A delivery that was made.
Made(d) == d.count <= deliveries[d.msg]

\* What waits for a worker, in the batch or in the channel, was delivered and
\* has not run yet, and it waits there once: the inductive invariant.
WaitingInv ==
  /\ \A d \in started : Made(d)
  /\ \A i \in 1..Len(jobs) : Made(jobs[i]) /\ jobs[i] \notin started
  /\ \A i \in 1..Len(fetched) : Made(fetched[i]) /\ fetched[i] \notin started
  /\ \A i, k \in 1..Len(jobs) : jobs[i] = jobs[k] => i = k
  /\ \A i, k \in 1..Len(fetched) : fetched[i] = fetched[k] => i = k
  /\ \A i \in 1..Len(fetched), k \in 1..Len(jobs) : fetched[i] # jobs[k]

\* WaitingInv says nothing of the variables this leaves open.
LEMMA WaitingKept ==
  ASSUME WaitingInv, UNCHANGED <<deliveries, fetched, jobs, started>>
  PROVE  WaitingInv'
  BY DEF WaitingInv, Made

\* A new batch brings deliveries that were not made before.
LEMMA WaitingFetch ==
  ASSUME TypeOK, WaitingInv, Fetch
  PROVE  WaitingInv'
<1> PICK n \in 1..MaxBatch : \E q \in [1..n -> Deliverable] :
      /\ \A i, k \in 1..n : q[i] = q[k] => i = k
      /\ Deliver({q[i] : i \in 1..n})
      /\ fetched' = [i \in 1..n |-> [msg |-> q[i], count |-> deliveries[q[i]] + 1]]
  BY DEF Fetch
<1> PICK q \in [1..n -> Deliverable] :
      /\ \A i, k \in 1..n : q[i] = q[k] => i = k
      /\ Deliver({q[i] : i \in 1..n})
      /\ fetched' = [i \in 1..n |-> [msg |-> q[i], count |-> deliveries[q[i]] + 1]]
  OBVIOUS
<1>1. n \in Nat /\ Len(fetched') = n
  BY PullAssumption
<1>2. \A i \in 1..n : q[i] \in Messages
  BY DEF Deliverable
<1>3. \A m \in Messages : deliveries[m] \in Nat /\ deliveries[m] <= deliveries'[m]
  BY PullAssumption DEF TypeOK, Deliver
<1>4. \A i \in 1..n : deliveries'[q[i]] = deliveries[q[i]] + 1
  BY <1>2 DEF Deliver
<1>5. \A d \in Delivery : d.count <= deliveries[d.msg] => d.count <= deliveries'[d.msg]
  <2> TAKE d \in Delivery
  <2>1. d.msg \in Messages /\ d.count \in Nat
    BY PullAssumption DEF Delivery
  <2> QED BY <1>3, <2>1, PullAssumption DEF TypeOK, Deliver
<1>6. \A i \in 1..n : /\ fetched'[i].count <= deliveries'[fetched'[i].msg]
                     /\ ~(fetched'[i].count <= deliveries[fetched'[i].msg])
  <2> TAKE i \in 1..n
  <2>1. fetched'[i].msg = q[i] /\ fetched'[i].count = deliveries[q[i]] + 1
    OBVIOUS
  <2> QED BY <1>2, <1>3, <1>4, <2>1
<1>7. \A i \in 1..Len(jobs) : jobs[i] \in Delivery
  BY DEF TypeOK
<1>8. \A d \in started : d \in Delivery
  BY DEF TypeOK
<1>9. UNCHANGED <<jobs, started>>
  BY DEF Fetch
<1>10. \A i, k \in 1..n : fetched'[i] = fetched'[k] => i = k
  OBVIOUS
<1>11. \A i \in 1..n : /\ fetched'[i] \notin started
                      /\ \A k \in 1..Len(jobs) : fetched'[i] # jobs[k]
  BY <1>6 DEF WaitingInv, Made
<1>12. /\ \A d \in started : d.count <= deliveries'[d.msg]
       /\ \A i \in 1..Len(jobs) : jobs[i].count <= deliveries'[jobs[i].msg]
  BY <1>5, <1>7, <1>8 DEF WaitingInv, Made
<1> QED BY <1>1, <1>6, <1>9, <1>10, <1>11, <1>12 DEF WaitingInv, Made

\* Deliveries that got lost leave what waits alone.
LEMMA WaitingFetchError ==
  ASSUME TypeOK, WaitingInv, FetchError
  PROVE  WaitingInv'
<1>1. CASE UNCHANGED serverVars
  BY <1>1, WaitingKept DEF FetchError, serverVars
<1>2. CASE \E m \in Deliverable : Deliver({m})
  <2>1. \A m \in Messages : deliveries[m] \in Nat /\ deliveries[m] <= deliveries'[m]
    BY <1>2, PullAssumption DEF TypeOK, Deliver
  <2>2. \A d \in Delivery : d.count <= deliveries[d.msg] => d.count <= deliveries'[d.msg]
    <3> TAKE d \in Delivery
    <3>1. d.msg \in Messages /\ d.count \in Nat
      BY PullAssumption DEF Delivery
    <3> QED BY <1>2, <2>1, <3>1, PullAssumption DEF TypeOK, Deliver
  <2>3. /\ \A i \in 1..Len(jobs) : jobs[i] \in Delivery
        /\ \A i \in 1..Len(fetched) : fetched[i] \in Delivery
        /\ \A d \in started : d \in Delivery
    BY DEF TypeOK
  <2>4. UNCHANGED <<fetched, jobs, started>>
    BY DEF FetchError
  <2> QED BY <2>2, <2>3, <2>4 DEF WaitingInv, Made
<1> QED BY <1>1, <1>2 DEF FetchError

\* What is dispatched waits in the channel instead of in the batch.
LEMMA WaitingDispatch ==
  ASSUME TypeOK, WaitingInv, Dispatch
  PROVE  WaitingInv'
<1>1. /\ Len(fetched) \in Nat \ {0} /\ Len(jobs) \in Nat
      /\ fetched' = Tail(fetched) /\ jobs' = Append(jobs, fetched[1])
      /\ UNCHANGED <<deliveries, started>>
  BY DEF TypeOK, Dispatch, serverVars
<1>2. /\ Len(fetched') = Len(fetched) - 1
      /\ \A i \in 1..Len(fetched') : fetched'[i] = fetched[i + 1]
  BY <1>1 DEF TypeOK
<1>3. /\ Len(jobs') = Len(jobs) + 1
      /\ \A i \in 1..Len(jobs) : jobs'[i] = jobs[i]
      /\ jobs'[Len(jobs) + 1] = fetched[1]
  BY <1>1 DEF TypeOK
<1>4. (\A i \in 1..Len(jobs) : Made(jobs[i]) /\ jobs[i] \notin started)'
  BY <1>1, <1>3 DEF WaitingInv, Made
<1>5. (\A i \in 1..Len(fetched) : Made(fetched[i]) /\ fetched[i] \notin started)'
  BY <1>1, <1>2 DEF WaitingInv, Made
<1>6. \A i, k \in 1..Len(jobs') : jobs'[i] = jobs'[k] => i = k
  BY <1>1, <1>3 DEF WaitingInv
<1>7. \A i, k \in 1..Len(fetched') : fetched'[i] = fetched'[k] => i = k
  BY <1>1, <1>2 DEF WaitingInv
<1>8. \A i \in 1..Len(fetched'), k \in 1..Len(jobs') : fetched'[i] # jobs'[k]
  BY <1>1, <1>2, <1>3 DEF WaitingInv
<1> QED BY <1>1, <1>4, <1>5, <1>6, <1>7, <1>8 DEF WaitingInv, Made

\* What a worker takes from the channel waits no longer.
LEMMA WaitingTake ==
  ASSUME TypeOK, WaitingInv, NEW w \in Workers, Take(w)
  PROVE  WaitingInv'
<1>1. /\ Len(jobs) \in Nat \ {0} /\ jobs' = Tail(jobs)
      /\ started' = started \cup {jobs[1]}
      /\ UNCHANGED <<deliveries, fetched>>
  BY DEF TypeOK, Take, serverVars
<1>2. /\ Len(jobs') = Len(jobs) - 1
      /\ \A i \in 1..Len(jobs') : jobs'[i] = jobs[i + 1]
  BY <1>1 DEF TypeOK
<1>3. (\A i \in 1..Len(jobs) : Made(jobs[i]) /\ jobs[i] \notin started)'
  BY <1>1, <1>2 DEF WaitingInv, Made
<1>4. \A i, k \in 1..Len(jobs') : jobs'[i] = jobs'[k] => i = k
  BY <1>1, <1>2 DEF WaitingInv
<1>5. \A i \in 1..Len(fetched), k \in 1..Len(jobs') : fetched[i] # jobs'[k]
  BY <1>1, <1>2 DEF WaitingInv
<1>6. (\A i \in 1..Len(fetched) : Made(fetched[i]) /\ fetched[i] \notin started)'
  BY <1>1 DEF WaitingInv, Made
<1>7. (\A d \in started : Made(d))'
  BY <1>1 DEF WaitingInv, Made
<1> QED BY <1>1, <1>3, <1>4, <1>5, <1>6, <1>7 DEF WaitingInv

\* Every step keeps WaitingInv.
LEMMA WaitingStep ==
  ASSUME TypeOK, WaitingInv, [Next]_pullVars
  PROVE  WaitingInv'
<1>1. CASE \E m \in Messages : Publish(m) \/ AckWaitOver(m)
  BY <1>1, WaitingKept DEF Publish, AckWaitOver, runtimeVars
<1>2. CASE Check \/ DispatchDone \/ CloseJobs
  BY <1>2, WaitingKept DEF Check, DispatchDone, CloseJobs, serverVars
<1>3. CASE Fetch
  BY <1>3, WaitingFetch
<1>4. CASE FetchError
  BY <1>4, WaitingFetchError
<1>5. CASE Dispatch
  BY <1>5, WaitingDispatch
<1>6. CASE DispatchStopped
  <2>1. fetched' = <<>> /\ UNCHANGED <<deliveries, jobs, started>>
    BY <1>6 DEF DispatchStopped, serverVars
  <2> QED BY <2>1 DEF WaitingInv, Made
<1>7. CASE \E w \in Workers : RunWorker(w)
  <2> PICK w \in Workers : RunWorker(w)
    BY <1>7
  <2>1. CASE Take(w)
    BY <2>1, WaitingTake
  <2>2. CASE WorkerStopped(w) \/ HandlerOK(w) \/ HandlerErr(w)
    BY <2>2, WaitingKept DEF WorkerStopped, HandlerOK, HandlerErr, serverVars
  <2>3. CASE Ack(w) \/ Nak(w) \/ AckLost(w)
    BY <2>3, WaitingKept DEF Ack, Nak, AckLost, WorkerDone
  <2> QED BY <2>1, <2>2, <2>3 DEF RunWorker
<1>8. CASE Stop
  BY <1>8, WaitingKept DEF Stop, serverVars
<1>9. CASE Restart
  <2>1. fetched' = <<>> /\ jobs' = <<>> /\ UNCHANGED <<deliveries, started>>
    BY <1>9 DEF Restart, Fresh, serverVars
  <2> QED BY <2>1 DEF WaitingInv, Made
<1>10. CASE UNCHANGED pullVars
  BY <1>10, WaitingKept DEF pullVars, serverVars, runtimeVars
<1> QED BY <1>1, <1>2, <1>3, <1>4, <1>5, <1>6, <1>7, <1>8, <1>9, <1>10 DEF Next, RunFetcher

\* Only Take gives a worker something to do, and it gives it the head of the
\* channel.
LEMMA NewJob ==
  ASSUME TypeOK, WaitingInv, [Next]_pullVars, NEW w \in Workers,
         job'[w] \notin {job[w], NoJob}
  PROVE  job'[w] \notin started
<1>1. CASE \E v \in Workers : RunWorker(v)
  <2> PICK v \in Workers : RunWorker(v)
    BY <1>1
  <2>1. CASE Take(v)
    <3>1. Len(jobs) \in Nat \ {0} /\ job'[w] \in {job[w], jobs[1]}
      BY <2>1 DEF TypeOK, Take
    <3> QED BY <3>1 DEF WaitingInv
  <2>2. CASE WorkerStopped(v) \/ HandlerOK(v) \/ HandlerErr(v)
    BY <2>2 DEF WorkerStopped, HandlerOK, HandlerErr
  <2>3. CASE Ack(v) \/ Nak(v) \/ AckLost(v)
    BY <2>3 DEF TypeOK, Ack, Nak, AckLost, WorkerDone
  <2> QED BY <2>1, <2>2, <2>3 DEF RunWorker
<1>2. CASE Restart
  BY <1>2 DEF Restart, Fresh
<1>3. CASE RunFetcher
  BY <1>3 DEF RunFetcher, Check, Fetch, FetchError, Dispatch, DispatchDone,
              DispatchStopped, CloseJobs
<1>4. CASE \/ \E m \in Messages : Publish(m) \/ AckWaitOver(m)
           \/ Stop
           \/ UNCHANGED pullVars
  BY <1>4 DEF Publish, AckWaitOver, Stop, pullVars, runtimeVars
<1> QED BY <1>1, <1>2, <1>3, <1>4 DEF Next

\* The handler runs at most once for each delivery of a message, and so at
\* most MaxDeliver times for the message.
THEOREM RunsOncePerDelivery == Spec => EachDeliveryRunsOnce
<1>1. Init => WaitingInv
  BY DEF Init, Fresh, WaitingInv
<1>2. TypeOK /\ WaitingInv /\ [Next]_pullVars => WaitingInv'
  BY WaitingStep
<1>3. TypeOK /\ WaitingInv /\ [Next]_pullVars =>
        [\A w \in Workers :
           job'[w] \notin {job[w], NoJob} => job'[w] \notin started]_pullVars
  BY NewJob
<1> QED BY <1>1, <1>2, <1>3, TypeCorrect, PTL DEF Spec, EachDeliveryRunsOnce

-----------------------------------------------------------------------------
(* Messages in the hands of the process.                                     *)

InBatch(i, m) == i \in 1..Len(fetched) /\ fetched[i].msg = m
InChannel(i, m) == i \in 1..Len(jobs) /\ jobs[i].msg = m
InWorker(w, m) == job[w] # NoJob /\ job[w].msg = m

\* A message the process has is one JetStream waits for an acknowledgement of.
HeldDelivered ==
  \A m \in Messages \ late :
    /\ \A i : InBatch(i, m) => stream[m] = "delivered"
    /\ \A i : InChannel(i, m) => stream[m] = "delivered"
    /\ \A w \in Workers : InWorker(w, m) => stream[m] = "delivered"

\* The process has a message in one place only.
HeldOnce ==
  \A m \in Messages \ late :
    /\ \A i, k : InBatch(i, m) /\ InBatch(k, m) => i = k
    /\ \A i, k : InChannel(i, m) /\ InChannel(k, m) => i = k
    /\ \A v, w \in Workers : InWorker(v, m) /\ InWorker(w, m) => v = w
    /\ \A i, k : ~(InBatch(i, m) /\ InChannel(k, m))
    /\ \A i : \A w \in Workers : ~(InBatch(i, m) /\ InWorker(w, m))
    /\ \A i : \A w \in Workers : ~(InChannel(i, m) /\ InWorker(w, m))

\* The inductive invariant, for the messages whose AckWait has not failed them:
\* what is delivered again is not held, so it cannot get a second holder.
HandInv == HeldDelivered /\ HeldOnce

\* HandInv says nothing of the variables this leaves open.
LEMMA HandKept ==
  ASSUME HandInv, UNCHANGED <<stream, late, fetched, jobs, job>>
  PROVE  HandInv'
  BY DEF HandInv, HeldDelivered, HeldOnce, InBatch, InChannel, InWorker

\* JetStream touches only what is not held, or what becomes late.
LEMMA HandServer ==
  ASSUME TypeOK, HandInv, NEW n \in Messages, Publish(n) \/ AckWaitOver(n)
  PROVE  HandInv'
<1>1. UNCHANGED <<fetched, jobs, job>>
  BY DEF Publish, AckWaitOver, runtimeVars
<1>2. /\ late \subseteq late'
      /\ \A m \in Messages : m # n => stream'[m] = stream[m]
  BY DEF TypeOK, Publish, AckWaitOver
<1>3. HeldOnce'
  BY <1>1, <1>2 DEF HandInv, HeldOnce, InBatch, InChannel, InWorker
<1>4. CASE Publish(n)
  <2>1. stream[n] = "absent"
    BY <1>4 DEF Publish
  <2>2. HeldDelivered'
    BY <1>1, <1>2, <2>1 DEF HandInv, HeldDelivered, InBatch, InChannel, InWorker
  <2> QED BY <1>3, <2>2 DEF HandInv
<1>5. CASE AckWaitOver(n)
  <2>1. n \notin late' => /\ \A i : ~InBatch(i, n) /\ ~InChannel(i, n)
                          /\ \A w \in Workers : ~InWorker(w, n)
    BY <1>5 DEF AckWaitOver, Holds, InBatch, InChannel, InWorker
  <2>2. HeldDelivered'
    BY <1>1, <1>2, <2>1 DEF HandInv, HeldDelivered, InBatch, InChannel, InWorker
  <2> QED BY <1>3, <2>2 DEF HandInv
<1> QED BY <1>4, <1>5

\* A new batch consists of messages that were pending, and so not held.
LEMMA HandFetch ==
  ASSUME TypeOK, HandInv, Fetch
  PROVE  HandInv'
<1> PICK n \in 1..MaxBatch : \E q \in [1..n -> Deliverable] :
      /\ \A i, k \in 1..n : q[i] = q[k] => i = k
      /\ Deliver({q[i] : i \in 1..n})
      /\ fetched' = [i \in 1..n |-> [msg |-> q[i], count |-> deliveries[q[i]] + 1]]
  BY DEF Fetch
<1> PICK q \in [1..n -> Deliverable] :
      /\ \A i, k \in 1..n : q[i] = q[k] => i = k
      /\ Deliver({q[i] : i \in 1..n})
      /\ fetched' = [i \in 1..n |-> [msg |-> q[i], count |-> deliveries[q[i]] + 1]]
  OBVIOUS
<1>1. n \in Nat /\ Len(fetched') = n
  BY PullAssumption
<1>2. \A i \in 1..n : fetched'[i].msg = q[i] /\ stream[q[i]] = "pending"
  BY DEF Deliverable
<1>3. UNCHANGED <<jobs, job, late>>
  BY DEF Fetch, Deliver
<1>4. \A m \in Messages :
        stream'[m] = IF m \in {q[i] : i \in 1..n} THEN "delivered" ELSE stream[m]
  BY DEF Deliver
<1>5. \A m \in Messages \ late : \A i : InBatch(i, m)' =>
        /\ i \in 1..n /\ m = q[i] /\ stream'[m] = "delivered"
        /\ \A k : ~InChannel(k, m)
        /\ \A w \in Workers : ~InWorker(w, m)
  <2> SUFFICES ASSUME NEW m \in Messages \ late, NEW i, InBatch(i, m)'
               PROVE  /\ i \in 1..n /\ m = q[i] /\ stream'[m] = "delivered"
                      /\ \A k : ~InChannel(k, m)
                      /\ \A w \in Workers : ~InWorker(w, m)
    OBVIOUS
  <2>1. i \in 1..n /\ m = q[i]
    BY <1>1, <1>2 DEF InBatch
  <2>2. stream[m] = "pending" /\ stream'[m] = "delivered"
    BY <1>2, <1>4, <2>1
  <2> QED BY <2>1, <2>2 DEF HandInv, HeldDelivered
<1>6. HeldDelivered'
  BY <1>3, <1>4, <1>5 DEF HandInv, HeldDelivered, InChannel, InWorker
<1>7. HeldOnce'
  BY <1>3, <1>5 DEF HandInv, HeldOnce, InChannel, InWorker
<1> QED BY <1>6, <1>7 DEF HandInv

\* Deliveries that got lost are of messages that were not held.
LEMMA HandFetchError ==
  ASSUME TypeOK, HandInv, FetchError
  PROVE  HandInv'
<1>1. UNCHANGED <<fetched, jobs, job, late>>
  BY DEF FetchError, Deliver, serverVars
<1>2. \A m \in Messages : stream[m] = "delivered" => stream'[m] = "delivered"
  BY DEF FetchError, Deliver, serverVars
<1> QED BY <1>1, <1>2 DEF HandInv, HeldDelivered, HeldOnce, InBatch, InChannel, InWorker

\* The head of the batch becomes the end of the channel.
LEMMA HandDispatch ==
  ASSUME TypeOK, HandInv, Dispatch
  PROVE  HandInv'
<1>1. /\ Len(fetched) \in Nat \ {0} /\ Len(jobs) \in Nat
      /\ fetched' = Tail(fetched) /\ jobs' = Append(jobs, fetched[1])
      /\ UNCHANGED <<stream, late, job>>
  BY DEF TypeOK, Dispatch, serverVars
<1>2. \A i, m : InBatch(i, m)' => i \in Nat \ {0} /\ InBatch(i + 1, m)
  BY <1>1 DEF TypeOK, InBatch
<1>3. \A i, m : InChannel(i, m)' =>
        \/ InChannel(i, m)
        \/ i = Len(jobs) + 1 /\ InBatch(1, m)
  BY <1>1 DEF TypeOK, InBatch, InChannel
<1>4. \A w \in Workers : \A m : InWorker(w, m)' <=> InWorker(w, m)
  BY <1>1 DEF InWorker
<1>5. HeldDelivered'
  BY <1>1, <1>2, <1>3, <1>4 DEF HandInv, HeldDelivered
<1>6. \A i : i \in Nat \ {0} => i + 1 # 1 /\ \A k \in Nat : i + 1 = k + 1 => i = k
  OBVIOUS
<1>7. ASSUME NEW m \in Messages \ late'
      PROVE  /\ \A i, k : InBatch(i, m)' /\ InBatch(k, m)' => i = k
             /\ \A i, k : InChannel(i, m)' /\ InChannel(k, m)' => i = k
             /\ \A v, w \in Workers : InWorker(v, m)' /\ InWorker(w, m)' => v = w
             /\ \A i, k : ~(InBatch(i, m)' /\ InChannel(k, m)')
             /\ \A i : \A w \in Workers : ~(InBatch(i, m)' /\ InWorker(w, m)')
             /\ \A i : \A w \in Workers : ~(InChannel(i, m)' /\ InWorker(w, m)')
  <2>1. m \in Messages \ late
    BY <1>1
  <2>2. \A i, k : InBatch(i, m)' /\ InBatch(k, m)' => i = k
    BY <1>2, <1>6, <2>1 DEF HandInv, HeldOnce
  <2>3. \A i, k : InChannel(i, m)' /\ InChannel(k, m)' => i = k
    BY <1>3, <2>1 DEF HandInv, HeldOnce
  <2>4. \A v, w \in Workers : InWorker(v, m)' /\ InWorker(w, m)' => v = w
    BY <1>4, <2>1 DEF HandInv, HeldOnce
  <2>5. \A i, k : ~(InBatch(i, m)' /\ InChannel(k, m)')
    BY <1>2, <1>3, <1>6, <2>1 DEF HandInv, HeldOnce
  <2>6. \A i : \A w \in Workers : ~(InBatch(i, m)' /\ InWorker(w, m)')
    BY <1>2, <1>4, <2>1 DEF HandInv, HeldOnce
  <2>7. \A i : \A w \in Workers : ~(InChannel(i, m)' /\ InWorker(w, m)')
    BY <1>3, <1>4, <2>1 DEF HandInv, HeldOnce
  <2> QED BY <2>2, <2>3, <2>4, <2>5, <2>6, <2>7
<1>8. HeldOnce'
  BY <1>7 DEF HeldOnce
<1> QED BY <1>5, <1>8 DEF HandInv

\* The head of the channel becomes the message of an idle worker.
LEMMA HandTake ==
  ASSUME TypeOK, HandInv, NEW w \in Workers, Take(w)
  PROVE  HandInv'
<1>1. /\ Len(jobs) \in Nat \ {0} /\ jobs' = Tail(jobs)
      /\ job' = [job EXCEPT ![w] = jobs[1]]
      /\ job[w] = NoJob
      /\ UNCHANGED <<stream, late, fetched>>
  BY DEF TypeOK, Take, WorkerAt, serverVars
<1>2. \A i, m : InChannel(i, m)' => i \in Nat \ {0} /\ InChannel(i + 1, m)
  BY <1>1 DEF TypeOK, InChannel
<1>3. \A v \in Workers : \A m : InWorker(v, m)' =>
        \/ v # w /\ InWorker(v, m)
        \/ v = w /\ InChannel(1, m)
  BY <1>1 DEF TypeOK, InWorker, InChannel
<1>4. \A i, m : InBatch(i, m)' <=> InBatch(i, m)
  BY <1>1 DEF InBatch
<1>5. HeldDelivered'
  BY <1>1, <1>2, <1>3, <1>4 DEF HandInv, HeldDelivered
<1>6. \A i : i \in Nat \ {0} => i + 1 # 1 /\ \A k \in Nat : i + 1 = k + 1 => i = k
  OBVIOUS
<1>7. HeldOnce'
  BY <1>1, <1>2, <1>3, <1>4, <1>6 DEF HandInv, HeldOnce
<1> QED BY <1>5, <1>7 DEF HandInv

\* A worker that acknowledges or refuses a message is its only holder and
\* gives it away.
LEMMA HandDone ==
  ASSUME TypeOK, HandInv, NEW w \in Workers, Ack(w) \/ Nak(w) \/ AckLost(w)
  PROVE  HandInv'
<1>1. /\ job' = [job EXCEPT ![w] = NoJob]
      /\ job[w] \in Delivery
      /\ UNCHANGED <<late, fetched, jobs>>
  BY NoJobAssumption DEF TypeOK, Ack, Nak, AckLost, WorkerDone, WorkerAt
<1>2. \A m \in Messages : m # job[w].msg => stream'[m] = stream[m]
  BY DEF TypeOK, Ack, Nak, AckLost
<1>3. InWorker(w, job[w].msg)
  BY <1>1, NoJobAssumption DEF InWorker
<1>4. \A v \in Workers : \A m : InWorker(v, m)' => v # w /\ InWorker(v, m)
  BY <1>1 DEF TypeOK, InWorker
<1>5. \A i, m : (InBatch(i, m)' <=> InBatch(i, m)) /\ (InChannel(i, m)' <=> InChannel(i, m))
  BY <1>1 DEF InBatch, InChannel
<1>6. HeldOnce'
  BY <1>1, <1>4, <1>5 DEF HandInv, HeldOnce
<1>7. HeldDelivered'
  BY <1>1, <1>2, <1>3, <1>4, <1>5 DEF HandInv, HeldDelivered, HeldOnce
<1> QED BY <1>6, <1>7 DEF HandInv

\* Every step keeps HandInv.
LEMMA HandStep ==
  ASSUME TypeOK, HandInv, [Next]_pullVars
  PROVE  HandInv'
<1>1. CASE \E m \in Messages : Publish(m) \/ AckWaitOver(m)
  BY <1>1, HandServer
<1>2. CASE Check \/ DispatchDone \/ CloseJobs
  BY <1>2, HandKept DEF Check, DispatchDone, CloseJobs, serverVars
<1>3. CASE Fetch
  BY <1>3, HandFetch
<1>4. CASE FetchError
  BY <1>4, HandFetchError
<1>5. CASE Dispatch
  BY <1>5, HandDispatch
<1>6. CASE DispatchStopped
  <2>1. fetched' = <<>> /\ UNCHANGED <<stream, late, jobs, job>>
    BY <1>6 DEF DispatchStopped, serverVars
  <2>2. \A i, m : ~InBatch(i, m)'
    BY <2>1 DEF InBatch
  <2> QED BY <2>1, <2>2 DEF HandInv, HeldDelivered, HeldOnce, InChannel, InWorker
<1>7. CASE \E w \in Workers : RunWorker(w)
  <2> PICK w \in Workers : RunWorker(w)
    BY <1>7
  <2>1. CASE Take(w)
    BY <2>1, HandTake
  <2>2. CASE WorkerStopped(w) \/ HandlerOK(w) \/ HandlerErr(w)
    BY <2>2, HandKept DEF WorkerStopped, HandlerOK, HandlerErr, serverVars
  <2>3. CASE Ack(w) \/ Nak(w) \/ AckLost(w)
    BY <2>3, HandDone
  <2> QED BY <2>1, <2>2, <2>3 DEF RunWorker
<1>8. CASE Stop
  BY <1>8, HandKept DEF Stop, serverVars
<1>9. CASE Restart
  <2>1. fetched' = <<>> /\ jobs' = <<>> /\ job' = [w \in Workers |-> NoJob]
    BY <1>9 DEF Restart, Fresh
  <2>2. /\ \A i, m : ~InBatch(i, m)' /\ ~InChannel(i, m)'
        /\ \A w \in Workers : \A m : ~InWorker(w, m)'
    BY <2>1 DEF InBatch, InChannel, InWorker
  <2> QED BY <2>2 DEF HandInv, HeldDelivered, HeldOnce
<1>10. CASE UNCHANGED pullVars
  BY <1>10, HandKept DEF pullVars, serverVars, runtimeVars
<1> QED BY <1>1, <1>2, <1>3, <1>4, <1>5, <1>6, <1>7, <1>8, <1>9, <1>10 DEF Next, RunFetcher

\* A message gets into the hands of two workers only after its AckWait ended
\* while the process still had it; no other fault and no stop can do it.
THEOREM OneWorker == Spec => []OneWorkerPerMessage
<1>1. Init => HandInv
  <2> SUFFICES ASSUME Init PROVE HandInv
    OBVIOUS
  <2>1. /\ \A i, m : ~InBatch(i, m) /\ ~InChannel(i, m)
        /\ \A w \in Workers : \A m : ~InWorker(w, m)
    BY DEF Init, Fresh, InBatch, InChannel, InWorker
  <2> QED BY <2>1 DEF HandInv, HeldDelivered, HeldOnce
<1>2. TypeOK /\ HandInv /\ [Next]_pullVars => HandInv'
  BY HandStep
<1>3. TypeOK /\ HandInv => OneWorkerPerMessage
  <2> SUFFICES ASSUME TypeOK, HandInv, NEW v \in Workers, NEW w \in Workers,
                      v # w, job[v] # NoJob, job[w] # NoJob, job[v].msg = job[w].msg
               PROVE  job[v].msg \in late
    BY DEF OneWorkerPerMessage
  <2>1. job[v].msg \in Messages
    BY DEF TypeOK, Delivery
  <2> QED BY <2>1 DEF HandInv, HeldOnce, InWorker
<1> QED BY <1>1, <1>2, <1>3, TypeCorrect, PTL DEF Spec

-----------------------------------------------------------------------------
(* The command handler in the workers: PullMail.                             *)

\* The runtime with the handler of mail-service is a PullConsumer, with all
\* that is proved above.
LEMMA PullStep == [MailNext]_vars => [Next]_pullVars
  BY DEF MailNext, vars, Receive, Work, Answer, Refuse, Settle, Around,
         RestartAll, Next, RunWorker

THEOREM MailImplementsPull == MailSpec => Spec
  BY PullStep, PTL DEF MailSpec, MailInit, Spec

\* The results MailHandler can conclude are verdicts.
LEMMA Verdicts ==
  /\ \A d \in Mail!Defect : Mail!Reason[d] \in Mail!Verdict /\ Mail!Reason[d] # "none"
  /\ {"success", "failed to send mail", "internal mail delivery error"} \subseteq Mail!Verdict
  /\ "none" \notin Mail!Verdict
<1>1. \A d \in Mail!Defect : Mail!Reason[d] \in Mail!Verdict
  BY DEF Mail!Verdict, Mail!Failed
<1>2. \A d \in Mail!Defect : Mail!Reason[d] # "none"
  BY DEF Mail!Defect, Mail!Reason
<1>3. /\ {"success", "failed to send mail", "internal mail delivery error"} \subseteq Mail!Verdict
      /\ "none" \notin Mail!Verdict
  BY <1>2 DEF Mail!Verdict, Mail!Failed
<1> QED
  BY <1>1, <1>2, <1>3

\* Every step keeps handler and worker together.
LEMMA HandlerStep ==
  ASSUME TypeOK, HandlerTypeOK, [MailNext]_vars
  PROVE  HandlerTypeOK'
<1> USE DEF HandlerTypeOK, Mail!TypeOK, Mail!Step
<1>1. ASSUME NEW w \in Workers, Receive(w)
      PROVE  HandlerTypeOK'
  <2>1. PICK d \in Delivery : d = Head(jobs) /\ jobs # <<>>
    BY <1>1 DEF Receive, Take, TypeOK
  <2>2. d.msg \in Messages /\ d.msg # NoMessage
    BY MailAssumption DEF Delivery
  <2> QED
    BY <1>1, <2>1, <2>2 DEF Receive, Take, WorkerAt, Mail!Take, TypeOK, Worker
<1>2. ASSUME NEW w \in Workers, Work(w)
      PROVE  HandlerTypeOK'
  <2>1. step[w] # "idle" /\ task[w] \in Messages /\ UNCHANGED pullVars
    BY <1>2, MailAssumption
       DEF Work, Mail!Reject, Mail!Render, Mail!SendOK, Mail!SendRefused,
           Mail!ReplyLost, Mail!BreakerOpen
  <2>2. \/ Mail!Render(w)
        \/ \E v \in Mail!Verdict : Mail!Conclude(w, v)
    BY <1>2, Verdicts
       DEF Work, Mail!Reject, Mail!SendOK, Mail!SendRefused,
           Mail!ReplyLost, Mail!BreakerOpen
  <2>3. mails' \in [Messages -> 0..MaxMails]
    <3>1. mails' = mails \/ Mail!Accept(task[w])
      BY <1>2 DEF Work, Mail!Reject, Mail!Render, Mail!SendOK,
                  Mail!SendRefused, Mail!ReplyLost, Mail!BreakerOpen
    <3>2. mails[task[w]] \in 0..MaxMails /\ MaxMails \in Nat
      BY <2>1, MailAssumption
    <3>3. CASE Mail!Accept(task[w])
      <4>1. mails[task[w]] < MaxMails => mails[task[w]] + 1 \in 0..MaxMails
        BY <3>2
      <4> QED
        BY <3>2, <3>3, <4>1 DEF Mail!Accept
    <3> QED
      BY <3>1, <3>3
  <2>4. CASE Mail!Render(w)
    BY <2>1, <2>3, <2>4 DEF Mail!Render, pullVars, runtimeVars
  <2>5. CASE \E v \in Mail!Verdict : Mail!Conclude(w, v)
    <3>1. PICK v \in Mail!Verdict : Mail!Conclude(w, v)
      BY <2>5
    <3>2. v # "none"
      BY Verdicts
    <3>3. UNCHANGED <<worker, job, task, results>>
      BY <2>1, <3>1 DEF Mail!Conclude, pullVars, runtimeVars
    <3>4. /\ step' = [step EXCEPT ![w] = "publishing"]
          /\ verdict' = [verdict EXCEPT ![w] = v]
      BY <3>1 DEF Mail!Conclude
    <3> QED
      BY <2>1, <2>3, <3>2, <3>3, <3>4
  <2> QED
    BY <2>2, <2>4, <2>5
<1>3. ASSUME NEW w \in Workers, Answer(w) \/ Refuse(w)
      PROVE  HandlerTypeOK'
  <2>1. /\ Mail!Leave(w) /\ mails' = mails
        /\ worker[w] = "handling" /\ job' = job
        /\ \/ worker' = [worker EXCEPT ![w] = "acking"]
           \/ worker' = [worker EXCEPT ![w] = "naking"]
    BY <1>3 DEF Answer, Refuse, Mail!Publish, Mail!DecodeError, Mail!PublishError,
                HandlerOK, HandlerErr, WorkerAt
  <2>2. results' \in [Messages -> SUBSET Mail!Verdict]
    <3>1. \/ UNCHANGED results
          \/ step[w] = "publishing" /\ Mail!PublishResult(w)
      BY <1>3 DEF Answer, Refuse, Mail!Publish, Mail!DecodeError, Mail!PublishError
    <3> QED
      BY <3>1, MailAssumption DEF Mail!PublishResult
  <2> QED
    BY <2>1, <2>2, MailAssumption DEF Mail!Leave, TypeOK
<1>4. ASSUME NEW w \in Workers, Settle(w)
      PROVE  HandlerTypeOK'
  BY <1>4 DEF Settle, Ack, Nak, AckLost, WorkerDone, WorkerStopped, WorkerAt, mailVars, TypeOK
<1>5. CASE Around
  <2>1. UNCHANGED <<worker, job, mailVars>>
    BY <1>5 DEF Around, RunFetcher, Check, Fetch, FetchError, Dispatch, DispatchDone,
                DispatchStopped, CloseJobs, Stop, Publish, AckWaitOver, runtimeVars
  <2> QED
    BY <2>1 DEF mailVars
<1>6. CASE RestartAll
  BY <1>6, Verdicts DEF RestartAll, Restart, Fresh
<1>7. CASE UNCHANGED vars
  BY <1>7 DEF vars, pullVars, runtimeVars, mailVars
<1> QED
  BY <1>1, <1>2, <1>3, <1>4, <1>5, <1>6, <1>7 DEF MailNext

\* The handler is in a worker that waits for it, with the worker's message.
THEOREM HandlerTypeCorrect == MailSpec => []HandlerTypeOK
<1>1. MailInit => HandlerTypeOK
  <2> SUFFICES ASSUME MailInit PROVE HandlerTypeOK
    OBVIOUS
  <2>1. mails \in [Messages -> 0..MaxMails]
    <3>1. 0 \in 0..MaxMails
      BY MailAssumption
    <3> QED
      BY <3>1 DEF MailInit, Mail!Init
  <2>2. worker = [w \in Workers |-> "idle"]
    BY DEF MailInit, Init, Fresh
  <2>3. /\ step = [w \in Workers |-> "idle"] /\ task = [w \in Workers |-> NoMessage]
        /\ verdict = [w \in Workers |-> "none"] /\ results = [e \in Messages |-> {}]
    BY DEF MailInit, Mail!Init
  <2> QED
    BY <2>1, <2>2, <2>3 DEF HandlerTypeOK, Mail!TypeOK, Mail!Step
<1> QED
  BY <1>1, HandlerStep, MailImplementsPull, TypeCorrect, PTL DEF MailSpec

\* A message the handler accepted has a result.
HandledAnswered == \A m \in handled : results[m] # {}

\* It holds in every state.
LEMMA HandledInvariant == MailSpec => []HandledAnswered
<1>1. MailInit => HandledAnswered
  BY DEF MailInit, Init, HandledAnswered
<1>2. TypeOK /\ HandlerTypeOK /\ HandledAnswered /\ [MailNext]_vars => HandledAnswered'
  <2> SUFFICES ASSUME TypeOK, HandlerTypeOK, HandledAnswered, [MailNext]_vars
               PROVE  HandledAnswered'
    OBVIOUS
  <2> USE DEF HandledAnswered
  <2>1. ASSUME NEW w \in Workers, Answer(w)
        PROVE  HandledAnswered'
    <3>1. step[w] = "publishing" /\ task[w] = job[w].msg /\ task[w] \in Messages
      BY <2>1, MailAssumption DEF Answer, Mail!Publish, HandlerTypeOK, Mail!TypeOK
    <3>2. /\ handled' = handled \cup {task[w]}
          /\ results' = [results EXCEPT ![task[w]] = @ \cup {verdict[w]}]
      BY <2>1, <3>1 DEF Answer, Mail!Publish, Mail!PublishResult, HandlerOK
    <3>3. results \in [Messages -> SUBSET Mail!Verdict] /\ handled \subseteq Messages
      BY DEF TypeOK, HandlerTypeOK, Mail!TypeOK
    <3>4. ASSUME NEW m \in handled'
          PROVE  results'[m] # {}
      <4>1. CASE m = task[w]
        BY <3>1, <3>2, <3>3, <4>1
      <4>2. CASE m # task[w]
        BY <3>1, <3>2, <3>3, <4>2
      <4> QED
        BY <4>1, <4>2
    <3> QED
      BY <3>4
  <2>2. ASSUME NEW w \in Workers, Refuse(w)
        PROVE  HandledAnswered'
    <3>1. handled' = handled
      BY <2>2 DEF Refuse, HandlerErr
    <3>2. \A m \in Messages : results[m] \subseteq results'[m]
      BY <2>2 DEF Refuse, Mail!DecodeError, Mail!PublishError, Mail!PublishResult,
                  HandlerTypeOK, Mail!TypeOK
    <3> QED
      BY <3>1, <3>2 DEF TypeOK
  <2>3. ASSUME NEW w \in Workers, Receive(w) \/ Work(w) \/ Settle(w)
        PROVE  HandledAnswered'
    <3>1. UNCHANGED <<handled, results>>
      BY <2>3 DEF Receive, Take, Mail!Take, Work, Mail!Reject, Mail!Render,
                  Mail!SendOK, Mail!SendRefused, Mail!ReplyLost, Mail!BreakerOpen,
                  Mail!Conclude, pullVars, Settle, Ack, Nak, AckLost, WorkerDone,
                  WorkerStopped, mailVars
    <3> QED
      BY <3>1
  <2>4. CASE Around \/ RestartAll
    <3>1. UNCHANGED <<handled, results>>
      BY <2>4 DEF Around, RunFetcher, Check, Fetch, FetchError, Dispatch, DispatchDone,
                  DispatchStopped, CloseJobs, Stop, Publish, AckWaitOver, mailVars,
                  RestartAll, Restart
    <3> QED
      BY <3>1
  <2>5. CASE UNCHANGED vars
    BY <2>5 DEF vars, pullVars, mailVars
  <2> QED
    BY <2>1, <2>2, <2>3, <2>4, <2>5 DEF MailNext
<1> QED
  BY <1>1, <1>2, MailImplementsPull, TypeCorrect, HandlerTypeCorrect, PTL DEF MailSpec

\* What JetStream was told to drop has a result.
THEOREM AckedAnswered == MailSpec => []AckedIsAnswered
<1>1. AckedWasHandled /\ HandledAnswered => AckedIsAnswered
  BY DEF AckedWasHandled, HandledAnswered, AckedIsAnswered
<1> QED
  BY <1>1, MailImplementsPull, AckedHandled, HandledInvariant, PTL

-----------------------------------------------------------------------------
(* Mails and deliveries.                                                     *)

\* What the workers have was taken from the channel, each by one of them.
JobInv ==
  /\ \A w \in Workers : job[w] # NoJob => job[w] \in started
  /\ \A v, w \in Workers : v # w /\ job[v] # NoJob => job[v] # job[w]

LEMMA JobStep ==
  ASSUME TypeOK, WaitingInv, JobInv, [Next]_pullVars
  PROVE  JobInv'
<1> USE DEF JobInv
<1>1. ASSUME NEW w \in Workers, Take(w)
      PROVE  JobInv'
  <2>1. /\ Len(jobs) \in Nat \ {0}
        /\ job' = [job EXCEPT ![w] = jobs[1]]
        /\ started' = started \cup {jobs[1]}
    BY <1>1 DEF Take, TypeOK
  <2>2. jobs[1] \notin started
    BY <2>1 DEF WaitingInv
  <2> QED
    BY <2>1, <2>2 DEF TypeOK
<1>2. ASSUME NEW w \in Workers, Ack(w) \/ Nak(w) \/ AckLost(w)
      PROVE  JobInv'
  BY <1>2 DEF Ack, Nak, AckLost, WorkerDone, TypeOK
<1>3. CASE Restart
  BY <1>3 DEF Restart, Fresh
<1>4. CASE \/ \E m \in Messages : Publish(m) \/ AckWaitOver(m)
           \/ RunFetcher \/ Stop \/ UNCHANGED pullVars
           \/ \E w \in Workers : WorkerStopped(w) \/ HandlerOK(w) \/ HandlerErr(w)
  BY <1>4 DEF Publish, AckWaitOver, RunFetcher, Check, Fetch, FetchError, Dispatch,
              DispatchDone, DispatchStopped, CloseJobs, Stop, WorkerStopped, HandlerOK,
              HandlerErr, pullVars, runtimeVars
<1> QED
  BY <1>1, <1>2, <1>3, <1>4 DEF Next, RunWorker

\* The deliveries of m that may have caused a mail: the handler was called with
\* them and, if it still runs, is past the sender.
Before == {"decoding", "sending"}
Past(m) ==
  {k \in 1..MaxDeliver :
     LET d == [msg |-> m, count |-> k]
     IN  d \in started /\ \A w \in Workers : job[w] = d => step[w] \notin Before}

MailsPast == \A m \in Messages : mails[m] <= Cardinality(Past(m))

LEMMA PastFinite ==
  ASSUME NEW m \in Messages
  PROVE  IsFiniteSet(Past(m)) /\ Cardinality(Past(m)) \in Nat
<1>1. IsFiniteSet(1..MaxDeliver)
  BY PullAssumption, FS_Interval
<1>2. Past(m) \in SUBSET (1..MaxDeliver)
  BY DEF Past
<1> QED
  BY <1>1, <1>2, FS_Subset, FS_CardinalityType

LEMMA PastFinitePrimed ==
  ASSUME NEW m \in Messages
  PROVE  IsFiniteSet(Past(m)') /\ Cardinality(Past(m)') \in Nat
<1>1. IsFiniteSet(1..MaxDeliver)
  BY PullAssumption, FS_Interval
<1>2. Past(m)' \in SUBSET (1..MaxDeliver)
  BY DEF Past
<1> QED
  BY <1>1, <1>2, FS_Subset, FS_CardinalityType

\* A step that sends no mail and brings no delivery back before the sender.
LEMMA MailsKept ==
  ASSUME Mail!TypeOK, MailsPast, mails' = mails, started \subseteq started',
         \A w \in Workers : job'[w] \in started /\ step'[w] \in Before =>
           job'[w] = job[w] /\ step[w] \in Before
  PROVE  MailsPast'
<1> SUFFICES ASSUME NEW m \in Messages
             PROVE  mails'[m] <= Cardinality(Past(m)')
  BY DEF MailsPast
<1>1. Past(m) \in SUBSET (Past(m)')
  BY DEF Past
<1>2. Cardinality(Past(m)) <= Cardinality(Past(m)')
  BY <1>1, PastFinitePrimed, FS_Subset
<1>3. mails[m] \in Nat /\ mails[m] <= Cardinality(Past(m))
  BY MailAssumption DEF MailsPast, Mail!TypeOK
<1> QED
  BY <1>2, <1>3, PastFinite, PastFinitePrimed

\* A mail is sent for a delivery that had caused none.
LEMMA MailSent ==
  ASSUME TypeOK, HandlerTypeOK, JobInv, MailsPast, NEW w \in Workers,
         step[w] = "sending", Mail!Accept(task[w]),
         step' = [step EXCEPT ![w] = "publishing"], UNCHANGED <<job, started>>
  PROVE  MailsPast'
<1> SUFFICES ASSUME NEW m \in Messages
             PROVE  mails'[m] <= Cardinality(Past(m)')
  BY DEF MailsPast
<1>1. /\ job[w] \in Delivery /\ job[w] # NoJob /\ job[w] \in started
      /\ task[w] = job[w].msg /\ job[w].msg \in Messages /\ job[w].count \in 1..MaxDeliver
      /\ job[w] = [msg |-> job[w].msg, count |-> job[w].count]
  BY DEF TypeOK, HandlerTypeOK, JobInv, Delivery
<1>2. /\ mails \in [Messages -> 0..MaxMails] /\ step \in [Workers -> Mail!Step]
      /\ mails[m] \in Nat /\ mails[m] <= Cardinality(Past(m))
  BY MailAssumption DEF MailsPast, HandlerTypeOK, Mail!TypeOK
<1>3. Past(m) \in SUBSET (Past(m)')
  BY <1>2 DEF Past, Before
<1>4. Cardinality(Past(m)) <= Cardinality(Past(m)')
  BY <1>3, PastFinitePrimed, FS_Subset
<1>5. CASE m = task[w]
  <2> DEFINE k == job[w].count
  <2>1. k \notin Past(m)
    BY <1>1, <1>5 DEF Past, Before
  <2>2. k \in Past(m)'
    BY <1>1, <1>2, <1>5 DEF Past, Before, JobInv
  <2>3. Past(m) \cup {k} \in SUBSET (Past(m)')
    BY <1>3, <2>2
  <2>4. Cardinality(Past(m) \cup {k}) = Cardinality(Past(m)) + 1
    BY <2>1, PastFinite, FS_AddElement
  <2>5. Cardinality(Past(m) \cup {k}) <= Cardinality(Past(m)')
    BY <2>3, PastFinitePrimed, FS_Subset
  <2>6. mails'[m] <= mails[m] + 1 /\ mails'[m] \in Nat
    BY <1>2, <1>5, MailAssumption DEF Mail!Accept
  <2> QED
    BY <1>2, <2>4, <2>5, <2>6, PastFinite, PastFinitePrimed
<1>6. CASE m # task[w]
  <2>1. mails'[m] = mails[m]
    BY <1>2, <1>6 DEF Mail!Accept
  <2> QED
    BY <1>2, <1>4, <2>1, PastFinite, PastFinitePrimed
<1> QED
  BY <1>5, <1>6

LEMMA MailsStep ==
  ASSUME TypeOK, WaitingInv, HandlerTypeOK, JobInv, MailsPast, [MailNext]_vars
  PROVE  MailsPast'
<1>0. Mail!TypeOK
  BY DEF HandlerTypeOK
<1>1. ASSUME NEW w \in Workers, Receive(w)
      PROVE  MailsPast'
  <2>1. /\ Len(jobs) \in Nat \ {0} /\ mails' = mails
        /\ job' = [job EXCEPT ![w] = jobs[1]]
        /\ started' = started \cup {jobs[1]}
        /\ step' = [step EXCEPT ![w] = "decoding"]
    BY <1>1 DEF Receive, Take, Mail!Take, TypeOK
  <2>2. jobs[1] \notin started
    BY <2>1 DEF WaitingInv
  <2>3. job \in [Workers -> Delivery \cup {NoJob}] /\ step \in [Workers -> Mail!Step]
    BY <1>0 DEF TypeOK, Mail!TypeOK
  <2>4. \A v \in Workers : job'[v] \in started /\ step'[v] \in Before =>
          job'[v] = job[v] /\ step[v] \in Before
    BY <2>1, <2>2, <2>3
  <2> QED
    BY <1>0, <2>1, <2>4, MailsKept
<1>2. ASSUME NEW w \in Workers, Work(w)
      PROVE  MailsPast'
  <2>1. UNCHANGED <<job, started>>
    BY <1>2 DEF Work, pullVars, runtimeVars
  <2>2. step \in [Workers -> Mail!Step]
    BY <1>0 DEF Mail!TypeOK
  <2>3. CASE Mail!SendOK(w) \/ Mail!ReplyLost(w)
    <3>1. /\ step[w] = "sending" /\ Mail!Accept(task[w])
          /\ step' = [step EXCEPT ![w] = "publishing"]
      BY <2>3 DEF Mail!SendOK, Mail!ReplyLost, Mail!Conclude
    <3> QED
      BY <2>1, <3>1, MailSent
  <2>4. CASE Mail!Reject(w) \/ Mail!Render(w) \/ Mail!SendRefused(w) \/ Mail!BreakerOpen(w)
    <3>1. /\ step[w] \in Before /\ mails' = mails
          /\ step' \in {[step EXCEPT ![w] = "sending"], [step EXCEPT ![w] = "publishing"]}
      BY <2>4 DEF Mail!Reject, Mail!Render, Mail!SendRefused, Mail!BreakerOpen,
                  Mail!Conclude, Before
    <3>2. \A v \in Workers : step'[v] \in Before => step[v] \in Before
      BY <2>2, <3>1
    <3> QED
      BY <1>0, <2>1, <3>1, <3>2, MailsKept
  <2> QED
    BY <1>2, <2>3, <2>4 DEF Work
<1>3. ASSUME NEW w \in Workers, Answer(w) \/ Refuse(w)
      PROVE  MailsPast'
  <2>1. UNCHANGED <<job, started, mails>> /\ step' = [step EXCEPT ![w] = "idle"]
    BY <1>3 DEF Answer, Refuse, Mail!Publish, Mail!DecodeError, Mail!PublishError,
                Mail!Leave, HandlerOK, HandlerErr
  <2>2. step \in [Workers -> Mail!Step]
    BY <1>0 DEF Mail!TypeOK
  <2>3. \A v \in Workers : step'[v] \in Before => step[v] \in Before
    BY <2>1, <2>2 DEF Before
  <2> QED
    BY <1>0, <2>1, <2>3, MailsKept
<1>4. ASSUME NEW w \in Workers, Settle(w)
      PROVE  MailsPast'
  <2>1. /\ UNCHANGED <<started, mails, step>>
        /\ job' = job \/ (worker[w] # "handling" /\ job' = [job EXCEPT ![w] = NoJob])
    BY <1>4 DEF Settle, Ack, Nak, AckLost, WorkerDone, WorkerStopped, WorkerAt, mailVars
  <2>2. \A v \in Workers : step'[v] \in Before => job'[v] = job[v] /\ step[v] \in Before
    BY <2>1 DEF HandlerTypeOK, TypeOK, Before
  <2> QED
    BY <1>0, <2>1, <2>2, MailsKept
<1>5. CASE Around
  <2>1. UNCHANGED <<job, started, mails, step>>
    BY <1>5 DEF Around, RunFetcher, Check, Fetch, FetchError, Dispatch, DispatchDone,
                DispatchStopped, CloseJobs, Stop, Publish, AckWaitOver, runtimeVars, mailVars
  <2> QED
    BY <1>0, <2>1, MailsKept
<1>6. CASE RestartAll
  <2>1. /\ UNCHANGED <<started, mails>>
        /\ \A v \in Workers : step'[v] \notin Before
    BY <1>6 DEF RestartAll, Restart, Before
  <2> QED
    BY <1>0, <2>1, MailsKept
<1>7. CASE UNCHANGED vars
  <2>1. UNCHANGED <<job, started, mails, step>>
    BY <1>7 DEF vars, pullVars, runtimeVars, mailVars
  <2> QED
    BY <1>0, <2>1, MailsKept
<1> QED
  BY <1>1, <1>2, <1>3, <1>4, <1>5, <1>6, <1>7 DEF MailNext

\* There are n numbers from 1 to n.
LEMMA UpTo ==
  ASSUME NEW n \in Nat
  PROVE  IsFiniteSet(1..n) /\ Cardinality(1..n) = n
<1>1. IsFiniteSet(1..n) /\ Cardinality(1..n) = IF 1 > n THEN 0 ELSE n - 1 + 1
  BY FS_Interval
<1>2. CASE n = 0
  BY <1>1, <1>2
<1>3. CASE n # 0
  <2>1. ~(1 > n) /\ n - 1 + 1 = n
    BY <1>3
  <2> QED
    BY <1>1, <2>1
<1> QED
  BY <1>2, <1>3

\* However workers, stops, restarts and late deliveries meet: a command causes
\* at most one mail per delivery, and so at most MaxDeliver of them.
THEOREM MailsBounded == MailSpec => []MailsWithinDeliveries
<1>1. MailInit => WaitingInv /\ JobInv
  BY DEF MailInit, Init, Fresh, WaitingInv, JobInv
<1>2. MailInit => MailsPast
  BY PastFinite DEF MailInit, Mail!Init, MailsPast
<1>3. TypeOK /\ WaitingInv /\ JobInv /\ [Next]_pullVars => WaitingInv' /\ JobInv'
  BY WaitingStep, JobStep
<1>4. TypeOK /\ WaitingInv /\ HandlerTypeOK /\ JobInv /\ MailsPast /\ [MailNext]_vars
        => MailsPast'
  BY MailsStep
<1>5. TypeOK /\ WaitingInv /\ HandlerTypeOK /\ MailsPast => MailsWithinDeliveries
  <2> SUFFICES ASSUME TypeOK, WaitingInv, HandlerTypeOK, MailsPast, NEW m \in Messages
               PROVE  mails[m] <= deliveries[m]
    BY DEF MailsWithinDeliveries
  <2>1. deliveries[m] \in Nat /\ mails[m] \in Nat
    BY MailAssumption, PullAssumption DEF TypeOK, HandlerTypeOK, Mail!TypeOK
  <2>2. Past(m) \in SUBSET (1..deliveries[m])
    BY <2>1 DEF Past, WaitingInv, Made
  <2>3. IsFiniteSet(1..deliveries[m]) /\ Cardinality(1..deliveries[m]) = deliveries[m]
    BY <2>1, UpTo
  <2>4. Cardinality(Past(m)) <= deliveries[m]
    BY <2>2, <2>3, FS_Subset
  <2> QED
    BY <2>1, <2>4, PastFinite DEF MailsPast
<1> QED
  BY <1>1, <1>2, <1>3, <1>4, <1>5, PullStep, MailImplementsPull, TypeCorrect,
     HandlerTypeCorrect, PTL DEF MailSpec

-----------------------------------------------------------------------------
(* Answers.                                                                  *)

MailFacts == INSTANCE MailHandlerProofs WITH Events <- Messages, NoEvent <- NoMessage

\* PullMail assumes what MailHandler assumes of its constants.
LEMMA MailAssumptions == MailFacts!KindAssumption
BY MailAssumption DEF MailFacts!KindAssumption, MailFacts!Defect, Mail!Defect

\* MailFacts holds the definitions of MailHandler once more, which say the same.
LEMMA MailTwice ==
  ASSUME [Mail!Next]_(Mail!mailVars)
  PROVE  [MailFacts!Next]_(MailFacts!mailVars)
  BY DEF Mail!Take, MailFacts!Take, Mail!Leave, MailFacts!Leave,
         Mail!DecodeError, MailFacts!DecodeError,
         Mail!Conclude, MailFacts!Conclude, Mail!Reject, MailFacts!Reject,
         Mail!Reason, MailFacts!Reason, Mail!Defect, MailFacts!Defect,
         Mail!Render, MailFacts!Render, Mail!Accept, MailFacts!Accept,
         Mail!SendOK, MailFacts!SendOK, Mail!SendRefused, MailFacts!SendRefused,
         Mail!ReplyLost, MailFacts!ReplyLost,
         Mail!BreakerOpen, MailFacts!BreakerOpen,
         Mail!PublishResult, MailFacts!PublishResult,
         Mail!Publish, MailFacts!Publish,
         Mail!PublishError, MailFacts!PublishError, Mail!Exit, MailFacts!Exit,
         Mail!Next, MailFacts!Next, Mail!mailVars, MailFacts!mailVars

\* Only a restart does to the handlers what MailHandler does not know: it ends
\* all of them in one step.
LEMMA HandlersMove ==
  ASSUME TypeOK, [MailNext]_vars, ~ RestartAll
  PROVE  [Mail!Next]_(Mail!mailVars)
<1>1. ASSUME NEW w \in Workers, Receive(w)
      PROVE  Mail!Next
  <2>1. Head(jobs) \in Delivery
    BY <1>1 DEF Receive, Take, TypeOK
  <2>2. Head(jobs).msg \in Messages
    BY <2>1 DEF Delivery
  <2> QED
    BY <1>1, <2>2 DEF Receive, Mail!Next
<1>2. ASSUME NEW w \in Workers, Work(w) \/ Answer(w) \/ Refuse(w)
      PROVE  Mail!Next
  BY <1>2 DEF Work, Answer, Refuse, Mail!Next
<1>3. ASSUME \/ Around \/ UNCHANGED vars
             \/ \E w \in Workers : Settle(w)
      PROVE  UNCHANGED Mail!mailVars
  BY <1>3 DEF Around, Settle, vars, mailVars, Mail!mailVars
<1> QED
  BY <1>1, <1>2, <1>3 DEF MailNext

\* What MailHandlerProofs proves of the handler alone holds in the workers, also
\* when their process ends.
VerdictInv == MailFacts!MailInv /\ MailFacts!HonestInv

LEMMA VerdictStep ==
  ASSUME TypeOK, VerdictInv, [MailNext]_vars
  PROVE  VerdictInv'
<1>1. CASE RestartAll
  <2>1. /\ step' = [w \in Workers |-> "idle"] /\ task' = [w \in Workers |-> NoMessage]
        /\ verdict' = [w \in Workers |-> "none"] /\ UNCHANGED <<mails, results>>
    BY <1>1 DEF RestartAll
  <2>2. MailFacts!TypeOK'
    BY <2>1 DEF VerdictInv, MailFacts!MailInv, MailFacts!TypeOK, MailFacts!Step
  <2>3. MailFacts!VerdictHolds' /\ MailFacts!HonestInv'
    BY <2>1 DEF MailFacts!VerdictHolds, MailFacts!HonestInv
  <2>4. MailFacts!SuccessMeansMailed' /\ MailFacts!DefectIsReported'
    BY <2>1 DEF VerdictInv, MailFacts!MailInv, MailFacts!SuccessMeansMailed,
                MailFacts!DefectIsReported
  <2> QED
    BY <2>2, <2>3, <2>4 DEF VerdictInv, MailFacts!MailInv
<1>2. CASE ~ RestartAll
  <2>1. [MailFacts!Next]_(MailFacts!mailVars)
    BY <1>2, HandlersMove, MailTwice
  <2> QED
    BY <2>1, MailAssumptions, MailFacts!MailStep, MailFacts!HonestStep DEF VerdictInv
<1> QED
  BY <1>1, <1>2

LEMMA VerdictInvariant == MailSpec => []VerdictInv
<1>1. MailInit => VerdictInv
  <2> SUFFICES ASSUME MailInit
               PROVE  VerdictInv
    OBVIOUS
  <2>1. mails \in [Messages -> 0..MaxMails]
    <3>1. 0 \in 0..MaxMails
      BY MailAssumption
    <3> QED
      BY <3>1 DEF MailInit, Mail!Init
  <2>2. /\ step = [w \in Workers |-> "idle"] /\ task = [w \in Workers |-> NoMessage]
        /\ verdict = [w \in Workers |-> "none"] /\ results = [e \in Messages |-> {}]
        /\ mails = [e \in Messages |-> 0]
    BY DEF MailInit, Mail!Init
  <2>3. MailFacts!TypeOK
    BY <2>1, <2>2 DEF MailFacts!TypeOK, MailFacts!Step
  <2> QED
    BY <2>2, <2>3 DEF VerdictInv, MailFacts!MailInv, MailFacts!VerdictHolds,
       MailFacts!SuccessMeansMailed, MailFacts!DefectIsReported, MailFacts!HonestInv
<1> QED
  BY <1>1, VerdictStep, MailImplementsPull, TypeCorrect, PTL DEF MailSpec

\* What was delivered was sent.
SentInv == \A m \in Messages : stream[m] = "absent" => deliveries[m] = 0

LEMMA SentStep ==
  ASSUME TypeOK, SentInv, [Next]_pullVars
  PROVE  SentInv'
<1> USE DEF SentInv, TypeOK
<1>1. ASSUME NEW S \in SUBSET Deliverable, Deliver(S)
      PROVE  SentInv'
  BY <1>1 DEF Deliver, Deliverable
<1>2. CASE Fetch \/ FetchError
  <2>1. CASE UNCHANGED serverVars
    BY <2>1 DEF serverVars
  <2>2. CASE Fetch
    <3>1. PICK n \in 1..MaxBatch :
            \E q \in [1..n -> Deliverable] : Deliver({q[i] : i \in 1..n})
      BY <2>2 DEF Fetch
    <3>2. PICK q \in [1..n -> Deliverable] : Deliver({q[i] : i \in 1..n})
      BY <3>1
    <3>3. {q[i] : i \in 1..n} \in SUBSET Deliverable
      BY <3>2
    <3> QED
      BY <1>1, <3>2, <3>3
  <2> QED
    BY <1>1, <1>2, <2>1, <2>2 DEF FetchError
<1>3. CASE Check \/ Dispatch \/ DispatchDone \/ DispatchStopped \/ CloseJobs
  BY <1>3 DEF Check, Dispatch, DispatchDone, DispatchStopped, CloseJobs, serverVars
<1>4. ASSUME NEW m \in Messages, Publish(m) \/ AckWaitOver(m)
      PROVE  SentInv'
  BY <1>4 DEF Publish, AckWaitOver
<1>5. ASSUME NEW w \in Workers, RunWorker(w)
      PROVE  SentInv'
  <2>1. CASE Take(w) \/ WorkerStopped(w) \/ HandlerOK(w) \/ HandlerErr(w)
    BY <2>1 DEF Take, WorkerStopped, HandlerOK, HandlerErr, serverVars
  <2>2. CASE Ack(w) \/ Nak(w) \/ AckLost(w)
    BY <2>2 DEF Ack, Nak, AckLost, WorkerDone
  <2> QED
    BY <1>5, <2>1, <2>2 DEF RunWorker
<1>6. CASE Stop \/ Restart \/ UNCHANGED pullVars
  BY <1>6 DEF Stop, Restart, pullVars, serverVars
<1> QED
  BY <1>2, <1>3, <1>4, <1>5, <1>6 DEF Next, RunFetcher

\* What a worker has was sent.
LEMMA TaskSent ==
  ASSUME TypeOK, WaitingInv, HandlerTypeOK, JobInv, SentInv, NEW w \in Workers, step[w] # "idle"
  PROVE  task[w] \in Messages /\ task[w] = job[w].msg /\ stream[task[w]] # "absent"
<1>1. task[w] \in Messages /\ task[w] = job[w].msg /\ worker[w] = "handling"
  BY MailAssumption DEF HandlerTypeOK, Mail!TypeOK
<1>2. job[w] # NoJob /\ job[w] \in Delivery /\ job[w] \in started
  BY <1>1 DEF TypeOK, JobInv
<1>3. job[w].count \in 1..MaxDeliver /\ job[w].count <= deliveries[job[w].msg]
  BY <1>2 DEF WaitingInv, Made, Delivery
<1>4. deliveries[task[w]] # 0
  BY <1>1, <1>3, PullAssumption
<1> QED
  BY <1>1, <1>4 DEF SentInv

\* The step of MailOutcomes that a step of runtime and handler is.
LEMMA NatsOutcomesStep ==
  ASSUME TypeOK, WaitingInv, JobInv, SentInv, AckInv, HandledAnswered, HandlerTypeOK,
         VerdictInv, [MailNext]_vars
  PROVE  [Promise!Next]_(Promise!vars)
<1> DEFINE sentNow == {m \in Messages : stream[m] # "absent"}
           acked == {m \in Messages : stream[m] = "acked"}
<1>1. ASSUME sentNow' = sentNow, acked' = acked, UNCHANGED <<mails, results>>
      PROVE  UNCHANGED Promise!vars
  BY <1>1 DEF Promise!vars
<1>2. ASSUME UNCHANGED <<stream, mails, results>>
      PROVE  UNCHANGED Promise!vars
  BY <1>1, <1>2
<1>3. ASSUME NEW w \in Workers, Receive(w)
      PROVE  UNCHANGED Promise!vars
  <2>1. UNCHANGED <<stream, mails, results>>
    BY <1>3 DEF Receive, Take, serverVars, Mail!Take
  <2> QED
    BY <1>2, <2>1
<1>4. ASSUME NEW w \in Workers, Work(w)
      PROVE  [Promise!Next]_(Promise!vars)
  <2>1. UNCHANGED <<stream, results>> /\ step[w] # "idle"
    BY <1>4 DEF Work, pullVars, serverVars, Mail!Reject, Mail!Render, Mail!SendOK,
                Mail!SendRefused, Mail!ReplyLost, Mail!BreakerOpen, Mail!Conclude
  <2>2. mails' = mails \/ (Mail!Accept(task[w]) /\ step[w] = "sending")
    BY <1>4 DEF Work, Mail!Reject, Mail!Render, Mail!SendOK, Mail!SendRefused,
                Mail!ReplyLost, Mail!BreakerOpen
  <2>3. CASE mails' = mails
    BY <1>2, <2>1, <2>3
  <2>4. CASE mails' # mails
    <3>1. PICK m \in Messages : m = task[w] /\ m \in sentNow
      BY <2>1, TaskSent
    <3>2. Kind[m] = "deliverable"
      BY <2>2, <2>4, <3>1 DEF VerdictInv, MailFacts!HonestInv
    <3>3. mails' = [mails EXCEPT ![m] = IF mails[m] < MaxMails THEN mails[m] + 1 ELSE mails[m]]
      BY <2>2, <2>4, <3>1 DEF Mail!Accept
    <3>4. mails' = [mails EXCEPT ![m] = mails[m] + 1]
      BY <2>4, <3>3 DEF HandlerTypeOK, Mail!TypeOK
    <3>5. sentNow' = sentNow /\ acked' = acked
      BY <2>1
    <3>6. Promise!Mail(m)
      BY <2>1, <3>1, <3>2, <3>4, <3>5 DEF Promise!Mail, Promise!Rejected, Mail!Defect
    <3> QED
      BY <3>6 DEF Promise!Next
  <2> QED
    BY <2>3, <2>4
<1>5. ASSUME NEW w \in Workers, Answer(w) \/ Refuse(w)
      PROVE  [Promise!Next]_(Promise!vars)
  <2>1. /\ UNCHANGED <<stream, mails>>
        /\ UNCHANGED results \/ (Mail!PublishResult(w) /\ step[w] = "publishing")
    BY <1>5 DEF Answer, Refuse, Mail!Publish, Mail!DecodeError, Mail!PublishError,
                HandlerOK, HandlerErr, serverVars
  <2>2. CASE UNCHANGED results
    BY <1>2, <2>1, <2>2
  <2>3. CASE Mail!PublishResult(w) /\ step[w] = "publishing"
    <3>1. PICK m \in Messages : m = task[w] /\ m \in sentNow
      BY <2>3, TaskSent
    <3>2. Kind[m] # "undecodable" /\ verdict[w] \in MailFacts!Answers(m)
      BY <2>3, <3>1 DEF VerdictInv, MailFacts!HonestInv
    <3>3. verdict[w] \in Promise!Truth(m)
      <4>1. CASE Kind[m] \in Mail!Defect
        BY <3>2, <4>1 DEF MailFacts!Answers, MailFacts!Defect, Mail!Defect,
                          MailFacts!Reason, Mail!Reason, Promise!Truth, Promise!Rejected
      <4>2. CASE Kind[m] \notin Mail!Defect
        BY <3>2, <4>2 DEF MailFacts!Answers, MailFacts!Defect, Mail!Defect,
                          Promise!Truth, Promise!Rejected
      <4> QED
        BY <4>1, <4>2
    <3>4. results' = [results EXCEPT ![m] = results[m] \cup {verdict[w]}]
      BY <2>3, <3>1 DEF Mail!PublishResult
    <3>5. sentNow' = sentNow /\ acked' = acked
      BY <2>1
    <3>6. Promise!Answer(m)
      BY <2>1, <3>1, <3>2, <3>3, <3>4, <3>5 DEF Promise!Answer
    <3> QED
      BY <3>6 DEF Promise!Next
  <2> QED
    BY <2>1, <2>2, <2>3
<1>6. ASSUME NEW w \in Workers, Settle(w)
      PROVE  [Promise!Next]_(Promise!vars)
  <2>1. UNCHANGED <<mails, results>>
    BY <1>6 DEF Settle, mailVars
  <2>2. ASSUME NEW here \in {"acking", "naking"}, WorkerDone(w, here)
        PROVE  worker[w] = here /\ job[w].msg \in Messages /\ job[w] \in started
    <3>1. worker[w] = here /\ job[w] # NoJob /\ job[w] \in Delivery
      BY <2>2 DEF WorkerDone, WorkerAt, TypeOK
    <3> QED
      BY <3>1 DEF Delivery, JobInv
  <2>3. CASE Ack(w)
    <3>1. PICK m \in Messages : m = job[w].msg
      BY <2>2, <2>3 DEF Ack
    <3>2. m \in handled /\ results[m] # {}
      BY <2>2, <2>3, <3>1 DEF Ack, AckInv, HandledAnswered
    <3>3. stream' = [stream EXCEPT ![m] = "acked"]
      BY <2>3, <3>1 DEF Ack
    <3>4. acked' = acked \cup {m}
      BY <3>3 DEF TypeOK
    <3>5. deliveries[m] # 0
      <4>1. job[w] \in Delivery /\ job[w] \in started
        BY <2>2, <2>3 DEF Ack, TypeOK
      <4>2. job[w].count \in 1..MaxDeliver /\ job[w].count <= deliveries[job[w].msg]
        BY <4>1 DEF WaitingInv, Made, Delivery
      <4> QED
        BY <3>1, <4>2, PullAssumption
    <3>6. sentNow' = sentNow
      BY <3>3, <3>5 DEF SentInv, TypeOK
    <3>7. Promise!Settle(m)
      BY <2>1, <3>2, <3>4, <3>6 DEF Promise!Settle
    <3> QED
      BY <3>7 DEF Promise!Next
  <2>4. CASE Nak(w)
    <3>1. PICK m \in Messages : m = job[w].msg
      BY <2>2, <2>4 DEF Nak
    <3>2. stream' = [stream EXCEPT ![m] = IF stream[m] = "delivered" THEN "pending" ELSE stream[m]]
      BY <2>4, <3>1 DEF Nak
    <3>3. sentNow' = sentNow /\ acked' = acked
      BY <3>2 DEF TypeOK
    <3> QED
      BY <1>1, <2>1, <3>3
  <2>5. CASE AckLost(w) \/ WorkerStopped(w)
    BY <1>2, <2>1, <2>5 DEF AckLost, WorkerStopped, serverVars
  <2> QED
    BY <1>6, <2>3, <2>4, <2>5 DEF Settle
<1>7. ASSUME NEW S \in SUBSET Deliverable, Deliver(S), UNCHANGED <<mails, results>>
      PROVE  UNCHANGED Promise!vars
  <2>1. stream' = [m \in Messages |-> IF m \in S THEN "delivered" ELSE stream[m]]
    BY <1>7 DEF Deliver
  <2>2. \A m \in S : stream[m] = "pending"
    BY DEF Deliverable
  <2>3. sentNow' = sentNow /\ acked' = acked
    BY <2>1, <2>2
  <2> QED
    BY <1>1, <1>7, <2>3
<1>8. CASE Around
  <2>1. UNCHANGED <<mails, results>>
    BY <1>8 DEF Around, mailVars
  <2>2. CASE Fetch
    <3>1. PICK n \in 1..MaxBatch :
            \E q \in [1..n -> Deliverable] : Deliver({q[i] : i \in 1..n})
      BY <2>2 DEF Fetch
    <3>2. PICK q \in [1..n -> Deliverable] : Deliver({q[i] : i \in 1..n})
      BY <3>1
    <3>3. {q[i] : i \in 1..n} \in SUBSET Deliverable
      BY <3>2
    <3> QED
      BY <1>7, <2>1, <3>2, <3>3
  <2>3. CASE FetchError
    BY <1>2, <1>7, <2>1, <2>3 DEF FetchError, serverVars
  <2>4. CASE Check \/ Dispatch \/ DispatchDone \/ DispatchStopped \/ CloseJobs \/ Stop
    BY <1>2, <2>1, <2>4 DEF Check, Dispatch, DispatchDone, DispatchStopped, CloseJobs, Stop,
                            serverVars
  <2>5. ASSUME NEW m \in Messages, Publish(m)
        PROVE  [Promise!Next]_(Promise!vars)
    <3>1. stream[m] = "absent" /\ stream' = [stream EXCEPT ![m] = "pending"]
      BY <2>5 DEF Publish
    <3>2. sentNow' = sentNow \cup {m} /\ acked' = acked
      BY <3>1 DEF TypeOK
    <3>3. Promise!Send(m)
      BY <2>1, <3>2 DEF Promise!Send
    <3> QED
      BY <3>3 DEF Promise!Next
  <2>6. ASSUME NEW m \in Messages, AckWaitOver(m)
        PROVE  UNCHANGED Promise!vars
    <3>1. stream[m] = "delivered" /\ stream' = [stream EXCEPT ![m] = "pending"]
      BY <2>6 DEF AckWaitOver
    <3>2. sentNow' = sentNow /\ acked' = acked
      BY <3>1 DEF TypeOK
    <3> QED
      BY <1>1, <2>1, <3>2
  <2> QED
    BY <1>8, <2>2, <2>3, <2>4, <2>5, <2>6 DEF Around, RunFetcher
<1>9. CASE RestartAll \/ UNCHANGED vars
  <2>1. UNCHANGED <<stream, mails, results>>
    BY <1>9 DEF RestartAll, Restart, vars, pullVars, serverVars, mailVars
  <2> QED
    BY <1>2, <2>1
<1>10. CASE \E w \in Workers : Receive(w) \/ Work(w) \/ Answer(w) \/ Refuse(w) \/ Settle(w)
  BY <1>3, <1>4, <1>5, <1>6, <1>10
<1> QED
  BY <1>8, <1>9, <1>10 DEF MailNext

\* On NATS too, whatever fails: workers, stops, restarts, lost results, lost
\* acknowledgements and late deliveries in any order keep what MailOutcomes says.
THEOREM ImplementsOutcomes == MailSpec => OutcomesSpec
<1>1. MailInit => /\ Promise!Init /\ WaitingInv /\ JobInv /\ SentInv
  BY DEF MailInit, Init, Fresh, Mail!Init, Promise!Init, WaitingInv, JobInv, SentInv
<1>2. TypeOK /\ WaitingInv /\ JobInv /\ [Next]_pullVars => WaitingInv' /\ JobInv'
  BY WaitingStep, JobStep
<1>3. TypeOK /\ SentInv /\ [Next]_pullVars => SentInv'
  BY SentStep
<1>4. /\ TypeOK /\ WaitingInv /\ JobInv /\ SentInv /\ AckInv /\ HandledAnswered
      /\ HandlerTypeOK /\ VerdictInv /\ [MailNext]_vars
      => [Promise!Next]_(Promise!vars)
  BY NatsOutcomesStep
<1> QED
  BY <1>1, <1>2, <1>3, <1>4, PullStep, MailImplementsPull, TypeCorrect, AckInvariant,
     HandledInvariant, HandlerTypeCorrect, VerdictInvariant, PTL
     DEF MailSpec, OutcomesSpec, Promise!Spec

\* Runtime and handler keep to their types, and to each other, for every number
\* of workers, messages and deliveries.
THEOREM MailTypeCorrect == MailSpec => []MailTypeOK
<1>1. TypeOK /\ HandlerTypeOK => MailTypeOK
  BY DEF MailTypeOK
<1> QED
  BY <1>1, MailImplementsPull, TypeCorrect, HandlerTypeCorrect, PTL

\* A success result stands for a mail and a defect is named and never mailed,
\* with any number of workers at the same command and processes that end.
THEOREM MailAnswersTrue == MailSpec => [](Mail!SuccessMeansMailed /\ Mail!DefectIsReported)
<1>1. VerdictInv => Mail!SuccessMeansMailed /\ Mail!DefectIsReported
  BY DEF VerdictInv, MailFacts!MailInv, MailFacts!SuccessMeansMailed,
         MailFacts!DefectIsReported, Mail!SuccessMeansMailed, Mail!DefectIsReported,
         MailFacts!Defect, Mail!Defect, MailFacts!Reason, Mail!Reason
<1> QED
  BY <1>1, VerdictInvariant, PTL
=============================================================================
