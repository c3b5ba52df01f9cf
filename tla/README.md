# Verification of the OFM mail service

TLA+ models of `ofm-mail-service`, the TLC runs that check them and the TLAPS
proofs about them. Paths such as `kafka/broker.go` are relative to
`internal/presentation/event_broker/`, `fx/` to `internal/fx/`; everything else
is relative to the root of the repository.

Contents: [the system](#1-the-system) · [hard behaviours](#2-what-is-hard-about-it) ·
[modules](#3-modules-and-the-code) · [runs](#4-runs) · [bounds](#5-bounds) ·
[fairness](#6-fairness) · [proofs](#7-proofs) · [disagreements](#8-where-code-and-documentation-disagree) ·
[not modelled](#9-what-is-not-modelled) · [plan](#10-plan)

## 1. The system

The service consumes mail commands from a topic, renders a template, sends the
mail through SMTP and publishes one result per command. In production the
broker is Kafka and Redis keeps one key per event to keep duplicates out. A
NATS JetStream adapter is kept beside it and is not wired (`config/nats.go:7`);
the repository's README still describes the NATS flow.

```
  mail.send topic ──► KafkaConsumer loop ──► claiming wrapper ──► command handler ──► SMTP
        ▲                 │      │              │   ▲                  │
        │            retry│      │dead letter   ▼   │                  ▼
        └── retry queue ◄─┘      └──────►     Redis keys          result topic
```

| component | state it keeps | operations |
|---|---|---|
| Kafka consume loop, `kafka/broker.go` | the reader (member of the consumer group, positions), the record it works on; outside the process: the log, committed offsets, the retry and dead-letter topics | `RunPullConsumer`: fetch, unwrap, handler, commit, enqueue a copy for retry, dead-letter; `Publish`, `Close` |
| construction, reconnect loop and end of a process, `fx/presentation.go`, `fx/messaging.go`, `cmd/mail-service/main.go` | run context, backoff, the list of readers, the retry queues that run | construction of Redis client, sender and templates; `OnStart` starts the goroutine, which calls `Subscribe` again after every return; `OnStop` cancels the context and waits for nobody, then readers and Redis are closed |
| event claims, `fx/messaging.go` | one Redis key per event: absent, `processing` (15 minutes to live), `done` (no time to live) | `Claim` (SETNX), `Complete` (SET), `Release` (DEL), and the wrapper that calls them around the handler |
| command handler, `kafka/mail_command_subscriber.go`, `application/service.go`, `kafka/error_reason.go` | none between commands | decode, validate, render, send, publish success or failure with a reason |
| template registry, `internal/application/template_registry.go`, `fx/service.go` | compiled templates by message type | `Register`, `Build`, `Render` |
| SMTP sender, `pkg/mailer/smtp/smtp.go` | a connection, the place in the dialogue, the circuit breaker | `Send` through the breaker; `newClient` (dial, greeting, STARTTLS or TLS), auth, MAIL, RCPT, DATA, write, close, QUIT |
| NATS pull runtime, `nats/pull_consumer_runtime.go` | a batch, a bounded channel, workers, the fetcher's plan; in JetStream: delivery counts and acknowledgements | fetch, dispatch, worker loop, `Ack`, `Nak`, stop |
| NATS configuration and plan, `nats/pull_consumer_validator.go`, `nats/broker.go` | the plan in force | `Validate`, `ResolvePullPlan`, `maybeUpdateAdaptivePlan` |
| NATS bootstrap, `pkg/messaging/nats/bootstrap.go`, `nats/pull_consumer_runtime.go:31-68` | outside the process: two streams and the consumer | `EnsureStream` (nothing invokes it any more) and `Create`: add, or update when adding fails |
| NATS subscriber and broker, `nats/mail_command_subscriber.go`, `nats/broker.go` | none between commands | `handleMailSendCommand`, the handler of the runtime; `RunPullConsumer`, `Publish` |
| configuration, wiring, logger, metrics, tracing | none that matters for delivery | |

Interactions. The reconnect loop calls `Subscribe`, which calls
`RunPullConsumer` of the claiming wrapper, which calls that of the Kafka
broker with a handler that claims the event, calls the command handler and
completes or releases the claim. All calls are synchronous: a process works on
one record at a time. Processes meet in the consumer group, in the Redis keys
and in the retry topic, whose records a retry queue started by
`RunPullConsumer` puts back at the end of the command topic.

What makes each component correct:

* **Loop**: an offset is committed past a record only if the record was
  handled or a copy of it is in the retry topic; whatever ends the loop, every
  record gets to the handler at last.
* **Claims**: an event is processed by one worker at a time and never after it
  was processed to the end, as long as its key does not expire under its
  handler; each such expiry lets one more worker in, and costs no other event
  anything.
* **Command handler**: success is reported only for an accepted mail; a
  defective command causes no mail and is reported with its reason.
* **Wired service**: no command disappears without result and dead letter
  unless a process gave it up; a command delivered several times causes one mail
  and one result; every command is answered at last.
* **SMTP sender**: an accepted mail is reported as success unless its answer
  is lost; password and message are never sent in the clear; no way out leaves
  a connection open.
* **Lifecycle**: one reader per process; the consumer comes back after every
  return; a stop at any moment leaves neither reader nor retry queue; every
  mail gets the template of its own definition.
* **NATS start**: the consumer runs only with streams and consumer as this
  release configures them.
* **NATS runtime**: at most one handler call per delivery; only handled
  messages are acknowledged; stop terminates; messages are acknowledged or use
  up their deliveries. With the command handler in its workers: a command is
  acknowledged only with a result, and causes one mail per delivery at most.
* **Plan**: an accepted configuration gives a usable plan at every backlog.

## 2. What is hard about it

* The same event reaches several processes: as a redelivered record, as a
  retry copy, as a duplicate the sender wrote, or after a rebalance while the
  old owner still handles it.
* A refused claim is reported as success and committed, so the fate of a
  command rests on the worker that holds its claim: it may fail, its process
  may end, its Redis call may fail.
* The loop commits offsets, which stand for all earlier records, but leaves
  requeued records uncommitted; the next commit passes over them.
* Every external call (Redis, commit, retry topic, SMTP, result topic) can fail
  after it took effect.
* Time: a claim lives 15 minutes and nothing bounds the handler; JetStream's
  `AckWait` counts the time in the channel.
* A stop cancels the context and goes on: readers and Redis are closed while
  the goroutine may be anywhere, also between making a reader and listing it.
* The SMTP dialogue has nine calls that can fail, two ways to become encrypted,
  three places in `newClient` that close the connection and two deferred calls
  in `send`; after the server took the mail an error must not count.
* On NATS no claim keeps the deliveries of a command apart.
* The start of one instance meets what an earlier release and other instances
  made of the streams and the consumer.
* The fetcher waits for its workers and for room in the channel, the workers
  wait for the channel, and all of them for a stop.

`PROJECT.json` lists each hazard with its line and the properties aimed at it.

## 3. Modules and the code

| module | models | composed of |
|---|---|---|
| `EventProcessing` | abstract: an event is entered by one worker at a time, then finished or abandoned; a finished event is never entered | |
| `MailService` | abstract: a command is sent, mailed at most once, and answered or dead-lettered once; what the service promises while its Redis works | |
| `MailOutcomes` | abstract: true answers, no mail for a defect, nothing recorded as dealt with without an answer; what the service promises whatever fails, on Kafka and on NATS | |
| `ClaimedHandler` | the claim protocol; implements `EventProcessing` | |
| `KafkaConsumer` | the loop, the group, retry and dead-letter topics, the reconnect | |
| `MailHandler` | one command from decode to the published result | |
| `SmtpSender` | the handler with the SMTP dialogue in detail; implements `MailHandler` | `MailHandler` |
| `MailPipeline` | the wired service; implements `MailService` or, with every fault, `MailOutcomes` | `KafkaConsumer`, `ClaimedHandler`, `MailHandler` |
| `PullConsumer` | the NATS runtime with JetStream's deliveries | |
| `PullMail` | the NATS runtime with the command handler in its workers; implements `MailOutcomes` | `PullConsumer`, `MailHandler` |
| `PullPlan` | pure operators: `Valid` and `ResolvePullPlan` | |
| `AdaptivePull` | `RunPullConsumer`'s validation and the fetcher's update of its plan | `PullPlan` |
| `NatsStart` | `EnsureStream` and `RunPullConsumer`, beside other instances | `AdaptivePull` |
| `MailTemplates` | the fourteen template definitions the service provides | |
| `ServiceLifecycle` | construction, reconnect loop and end of one process | |
| `MC*` | instances for TLC | |
| `*Proofs` | theorems | |

**KafkaConsumer.** `mode[c]` is the place of consumer `c` in
`RunPullConsumer` (`polling` = in `FetchMessage`, `handling` = in the handler,
`committing`, `requeueing`, `burying` = in the call of that name), or
`backoff` (the reconnect loop sleeps) or `down`. `log`, `committed`, `owner`
and `pos` are the topic and the group; `retry` is a bag of records in the
retry topic. A record carries its event and the retry attempt header; 0 stands
for "no header", which `retryAttempt` reads as 1. Every return of
`RunPullConsumer` is `Leave(c, "backoff")`, since the deferred `r.Close()`
takes the reader out of the group. `accounted` (places that were handled or
requeued) and `buried` are history variables. `Fetch` includes `Unwrap`, whose
failure leads straight to `burying`. `SetOffset` overwrites the group's
offset, as kafka-go's commit does. A call that can fail after it took effect
has both outcomes (`CommitError`, `RequeueError`). Lines 97-111 of the broker
are unreachable (`err` is nil there) and not modelled.

**ClaimedHandler.** `claims[e]` is the Redis key, `stage[w]` the place in the
wrapper and `event[w]` the event it has claimed. One action per call and
outcome. `Expire` is Redis's time to live, which ends whether or not a handler
still runs: with the fault `"ttl"` it may end under a running one, and the
history variable `expired[e]` counts how often it did. `Release` and `Complete`
then meet whatever key is there. `ClaimRefused` changes nothing here; in the
pipeline it returns nil to the loop.

**MailHandler.** `Kind[e]` says what is wrong with the command of an event, or
that it is `deliverable`; validation and the four ways in which `Render` fails
are the `Defect`s, and `Reason` is the switch of `SendMailFailureReason`.
`SendRefused`, `ReplyLost` and `BreakerOpen` are the failures of the sender: an
SMTP error wrapped as `ErrFailedToSendMail`, the same after the server took the
message, and an error of the breaker, which no case of the switch names.

**MailPipeline.** A step is a step of one component, or of two where one calls
or returns to the other: `Claim` = `Claims!ClaimTaken` with `Mail!Take`,
`Refused` = `Claims!ClaimRefused` with `Kafka!HandlerReturns(c, "ok")`,
`HandleOK` = `Mail!Publish` with `Claims!HandlerOK`, `Complete` with the
return of nil to the loop, and so on. `TypeOK` holds the agreement of the three:
the wrapper runs only while the loop waits for the handler, on the event of
the record the loop has fetched. `abandoned` is a history variable: the events
that a process gave up without a result (`GiveUp`), because it ended at work on
them, could not write their copy or dead letter, or left their key behind after
a failed Redis call. `LostOnlyIfGivenUp` compares it with what is really lost.

**MailService, MailOutcomes.** Neither knows records, offsets, claims or
processes. `ServiceSpec` reads the state of a command off the topics (`Fate`):
`unsent`, then `open` as long as a record, a copy or a process will still deal
with it, `answered` or `dead`, and `lost`, which `MailService` does not have.
`OutcomesSpec` takes a command for settled when its Redis key is `done` (and
has not expired under a handler, see `Guarded`), on NATS when it is
acknowledged; from then on no delivery of it is handled. On Kafka this says
nothing of offsets: the record of an unanswered command can be committed, when
its claim is refused (section 8), and that is for `NoSilentLoss` and
`LostOnlyIfGivenUp` to speak of. The two
transports have the same command handler and no line in common below it, and
both implement `MailOutcomes`: what a sender of commands can rely on does not
depend on the transport. Commands may be mailed and answered more than once
there, as they are after a failed publication.

**PullConsumer.** `stream[m]` is what JetStream knows of message `m`,
`deliveries[m]` how often it was delivered; `fetched`, `jobs`, `worker`, `job`
are the batch, the channel, the workers' places and their messages. `stopped`
is the cancelled context. `Restart` replaces the process. `handled`, `started`
and `late` are history variables. With the fault `"slow"` a message's `AckWait`
may end while it waits in the channel or is handled; `late` records it.

**SmtpSender.** What is one step in `MailHandler`, sending, is here a walk
through `dialog[w]`: the call the worker is in. `Advance` is a call that
succeeds, `ClientFails` one that fails in `newClient` (which closes the
connection itself), `CommandFails` one that fails in `send` (whose deferred
calls close it). `conn[w]` says whether the connection is closed, open or
encrypted. `Accepted` and `AnswerLost` are the two ends of `writer.Close`;
`Quit` gives success whatever it returns, since `send` logs its error only.
`HandlerSpec` is `MailHandler!Spec` under a refinement mapping that takes
a worker in `quit` for one that publishes success already: the mail is out, and
nothing can change the result any more.

**PullMail.** A step is a step of `PullConsumer`, of `MailHandler`, or of both:
`Receive` is `Take` of the runtime with `Take` of the handler, `Answer` is a
published result with the handler's nil, `Refuse` an error of Unmarshal or
Publish with the handler's error. The two handlers, of Kafka and of NATS, have
the same steps; `DomainFailureReasonResolver` has the same words for the defects.
`RestartAll` ends the handlers wherever they are.

**ServiceLifecycle, MailTemplates.** `app` is how far construction or stop has
come, `loop` the place of the goroutine. `made` numbers the readers, `listed`
is `b.readers`, `open` those that are open: `OpenReader` and `AddReader` are
two steps, and `CloseBroker`, which runs beside the goroutine, can come between
them. `Return` stands for every way out of `RunPullConsumer`, `queues` for the
retry queues, which go on after it. `Register` takes the definitions in any
order, as the group of fx gives them. The model's claims, records and handler
are those of `MailPipeline` and left out here.

**NatsStart.** `server[r]` is `absent`, `stale` (another configuration) or
`current`. `place` is the call the start has come to, `updating` that adding
has failed. Other instances of the same release (`Peer`) set resources up
meanwhile. A start that fails ends there: nothing in the repository calls
`EnsureStream` again, or at all (`InvokeEnsureStream` is a no-op), and that
`RunPullConsumer` follows it is how the adapter is meant to be used, not
something the repository wires.

**PullPlan, AdaptivePull.** Each condition of `Validate` is a conjunct. `plan`
is the fetcher's state and its tier; `backlog` changes at will and is what
`NumPending` returns.

## 4. Runs

| run | instance | checks |
|---|---|---|
| `claims` | 3 workers, 2 events, failing Redis, ending processes, keys that expire under a running handler | one worker per event, and one more for each such expiry; `done` is final unless a handler outlived its key; implements `EventProcessing` for every other event |
| `kafka` | 2 consumers, 1 partition, one event whose envelope is rejected, all faults, rebalances | no commit passes over an unhandled record without copy; every record gets to the handler as long as nothing is dead-lettered |
| `sending` | a worker of each mode; a deliverable, an invalid and an undecodable command; every call of the dialogue, the breaker and the publication may fail | success means mailed; defects are reported and cause no mail; no connection left; nothing in the clear; implements `MailHandler` |
| `pipeline_faulty` | 2 processes, one command, readable or not, and its copies; failing Redis, commits, result, retry and dead-letter topics and SMTP replies, keys that expire under a handler, ending processes | the components agree; a command disappears only if a process gave it up; implements `MailOutcomes` |
| `pipeline_live` | 1 process, 2 partitions, failing broker calls of every kind | no command disappears; every command is answered |
| `pipeline_group` | 2 processes, 2 events (one invalid), SMTP, breaker, fetch and commit failures, rebalances | one mail and one result per command; implements `MailService`; every command is answered |
| `pipeline_blocked` | 1 process, one rejected envelope | violated: a valid command is never answered (section 8) |
| `pipeline_exit` | 1 process that may end | violated: a command disappears |
| `pipeline_rebalance` | 2 processes, failing publication and retry topic | violated: a command disappears |
| `pull` | 2 workers, a deliverable and an undecodable command, channel of 1, failing handlers, publications, fetches and acknowledgements, late deliveries, stops, restarts | a message is in two workers only after its `AckWait` ended; one handler call per delivery; a stop ends; every message is acknowledged or out of deliveries; implements `MailOutcomes`; a command causes one mail per delivery at most |
| `nats_start` | configurations with a zero number in each place, streams and consumer absent, stale or current, failing calls, other instances | the start goes on only with current resources; plans are usable |
| `lifecycle` | the fourteen templates in every order, eleven readers, failing construction, a stop at any moment | one reader; one late reader at most; own template; the stop leaves nothing; the consumer comes back |

The passing pipeline runs differ in their faults, and the three violated ones
say why. `NoSilentLoss` holds as long as no process ends, Redis works, and not
both rebalances and failures of the retry topic happen: `pipeline_live` has the
retry topic's failures, and with rebalances it is proved (`NothingLost`, section
7). `HandledOnce` holds as long as Redis and the result topic work: a failed
publication releases the claim on purpose and the retry sends the mail again.
`EventuallyAnswered` needs envelopes that are accepted, because a rejected one blocks its partition.
For the same reason `pipeline_group` has nothing unreadable in it, and the
dead-lettering of `MailService` is covered by the proof only.

`pipeline_faulty` has no fault taken out but `"fetch"`, `"smtp"` and
`"breaker"`, which end a loop or a sending without a mail and are in the other
runs: what it checks holds whatever happens. What the service loses it loses in
the ways `GiveUp` names, and `pipeline_exit` and `pipeline_rebalance` show two of
them; the run, and the theorem `LossesAreGivenUp` for all instances, say that
there is no further one, in particular none that comes from a key that expires
too early. `ExclusiveHolder` is a bound on the damage of such a key: two workers
do handle the event then, and a mail may be sent twice.

## 5. Bounds

* `MaxExpired`: how often a key may expire under a running handler. 2 in
  `claims`, where it takes two to have three workers at one event and the
  `Release` of one delete the key of another; 1 with two processes.
* `pipeline_faulty` has one record sent once, since its state grows with every
  fault; the copies in the retry topic, the redeliveries after a rebalance or an
  end, and the two processes at the same event are what the properties need.
  Its dead letters are those of a command tried twice. Retry copies do not arise in
  `pipeline_group`, whose handlers return no error; they do in `pipeline_faulty`
  and `pipeline_live`.
* `MaxProduced`, `MaxLog`: a sender stops at `MaxProduced` records per
  partition, retry copies may fill it up to `MaxLog`. In the runs with liveness
  `MaxLog` leaves room for the copies; a copy that finds no room would be put
  back later in the real system, so the bound must not be what stops it. One
  or two places beyond `MaxProduced` let a copy land behind other records and
  be committed over.
* `MaxCopies = 1`: identical copies in the retry topic are counted once. A
  second identical copy adds only another refused delivery, and the same event
  is delivered more than once by other ways in these instances already.
* `MaxAttempts = 2`: the first attempt is requeued, the second dead-lettered;
  a larger number repeats the first case.
* `MaxMails = 2`: enough to tell one mail from more than one. In `pull` it is 3,
  one more than `MaxDeliver`, so that the bound is not what keeps the number of
  mails down.
* One or two partitions: with one, a rebalance moves it between two processes;
  with two, one process interleaves a record and the copy of it, or commits in
  one partition while the other's reader position is behind.
* Workers and events: a conflict has two workers and one event; a third worker
  and a second event show that others are not disturbed.
* `MaxDeliver = 2`, `QueueSize = 1`, `MaxBatch = 2`: a message can use up its
  deliveries, and a batch does not fit into the channel, so that a stop meets
  a fetcher blocked on a full channel.
* `MaxBacklog = 2`: with thresholds below, at and above it; every configuration
  has at most one zero, since `Validate` looks at each number by itself.
* `MaxReaders = 11`: one more than the pauses from 100 ms to the 30 s cap.
* The definitions in `lifecycle` are the real ones; registering them in every
  order gives a state per subset.
* Deadlock is checked in every run but `lifecycle`, whose process really ends.
  The other models have no end states: a sender, a rebalance or a redelivery is
  possible, a refused claim repeats, or the backlog changes.

Symmetry over the processes is used only in runs without liveness properties;
`OutcomesSpec` is a safety property in which no process occurs.

## 6. Fairness

* `KafkaConsumer!Fairness`: a loop takes its next step if it can (a goroutine
  is scheduled, a call returns), unassigned partitions get assigned (the group
  coordinator), a copy in the retry topic is put back (its queue polls), and a
  reader with several partitions fetches from each. That handlers return is an
  assumption: neither the handler nor the SMTP dialogue has a deadline of its
  own.
* `QuietSpec` adds that failures, ends of processes and rebalances cease at
  some time: a broker that fails for ever answers nobody. Until then they
  happen in any number and order. Nothing is assumed of the outcome of the
  handler or of the order of records.
* `PullConsumer!SteadySpec`: fetcher and workers go on, `AckWait` ends, a
  `Fetch` that could return messages does not time out for ever, and stops and
  restarts cease. It may be stopped for good: `StopCompletes` is about that,
  `EventuallySettled` about the other case.
* `PullMail!SteadyMailSpec` is the same for the composition: that a worker goes
  on means that its handler returns, with whatever outcome.
* `ServiceLifecycle!FairSpec`: the goroutine goes on, and once the context is
  cancelled `FetchMessage` and `CommitMessages`, which select on it, return
  (strong fairness: they may find a record first, but not for ever), and so do
  the retry queues. That the handler returns assumes that the SMTP server
  answers or the connection breaks: `smtp.go` sets no timeout and no deadline,
  and only the dial of the mode `starttls` looks at the context.

## 7. Proofs

Every theorem holds for all values of the constants that meet the named
assumptions, so for any number of processes, partitions, events and records.

| theorem | argument |
|---|---|
| `ClaimedHandlerProofs!TypeCorrect` | inductive as it stands |
| `ClaimsExclusive`, `DoneStaysDone`, `ImplementsProcessing` | with every fault. The count of workers alone is not inductive: one more gets in when the key is gone. `ClaimInv` counts the key as one more way in: the holders of an event, and one if its key is free, are at most one more than its expiries under a handler; and while there was none, a holder's key reads `processing` and a `done` key has no holder that could delete it |
| `KafkaConsumerProofs!TypeCorrect`, `NothingSkipped` | `CommittedAccounted` is strengthened by what a position promises: everything before the reader's position and outside a worker's hands is accounted for, and what a loop is about to commit is accounted for together with everything before it; assignment starts at the committed offset, which restores it after a rebalance |
| `MailHandlerProofs!TypeCorrect`, `SuccessIsTrue`, `DefectsReported` | the verdict a worker is about to publish is already true of `mails` and of the command's kind |
| `MailPipelineProofs!ImplementsKafka`, `ImplementsClaims`, `ImplementsMail` | each step of the pipeline is a step of the component or leaves its variables alone |
| `PipelineSkipsNothing`, `PipelineExclusive`, `PipelineSuccessIsTrue` | the components' theorems carried over by these |
| `MailPipelineProofs!TypeCorrect` | the components' type theorems, and `Agreement`: which combinations of `mode`, `stage` and `step` a process can be in |
| `OneMailOneResult` (from `"redis"`, `"exit"`, `"ttl"`, `"publish"` `\notin Faults`) | `OnceInv`: an event whose key is free is untouched, and so is one that a process is about to send; one that a process is about to publish has no result yet. Exclusiveness makes that process the only one |
| `LossesAreGivenUp` | with every fault. A sent command that nobody gave up is settled (answered, dead-lettered, or waiting in a record that is not accounted for or in the retry topic) or at work in a process. A refused claim counts a record as handled, so the invariant adds `Held`: a key that nobody gave up is in the hands of a process at work, or the command has its result. A key that expires leaves its handler at work, and the key of another that it deletes or overwrites leaves that one at work too |
| `NothingLost` (from `"redis"`, `"exit"`, `"requeue"`, `"bury"` `\notin Faults`) | nothing is given up then |
| `ImplementsService` (from `"redis"`, `"exit"`, `"ttl"`, `"publish"` `\notin Faults`, and `"requeue"`, `"bury"` `\notin Faults` or one process) | the refinement of `MailService`. `OnceInv` and `NothingLost` (or the sole process) give that nothing is answered twice or lost. `ReadInv` adds that a handler fails only on what cannot be read, so that nothing else is requeued and dead-lettered; `TruthInv`, that the verdict a process is about to publish is one `MailService` allows. The proof goes through the fates: a step changes that of one command at most, and only forward |
| `ImplementsOutcomes` | the refinement of `MailOutcomes`, with every fault. `HonestInv` of `MailHandlerProofs` (`VerdictsHonest`) is needed because other processes may have mailed and answered the same command since a verdict was reached: its truth must not depend on that. `Opened`: a record with a rejected envelope never gets to the handler. A key becomes `done` in the hands of a process that has published (`DoneMeansAnswered`), and a `done` key that did not expire under a handler is in nobody's hands |
| `PipelineProcessesOnce`, `PipelineReportsDefects` | the components' theorems in the wired service |
| `SoleProcessLosesNothing` (one process, `"redis"`, `"exit"` `\notin Faults`) | the argument of `LossesAreGivenUp` without "at work", so that a copy that cannot be written still has its record: a sole process is never refused a claim it holds itself |
| `DoneMeansAnswered` | a worker that is completing has published a result for its event; needs the agreement of `stage`, `step`, `task` and `event` |
| `PullConsumerProofs!TypeCorrect`, `AckedHandled`, `RunsOncePerDelivery` | every delivery is in one place (batch, channel or worker) because counts grow with each delivery and positions in batch and channel are distinct; a worker that acknowledges has a handled message |
| `PullConsumerProofs!OneWorker` | as long as its `AckWait` has not ended while the process had it, a message is in one place only, and JetStream waits for its acknowledgement wherever it is; so what gets delivered is not held |
| `ClaimedHandlerProofs!NoAbandonedClaims` (from `"redis"`, `"exit"` `\notin Faults`) | every `processing` key belongs to a worker that is in the wrapper with its event |
| `PullConsumerProofs!MailImplementsPull` | each step of the composition is a step of the runtime or leaves its variables alone |
| `HandlerTypeCorrect`, `AckedAnswered` | the handler runs where the runtime waits for it; whatever the runtime counts as handled has a published result |
| `MailsBounded` | a mail is sent for a delivery that had caused none: `Past(m)` is the set of deliveries the handler was called with and is past the sender with, `mails[m]` is at most its size, and it lies in `1..deliveries[m]`. That no delivery is in two workers (`JobInv`) makes it grow with every mail |
| `PullConsumerProofs!ImplementsOutcomes` | the refinement of `MailOutcomes`, with every fault. `SentInv`: what was delivered was published. With `WaitingInv` and `JobInv` it says that whatever a worker has was sent; `VerdictInv` is the handler's `HonestInv`, kept by restarts too; `AckInv` and `HandledAnswered` give that what is acknowledged has a result |
| `MailTypeCorrect`, `MailAnswersTrue` | the theorems of runtime and handler for the composition |
| `SmtpSenderProofs!SenderTypeCorrect`, `ConnectionsClosed`, `AlwaysEncrypted` | `SenderInv`: the stage of the dialogue determines what the connection is |
| `ImplementsHandler`, `SenderSuccessIsTrue`, `SenderReportsDefects` | every call before the server takes the mail is a stutter or the refused send of `MailHandler`; the refinement carries `SuccessMeansMailed` and `DefectIsReported` over |
| `ServiceLifecycleProofs!TypeCorrect`, `OneReaderAtATime`, `OneLateReader` | `LifeInv`: a reader is open only in the loop that made it; a late one means that the loop was past its check when the context was cancelled |
| `TemplatesComplete`, `RealTypesDistinct` | what Build has passed is in the registry with its own template if no two definitions share a type, and the real ones do not |
| `AdaptivePullProofs!AllSetUp`, `StartTypeCorrect`, `StartImplementsPull` | `StartInv`: what the start is past, is current, and nothing takes it back |
| `AdaptivePullProofs!PlansUsable`, `StartPlansUsable` | the conjuncts of `Valid` that belong to the tier; the start is one `RunPullConsumer` |

Assumptions: those named in the modules (`EventsAssumption`,
`KindAssumption`, `PipelineAssumption` and so on: sentinel values are not
members, bounds are positive numbers), and the absence of those faults the
table names. Each of them is needed: the violated runs show `NoSilentLoss`
false with ends of processes, and with rebalances when the retry topic fails; a
failed publication sends the mail again on purpose, and so does the second
handler after a key has expired under the first. `ImplementsService` needs
all of them, since `MailService` says that nothing is lost and nothing happens
twice. What is proved without any such assumption is what is left in those
cases: `LossesAreGivenUp`, `ClaimsExclusive`, `DoneStaysDone`,
`ImplementsProcessing` and `ImplementsOutcomes`.

Only model-checked: liveness (`EventuallyHandled`, `EventuallyAnswered`,
`StopCompletes`, `EventuallySettled`, `StopEnds`, `KeepsServing`). Every
invariant and every refinement that a passing run checks is also proved,
`NoSilentLoss`, `HandledOnce`, `ServiceSpec` and the Kafka `OutcomesSpec` under
the assumptions above. What `MailService` and `MailOutcomes` leave to liveness,
that a command is answered at last, is `EventuallyAnswered` and
`EventuallySettled`.

## 8. Where code and documentation disagree

1. **A rejected envelope blocks its partition** (`pipeline_blocked`,
   `kafka/broker.go:80` and `:95`). `RunPullConsumer` returns after it wrote the
   dead letter instead of going on to `CommitMessages`; the reconnect opens a
   reader that starts with the same record. Records behind it are never
   handled. The unreachable block at lines 97-111 looks like the intended form.
   For the same reason a record out of attempts is dead-lettered again after
   every reconnect.
2. **A process that ends loses its command** (`pipeline_exit`,
   `fx/messaging.go:87`). Its claim lives on for up to 15 minutes, the
   redelivered record is refused, the refusal counts as success and is
   committed. A failed `Release` has the same effect on the retry copy, for
   instance during `OnStop`, which cancels the context `Release` uses.
3. **A rebalance can lose a command** (`pipeline_rebalance`,
   `kafka/broker.go:91`). The new owner's claim is refused and it commits the
   record; when the old owner fails after that and cannot enqueue the copy,
   nothing is left.

Observed while modelling, without a run of its own:

* `Release` deletes the key whoever set it. When a handler outlives its 15
  minutes and then fails, it deletes the next worker's claim or its `done`. The
  bound of `ExclusiveHolder` and the premise of `DoneIsFinal` are not idle:
  without them `claims` is violated.
* With the default `AckWait` of 30 seconds and up to 500 messages in the
  channel, messages can be redelivered while they wait, and be handled by two
  workers at the same time; the premise of `OneWorkerPerMessage` is not idle.
* On NATS a command out of deliveries gets neither result nor dead letter;
  an undecodable one always ends so. `EventuallySettled` says no more than that
  it is acknowledged or out of deliveries.
* On NATS a command can cause as many mails as it has deliveries:
  `MailsWithinDeliveries` is tight, since the next delivery after a failed
  Publish sends the mail again.
* `RunPullConsumer` of NATS returns at once when it has started its goroutines.
  The reconnect loop, which takes a return for the end of a consumer, would
  start another runtime every time if it were given this broker.
* Every reconnect appends a reader to `b.readers`, closed ones included, and
  starts one more retry queue; both stay until the process stops
  (`kafka/broker.go:64-70`).
* The backoff is never reset after a successful subscription
  (`fx/presentation.go:72`): a process that has reconnected nine times in its
  life pauses 30 seconds after every further dead letter.

## 9. What is not modelled

* The breaker's states: they are in a library, and the code sees an error
  instead of a call, which is `NotLetThrough` and may happen any time.
* Text of mails and templates, JSON, envelopes, headers, error messages: data
  that no property depends on. Domain types are records without behaviour.
* The fake sender returns nil; it is `SendOK` without a mail.
* Configuration is read once from the environment. Logging, metrics, tracing
  and dependency injection have no part in delivery; the order in which fx
  constructs and stops what matters is in `ServiceLifecycle`.
* `Subscribe` of the NATS broker registers a callback at the client and keeps
  no state; nothing calls it.
* The wrapper without a store (`store == nil` in `fx/messaging.go`), which only
  tests construct.
* Libraries and servers (kafka-go, resilience, Redis, JetStream, SMTP) are
  modelled from how the code uses them and marked external in `PROJECT.json`.

## 10. Plan

Done: all components of section 1 that have state of their own, alone and
composed, with the proofs of section 7. What would come next:

1. `MailPipeline` with several processes that end and a claim that can be taken
   over, as a design for the two losses of section 8: `NoSilentLoss` would have
   to hold with `"exit"` and `"requeue"` in `Faults`, that is, nothing be given
   up.
2. `ServiceLifecycle` composed with `MailPipeline`, so that a stop closes Redis
   under a running handler in one model; at present it is the fault `"redis"`.
