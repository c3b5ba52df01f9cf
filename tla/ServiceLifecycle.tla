--------------------------- MODULE ServiceLifecycle ---------------------------
(***************************************************************************)
(* The life of one mail-service process (internal/fx): its construction,   *)
(* the goroutine that subscribes and reconnects, and the OnStop hooks,     *)
(* which run beside that goroutine and do not wait for it.                 *)
(*                                                                         *)
(* What the consumer does with its records, MailPipeline says; here it     *)
(* only fetches, handles, and sometimes returns.                           *)
(***************************************************************************)
EXTENDS Naturals

CONSTANTS
  Definitions,  \* the template definitions, see MailTemplates
  Faults,       \* "redis", "config", "template", "queue"
  MaxReaders    \* bound: readers made before the consumer returns no more

ASSUME LifecycleAssumption == MaxReaders \in Nat \ {0}

VARIABLES
  app,        \* how far the process has come, see App
  unread,     \* definitions Build has not come to
  registry,   \* the templates by message type
  cancelled,  \* runCtx is
  loop,       \* where the goroutine of OnStart is, see Loop
  backoff,    \* its pause before the next reconnect, in milliseconds
  made,       \* readers made so far; they are numbered from 1
  listed,     \* broker.readers holds the readers 1 .. listed
  open,       \* the readers that are not closed
  queues,     \* retry queues that run
  late        \* history: readers made after the context was cancelled

appVars == <<app, unread, registry, cancelled>>
readerVars == <<made, listed, open, queues, late>>
lifeVars == <<appVars, loop, backoff, readerVars>>

App == {"connecting", "configuring", "building", "running",
        "closingBroker", "closingRedis", "stopped", "exited", "failed"}

Loop == {"none", "checking", "subscribing", "adding", "fetching", "handling",
         "returning", "returned", "waiting", "ended"}

MaxBackoff == 30000
Backoff == {100, 200, 400, 800, 1600, 3200, 6400, 12800, 25600, MaxBackoff}

\* What the registry keeps of a definition.
Compiled(d) == [subject |-> d.subject, body |-> d.file]

TypeOK ==
  /\ app \in App
  /\ unread \subseteq Definitions
  /\ DOMAIN registry \subseteq {d.type : d \in Definitions}
  /\ cancelled \in BOOLEAN
  /\ loop \in Loop
  /\ backoff \in Backoff
  /\ made \in Nat /\ listed \in 0..made /\ open \subseteq 1..made
  /\ queues \in 0..made /\ late \in 0..made
  /\ loop = "none" <=> app \in {"connecting", "configuring", "building", "failed"}

Init ==
  /\ app = "connecting"
  /\ unread = Definitions
  /\ registry = [t \in {} |-> Compiled(t)]
  /\ cancelled = FALSE
  /\ loop = "none"
  /\ backoff = 100
  /\ made = 0 /\ listed = 0 /\ open = {} /\ queues = 0 /\ late = 0

-----------------------------------------------------------------------------
(* The construction of the process: fx calls the providers one by one, and   *)
(* the first error ends it.                                                  *)

Fail ==
  /\ app' = "failed"
  /\ UNCHANGED <<unread, registry, cancelled, loop, backoff, readerVars>>

\* The claims' client is connected, with retries.
ConnectRedis ==
  /\ app = "connecting"
  /\ app' = "configuring"
  /\ UNCHANGED <<unread, registry, cancelled, loop, backoff, readerVars>>

ConnectFails == "redis" \in Faults /\ app = "connecting" /\ Fail

\* By SMTPConfig.Mode the fake sender, or the SMTP sender, whose
\* configuration is validated.
ProvideMailSender ==
  /\ app = "configuring"
  /\ app' = "building"
  /\ UNCHANGED <<unread, registry, cancelled, loop, backoff, readerVars>>

SenderInvalid == "config" \in Faults /\ app = "configuring" /\ Fail

\* The entry of the type is set, also when there is one.
Register(d) ==
  /\ app = "building"
  /\ d \in unread
  /\ unread' = unread \ {d}
  /\ registry' = [t \in DOMAIN registry \cup {d.type} |->
                    IF t = d.type THEN Compiled(d) ELSE registry[t]]
  /\ UNCHANGED <<app, cancelled, loop, backoff, readerVars>>

\* The body cannot be read or parsed.
RegisterFails == "template" \in Faults /\ app = "building" /\ unread # {} /\ Fail

\* OnStart starts the goroutine.
Start ==
  /\ app = "building"
  /\ unread = {}
  /\ app' = "running"
  /\ loop' = "checking"
  /\ UNCHANGED <<unread, registry, cancelled, backoff, readerVars>>

-----------------------------------------------------------------------------
(* The goroutine.                                                            *)

GoTo(place) == loop' = place

\* The condition of the loop.
Check ==
  /\ loop = "checking"
  /\ GoTo(IF cancelled THEN "ended" ELSE "subscribing")
  /\ UNCHANGED <<appVars, backoff, readerVars>>

\* RunPullConsumer starts a retry queue and makes a reader ...
OpenReader ==
  /\ loop = "subscribing"
  /\ GoTo("adding")
  /\ made' = made + 1
  /\ open' = open \cup {made + 1}
  /\ queues' = queues + 1
  /\ late' = IF cancelled THEN late + 1 ELSE late
  /\ UNCHANGED <<appVars, backoff, listed>>

\* ... and puts it in the broker's list, under its mutex.
AddReader ==
  /\ loop = "adding"
  /\ GoTo("fetching")
  /\ listed' = made
  /\ UNCHANGED <<appVars, backoff, made, open, queues, late>>

Fetch ==
  /\ loop = "fetching"
  /\ made \in open
  /\ GoTo("handling")
  /\ UNCHANGED <<appVars, backoff, readerVars>>

HandlerReturns ==
  /\ loop = "handling"
  /\ GoTo("fetching")
  /\ UNCHANGED <<appVars, backoff, readerVars>>

\* Mutant: RunPullConsumer makes its next reader itself.
ReturnReopens ==
  /\ loop \in {"fetching", "handling"}
  /\ cancelled \/ made < MaxReaders
  /\ GoTo("subscribing")
  /\ open' = open \ {made}
  /\ UNCHANGED <<appVars, backoff, made, listed, queues, late>>

\* RunPullConsumer returns: an error, a dead letter, or the context or the
\* reader is done for.
Return ==
  /\ loop \in {"fetching", "handling"}
  /\ cancelled \/ made < MaxReaders
  /\ GoTo("returning")
  /\ UNCHANGED <<appVars, backoff, readerVars>>

\* Mutant: closing the reader is left to the broker.
CloseLeft ==
  /\ loop = "returning"
  /\ GoTo("returned")
  /\ UNCHANGED <<appVars, backoff, readerVars>>

\* The deferred r.Close; the reader stays in the list.
CloseReader ==
  /\ loop = "returning"
  /\ GoTo("returned")
  /\ open' = open \ {made}
  /\ UNCHANGED <<appVars, backoff, made, listed, queues, late>>

\* Mutant: a consumer that has stopped is not started again.
GiveUp ==
  /\ loop = "returned"
  /\ GoTo("ended")
  /\ UNCHANGED <<appVars, backoff, readerVars>>

\* The context is looked at again after Subscribe.
Subscribed ==
  /\ loop = "returned"
  /\ GoTo(IF cancelled THEN "ended" ELSE "waiting")
  /\ UNCHANGED <<appVars, backoff, readerVars>>

\* Mutant: the pause is not limited.
TimerDoubles ==
  /\ loop = "waiting"
  /\ GoTo("checking")
  /\ backoff' = 2 * backoff
  /\ UNCHANGED <<appVars, readerVars>>

\* The pause is over, perhaps in the moment of the cancellation; the next one
\* is twice as long.
TimerFires ==
  /\ loop = "waiting"
  /\ GoTo("checking")
  /\ backoff' = IF 2 * backoff > MaxBackoff THEN MaxBackoff ELSE 2 * backoff
  /\ UNCHANGED <<appVars, readerVars>>

WaitCancelled ==
  /\ loop = "waiting"
  /\ cancelled
  /\ GoTo("ended")
  /\ UNCHANGED <<appVars, backoff, readerVars>>

\* Mutant: the retry queue is started with a context of its own.
QueueDetached ==
  /\ queues > 0
  /\ ~cancelled /\ "queue" \in Faults
  /\ queues' = queues - 1
  /\ UNCHANGED <<appVars, loop, backoff, made, listed, open, late>>

\* A retry queue runs until the context is cancelled, or until it fails.
QueueEnds ==
  /\ queues > 0
  /\ cancelled \/ "queue" \in Faults
  /\ queues' = queues - 1
  /\ UNCHANGED <<appVars, loop, backoff, made, listed, open, late>>

-----------------------------------------------------------------------------
(* The OnStop hooks, the last one appended first.                            *)

Cancel ==
  /\ app = "running"
  /\ app' = "closingBroker"
  /\ cancelled' = TRUE
  /\ UNCHANGED <<unread, registry, loop, backoff, readerVars>>

CloseBroker ==
  /\ app = "closingBroker"
  /\ app' = "closingRedis"
  /\ open' = open \ (1..listed)
  /\ UNCHANGED <<unread, registry, cancelled, loop, backoff,
                 made, listed, queues, late>>

CloseRedis ==
  /\ app = "closingRedis"
  /\ app' = "stopped"
  /\ UNCHANGED <<unread, registry, cancelled, loop, backoff, readerVars>>

\* main returns, wherever the goroutine is.
Exit ==
  /\ app = "stopped"
  /\ app' = "exited"
  /\ GoTo("ended")
  /\ open' = {} /\ queues' = 0
  /\ UNCHANGED <<unread, registry, cancelled, backoff, made, listed, late>>

-----------------------------------------------------------------------------
Construction ==
  \/ ConnectRedis \/ ConnectFails \/ ProvideMailSender \/ SenderInvalid
  \/ (\E d \in Definitions : Register(d)) \/ RegisterFails \/ Start

\* What the goroutine does on its own.
Going ==
  \/ Check \/ OpenReader \/ AddReader \/ HandlerReturns
  \/ CloseReader \/ Subscribed \/ TimerFires

Consuming == Going \/ Fetch \/ Return \/ WaitCancelled \/ QueueEnds

Stopping == Cancel \/ CloseBroker \/ CloseRedis \/ Exit

Next == Construction \/ Consuming \/ Stopping

Spec == Init /\ [][Next]_lifeVars

\* The goroutine goes on, the handler returns.  When the context is cancelled,
\* the select in FetchMessage and in CommitMessages cannot pass over it forever,
\* and the retry queues return.
FairSpec ==
  /\ Spec
  /\ WF_lifeVars(Going)
  /\ SF_lifeVars(cancelled /\ Return)
  /\ WF_lifeVars(cancelled /\ QueueEnds)

-----------------------------------------------------------------------------
(* Properties.                                                               *)

\* A process is in the consumer group once at most, and only while it consumes:
\* whichever way the consumer returned, its reader is closed before the pause
\* and before the next one is made.
OneReader ==
  \A r \in open : r = made /\ loop \in {"adding", "fetching", "handling", "returning"}

\* A cancellation is seen before the next reconnect: only a subscription that
\* had begun can still make a reader.
LateReader == late <= 1

\* The consumer starts with every definition in the registry, and every type
\* has the template of its own definition, in whatever order they were
\* registered.
OwnTemplate ==
  loop # "none" =>
    \A d \in Definitions : d.type \in DOMAIN registry /\ registry[d.type] = Compiled(d)

\* After the cancellation the goroutine ends and leaves neither a reader nor a
\* retry queue, wherever it was when the broker closed the readers it knew.
StopEnds ==
  cancelled ~> (loop = "ended" /\ open = {} /\ queues = 0)

\* While the service runs, its consumer always comes back to fetching.
KeepsServing ==
  app = "running" ~> (loop = "fetching" \/ cancelled)
=============================================================================
