------------------------------- MODULE NatsStart -------------------------------
(***************************************************************************)
(* The start of mail-service on NATS: EnsureStream                         *)
(* (pkg/messaging/nats/bootstrap.go) sets up the streams, and              *)
(* RunPullConsumer, of which AdaptivePull has the rest, the consumer.      *)
(* Each is added or, when that fails, updated, while other instances of    *)
(* the service do the same.  A start that fails ends there.                *)
(***************************************************************************)
EXTENDS AdaptivePull

CONSTANT Faults  \* "jetstream"

VARIABLES
  place,     \* what the start has come to, see Place
  updating,  \* adding it has failed
  server     \* what JetStream has of each resource

startVars == <<pullVars, place, updating, server>>

Stream == {"commands", "events"}
Resource == Stream \cup {"consumer"}
Place == Resource \cup {"subscribe", "running", "rejected", "failed"}

\* A resource of an earlier release has another configuration.
PlaceOK ==
  /\ place \in Place
  /\ updating \in BOOLEAN
  /\ updating => place \in Resource
  /\ server \in [Resource -> {"absent", "stale", "current"}]
  /\ place = "running" <=> runtime = "fetching"

StartTypeOK == TypeOK /\ PlaceOK

StartInit ==
  /\ Init
  /\ place = "commands"
  /\ updating = FALSE
  /\ server \in [Resource -> {"absent", "stale", "current"}]
  /\ server["commands"] = "absent" => server["consumer"] = "absent"

-----------------------------------------------------------------------------
After == [commands |-> "events", events |-> "consumer", consumer |-> "subscribe"]

Set(r) == server' = [server EXCEPT ![r] = "current"]

Proceed(r) ==
  /\ place' = After[r]
  /\ updating' = FALSE

\* EnsureStream's calls for a stream, or Create's for the consumer of a
\* configuration that Validate accepts.
At(r) == place = r /\ (r = "consumer" => Valid(cfg))

Fail ==
  /\ place' = "failed"
  /\ updating' = FALSE

\* There is no connection to the server.
ConnectError ==
  /\ "jetstream" \in Faults
  /\ place = "commands" /\ ~updating
  /\ Fail
  /\ UNCHANGED <<pullVars, server>>

\* AddStream, AddConsumer: nothing happens to one that is as wanted.
Add(r) ==
  /\ At(r) /\ ~updating
  /\ server[r] # "stale"
  /\ Set(r)
  /\ Proceed(r)
  /\ UNCHANGED pullVars

\* Mutant: what exists already is taken for good.
AddFailsUnnoticed(r) ==
  /\ At(r) /\ ~updating
  /\ server[r] = "stale"
  /\ Proceed(r)
  /\ UNCHANGED <<pullVars, server>>

\* It exists with another configuration.
AddFails(r) ==
  /\ At(r) /\ ~updating
  /\ server[r] = "stale"
  /\ updating' = TRUE
  /\ UNCHANGED <<pullVars, place, server>>

\* The call fails, before or after JetStream acted on it.
AddError(r) ==
  /\ "jetstream" \in Faults
  /\ At(r) /\ ~updating
  /\ \/ UNCHANGED server
     \/ server[r] = "absent" /\ Set(r)
  /\ updating' = TRUE
  /\ UNCHANGED <<pullVars, place>>

\* UpdateStream, UpdateConsumer.
Update(r) ==
  /\ At(r) /\ updating
  /\ server[r] # "absent"
  /\ Set(r)
  /\ Proceed(r)
  /\ UNCHANGED pullVars

\* There is nothing to update: adding it had failed for another reason.
UpdateFails(r) ==
  /\ At(r) /\ updating
  /\ server[r] = "absent"
  /\ Fail
  /\ UNCHANGED <<pullVars, server>>

\* The call fails, before or after JetStream acted on it, or JetStream refuses
\* the change.
UpdateError(r) ==
  /\ "jetstream" \in Faults
  /\ At(r) /\ updating
  /\ \/ UNCHANGED server
     \/ server[r] = "stale" /\ Set(r)
  /\ Fail
  /\ UNCHANGED pullVars

\* Validate refuses the configuration.
Reject ==
  /\ place = "consumer" /\ ~updating
  /\ ~Valid(cfg)
  /\ RunPullConsumer
  /\ place' = "rejected"
  /\ UNCHANGED <<updating, server>>

\* PullSubscribe, and the runtime starts.
Subscribe ==
  /\ place = "subscribe"
  /\ RunPullConsumer
  /\ place' = "running"
  /\ UNCHANGED <<updating, server>>

SubscribeError ==
  /\ "jetstream" \in Faults
  /\ place = "subscribe"
  /\ Fail
  /\ UNCHANGED <<pullVars, server>>

\* Another instance of the same release has set r up.
Peer(r) ==
  /\ server[r] # "current"
  /\ r = "consumer" => server["commands"] # "absent"
  /\ Set(r)
  /\ UNCHANGED <<pullVars, place, updating>>

Fetching ==
  /\ MaybeUpdateAdaptivePlan \/ Backlog
  /\ UNCHANGED <<place, updating, server>>

Starting ==
  \/ \E r \in Resource : Add(r) \/ AddFails(r) \/ Update(r) \/ UpdateFails(r)
  \/ Reject \/ Subscribe

Fault ==
  \/ \E r \in Resource : AddError(r) \/ UpdateError(r)
  \/ ConnectError \/ SubscribeError

StartNext == Starting \/ Fault \/ Fetching \/ \E r \in Resource : Peer(r)

StartSpec == StartInit /\ [][StartNext]_startVars

-----------------------------------------------------------------------------
(* Properties.                                                               *)

\* What the start is past, JetStream has as this release configures it (the
\* subjects of a stream, AckWait and MaxDeliver of the consumer), whatever it
\* had before, whichever calls failed and whoever else set it up.
SetUp ==
  /\ place \notin {"commands", "failed"} => server["commands"] = "current"
  /\ place \notin {"commands", "events", "failed"} => server["events"] = "current"
  /\ place \in {"subscribe", "running"} => server["consumer"] = "current"
=============================================================================
