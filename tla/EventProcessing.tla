--------------------------- MODULE EventProcessing ---------------------------
(***************************************************************************)
(* What the event claims of mail-service promise to the rest of the        *)
(* service: an event is processed by at most one worker at a time, and an  *)
(* event that was processed to the end is never processed again.           *)
(*                                                                         *)
(* Nothing here knows about keys, values or time to live: ClaimedHandler   *)
(* is the protocol that has to implement this specification.               *)
(***************************************************************************)
CONSTANTS
  Workers,  \* the processes that run the message handler
  Events    \* the identities of the events they are handed

VARIABLES
  active,   \* active[e]: the workers that are processing e
  done      \* the events processed to the end

vars == <<active, done>>

Init ==
  /\ active = [e \in Events |-> {}]
  /\ done = {}

\* A worker starts to process an event nobody works on and nobody finished.
Enter(w, e) ==
  /\ active[e] = {}
  /\ e \notin done
  /\ active' = [active EXCEPT ![e] = {w}]
  /\ UNCHANGED done

\* The only worker of the event reports it finished.
Finish(w, e) ==
  /\ active[e] = {w}
  /\ active' = [active EXCEPT ![e] = {}]
  /\ done' = done \cup {e}

\* The only worker of the event gives it up: a failure, or the end of its
\* process.
Abandon(w, e) ==
  /\ active[e] = {w}
  /\ active' = [active EXCEPT ![e] = {}]
  /\ UNCHANGED done

Next == \E w \in Workers, e \in Events : Enter(w, e) \/ Finish(w, e) \/ Abandon(w, e)

Spec == Init /\ [][Next]_vars
=============================================================================
