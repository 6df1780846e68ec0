-------------------------- MODULE MaintenanceFence --------------------------
(* What the lifecycle core promises to whoever relies on it: maintenances  *)
(* and automatic starts exclude each other, a maintenance that fails stays *)
(* in the way of every start until somebody acknowledges it, and a request *)
(* to start the service is honoured only while nothing has outdated it.    *)
(* Locks, files, processes and crashes are not visible here; Lifecycle     *)
(* implements this specification.                                          *)
CONSTANT Slot           \* the processes that may start the service by themselves

VARIABLES
  phase,                \* "quiet", "maintaining" or "broken"
  request,              \* each slot's request: "none", "valid" or "outdated"
  starting              \* the slots that are starting the service

vars == <<phase, request, starting>>

\* No request that is waiting at this moment may be honoured later.
Outdate == request' = [s \in Slot |-> IF request[s] = "none" THEN "none" ELSE "outdated"]

Init ==
  /\ phase = "quiet"
  /\ request = [s \in Slot |-> "none"]
  /\ starting = {}

\* A request to start the service is admitted while nothing is broken or
\* under maintenance; a slot may also come back without one.
Request(s) ==
  /\ phase = "quiet" /\ s \notin starting
  /\ request' = [request EXCEPT ![s] = "valid"]
  /\ UNCHANGED <<phase, starting>>
Withdraw(s) ==
  /\ s \notin starting
  /\ request' = [request EXCEPT ![s] = "none"]
  /\ UNCHANGED <<phase, starting>>

\* A start needs a quiet phase, no other start and no outdated request.
Start(s) ==
  /\ phase = "quiet" /\ starting = {} /\ request[s] # "outdated"
  /\ starting' = {s}
  /\ UNCHANGED <<phase, request>>
Started(s) ==
  /\ s \in starting
  /\ starting' = {}
  /\ UNCHANGED <<phase, request>>

\* A maintenance begins, and either succeeds or breaks something.
Begin ==
  /\ phase = "quiet" /\ starting = {}
  /\ phase' = "maintaining" /\ Outdate
  /\ UNCHANGED starting
Succeed ==
  /\ phase = "maintaining" /\ phase' = "quiet"
  /\ UNCHANGED <<request, starting>>
Break ==
  /\ phase = "maintaining" /\ phase' = "broken"
  /\ UNCHANGED <<request, starting>>

\* Somebody acknowledges what is broken.
Acknowledge ==
  /\ phase = "broken" /\ phase' = "quiet" /\ Outdate
  /\ UNCHANGED starting

\* The waiting requests are outdated for another reason: a start, a runtime
\* that restarts, a maintenance while the phase is broken already.
Rotate ==
  /\ starting = {} /\ Outdate
  /\ UNCHANGED <<phase, starting>>

\* Everything stops at once; an unfinished maintenance is broken.
Reboot ==
  /\ starting' = {} /\ Outdate
  /\ phase' = IF phase = "maintaining" THEN "broken" ELSE phase

Next ==
  \/ \E s \in Slot : Request(s) \/ Withdraw(s) \/ Start(s) \/ Started(s)
  \/ Begin \/ Succeed \/ Break \/ Acknowledge \/ Rotate \/ Reboot

Spec == Init /\ [][Next]_vars
=============================================================================
