------------------------------ MODULE IdleCycle ------------------------------
(* The idle-shutdown and knock-wake cycle: the presence evidence that the  *)
(* samplers (palworld-fps) and the idle watcher write to one database row, *)
(* the watcher that stops a server nobody plays on, and the knock listener *)
(* that holds the game port of a stopped server for a second at a time.    *)
(*                                                                         *)
(* Time is kept as the ages of what is stored, as the wall clock measures  *)
(* them: a stored timestamp ahead of a clock that was stepped back has age *)
(* -1, and Cap stands for every age from Cap on.  The sequence numbers of  *)
(* the observations are kept as their order: before[o] are the pending     *)
(* observations reserved before o, outdated those at or below applied_seq. *)
(*                                                                         *)
(* Abstractions: every other controller is one actor that owns the lock,   *)
(* moves the service and may die; Lifecycle takes controllers apart.  The  *)
(* look without the lock, the recheck and the first gate are one step each *)
(* (each is repeated before anything happens); the last gate is two, since *)
(* nothing follows it.  The confirmation of a start is left to Lifecycle,  *)
(* and identities and playing times, which nothing reads back, are left    *)
(* out.                                                                    *)
EXTENDS Integers

CONSTANTS
  Sampler,    \* the palworld-fps passes that may overlap
  Timeouts,   \* the values of IDLE_TIMEOUT, in ticks; 0 disables the policy
  Knocking,   \* the listener policies: "off", "doorbell" and tokens
  MaxGap,     \* MAX_GAP_MS, in ticks
  Cap         \* bound: ages from Cap on are one

ASSUME GapAssumption == MaxGap \in Nat /\ Cap \in Nat /\ Cap > MaxGap
ASSUME TimeoutAssumption == Timeouts \subseteq 0..Cap
ASSUME KnockingAssumption == "off" \in Knocking

Watch == "watch"
Observer == Sampler \cup {Watch}
None == -2                  \* SQL NULL
Age == -1..Cap
Packet == (Knocking \ {"off", "doorbell"}) \cup {"junk"}

VARIABLES
  online,     \* somebody is on the server
  svc,        \* "running", "stopped" (down, marked), "wanted" (down, unmarked)
  uptime,     \* age of the start of the game, while it runs
  idle,       \* ops.env: IDLE_TIMEOUT
  knock,      \* ops.env: the listener is off, a doorbell, or wants a token
  lock,       \* the owner of the lifecycle lock: "free", Watch, "knock", "other"
  status,     \* the lifecycle status
  valid, last, since,   \* presence_state: valid, age of last_success, of empty_since
  before, outdated,     \* the order of the pending observations
  opc, answer,          \* each observer's place and the answer it got
  wpc, limit, \* the watcher's place, and the timeout it has read
  kpc, kread, packet,   \* the listener's place, the policy and the packet it read
  newest,     \* history: the newest stored answer, "error" after an invalidation
  clean,      \* history: real time passed since newest became "empty", or a hole
  jump,       \* history: how far the clock was set forward since then
  revoked     \* history: the idle policy is off since before the publication

presence == <<valid, last, since>>
order    == <<before, outdated>>
policy   == <<idle, knock>>
service  == <<online, svc, uptime>>
knocker  == <<kpc, kread, packet>>
history  == <<clean, jump, newest, revoked>>
vars == <<service, policy, lock, status, presence, order, opc, answer, wpc,
          limit, knocker, history>>

Init ==
  /\ online = FALSE /\ svc = "wanted" /\ uptime = 0
  /\ idle = 0 /\ knock = "off"
  /\ lock = "free" /\ status = "idle"
  /\ valid = FALSE /\ last = None /\ since = None
  /\ before = [o \in Observer |-> {}] /\ outdated = {}
  /\ opc = [o \in Observer |-> "off"]
  /\ answer = [o \in Observer |-> "error"]
  /\ wpc = "off" /\ limit = 0
  /\ kpc = "off" /\ kread = "off" /\ packet = "junk"
  /\ clean = 0 /\ jump = 0 /\ newest = "error" /\ revoked = FALSE

-----------------------------------------------------------------------------
(* The evidence.                                                           *)

Pending == {o \in Observer : opc[o] # "off"}
Goto(o, there) == opc' = [opc EXCEPT ![o] = there]

\* reserve_observation: the next sequence number, before the request.
Reserved(o) ==
  /\ before' = [q \in Observer |-> IF q = o THEN Pending \ {o} ELSE before[q] \ {o}]
  /\ outdated' = outdated \ {o}

\* What the observation of an empty server makes of empty_since.
\* Mutant: the interval survives a hole in the answers.
KeptForever == since # None
Kept == valid /\ last \in 0..MaxGap /\ since # None
\* Mutant: an answer is stored whatever its number.
NeverSuperseded(o) == FALSE
Superseded(o) == o \in outdated

\* Nothing of an observation is needed once it is over.
Over(o) ==
  /\ Goto(o, "off")
  /\ answer' = [answer EXCEPT ![o] = "error"]
  /\ before' = [q \in Observer |-> IF q = o THEN {} ELSE before[q] \ {o}]

\* apply_observation, as one transaction.
Applied(o, what) ==
  IF Superseded(o)
  THEN outdated' = outdated \ {o} /\ UNCHANGED presence
  ELSE /\ valid' = (what # "error")
       /\ last'  = IF what = "error" THEN last ELSE 0
       /\ since' = IF what # "empty" THEN None ELSE IF Kept THEN since ELSE 0
       /\ outdated' = (outdated \ {o}) \cup before[o]

\* The history of the answers, in the order of their numbers; a hole in the
\* answers starts a new interval.
Recorded(o, what) ==
  IF o \in outdated THEN UNCHANGED <<clean, jump, newest>>
  ELSE /\ newest' = what
       /\ IF what = newest /\ last <= MaxGap THEN UNCHANGED <<clean, jump>>
          ELSE clean' = 0 /\ jump' = 0

\* invalidate: best effort, outside the order.
Invalidated ==
  \/ /\ valid' = FALSE /\ since' = None
     /\ newest' = "error" /\ clean' = 0 /\ jump' = 0
     /\ UNCHANGED last
  \/ UNCHANGED <<presence, clean, jump, newest>>

\* The eligibility of read_eligibility, for a timeout t.
Eligible(t) ==
  /\ valid /\ last \in 0..MaxGap
  /\ since # None /\ since >= last /\ since >= t

-----------------------------------------------------------------------------
(* A sampling pass.                                                        *)

SamplerFrame == UNCHANGED <<service, policy, lock, status, wpc, limit, knocker,
                            revoked>>

\* The reservation itself may fail: the database is locked or gone.
Reserve(s) ==
  /\ opc[s] = "off"
  /\ \/ /\ Reserved(s) /\ Goto(s, "asked")
        /\ UNCHANGED <<presence, clean, jump, newest>>
     \/ Invalidated /\ UNCHANGED <<opc, order>>
  /\ UNCHANGED answer /\ SamplerFrame

\* What the REST API answers: the players of this moment, or an error; what is
\* no list of objects is an error.
\* Mutant: whatever the API client prints is an answer.
AnswersUnchecked == {"error", "garbage"}
Answers == {"error"} \cup (IF svc # "running" THEN {}
                           ELSE IF online THEN {"busy"} ELSE {"empty"})
Fetch(o) ==
  /\ opc[o] = "asked"
  /\ \E a \in Answers : answer' = [answer EXCEPT ![o] = a]
  /\ Goto(o, "answered")
  /\ UNCHANGED <<service, policy, lock, status, presence, order, wpc, limit,
                 knocker, history>>

\* The answer is stored; a store that fails is followed by the failure, under
\* the same number, or by an invalidation.
Apply(s) ==
  /\ opc[s] = "answered"
  /\ \/ Applied(s, answer[s]) /\ Recorded(s, answer[s]) /\ Over(s)
     \/ /\ answer[s] # "error"
        /\ answer' = [answer EXCEPT ![s] = "error"]
        /\ UNCHANGED <<presence, order, clean, jump, newest, opc>>
     \/ /\ answer[s] = "error"
        /\ Invalidated /\ Over(s) /\ outdated' = outdated \ {s}
  /\ SamplerFrame

-----------------------------------------------------------------------------
(* The idle watcher: one tick.                                             *)

WatchGoto(there) == wpc' = there
WatchFrame == UNCHANGED <<service, policy, knocker>>
NoObservation == UNCHANGED <<presence, order, opc, answer, clean, jump, newest>>

\* The policy part of a check: enabled, running and up for long enough.
PolicyAllows == idle > 0 /\ svc = "running" /\ uptime >= idle

\* The look without the lock.
Look ==
  /\ wpc = "off" /\ PolicyAllows /\ Eligible(idle)
  /\ WatchGoto("acquire")
  /\ UNCHANGED <<lock, status, limit, revoked>> /\ WatchFrame /\ NoObservation

WatchAcquire ==
  /\ wpc = "acquire"
  /\ \/ lock = "free" /\ lock' = Watch /\ WatchGoto("recheck")
     \/ lock # "free" /\ UNCHANGED lock /\ WatchGoto("off")
  /\ UNCHANGED <<status, limit, revoked>> /\ WatchFrame /\ NoObservation

\* Everything again under the lock, then the reservation of the final request.
WatchRecheck ==
  /\ wpc = "recheck"
  /\ \/ /\ PolicyAllows /\ Eligible(idle)
        /\ limit' = idle
        /\ Reserved(Watch) /\ Goto(Watch, "asked") /\ WatchGoto("asked")
     \/ WatchGoto("leave") /\ UNCHANGED <<limit, order, opc>>
  /\ UNCHANGED <<lock, status, presence, answer, clean, jump, newest, revoked>>
  /\ WatchFrame

\* The final answer is stored, and must be an empty server that nothing newer
\* has superseded; what cannot be stored invalidates.
WatchApply ==
  /\ wpc = "asked" /\ opc[Watch] = "answered"
  /\ Over(Watch)
  /\ \/ /\ Applied(Watch, answer[Watch]) /\ Recorded(Watch, answer[Watch])
        /\ WatchGoto(IF answer[Watch] = "empty" /\ ~Superseded(Watch)
                     THEN "final" ELSE "leave")
     \/ Invalidated /\ outdated' = outdated \ {Watch} /\ WatchGoto("leave")
  /\ UNCHANGED <<lock, status, limit, revoked>> /\ WatchFrame

\* The evidence for the timeout read before the request, then the first gate.
WatchGate ==
  /\ wpc = "final"
  /\ WatchGoto(IF Eligible(limit) /\ PolicyAllows /\ Eligible(idle)
               THEN "publish" ELSE "leave")
  /\ UNCHANGED <<lock, status, limit, revoked>> /\ WatchFrame /\ NoObservation

\* begin_transaction, after the event and the notification.
Published == IF status = "idle" THEN "active" ELSE "unsafe"
WatchPublish ==
  /\ wpc = "publish"
  /\ \/ /\ status' = Published
        /\ revoked' = (idle = 0)
        /\ WatchGoto("policy")
     \/ WatchGoto("leave") /\ UNCHANGED <<status, revoked>>
  /\ UNCHANGED <<lock, limit>> /\ WatchFrame /\ NoObservation

\* The last gate reads the policy and the service ...
\* Mutant: the gate before the publication is trusted.
PolicyTrusted == TRUE
PolicyStillAllows == PolicyAllows
WatchPolicy ==
  /\ wpc = "policy"
  /\ \/ PolicyStillAllows /\ limit' = idle /\ WatchGoto("evidence")
     \/ ~PolicyStillAllows /\ UNCHANGED limit /\ WatchGoto("kept")
  /\ UNCHANGED <<lock, status, revoked>> /\ WatchFrame /\ NoObservation

\* ... then the evidence; the stop is dispatched.
Dispatch == wpc = "evidence" /\ Eligible(limit)
WatchEvidence ==
  /\ wpc = "evidence"
  /\ WatchGoto(IF Dispatch THEN "stopping" ELSE "kept")
  /\ UNCHANGED <<lock, status, limit, revoked>> /\ WatchFrame /\ NoObservation

\* graceful-stop and its confirmation: stopped, or a failure that leaves the
\* service anywhere.
WatchStop ==
  /\ wpc = "stopping"
  /\ \/ svc' = "stopped" /\ WatchGoto("kept")
     \/ svc' \in {svc, "stopped"} /\ WatchGoto("failed")
  /\ online' = (online /\ svc' = "running")
  /\ uptime' = IF svc' = "running" THEN uptime ELSE 0
  /\ UNCHANGED <<policy, lock, status, limit, knocker, revoked>>
  /\ NoObservation

\* The completion; it may fail to be recorded.
WatchComplete ==
  /\ wpc \in {"kept", "failed"}
  /\ \/ status' = IF wpc = "kept" /\ status # "unsafe" THEN "idle" ELSE "unsafe"
     \/ UNCHANGED status
  /\ WatchGoto("leave")
  /\ UNCHANGED <<lock, limit, revoked>> /\ WatchFrame /\ NoObservation

WatchLeave ==
  /\ wpc = "leave"
  /\ lock' = "free" /\ WatchGoto("off") /\ limit' = 0 /\ revoked' = FALSE
  /\ UNCHANGED status /\ WatchFrame /\ NoObservation

\* A watcher that dies leaves its graceful-stop, which has inherited the lock.
WatchDies ==
  /\ wpc \notin {"off", "orphan"} /\ limit' = 0 /\ revoked' = FALSE
  /\ IF wpc = "stopping"
     THEN WatchGoto("orphan") /\ UNCHANGED lock
     ELSE /\ WatchGoto("off")
          /\ lock' = IF lock = Watch THEN "free" ELSE lock
  /\ Over(Watch) /\ outdated' = outdated \ {Watch}
  /\ UNCHANGED <<status, presence, clean, jump, newest>>
  /\ WatchFrame

OrphanEnds ==
  /\ wpc = "orphan" /\ WatchGoto("off") /\ lock' = "free"
  /\ svc' \in {svc, "stopped"}
  /\ online' = (online /\ svc' = "running")
  /\ uptime' = IF svc' = "running" THEN uptime ELSE 0
  /\ UNCHANGED <<policy, status, limit, knocker, revoked>> /\ NoObservation

-----------------------------------------------------------------------------
(* The knock listener: one lease.                                          *)

KnockFrame == UNCHANGED <<policy, presence, order, opc, answer, wpc, limit, history>>

Lease ==
  /\ kpc = "off" /\ lock = "free"
  /\ lock' = "knock" /\ kpc' = "leased"
  /\ UNCHANGED <<service, status, kread, packet>> /\ KnockFrame

\* Under the lock: enabled and stopped, then the game port is bound.
\* Mutant: any service that is down arms the listener.
ArmsWhenDown == svc # "running"
Arms == svc = "stopped"
Arm ==
  /\ kpc = "leased"
  /\ \/ knock # "off" /\ Arms /\ kpc' = "armed" /\ kread' = knock
     \/ kpc' = "leave" /\ UNCHANGED kread     \* off, not stopped, or no port
  /\ UNCHANGED <<service, lock, status, packet>> /\ KnockFrame

Matches(k, p) == k = "doorbell" \/ k = p

\* A datagram: the socket is closed before anything else when it is accepted.
Receive ==
  /\ kpc = "armed"
  /\ \E p \in Packet : Matches(kread, p) /\ packet' = p
  /\ kpc' = "got"
  /\ UNCHANGED <<service, lock, status, kread>> /\ KnockFrame

LeaseEnds ==
  /\ kpc = "armed" /\ kpc' = "leave"
  /\ UNCHANGED <<service, lock, status, kread, packet>> /\ KnockFrame

\* The policy is read again for the packet in hand.
StillWelcome(p) == knock # "off" /\ Matches(knock, p)
Revalidate ==
  /\ kpc = "got"
  /\ kpc' = IF StillWelcome(packet) THEN "start" ELSE "leave"
  /\ kread' = knock
  /\ UNCHANGED <<service, lock, status, packet>> /\ KnockFrame

\* start_if_down, with the cooldown left open.
KnockStart ==
  /\ kpc = "start" /\ kpc' = "leave"
  /\ \/ status = "idle" /\ svc = "stopped" /\ svc' = "wanted"
     \/ UNCHANGED svc
  /\ UNCHANGED <<online, uptime, lock, status, kread, packet>> /\ KnockFrame

KnockLeave ==
  /\ kpc = "leave" /\ kpc' = "off" /\ lock' = "free"
  /\ kread' = "off" /\ packet' = "junk"
  /\ UNCHANGED <<service, status>> /\ KnockFrame

KnockDies ==
  /\ kpc # "off" /\ kpc' = "off" /\ lock' = "free"
  /\ kread' = "off" /\ packet' = "junk"
  /\ UNCHANGED <<service, status>> /\ KnockFrame

-----------------------------------------------------------------------------
(* Everybody else.                                                         *)

OtherFrame == UNCHANGED <<presence, order, opc, answer, wpc, limit, knocker>>

\* Another controller begins, moves the service, and ends or dies.
OtherBegins ==
  /\ lock = "free" /\ lock' = "other"
  /\ status' = Published
  /\ UNCHANGED <<service, policy, history>> /\ OtherFrame
OtherMoves ==
  /\ lock = "other"
  /\ \/ svc = "running" /\ svc' = "stopped" /\ online' = FALSE /\ uptime' = 0
     \/ svc = "stopped" /\ svc' = "wanted" /\ UNCHANGED <<online, uptime>>
  /\ UNCHANGED <<policy, lock, status, history>> /\ OtherFrame
OtherEnds ==
  /\ lock = "other" /\ lock' = "free"
  /\ status' \in {status, "unsafe"} \cup (IF status = "active" THEN {"idle"} ELSE {})
  /\ UNCHANGED <<service, policy, history>> /\ OtherFrame

Acknowledge ==
  /\ lock = "free" /\ status # "idle" /\ svc = "stopped" /\ status' = "idle"
  /\ UNCHANGED <<service, policy, lock, history>> /\ OtherFrame

\* The operator edits ops.env.
Configure ==
  /\ \/ idle' \in Timeouts \ {idle} /\ UNCHANGED knock
     \/ knock' \in Knocking \ {knock} /\ UNCHANGED idle
  /\ revoked' = (revoked /\ idle' = 0)
  /\ UNCHANGED <<service, lock, status, clean, jump, newest>> /\ OtherFrame

Play ==
  /\ svc = "running" /\ online' = ~online
  /\ UNCHANGED <<svc, uptime, policy, lock, status, history>> /\ OtherFrame

\* The game starts where s6 wants it up, or exits.
GameStarts ==
  /\ svc = "wanted" /\ svc' = "running" /\ uptime' = 0 /\ online' = FALSE
  /\ UNCHANGED <<policy, lock, status, history>> /\ OtherFrame
GameExits ==
  /\ svc = "running" /\ svc' = "wanted" /\ online' = FALSE /\ uptime' = 0
  /\ UNCHANGED <<policy, lock, status, history>> /\ OtherFrame

\* The ages a may turn into when the wall clock moves by d.
Moved(a, d) ==
  CASE a = None               -> {None}
    [] a = Cap /\ d < 0       -> -1..Cap
    [] a = -1 /\ d > 0        -> -1..(IF d > Cap THEN Cap ELSE d - 1)
    [] OTHER                  -> {IF a + d > Cap THEN Cap ELSE IF a + d < -1 THEN -1
                                  ELSE a + d}
WallClock(d) ==
  /\ uptime' \in IF svc = "running" THEN Moved(uptime, d) ELSE {0}
  /\ last' \in Moved(last, d) /\ since' \in Moved(since, d)
  \* what was stored later is not older
  /\ last # None /\ since # None /\ since >= last => since' >= last'
Atmost(n) == IF n > Cap THEN Cap ELSE n

Tick ==
  /\ WallClock(1)
  /\ clean' = IF newest = "empty" THEN Atmost(clean + 1) ELSE 0
  /\ UNCHANGED <<online, svc, policy, lock, status, valid, order, opc, answer,
                 wpc, limit, knocker, jump, newest, revoked>>

\* The clock is set, forward or back.
SetClock ==
  /\ \E d \in {-1, 1} :
       /\ WallClock(d)
       /\ jump' = IF d > 0 /\ newest = "empty" THEN Atmost(jump + 1) ELSE jump
  /\ UNCHANGED <<online, svc, policy, lock, status, valid, order, opc, answer,
                 wpc, limit, knocker, clean, newest, revoked>>

-----------------------------------------------------------------------------
WatchStep ==
  \/ Look \/ WatchAcquire \/ WatchRecheck \/ WatchApply \/ WatchGate
  \/ WatchPublish \/ WatchPolicy \/ WatchEvidence \/ WatchStop \/ WatchComplete
  \/ WatchLeave

KnockStep ==
  Lease \/ Arm \/ Receive \/ LeaseEnds \/ Revalidate \/ KnockStart \/ KnockLeave

Next ==
  \/ \E s \in Sampler : Reserve(s) \/ Apply(s)
  \/ \E o \in Observer : Fetch(o)
  \/ WatchStep \/ WatchDies \/ OrphanEnds \/ KnockStep \/ KnockDies
  \/ OtherBegins \/ OtherMoves \/ OtherEnds \/ Acknowledge
  \/ Configure \/ Play \/ GameStarts \/ GameExits \/ Tick \/ SetClock

Spec == Init /\ [][Next]_vars

-----------------------------------------------------------------------------
(* Properties.                                                             *)

\* Every variable of the cycle stays in its range.
TypeOK ==
  /\ online \in BOOLEAN /\ svc \in {"running", "stopped", "wanted"} /\ uptime \in Age
  /\ idle \in Timeouts \cup {0} /\ knock \in Knocking
  /\ lock \in {"free", Watch, "knock", "other"}
  /\ status \in {"idle", "active", "unsafe"}
  /\ valid \in BOOLEAN /\ last \in Age \cup {None} /\ since \in Age \cup {None}
  /\ before \in [Observer -> SUBSET Observer] /\ outdated \subseteq Observer
  /\ opc \in [Observer -> {"off", "asked", "answered"}]
  /\ answer \in [Observer -> {"empty", "busy", "error"}]
  /\ wpc \in {"off", "acquire", "recheck", "asked", "final", "publish", "policy",
              "evidence", "stopping", "kept", "failed", "leave", "orphan"}
  /\ limit \in Timeouts \cup {0}
  /\ kpc \in {"off", "leased", "armed", "got", "start", "leave"}
  /\ kread \in Knocking /\ packet \in Packet
  /\ clean \in 0..Cap /\ jump \in 0..Cap
  /\ newest \in {"empty", "busy", "error"} /\ revoked \in BOOLEAN

\* The evidence of an empty server is that of the newest stored answer,
\* whatever the order in which the answers of the samplers and of the watcher
\* come back: an older answer never brings an empty interval to life again
\* (the sequence fence of apply_observation).
NewestAnswerRules == since # None => newest = "empty"

\* A stop is dispatched only when every answer stored for the whole timeout was
\* that of an empty server and came within MAX_GAP_MS of the one before it; a
\* clock set forward counts for no more than the time it was set forward
\* (read_eligibility and apply_observation).
StopNeedsEmptiness == [][Dispatch /\ wpc' = "stopping" => clean + jump >= limit]_wpc

\* An idle policy that was switched off before the transaction was published,
\* and stayed off, stops nothing: the gate after the publication sees it (tick).
StopNeedsPolicy == [][wpc' = "stopping" => ~revoked]_wpc

\* The listener has the game port only while the game is confirmed stopped: what
\* it read under the lock stays true, since every start takes the lock (_lease).
PortIsFree == kpc = "armed" => svc = "stopped" /\ lock = "knock"
=============================================================================
