----------------------------- MODULE Lifecycle -----------------------------
(***************************************************************************)
(* The lifecycle core of palwarden: the flock-based lifecycle lock, the    *)
(* persistent maintenance marker (state.json: status and generation), the  *)
(* s6-supervised game service with its wanted-down marker file, and every  *)
(* kind of process that takes part:                                        *)
(*                                                                         *)
(*   "cli"     a bash controller that owns the lock through the            *)
(*             `acquire -- CMD` bridge (graceful-stop, graceful-restart,   *)
(*             update, the systemctl shim)                                 *)
(*   "job"     a disruptive job run by palwarden-jobd, which owns the lock *)
(*             and lets the controller it spawns borrow it                 *)
(*   "idle"    palworld-idle-watch stopping an empty server                *)
(*   "restore" palworld-restore                                            *)
(*   "wake"    a wake request admitted by the web UI and fenced by a       *)
(*             generation and an expiry                                    *)
(*   "knock"   an unfenced wake (UDP knock, or `palworld-knock wake`)      *)
(*   "init"    init_runtime at the start of jobd                           *)
(*   "ack"     acknowledge-maintenance                                     *)
(*   "reap"    jobd's orphan reaper, which marks `unsafe` with no lock     *)
(*                                                                         *)
(* A descriptor on the lock file is inherited by children, so the flock is *)
(* free only when the owner and every surviving child have closed it.      *)
(* write_state is a read followed by an atomic replace; the two are        *)
(* separate steps here because the reaper does not take the lock.          *)
(*                                                                         *)
(* Abstractions: one s6 longrun, seen as up or down (the short "up, no     *)
(* pid" state is left out); the container deployment only (the systemd     *)
(* branch of service_state is not modelled); wall-clock time appears as    *)
(* the actions that expire a fence or change the age of the cooldown.      *)
(***************************************************************************)
EXTENDS Naturals

CONSTANTS
  Proc,       \* process slots; a slot is reused once its process is gone
  Workload,   \* the <<kind, program>> pairs that may be started
  MaxGen,     \* bound: no process is started once this generation is issued
  Crashes     \* whether processes, children and the container may die

Maintenance == {"cli", "job", "idle", "restore"}
Kind == Maintenance \cup {"wake", "knock", "init", "ack", "reap"}
Program == {"none", "stop", "start", "restart", "bounce", "update", "restore"}

ASSUME WorkloadAssumption == Workload \subseteq Kind \X Program
ASSUME MaxGenAssumption == MaxGen \in Nat
ASSUME CrashesAssumption == Crashes \in BOOLEAN

VARIABLES
  status,     \* state.json: "idle", "active" or "unsafe"
  gen,        \* state.json: the generation
  last,       \* the newest generation ever issued
  svc,        \* s6-svstat: the game process is "up" or "down"
  want,       \* what s6-supervise wants: "up" or "down"
  marker,     \* the wanted-down file <svcdir>/down exists
  cooldown,   \* cooldown_status(): "missing", "active", "expired", "invalid"
  holders,    \* open descriptors on the flocked file: <<p, "owner" or "child">>
  pc,         \* where each process is
  kind,       \* what each process is
  prog,       \* the controller script it runs
  todo,       \* the service steps its child still has to take
  rc,         \* exit code of the child: 0, or 1 for any failure
  seen,       \* the generation write_state has read (0: nothing read yet)
  fence,      \* the generation minted for a fenced wake (0: none)
  fresh,      \* a fenced wake has not passed its expiry
  orphanJob,  \* a disruptive job is still `running` with no worker
  meant,      \* history: the marker was last to be written, not removed
  tainted,    \* history: a maintenance ended without success, unacknowledged
  stale       \* history: something invalidated the wake since its admission

vars == <<status, gen, last, svc, want, marker, cooldown, holders, pc, kind,
          prog, todo, rc, seen, fence, fresh, orphanJob, meant, tainted, stale>>
fileVars    == <<status, gen, last>>
serviceVars == <<svc, want, marker, meant>>
procVars    == <<kind, prog, fence, fresh>>
history     == <<tainted, stale>>

-----------------------------------------------------------------------------
(* The steps of the controller scripts.  Every script takes its steps in   *)
(* this order, so what is left of a script is a set.                       *)

Step == {"fetch", "probe", "mark", "down", "await", "edit",
         "clear", "bounce", "up", "ready"}
\* Mutants: the service is brought up before the marker is cleared; the wait
\* for the stop comes before the stop is sent.
RankUpFirst == [fetch |-> 1, probe |-> 2, mark |-> 3, down |-> 4, await |-> 5,
                edit |-> 6, clear |-> 9, bounce |-> 8, up |-> 7, ready |-> 10]
RankAwaitFirst == [fetch |-> 1, probe |-> 2, mark |-> 3, down |-> 5, await |-> 4,
                   edit |-> 6, clear |-> 7, bounce |-> 8, up |-> 9, ready |-> 10]
Rank == [fetch |-> 1, probe |-> 2, mark |-> 3, down |-> 4, await |-> 5,
         edit |-> 6, clear |-> 7, bounce |-> 8, up |-> 9, ready |-> 10]

StopSteps  == {"mark", "down", "await"}
StartSteps == {"clear", "up"}

Script ==
  [none    |-> {},
   stop    |-> StopSteps,
   start   |-> StartSteps,
   restart |-> StopSteps \cup {"edit"} \cup StartSteps,
   bounce  |-> {"clear", "bounce"},
   update  |-> {"fetch", "probe", "edit", "ready"} \cup StopSteps \cup StartSteps,
   restore |-> {"edit", "ready"} \cup StopSteps \cup StartSteps]

\* s is the step the script with steps S takes next.
IsNext(s, S) == s \in S /\ \A t \in S : Rank[s] <= Rank[t]

\* The steps of script g that one command of it takes: a nested controller
\* (graceful-stop, `systemctl start`) or `s6-svc -wD -d`.
Commands(g) == IF g \in {"update", "restore"} THEN {StopSteps, StartSteps}
               ELSE {{"down", "await"}}

\* What goes on when the process that runs script g is killed with the steps S
\* ahead of it: the command it had started.  What the process does by itself
\* (a bash builtin, the swap of palworld-restore) dies with it.
Survivor(g, S) ==
  {t \in S : \E s \in S :
     /\ IsNext(s, S)
     /\ \/ \E C \in Commands(g) : {s, t} \subseteq C
        \/ t = s /\ s \notin {"mark", "probe"} /\ <<g, s>> # <<"restore", "edit">>}

ServiceState ==
  IF svc = "up" THEN (IF marker THEN "stopping" ELSE "running")
  ELSE (IF marker THEN "stopped" ELSE "crash-backoff")

-----------------------------------------------------------------------------
Owner(p) == <<p, "owner">>
Child(p) == <<p, "child">>

\* The pcs at which a process is inside write_state.
Writing == {"escalate", "publish", "complete", "rotate",
            "initEscalate", "initRotate", "ackWrite", "reapWrite"}
\* The pcs of a process that owns a descriptor on the lock.
Locked == {"recheck", "begin", "escalate", "publish", "gate", "body",
           "complete", "release",
           "fence", "check", "arm", "start", "confirm", "rotate",
           "initCheck", "initEscalate", "initRotate", "ackCheck", "ackWrite"}
PC == Locked \cup {"gone", "queued", "acquire", "reapWrite"}

InMaintenance(p) == pc[p] \in {"gate", "body", "complete"}
Free(p) == pc[p] = "gone" /\ Child(p) \notin holders

Init ==
  /\ status = "idle" /\ gen = 1 /\ last = 1
  /\ svc = "down" /\ want = "up" /\ marker = FALSE
  /\ cooldown = "missing"
  /\ holders = {}
  /\ pc = [p \in Proc |-> "gone"]
  /\ kind = [p \in Proc |-> "init"]
  /\ prog = [p \in Proc |-> "none"]
  /\ todo = [p \in Proc |-> {}]
  /\ rc = [p \in Proc |-> 0]
  /\ seen = [p \in Proc |-> 0]
  /\ fence = [p \in Proc |-> 0]
  /\ fresh = [p \in Proc |-> FALSE]
  /\ orphanJob = FALSE
  /\ meant = FALSE
  /\ tainted = FALSE
  /\ stale = [p \in Proc |-> FALSE]

Goto(p, there) == pc' = [pc EXCEPT ![p] = there]

-----------------------------------------------------------------------------
(* Processes appear.                                                       *)

\* jobd.lock: at most one worker process runs a job or reaps.
WorkerBusy == \E q \in Proc : kind[q] \in {"job", "reap"} /\ pc[q] # "gone"

\* Any process that begins by taking the lock.
Launch(p, k, g) ==
  /\ <<k, g>> \in Workload
  /\ k \notin {"wake", "reap"}
  /\ Free(p) /\ last < MaxGen
  /\ k = "job" => ~WorkerBusy
  /\ Goto(p, "acquire")
  /\ kind' = [kind EXCEPT ![p] = k]
  /\ prog' = [prog EXCEPT ![p] = g]
  /\ fence' = [fence EXCEPT ![p] = 0]
  /\ fresh' = [fresh EXCEPT ![p] = FALSE]
  /\ rc' = [rc EXCEPT ![p] = 0]
  /\ UNCHANGED <<fileVars, serviceVars, cooldown, holders, todo, seen,
                 orphanJob, history>>

\* wake_admission in the web UI: an unlocked read of the state file; the
\* generation and the expiry are minted here.
Admit(p) ==
  /\ <<"wake", "start">> \in Workload
  /\ Free(p) /\ last < MaxGen
  /\ status = "idle"
  /\ Goto(p, "queued")
  /\ kind' = [kind EXCEPT ![p] = "wake"]
  /\ prog' = [prog EXCEPT ![p] = "start"]
  /\ fence' = [fence EXCEPT ![p] = gen]
  /\ fresh' = [fresh EXCEPT ![p] = TRUE]
  /\ rc' = [rc EXCEPT ![p] = 0]
  /\ stale' = [stale EXCEPT ![p] = FALSE]
  /\ UNCHANGED <<fileVars, serviceVars, cooldown, holders, todo, seen,
                 orphanJob, tainted>>

\* Mutant: the generation of the fence is not compared.
FenceByStatus(p) == fresh[p] /\ status = "idle"
FenceHolds(p) == fresh[p] /\ status = "idle" /\ gen = fence[p]

\* _wake_fence_refusal in jobd, before palworld-knock is even spawned.
Dispatch(p) ==
  /\ pc[p] = "queued"
  /\ Goto(p, IF FenceHolds(p) THEN "acquire" ELSE "gone")
  /\ UNCHANGED <<fileVars, serviceVars, cooldown, holders, procVars, todo, rc,
                 seen, orphanJob, history>>

\* reap_orphans: a new worker finds the job `running`, fails it, then marks.
StartReaper(p) ==
  /\ <<"reap", "none">> \in Workload
  /\ Free(p) /\ last < MaxGen
  /\ orphanJob /\ ~WorkerBusy
  /\ orphanJob' = FALSE
  /\ Goto(p, "reapWrite")
  /\ kind' = [kind EXCEPT ![p] = "reap"]
  /\ prog' = [prog EXCEPT ![p] = "none"]
  /\ fence' = [fence EXCEPT ![p] = 0]
  /\ fresh' = [fresh EXCEPT ![p] = FALSE]
  /\ rc' = [rc EXCEPT ![p] = 0]
  /\ UNCHANGED <<fileVars, serviceVars, cooldown, holders, todo, seen,
                 history>>

-----------------------------------------------------------------------------
(* The lock.                                                               *)

Acquired(k) ==
  CASE k = "idle"        -> "recheck"
    [] k \in Maintenance -> "begin"
    [] k = "wake"        -> "fence"
    [] k = "knock"       -> "check"
    [] k = "init"        -> "initCheck"
    [] OTHER             -> "ackCheck"

\* flock succeeds only when no descriptor on the open file is left.
\* Mutant: children do not inherit the descriptor.
LockFreeOfOwners == \A q \in Proc : Owner(q) \notin holders
LockFree == holders = {}
Acquire(p) ==
  /\ pc[p] = "acquire" /\ LockFree
  /\ holders' = holders \cup {Owner(p)}
  /\ Goto(p, Acquired(kind[p]))
  /\ UNCHANGED <<fileVars, serviceVars, cooldown, procVars, todo, rc, seen,
                 orphanJob, history>>

\* The acquisition timeout (0 for jobs, wakes and idle-watch) runs out.
LockBusy(p) ==
  /\ pc[p] = "acquire" /\ ~LockFree
  /\ Goto(p, "gone")
  /\ UNCHANGED <<fileVars, serviceVars, cooldown, holders, procVars, todo, rc,
                 seen, orphanJob, history>>

\* The owner closes its descriptor (release, os.close or process exit).
\* Mutant: a long-lived owner forgets to.
Leaked(p) == holders
Closed(p) == holders \ {Owner(p)}
Release(p) ==
  /\ pc[p] = "release"
  /\ holders' = Closed(p)
  /\ Goto(p, "gone")
  /\ UNCHANGED <<fileVars, serviceVars, cooldown, procVars, todo, rc, seen,
                 orphanJob, history>>

-----------------------------------------------------------------------------
(* write_state: read, refuse to leave `unsafe`, replace.                   *)

\* Mutant: the completion does not look at the exit code.
TargetIgnoringRc(p) ==
  CASE pc[p] \in {"escalate", "initEscalate", "reapWrite"} -> "unsafe"
    [] pc[p] = "publish"                                   -> "active"
    [] OTHER                                               -> "idle"
Target(p) ==
  CASE pc[p] \in {"escalate", "initEscalate", "reapWrite"} -> "unsafe"
    [] pc[p] = "publish"                                   -> "active"
    [] pc[p] = "complete" /\ rc[p] # 0                     -> "unsafe"
    [] OTHER                                               -> "idle"
\* Mutant: the publication of a maintenance keeps the generation.
RotatesButPublish(p) == pc[p] \in {"rotate", "initRotate", "ackWrite"}
Rotates(p) == pc[p] \in {"publish", "rotate", "initRotate", "ackWrite"}
Forces(p)  == pc[p] = "ackWrite"
\* Mutant: any writer may leave `unsafe`.
NeverRefuses(p) == FALSE
Refuses(p) == status = "unsafe" /\ Target(p) # "unsafe" /\ ~Forces(p)
\* Mutant: the file is replaced without having been read.
LoadedOrNot(p) == TRUE
Loaded(p) == seen[p] # 0

\* The transaction is begun: every wake admitted before is outdated.
EnterMaintenance(p) == Goto(p, "gate") /\ stale' = [q \in Proc |-> TRUE]

WriteRead(p) ==
  /\ pc[p] \in Writing /\ seen[p] = 0
  /\ IF Refuses(p)
     THEN Goto(p, "release") /\ UNCHANGED seen
     ELSE /\ seen' = [seen EXCEPT ![p] = gen]
          /\ UNCHANGED pc
  /\ UNCHANGED <<fileVars, serviceVars, cooldown, holders, procVars, todo, rc,
                 orphanJob, history>>

WriteReplace(p) ==
  /\ pc[p] \in Writing /\ Loaded(p)
  /\ status' = Target(p)
  /\ IF Rotates(p) THEN gen' = last + 1 /\ last' = last + 1
                   ELSE gen' = seen[p] /\ UNCHANGED last
  /\ seen' = [seen EXCEPT ![p] = 0]
  /\ IF pc[p] \in {"escalate", "publish"} THEN EnterMaintenance(p)
     ELSE /\ Goto(p, "release")
          /\ stale' = IF Rotates(p) THEN [q \in Proc |-> TRUE] ELSE stale
  /\ tainted' = IF Forces(p) THEN FALSE ELSE tainted
  /\ UNCHANGED <<serviceVars, cooldown, holders, procVars, todo, rc, orphanJob>>

\* The temporary file or the rename fails: the old file stays.
WriteFails(p) ==
  /\ pc[p] \in Writing /\ seen[p] # 0
  /\ seen' = [seen EXCEPT ![p] = 0]
  /\ Goto(p, "release")
  /\ UNCHANGED <<fileVars, serviceVars, cooldown, holders, procVars, todo, rc,
                 orphanJob, history>>

-----------------------------------------------------------------------------
(* A maintenance transaction.                                              *)

\* idle-watch looks again under ownership: its evidence may be gone, and only
\* a running service is stopped.
Recheck(p) ==
  /\ pc[p] = "recheck"
  /\ \/ Goto(p, "release")
     \/ ServiceState = "running" /\ Goto(p, "begin")
  /\ UNCHANGED <<fileVars, serviceVars, cooldown, holders, procVars, todo, rc,
                 seen, orphanJob, history>>

\* begin_transaction: an `active` marker found under the lock was abandoned,
\* and an `unsafe` one does not stop a maintenance.
Begin(p) ==
  /\ pc[p] = "begin"
  /\ \/ status = "idle"   /\ Goto(p, "publish")  /\ UNCHANGED stale
     \/ status = "active" /\ Goto(p, "escalate") /\ UNCHANGED stale
     \/ status = "unsafe" /\ EnterMaintenance(p)
  /\ UNCHANGED <<fileVars, serviceVars, cooldown, holders, procVars, todo, rc,
                 seen, orphanJob, tainted>>

\* The controller starts and inherits the descriptor.
Spawn(p) ==
  /\ pc[p] = "gate"
  /\ kind[p] = "idle" => ServiceState = "running"
  /\ Goto(p, "body")
  /\ holders' = holders \cup {Child(p)}
  /\ todo' = [todo EXCEPT ![p] = Script[prog[p]]]
  /\ UNCHANGED <<fileVars, serviceVars, cooldown, procVars, rc, seen,
                 orphanJob, history>>

\* Nothing is dispatched: the bridge cannot exec its command or the last policy
\* gate of idle-watch closes (both count as success), or jobd cannot write the
\* file that precedes the first step (a failure).
AbortUnstarted(p) ==
  /\ pc[p] = "gate"
  /\ Goto(p, "complete")
  /\ prog' = [prog EXCEPT ![p] = "none"]
  /\ \/ kind[p] \in {"cli", "idle"} /\ UNCHANGED <<rc, tainted>>
     \/ kind[p] = "job" /\ rc' = [rc EXCEPT ![p] = 1] /\ tainted' = TRUE
  /\ UNCHANGED <<fileVars, serviceVars, cooldown, holders, kind, todo, seen,
                 fence, fresh, orphanJob, stale>>

\* The child has exited; idle-watch also wants the service confirmed stopped.
Finish(p) ==
  /\ pc[p] = "body" /\ Child(p) \notin holders
  /\ Goto(p, "complete")
  /\ IF kind[p] = "idle" /\ ServiceState # "stopped"
     THEN rc' = [rc EXCEPT ![p] = 1] /\ tainted' = TRUE
     ELSE UNCHANGED <<rc, tainted>>
  /\ UNCHANGED <<fileVars, serviceVars, cooldown, holders, procVars, todo,
                 seen, orphanJob, stale>>

\* jobd's STEP_TIMEOUT, idle-watch's STOP_TIMEOUT_S and the 60 s of
\* _start_service kill the child, not the command the child is waiting for.
StepTimeout(p) ==
  /\ \/ pc[p] = "body" /\ kind[p] \in {"job", "idle"}
     \/ pc[p] = "start"
  /\ Child(p) \in holders
  /\ todo' = [todo EXCEPT ![p] = Survivor(prog[p], @)]
  /\ rc' = [rc EXCEPT ![p] = 1]
  /\ Goto(p, IF pc[p] = "body" THEN "complete" ELSE "release")
  /\ tainted' = (tainted \/ pc[p] = "body")
  /\ UNCHANGED <<fileVars, serviceVars, cooldown, holders, procVars, seen,
                 orphanJob, stale>>

-----------------------------------------------------------------------------
(* The child: the steps of the controller script.                          *)

Does(p, s) == Child(p) \in holders /\ IsNext(s, todo[p])
StepOk(p, s) ==
  /\ todo' = [todo EXCEPT ![p] = @ \ {s}]
  /\ UNCHANGED <<rc, tainted>>
Fails(p) ==
  /\ rc' = [rc EXCEPT ![p] = 1]
  /\ tainted' = (tainted \/ kind[p] \in Maintenance)
StepAborts(p) == todo' = [todo EXCEPT ![p] = {}] /\ Fails(p)
ChildFrame == UNCHANGED <<fileVars, cooldown, holders, pc, procVars, seen,
                          orphanJob, stale>>

\* palworld-update asks Steam for the build: newer, current, or no answer.
Fetch(p) ==
  /\ Does(p, "fetch")
  /\ \/ StepOk(p, "fetch")
     \/ todo' = [todo EXCEPT ![p] = {}] /\ UNCHANGED <<rc, tainted>>
     \/ StepAborts(p)
  /\ UNCHANGED serviceVars /\ ChildFrame

\* was_active: an inactive server is neither stopped nor started.
Probe(p) ==
  /\ Does(p, "probe")
  /\ IF svc = "up" THEN StepOk(p, "probe")
     ELSE todo' = [todo EXCEPT ![p] = {"edit"}] /\ UNCHANGED <<rc, tainted>>
  /\ UNCHANGED serviceVars /\ ChildFrame

\* palworld_wanted_down_mark, palworld_wanted_down_clear: the scripts go on when
\* the file can be neither written nor removed (`|| true`).
Mark(p) ==
  /\ Does(p, "mark") /\ StepOk(p, "mark")
  /\ marker' \in {TRUE, marker} /\ meant' = TRUE
  /\ UNCHANGED <<svc, want>> /\ ChildFrame

\* `s6-svc -d`.  graceful-restart ignores its failure (`|| true`), and
\* palworld-restore tolerates it when the server is not active.
Down(p) ==
  /\ Does(p, "down")
  /\ \/ StepOk(p, "down") /\ want' = "down"
     \/ prog[p] = "restart" /\ StepOk(p, "down") /\ UNCHANGED want
     \/ /\ prog[p] = "restore" /\ svc = "down"
        /\ todo' = [todo EXCEPT ![p] = @ \ StopSteps]
        /\ UNCHANGED <<rc, tainted, want>>
     \/ prog[p] # "restart" /\ StepAborts(p) /\ UNCHANGED want
  /\ UNCHANGED <<svc, marker, meant>> /\ ChildFrame

\* `s6-svc -wD`; graceful-restart bounds the wait and ignores its failure.
\* Mutant: nobody waits.
StopAssumed(p) == TRUE
StopConfirmed(p) == svc = "down" \/ prog[p] = "restart"
Await(p) ==
  /\ Does(p, "await") /\ StepOk(p, "await") /\ StopConfirmed(p)
  /\ UNCHANGED serviceVars /\ ChildFrame

\* Config applies, SteamCMD, or the swap of the world tree.  Only a failed
\* restore leaves the server down; the others start it and exit non-zero.
Edit(p) ==
  /\ Does(p, "edit")
  /\ \/ StepOk(p, "edit")
     \/ prog[p] = "restore" /\ StepAborts(p)
     \/ /\ prog[p] # "restore"
        /\ todo' = [todo EXCEPT ![p] = @ \ {"edit", "ready"}] /\ Fails(p)
  /\ UNCHANGED serviceVars /\ ChildFrame

Clear(p) ==
  /\ Does(p, "clear") /\ StepOk(p, "clear")
  /\ marker' \in {FALSE, marker} /\ meant' = FALSE
  /\ UNCHANGED <<svc, want>> /\ ChildFrame

Up(p) ==
  /\ Does(p, "up")
  /\ \/ StepOk(p, "up") /\ want' = "up"
     \/ StepAborts(p) /\ UNCHANGED want
  /\ UNCHANGED <<svc, marker, meant>> /\ ChildFrame

\* `s6-svc -r`: restarts a service that is up, does nothing to one that is down.
Bounce(p) ==
  /\ Does(p, "bounce")
  /\ \/ StepOk(p, "bounce") /\ svc' = "down"
     \/ StepAborts(p) /\ UNCHANGED svc
  /\ UNCHANGED <<want, marker, meant>> /\ ChildFrame

Ready(p) ==
  /\ Does(p, "ready")
  /\ StepOk(p, "ready") \/ StepAborts(p)
  /\ UNCHANGED serviceVars /\ ChildFrame

ChildExits(p) ==
  /\ Child(p) \in holders /\ todo[p] = {}
  /\ holders' = holders \ {Child(p)}
  /\ UNCHANGED <<fileVars, serviceVars, cooldown, pc, procVars, todo, rc, seen,
                 orphanJob, history>>

ChildStep(p) ==
  \/ Fetch(p) \/ Probe(p) \/ Mark(p) \/ Down(p) \/ Await(p) \/ Edit(p)
  \/ Clear(p) \/ Up(p) \/ Bounce(p) \/ Ready(p)

-----------------------------------------------------------------------------
(* An automatic start.                                                     *)

\* palworld-knock re-checks the fence under ownership.
Fence(p) ==
  /\ pc[p] = "fence"
  /\ Goto(p, IF FenceHolds(p) THEN "check" ELSE "release")
  /\ UNCHANGED <<fileVars, serviceVars, cooldown, holders, procVars, todo, rc,
                 seen, orphanJob, history>>

\* start_if_down reads the state file ...
\* Mutant: only the lock is respected.
StartAllowedByLock == TRUE
StartAllowed == status = "idle"
Check(p) ==
  /\ pc[p] = "check"
  /\ Goto(p, IF StartAllowed THEN "arm" ELSE "release")
  /\ UNCHANGED <<fileVars, serviceVars, cooldown, holders, procVars, todo, rc,
                 seen, orphanJob, history>>

\* ... then the service state and the cooldown, writes the cooldown and only
\* then spawns `systemctl start` with the descriptor.
MayStart == ServiceState = "stopped" /\ cooldown \in {"missing", "expired"}
Arm(p) ==
  /\ pc[p] = "arm"
  /\ \/ /\ MayStart
        /\ cooldown' = "active"
        /\ holders' = holders \cup {Child(p)}
        /\ todo' = [todo EXCEPT ![p] = Script["start"]]
        /\ Goto(p, "start")
     \/ /\ ~MayStart
        /\ Goto(p, "release")
        /\ UNCHANGED <<cooldown, holders, todo>>
  /\ UNCHANGED <<fileVars, serviceVars, procVars, rc, seen, orphanJob, history>>

Started(p) ==
  /\ pc[p] = "start" /\ Child(p) \notin holders
  /\ Goto(p, IF rc[p] = 0 THEN "confirm" ELSE "release")
  /\ UNCHANGED <<fileVars, serviceVars, cooldown, holders, procVars, todo, rc,
                 seen, orphanJob, history>>

\* The poll for "running": seen in time, or the start is declared failed.
Confirm(p) ==
  /\ pc[p] = "confirm"
  /\ \/ ServiceState = "running" /\ Goto(p, "rotate")
     \/ ServiceState # "running" /\ Goto(p, "release")
  /\ UNCHANGED <<fileVars, serviceVars, cooldown, holders, procVars, todo, rc,
                 seen, orphanJob, history>>

-----------------------------------------------------------------------------
(* init_runtime and acknowledge-maintenance, under the lock.               *)

InitCheck(p) ==
  /\ pc[p] = "initCheck"
  /\ Goto(p, CASE status = "active" -> "initEscalate"
               [] status = "idle"   -> "initRotate"
               [] OTHER             -> "release")
  /\ UNCHANGED <<fileVars, serviceVars, cooldown, holders, procVars, todo, rc,
                 seen, orphanJob, history>>

AckCheck(p) ==
  /\ pc[p] = "ackCheck"
  /\ Goto(p, IF ServiceState = "stopped" THEN "ackWrite" ELSE "release")
  /\ UNCHANGED <<fileVars, serviceVars, cooldown, holders, procVars, todo, rc,
                 seen, orphanJob, history>>

-----------------------------------------------------------------------------
(* The supervisor, the game, time, crashes.                                *)

GameExits ==
  /\ svc = "up" /\ svc' = "down"
  /\ UNCHANGED <<fileVars, want, marker, meant, cooldown, holders, pc, procVars,
                 todo, rc, seen, orphanJob, history>>

Supervise ==
  /\ svc = "down" /\ want = "up" /\ svc' = "up"
  /\ UNCHANGED <<fileVars, want, marker, meant, cooldown, holders, pc, procVars,
                 todo, rc, seen, orphanJob, history>>

\* The cooldown runs out, or the clock is stepped (read_cooldown refuses a
\* timestamp from the future).
ClockMoves ==
  /\ cooldown # "missing"
  /\ cooldown' \in {"active", "expired", "invalid"} \ {cooldown}
  /\ UNCHANGED <<fileVars, serviceVars, holders, pc, procVars, todo, rc, seen,
                 orphanJob, history>>

Expire(p) ==
  /\ fresh[p] /\ pc[p] \in {"queued", "acquire", "fence"}
  /\ fresh' = [fresh EXCEPT ![p] = FALSE]
  /\ UNCHANGED <<fileVars, serviceVars, cooldown, holders, pc, kind, prog, todo,
                 rc, seen, fence, orphanJob, history>>

\* SIGKILL of a process.  Its child keeps the descriptor: all of the script
\* when the child runs it, the command in flight when the process ran it.
Crash(p) ==
  /\ Crashes /\ pc[p] \notin {"gone", "queued"}
  /\ Goto(p, "gone")
  /\ holders' = holders \ {Owner(p)}
  /\ seen' = [seen EXCEPT ![p] = 0]
  /\ todo' = [todo EXCEPT ![p] = IF kind[p] \in {"cli", "restore"}
                                 THEN Survivor(prog[p], @) ELSE @]
  /\ orphanJob' = (orphanJob \/ kind[p] = "job")
  /\ tainted' = (tainted \/ InMaintenance(p))
  /\ UNCHANGED <<fileVars, serviceVars, cooldown, procVars, rc, stale>>

\* SIGKILL of the child, or of an orphan.
ChildDies(p) ==
  /\ Crashes /\ Child(p) \in holders
  /\ holders' = holders \ {Child(p)}
  /\ todo' = [todo EXCEPT ![p] = {}]
  /\ Fails(p)
  /\ UNCHANGED <<fileVars, serviceVars, cooldown, pc, procVars, seen,
                 orphanJob, stale>>

\* jobd dies while palworld-restore, which owns the lock itself, goes on.
WorkerDies(p) ==
  /\ Crashes /\ kind[p] = "restore" /\ pc[p] # "gone"
  /\ ~orphanJob /\ orphanJob' = TRUE
  /\ UNCHANGED <<fileVars, serviceVars, cooldown, holders, pc, procVars, todo,
                 rc, seen, history>>

\* The container restarts: entrypoint.sh removes the marker file, if it can, and
\* runs init-runtime before any service starts; the game service starts
\* wanted-up.  The state volume and the job queue survive.
Boot ==
  /\ Crashes /\ last < MaxGen
  /\ svc' = "down" /\ want' = "up"
  /\ marker' \in {FALSE, marker} /\ meant' = FALSE
  /\ holders' = {}
  /\ pc' = [p \in Proc |-> IF pc[p] = "queued" THEN "queued" ELSE "gone"]
  /\ todo' = [p \in Proc |-> {}]
  /\ seen' = [p \in Proc |-> 0]
  /\ \/ /\ status = "idle"
        /\ gen' = last + 1 /\ last' = last + 1 /\ UNCHANGED status
     \/ /\ status # "idle"
        /\ status' \in {status, "unsafe"} /\ UNCHANGED <<gen, last>>
  /\ orphanJob' = (orphanJob \/ \E p \in Proc : /\ kind[p] \in {"job", "restore"}
                                                /\ pc[p] # "gone")
  /\ tainted' = (tainted \/ \E p \in Proc : InMaintenance(p))
  /\ stale' = [p \in Proc |-> TRUE]
  /\ UNCHANGED <<cooldown, procVars, rc>>

-----------------------------------------------------------------------------
\* The steps a live process takes by itself, one after the other.
ProcStep(p) ==
  \/ Dispatch(p) \/ Acquire(p) \/ LockBusy(p) \/ Release(p)
  \/ WriteRead(p) \/ WriteReplace(p) \/ WriteFails(p)
  \/ Recheck(p) \/ Begin(p) \/ Spawn(p) \/ AbortUnstarted(p) \/ Finish(p)
  \/ Fence(p) \/ Check(p) \/ Arm(p) \/ Started(p) \/ Confirm(p)
  \/ InitCheck(p) \/ AckCheck(p)
  \/ ChildStep(p) \/ ChildExits(p)

Next ==
  \/ \E p \in Proc :
       \/ ProcStep(p)
       \/ \E w \in Workload : Launch(p, w[1], w[2])
       \/ Admit(p) \/ StartReaper(p) \/ StepTimeout(p)
       \/ Expire(p) \/ Crash(p) \/ ChildDies(p) \/ WorkerDies(p)
  \/ GameExits \/ Supervise \/ ClockMoves \/ Boot

Spec == Init /\ [][Next]_vars

\* A runnable process keeps running, s6 keeps supervising, and a game that was
\* told to stop stops.  Nothing makes anyone start, crash or acknowledge.
Fairness ==
  /\ \A p \in Proc : WF_vars(ProcStep(p))
  /\ WF_vars(Supervise)
  /\ WF_vars(want = "down" /\ GameExits)

FairSpec == Spec /\ Fairness

-----------------------------------------------------------------------------
(* Properties.                                                             *)

StatusType == {"idle", "active", "unsafe"}

\* Every variable stays in its range (the bound of the generation included).
TypeOK ==
  /\ status \in StatusType
  /\ gen \in Nat \ {0} /\ last \in Nat \ {0}
  /\ svc \in {"up", "down"} /\ want \in {"up", "down"} /\ marker \in BOOLEAN
  /\ cooldown \in {"missing", "active", "expired", "invalid"}
  /\ holders \subseteq Proc \X {"owner", "child"}
  /\ pc \in [Proc -> PC]
  /\ kind \in [Proc -> Kind]
  /\ prog \in [Proc -> Program]
  /\ todo \in [Proc -> SUBSET Step]
  /\ rc \in [Proc -> {0, 1}]
  /\ seen \in [Proc -> Nat]
  /\ fence \in [Proc -> Nat]
  /\ fresh \in [Proc -> BOOLEAN]
  /\ orphanJob \in BOOLEAN
  /\ meant \in BOOLEAN
  /\ tainted \in BOOLEAN
  /\ stale \in [Proc -> BOOLEAN]

\* A command of a maintenance is still acting on the service, whether or not
\* the controller that started it is alive.
MaintenanceActs(p) == kind[p] \in Maintenance /\ Child(p) \in holders
\* The starter of an automatic wake is acting on the service.
WakeActs(p) == kind[p] \in {"wake", "knock"} /\ Child(p) \in holders

\* While a maintenance is begun, or a command of a dead controller still acts,
\* the state file says so: web, jobd and palworld-knock see a non-idle status
\* and no automatic start is in flight beside it (begin_transaction before any
\* mutation, the descriptor inherited by every child).
MaintenanceInhibits ==
  \A p \in Proc :
    MaintenanceActs(p) \/ InMaintenance(p) =>
      status # "idle" /\ \A q \in Proc : ~WakeActs(q)

\* After a maintenance that failed or died, the state file never reads idle
\* again until acknowledge-maintenance, whatever ran, crashed or rebooted in
\* between: nothing is started into a half-done maintenance.
FailClosed == tainted => status # "idle"

\* No wake is in flight after a failed maintenance either: the check of
\* start_if_down cannot have gone stale between the read and the start.
NoWakeIntoFailure == tainted => \A p \in Proc : ~WakeActs(p)

\* A wake admitted by the web UI starts the service only if no maintenance
\* began, no other wake started it and no runtime restarted since it was
\* admitted: the fence is a freshness guarantee over the whole queue delay.
NoDelayedWake ==
  \A p \in Proc : kind[p] = "wake" /\ WakeActs(p) => ~stale[p]

\* The read-modify-write of write_state never brings an old generation back to
\* an idle state, so that an outdated fence stays outdated.
NoGenerationReturns == status # "unsafe" => gen = last

\* What a maintenance reports as a success is what was asked of it: a stopped
\* service is down and not wanted up, and the marker was last to be written; a
\* started one is wanted up, and the marker was last to be removed.  Nobody else
\* moved the service while it ran.  (Whether the file followed is not reported:
\* the scripts ignore that its write or removal failed, see Mark and Clear.)
SuccessMeansDone ==
  \A p \in Proc :
    pc[p] = "complete" /\ rc[p] = 0 =>
      /\ prog[p] = "stop" => svc = "down" /\ want = "down" /\ meant
      /\ prog[p] \in {"start", "restart", "restore"} => want = "up" /\ ~meant

Quiet == holders = {}

\* Once the state is idle and no controller runs, a service that reads as
\* stopped (down, with the marker) is one the supervisor leaves down, or one
\* whose marker could not be removed when it was last to be.
StoppedIsWantedDown ==
  Quiet /\ status = "idle" /\ ServiceState = "stopped" => want = "down" \/ ~meant

\* "A down service without the marker therefore means exactly `supervisor wants
\* it up` = crash-backoff" (lib/palwarden-lifecycle-bash), between controllers.
CrashBackoffIsWantedUp ==
  Quiet /\ ServiceState = "crash-backoff" => want = "up"

\* Whatever a controller edits (the live config, the server install, the world
\* tree) it edits while the game is down.
EditsWhileDown == [][\A p \in Proc : Edit(p) => svc = "down"]_vars

\* "Both markers are sticky: ordinary writers cannot clear them" (module
\* docstring of palwarden_lifecycle): only an acknowledgement leaves `unsafe`.
StickyUnsafe ==
  [][status = "unsafe" /\ status' # "unsafe" =>
       \E p \in Proc : pc[p] = "ackWrite"]_status

\* Whoever takes the lock gives it back, with every descriptor its children
\* inherited, so that the next controller can run.
LockIsReturned == holders # {} ~> holders = {}

\* Every process that starts, waits for the lock or queues a wake comes to an
\* end: no controller waits forever on another one.
ProcessesEnd == \A p \in Proc : pc[p] # "gone" ~> pc[p] = "gone"

-----------------------------------------------------------------------------
(* The inductive invariant behind the safety properties.                   *)

\* One process at a time has descriptors on the lock, and every process whose
\* code runs under the lock has one; a child exists only where one is spawned.
LockInv ==
  /\ \A p \in Proc : pc[p] \in Locked \ {"release"} => Owner(p) \in holders
  /\ \A p, q \in Proc : \A x, y \in {"owner", "child"} :
       <<p, x>> \in holders /\ <<q, y>> \in holders => p = q
  /\ \A p \in Proc : Child(p) \in holders =>
       pc[p] \in {"body", "complete", "start", "release", "gone"}
  /\ \A p \in Proc :
       /\ pc[p] \in {"recheck", "begin", "escalate", "publish", "gate", "body",
                     "complete"} => kind[p] \in Maintenance
       /\ pc[p] \in {"queued", "fence"} => kind[p] = "wake"
       /\ pc[p] \in {"check", "arm", "start", "confirm", "rotate"} =>
            kind[p] \in {"wake", "knock"}
       /\ pc[p] = "complete" /\ rc[p] = 0 => Child(p) \notin holders
       /\ seen[p] # 0 => pc[p] \in Writing

\* The processes that have seen an idle state under the lock.
SawIdle == {"publish", "arm", "start", "confirm", "rotate", "initRotate"}
\* A completion that will write idle over what it has read.
WillWriteIdle(p) == pc[p] = "complete" /\ rc[p] = 0 /\ seen[p] # 0

\* A failed maintenance is fenced off from everything that could write idle.
TaintInv ==
  /\ FailClosed
  /\ \A p \in Proc : MaintenanceActs(p) \/ InMaintenance(p) => status # "idle"
  /\ \A p \in Proc : pc[p] \in SawIdle \/ WakeActs(p) => ~tainted
  /\ \A p \in Proc : InMaintenance(p) /\ rc[p] = 0 /\ tainted =>
                       status = "unsafe"
  /\ \A p \in Proc : WillWriteIdle(p) => ~tainted

\* The current generation is the newest unless the state is unsafe.
GenInv ==
  /\ NoGenerationReturns
  /\ \A p \in Proc : WillWriteIdle(p) => seen[p] = last
  /\ \A p \in Proc : fence[p] <= last

\* An outdated wake whose fence still names the newest generation is held off
\* by the status, and no pending completion can turn that status idle.
HeldOff(p) ==
  /\ kind[p] = "wake" /\ pc[p] \in {"queued", "acquire", "fence"}
  /\ stale[p] /\ fence[p] = last
WakeInv ==
  /\ \A p \in Proc : HeldOff(p) =>
       /\ status # "idle"
       /\ \A q \in Proc : InMaintenance(q) => status = "unsafe"
       /\ \A q \in Proc : ~WillWriteIdle(q)
  /\ \A p \in Proc :
       kind[p] = "wake" /\ (pc[p] \in {"check", "arm", "start"} \/ WakeActs(p)) =>
         ~stale[p]

IInv == TypeOK /\ LockInv /\ TaintInv /\ GenInv /\ WakeInv

\* Without a writer that ignores the lock, no pending write leaves `unsafe`.
NoReaper == \A p \in Proc : pc[p] # "reapWrite"
StickyInv ==
  /\ NoReaper
  /\ \A p \in Proc :
       seen[p] # 0 /\ pc[p] \in {"publish", "complete", "rotate", "initRotate"} =>
         status # "unsafe" \/ (pc[p] = "complete" /\ rc[p] # 0)

-----------------------------------------------------------------------------
(* The refinement: what the state file, the lock and the descriptors        *)
(* promise, with the history variables as the abstract phase and requests. *)

AbstractPhase ==
  IF tainted THEN "broken"
  ELSE IF \E p \in Proc : InMaintenance(p) THEN "maintaining" ELSE "quiet"
AbstractRequest ==
  [p \in Proc |-> IF kind[p] # "wake" THEN "none"
                  ELSE IF stale[p] THEN "outdated" ELSE "valid"]

Fenced == INSTANCE MaintenanceFence WITH
            Slot <- Proc, phase <- AbstractPhase, request <- AbstractRequest,
            starting <- {p \in Proc : WakeActs(p)}

\* The lock, the sticky marker and the generation fence together implement the
\* exclusion that web, jobd, idle-watch and palworld-knock rely on.
ImplementsFence == Fenced!Spec

\* A failed maintenance is accounted for from the moment it fails, nothing has
\* failed before it begins, and a command that outlives its controller belongs
\* to a failed one.
BrokenInv ==
  /\ \A p \in Proc : pc[p] \in {"queued", "acquire", "recheck", "begin", "escalate",
                              "publish"} => rc[p] = 0
  /\ \A p \in Proc : InMaintenance(p) /\ rc[p] # 0 => tainted
  /\ \A p \in Proc : MaintenanceActs(p) => InMaintenance(p) \/ tainted
=============================================================================
