------------------------------ MODULE JobQueue ------------------------------
(* The job queue of the web control plane: one JSON file per job, written  *)
(* by the threads of palwarden-webui (admission, then create_job) and by   *)
(* the root worker palwarden-jobd (claim, run, bookkeeping, reaping after  *)
(* a crash, pruning).  Every file write is atomic; everything between two  *)
(* writes is a point where a process may die.                              *)
(*                                                                         *)
(* Jobs are of three kinds: maintenance (disruptive actions wrapped in a   *)
(* lifecycle transaction), config (palwarden_config_save, whose raw file   *)
(* holds the knock token until it is scrubbed) and the others.             *)
(*                                                                         *)
(* Abstractions: the lifecycle state is its status, written in one step    *)
(* (Lifecycle takes the writes apart); what other controllers do to it is  *)
(* an acknowledgement and a busy lock.  backup_restore, which owns its own *)
(* transaction, is in Lifecycle only.  time_ns never steps back.           *)
EXTENDS Naturals, FiniteSets

CONSTANTS
  Job,          \* the requests that may be posted; a job id is never reused
  Maintenance,  \* the jobs of a wrapped disruptive action
  Config,       \* the palwarden_config_save jobs with a replacement token
  Worker,       \* palwarden-jobd processes
  ListLimit,    \* JOBS_LIST_LIMIT of the web UI
  ScanLimit,    \* the limit=1000 of the worker's scans
  MaxMishaps,   \* bound: crashes, vanished files and one-shot workers
  Faults        \* whether a write may fail (full disk)

ASSUME KindAssumption ==
  Maintenance \subseteq Job /\ Config \subseteq Job /\ Maintenance \cap Config = {}
ASSUME LimitAssumption ==
  ListLimit \in Nat \ {0} /\ ScanLimit \in Nat \ {0} /\ MaxMishaps \in Nat
ASSUME FaultsAssumption == Faults \in BOOLEAN

VARIABLES
  state,     \* where each request is; the file says queued, running, ...
  seq,       \* the job's sequence number (time_ns; 0: not minted)
  clock,     \* the newest sequence number
  token,     \* the job files that hold a raw token
  wpc,       \* where each worker is
  wmode,     \* "daemon", "once" or "reap"
  wjob,      \* the job a worker is busy with, as a set
  wrc,       \* "ok", "fail" or "raised": what became of the steps
  owner,     \* the workers that own the lifecycle lock
  acting,    \* the jobs with live step processes
  life,      \* the lifecycle status
  mishaps,   \* how many mishaps there were
  before,    \* history: what was queued when a job was minted
  runs,      \* history: how often the steps of a job were started
  dirty      \* history: a maintenance was interrupted or failed, unacknowledged

vars == <<state, seq, clock, token, wpc, wmode, wjob, wrc, owner, acting, life,
          mishaps, before, runs, dirty>>
webVars    == <<seq, clock, before>>
workerVars == <<wmode, wjob, wrc>>
lifeVars   == <<owner, life, dirty>>
stepVars   == <<acting, runs>>

Terminal   == {"succeeded", "failed"}
Unfinished == {"queued", "running"}
JobState   == {"unsent", "admitted", "minted", "gone"} \cup Unfinished \cup Terminal

Init ==
  /\ state = [j \in Job |-> "unsent"]
  /\ seq = [j \in Job |-> 0] /\ clock = 0
  /\ token = {}
  /\ wpc = [w \in Worker |-> "off"]
  /\ wmode = [w \in Worker |-> "daemon"]
  /\ wjob = [w \in Worker |-> {}]
  /\ wrc = [w \in Worker |-> "ok"]
  /\ owner = {} /\ acting = {} /\ life = "idle"
  /\ mishaps = 0
  /\ before = [j \in Job |-> {}]
  /\ runs = [j \in Job |-> 0]
  /\ dirty = FALSE

-----------------------------------------------------------------------------
(* What a reader of the queue sees.                                        *)

Files == {j \in Job : state[j] \in Unfinished \cup Terminal}
\* list_jobs: newest first, cut at a limit.
Listed(limit) ==
  {j \in Files : Cardinality({k \in Files : seq[k] > seq[j]}) < limit}

\* find_blocking_job.
Blocking(j) == {k \in Listed(ListLimit) : state[k] \in Unfinished /\ k \in Maintenance}

-----------------------------------------------------------------------------
(* A POST /api/jobs, in a thread of its own.                               *)

Admit(j) ==
  /\ state[j] = "unsent"
  /\ j \in Maintenance => Blocking(j) = {}
  /\ state' = [state EXCEPT ![j] = "admitted"]
  /\ UNCHANGED <<webVars, token, wpc, workerVars, lifeVars, stepVars, mishaps>>

\* create_job mints the id and the sequence number ...
Mint(j) ==
  /\ state[j] = "admitted"
  /\ state' = [state EXCEPT ![j] = "minted"]
  /\ clock' = clock + 1
  /\ seq' = [seq EXCEPT ![j] = clock + 1]
  /\ before' = [before EXCEPT ![j] = {k \in Job : state[k] = "queued"}]
  /\ UNCHANGED <<token, wpc, workerVars, lifeVars, stepVars, mishaps>>

\* ... and the rename makes the file visible, or the write fails (HTTP 500).
Store(j) ==
  /\ state[j] = "minted"
  /\ \/ /\ state' = [state EXCEPT ![j] = "queued"]
        /\ token' = token \cup ({j} \cap Config)
     \/ /\ Faults
        /\ state' = [state EXCEPT ![j] = "gone"]
        /\ UNCHANGED token
  /\ UNCHANGED <<webVars, wpc, workerVars, lifeVars, stepVars, mishaps>>

-----------------------------------------------------------------------------
(* The worker: start, reap.                                                *)

Goto(w, there) == wpc' = [wpc EXCEPT ![w] = there]
Busy(w, j) == wjob[w] = {j}
\* A process that ends keeps nothing.
Exit(w) ==
  /\ Goto(w, "off")
  /\ wmode' = [wmode EXCEPT ![w] = "daemon"]
  /\ wjob' = [wjob EXCEPT ![w] = {}]
  /\ wrc' = [wrc EXCEPT ![w] = "ok"]
Mishap == mishaps < MaxMishaps /\ mishaps' = mishaps + 1

\* jobd.lock, held for the life of the process in every mode.
\* Mutant: a worker does not take it.
AnyWorker == TRUE
NoWorker == \A w \in Worker : wpc[w] = "off"

\* s6 or systemd runs the daemon; an operator may run --once or --reap.
Start(w, mode) ==
  /\ wpc[w] = "off" /\ NoWorker
  /\ IF mode = "daemon" THEN UNCHANGED mishaps ELSE Mishap
  /\ wmode' = [wmode EXCEPT ![w] = mode]
  /\ Goto(w, IF mode = "daemon" THEN "init" ELSE "reap")
  /\ UNCHANGED <<state, webVars, token, wjob, wrc, lifeVars, stepVars>>

\* Nobody has a descriptor on the lifecycle lock.
\* Mutant: the steps of a job do not inherit it.
UnownedLife == owner = {}
FreeLife == owner = {} /\ acting \cap Maintenance = {}

\* init_runtime, best effort: an abandoned `active` becomes `unsafe`.
InitRuntime(w) ==
  /\ wpc[w] = "init"
  /\ \/ FreeLife /\ life' = (IF life = "active" THEN "unsafe" ELSE life)
     \/ UNCHANGED life
  /\ Goto(w, "reap")
  /\ UNCHANGED <<state, webVars, token, workerVars, owner, dirty, stepVars, mishaps>>

\* reap_orphans, one job left `running` after another.
\* Mutant: nothing is reaped.
NoOrphans == {}
Orphans == {j \in Listed(ScanLimit) : state[j] = "running"}
\* Mutant: the token of an orphan is not scrubbed.
KeptOnReap(j) == token
ScrubbedOnReap(j) == token \ {j}
ReapScrub(w) ==
  /\ wpc[w] = "reap"
  /\ \E j \in Orphans :
       /\ token' = ScrubbedOnReap(j)
       /\ wjob' = [wjob EXCEPT ![w] = {j}]
  /\ Goto(w, "reapFail")
  /\ UNCHANGED <<state, webVars, wmode, wrc, lifeVars, stepVars, mishaps>>

\* Mutant: an orphan is queued again.
Requeued == "queued"
Reaped == "failed"
ReapFail(w) ==
  /\ wpc[w] = "reapFail"
  /\ \E j \in Job :
       /\ Busy(w, j) /\ state[j] # "gone"
       /\ state' = [state EXCEPT ![j] = Reaped]
       /\ Goto(w, IF j \in Maintenance THEN "reapMark" ELSE "reap")
  /\ UNCHANGED <<webVars, token, workerVars, lifeVars, stepVars, mishaps>>

\* Best effort, without the lifecycle lock.
ReapMark(w) ==
  /\ wpc[w] = "reapMark"
  /\ life' = "unsafe" \/ (Faults /\ UNCHANGED life)
  /\ Goto(w, "reap")
  /\ UNCHANGED <<state, webVars, token, workerVars, owner, dirty, stepVars, mishaps>>

ReapDone(w) ==
  /\ wpc[w] = "reap" /\ Orphans = {}
  /\ IF wmode[w] = "reap" THEN Exit(w)
     ELSE Goto(w, "poll") /\ wjob' = [wjob EXCEPT ![w] = {}] /\ UNCHANGED <<wmode, wrc>>
  /\ UNCHANGED <<state, webVars, token, lifeVars, stepVars, mishaps>>

\* A raise inside reap_orphans is not caught: the process ends.
ReapRaises(w) ==
  /\ wpc[w] \in {"reap", "reapFail", "reapMark"}
  /\ Faults \/ (wpc[w] = "reapFail" /\ \E j \in Job : Busy(w, j) /\ state[j] = "gone")
  /\ Exit(w)
  /\ UNCHANGED <<state, webVars, token, lifeVars, stepVars, mishaps>>

-----------------------------------------------------------------------------
(* The worker: poll_once.                                                  *)

Queued == {j \in Listed(ScanLimit) : state[j] = "queued"}
\* Mutant: the newest job is claimed.
Newest(j, S) == \A k \in S : seq[k] <= seq[j]
Oldest(j, S) == \A k \in S : seq[j] <= seq[k]

\* claim_next reads the queue ...
Pick(w) ==
  /\ wpc[w] = "poll"
  /\ \/ \E j \in Queued :
          /\ Oldest(j, Queued)
          /\ wjob' = [wjob EXCEPT ![w] = {j}]
          /\ Goto(w, "claim")
     \/ /\ Queued = {}
        /\ Goto(w, "prune") /\ UNCHANGED wjob
  /\ UNCHANGED <<state, webVars, token, wmode, wrc, lifeVars, stepVars, mishaps>>

\* ... and update_job writes the claim.  A failure there is swallowed.
Claim(w) ==
  /\ wpc[w] = "claim"
  /\ \E j \in Job :
       /\ Busy(w, j)
       /\ \/ /\ state[j] # "gone"
             /\ state' = [state EXCEPT ![j] = "running"]
             /\ Goto(w, "claimed")
          \/ /\ Faults \/ state[j] = "gone"
             /\ Goto(w, "prune") /\ UNCHANGED state
  /\ wrc' = [wrc EXCEPT ![w] = "ok"]
  /\ UNCHANGED <<webVars, token, wmode, wjob, lifeVars, stepVars, mishaps>>

Fail(w)   == wrc' = [wrc EXCEPT ![w] = "fail"]
Refuse(w) == Fail(w) /\ Goto(w, "scrub")

\* validate_params refuses what the worker would not run.
Validate(w) ==
  /\ wpc[w] = "claimed"
  /\ \/ Refuse(w)
     \/ \E j \in Job : /\ Busy(w, j)
                       /\ Goto(w, IF j \in Maintenance THEN "acquire" ELSE "steps")
                       /\ UNCHANGED wrc
  /\ UNCHANGED <<state, webVars, token, wmode, wjob, lifeVars, stepVars, mishaps>>

\* The lifecycle lock, without waiting; another controller may have it.
Acquire(w) ==
  /\ wpc[w] = "acquire"
  /\ \/ /\ FreeLife
        /\ owner' = owner \cup {w}
        /\ Goto(w, "begin") /\ UNCHANGED wrc
     \/ Refuse(w) /\ UNCHANGED owner
  /\ UNCHANGED <<state, webVars, token, wmode, wjob, life, dirty, stepVars, mishaps>>

\* begin_transaction: publish, escalate an abandoned `active`, keep `unsafe`.
Begin(w) ==
  /\ wpc[w] = "begin"
  /\ \/ /\ life' = IF life = "idle" THEN "active" ELSE "unsafe"
        /\ Goto(w, "steps") /\ UNCHANGED wrc
     \/ Faults /\ Fail(w) /\ Goto(w, "release") /\ UNCHANGED life
  /\ UNCHANGED <<state, webVars, token, wmode, wjob, owner, dirty, stepVars, mishaps>>

Run(w) ==
  /\ wpc[w] = "steps"
  /\ \E j \in Job :
       /\ Busy(w, j)
       /\ runs' = [runs EXCEPT ![j] = @ + 1]
       /\ acting' = acting \cup {j}
  /\ Goto(w, "running")
  /\ UNCHANGED <<state, webVars, token, workerVars, lifeVars, mishaps>>

\* The steps succeed, or one fails; a step that is killed at its timeout, or
\* whose output cannot be recorded, may leave a process behind.
RunEnds(w) ==
  /\ wpc[w] = "running"
  /\ \E j \in Job, rc \in {"ok", "fail", "raised"} :
       /\ Busy(w, j)
       /\ rc = "raised" => Faults \/ state[j] = "gone"
       /\ wrc' = [wrc EXCEPT ![w] = rc]
       /\ acting' \in {acting \ {j}} \cup (IF rc = "ok" THEN {} ELSE {acting})
       /\ dirty' = (dirty \/ (j \in Maintenance /\ rc # "ok"))
       /\ Goto(w, IF j \in Maintenance THEN "mark"
                  ELSE IF rc = "raised" THEN "errMark" ELSE "scrub")
  /\ UNCHANGED <<state, webVars, token, wmode, wjob, owner, life, runs, mishaps>>

\* _mark_state at the end of the transaction; `unsafe` is sticky.
\* Mutants: the exit code is ignored; the vocabulary of the queue is written.
CompletedAlways(rc) == IF life = "unsafe" THEN "unsafe" ELSE "idle"
CompletedAsJob(rc) == IF rc = "ok" THEN "succeeded" ELSE "failed"
Completed(rc) == IF life = "unsafe" \/ rc # "ok" THEN "unsafe" ELSE "idle"
Mark(w) ==
  /\ wpc[w] = "mark"
  /\ life' = Completed(wrc[w]) \/ (Faults /\ UNCHANGED life)
  /\ Goto(w, "release")
  /\ UNCHANGED <<state, webVars, token, workerVars, owner, dirty, stepVars, mishaps>>

\* The release is in a finally of its own.
Released(w) == owner \ {w}
Release(w) ==
  /\ wpc[w] = "release"
  /\ owner' = Released(w)
  /\ Goto(w, IF wrc[w] = "raised" THEN "errMark" ELSE "scrub")
  /\ UNCHANGED <<state, webVars, token, workerVars, life, dirty, stepVars, mishaps>>

Scrub(w) ==
  /\ wpc[w] = "scrub"
  /\ \E j \in Job :
       /\ Busy(w, j)
       /\ \/ token' = token \ {j} /\ Goto(w, "finish")
          \/ Faults /\ j \in token /\ UNCHANGED token /\ Goto(w, "errMark")
  /\ UNCHANGED <<state, webVars, workerVars, lifeVars, stepVars, mishaps>>

Finish(w) ==
  /\ wpc[w] = "finish"
  /\ \E j \in Job :
       /\ Busy(w, j)
       /\ \/ /\ state[j] # "gone"
             /\ state' = [state EXCEPT ![j] = IF wrc[w] = "ok" THEN "succeeded"
                                              ELSE "failed"]
             /\ Goto(w, "prune")
          \/ /\ Faults \/ state[j] = "gone"
             /\ Goto(w, "errMark") /\ UNCHANGED state
  /\ UNCHANGED <<webVars, token, workerVars, lifeVars, stepVars, mishaps>>

\* poll_once after an internal error: mark, scrub, finish, each best effort.
ErrMark(w) ==
  /\ wpc[w] = "errMark"
  /\ \/ wjob[w] \subseteq Maintenance /\ life' = "unsafe"
     \/ (Faults \/ wjob[w] \cap Maintenance = {}) /\ UNCHANGED life
  /\ Goto(w, "errScrub")
  /\ UNCHANGED <<state, webVars, token, workerVars, owner, dirty, stepVars, mishaps>>

ErrScrub(w) ==
  /\ wpc[w] = "errScrub"
  /\ token' = token \ wjob[w] \/ (Faults /\ UNCHANGED token)
  /\ Goto(w, "errFinish")
  /\ UNCHANGED <<state, webVars, workerVars, lifeVars, stepVars, mishaps>>

ErrFinish(w) ==
  /\ wpc[w] = "errFinish"
  /\ \E j \in Job :
       /\ Busy(w, j)
       /\ \/ state[j] # "gone" /\ state' = [state EXCEPT ![j] = "failed"]
          \/ (Faults \/ state[j] = "gone") /\ UNCHANGED state
  /\ Goto(w, "prune")
  /\ UNCHANGED <<webVars, token, workerVars, lifeVars, stepVars, mishaps>>

\* Terminal files past their age go.
Prune(w) ==
  /\ wpc[w] = "prune"
  /\ \E old \in SUBSET {j \in Listed(ScanLimit) : state[j] \in Terminal} :
       /\ state' = [j \in Job |-> IF j \in old THEN "gone" ELSE state[j]]
       /\ token' = token \ old
  /\ IF wmode[w] = "once" THEN Exit(w)
     ELSE /\ Goto(w, "poll")
          /\ wjob' = [wjob EXCEPT ![w] = {}] /\ wrc' = [wrc EXCEPT ![w] = "ok"]
          /\ UNCHANGED wmode
  /\ UNCHANGED <<webVars, lifeVars, stepVars, mishaps>>

-----------------------------------------------------------------------------
(* The rest of the world.                                                  *)

\* A step process that its worker no longer waits for ends.
StepEnds(j) ==
  /\ j \in acting
  /\ \A w \in Worker : ~(wpc[w] = "running" /\ Busy(w, j))
  /\ acting' = acting \ {j}
  /\ UNCHANGED <<state, webVars, token, wpc, workerVars, lifeVars, runs, mishaps>>

\* The worker is killed; the step it was running goes on.
Crash(w) ==
  /\ wpc[w] # "off" /\ Mishap
  /\ Exit(w)
  /\ owner' = owner \ {w}
  /\ dirty' = (dirty \/ (wpc[w] = "running" /\ wjob[w] \subseteq Maintenance))
  /\ UNCHANGED <<state, webVars, token, life, stepVars>>

\* The web server dies, and with it the requests it was about to store.
WebCrash ==
  /\ \E j \in Job : state[j] \in {"admitted", "minted"}
  /\ Mishap
  /\ state' = [j \in Job |-> IF state[j] \in {"admitted", "minted"} THEN "gone"
                             ELSE state[j]]
  /\ UNCHANGED <<webVars, token, wpc, workerVars, lifeVars, stepVars>>

\* Somebody removes a job file by hand.
Vanish(j) ==
  /\ j \in Files /\ Mishap
  /\ state' = [state EXCEPT ![j] = "gone"]
  /\ token' = token \ {j}
  /\ UNCHANGED <<webVars, wpc, workerVars, lifeVars, stepVars>>

Acknowledge ==
  /\ FreeLife /\ life = "unsafe"
  /\ life' = "idle" /\ dirty' = FALSE
  /\ UNCHANGED <<state, webVars, token, wpc, workerVars, owner, stepVars, mishaps>>

-----------------------------------------------------------------------------
WorkerStep(w) ==
  \/ InitRuntime(w)
  \/ ReapScrub(w) \/ ReapFail(w) \/ ReapMark(w) \/ ReapDone(w) \/ ReapRaises(w)
  \/ Pick(w) \/ Claim(w) \/ Validate(w) \/ Acquire(w) \/ Begin(w) \/ Run(w)
  \/ RunEnds(w) \/ Mark(w) \/ Release(w) \/ Scrub(w) \/ Finish(w)
  \/ ErrMark(w) \/ ErrScrub(w) \/ ErrFinish(w) \/ Prune(w)

Next ==
  \/ \E j \in Job : Admit(j) \/ Mint(j) \/ Store(j) \/ StepEnds(j) \/ Vanish(j)
  \/ \E w \in Worker :
       \/ WorkerStep(w) \/ Crash(w)
       \/ \E mode \in {"daemon", "once", "reap"} : Start(w, mode)
  \/ WebCrash \/ Acknowledge

Spec == Init /\ [][Next]_vars

\* s6 restarts the daemon, a worker that runs keeps running (its waits are
\* bounded: STEP_TIMEOUT, the backup lock wait) and a step left behind ends.
Fairness ==
  /\ WF_vars(\E w \in Worker : Start(w, "daemon"))
  /\ \A w \in Worker : WF_vars(WorkerStep(w))
  /\ \A j \in Job : WF_vars(StepEnds(j))

FairSpec == Spec /\ Fairness

-----------------------------------------------------------------------------
(* Properties.                                                             *)

WorkerPC == {"off", "init", "reap", "reapFail", "reapMark", "poll", "claim",
             "claimed", "acquire", "begin", "steps", "running", "mark", "release",
             "scrub", "finish", "errMark", "errScrub", "errFinish", "prune"}

\* Every variable stays in its range.
TypeOK ==
  /\ state \in [Job -> JobState]
  /\ seq \in [Job -> Nat] /\ clock \in Nat
  /\ token \subseteq Job /\ acting \subseteq Job
  /\ wpc \in [Worker -> WorkerPC]
  /\ wmode \in [Worker -> {"daemon", "once", "reap"}]
  /\ wjob \in [Worker -> SUBSET Job]
  /\ wrc \in [Worker -> {"ok", "fail", "raised"}]
  /\ owner \subseteq Worker
  /\ life \in {"idle", "active", "unsafe"}
  /\ mishaps \in Nat
  /\ before \in [Job -> SUBSET Job] /\ runs \in [Job -> Nat]
  /\ dirty \in BOOLEAN

\* The steps of a job are started at most once, across crashes, restarts and
\* reaping: an update or a restore is never run again by a new worker.
AtMostOnce == \A j \in Job : runs[j] <= 1

\* A job that has failed or succeeded stays so until its file goes: no late
\* bookkeeping of another worker revives it.
TerminalIsFinal ==
  [][\A j \in Job : state[j] \in Terminal => state'[j] \in {state[j], "gone"}]_state

\* "runs one job at a time, oldest first, so a restart cannot race an update":
\* no two maintenances have live processes, even after the worker that ran one
\* of them died.
NoRacingMaintenance ==
  \A i, j \in acting \cap Maintenance : i = j

\* A job is never claimed while one that was queued before it was even minted
\* is still waiting.
OldestFirst ==
  \A j \in Job : state[j] \in {"running"} \cup Terminal =>
    \A k \in before[j] : state[k] # "queued"

\* After a maintenance that failed or lost its worker, automatic starts stay
\* inhibited until an acknowledgement, whichever bookkeeping failed.
InterruptedInhibits == dirty => life # "idle"

\* The raw knock token is gone from every job file that is terminal.
NoTokenInHistory == \A j \in token : state[j] \notin Terminal

\* Every stored job is claimed and brought to an end, or reaped; a job that
\* fails in an unforeseen way does not stop the queue.
QueueDrains ==
  \A j \in Job : state[j] \in Unfinished ~> state[j] \in Terminal \cup {"gone"}

\* `palwarden-jobd` "runs one job at a time" (design of the control plane).
OneJobAtATime == \A i, j \in acting : i = j

\* "409 a disruptive job is already queued or running" (docs/tools.md).
OneDisruptivePending ==
  \A i, j \in Maintenance : state[i] \in Unfinished /\ state[j] \in Unfinished => i = j
=============================================================================
