# palwarden: specification, model checking and proofs

palwarden operates a Palworld dedicated server: it starts, stops, updates,
backs up and restores it, shuts it down when nobody plays, wakes it on a knock,
and offers all of that through a web panel. It is a set of small Python and
bash programs that share a host (or a container) and coordinate through a few
files, file locks and the supervisor. What makes it hard is not any single
program. It is that every one of them may be killed between two writes while
the commands it started go on, and that six or seven of them may want to move
the same service or the same world at the same moment.

This directory holds TLA+ modules of the parts of palwarden that decide
something, TLC configurations that check them on small instances, and TLAPS
proofs of every safety property they check, for all instances.

1. [Inventory of the system](#1-inventory)
2. [The modules and how they correspond to the code](#2-modules)
3. [The runs: what is checked, bounds, fairness](#3-runs)
4. [What is proved, and how](#4-proofs)
5. [Where code and documentation disagree](#5-disagreements)
6. [What is only model-checked, what is not modelled](#6-limits)
7. [Plan](#7-plan)

Paths below are relative to `src/`.

## 1. Inventory

| Component | State it keeps | Operations | Shares with |
|---|---|---|---|
| Lifecycle library (`lib/palwarden_lifecycle.py`, `lib/palwarden-lifecycle-bash`) | flock file, `state.json` (status, generation), cooldown file | acquire/borrow/release, begin, write_state, complete, start_if_down, init_runtime, acknowledge | everything that moves the service |
| Controller scripts (`sbin/palworld-graceful-stop`, `-graceful-restart`, `-update`) | none of their own | mark, stop, wait, edit, clear, start | service, marker, lifecycle |
| systemctl shim (`docker/shims/systemctl`) | the `down` marker of the service directory | start, stop, restart | supervisor, lifecycle |
| Supervisor and game (`docker/s6-rc.d/palworld-server/run`) | up/down, wanted up/down | restart of an exited game | all controllers |
| Job store (`lib/palwarden_jobs.py`) | one JSON file per job | create, claim, update, list, prune | web UI, jobd |
| Job worker (`sbin/palwarden-jobd`) | jobd lock, lifecycle lock, backup lock, transaction marker | reap, poll, validate, run steps, mark, scrub, finish | job store, lifecycle, tools |
| Admission in the web UI (`sbin/palwarden-webui`) | none | find a blocking job, mint a wake fence, store a job | job store, lifecycle |
| Presence evidence (`lib/palwarden_presence.py`, `sbin/palworld-fps`) | one row: validity, newest sequence, last success, empty since | reserve, apply, invalidate, read_eligibility | idle watcher |
| Idle watcher (`sbin/palworld-idle-watch`) | none | look, recheck under the lock, publish, last gates, stop | presence, lifecycle, `ops.env` |
| Knock listener (`sbin/palworld-knock`) | a UDP socket for a lease of one second | lease, receive, revalidate, start | lifecycle, `ops.env`, game port |
| Backups (`sbin/palworld-backup`, `-backups`, `docker/s6-rc.d/backup-auto/run`) | archives | tick, tar, rename, prune, delete | backup lock, world |
| Restore (`sbin/palworld-restore`) | staging, replaced and live trees | import, stop, swap out, swap in, start, clean, roll back | world, lifecycle, archives |
| Operator configuration (`lib/palwarden_ops.py`) | `ops.env` | parse, resolve, merge, write, seed | container start, web UI, jobd, idle watcher, knock |
| Engine and game configuration (`sbin/palworld-engine-config`, `-config-apply-env`, `bin/palworld-config-parser`) | `Engine.ini`, `PalWorldSettings.ini`, their env files, backups | save, apply, roll back | the game, controllers, jobd, a shell |
| Container start (`docker/entrypoint.sh`) | none | remove the marker, init_runtime, seed, apply the configuration | lifecycle, both configurations |
| Save parser (`lib/palwarden_gvas.py`) | a cursor, a stack of containers, the errors | decompress, header, property tree, recovery | web UI |
| Archive validator (`lib/palwarden_archive.py`) | none | validate | restore, web UI |
| Watchdogs and reports (`sbin/palworld-memory-watch`, `-service-events`, `-health-report`, ...) | logs | read, announce | controllers |
| Web UI (`sbin/palwarden-webui`, `webui/`) | sessions | HTTP | job store, read-only views |

**How they interact.** There are three locks. The *lifecycle lock* is an flock
whose descriptor is inherited by every command its owner starts: it is free when
the last of them has gone, and code that was handed a descriptor borrows it. The
*jobd lock* admits one worker. The *backup lock* serialises the backup tick and
the world jobs of jobd; its descriptor is not inherited. Beside the locks there
is one persistent fact: the lifecycle status. A maintenance writes `active`
before its first mutation and `idle` after its success; whoever finds `active`
under the lock, or sees its own maintenance fail, leaves `unsafe`, which only an
operator's acknowledgement clears. Automatic starts need `idle`. A wake that the
web UI has admitted carries the generation of `state.json` and an expiry; both
are compared again when the worker runs it, after any delay in the queue.

**What is hard.** Interleavings of owners, of commands that outlive them and of
the one writer that takes no lock (the reaper); crashes between any two writes,
of a process, of its child, or of the whole container; read-modify-write of
`state.json`; decisions made on what was read before a lock, a request, or a
notification; observations that overlap and come back in another order; clocks
that are set; a disk that fills up between two of the three updates of a failed
job; moves of the world tree that fail halfway, across mounts; archives that are
listed while others are added and removed; a configuration file that a seed, a
save, an editor and four kinds of readers meet in; another one that the game
itself writes back from memory when it exits; a save file in which one damaged
byte moves the cursor of a recursive reader. Each of these is listed, with its
line, under `hazards` in `PROJECT.json`, with the properties that cover it.

**What makes each part correct.**

- *Lifecycle*: maintenances and automatic starts exclude each other, dead
  owners included; a maintenance that failed keeps every automatic start out
  until an acknowledgement; an outdated wake is never honoured; the lock comes
  back.
- *Controllers and shim*: a success that is reported has happened to the
  service; the marker and what the supervisor wants agree between controllers;
  nothing is edited while the game runs.
- *Jobs*: the steps of a job run at most once; no two maintenances at a time;
  submission order; an interrupted maintenance inhibits; terminal states are final; no token is left in a finished job; the queue
  drains.
- *Idle cycle*: an idle stop needs a whole timeout of empty answers and a policy
  still in force; an older answer never wins over a newer one; the listener has
  the port only while the game is down.
- *World*: archives are whole; retention keeps its floor beside adds and deletes;
  tar and restore do not overlap, and a world is archived before it is replaced,
  while everything runs under the backup lock; a restore that stops anywhere
  leaves the previous world on disk behind a status that keeps automatic starts
  out.
- *Operator configuration*: a reader gets a configuration that was in effect
  while it read, never a mixture or the defaults; a save changes the keys it was
  given; what was saved survives crashes, losses of power and other seeds.
- *Game configuration*: what a restart applied undisturbed is what the game runs
  with from then on, although the game rewrites the file; what a tool has copied
  and overwritten can be rolled back to.
- *Save parser*: damage costs the container it is in and nothing beside it;
  nothing is lost without an error; every file is read to an end.

## 2. Modules

```
MaintenanceFence  <---refines---  Lifecycle  <--  MCLifecycle         (runs)
        ^                            ^  ^
        +--- LifecycleRefinement ----+  +--------  LifecycleProofs    (proofs)

JobQueue   <-- MCJobQueue,   JobQueueProofs      IdleCycle  <-- MCIdleCycle,  IdleCycleProofs
WorldData  <-- MCWorldData,  WorldDataProofs     OpsConfig  <-- MCOpsConfig,  OpsConfigProofs
GameConfig <-- MCGameConfig, GameConfigProofs    SaveParser <-- MCSaveParser, SaveParserProofs
```

`JobQueue`, `IdleCycle` and `WorldData` each contain as much of the lifecycle
protocol as their own properties need (its lock and its status, written in one
step); `Lifecycle` takes the writes apart and has the controllers of the other
three as its kinds of processes. `OpsConfig` and `GameConfig` have jobd, one job
at a time, as one of the hands on their files; `SaveParser` is sequential.

### Lifecycle

A *slot* (`Proc`) runs one process at a time; a free slot may become any process
of the `Workload`:

| kind | program | lock | after the lock |
|---|---|---|---|
| `cli` | a bash controller through `acquire -- CMD`, or the shim | bounded wait | begin, publish, body, complete |
| `job` | a disruptive job of jobd | no wait | the same, with a step timeout; an orphan if its worker dies |
| `idle` | palworld-idle-watch | no wait | recheck, then the same; success needs the service stopped |
| `restore` | palworld-restore | bounded wait | the same; jobd may die beside it (`WorkerDies`) |
| `wake` | a wake of the web UI, dispatched by jobd | no wait | fence, check, arm, start, confirm, rotate |
| `knock` | a wake without a fence | bounded wait | check, arm, start, confirm, rotate |
| `init` | `init_runtime` | | `active` becomes `unsafe`, `idle` gets a new generation |
| `ack` | acknowledge-maintenance | | needs the service stopped; forces `idle` |
| `reap` | `reap_orphans` of jobd | **none** | writes `unsafe` |

`holders` is the set of open descriptors, `<<p, "owner">>` or `<<p, "child">>`;
the lock is free when it is empty. `write_state` is two steps, `WriteRead` (read,
refuse to leave `unsafe`) and `WriteReplace`, or `WriteFails` instead of the
second. The body of a maintenance is a child that takes the steps of its
`Script` in order (`Fetch`, `Probe`, `Mark`, `Down`, `Await`, `Edit`, `Clear`,
`Up`, `Bounce`, `Ready`), each with the failures the script tolerates or dies
of. When a process or a child is killed, `Survivor` says which command it had in
flight and goes on with the inherited descriptor. `Boot` is a restart of the
container: everything dies, the state volume and the queued jobs stay.

A write or a removal of the marker may fail, and the scripts go on without a word
(`|| true`): `Mark`, `Clear` and the removal in `Boot` may leave the file as it is.

Three variables are history, read by no action that models code: `tainted` (a
maintenance ended without success and nobody has acknowledged it), `stale[p]`
(something outdated the wake `p` after its admission) and `meant` (whether the
marker was last to be written or to be removed). `SuccessMeansDone` is about the
service, the order to the supervisor and `meant`, since a script cannot report what
it ignores; `StoppedIsWantedDown` is about the file itself, and names the one
exception that a failed removal makes.

### MaintenanceFence and LifecycleRefinement

`MaintenanceFence` is what the other components may rely on, in three variables:
a phase (`quiet`, `maintaining`, `broken`), the request of each slot (`none`,
`valid`, `outdated`) and the slots that are starting the service. `Lifecycle`
instantiates it with `AbstractPhase`, `AbstractRequest` and the set of wakes
that act; `ImplementsFence` is checked by TLC (`Lifecycle_safety`) and proved
(`LifecycleRefinement!Refinement`).

### JobQueue

One request per element of `Job`, from the admission by a thread of the web
server (`Admit`, `Mint`, `Store` apart, so that threads interleave) to the end
of its file. Workers have a mode (`daemon`, `once`, `reap`), the jobd lock and a
program counter with one value for every point between two file writes: reap
(scrub, fail, mark), pick the oldest of the scanned window, claim, validate,
acquire, begin, run, mark, release, scrub, finish, the error path (mark, scrub,
finish), prune. With `Faults`, every write may fail. The steps of a job that lost
its worker stay in `acting` until they end by themselves.

### IdleCycle

Time is kept as ages, as the wall clock measures them: `Tick` is time that
passes, `SetClock` a step of the clock, which moves the ages of everything
stored and passes no time. Sequence numbers are kept as an order: `before[o]`
are the observations reserved before `o` that are still pending. The observers
are the samplers (palworld-fps passes) and the watcher's own final request.
The watcher looks, acquires, rechecks, asks, publishes `active`, looks at the
policy and at the evidence again, and only then dispatches. The knock listener
has a lease, in which it holds the lifecycle lock, confirms the service stopped,
binds, receives, revalidates, closes the socket and starts. Every other
controller is one actor.

### WorldData

`disk` maps a place (the live `Saved`, and the staging and the replaced tree of
each restore) to what is at its two top-level names: nothing, a part of an
entry, or an entry of the old or the new world. A move is one step when it is a
rename; across a mount it is a copy (`MoveBegins`, `MoveCopies`) and a removal
(`MoveEnds`) that may fail or be killed at any point; the removal of a part that
was copied may fail as well. Archives are ordered by name. The stamp of a backup is
any number the clock may give, again or out of order, and the rename replaces an
archive that has the name (`Archived`); an upload may have a stamp of the future and
may lack an entry (`RunsImport`, `Upload`), which `made` tells apart from what a
backup wrote. `got` is what a running tar has read so far. A command is run by jobd
under the backup lock (`JobBegins`, `Locked`, `JobEnds`, `JobdDies`, `Reap`) or
from a shell, without it (`ShellRuns`). jobd does not take the lifecycle lock
for a restore: palworld-restore takes it after its safety backup, and releases
it before it removes the replaced tree. `loose` counts how often something ran
without the backup lock: a shell command, a restore whose jobd died, since that
lock is not inherited, or a hand that moves a world back beside a tick or a job.
`gone` is history: the names that others have deleted since the tick listed them.
The staging tree of a restore that is over is forgotten, since nobody reads it.

### OpsConfig

A text is a sequence of lines, each a key, a value and whether it is written as
`json.dumps` writes it; a configuration maps each key to its canonical string.
`Parsed` is `parse_file` line by line, `Accepts` is `canonical`, `FromEnv` is
`resolve` without a file, `Merged` is `merge`. The one writer `w` is the seeder
while the container boots and jobd afterwards; its steps are those between which
another process can look: `lstat`, read, check, fill the temporary file, rename,
sync of the directory. `disk` is the set of what the name may show after a loss
of power: the old and the new content until the directory is synced. A reader
has its `lstat` and its read apart. An edit by hand truncates first and writes
later; when a save replaces the file in between, the edit goes on in the
replaced inode. `Meaning` is the reference definition: a text says something if
and only if `render` produces it from a valid configuration.

History: `intended` and `since` (what was in effect while a reader read),
`handed` (an edit was under way), `kept` (what has been synced).

### GameConfig

A behaviour is about one of the two files (`kind`), which share nothing. `ini`
is the live file, `mem` what the running game works with: it reads `ini` when it
starts and writes it back when it exits cleanly. A tool reads and copies
(`EngineReads`, `ConfigCopies`) and writes later (`EngineWrites`; two passes of
`ConfigWrites`); it may fail or be killed in between or within its write, which
leaves a file cut short. The restart of jobd stops, waits (perhaps in vain),
applies and starts, and reports what the apply reported: a wait in vain (`late`)
is not a failure of the script. The boot applies the configuration before the game may
start. `Apply` from a shell or from jobd takes no lifecycle lock, and nothing
keeps the other controllers (`OtherController`) from starting or stopping the
game beside it. `recent` is the copy of the current second, since the stamp in
the name of a copy of `PalWorldSettings.ini` has seconds and `cp -a` replaces.

History: `asked` and `sticks` (what a restart has applied, until something that
may undo it by design), `gone` (contents a tool has copied and overwritten). Nothing
is demanded of a restart that was not `Undisturbed` (its stop ran out of time, or
another tool wrote between its apply and its start, or had yet to write older
settings), although it reports success; nor of a content that another hand wrote
between a tool's copy and its write (`clash`). Section 5 says what is lost then.

### SaveParser

A file is a sequence of cells: a property with its value, the header of a
container with its extent, an element count, an element, the `None` that ends a
list. `WellFormed` says what the game writes: containers in containers, one
`None` at the end of each property list, counts that agree with what follows.
A damaged cell can read as anything. After that the cursor may be in the
middle of a cell (`lost`), where every read may fail, or succeed and move the
cursor any distance forward, or make up a container with any extent. The stack
of the recursive descent is `stack`, one `Frame` for each active `_contained`;
`Fail` is its `except`: record, drop the value, put the cursor where the value
should have ended. The result is the set of properties in it (`out`) and the
containers that got a property the file does not have (`forged`).

## 3. Runs

`tlc -config <run>.cfg <module>`; all with two workers within five minutes.

| Run | Question | Distinct states |
|---|---|---|
| `Lifecycle_safety` | Do exclusion, fail-closed and the wake fence hold with every kind of writer, crashes and reboots? Is MaintenanceFence implemented? | 1,501,306 |
| `Lifecycle_controllers` | Do the long scripts report only what has happened, and leave marker and supervisor agreeing, unless a removal of the marker failed? | 854,711 |
| `Lifecycle_live` | Does every process end and the lock come back? | 163,682 |
| `Lifecycle_sticky` | (violation) Is `unsafe` sticky for ordinary writers? | |
| `JobQueue_core` | The safety of the queue with two maintenances, a config save, two workers, a mishap and write failures | 4,500,013 |
| `JobQueue_live` | Does the queue drain with s6 restarting the daemon, and does no finished job keep a token while writes succeed? | 64,074 |
| `IdleCycle_core` | Stops and knocks with overlapping observations, edits, clock steps and deaths | 2,017,252 |
| `WorldData_core` | Are backups whole and worlds archived before they are replaced, does retention keep its floor, and is no world lost, with failures, deaths and equal or future stamps? | 2,804,828 |
| `WorldData_untouched` | (violation) Is the tree untouched when the restore says so? | |
| `OpsConfig_core` | Does every reader get a whole answer, and does every save and seed touch only what it should, with edits by hand, crashes and losses of power? | 1,073,063 |
| `GameConfig_core` | Does the game keep what was applied undisturbed, and does everything that was copied and overwritten have a backup, whoever starts, exits or is killed? | 2,858,572 |
| `SaveParser_core` | Is the damage of a file contained and reported, and is every file read to an end? | 330,744 |

**Bounds, and why they are enough.** *Lifecycle*: two slots, since exclusion is
between two processes and a slot is reused by its third and fourth; one more
process matters only through the state it leaves, which a slot that comes back
has. `MaxGen = 3`: a wake is admitted under one generation, outdated by the
second, and a further process can run under the third. No process is started
once `MaxGen` is issued; those running go on to their end. For what is proved
no bound is needed. *JobQueue*: two maintenances race; the config save
brings the token; two workers are the dying one and its successor; one mishap
for safety (a crash, a vanished file or a one-shot worker), two for liveness.
`ListLimit` and `ScanLimit` are as large as the number of jobs, so the windows
of 100 and 1000 files never cut a job off; section 5 says what happens when
they do. *IdleCycle*: one sampler and the watcher are the two
overlapping observers; the listener is off or wants one token, and being
switched off stands for a token that is replaced (both fail the same second
reading of the policy); a timeout of two ticks and a gap of one are the smallest
in which a hole in the samples, an interval just too short and a clock step each
matter; ages saturate at `Cap`. *WorldData*: two commands
are the restore of a dead jobd and the command of the next; three stamps, of which
the clock gives two and an upload any, let a backup replace an archive or come
before or after it; three archives with `KEEP_MIN = 1` let retention have something
to remove and something it must not; two backups are those of a restore and of a
tick or of the next command; one thing without the backup lock is enough to run
beside what has it;
a tree of two entries has a first, a middle and a last move. *OpsConfig*: one key
of each kind and the smallest ranges; texts with each of the faults
`parse_file` tells apart; two saves, an edit and a second boot are the shortest
history in which a merge can bring back an old value. *GameConfig*: two settings,
one of them in `settings.env`, so that a pass can undo the other; two jobs are a
save and its successor, a shell command is the second hand on the file, and one
fault is any failure, kill, crash, timeout or container restart.
*SaveParser*: files with each kind of property and a container in a container;
one damaged cell per file suffices, since a damaged cell already makes every
following read within its container arbitrary; `MAX_ERRORS` is 1, so that its
limit is met. Deadlock is checked
where the system always has something to do (`IdleCycle_core`, `WorldData_*`).
The other runs stop where a bound stops new processes, jobs, edits or boots, and
the parser when it is done.

**Symmetry** (slots, jobs of one kind, workers, commands) is used in safety runs
only.

**Fairness.** `Lifecycle!FairSpec` has weak fairness of each process's own steps
(`ProcStep`: a runnable process runs; every wait in it is bounded by a timeout or
ends because the thing waited for ends), of `Supervise` (s6 restarts what it
wants up) and of the exit of a game that is wanted down (SIGTERM, then SIGKILL
after the grace period). Nothing makes anybody start, crash, time out or
acknowledge. `JobQueue!FairSpec` has weak fairness of s6 restarting the daemon, of each
worker's step (bounded by `STEP_TIMEOUT` and by the wait for the backup lock),
and of the end of a step left behind. `SaveParser!FairSpec` has weak fairness of
the whole next-state relation: it is one loop in one thread, and what it reads is
in memory.

**Mutants.** Every property of every passing run is paired with a mutation of one
definition (the operators commented "Mutant:"), such as a lock that children do not
inherit, a completion that ignores the exit code, a prune that forgets to count,
an observation applied out of order, a rename without a sync, a reader that goes
on where it failed. With the mutation put in place of the
definition TLC finds that property violated in the same run.

## 4. Proofs

Every invariant and every action property that a passing run checks is the
statement of a theorem. Each component has its proofs in a module of its own,
`<Component>Proofs`, and they hold for every value of the constants that the
assumptions allow: any number of processes, jobs, workers, commands, settings,
files, and every bound.

### What is assumed

| Module | Assumption | Why the code justifies it |
|---|---|---|
| `Lifecycle` | `WorkloadAssumption`, `MaxGenAssumption`, `CrashesAssumption` | types: pairs of a kind and a program, a natural number, a Boolean |
| `JobQueue` | `KindAssumption`, `LimitAssumption`, `FaultsAssumption` | types of the kinds of jobs, the two windows, a switch |
| `IdleCycle` | `GapAssumption`, `TimeoutAssumption` | types; ages saturate above the longest gap and timeout |
| | `KnockingAssumption` | the listener can be switched off |
| `WorldData` | `KeepMinAssumption`, `BoundAssumption` | the schedule's floor is at least 1; types |
| | `CmdAssumption` | a command is neither nobody nor the tick |
| `OpsConfig` | `SchemaAssumption`, `EditsAssumption`, `StringAssumption`, `EmptyAssumption`, `BoundAssumption` | each key once with its kind; edits are texts; an empty string is a token and no number; no file is not a text |
| `GameConfig` | `BaseAssumption`, `BoundAssumption` | types |
| | `SettingAssumption` | there is a setting, and no value is the mark of a default or of a cut file |
| `SaveParser` | `DocsAssumption` | the undamaged file is one the game writes; damage is the model's |
| | `BoundAssumption` | types |

Four theorems have a hypothesis of their own, and each names a real limit:

- `SubmissionOrder`: no more jobs than the scan of the worker shows
  (`Cardinality(Job) <= ScanLimit`). With more, an older job may wait (section 5).
- `TokensAreScrubbed`: no write fails (`~Faults`). When the write of the scrub
  fails, the token stays (section 5).
- `StoppedStaysDown`: nobody acknowledges. When a stop was killed between the
  marker and `s6-svc -d`, and an operator acknowledges in the moment in which the
  game happens to be down, a service that reads as stopped comes up again
  (section 5); TLC finds that behaviour as soon as `ack` is in the workload.
- `StickyWithoutReaper`: no process of the workload is the reaper. With it,
  stickiness is violated (`Lifecycle_sticky`).

Two statements of `WorldData` say of themselves that they hold while everything
runs under the backup lock (`loose = 0`), `ArchiveIsSnapshot` and `WayBack`; without
it, a world may be moved during a tar, or a new archive be deleted before the world
it holds is moved out. `RetentionFloor` is stated for both cases: under the lock the
newer archives are listed; without it, those that others deleted since the tick
listed count too, since the tick does not look again.

### Results

| Theorem | Property |
|---|---|
| `LifecycleProofs!TypeCorrect` | `TypeOK` |
| `LifecycleProofs!MutualExclusion` | `LockInv` |
| `LifecycleProofs!Safety` | `IInv` |
| `LifecycleProofs!FailsClosed` | `FailClosed` |
| `LifecycleProofs!NoWakeFollowsFailure` | `NoWakeIntoFailure` |
| `LifecycleProofs!MaintenanceIsFenced` | `MaintenanceInhibits` |
| `LifecycleProofs!GenerationsGoForward` | `NoGenerationReturns` |
| `LifecycleProofs!DelayedWakesAreRefused` | `NoDelayedWake` |
| `LifecycleProofs!SuccessIsReal` | `SuccessMeansDone` |
| `LifecycleProofs!StoppedStaysDown` | `StoppedIsWantedDown`, for workloads without an acknowledgement |
| `LifecycleProofs!StickyWithoutReaper` | stickiness of `unsafe`, for workloads without the reaper |
| `LifecycleRefinement!Refinement` | `ImplementsFence` |
| `JobQueueProofs!TypeCorrect`, `RunsAtMostOnce`, `MaintenancesDoNotRace`, `FailureInhibits`, `FinishedStaysFinished` | `TypeOK`, `AtMostOnce`, `NoRacingMaintenance`, `InterruptedInhibits`, `TerminalIsFinal` |
| `JobQueueProofs!SubmissionOrder`, `TokensAreScrubbed` | `OldestFirst`, `NoTokenInHistory`, as above |
| `IdleCycleProofs!TypeCorrect`, `NewestAnswerWins`, `ListenerNeverTakesThePort`, `NoStopWithoutEmptiness`, `NoStopWithoutPolicy` | `TypeOK`, `NewestAnswerRules`, `PortIsFree`, `StopNeedsEmptiness`, `StopNeedsPolicy` |
| `WorldDataProofs!TypeCorrect`, `EveryArchiveIsComplete`, `EveryArchiveIsASnapshot`, `PreviousWorldIsNeverLost`, `MixedTreesAreFenced`, `ReplacedIsArchived`, `RetentionKeepsTheFloor` | `TypeOK`, `ArchivesAreComplete`, `ArchiveIsSnapshot`, `PreviousWorldSurvives`, `MixedTreeIsFenced`, `WayBack`, `RetentionFloor` |
| `OpsConfigProofs!ParseIsInverseOfRender` | `parse_file` reads what `render` writes, and nothing else |
| `OpsConfigProofs!TypeCorrect`, `ReadersGetWholeAnswers`, `SavesSurvive`, `SavesKeepTheRest` | `TypeOK`, `AnswersAreWhole`, `SavedIsDurable`, `SaveKeepsTheRest` |
| `GameConfigProofs!OverwrittenIsKept`, `AppliedStays` | `NothingLost`, `SettingSticks` |
| `SaveParserProofs!DamageStaysContained`, `NothingIsLostSilently` | `DamageIsContained`, `NothingLostSilently` |

Each module also has its inductive invariant as a theorem, `Invariance`
(`Safety` in `LifecycleProofs`). Each conjunct is preserved action by action:
one lemma for each conjunct or group of them, one step for each action that can
disturb it. TLC checked every inductive invariant on the runs' instances first.

### The inductive invariants, and why they are needed

**Lifecycle.** `IInv == TypeOK /\ LockInv /\ TaintInv /\ GenInv /\ WakeInv`

- `LockInv`: descriptors belong to one slot at a time, whoever runs code that
  needs the lock has it, children exist where they are spawned. Needed because
  the lock is free only when the *set* of descriptors is empty, and a dead
  owner's child is in that set.
- `TaintInv`: `FailClosed`, strengthened with what is in flight. A process
  between a read and a replace would write `idle` later; no such process exists
  once something is tainted. The three clauses about `SawIdle`, `InMaintenance`
  with a zero exit code and `WillWriteIdle` are exactly the writers that could
  break it. The reaper, which takes no lock, only writes `unsafe`: it
  never breaks `TaintInv`, which is why the race on `state.json` costs stickiness
  (section 5) but not safety.
- `GenInv`: a replace writes the generation it read; that one is still the
  newest, or the state is `unsafe`.
- `WakeInv`: an outdated wake whose fence still names the newest generation is
  held off by the status, and nothing in flight can turn the status to `idle`.

`SuccessMeansDone` needs `SuccessInv` on top: for a controller whose steps have
all succeeded, what is behind it in its script has the effect it is there for,
and nothing still ahead undoes it. `StoppedIsWantedDown` needs `ScriptInv` and
`PairInv`: as long as nothing failed, a marker that is meant to be there beside a
service that is wanted up belongs to a script that still has its `down` or its
`clear` ahead; this is where the order of marker, stop, clear and start in the shell
code is used. Both speak of `meant`, not of the file, and so hold whatever becomes
of its writes.
`StickyWithoutReaper` is the other half of the violation of `Lifecycle_sticky`:
with every writer under the lock the documented stickiness holds. The refinement
needs `BrokenInv` in addition (a failure counts from the moment it happens; a
command that outlived its controller belongs to a failed maintenance).

**JobQueue.** `OneWorker`, `LockInv` and `FileInv` (what a worker knows of the
file of its job, whoever removes it) carry three more: `RunInv`, that nothing
before the first step of a job has counted a run; `RaceInv`, that a worker with
the lifecycle lock that has not begun yet has no live maintenance beside it;
`DirtyInv`, that a transaction under way has left `idle`, and that none that began
after a failure can put it back. `OrderInv` (sequence numbers grow with time, and
a job is picked when nothing that waited when it was minted still waits) and
`TokenInv` (no worker writes a terminal state over a token) are for one theorem each.

**IdleCycle.** The watcher has the lock from its recheck to the end of its stop,
the listener during its lease, and an armed listener has found the game stopped
(`LockInv`, `PortInv`). `IntervalInv` bounds the stored interval by the time that
really passed under empty answers plus what the clock was set forward: it
is the reason why no other disturbance of clocks or samples makes an interval
too long. `PolicyInv` says what the watcher still knows of a policy
that was switched off.

**WorldData.** The two locks (`BackupLock`, with its exception `loose`;
`LifecycleLock`), what a running tar holds (`TarInv`), the floor of every
candidate of a prune, counted over what is listed and what others have deleted
(`PruneInv`), the archive of the world that a restore is about to replace, from the
end of its safety backup (`WayInv`), and the previous world: `OutInv` says of a
restore that is moving the tree out, entry by entry, that it is still live or
already whole in the replaced tree; `PrevInv` that afterwards every entry is live
or in a replaced tree that nobody is about to remove. Rollbacks, cleanups, the
copies across mounts and any number of earlier restores that failed are the
cases of its proof.

**OpsConfig.** `FileInv` ties the history variables to the file, `WriterInv` says
that a writer that nobody disturbed holds the save merged into the file *as it is
now*, `ReaderInv` that a reader that has seen a file finds one later, `KeptInv`
that everything a loss of power may leave is a rendered text of a configuration
that must survive. All of them lean on `ParseIsInverseOfRender`.

**GameConfig.** `CopyInv`: who is about to write has a copy of what is there,
unless another hand was on it. `AppliedInv`: what was asked for is in the file
and in the running game, or a second pass is about to put it in the file.
`RestartInv`: the game stays down from the moment in which a restart saw it
down until it starts it, and what was saved is in the file when its tool is done,
unless another hand was on the file since.

**SaveParser.** `StackInv`: the containers that are being read are nested as in
the file, those made up from misread bytes are innermost, and the reader of each
is exactly where the one inside it ends. `CursorInv`: a cursor that is not lost
is *aligned*, at a cell directly in the innermost container, with exactly the
elements left that its count says. `ContainedInv`: everything in front of the
cursor that is not in a spoilt container is in the result or open, and a cursor
gets lost only in a harmed container. The lemmas before (`AlignedLeaf`,
`AlignedContainer`, `AlignedItem`, `AlignedCount`) say that reading a cell as what
it is keeps a reader aligned, and `Leaves`, `GoesOn`, `Enters` what becomes of the
stack.

## 5. Disagreements

Checked, as `violation` runs:

- `StickyUnsafe`: `lib/palwarden_lifecycle.py:27-28` says that ordinary writers
  cannot clear `unsafe`. The reaper of jobd marks it without the lock; a locked
  writer that read before overwrites it. `FailClosed` still holds.
- `UntouchedIsTrue`: `sbin/palworld-restore:1407-1408` reports that nothing was
  moved when the first move copied its entry and failed while removing the
  source: a part of that entry is missing in `Pal/Saved`, and the only whole
  copy is in the replaced tree, which the report does not name.

Stated in the modules or met while modelling, with no run of their own:

- `EditsWhileDown` (`Lifecycle`): `sbin/palworld-graceful-restart:53-55` says that
  the configuration is applied while the server is fully stopped. Line 111
  ignores a stop that failed or timed out, and the script then exits with the
  result of the apply: it reports success although the game, as it exits later,
  rewrites the file from memory and the edits are lost. `SettingSticks`
  (`GameConfig`) is therefore stated for restarts whose stop came to its end.
- The marker (`Lifecycle`): every write and removal of it is `|| true`
  (`lib/palwarden-lifecycle-bash:39-40,45`, `sbin/palworld-graceful-restart:108-109`).
  After a failed write a stop reports success and the service reads as
  crash-backoff, of which the comment in `lib/palwarden-lifecycle-bash:34-36` says that
  it means exactly "supervisor wants it up". After a failed removal a start
  reports success and a later exit of the game reads as a stop, although the
  supervisor starts it again. `StoppedIsWantedDown` names the second case.
- `NoTokenInHistory` (`JobQueue`): `sbin/palwarden-jobd:1774-1775` says that a
  config save never keeps its token past its own failure. When the write of the
  scrub fails and the one of the terminal state succeeds, it does; the property is
  checked with writes that succeed (`Faults = FALSE`), where the order of the two
  writes and the reap after a crash are what it depends on.
- `PartialIsKept` (`SaveParser`): the comment at `lib/palwarden_gvas.py:214` says
  that a failure at the root keeps the partial result. Line 215 replaces it by
  an empty one.
- `sbin/palworld-engine-config:1118` and `sbin/palworld-config-apply-env:61`
  tell the operator to restart for the changes to take effect. A plain
  restart lets the game rewrite the file from memory as it exits, as
  `sbin/palworld-graceful-restart:55-60` explains; only a restart with
  `--apply-engine` or `--apply-config` makes the change effective.
- Two applies of `PalWorldSettings.ini` within one second have one backup
  name, and `cp -a` (`sbin/palworld-config-apply-env:39`) replaces the first copy:
  the content before both is lost (`ConfigCopies` names the exception).
- `config_apply` and `engine_apply` take no lifecycle lock, and nor does a shell. A
  game that starts between the two passes runs with `settings.env` in place of the
  operator's overrides until its next start, and writes that back when it exits. An
  apply that read older settings may write them after those of a restart, which
  reports success; and a tool overwrites, without a backup of it, what another one
  or the game wrote since its copy (`clash` in `GameConfig`).
- `CrashBackoffIsWantedUp` (`Lifecycle`): after `systemctl stop`, a `restart`
  through the shim removes the marker and sends `s6-svc -r`, which does not
  start a service that is wanted down: down, unmarked, reported as
  crash-backoff, and nobody will start it.
- An acknowledgement accepts a service that is down and marked, whatever the
  supervisor wants. When a controller died between the marker and `s6-svc -d`,
  s6 still wants the game up and starts it right after the acknowledgement.
- A restore checks that the service is inactive; a service in crash-backoff is
  inactive and may be restarted by s6 during the swap.
- `OneJobAtATime` (`JobQueue`): a step outlives its worker, the next worker
  starts the next job. For maintenances the lifecycle lock prevents it
  (`NoRacingMaintenance`); for the others nothing does.
- `OneDisruptivePending` (`JobQueue`): the web UI looks for a blocking job and
  stores the new one in two steps; two request threads may both pass.
- With more than 1000 job files the worker sees only the newest 1000, so an
  older queued job may wait behind newer ones (`OldestFirst` assumes a window
  that holds every file).
- `docker/s6-rc.d/backup-auto/run` says that holding the backup lock serialises the tick
  against the restores jobd runs. The descriptor is not inherited: when jobd
  dies, its restore goes on and the next tick may tar a moving tree.
  `ArchiveIsSnapshot` is therefore stated for `loose = 0`.
- A `palworld-restore` from a shell takes no backup lock either.
- Two backups within a second have one name; `mv -f` (`sbin/palworld-backup:52`)
  replaces the first, and so does a backup after the clock was set back, or at the
  second whose stamp an upload has. `import_staged` calls clobbering an existing
  backup "the one mistake a restore tool must not make"
  (`sbin/palworld-restore:425-427`) and uses `link`. The model has the replacement
  (`Archived`); what depends on it is `WayBack`: the archive that a safety backup
  replaces is never the only one of the world that is about to be moved out.
- Two backups that *run* in the same second share one `.partial` file. They can do so
  only without the backup lock, and the model leaves it out.
- `sbin/palworld-backups:383` says that the `survivors <= 1` guard protects the last
  archive unconditionally. The count is taken once, before the loop: a delete
  from a shell beside the tick, which takes no backup lock, is not in it. The newest
  `KEEP_MIN` by name are not candidates, but these may be the ones deleted;
  `RetentionFloor` counts what others deleted.
- After a swap that failed with an entry missing, the safety backup of the next
  `--restore` cannot tar the tree and refuses until the tree is repaired by
  hand. A half-removed tree that still has all entries is archived as an
  ordinary backup.
- An imported archive with a stamp from the future counts as one of the newest
  `KEEP_MIN`, and stays.
- An upload that lacks an entry passes the validator. After its restore
  `palworld-backup` cannot tar the world, and the next restore stops at its safety
  backup.

## 6. Limits

*Only model-checked*: the liveness properties (`LockIsReturned`, `ProcessesEnd`,
`QueueDrains`, `ParserEnds`) and the two `violation` runs. Liveness under
fairness and `ENABLED` are beyond the prover, and so is induction over data; no
module declares a `RECURSIVE` operator. The hypotheses of the four theorems
named in section 4 are what keeps these from holding in general; their runs
use instances in which the hypotheses are true.

*Abstracted*: one game service, up or down, in the container deployment; the
systemd branch has the same order of commands. Wall-clock time is an
expiry (Lifecycle), an age (IdleCycle) or freshness (WorldData). Announcements,
logs and RCON messages are left out. The owner file beside the lock, which
serves observability and the refusal of foreign descriptors, is left out.
`write_config` does not look at the count that `os.write` returns: a short write
would be renamed into place, and is taken not to happen for a file of five
lines. What a config tool does with one open file is one step, since nobody
renames over it. In `SaveParser`, a container made up from misread bytes is
read as a property list: any other kind lets a lost cursor do less. The depth of the
interpreter's stack is not modelled: made-up containers nested deep enough raise a
`RecursionError`, which `palwarden_gvas` does not catch and its caller gets. A pass
over a payload (decompression, header) is one step with its outcomes.

*Not modelled*: the archive validator (`palwarden_archive`: a predicate over the
members of a tar file, no state), the byte layout of each type in
`palwarden_gvas`, HTTP and sessions of the web UI, its pages, the parameter
validators of jobd, reference copies, snapshots and drift reports of the game
configuration, watchdogs and reports that only read, installation and packaging.
`PROJECT.json` gives the status of each component and the source lines of each
definition.

## 7. Plan

In order of importance; all but the last are done.

1. `Lifecycle` with `MaintenanceFence`, the core on which everything else
   relies; its proofs and its refinement.
2. `JobQueue`: what disruptive work is done, once, in order.
3. `IdleCycle`: when the server is stopped and woken by itself.
4. `WorldData`: the data nobody wants to lose.
5. `OpsConfig`: the file every automatic decision is taken from.
6. `GameConfig`: the files the game writes back.
7. `SaveParser`: the one recursive algorithm that recovers from errors.
8. Proofs for `JobQueue`, `OpsConfig`, `WorldData`, `IdleCycle`, `GameConfig`,
   `SaveParser` and the controllers of `Lifecycle`, each from an inductive invariant
   that TLC checks first; every safety property of the runs is a theorem.
9. An abstract specification of what the queue promises to the web UI, and of
   what a restore promises to an operator, with `JobQueue` and `WorldData`
   shown to implement them as `Lifecycle` implements `MaintenanceFence`; and more
   of the models' operators as lemmas (`Survivor`, the prune of the job files).

A module of the three locks together (jobd, backup, lifecycle) was considered
and left out: every wait for a lock in the code has a timeout or does not wait
at all, so that a cycle of waits ends by itself; `ProcessesEnd` and
`QueueDrains` check what remains of that question.
