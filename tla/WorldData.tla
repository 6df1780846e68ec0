------------------------------ MODULE WorldData ------------------------------
(* The world tree and its archives: the scheduled backup tick with its     *)
(* retention (palworld-backups), the backup, import, delete and restore    *)
(* commands, run by palwarden-jobd or from a shell, and the locks they     *)
(* run under.                                                              *)
(*                                                                         *)
(* Abstractions.  A world tree is what is at its two top-level names:      *)
(* nothing, a part of an entry, or an entry of some world.  An archive is  *)
(* its place in the order of the names, the tree it holds and who made it; *)
(* it is fresh or old, which decides both whether a backup is due and      *)
(* whether retention may remove it.  A stamp is any number: the clock is   *)
(* set back, a second has two backups, an upload carries a stamp of the    *)
(* past or of the future.  Only backups that run at the same time are      *)
(* taken to begin in different seconds: theirs would be one .partial file. *)
(* Of the lifecycle protocol (module Lifecycle) only the lock and the      *)
(* status are here.  A command is one process: what a killed one leaves    *)
(* behind is files.                                                        *)
EXTENDS Integers, FiniteSets, Functions

CONSTANTS
  Cmd,          \* the commands, each run once: a bound
  KeepMin,      \* BACKUP_KEEP_MIN
  MaxStamp,     \* bound: stamps that an upload may carry
  MaxClock,     \* bound: stamps that the clock gives
  MaxTaken,     \* bound: backups that are taken
  MaxLoose      \* bound: times that something runs without the backup lock

ASSUME KeepMinAssumption == KeepMin \in Nat \ {0}   \* read_schedule: 1..
ASSUME BoundAssumption ==
  MaxStamp \in Nat /\ MaxClock \in 1..MaxStamp /\ MaxTaken \in Nat /\ MaxLoose \in Nat

Entry == {"Config", "SaveGames"}
Content == {"none", "part", "old", "new"}
Tree == [Entry -> Content]
Nothing == [e \in Entry |-> "none"]
Whole(w) == [e \in Entry |-> w]

Nobody == "nobody"
Tick == "tick"
Live == <<"live", Nobody>>           \* Pal/Saved
Staging(c) == <<"staging", c>>       \* Saved.restore-* of the restore c
Aside(c) == <<"aside", c>>           \* Saved.replaced-* of the restore c
ASSUME CmdAssumption == Nobody \notin Cmd /\ Tick \notin Cmd
Place == {Live} \cup {Staging(c) : c \in Cmd} \cup {Aside(c) : c \in Cmd}
First(tree) == IF tree["Config"] # "none" THEN "Config" ELSE "SaveGames"

Actor == Cmd \cup {Tick}

VARIABLES
  disk,       \* the trees
  archives,   \* the archives listed, by the order of their names
  taken,      \* the backups taken so far
  blk,        \* the backup lock: "free", "tick" or "job"
  life,       \* the lifecycle lock: Nobody, or a restore
  status,     \* the lifecycle status
  worker, job,  \* the command jobd runs, and its kind
  dead,       \* a dead jobd left a restore "running", not yet reaped
  pc,         \* the place of every actor
  got,        \* what tar has read
  todo, survivors,  \* the tick: the names left to prune, the count
  want,       \* the world that a restore is to put in
  moving, copied,  \* the entry that is being copied, whether that is complete
  untouched,  \* the last restore has failed and said that nothing was moved
  prev,       \* history: the world the last restore set out to replace
  halfway,    \* history: a restore began to move and was neither finished,
              \* undone nor acknowledged
  gone,       \* history: names that others deleted since the tick listed them
  loose       \* history: times that something ran without the backup lock

transaction == <<life, status>>
jobd     == <<worker, job, dead>>
ticking  == <<todo, survivors>>
swap     == <<moving, copied, untouched>>
history  == <<prev, halfway>>
vars == <<disk, archives, taken, blk, transaction, jobd, pc, got, ticking, want,
          swap, history, gone, loose>>

Init ==
  /\ disk = [p \in Place |-> IF p = Live THEN Whole("new") ELSE Nothing]
  /\ archives = [s \in {1} |-> [tree |-> Whole("old"), fresh |-> FALSE, made |-> TRUE]]
  /\ taken = 0
  /\ blk = "free" /\ life = Nobody /\ status = "idle"
  /\ worker = Nobody /\ job = "none" /\ dead = FALSE
  /\ pc = [a \in Actor |-> "off"] /\ got = [a \in Actor |-> Nothing]
  /\ todo = {} /\ survivors = 0
  /\ want = [c \in Cmd |-> Nothing]
  /\ moving = "none" /\ copied = FALSE /\ untouched = FALSE
  /\ prev = Nothing /\ halfway = FALSE /\ gone = {} /\ loose = 0

Goto(a, there) == pc' = [pc EXCEPT ![a] = there]
Names == DOMAIN archives
\* The archives with a new one under the name s, made here or uploaded.
Named(s, tree, here) ==
  [t \in Names \cup {s} |->
     IF t = s THEN [tree |-> tree, fresh |-> TRUE, made |-> here] ELSE archives[t]]

-----------------------------------------------------------------------------
(* palworld-backup, run by the tick, by a backup and by a restore.         *)

\* Mutant: tar writes under the final name.
BegunInPlace == Named(MaxClock, Nothing, TRUE)
Begun == archives
BackupBegins(a) ==
  /\ Goto(a, "tar") /\ got' = [got EXCEPT ![a] = Nothing]
  /\ archives' = Begun

\* What follows a backup that succeeded or not.
\* Mutant: a restore goes on without its safety backup.
AfterRegardless(a, ok) ==
  IF a = Tick THEN "prune" ELSE IF want[a] # Nothing THEN "claim" ELSE "ended"
After(a, ok) ==
  IF a = Tick THEN "prune"
  ELSE IF want[a] # Nothing /\ ok THEN "claim"
  ELSE "ended"

BackupFrame == UNCHANGED <<disk, blk, transaction, jobd, ticking, swap, history,
                           gone, loose>>

\* tar reads SaveGames, then Config; a missing entry fails it.
TarReads(a) ==
  LET e == IF got[a]["SaveGames"] = "none" THEN "SaveGames" ELSE "Config"
  IN /\ pc[a] = "tar" /\ disk[Live][e] # "none"
     /\ got' = [got EXCEPT ![a][e] = disk[Live][e]]
     /\ IF e = "Config" THEN Goto(a, "name") ELSE UNCHANGED pc
     /\ UNCHANGED <<archives, taken, want>> /\ BackupFrame

\* The rename of the .partial file, over an archive of the same stamp too.
Archived(a) ==
  /\ pc[a] = "name" /\ taken < MaxTaken /\ taken' = taken + 1
  /\ \E s \in 1..MaxClock : archives' = Named(s, got[a], TRUE)
  /\ Goto(a, After(a, TRUE)) /\ got' = [got EXCEPT ![a] = Nothing]
  /\ UNCHANGED want /\ BackupFrame

\* A missing entry, a full volume: nothing is left, and a restore is over.
BackupFails(a) ==
  /\ pc[a] \in {"tar", "name"}
  /\ Goto(a, After(a, FALSE)) /\ got' = [got EXCEPT ![a] = Nothing]
  /\ want' = [c \in Cmd |-> IF c = a THEN Nothing ELSE want[c]]
  /\ UNCHANGED <<archives, taken>> /\ BackupFrame

BackupStep(a) == TarReads(a) \/ Archived(a) \/ BackupFails(a)

-----------------------------------------------------------------------------
(* palworld-backups --if-due --prune, under `flock -n`.                    *)

TickFrame == UNCHANGED <<disk, taken, transaction, jobd, want, swap, history, loose>>

\* Mutant: the tick takes no lock.
Regardless == TRUE
TickMayRun == blk = "free"
TickBegins ==
  /\ pc[Tick] = "off" /\ TickMayRun /\ blk' = "tick"
  /\ \/ /\ \A s \in Names : ~archives[s].fresh
        /\ BackupBegins(Tick)
     \/ Goto(Tick, "prune") /\ UNCHANGED <<archives, got>>  \* not due, or disabled
  /\ UNCHANGED <<todo, survivors, gone>> /\ TickFrame

\* All but the newest KeepMin names.
Newer(s) == {t \in Names : t > s}
\* Mutant: one protected archive too few.
CandidatesButOne == {s \in Names : Cardinality(Newer(s)) >= KeepMin - 1}
Candidates == {s \in Names : Cardinality(Newer(s)) >= KeepMin}
PruneBegins ==
  /\ pc[Tick] = "prune"
  /\ todo' = Candidates /\ survivors' = Cardinality(Names) /\ gone' = {}
  /\ Goto(Tick, "pruning")
  /\ UNCHANGED <<archives, blk, got>> /\ TickFrame

\* The oldest name first; what is gone, fresh or cannot be removed stays.
PruneStep ==
  /\ pc[Tick] = "pruning" /\ todo # {} /\ survivors > 1
  /\ \E s \in todo :
        /\ \A t \in todo : s <= t
        /\ todo' = todo \ {s}
        /\ \/ /\ s \in Names /\ ~archives[s].fresh
              /\ archives' = Restrict(archives, Names \ {s})
              /\ survivors' = survivors - 1
           \/ UNCHANGED <<archives, survivors>>
  /\ UNCHANGED <<blk, pc, got, gone>> /\ TickFrame

TickLeaves ==
  /\ Goto(Tick, "off") /\ blk' = "free"
  /\ todo' = {} /\ survivors' = 0 /\ gone' = {}
  /\ got' = [got EXCEPT ![Tick] = Nothing]
  /\ UNCHANGED archives /\ TickFrame
\* A schedule that could not be read creates, and never deletes.
TickEnds ==
  /\ \/ pc[Tick] = "prune"
     \/ pc[Tick] = "pruning" /\ (todo = {} \/ survivors <= 1)
  /\ TickLeaves
\* The container stops, or the unit is killed with everything it runs.
TickDies == pc[Tick] # "off" /\ TickLeaves

-----------------------------------------------------------------------------
(* palwarden-jobd: one job, its lock and its end.                          *)

Free == IF blk = "job" THEN "free" ELSE blk
JobFrame == UNCHANGED <<disk, archives, taken, life, got, ticking, want, swap,
                        history, gone>>
AnyKind == {"backup", "import", "delete", "restore"}

JobBegins(c) ==
  /\ worker = Nobody /\ ~dead /\ pc[c] = "off"
  /\ worker' = c /\ job' \in AnyKind /\ Goto(c, "wait")
  /\ UNCHANGED <<blk, status, dead, loose>> /\ JobFrame

\* backup_lock: taken, given up, or missing altogether.
Locked(c) ==
  /\ pc[c] = "wait" /\ worker = c
  /\ \/ /\ blk = "free" /\ blk' = "job" /\ Goto(c, job) /\ UNCHANGED loose
     \/ /\ blk # "free" /\ Goto(c, "ended") /\ UNCHANGED <<blk, loose>>
     \/ /\ loose < MaxLoose /\ loose' = loose + 1 /\ Goto(c, job) /\ UNCHANGED blk
  /\ UNCHANGED <<status, jobd>> /\ JobFrame

JobEnds(c) ==
  /\ worker = c /\ pc[c] = "ended" /\ worker' = Nobody /\ job' = "none"
  /\ blk' = Free
  /\ UNCHANGED <<status, dead, pc, loose>> /\ JobFrame

\* jobd dies: its descriptor of the backup lock was the only one; the command
\* runs on.
JobdDies ==
  /\ worker # Nobody /\ loose < MaxLoose /\ loose' = loose + 1
  /\ worker' = Nobody /\ job' = "none" /\ blk' = Free /\ dead' = (job = "restore")
  /\ IF pc[worker] = "wait" THEN Goto(worker, "ended") ELSE UNCHANGED pc
  /\ UNCHANGED status /\ JobFrame

\* reap_orphans of the next jobd, without the lifecycle lock.
Reap ==
  /\ dead /\ dead' = FALSE /\ status' = "unsafe"
  /\ UNCHANGED <<blk, worker, job, pc, loose>> /\ JobFrame

\* The same commands from a shell, which take no backup lock.
ShellRuns(c) ==
  /\ pc[c] = "off" /\ loose < MaxLoose /\ loose' = loose + 1
  /\ \E k \in AnyKind : Goto(c, k)
  /\ UNCHANGED <<blk, status, jobd>> /\ JobFrame

-----------------------------------------------------------------------------
(* The backup, import and delete commands.                                 *)

CommandFrame == UNCHANGED <<disk, taken, blk, transaction, jobd, ticking, swap,
                            history, loose>>

RunsBackup(c) ==
  /\ pc[c] = "backup" /\ BackupBegins(c)
  /\ UNCHANGED <<want, gone>> /\ CommandFrame

\* import_staged: a valid upload is linked where nothing is.  One that lacks an
\* entry is valid.
Upload == {Whole("old"), [Whole("old") EXCEPT !["Config"] = "none"]}
RunsImport(c) ==
  /\ pc[c] = "import" /\ Goto(c, "ended")
  /\ \/ \E s \in (1..MaxStamp) \ Names, tree \in Upload :
          archives' = Named(s, tree, FALSE)
     \/ UNCHANGED archives
  /\ UNCHANGED <<got, want, gone>> /\ CommandFrame

\* delete_archive: no floor.
RunsDelete(c) ==
  /\ pc[c] = "delete" /\ Goto(c, "ended")
  /\ \/ \E s \in Names :
          /\ archives' = Restrict(archives, Names \ {s})
          /\ gone' = IF pc[Tick] = "pruning" THEN gone \cup {s} ELSE gone
     \/ UNCHANGED <<archives, gone>>
  /\ UNCHANGED <<got, want>> /\ CommandFrame

-----------------------------------------------------------------------------
(* The restore command.                                                    *)

\* The scratch copy and its validation, then the safety backup of a world that
\* is there.
RunsRestore(c) ==
  /\ pc[c] = "restore"
  /\ \/ /\ \E s \in Names : want' = [want EXCEPT ![c] = archives[s].tree]
        /\ IF disk[Live] = Nothing THEN Goto(c, "claim") /\ UNCHANGED <<archives, got>>
                             ELSE BackupBegins(c)
     \/ Goto(c, "ended") /\ UNCHANGED <<archives, got, want>>
  /\ UNCHANGED gone /\ CommandFrame

RestoreFrame == UNCHANGED <<archives, taken, blk, jobd, got, ticking, gone, loose>>

\* The lifecycle lock, and begin_transaction under it.
Claims(c) ==
  /\ pc[c] = "claim"
  /\ \/ /\ life = Nobody /\ life' = c /\ Goto(c, "stop")
        /\ status' = IF status = "idle" THEN "active" ELSE "unsafe"
        /\ UNCHANGED want
     \/ Goto(c, "ended") /\ UNCHANGED transaction   \* busy, or not published
        /\ want' = [want EXCEPT ![c] = Nothing]
  /\ UNCHANGED <<disk, swap, history>> /\ RestoreFrame

\* _graceful_stop, then the extraction beside the live tree.
Stages(c) ==
  /\ pc[c] = "stop"
  /\ want' = [want EXCEPT ![c] = Nothing]
  /\ \/ /\ disk' = [disk EXCEPT ![Staging(c)] = want[c]]
        /\ prev' = disk[Live] /\ untouched' = FALSE
        /\ Goto(c, "out")
     \/ Goto(c, "fails") /\ UNCHANGED <<disk, prev, untouched>>
  /\ UNCHANGED <<transaction, moving, copied, halfway>> /\ RestoreFrame

\* _swap_contents: the live tree is moved aside, then the staging tree in.
Swapping(c) == pc[c] \in {"out", "in"}
From(c) == IF pc[c] = "out" THEN Live ELSE Staging(c)
To(c)   == IF pc[c] = "out" THEN Aside(c) ELSE Live

\* _SwapError: the staging tree is discarded unless the live one was touched.
TouchedLive(c) ==
  pc[c] = "in" \/ \E e \in Entry \ {moving} : disk[Aside(c)][e] # "none"
SwapFails(c, trees) ==
  /\ Goto(c, "fails") /\ moving' = "none" /\ copied' = FALSE
  /\ untouched' = ~TouchedLive(c)
  /\ disk' = IF TouchedLive(c) THEN trees ELSE [trees EXCEPT ![Staging(c)] = Nothing]

SwapFrame ==
  /\ halfway' = (halfway \/ disk'[Live] # disk[Live])
  /\ UNCHANGED <<transaction, prev, want>> /\ RestoreFrame

\* _move_entry: a rename where the trees share a file system; the claim of a
\* copy where they do not (EXDEV).  Each move may be either.
MoveBegins(c) ==
  LET from == From(c)  to == To(c)  e == First(disk[from])
  IN /\ Swapping(c) /\ moving = "none" /\ disk[from] # Nothing
     /\ \/ /\ disk' = [disk EXCEPT ![to][e] = disk[from][e], ![from][e] = "none"]
           /\ UNCHANGED <<pc, swap>>
        \/ /\ disk' = [disk EXCEPT ![to][e] = "part"]
           /\ moving' = e /\ UNCHANGED <<pc, copied, untouched>>
        \/ SwapFails(c, disk)
     /\ SwapFrame

\* The copy is complete, or removed again as far as it can be.
MoveCopies(c) ==
  /\ Swapping(c) /\ moving # "none" /\ ~copied
  /\ \/ /\ disk' = [disk EXCEPT ![To(c)][moving] = disk[From(c)][moving]]
        /\ copied' = TRUE /\ UNCHANGED <<pc, moving, untouched>>
     \/ \E left \in {"none", "part"} :   \* _remove_partial_copy may fail
          SwapFails(c, [disk EXCEPT ![To(c)][moving] = left])
  /\ SwapFrame

\* The source is removed; that may fail halfway.
MoveEnds(c) ==
  /\ Swapping(c) /\ copied
  /\ \/ /\ disk' = [disk EXCEPT ![From(c)][moving] = "none"]
        /\ copied' = FALSE /\ moving' = "none" /\ UNCHANGED <<pc, untouched>>
     \/ SwapFails(c, [disk EXCEPT ![From(c)][moving] = "part"])
  /\ SwapFrame

PhaseEnds(c) ==
  /\ Swapping(c) /\ moving = "none" /\ disk[From(c)] = Nothing
  /\ Goto(c, IF pc[c] = "out" THEN "in" ELSE "start")
  /\ UNCHANGED <<disk, swap>> /\ SwapFrame

\* _chown_tree, the start and _confirm_startup.
Starts(c) ==
  /\ pc[c] = "start"
  /\ \/ \E answer \in {"ready", "unverifiable"} :
          /\ Goto(c, answer) /\ halfway' = FALSE
          /\ prev' = IF answer = "ready" THEN Nothing ELSE prev
     \/ Goto(c, "fails") /\ UNCHANGED <<prev, halfway>>
  /\ UNCHANGED <<disk, transaction, swap, want>> /\ RestoreFrame

\* What is left of a staging tree when its restore is over: nobody reads it.
Forgotten(trees, c) == [trees EXCEPT ![Staging(c)] = Nothing]

\* The completion is written, unless it cannot be, and the lock released.
\* Mutants: the mark is the outcome; the mark does not look at the outcome.
MarkedFailed(c) == IF pc[c] = "fails" THEN "failed" ELSE "idle"
MarkedAnyhow(c) == IF status = "unsafe" THEN "unsafe" ELSE "idle"
Marked(c) == IF pc[c] = "fails" \/ status = "unsafe" THEN "unsafe" ELSE "idle"
Completes(c) ==
  /\ pc[c] \in {"fails", "ready", "unverifiable"}
  /\ status' \in {status, Marked(c)} /\ life' = Nobody
  /\ Goto(c, IF pc[c] = "ready" THEN "clean" ELSE "ended")
  /\ disk' = Forgotten(disk, c)
  /\ UNCHANGED <<swap, history, want>> /\ RestoreFrame

\* After that, the tree replaced by a confirmed restore goes, as far as it can.
\* Mutant: every replaced tree goes.
EveryReplaced(c) == {Aside(k) : k \in Cmd}
Replaced(c) == {Aside(c)}
Cleans(c) ==
  /\ pc[c] = "clean" /\ Goto(c, "ended")
  /\ disk' = [p \in Place |-> IF p \in Replaced(c) THEN Nothing ELSE disk[p]]
  /\ UNCHANGED <<transaction, swap, history, want>> /\ RestoreFrame

RestoreStep(c) ==
  \/ RunsRestore(c) \/ Claims(c) \/ Stages(c) \/ MoveBegins(c) \/ MoveCopies(c)
  \/ MoveEnds(c) \/ PhaseEnds(c) \/ Starts(c) \/ Completes(c) \/ Cleans(c)

\* A command is killed: nothing is cleaned up, a removal may be halfway.
CommandDies(c) ==
  /\ pc[c] \notin {"off", "wait", "ended"} /\ Goto(c, "ended")
  /\ got' = [got EXCEPT ![c] = Nothing] /\ want' = [want EXCEPT ![c] = Nothing]
  /\ life' = IF life = c THEN Nobody ELSE life
  /\ \E trees \in {disk} \cup
                   (IF Swapping(c) /\ copied
                    THEN {[disk EXCEPT ![From(c)][moving] = "part"]} ELSE {}) :
        disk' = Forgotten(trees, c)
  /\ IF Swapping(c) THEN moving' = "none" /\ copied' = FALSE
                     ELSE UNCHANGED <<moving, copied>>
  /\ halfway' = (halfway \/ disk'[Live] # disk[Live])
  /\ UNCHANGED <<archives, taken, blk, status, jobd, ticking, untouched, prev,
                 gone, loose>>

-----------------------------------------------------------------------------
(* The operator.                                                           *)

OperatorFrame == UNCHANGED <<archives, taken, blk, life, jobd, pc, got, ticking, want,
                             moving, copied, gone>>
\* A live tree, and the rest removed.
Only(tree) == [p \in Place |-> IF p = Live THEN tree ELSE Nothing]

\* The way back that the restore has printed, by hand: beside a tick or a job,
\* one more thing without the lock.
MoveBack ==
  /\ halfway /\ life = Nobody
  /\ \/ blk = "free" /\ UNCHANGED loose
     \/ loose < MaxLoose /\ loose' = loose + 1
  /\ disk' = Only(prev)
  /\ prev' = Nothing /\ halfway' = FALSE /\ untouched' = FALSE
  /\ UNCHANGED status /\ OperatorFrame

\* acknowledge-maintenance: the trees that are left are his to sort out.
Acknowledge ==
  /\ life = Nobody /\ status # "idle" /\ status' = "idle"
  /\ disk' = Only(disk[Live])
  /\ prev' = Nothing /\ halfway' = FALSE /\ untouched' = FALSE
  /\ UNCHANGED loose /\ OperatorFrame

\* Time passes: the interval, and the retention window, of all that is there.
Ages ==
  /\ \E s \in Names : archives[s].fresh
  /\ archives' = [s \in Names |-> [archives[s] EXCEPT !.fresh = FALSE]]
  /\ UNCHANGED <<disk, taken, blk, transaction, jobd, pc, got, ticking, want,
                 swap, history, gone, loose>>

-----------------------------------------------------------------------------
CommandStep(c) ==
  RunsBackup(c) \/ RunsImport(c) \/ RunsDelete(c) \/ RestoreStep(c) \/ CommandDies(c)
JobStep(c) == JobBegins(c) \/ Locked(c) \/ JobEnds(c)
TickStep == TickBegins \/ PruneBegins \/ PruneStep \/ TickEnds \/ TickDies

Next ==
  \/ \E a \in Actor : BackupStep(a)
  \/ TickStep
  \/ \E c \in Cmd : JobStep(c) \/ ShellRuns(c) \/ CommandStep(c)
  \/ JobdDies \/ Reap \/ MoveBack \/ Acknowledge \/ Ages

Spec == Init /\ [][Next]_vars

-----------------------------------------------------------------------------
(* Properties.                                                             *)

\* Every variable stays in its range.
TypeOK ==
  /\ disk \in [Place -> Tree] /\ prev \in Tree /\ want \in [Cmd -> Tree]
  /\ Names \subseteq 1..MaxStamp /\ gone \subseteq 1..MaxStamp
  /\ taken \in 0..MaxTaken
  /\ \A s \in Names : archives[s] \in [tree : Tree, fresh : BOOLEAN, made : BOOLEAN]
  /\ blk \in {"free", "tick", "job"} /\ life \in Cmd \cup {Nobody}
  /\ status \in {"idle", "active", "unsafe"}
  /\ worker \in Cmd \cup {Nobody} /\ dead \in BOOLEAN
  /\ job \in AnyKind \cup {"none"}
  /\ pc \in [Actor -> AnyKind \cup {"off", "wait", "tar", "name", "prune", "pruning",
                       "claim", "stop", "out", "in", "start", "fails", "ready",
                       "unverifiable", "clean", "ended"}]
  /\ got \in [Actor -> Tree]
  /\ todo \subseteq 1..MaxStamp /\ survivors \in 0..MaxStamp
  /\ moving \in Entry \cup {"none"} /\ copied \in BOOLEAN /\ untouched \in BOOLEAN
  /\ halfway \in BOOLEAN /\ loose \in 0..MaxLoose

\* Every archive that a backup has listed was read to its end, so that neither
\* `--if-due` nor an operator is shown one that a killed tar left (palworld-backup).
ArchivesAreComplete ==
  \A s \in Names : archives[s].made => \A e \in Entry : archives[s].tree[e] # "none"

\* While everything runs under the backup lock, what tar has read is what the live
\* tree still holds: no restore moves the world out from under the tar of the tick
\* or of a job (backup_lock, backup-auto/run).
ArchiveIsSnapshot ==
  loose = 0 => \A a \in Actor, e \in Entry :
                 got[a][e] # "none" => got[a][e] = disk[Live][e]

\* Whatever is added and deleted since a tick listed the archives, it removes one
\* only when KeepMin newer ones are left, or would be if nobody else had deleted
\* them: under the backup lock nobody has (prune_archives, delete_archive).
RetentionFloor ==
  [][\A s \in Names \ Names' : todo' # todo =>
       Cardinality({t \in Names' \cup (IF loose = 0 THEN {} ELSE gone) : t > s})
         >= KeepMin]_<<archives, todo>>

\* While everything runs under the backup lock, the world that a restore moves out
\* has an archive from before the first move to the end of the restore, although
\* the safety backup may fail, be killed, or get the name of another archive
\* (_safety_backup).
WayBack ==
  loose = 0 =>
    \A c \in Cmd : pc[c] \in {"out", "in", "start"} =>
      prev = Nothing \/ \E s \in Names : archives[s].tree = prev

\* From the first move of a restore to its confirmed start, every entry of the
\* world that was there is whole in Saved or in a replaced tree, whatever fails,
\* whoever dies, and whatever an earlier restore still cleans up
\* (_swap_contents, _move_entry, restore_archive).
PreviousWorldSurvives ==
  \A e \in Entry : prev[e] \in {"none", disk[Live][e]} \cup {disk[Aside(c)][e] : c \in Cmd}

\* A world that a restore has begun to move is fenced off by the lifecycle status
\* until the restore is finished, undone, or acknowledged.
MixedTreeIsFenced == halfway => status # "idle"

\* "Nothing was moved: the previous world is complete and untouched"
\* (_mid_swap_out), when the restore says so.
UntouchedIsTrue == untouched => disk[Live] = prev
=============================================================================
