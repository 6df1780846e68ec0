-------------------------- MODULE WorldDataProofs ---------------------------
(* Theorems about WorldData, for every set of commands, every retention      *)
(* floor and every bound: backups are complete and, under the backup lock,   *)
(* what the world was; retention keeps its floor; the world a restore        *)
(* replaces is archived and never lost, and a tree that was begun to move is *)
(* fenced off.                                                               *)
EXTENDS WorldData, TLAPS, FiniteSetTheorems

-----------------------------------------------------------------------------
(* The inductive invariant.                                                 *)

\* TypeOK in three parts: the trees, the archives and the tick, the control.
TreesOK ==
  disk \in [Place -> Tree] /\ prev \in Tree /\ want \in [Cmd -> Tree] /\ got \in [Actor -> Tree]
ListOK ==
  /\ Names \subseteq 1..MaxStamp /\ gone \subseteq 1..MaxStamp /\ taken \in 0..MaxTaken
  /\ \A s \in Names : archives[s] \in [tree : Tree, fresh : BOOLEAN, made : BOOLEAN]
  /\ todo \subseteq 1..MaxStamp /\ survivors \in 0..MaxStamp
Holding == {"stop", "out", "in", "start", "fails", "ready", "unverifiable"}
Active == AnyKind \cup Holding \cup {"tar", "name", "claim", "clean"}
ControlOK ==
  /\ blk \in {"free", "tick", "job"} /\ life \in Cmd \cup {Nobody}
  /\ status \in {"idle", "active", "unsafe"}
  /\ worker \in Cmd \cup {Nobody} /\ dead \in BOOLEAN
  /\ job \in AnyKind \cup {"none"}
  /\ worker # Nobody => job # "none"
  /\ pc \in [Actor -> Active \cup {"off", "wait", "prune", "pruning", "ended"}]
  /\ moving \in Entry \cup {"none"} /\ copied \in BOOLEAN /\ untouched \in BOOLEAN
  /\ halfway \in BOOLEAN /\ loose \in 0..MaxLoose

\* The backup lock: the tick always holds it; while nothing has run without
\* it, so does the one command that is at work.
BackupLock ==
  /\ pc[Tick] \in {"off", "tar", "name", "prune", "pruning"}
  /\ \A c \in Cmd : pc[c] \notin {"prune", "pruning"}
  /\ pc[Tick] # "off" <=> blk = "tick"
  /\ loose = 0 => \A c \in Cmd : pc[c] \in Active => worker = c /\ blk = "job"

\* The lifecycle lock: the one restore between its claim and its completion
\* holds it; only that one copies, and the status is not idle meanwhile.
LifecycleLock ==
  /\ \A c \in Cmd : pc[c] \in Holding => life = c
  /\ life # Nobody => status # "idle"
  /\ copied => moving # "none"
  /\ moving # "none" => life # Nobody /\ pc[life] \in {"out", "in"}
  /\ halfway => status # "idle"
  /\ \A c \in Cmd : pc[c] \in {"ready", "unverifiable"} => ~halfway

\* tar has read SaveGames, then Config; nobody else has read anything.
TarInv ==
  \A a \in Actor :
    /\ pc[a] \notin {"tar", "name"} => got[a] = Nothing
    /\ pc[a] = "tar" => got[a]["Config"] = "none"
    /\ pc[a] = "name" => \A e \in Entry : got[a][e] # "none"

\* What is left to prune has KeepMin newer archives that are listed or were
\* deleted by others: removing the oldest name first takes nothing from these.
\* While everything runs under the backup lock nobody else deletes.
Above(s) == {t \in Names \cup gone : t > s}
PruneInv ==
  /\ pc[Tick] = "pruning" => \A s \in todo : Cardinality(Above(s)) >= KeepMin
  /\ loose = 0 => gone = {}

\* An archive holds the tree, or there is nothing to hold.
Kept(tree) == tree = Nothing \/ \E s \in Names : archives[s].tree = tree

\* While everything runs under the backup lock, the live tree has an archive when
\* a restore waits for the lifecycle lock and stops the server, and the world it
\* replaces has one from then on.
WayInv ==
  loose = 0 =>
    \A c \in Cmd :
      /\ pc[c] \in {"claim", "stop"} => Kept(disk[Live])
      /\ pc[c] \in {"out", "in", "start"} => Kept(prev)

\* A restore that has not begun to move has no replaced tree.  While it moves
\* the live tree out, every entry of the previous world is still live, or is
\* already, complete, in its replaced tree.
Swapped == {"out", "in", "start", "fails", "ready", "unverifiable", "clean", "ended"}
MovesOut(c) ==
  /\ \A e \in Entry :
       IF disk[Live][e] = "none" THEN disk[Aside(c)][e] = prev[e]
       ELSE prev[e] = disk[Live][e] /\ (e # moving => disk[Aside(c)][e] = "none")
  /\ moving # "none" => disk[Live][moving] # "none"
  /\ copied => disk[Aside(c)][moving] = disk[Live][moving]
OutInv ==
  \A c \in Cmd :
    /\ pc[c] \notin Swapped => disk[Aside(c)] = Nothing
    /\ pc[c] = "out" => MovesOut(c)

\* The entry is whole in a replaced tree that nobody is about to remove.
SetAside(e) ==
  \E k \in Cmd : pc[k] \notin {"ready", "clean"} /\ prev[e] = disk[Aside(k)][e]

\* The previous world, entry by entry; while the new world moves in, the live
\* tree does not count.
PrevInv ==
  /\ \A e \in Entry : prev[e] \in {"none", disk[Live][e]} \/ SetAside(e)
  /\ \A c \in Cmd : pc[c] = "in" => \A e \in Entry : prev[e] = "none" \/ SetAside(e)

IInv ==
  /\ TreesOK /\ ListOK /\ ControlOK /\ BackupLock /\ LifecycleLock
  /\ TarInv /\ ArchivesAreComplete /\ ArchiveIsSnapshot
  /\ PruneInv /\ WayInv /\ OutInv /\ PrevInv


-----------------------------------------------------------------------------
(* The constants.                                                           *)

\* The places of the trees are different places.
LEMMA Places ==
  /\ Live \in Place /\ \A c \in Cmd : Staging(c) \in Place /\ Aside(c) \in Place
  /\ \A c \in Cmd : Staging(c) # Live /\ Aside(c) # Live
  /\ \A c, k \in Cmd : Aside(c) # Staging(k)
  /\ \A c, k \in Cmd : c # k => Aside(c) # Aside(k)
  BY DEF Place, Live, Staging, Aside

\* The tick is no command, and nobody is none.
LEMMA Actors ==
  /\ Tick \in Actor /\ Nobody \notin Cmd
  /\ \A c \in Cmd : c \in Actor /\ c # Tick /\ c # Nobody
  /\ \A a \in Actor : a # Tick => a \in Cmd
  BY CmdAssumption DEF Actor

\* The trees of the model are trees.
LEMMA Trees ==
  /\ Nothing \in Tree /\ \A w \in Content : Whole(w) \in Tree
  /\ \A e \in Entry : Nothing[e] = "none"
  /\ \A t \in Tree : t # Nothing <=> \E e \in Entry : t[e] # "none"
  /\ \A t \in Tree, e \in Entry : t[e] \in Content
<1>1. \A t \in Tree : t # Nothing => \E e \in Entry : t[e] # "none"
  BY DEF Tree, Nothing
<1> QED BY <1>1 DEF Tree, Nothing, Whole, Content

\* The entry that a move takes is one that is there.
LEMMA FirstIsThere ==
  ASSUME NEW t \in Tree, t # Nothing
  PROVE  First(t) \in Entry /\ t[First(t)] # "none"
<1>1. PICK e \in Entry : t[e] # "none"
  BY Trees
<1> QED BY <1>1 DEF First, Entry

\* One tree changed in one entry.
LEMMA Changed ==
  ASSUME NEW d \in [Place -> Tree], NEW p \in Place, NEW e \in Entry, NEW x \in Content
  PROVE  /\ [d EXCEPT ![p][e] = x] \in [Place -> Tree]
         /\ [d EXCEPT ![p][e] = x][p][e] = x
         /\ \A f \in Entry : f # e => [d EXCEPT ![p][e] = x][p][f] = d[p][f]
         /\ \A q \in Place : q # p => [d EXCEPT ![p][e] = x][q] = d[q]
<1>1. d[p] \in Tree
  OBVIOUS
<1>2. [d[p] EXCEPT ![e] = x] \in Tree
  BY <1>1 DEF Tree
<1> QED BY <1>1, <1>2 DEF Tree

\* What is forgotten with a restore is its staging tree.
LEMMA OnlyStaging ==
  ASSUME NEW d \in [Place -> Tree], NEW c \in Cmd
  PROVE  \A p \in Place : p # Staging(c) => Forgotten(d, c)[p] = d[p]
  BY DEF Forgotten

\* Archives: one more, or some fewer.
LEMMA Listed ==
  /\ \A s, t : DOMAIN Named(s, t, TRUE) = Names \cup {s}
  /\ \A s, t : Named(s, t, TRUE)[s] = [tree |-> t, fresh |-> TRUE, made |-> TRUE]
  /\ \A s, t : \A n \in Names : n # s => Named(s, t, TRUE)[n] = archives[n]
  /\ \A s, t : DOMAIN Named(s, t, FALSE) = Names \cup {s}
  /\ \A s, t : Named(s, t, FALSE)[s] = [tree |-> t, fresh |-> TRUE, made |-> FALSE]
  /\ \A s, t : \A n \in Names : n # s => Named(s, t, FALSE)[n] = archives[n]
  /\ \A S : DOMAIN Restrict(archives, S) = S
  /\ \A S : \A n \in S : Restrict(archives, S)[n] = archives[n]
  BY DEF Named, Restrict, Names

-----------------------------------------------------------------------------
(* Every initial state satisfies the invariant.                             *)
LEMMA InitInvariant == Init => IInv
<1> SUFFICES ASSUME Init PROVE IInv
  OBVIOUS
<1> USE DEF Init
<1>1. disk[Live] = Whole("new") /\ \A p \in Place : p # Live => disk[p] = Nothing
  BY Places
<1>2. Names = {1} /\ archives[1] = [tree |-> Whole("old"), fresh |-> FALSE, made |-> TRUE]
  BY DEF Names
<1>3. TreesOK
  BY Trees DEF TreesOK, Content
<1>4. ListOK
  BY <1>2, Trees, BoundAssumption DEF ListOK, Content
<1>5. ControlOK
  <2>1. loose \in 0..MaxLoose
    BY BoundAssumption
  <2>2. pc \in [Actor -> Active \cup {"off", "wait", "prune", "pruning", "ended"}]
    OBVIOUS
  <2> QED BY <2>1, <2>2 DEF ControlOK
<1>6. BackupLock
  BY Actors DEF BackupLock, Active, AnyKind, Holding
<1>7. LifecycleLock
  BY Actors DEF LifecycleLock, Holding
<1>8. TarInv /\ ArchiveIsSnapshot
  BY Trees DEF TarInv, ArchiveIsSnapshot
<1>9. ArchivesAreComplete
  BY <1>2 DEF ArchivesAreComplete, Whole
<1>10. PruneInv /\ WayInv
  BY Actors DEF PruneInv, WayInv
<1>11. OutInv
  BY <1>1, Places, Actors DEF OutInv, Swapped
<1>12. PrevInv
  BY Trees, Actors DEF PrevInv
<1> QED BY <1>3, <1>4, <1>5, <1>6, <1>7, <1>8, <1>9, <1>10, <1>11, <1>12 DEF IInv


\* Where a restore moves from and to.
LEMMA FromTo ==
  ASSUME NEW c \in Cmd
  PROVE  /\ From(c) \in Place /\ To(c) \in Place /\ From(c) # To(c)
         /\ pc[c] = "out" => From(c) = Live /\ To(c) = Aside(c)
         /\ pc[c] = "in" => From(c) = Staging(c) /\ To(c) = Live
  BY Places DEF From, To

\* The trees.
LEMMA TreesStep ==
TreesOK /\ ListOK /\ ControlOK /\ LifecycleLock /\ [Next]_vars => TreesOK'
<1> SUFFICES ASSUME TreesOK, ListOK, ControlOK, LifecycleLock, [Next]_vars
     PROVE TreesOK'
  OBVIOUS
<1> USE DEF TreesOK, vars, transaction, jobd, ticking, swap, history,
     Goto, BackupFrame, TickFrame, JobFrame, CommandFrame, RestoreFrame,
     SwapFrame, OperatorFrame
<1>a. Nothing \in Tree /\ Whole("old") \in Tree
  BY Trees DEF Content
<1>b. \A p \in Place : disk[p] \in Tree
  OBVIOUS
<1>c. \A a \in Actor : [got EXCEPT ![a] = Nothing] \in [Actor -> Tree]
  BY <1>a
<1>d. "none" \in Content /\ "part" \in Content
  BY DEF Content
<1>e. moving # "none" => moving \in Entry
  BY DEF ControlOK
<1>f. \A p \in Place, t \in Tree : [disk EXCEPT ![p] = t] \in [Place -> Tree]
  OBVIOUS
<1>g. \A c \in Cmd : From(c) \in Place /\ To(c) \in Place
  BY FromTo
<1>h. Live \in Place /\ \A c \in Cmd : Staging(c) \in Place /\ c \in Actor
  BY Places, Actors
<1>i. \A p \in Place, e \in Entry, x \in Content : [disk EXCEPT ![p][e] = x] \in [Place -> Tree]
  BY Changed
<1>j. \A c \in Cmd, d \in [Place -> Tree] : SwapFails(c, d) => disk' \in [Place -> Tree]
  BY <1>a, <1>h DEF SwapFails
<1>k. \A p \in Place, e \in Entry : disk[p][e] \in Content
  BY <1>b, Trees
<1>1. ASSUME NEW a \in Actor, TarReads(a) PROVE TreesOK'
  <2>1. disk[Live] \in Tree /\ got[a] \in Tree
    BY <1>h
  <2>2. \A e \in Entry : [got[a] EXCEPT ![e] = disk[Live][e]] \in Tree
    BY <2>1 DEF Tree
  <2>3. "SaveGames" \in Entry /\ "Config" \in Entry
    BY DEF Entry
  <2>4. got' \in [Actor -> Tree]
    BY <1>1, <2>2, <2>3 DEF TarReads
  <2> QED BY <1>1, <2>4 DEF TarReads
<1>2. ASSUME NEW a \in Actor, Archived(a) PROVE TreesOK'
  BY <1>2, <1>c DEF Archived, Named, After
<1>3. ASSUME NEW a \in Actor, BackupFails(a) PROVE TreesOK'
  <2>1. want' \in [Cmd -> Tree]
    BY <1>3, <1>a DEF BackupFails
  <2> QED BY <1>3, <2>1, <1>c DEF BackupFails
<1>4. ASSUME TickBegins PROVE TreesOK'
  BY <1>4, <1>c, Actors DEF TickBegins, TickMayRun, BackupBegins, Begun
<1>5. ASSUME PruneBegins PROVE TreesOK'
  BY <1>5 DEF PruneBegins, Candidates
<1>6. ASSUME PruneStep PROVE TreesOK'
  BY <1>6 DEF PruneStep
<1>7. ASSUME TickEnds PROVE TreesOK'
  BY <1>7, <1>c, Actors DEF TickEnds, TickLeaves
<1>8. ASSUME TickDies PROVE TreesOK'
  BY <1>8, <1>c, Actors DEF TickDies, TickLeaves
<1>9. ASSUME NEW c \in Cmd, JobBegins(c) PROVE TreesOK'
  BY <1>9 DEF JobBegins
<1>10. ASSUME NEW c \in Cmd, Locked(c) PROVE TreesOK'
  BY <1>10 DEF Locked
<1>11. ASSUME NEW c \in Cmd, JobEnds(c) PROVE TreesOK'
  BY <1>11 DEF JobEnds, Free
<1>12. ASSUME NEW c \in Cmd, ShellRuns(c) PROVE TreesOK'
  BY <1>12 DEF ShellRuns
<1>13. ASSUME NEW c \in Cmd, RunsBackup(c) PROVE TreesOK'
  BY <1>13, <1>c, <1>h DEF RunsBackup, BackupBegins, Begun
<1>14. ASSUME NEW c \in Cmd, RunsImport(c) PROVE TreesOK'
  BY <1>14 DEF RunsImport, Named
<1>15. ASSUME NEW c \in Cmd, RunsDelete(c) PROVE TreesOK'
  BY <1>15 DEF RunsDelete
<1>16. ASSUME NEW c \in Cmd, RunsRestore(c) PROVE TreesOK'
  <2>1. \A s \in Names : archives[s].tree \in Tree
    BY DEF ListOK
  <2>2. want' \in [Cmd -> Tree]
    BY <1>16, <2>1 DEF RunsRestore
  <2>3. got' \in [Actor -> Tree]
    BY <1>16, <1>c, <1>h DEF RunsRestore, BackupBegins
  <2> QED BY <1>16, <2>2, <2>3 DEF RunsRestore
<1>17. ASSUME NEW c \in Cmd, Claims(c) PROVE TreesOK'
  <2>1. want' \in [Cmd -> Tree]
    BY <1>17, <1>a DEF Claims
  <2> QED BY <1>17, <2>1 DEF Claims
<1>18. ASSUME NEW c \in Cmd, Stages(c) PROVE TreesOK'
  <2>1. want' \in [Cmd -> Tree]
    BY <1>18, <1>a DEF Stages
  <2>2. disk' \in [Place -> Tree] /\ prev' \in Tree
    BY <1>18, <1>f, <1>h DEF Stages
  <2> QED BY <1>18, <2>1, <2>2 DEF Stages
<1>19. ASSUME NEW c \in Cmd, MoveBegins(c) PROVE TreesOK'
  <2> DEFINE e == First(disk[From(c)])
  <2>1. e \in Entry
    BY <1>19, <1>b, <1>g, FirstIsThere DEF MoveBegins
  <2>2. disk[From(c)][e] \in Content
    BY <2>1, <1>g, <1>k
  <2>3. [disk EXCEPT ![To(c)][e] = disk[From(c)][e], ![From(c)][e] = "none"] \in [Place -> Tree]
    <3>1. [disk EXCEPT ![To(c)][e] = disk[From(c)][e]] \in [Place -> Tree]
      BY <2>1, <2>2, <1>g, <1>i
    <3> QED BY <3>1, <2>1, <1>d, <1>g, Changed
  <2>4. disk' \in [Place -> Tree]
    BY <1>19, <2>1, <2>3, <1>d, <1>g, <1>i, <1>j DEF MoveBegins
  <2> QED BY <1>19, <2>4 DEF MoveBegins
<1>20. ASSUME NEW c \in Cmd, MoveCopies(c) PROVE TreesOK'
  <2>1. moving \in Entry
    BY <1>20, <1>e DEF MoveCopies
  <2> DEFINE d == [disk EXCEPT ![To(c)][moving] = disk[From(c)][moving]]
  <2> DEFINE f(left) == [disk EXCEPT ![To(c)][moving] = left]
  <2>3. d \in [Place -> Tree] /\ f("none") \in [Place -> Tree] /\ f("part") \in [Place -> Tree]
    BY <2>1, <1>d, <1>g, <1>i, <1>k
  <2>4. disk' = d \/ SwapFails(c, f("none")) \/ SwapFails(c, f("part"))
    BY <1>20 DEF MoveCopies
  <2> HIDE DEF d, f
  <2>2. disk' \in [Place -> Tree]
    BY <2>3, <2>4, <1>j
  <2> QED BY <1>20, <2>2 DEF MoveCopies
<1>21. ASSUME NEW c \in Cmd, MoveEnds(c) PROVE TreesOK'
  <2>1. moving \in Entry
    BY <1>21, <1>e DEF MoveEnds, LifecycleLock
  <2> DEFINE d == [disk EXCEPT ![From(c)][moving] = "none"]
  <2> DEFINE f == [disk EXCEPT ![From(c)][moving] = "part"]
  <2>3. d \in [Place -> Tree] /\ f \in [Place -> Tree]
    BY <2>1, <1>d, <1>g, <1>i
  <2>4. disk' = d \/ SwapFails(c, f)
    BY <1>21 DEF MoveEnds
  <2> HIDE DEF d, f
  <2>2. disk' \in [Place -> Tree]
    BY <2>3, <2>4, <1>j
  <2> QED BY <1>21, <2>2 DEF MoveEnds
<1>22. ASSUME NEW c \in Cmd, PhaseEnds(c) PROVE TreesOK'
  BY <1>22 DEF PhaseEnds
<1>23. ASSUME NEW c \in Cmd, Starts(c) PROVE TreesOK'
  <2>1. prev' \in Tree
    BY <1>23, <1>a DEF Starts
  <2> QED BY <1>23, <2>1 DEF Starts
<1>24. ASSUME NEW c \in Cmd, Completes(c) PROVE TreesOK'
  BY <1>24, <1>a, <1>f, <1>h DEF Completes, Forgotten
<1>25. ASSUME NEW c \in Cmd, Cleans(c) PROVE TreesOK'
  BY <1>25, <1>a DEF Cleans, Replaced
<1>26. ASSUME NEW c \in Cmd, CommandDies(c) PROVE TreesOK'
  <2>1. copied => [disk EXCEPT ![From(c)][moving] = "part"] \in [Place -> Tree]
    BY <1>d, <1>e, <1>g, <1>i DEF LifecycleLock
  <2>2. \A d \in [Place -> Tree] : Forgotten(d, c) \in [Place -> Tree]
    BY <1>a, <1>h DEF Forgotten
  <2>4. disk' \in [Place -> Tree]
    BY <1>26, <2>1, <2>2 DEF CommandDies
  <2>3. got' \in [Actor -> Tree] /\ want' \in [Cmd -> Tree]
    BY <1>26, <1>a, <1>c, <1>h DEF CommandDies
  <2> QED BY <1>26, <2>3, <2>4 DEF CommandDies
<1>27. ASSUME JobdDies PROVE TreesOK'
  BY <1>27 DEF JobdDies, Free
<1>28. ASSUME Reap PROVE TreesOK'
  BY <1>28 DEF Reap
<1>29. ASSUME MoveBack PROVE TreesOK'
  <2> QED BY <1>29, <1>a DEF MoveBack, Only
<1>30. ASSUME Acknowledge PROVE TreesOK'
  <2> QED BY <1>30, <1>a, <1>h DEF Acknowledge, Only
<1>31. ASSUME Ages PROVE TreesOK'
  BY <1>31 DEF Ages
<1>32. CASE UNCHANGED vars
  BY <1>32
<1> QED BY <1>1, <1>2, <1>3, <1>4, <1>5, <1>6, <1>7, <1>8, <1>9, <1>10, <1>11,
     <1>12, <1>13, <1>14, <1>15, <1>16, <1>17, <1>18, <1>19, <1>20, <1>21,
     <1>22, <1>23, <1>24, <1>25, <1>26, <1>27, <1>28, <1>29, <1>30, <1>31,
     <1>32 DEF Next, BackupStep, TickStep, JobStep, CommandStep, RestoreStep

\* The archives and the tick.
LEMMA ListStep ==
TreesOK /\ ListOK /\ ControlOK /\ [Next]_vars => ListOK'
<1> SUFFICES ASSUME TreesOK, ListOK, ControlOK, [Next]_vars PROVE ListOK'
  OBVIOUS
<1> USE DEF ListOK, vars, transaction, jobd, ticking, swap, history,
     Goto, BackupFrame, TickFrame, JobFrame, CommandFrame, RestoreFrame,
     SwapFrame, OperatorFrame
<1>a. /\ \A s, t : DOMAIN Named(s, t, TRUE) = DOMAIN archives \cup {s}
      /\ \A s, t : Named(s, t, TRUE)[s] = [tree |-> t, fresh |-> TRUE, made |-> TRUE]
      /\ \A s, t : \A n \in DOMAIN archives : n # s => Named(s, t, TRUE)[n] = archives[n]
      /\ \A s, t : DOMAIN Named(s, t, FALSE) = DOMAIN archives \cup {s}
      /\ \A s, t : Named(s, t, FALSE)[s] = [tree |-> t, fresh |-> TRUE, made |-> FALSE]
      /\ \A s, t : \A n \in DOMAIN archives : n # s => Named(s, t, FALSE)[n] = archives[n]
      /\ \A S : DOMAIN Restrict(archives, S) = S
      /\ \A S : \A n \in S : Restrict(archives, S)[n] = archives[n]
  BY Listed DEF Names
<1>b. \A t \in Tree, m \in BOOLEAN :
        [tree |-> t, fresh |-> TRUE, made |-> m] \in [tree : Tree, fresh : BOOLEAN, made : BOOLEAN]
  OBVIOUS
<1>c. Whole("old") \in Tree
  BY Trees DEF Content
<1>d. MaxStamp \in Nat /\ MaxClock \in 1..MaxStamp /\ MaxTaken \in Nat
  BY BoundAssumption
<1> USE DEF Names
<1>1. ASSUME NEW a \in Actor, TarReads(a) PROVE ListOK'
  BY <1>1 DEF TarReads
<1>2. ASSUME NEW a \in Actor, Archived(a) PROVE ListOK'
  <2>1. got[a] \in Tree
    BY DEF TreesOK
  <2>2. PICK s \in 1..MaxClock : archives' = Named(s, got[a], TRUE)
    BY <1>2 DEF Archived
  <2>7. s \in 1..MaxStamp
    BY <1>d
  <2>8. DOMAIN archives' = DOMAIN archives \cup {s}
    BY <2>2, <1>a
  <2>3. Names' = Names \cup {s} /\ s \in 1..MaxStamp
    BY <2>7, <2>8
  <2>9. archives'[s] = [tree |-> got[a], fresh |-> TRUE, made |-> TRUE]
    BY <2>2, <1>a
  <2>10. ASSUME NEW n \in Names, n # s PROVE archives'[n] = archives[n]
    BY <2>2, <2>10, <1>a
  <2>4. /\ archives'[s] = [tree |-> got[a], fresh |-> TRUE, made |-> TRUE]
        /\ \A n \in Names : n # s => archives'[n] = archives[n]
    BY <2>9, <2>10
  <2>5. \A n \in Names' : archives'[n] \in [tree : Tree, fresh : BOOLEAN, made : BOOLEAN]
    BY <2>1, <2>3, <2>4, <1>b
  <2>6. taken' \in 0..MaxTaken
    BY <1>2, <1>d DEF Archived
  <2> QED BY <1>2, <2>3, <2>5, <2>6 DEF Archived
<1>3. ASSUME NEW a \in Actor, BackupFails(a) PROVE ListOK'
  BY <1>3 DEF BackupFails, After
<1>4. ASSUME TickBegins PROVE ListOK'
  BY <1>4 DEF TickBegins, TickMayRun, BackupBegins, Begun
<1>5. ASSUME PruneBegins PROVE ListOK'
  <2>1. Names \subseteq 1..MaxStamp
    BY <1>d
  <2>2. IsFiniteSet(1..MaxStamp) /\ Cardinality(1..MaxStamp) = MaxStamp
    <3>1. 1 \in Int /\ MaxStamp \in Int /\ 1 <= MaxStamp + 1
      BY <1>d
    <3>2. IsFiniteSet(1..MaxStamp) /\ Cardinality(1..MaxStamp) = IF 1 > MaxStamp THEN 0 ELSE MaxStamp - 1 + 1
      BY <3>1, FS_Interval
    <3> QED BY <3>2, <1>d
  <2>3. IsFiniteSet(Names) /\ Cardinality(Names) <= MaxStamp
    BY <2>1, <2>2, FS_Subset
  <2>4. Cardinality(Names) \in 0..MaxStamp
    BY <2>3, <1>d, FS_CardinalityType
  <2> QED BY <1>5, <2>4 DEF PruneBegins, Candidates
<1>6. ASSUME PruneStep PROVE ListOK'
  <2>1. Names' \subseteq Names /\ \A s \in Names' : archives'[s] = archives[s]
    BY <1>6, <1>a DEF PruneStep
  <2>2. survivors' \in 0..MaxStamp /\ todo' \subseteq todo
    BY <1>6, <1>d DEF PruneStep
  <2> QED BY <1>6, <2>1, <2>2 DEF PruneStep
<1>7. ASSUME TickEnds PROVE ListOK'
  BY <1>7, <1>d DEF TickEnds, TickLeaves
<1>8. ASSUME TickDies PROVE ListOK'
  BY <1>8, <1>d DEF TickDies, TickLeaves
<1>9. ASSUME NEW c \in Cmd, JobBegins(c) PROVE ListOK'
  BY <1>9 DEF JobBegins
<1>10. ASSUME NEW c \in Cmd, Locked(c) PROVE ListOK'
  BY <1>10 DEF Locked
<1>11. ASSUME NEW c \in Cmd, JobEnds(c) PROVE ListOK'
  BY <1>11 DEF JobEnds, Free
<1>12. ASSUME NEW c \in Cmd, ShellRuns(c) PROVE ListOK'
  BY <1>12 DEF ShellRuns
<1>13. ASSUME NEW c \in Cmd, RunsBackup(c) PROVE ListOK'
  BY <1>13 DEF RunsBackup, BackupBegins, Begun
<1>14. ASSUME NEW c \in Cmd, RunsImport(c) PROVE ListOK'
  <2>1. CASE UNCHANGED archives
    BY <1>14, <2>1 DEF RunsImport
  <2>2. ASSUME NEW s \in 1..MaxStamp, NEW t \in Upload, archives' = Named(s, t, FALSE)
        PROVE  ListOK'
    <3>1. Names' = Names \cup {s}
      BY <2>2, <1>a
    <3>5. archives'[s] = [tree |-> t, fresh |-> TRUE, made |-> FALSE]
      <4>1. Named(s, t, FALSE)[s] = [tree |-> t, fresh |-> TRUE, made |-> FALSE]
        BY <1>a
      <4> QED BY <2>2, <4>1
    <3>6. ASSUME NEW n \in Names, n # s PROVE archives'[n] = archives[n]
      BY <2>2, <3>6, <1>a
    <3>2. /\ archives'[s] = [tree |-> t, fresh |-> TRUE, made |-> FALSE]
          /\ \A n \in Names : n # s => archives'[n] = archives[n]
      BY <3>5, <3>6
    <3>3. t \in Tree
      BY <1>c DEF Upload, Tree, Content
    <3>4. \A n \in Names' : archives'[n] \in [tree : Tree, fresh : BOOLEAN, made : BOOLEAN]
      BY <3>1, <3>2, <3>3, <1>b
    <3> QED BY <1>14, <3>1, <3>4 DEF RunsImport
  <2> QED BY <1>14, <2>1, <2>2 DEF RunsImport
<1>15. ASSUME NEW c \in Cmd, RunsDelete(c) PROVE ListOK'
  <2>1. CASE UNCHANGED archives
    BY <1>15, <2>1 DEF RunsDelete
  <2>2. ASSUME NEW s \in Names, archives' = Restrict(archives, Names \ {s})
        PROVE  ListOK'
    <3>1. Names' = Names \ {s} /\ \A t \in Names' : archives'[t] = archives[t]
      BY <2>2, <1>a
    <3> QED BY <1>15, <3>1 DEF RunsDelete
  <2> QED BY <1>15, <2>1, <2>2 DEF RunsDelete
<1>16. ASSUME NEW c \in Cmd, RunsRestore(c) PROVE ListOK'
  BY <1>16 DEF RunsRestore, BackupBegins, Begun
<1>17. ASSUME NEW c \in Cmd, Claims(c) PROVE ListOK'
  BY <1>17 DEF Claims
<1>18. ASSUME NEW c \in Cmd, Stages(c) PROVE ListOK'
  BY <1>18 DEF Stages
<1>19. ASSUME NEW c \in Cmd, MoveBegins(c) PROVE ListOK'
  BY <1>19 DEF MoveBegins, SwapFails
<1>20. ASSUME NEW c \in Cmd, MoveCopies(c) PROVE ListOK'
  BY <1>20 DEF MoveCopies, SwapFails
<1>21. ASSUME NEW c \in Cmd, MoveEnds(c) PROVE ListOK'
  BY <1>21 DEF MoveEnds, SwapFails
<1>22. ASSUME NEW c \in Cmd, PhaseEnds(c) PROVE ListOK'
  BY <1>22 DEF PhaseEnds
<1>23. ASSUME NEW c \in Cmd, Starts(c) PROVE ListOK'
  BY <1>23 DEF Starts
<1>24. ASSUME NEW c \in Cmd, Completes(c) PROVE ListOK'
  BY <1>24 DEF Completes, Marked
<1>25. ASSUME NEW c \in Cmd, Cleans(c) PROVE ListOK'
  BY <1>25 DEF Cleans, Replaced
<1>26. ASSUME NEW c \in Cmd, CommandDies(c) PROVE ListOK'
  BY <1>26 DEF CommandDies
<1>27. ASSUME JobdDies PROVE ListOK'
  BY <1>27 DEF JobdDies, Free
<1>28. ASSUME Reap PROVE ListOK'
  BY <1>28 DEF Reap
<1>29. ASSUME MoveBack PROVE ListOK'
  BY <1>29 DEF MoveBack, Only
<1>30. ASSUME Acknowledge PROVE ListOK'
  BY <1>30 DEF Acknowledge, Only
<1>31. ASSUME Ages PROVE ListOK'
  <2>1. Names' = Names
    BY <1>31 DEF Ages
  <2>2. ASSUME NEW s \in Names PROVE archives'[s] \in [tree : Tree, fresh : BOOLEAN, made : BOOLEAN]
    BY <1>31 DEF Ages
  <2> QED BY <1>31, <2>1, <2>2 DEF Ages
<1>32. CASE UNCHANGED vars
  BY <1>32
<1> QED BY <1>1, <1>2, <1>3, <1>4, <1>5, <1>6, <1>7, <1>8, <1>9, <1>10, <1>11,
     <1>12, <1>13, <1>14, <1>15, <1>16, <1>17, <1>18, <1>19, <1>20, <1>21,
     <1>22, <1>23, <1>24, <1>25, <1>26, <1>27, <1>28, <1>29, <1>30, <1>31,
     <1>32 DEF Next, BackupStep, TickStep, JobStep, CommandStep, RestoreStep


\* What every step of the swap leaves alone.
LEMMA SwapFacts ==
  ASSUME NEW c \in Cmd, MoveBegins(c) \/ MoveCopies(c) \/ MoveEnds(c) \/ PhaseEnds(c)
  PROVE  /\ pc[c] \in {"out", "in"}
         /\ \/ pc' = pc
            \/ \E p \in {"fails", "in", "start"} : pc' = [pc EXCEPT ![c] = p]
         /\ archives' = archives /\ gone' = gone /\ taken' = taken /\ blk' = blk
         /\ life' = life /\ status' = status
         /\ worker' = worker /\ job' = job /\ dead' = dead
         /\ got' = got /\ todo' = todo /\ survivors' = survivors
         /\ want' = want /\ loose' = loose /\ prev' = prev
         /\ halfway' = (halfway \/ disk'[Live] # disk[Live])
         /\ pc' = pc \/ moving' = "none"
         /\ \/ moving' = moving /\ copied' = copied
            \/ moving' # "none"
            \/ moving' = "none" /\ copied' = FALSE
<1> USE DEF Swapping, Goto, SwapFrame, RestoreFrame, transaction, jobd, ticking, swap
<1>1. CASE MoveBegins(c)
  <2>1. First(disk[From(c)]) # "none"
    BY DEF First
  <2> QED BY <1>1, <2>1 DEF MoveBegins, SwapFails
<1>2. CASE MoveCopies(c)
  BY <1>2 DEF MoveCopies, SwapFails
<1>3. CASE MoveEnds(c)
  BY <1>3 DEF MoveEnds, SwapFails
<1>4. CASE PhaseEnds(c)
  BY <1>4 DEF PhaseEnds
<1> QED BY <1>1, <1>2, <1>3, <1>4

\* The control.
LEMMA ControlStep ==
TreesOK /\ ListOK /\ ControlOK /\ [Next]_vars => ControlOK'
<1> SUFFICES ASSUME TreesOK, ListOK, ControlOK, [Next]_vars PROVE ControlOK'
  OBVIOUS
<1> USE DEF ControlOK, vars, transaction, jobd, ticking, swap,
     history, Goto, BackupFrame, TickFrame, JobFrame, CommandFrame,
     RestoreFrame, SwapFrame, OperatorFrame
<1>a. Tick \in Actor /\ \A c \in Cmd : c \in Actor /\ c # Nobody
  BY Actors
<1> DEFINE Pcs == Active \cup {"off", "wait", "prune", "pruning", "ended"}
<1>c. AnyKind \subseteq Pcs /\ Holding \subseteq Pcs /\ {"tar", "name", "claim", "clean"} \subseteq Pcs
  BY DEF Active
<1>d. \A a \in Actor, p \in Pcs : [pc EXCEPT ![a] = p] \in [Actor -> Pcs]
  OBVIOUS
<1>e. /\ {"stop", "out", "in", "start", "fails", "ready", "unverifiable"} \subseteq Pcs
      /\ {"backup", "import", "delete", "restore"} \subseteq Pcs
      /\ {"off", "wait", "prune", "pruning", "ended"} \subseteq Pcs
  BY <1>c DEF Holding, AnyKind
<1>f. "none" \notin AnyKind
  BY DEF AnyKind
<1>g. MaxLoose \in Nat
  BY BoundAssumption
<1>1. ASSUME NEW a \in Actor, TarReads(a) PROVE ControlOK'
  BY <1>1, <1>a, <1>c, <1>d, <1>e DEF TarReads
<1>2. ASSUME NEW a \in Actor, Archived(a) PROVE ControlOK'
  BY <1>2, <1>a, <1>c, <1>d, <1>e DEF Archived, Named, After
<1>3. ASSUME NEW a \in Actor, BackupFails(a) PROVE ControlOK'
  BY <1>3, <1>a, <1>c, <1>d, <1>e DEF BackupFails, After
<1>4. ASSUME TickBegins PROVE ControlOK'
  BY <1>4, <1>a, <1>c, <1>d, <1>e DEF TickBegins, TickMayRun, BackupBegins, Begun
<1>5. ASSUME PruneBegins PROVE ControlOK'
  BY <1>5, <1>a, <1>c, <1>d, <1>e DEF PruneBegins, Candidates
<1>6. ASSUME PruneStep PROVE ControlOK'
  BY <1>6, <1>a, <1>c, <1>d, <1>e DEF PruneStep
<1>7. ASSUME TickEnds PROVE ControlOK'
  BY <1>7, <1>a, <1>c, <1>d, <1>e DEF TickEnds, TickLeaves
<1>8. ASSUME TickDies PROVE ControlOK'
  BY <1>8, <1>a, <1>c, <1>d, <1>e DEF TickDies, TickLeaves
<1>9. ASSUME NEW c \in Cmd, JobBegins(c) PROVE ControlOK'
  BY <1>9, <1>a, <1>c, <1>d, <1>e, <1>f DEF JobBegins
<1>10. ASSUME NEW c \in Cmd, Locked(c) PROVE ControlOK'
  BY <1>10, <1>a, <1>c, <1>d, <1>e, <1>f, <1>g DEF Locked
<1>11. ASSUME NEW c \in Cmd, JobEnds(c) PROVE ControlOK'
  BY <1>11, <1>a, <1>c, <1>d, <1>e DEF JobEnds, Free
<1>12. ASSUME NEW c \in Cmd, ShellRuns(c) PROVE ControlOK'
  BY <1>12, <1>a, <1>c, <1>d, <1>e, <1>g DEF ShellRuns
<1>13. ASSUME NEW c \in Cmd, RunsBackup(c) PROVE ControlOK'
  BY <1>13, <1>a, <1>c, <1>d, <1>e DEF RunsBackup, BackupBegins, Begun
<1>14. ASSUME NEW c \in Cmd, RunsImport(c) PROVE ControlOK'
  BY <1>14, <1>a, <1>c, <1>d, <1>e DEF RunsImport, Named
<1>15. ASSUME NEW c \in Cmd, RunsDelete(c) PROVE ControlOK'
  BY <1>15, <1>a, <1>c, <1>d, <1>e DEF RunsDelete
<1>16. ASSUME NEW c \in Cmd, RunsRestore(c) PROVE ControlOK'
  BY <1>16, <1>a, <1>c, <1>d, <1>e DEF RunsRestore, BackupBegins, Begun
<1>17. ASSUME NEW c \in Cmd, Claims(c) PROVE ControlOK'
  BY <1>17, <1>a, <1>c, <1>d, <1>e DEF Claims
<1>18. ASSUME NEW c \in Cmd, Stages(c) PROVE ControlOK'
  <2>1. pc' \in [Actor -> Pcs] /\ untouched' \in BOOLEAN
    BY <1>18, <1>a, <1>d, <1>e DEF Stages
  <2> QED BY <1>18, <2>1 DEF Stages
<1>19. ASSUME NEW c \in Cmd, MoveBegins(c) PROVE ControlOK'
  <2>1. First(disk[From(c)]) \in Entry
    BY <1>19, FromTo, FirstIsThere DEF MoveBegins, TreesOK
  <2>2. pc' \in [Actor -> Pcs] /\ moving' \in Entry \cup {"none"} /\ copied' \in BOOLEAN
    <3>1. pc' \in {pc, [pc EXCEPT ![c] = "fails"]}
      BY <1>19 DEF MoveBegins, SwapFails
    <3>2. moving' \in {"none", moving, First(disk[From(c)])} /\ copied' \in {copied, TRUE, FALSE}
      BY <1>19 DEF MoveBegins, SwapFails
    <3>3. pc' \in [Actor -> Pcs]
      BY <3>1, <1>a, <1>d, <1>e
    <3> QED BY <3>2, <3>3, <2>1
  <2>3. untouched' \in BOOLEAN
    <3>1. untouched' = untouched \/ untouched' = ~TouchedLive(c)
      BY <1>19 DEF MoveBegins, SwapFails
    <3> QED BY <3>1
  <2>4. halfway' \in BOOLEAN
    <3>1. halfway' = (halfway \/ disk'[Live] # disk[Live])
      BY <1>19 DEF MoveBegins
    <3> QED BY <3>1, Zenon
  <2> QED BY <1>19, <2>2, <2>3, <2>4 DEF MoveBegins
<1>20. ASSUME NEW c \in Cmd, MoveCopies(c) PROVE ControlOK'
  <2>2. pc' \in [Actor -> Pcs] /\ moving' \in Entry \cup {"none"} /\ copied' \in BOOLEAN
    <3>1. pc' \in {pc, [pc EXCEPT ![c] = "fails"]}
      BY <1>20 DEF MoveCopies, SwapFails
    <3>2. moving' \in {"none", moving} /\ copied' \in {copied, TRUE, FALSE}
      BY <1>20 DEF MoveCopies, SwapFails
    <3>3. pc' \in [Actor -> Pcs]
      BY <3>1, <1>a, <1>d, <1>e
    <3> QED BY <3>2, <3>3
  <2>3. untouched' \in BOOLEAN
    <3>1. untouched' = untouched \/ untouched' = ~TouchedLive(c)
      BY <1>20 DEF MoveCopies, SwapFails
    <3> QED BY <3>1
  <2>4. halfway' \in BOOLEAN
    <3>1. halfway' = (halfway \/ disk'[Live] # disk[Live])
      BY <1>20 DEF MoveCopies
    <3> QED BY <3>1, Zenon
  <2> QED BY <1>20, <2>2, <2>3, <2>4 DEF MoveCopies
<1>21. ASSUME NEW c \in Cmd, MoveEnds(c) PROVE ControlOK'
  <2>2. pc' \in [Actor -> Pcs] /\ moving' \in Entry \cup {"none"} /\ copied' \in BOOLEAN
    <3>1. pc' \in {pc, [pc EXCEPT ![c] = "fails"]}
      BY <1>21 DEF MoveEnds, SwapFails
    <3>2. moving' \in {"none", moving} /\ copied' \in {copied, TRUE, FALSE}
      BY <1>21 DEF MoveEnds, SwapFails
    <3>3. pc' \in [Actor -> Pcs]
      BY <3>1, <1>a, <1>d, <1>e
    <3> QED BY <3>2, <3>3
  <2>3. untouched' \in BOOLEAN
    <3>1. untouched' = untouched \/ untouched' = ~TouchedLive(c)
      BY <1>21 DEF MoveEnds, SwapFails
    <3> QED BY <3>1
  <2>4. halfway' \in BOOLEAN
    <3>1. halfway' = (halfway \/ disk'[Live] # disk[Live])
      BY <1>21 DEF MoveEnds
    <3> QED BY <3>1, Zenon
  <2> QED BY <1>21, <2>2, <2>3, <2>4 DEF MoveEnds
<1>22. ASSUME NEW c \in Cmd, PhaseEnds(c) PROVE ControlOK'
  BY <1>22, <1>a, <1>c, <1>d, <1>e DEF PhaseEnds
<1>23. ASSUME NEW c \in Cmd, Starts(c) PROVE ControlOK'
  <2>1. halfway' \in {halfway, FALSE}
    BY <1>23 DEF Starts
  <2>2. \E p \in {"ready", "unverifiable", "fails"} : pc' = [pc EXCEPT ![c] = p]
    BY <1>23 DEF Starts
  <2>3. pc' \in [Actor -> Pcs]
    BY <2>2, <1>a, <1>d, <1>e
  <2> QED BY <1>23, <2>1, <2>3 DEF Starts
<1>24. ASSUME NEW c \in Cmd, Completes(c) PROVE ControlOK'
  BY <1>24, <1>a, <1>c, <1>d, <1>e DEF Completes, Marked
<1>25. ASSUME NEW c \in Cmd, Cleans(c) PROVE ControlOK'
  BY <1>25, <1>a, <1>c, <1>d, <1>e DEF Cleans, Replaced
<1>26. ASSUME NEW c \in Cmd, CommandDies(c) PROVE ControlOK'
  BY <1>26, <1>a, <1>c, <1>d, <1>e DEF CommandDies
<1>27. ASSUME JobdDies PROVE ControlOK'
  BY <1>27, <1>a, <1>c, <1>d, <1>e, <1>f, <1>g DEF JobdDies, Free
<1>28. ASSUME Reap PROVE ControlOK'
  BY <1>28, <1>a, <1>c, <1>d, <1>e DEF Reap
<1>29. ASSUME MoveBack PROVE ControlOK'
  <2>1. loose' \in 0..MaxLoose
    BY <1>29, BoundAssumption DEF MoveBack
  <2> QED BY <1>29, <2>1 DEF MoveBack
<1>30. ASSUME Acknowledge PROVE ControlOK'
  BY <1>30, <1>a, <1>c, <1>d, <1>e DEF Acknowledge, Only
<1>31. ASSUME Ages PROVE ControlOK'
  BY <1>31, <1>a, <1>c, <1>d, <1>e DEF Ages
<1>32. CASE UNCHANGED vars
  BY <1>32, <1>a, <1>c, <1>d, <1>e
<1> QED BY <1>1, <1>2, <1>3, <1>4, <1>5, <1>6, <1>7, <1>8, <1>9, <1>10, <1>11,
     <1>12, <1>13, <1>14, <1>15, <1>16, <1>17, <1>18, <1>19, <1>20, <1>21,
     <1>22, <1>23, <1>24, <1>25, <1>26, <1>27, <1>28, <1>29, <1>30, <1>31,
     <1>32 DEF Next, BackupStep, TickStep, JobStep, CommandStep, RestoreStep

\* The backup lock.
LEMMA BackupLockStep ==
ControlOK /\ BackupLock /\ [Next]_vars => BackupLock'
<1> SUFFICES ASSUME ControlOK, BackupLock, [Next]_vars PROVE BackupLock'
  OBVIOUS
<1> USE DEF BackupLock, vars, transaction, jobd, ticking, swap,
     history, Goto, BackupFrame, TickFrame, JobFrame, CommandFrame,
     RestoreFrame, SwapFrame, OperatorFrame
<1>a. Tick \in Actor /\ \A c \in Cmd : c \in Actor /\ c # Tick /\ c # Nobody
  BY Actors
<1>b. \A a \in Actor : a # Tick => a \in Cmd
  BY Actors
<1>c. \A a \in Actor : \A p :
        /\ [pc EXCEPT ![a] = p][a] = p
        /\ \A x \in Actor : x # a => [pc EXCEPT ![a] = p][x] = pc[x]
  BY DEF ControlOK
<1>d. /\ {"off", "wait", "ended", "prune", "pruning"} \cap Active = {}
      /\ {"backup", "import", "delete", "restore"} \subseteq Active
      /\ {"tar", "name", "claim", "clean"} \subseteq Active
      /\ {"stop", "out", "in", "start", "fails", "ready", "unverifiable"} \subseteq Active
  BY DEF Active, AnyKind, Holding
<1>e. AnyKind = {"backup", "import", "delete", "restore"}
  BY DEF AnyKind
<1>f. job \in AnyKind \cup {"none"} /\ (worker # Nobody => job # "none") /\ loose \in Nat
  BY BoundAssumption DEF ControlOK
<1>1. ASSUME NEW a \in Actor, TarReads(a) PROVE BackupLock'
  BY <1>1, <1>a, <1>b, <1>c, <1>d DEF TarReads
<1>2. ASSUME NEW a \in Actor, Archived(a) PROVE BackupLock'
  BY <1>2, <1>a, <1>b, <1>c, <1>d DEF Archived, Named, After
<1>3. ASSUME NEW a \in Actor, BackupFails(a) PROVE BackupLock'
  BY <1>3, <1>a, <1>b, <1>c, <1>d DEF BackupFails, After
<1>4. ASSUME TickBegins PROVE BackupLock'
  BY <1>4, <1>a, <1>b, <1>c, <1>d DEF TickBegins, TickMayRun, BackupBegins, Begun
<1>5. ASSUME PruneBegins PROVE BackupLock'
  BY <1>5, <1>a, <1>b, <1>c, <1>d DEF PruneBegins, Candidates
<1>6. ASSUME PruneStep PROVE BackupLock'
  BY <1>6, <1>a, <1>b, <1>c, <1>d DEF PruneStep
<1>7. ASSUME TickEnds PROVE BackupLock'
  BY <1>7, <1>a, <1>b, <1>c, <1>d DEF TickEnds, TickLeaves
<1>8. ASSUME TickDies PROVE BackupLock'
  BY <1>8, <1>a, <1>b, <1>c, <1>d DEF TickDies, TickLeaves
<1>9. ASSUME NEW c \in Cmd, JobBegins(c) PROVE BackupLock'
  BY <1>9, <1>a, <1>b, <1>c, <1>d, <1>e DEF JobBegins
<1>10. ASSUME NEW c \in Cmd, Locked(c) PROVE BackupLock'
  <2>1. CASE blk = "free" /\ blk' = "job" /\ Goto(c, job) /\ UNCHANGED loose
    <3>1. \A k \in Cmd : pc[k] \notin Active \/ loose # 0
      BY <2>1
    <3> QED BY <1>10, <2>1, <3>1, <1>a, <1>b, <1>c, <1>d, <1>e, <1>f DEF Locked
  <2>2. CASE blk # "free" /\ Goto(c, "ended") /\ UNCHANGED <<blk, loose>>
    BY <1>10, <2>2, <1>a, <1>c, <1>d DEF Locked
  <2>3. CASE loose' = loose + 1 /\ Goto(c, job) /\ UNCHANGED blk
    BY <1>10, <2>3, <1>a, <1>c, <1>d, <1>e, <1>f DEF Locked
  <2> QED BY <1>10, <2>1, <2>2, <2>3 DEF Locked
<1>11. ASSUME NEW c \in Cmd, JobEnds(c) PROVE BackupLock'
  BY <1>11, <1>a, <1>b, <1>c, <1>d DEF JobEnds, Free
<1>12. ASSUME NEW c \in Cmd, ShellRuns(c) PROVE BackupLock'
  BY <1>12, <1>a, <1>b, <1>c, <1>d, <1>e, <1>f DEF ShellRuns
<1>13. ASSUME NEW c \in Cmd, RunsBackup(c) PROVE BackupLock'
  BY <1>13, <1>a, <1>b, <1>c, <1>d DEF RunsBackup, BackupBegins, Begun
<1>14. ASSUME NEW c \in Cmd, RunsImport(c) PROVE BackupLock'
  BY <1>14, <1>a, <1>b, <1>c, <1>d DEF RunsImport, Named
<1>15. ASSUME NEW c \in Cmd, RunsDelete(c) PROVE BackupLock'
  BY <1>15, <1>a, <1>b, <1>c, <1>d DEF RunsDelete
<1>16. ASSUME NEW c \in Cmd, RunsRestore(c) PROVE BackupLock'
  BY <1>16, <1>a, <1>b, <1>c, <1>d DEF RunsRestore, BackupBegins, Begun
<1>17. ASSUME NEW c \in Cmd, Claims(c) PROVE BackupLock'
  BY <1>17, <1>a, <1>b, <1>c, <1>d DEF Claims
<1>18. ASSUME NEW c \in Cmd, Stages(c) PROVE BackupLock'
  BY <1>18, <1>a, <1>b, <1>c, <1>d DEF Stages
<1>19. ASSUME NEW c \in Cmd, MoveBegins(c) PROVE BackupLock'
  <2>1. pc[c] \in Active /\ (pc' = pc \/ \E p \in {"fails", "in", "start"} : pc' = [pc EXCEPT ![c] = p])
    BY <1>19, SwapFacts, <1>d
  <2>2. worker' = worker /\ blk' = blk /\ loose' = loose
    BY <1>19, SwapFacts
  <2> QED BY <2>1, <2>2, <1>a, <1>c, <1>d
<1>20. ASSUME NEW c \in Cmd, MoveCopies(c) PROVE BackupLock'
  <2>1. pc[c] \in Active /\ (pc' = pc \/ \E p \in {"fails", "in", "start"} : pc' = [pc EXCEPT ![c] = p])
    BY <1>20, SwapFacts, <1>d
  <2>2. worker' = worker /\ blk' = blk /\ loose' = loose
    BY <1>20, SwapFacts
  <2> QED BY <2>1, <2>2, <1>a, <1>c, <1>d
<1>21. ASSUME NEW c \in Cmd, MoveEnds(c) PROVE BackupLock'
  <2>1. pc[c] \in Active /\ (pc' = pc \/ \E p \in {"fails", "in", "start"} : pc' = [pc EXCEPT ![c] = p])
    BY <1>21, SwapFacts, <1>d
  <2>2. worker' = worker /\ blk' = blk /\ loose' = loose
    BY <1>21, SwapFacts
  <2> QED BY <2>1, <2>2, <1>a, <1>c, <1>d
<1>22. ASSUME NEW c \in Cmd, PhaseEnds(c) PROVE BackupLock'
  <2>1. pc[c] \in Active /\ (pc' = pc \/ \E p \in {"fails", "in", "start"} : pc' = [pc EXCEPT ![c] = p])
    BY <1>22, SwapFacts, <1>d
  <2>2. worker' = worker /\ blk' = blk /\ loose' = loose
    BY <1>22, SwapFacts
  <2> QED BY <2>1, <2>2, <1>a, <1>c, <1>d
<1>23. ASSUME NEW c \in Cmd, Starts(c) PROVE BackupLock'
  BY <1>23, <1>a, <1>b, <1>c, <1>d DEF Starts
<1>24. ASSUME NEW c \in Cmd, Completes(c) PROVE BackupLock'
  BY <1>24, <1>a, <1>b, <1>c, <1>d DEF Completes, Marked
<1>25. ASSUME NEW c \in Cmd, Cleans(c) PROVE BackupLock'
  BY <1>25, <1>a, <1>b, <1>c, <1>d DEF Cleans, Replaced
<1>26. ASSUME NEW c \in Cmd, CommandDies(c) PROVE BackupLock'
  BY <1>26, <1>a, <1>b, <1>c, <1>d DEF CommandDies
<1>27. ASSUME JobdDies PROVE BackupLock'
  BY <1>27, <1>a, <1>b, <1>c, <1>d, <1>f DEF JobdDies, Free
<1>28. ASSUME Reap PROVE BackupLock'
  BY <1>28, <1>a, <1>b, <1>c, <1>d DEF Reap
<1>29. ASSUME MoveBack PROVE BackupLock'
  <2>1. loose' = 0 => loose = 0
    BY <1>29, <1>f DEF MoveBack
  <2> QED BY <1>29, <2>1 DEF MoveBack
<1>30. ASSUME Acknowledge PROVE BackupLock'
  BY <1>30, <1>a, <1>b, <1>c, <1>d DEF Acknowledge, Only
<1>31. ASSUME Ages PROVE BackupLock'
  BY <1>31, <1>a, <1>b, <1>c, <1>d DEF Ages
<1>32. CASE UNCHANGED vars
  BY <1>32, <1>a, <1>b, <1>c, <1>d
<1> QED BY <1>1, <1>2, <1>3, <1>4, <1>5, <1>6, <1>7, <1>8, <1>9, <1>10, <1>11,
     <1>12, <1>13, <1>14, <1>15, <1>16, <1>17, <1>18, <1>19, <1>20, <1>21,
     <1>22, <1>23, <1>24, <1>25, <1>26, <1>27, <1>28, <1>29, <1>30, <1>31,
     <1>32 DEF Next, BackupStep, TickStep, JobStep, CommandStep, RestoreStep

\* The lifecycle lock.
LEMMA LifecycleLockStep ==
TreesOK /\ ControlOK /\ LifecycleLock /\ [Next]_vars => LifecycleLock'
<1> SUFFICES ASSUME TreesOK, ControlOK, LifecycleLock, [Next]_vars PROVE LifecycleLock'
  OBVIOUS
<1> USE DEF LifecycleLock, vars, transaction, jobd, ticking, swap,
     history, Goto, BackupFrame, TickFrame, JobFrame, CommandFrame,
     RestoreFrame, SwapFrame, OperatorFrame
<1>a. Tick \in Actor /\ \A c \in Cmd : c \in Actor /\ c # Tick /\ c # Nobody
  BY Actors
<1>b. \A a \in Actor : a # Tick => a \in Cmd
  BY Actors
<1>c. \A a \in Actor : \A p :
        /\ [pc EXCEPT ![a] = p][a] = p
        /\ \A x \in Actor : x # a => [pc EXCEPT ![a] = p][x] = pc[x]
  BY DEF ControlOK
<1>d. /\ {"off", "wait", "ended", "prune", "pruning", "tar", "name", "claim", "clean"} \cap Holding = {}
      /\ Holding = {"stop", "out", "in", "start", "fails", "ready", "unverifiable"}
      /\ AnyKind \cap Holding = {}
  BY DEF AnyKind, Holding
<1>e. life \in Cmd \cup {Nobody} /\ job \in AnyKind \cup {"none"}
  BY DEF ControlOK
<1>f. AnyKind \cup {"none"} = {"backup", "import", "delete", "restore", "none"}
  BY DEF AnyKind
<1>1. ASSUME NEW a \in Actor, TarReads(a) PROVE LifecycleLock'
  BY <1>1, <1>a, <1>b, <1>c, <1>d, <1>e DEF TarReads
<1>2. ASSUME NEW a \in Actor, Archived(a) PROVE LifecycleLock'
  BY <1>2, <1>a, <1>b, <1>c, <1>d, <1>e DEF Archived, Named, After
<1>3. ASSUME NEW a \in Actor, BackupFails(a) PROVE LifecycleLock'
  BY <1>3, <1>a, <1>b, <1>c, <1>d, <1>e DEF BackupFails, After
<1>4. ASSUME TickBegins PROVE LifecycleLock'
  BY <1>4, <1>a, <1>b, <1>c, <1>d, <1>e DEF TickBegins, TickMayRun, BackupBegins, Begun
<1>5. ASSUME PruneBegins PROVE LifecycleLock'
  BY <1>5, <1>a, <1>b, <1>c, <1>d, <1>e DEF PruneBegins, Candidates
<1>6. ASSUME PruneStep PROVE LifecycleLock'
  BY <1>6, <1>a, <1>b, <1>c, <1>d, <1>e DEF PruneStep
<1>7. ASSUME TickEnds PROVE LifecycleLock'
  BY <1>7, <1>a, <1>b, <1>c, <1>d, <1>e DEF TickEnds, TickLeaves
<1>8. ASSUME TickDies PROVE LifecycleLock'
  BY <1>8, <1>a, <1>b, <1>c, <1>d, <1>e DEF TickDies, TickLeaves
<1>9. ASSUME NEW c \in Cmd, JobBegins(c) PROVE LifecycleLock'
  BY <1>9, <1>a, <1>b, <1>c, <1>d, <1>e DEF JobBegins
<1>10. ASSUME NEW c \in Cmd, Locked(c) PROVE LifecycleLock'
  BY <1>10, <1>a, <1>b, <1>c, <1>d, <1>e, <1>f DEF Locked
<1>11. ASSUME NEW c \in Cmd, JobEnds(c) PROVE LifecycleLock'
  BY <1>11, <1>a, <1>b, <1>c, <1>d, <1>e DEF JobEnds, Free
<1>12. ASSUME NEW c \in Cmd, ShellRuns(c) PROVE LifecycleLock'
  BY <1>12, <1>a, <1>b, <1>c, <1>d, <1>e, <1>f DEF ShellRuns
<1>13. ASSUME NEW c \in Cmd, RunsBackup(c) PROVE LifecycleLock'
  BY <1>13, <1>a, <1>b, <1>c, <1>d, <1>e DEF RunsBackup, BackupBegins, Begun
<1>14. ASSUME NEW c \in Cmd, RunsImport(c) PROVE LifecycleLock'
  BY <1>14, <1>a, <1>b, <1>c, <1>d, <1>e DEF RunsImport, Named
<1>15. ASSUME NEW c \in Cmd, RunsDelete(c) PROVE LifecycleLock'
  BY <1>15, <1>a, <1>b, <1>c, <1>d, <1>e DEF RunsDelete
<1>16. ASSUME NEW c \in Cmd, RunsRestore(c) PROVE LifecycleLock'
  BY <1>16, <1>a, <1>b, <1>c, <1>d, <1>e DEF RunsRestore, BackupBegins, Begun
<1>17. ASSUME NEW c \in Cmd, Claims(c) PROVE LifecycleLock'
  BY <1>17, <1>a, <1>b, <1>c, <1>d, <1>e DEF Claims
<1>18. ASSUME NEW c \in Cmd, Stages(c) PROVE LifecycleLock'
  BY <1>18, <1>a, <1>b, <1>c, <1>d, <1>e DEF Stages
<1>19. ASSUME NEW c \in Cmd, MoveBegins(c) PROVE LifecycleLock'
  <2>1. /\ pc[c] \in {"out", "in"} /\ life = c
        /\ pc' = pc \/ \E p \in {"fails", "in", "start"} : pc' = [pc EXCEPT ![c] = p]
    BY <1>19, SwapFacts, <1>d
  <2>2. life' = life /\ status' = status /\ status # "idle"
    BY <1>19, <2>1, <1>a, SwapFacts
  <2>3. /\ \A k \in Cmd : pc'[k] \in Holding => life' = k
        /\ \A k \in Cmd : pc'[k] \notin {"ready", "unverifiable"}
    BY <2>1, <2>2, <1>a, <1>c, <1>d
  <2>4. /\ copied' => moving' # "none"
        /\ moving' # "none" => life' # Nobody /\ pc'[life'] \in {"out", "in"}
    <3>1. pc' = pc \/ moving' = "none"
      BY <1>19, SwapFacts
    <3>2. (moving' = moving /\ copied' = copied) \/ moving' # "none" \/ copied' = FALSE
      BY <1>19, SwapFacts
    <3>3. copied' => moving' # "none"
      BY <3>2
    <3> QED BY <3>1, <3>3, <2>1, <2>2, <1>a
  <2> QED BY <2>2, <2>3, <2>4, <1>a
<1>20. ASSUME NEW c \in Cmd, MoveCopies(c) PROVE LifecycleLock'
  <2>1. /\ pc[c] \in {"out", "in"} /\ life = c
        /\ pc' = pc \/ \E p \in {"fails", "in", "start"} : pc' = [pc EXCEPT ![c] = p]
    BY <1>20, SwapFacts, <1>d
  <2>2. life' = life /\ status' = status /\ status # "idle"
    BY <1>20, <2>1, <1>a, SwapFacts
  <2>3. /\ \A k \in Cmd : pc'[k] \in Holding => life' = k
        /\ \A k \in Cmd : pc'[k] \notin {"ready", "unverifiable"}
    BY <2>1, <2>2, <1>a, <1>c, <1>d
  <2>4. /\ copied' => moving' # "none"
        /\ moving' # "none" => life' # Nobody /\ pc'[life'] \in {"out", "in"}
    <3>1. pc' = pc \/ moving' = "none"
      BY <1>20, SwapFacts
    <3>2. (moving' = moving /\ copied' = copied) \/ moving' # "none" \/ copied' = FALSE
      BY <1>20, SwapFacts
    <3>3. copied' => moving' # "none"
      BY <3>2
    <3> QED BY <3>1, <3>3, <2>1, <2>2, <1>a
  <2> QED BY <2>2, <2>3, <2>4, <1>a
<1>21. ASSUME NEW c \in Cmd, MoveEnds(c) PROVE LifecycleLock'
  <2>1. /\ pc[c] \in {"out", "in"} /\ life = c
        /\ pc' = pc \/ \E p \in {"fails", "in", "start"} : pc' = [pc EXCEPT ![c] = p]
    BY <1>21, SwapFacts, <1>d
  <2>2. life' = life /\ status' = status /\ status # "idle"
    BY <1>21, <2>1, <1>a, SwapFacts
  <2>3. /\ \A k \in Cmd : pc'[k] \in Holding => life' = k
        /\ \A k \in Cmd : pc'[k] \notin {"ready", "unverifiable"}
    BY <2>1, <2>2, <1>a, <1>c, <1>d
  <2>4. /\ copied' => moving' # "none"
        /\ moving' # "none" => life' # Nobody /\ pc'[life'] \in {"out", "in"}
    <3>1. pc' = pc \/ moving' = "none"
      BY <1>21, SwapFacts
    <3>2. (moving' = moving /\ copied' = copied) \/ moving' # "none" \/ copied' = FALSE
      BY <1>21, SwapFacts
    <3>3. copied' => moving' # "none"
      BY <3>2
    <3> QED BY <3>1, <3>3, <2>1, <2>2, <1>a
  <2> QED BY <2>2, <2>3, <2>4, <1>a
<1>22. ASSUME NEW c \in Cmd, PhaseEnds(c) PROVE LifecycleLock'
  <2>1. /\ pc[c] \in {"out", "in"} /\ life = c
        /\ pc' = pc \/ \E p \in {"fails", "in", "start"} : pc' = [pc EXCEPT ![c] = p]
    BY <1>22, SwapFacts, <1>d
  <2>2. life' = life /\ status' = status /\ status # "idle"
    BY <1>22, <2>1, <1>a, SwapFacts
  <2>3. /\ \A k \in Cmd : pc'[k] \in Holding => life' = k
        /\ \A k \in Cmd : pc'[k] \notin {"ready", "unverifiable"}
    BY <2>1, <2>2, <1>a, <1>c, <1>d
  <2>4. /\ copied' => moving' # "none"
        /\ moving' # "none" => life' # Nobody /\ pc'[life'] \in {"out", "in"}
    <3>1. pc' = pc \/ moving' = "none"
      BY <1>22, SwapFacts
    <3>2. (moving' = moving /\ copied' = copied) \/ moving' # "none" \/ copied' = FALSE
      BY <1>22, SwapFacts
    <3>3. copied' => moving' # "none"
      BY <3>2
    <3> QED BY <3>1, <3>3, <2>1, <2>2, <1>a
  <2> QED BY <2>2, <2>3, <2>4, <1>a
<1>23. ASSUME NEW c \in Cmd, Starts(c) PROVE LifecycleLock'
  BY <1>23, <1>a, <1>b, <1>c, <1>d, <1>e DEF Starts
<1>24. ASSUME NEW c \in Cmd, Completes(c) PROVE LifecycleLock'
  BY <1>24, <1>a, <1>b, <1>c, <1>d, <1>e DEF Completes, Marked
<1>25. ASSUME NEW c \in Cmd, Cleans(c) PROVE LifecycleLock'
  BY <1>25, <1>a, <1>b, <1>c, <1>d, <1>e DEF Cleans, Replaced
<1>26. ASSUME NEW c \in Cmd, CommandDies(c) PROVE LifecycleLock'
  <2>1. pc' = [pc EXCEPT ![c] = "ended"] /\ status' = status
    BY <1>26 DEF CommandDies
  <2>2. life' = IF life = c THEN Nobody ELSE life
    BY <1>26 DEF CommandDies
  <2>3. CASE Swapping(c)
    <3>1. life = c /\ moving' = "none" /\ copied' = FALSE
      BY <1>26, <2>3, <1>d DEF CommandDies, Swapping
    <3>2. \A k \in Cmd : k # c => pc[k] \notin Holding
      BY <3>1
    <3> QED BY <2>1, <2>2, <3>1, <3>2, <1>a, <1>c, <1>d
  <2>4. CASE ~Swapping(c)
    <3>1. halfway' = halfway /\ moving' = moving /\ copied' = copied
      <4>1. halfway' = (halfway \/ disk'[Live] # disk[Live]) /\ disk' = Forgotten(disk, c)
        BY <1>26, <2>4 DEF CommandDies
      <4>2. disk'[Live] = disk[Live]
        BY <4>1, OnlyStaging, Places DEF TreesOK
      <4> QED BY <1>26, <2>4, <4>1, <4>2 DEF CommandDies, ControlOK
    <3>2. life = c => moving = "none"
      BY <2>4, <1>a DEF Swapping
    <3> QED BY <2>1, <2>2, <3>1, <3>2, <1>a, <1>c, <1>d, <1>e
  <2> QED BY <2>3, <2>4
<1>27. ASSUME JobdDies PROVE LifecycleLock'
  BY <1>27, <1>a, <1>b, <1>c, <1>d, <1>e DEF JobdDies, Free
<1>28. ASSUME Reap PROVE LifecycleLock'
  BY <1>28, <1>a, <1>b, <1>c, <1>d, <1>e DEF Reap
<1>29. ASSUME MoveBack PROVE LifecycleLock'
  BY <1>29, <1>a, <1>b, <1>c, <1>d, <1>e DEF MoveBack, Only
<1>30. ASSUME Acknowledge PROVE LifecycleLock'
  BY <1>30, <1>a, <1>b, <1>c, <1>d, <1>e DEF Acknowledge, Only
<1>31. ASSUME Ages PROVE LifecycleLock'
  BY <1>31, <1>a, <1>b, <1>c, <1>d, <1>e DEF Ages
<1>32. CASE UNCHANGED vars
  BY <1>32, <1>a, <1>b, <1>c, <1>d, <1>e
<1> QED BY <1>1, <1>2, <1>3, <1>4, <1>5, <1>6, <1>7, <1>8, <1>9, <1>10, <1>11,
     <1>12, <1>13, <1>14, <1>15, <1>16, <1>17, <1>18, <1>19, <1>20, <1>21,
     <1>22, <1>23, <1>24, <1>25, <1>26, <1>27, <1>28, <1>29, <1>30, <1>31,
     <1>32 DEF Next, BackupStep, TickStep, JobStep, CommandStep, RestoreStep

\* What tar has read.
LEMMA TarStep ==
TreesOK /\ ControlOK /\ BackupLock /\ TarInv /\ [Next]_vars => TarInv'
<1> SUFFICES ASSUME TreesOK, ControlOK, BackupLock, TarInv, [Next]_vars PROVE
     TarInv'
  OBVIOUS
<1> USE DEF TarInv, vars, transaction, jobd, ticking, swap, history,
     Goto, BackupFrame, TickFrame, JobFrame, CommandFrame, RestoreFrame,
     SwapFrame, OperatorFrame
<1>a. Tick \in Actor /\ \A c \in Cmd : c \in Actor /\ c # Tick /\ c # Nobody
  BY Actors
<1>b. \A a \in Actor : a # Tick => a \in Cmd
  BY Actors
<1>c. \A a \in Actor : \A p :
        /\ [pc EXCEPT ![a] = p][a] = p
        /\ \A x \in Actor : x # a => [pc EXCEPT ![a] = p][x] = pc[x]
  BY DEF ControlOK
<1>d. /\ \A a \in Actor : [got EXCEPT ![a] = Nothing][a] = Nothing
      /\ \A a, x \in Actor : x # a => [got EXCEPT ![a] = Nothing][x] = got[x]
  BY DEF TreesOK
<1>e. Nothing["Config"] = "none" /\ "Config" \in Entry
  BY DEF Nothing, Entry
<1>f. AnyKind = {"backup", "import", "delete", "restore"}
  BY DEF AnyKind
<1>g. worker \in Cmd \cup {Nobody} /\ job \in AnyKind \cup {"none"}
  BY DEF ControlOK
<1>1. ASSUME NEW a \in Actor, TarReads(a) PROVE TarInv'
  <2> DEFINE e == IF got[a]["SaveGames"] = "none" THEN "SaveGames" ELSE "Config"
  <2>1. pc[a] = "tar" /\ disk[Live][e] # "none" /\ got' = [got EXCEPT ![a][e] = disk[Live][e]]
    BY <1>1 DEF TarReads
  <2>2. \A x \in Actor : x # a => got'[x] = got[x] /\ pc'[x] = pc[x]
    <3>1. \A x \in Actor : x # a => got'[x] = got[x]
      BY <2>1 DEF TreesOK
    <3>2. pc' = pc \/ pc' = [pc EXCEPT ![a] = "name"]
      BY <1>1 DEF TarReads
    <3> QED BY <3>1, <3>2, <1>c
  <2>3. got[a] \in [Entry -> Content] /\ e \in Entry /\ got[a]["Config"] = "none"
    BY <2>1 DEF TreesOK, Tree, Entry
  <2>4. got'[a] = [got[a] EXCEPT ![e] = disk[Live][e]]
    BY <2>1 DEF TreesOK
  <2>5. CASE e = "SaveGames"
    <3>1. pc' = pc /\ got'[a]["Config"] = "none"
      BY <1>1, <2>3, <2>4, <2>5, <1>e DEF TarReads
    <3> QED BY <2>1, <2>2, <3>1
  <2>6. CASE e = "Config"
    <3>1. pc'[a] = "name"
      BY <1>1, <2>6, <1>c DEF TarReads
    <3>2. got'[a]["Config"] # "none" /\ got'[a]["SaveGames"] # "none"
      BY <2>1, <2>3, <2>4, <2>6 DEF Entry
    <3>3. \A f \in Entry : got'[a][f] # "none"
      BY <3>2 DEF Entry
    <3> QED BY <2>2, <3>1, <3>3
  <2> QED BY <2>5, <2>6
<1>2. ASSUME NEW a \in Actor, Archived(a) PROVE TarInv'
  BY <1>2, <1>a, <1>b, <1>c, <1>d, <1>e DEF Archived, Named, After
<1>3. ASSUME NEW a \in Actor, BackupFails(a) PROVE TarInv'
  BY <1>3, <1>a, <1>b, <1>c, <1>d, <1>e DEF BackupFails, After
<1>4. ASSUME TickBegins PROVE TarInv'
  <2>1. pc[Tick] = "off" /\ got[Tick] = Nothing
    BY <1>4, <1>a DEF TickBegins
  <2>2. \E p \in {"tar", "prune"} : pc' = [pc EXCEPT ![Tick] = p]
    BY <1>4 DEF TickBegins, BackupBegins
  <2>3. got' = got \/ got' = [got EXCEPT ![Tick] = Nothing]
    BY <1>4 DEF TickBegins, BackupBegins
  <2>4. pc'[Tick] \in {"tar", "prune"} /\ \A x \in Actor : x # Tick => pc'[x] = pc[x]
    BY <2>2, <1>a, <1>c
  <2>5. got'[Tick] = Nothing /\ \A x \in Actor : x # Tick => got'[x] = got[x]
    BY <2>1, <2>3, <1>a DEF TreesOK
  <2> QED BY <2>4, <2>5, <1>e
<1>5. ASSUME PruneBegins PROVE TarInv'
  BY <1>5, <1>a, <1>b, <1>c, <1>d, <1>e DEF PruneBegins, Candidates
<1>6. ASSUME PruneStep PROVE TarInv'
  BY <1>6, <1>a, <1>b, <1>c, <1>d, <1>e DEF PruneStep
<1>7. ASSUME TickEnds PROVE TarInv'
  BY <1>7, <1>a, <1>b, <1>c, <1>d, <1>e DEF TickEnds, TickLeaves
<1>8. ASSUME TickDies PROVE TarInv'
  BY <1>8, <1>a, <1>b, <1>c, <1>d, <1>e DEF TickDies, TickLeaves
<1>9. ASSUME NEW c \in Cmd, JobBegins(c) PROVE TarInv'
  BY <1>9, <1>a, <1>b, <1>c, <1>d, <1>e DEF JobBegins
<1>10. ASSUME NEW c \in Cmd, Locked(c) PROVE TarInv'
  BY <1>10, <1>a, <1>b, <1>c, <1>d, <1>e, <1>f, <1>g DEF Locked
<1>11. ASSUME NEW c \in Cmd, JobEnds(c) PROVE TarInv'
  BY <1>11, <1>a, <1>b, <1>c, <1>d, <1>e DEF JobEnds, Free
<1>12. ASSUME NEW c \in Cmd, ShellRuns(c) PROVE TarInv'
  BY <1>12, <1>a, <1>b, <1>c, <1>d, <1>e, <1>f DEF ShellRuns
<1>13. ASSUME NEW c \in Cmd, RunsBackup(c) PROVE TarInv'
  BY <1>13, <1>a, <1>b, <1>c, <1>d, <1>e DEF RunsBackup, BackupBegins, Begun
<1>14. ASSUME NEW c \in Cmd, RunsImport(c) PROVE TarInv'
  BY <1>14, <1>a, <1>b, <1>c, <1>d, <1>e DEF RunsImport, Named
<1>15. ASSUME NEW c \in Cmd, RunsDelete(c) PROVE TarInv'
  BY <1>15, <1>a, <1>b, <1>c, <1>d, <1>e DEF RunsDelete
<1>16. ASSUME NEW c \in Cmd, RunsRestore(c) PROVE TarInv'
  <2>1. pc[c] = "restore" /\ got[c] = Nothing
    BY <1>16, <1>a DEF RunsRestore
  <2>2. \E p \in {"tar", "claim", "ended"} : pc' = [pc EXCEPT ![c] = p]
    BY <1>16 DEF RunsRestore, BackupBegins
  <2>3. got' = got \/ got' = [got EXCEPT ![c] = Nothing]
    BY <1>16 DEF RunsRestore, BackupBegins
  <2>4. pc'[c] \in {"tar", "claim", "ended"} /\ \A x \in Actor : x # c => pc'[x] = pc[x]
    BY <2>2, <1>a, <1>c
  <2>5. got'[c] = Nothing /\ \A x \in Actor : x # c => got'[x] = got[x]
    BY <2>1, <2>3, <1>a DEF TreesOK
  <2> QED BY <2>4, <2>5, <1>e
<1>17. ASSUME NEW c \in Cmd, Claims(c) PROVE TarInv'
  BY <1>17, <1>a, <1>b, <1>c, <1>d, <1>e DEF Claims
<1>18. ASSUME NEW c \in Cmd, Stages(c) PROVE TarInv'
  <2>1. pc[c] = "stop" /\ got' = got /\ \E p \in {"out", "fails"} : pc' = [pc EXCEPT ![c] = p]
    BY <1>18 DEF Stages
  <2>2. pc'[c] \in {"out", "fails"} /\ \A x \in Actor : x # c => pc'[x] = pc[x]
    BY <2>1, <1>a, <1>c
  <2> QED BY <2>1, <2>2, <1>a
<1>19. ASSUME NEW c \in Cmd, MoveBegins(c) PROVE TarInv'
  <2>1. /\ pc[c] \in {"out", "in"} /\ got' = got
        /\ pc' = pc \/ \E p \in {"fails", "in", "start"} : pc' = [pc EXCEPT ![c] = p]
    BY <1>19, SwapFacts
  <2> QED BY <2>1, <1>a, <1>c
<1>20. ASSUME NEW c \in Cmd, MoveCopies(c) PROVE TarInv'
  <2>1. /\ pc[c] \in {"out", "in"} /\ got' = got
        /\ pc' = pc \/ \E p \in {"fails", "in", "start"} : pc' = [pc EXCEPT ![c] = p]
    BY <1>20, SwapFacts
  <2> QED BY <2>1, <1>a, <1>c
<1>21. ASSUME NEW c \in Cmd, MoveEnds(c) PROVE TarInv'
  <2>1. /\ pc[c] \in {"out", "in"} /\ got' = got
        /\ pc' = pc \/ \E p \in {"fails", "in", "start"} : pc' = [pc EXCEPT ![c] = p]
    BY <1>21, SwapFacts
  <2> QED BY <2>1, <1>a, <1>c
<1>22. ASSUME NEW c \in Cmd, PhaseEnds(c) PROVE TarInv'
  <2>1. /\ pc[c] \in {"out", "in"} /\ got' = got
        /\ pc' = pc \/ \E p \in {"fails", "in", "start"} : pc' = [pc EXCEPT ![c] = p]
    BY <1>22, SwapFacts
  <2> QED BY <2>1, <1>a, <1>c
<1>23. ASSUME NEW c \in Cmd, Starts(c) PROVE TarInv'
  BY <1>23, <1>a, <1>b, <1>c, <1>d, <1>e DEF Starts
<1>24. ASSUME NEW c \in Cmd, Completes(c) PROVE TarInv'
  BY <1>24, <1>a, <1>b, <1>c, <1>d, <1>e DEF Completes, Marked
<1>25. ASSUME NEW c \in Cmd, Cleans(c) PROVE TarInv'
  BY <1>25, <1>a, <1>b, <1>c, <1>d, <1>e DEF Cleans, Replaced
<1>26. ASSUME NEW c \in Cmd, CommandDies(c) PROVE TarInv'
  BY <1>26, <1>a, <1>b, <1>c, <1>d, <1>e DEF CommandDies
<1>27. ASSUME JobdDies PROVE TarInv'
  BY <1>27, <1>a, <1>b, <1>c, <1>d, <1>e, <1>g DEF JobdDies, Free
<1>28. ASSUME Reap PROVE TarInv'
  BY <1>28, <1>a, <1>b, <1>c, <1>d, <1>e DEF Reap
<1>29. ASSUME MoveBack PROVE TarInv'
  BY <1>29, <1>a, <1>b, <1>c, <1>d, <1>e DEF MoveBack, Only
<1>30. ASSUME Acknowledge PROVE TarInv'
  BY <1>30, <1>a, <1>b, <1>c, <1>d, <1>e DEF Acknowledge, Only
<1>31. ASSUME Ages PROVE TarInv'
  BY <1>31, <1>a, <1>b, <1>c, <1>d, <1>e DEF Ages
<1>32. CASE UNCHANGED vars
  BY <1>32, <1>a, <1>b, <1>c, <1>d, <1>e
<1> QED BY <1>1, <1>2, <1>3, <1>4, <1>5, <1>6, <1>7, <1>8, <1>9, <1>10, <1>11,
     <1>12, <1>13, <1>14, <1>15, <1>16, <1>17, <1>18, <1>19, <1>20, <1>21,
     <1>22, <1>23, <1>24, <1>25, <1>26, <1>27, <1>28, <1>29, <1>30, <1>31,
     <1>32 DEF Next, BackupStep, TickStep, JobStep, CommandStep, RestoreStep

\* Archives are complete.
LEMMA CompleteStep ==
TreesOK /\ ListOK /\ TarInv /\ ArchivesAreComplete /\ [Next]_vars =>
     ArchivesAreComplete'
<1> SUFFICES ASSUME TreesOK, ListOK, TarInv, ArchivesAreComplete, [Next]_vars
     PROVE ArchivesAreComplete'
  OBVIOUS
<1> USE DEF ArchivesAreComplete, Names, vars, transaction, jobd,
     ticking, swap, history, Goto, BackupFrame, TickFrame, JobFrame,
     CommandFrame, RestoreFrame, SwapFrame, OperatorFrame
<1>a. /\ \A s, t : DOMAIN Named(s, t, TRUE) = DOMAIN archives \cup {s}
      /\ \A s, t : Named(s, t, TRUE)[s] = [tree |-> t, fresh |-> TRUE, made |-> TRUE]
      /\ \A s, t : \A n \in DOMAIN archives : n # s => Named(s, t, TRUE)[n] = archives[n]
      /\ \A s, t : DOMAIN Named(s, t, FALSE) = DOMAIN archives \cup {s}
      /\ \A s, t : Named(s, t, FALSE)[s] = [tree |-> t, fresh |-> TRUE, made |-> FALSE]
      /\ \A s, t : \A n \in DOMAIN archives : n # s => Named(s, t, FALSE)[n] = archives[n]
  BY Listed DEF Names
<1>b. /\ \A S : DOMAIN Restrict(archives, S) = S
      /\ \A S : \A n \in S : Restrict(archives, S)[n] = archives[n]
  BY Listed
<1>1. ASSUME NEW a \in Actor, TarReads(a) PROVE ArchivesAreComplete'
  BY <1>1 DEF TarReads
<1>2. ASSUME NEW a \in Actor, Archived(a) PROVE ArchivesAreComplete'
  <2>1. PICK s : archives' = Named(s, got[a], TRUE)
    BY <1>2 DEF Archived
  <2>2. DOMAIN archives' = Names \cup {s}
    BY <2>1, <1>a
  <2>5. archives'[s] = [tree |-> got[a], fresh |-> TRUE, made |-> TRUE]
    BY <2>1, <1>a
  <2>6. archives'[s].tree = got[a]
    BY <2>5
  <2>3. archives'[s].tree = got[a] /\ \A n \in Names : n # s => archives'[n] = archives[n]
    BY <2>1, <2>6, <1>a
  <2>4. \A e \in Entry : got[a][e] # "none"
    BY <1>2 DEF Archived, TarInv
  <2> QED BY <2>2, <2>3, <2>4
<1>3. ASSUME NEW a \in Actor, BackupFails(a) PROVE ArchivesAreComplete'
  BY <1>3 DEF BackupFails, After
<1>4. ASSUME TickBegins PROVE ArchivesAreComplete'
  BY <1>4 DEF TickBegins, TickMayRun, BackupBegins, Begun
<1>5. ASSUME PruneBegins PROVE ArchivesAreComplete'
  BY <1>5 DEF PruneBegins, Candidates
<1>6. ASSUME PruneStep PROVE ArchivesAreComplete'
  <2>1. Names' \subseteq Names /\ \A s \in Names' : archives'[s] = archives[s]
    BY <1>6, <1>b DEF PruneStep
  <2> QED BY <2>1
<1>7. ASSUME TickEnds PROVE ArchivesAreComplete'
  BY <1>7 DEF TickEnds, TickLeaves
<1>8. ASSUME TickDies PROVE ArchivesAreComplete'
  BY <1>8 DEF TickDies, TickLeaves
<1>9. ASSUME NEW c \in Cmd, JobBegins(c) PROVE ArchivesAreComplete'
  BY <1>9 DEF JobBegins
<1>10. ASSUME NEW c \in Cmd, Locked(c) PROVE ArchivesAreComplete'
  BY <1>10 DEF Locked
<1>11. ASSUME NEW c \in Cmd, JobEnds(c) PROVE ArchivesAreComplete'
  BY <1>11 DEF JobEnds, Free
<1>12. ASSUME NEW c \in Cmd, ShellRuns(c) PROVE ArchivesAreComplete'
  BY <1>12 DEF ShellRuns
<1>13. ASSUME NEW c \in Cmd, RunsBackup(c) PROVE ArchivesAreComplete'
  BY <1>13 DEF RunsBackup, BackupBegins, Begun
<1>14. ASSUME NEW c \in Cmd, RunsImport(c) PROVE ArchivesAreComplete'
  <2>1. CASE UNCHANGED archives
    BY <2>1
  <2>2. ASSUME NEW s, s \notin Names, NEW t, archives' = Named(s, t, FALSE)
        PROVE  ArchivesAreComplete'
    <3>1. DOMAIN archives' = Names \cup {s}
      BY <2>2, <1>a
    <3>2. archives'[s] = [tree |-> t, fresh |-> TRUE, made |-> FALSE]
      BY <2>2, <1>a
    <3>3. ~archives'[s].made
      BY <3>2
    <3>4. ASSUME NEW n \in Names PROVE archives'[n] = archives[n]
      <4>1. n # s
        BY <2>2
      <4>2. Named(s, t, FALSE)[n] = archives[n]
        BY <4>1, <1>a
      <4> QED BY <2>2, <4>2
    <3> QED BY <3>1, <3>3, <3>4
  <2> QED BY <1>14, <2>1, <2>2 DEF RunsImport
<1>15. ASSUME NEW c \in Cmd, RunsDelete(c) PROVE ArchivesAreComplete'
  <2>1. CASE UNCHANGED archives
    BY <2>1
  <2>2. ASSUME NEW s \in Names, archives' = Restrict(archives, Names \ {s})
        PROVE  ArchivesAreComplete'
    <3>1. Names' = Names \ {s} /\ \A t \in Names' : archives'[t] = archives[t]
      BY <2>2, <1>b
    <3> QED BY <3>1
  <2> QED BY <1>15, <2>1, <2>2 DEF RunsDelete
<1>16. ASSUME NEW c \in Cmd, RunsRestore(c) PROVE ArchivesAreComplete'
  BY <1>16 DEF RunsRestore, BackupBegins, Begun
<1>17. ASSUME NEW c \in Cmd, Claims(c) PROVE ArchivesAreComplete'
  BY <1>17 DEF Claims
<1>18. ASSUME NEW c \in Cmd, Stages(c) PROVE ArchivesAreComplete'
  BY <1>18 DEF Stages
<1>19. ASSUME NEW c \in Cmd, MoveBegins(c) PROVE ArchivesAreComplete'
  <2>1. archives' = archives
    BY <1>19, SwapFacts
  <2> QED BY <2>1
<1>20. ASSUME NEW c \in Cmd, MoveCopies(c) PROVE ArchivesAreComplete'
  <2>1. archives' = archives
    BY <1>20, SwapFacts
  <2> QED BY <2>1
<1>21. ASSUME NEW c \in Cmd, MoveEnds(c) PROVE ArchivesAreComplete'
  <2>1. archives' = archives
    BY <1>21, SwapFacts
  <2> QED BY <2>1
<1>22. ASSUME NEW c \in Cmd, PhaseEnds(c) PROVE ArchivesAreComplete'
  <2>1. archives' = archives
    BY <1>22, SwapFacts
  <2> QED BY <2>1
<1>23. ASSUME NEW c \in Cmd, Starts(c) PROVE ArchivesAreComplete'
  BY <1>23 DEF Starts
<1>24. ASSUME NEW c \in Cmd, Completes(c) PROVE ArchivesAreComplete'
  BY <1>24 DEF Completes, Marked
<1>25. ASSUME NEW c \in Cmd, Cleans(c) PROVE ArchivesAreComplete'
  BY <1>25 DEF Cleans, Replaced
<1>26. ASSUME NEW c \in Cmd, CommandDies(c) PROVE ArchivesAreComplete'
  BY <1>26 DEF CommandDies
<1>27. ASSUME JobdDies PROVE ArchivesAreComplete'
  BY <1>27 DEF JobdDies, Free
<1>28. ASSUME Reap PROVE ArchivesAreComplete'
  BY <1>28 DEF Reap
<1>29. ASSUME MoveBack PROVE ArchivesAreComplete'
  BY <1>29 DEF MoveBack, Only
<1>30. ASSUME Acknowledge PROVE ArchivesAreComplete'
  BY <1>30 DEF Acknowledge, Only
<1>31. ASSUME Ages PROVE ArchivesAreComplete'
  <2>1. Names' = Names
    BY <1>31 DEF Ages
  <2>2. ASSUME NEW s \in Names
        PROVE  archives'[s].tree = archives[s].tree /\ archives'[s].made = archives[s].made
    <3>1. archives[s] \in [tree : Tree, fresh : BOOLEAN, made : BOOLEAN]
      BY DEF ListOK
    <3>2. archives'[s] = [archives[s] EXCEPT !.fresh = FALSE]
      BY <1>31 DEF Ages
    <3> QED BY <3>1, <3>2
  <2> QED BY <2>1, <2>2
<1>32. CASE UNCHANGED vars
  BY <1>32
<1> QED BY <1>1, <1>2, <1>3, <1>4, <1>5, <1>6, <1>7, <1>8, <1>9, <1>10, <1>11,
     <1>12, <1>13, <1>14, <1>15, <1>16, <1>17, <1>18, <1>19, <1>20, <1>21,
     <1>22, <1>23, <1>24, <1>25, <1>26, <1>27, <1>28, <1>29, <1>30, <1>31,
     <1>32 DEF Next, BackupStep, TickStep, JobStep, CommandStep, RestoreStep

\* While everything runs under the backup lock, nobody moves the world during a tar.
LEMMA SnapshotStep ==
TreesOK /\ ControlOK /\ BackupLock /\ LifecycleLock /\ TarInv /\
     ArchiveIsSnapshot /\ [Next]_vars => ArchiveIsSnapshot'
<1> SUFFICES ASSUME TreesOK, ControlOK, BackupLock, LifecycleLock, TarInv,
     ArchiveIsSnapshot, [Next]_vars PROVE ArchiveIsSnapshot'
  OBVIOUS
<1> USE DEF ArchiveIsSnapshot, vars, transaction, jobd, ticking, swap,
     history, Goto, BackupFrame, TickFrame, JobFrame, CommandFrame,
     RestoreFrame, SwapFrame, OperatorFrame
<1>a. Tick \in Actor /\ \A c \in Cmd : c \in Actor /\ c # Tick /\ c # Nobody
  BY Actors
<1>b. \A a \in Actor : a # Tick => a \in Cmd
  BY Actors
<1>c. \A e \in Entry : Nothing[e] = "none"
  BY Trees
<1>d. \A a \in Actor : \A x \in Actor :
        [got EXCEPT ![a] = Nothing][x] = IF x = a THEN Nothing ELSE got[x]
  BY DEF TreesOK
<1>e. ASSUME loose = 0, NEW c \in Cmd, pc[c] \in {"out", "in"}, NEW a \in Actor
      PROVE  got[a] = Nothing
  <2>1. worker = c /\ blk = "job"
    BY <1>e DEF BackupLock, Active, Holding
  <2>2. pc[Tick] = "off"
    BY <2>1 DEF BackupLock
  <2>3. \A k \in Cmd : k # c => pc[k] \notin {"tar", "name"}
    BY <1>e, <2>1 DEF BackupLock, Active
  <2>4. pc[a] \notin {"tar", "name"}
    BY <1>e, <1>b, <2>2, <2>3
  <2> QED BY <2>4 DEF TarInv
<1>f. loose \in Nat /\ (loose' = loose \/ loose' = loose + 1)
  <2>1. loose \in Nat
    BY BoundAssumption DEF ControlOK
  <2> QED BY <2>1, SwapFacts DEF Next, BackupStep, TickStep, JobStep, CommandStep, RestoreStep,
      TarReads, Archived, BackupFails, TickBegins, PruneBegins, PruneStep, TickEnds, TickDies, TickLeaves,
      JobBegins, Locked, JobEnds, ShellRuns, RunsBackup, RunsImport, RunsDelete,
      RunsRestore, Claims, Stages, Starts, Completes, Cleans, CommandDies,
      JobdDies, Reap, MoveBack, Acknowledge, Ages
<1>g. loose' = 0 => loose = 0
  BY <1>f
<1>h. /\ Live \in Place
      /\ \A c \in Cmd : Staging(c) # Live /\ Aside(c) # Live
  BY Places
<1>i. \A a \in Actor : [got EXCEPT ![a] = Nothing] \in [Actor -> Tree]
  BY Trees DEF TreesOK
<1>1. ASSUME NEW a \in Actor, TarReads(a) PROVE ArchiveIsSnapshot'
  <2>1. \A x \in Actor, e \in Entry : got'[x][e] \in {got[x][e], disk[Live][e]}
    BY <1>1 DEF TarReads, TreesOK, Tree
  <2>2. disk' = disk
    BY <1>1 DEF TarReads
  <2> QED BY <2>1, <2>2, <1>g
<1>2. ASSUME NEW a \in Actor, Archived(a) PROVE ArchiveIsSnapshot'
  <2>1. \A x \in Actor : got'[x] \in {Nothing, got[x]}
    BY <1>2, <1>a DEF Archived, TreesOK
  <2>2. disk' = disk
    BY <1>2 DEF Archived
  <2> QED BY <2>1, <2>2, <1>c, <1>g
<1>3. ASSUME NEW a \in Actor, BackupFails(a) PROVE ArchiveIsSnapshot'
  <2>1. \A x \in Actor : got'[x] \in {Nothing, got[x]}
    BY <1>3, <1>a DEF BackupFails, TreesOK
  <2>2. disk' = disk
    BY <1>3 DEF BackupFails
  <2> QED BY <2>1, <2>2, <1>c, <1>g
<1>4. ASSUME TickBegins PROVE ArchiveIsSnapshot'
  <2>1. \A x \in Actor : got'[x] \in {Nothing, got[x]}
    BY <1>4, <1>a DEF TickBegins, TreesOK, BackupBegins
  <2>2. disk' = disk
    BY <1>4 DEF TickBegins, BackupBegins
  <2> QED BY <2>1, <2>2, <1>c, <1>g
<1>5. ASSUME PruneBegins PROVE ArchiveIsSnapshot'
  BY <1>5, <1>c, <1>g DEF PruneBegins, Candidates
<1>6. ASSUME PruneStep PROVE ArchiveIsSnapshot'
  BY <1>6, <1>c, <1>g DEF PruneStep
<1>7. ASSUME TickEnds PROVE ArchiveIsSnapshot'
  <2>1. \A x \in Actor : got'[x] \in {Nothing, got[x]}
    BY <1>7, <1>a DEF TickEnds, TreesOK, TickLeaves
  <2>2. disk' = disk
    BY <1>7 DEF TickEnds, TickLeaves
  <2> QED BY <2>1, <2>2, <1>c, <1>g
<1>8. ASSUME TickDies PROVE ArchiveIsSnapshot'
  <2>1. \A x \in Actor : got'[x] \in {Nothing, got[x]}
    BY <1>8, <1>a DEF TickDies, TreesOK, TickLeaves
  <2>2. disk' = disk
    BY <1>8 DEF TickDies, TickLeaves
  <2> QED BY <2>1, <2>2, <1>c, <1>g
<1>9. ASSUME NEW c \in Cmd, JobBegins(c) PROVE ArchiveIsSnapshot'
  BY <1>9, <1>c, <1>g DEF JobBegins
<1>10. ASSUME NEW c \in Cmd, Locked(c) PROVE ArchiveIsSnapshot'
  BY <1>10, <1>c, <1>g DEF Locked
<1>11. ASSUME NEW c \in Cmd, JobEnds(c) PROVE ArchiveIsSnapshot'
  BY <1>11, <1>c, <1>g DEF JobEnds, Free
<1>12. ASSUME NEW c \in Cmd, ShellRuns(c) PROVE ArchiveIsSnapshot'
  BY <1>12, <1>c, <1>g DEF ShellRuns
<1>13. ASSUME NEW c \in Cmd, RunsBackup(c) PROVE ArchiveIsSnapshot'
  <2>1. \A x \in Actor : got'[x] \in {Nothing, got[x]}
    BY <1>13, <1>a DEF RunsBackup, TreesOK, BackupBegins
  <2>2. disk' = disk
    BY <1>13 DEF RunsBackup, BackupBegins
  <2> QED BY <2>1, <2>2, <1>c, <1>g
<1>14. ASSUME NEW c \in Cmd, RunsImport(c) PROVE ArchiveIsSnapshot'
  BY <1>14, <1>c, <1>g DEF RunsImport, Named
<1>15. ASSUME NEW c \in Cmd, RunsDelete(c) PROVE ArchiveIsSnapshot'
  BY <1>15, <1>c, <1>g DEF RunsDelete
<1>16. ASSUME NEW c \in Cmd, RunsRestore(c) PROVE ArchiveIsSnapshot'
  <2>1. \A x \in Actor : got'[x] \in {Nothing, got[x]}
    BY <1>16, <1>a DEF RunsRestore, TreesOK, BackupBegins
  <2>2. disk' = disk
    BY <1>16 DEF RunsRestore, BackupBegins
  <2> QED BY <2>1, <2>2, <1>c, <1>g
<1>17. ASSUME NEW c \in Cmd, Claims(c) PROVE ArchiveIsSnapshot'
  BY <1>17, <1>c, <1>g DEF Claims
<1>18. ASSUME NEW c \in Cmd, Stages(c) PROVE ArchiveIsSnapshot'
  <2>1. disk'[Live] = disk[Live] /\ got' = got
    BY <1>18, <1>h DEF Stages, TreesOK
  <2> QED BY <2>1, <1>g
<1>19. ASSUME NEW c \in Cmd, MoveBegins(c) PROVE ArchiveIsSnapshot'
  <2>1. pc[c] \in {"out", "in"} /\ got' = got
    BY <1>19, SwapFacts
  <2> QED BY <2>1, <1>c, <1>e, <1>g
<1>20. ASSUME NEW c \in Cmd, MoveCopies(c) PROVE ArchiveIsSnapshot'
  <2>1. pc[c] \in {"out", "in"} /\ got' = got
    BY <1>20, SwapFacts
  <2> QED BY <2>1, <1>c, <1>e, <1>g
<1>21. ASSUME NEW c \in Cmd, MoveEnds(c) PROVE ArchiveIsSnapshot'
  <2>1. pc[c] \in {"out", "in"} /\ got' = got
    BY <1>21, SwapFacts
  <2> QED BY <2>1, <1>c, <1>e, <1>g
<1>22. ASSUME NEW c \in Cmd, PhaseEnds(c) PROVE ArchiveIsSnapshot'
  <2>1. pc[c] \in {"out", "in"} /\ got' = got
    BY <1>22, SwapFacts
  <2> QED BY <2>1, <1>c, <1>e, <1>g
<1>23. ASSUME NEW c \in Cmd, Starts(c) PROVE ArchiveIsSnapshot'
  BY <1>23, <1>c, <1>g DEF Starts
<1>24. ASSUME NEW c \in Cmd, Completes(c) PROVE ArchiveIsSnapshot'
  <2>1. disk'[Live] = disk[Live] /\ got' = got
    BY <1>24, <1>h DEF Completes, Forgotten
  <2> QED BY <2>1, <1>g
<1>25. ASSUME NEW c \in Cmd, Cleans(c) PROVE ArchiveIsSnapshot'
  <2>1. disk'[Live] = disk[Live] /\ got' = got
    BY <1>25, <1>h DEF Cleans, Replaced
  <2> QED BY <2>1, <1>g
<1>26. ASSUME NEW c \in Cmd, CommandDies(c) PROVE ArchiveIsSnapshot'
  <2>1. \A x \in Actor : got'[x] \in {Nothing, got[x]}
    BY <1>26, <1>a DEF CommandDies, TreesOK
  <2>2. CASE Swapping(c)
    BY <2>1, <2>2, <1>c, <1>e, <1>g DEF Swapping
  <2>3. CASE ~Swapping(c)
    <3>1. disk'[Live] = disk[Live]
      BY <1>26, <2>3, <1>h DEF CommandDies, Forgotten
    <3> QED BY <2>1, <3>1, <1>c, <1>g
  <2> QED BY <2>2, <2>3
<1>27. ASSUME JobdDies PROVE ArchiveIsSnapshot'
  BY <1>27, <1>c, <1>g DEF JobdDies, Free
<1>28. ASSUME Reap PROVE ArchiveIsSnapshot'
  BY <1>28, <1>c, <1>g DEF Reap
<1>29. ASSUME MoveBack PROVE ArchiveIsSnapshot'
  <2>1. loose' = 0 => \A x \in Actor : pc[x] \notin {"tar", "name"}
    <3> SUFFICES ASSUME loose' = 0, NEW x \in Actor PROVE pc[x] \notin {"tar", "name"}
      OBVIOUS
    <3>1. loose = 0 /\ blk = "free"
      BY <1>29, <1>f, <1>g DEF MoveBack
    <3> QED BY <3>1, <1>b DEF BackupLock, Active
  <2>2. loose' = 0 => \A x \in Actor : got'[x] = Nothing
    BY <1>29, <2>1 DEF MoveBack, TarInv
  <2> QED BY <2>2, <1>c
<1>30. ASSUME Acknowledge PROVE ArchiveIsSnapshot'
  <2>1. disk'[Live] = disk[Live] /\ got' = got
    BY <1>30, <1>h DEF Acknowledge, Only
  <2> QED BY <2>1, <1>g
<1>31. ASSUME Ages PROVE ArchiveIsSnapshot'
  BY <1>31, <1>c, <1>g DEF Ages
<1>32. CASE UNCHANGED vars
  BY <1>32, <1>c, <1>g
<1> QED BY <1>1, <1>2, <1>3, <1>4, <1>5, <1>6, <1>7, <1>8, <1>9, <1>10, <1>11,
     <1>12, <1>13, <1>14, <1>15, <1>16, <1>17, <1>18, <1>19, <1>20, <1>21,
     <1>22, <1>23, <1>24, <1>25, <1>26, <1>27, <1>28, <1>29, <1>30, <1>31,
     <1>32 DEF Next, BackupStep, TickStep, JobStep, CommandStep, RestoreStep


\* Nothing takes a run without the backup lock back.
LEMMA LooseGrows ==
  ASSUME ControlOK, [Next]_vars
  PROVE  loose' = 0 => loose = 0
<1>1. loose \in Nat
  BY BoundAssumption DEF ControlOK
<1>2. loose' = loose \/ loose' = loose + 1
  BY SwapFacts
     DEF Next, BackupStep, TickStep, JobStep, CommandStep, RestoreStep,
         TarReads, Archived, BackupFails, TickBegins, PruneBegins, PruneStep, TickEnds,
         TickDies, TickLeaves, JobBegins, Locked, JobEnds, ShellRuns, RunsBackup, RunsImport,
         RunsDelete, RunsRestore, Claims, Stages, Starts, Completes, Cleans, CommandDies,
         JobdDies, Reap, MoveBack, Acknowledge, Ages, BackupFrame, TickFrame, JobFrame,
         CommandFrame, RestoreFrame, OperatorFrame, vars
<1> QED BY <1>1, <1>2

\* Retention, oldest name first.
LEMMA PruneInvStep ==
TreesOK /\ ListOK /\ ControlOK /\ BackupLock /\ PruneInv /\ [Next]_vars => PruneInv'
<1> SUFFICES ASSUME TreesOK, ListOK, ControlOK, BackupLock, PruneInv, [Next]_vars
     PROVE PruneInv'
  OBVIOUS
<1> USE DEF PruneInv, vars, transaction, jobd, ticking, swap, history,
     Goto, BackupFrame, TickFrame, JobFrame, CommandFrame, RestoreFrame,
     SwapFrame, OperatorFrame
<1>a. Tick \in Actor /\ \A c \in Cmd : c \in Actor /\ c # Tick /\ c # Nobody
  BY Actors
<1>b. \A a \in Actor : a # Tick => a \in Cmd
  BY Actors
<1>c. \A a \in Actor : \A p :
        /\ [pc EXCEPT ![a] = p][a] = p
        /\ \A x \in Actor : x # a => [pc EXCEPT ![a] = p][x] = pc[x]
  BY DEF ControlOK
<1>d. loose = 0 => \A c \in Cmd : pc[c] = "delete" => pc[Tick] # "pruning"
  BY DEF BackupLock, Active, AnyKind
<1>g. loose' = 0 => loose = 0
  BY LooseGrows
<1>h. AnyKind = {"backup", "import", "delete", "restore"} /\ job \in AnyKind \cup {"none"}
  BY DEF AnyKind, ControlOK
<1>i. worker \in Cmd \cup {Nobody}
  BY DEF ControlOK
<1>k. Names' = Names /\ gone' = gone => \A s : Above(s)' = Above(s)
  BY DEF Above
<1>l. ListOK'
  BY ListStep
<1>m. ASSUME Names \cup gone \subseteq (Names \cup gone)', NEW s
      PROVE  Cardinality(Above(s)) >= KeepMin => Cardinality(Above(s)') >= KeepMin
  <2>1. Above(s) \subseteq Above(s)' /\ Above(s)' \subseteq 1..MaxStamp
    BY <1>l, <1>m DEF Above, ListOK
  <2>4. IsFiniteSet(1..MaxStamp)
    BY FS_Interval, BoundAssumption
  <2>2. IsFiniteSet(Above(s)')
    BY <2>1, <2>4, FS_Subset
  <2>3. IsFiniteSet(Above(s)) /\ Cardinality(Above(s)) <= Cardinality(Above(s)')
    BY <2>1, <2>2, FS_Subset
  <2> QED BY <2>2, <2>3, FS_CardinalityType, KeepMinAssumption
<1>1. ASSUME NEW a \in Actor, TarReads(a) PROVE PruneInv'
  <2>1. Names' = Names /\ todo' = todo /\ gone' = gone
    BY <1>1 DEF TarReads, Names
  <2>2. pc'[Tick] = "pruning" => pc[Tick] = "pruning"
    BY <1>1, <1>a, <1>b, <1>c, <1>h, <1>i DEF TarReads
  <2> QED BY <2>1, <2>2, <1>g, <1>k
<1>2. ASSUME NEW a \in Actor, Archived(a) PROVE PruneInv'
  <2>1. todo' = todo /\ gone' = gone /\ \E p : pc' = [pc EXCEPT ![a] = p] /\ p # "pruning"
    BY <1>2 DEF Archived, After
  <2>2. pc'[Tick] = "pruning" => pc[Tick] = "pruning"
    BY <2>1, <1>a, <1>b, <1>c
  <2>4. PICK s : archives' = Named(s, got[a], TRUE)
    BY <1>2 DEF Archived
  <2>3. Names \subseteq Names'
    BY <2>4, Listed DEF Names
  <2> QED BY <2>1, <2>2, <2>3, <1>g, <1>m
<1>3. ASSUME NEW a \in Actor, BackupFails(a) PROVE PruneInv'
  <2>1. Names' = Names /\ todo' = todo /\ gone' = gone
    BY <1>3 DEF BackupFails, After, Names
  <2>2. pc'[Tick] = "pruning" => pc[Tick] = "pruning"
    BY <1>3, <1>a, <1>b, <1>c, <1>h, <1>i DEF BackupFails, After
  <2> QED BY <2>1, <2>2, <1>g, <1>k
<1>4. ASSUME TickBegins PROVE PruneInv'
  <2>1. Names' = Names /\ todo' = todo /\ gone' = gone
    BY <1>4 DEF TickBegins, BackupBegins, Begun, Names
  <2>2. pc'[Tick] = "pruning" => pc[Tick] = "pruning"
    BY <1>4, <1>a, <1>b, <1>c, <1>h, <1>i DEF TickBegins, BackupBegins, Begun
  <2> QED BY <2>1, <2>2, <1>g, <1>k
<1>5. ASSUME PruneBegins PROVE PruneInv'
  <2>1. Names' = Names /\ todo' = Candidates /\ gone' = {}
    BY <1>5 DEF PruneBegins, Names
  <2>2. \A s : Above(s)' = Newer(s)
    BY <2>1 DEF Above, Newer
  <2> QED BY <2>1, <2>2 DEF Candidates
<1>6. ASSUME PruneStep PROVE PruneInv'
  <2>1. PICK s \in todo :
          /\ \A t \in todo : s <= t
          /\ todo' = todo \ {s}
          /\ \/ archives' = Restrict(archives, Names \ {s})
             \/ UNCHANGED archives
    BY <1>6 DEF PruneStep
  <2>2. Names \ {s} \subseteq Names' /\ Names' \subseteq Names
    BY <2>1, Listed DEF Names
  <2>3. todo \subseteq Int /\ Names \subseteq Int /\ gone' = gone
    BY <1>6 DEF ListOK, PruneStep
  <2>4. ASSUME NEW t \in todo' PROVE Above(t)' = Above(t)
    <3>1. t \in todo /\ s < t
      BY <2>1, <2>3
    <3>2. \A n \in Names : n > t => n \in Names'
      BY <2>2, <2>3, <3>1
    <3> QED BY <2>2, <2>3, <3>2 DEF Above
  <2>5. pc' = pc
    BY <1>6 DEF PruneStep
  <2> QED BY <2>1, <2>3, <2>4, <2>5, <1>g
<1>7. ASSUME TickEnds PROVE PruneInv'
  <2>1. pc'[Tick] = "off" /\ gone' = {}
    BY <1>7, <1>a, <1>c DEF TickEnds, TickLeaves
  <2> QED BY <2>1
<1>8. ASSUME TickDies PROVE PruneInv'
  <2>1. pc'[Tick] = "off" /\ gone' = {}
    BY <1>8, <1>a, <1>c DEF TickDies, TickLeaves
  <2> QED BY <2>1
<1>9. ASSUME NEW c \in Cmd, JobBegins(c) PROVE PruneInv'
  <2>1. Names' = Names /\ todo' = todo /\ gone' = gone
    BY <1>9 DEF JobBegins, Names
  <2>2. pc'[Tick] = "pruning" => pc[Tick] = "pruning"
    BY <1>9, <1>a, <1>b, <1>c, <1>h, <1>i DEF JobBegins
  <2> QED BY <2>1, <2>2, <1>g, <1>k
<1>10. ASSUME NEW c \in Cmd, Locked(c) PROVE PruneInv'
  <2>1. Names' = Names /\ todo' = todo /\ gone' = gone
    BY <1>10 DEF Locked, Names
  <2>2. pc'[Tick] = "pruning" => pc[Tick] = "pruning"
    BY <1>10, <1>a, <1>b, <1>c, <1>h, <1>i DEF Locked
  <2> QED BY <2>1, <2>2, <1>g, <1>k
<1>11. ASSUME NEW c \in Cmd, JobEnds(c) PROVE PruneInv'
  <2>1. Names' = Names /\ todo' = todo /\ gone' = gone
    BY <1>11 DEF JobEnds, Names
  <2>2. pc'[Tick] = "pruning" => pc[Tick] = "pruning"
    BY <1>11, <1>a, <1>b, <1>c, <1>h, <1>i DEF JobEnds
  <2> QED BY <2>1, <2>2, <1>g, <1>k
<1>12. ASSUME NEW c \in Cmd, ShellRuns(c) PROVE PruneInv'
  <2>1. Names' = Names /\ todo' = todo /\ gone' = gone
    BY <1>12 DEF ShellRuns, Names
  <2>2. pc'[Tick] = "pruning" => pc[Tick] = "pruning"
    BY <1>12, <1>a, <1>b, <1>c, <1>h, <1>i DEF ShellRuns
  <2> QED BY <2>1, <2>2, <1>g, <1>k
<1>13. ASSUME NEW c \in Cmd, RunsBackup(c) PROVE PruneInv'
  <2>1. Names' = Names /\ todo' = todo /\ gone' = gone
    BY <1>13 DEF RunsBackup, BackupBegins, Begun, Names
  <2>2. pc'[Tick] = "pruning" => pc[Tick] = "pruning"
    BY <1>13, <1>a, <1>b, <1>c, <1>h, <1>i DEF RunsBackup, BackupBegins, Begun
  <2> QED BY <2>1, <2>2, <1>g, <1>k
<1>14. ASSUME NEW c \in Cmd, RunsImport(c) PROVE PruneInv'
  <2>1. todo' = todo /\ gone' = gone /\ pc'[Tick] = pc[Tick]
    BY <1>14, <1>a, <1>c DEF RunsImport
  <2>3. archives' = archives \/ \E s, t : archives' = Named(s, t, FALSE)
    BY <1>14 DEF RunsImport
  <2>4. ASSUME NEW s, NEW t, archives' = Named(s, t, FALSE) PROVE Names \subseteq Names'
    BY <2>4, Listed DEF Names
  <2>2. Names \subseteq Names'
    BY <2>3, <2>4 DEF Names
  <2> QED BY <2>1, <2>2, <1>g, <1>m
<1>15. ASSUME NEW c \in Cmd, RunsDelete(c) PROVE PruneInv'
  <2>1. pc[c] = "delete" /\ todo' = todo /\ pc'[Tick] = pc[Tick]
    BY <1>15, <1>a, <1>c DEF RunsDelete
  <2>2. CASE UNCHANGED <<archives, gone>>
    <3>1. Names' = Names
      BY <2>2 DEF Names
    <3> QED BY <2>1, <2>2, <3>1, <1>g, <1>k
  <2>3. ASSUME NEW s \in Names, archives' = Restrict(archives, Names \ {s}),
               gone' = IF pc[Tick] = "pruning" THEN gone \cup {s} ELSE gone
        PROVE  PruneInv'
    <3>1. Names' = Names \ {s}
      BY <2>3, Listed DEF Names
    <3>2. CASE pc[Tick] = "pruning"
      BY <2>1, <2>3, <3>1, <3>2, <1>d, <1>g, <1>m
    <3>3. CASE pc[Tick] # "pruning"
      BY <2>1, <2>3, <3>3, <1>g
    <3> QED BY <3>2, <3>3
  <2> QED BY <1>15, <2>2, <2>3 DEF RunsDelete
<1>16. ASSUME NEW c \in Cmd, RunsRestore(c) PROVE PruneInv'
  <2>1. Names' = Names /\ todo' = todo /\ gone' = gone
    BY <1>16 DEF RunsRestore, BackupBegins, Begun, Names
  <2>2. pc'[Tick] = "pruning" => pc[Tick] = "pruning"
    BY <1>16, <1>a, <1>b, <1>c, <1>h, <1>i DEF RunsRestore, BackupBegins, Begun
  <2> QED BY <2>1, <2>2, <1>g, <1>k
<1>17. ASSUME NEW c \in Cmd, Claims(c) PROVE PruneInv'
  <2>1. Names' = Names /\ todo' = todo /\ gone' = gone
    BY <1>17 DEF Claims, Names
  <2>2. pc'[Tick] = "pruning" => pc[Tick] = "pruning"
    BY <1>17, <1>a, <1>b, <1>c, <1>h, <1>i DEF Claims
  <2> QED BY <2>1, <2>2, <1>g, <1>k
<1>18. ASSUME NEW c \in Cmd, Stages(c) PROVE PruneInv'
  <2>1. Names' = Names /\ todo' = todo /\ gone' = gone
    BY <1>18 DEF Stages, Names
  <2>2. pc'[Tick] = "pruning" => pc[Tick] = "pruning"
    BY <1>18, <1>a, <1>b, <1>c, <1>h, <1>i DEF Stages
  <2> QED BY <2>1, <2>2, <1>g, <1>k
<1>19. ASSUME NEW c \in Cmd, MoveBegins(c) PROVE PruneInv'
  <2>1. /\ pc[c] \in {"out", "in"} /\ archives' = archives /\ todo' = todo /\ gone' = gone
        /\ pc' = pc \/ \E p \in {"fails", "in", "start"} : pc' = [pc EXCEPT ![c] = p]
    BY <1>19, SwapFacts
  <2>2. Names' = Names
    BY <2>1 DEF Names
  <2> QED BY <2>1, <2>2, <1>a, <1>c, <1>g, <1>k
<1>20. ASSUME NEW c \in Cmd, MoveCopies(c) PROVE PruneInv'
  <2>1. /\ pc[c] \in {"out", "in"} /\ archives' = archives /\ todo' = todo /\ gone' = gone
        /\ pc' = pc \/ \E p \in {"fails", "in", "start"} : pc' = [pc EXCEPT ![c] = p]
    BY <1>20, SwapFacts
  <2>2. Names' = Names
    BY <2>1 DEF Names
  <2> QED BY <2>1, <2>2, <1>a, <1>c, <1>g, <1>k
<1>21. ASSUME NEW c \in Cmd, MoveEnds(c) PROVE PruneInv'
  <2>1. /\ pc[c] \in {"out", "in"} /\ archives' = archives /\ todo' = todo /\ gone' = gone
        /\ pc' = pc \/ \E p \in {"fails", "in", "start"} : pc' = [pc EXCEPT ![c] = p]
    BY <1>21, SwapFacts
  <2>2. Names' = Names
    BY <2>1 DEF Names
  <2> QED BY <2>1, <2>2, <1>a, <1>c, <1>g, <1>k
<1>22. ASSUME NEW c \in Cmd, PhaseEnds(c) PROVE PruneInv'
  <2>1. /\ pc[c] \in {"out", "in"} /\ archives' = archives /\ todo' = todo /\ gone' = gone
        /\ pc' = pc \/ \E p \in {"fails", "in", "start"} : pc' = [pc EXCEPT ![c] = p]
    BY <1>22, SwapFacts
  <2>2. Names' = Names
    BY <2>1 DEF Names
  <2> QED BY <2>1, <2>2, <1>a, <1>c, <1>g, <1>k
<1>23. ASSUME NEW c \in Cmd, Starts(c) PROVE PruneInv'
  <2>1. Names' = Names /\ todo' = todo /\ gone' = gone
    BY <1>23 DEF Starts, Names
  <2>2. pc'[Tick] = "pruning" => pc[Tick] = "pruning"
    BY <1>23, <1>a, <1>b, <1>c, <1>h, <1>i DEF Starts
  <2> QED BY <2>1, <2>2, <1>g, <1>k
<1>24. ASSUME NEW c \in Cmd, Completes(c) PROVE PruneInv'
  <2>1. Names' = Names /\ todo' = todo /\ gone' = gone
    BY <1>24 DEF Completes, Names
  <2>2. pc'[Tick] = "pruning" => pc[Tick] = "pruning"
    BY <1>24, <1>a, <1>b, <1>c, <1>h, <1>i DEF Completes
  <2> QED BY <2>1, <2>2, <1>g, <1>k
<1>25. ASSUME NEW c \in Cmd, Cleans(c) PROVE PruneInv'
  <2>1. Names' = Names /\ todo' = todo /\ gone' = gone
    BY <1>25 DEF Cleans, Names
  <2>2. pc'[Tick] = "pruning" => pc[Tick] = "pruning"
    BY <1>25, <1>a, <1>b, <1>c, <1>h, <1>i DEF Cleans
  <2> QED BY <2>1, <2>2, <1>g, <1>k
<1>26. ASSUME NEW c \in Cmd, CommandDies(c) PROVE PruneInv'
  <2>1. Names' = Names /\ todo' = todo /\ gone' = gone
    BY <1>26 DEF CommandDies, Names
  <2>2. pc'[Tick] = "pruning" => pc[Tick] = "pruning"
    BY <1>26, <1>a, <1>b, <1>c, <1>h, <1>i DEF CommandDies
  <2> QED BY <2>1, <2>2, <1>g, <1>k
<1>27. ASSUME JobdDies PROVE PruneInv'
  <2>1. Names' = Names /\ todo' = todo /\ gone' = gone
    BY <1>27 DEF JobdDies, Names
  <2>2. pc'[Tick] = "pruning" => pc[Tick] = "pruning"
    BY <1>27, <1>a, <1>b, <1>c, <1>h, <1>i DEF JobdDies
  <2> QED BY <2>1, <2>2, <1>g, <1>k
<1>28. ASSUME Reap PROVE PruneInv'
  <2>1. Names' = Names /\ todo' = todo /\ gone' = gone
    BY <1>28 DEF Reap, Names
  <2>2. pc'[Tick] = "pruning" => pc[Tick] = "pruning"
    BY <1>28, <1>a, <1>b, <1>c, <1>h, <1>i DEF Reap
  <2> QED BY <2>1, <2>2, <1>g, <1>k
<1>29. ASSUME MoveBack PROVE PruneInv'
  <2>1. Names' = Names /\ todo' = todo /\ gone' = gone
    BY <1>29 DEF MoveBack, Names
  <2>2. pc'[Tick] = "pruning" => pc[Tick] = "pruning"
    BY <1>29, <1>a, <1>b, <1>c, <1>h, <1>i DEF MoveBack
  <2> QED BY <2>1, <2>2, <1>g, <1>k
<1>30. ASSUME Acknowledge PROVE PruneInv'
  <2>1. Names' = Names /\ todo' = todo /\ gone' = gone
    BY <1>30 DEF Acknowledge, Names
  <2>2. pc'[Tick] = "pruning" => pc[Tick] = "pruning"
    BY <1>30, <1>a, <1>b, <1>c, <1>h, <1>i DEF Acknowledge
  <2> QED BY <2>1, <2>2, <1>g, <1>k
<1>31. ASSUME Ages PROVE PruneInv'
  <2>1. Names' = Names /\ todo' = todo /\ gone' = gone
    BY <1>31 DEF Ages, Names
  <2>2. pc'[Tick] = "pruning" => pc[Tick] = "pruning"
    BY <1>31, <1>a, <1>b, <1>c, <1>h, <1>i DEF Ages
  <2> QED BY <2>1, <2>2, <1>g, <1>k
<1>32. CASE UNCHANGED vars
  <2>1. Names' = Names
    BY <1>32 DEF Names
  <2> QED BY <1>32, <2>1, <1>k, <1>g
<1> QED BY <1>1, <1>2, <1>3, <1>4, <1>5, <1>6, <1>7, <1>8, <1>9, <1>10, <1>11,
     <1>12, <1>13, <1>14, <1>15, <1>16, <1>17, <1>18, <1>19, <1>20, <1>21,
     <1>22, <1>23, <1>24, <1>25, <1>26, <1>27, <1>28, <1>29, <1>30, <1>31,
     <1>32 DEF Next, BackupStep, TickStep, JobStep, CommandStep, RestoreStep


\* The way back: nothing but the one restore at work changes its archive, the live
\* tree or the world it replaces, while everything runs under the backup lock.
LEMMA WayStep ==
TreesOK /\ ListOK /\ ControlOK /\ BackupLock /\ TarInv /\ ArchiveIsSnapshot /\
     WayInv /\ [Next]_vars => WayInv'
<1> DEFINE Before == {"claim", "stop"}
<1> DEFINE Since == {"out", "in", "start"}
<1> SUFFICES ASSUME TreesOK, ListOK, ControlOK, BackupLock, TarInv, ArchiveIsSnapshot,
                    WayInv, [Next]_vars, loose' = 0
             PROVE  WayInv'
  BY DEF WayInv
<1> USE DEF vars, transaction, jobd, ticking, swap, history, Goto, BackupFrame,
     TickFrame, JobFrame, CommandFrame, RestoreFrame, OperatorFrame
<1>a. Tick \in Actor /\ \A c \in Cmd : c \in Actor /\ c # Tick /\ c # Nobody
  BY Actors
<1>b. \A a \in Actor : a # Tick => a \in Cmd
  BY Actors
<1>c. \A a \in Actor : \A p :
        /\ [pc EXCEPT ![a] = p][a] = p
        /\ \A x \in Actor : x # a => [pc EXCEPT ![a] = p][x] = pc[x]
  BY DEF ControlOK
<1>d. loose = 0
  BY LooseGrows
<1>e. \A c, k \in Cmd : pc[c] \in Active /\ pc[k] \in Active => c = k
  BY <1>d DEF BackupLock
<1>f. pc[Tick] # "off" => \A c \in Cmd : pc[c] \notin Active
  BY <1>d DEF BackupLock
<1>g. Before \subseteq Active /\ Since \subseteq Active /\ "name" \in Active /\ AnyKind \subseteq Active
  BY DEF Active, Holding
<1>h. /\ Live \in Place
      /\ \A c \in Cmd : Staging(c) # Live /\ Aside(c) # Live
  BY Places
<1>i. AnyKind = {"backup", "import", "delete", "restore"} /\ job \in AnyKind \cup {"none"}
  BY DEF AnyKind, ControlOK
<1>j. worker \in Cmd \cup {Nobody}
  BY DEF ControlOK
<1>k. /\ \A c \in Cmd : pc[c] \in Before => Kept(disk[Live])
      /\ \A c \in Cmd : pc[c] \in Since => Kept(prev)
  BY <1>d DEF WayInv
<1>t. pc[Tick] \in Active => pc[Tick] # "off"
  BY DEF Active, AnyKind, Holding
<1>q. ASSUME archives' = archives, disk'[Live] = disk[Live], prev' = prev,
             \A k \in Cmd : /\ pc'[k] \in Before => pc[k] \in Before
                            /\ pc'[k] \in Since => pc[k] \in Since
      PROVE  WayInv'
  BY <1>q, <1>k DEF WayInv, Kept, Names
<1>o. ASSUME NEW a \in Actor, pc[a] \in Active \/ (a = Tick /\ pc[Tick] # "off"), NEW p, pc' = [pc EXCEPT ![a] = p]
      PROVE  \A k \in Cmd : k # a => pc'[k] \notin Before /\ pc'[k] \notin Since
  <2> SUFFICES ASSUME NEW k \in Cmd, k # a PROVE pc'[k] \notin Before /\ pc'[k] \notin Since
    OBVIOUS
  <2>1. pc'[k] = pc[k]
    BY <1>o, <1>a, <1>c
  <2>2. CASE a = Tick
    BY <1>o, <2>1, <2>2, <1>f, <1>g, <1>t
  <2>3. CASE a # Tick
    <3>1. a \in Cmd /\ pc[a] \in Active
      BY <1>o, <2>3, <1>b
    <3>2. pc[k] \notin Active
      BY <3>1, <1>e
    <3> QED BY <2>1, <3>2, <1>g
  <2> QED BY <2>2, <2>3
<1>p. ASSUME NEW a \in Actor, pc[a] \in Active \/ (a = Tick /\ pc[Tick] # "off"), NEW p, pc' = [pc EXCEPT ![a] = p],
             p \notin Before, p \notin Since
      PROVE  WayInv'
  <2>1. pc'[a] = p
    BY <1>p, <1>c
  <2>2. \A k \in Cmd : k # a => pc'[k] \notin Before /\ pc'[k] \notin Since
    BY <1>p, <1>o
  <2>3. \A k \in Cmd : pc'[k] \notin Before /\ pc'[k] \notin Since
    BY <1>p, <2>1, <2>2
  <2> QED BY <2>3 DEF WayInv
<1>1. ASSUME NEW a \in Actor, TarReads(a) PROVE WayInv'
  <2>1. archives' = archives /\ disk' = disk /\ prev' = prev
    BY <1>1 DEF TarReads
  <2>2. pc' = pc \/ pc' = [pc EXCEPT ![a] = "name"]
    BY <1>1 DEF TarReads
  <2> QED BY <2>1, <2>2, <1>a, <1>c, <1>q
<1>2. ASSUME NEW a \in Actor, Archived(a) PROVE WayInv'
  <2>1. pc[a] = "name" /\ pc' = [pc EXCEPT ![a] = After(a, TRUE)] /\ disk' = disk
    BY <1>2 DEF Archived
  <2>2. CASE a = Tick \/ After(a, TRUE) # "claim"
    <3>1. After(a, TRUE) \notin Before /\ After(a, TRUE) \notin Since
      BY <2>2 DEF After
    <3> QED BY <2>1, <3>1, <1>g, <1>p
  <2>3. CASE a # Tick /\ After(a, TRUE) = "claim"
    <3>1. got[a] \in Tree /\ disk[Live] \in Tree
      BY <1>h DEF TreesOK
    <3>2. \A e \in Entry : got[a][e] = disk[Live][e]
      BY <2>1, <1>d DEF TarInv, ArchiveIsSnapshot
    <3>3. got[a] = disk[Live]
      BY <3>1, <3>2 DEF Tree
    <3>4. PICK s : archives' = Named(s, got[a], TRUE)
      BY <1>2 DEF Archived
    <3>8. DOMAIN archives' = Names \cup {s} /\ archives'[s] = [tree |-> got[a], fresh |-> TRUE, made |-> TRUE]
      BY <3>4, Listed
    <3>9. archives'[s].tree = got[a]
      BY <3>8
    <3>5. s \in Names' /\ archives'[s].tree = got[a]
      BY <3>8, <3>9 DEF Names
    <3>6. Kept(disk[Live])'
      BY <2>1, <3>3, <3>5 DEF Kept
    <3>7. pc'[a] \notin Since /\ \A k \in Cmd : k # a => pc'[k] \notin Before /\ pc'[k] \notin Since
      BY <2>1, <2>3, <1>c, <1>g, <1>o
    <3> QED BY <3>6, <3>7 DEF WayInv
  <2> QED BY <2>2, <2>3
<1>3. ASSUME NEW a \in Actor, BackupFails(a) PROVE WayInv'
  <2>1. archives' = archives /\ disk' = disk /\ prev' = prev
    BY <1>3 DEF BackupFails
  <2>2. \E p \in {"prune", "ended"} : pc' = [pc EXCEPT ![a] = p]
    BY <1>3 DEF BackupFails, After
  <2> QED BY <2>1, <2>2, <1>a, <1>c, <1>q
<1>4. ASSUME TickBegins PROVE WayInv'
  <2>1. archives' = archives /\ disk' = disk /\ prev' = prev
    BY <1>4 DEF TickBegins, BackupBegins, Begun
  <2>2. \E p : pc' = [pc EXCEPT ![Tick] = p]
    BY <1>4 DEF TickBegins, BackupBegins
  <2> QED BY <2>1, <2>2, <1>a, <1>c, <1>q
<1>5. ASSUME PruneBegins PROVE WayInv'
  BY <1>5, <1>a, <1>c, <1>q DEF PruneBegins
<1>6. ASSUME PruneStep PROVE WayInv'
  BY <1>6, <1>f, <1>g DEF PruneStep, WayInv
<1>7. ASSUME TickEnds PROVE WayInv'
  BY <1>7, <1>a, <1>c, <1>q DEF TickEnds, TickLeaves
<1>8. ASSUME TickDies PROVE WayInv'
  BY <1>8, <1>a, <1>c, <1>q DEF TickDies, TickLeaves
<1>9. ASSUME NEW c \in Cmd, JobBegins(c) PROVE WayInv'
  BY <1>9, <1>a, <1>c, <1>q DEF JobBegins
<1>10. ASSUME NEW c \in Cmd, Locked(c) PROVE WayInv'
  BY <1>10, <1>a, <1>c, <1>i, <1>q DEF Locked
<1>11. ASSUME NEW c \in Cmd, JobEnds(c) PROVE WayInv'
  BY <1>11, <1>a, <1>c, <1>q DEF JobEnds
<1>12. ASSUME NEW c \in Cmd, ShellRuns(c) PROVE WayInv'
  BY <1>12, <1>a, <1>c, <1>i, <1>q DEF ShellRuns
<1>13. ASSUME NEW c \in Cmd, RunsBackup(c) PROVE WayInv'
  BY <1>13, <1>a, <1>c, <1>q DEF RunsBackup, BackupBegins, Begun
<1>14. ASSUME NEW c \in Cmd, RunsImport(c) PROVE WayInv'
  BY <1>14, <1>a, <1>g, <1>i, <1>p DEF RunsImport
<1>15. ASSUME NEW c \in Cmd, RunsDelete(c) PROVE WayInv'
  BY <1>15, <1>a, <1>g, <1>i, <1>p DEF RunsDelete
<1>16. ASSUME NEW c \in Cmd, RunsRestore(c) PROVE WayInv'
  <2>1. pc[c] \in Active /\ disk' = disk /\ c \in Actor
    BY <1>16, <1>a, <1>g, <1>i DEF RunsRestore, BackupBegins
  <2>2. CASE disk[Live] = Nothing /\ pc' = [pc EXCEPT ![c] = "claim"]
    BY <2>1, <2>2, <1>c, <1>o DEF WayInv, Kept
  <2>3. CASE \E p \in {"tar", "ended"} : pc' = [pc EXCEPT ![c] = p]
    BY <2>1, <2>3, <1>p
  <2> QED BY <1>16, <2>2, <2>3 DEF RunsRestore, BackupBegins
<1>17. ASSUME NEW c \in Cmd, Claims(c) PROVE WayInv'
  <2>1. pc[c] = "claim" /\ \E p \in {"stop", "ended"} : pc' = [pc EXCEPT ![c] = p]
    BY <1>17 DEF Claims
  <2>2. archives' = archives /\ disk' = disk /\ prev' = prev
    BY <1>17 DEF Claims
  <2> QED BY <2>1, <2>2, <1>a, <1>c, <1>q
<1>18. ASSUME NEW c \in Cmd, Stages(c) PROVE WayInv'
  <2>1. pc[c] = "stop" /\ pc[c] \in Active /\ c \in Actor /\ archives' = archives
    BY <1>18, <1>a, <1>g DEF Stages
  <2>2. CASE pc' = [pc EXCEPT ![c] = "out"] /\ prev' = disk[Live]
    <3>1. Kept(disk[Live]) /\ Names' = Names
      BY <2>1, <1>k DEF Names
    <3>2. Kept(prev)'
      BY <2>1, <2>2, <3>1 DEF Kept
    <3>3. pc'[c] \notin Before
      BY <2>1, <2>2, <1>c
    <3> QED BY <2>1, <2>2, <3>2, <3>3, <1>c, <1>o DEF WayInv
  <2>3. CASE pc' = [pc EXCEPT ![c] = "fails"]
    <3>1. "fails" \notin Before /\ "fails" \notin Since
      OBVIOUS
    <3> QED BY <2>1, <2>3, <3>1, <1>p
  <2> QED BY <1>18, <2>2, <2>3 DEF Stages
<1>19. ASSUME NEW c \in Cmd, MoveBegins(c) \/ MoveCopies(c) \/ MoveEnds(c) \/ PhaseEnds(c)
       PROVE  WayInv'
  <2>1. /\ pc[c] \in {"out", "in"} /\ archives' = archives /\ prev' = prev
        /\ pc' = pc \/ \E p \in {"fails", "in", "start"} : pc' = [pc EXCEPT ![c] = p]
    BY <1>19, SwapFacts
  <2>2. Kept(prev)'
    BY <2>1, <1>k DEF Kept, Names
  <2>3. \A k \in Cmd : pc'[k] \notin Before
    BY <2>1, <1>a, <1>c, <1>e, <1>g
  <2> QED BY <2>2, <2>3 DEF WayInv
<1>23. ASSUME NEW c \in Cmd, Starts(c) PROVE WayInv'
  <2>1. pc[c] \in Active /\ c \in Actor
    BY <1>23, <1>a, <1>g DEF Starts
  <2>2. \E p \in {"ready", "unverifiable", "fails"} : pc' = [pc EXCEPT ![c] = p]
    BY <1>23 DEF Starts
  <2> QED BY <2>1, <2>2, <1>p
<1>24. ASSUME NEW c \in Cmd, Completes(c) PROVE WayInv'
  <2>1. archives' = archives /\ disk'[Live] = disk[Live] /\ prev' = prev
    BY <1>24, <1>h DEF Completes, Forgotten
  <2>2. \E p \in {"clean", "ended"} : pc' = [pc EXCEPT ![c] = p]
    BY <1>24 DEF Completes
  <2> QED BY <2>1, <2>2, <1>a, <1>c, <1>q
<1>25. ASSUME NEW c \in Cmd, Cleans(c) PROVE WayInv'
  <2>1. archives' = archives /\ disk'[Live] = disk[Live] /\ prev' = prev
    BY <1>25, <1>h DEF Cleans, Replaced
  <2> QED BY <1>25, <2>1, <1>a, <1>c, <1>q DEF Cleans
<1>26. ASSUME NEW c \in Cmd, CommandDies(c) PROVE WayInv'
  <2>1. pc[c] \in Active
    BY <1>26, <1>a DEF CommandDies, ControlOK, BackupLock
  <2>2. pc' = [pc EXCEPT ![c] = "ended"] /\ "ended" \notin Before /\ "ended" \notin Since
    BY <1>26 DEF CommandDies
  <2> QED BY <2>1, <2>2, <1>a, <1>p
<1>27. ASSUME JobdDies PROVE WayInv'
  BY <1>27, <1>d DEF JobdDies
<1>28. ASSUME Reap PROVE WayInv'
  BY <1>28, <1>q DEF Reap
<1>29. ASSUME MoveBack PROVE WayInv'
  <2>1. blk = "free" /\ pc' = pc
    BY <1>29, <1>d DEF MoveBack
  <2>2. \A c \in Cmd : pc[c] \notin Active
    BY <2>1, <1>d DEF BackupLock
  <2> QED BY <2>1, <2>2, <1>g DEF WayInv
<1>30. ASSUME Acknowledge PROVE WayInv'
  <2>1. archives' = archives /\ disk'[Live] = disk[Live] /\ prev' = Nothing /\ pc' = pc
    BY <1>30, <1>h DEF Acknowledge, Only
  <2> QED BY <2>1, <1>k DEF WayInv, Kept, Names
<1>31. ASSUME Ages PROVE WayInv'
  <2>1. Names' = Names /\ disk' = disk /\ prev' = prev /\ pc' = pc
    BY <1>31 DEF Ages, Names
  <2>2. ASSUME NEW s \in Names PROVE archives'[s].tree = archives[s].tree
    <3>1. archives[s] \in [tree : Tree, fresh : BOOLEAN, made : BOOLEAN]
      BY DEF ListOK
    <3>2. archives'[s] = [archives[s] EXCEPT !.fresh = FALSE]
      BY <1>31 DEF Ages
    <3> QED BY <3>1, <3>2
  <2>3. \A tree : Kept(tree) => Kept(tree)'
    BY <2>1, <2>2 DEF Kept
  <2> QED BY <2>1, <2>3, <1>k DEF WayInv, Kept
<1>32. CASE UNCHANGED vars
  BY <1>32, <1>q
<1> QED BY <1>1, <1>2, <1>3, <1>4, <1>5, <1>6, <1>7, <1>8, <1>9, <1>10, <1>11,
     <1>12, <1>13, <1>14, <1>15, <1>16, <1>17, <1>18, <1>19, <1>23, <1>24, <1>25,
     <1>26, <1>27, <1>28, <1>29, <1>30, <1>31, <1>32
     DEF Next, BackupStep, TickStep, JobStep, CommandStep, RestoreStep

\* While the live tree is moved out, every entry of the previous world is live
\* or, whole, in the replaced tree, whatever the step does.
LEMMA OutMoves ==
  ASSUME TreesOK, ControlOK, LifecycleLock, OutInv, NEW c \in Cmd, pc[c] = "out",
         MoveBegins(c) \/ MoveCopies(c) \/ MoveEnds(c) \/ PhaseEnds(c)
  PROVE  /\ \A p \in Place : p \notin {Live, Staging(c), Aside(c)} => disk'[p] = disk[p]
         /\ \A e \in Entry : prev[e] \in {disk'[Live][e], disk'[Aside(c)][e]}
         /\ pc'[c] = "out" => MovesOut(c)'
         /\ pc'[c] = "in" => disk'[Live] = Nothing
<1> DEFINE A == Aside(c)
<1>1. From(c) = Live /\ To(c) = A
  BY FromTo
<1>2. Live \in Place /\ Staging(c) \in Place /\ A \in Place /\ A # Live /\ Staging(c) # Live /\ A # Staging(c)
  BY Places
<1>3. MovesOut(c)
  BY DEF OutInv
<1>4. "none" \in Content /\ "part" \in Content
  BY DEF Content
<1>5. \A p \in Place, e \in Entry : disk[p][e] \in Content
  BY Trees DEF TreesOK
<1>6. c \in Actor /\ \A p : [pc EXCEPT ![c] = p][c] = p
  BY Actors DEF ControlOK
<1> HIDE DEF A
<1>7. prev' = prev
  BY SwapFacts
\* A failure: the trees are d, but for the staging tree that may go.
<1>8. ASSUME NEW d \in [Place -> Tree], SwapFails(c, d),
             \A p \in Place : p \notin {Live, A} => d[p] = disk[p],
             \A e \in Entry : prev[e] \in {d[Live][e], d[A][e]}
      PROVE  /\ \A p \in Place : p \notin {Live, Staging(c), A} => disk'[p] = disk[p]
             /\ \A e \in Entry : prev[e] \in {disk'[Live][e], disk'[A][e]}
             /\ pc'[c] = "fails"
  <2>1. disk' = d \/ disk' = [d EXCEPT ![Staging(c)] = Nothing]
    BY <1>8 DEF SwapFails
  <2>2. \A p \in Place : p # Staging(c) => disk'[p] = d[p]
    BY <2>1
  <2>3. pc'[c] = "fails"
    BY <1>6, <1>8 DEF SwapFails, Goto
  <2> QED BY <1>2, <1>8, <2>2, <2>3
<1>9. CASE MoveBegins(c)
  <2> DEFINE e == First(disk[Live])
  <2>1. moving = "none" /\ disk[Live] # Nothing /\ ~copied
    BY <1>1, <1>9 DEF MoveBegins, LifecycleLock
  <2>2. e \in Entry /\ disk[Live][e] # "none"
    BY <1>2, <2>1, FirstIsThere DEF TreesOK
  <2>3. disk[A][e] = "none" /\ prev[e] = disk[Live][e]
    <3>1. e # "none"
      BY DEF First
    <3> HIDE DEF e
    <3> QED BY <1>3, <2>1, <2>2, <3>1 DEF MovesOut, A
  <2> HIDE DEF e
  <2>4. CASE /\ disk' = [disk EXCEPT ![A][e] = disk[Live][e], ![Live][e] = "none"]
             /\ UNCHANGED <<pc, swap>>
    <3> DEFINE d == [disk EXCEPT ![A][e] = disk[Live][e]]
    <3>1. /\ d \in [Place -> Tree] /\ d[A][e] = disk[Live][e]
          /\ \A f \in Entry : f # e => d[A][f] = disk[A][f]
          /\ \A q \in Place : q # A => d[q] = disk[q]
      BY <1>2, <1>5, <2>2, Changed DEF TreesOK
    <3>2. disk' = [d EXCEPT ![Live][e] = "none"]
      BY <2>4
    <3> HIDE DEF d
    <3>3. /\ disk'[Live][e] = "none"
          /\ \A f \in Entry : f # e => disk'[Live][f] = d[Live][f]
          /\ \A q \in Place : q # Live => disk'[q] = d[q]
      BY <1>2, <1>4, <2>2, <3>1, <3>2, Changed
    <3>4. /\ disk'[A][e] = prev[e] /\ disk'[Live][e] = "none"
          /\ \A f \in Entry : f # e => disk'[A][f] = disk[A][f] /\ disk'[Live][f] = disk[Live][f]
          /\ \A q \in Place : q \notin {Live, A} => disk'[q] = disk[q]
      BY <1>2, <2>3, <3>1, <3>3
    <3>5. pc'[c] = "out" /\ moving' = "none" /\ ~copied'
      BY <2>1, <2>4 DEF swap
    <3>6. MovesOut(c)'
      BY <1>3, <1>7, <2>1, <2>2, <3>4, <3>5 DEF MovesOut, A
    <3>7. \A f \in Entry : prev[f] \in {disk'[Live][f], disk'[A][f]}
      BY <1>3, <2>2, <2>3, <3>4 DEF MovesOut, A
    <3> QED BY <3>4, <3>5, <3>6, <3>7 DEF A
  <2>5. CASE /\ disk' = [disk EXCEPT ![A][e] = "part"] /\ moving' = e
             /\ UNCHANGED <<pc, copied, untouched>>
    <3>1. /\ \A f \in Entry : f # e => disk'[A][f] = disk[A][f]
          /\ \A q \in Place : q # A => disk'[q] = disk[q]
      BY <1>2, <1>4, <2>2, <2>5, Changed DEF TreesOK
    <3>4. disk'[Live] = disk[Live] /\ ~copied' /\ moving' = e
      BY <1>2, <2>1, <2>5, <3>1
    <3>5. ASSUME NEW f \in Entry
          PROVE  IF disk[Live][f] = "none" THEN disk'[A][f] = prev[f]
                 ELSE prev[f] = disk[Live][f] /\ (f # e => disk'[A][f] = "none")
      <4>1. f # "none"
        BY DEF Entry
      <4> QED BY <1>3, <2>1, <2>2, <2>3, <3>1, <4>1 DEF MovesOut, A
    <3>2. MovesOut(c)'
      BY <1>7, <2>2, <3>4, <3>5 DEF MovesOut, A
    <3>3. \A f \in Entry : prev[f] \in {disk'[Live][f], disk'[A][f]}
      BY <1>2, <1>3, <2>2, <2>3, <3>1 DEF MovesOut, A
    <3> QED BY <1>2, <2>5, <3>1, <3>2, <3>3 DEF A
  <2>6. CASE SwapFails(c, disk)
    <3>1. \A f \in Entry : prev[f] \in {disk[Live][f], disk[A][f]}
      BY <1>3 DEF MovesOut, A
    <3> QED BY <1>8, <2>6, <3>1 DEF A, TreesOK
  <2> QED BY <1>1, <1>9, <2>4, <2>5, <2>6 DEF MoveBegins, e
<1>10. CASE MoveCopies(c)
  <2>1. moving # "none" /\ ~copied /\ moving \in Entry
    BY <1>10 DEF MoveCopies, ControlOK
  <2>2. disk[Live][moving] # "none" /\ prev[moving] = disk[Live][moving]
    BY <1>3, <2>1 DEF MovesOut
  <2>3. CASE /\ disk' = [disk EXCEPT ![A][moving] = disk[Live][moving]]
             /\ copied' = TRUE /\ UNCHANGED <<pc, moving, untouched>>
    <3>1. /\ disk'[A][moving] = disk[Live][moving]
          /\ \A f \in Entry : f # moving => disk'[A][f] = disk[A][f]
          /\ \A q \in Place : q # A => disk'[q] = disk[q]
      BY <1>2, <1>5, <2>1, <2>3, Changed DEF TreesOK
    <3>2. MovesOut(c)'
      BY <1>2, <1>3, <1>7, <2>1, <2>2, <2>3, <3>1 DEF MovesOut, A
    <3>3. \A f \in Entry : prev[f] \in {disk'[Live][f], disk'[A][f]}
      BY <1>2, <1>3, <2>2, <3>1 DEF MovesOut, A
    <3> QED BY <1>2, <2>3, <3>1, <3>2, <3>3 DEF A
  <2>4. ASSUME NEW left \in Content, SwapFails(c, [disk EXCEPT ![A][moving] = left])
        PROVE  /\ \A p \in Place : p \notin {Live, Staging(c), A} => disk'[p] = disk[p]
               /\ \A e \in Entry : prev[e] \in {disk'[Live][e], disk'[A][e]}
               /\ pc'[c] = "fails"
    <3> DEFINE d == [disk EXCEPT ![A][moving] = left]
    <3>1. /\ d \in [Place -> Tree]
          /\ \A f \in Entry : f # moving => d[A][f] = disk[A][f]
          /\ \A q \in Place : q # A => d[q] = disk[q]
      BY <1>2, <2>1, Changed DEF TreesOK
    <3>2. SwapFails(c, d)
      BY <2>4
    <3> HIDE DEF d
    <3>3. \A f \in Entry : prev[f] \in {d[Live][f], d[A][f]}
      BY <1>2, <1>3, <2>2, <3>1 DEF MovesOut, A
    <3> QED BY <1>2, <1>8, <3>1, <3>2, <3>3
  <2>5. CASE \E left \in {"none", "part"} : SwapFails(c, [disk EXCEPT ![A][moving] = left])
    <3>1. PICK left \in Content : SwapFails(c, [disk EXCEPT ![A][moving] = left])
      BY <2>5, <1>4
    <3> QED BY <2>4, <3>1 DEF A
  <2> QED BY <1>1, <1>10, <2>3, <2>5 DEF MoveCopies
<1>11. CASE MoveEnds(c)
  <2>1. copied /\ moving # "none" /\ moving \in Entry
    BY <1>11 DEF MoveEnds, ControlOK, LifecycleLock
  <2>2. disk[Live][moving] # "none" /\ prev[moving] = disk[Live][moving] /\ disk[A][moving] = prev[moving]
    BY <1>3, <2>1 DEF MovesOut, A
  <2>3. CASE /\ disk' = [disk EXCEPT ![Live][moving] = "none"]
             /\ copied' = FALSE /\ moving' = "none" /\ UNCHANGED <<pc, untouched>>
    <3>1. /\ disk'[Live][moving] = "none"
          /\ \A f \in Entry : f # moving => disk'[Live][f] = disk[Live][f]
          /\ \A q \in Place : q # Live => disk'[q] = disk[q]
      BY <1>2, <1>4, <2>1, <2>3, Changed DEF TreesOK
    <3>2. MovesOut(c)'
      BY <1>2, <1>3, <1>7, <2>1, <2>2, <2>3, <3>1 DEF MovesOut, A
    <3>3. \A f \in Entry : prev[f] \in {disk'[Live][f], disk'[A][f]}
      BY <1>2, <1>3, <2>2, <3>1 DEF MovesOut, A
    <3> QED BY <1>2, <2>3, <3>1, <3>2, <3>3 DEF A
  <2>4. CASE SwapFails(c, [disk EXCEPT ![Live][moving] = "part"])
    <3> DEFINE d == [disk EXCEPT ![Live][moving] = "part"]
    <3>1. /\ d \in [Place -> Tree]
          /\ \A f \in Entry : f # moving => d[Live][f] = disk[Live][f]
          /\ \A q \in Place : q # Live => d[q] = disk[q]
      BY <1>2, <1>4, <2>1, Changed DEF TreesOK
    <3>2. SwapFails(c, d)
      BY <2>4
    <3> HIDE DEF d
    <3>3. \A f \in Entry : prev[f] \in {d[Live][f], d[A][f]}
      BY <1>2, <1>3, <2>2, <3>1 DEF MovesOut, A
    <3> QED BY <1>2, <1>8, <3>1, <3>2, <3>3 DEF A
  <2> QED BY <1>1, <1>11, <2>3, <2>4 DEF MoveEnds
<1>12. CASE PhaseEnds(c)
  <2>1. disk' = disk /\ disk[Live] = Nothing /\ pc'[c] = "in"
    BY <1>1, <1>6, <1>12 DEF PhaseEnds, Goto
  <2>2. \A f \in Entry : prev[f] \in {disk[Live][f], disk[A][f]}
    BY <1>3 DEF MovesOut, A
  <2> QED BY <2>1, <2>2 DEF A
<1> QED BY <1>9, <1>10, <1>11, <1>12

\* While the new tree is moved in, only the live and the staging tree change.
LEMMA InMoves ==
  ASSUME TreesOK, ControlOK, LifecycleLock, NEW c \in Cmd, pc[c] = "in",
         MoveBegins(c) \/ MoveCopies(c) \/ MoveEnds(c) \/ PhaseEnds(c)
  PROVE  /\ \A p \in Place : p \notin {Live, Staging(c)} => disk'[p] = disk[p]
         /\ pc'[c] # "out"
<1>1. From(c) = Staging(c) /\ To(c) = Live
  BY FromTo
<1>2. \A d : SwapFails(c, d) => disk' = d \/ disk' = [d EXCEPT ![Staging(c)] = Nothing]
  BY DEF SwapFails
<1>3. c \in Actor /\ \A p : [pc EXCEPT ![c] = p][c] = p
  BY Actors DEF ControlOK
<1>4. pc'[c] # "out"
  BY <1>3, SwapFacts
<1>5. CASE MoveBegins(c)
  BY <1>1, <1>2, <1>4, <1>5 DEF MoveBegins, TreesOK
<1>6. CASE MoveCopies(c)
  <2>1. \/ disk' = [disk EXCEPT ![Live][moving] = disk[Staging(c)][moving]]
        \/ \E left : SwapFails(c, [disk EXCEPT ![Live][moving] = left])
    BY <1>1, <1>6 DEF MoveCopies
  <2> QED BY <1>4, <2>1 DEF TreesOK, SwapFails
<1>7. CASE MoveEnds(c)
  <2>1. \/ disk' = [disk EXCEPT ![Staging(c)][moving] = "none"]
        \/ SwapFails(c, [disk EXCEPT ![Staging(c)][moving] = "part"])
    BY <1>1, <1>7 DEF MoveEnds
  <2> QED BY <1>4, <2>1 DEF TreesOK, SwapFails
<1>8. CASE PhaseEnds(c)
  BY <1>4, <1>8 DEF PhaseEnds
<1> QED BY <1>5, <1>6, <1>7, <1>8

\* The world on its way out.
LEMMA OutInvStep ==
TreesOK /\ ControlOK /\ LifecycleLock /\ OutInv /\ [Next]_vars => OutInv'
<1> SUFFICES ASSUME TreesOK, ControlOK, LifecycleLock, OutInv, [Next]_vars
     PROVE OutInv'
  OBVIOUS
<1> USE DEF OutInv, vars, transaction, jobd, ticking, swap, history,
     Goto, BackupFrame, TickFrame, JobFrame, CommandFrame, RestoreFrame,
     SwapFrame, OperatorFrame
<1>a. Tick \in Actor /\ \A c \in Cmd : c \in Actor /\ c # Tick /\ c # Nobody
  BY Actors
<1>b. \A a \in Actor : a # Tick => a \in Cmd
  BY Actors
<1>c. \A a \in Actor : \A p :
        /\ [pc EXCEPT ![a] = p][a] = p
        /\ \A x \in Actor : x # a => [pc EXCEPT ![a] = p][x] = pc[x]
  BY DEF ControlOK
<1>d. /\ Swapped = {"out", "in", "start", "fails", "ready", "unverifiable", "clean", "ended"}
      /\ AnyKind = {"backup", "import", "delete", "restore"} /\ job \in AnyKind \cup {"none"}
      /\ worker \in Cmd \cup {Nobody}
  BY DEF Swapped, AnyKind, ControlOK
<1>e. \A c, k \in Cmd : pc[c] \in Holding /\ pc[k] \in Holding => c = k
  BY DEF LifecycleLock
<1>f. \A c \in Cmd : pc[c] = "out" => pc[c] \in Holding /\ life = c
  BY DEF LifecycleLock, Holding
<1>g. /\ Live \in Place /\ \A c \in Cmd : Staging(c) \in Place /\ Aside(c) \in Place
      /\ \A c \in Cmd : Staging(c) # Live /\ Aside(c) # Live
      /\ \A c, k \in Cmd : Aside(c) # Staging(k) /\ (c # k => Aside(c) # Aside(k))
  BY Places
<1>k. \A c \in Cmd :
        /\ disk'[Live] = disk[Live] /\ disk'[Aside(c)] = disk[Aside(c)] /\ prev' = prev
        /\ moving' = moving /\ copied' = copied
        => (MovesOut(c) => MovesOut(c)')
  BY DEF MovesOut
<1>1. ASSUME NEW a \in Actor, TarReads(a) PROVE OutInv'
  <2>1. disk' = disk /\ prev' = prev /\ moving' = moving /\ copied' = copied
    BY <1>1 DEF TarReads
  <2>2. \A k \in Cmd :
          /\ pc'[k] \notin Swapped => pc[k] \notin Swapped
          /\ pc'[k] = "out" => pc[k] = "out"
    BY <1>1, <1>a, <1>c, <1>d DEF TarReads
  <2>3. \A k \in Cmd : MovesOut(k) => MovesOut(k)'
    BY <2>1, <1>k
  <2>4. \A k \in Cmd : disk'[Aside(k)] = disk[Aside(k)]
    BY <2>1
  <2> QED BY <2>2, <2>3, <2>4
<1>2. ASSUME NEW a \in Actor, Archived(a) PROVE OutInv'
  <2>1. disk' = disk /\ prev' = prev /\ moving' = moving /\ copied' = copied
    BY <1>2 DEF Archived, After
  <2>2. \A k \in Cmd :
          /\ pc'[k] \notin Swapped => pc[k] \notin Swapped
          /\ pc'[k] = "out" => pc[k] = "out"
    BY <1>2, <1>a, <1>c, <1>d DEF Archived, After
  <2>3. \A k \in Cmd : MovesOut(k) => MovesOut(k)'
    BY <2>1, <1>k
  <2>4. \A k \in Cmd : disk'[Aside(k)] = disk[Aside(k)]
    BY <2>1
  <2> QED BY <2>2, <2>3, <2>4
<1>3. ASSUME NEW a \in Actor, BackupFails(a) PROVE OutInv'
  <2>1. disk' = disk /\ prev' = prev /\ moving' = moving /\ copied' = copied
    BY <1>3 DEF BackupFails, After
  <2>2. \A k \in Cmd :
          /\ pc'[k] \notin Swapped => pc[k] \notin Swapped
          /\ pc'[k] = "out" => pc[k] = "out"
    BY <1>3, <1>a, <1>c, <1>d DEF BackupFails, After
  <2>3. \A k \in Cmd : MovesOut(k) => MovesOut(k)'
    BY <2>1, <1>k
  <2>4. \A k \in Cmd : disk'[Aside(k)] = disk[Aside(k)]
    BY <2>1
  <2> QED BY <2>2, <2>3, <2>4
<1>4. ASSUME TickBegins PROVE OutInv'
  <2>1. disk' = disk /\ prev' = prev /\ moving' = moving /\ copied' = copied
    BY <1>4 DEF TickBegins, BackupBegins
  <2>2. \A k \in Cmd :
          /\ pc'[k] \notin Swapped => pc[k] \notin Swapped
          /\ pc'[k] = "out" => pc[k] = "out"
    BY <1>4, <1>a, <1>c, <1>d DEF TickBegins, BackupBegins
  <2>3. \A k \in Cmd : MovesOut(k) => MovesOut(k)'
    BY <2>1, <1>k
  <2>4. \A k \in Cmd : disk'[Aside(k)] = disk[Aside(k)]
    BY <2>1
  <2> QED BY <2>2, <2>3, <2>4
<1>5. ASSUME PruneBegins PROVE OutInv'
  <2>1. disk' = disk /\ prev' = prev /\ moving' = moving /\ copied' = copied
    BY <1>5 DEF PruneBegins
  <2>2. \A k \in Cmd :
          /\ pc'[k] \notin Swapped => pc[k] \notin Swapped
          /\ pc'[k] = "out" => pc[k] = "out"
    BY <1>5, <1>a, <1>c, <1>d DEF PruneBegins
  <2>3. \A k \in Cmd : MovesOut(k) => MovesOut(k)'
    BY <2>1, <1>k
  <2>4. \A k \in Cmd : disk'[Aside(k)] = disk[Aside(k)]
    BY <2>1
  <2> QED BY <2>2, <2>3, <2>4
<1>6. ASSUME PruneStep PROVE OutInv'
  <2>1. disk' = disk /\ prev' = prev /\ moving' = moving /\ copied' = copied
    BY <1>6 DEF PruneStep
  <2>2. \A k \in Cmd :
          /\ pc'[k] \notin Swapped => pc[k] \notin Swapped
          /\ pc'[k] = "out" => pc[k] = "out"
    BY <1>6, <1>a, <1>c, <1>d DEF PruneStep
  <2>3. \A k \in Cmd : MovesOut(k) => MovesOut(k)'
    BY <2>1, <1>k
  <2>4. \A k \in Cmd : disk'[Aside(k)] = disk[Aside(k)]
    BY <2>1
  <2> QED BY <2>2, <2>3, <2>4
<1>7. ASSUME TickEnds PROVE OutInv'
  <2>1. disk' = disk /\ prev' = prev /\ moving' = moving /\ copied' = copied
    BY <1>7 DEF TickEnds, TickLeaves
  <2>2. \A k \in Cmd :
          /\ pc'[k] \notin Swapped => pc[k] \notin Swapped
          /\ pc'[k] = "out" => pc[k] = "out"
    BY <1>7, <1>a, <1>c, <1>d DEF TickEnds, TickLeaves
  <2>3. \A k \in Cmd : MovesOut(k) => MovesOut(k)'
    BY <2>1, <1>k
  <2>4. \A k \in Cmd : disk'[Aside(k)] = disk[Aside(k)]
    BY <2>1
  <2> QED BY <2>2, <2>3, <2>4
<1>8. ASSUME TickDies PROVE OutInv'
  <2>1. disk' = disk /\ prev' = prev /\ moving' = moving /\ copied' = copied
    BY <1>8 DEF TickDies, TickLeaves
  <2>2. \A k \in Cmd :
          /\ pc'[k] \notin Swapped => pc[k] \notin Swapped
          /\ pc'[k] = "out" => pc[k] = "out"
    BY <1>8, <1>a, <1>c, <1>d DEF TickDies, TickLeaves
  <2>3. \A k \in Cmd : MovesOut(k) => MovesOut(k)'
    BY <2>1, <1>k
  <2>4. \A k \in Cmd : disk'[Aside(k)] = disk[Aside(k)]
    BY <2>1
  <2> QED BY <2>2, <2>3, <2>4
<1>9. ASSUME NEW c \in Cmd, JobBegins(c) PROVE OutInv'
  <2>1. disk' = disk /\ prev' = prev /\ moving' = moving /\ copied' = copied
    BY <1>9 DEF JobBegins
  <2>2. \A k \in Cmd :
          /\ pc'[k] \notin Swapped => pc[k] \notin Swapped
          /\ pc'[k] = "out" => pc[k] = "out"
    BY <1>9, <1>a, <1>c, <1>d DEF JobBegins
  <2>3. \A k \in Cmd : MovesOut(k) => MovesOut(k)'
    BY <2>1, <1>k
  <2>4. \A k \in Cmd : disk'[Aside(k)] = disk[Aside(k)]
    BY <2>1
  <2> QED BY <2>2, <2>3, <2>4
<1>10. ASSUME NEW c \in Cmd, Locked(c) PROVE OutInv'
  <2>1. disk' = disk /\ prev' = prev /\ moving' = moving /\ copied' = copied
    BY <1>10 DEF Locked
  <2>2. \A k \in Cmd :
          /\ pc'[k] \notin Swapped => pc[k] \notin Swapped
          /\ pc'[k] = "out" => pc[k] = "out"
    BY <1>10, <1>a, <1>c, <1>d DEF Locked
  <2>3. \A k \in Cmd : MovesOut(k) => MovesOut(k)'
    BY <2>1, <1>k
  <2>4. \A k \in Cmd : disk'[Aside(k)] = disk[Aside(k)]
    BY <2>1
  <2> QED BY <2>2, <2>3, <2>4
<1>11. ASSUME NEW c \in Cmd, JobEnds(c) PROVE OutInv'
  <2>1. disk' = disk /\ prev' = prev /\ moving' = moving /\ copied' = copied
    BY <1>11 DEF JobEnds
  <2>2. \A k \in Cmd :
          /\ pc'[k] \notin Swapped => pc[k] \notin Swapped
          /\ pc'[k] = "out" => pc[k] = "out"
    BY <1>11, <1>a, <1>c, <1>d DEF JobEnds
  <2>3. \A k \in Cmd : MovesOut(k) => MovesOut(k)'
    BY <2>1, <1>k
  <2>4. \A k \in Cmd : disk'[Aside(k)] = disk[Aside(k)]
    BY <2>1
  <2> QED BY <2>2, <2>3, <2>4
<1>12. ASSUME NEW c \in Cmd, ShellRuns(c) PROVE OutInv'
  <2>1. disk' = disk /\ prev' = prev /\ moving' = moving /\ copied' = copied
    BY <1>12 DEF ShellRuns
  <2>2. \A k \in Cmd :
          /\ pc'[k] \notin Swapped => pc[k] \notin Swapped
          /\ pc'[k] = "out" => pc[k] = "out"
    BY <1>12, <1>a, <1>c, <1>d DEF ShellRuns
  <2>3. \A k \in Cmd : MovesOut(k) => MovesOut(k)'
    BY <2>1, <1>k
  <2>4. \A k \in Cmd : disk'[Aside(k)] = disk[Aside(k)]
    BY <2>1
  <2> QED BY <2>2, <2>3, <2>4
<1>13. ASSUME NEW c \in Cmd, RunsBackup(c) PROVE OutInv'
  <2>1. disk' = disk /\ prev' = prev /\ moving' = moving /\ copied' = copied
    BY <1>13 DEF RunsBackup, BackupBegins
  <2>2. \A k \in Cmd :
          /\ pc'[k] \notin Swapped => pc[k] \notin Swapped
          /\ pc'[k] = "out" => pc[k] = "out"
    BY <1>13, <1>a, <1>c, <1>d DEF RunsBackup, BackupBegins
  <2>3. \A k \in Cmd : MovesOut(k) => MovesOut(k)'
    BY <2>1, <1>k
  <2>4. \A k \in Cmd : disk'[Aside(k)] = disk[Aside(k)]
    BY <2>1
  <2> QED BY <2>2, <2>3, <2>4
<1>14. ASSUME NEW c \in Cmd, RunsImport(c) PROVE OutInv'
  <2>1. disk' = disk /\ prev' = prev /\ moving' = moving /\ copied' = copied
    BY <1>14 DEF RunsImport
  <2>2. \A k \in Cmd :
          /\ pc'[k] \notin Swapped => pc[k] \notin Swapped
          /\ pc'[k] = "out" => pc[k] = "out"
    BY <1>14, <1>a, <1>c, <1>d DEF RunsImport
  <2>3. \A k \in Cmd : MovesOut(k) => MovesOut(k)'
    BY <2>1, <1>k
  <2>4. \A k \in Cmd : disk'[Aside(k)] = disk[Aside(k)]
    BY <2>1
  <2> QED BY <2>2, <2>3, <2>4
<1>15. ASSUME NEW c \in Cmd, RunsDelete(c) PROVE OutInv'
  <2>1. disk' = disk /\ prev' = prev /\ moving' = moving /\ copied' = copied
    BY <1>15 DEF RunsDelete
  <2>2. \A k \in Cmd :
          /\ pc'[k] \notin Swapped => pc[k] \notin Swapped
          /\ pc'[k] = "out" => pc[k] = "out"
    BY <1>15, <1>a, <1>c, <1>d DEF RunsDelete
  <2>3. \A k \in Cmd : MovesOut(k) => MovesOut(k)'
    BY <2>1, <1>k
  <2>4. \A k \in Cmd : disk'[Aside(k)] = disk[Aside(k)]
    BY <2>1
  <2> QED BY <2>2, <2>3, <2>4
<1>16. ASSUME NEW c \in Cmd, RunsRestore(c) PROVE OutInv'
  <2>1. disk' = disk /\ prev' = prev /\ moving' = moving /\ copied' = copied
    BY <1>16 DEF RunsRestore, BackupBegins
  <2>2. \A k \in Cmd :
          /\ pc'[k] \notin Swapped => pc[k] \notin Swapped
          /\ pc'[k] = "out" => pc[k] = "out"
    BY <1>16, <1>a, <1>c, <1>d DEF RunsRestore, BackupBegins
  <2>3. \A k \in Cmd : MovesOut(k) => MovesOut(k)'
    BY <2>1, <1>k
  <2>4. \A k \in Cmd : disk'[Aside(k)] = disk[Aside(k)]
    BY <2>1
  <2> QED BY <2>2, <2>3, <2>4
<1>17. ASSUME NEW c \in Cmd, Claims(c) PROVE OutInv'
  <2>1. disk' = disk /\ prev' = prev /\ moving' = moving /\ copied' = copied
    BY <1>17 DEF Claims
  <2>2. \A k \in Cmd :
          /\ pc'[k] \notin Swapped => pc[k] \notin Swapped
          /\ pc'[k] = "out" => pc[k] = "out"
    BY <1>17, <1>a, <1>c, <1>d DEF Claims
  <2>3. \A k \in Cmd : MovesOut(k) => MovesOut(k)'
    BY <2>1, <1>k
  <2>4. \A k \in Cmd : disk'[Aside(k)] = disk[Aside(k)]
    BY <2>1
  <2> QED BY <2>2, <2>3, <2>4
<1>18. ASSUME NEW c \in Cmd, Stages(c) PROVE OutInv'
  <2>1. pc[c] = "stop" /\ pc[c] \in Holding /\ life = c
    BY <1>18 DEF Stages, Holding, LifecycleLock
  <2>2. \A k \in Cmd : k # c => pc'[k] = pc[k] /\ pc[k] # "out"
    BY <1>18, <2>1, <1>a, <1>c, <1>e, <1>f DEF Stages
  <2>3. \A k \in Cmd : disk'[Aside(k)] = disk[Aside(k)]
    BY <1>18, <1>g DEF Stages, TreesOK
  <2>4. pc'[c] \in Swapped
    BY <1>18, <1>a, <1>c, <1>d DEF Stages
  <2>5. pc'[c] = "out" => MovesOut(c)'
    <3>1. disk[Aside(c)] = Nothing
      BY <2>1, <1>d
    <3>2. moving = "none" /\ ~copied
      BY <2>1 DEF LifecycleLock
    <3>3. CASE pc'[c] = "out"
      <4>1. disk'[Live] = disk[Live] /\ prev' = disk[Live] /\ moving' = "none" /\ ~copied'
        BY <1>18, <3>2, <3>3, <1>a, <1>c, <1>g DEF Stages, TreesOK
      <4> QED BY <2>3, <3>1, <4>1, Trees DEF MovesOut
    <3> QED BY <3>3
  <2> QED BY <2>2, <2>3, <2>4, <2>5
<1>19. ASSUME NEW c \in Cmd, MoveBegins(c) PROVE OutInv'
  <2>1. /\ pc[c] \in {"out", "in"} /\ pc[c] \in Holding
        /\ pc' = pc \/ \E p \in {"fails", "in", "start"} : pc' = [pc EXCEPT ![c] = p]
    BY <1>19, SwapFacts DEF Holding
  <2>2. \A k \in Cmd : k # c => pc'[k] = pc[k] /\ pc[k] # "out"
    BY <2>1, <1>a, <1>c, <1>e, <1>f
  <2>3. \A k \in Cmd : k # c => disk'[Aside(k)] = disk[Aside(k)]
    BY <1>19, <2>1, <1>g, OutMoves, InMoves
  <2>4. pc'[c] \in Swapped
    BY <2>1, <1>a, <1>c, <1>d
  <2>5. pc'[c] = "out" => MovesOut(c)'
    BY <1>19, <2>1, OutMoves, InMoves
  <2> QED BY <2>2, <2>3, <2>4, <2>5
<1>20. ASSUME NEW c \in Cmd, MoveCopies(c) PROVE OutInv'
  <2>1. /\ pc[c] \in {"out", "in"} /\ pc[c] \in Holding
        /\ pc' = pc \/ \E p \in {"fails", "in", "start"} : pc' = [pc EXCEPT ![c] = p]
    BY <1>20, SwapFacts DEF Holding
  <2>2. \A k \in Cmd : k # c => pc'[k] = pc[k] /\ pc[k] # "out"
    BY <2>1, <1>a, <1>c, <1>e, <1>f
  <2>3. \A k \in Cmd : k # c => disk'[Aside(k)] = disk[Aside(k)]
    BY <1>20, <2>1, <1>g, OutMoves, InMoves
  <2>4. pc'[c] \in Swapped
    BY <2>1, <1>a, <1>c, <1>d
  <2>5. pc'[c] = "out" => MovesOut(c)'
    BY <1>20, <2>1, OutMoves, InMoves
  <2> QED BY <2>2, <2>3, <2>4, <2>5
<1>21. ASSUME NEW c \in Cmd, MoveEnds(c) PROVE OutInv'
  <2>1. /\ pc[c] \in {"out", "in"} /\ pc[c] \in Holding
        /\ pc' = pc \/ \E p \in {"fails", "in", "start"} : pc' = [pc EXCEPT ![c] = p]
    BY <1>21, SwapFacts DEF Holding
  <2>2. \A k \in Cmd : k # c => pc'[k] = pc[k] /\ pc[k] # "out"
    BY <2>1, <1>a, <1>c, <1>e, <1>f
  <2>3. \A k \in Cmd : k # c => disk'[Aside(k)] = disk[Aside(k)]
    BY <1>21, <2>1, <1>g, OutMoves, InMoves
  <2>4. pc'[c] \in Swapped
    BY <2>1, <1>a, <1>c, <1>d
  <2>5. pc'[c] = "out" => MovesOut(c)'
    BY <1>21, <2>1, OutMoves, InMoves
  <2> QED BY <2>2, <2>3, <2>4, <2>5
<1>22. ASSUME NEW c \in Cmd, PhaseEnds(c) PROVE OutInv'
  <2>1. /\ pc[c] \in {"out", "in"} /\ pc[c] \in Holding
        /\ pc' = pc \/ \E p \in {"fails", "in", "start"} : pc' = [pc EXCEPT ![c] = p]
    BY <1>22, SwapFacts DEF Holding
  <2>2. \A k \in Cmd : k # c => pc'[k] = pc[k] /\ pc[k] # "out"
    BY <2>1, <1>a, <1>c, <1>e, <1>f
  <2>3. \A k \in Cmd : k # c => disk'[Aside(k)] = disk[Aside(k)]
    BY <1>22, <2>1, <1>g, OutMoves, InMoves
  <2>4. pc'[c] \in Swapped
    BY <2>1, <1>a, <1>c, <1>d
  <2>5. pc'[c] = "out" => MovesOut(c)'
    BY <1>22, <2>1, OutMoves, InMoves
  <2> QED BY <2>2, <2>3, <2>4, <2>5
<1>23. ASSUME NEW c \in Cmd, Starts(c) PROVE OutInv'
  <2>1. /\ pc[c] = "start" /\ pc[c] \in Holding /\ disk' = disk
        /\ \E p \in {"ready", "unverifiable", "fails"} : pc' = [pc EXCEPT ![c] = p]
    BY <1>23 DEF Starts, Holding
  <2>2. \A k \in Cmd : pc'[k] # "out"
    BY <2>1, <1>a, <1>c, <1>e, <1>f
  <2>3. \A k \in Cmd : pc'[k] \notin Swapped => pc[k] \notin Swapped
    BY <2>1, <1>a, <1>c, <1>d
  <2> QED BY <2>1, <2>2, <2>3
<1>24. ASSUME NEW c \in Cmd, Completes(c) PROVE OutInv'
  <2>1. prev' = prev /\ moving' = moving /\ copied' = copied
    BY <1>24 DEF Completes
  <2>5. disk'[Live] = disk[Live] /\ \A k \in Cmd : disk'[Aside(k)] = disk[Aside(k)]
    BY <1>24, Places, OnlyStaging DEF Completes, TreesOK
  <2>2. \A k \in Cmd :
          /\ pc'[k] \notin Swapped => pc[k] \notin Swapped
          /\ pc'[k] = "out" => pc[k] = "out"
    BY <1>24, <1>a, <1>c, <1>d DEF Completes
  <2>3. \A k \in Cmd : MovesOut(k) => MovesOut(k)'
    BY <2>1, <2>5, <1>k
  <2> QED BY <2>2, <2>3, <2>5
<1>25. ASSUME NEW c \in Cmd, Cleans(c) PROVE OutInv'
  <2>1. pc[c] = "clean" /\ pc' = [pc EXCEPT ![c] = "ended"]
    BY <1>25 DEF Cleans
  <2>2. /\ disk'[Live] = disk[Live]
        /\ \A k \in Cmd : k # c => disk'[Aside(k)] = disk[Aside(k)]
    BY <1>25, <1>g DEF Cleans, Replaced
  <2>3. prev' = prev /\ moving' = moving /\ copied' = copied
    BY <1>25 DEF Cleans
  <2>4. \A k \in Cmd : k # c => pc'[k] = pc[k]
    BY <2>1, <1>a, <1>c
  <2>5. pc'[c] \in Swapped /\ pc'[c] # "out"
    BY <2>1, <1>a, <1>c, <1>d
  <2> QED BY <2>2, <2>3, <2>4, <2>5, <1>k
<1>26. ASSUME NEW c \in Cmd, CommandDies(c) PROVE OutInv'
  <2>1. pc' = [pc EXCEPT ![c] = "ended"] /\ prev' = prev
    BY <1>26 DEF CommandDies
  <2>2. pc'[c] \in Swapped /\ pc'[c] # "out" /\ \A k \in Cmd : k # c => pc'[k] = pc[k]
    BY <2>1, <1>a, <1>c, <1>d
  <2>3. CASE Swapping(c)
    <3>1. \A k \in Cmd : k # c => pc[k] # "out"
      BY <2>3, <1>e, <1>f DEF Swapping, Holding
    <3>2. From(c) \in {Live, Staging(c)}
      BY <2>3, FromTo DEF Swapping
    <3>3. \A k \in Cmd : disk'[Aside(k)] = disk[Aside(k)]
      <4>1. PICK d : /\ d = disk \/ (copied /\ d = [disk EXCEPT ![From(c)][moving] = "part"])
                     /\ disk' = Forgotten(d, c)
        BY <1>26 DEF CommandDies
      <4>2. \A k \in Cmd : Aside(k) \in Place /\ Aside(k) # From(c) /\ Aside(k) # Staging(c)
        BY <3>2, <1>g, Places
      <4>3. copied => moving \in Entry
        BY DEF LifecycleLock, ControlOK
      <4>4. d \in [Place -> Tree] /\ \A k \in Cmd : d[Aside(k)] = disk[Aside(k)]
        <5>1. CASE d = disk
          BY <5>1 DEF TreesOK
        <5>2. CASE copied /\ d = [disk EXCEPT ![From(c)][moving] = "part"]
          <6>1. "part" \in Content /\ From(c) \in Place
            BY FromTo DEF Content
          <6> QED BY <5>2, <6>1, <4>2, <4>3, Changed DEF TreesOK
        <5> QED BY <4>1, <5>1, <5>2
      <4> QED BY <4>1, <4>2, <4>4, OnlyStaging
    <3> QED BY <2>2, <3>1, <3>3
  <2>4. CASE ~Swapping(c)
    <3>1. moving' = moving /\ copied' = copied /\ disk' = Forgotten(disk, c)
      BY <1>26, <2>4 DEF CommandDies
    <3>2. disk'[Live] = disk[Live] /\ \A k \in Cmd : disk'[Aside(k)] = disk[Aside(k)]
      BY <3>1, Places, OnlyStaging DEF TreesOK
    <3> QED BY <2>1, <2>2, <3>1, <3>2, <1>k
  <2> QED BY <2>3, <2>4
<1>27. ASSUME JobdDies PROVE OutInv'
  <2>1. disk' = disk /\ prev' = prev /\ moving' = moving /\ copied' = copied
    BY <1>27 DEF JobdDies
  <2>2. \A k \in Cmd :
          /\ pc'[k] \notin Swapped => pc[k] \notin Swapped
          /\ pc'[k] = "out" => pc[k] = "out"
    BY <1>27, <1>a, <1>c, <1>d DEF JobdDies
  <2>3. \A k \in Cmd : MovesOut(k) => MovesOut(k)'
    BY <2>1, <1>k
  <2>4. \A k \in Cmd : disk'[Aside(k)] = disk[Aside(k)]
    BY <2>1
  <2> QED BY <2>2, <2>3, <2>4
<1>28. ASSUME Reap PROVE OutInv'
  <2>1. disk' = disk /\ prev' = prev /\ moving' = moving /\ copied' = copied
    BY <1>28 DEF Reap
  <2>2. \A k \in Cmd :
          /\ pc'[k] \notin Swapped => pc[k] \notin Swapped
          /\ pc'[k] = "out" => pc[k] = "out"
    BY <1>28, <1>a, <1>c, <1>d DEF Reap
  <2>3. \A k \in Cmd : MovesOut(k) => MovesOut(k)'
    BY <2>1, <1>k
  <2>4. \A k \in Cmd : disk'[Aside(k)] = disk[Aside(k)]
    BY <2>1
  <2> QED BY <2>2, <2>3, <2>4
<1>29. ASSUME MoveBack PROVE OutInv'
  <2>1. life = Nobody /\ pc' = pc
    BY <1>29 DEF MoveBack
  <2>2. \A k \in Cmd : pc'[k] # "out" /\ disk'[Aside(k)] = Nothing
    BY <1>29, <2>1, <1>a, <1>f, <1>g DEF MoveBack, Only
  <2> QED BY <2>2
<1>30. ASSUME Acknowledge PROVE OutInv'
  <2>1. life = Nobody /\ pc' = pc
    BY <1>30 DEF Acknowledge
  <2>2. \A k \in Cmd : pc'[k] # "out" /\ disk'[Aside(k)] = Nothing
    BY <1>30, <2>1, <1>a, <1>f, <1>g DEF Acknowledge, Only
  <2> QED BY <2>2
<1>31. ASSUME Ages PROVE OutInv'
  <2>1. disk' = disk /\ prev' = prev /\ moving' = moving /\ copied' = copied
    BY <1>31 DEF Ages
  <2>2. \A k \in Cmd :
          /\ pc'[k] \notin Swapped => pc[k] \notin Swapped
          /\ pc'[k] = "out" => pc[k] = "out"
    BY <1>31, <1>a, <1>c, <1>d DEF Ages
  <2>3. \A k \in Cmd : MovesOut(k) => MovesOut(k)'
    BY <2>1, <1>k
  <2>4. \A k \in Cmd : disk'[Aside(k)] = disk[Aside(k)]
    BY <2>1
  <2> QED BY <2>2, <2>3, <2>4
<1>32. CASE UNCHANGED vars
  <2> QED BY <1>32, <1>k
<1> QED BY <1>1, <1>2, <1>3, <1>4, <1>5, <1>6, <1>7, <1>8, <1>9, <1>10, <1>11,
     <1>12, <1>13, <1>14, <1>15, <1>16, <1>17, <1>18, <1>19, <1>20, <1>21,
     <1>22, <1>23, <1>24, <1>25, <1>26, <1>27, <1>28, <1>29, <1>30, <1>31,
     <1>32 DEF Next, BackupStep, TickStep, JobStep, CommandStep, RestoreStep

\* The previous world.
LEMMA PrevInvStep ==
TreesOK /\ ControlOK /\ LifecycleLock /\ OutInv /\ PrevInv /\ [Next]_vars =>
     PrevInv'
<1> SUFFICES ASSUME TreesOK, ControlOK, LifecycleLock, OutInv, PrevInv,
     [Next]_vars PROVE PrevInv'
  OBVIOUS
<1> USE DEF PrevInv, vars, transaction, jobd, ticking, swap, history,
     Goto, BackupFrame, TickFrame, JobFrame, CommandFrame, RestoreFrame,
     SwapFrame, OperatorFrame
<1>a. Tick \in Actor /\ \A c \in Cmd : c \in Actor /\ c # Tick /\ c # Nobody
  BY Actors
<1>b. \A a \in Actor : a # Tick => a \in Cmd
  BY Actors
<1>c. \A a \in Actor : \A p :
        /\ [pc EXCEPT ![a] = p][a] = p
        /\ \A x \in Actor : x # a => [pc EXCEPT ![a] = p][x] = pc[x]
  BY DEF ControlOK
<1>d. /\ AnyKind = {"backup", "import", "delete", "restore"} /\ job \in AnyKind \cup {"none"}
      /\ worker \in Cmd \cup {Nobody}
  BY DEF AnyKind, ControlOK
<1>e. \A c, k \in Cmd : pc[c] \in Holding /\ pc[k] \in Holding => c = k
  BY DEF LifecycleLock
<1>f. Holding = {"stop", "out", "in", "start", "fails", "ready", "unverifiable"}
  BY DEF Holding
<1>g. /\ Live \in Place /\ \A c \in Cmd : Staging(c) \in Place /\ Aside(c) \in Place
      /\ \A c \in Cmd : Staging(c) # Live /\ Aside(c) # Live
      /\ \A c, k \in Cmd : Aside(c) # Staging(k) /\ (c # k => Aside(c) # Aside(k))
  BY Places
<1>h. \A e \in Entry : Nothing[e] = "none"
  BY Trees
<1>j. ASSUME prev' = prev,
             \A k \in Cmd : pc[k] \notin {"ready", "clean"} =>
               pc'[k] \notin {"ready", "clean"} /\ disk'[Aside(k)] = disk[Aside(k)],
             NEW e \in Entry, SetAside(e)
      PROVE  SetAside(e)'
  BY <1>j DEF SetAside
<1>k. ASSUME prev' = prev, disk'[Live] = disk[Live],
             \A k \in Cmd :
               /\ disk'[Aside(k)] = disk[Aside(k)]
               /\ pc[k] \notin {"ready", "clean"} => pc'[k] \notin {"ready", "clean"}
               /\ pc'[k] = "in" => pc[k] = "in"
      PROVE  PrevInv'
  <2>1. \A e \in Entry : SetAside(e) => SetAside(e)'
    BY <1>j, <1>k
  <2> QED BY <1>k, <2>1
<1>l. ASSUME prev' = Nothing PROVE PrevInv'
  BY <1>h, <1>l
<1>1. ASSUME NEW a \in Actor, TarReads(a) PROVE PrevInv'
  <2>1. disk' = disk /\ prev' = prev
    BY <1>1 DEF TarReads
  <2>2. \A k \in Cmd :
          /\ pc[k] \notin {"ready", "clean"} => pc'[k] \notin {"ready", "clean"}
          /\ pc'[k] = "in" => pc[k] = "in"
    BY <1>1, <1>a, <1>c, <1>d DEF TarReads
  <2> QED BY <2>1, <2>2, <1>k
<1>2. ASSUME NEW a \in Actor, Archived(a) PROVE PrevInv'
  <2>1. disk' = disk /\ prev' = prev
    BY <1>2 DEF Archived, After
  <2>2. \A k \in Cmd :
          /\ pc[k] \notin {"ready", "clean"} => pc'[k] \notin {"ready", "clean"}
          /\ pc'[k] = "in" => pc[k] = "in"
    BY <1>2, <1>a, <1>c, <1>d DEF Archived, After
  <2> QED BY <2>1, <2>2, <1>k
<1>3. ASSUME NEW a \in Actor, BackupFails(a) PROVE PrevInv'
  <2>1. disk' = disk /\ prev' = prev
    BY <1>3 DEF BackupFails, After
  <2>2. \A k \in Cmd :
          /\ pc[k] \notin {"ready", "clean"} => pc'[k] \notin {"ready", "clean"}
          /\ pc'[k] = "in" => pc[k] = "in"
    BY <1>3, <1>a, <1>c, <1>d DEF BackupFails, After
  <2> QED BY <2>1, <2>2, <1>k
<1>4. ASSUME TickBegins PROVE PrevInv'
  <2>1. disk' = disk /\ prev' = prev
    BY <1>4 DEF TickBegins, BackupBegins
  <2>2. \E p \in {"tar", "prune"} : pc' = [pc EXCEPT ![Tick] = p]
    BY <1>4 DEF TickBegins, BackupBegins
  <2>3. \A k \in Cmd : pc'[k] = pc[k]
    BY <2>2, <1>a, <1>c
  <2> QED BY <2>1, <2>3, <1>k
<1>5. ASSUME PruneBegins PROVE PrevInv'
  <2>1. disk' = disk /\ prev' = prev
    BY <1>5 DEF PruneBegins
  <2>2. \A k \in Cmd :
          /\ pc[k] \notin {"ready", "clean"} => pc'[k] \notin {"ready", "clean"}
          /\ pc'[k] = "in" => pc[k] = "in"
    BY <1>5, <1>a, <1>c, <1>d DEF PruneBegins
  <2> QED BY <2>1, <2>2, <1>k
<1>6. ASSUME PruneStep PROVE PrevInv'
  <2>1. disk' = disk /\ prev' = prev
    BY <1>6 DEF PruneStep
  <2>2. \A k \in Cmd :
          /\ pc[k] \notin {"ready", "clean"} => pc'[k] \notin {"ready", "clean"}
          /\ pc'[k] = "in" => pc[k] = "in"
    BY <1>6, <1>a, <1>c, <1>d DEF PruneStep
  <2> QED BY <2>1, <2>2, <1>k
<1>7. ASSUME TickEnds PROVE PrevInv'
  <2>1. disk' = disk /\ prev' = prev
    BY <1>7 DEF TickEnds, TickLeaves
  <2>2. \A k \in Cmd :
          /\ pc[k] \notin {"ready", "clean"} => pc'[k] \notin {"ready", "clean"}
          /\ pc'[k] = "in" => pc[k] = "in"
    BY <1>7, <1>a, <1>c, <1>d DEF TickEnds, TickLeaves
  <2> QED BY <2>1, <2>2, <1>k
<1>8. ASSUME TickDies PROVE PrevInv'
  <2>1. disk' = disk /\ prev' = prev
    BY <1>8 DEF TickDies, TickLeaves
  <2>2. \A k \in Cmd :
          /\ pc[k] \notin {"ready", "clean"} => pc'[k] \notin {"ready", "clean"}
          /\ pc'[k] = "in" => pc[k] = "in"
    BY <1>8, <1>a, <1>c, <1>d DEF TickDies, TickLeaves
  <2> QED BY <2>1, <2>2, <1>k
<1>9. ASSUME NEW c \in Cmd, JobBegins(c) PROVE PrevInv'
  <2>1. disk' = disk /\ prev' = prev
    BY <1>9 DEF JobBegins
  <2>2. \A k \in Cmd :
          /\ pc[k] \notin {"ready", "clean"} => pc'[k] \notin {"ready", "clean"}
          /\ pc'[k] = "in" => pc[k] = "in"
    BY <1>9, <1>a, <1>c, <1>d DEF JobBegins
  <2> QED BY <2>1, <2>2, <1>k
<1>10. ASSUME NEW c \in Cmd, Locked(c) PROVE PrevInv'
  <2>1. disk' = disk /\ prev' = prev
    BY <1>10 DEF Locked
  <2>2. \A k \in Cmd :
          /\ pc[k] \notin {"ready", "clean"} => pc'[k] \notin {"ready", "clean"}
          /\ pc'[k] = "in" => pc[k] = "in"
    BY <1>10, <1>a, <1>c, <1>d DEF Locked
  <2> QED BY <2>1, <2>2, <1>k
<1>11. ASSUME NEW c \in Cmd, JobEnds(c) PROVE PrevInv'
  <2>1. disk' = disk /\ prev' = prev
    BY <1>11 DEF JobEnds
  <2>2. \A k \in Cmd :
          /\ pc[k] \notin {"ready", "clean"} => pc'[k] \notin {"ready", "clean"}
          /\ pc'[k] = "in" => pc[k] = "in"
    BY <1>11, <1>a, <1>c, <1>d DEF JobEnds
  <2> QED BY <2>1, <2>2, <1>k
<1>12. ASSUME NEW c \in Cmd, ShellRuns(c) PROVE PrevInv'
  <2>1. disk' = disk /\ prev' = prev
    BY <1>12 DEF ShellRuns
  <2>2. \A k \in Cmd :
          /\ pc[k] \notin {"ready", "clean"} => pc'[k] \notin {"ready", "clean"}
          /\ pc'[k] = "in" => pc[k] = "in"
    BY <1>12, <1>a, <1>c, <1>d DEF ShellRuns
  <2> QED BY <2>1, <2>2, <1>k
<1>13. ASSUME NEW c \in Cmd, RunsBackup(c) PROVE PrevInv'
  <2>1. disk' = disk /\ prev' = prev
    BY <1>13 DEF RunsBackup, BackupBegins
  <2>2. \A k \in Cmd :
          /\ pc[k] \notin {"ready", "clean"} => pc'[k] \notin {"ready", "clean"}
          /\ pc'[k] = "in" => pc[k] = "in"
    BY <1>13, <1>a, <1>c, <1>d DEF RunsBackup, BackupBegins
  <2> QED BY <2>1, <2>2, <1>k
<1>14. ASSUME NEW c \in Cmd, RunsImport(c) PROVE PrevInv'
  <2>1. disk' = disk /\ prev' = prev
    BY <1>14 DEF RunsImport
  <2>2. \A k \in Cmd :
          /\ pc[k] \notin {"ready", "clean"} => pc'[k] \notin {"ready", "clean"}
          /\ pc'[k] = "in" => pc[k] = "in"
    BY <1>14, <1>a, <1>c, <1>d DEF RunsImport
  <2> QED BY <2>1, <2>2, <1>k
<1>15. ASSUME NEW c \in Cmd, RunsDelete(c) PROVE PrevInv'
  <2>1. disk' = disk /\ prev' = prev
    BY <1>15 DEF RunsDelete
  <2>2. \A k \in Cmd :
          /\ pc[k] \notin {"ready", "clean"} => pc'[k] \notin {"ready", "clean"}
          /\ pc'[k] = "in" => pc[k] = "in"
    BY <1>15, <1>a, <1>c, <1>d DEF RunsDelete
  <2> QED BY <2>1, <2>2, <1>k
<1>16. ASSUME NEW c \in Cmd, RunsRestore(c) PROVE PrevInv'
  <2>1. disk' = disk /\ prev' = prev
    BY <1>16 DEF RunsRestore, BackupBegins
  <2>2. \A k \in Cmd :
          /\ pc[k] \notin {"ready", "clean"} => pc'[k] \notin {"ready", "clean"}
          /\ pc'[k] = "in" => pc[k] = "in"
    BY <1>16, <1>a, <1>c, <1>d DEF RunsRestore, BackupBegins
  <2> QED BY <2>1, <2>2, <1>k
<1>17. ASSUME NEW c \in Cmd, Claims(c) PROVE PrevInv'
  <2>1. disk' = disk /\ prev' = prev
    BY <1>17 DEF Claims
  <2>2. \A k \in Cmd :
          /\ pc[k] \notin {"ready", "clean"} => pc'[k] \notin {"ready", "clean"}
          /\ pc'[k] = "in" => pc[k] = "in"
    BY <1>17, <1>a, <1>c, <1>d DEF Claims
  <2> QED BY <2>1, <2>2, <1>k
<1>18. ASSUME NEW c \in Cmd, Stages(c) PROVE PrevInv'
  <2>1. pc[c] = "stop" /\ pc'[c] \in {"out", "fails"} /\ \A k \in Cmd : k # c => pc'[k] = pc[k]
    BY <1>18, <1>a, <1>c DEF Stages
  <2>2. \A k \in Cmd : pc'[k] # "in"
    BY <2>1, <1>e, <1>f
  <2>3. disk'[Live] = disk[Live]
    BY <1>18, <1>g DEF Stages, TreesOK
  <2>4. CASE prev' = disk[Live]
    BY <2>2, <2>3, <2>4
  <2>5. CASE disk' = disk /\ prev' = prev
    BY <2>1, <2>2, <2>5, <1>k
  <2> QED BY <1>18, <2>4, <2>5 DEF Stages
<1>19. ASSUME NEW c \in Cmd, MoveBegins(c) PROVE PrevInv'
  <2>1. /\ pc[c] \in {"out", "in"} /\ prev' = prev
        /\ pc' = pc \/ \E p \in {"fails", "in", "start"} : pc' = [pc EXCEPT ![c] = p]
    BY <1>19, SwapFacts
  <2>2. /\ pc'[c] \notin {"ready", "clean"}
        /\ \A k \in Cmd : k # c => pc'[k] = pc[k] /\ pc'[k] # "in"
    BY <2>1, <1>a, <1>c, <1>e, <1>f
  <2>3. CASE pc[c] = "out"
    <3>1. /\ \A e \in Entry : prev[e] \in {disk'[Live][e], disk'[Aside(c)][e]}
          /\ pc'[c] = "in" => disk'[Live] = Nothing
      BY <1>19, <2>3, OutMoves
    <3>2. \A e \in Entry : prev[e] = disk'[Aside(c)][e] => SetAside(e)'
      BY <2>1, <2>2 DEF SetAside
    <3> QED BY <2>1, <2>2, <3>1, <3>2, <1>h
  <2>4. CASE pc[c] = "in"
    <3>1. \A k \in Cmd : disk'[Aside(k)] = disk[Aside(k)]
      BY <1>19, <2>4, <1>g, InMoves
    <3>2. \A e \in Entry : SetAside(e) => SetAside(e)'
      BY <2>1, <2>2, <3>1, <1>j
    <3> QED BY <2>1, <2>2, <2>4, <3>2
  <2> QED BY <2>1, <2>3, <2>4
<1>20. ASSUME NEW c \in Cmd, MoveCopies(c) PROVE PrevInv'
  <2>1. /\ pc[c] \in {"out", "in"} /\ prev' = prev
        /\ pc' = pc \/ \E p \in {"fails", "in", "start"} : pc' = [pc EXCEPT ![c] = p]
    BY <1>20, SwapFacts
  <2>2. /\ pc'[c] \notin {"ready", "clean"}
        /\ \A k \in Cmd : k # c => pc'[k] = pc[k] /\ pc'[k] # "in"
    BY <2>1, <1>a, <1>c, <1>e, <1>f
  <2>3. CASE pc[c] = "out"
    <3>1. /\ \A e \in Entry : prev[e] \in {disk'[Live][e], disk'[Aside(c)][e]}
          /\ pc'[c] = "in" => disk'[Live] = Nothing
      BY <1>20, <2>3, OutMoves
    <3>2. \A e \in Entry : prev[e] = disk'[Aside(c)][e] => SetAside(e)'
      BY <2>1, <2>2 DEF SetAside
    <3> QED BY <2>1, <2>2, <3>1, <3>2, <1>h
  <2>4. CASE pc[c] = "in"
    <3>1. \A k \in Cmd : disk'[Aside(k)] = disk[Aside(k)]
      BY <1>20, <2>4, <1>g, InMoves
    <3>2. \A e \in Entry : SetAside(e) => SetAside(e)'
      BY <2>1, <2>2, <3>1, <1>j
    <3> QED BY <2>1, <2>2, <2>4, <3>2
  <2> QED BY <2>1, <2>3, <2>4
<1>21. ASSUME NEW c \in Cmd, MoveEnds(c) PROVE PrevInv'
  <2>1. /\ pc[c] \in {"out", "in"} /\ prev' = prev
        /\ pc' = pc \/ \E p \in {"fails", "in", "start"} : pc' = [pc EXCEPT ![c] = p]
    BY <1>21, SwapFacts
  <2>2. /\ pc'[c] \notin {"ready", "clean"}
        /\ \A k \in Cmd : k # c => pc'[k] = pc[k] /\ pc'[k] # "in"
    BY <2>1, <1>a, <1>c, <1>e, <1>f
  <2>3. CASE pc[c] = "out"
    <3>1. /\ \A e \in Entry : prev[e] \in {disk'[Live][e], disk'[Aside(c)][e]}
          /\ pc'[c] = "in" => disk'[Live] = Nothing
      BY <1>21, <2>3, OutMoves
    <3>2. \A e \in Entry : prev[e] = disk'[Aside(c)][e] => SetAside(e)'
      BY <2>1, <2>2 DEF SetAside
    <3> QED BY <2>1, <2>2, <3>1, <3>2, <1>h
  <2>4. CASE pc[c] = "in"
    <3>1. \A k \in Cmd : disk'[Aside(k)] = disk[Aside(k)]
      BY <1>21, <2>4, <1>g, InMoves
    <3>2. \A e \in Entry : SetAside(e) => SetAside(e)'
      BY <2>1, <2>2, <3>1, <1>j
    <3> QED BY <2>1, <2>2, <2>4, <3>2
  <2> QED BY <2>1, <2>3, <2>4
<1>22. ASSUME NEW c \in Cmd, PhaseEnds(c) PROVE PrevInv'
  <2>1. /\ pc[c] \in {"out", "in"} /\ prev' = prev
        /\ pc' = pc \/ \E p \in {"fails", "in", "start"} : pc' = [pc EXCEPT ![c] = p]
    BY <1>22, SwapFacts
  <2>2. /\ pc'[c] \notin {"ready", "clean"}
        /\ \A k \in Cmd : k # c => pc'[k] = pc[k] /\ pc'[k] # "in"
    BY <2>1, <1>a, <1>c, <1>e, <1>f
  <2>3. CASE pc[c] = "out"
    <3>1. /\ \A e \in Entry : prev[e] \in {disk'[Live][e], disk'[Aside(c)][e]}
          /\ pc'[c] = "in" => disk'[Live] = Nothing
      BY <1>22, <2>3, OutMoves
    <3>2. \A e \in Entry : prev[e] = disk'[Aside(c)][e] => SetAside(e)'
      BY <2>1, <2>2 DEF SetAside
    <3> QED BY <2>1, <2>2, <3>1, <3>2, <1>h
  <2>4. CASE pc[c] = "in"
    <3>1. \A k \in Cmd : disk'[Aside(k)] = disk[Aside(k)]
      BY <1>22, <2>4, <1>g, InMoves
    <3>2. \A e \in Entry : SetAside(e) => SetAside(e)'
      BY <2>1, <2>2, <3>1, <1>j
    <3> QED BY <2>1, <2>2, <2>4, <3>2
  <2> QED BY <2>1, <2>3, <2>4
<1>23. ASSUME NEW c \in Cmd, Starts(c) PROVE PrevInv'
  <2>1. CASE prev' = Nothing
    BY <2>1, <1>l
  <2>2. CASE disk' = disk /\ prev' = prev /\ \E p \in {"unverifiable", "fails"} : pc' = [pc EXCEPT ![c] = p]
    <3>1. \A k \in Cmd :
            /\ pc[k] \notin {"ready", "clean"} => pc'[k] \notin {"ready", "clean"}
            /\ pc'[k] = "in" => pc[k] = "in"
      BY <2>2, <1>a, <1>c
    <3> QED BY <2>2, <3>1, <1>k
  <2> QED BY <1>23, <2>1, <2>2 DEF Starts
<1>24. ASSUME NEW c \in Cmd, Completes(c) PROVE PrevInv'
  <2>1. prev' = prev
    BY <1>24 DEF Completes
  <2>3. disk'[Live] = disk[Live] /\ \A k \in Cmd : disk'[Aside(k)] = disk[Aside(k)]
    BY <1>24, Places, OnlyStaging DEF Completes, TreesOK
  <2>2. \A k \in Cmd :
          /\ pc[k] \notin {"ready", "clean"} => pc'[k] \notin {"ready", "clean"}
          /\ pc'[k] = "in" => pc[k] = "in"
    BY <1>24, <1>a, <1>c, <1>d DEF Completes
  <2> QED BY <2>1, <2>2, <2>3, <1>k
<1>25. ASSUME NEW c \in Cmd, Cleans(c) PROVE PrevInv'
  <2>1. pc[c] = "clean" /\ pc' = [pc EXCEPT ![c] = "ended"] /\ prev' = prev
    BY <1>25 DEF Cleans
  <2>2. /\ disk'[Live] = disk[Live]
        /\ \A k \in Cmd : k # c => disk'[Aside(k)] = disk[Aside(k)]
    BY <1>25, <1>g DEF Cleans, Replaced
  <2>3. pc'[c] = "ended" /\ \A k \in Cmd : k # c => pc'[k] = pc[k]
    BY <2>1, <1>a, <1>c
  <2>4. \A e \in Entry : SetAside(e) => SetAside(e)'
    BY <2>1, <2>2, <2>3, <1>j
  <2> QED BY <2>1, <2>2, <2>3, <2>4
<1>26. ASSUME NEW c \in Cmd, CommandDies(c) PROVE PrevInv'
  <2>1. pc' = [pc EXCEPT ![c] = "ended"] /\ prev' = prev
    BY <1>26 DEF CommandDies
  <2>2. pc'[c] = "ended" /\ \A k \in Cmd : k # c => pc'[k] = pc[k]
    BY <2>1, <1>a, <1>c
  <2>3. CASE pc[c] \in {"out", "in"}
    <3>1. \A k \in Cmd : pc'[k] # "in"
      BY <2>2, <2>3, <1>e, <1>f
    <3>2. From(c) \in {Live, Staging(c)}
      BY <2>3, FromTo
    <3>3. PICK d : /\ d = disk \/ (copied /\ d = [disk EXCEPT ![From(c)][moving] = "part"])
                   /\ disk' = Forgotten(d, c)
      BY <1>26 DEF CommandDies
    <3>9. d \in [Place -> Tree] /\ \A k \in Cmd : d[Aside(k)] = disk[Aside(k)]
      <4>1. \A k \in Cmd : Aside(k) \in Place /\ Aside(k) # From(c)
        BY <3>2, <1>g
      <4>2. copied => moving \in Entry
        BY DEF LifecycleLock, ControlOK
      <4>3. CASE d = disk
        BY <4>3 DEF TreesOK
      <4>4. CASE copied /\ d = [disk EXCEPT ![From(c)][moving] = "part"]
        <5>1. "part" \in Content /\ From(c) \in Place
          BY FromTo DEF Content
        <5> QED BY <4>1, <4>2, <4>4, <5>1, Changed DEF TreesOK
      <4> QED BY <3>3, <4>3, <4>4
    <3>10. disk'[Live] = d[Live] /\ \A k \in Cmd : disk'[Aside(k)] = d[Aside(k)]
      BY <3>3, <3>9, Places, OnlyStaging
    <3>4. \A k \in Cmd : disk'[Aside(k)] = disk[Aside(k)]
      BY <3>9, <3>10
    <3>5. \A e \in Entry : SetAside(e) => SetAside(e)'
      BY <2>1, <2>2, <3>4, <1>j
    <3>6. CASE d = disk
      BY <2>1, <3>1, <3>5, <3>6, <3>10
    <3>7. CASE pc[c] = "in"
      BY <2>1, <3>1, <3>5, <3>7
    <3>8. CASE pc[c] = "out" /\ copied /\ d = [disk EXCEPT ![From(c)][moving] = "part"]
      <4>1. From(c) = Live /\ moving \in Entry /\ MovesOut(c)
        BY <3>8, FromTo DEF LifecycleLock, ControlOK, OutInv
      <4>2. \A e \in Entry : e # moving => disk'[Live][e] = disk[Live][e]
        BY <3>8, <3>10, <4>1, <1>g DEF TreesOK, Tree
      <4>3. disk[Aside(c)][moving] = prev[moving]
        BY <3>8, <4>1 DEF MovesOut, LifecycleLock
      <4>4. \A e \in Entry : prev[e] \in {disk'[Live][e], disk'[Aside(c)][e]}
        BY <3>4, <4>1, <4>2, <4>3 DEF MovesOut
      <4>5. \A e \in Entry : prev[e] = disk'[Aside(c)][e] => SetAside(e)'
        BY <2>1, <2>2 DEF SetAside
      <4> QED BY <2>1, <3>1, <4>4, <4>5
    <3> QED BY <2>3, <3>3, <3>6, <3>7, <3>8
  <2>4. CASE pc[c] \notin {"out", "in"}
    <3>1. disk' = Forgotten(disk, c)
      BY <1>26, <2>4 DEF CommandDies, Swapping
    <3>2. disk'[Live] = disk[Live] /\ \A k \in Cmd : disk'[Aside(k)] = disk[Aside(k)]
      BY <3>1, Places, OnlyStaging DEF TreesOK
    <3> QED BY <2>1, <2>2, <3>2, <1>k
  <2> QED BY <2>3, <2>4
<1>27. ASSUME JobdDies PROVE PrevInv'
  <2>1. disk' = disk /\ prev' = prev
    BY <1>27 DEF JobdDies
  <2>2. \A k \in Cmd :
          /\ pc[k] \notin {"ready", "clean"} => pc'[k] \notin {"ready", "clean"}
          /\ pc'[k] = "in" => pc[k] = "in"
    BY <1>27, <1>a, <1>c, <1>d DEF JobdDies
  <2> QED BY <2>1, <2>2, <1>k
<1>28. ASSUME Reap PROVE PrevInv'
  <2>1. disk' = disk /\ prev' = prev
    BY <1>28 DEF Reap
  <2>2. \A k \in Cmd :
          /\ pc[k] \notin {"ready", "clean"} => pc'[k] \notin {"ready", "clean"}
          /\ pc'[k] = "in" => pc[k] = "in"
    BY <1>28, <1>a, <1>c, <1>d DEF Reap
  <2> QED BY <2>1, <2>2, <1>k
<1>29. ASSUME MoveBack PROVE PrevInv'
  <2>1. prev' = Nothing
    BY <1>29 DEF MoveBack
  <2> QED BY <2>1, <1>l
<1>30. ASSUME Acknowledge PROVE PrevInv'
  <2>1. prev' = Nothing
    BY <1>30 DEF Acknowledge
  <2> QED BY <2>1, <1>l
<1>31. ASSUME Ages PROVE PrevInv'
  <2>1. disk' = disk /\ prev' = prev
    BY <1>31 DEF Ages
  <2>2. \A k \in Cmd :
          /\ pc[k] \notin {"ready", "clean"} => pc'[k] \notin {"ready", "clean"}
          /\ pc'[k] = "in" => pc[k] = "in"
    BY <1>31, <1>a, <1>c, <1>d DEF Ages
  <2> QED BY <2>1, <2>2, <1>k
<1>32. CASE UNCHANGED vars
  <2> QED BY <1>32, <1>k
<1> QED BY <1>1, <1>2, <1>3, <1>4, <1>5, <1>6, <1>7, <1>8, <1>9, <1>10, <1>11,
     <1>12, <1>13, <1>14, <1>15, <1>16, <1>17, <1>18, <1>19, <1>20, <1>21,
     <1>22, <1>23, <1>24, <1>25, <1>26, <1>27, <1>28, <1>29, <1>30, <1>31,
     <1>32 DEF Next, BackupStep, TickStep, JobStep, CommandStep, RestoreStep


-----------------------------------------------------------------------------
(* The theorems.                                                            *)

\* The three parts are the type invariant.
LEMMA TypeParts == TreesOK /\ ListOK /\ ControlOK => TypeOK
<1> SUFFICES ASSUME TreesOK, ListOK, ControlOK PROVE TypeOK
  OBVIOUS
<1>1. Names \subseteq 1..MaxStamp /\ todo \subseteq 1..MaxStamp /\ gone \subseteq 1..MaxStamp
  BY DEF ListOK
<1>2. pc \in [Actor -> AnyKind \cup {"off", "wait", "tar", "name", "prune", "pruning",
                       "claim", "stop", "out", "in", "start", "fails", "ready",
                       "unverifiable", "clean", "ended"}]
  <2>1. Active \cup {"off", "wait", "prune", "pruning", "ended"} =
          AnyKind \cup {"off", "wait", "tar", "name", "prune", "pruning",
                       "claim", "stop", "out", "in", "start", "fails", "ready",
                       "unverifiable", "clean", "ended"}
    BY DEF Active, Holding
  <2> QED BY <2>1 DEF ControlOK
<1>3. TreesOK /\ taken \in 0..MaxTaken /\ survivors \in 0..MaxStamp
  BY DEF ListOK
<1> QED BY <1>1, <1>2, <1>3 DEF TypeOK, TreesOK, ListOK, ControlOK

\* Every reachable state satisfies the inductive invariant.
THEOREM Invariance == Spec => []IInv
<1>1. IInv /\ [Next]_vars => IInv'
  BY TreesStep, ListStep, ControlStep, BackupLockStep, LifecycleLockStep, TarStep,
     CompleteStep, SnapshotStep, PruneInvStep, WayStep, OutInvStep, PrevInvStep DEF IInv
<1> QED BY InitInvariant, <1>1, PTL DEF Spec

\* The trees, the archives, the locks and the places of all the processes.
THEOREM TypeCorrect == Spec => []TypeOK
<1>1. IInv => TypeOK
  BY TypeParts DEF IInv
<1> QED BY <1>1, Invariance, PTL

\* palworld-backup renames the .partial file only when tar has read everything.
THEOREM EveryArchiveIsComplete == Spec => []ArchivesAreComplete
<1>1. IInv => ArchivesAreComplete
  BY DEF IInv
<1> QED BY <1>1, Invariance, PTL

\* backup_lock: under the lock no restore moves the world during a tar.
THEOREM EveryArchiveIsASnapshot == Spec => []ArchiveIsSnapshot
<1>1. IInv => ArchiveIsSnapshot
  BY DEF IInv
<1> QED BY <1>1, Invariance, PTL

\* restore_archive and _swap_contents: whatever fails and whoever dies, each
\* entry of the world that was replaced is still whole somewhere.
THEOREM PreviousWorldIsNeverLost == Spec => []PreviousWorldSurvives
<1>1. IInv => PreviousWorldSurvives
  BY DEF IInv, PrevInv, SetAside, PreviousWorldSurvives
<1> QED BY <1>1, Invariance, PTL

\* begin_transaction and complete_transaction: the status is not idle as long as
\* the live tree may be a mixture.
THEOREM MixedTreesAreFenced == Spec => []MixedTreeIsFenced
<1>1. IInv => MixedTreeIsFenced
  BY DEF IInv, LifecycleLock, MixedTreeIsFenced
<1> QED BY <1>1, Invariance, PTL

\* _safety_backup: under the backup lock, the world that a restore moves out has an
\* archive until the restore is over.
THEOREM ReplacedIsArchived == Spec => []WayBack
<1>1. IInv => WayBack
  BY DEF IInv, WayInv, Kept, WayBack
<1> QED BY <1>1, Invariance, PTL

\* prune_archives: an archive that retention removes has KeepMin newer ones that are
\* listed or that somebody else has deleted since; under the backup lock, listed.
THEOREM RetentionKeepsTheFloor == Spec => RetentionFloor
<1> DEFINE Floor == \A s \in Names \ Names' : todo' # todo =>
                      Cardinality({t \in Names' \cup (IF loose = 0 THEN {} ELSE gone) : t > s})
                        >= KeepMin
<1>1. IInv /\ [Next]_vars => [Floor]_<<archives, todo>>
  <2> SUFFICES ASSUME IInv, Next, NEW s \in Names \ Names', todo' # todo
               PROVE  Cardinality({t \in Names' \cup (IF loose = 0 THEN {} ELSE gone) : t > s})
                        >= KeepMin
    BY DEF vars, ticking
  <2>a. \A S : DOMAIN Restrict(archives, S) = S
    BY Listed
  <2>b. Names \subseteq Int /\ todo \subseteq Int /\ gone \subseteq Int
    BY DEF IInv, ListOK
  <2>1. PruneStep \/ PruneBegins \/ TickEnds \/ TickDies
    <3>1. ASSUME NEW c \in Cmd PROVE ~(MoveBegins(c) \/ MoveCopies(c) \/ MoveEnds(c) \/ PhaseEnds(c))
      BY SwapFacts
    <3> QED BY <3>1 DEF Next, BackupStep, TickStep, JobStep, CommandStep, RestoreStep,
        TarReads, Archived, BackupFails, TickBegins, JobBegins, Locked, JobEnds,
        ShellRuns, RunsBackup, RunsImport, RunsDelete, RunsRestore, Claims, Stages,
        Starts, Completes, Cleans, CommandDies, JobdDies, Reap, MoveBack, Acknowledge,
        Ages, BackupFrame, JobFrame, CommandFrame, RestoreFrame, OperatorFrame, ticking
  <2>2. archives' # archives
    BY DEF Names
  <2>3. PruneStep
    BY <2>1, <2>2 DEF PruneBegins, TickEnds, TickDies, TickLeaves
  <2>4. PICK n \in todo : archives' = Restrict(archives, Names \ {n})
    BY <2>2, <2>3 DEF PruneStep
  <2>5. Names' = Names \ {n}
    BY <2>4, <2>a DEF Names
  <2>6. n = s
    BY <2>5
  <2>7. Cardinality(Above(s)) >= KeepMin
    BY <2>3, <2>4, <2>6 DEF IInv, PruneInv, PruneStep
  <2>8. {t \in Names' \cup gone : t > s} = Above(s)
    BY <2>b, <2>5, <2>6 DEF Above
  <2>9. loose = 0 => gone = {}
    BY DEF IInv, PruneInv
  <2> QED BY <2>7, <2>8, <2>9
<1> QED BY <1>1, Invariance, PTL DEF Spec, RetentionFloor
=============================================================================
