--------------------------- MODULE JobQueueProofs ---------------------------
(* Theorems about JobQueue, for every set of jobs and workers and every     *)
(* bound: the steps of a job run at most once, finished jobs stay finished, *)
(* no two maintenances race, an interrupted maintenance inhibits automatic  *)
(* starts, and, where the scanned window holds every file, the oldest job   *)
(* goes first.                                                              *)
EXTENDS JobQueue, FiniteSetTheorems, TLAPS

-----------------------------------------------------------------------------
(* The inductive invariant.                                                 *)

\* Where a worker is busy with a job, and where that job's file is "running".
InHand == {"claimed", "acquire", "begin", "steps", "running", "mark", "release",
           "scrub", "finish", "errMark", "errScrub", "errFinish"}
BusyPC == InHand \cup {"reapFail", "reapMark", "claim"}

\* jobd.lock: one worker at a time.
OneWorker == \A v, w \in Worker : wpc[v] # "off" /\ wpc[w] # "off" => v = w

\* A worker that is busy has one job; it owns the lifecycle lock from the
\* begin of a maintenance to its release, and at no other time.
LockInv ==
  \A w \in Worker :
    /\ wpc[w] \in BusyPC => \E j \in Job : wjob[w] = {j}
    /\ w \in owner => /\ wpc[w] \in {"begin", "steps", "running", "mark", "release"}
                      /\ wjob[w] \subseteq Maintenance
    /\ wpc[w] \in {"begin", "mark", "release"} => w \in owner
    /\ wpc[w] = "acquire" => wjob[w] \subseteq Maintenance
    /\ wpc[w] \in {"steps", "running"} /\ wjob[w] \subseteq Maintenance => w \in owner

\* What a worker knows of the file of its job, whoever removes it meanwhile.
FileInv ==
  \A w \in Worker, j \in Job : wjob[w] = {j} =>
    /\ wpc[w] = "claim" => state[j] \in {"queued", "gone"}
    /\ wpc[w] \in InHand \cup {"reapFail"} => state[j] \in {"running", "gone"}

\* The steps of a job have not run until a worker that has claimed it runs them.
RunInv ==
  /\ AtMostOnce
  /\ \A j \in Job : state[j] \in {"unsent", "admitted", "minted", "queued"} => runs[j] = 0
  /\ \A w \in Worker, j \in Job :
       /\ wjob[w] = {j}
       /\ wpc[w] \in {"claim", "claimed", "acquire", "begin", "steps"}
       => runs[j] = 0

\* A maintenance begins when no step of another one is alive.
RaceInv ==
  /\ NoRacingMaintenance
  /\ \A w \in owner : wpc[w] \in {"begin", "steps"} => acting \cap Maintenance = {}

\* A failure keeps the status away from idle, and what is in flight does not
\* bring it back: a transaction under way has published, and one that began
\* after the failure has found a status that its success may not clear.
DirtyInv ==
  /\ InterruptedInhibits
  /\ \A w \in owner :
       /\ wpc[w] \in {"steps", "running"} => life # "idle"
       /\ dirty /\ wpc[w] \in {"steps", "running"} => life = "unsafe"
       /\ dirty /\ wpc[w] = "mark" /\ wrc[w] = "ok" => life = "unsafe"

IInv == TypeOK /\ OneWorker /\ LockInv /\ FileInv /\ RunInv /\ RaceInv /\ DirtyInv

-----------------------------------------------------------------------------
(* Typing.                                                                  *)

\* What the scans of the worker return, whatever the window cuts off.
LEMMA Window ==
  /\ \A j \in Orphans : j \in Job /\ state[j] = "running"
  /\ \A j \in Queued : j \in Job /\ state[j] = "queued"
  /\ \A limit, j : j \in Listed(limit) => j \in Job /\ state[j] \in Unfinished \cup Terminal
BY DEF Orphans, Queued, Listed, Files

\* Every step preserves the types.
LEMMA NextTyped ==
  TypeOK /\ [Next]_vars => TypeOK'
<1> SUFFICES ASSUME TypeOK, [Next]_vars PROVE TypeOK'
  OBVIOUS
<1> USE DEF TypeOK, vars, webVars, workerVars, lifeVars, stepVars, Goto, Busy, JobState, Terminal, Unfinished, WorkerPC
<1>1. ASSUME NEW j \in Job, Admit(j) PROVE TypeOK'
  BY <1>1 DEF Admit
<1>2. ASSUME NEW j \in Job, Mint(j) PROVE TypeOK'
  BY <1>2 DEF Mint
<1>3. ASSUME NEW j \in Job, Store(j) PROVE TypeOK'
  BY <1>3 DEF Store
<1>4. ASSUME NEW w \in Worker, NEW mode \in {"daemon", "once", "reap"}, Start(w, mode) PROVE TypeOK'
  BY <1>4 DEF Start, NoWorker, Mishap
<1>5. ASSUME NEW w \in Worker, InitRuntime(w) PROVE TypeOK'
  BY <1>5 DEF InitRuntime
<1>6. ASSUME NEW w \in Worker, ReapScrub(w) PROVE TypeOK'
  BY <1>6, Window DEF ReapScrub, ScrubbedOnReap
<1>7. ASSUME NEW w \in Worker, ReapFail(w) PROVE TypeOK'
  BY <1>7 DEF ReapFail, Reaped
<1>8. ASSUME NEW w \in Worker, ReapMark(w) PROVE TypeOK'
  BY <1>8 DEF ReapMark
<1>9. ASSUME NEW w \in Worker, ReapDone(w) PROVE TypeOK'
  BY <1>9 DEF ReapDone, Exit
<1>10. ASSUME NEW w \in Worker, ReapRaises(w) PROVE TypeOK'
  BY <1>10 DEF ReapRaises, Exit
<1>11. ASSUME NEW w \in Worker, Pick(w) PROVE TypeOK'
  BY <1>11, Window DEF Pick
<1>12. ASSUME NEW w \in Worker, Claim(w) PROVE TypeOK'
  BY <1>12 DEF Claim
<1>13. ASSUME NEW w \in Worker, Validate(w) PROVE TypeOK'
  BY <1>13 DEF Validate, Refuse, Fail
<1>14. ASSUME NEW w \in Worker, Acquire(w) PROVE TypeOK'
  BY <1>14 DEF Acquire, Refuse, Fail, FreeLife
<1>15. ASSUME NEW w \in Worker, Begin(w) PROVE TypeOK'
  BY <1>15 DEF Begin, Fail
<1>16. ASSUME NEW w \in Worker, Run(w) PROVE TypeOK'
  BY <1>16 DEF Run
<1>17. ASSUME NEW w \in Worker, RunEnds(w) PROVE TypeOK'
  BY <1>17 DEF RunEnds
<1>18. ASSUME NEW w \in Worker, Mark(w) PROVE TypeOK'
  BY <1>18 DEF Mark, Completed
<1>19. ASSUME NEW w \in Worker, Release(w) PROVE TypeOK'
  BY <1>19 DEF Release, Released
<1>20. ASSUME NEW w \in Worker, Scrub(w) PROVE TypeOK'
  BY <1>20 DEF Scrub
<1>21. ASSUME NEW w \in Worker, Finish(w) PROVE TypeOK'
  BY <1>21 DEF Finish
<1>22. ASSUME NEW w \in Worker, ErrMark(w) PROVE TypeOK'
  BY <1>22 DEF ErrMark
<1>23. ASSUME NEW w \in Worker, ErrScrub(w) PROVE TypeOK'
  BY <1>23 DEF ErrScrub
<1>24. ASSUME NEW w \in Worker, ErrFinish(w) PROVE TypeOK'
  BY <1>24 DEF ErrFinish
<1>25. ASSUME NEW w \in Worker, Prune(w) PROVE TypeOK'
  BY <1>25, Window DEF Prune, Exit
<1>26. ASSUME NEW j \in Job, StepEnds(j) PROVE TypeOK'
  BY <1>26 DEF StepEnds
<1>27. ASSUME NEW j \in Job, Vanish(j) PROVE TypeOK'
  BY <1>27 DEF Vanish, Files, Mishap
<1>28. ASSUME NEW w \in Worker, Crash(w) PROVE TypeOK'
  BY <1>28 DEF Crash, Exit, Mishap
<1>29. ASSUME WebCrash PROVE TypeOK'
  BY <1>29 DEF WebCrash, Mishap
<1>30. ASSUME Acknowledge PROVE TypeOK'
  BY <1>30 DEF Acknowledge, FreeLife
<1>31. CASE UNCHANGED vars
  BY <1>31
<1> QED BY <1>1, <1>2, <1>3, <1>4, <1>5, <1>6, <1>7, <1>8, <1>9, <1>10, <1>11,
     <1>12, <1>13, <1>14, <1>15, <1>16, <1>17, <1>18, <1>19, <1>20, <1>21,
     <1>22, <1>23, <1>24, <1>25, <1>26, <1>27, <1>28, <1>29, <1>30, <1>31 DEF
     Next, WorkerStep

-----------------------------------------------------------------------------
(* The worker.                                                              *)

\* A worker starts only when there is none.
LEMMA NextOneWorker ==
  TypeOK /\ OneWorker /\ [Next]_vars => OneWorker'
<1> SUFFICES ASSUME TypeOK, OneWorker, [Next]_vars PROVE OneWorker'
  OBVIOUS
<1> USE DEF TypeOK, OneWorker, vars, webVars, workerVars, lifeVars, stepVars, Goto, Busy
<1>1. ASSUME NEW j \in Job, Admit(j) PROVE OneWorker'
  BY <1>1 DEF Admit
<1>2. ASSUME NEW j \in Job, Mint(j) PROVE OneWorker'
  BY <1>2 DEF Mint
<1>3. ASSUME NEW j \in Job, Store(j) PROVE OneWorker'
  BY <1>3 DEF Store
<1>4. ASSUME NEW w \in Worker, NEW mode \in {"daemon", "once", "reap"}, Start(w, mode) PROVE OneWorker'
  BY <1>4 DEF Start, NoWorker, Mishap
<1>5. ASSUME NEW w \in Worker, InitRuntime(w) PROVE OneWorker'
  BY <1>5 DEF InitRuntime
<1>6. ASSUME NEW w \in Worker, ReapScrub(w) PROVE OneWorker'
  BY <1>6, Window DEF ReapScrub, ScrubbedOnReap
<1>7. ASSUME NEW w \in Worker, ReapFail(w) PROVE OneWorker'
  BY <1>7 DEF ReapFail, Reaped
<1>8. ASSUME NEW w \in Worker, ReapMark(w) PROVE OneWorker'
  BY <1>8 DEF ReapMark
<1>9. ASSUME NEW w \in Worker, ReapDone(w) PROVE OneWorker'
  BY <1>9 DEF ReapDone, Exit
<1>10. ASSUME NEW w \in Worker, ReapRaises(w) PROVE OneWorker'
  BY <1>10 DEF ReapRaises, Exit
<1>11. ASSUME NEW w \in Worker, Pick(w) PROVE OneWorker'
  BY <1>11, Window DEF Pick
<1>12. ASSUME NEW w \in Worker, Claim(w) PROVE OneWorker'
  BY <1>12 DEF Claim
<1>13. ASSUME NEW w \in Worker, Validate(w) PROVE OneWorker'
  BY <1>13 DEF Validate, Refuse, Fail
<1>14. ASSUME NEW w \in Worker, Acquire(w) PROVE OneWorker'
  BY <1>14 DEF Acquire, Refuse, Fail, FreeLife
<1>15. ASSUME NEW w \in Worker, Begin(w) PROVE OneWorker'
  BY <1>15 DEF Begin, Fail
<1>16. ASSUME NEW w \in Worker, Run(w) PROVE OneWorker'
  BY <1>16 DEF Run
<1>17. ASSUME NEW w \in Worker, RunEnds(w) PROVE OneWorker'
  BY <1>17 DEF RunEnds
<1>18. ASSUME NEW w \in Worker, Mark(w) PROVE OneWorker'
  BY <1>18 DEF Mark, Completed
<1>19. ASSUME NEW w \in Worker, Release(w) PROVE OneWorker'
  BY <1>19 DEF Release, Released
<1>20. ASSUME NEW w \in Worker, Scrub(w) PROVE OneWorker'
  BY <1>20 DEF Scrub
<1>21. ASSUME NEW w \in Worker, Finish(w) PROVE OneWorker'
  BY <1>21 DEF Finish
<1>22. ASSUME NEW w \in Worker, ErrMark(w) PROVE OneWorker'
  BY <1>22 DEF ErrMark
<1>23. ASSUME NEW w \in Worker, ErrScrub(w) PROVE OneWorker'
  BY <1>23 DEF ErrScrub
<1>24. ASSUME NEW w \in Worker, ErrFinish(w) PROVE OneWorker'
  BY <1>24 DEF ErrFinish
<1>25. ASSUME NEW w \in Worker, Prune(w) PROVE OneWorker'
  BY <1>25, Window DEF Prune, Exit
<1>26. ASSUME NEW j \in Job, StepEnds(j) PROVE OneWorker'
  BY <1>26 DEF StepEnds
<1>27. ASSUME NEW j \in Job, Vanish(j) PROVE OneWorker'
  BY <1>27 DEF Vanish, Files, Mishap
<1>28. ASSUME NEW w \in Worker, Crash(w) PROVE OneWorker'
  BY <1>28 DEF Crash, Exit, Mishap
<1>29. ASSUME WebCrash PROVE OneWorker'
  BY <1>29 DEF WebCrash, Mishap
<1>30. ASSUME Acknowledge PROVE OneWorker'
  BY <1>30 DEF Acknowledge, FreeLife
<1>31. CASE UNCHANGED vars
  BY <1>31
<1> QED BY <1>1, <1>2, <1>3, <1>4, <1>5, <1>6, <1>7, <1>8, <1>9, <1>10, <1>11,
     <1>12, <1>13, <1>14, <1>15, <1>16, <1>17, <1>18, <1>19, <1>20, <1>21,
     <1>22, <1>23, <1>24, <1>25, <1>26, <1>27, <1>28, <1>29, <1>30, <1>31 DEF
     Next, WorkerStep

\* The lifecycle lock and the job in hand.
LEMMA NextLock ==
  TypeOK /\ OneWorker /\ LockInv /\ [Next]_vars => LockInv'
<1> SUFFICES ASSUME TypeOK, OneWorker, LockInv, [Next]_vars PROVE LockInv'
  OBVIOUS
<1> USE DEF TypeOK, OneWorker, LockInv, BusyPC, InHand, vars, webVars, workerVars, lifeVars, stepVars, Goto, Busy
<1>1. ASSUME NEW j \in Job, Admit(j) PROVE LockInv'
  BY <1>1 DEF Admit
<1>2. ASSUME NEW j \in Job, Mint(j) PROVE LockInv'
  BY <1>2 DEF Mint
<1>3. ASSUME NEW j \in Job, Store(j) PROVE LockInv'
  BY <1>3 DEF Store
<1>4. ASSUME NEW w \in Worker, NEW mode \in {"daemon", "once", "reap"}, Start(w, mode) PROVE LockInv'
  BY <1>4 DEF Start, NoWorker, Mishap
<1>5. ASSUME NEW w \in Worker, InitRuntime(w) PROVE LockInv'
  BY <1>5 DEF InitRuntime
<1>6. ASSUME NEW w \in Worker, ReapScrub(w) PROVE LockInv'
  BY <1>6, Window DEF ReapScrub, ScrubbedOnReap
<1>7. ASSUME NEW w \in Worker, ReapFail(w) PROVE LockInv'
  BY <1>7 DEF ReapFail, Reaped
<1>8. ASSUME NEW w \in Worker, ReapMark(w) PROVE LockInv'
  BY <1>8 DEF ReapMark
<1>9. ASSUME NEW w \in Worker, ReapDone(w) PROVE LockInv'
  BY <1>9 DEF ReapDone, Exit
<1>10. ASSUME NEW w \in Worker, ReapRaises(w) PROVE LockInv'
  BY <1>10 DEF ReapRaises, Exit
<1>11. ASSUME NEW w \in Worker, Pick(w) PROVE LockInv'
  BY <1>11, Window DEF Pick
<1>12. ASSUME NEW w \in Worker, Claim(w) PROVE LockInv'
  BY <1>12 DEF Claim
<1>13. ASSUME NEW w \in Worker, Validate(w) PROVE LockInv'
  BY <1>13 DEF Validate, Refuse, Fail
<1>14. ASSUME NEW w \in Worker, Acquire(w) PROVE LockInv'
  BY <1>14 DEF Acquire, Refuse, Fail, FreeLife
<1>15. ASSUME NEW w \in Worker, Begin(w) PROVE LockInv'
  BY <1>15 DEF Begin, Fail
<1>16. ASSUME NEW w \in Worker, Run(w) PROVE LockInv'
  BY <1>16 DEF Run
<1>17. ASSUME NEW w \in Worker, RunEnds(w) PROVE LockInv'
  BY <1>17 DEF RunEnds
<1>18. ASSUME NEW w \in Worker, Mark(w) PROVE LockInv'
  BY <1>18 DEF Mark, Completed
<1>19. ASSUME NEW w \in Worker, Release(w) PROVE LockInv'
  BY <1>19 DEF Release, Released
<1>20. ASSUME NEW w \in Worker, Scrub(w) PROVE LockInv'
  BY <1>20 DEF Scrub
<1>21. ASSUME NEW w \in Worker, Finish(w) PROVE LockInv'
  BY <1>21 DEF Finish
<1>22. ASSUME NEW w \in Worker, ErrMark(w) PROVE LockInv'
  BY <1>22 DEF ErrMark
<1>23. ASSUME NEW w \in Worker, ErrScrub(w) PROVE LockInv'
  BY <1>23 DEF ErrScrub
<1>24. ASSUME NEW w \in Worker, ErrFinish(w) PROVE LockInv'
  BY <1>24 DEF ErrFinish
<1>25. ASSUME NEW w \in Worker, Prune(w) PROVE LockInv'
  BY <1>25, Window DEF Prune, Exit
<1>26. ASSUME NEW j \in Job, StepEnds(j) PROVE LockInv'
  BY <1>26 DEF StepEnds
<1>27. ASSUME NEW j \in Job, Vanish(j) PROVE LockInv'
  BY <1>27 DEF Vanish, Files, Mishap
<1>28. ASSUME NEW w \in Worker, Crash(w) PROVE LockInv'
  BY <1>28 DEF Crash, Exit, Mishap
<1>29. ASSUME WebCrash PROVE LockInv'
  BY <1>29 DEF WebCrash, Mishap
<1>30. ASSUME Acknowledge PROVE LockInv'
  BY <1>30 DEF Acknowledge, FreeLife
<1>31. CASE UNCHANGED vars
  BY <1>31
<1> QED BY <1>1, <1>2, <1>3, <1>4, <1>5, <1>6, <1>7, <1>8, <1>9, <1>10, <1>11,
     <1>12, <1>13, <1>14, <1>15, <1>16, <1>17, <1>18, <1>19, <1>20, <1>21,
     <1>22, <1>23, <1>24, <1>25, <1>26, <1>27, <1>28, <1>29, <1>30, <1>31 DEF
     Next, WorkerStep

\* The files of the jobs in hand.
LEMMA NextFile ==
  TypeOK /\ OneWorker /\ LockInv /\ FileInv /\ [Next]_vars => FileInv'
<1> SUFFICES ASSUME TypeOK, OneWorker, LockInv, FileInv, [Next]_vars PROVE FileInv'
  OBVIOUS
<1> USE DEF TypeOK, OneWorker, LockInv, FileInv, BusyPC, InHand, Terminal, Unfinished, vars, webVars, workerVars, lifeVars, stepVars, Goto, Busy
<1>1. ASSUME NEW j \in Job, Admit(j) PROVE FileInv'
  BY <1>1 DEF Admit
<1>2. ASSUME NEW j \in Job, Mint(j) PROVE FileInv'
  BY <1>2 DEF Mint
<1>3. ASSUME NEW j \in Job, Store(j) PROVE FileInv'
  BY <1>3 DEF Store
<1>4. ASSUME NEW w \in Worker, NEW mode \in {"daemon", "once", "reap"}, Start(w, mode) PROVE FileInv'
  BY <1>4 DEF Start, NoWorker, Mishap
<1>5. ASSUME NEW w \in Worker, InitRuntime(w) PROVE FileInv'
  BY <1>5 DEF InitRuntime
<1>6. ASSUME NEW w \in Worker, ReapScrub(w) PROVE FileInv'
  <2> SUFFICES ASSUME NEW v \in Worker, NEW i \in Job, wjob'[v] = {i},
                      wpc'[v] \in InHand \cup {"reapFail", "claim"}
               PROVE  IF wpc'[v] = "claim" THEN state'[i] \in {"queued", "gone"}
                      ELSE state'[i] \in {"running", "gone"}
    BY DEF FileInv
  <2>1. PICK j \in Orphans : wjob' = [wjob EXCEPT ![w] = {j}]
    BY <1>6 DEF ReapScrub
  <2>2. v = w /\ wpc'[w] = "reapFail" /\ state' = state
    BY <1>6 DEF ReapScrub
  <2>3. i = j
    BY <2>1, <2>2
  <2> QED BY <2>2, <2>3, Window
<1>7. ASSUME NEW w \in Worker, ReapFail(w) PROVE FileInv'
  BY <1>7 DEF ReapFail, Reaped
<1>8. ASSUME NEW w \in Worker, ReapMark(w) PROVE FileInv'
  BY <1>8 DEF ReapMark
<1>9. ASSUME NEW w \in Worker, ReapDone(w) PROVE FileInv'
  BY <1>9 DEF ReapDone, Exit
<1>10. ASSUME NEW w \in Worker, ReapRaises(w) PROVE FileInv'
  BY <1>10 DEF ReapRaises, Exit
<1>11. ASSUME NEW w \in Worker, Pick(w) PROVE FileInv'
  <2> SUFFICES ASSUME NEW v \in Worker, NEW i \in Job, wjob'[v] = {i},
                      wpc'[v] \in InHand \cup {"reapFail", "claim"}
               PROVE  IF wpc'[v] = "claim" THEN state'[i] \in {"queued", "gone"}
                      ELSE state'[i] \in {"running", "gone"}
    BY DEF FileInv
  <2>1. v = w /\ wpc[w] = "poll" /\ wpc'[w] = "claim" /\ state' = state
    BY <1>11 DEF Pick
  <2>2. PICK j \in Queued : wjob' = [wjob EXCEPT ![w] = {j}]
    BY <1>11, <2>1 DEF Pick
  <2>3. i = j
    BY <2>1, <2>2
  <2> QED BY <2>1, <2>3, Window
<1>12. ASSUME NEW w \in Worker, Claim(w) PROVE FileInv'
  <2> SUFFICES ASSUME NEW v \in Worker, NEW i \in Job, wjob'[v] = {i},
                      wpc'[v] \in InHand \cup {"reapFail", "claim"}
               PROVE  IF wpc'[v] = "claim" THEN state'[i] \in {"queued", "gone"}
                      ELSE state'[i] \in {"running", "gone"}
    BY DEF FileInv
  <2>1. v = w /\ wpc[w] = "claim" /\ wjob[w] = {i}
    BY <1>12 DEF Claim
  <2>2. PICK j \in Job :
          /\ wjob[w] = {j}
          /\ \/ state' = [state EXCEPT ![j] = "running"] /\ wpc'[w] = "claimed"
             \/ wpc'[w] = "prune"
    BY <1>12 DEF Claim
  <2>3. i = j
    BY <2>1, <2>2
  <2> QED BY <2>1, <2>2, <2>3
<1>13. ASSUME NEW w \in Worker, Validate(w) PROVE FileInv'
  BY <1>13 DEF Validate, Refuse, Fail
<1>14. ASSUME NEW w \in Worker, Acquire(w) PROVE FileInv'
  BY <1>14 DEF Acquire, Refuse, Fail, FreeLife
<1>15. ASSUME NEW w \in Worker, Begin(w) PROVE FileInv'
  BY <1>15 DEF Begin, Fail
<1>16. ASSUME NEW w \in Worker, Run(w) PROVE FileInv'
  BY <1>16 DEF Run
<1>17. ASSUME NEW w \in Worker, RunEnds(w) PROVE FileInv'
  BY <1>17 DEF RunEnds
<1>18. ASSUME NEW w \in Worker, Mark(w) PROVE FileInv'
  BY <1>18 DEF Mark, Completed
<1>19. ASSUME NEW w \in Worker, Release(w) PROVE FileInv'
  BY <1>19 DEF Release, Released
<1>20. ASSUME NEW w \in Worker, Scrub(w) PROVE FileInv'
  BY <1>20 DEF Scrub
<1>21. ASSUME NEW w \in Worker, Finish(w) PROVE FileInv'
  BY <1>21 DEF Finish
<1>22. ASSUME NEW w \in Worker, ErrMark(w) PROVE FileInv'
  BY <1>22 DEF ErrMark
<1>23. ASSUME NEW w \in Worker, ErrScrub(w) PROVE FileInv'
  BY <1>23 DEF ErrScrub
<1>24. ASSUME NEW w \in Worker, ErrFinish(w) PROVE FileInv'
  BY <1>24 DEF ErrFinish
<1>25. ASSUME NEW w \in Worker, Prune(w) PROVE FileInv'
  BY <1>25, Window DEF Prune, Exit
<1>26. ASSUME NEW j \in Job, StepEnds(j) PROVE FileInv'
  BY <1>26 DEF StepEnds
<1>27. ASSUME NEW j \in Job, Vanish(j) PROVE FileInv'
  BY <1>27 DEF Vanish, Files, Mishap
<1>28. ASSUME NEW w \in Worker, Crash(w) PROVE FileInv'
  BY <1>28 DEF Crash, Exit, Mishap
<1>29. ASSUME WebCrash PROVE FileInv'
  BY <1>29 DEF WebCrash, Mishap
<1>30. ASSUME Acknowledge PROVE FileInv'
  BY <1>30 DEF Acknowledge, FreeLife
<1>31. CASE UNCHANGED vars
  BY <1>31
<1> QED BY <1>1, <1>2, <1>3, <1>4, <1>5, <1>6, <1>7, <1>8, <1>9, <1>10, <1>11,
     <1>12, <1>13, <1>14, <1>15, <1>16, <1>17, <1>18, <1>19, <1>20, <1>21,
     <1>22, <1>23, <1>24, <1>25, <1>26, <1>27, <1>28, <1>29, <1>30, <1>31 DEF
     Next, WorkerStep

\* The steps of a job.
LEMMA NextRun ==
  TypeOK /\ OneWorker /\ LockInv /\ FileInv /\ RunInv /\ [Next]_vars => RunInv'
<1> SUFFICES ASSUME TypeOK, OneWorker, LockInv, FileInv, RunInv, [Next]_vars PROVE RunInv'
  OBVIOUS
<1> USE DEF TypeOK, OneWorker, LockInv, FileInv, RunInv, AtMostOnce, BusyPC, InHand, Terminal, Unfinished, vars, webVars, workerVars, lifeVars, stepVars, Goto, Busy
<1>1. ASSUME NEW j \in Job, Admit(j) PROVE RunInv'
  BY <1>1 DEF Admit
<1>2. ASSUME NEW j \in Job, Mint(j) PROVE RunInv'
  BY <1>2 DEF Mint
<1>3. ASSUME NEW j \in Job, Store(j) PROVE RunInv'
  BY <1>3 DEF Store
<1>4. ASSUME NEW w \in Worker, NEW mode \in {"daemon", "once", "reap"}, Start(w, mode) PROVE RunInv'
  BY <1>4 DEF Start, NoWorker, Mishap
<1>5. ASSUME NEW w \in Worker, InitRuntime(w) PROVE RunInv'
  BY <1>5 DEF InitRuntime
<1>6. ASSUME NEW w \in Worker, ReapScrub(w) PROVE RunInv'
  BY <1>6, Window DEF ReapScrub, ScrubbedOnReap
<1>7. ASSUME NEW w \in Worker, ReapFail(w) PROVE RunInv'
  BY <1>7 DEF ReapFail, Reaped
<1>8. ASSUME NEW w \in Worker, ReapMark(w) PROVE RunInv'
  BY <1>8 DEF ReapMark
<1>9. ASSUME NEW w \in Worker, ReapDone(w) PROVE RunInv'
  BY <1>9 DEF ReapDone, Exit
<1>10. ASSUME NEW w \in Worker, ReapRaises(w) PROVE RunInv'
  BY <1>10 DEF ReapRaises, Exit
<1>11. ASSUME NEW w \in Worker, Pick(w) PROVE RunInv'
  <2> SUFFICES ASSUME NEW v \in Worker, NEW i \in Job, wjob'[v] = {i},
                      wpc'[v] \in {"claim", "claimed", "acquire", "begin", "steps"}
               PROVE  runs'[i] = 0
    BY <1>11 DEF Pick
  <2>1. v = w /\ wpc[w] = "poll" /\ wpc'[w] = "claim" /\ runs' = runs
    BY <1>11 DEF Pick
  <2>2. PICK j \in Queued : wjob' = [wjob EXCEPT ![w] = {j}]
    BY <1>11, <2>1 DEF Pick
  <2>3. i = j
    BY <2>1, <2>2
  <2> QED BY <2>1, <2>3, Window
<1>12. ASSUME NEW w \in Worker, Claim(w) PROVE RunInv'
  BY <1>12 DEF Claim
<1>13. ASSUME NEW w \in Worker, Validate(w) PROVE RunInv'
  BY <1>13 DEF Validate, Refuse, Fail
<1>14. ASSUME NEW w \in Worker, Acquire(w) PROVE RunInv'
  BY <1>14 DEF Acquire, Refuse, Fail, FreeLife
<1>15. ASSUME NEW w \in Worker, Begin(w) PROVE RunInv'
  BY <1>15 DEF Begin, Fail
<1>16. ASSUME NEW w \in Worker, Run(w) PROVE RunInv'
  BY <1>16 DEF Run
<1>17. ASSUME NEW w \in Worker, RunEnds(w) PROVE RunInv'
  BY <1>17 DEF RunEnds
<1>18. ASSUME NEW w \in Worker, Mark(w) PROVE RunInv'
  BY <1>18 DEF Mark, Completed
<1>19. ASSUME NEW w \in Worker, Release(w) PROVE RunInv'
  BY <1>19 DEF Release, Released
<1>20. ASSUME NEW w \in Worker, Scrub(w) PROVE RunInv'
  BY <1>20 DEF Scrub
<1>21. ASSUME NEW w \in Worker, Finish(w) PROVE RunInv'
  BY <1>21 DEF Finish
<1>22. ASSUME NEW w \in Worker, ErrMark(w) PROVE RunInv'
  BY <1>22 DEF ErrMark
<1>23. ASSUME NEW w \in Worker, ErrScrub(w) PROVE RunInv'
  BY <1>23 DEF ErrScrub
<1>24. ASSUME NEW w \in Worker, ErrFinish(w) PROVE RunInv'
  BY <1>24 DEF ErrFinish
<1>25. ASSUME NEW w \in Worker, Prune(w) PROVE RunInv'
  BY <1>25, Window DEF Prune, Exit
<1>26. ASSUME NEW j \in Job, StepEnds(j) PROVE RunInv'
  BY <1>26 DEF StepEnds
<1>27. ASSUME NEW j \in Job, Vanish(j) PROVE RunInv'
  BY <1>27 DEF Vanish, Files, Mishap
<1>28. ASSUME NEW w \in Worker, Crash(w) PROVE RunInv'
  BY <1>28 DEF Crash, Exit, Mishap
<1>29. ASSUME WebCrash PROVE RunInv'
  BY <1>29 DEF WebCrash, Mishap
<1>30. ASSUME Acknowledge PROVE RunInv'
  BY <1>30 DEF Acknowledge, FreeLife
<1>31. CASE UNCHANGED vars
  BY <1>31
<1> QED BY <1>1, <1>2, <1>3, <1>4, <1>5, <1>6, <1>7, <1>8, <1>9, <1>10, <1>11,
     <1>12, <1>13, <1>14, <1>15, <1>16, <1>17, <1>18, <1>19, <1>20, <1>21,
     <1>22, <1>23, <1>24, <1>25, <1>26, <1>27, <1>28, <1>29, <1>30, <1>31 DEF
     Next, WorkerStep

\* Live maintenances.
LEMMA NextRace ==
  TypeOK /\ OneWorker /\ LockInv /\ RaceInv /\ [Next]_vars => RaceInv'
<1> SUFFICES ASSUME TypeOK, OneWorker, LockInv, RaceInv, [Next]_vars PROVE RaceInv'
  OBVIOUS
<1> USE DEF TypeOK, OneWorker, LockInv, RaceInv, NoRacingMaintenance, BusyPC, InHand, vars, webVars, workerVars, lifeVars, stepVars, Goto, Busy
<1>1. ASSUME NEW j \in Job, Admit(j) PROVE RaceInv'
  BY <1>1 DEF Admit
<1>2. ASSUME NEW j \in Job, Mint(j) PROVE RaceInv'
  BY <1>2 DEF Mint
<1>3. ASSUME NEW j \in Job, Store(j) PROVE RaceInv'
  BY <1>3 DEF Store
<1>4. ASSUME NEW w \in Worker, NEW mode \in {"daemon", "once", "reap"}, Start(w, mode) PROVE RaceInv'
  BY <1>4 DEF Start, NoWorker, Mishap
<1>5. ASSUME NEW w \in Worker, InitRuntime(w) PROVE RaceInv'
  BY <1>5 DEF InitRuntime
<1>6. ASSUME NEW w \in Worker, ReapScrub(w) PROVE RaceInv'
  BY <1>6, Window DEF ReapScrub, ScrubbedOnReap
<1>7. ASSUME NEW w \in Worker, ReapFail(w) PROVE RaceInv'
  BY <1>7 DEF ReapFail, Reaped
<1>8. ASSUME NEW w \in Worker, ReapMark(w) PROVE RaceInv'
  BY <1>8 DEF ReapMark
<1>9. ASSUME NEW w \in Worker, ReapDone(w) PROVE RaceInv'
  BY <1>9 DEF ReapDone, Exit
<1>10. ASSUME NEW w \in Worker, ReapRaises(w) PROVE RaceInv'
  BY <1>10 DEF ReapRaises, Exit
<1>11. ASSUME NEW w \in Worker, Pick(w) PROVE RaceInv'
  BY <1>11, Window DEF Pick
<1>12. ASSUME NEW w \in Worker, Claim(w) PROVE RaceInv'
  BY <1>12 DEF Claim
<1>13. ASSUME NEW w \in Worker, Validate(w) PROVE RaceInv'
  BY <1>13 DEF Validate, Refuse, Fail
<1>14. ASSUME NEW w \in Worker, Acquire(w) PROVE RaceInv'
  BY <1>14 DEF Acquire, Refuse, Fail, FreeLife
<1>15. ASSUME NEW w \in Worker, Begin(w) PROVE RaceInv'
  BY <1>15 DEF Begin, Fail
<1>16. ASSUME NEW w \in Worker, Run(w) PROVE RaceInv'
  BY <1>16 DEF Run
<1>17. ASSUME NEW w \in Worker, RunEnds(w) PROVE RaceInv'
  BY <1>17 DEF RunEnds
<1>18. ASSUME NEW w \in Worker, Mark(w) PROVE RaceInv'
  BY <1>18 DEF Mark, Completed
<1>19. ASSUME NEW w \in Worker, Release(w) PROVE RaceInv'
  BY <1>19 DEF Release, Released
<1>20. ASSUME NEW w \in Worker, Scrub(w) PROVE RaceInv'
  BY <1>20 DEF Scrub
<1>21. ASSUME NEW w \in Worker, Finish(w) PROVE RaceInv'
  BY <1>21 DEF Finish
<1>22. ASSUME NEW w \in Worker, ErrMark(w) PROVE RaceInv'
  BY <1>22 DEF ErrMark
<1>23. ASSUME NEW w \in Worker, ErrScrub(w) PROVE RaceInv'
  BY <1>23 DEF ErrScrub
<1>24. ASSUME NEW w \in Worker, ErrFinish(w) PROVE RaceInv'
  BY <1>24 DEF ErrFinish
<1>25. ASSUME NEW w \in Worker, Prune(w) PROVE RaceInv'
  BY <1>25, Window DEF Prune, Exit
<1>26. ASSUME NEW j \in Job, StepEnds(j) PROVE RaceInv'
  BY <1>26 DEF StepEnds
<1>27. ASSUME NEW j \in Job, Vanish(j) PROVE RaceInv'
  BY <1>27 DEF Vanish, Files, Mishap
<1>28. ASSUME NEW w \in Worker, Crash(w) PROVE RaceInv'
  BY <1>28 DEF Crash, Exit, Mishap
<1>29. ASSUME WebCrash PROVE RaceInv'
  BY <1>29 DEF WebCrash, Mishap
<1>30. ASSUME Acknowledge PROVE RaceInv'
  BY <1>30 DEF Acknowledge, FreeLife
<1>31. CASE UNCHANGED vars
  BY <1>31
<1> QED BY <1>1, <1>2, <1>3, <1>4, <1>5, <1>6, <1>7, <1>8, <1>9, <1>10, <1>11,
     <1>12, <1>13, <1>14, <1>15, <1>16, <1>17, <1>18, <1>19, <1>20, <1>21,
     <1>22, <1>23, <1>24, <1>25, <1>26, <1>27, <1>28, <1>29, <1>30, <1>31 DEF
     Next, WorkerStep

\* Failures.
LEMMA NextDirty ==
  TypeOK /\ OneWorker /\ LockInv /\ DirtyInv /\ [Next]_vars => DirtyInv'
<1> SUFFICES ASSUME TypeOK, OneWorker, LockInv, DirtyInv, [Next]_vars PROVE DirtyInv'
  OBVIOUS
<1> USE DEF TypeOK, OneWorker, LockInv, DirtyInv, InterruptedInhibits, BusyPC, InHand, vars, webVars, workerVars, lifeVars, stepVars, Goto, Busy
<1>1. ASSUME NEW j \in Job, Admit(j) PROVE DirtyInv'
  BY <1>1 DEF Admit
<1>2. ASSUME NEW j \in Job, Mint(j) PROVE DirtyInv'
  BY <1>2 DEF Mint
<1>3. ASSUME NEW j \in Job, Store(j) PROVE DirtyInv'
  BY <1>3 DEF Store
<1>4. ASSUME NEW w \in Worker, NEW mode \in {"daemon", "once", "reap"}, Start(w, mode) PROVE DirtyInv'
  BY <1>4 DEF Start, NoWorker, Mishap
<1>5. ASSUME NEW w \in Worker, InitRuntime(w) PROVE DirtyInv'
  BY <1>5 DEF InitRuntime
<1>6. ASSUME NEW w \in Worker, ReapScrub(w) PROVE DirtyInv'
  BY <1>6, Window DEF ReapScrub, ScrubbedOnReap
<1>7. ASSUME NEW w \in Worker, ReapFail(w) PROVE DirtyInv'
  BY <1>7 DEF ReapFail, Reaped
<1>8. ASSUME NEW w \in Worker, ReapMark(w) PROVE DirtyInv'
  BY <1>8 DEF ReapMark
<1>9. ASSUME NEW w \in Worker, ReapDone(w) PROVE DirtyInv'
  BY <1>9 DEF ReapDone, Exit
<1>10. ASSUME NEW w \in Worker, ReapRaises(w) PROVE DirtyInv'
  BY <1>10 DEF ReapRaises, Exit
<1>11. ASSUME NEW w \in Worker, Pick(w) PROVE DirtyInv'
  BY <1>11, Window DEF Pick
<1>12. ASSUME NEW w \in Worker, Claim(w) PROVE DirtyInv'
  BY <1>12 DEF Claim
<1>13. ASSUME NEW w \in Worker, Validate(w) PROVE DirtyInv'
  BY <1>13 DEF Validate, Refuse, Fail
<1>14. ASSUME NEW w \in Worker, Acquire(w) PROVE DirtyInv'
  BY <1>14 DEF Acquire, Refuse, Fail, FreeLife
<1>15. ASSUME NEW w \in Worker, Begin(w) PROVE DirtyInv'
  BY <1>15 DEF Begin, Fail
<1>16. ASSUME NEW w \in Worker, Run(w) PROVE DirtyInv'
  BY <1>16 DEF Run
<1>17. ASSUME NEW w \in Worker, RunEnds(w) PROVE DirtyInv'
  BY <1>17 DEF RunEnds
<1>18. ASSUME NEW w \in Worker, Mark(w) PROVE DirtyInv'
  BY <1>18 DEF Mark, Completed
<1>19. ASSUME NEW w \in Worker, Release(w) PROVE DirtyInv'
  BY <1>19 DEF Release, Released
<1>20. ASSUME NEW w \in Worker, Scrub(w) PROVE DirtyInv'
  BY <1>20 DEF Scrub
<1>21. ASSUME NEW w \in Worker, Finish(w) PROVE DirtyInv'
  BY <1>21 DEF Finish
<1>22. ASSUME NEW w \in Worker, ErrMark(w) PROVE DirtyInv'
  BY <1>22 DEF ErrMark
<1>23. ASSUME NEW w \in Worker, ErrScrub(w) PROVE DirtyInv'
  BY <1>23 DEF ErrScrub
<1>24. ASSUME NEW w \in Worker, ErrFinish(w) PROVE DirtyInv'
  BY <1>24 DEF ErrFinish
<1>25. ASSUME NEW w \in Worker, Prune(w) PROVE DirtyInv'
  BY <1>25, Window DEF Prune, Exit
<1>26. ASSUME NEW j \in Job, StepEnds(j) PROVE DirtyInv'
  BY <1>26 DEF StepEnds
<1>27. ASSUME NEW j \in Job, Vanish(j) PROVE DirtyInv'
  BY <1>27 DEF Vanish, Files, Mishap
<1>28. ASSUME NEW w \in Worker, Crash(w) PROVE DirtyInv'
  BY <1>28 DEF Crash, Exit, Mishap
<1>29. ASSUME WebCrash PROVE DirtyInv'
  BY <1>29 DEF WebCrash, Mishap
<1>30. ASSUME Acknowledge PROVE DirtyInv'
  BY <1>30 DEF Acknowledge, FreeLife
<1>31. CASE UNCHANGED vars
  BY <1>31
<1> QED BY <1>1, <1>2, <1>3, <1>4, <1>5, <1>6, <1>7, <1>8, <1>9, <1>10, <1>11,
     <1>12, <1>13, <1>14, <1>15, <1>16, <1>17, <1>18, <1>19, <1>20, <1>21,
     <1>22, <1>23, <1>24, <1>25, <1>26, <1>27, <1>28, <1>29, <1>30, <1>31 DEF
     Next, WorkerStep

-----------------------------------------------------------------------------
(* The theorems.                                                            *)

\* The invariant holds in every reachable state.
THEOREM Invariance == Spec => []IInv
<1>1. Init => IInv
  <2> SUFFICES ASSUME Init PROVE IInv
    OBVIOUS
  <2>1. TypeOK
    BY DEF Init, TypeOK, JobState, WorkerPC
  <2>2. OneWorker /\ LockInv /\ FileInv
    BY DEF Init, OneWorker, LockInv, FileInv, BusyPC, InHand
  <2>3. RunInv /\ RaceInv /\ DirtyInv
    BY DEF Init, RunInv, RaceInv, DirtyInv, AtMostOnce, NoRacingMaintenance,
           InterruptedInhibits
  <2> QED BY <2>1, <2>2, <2>3 DEF IInv
<1>2. IInv /\ [Next]_vars => IInv'
  BY NextTyped, NextOneWorker, NextLock, NextFile, NextRun, NextRace, NextDirty
     DEF IInv
<1> QED BY <1>1, <1>2, PTL DEF Spec

\* Every variable of the queue stays in its range.
THEOREM TypeCorrect == Spec => []TypeOK
<1>1. IInv => TypeOK
  BY DEF IInv
<1> QED BY <1>1, Invariance, PTL

\* The steps of a job are started at most once, whatever crashes, is reaped or
\* is removed: an update or a restart is never repeated by the next worker.
THEOREM RunsAtMostOnce == Spec => []AtMostOnce
<1>1. IInv => AtMostOnce
  BY DEF IInv, RunInv
<1> QED BY <1>1, Invariance, PTL

\* No two maintenances have live processes, those that outlived their worker
\* included.
THEOREM MaintenancesDoNotRace == Spec => []NoRacingMaintenance
<1>1. IInv => NoRacingMaintenance
  BY DEF IInv, RaceInv
<1> QED BY <1>1, Invariance, PTL

\* After a maintenance that failed or lost its worker, the status is not idle
\* until an acknowledgement, whichever writes of the bookkeeping failed.
THEOREM FailureInhibits == Spec => []InterruptedInhibits
<1>1. IInv => InterruptedInhibits
  BY DEF IInv, DirtyInv
<1> QED BY <1>1, Invariance, PTL

\* A finished job stays as it is until its file goes.
THEOREM FinishedStaysFinished == Spec => TerminalIsFinal
<1>1. IInv /\ [Next]_vars
      => [\A j \in Job : state[j] \in Terminal => state'[j] \in {state[j], "gone"}]_state
  <2> SUFFICES ASSUME IInv, [Next]_vars, NEW i \in Job, state[i] \in Terminal
               PROVE  state'[i] \in {state[i], "gone"}
    OBVIOUS
  <2> DEFINE G == state'[i] \in {state[i], "gone"}
  <2> USE DEF IInv, TypeOK, LockInv, FileInv, BusyPC, InHand, Terminal, Unfinished,
              vars, webVars, workerVars, lifeVars, stepVars, Goto, Busy
  <2>1. ASSUME NEW j \in Job, Admit(j) PROVE G
    BY <2>1 DEF Admit
  <2>2. ASSUME NEW j \in Job, Mint(j) PROVE G
    BY <2>2 DEF Mint
  <2>3. ASSUME NEW j \in Job, Store(j) PROVE G
    BY <2>3 DEF Store
  <2>4. ASSUME NEW w \in Worker, NEW mode \in {"daemon", "once", "reap"}, Start(w, mode) PROVE G
    BY <2>4 DEF Start, NoWorker, Mishap
  <2>5. ASSUME NEW w \in Worker, InitRuntime(w) PROVE G
    BY <2>5 DEF InitRuntime
  <2>6. ASSUME NEW w \in Worker, ReapScrub(w) PROVE G
    BY <2>6 DEF ReapScrub, ScrubbedOnReap
  <2>7. ASSUME NEW w \in Worker, ReapFail(w) PROVE G
    BY <2>7 DEF ReapFail, Reaped
  <2>8. ASSUME NEW w \in Worker, ReapMark(w) PROVE G
    BY <2>8 DEF ReapMark
  <2>9. ASSUME NEW w \in Worker, ReapDone(w) PROVE G
    BY <2>9 DEF ReapDone, Exit
  <2>10. ASSUME NEW w \in Worker, ReapRaises(w) PROVE G
    BY <2>10 DEF ReapRaises, Exit
  <2>11. ASSUME NEW w \in Worker, Pick(w) PROVE G
    BY <2>11 DEF Pick
  <2>12. ASSUME NEW w \in Worker, Claim(w) PROVE G
    BY <2>12 DEF Claim
  <2>13. ASSUME NEW w \in Worker, Validate(w) PROVE G
    BY <2>13 DEF Validate, Refuse, Fail
  <2>14. ASSUME NEW w \in Worker, Acquire(w) PROVE G
    BY <2>14 DEF Acquire, Refuse, Fail, FreeLife
  <2>15. ASSUME NEW w \in Worker, Begin(w) PROVE G
    BY <2>15 DEF Begin, Fail
  <2>16. ASSUME NEW w \in Worker, Run(w) PROVE G
    BY <2>16 DEF Run
  <2>17. ASSUME NEW w \in Worker, RunEnds(w) PROVE G
    BY <2>17 DEF RunEnds
  <2>18. ASSUME NEW w \in Worker, Mark(w) PROVE G
    BY <2>18 DEF Mark, Completed
  <2>19. ASSUME NEW w \in Worker, Release(w) PROVE G
    BY <2>19 DEF Release, Released
  <2>20. ASSUME NEW w \in Worker, Scrub(w) PROVE G
    BY <2>20 DEF Scrub
  <2>21. ASSUME NEW w \in Worker, Finish(w) PROVE G
    BY <2>21 DEF Finish
  <2>22. ASSUME NEW w \in Worker, ErrMark(w) PROVE G
    BY <2>22 DEF ErrMark
  <2>23. ASSUME NEW w \in Worker, ErrScrub(w) PROVE G
    BY <2>23 DEF ErrScrub
  <2>24. ASSUME NEW w \in Worker, ErrFinish(w) PROVE G
    BY <2>24 DEF ErrFinish
  <2>25. ASSUME NEW w \in Worker, Prune(w) PROVE G
    BY <2>25, Window DEF Prune, Exit
  <2>26. ASSUME NEW j \in Job, StepEnds(j) PROVE G
    BY <2>26 DEF StepEnds
  <2>27. ASSUME NEW j \in Job, Vanish(j) PROVE G
    BY <2>27 DEF Vanish, Files, Mishap
  <2>28. ASSUME NEW w \in Worker, Crash(w) PROVE G
    BY <2>28 DEF Crash, Exit, Mishap
  <2>29. ASSUME WebCrash PROVE G
    BY <2>29 DEF WebCrash, Mishap
  <2>30. ASSUME Acknowledge PROVE G
    BY <2>30 DEF Acknowledge, FreeLife
  <2>31. CASE UNCHANGED vars
    BY <2>31
  <2> QED BY <2>1, <2>2, <2>3, <2>4, <2>5, <2>6, <2>7, <2>8, <2>9, <2>10, <2>11,
       <2>12, <2>13, <2>14, <2>15, <2>16, <2>17, <2>18, <2>19, <2>20, <2>21,
       <2>22, <2>23, <2>24, <2>25, <2>26, <2>27, <2>28, <2>29, <2>30, <2>31 DEF
       Next, WorkerStep
<1> QED BY <1>1, Invariance, PTL DEF Spec, TerminalIsFinal

-----------------------------------------------------------------------------
(* Order.  The worker sees the newest ScanLimit files.                      *)

\* Sequence numbers grow with time, and whatever waited when a job was minted
\* has an older one; a job is picked when nothing of that waits any more.
OrderInv ==
  /\ \A j \in Job : seq[j] <= clock
  /\ \A j \in Job : state[j] \in {"unsent", "admitted"} => before[j] = {}
  /\ \A j \in Job : \A k \in before[j] :
       seq[k] < seq[j] /\ state[k] \notin {"unsent", "admitted", "minted"}
  /\ OldestFirst
  /\ \A w \in Worker, j \in Job : wjob[w] = {j} /\ wpc[w] = "claim" =>
       \A k \in before[j] : state[k] # "queued"

\* A window that is at least as large as the number of jobs shows every file.
LEMMA WholeWindow ==
  ASSUME TypeOK, IsFiniteSet(Job), Cardinality(Job) <= ScanLimit
  PROVE  Queued = {j \in Job : state[j] = "queued"}
<1>1. ASSUME NEW j \in Job, state[j] = "queued" PROVE j \in Listed(ScanLimit)
  <2> DEFINE Newer == {k \in Files : seq[k] > seq[j]}
  <2>1. Newer \subseteq Job \ {j}
    BY DEF Files, TypeOK
  <2>2. /\ IsFiniteSet(Job \ {j})
        /\ Cardinality(Job \ {j}) = Cardinality(Job) - 1
    BY <1>1, FS_RemoveElement
  <2>3. IsFiniteSet(Newer) /\ Cardinality(Newer) <= Cardinality(Job \ {j})
    BY <2>1, <2>2, FS_Subset
  <2>4. Cardinality(Job) \in Nat /\ Cardinality(Newer) \in Nat
    BY <2>3, FS_CardinalityType
  <2>5. Cardinality(Newer) < ScanLimit
    BY <2>2, <2>3, <2>4, LimitAssumption
  <2>6. j \in Files
    BY <1>1 DEF Files, Unfinished
  <2> QED BY <2>5, <2>6 DEF Listed
<1>2. Queued \subseteq {j \in Job : state[j] = "queued"}
  BY Window
<1> QED BY <1>1, <1>2 DEF Queued

\* Every step keeps the order, if the window shows every file.
LEMMA NextOrder ==
  ASSUME IsFiniteSet(Job), Cardinality(Job) <= ScanLimit,
         TypeOK, OneWorker, LockInv, FileInv, OrderInv, [Next]_vars
  PROVE  OrderInv'
<1> USE DEF TypeOK, OneWorker, LockInv, FileInv, OrderInv, OldestFirst, BusyPC, InHand, Terminal, Unfinished, vars, webVars, workerVars, lifeVars, stepVars, Goto, Busy
<1>1. ASSUME NEW j \in Job, Admit(j) PROVE OrderInv'
  BY <1>1 DEF Admit
<1>2. ASSUME NEW j \in Job, Mint(j) PROVE OrderInv'
  BY <1>2 DEF Mint
<1>3. ASSUME NEW j \in Job, Store(j) PROVE OrderInv'
  BY <1>3 DEF Store
<1>4. ASSUME NEW w \in Worker, NEW mode \in {"daemon", "once", "reap"}, Start(w, mode) PROVE OrderInv'
  BY <1>4 DEF Start, NoWorker, Mishap
<1>5. ASSUME NEW w \in Worker, InitRuntime(w) PROVE OrderInv'
  BY <1>5 DEF InitRuntime
<1>6. ASSUME NEW w \in Worker, ReapScrub(w) PROVE OrderInv'
  BY <1>6, Window DEF ReapScrub, ScrubbedOnReap
<1>7. ASSUME NEW w \in Worker, ReapFail(w) PROVE OrderInv'
  BY <1>7 DEF ReapFail, Reaped
<1>8. ASSUME NEW w \in Worker, ReapMark(w) PROVE OrderInv'
  BY <1>8 DEF ReapMark
<1>9. ASSUME NEW w \in Worker, ReapDone(w) PROVE OrderInv'
  BY <1>9 DEF ReapDone, Exit
<1>10. ASSUME NEW w \in Worker, ReapRaises(w) PROVE OrderInv'
  BY <1>10 DEF ReapRaises, Exit
<1>11. ASSUME NEW w \in Worker, Pick(w) PROVE OrderInv'
  <2>1. Queued = {k \in Job : state[k] = "queued"}
    BY WholeWindow
  <2>2. /\ UNCHANGED <<state, seq, clock, before>>
        /\ wpc[w] = "poll" /\ wpc' = [wpc EXCEPT ![w] = wpc'[w]]
        /\ wpc'[w] \in {"claim", "prune"}
    BY <1>11 DEF Pick
  <2>3. ASSUME NEW v \in Worker, NEW i \in Job, wjob'[v] = {i}, wpc'[v] = "claim",
               NEW k \in before[i]
        PROVE  state[k] # "queued"
    <3>1. v = w
      BY <1>11, <2>2, <2>3
    <3>2. PICK j \in Queued : Oldest(j, Queued) /\ wjob' = [wjob EXCEPT ![w] = {j}]
      BY <1>11, <2>3, <3>1 DEF Pick
    <3>3. i = j
      BY <2>3, <3>1, <3>2
    <3>4. k \in Job /\ seq[k] < seq[j]
      BY <3>3
    <3> QED BY <2>1, <3>2, <3>4 DEF Oldest
  <2> QED BY <2>2, <2>3
<1>12. ASSUME NEW w \in Worker, Claim(w) PROVE OrderInv'
  <2>1. PICK j \in Job :
          /\ wjob[w] = {j}
          /\ \/ state' = [state EXCEPT ![j] = "running"]
             \/ state' = state
    BY <1>12 DEF Claim
  <2>2. /\ UNCHANGED <<seq, clock, before, wjob>> /\ wpc[w] = "claim"
        /\ wpc' = [wpc EXCEPT ![w] = wpc'[w]] /\ wpc'[w] \in {"claimed", "prune"}
    BY <1>12 DEF Claim
  <2>3. state[j] \in {"queued", "gone"} /\ \A k \in before[j] : state[k] # "queued"
    BY <2>1, <2>2
  <2>4. \A k \in Job : state'[k] \in {state[k], "running"}
    BY <2>1
  <2>5. \A k \in Job : state'[k] # state[k] => k = j
    BY <2>1
  <2> QED BY <2>2, <2>3, <2>4, <2>5
<1>13. ASSUME NEW w \in Worker, Validate(w) PROVE OrderInv'
  BY <1>13 DEF Validate, Refuse, Fail
<1>14. ASSUME NEW w \in Worker, Acquire(w) PROVE OrderInv'
  BY <1>14 DEF Acquire, Refuse, Fail, FreeLife
<1>15. ASSUME NEW w \in Worker, Begin(w) PROVE OrderInv'
  BY <1>15 DEF Begin, Fail
<1>16. ASSUME NEW w \in Worker, Run(w) PROVE OrderInv'
  BY <1>16 DEF Run
<1>17. ASSUME NEW w \in Worker, RunEnds(w) PROVE OrderInv'
  BY <1>17 DEF RunEnds
<1>18. ASSUME NEW w \in Worker, Mark(w) PROVE OrderInv'
  BY <1>18 DEF Mark, Completed
<1>19. ASSUME NEW w \in Worker, Release(w) PROVE OrderInv'
  BY <1>19 DEF Release, Released
<1>20. ASSUME NEW w \in Worker, Scrub(w) PROVE OrderInv'
  BY <1>20 DEF Scrub
<1>21. ASSUME NEW w \in Worker, Finish(w) PROVE OrderInv'
  BY <1>21 DEF Finish
<1>22. ASSUME NEW w \in Worker, ErrMark(w) PROVE OrderInv'
  BY <1>22 DEF ErrMark
<1>23. ASSUME NEW w \in Worker, ErrScrub(w) PROVE OrderInv'
  BY <1>23 DEF ErrScrub
<1>24. ASSUME NEW w \in Worker, ErrFinish(w) PROVE OrderInv'
  BY <1>24 DEF ErrFinish
<1>25. ASSUME NEW w \in Worker, Prune(w) PROVE OrderInv'
  BY <1>25, Window DEF Prune, Exit
<1>26. ASSUME NEW j \in Job, StepEnds(j) PROVE OrderInv'
  BY <1>26 DEF StepEnds
<1>27. ASSUME NEW j \in Job, Vanish(j) PROVE OrderInv'
  BY <1>27 DEF Vanish, Files, Mishap
<1>28. ASSUME NEW w \in Worker, Crash(w) PROVE OrderInv'
  BY <1>28 DEF Crash, Exit, Mishap
<1>29. ASSUME WebCrash PROVE OrderInv'
  BY <1>29 DEF WebCrash, Mishap
<1>30. ASSUME Acknowledge PROVE OrderInv'
  BY <1>30 DEF Acknowledge, FreeLife
<1>31. CASE UNCHANGED vars
  BY <1>31
<1> QED BY <1>1, <1>2, <1>3, <1>4, <1>5, <1>6, <1>7, <1>8, <1>9, <1>10, <1>11,
     <1>12, <1>13, <1>14, <1>15, <1>16, <1>17, <1>18, <1>19, <1>20, <1>21,
     <1>22, <1>23, <1>24, <1>25, <1>26, <1>27, <1>28, <1>29, <1>30, <1>31 DEF
     Next, WorkerStep

\* A job is never claimed while one waits that was queued before it was minted:
\* the order of submission, as long as the scan of the worker shows every file.
THEOREM SubmissionOrder ==
  ASSUME IsFiniteSet(Job), Cardinality(Job) <= ScanLimit
  PROVE  Spec => []OldestFirst
<1>1. Init => OrderInv
  BY DEF Init, OrderInv, OldestFirst, Terminal
<1>2. IInv /\ OrderInv /\ [Next]_vars => OrderInv'
  BY NextOrder DEF IInv
<1>3. OrderInv => OldestFirst
  BY DEF OrderInv
<1> QED BY <1>1, <1>2, <1>3, Invariance, PTL DEF Spec

-----------------------------------------------------------------------------
(* Tokens, while writes succeed.                                            *)

\* A file that holds a token waits or runs, and the job in hand has lost its
\* token by the time its file becomes terminal.
TokenInv ==
  /\ \A j \in token : state[j] \in {"queued", "running"}
  /\ \A w \in Worker, j \in Job :
       wjob[w] = {j} /\ wpc[w] \in {"finish", "errFinish", "reapFail"} => j \notin token

\* Every step that does not fail to write keeps it.
LEMMA NextToken ==
  ~Faults /\ TypeOK /\ OneWorker /\ LockInv /\ FileInv /\ TokenInv /\ [Next]_vars => TokenInv'
<1> SUFFICES ASSUME ~Faults, TypeOK, OneWorker, LockInv, FileInv, TokenInv, [Next]_vars PROVE TokenInv'
  OBVIOUS
<1> USE DEF TypeOK, OneWorker, LockInv, FileInv, TokenInv, BusyPC, InHand, Terminal, Unfinished, vars, webVars, workerVars, lifeVars, stepVars, Goto, Busy
<1>1. ASSUME NEW j \in Job, Admit(j) PROVE TokenInv'
  BY <1>1 DEF Admit
<1>2. ASSUME NEW j \in Job, Mint(j) PROVE TokenInv'
  BY <1>2 DEF Mint
<1>3. ASSUME NEW j \in Job, Store(j) PROVE TokenInv'
  BY <1>3 DEF Store
<1>4. ASSUME NEW w \in Worker, NEW mode \in {"daemon", "once", "reap"}, Start(w, mode) PROVE TokenInv'
  BY <1>4 DEF Start, NoWorker, Mishap
<1>5. ASSUME NEW w \in Worker, InitRuntime(w) PROVE TokenInv'
  BY <1>5 DEF InitRuntime
<1>6. ASSUME NEW w \in Worker, ReapScrub(w) PROVE TokenInv'
  <2>1. PICK j \in Orphans : wjob' = [wjob EXCEPT ![w] = {j}] /\ token' = token \ {j}
    BY <1>6 DEF ReapScrub, ScrubbedOnReap
  <2> QED BY <1>6, <2>1 DEF ReapScrub
<1>7. ASSUME NEW w \in Worker, ReapFail(w) PROVE TokenInv'
  BY <1>7 DEF ReapFail, Reaped
<1>8. ASSUME NEW w \in Worker, ReapMark(w) PROVE TokenInv'
  BY <1>8 DEF ReapMark
<1>9. ASSUME NEW w \in Worker, ReapDone(w) PROVE TokenInv'
  BY <1>9 DEF ReapDone, Exit
<1>10. ASSUME NEW w \in Worker, ReapRaises(w) PROVE TokenInv'
  BY <1>10 DEF ReapRaises, Exit
<1>11. ASSUME NEW w \in Worker, Pick(w) PROVE TokenInv'
  BY <1>11, Window DEF Pick
<1>12. ASSUME NEW w \in Worker, Claim(w) PROVE TokenInv'
  BY <1>12 DEF Claim
<1>13. ASSUME NEW w \in Worker, Validate(w) PROVE TokenInv'
  BY <1>13 DEF Validate, Refuse, Fail
<1>14. ASSUME NEW w \in Worker, Acquire(w) PROVE TokenInv'
  BY <1>14 DEF Acquire, Refuse, Fail, FreeLife
<1>15. ASSUME NEW w \in Worker, Begin(w) PROVE TokenInv'
  BY <1>15 DEF Begin, Fail
<1>16. ASSUME NEW w \in Worker, Run(w) PROVE TokenInv'
  BY <1>16 DEF Run
<1>17. ASSUME NEW w \in Worker, RunEnds(w) PROVE TokenInv'
  BY <1>17 DEF RunEnds
<1>18. ASSUME NEW w \in Worker, Mark(w) PROVE TokenInv'
  BY <1>18 DEF Mark, Completed
<1>19. ASSUME NEW w \in Worker, Release(w) PROVE TokenInv'
  BY <1>19 DEF Release, Released
<1>20. ASSUME NEW w \in Worker, Scrub(w) PROVE TokenInv'
  BY <1>20 DEF Scrub
<1>21. ASSUME NEW w \in Worker, Finish(w) PROVE TokenInv'
  BY <1>21 DEF Finish
<1>22. ASSUME NEW w \in Worker, ErrMark(w) PROVE TokenInv'
  BY <1>22 DEF ErrMark
<1>23. ASSUME NEW w \in Worker, ErrScrub(w) PROVE TokenInv'
  BY <1>23 DEF ErrScrub
<1>24. ASSUME NEW w \in Worker, ErrFinish(w) PROVE TokenInv'
  BY <1>24 DEF ErrFinish
<1>25. ASSUME NEW w \in Worker, Prune(w) PROVE TokenInv'
  BY <1>25, Window DEF Prune, Exit
<1>26. ASSUME NEW j \in Job, StepEnds(j) PROVE TokenInv'
  BY <1>26 DEF StepEnds
<1>27. ASSUME NEW j \in Job, Vanish(j) PROVE TokenInv'
  BY <1>27 DEF Vanish, Files, Mishap
<1>28. ASSUME NEW w \in Worker, Crash(w) PROVE TokenInv'
  BY <1>28 DEF Crash, Exit, Mishap
<1>29. ASSUME WebCrash PROVE TokenInv'
  BY <1>29 DEF WebCrash, Mishap
<1>30. ASSUME Acknowledge PROVE TokenInv'
  BY <1>30 DEF Acknowledge, FreeLife
<1>31. CASE UNCHANGED vars
  BY <1>31
<1> QED BY <1>1, <1>2, <1>3, <1>4, <1>5, <1>6, <1>7, <1>8, <1>9, <1>10, <1>11,
     <1>12, <1>13, <1>14, <1>15, <1>16, <1>17, <1>18, <1>19, <1>20, <1>21,
     <1>22, <1>23, <1>24, <1>25, <1>26, <1>27, <1>28, <1>29, <1>30, <1>31 DEF
     Next, WorkerStep

\* No finished job keeps a knock token, whatever crashes or is removed, as long
\* as no write fails.
THEOREM TokensAreScrubbed ==
  ASSUME ~Faults
  PROVE  Spec => []NoTokenInHistory
<1>1. Init => TokenInv
  BY DEF Init, TokenInv
<1>2. IInv /\ TokenInv /\ [Next]_vars => TokenInv'
  BY NextToken DEF IInv
<1>3. TypeOK /\ TokenInv => NoTokenInHistory
  BY DEF TypeOK, TokenInv, NoTokenInHistory, Terminal
<1> QED BY <1>1, <1>2, <1>3, TypeCorrect, Invariance, PTL DEF Spec
=============================================================================
