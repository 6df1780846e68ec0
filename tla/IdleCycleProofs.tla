--------------------------- MODULE IdleCycleProofs ---------------------------
(* Theorems about IdleCycle, for every number of overlapping samplers,      *)
(* every timeout and every gap: an empty interval is that of the newest     *)
(* answer, it is as long as the watcher takes it to be, a policy that was   *)
(* switched off stops nothing, and the knock listener never has the port of *)
(* a game that is up.                                                       *)
EXTENDS IdleCycle, TLAPS

-----------------------------------------------------------------------------
(* The inductive invariant.                                                 *)

\* Who owns the lifecycle lock: the watcher from its recheck on, also when only
\* its graceful-stop is left, and the listener during a lease.
LockInv ==
  /\ wpc \notin {"off", "acquire"} => lock = Watch
  /\ kpc # "off" => lock = "knock"

\* An armed listener has found the game confirmed stopped.
PortInv == kpc = "armed" => svc = "stopped"

\* The interval is not longer than the time that passed under empty answers,
\* but for what the clock was set forward.
IntervalInv == since # None => clean + jump >= since

\* What the watcher knows of a policy that is off since before its publication.
PolicyInv ==
  /\ revoked => idle = 0
  /\ wpc = "evidence" => ~revoked

IInv == TypeOK /\ LockInv /\ PortInv /\ NewestAnswerRules /\ IntervalInv /\ PolicyInv

-----------------------------------------------------------------------------
(* Ages.                                                                    *)

\* What the wall clock makes of an age: it stays one, NULL stays NULL, and it
\* grows by no more than the clock is set forward.
LEMMA MovedAge ==
  ASSUME NEW a \in Age \cup {None}, NEW d \in {-1, 1}, NEW b \in Moved(a, d)
  PROVE  /\ b \in Age \cup {None}
         /\ b = None <=> a = None
         /\ a # None /\ d = 1 => b <= a + 1
         /\ a # None /\ d = -1 => b <= a
<1> USE GapAssumption DEF Age, None
<1>1. CASE a = None
  BY <1>1 DEF Moved
<1>2. CASE a = Cap /\ d < 0
  BY <1>2 DEF Moved
<1>3. CASE a = -1 /\ d > 0
  BY <1>3 DEF Moved
<1>4. CASE a # None /\ ~(a = Cap /\ d < 0) /\ ~(a = -1 /\ d > 0)
  BY <1>4 DEF Moved
<1> QED BY <1>1, <1>2, <1>3, <1>4

\* A step of the wall clock.
LEMMA ClockAges ==
  ASSUME TypeOK, NEW d \in {-1, 1}, WallClock(d)
  PROVE  /\ uptime' \in Age /\ last' \in Age \cup {None} /\ since' \in Age \cup {None}
         /\ since' = None <=> since = None
         /\ since # None => since' <= IF d = 1 THEN since + 1 ELSE since
<1>1. uptime' \in Age
  <2>1. uptime \in Age /\ uptime # None
    BY DEF TypeOK, Age, None
  <2>2. CASE svc = "running"
    BY <2>1, <2>2, MovedAge DEF WallClock
  <2>3. CASE svc # "running"
    BY <2>3, GapAssumption DEF WallClock, Age
  <2> QED BY <2>2, <2>3
<1>2. last' \in Age \cup {None}
  BY MovedAge DEF WallClock, TypeOK
<1>3. since \in Age \cup {None} /\ since' \in Moved(since, d)
  BY DEF WallClock, TypeOK
<1>4. /\ since' \in Age \cup {None}
      /\ since' = None <=> since = None
      /\ since # None /\ d = 1 => since' <= since + 1
      /\ since # None /\ d = -1 => since' <= since
  BY <1>3, MovedAge
<1> QED BY <1>1, <1>2, <1>4

-----------------------------------------------------------------------------
(* Answers.                                                                 *)

\* What is stored, in or out of order, starts an interval with its history, or
\* goes on with both.
LEMMA Stores ==
  ASSUME TypeOK, NewestAnswerRules, IntervalInv, NEW o, NEW what,
         Applied(o, what), Recorded(o, what)
  PROVE  IntervalInv'
<1> USE DEF Applied, Recorded, Superseded, IntervalInv, presence
<1> SUFFICES ASSUME since' # None PROVE clean' + jump' >= since'
  OBVIOUS
<1>1. CASE o \in outdated
  BY <1>1
<1>2. CASE o \notin outdated /\ Kept
  <2>1. what = "empty" /\ since' = since /\ since # None /\ last <= MaxGap /\ last \in 0..MaxGap
    BY <1>2 DEF Kept
  <2>2. newest = "empty"
    BY <2>1 DEF NewestAnswerRules
  <2> QED BY <1>2, <2>1, <2>2
<1>3. CASE o \notin outdated /\ ~Kept
  <2>1. since' = 0
    BY <1>3
  <2>2. clean' \in Nat /\ jump' \in Nat
    BY <1>3, GapAssumption DEF TypeOK
  <2>3. \A a, b \in Nat : a + b >= 0
    OBVIOUS
  <2> QED BY <2>1, <2>2, <2>3, ZenonT(20)
<1> QED BY <1>1, <1>2, <1>3

\* What is not stored ends the interval, or nothing.
LEMMA Invalidates ==
  ASSUME IntervalInv, Invalidated
  PROVE  IntervalInv'
BY DEF Invalidated, IntervalInv, presence

-----------------------------------------------------------------------------
(* One step.                                                                *)

\* Every step preserves the types.
LEMMA NextTyped == TypeOK /\ [Next]_vars => TypeOK'
<1> SUFFICES ASSUME TypeOK, [Next]_vars PROVE TypeOK'
  OBVIOUS
<1> USE DEF TypeOK, Observer, Packet, Age, None, vars, presence, order,
     policy, service, knocker, history, SamplerFrame, WatchFrame,
     NoObservation, KnockFrame, OtherFrame, WatchGoto, Goto
<1> USE GapAssumption, TimeoutAssumption, KnockingAssumption
<1>1. ASSUME NEW s \in Sampler, Reserve(s) PROVE TypeOK'
  <2>1. online' \in BOOLEAN /\ valid' \in BOOLEAN /\ revoked' \in BOOLEAN
    BY <1>1 DEF Reserve, Reserved, Invalidated, Pending
  <2>2. uptime' \in Age /\ last' \in Age \cup {None} /\ since' \in Age \cup {None} /\ clean' \in 0..Cap /\ jump' \in 0..Cap
    BY <1>1 DEF Reserve, Reserved, Invalidated, Pending
  <2>3. before' \in [Observer -> SUBSET Observer] /\ outdated' \subseteq Observer
    BY <1>1 DEF Reserve, Reserved, Invalidated, Pending
  <2> QED BY <1>1, <2>1, <2>2, <2>3 DEF Reserve, Reserved, Invalidated, Pending
<1>2. ASSUME NEW s \in Sampler, Apply(s) PROVE TypeOK'
  <2>1. online' \in BOOLEAN /\ valid' \in BOOLEAN /\ revoked' \in BOOLEAN
    BY <1>2 DEF Apply, Applied, Recorded, Invalidated, Over, Superseded
  <2>2. uptime' \in Age /\ last' \in Age \cup {None} /\ since' \in Age \cup {None} /\ clean' \in 0..Cap /\ jump' \in 0..Cap
    BY <1>2 DEF Apply, Applied, Recorded, Invalidated, Over, Superseded
  <2>3. before' \in [Observer -> SUBSET Observer] /\ outdated' \subseteq Observer
    BY <1>2 DEF Apply, Applied, Recorded, Invalidated, Over, Superseded
  <2> QED BY <1>2, <2>1, <2>2, <2>3 DEF Apply, Applied, Recorded, Invalidated, Over, Superseded
<1>3. ASSUME NEW o \in Observer, Fetch(o) PROVE TypeOK'
  BY <1>3 DEF Fetch, Answers
<1>4. ASSUME Look PROVE TypeOK'
  BY <1>4 DEF Look
<1>5. ASSUME WatchAcquire PROVE TypeOK'
  BY <1>5 DEF WatchAcquire
<1>6. ASSUME WatchRecheck PROVE TypeOK'
  <2>1. online' \in BOOLEAN /\ valid' \in BOOLEAN /\ revoked' \in BOOLEAN
    BY <1>6 DEF WatchRecheck, Reserved, Pending
  <2>2. uptime' \in Age /\ last' \in Age \cup {None} /\ since' \in Age \cup {None} /\ clean' \in 0..Cap /\ jump' \in 0..Cap
    BY <1>6 DEF WatchRecheck, Reserved, Pending
  <2>3. before' \in [Observer -> SUBSET Observer] /\ outdated' \subseteq Observer
    BY <1>6 DEF WatchRecheck, Reserved, Pending
  <2> QED BY <1>6, <2>1, <2>2, <2>3 DEF WatchRecheck, Reserved, Pending
<1>7. ASSUME WatchApply PROVE TypeOK'
  <2>1. online' \in BOOLEAN /\ valid' \in BOOLEAN /\ revoked' \in BOOLEAN
    BY <1>7 DEF WatchApply, Applied, Recorded, Invalidated, Over, Superseded
  <2>2. uptime' \in Age /\ last' \in Age \cup {None} /\ since' \in Age \cup {None} /\ clean' \in 0..Cap /\ jump' \in 0..Cap
    BY <1>7 DEF WatchApply, Applied, Recorded, Invalidated, Over, Superseded
  <2>3. before' \in [Observer -> SUBSET Observer] /\ outdated' \subseteq Observer
    BY <1>7 DEF WatchApply, Applied, Recorded, Invalidated, Over, Superseded
  <2> QED BY <1>7, <2>1, <2>2, <2>3 DEF WatchApply, Applied, Recorded, Invalidated, Over, Superseded
<1>8. ASSUME WatchGate PROVE TypeOK'
  BY <1>8 DEF WatchGate
<1>9. ASSUME WatchPublish PROVE TypeOK'
  <2>1. online' \in BOOLEAN /\ valid' \in BOOLEAN /\ revoked' \in BOOLEAN
    BY <1>9 DEF WatchPublish, Published
  <2>2. uptime' \in Age /\ last' \in Age \cup {None} /\ since' \in Age \cup {None} /\ clean' \in 0..Cap /\ jump' \in 0..Cap
    BY <1>9 DEF WatchPublish, Published
  <2>3. before' \in [Observer -> SUBSET Observer] /\ outdated' \subseteq Observer
    BY <1>9 DEF WatchPublish, Published
  <2> QED BY <1>9, <2>1, <2>2, <2>3 DEF WatchPublish, Published
<1>10. ASSUME WatchPolicy PROVE TypeOK'
  BY <1>10 DEF WatchPolicy, PolicyStillAllows, PolicyAllows
<1>11. ASSUME WatchEvidence PROVE TypeOK'
  BY <1>11 DEF WatchEvidence, Dispatch
<1>12. ASSUME WatchStop PROVE TypeOK'
  BY <1>12 DEF WatchStop
<1>13. ASSUME WatchComplete PROVE TypeOK'
  BY <1>13 DEF WatchComplete
<1>14. ASSUME WatchLeave PROVE TypeOK'
  <2>1. online' \in BOOLEAN /\ valid' \in BOOLEAN /\ revoked' \in BOOLEAN
    BY <1>14 DEF WatchLeave
  <2>2. uptime' \in Age /\ last' \in Age \cup {None} /\ since' \in Age \cup {None} /\ clean' \in 0..Cap /\ jump' \in 0..Cap
    BY <1>14 DEF WatchLeave
  <2>3. before' \in [Observer -> SUBSET Observer] /\ outdated' \subseteq Observer
    BY <1>14 DEF WatchLeave
  <2> QED BY <1>14, <2>1, <2>2, <2>3 DEF WatchLeave
<1>15. ASSUME WatchDies PROVE TypeOK'
  <2>1. online' \in BOOLEAN /\ valid' \in BOOLEAN /\ revoked' \in BOOLEAN
    BY <1>15 DEF WatchDies, Over
  <2>2. uptime' \in Age /\ last' \in Age \cup {None} /\ since' \in Age \cup {None} /\ clean' \in 0..Cap /\ jump' \in 0..Cap
    BY <1>15 DEF WatchDies, Over
  <2>3. before' \in [Observer -> SUBSET Observer] /\ outdated' \subseteq Observer
    BY <1>15 DEF WatchDies, Over
  <2> QED BY <1>15, <2>1, <2>2, <2>3 DEF WatchDies, Over
<1>16. ASSUME OrphanEnds PROVE TypeOK'
  BY <1>16 DEF OrphanEnds
<1>17. ASSUME Lease PROVE TypeOK'
  BY <1>17 DEF Lease
<1>18. ASSUME Arm PROVE TypeOK'
  BY <1>18 DEF Arm, Arms
<1>19. ASSUME Receive PROVE TypeOK'
  BY <1>19 DEF Receive
<1>20. ASSUME LeaseEnds PROVE TypeOK'
  BY <1>20 DEF LeaseEnds
<1>21. ASSUME Revalidate PROVE TypeOK'
  BY <1>21 DEF Revalidate
<1>22. ASSUME KnockStart PROVE TypeOK'
  BY <1>22 DEF KnockStart
<1>23. ASSUME KnockLeave PROVE TypeOK'
  BY <1>23 DEF KnockLeave
<1>24. ASSUME KnockDies PROVE TypeOK'
  BY <1>24 DEF KnockDies
<1>25. ASSUME OtherBegins PROVE TypeOK'
  BY <1>25 DEF OtherBegins, Published
<1>26. ASSUME OtherMoves PROVE TypeOK'
  <2>1. online' \in BOOLEAN /\ valid' \in BOOLEAN /\ revoked' \in BOOLEAN
    BY <1>26 DEF OtherMoves
  <2>2. uptime' \in Age /\ last' \in Age \cup {None} /\ since' \in Age \cup {None} /\ clean' \in 0..Cap /\ jump' \in 0..Cap
    BY <1>26 DEF OtherMoves
  <2>3. before' \in [Observer -> SUBSET Observer] /\ outdated' \subseteq Observer
    BY <1>26 DEF OtherMoves
  <2> QED BY <1>26, <2>1, <2>2, <2>3 DEF OtherMoves
<1>27. ASSUME OtherEnds PROVE TypeOK'
  BY <1>27 DEF OtherEnds
<1>28. ASSUME Acknowledge PROVE TypeOK'
  BY <1>28 DEF Acknowledge
<1>29. ASSUME Configure PROVE TypeOK'
  BY <1>29 DEF Configure
<1>30. ASSUME Play PROVE TypeOK'
  BY <1>30 DEF Play
<1>31. ASSUME GameStarts PROVE TypeOK'
  <2>1. online' \in BOOLEAN /\ valid' \in BOOLEAN /\ revoked' \in BOOLEAN
    BY <1>31 DEF GameStarts
  <2>2. uptime' \in Age /\ last' \in Age \cup {None} /\ since' \in Age \cup {None} /\ clean' \in 0..Cap /\ jump' \in 0..Cap
    BY <1>31 DEF GameStarts
  <2>3. before' \in [Observer -> SUBSET Observer] /\ outdated' \subseteq Observer
    BY <1>31 DEF GameStarts
  <2> QED BY <1>31, <2>1, <2>2, <2>3 DEF GameStarts
<1>32. ASSUME GameExits PROVE TypeOK'
  <2>1. online' \in BOOLEAN /\ valid' \in BOOLEAN /\ revoked' \in BOOLEAN
    BY <1>32 DEF GameExits
  <2>2. uptime' \in Age /\ last' \in Age \cup {None} /\ since' \in Age \cup {None} /\ clean' \in 0..Cap /\ jump' \in 0..Cap
    BY <1>32 DEF GameExits
  <2>3. before' \in [Observer -> SUBSET Observer] /\ outdated' \subseteq Observer
    BY <1>32 DEF GameExits
  <2> QED BY <1>32, <2>1, <2>2, <2>3 DEF GameExits
<1>33. ASSUME Tick PROVE TypeOK'
  <2>0. WallClock(1)
    BY <1>33 DEF Tick
  <2>1. online' \in BOOLEAN /\ valid' \in BOOLEAN /\ revoked' \in BOOLEAN
    BY <1>33, <2>0, ClockAges DEF Tick, Atmost
  <2>2. uptime' \in Age /\ last' \in Age \cup {None} /\ since' \in Age \cup {None} /\ clean' \in 0..Cap /\ jump' \in 0..Cap
    BY <1>33, <2>0, ClockAges DEF Tick, Atmost
  <2>3. before' \in [Observer -> SUBSET Observer] /\ outdated' \subseteq Observer
    BY <1>33, <2>0, ClockAges DEF Tick, Atmost
  <2> QED BY <1>33, <2>1, <2>2, <2>3 DEF Tick, Atmost
<1>34. ASSUME SetClock PROVE TypeOK'
  <2>0. WallClock(-1) \/ WallClock(1)
    BY <1>34 DEF SetClock
  <2>1. online' \in BOOLEAN /\ valid' \in BOOLEAN /\ revoked' \in BOOLEAN
    BY <1>34, <2>0, ClockAges DEF SetClock, Atmost
  <2>2. uptime' \in Age /\ last' \in Age \cup {None} /\ since' \in Age \cup {None} /\ clean' \in 0..Cap /\ jump' \in 0..Cap
    BY <1>34, <2>0, ClockAges DEF SetClock, Atmost
  <2>3. before' \in [Observer -> SUBSET Observer] /\ outdated' \subseteq Observer
    BY <1>34, <2>0, ClockAges DEF SetClock, Atmost
  <2> QED BY <1>34, <2>1, <2>2, <2>3 DEF SetClock, Atmost
<1>35. CASE UNCHANGED vars
  BY <1>35
<1> QED BY <1>1, <1>2, <1>3, <1>4, <1>5, <1>6, <1>7, <1>8, <1>9, <1>10, <1>11,
     <1>12, <1>13, <1>14, <1>15, <1>16, <1>17, <1>18, <1>19, <1>20, <1>21,
     <1>22, <1>23, <1>24, <1>25, <1>26, <1>27, <1>28, <1>29, <1>30, <1>31,
     <1>32, <1>33, <1>34, <1>35 DEF Next, WatchStep, KnockStep

\* The lifecycle lock.
LEMMA NextLock == TypeOK /\ LockInv /\ [Next]_vars => LockInv'
<1> SUFFICES ASSUME TypeOK, LockInv, [Next]_vars PROVE LockInv'
  OBVIOUS
<1> USE DEF LockInv, Watch, vars, presence, order, policy, service, knocker,
     history, SamplerFrame, WatchFrame, NoObservation, KnockFrame, OtherFrame,
     WatchGoto, Goto
<1>1. ASSUME NEW s \in Sampler, Reserve(s) PROVE LockInv'
  BY <1>1 DEF Reserve, Reserved, Invalidated
<1>2. ASSUME NEW s \in Sampler, Apply(s) PROVE LockInv'
  BY <1>2 DEF Apply, Applied, Recorded, Invalidated, Over, Superseded
<1>3. ASSUME NEW o \in Observer, Fetch(o) PROVE LockInv'
  BY <1>3 DEF Fetch, Answers
<1>4. ASSUME Look PROVE LockInv'
  BY <1>4 DEF Look
<1>5. ASSUME WatchAcquire PROVE LockInv'
  BY <1>5 DEF WatchAcquire
<1>6. ASSUME WatchRecheck PROVE LockInv'
  BY <1>6 DEF WatchRecheck, Reserved
<1>7. ASSUME WatchApply PROVE LockInv'
  BY <1>7 DEF WatchApply, Applied, Recorded, Invalidated, Over, Superseded
<1>8. ASSUME WatchGate PROVE LockInv'
  BY <1>8 DEF WatchGate
<1>9. ASSUME WatchPublish PROVE LockInv'
  BY <1>9 DEF WatchPublish, Published
<1>10. ASSUME WatchPolicy PROVE LockInv'
  BY <1>10 DEF WatchPolicy, PolicyStillAllows, PolicyAllows
<1>11. ASSUME WatchEvidence PROVE LockInv'
  BY <1>11 DEF WatchEvidence, Dispatch
<1>12. ASSUME WatchStop PROVE LockInv'
  BY <1>12 DEF WatchStop
<1>13. ASSUME WatchComplete PROVE LockInv'
  BY <1>13 DEF WatchComplete
<1>14. ASSUME WatchLeave PROVE LockInv'
  BY <1>14 DEF WatchLeave
<1>15. ASSUME WatchDies PROVE LockInv'
  BY <1>15 DEF WatchDies, Over
<1>16. ASSUME OrphanEnds PROVE LockInv'
  BY <1>16 DEF OrphanEnds
<1>17. ASSUME Lease PROVE LockInv'
  BY <1>17 DEF Lease
<1>18. ASSUME Arm PROVE LockInv'
  BY <1>18 DEF Arm, Arms
<1>19. ASSUME Receive PROVE LockInv'
  BY <1>19 DEF Receive
<1>20. ASSUME LeaseEnds PROVE LockInv'
  BY <1>20 DEF LeaseEnds
<1>21. ASSUME Revalidate PROVE LockInv'
  BY <1>21 DEF Revalidate
<1>22. ASSUME KnockStart PROVE LockInv'
  BY <1>22 DEF KnockStart
<1>23. ASSUME KnockLeave PROVE LockInv'
  BY <1>23 DEF KnockLeave
<1>24. ASSUME KnockDies PROVE LockInv'
  BY <1>24 DEF KnockDies
<1>25. ASSUME OtherBegins PROVE LockInv'
  BY <1>25 DEF OtherBegins, Published
<1>26. ASSUME OtherMoves PROVE LockInv'
  BY <1>26 DEF OtherMoves
<1>27. ASSUME OtherEnds PROVE LockInv'
  BY <1>27 DEF OtherEnds
<1>28. ASSUME Acknowledge PROVE LockInv'
  BY <1>28 DEF Acknowledge
<1>29. ASSUME Configure PROVE LockInv'
  BY <1>29 DEF Configure
<1>30. ASSUME Play PROVE LockInv'
  BY <1>30 DEF Play
<1>31. ASSUME GameStarts PROVE LockInv'
  BY <1>31 DEF GameStarts
<1>32. ASSUME GameExits PROVE LockInv'
  BY <1>32 DEF GameExits
<1>33. ASSUME Tick PROVE LockInv'
  BY <1>33 DEF Tick, WallClock, Atmost
<1>34. ASSUME SetClock PROVE LockInv'
  BY <1>34 DEF SetClock, WallClock, Atmost
<1>35. CASE UNCHANGED vars
  BY <1>35
<1> QED BY <1>1, <1>2, <1>3, <1>4, <1>5, <1>6, <1>7, <1>8, <1>9, <1>10, <1>11,
     <1>12, <1>13, <1>14, <1>15, <1>16, <1>17, <1>18, <1>19, <1>20, <1>21,
     <1>22, <1>23, <1>24, <1>25, <1>26, <1>27, <1>28, <1>29, <1>30, <1>31,
     <1>32, <1>33, <1>34, <1>35 DEF Next, WatchStep, KnockStep

\* The listener and the service.
LEMMA NextPort == TypeOK /\ LockInv /\ PortInv /\ [Next]_vars => PortInv'
<1> SUFFICES ASSUME TypeOK, LockInv, PortInv, [Next]_vars PROVE PortInv'
  OBVIOUS
<1> USE DEF LockInv, PortInv, Watch, vars, presence, order, policy, service,
     knocker, history, SamplerFrame, WatchFrame, NoObservation, KnockFrame,
     OtherFrame, WatchGoto, Goto
<1>1. ASSUME NEW s \in Sampler, Reserve(s) PROVE PortInv'
  BY <1>1 DEF Reserve, Reserved, Invalidated
<1>2. ASSUME NEW s \in Sampler, Apply(s) PROVE PortInv'
  BY <1>2 DEF Apply, Applied, Recorded, Invalidated, Over, Superseded
<1>3. ASSUME NEW o \in Observer, Fetch(o) PROVE PortInv'
  BY <1>3 DEF Fetch, Answers
<1>4. ASSUME Look PROVE PortInv'
  BY <1>4 DEF Look
<1>5. ASSUME WatchAcquire PROVE PortInv'
  BY <1>5 DEF WatchAcquire
<1>6. ASSUME WatchRecheck PROVE PortInv'
  BY <1>6 DEF WatchRecheck, Reserved
<1>7. ASSUME WatchApply PROVE PortInv'
  BY <1>7 DEF WatchApply, Applied, Recorded, Invalidated, Over, Superseded
<1>8. ASSUME WatchGate PROVE PortInv'
  BY <1>8 DEF WatchGate
<1>9. ASSUME WatchPublish PROVE PortInv'
  BY <1>9 DEF WatchPublish, Published
<1>10. ASSUME WatchPolicy PROVE PortInv'
  BY <1>10 DEF WatchPolicy, PolicyStillAllows, PolicyAllows
<1>11. ASSUME WatchEvidence PROVE PortInv'
  BY <1>11 DEF WatchEvidence, Dispatch
<1>12. ASSUME WatchStop PROVE PortInv'
  BY <1>12 DEF WatchStop
<1>13. ASSUME WatchComplete PROVE PortInv'
  BY <1>13 DEF WatchComplete
<1>14. ASSUME WatchLeave PROVE PortInv'
  BY <1>14 DEF WatchLeave
<1>15. ASSUME WatchDies PROVE PortInv'
  BY <1>15 DEF WatchDies, Over
<1>16. ASSUME OrphanEnds PROVE PortInv'
  BY <1>16 DEF OrphanEnds
<1>17. ASSUME Lease PROVE PortInv'
  BY <1>17 DEF Lease
<1>18. ASSUME Arm PROVE PortInv'
  BY <1>18 DEF Arm, Arms
<1>19. ASSUME Receive PROVE PortInv'
  BY <1>19 DEF Receive
<1>20. ASSUME LeaseEnds PROVE PortInv'
  BY <1>20 DEF LeaseEnds
<1>21. ASSUME Revalidate PROVE PortInv'
  BY <1>21 DEF Revalidate
<1>22. ASSUME KnockStart PROVE PortInv'
  BY <1>22 DEF KnockStart
<1>23. ASSUME KnockLeave PROVE PortInv'
  BY <1>23 DEF KnockLeave
<1>24. ASSUME KnockDies PROVE PortInv'
  BY <1>24 DEF KnockDies
<1>25. ASSUME OtherBegins PROVE PortInv'
  BY <1>25 DEF OtherBegins, Published
<1>26. ASSUME OtherMoves PROVE PortInv'
  BY <1>26 DEF OtherMoves
<1>27. ASSUME OtherEnds PROVE PortInv'
  BY <1>27 DEF OtherEnds
<1>28. ASSUME Acknowledge PROVE PortInv'
  BY <1>28 DEF Acknowledge
<1>29. ASSUME Configure PROVE PortInv'
  BY <1>29 DEF Configure
<1>30. ASSUME Play PROVE PortInv'
  BY <1>30 DEF Play
<1>31. ASSUME GameStarts PROVE PortInv'
  BY <1>31 DEF GameStarts
<1>32. ASSUME GameExits PROVE PortInv'
  BY <1>32 DEF GameExits
<1>33. ASSUME Tick PROVE PortInv'
  BY <1>33 DEF Tick, WallClock, Atmost
<1>34. ASSUME SetClock PROVE PortInv'
  BY <1>34 DEF SetClock, WallClock, Atmost
<1>35. CASE UNCHANGED vars
  BY <1>35
<1> QED BY <1>1, <1>2, <1>3, <1>4, <1>5, <1>6, <1>7, <1>8, <1>9, <1>10, <1>11,
     <1>12, <1>13, <1>14, <1>15, <1>16, <1>17, <1>18, <1>19, <1>20, <1>21,
     <1>22, <1>23, <1>24, <1>25, <1>26, <1>27, <1>28, <1>29, <1>30, <1>31,
     <1>32, <1>33, <1>34, <1>35 DEF Next, WatchStep, KnockStep

\* An empty interval is that of an empty answer.
LEMMA NextNewest == TypeOK /\ NewestAnswerRules /\ [Next]_vars => NewestAnswerRules'
<1> SUFFICES ASSUME TypeOK, NewestAnswerRules, [Next]_vars PROVE NewestAnswerRules'
  OBVIOUS
<1> USE DEF NewestAnswerRules, vars, presence, order, policy, service,
     knocker, history, SamplerFrame, WatchFrame, NoObservation, KnockFrame,
     OtherFrame, WatchGoto, Goto
<1>1. ASSUME NEW s \in Sampler, Reserve(s) PROVE NewestAnswerRules'
  BY <1>1 DEF Reserve, Reserved, Invalidated
<1>2. ASSUME NEW s \in Sampler, Apply(s) PROVE NewestAnswerRules'
  BY <1>2 DEF Apply, Applied, Recorded, Invalidated, Over, Superseded
<1>3. ASSUME NEW o \in Observer, Fetch(o) PROVE NewestAnswerRules'
  BY <1>3 DEF Fetch, Answers
<1>4. ASSUME Look PROVE NewestAnswerRules'
  BY <1>4 DEF Look
<1>5. ASSUME WatchAcquire PROVE NewestAnswerRules'
  BY <1>5 DEF WatchAcquire
<1>6. ASSUME WatchRecheck PROVE NewestAnswerRules'
  BY <1>6 DEF WatchRecheck, Reserved
<1>7. ASSUME WatchApply PROVE NewestAnswerRules'
  BY <1>7 DEF WatchApply, Applied, Recorded, Invalidated, Over, Superseded
<1>8. ASSUME WatchGate PROVE NewestAnswerRules'
  BY <1>8 DEF WatchGate
<1>9. ASSUME WatchPublish PROVE NewestAnswerRules'
  BY <1>9 DEF WatchPublish, Published
<1>10. ASSUME WatchPolicy PROVE NewestAnswerRules'
  BY <1>10 DEF WatchPolicy, PolicyStillAllows, PolicyAllows
<1>11. ASSUME WatchEvidence PROVE NewestAnswerRules'
  BY <1>11 DEF WatchEvidence, Dispatch
<1>12. ASSUME WatchStop PROVE NewestAnswerRules'
  BY <1>12 DEF WatchStop
<1>13. ASSUME WatchComplete PROVE NewestAnswerRules'
  BY <1>13 DEF WatchComplete
<1>14. ASSUME WatchLeave PROVE NewestAnswerRules'
  BY <1>14 DEF WatchLeave
<1>15. ASSUME WatchDies PROVE NewestAnswerRules'
  BY <1>15 DEF WatchDies, Over
<1>16. ASSUME OrphanEnds PROVE NewestAnswerRules'
  BY <1>16 DEF OrphanEnds
<1>17. ASSUME Lease PROVE NewestAnswerRules'
  BY <1>17 DEF Lease
<1>18. ASSUME Arm PROVE NewestAnswerRules'
  BY <1>18 DEF Arm, Arms
<1>19. ASSUME Receive PROVE NewestAnswerRules'
  BY <1>19 DEF Receive
<1>20. ASSUME LeaseEnds PROVE NewestAnswerRules'
  BY <1>20 DEF LeaseEnds
<1>21. ASSUME Revalidate PROVE NewestAnswerRules'
  BY <1>21 DEF Revalidate
<1>22. ASSUME KnockStart PROVE NewestAnswerRules'
  BY <1>22 DEF KnockStart
<1>23. ASSUME KnockLeave PROVE NewestAnswerRules'
  BY <1>23 DEF KnockLeave
<1>24. ASSUME KnockDies PROVE NewestAnswerRules'
  BY <1>24 DEF KnockDies
<1>25. ASSUME OtherBegins PROVE NewestAnswerRules'
  BY <1>25 DEF OtherBegins, Published
<1>26. ASSUME OtherMoves PROVE NewestAnswerRules'
  BY <1>26 DEF OtherMoves
<1>27. ASSUME OtherEnds PROVE NewestAnswerRules'
  BY <1>27 DEF OtherEnds
<1>28. ASSUME Acknowledge PROVE NewestAnswerRules'
  BY <1>28 DEF Acknowledge
<1>29. ASSUME Configure PROVE NewestAnswerRules'
  BY <1>29 DEF Configure
<1>30. ASSUME Play PROVE NewestAnswerRules'
  BY <1>30 DEF Play
<1>31. ASSUME GameStarts PROVE NewestAnswerRules'
  BY <1>31 DEF GameStarts
<1>32. ASSUME GameExits PROVE NewestAnswerRules'
  BY <1>32 DEF GameExits
<1>33. ASSUME Tick PROVE NewestAnswerRules'
  BY <1>33, ClockAges DEF Tick
<1>34. ASSUME SetClock PROVE NewestAnswerRules'
  BY <1>34, ClockAges DEF SetClock
<1>35. CASE UNCHANGED vars
  BY <1>35
<1> QED BY <1>1, <1>2, <1>3, <1>4, <1>5, <1>6, <1>7, <1>8, <1>9, <1>10, <1>11,
     <1>12, <1>13, <1>14, <1>15, <1>16, <1>17, <1>18, <1>19, <1>20, <1>21,
     <1>22, <1>23, <1>24, <1>25, <1>26, <1>27, <1>28, <1>29, <1>30, <1>31,
     <1>32, <1>33, <1>34, <1>35 DEF Next, WatchStep, KnockStep

\* The length of the interval.
LEMMA NextInterval == TypeOK /\ NewestAnswerRules /\ IntervalInv /\ [Next]_vars => IntervalInv'
<1> SUFFICES ASSUME TypeOK, NewestAnswerRules, IntervalInv, [Next]_vars PROVE IntervalInv'
  OBVIOUS
<1> USE DEF IntervalInv, vars, presence, order, policy, service, knocker,
     history, SamplerFrame, WatchFrame, NoObservation, KnockFrame, OtherFrame,
     WatchGoto, Goto
<1>1. ASSUME NEW s \in Sampler, Reserve(s) PROVE IntervalInv'
  BY <1>1 DEF Reserve, Reserved, Invalidated
<1>2. ASSUME NEW s \in Sampler, Apply(s) PROVE IntervalInv'
  BY <1>2, Stores, Invalidates DEF Apply
<1>3. ASSUME NEW o \in Observer, Fetch(o) PROVE IntervalInv'
  BY <1>3 DEF Fetch, Answers
<1>4. ASSUME Look PROVE IntervalInv'
  BY <1>4 DEF Look
<1>5. ASSUME WatchAcquire PROVE IntervalInv'
  BY <1>5 DEF WatchAcquire
<1>6. ASSUME WatchRecheck PROVE IntervalInv'
  BY <1>6 DEF WatchRecheck, Reserved
<1>7. ASSUME WatchApply PROVE IntervalInv'
  BY <1>7, Stores, Invalidates DEF WatchApply
<1>8. ASSUME WatchGate PROVE IntervalInv'
  BY <1>8 DEF WatchGate
<1>9. ASSUME WatchPublish PROVE IntervalInv'
  BY <1>9 DEF WatchPublish, Published
<1>10. ASSUME WatchPolicy PROVE IntervalInv'
  BY <1>10 DEF WatchPolicy, PolicyStillAllows, PolicyAllows
<1>11. ASSUME WatchEvidence PROVE IntervalInv'
  BY <1>11 DEF WatchEvidence, Dispatch
<1>12. ASSUME WatchStop PROVE IntervalInv'
  BY <1>12 DEF WatchStop
<1>13. ASSUME WatchComplete PROVE IntervalInv'
  BY <1>13 DEF WatchComplete
<1>14. ASSUME WatchLeave PROVE IntervalInv'
  BY <1>14 DEF WatchLeave
<1>15. ASSUME WatchDies PROVE IntervalInv'
  BY <1>15 DEF WatchDies, Over
<1>16. ASSUME OrphanEnds PROVE IntervalInv'
  BY <1>16 DEF OrphanEnds
<1>17. ASSUME Lease PROVE IntervalInv'
  BY <1>17 DEF Lease
<1>18. ASSUME Arm PROVE IntervalInv'
  BY <1>18 DEF Arm, Arms
<1>19. ASSUME Receive PROVE IntervalInv'
  BY <1>19 DEF Receive
<1>20. ASSUME LeaseEnds PROVE IntervalInv'
  BY <1>20 DEF LeaseEnds
<1>21. ASSUME Revalidate PROVE IntervalInv'
  BY <1>21 DEF Revalidate
<1>22. ASSUME KnockStart PROVE IntervalInv'
  BY <1>22 DEF KnockStart
<1>23. ASSUME KnockLeave PROVE IntervalInv'
  BY <1>23 DEF KnockLeave
<1>24. ASSUME KnockDies PROVE IntervalInv'
  BY <1>24 DEF KnockDies
<1>25. ASSUME OtherBegins PROVE IntervalInv'
  BY <1>25 DEF OtherBegins, Published
<1>26. ASSUME OtherMoves PROVE IntervalInv'
  BY <1>26 DEF OtherMoves
<1>27. ASSUME OtherEnds PROVE IntervalInv'
  BY <1>27 DEF OtherEnds
<1>28. ASSUME Acknowledge PROVE IntervalInv'
  BY <1>28 DEF Acknowledge
<1>29. ASSUME Configure PROVE IntervalInv'
  BY <1>29 DEF Configure
<1>30. ASSUME Play PROVE IntervalInv'
  BY <1>30 DEF Play
<1>31. ASSUME GameStarts PROVE IntervalInv'
  BY <1>31 DEF GameStarts
<1>32. ASSUME GameExits PROVE IntervalInv'
  BY <1>32 DEF GameExits
<1>33. ASSUME Tick PROVE IntervalInv'
  <2>1. since' = None <=> since = None
    BY <1>33, ClockAges DEF Tick
  <2>2. CASE since # None
    <3>1. since' \in Age /\ since' <= since + 1
      BY <1>33, <2>1, <2>2, ClockAges DEF Tick
    <3>2. clean' = Atmost(clean + 1) /\ jump' = jump
      BY <1>33, <2>2 DEF Tick, NewestAnswerRules
    <3>3. since \in Age /\ clean \in 0..Cap /\ jump \in 0..Cap
      BY <2>2 DEF TypeOK
    <3> QED BY <2>2, <3>1, <3>2, <3>3, GapAssumption DEF Atmost, Age
  <2> QED BY <2>1, <2>2
<1>34. ASSUME SetClock PROVE IntervalInv'
  <2>1. PICK d \in {-1, 1} :
          /\ WallClock(d)
          /\ jump' = IF d > 0 /\ newest = "empty" THEN Atmost(jump + 1) ELSE jump
    BY <1>34 DEF SetClock
  <2>2. since' = None <=> since = None
    BY <2>1, ClockAges
  <2>3. CASE since # None
    <3>1. since' \in Age /\ since' <= IF d = 1 THEN since + 1 ELSE since
      BY <2>1, <2>2, <2>3, ClockAges
    <3>2. clean' = clean /\ jump' = IF d = 1 THEN Atmost(jump + 1) ELSE jump
      BY <1>34, <2>1, <2>3 DEF SetClock, NewestAnswerRules
    <3>3. since \in Age /\ clean \in 0..Cap /\ jump \in 0..Cap
      BY <2>3 DEF TypeOK
    <3> QED BY <2>3, <3>1, <3>2, <3>3, GapAssumption DEF Atmost, Age
  <2> QED BY <2>2, <2>3
<1>35. CASE UNCHANGED vars
  BY <1>35
<1> QED BY <1>1, <1>2, <1>3, <1>4, <1>5, <1>6, <1>7, <1>8, <1>9, <1>10, <1>11,
     <1>12, <1>13, <1>14, <1>15, <1>16, <1>17, <1>18, <1>19, <1>20, <1>21,
     <1>22, <1>23, <1>24, <1>25, <1>26, <1>27, <1>28, <1>29, <1>30, <1>31,
     <1>32, <1>33, <1>34, <1>35 DEF Next, WatchStep, KnockStep

\* The policy that was switched off.
LEMMA NextPolicy == TypeOK /\ PolicyInv /\ [Next]_vars => PolicyInv'
<1> SUFFICES ASSUME TypeOK, PolicyInv, [Next]_vars PROVE PolicyInv'
  OBVIOUS
<1> USE DEF PolicyInv, vars, presence, order, policy, service, knocker,
     history, SamplerFrame, WatchFrame, NoObservation, KnockFrame, OtherFrame,
     WatchGoto, Goto
<1>1. ASSUME NEW s \in Sampler, Reserve(s) PROVE PolicyInv'
  BY <1>1 DEF Reserve, Reserved, Invalidated
<1>2. ASSUME NEW s \in Sampler, Apply(s) PROVE PolicyInv'
  BY <1>2 DEF Apply, Applied, Recorded, Invalidated, Over, Superseded
<1>3. ASSUME NEW o \in Observer, Fetch(o) PROVE PolicyInv'
  BY <1>3 DEF Fetch, Answers
<1>4. ASSUME Look PROVE PolicyInv'
  BY <1>4 DEF Look
<1>5. ASSUME WatchAcquire PROVE PolicyInv'
  BY <1>5 DEF WatchAcquire
<1>6. ASSUME WatchRecheck PROVE PolicyInv'
  BY <1>6 DEF WatchRecheck, Reserved
<1>7. ASSUME WatchApply PROVE PolicyInv'
  BY <1>7 DEF WatchApply, Applied, Recorded, Invalidated, Over, Superseded
<1>8. ASSUME WatchGate PROVE PolicyInv'
  BY <1>8 DEF WatchGate
<1>9. ASSUME WatchPublish PROVE PolicyInv'
  <2>1. revoked' => idle' = 0
    BY <1>9 DEF WatchPublish
  <2>2. wpc' # "evidence"
    BY <1>9 DEF WatchPublish
  <2> QED BY <2>1, <2>2
<1>10. ASSUME WatchPolicy PROVE PolicyInv'
  BY <1>10 DEF WatchPolicy, PolicyStillAllows, PolicyAllows
<1>11. ASSUME WatchEvidence PROVE PolicyInv'
  BY <1>11 DEF WatchEvidence, Dispatch
<1>12. ASSUME WatchStop PROVE PolicyInv'
  BY <1>12 DEF WatchStop
<1>13. ASSUME WatchComplete PROVE PolicyInv'
  BY <1>13 DEF WatchComplete
<1>14. ASSUME WatchLeave PROVE PolicyInv'
  BY <1>14 DEF WatchLeave
<1>15. ASSUME WatchDies PROVE PolicyInv'
  BY <1>15 DEF WatchDies, Over
<1>16. ASSUME OrphanEnds PROVE PolicyInv'
  BY <1>16 DEF OrphanEnds
<1>17. ASSUME Lease PROVE PolicyInv'
  BY <1>17 DEF Lease
<1>18. ASSUME Arm PROVE PolicyInv'
  BY <1>18 DEF Arm, Arms
<1>19. ASSUME Receive PROVE PolicyInv'
  BY <1>19 DEF Receive
<1>20. ASSUME LeaseEnds PROVE PolicyInv'
  BY <1>20 DEF LeaseEnds
<1>21. ASSUME Revalidate PROVE PolicyInv'
  BY <1>21 DEF Revalidate
<1>22. ASSUME KnockStart PROVE PolicyInv'
  BY <1>22 DEF KnockStart
<1>23. ASSUME KnockLeave PROVE PolicyInv'
  BY <1>23 DEF KnockLeave
<1>24. ASSUME KnockDies PROVE PolicyInv'
  BY <1>24 DEF KnockDies
<1>25. ASSUME OtherBegins PROVE PolicyInv'
  BY <1>25 DEF OtherBegins, Published
<1>26. ASSUME OtherMoves PROVE PolicyInv'
  BY <1>26 DEF OtherMoves
<1>27. ASSUME OtherEnds PROVE PolicyInv'
  BY <1>27 DEF OtherEnds
<1>28. ASSUME Acknowledge PROVE PolicyInv'
  BY <1>28 DEF Acknowledge
<1>29. ASSUME Configure PROVE PolicyInv'
  BY <1>29 DEF Configure
<1>30. ASSUME Play PROVE PolicyInv'
  BY <1>30 DEF Play
<1>31. ASSUME GameStarts PROVE PolicyInv'
  BY <1>31 DEF GameStarts
<1>32. ASSUME GameExits PROVE PolicyInv'
  BY <1>32 DEF GameExits
<1>33. ASSUME Tick PROVE PolicyInv'
  BY <1>33 DEF Tick, WallClock, Atmost
<1>34. ASSUME SetClock PROVE PolicyInv'
  BY <1>34 DEF SetClock, WallClock, Atmost
<1>35. CASE UNCHANGED vars
  BY <1>35
<1> QED BY <1>1, <1>2, <1>3, <1>4, <1>5, <1>6, <1>7, <1>8, <1>9, <1>10, <1>11,
     <1>12, <1>13, <1>14, <1>15, <1>16, <1>17, <1>18, <1>19, <1>20, <1>21,
     <1>22, <1>23, <1>24, <1>25, <1>26, <1>27, <1>28, <1>29, <1>30, <1>31,
     <1>32, <1>33, <1>34, <1>35 DEF Next, WatchStep, KnockStep

-----------------------------------------------------------------------------
(* The theorems.                                                            *)

\* The invariant holds in every reachable state.
THEOREM Invariance == Spec => []IInv
<1>1. Init => IInv
  <2> SUFFICES ASSUME Init PROVE IInv
    OBVIOUS
  <2>1. TypeOK
    <3>1. uptime \in Age /\ clean \in 0..Cap /\ jump \in 0..Cap
      BY GapAssumption DEF Init, Age
    <3>2. before \in [Observer -> SUBSET Observer]
      BY DEF Init
    <3>3. /\ opc \in [Observer -> {"off", "asked", "answered"}]
          /\ answer \in [Observer -> {"empty", "busy", "error"}]
      BY DEF Init
    <3>4. online \in BOOLEAN /\ valid \in BOOLEAN /\ revoked \in BOOLEAN
      BY DEF Init
    <3> QED BY <3>1, <3>2, <3>3, <3>4, KnockingAssumption
        DEF Init, TypeOK, Packet
  <2>2. LockInv /\ PortInv /\ NewestAnswerRules /\ IntervalInv /\ PolicyInv
    BY DEF Init, LockInv, PortInv, NewestAnswerRules, IntervalInv, PolicyInv
  <2> QED BY <2>1, <2>2 DEF IInv
<1>2. IInv /\ [Next]_vars => IInv'
  BY NextTyped, NextLock, NextPort, NextNewest, NextInterval, NextPolicy DEF IInv
<1> QED BY <1>1, <1>2, PTL DEF Spec

\* Every variable of the cycle stays in its range.
THEOREM TypeCorrect == Spec => []TypeOK
<1>1. IInv => TypeOK
  BY DEF IInv
<1> QED BY <1>1, Invariance, PTL

\* apply_observation: however the answers of the samplers and of the watcher
\* overtake each other, an older one never brings an empty interval to life.
THEOREM NewestAnswerWins == Spec => []NewestAnswerRules
<1>1. IInv => NewestAnswerRules
  BY DEF IInv
<1> QED BY <1>1, Invariance, PTL

\* _lease: while the listener holds the game port the game is confirmed stopped
\* and the lifecycle lock is the listener's.
THEOREM ListenerNeverTakesThePort == Spec => []PortIsFree
<1>1. IInv => PortIsFree
  BY DEF IInv, PortInv, LockInv, PortIsFree
<1> QED BY <1>1, Invariance, PTL

\* read_eligibility: a stop is dispatched only after empty answers for the whole
\* timeout, whatever the clock was set to but forward.
THEOREM NoStopWithoutEmptiness == Spec => StopNeedsEmptiness
<1>1. IInv /\ [Next]_vars => [Dispatch /\ wpc' = "stopping" => clean + jump >= limit]_wpc
  <2> SUFFICES ASSUME IInv, Dispatch PROVE clean + jump >= limit
    OBVIOUS
  <2>1. since # None /\ since >= limit
    BY DEF Dispatch, Eligible
  <2>2. clean + jump >= since
    BY <2>1 DEF IInv, IntervalInv
  <2>3. since \in Int /\ limit \in Int /\ clean + jump \in Int
    BY <2>1, TimeoutAssumption, GapAssumption DEF IInv, TypeOK, Age
  <2> QED BY <2>1, <2>2, <2>3
<1> QED BY <1>1, Invariance, PTL DEF Spec, StopNeedsEmptiness

\* tick: an idle policy switched off before the publication, and left off, stops
\* nothing.
THEOREM NoStopWithoutPolicy == Spec => StopNeedsPolicy
<1>1. IInv /\ [Next]_vars => [wpc' = "stopping" => ~revoked]_wpc
  <2> SUFFICES ASSUME IInv, Next, wpc' = "stopping", wpc' # wpc PROVE ~revoked
    BY DEF vars
  <2>1. WatchEvidence
BY DEF Next, WatchStep, KnockStep, Reserve, Apply, Fetch, Look, WatchAcquire,
     WatchRecheck, WatchApply, WatchGate, WatchPublish, WatchPolicy,
     WatchStop, WatchComplete, WatchLeave, WatchDies, OrphanEnds, Lease, Arm,
     Receive, LeaseEnds, Revalidate, KnockStart, KnockLeave, KnockDies,
     OtherBegins, OtherMoves, OtherEnds, Acknowledge, Configure, Play,
     GameStarts, GameExits, Tick, SetClock, presence, order, policy, service,
     knocker, history, SamplerFrame, WatchFrame, NoObservation, KnockFrame,
     OtherFrame, WatchGoto, Goto
  <2> QED BY <2>1 DEF IInv, PolicyInv, WatchEvidence
<1> QED BY <1>1, Invariance, PTL DEF Spec, StopNeedsPolicy
=============================================================================
