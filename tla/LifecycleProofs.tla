-------------------------- MODULE LifecycleProofs --------------------------
(* Theorems about Lifecycle, for every set of process slots and every      *)
(* workload: type correctness, mutual exclusion, the safety of the         *)
(* maintenance marker and of the wake fence, and what a success means.     *)
EXTENDS Lifecycle, TLAPS

-----------------------------------------------------------------------------
(* Typing.                                                                 *)

\* What a script leaves to do is a set of steps, whatever is dropped from it.
LEMMA ScriptSteps ==
  /\ \A g \in Program : Script[g] \subseteq Step
  /\ \A g, S : Survivor(g, S) \subseteq S
<1>1. \A g \in Program : Script[g] \subseteq Step
  BY DEF Program, Script, Step, StopSteps, StartSteps
<1>2. \A g, S : Survivor(g, S) \subseteq S
  BY DEF Survivor
<1> QED BY <1>1, <1>2

\* The initial state is well-typed.
LEMMA InitTyped == Init => TypeOK
<1> SUFFICES ASSUME Init PROVE TypeOK
  OBVIOUS
<1>1. "gone" \in PC /\ "init" \in Kind /\ "none" \in Program
  BY DEF PC, Kind, Program
<1>2. pc \in [Proc -> PC] /\ kind \in [Proc -> Kind] /\ prog \in [Proc -> Program]
  BY <1>1 DEF Init
<1>3. todo \in [Proc -> SUBSET Step] /\ rc \in [Proc -> {0, 1}]
  BY DEF Init
<1>4. seen \in [Proc -> Nat] /\ fence \in [Proc -> Nat]
  BY DEF Init
<1>5. fresh \in [Proc -> BOOLEAN] /\ stale \in [Proc -> BOOLEAN]
  BY DEF Init
<1>6. status \in StatusType /\ gen \in Nat \ {0} /\ last \in Nat \ {0}
  BY DEF Init, StatusType
<1>7. holders \subseteq Proc \X {"owner", "child"}
  BY DEF Init
<1> QED BY <1>2, <1>3, <1>4, <1>5, <1>6, <1>7 DEF Init, TypeOK

\* Every step preserves the types.
LEMMA NextTyped == TypeOK /\ [Next]_vars => TypeOK'
<1> SUFFICES ASSUME TypeOK, [Next]_vars PROVE TypeOK'
  OBVIOUS
<1> USE DEF TypeOK, fileVars, serviceVars, procVars, history, Goto
<1> USE DEF StatusType
<1>1. ASSUME NEW p \in Proc, NEW w \in Workload, Launch(p, w[1], w[2])
      PROVE  TypeOK'
  <2>1. w[1] \in Kind /\ w[2] \in Program
    BY WorkloadAssumption
  <2> QED BY <1>1, <2>1 DEF Launch, PC, Locked
<1>2. ASSUME NEW p \in Proc, Admit(p) PROVE TypeOK'
  BY <1>2 DEF Admit, PC, Locked, Kind, Maintenance, Program
<1>3. ASSUME NEW p \in Proc, StartReaper(p) PROVE TypeOK'
  BY <1>3 DEF StartReaper, PC, Locked, Kind, Maintenance, Program
<1>4. ASSUME NEW p \in Proc, StepTimeout(p) PROVE TypeOK'
  BY <1>4, ScriptSteps DEF StepTimeout, PC, Locked
<1>5. ASSUME NEW p \in Proc, Expire(p) PROVE TypeOK'
  BY <1>5 DEF Expire
<1>6. ASSUME NEW p \in Proc, Crash(p) PROVE TypeOK'
  BY <1>6, ScriptSteps DEF Crash, PC, Locked, Owner
<1>7. ASSUME NEW p \in Proc, ChildDies(p) PROVE TypeOK'
  BY <1>7 DEF ChildDies, Fails, Child
<1>8. ASSUME NEW p \in Proc, WorkerDies(p) PROVE TypeOK'
  BY <1>8 DEF WorkerDies
<1>9. ASSUME NEW p \in Proc, ChildStep(p) PROVE TypeOK'
  <2> USE DEF Does, StepOk, StepAborts, Fails, ChildFrame
  <2>1. CASE Fetch(p)
    <3>1. todo' \in [Proc -> SUBSET Step]
      BY <2>1 DEF Fetch
    <3>2. rc' \in [Proc -> {0, 1}] /\ tainted' \in BOOLEAN
      BY <2>1 DEF Fetch
    <3> QED BY <2>1, <3>1, <3>2 DEF Fetch
  <2>2. CASE Probe(p)  BY <2>2 DEF Probe, Step
  <2>3. CASE Mark(p)   BY <2>3 DEF Mark
  <2>4. CASE Down(p)
    <3>1. todo' \in [Proc -> SUBSET Step]
      BY <2>4 DEF Down
    <3>2. rc' \in [Proc -> {0, 1}] /\ tainted' \in BOOLEAN
      BY <2>4 DEF Down
    <3> QED BY <2>4, <3>1, <3>2 DEF Down
  <2>5. CASE Await(p)
    <3>1. todo' \in [Proc -> SUBSET Step]
      BY <2>5 DEF StopConfirmed, Await
    <3>2. rc' \in [Proc -> {0, 1}] /\ tainted' \in BOOLEAN
      BY <2>5 DEF StopConfirmed, Await
    <3> QED BY <2>5, <3>1, <3>2 DEF StopConfirmed, Await
  <2>6. CASE Edit(p)
    <3>1. todo' \in [Proc -> SUBSET Step]
      BY <2>6 DEF Edit
    <3>2. rc' \in [Proc -> {0, 1}] /\ tainted' \in BOOLEAN
      BY <2>6 DEF Edit
    <3> QED BY <2>6, <3>1, <3>2 DEF Edit
  <2>7. CASE Clear(p)  BY <2>7 DEF Clear
  <2>8. CASE Up(p)
    <3>1. todo' \in [Proc -> SUBSET Step]
      BY <2>8 DEF Up
    <3>2. rc' \in [Proc -> {0, 1}] /\ tainted' \in BOOLEAN
      BY <2>8 DEF Up
    <3> QED BY <2>8, <3>1, <3>2 DEF Up
  <2>9. CASE Bounce(p)
    <3>1. todo' \in [Proc -> SUBSET Step]
      BY <2>9 DEF Bounce
    <3>2. rc' \in [Proc -> {0, 1}] /\ tainted' \in BOOLEAN
      BY <2>9 DEF Bounce
    <3> QED BY <2>9, <3>1, <3>2 DEF Bounce
  <2>10. CASE Ready(p)
    <3>1. todo' \in [Proc -> SUBSET Step]
      BY <2>10 DEF Ready
    <3>2. rc' \in [Proc -> {0, 1}] /\ tainted' \in BOOLEAN
      BY <2>10 DEF Ready
    <3> QED BY <2>10, <3>1, <3>2 DEF Ready
  <2> QED BY <1>9, <2>1, <2>2, <2>3, <2>4, <2>5, <2>6, <2>7, <2>8, <2>9,
             <2>10 DEF ChildStep
<1>10. ASSUME NEW p \in Proc, ProcStep(p) PROVE TypeOK'
  <2> USE DEF PC, Locked
  <2>1. CASE Dispatch(p)     BY <2>1 DEF Dispatch
  <2>2. CASE Acquire(p)      BY <2>2 DEF LockFree, Acquire, Acquired, Owner
  <2>3. CASE LockBusy(p)     BY <2>3 DEF LockFree, LockBusy
  <2>4. CASE Release(p)      BY <2>4 DEF Closed, Release
  <2>5. CASE WriteRead(p)    BY <2>5 DEF Refuses, WriteRead
  <2>6. CASE WriteReplace(p)
    <3>1. status' \in StatusType
      BY <2>6 DEF Loaded, WriteReplace, Target
    <3>2. gen' \in Nat \ {0} /\ last' \in Nat \ {0} /\ seen' \in [Proc -> Nat]
      BY <2>6 DEF Loaded, WriteReplace
    <3>3. pc' \in [Proc -> PC] /\ stale' \in [Proc -> BOOLEAN]
      BY <2>6 DEF Loaded, WriteReplace, EnterMaintenance
    <3> QED BY <2>6, <3>1, <3>2, <3>3 DEF Loaded, WriteReplace
  <2>7. CASE WriteFails(p)   BY <2>7 DEF WriteFails
  <2>8. CASE Recheck(p)      BY <2>8 DEF Recheck
  <2>9. CASE Begin(p)
    <3>1. pc' \in [Proc -> PC]
      BY <2>9 DEF Begin, EnterMaintenance
    <3>2. stale' \in [Proc -> BOOLEAN]
      BY <2>9 DEF Begin, EnterMaintenance
    <3> QED BY <2>9, <3>1, <3>2 DEF Begin
  <2>10. CASE Spawn(p)       BY <2>10, ScriptSteps DEF Spawn, Child
  <2>11. CASE AbortUnstarted(p) BY <2>11 DEF AbortUnstarted, Program
  <2>12. CASE Finish(p)      BY <2>12 DEF Finish
  <2>13. CASE Fence(p)       BY <2>13 DEF Fence
  <2>14. CASE Check(p)       BY <2>14 DEF StartAllowed, Check
  <2>15. CASE Arm(p)
    BY <2>15, ScriptSteps DEF Arm, Child, Program
  <2>16. CASE Started(p)     BY <2>16 DEF Started
  <2>17. CASE Confirm(p)     BY <2>17 DEF Confirm
  <2>18. CASE InitCheck(p)   BY <2>18 DEF InitCheck
  <2>19. CASE AckCheck(p)    BY <2>19 DEF AckCheck
  <2>20. CASE ChildExits(p)  BY <2>20 DEF ChildExits
  <2> QED BY <1>9, <1>10, <2>1, <2>2, <2>3, <2>4, <2>5, <2>6, <2>7, <2>8, <2>9,
             <2>10, <2>11, <2>12, <2>13, <2>14, <2>15, <2>16, <2>17, <2>18,
             <2>19, <2>20 DEF ProcStep
<1>11. CASE GameExits  BY <1>11 DEF GameExits
<1>12. CASE Supervise  BY <1>12 DEF Supervise
<1>13. CASE ClockMoves BY <1>13 DEF ClockMoves
<1>14. CASE Boot
  <2>1. pc' \in [Proc -> PC]
    BY <1>14 DEF Boot, PC
  <2>2. todo' \in [Proc -> SUBSET Step] /\ seen' \in [Proc -> Nat]
    BY <1>14 DEF Boot
  <2>3. stale' \in [Proc -> BOOLEAN] /\ orphanJob' \in BOOLEAN
    BY <1>14 DEF Boot
  <2>4. tainted' \in BOOLEAN /\ holders' \subseteq Proc \X {"owner", "child"}
    BY <1>14 DEF Boot
  <2>5. status' \in StatusType /\ gen' \in Nat \ {0} /\ last' \in Nat \ {0}
    BY <1>14 DEF Boot
  <2> QED BY <1>14, <2>1, <2>2, <2>3, <2>4, <2>5 DEF Boot
<1>15. CASE UNCHANGED vars BY <1>15 DEF vars
<1> QED BY <1>1, <1>2, <1>3, <1>4, <1>5, <1>6, <1>7, <1>8, <1>10, <1>11, <1>12,
           <1>13, <1>14, <1>15 DEF Next

\* The state file, the lock, the service and every process stay in their types.
THEOREM TypeCorrect == Spec => []TypeOK
  BY InitTyped, NextTyped, PTL DEF Spec

-----------------------------------------------------------------------------
(* Mutual exclusion.                                                       *)

\* A step of a controller script touches the service, its own list of steps
\* and its exit code; a failed step of a maintenance taints the state.
LEMMA ChildStepFrame ==
  ASSUME NEW p \in Proc, ChildStep(p)
  PROVE  /\ Child(p) \in holders
         /\ UNCHANGED <<fileVars, cooldown, holders, pc, procVars, seen,
                        orphanJob, stale>>
         /\ \/ UNCHANGED <<rc, tainted>>
            \/ Fails(p)
<1> USE DEF Does, StepOk, StepAborts, ChildFrame
<1>1. CASE Fetch(p)  BY <1>1 DEF Fetch
<1>2. CASE Probe(p)  BY <1>2 DEF Probe
<1>3. CASE Mark(p)   BY <1>3 DEF Mark
<1>4. CASE Down(p)   BY <1>4 DEF Down
<1>5. CASE Await(p)  BY <1>5 DEF StopConfirmed, Await
<1>6. CASE Edit(p)   BY <1>6 DEF Edit
<1>7. CASE Clear(p)  BY <1>7 DEF Clear
<1>8. CASE Up(p)     BY <1>8 DEF Up
<1>9. CASE Bounce(p) BY <1>9 DEF Bounce
<1>10. CASE Ready(p) BY <1>10 DEF Ready
<1> QED BY <1>1, <1>2, <1>3, <1>4, <1>5, <1>6, <1>7, <1>8, <1>9, <1>10
        DEF ChildStep

\* Nobody holds the lock in the initial state.
LEMMA InitLocked == Init => LockInv
  BY DEF Init, LockInv, Locked, Owner, Child

\* Every step keeps the descriptors with one process.
LEMMA NextLocked == TypeOK /\ LockInv /\ [Next]_vars => LockInv'
<1> SUFFICES ASSUME TypeOK, LockInv, [Next]_vars PROVE LockInv'
  OBVIOUS
<1> USE DEF TypeOK, LockInv, fileVars, serviceVars, procVars, history, Goto,
            Owner, Child, Locked, Maintenance, Writing
<1>1. ASSUME NEW p \in Proc, NEW w \in Workload, Launch(p, w[1], w[2])
      PROVE  LockInv'
  BY <1>1 DEF Launch, Free
<1>2. ASSUME NEW p \in Proc, Admit(p) PROVE LockInv'
  BY <1>2 DEF Admit, Free
<1>3. ASSUME NEW p \in Proc, StartReaper(p) PROVE LockInv'
  BY <1>3 DEF StartReaper, Free
<1>4. ASSUME NEW p \in Proc, StepTimeout(p) PROVE LockInv'
  BY <1>4 DEF StepTimeout
<1>5. ASSUME NEW p \in Proc, Expire(p) PROVE LockInv'
  BY <1>5 DEF Expire
<1>6. ASSUME NEW p \in Proc, Crash(p) PROVE LockInv'
  BY <1>6 DEF Crash
<1>7. ASSUME NEW p \in Proc, ChildDies(p) PROVE LockInv'
  BY <1>7 DEF ChildDies, Fails
<1>8. ASSUME NEW p \in Proc, WorkerDies(p) PROVE LockInv'
  BY <1>8 DEF WorkerDies
<1>9. ASSUME NEW p \in Proc, ChildStep(p) PROVE LockInv'
  <2>1. UNCHANGED <<holders, pc, kind, seen>>
    BY <1>9, ChildStepFrame
  <2>2. UNCHANGED rc \/ rc' = [rc EXCEPT ![p] = 1]
    BY <1>9, ChildStepFrame DEF Fails
  <2> QED BY <2>1, <2>2
<1>10. ASSUME NEW p \in Proc, ProcStep(p) PROVE LockInv'
  <2>1. CASE Dispatch(p)     BY <2>1 DEF Dispatch
  <2>2. CASE Acquire(p)      BY <2>2 DEF LockFree, Acquire, Acquired
  <2>3. CASE LockBusy(p)     BY <2>3 DEF LockFree, LockBusy
  <2>4. CASE Release(p)      BY <2>4 DEF Closed, Release
  <2>5. CASE WriteRead(p)    BY <2>5 DEF Refuses, WriteRead
  <2>6. CASE WriteReplace(p)
    BY <2>6 DEF Loaded, WriteReplace, EnterMaintenance
  <2>7. CASE WriteFails(p)   BY <2>7 DEF WriteFails
  <2>8. CASE Recheck(p)      BY <2>8 DEF Recheck
  <2>9. CASE Begin(p)        BY <2>9 DEF Begin, EnterMaintenance
  <2>10. CASE Spawn(p)       BY <2>10 DEF Spawn
  <2>11. CASE AbortUnstarted(p) BY <2>11 DEF AbortUnstarted
  <2>12. CASE Finish(p)      BY <2>12 DEF Finish
  <2>13. CASE Fence(p)       BY <2>13 DEF Fence
  <2>14. CASE Check(p)       BY <2>14 DEF StartAllowed, Check
  <2>15. CASE Arm(p)         BY <2>15 DEF Arm
  <2>16. CASE Started(p)     BY <2>16 DEF Started
  <2>17. CASE Confirm(p)     BY <2>17 DEF Confirm
  <2>18. CASE InitCheck(p)   BY <2>18 DEF InitCheck
  <2>19. CASE AckCheck(p)    BY <2>19 DEF AckCheck
  <2>20. CASE ChildExits(p)  BY <2>20 DEF ChildExits
  <2> QED BY <1>9, <1>10, <2>1, <2>2, <2>3, <2>4, <2>5, <2>6, <2>7, <2>8, <2>9,
             <2>10, <2>11, <2>12, <2>13, <2>14, <2>15, <2>16, <2>17, <2>18,
             <2>19, <2>20 DEF ProcStep
<1>11. CASE GameExits  BY <1>11 DEF GameExits
<1>12. CASE Supervise  BY <1>12 DEF Supervise
<1>13. CASE ClockMoves BY <1>13 DEF ClockMoves
<1>14. CASE Boot       BY <1>14 DEF Boot
<1>15. CASE UNCHANGED vars BY <1>15 DEF vars
<1> QED BY <1>1, <1>2, <1>3, <1>4, <1>5, <1>6, <1>7, <1>8, <1>10, <1>11, <1>12,
           <1>13, <1>14, <1>15 DEF Next

\* At every moment the descriptors on the lock, the owner's and those of the
\* children it left behind, belong to one process.
THEOREM MutualExclusion == Spec => []LockInv
<1>1. TypeOK /\ LockInv /\ [Next]_vars => (TypeOK /\ LockInv)'
  BY NextTyped, NextLocked
<1> QED BY <1>1, InitTyped, InitLocked, PTL DEF Spec

-----------------------------------------------------------------------------
(* The maintenance marker and the wake fence.                              *)

\* The initial state has seen no maintenance and no wake.
LEMMA InitSafe == Init => TaintInv /\ GenInv /\ WakeInv
  BY DEF Init, TaintInv, GenInv, WakeInv, FailClosed, MaintenanceActs, WakeActs,
         InMaintenance, WillWriteIdle, SawIdle, NoGenerationReturns, HeldOff, Child

\* Next to a process with a descriptor on the lock, no other process is at a
\* place where it may touch the service or write anything but `unsafe`.
LEMMA Alone ==
  ASSUME TypeOK, LockInv, NEW p \in Proc,
         Owner(p) \in holders \/ Child(p) \in holders,
         NEW q \in Proc, q # p
  PROVE  /\ pc[q] \notin Locked \ {"release"}
         /\ Owner(q) \notin holders /\ Child(q) \notin holders
  BY DEF LockInv, Owner, Child

\* Every step keeps a failed maintenance fenced off.
LEMMA NextTaint == TypeOK /\ LockInv /\ TaintInv /\ [Next]_vars => TaintInv'
<1> SUFFICES ASSUME TypeOK, LockInv, TaintInv, [Next]_vars PROVE TaintInv'
  OBVIOUS
<1> USE DEF TypeOK, LockInv, TaintInv, FailClosed, MaintenanceActs, WakeActs,
            InMaintenance, WillWriteIdle, SawIdle, StatusType,
            fileVars, serviceVars, procVars, history, Goto, Owner, Child,
            Locked, Maintenance, Writing
<1>1. ASSUME NEW p \in Proc, NEW w \in Workload, Launch(p, w[1], w[2]) PROVE TaintInv'
  BY <1>1 DEF Launch, Free
<1>2. ASSUME NEW p \in Proc, Admit(p) PROVE TaintInv'
  BY <1>2 DEF Admit, Free, FenceHolds
<1>3. ASSUME NEW p \in Proc, StartReaper(p) PROVE TaintInv'
  BY <1>3 DEF StartReaper, Free
<1>4. ASSUME NEW p \in Proc, StepTimeout(p) PROVE TaintInv'
  <2>1. \A q \in Proc : q # p => pc[q] \notin Locked \ {"release"} /\ Child(q) \notin holders
    BY <1>4, Alone DEF StepTimeout
  <2>2. FailClosed'
    BY <1>4, <2>1 DEF StepTimeout
  <2>3. \A q \in Proc : (MaintenanceActs(q) \/ InMaintenance(q))' => status' # "idle"
    BY <1>4, <2>1 DEF StepTimeout
  <2>4. \A q \in Proc : (pc[q] \in SawIdle \/ WakeActs(q))' => ~tainted'
    BY <1>4, <2>1 DEF StepTimeout
  <2>5. \A q \in Proc : InMaintenance(q)' \/ WillWriteIdle(q)' => q = p
    BY <1>4, <2>1 DEF StepTimeout
  <2>6. (InMaintenance(p) /\ rc[p] = 0 /\ tainted)' => status' = "unsafe"
    BY <1>4, <2>1 DEF StepTimeout
  <2>7. WillWriteIdle(p)' => ~tainted'
    BY <1>4, <2>1 DEF StepTimeout
  <2> QED BY <2>2, <2>3, <2>4, <2>5, <2>6, <2>7
<1>5. ASSUME NEW p \in Proc, Expire(p) PROVE TaintInv'
  BY <1>5 DEF Expire
<1>6. ASSUME NEW p \in Proc, Crash(p) PROVE TaintInv'
  <2>1. /\ UNCHANGED <<status, rc, kind>>
        /\ holders' \subseteq holders
        /\ pc' = [pc EXCEPT ![p] = "gone"] /\ seen' = [seen EXCEPT ![p] = 0]
        /\ tainted' = (tainted \/ InMaintenance(p))
    BY <1>6 DEF Crash
  <2>2. CASE InMaintenance(p)
    <3>1. \A q \in Proc : q # p => pc[q] \notin Locked \ {"release"} /\ Child(q) \notin holders
      BY <2>2, Alone
    <3>2. \A q \in Proc : pc'[q] \notin {"gate", "body", "complete"}
      BY <2>1, <3>1
    <3>3. \A q \in Proc : pc'[q] \notin SawIdle /\ ~WakeActs(q)'
      BY <2>1, <2>2, <3>1
    <3> QED BY <2>1, <2>2, <3>1, <3>2, <3>3
  <2>3. CASE ~InMaintenance(p)
    BY <2>1, <2>3
  <2> QED BY <2>2, <2>3
<1>7. ASSUME NEW p \in Proc, ChildDies(p) PROVE TaintInv'
  <2>1. \A q \in Proc : q # p => pc[q] \notin Locked \ {"release"} /\ Child(q) \notin holders
    BY <1>7, Alone DEF ChildDies, Fails
  <2>2. FailClosed'
    BY <1>7, <2>1 DEF ChildDies, Fails
  <2>3. \A q \in Proc : (MaintenanceActs(q) \/ InMaintenance(q))' => status' # "idle"
    BY <1>7, <2>1 DEF ChildDies, Fails
  <2>4. \A q \in Proc : (pc[q] \in SawIdle \/ WakeActs(q))' => ~tainted'
    BY <1>7, <2>1 DEF ChildDies, Fails
  <2>5. \A q \in Proc : InMaintenance(q)' \/ WillWriteIdle(q)' => q = p
    BY <1>7, <2>1 DEF ChildDies, Fails
  <2>6. (InMaintenance(p) /\ rc[p] = 0 /\ tainted)' => status' = "unsafe"
    BY <1>7, <2>1 DEF ChildDies, Fails
  <2>7. WillWriteIdle(p)' => ~tainted'
    BY <1>7, <2>1 DEF ChildDies, Fails
  <2> QED BY <2>2, <2>3, <2>4, <2>5, <2>6, <2>7
<1>8. ASSUME NEW p \in Proc, WorkerDies(p) PROVE TaintInv'
  BY <1>8 DEF WorkerDies
<1>9. ASSUME NEW p \in Proc, ChildStep(p) PROVE TaintInv'
  <2>1. /\ UNCHANGED <<holders, pc, kind, seen, fence, stale, status, gen, last>>
        /\ Child(p) \in holders
    BY <1>9, ChildStepFrame
  <2>2. UNCHANGED <<rc, tainted>> \/ Fails(p)
    BY <1>9, ChildStepFrame
  <2>3. TaintInv'
    <3>1. \A q \in Proc : q # p => pc[q] \notin Locked \ {"release"} /\ Child(q) \notin holders
      BY <2>1, <2>2, Alone DEF Fails
    <3>2. FailClosed'
      BY <2>1, <2>2, <3>1 DEF Fails
    <3>3. \A q \in Proc : (MaintenanceActs(q) \/ InMaintenance(q))' => status' # "idle"
      BY <2>1, <2>2, <3>1 DEF Fails
    <3>4. \A q \in Proc : (pc[q] \in SawIdle \/ WakeActs(q))' => ~tainted'
      BY <2>1, <2>2, <3>1 DEF Fails
    <3>5. \A q \in Proc : InMaintenance(q)' \/ WillWriteIdle(q)' => q = p
      BY <2>1, <2>2, <3>1 DEF Fails
    <3>6. (InMaintenance(p) /\ rc[p] = 0 /\ tainted)' => status' = "unsafe"
      <4>1. CASE UNCHANGED <<rc, tainted>>  BY <2>1, <4>1
      <4>2. CASE Fails(p)
        <5>1. rc'[p] = 1  BY <4>2 DEF Fails
        <5> QED BY <5>1
      <4> QED BY <2>2, <4>1, <4>2
    <3>7. WillWriteIdle(p)' => ~tainted'
      BY <2>1, <2>2, <3>1 DEF Fails
    <3> QED BY <3>2, <3>3, <3>4, <3>5, <3>6, <3>7
  <2> QED BY <2>3
<1>10. ASSUME NEW p \in Proc, ProcStep(p) PROVE TaintInv'
  <2>1. CASE Dispatch(p)
    BY <2>1 DEF Dispatch
  <2>2. CASE Acquire(p)
    BY <2>2 DEF LockFree, Acquire, Acquired
  <2>3. CASE LockBusy(p)
    BY <2>3 DEF LockFree, LockBusy
  <2>4. CASE Release(p)
    BY <2>4 DEF Closed, Release
  <2>5. CASE WriteRead(p)
    BY <2>5 DEF Refuses, WriteRead, Target, Forces
  <2>6. CASE WriteReplace(p)
    <3>1. CASE pc[p] = "reapWrite"
      <4>1. /\ status' = "unsafe" /\ UNCHANGED <<tainted, holders, kind, rc>>
            /\ pc' = [pc EXCEPT ![p] = "release"]
            /\ seen' = [seen EXCEPT ![p] = 0]
        BY <2>6, <3>1 DEF Loaded, WriteReplace, Target, Forces
      <4> QED BY <3>1, <4>1
    <3>2. CASE pc[p] # "reapWrite"
      <4>1. \A q \in Proc : q # p => pc[q] \notin Locked \ {"release"} /\ Child(q) \notin holders
        BY <2>6, <3>2, Alone DEF Loaded, WriteReplace, EnterMaintenance, Target, Rotates, Forces
      <4>2. FailClosed'
        BY <2>6, <3>2, <4>1 DEF Loaded, WriteReplace, EnterMaintenance, Target, Rotates, Forces
      <4>3. \A q \in Proc : (MaintenanceActs(q) \/ InMaintenance(q))' => status' # "idle"
        BY <2>6, <3>2, <4>1 DEF Loaded, WriteReplace, EnterMaintenance, Target, Rotates, Forces
      <4>4. \A q \in Proc : (pc[q] \in SawIdle \/ WakeActs(q))' => ~tainted'
        BY <2>6, <3>2, <4>1 DEF Loaded, WriteReplace, EnterMaintenance, Target, Rotates, Forces
      <4>5. \A q \in Proc : InMaintenance(q)' \/ WillWriteIdle(q)' => q = p
        BY <2>6, <4>1 DEF Loaded, WriteReplace, EnterMaintenance
      <4>6. (InMaintenance(p) /\ rc[p] = 0 /\ tainted)' => status' = "unsafe"
        BY <2>6, <3>2, <4>1 DEF Loaded, WriteReplace, EnterMaintenance, Target, Rotates, Forces
      <4>7. WillWriteIdle(p)' => ~tainted'
        BY <2>6, <3>2, <4>1 DEF Loaded, WriteReplace, EnterMaintenance, Target, Rotates, Forces
      <4> QED BY <4>2, <4>3, <4>4, <4>5, <4>6, <4>7
    <3> QED BY <3>1, <3>2
  <2>7. CASE WriteFails(p)
    BY <2>7 DEF WriteFails
  <2>8. CASE Recheck(p)
    BY <2>8 DEF Recheck
  <2>9. CASE Begin(p)
    BY <2>9 DEF Begin, EnterMaintenance
  <2>10. CASE Spawn(p)
    BY <2>10 DEF Spawn
  <2>11. CASE AbortUnstarted(p)
    <3>1. \A q \in Proc : q # p => pc[q] \notin Locked \ {"release"} /\ Child(q) \notin holders
      BY <2>11, Alone DEF AbortUnstarted
    <3>2. FailClosed'
      BY <2>11, <3>1 DEF AbortUnstarted
    <3>3. \A q \in Proc : (MaintenanceActs(q) \/ InMaintenance(q))' => status' # "idle"
      BY <2>11, <3>1 DEF AbortUnstarted
    <3>4. \A q \in Proc : (pc[q] \in SawIdle \/ WakeActs(q))' => ~tainted'
      BY <2>11, <3>1 DEF AbortUnstarted
    <3>5. \A q \in Proc : InMaintenance(q)' \/ WillWriteIdle(q)' => q = p
      BY <2>11, <3>1 DEF AbortUnstarted
    <3>6. (InMaintenance(p) /\ rc[p] = 0 /\ tainted)' => status' = "unsafe"
      <4>1. UNCHANGED <<rc, tainted>> \/ rc'[p] = 1
        BY <2>11 DEF AbortUnstarted
      <4>2. InMaintenance(p) /\ UNCHANGED status
        BY <2>11 DEF AbortUnstarted
      <4>3. CASE UNCHANGED <<rc, tainted>>  BY <4>2, <4>3
      <4>4. CASE rc'[p] = 1                 BY <4>4
      <4> QED BY <4>1, <4>3, <4>4
    <3>7. WillWriteIdle(p)' => ~tainted'
      BY <2>11, <3>1 DEF AbortUnstarted
    <3> QED BY <3>2, <3>3, <3>4, <3>5, <3>6, <3>7
  <2>12. CASE Finish(p)
    <3>1. \A q \in Proc : q # p => pc[q] \notin Locked \ {"release"} /\ Child(q) \notin holders
      BY <2>12, Alone DEF Finish
    <3>2. FailClosed'
      BY <2>12, <3>1 DEF Finish
    <3>3. \A q \in Proc : (MaintenanceActs(q) \/ InMaintenance(q))' => status' # "idle"
      BY <2>12, <3>1 DEF Finish
    <3>4. \A q \in Proc : (pc[q] \in SawIdle \/ WakeActs(q))' => ~tainted'
      BY <2>12, <3>1 DEF Finish
    <3>5. \A q \in Proc : InMaintenance(q)' \/ WillWriteIdle(q)' => q = p
      BY <2>12, <3>1 DEF Finish
    <3>6. (InMaintenance(p) /\ rc[p] = 0 /\ tainted)' => status' = "unsafe"
      <4>1. UNCHANGED <<rc, tainted>> \/ rc'[p] = 1
        BY <2>12 DEF Finish
      <4>2. InMaintenance(p) /\ UNCHANGED status
        BY <2>12 DEF Finish
      <4>3. CASE UNCHANGED <<rc, tainted>>  BY <4>2, <4>3
      <4>4. CASE rc'[p] = 1                 BY <4>4
      <4> QED BY <4>1, <4>3, <4>4
    <3>7. WillWriteIdle(p)' => ~tainted'
      BY <2>12, <3>1 DEF Finish
    <3> QED BY <3>2, <3>3, <3>4, <3>5, <3>6, <3>7
  <2>13. CASE Fence(p)
    BY <2>13 DEF Fence
  <2>14. CASE Check(p)
    BY <2>14 DEF StartAllowed, Check
  <2>15. CASE Arm(p)
    BY <2>15 DEF Arm
  <2>16. CASE Started(p)
    BY <2>16 DEF Started
  <2>17. CASE Confirm(p)
    BY <2>17 DEF Confirm
  <2>18. CASE InitCheck(p)
    BY <2>18 DEF InitCheck
  <2>19. CASE AckCheck(p)
    BY <2>19 DEF AckCheck
  <2>20. CASE ChildExits(p)
    BY <2>20 DEF ChildExits
  <2> QED BY <1>9, <1>10, <2>1, <2>2, <2>3, <2>4, <2>5, <2>6, <2>7, <2>8, <2>9,
             <2>10, <2>11, <2>12, <2>13, <2>14, <2>15, <2>16, <2>17, <2>18,
             <2>19, <2>20 DEF ProcStep
<1>11. CASE GameExits  BY <1>11 DEF GameExits
<1>12. CASE Supervise  BY <1>12 DEF Supervise
<1>13. CASE ClockMoves  BY <1>13 DEF ClockMoves
<1>14. CASE Boot  BY <1>14 DEF Boot
<1>15. CASE UNCHANGED vars BY <1>15 DEF vars
<1> QED BY <1>1, <1>2, <1>3, <1>4, <1>5, <1>6, <1>7, <1>8, <1>10, <1>11, <1>12,
           <1>13, <1>14, <1>15 DEF Next

\* Every step keeps the current generation the newest.
LEMMA NextGen == TypeOK /\ LockInv /\ GenInv /\ [Next]_vars => GenInv'
<1> SUFFICES ASSUME TypeOK, LockInv, GenInv, [Next]_vars PROVE GenInv'
  OBVIOUS
<1> USE DEF TypeOK, LockInv, GenInv, NoGenerationReturns, WillWriteIdle, StatusType,
            fileVars, serviceVars, procVars, history, Goto, Owner, Child,
            Locked, Maintenance, Writing
<1>1. ASSUME NEW p \in Proc, NEW w \in Workload, Launch(p, w[1], w[2]) PROVE GenInv'
  BY <1>1 DEF Launch, Free
<1>2. ASSUME NEW p \in Proc, Admit(p) PROVE GenInv'
  BY <1>2 DEF Admit, Free, FenceHolds
<1>3. ASSUME NEW p \in Proc, StartReaper(p) PROVE GenInv'
  BY <1>3 DEF StartReaper, Free
<1>4. ASSUME NEW p \in Proc, StepTimeout(p) PROVE GenInv'
  BY <1>4 DEF StepTimeout
<1>5. ASSUME NEW p \in Proc, Expire(p) PROVE GenInv'
  BY <1>5 DEF Expire
<1>6. ASSUME NEW p \in Proc, Crash(p) PROVE GenInv'
  BY <1>6 DEF Crash
<1>7. ASSUME NEW p \in Proc, ChildDies(p) PROVE GenInv'
  BY <1>7 DEF ChildDies, Fails
<1>8. ASSUME NEW p \in Proc, WorkerDies(p) PROVE GenInv'
  BY <1>8 DEF WorkerDies
<1>9. ASSUME NEW p \in Proc, ChildStep(p) PROVE GenInv'
  <2>1. /\ UNCHANGED <<holders, pc, kind, seen, fence, stale, status, gen, last>>
        /\ Child(p) \in holders
    BY <1>9, ChildStepFrame
  <2>2. UNCHANGED <<rc, tainted>> \/ Fails(p)
    BY <1>9, ChildStepFrame
  <2> QED BY <2>1, <2>2 DEF Fails
<1>10. ASSUME NEW p \in Proc, ProcStep(p) PROVE GenInv'
  <2>1. CASE Dispatch(p)
    BY <2>1 DEF Dispatch
  <2>2. CASE Acquire(p)
    BY <2>2 DEF LockFree, Acquire, Acquired
  <2>3. CASE LockBusy(p)
    BY <2>3 DEF LockFree, LockBusy
  <2>4. CASE Release(p)
    BY <2>4 DEF Closed, Release
  <2>5. CASE WriteRead(p)
    BY <2>5 DEF Refuses, WriteRead, Target, Forces
  <2>6. CASE WriteReplace(p)
    <3>1. CASE pc[p] = "reapWrite"
      <4>1. /\ status' = "unsafe" /\ UNCHANGED <<last, holders, kind, rc, fence, stale>>
            /\ gen' = seen[p] /\ seen' = [seen EXCEPT ![p] = 0]
            /\ pc' = [pc EXCEPT ![p] = "release"]
        BY <2>6, <3>1 DEF Loaded, WriteReplace, Target, Rotates
      <4> QED BY <3>1, <4>1
    <3>2. CASE pc[p] # "reapWrite"
      <4>1. \A q \in Proc : q # p => pc[q] \notin Locked \ {"release"} /\ Child(q) \notin holders
        BY <2>6, <3>2, Alone DEF Loaded, WriteReplace
      <4>2. \A q \in Proc : ~WillWriteIdle(q)'
        BY <2>6, <4>1 DEF Loaded, WriteReplace, EnterMaintenance
      <4>3. \A q \in Proc : fence'[q] <= last'
        BY <2>6 DEF Loaded, WriteReplace
      <4>4. NoGenerationReturns'
        <5>1. CASE Rotates(p)  BY <2>6, <5>1 DEF Loaded, WriteReplace
        <5>2. CASE ~Rotates(p)
          BY <2>6, <3>2, <5>2 DEF Loaded, WriteReplace, Target, Rotates
        <5> QED BY <5>1, <5>2
      <4> QED BY <4>2, <4>3, <4>4
    <3> QED BY <3>1, <3>2
  <2>7. CASE WriteFails(p)
    BY <2>7 DEF WriteFails
  <2>8. CASE Recheck(p)
    BY <2>8 DEF Recheck
  <2>9. CASE Begin(p)
    BY <2>9 DEF Begin, EnterMaintenance
  <2>10. CASE Spawn(p)
    BY <2>10 DEF Spawn
  <2>11. CASE AbortUnstarted(p)
    BY <2>11 DEF AbortUnstarted
  <2>12. CASE Finish(p)
    BY <2>12 DEF Finish
  <2>13. CASE Fence(p)
    BY <2>13 DEF Fence
  <2>14. CASE Check(p)
    BY <2>14 DEF StartAllowed, Check
  <2>15. CASE Arm(p)
    BY <2>15 DEF Arm
  <2>16. CASE Started(p)
    BY <2>16 DEF Started
  <2>17. CASE Confirm(p)
    BY <2>17 DEF Confirm
  <2>18. CASE InitCheck(p)
    BY <2>18 DEF InitCheck
  <2>19. CASE AckCheck(p)
    BY <2>19 DEF AckCheck
  <2>20. CASE ChildExits(p)
    BY <2>20 DEF ChildExits
  <2> QED BY <1>9, <1>10, <2>1, <2>2, <2>3, <2>4, <2>5, <2>6, <2>7, <2>8, <2>9,
             <2>10, <2>11, <2>12, <2>13, <2>14, <2>15, <2>16, <2>17, <2>18,
             <2>19, <2>20 DEF ProcStep
<1>11. CASE GameExits  BY <1>11 DEF GameExits
<1>12. CASE Supervise  BY <1>12 DEF Supervise
<1>13. CASE ClockMoves  BY <1>13 DEF ClockMoves
<1>14. CASE Boot  BY <1>14 DEF Boot
<1>15. CASE UNCHANGED vars BY <1>15 DEF vars
<1> QED BY <1>1, <1>2, <1>3, <1>4, <1>5, <1>6, <1>7, <1>8, <1>10, <1>11, <1>12,
           <1>13, <1>14, <1>15 DEF Next

\* Every step holds outdated wakes off.
LEMMA NextWake == TypeOK /\ LockInv /\ TaintInv /\ GenInv /\ WakeInv /\ [Next]_vars => WakeInv'
<1> SUFFICES ASSUME TypeOK, LockInv, TaintInv, GenInv, WakeInv, [Next]_vars PROVE WakeInv'
  OBVIOUS
<1> USE DEF TypeOK, LockInv, GenInv, WakeInv, NoGenerationReturns, HeldOff, MaintenanceActs,
            WakeActs, InMaintenance, WillWriteIdle, StatusType, FenceHolds,
            fileVars, serviceVars, procVars, history, Goto, Owner, Child,
            Locked, Maintenance, Writing
<1>1. ASSUME NEW p \in Proc, NEW w \in Workload, Launch(p, w[1], w[2]) PROVE WakeInv'
  BY <1>1 DEF Launch, Free
<1>2. ASSUME NEW p \in Proc, Admit(p) PROVE WakeInv'
  BY <1>2 DEF Admit, Free, FenceHolds
<1>3. ASSUME NEW p \in Proc, StartReaper(p) PROVE WakeInv'
  BY <1>3 DEF StartReaper, Free
<1>4. ASSUME NEW p \in Proc, StepTimeout(p) PROVE WakeInv'
  BY <1>4 DEF StepTimeout
<1>5. ASSUME NEW p \in Proc, Expire(p) PROVE WakeInv'
  BY <1>5 DEF Expire
<1>6. ASSUME NEW p \in Proc, Crash(p) PROVE WakeInv'
  BY <1>6 DEF Crash
<1>7. ASSUME NEW p \in Proc, ChildDies(p) PROVE WakeInv'
  BY <1>7 DEF ChildDies, Fails
<1>8. ASSUME NEW p \in Proc, WorkerDies(p) PROVE WakeInv'
  BY <1>8 DEF WorkerDies
<1>9. ASSUME NEW p \in Proc, ChildStep(p) PROVE WakeInv'
  <2>1. /\ UNCHANGED <<holders, pc, kind, seen, fence, stale, status, gen, last>>
        /\ Child(p) \in holders
    BY <1>9, ChildStepFrame
  <2>2. UNCHANGED <<rc, tainted>> \/ Fails(p)
    BY <1>9, ChildStepFrame
  <2> QED BY <2>1, <2>2 DEF Fails
<1>10. ASSUME NEW p \in Proc, ProcStep(p) PROVE WakeInv'
  <2>1. CASE Dispatch(p)
    BY <2>1 DEF Dispatch
  <2>2. CASE Acquire(p)
    BY <2>2 DEF LockFree, Acquire, Acquired
  <2>3. CASE LockBusy(p)
    BY <2>3 DEF LockFree, LockBusy
  <2>4. CASE Release(p)
    BY <2>4 DEF Closed, Release
  <2>5. CASE WriteRead(p)
    BY <2>5 DEF Refuses, WriteRead, Target, Forces
  <2>6. CASE WriteReplace(p)
    <3>1. CASE pc[p] = "reapWrite"
      <4>1. /\ status' = "unsafe" /\ UNCHANGED <<last, holders, kind, rc, fence, stale>>
            /\ gen' = seen[p] /\ seen' = [seen EXCEPT ![p] = 0]
            /\ pc' = [pc EXCEPT ![p] = "release"]
        BY <2>6, <3>1 DEF Loaded, WriteReplace, Target, Rotates
      <4> QED BY <3>1, <4>1
    <3>2. CASE pc[p] # "reapWrite"
      <4>1. \A q \in Proc : q # p => pc[q] \notin Locked \ {"release"} /\ Child(q) \notin holders
        BY <2>6, <3>2, Alone DEF Loaded, WriteReplace
      <4>2. \A q \in Proc : ~WillWriteIdle(q)'
        BY <2>6, <4>1 DEF Loaded, WriteReplace, EnterMaintenance
      <4>3. CASE Rotates(p)
        <5>1. last' = last + 1 /\ fence' = fence
          BY <2>6, <4>3 DEF Loaded, WriteReplace
        <5>2. \A q \in Proc : ~HeldOff(q)'
          BY <5>1
        <5>3. \A q \in Proc : pc'[q] \notin {"check", "arm", "start"} /\ ~WakeActs(q)'
          <6>1. /\ UNCHANGED <<holders, kind>>
                /\ \/ pc' = [pc EXCEPT ![p] = "gate"]
                   \/ pc' = [pc EXCEPT ![p] = "release"]
            BY <2>6 DEF Loaded, WriteReplace, EnterMaintenance
          <6>2. Child(p) \notin holders
            BY <4>3 DEF Rotates
          <6>3. \A q \in Proc : Child(q) \notin holders
            BY <4>1, <6>2
          <6>4. ASSUME NEW q \in Proc PROVE pc'[q] \notin {"check", "arm", "start"}
            <7>1. CASE q = p   BY <6>1, <7>1
            <7>2. CASE q # p
              <8>1. pc'[q] = pc[q] BY <6>1, <7>2
              <8> QED BY <4>1, <7>2, <8>1
            <7> QED BY <7>1, <7>2
          <6> QED BY <6>1, <6>3, <6>4
        <5> QED BY <5>2, <5>3
      <4>4. CASE ~Rotates(p) /\ pc[p] = "escalate"
        <5>1. status' = "unsafe"
          BY <2>6, <4>4 DEF Loaded, WriteReplace, Target
        <5>2. \A q \in Proc : pc'[q] \notin {"check", "arm", "start"} /\ ~WakeActs(q)'
          BY <2>6, <4>1, <4>4 DEF Loaded, WriteReplace, EnterMaintenance
        <5> QED BY <4>2, <5>1, <5>2
      <4>5. CASE ~Rotates(p) /\ pc[p] # "escalate"
        <5>1. /\ UNCHANGED <<last, fence, stale, kind, holders>>
              /\ pc' = [pc EXCEPT ![p] = "release"]
          BY <2>6, <4>5 DEF Loaded, WriteReplace, Rotates
        <5>2. CASE status' = "unsafe"
          BY <4>1, <4>2, <5>1, <5>2
        <5>3. CASE status' # "unsafe"
          <6>1. WillWriteIdle(p)
            BY <2>6, <3>2, <4>5, <5>3 DEF Loaded, WriteReplace, Target, Rotates
          <6>2. \A q \in Proc : ~HeldOff(q)
            BY <6>1
          <6>3. \A q \in Proc : ~HeldOff(q)'
            BY <5>1, <6>2
          <6> QED BY <4>1, <5>1, <6>3
        <5> QED BY <5>2, <5>3
      <4> QED BY <4>3, <4>4, <4>5
    <3> QED BY <3>1, <3>2
  <2>7. CASE WriteFails(p)
    BY <2>7 DEF WriteFails
  <2>8. CASE Recheck(p)
    BY <2>8 DEF Recheck
  <2>9. CASE Begin(p)
    <3>1. \A q \in Proc : q # p => pc[q] \notin Locked \ {"release"} /\ Child(q) \notin holders
      BY <2>9, Alone DEF Begin
    <3>2. CASE status = "unsafe"
      <4>1. \A q \in Proc : ~WillWriteIdle(q)'
        BY <2>9, <3>1 DEF Begin, EnterMaintenance
      <4>2. \A q \in Proc : pc'[q] \notin {"check", "arm", "start"} /\ ~WakeActs(q)'
        <5>1. UNCHANGED <<holders, kind>> /\ pc' = [pc EXCEPT ![p] = "gate"]
          BY <2>9, <3>2 DEF Begin, EnterMaintenance
        <5>2. Child(p) \notin holders
          BY <2>9 DEF Begin
        <5>3. \A q \in Proc : Child(q) \notin holders
          BY <3>1, <5>2
        <5>4. ASSUME NEW q \in Proc PROVE pc'[q] \notin {"check", "arm", "start"}
          <6>1. CASE q = p   BY <5>1, <6>1
          <6>2. CASE q # p
            <7>1. pc'[q] = pc[q] BY <5>1, <6>2
            <7> QED BY <3>1, <6>2, <7>1
          <6> QED BY <6>1, <6>2
        <5> QED BY <5>1, <5>3, <5>4
      <4>3. status' = "unsafe"
        BY <2>9, <3>2 DEF Begin
      <4> QED BY <4>1, <4>2, <4>3
    <3>3. CASE status # "unsafe"
      BY <2>9, <3>1, <3>3 DEF Begin, EnterMaintenance
    <3> QED BY <3>2, <3>3
  <2>10. CASE Spawn(p)
    BY <2>10 DEF Spawn
  <2>11. CASE AbortUnstarted(p)
    BY <2>11 DEF AbortUnstarted
  <2>12. CASE Finish(p)
    BY <2>12 DEF Finish
  <2>13. CASE Fence(p)
    BY <2>13 DEF Fence
  <2>14. CASE Check(p)
    BY <2>14 DEF StartAllowed, Check
  <2>15. CASE Arm(p)
    BY <2>15 DEF Arm
  <2>16. CASE Started(p)
    BY <2>16 DEF Started
  <2>17. CASE Confirm(p)
    BY <2>17 DEF Confirm
  <2>18. CASE InitCheck(p)
    BY <2>18 DEF InitCheck
  <2>19. CASE AckCheck(p)
    BY <2>19 DEF AckCheck
  <2>20. CASE ChildExits(p)
    BY <2>20 DEF ChildExits
  <2> QED BY <1>9, <1>10, <2>1, <2>2, <2>3, <2>4, <2>5, <2>6, <2>7, <2>8, <2>9,
             <2>10, <2>11, <2>12, <2>13, <2>14, <2>15, <2>16, <2>17, <2>18,
             <2>19, <2>20 DEF ProcStep
<1>11. CASE GameExits  BY <1>11 DEF GameExits
<1>12. CASE Supervise  BY <1>12 DEF Supervise
<1>13. CASE ClockMoves  BY <1>13 DEF ClockMoves
<1>14. CASE Boot  BY <1>14 DEF Boot
<1>15. CASE UNCHANGED vars BY <1>15 DEF vars
<1> QED BY <1>1, <1>2, <1>3, <1>4, <1>5, <1>6, <1>7, <1>8, <1>10, <1>11, <1>12,
           <1>13, <1>14, <1>15 DEF Next

-----------------------------------------------------------------------------
(* The theorems.                                                           *)

\* The invariant behind the safety properties is inductive: it holds at first
\* and every step of every process, crash and reboot keeps it.
THEOREM Safety == Spec => []IInv
<1>1. Init => IInv
  BY InitTyped, InitLocked, InitSafe DEF IInv
<1>2. IInv /\ [Next]_vars => IInv'
  BY NextTyped, NextLocked, NextTaint, NextGen, NextWake DEF IInv
<1> QED BY <1>1, <1>2, PTL DEF Spec

\* A maintenance that failed or died is never followed by an idle state before
\* an acknowledgement, with any number of controllers, crashes and reboots.
THEOREM FailsClosed == Spec => []FailClosed
<1>1. IInv => FailClosed
  BY DEF IInv, TaintInv
<1> QED BY <1>1, Safety, PTL

\* No automatic start is in flight after such a maintenance.
THEOREM NoWakeFollowsFailure == Spec => []NoWakeIntoFailure
<1>1. IInv => NoWakeIntoFailure
  BY DEF IInv, TaintInv, NoWakeIntoFailure
<1> QED BY <1>1, Safety, PTL

\* From its first step to the last command its children still run, a
\* maintenance keeps the state from reading idle and every starter away.
THEOREM MaintenanceIsFenced == Spec => []MaintenanceInhibits
<1>1. IInv => MaintenanceInhibits
  <2> SUFFICES ASSUME IInv, NEW p \in Proc, MaintenanceActs(p) \/ InMaintenance(p),
                      NEW q \in Proc, WakeActs(q)
               PROVE  FALSE
    BY DEF IInv, TaintInv, MaintenanceInhibits
  <2>1. kind[p] \in Maintenance
    BY DEF IInv, LockInv, MaintenanceActs, InMaintenance
  <2>2. Owner(p) \in holders \/ Child(p) \in holders
    BY DEF IInv, LockInv, MaintenanceActs, InMaintenance, Locked
  <2>3. p = q
    BY <2>2 DEF IInv, LockInv, WakeActs, Owner, Child
  <2> QED BY <2>1, <2>3 DEF WakeActs, Maintenance
<1> QED BY <1>1, Safety, PTL

\* The generation in the file is the newest one unless the state is unsafe.
THEOREM GenerationsGoForward == Spec => []NoGenerationReturns
<1>1. IInv => NoGenerationReturns
  BY DEF IInv, GenInv
<1> QED BY <1>1, Safety, PTL

\* A fenced wake never starts the service after anything outdated it, however
\* long it was queued.
THEOREM DelayedWakesAreRefused == Spec => []NoDelayedWake
<1>1. IInv => NoDelayedWake
  BY DEF IInv, WakeInv, NoDelayedWake
<1> QED BY <1>1, Safety, PTL

-----------------------------------------------------------------------------
(* The sticky marker.  A run refutes it for the system with the reaper,    *)
(* which writes without the lock; the reaper is the only reason.           *)

\* Without the reaper, a write of another state that has read the file never
\* finds it unsafe when it replaces it.
LEMMA NextSticky ==
  ASSUME <<"reap", "none">> \notin Workload
  PROVE  TypeOK /\ LockInv /\ StickyInv /\ [Next]_vars => StickyInv'
<1> SUFFICES ASSUME TypeOK, LockInv, StickyInv, [Next]_vars PROVE StickyInv'
  OBVIOUS
<1> USE DEF TypeOK, LockInv, StickyInv, NoReaper, StatusType,
            fileVars, serviceVars, procVars, history, Goto, Owner, Child,
            Locked, Maintenance, Writing
<1>1. ASSUME NEW p \in Proc, NEW w \in Workload, Launch(p, w[1], w[2]) PROVE StickyInv'
  BY <1>1 DEF Launch, Free
<1>2. ASSUME NEW p \in Proc, Admit(p) PROVE StickyInv'
  BY <1>2 DEF Admit, Free
<1>3. ASSUME NEW p \in Proc, StartReaper(p) PROVE StickyInv'
  BY <1>3 DEF StartReaper
<1>4. ASSUME NEW p \in Proc, StepTimeout(p) PROVE StickyInv'
  BY <1>4 DEF StepTimeout
<1>5. ASSUME NEW p \in Proc, Expire(p) PROVE StickyInv'
  BY <1>5 DEF Expire
<1>6. ASSUME NEW p \in Proc, Crash(p) PROVE StickyInv'
  BY <1>6 DEF Crash
<1>7. ASSUME NEW p \in Proc, ChildDies(p) PROVE StickyInv'
  BY <1>7 DEF ChildDies, Fails
<1>8. ASSUME NEW p \in Proc, WorkerDies(p) PROVE StickyInv'
  BY <1>8 DEF WorkerDies
<1>9. ASSUME NEW p \in Proc, ChildStep(p) PROVE StickyInv'
  <2>1. UNCHANGED <<pc, seen, status>>
    BY <1>9, ChildStepFrame
  <2>2. UNCHANGED <<rc, tainted>> \/ Fails(p)
    BY <1>9, ChildStepFrame
  <2> QED BY <2>1, <2>2 DEF Fails
<1>10. ASSUME NEW p \in Proc, ProcStep(p) PROVE StickyInv'
  <2>1. CASE Dispatch(p)
    BY <2>1 DEF Dispatch
  <2>2. CASE Acquire(p)
    BY <2>2 DEF LockFree, Acquire, Acquired
  <2>3. CASE LockBusy(p)
    BY <2>3 DEF LockFree, LockBusy
  <2>4. CASE Release(p)
    BY <2>4 DEF Closed, Release
  <2>5. CASE WriteRead(p)
    BY <2>5 DEF Refuses, WriteRead, Target, Forces
  <2>6. CASE WriteReplace(p)
    <3>1. \A q \in Proc : q # p => pc[q] \notin Writing
      BY <2>6, Alone DEF Loaded, WriteReplace
    <3>2. \A q \in Proc : seen'[q] = 0
      BY <2>6, <3>1 DEF Loaded, WriteReplace
    <3>3. \A q \in Proc : pc'[q] # "reapWrite"
      BY <2>6 DEF Loaded, WriteReplace, EnterMaintenance
    <3> QED BY <3>2, <3>3
  <2>7. CASE WriteFails(p)
    BY <2>7 DEF WriteFails
  <2>8. CASE Recheck(p)
    BY <2>8 DEF Recheck
  <2>9. CASE Begin(p)
    BY <2>9 DEF Begin, EnterMaintenance
  <2>10. CASE Spawn(p)
    BY <2>10 DEF Spawn
  <2>11. CASE AbortUnstarted(p)
    BY <2>11 DEF AbortUnstarted
  <2>12. CASE Finish(p)
    BY <2>12 DEF Finish
  <2>13. CASE Fence(p)
    BY <2>13 DEF Fence
  <2>14. CASE Check(p)
    BY <2>14 DEF StartAllowed, Check
  <2>15. CASE Arm(p)
    BY <2>15 DEF Arm
  <2>16. CASE Started(p)
    BY <2>16 DEF Started
  <2>17. CASE Confirm(p)
    <3>1. pc[p] = "confirm" /\ seen[p] = 0 /\ UNCHANGED <<status, rc, seen>>
      BY <2>17 DEF Confirm
    <3>2. pc' = [pc EXCEPT ![p] = "rotate"] \/ pc' = [pc EXCEPT ![p] = "release"]
      BY <2>17 DEF Confirm
    <3> QED BY <3>1, <3>2
  <2>18. CASE InitCheck(p)
    BY <2>18 DEF InitCheck
  <2>19. CASE AckCheck(p)
    BY <2>19 DEF AckCheck
  <2>20. CASE ChildExits(p)
    BY <2>20 DEF ChildExits
  <2> QED BY <1>9, <1>10, <2>1, <2>2, <2>3, <2>4, <2>5, <2>6, <2>7, <2>8, <2>9,
             <2>10, <2>11, <2>12, <2>13, <2>14, <2>15, <2>16, <2>17, <2>18,
             <2>19, <2>20 DEF ProcStep
<1>11. CASE GameExits  BY <1>11 DEF GameExits
<1>12. CASE Supervise  BY <1>12 DEF Supervise
<1>13. CASE ClockMoves  BY <1>13 DEF ClockMoves
<1>14. CASE Boot  BY <1>14 DEF Boot
<1>15. CASE UNCHANGED vars BY <1>15 DEF vars
<1> QED BY <1>1, <1>2, <1>3, <1>4, <1>5, <1>6, <1>7, <1>8, <1>10, <1>11, <1>12,
           <1>13, <1>14, <1>15 DEF Next

\* A process that writes is the only one whose step changes the status, and
\* only the forced write of an acknowledgement turns an unsafe one.
LEMMA StickyStep ==
  ASSUME TypeOK, LockInv, StickyInv, [Next]_vars
  PROVE  [status = "unsafe" /\ status' # "unsafe" =>
            \E p \in Proc : pc[p] = "ackWrite"]_status
<1> SUFFICES ASSUME status = "unsafe", status' # "unsafe"
             PROVE  \E p \in Proc : pc[p] = "ackWrite"
  OBVIOUS
<1> USE DEF fileVars, serviceVars, procVars, history
<1>1. ASSUME NEW p \in Proc, NEW w \in Workload, Launch(p, w[1], w[2]) PROVE FALSE
  BY <1>1 DEF Launch
<1>2. ASSUME NEW p \in Proc, ChildStep(p) PROVE FALSE
  BY <1>2, ChildStepFrame
<1>3. ASSUME NEW p \in Proc, ProcStep(p), ~WriteReplace(p) PROVE FALSE
  BY <1>2, <1>3 DEF LockFree, Closed, Refuses, StartAllowed, ProcStep, Dispatch, Acquire, LockBusy, Release, WriteRead, WriteFails,
         Recheck, Begin, Spawn, AbortUnstarted, Finish, Fence, Check, Arm, Started,
         Confirm, InitCheck, AckCheck, ChildExits
<1>4. ASSUME NEW p \in Proc, WriteReplace(p) PROVE pc[p] = "ackWrite"
  <2>1. Target(p) # "unsafe" /\ pc[p] \in Writing /\ seen[p] # 0
    BY <1>4 DEF Loaded, WriteReplace
  <2>2. pc[p] \in {"publish", "complete", "rotate", "initRotate", "ackWrite"}
    BY <2>1 DEF Target, Writing
  <2>3. ~(pc[p] = "complete" /\ rc[p] # 0)
    BY <2>1 DEF Target
  <2> QED BY <2>1, <2>2, <2>3 DEF StickyInv
<1>5. ASSUME NEW p \in Proc,
             Admit(p) \/ StartReaper(p) \/ StepTimeout(p) \/ Expire(p) \/ Crash(p)
               \/ ChildDies(p) \/ WorkerDies(p)
      PROVE  FALSE
  BY <1>5 DEF Admit, StartReaper, StepTimeout, Expire, Crash, ChildDies, WorkerDies
<1>6. CASE GameExits \/ Supervise \/ ClockMoves \/ Boot \/ UNCHANGED vars
  BY <1>6 DEF GameExits, Supervise, ClockMoves, Boot, vars
<1> QED BY <1>1, <1>3, <1>4, <1>5, <1>6 DEF Next

\* Without the reaper, only an acknowledgement leaves the unsafe state.
THEOREM StickyWithoutReaper ==
  ASSUME <<"reap", "none">> \notin Workload
  PROVE  Spec => StickyUnsafe
<1>1. Init => TypeOK /\ LockInv /\ StickyInv
  BY InitTyped, InitLocked DEF Init, StickyInv, NoReaper
<1>2. TypeOK /\ LockInv /\ StickyInv /\ [Next]_vars => (TypeOK /\ LockInv /\ StickyInv)'
  BY NextTyped, NextLocked, NextSticky
<1>3. TypeOK /\ LockInv /\ StickyInv /\ [Next]_vars =>
        [status = "unsafe" /\ status' # "unsafe" =>
           \E p \in Proc : pc[p] = "ackWrite"]_status
  BY StickyStep
<1> QED BY <1>1, <1>2, <1>3, PTL DEF Spec, StickyUnsafe

-----------------------------------------------------------------------------
(* What a success means.                                                   *)

\* The orders the scripts keep to, as facts about the next step.
LEMMA Ahead ==
  ASSUME NEW S \in SUBSET Step, NEW s, IsNext(s, S)
  PROVE  /\ s \in S
         /\ s = "mark" => "fetch" \notin S /\ "probe" \notin S
         /\ s = "down" => "mark" \notin S
         /\ s = "await" => "mark" \notin S /\ "down" \notin S
         /\ s = "clear" => "mark" \notin S /\ "down" \notin S /\ "await" \notin S
         /\ s = "up" => /\ "mark" \notin S /\ "down" \notin S /\ "await" \notin S
                        /\ "clear" \notin S
  BY DEF IsNext, Rank, Step

\* What the scripts are made of.
LEMMA Scripts ==
  /\ \A g \in Program :
       /\ Script[g] \cap {"fetch", "probe"} # {} => "mark" \in Script[g]
       /\ "mark" \in Script[g] => "down" \in Script[g]
       /\ "down" \in Script[g] /\ g \in {"restart", "restore"} => "clear" \in Script[g]
       /\ "up" \in Script[g] => "clear" \in Script[g]
  /\ Script["stop"] = {"mark", "down", "await"}
  /\ Script["start"] = {"clear", "up"}
  /\ Script["restart"] = {"mark", "down", "await", "edit", "clear", "up"}
  /\ Script["restore"] = {"mark", "down", "await", "edit", "clear", "up", "ready"}
  BY DEF Program, Script, StopSteps, StartSteps

\* A controller whose steps have all succeeded so far.
Planned(p) == pc[p] \in {"body", "complete"} /\ rc[p] = 0

\* What is behind it has the effect it is there for, and nothing that is still
\* ahead undoes it.
Done(p) ==
  /\ todo[p] \subseteq Script[prog[p]]
  /\ Child(p) \in holders \/ todo[p] = {}
  /\ prog[p] = "stop" =>
       /\ "mark" \notin todo[p] => meant
       /\ "down" \notin todo[p] => want = "down" /\ "mark" \notin todo[p]
       /\ "await" \notin todo[p] => svc = "down" /\ "down" \notin todo[p]
  /\ prog[p] # "stop" =>
       /\ "clear" \notin todo[p] => ~meant /\ "mark" \notin todo[p]
       /\ "up" \notin todo[p] => /\ want = "up"
                                 /\ "clear" \notin todo[p] /\ "down" \notin todo[p]

SuccessInv ==
  \A p \in Proc :
    Planned(p) /\ prog[p] \in {"stop", "start", "restart", "restore"} => Done(p)

\* Every step keeps what a controller has done so far done: nobody else's
\* child touches the service beside it.
LEMMA NextSuccess ==
  TypeOK /\ LockInv /\ SuccessInv /\ [Next]_vars => SuccessInv'
<1> SUFFICES ASSUME TypeOK, LockInv, SuccessInv, [Next]_vars PROVE SuccessInv'
  OBVIOUS
<1> USE DEF TypeOK, fileVars, serviceVars, procVars, history, Goto, Owner, Child,
            Locked, Maintenance, Writing
<1> USE DEF LockInv, SuccessInv
<1>1. ASSUME NEW p \in Proc, NEW w \in Workload, Launch(p, w[1], w[2]) PROVE SuccessInv'
  BY <1>1 DEF Launch, Free, Planned, Done
<1>2. ASSUME NEW p \in Proc, Admit(p) PROVE SuccessInv'
  BY <1>2 DEF Admit, Free, Planned, Done
<1>3. ASSUME NEW p \in Proc, StartReaper(p) PROVE SuccessInv'
  BY <1>3 DEF StartReaper, Free, Planned, Done
<1>4. ASSUME NEW p \in Proc, StepTimeout(p) PROVE SuccessInv'
  BY <1>4 DEF StepTimeout, Planned, Done
<1>5. ASSUME NEW p \in Proc, Expire(p) PROVE SuccessInv'
  BY <1>5 DEF Expire, Planned, Done
<1>6. ASSUME NEW p \in Proc, Crash(p) PROVE SuccessInv'
  BY <1>6 DEF Crash, Planned, Done
<1>7. ASSUME NEW p \in Proc, ChildDies(p) PROVE SuccessInv'
  BY <1>7 DEF ChildDies, Fails, Planned, Done
<1>8. ASSUME NEW p \in Proc, WorkerDies(p) PROVE SuccessInv'
  BY <1>8 DEF WorkerDies, Planned, Done
<1>9. ASSUME NEW p \in Proc, ChildStep(p) PROVE SuccessInv'
  <2>1. /\ Child(p) \in holders /\ UNCHANGED <<holders, pc, kind, prog>>
        /\ UNCHANGED <<rc, tainted>> \/ Fails(p)
    BY <1>9, ChildStepFrame
  <2>2. \A q \in Proc : q # p => pc'[q] \notin {"body", "complete"}
    BY <2>1, Alone
  <2>3. SUFFICES ASSUME Planned(p)', prog[p] \in {"stop", "start", "restart", "restore"}
        PROVE  Done(p)'
    BY <2>1, <2>2 DEF Planned
  <2>4. rc'[p] = 0 /\ rc[p] = 0 /\ Planned(p) /\ ~Fails(p)
    BY <2>1, <2>3 DEF Planned, Fails
  <2>5. Done(p) /\ todo[p] \subseteq Script[prog[p]] /\ Script[prog[p]] \subseteq Step
    BY <2>3, <2>4, ScriptSteps DEF Done
  <2>6. ~StepAborts(p)
    BY <2>4 DEF StepAborts
  <2>7. CASE Fetch(p)
    BY <2>3, <2>5, <2>7, Scripts DEF Fetch, Does, IsNext
  <2>8. CASE Probe(p)
    BY <2>3, <2>5, <2>8, Scripts DEF Probe, Does, IsNext
  <2>9. CASE Mark(p)
    <3>1. "mark" \in todo[p] /\ IsNext("mark", todo[p])
      BY <2>9 DEF Mark, Does, IsNext
    <3>2. todo' = [todo EXCEPT ![p] = @ \ {"mark"}]
      BY <2>4, <2>6, <2>9 DEF Mark, StepOk
    <3> QED BY <2>1, <2>3, <2>5, <2>6, <2>9, <3>1, <3>2, Ahead, Scripts
            DEF Mark, Done, StopSteps
  <2>10. CASE Down(p)
    <3>1. "down" \in todo[p] /\ IsNext("down", todo[p])
      BY <2>10 DEF Down, Does, IsNext
    <3>2. \/ todo' = [todo EXCEPT ![p] = @ \ {"down"}]
          \/ prog[p] = "restore" /\ todo' = [todo EXCEPT ![p] = @ \ StopSteps]
      BY <2>4, <2>6, <2>10 DEF Down, StepOk
    <3> QED BY <2>1, <2>3, <2>5, <2>6, <2>10, <3>1, <3>2, Ahead, Scripts
            DEF Down, Done, StopSteps
  <2>11. CASE Await(p)
    <3>1. "await" \in todo[p] /\ IsNext("await", todo[p])
      BY <2>11 DEF Await, Does, IsNext
    <3>2. todo' = [todo EXCEPT ![p] = @ \ {"await"}]
      BY <2>4, <2>6, <2>11 DEF Await, StepOk
    <3> QED BY <2>1, <2>3, <2>5, <2>6, <2>11, <3>1, <3>2, Ahead, Scripts
            DEF Await, Done, StopSteps, StopConfirmed
  <2>12. CASE Edit(p)
    <3>1. "edit" \in todo[p] /\ IsNext("edit", todo[p])
      BY <2>12 DEF Edit, Does, IsNext
    <3>2. todo' = [todo EXCEPT ![p] = @ \ {"edit"}]
      BY <2>4, <2>6, <2>12 DEF Edit, StepOk
    <3> QED BY <2>1, <2>3, <2>5, <2>6, <2>12, <3>1, <3>2, Ahead, Scripts
            DEF Edit, Done, StopSteps
  <2>13. CASE Clear(p)
    <3>1. "clear" \in todo[p] /\ IsNext("clear", todo[p])
      BY <2>13 DEF Clear, Does, IsNext
    <3>2. todo' = [todo EXCEPT ![p] = @ \ {"clear"}]
      BY <2>4, <2>6, <2>13 DEF Clear, StepOk
    <3> QED BY <2>1, <2>3, <2>5, <2>6, <2>13, <3>1, <3>2, Ahead, Scripts
            DEF Clear, Done, StopSteps
  <2>14. CASE Up(p)
    <3>1. "up" \in todo[p] /\ IsNext("up", todo[p])
      BY <2>14 DEF Up, Does, IsNext
    <3>2. todo' = [todo EXCEPT ![p] = @ \ {"up"}]
      BY <2>4, <2>6, <2>14 DEF Up, StepOk
    <3> QED BY <2>1, <2>3, <2>5, <2>6, <2>14, <3>1, <3>2, Ahead, Scripts
            DEF Up, Done, StopSteps
  <2>15. CASE Bounce(p)
    <3>1. "bounce" \in todo[p] /\ IsNext("bounce", todo[p])
      BY <2>15 DEF Bounce, Does, IsNext
    <3>2. todo' = [todo EXCEPT ![p] = @ \ {"bounce"}]
      BY <2>4, <2>6, <2>15 DEF Bounce, StepOk
    <3> QED BY <2>1, <2>3, <2>5, <2>6, <2>15, <3>1, <3>2, Ahead, Scripts
            DEF Bounce, Done, StopSteps
  <2>16. CASE Ready(p)
    <3>1. "ready" \in todo[p] /\ IsNext("ready", todo[p])
      BY <2>16 DEF Ready, Does, IsNext
    <3>2. todo' = [todo EXCEPT ![p] = @ \ {"ready"}]
      BY <2>4, <2>6, <2>16 DEF Ready, StepOk
    <3> QED BY <2>1, <2>3, <2>5, <2>6, <2>16, <3>1, <3>2, Ahead, Scripts
            DEF Ready, Done, StopSteps
  <2> QED BY <1>9, <2>7, <2>8, <2>9, <2>10, <2>11, <2>12, <2>13,
             <2>14, <2>15, <2>16 DEF ChildStep
<1>10. ASSUME NEW p \in Proc, ProcStep(p) PROVE SuccessInv'
  <2>1. CASE Dispatch(p)
    BY <2>1 DEF Dispatch, Planned, Done
  <2>2. CASE Acquire(p)
    BY <2>2 DEF LockFree, Acquired, Acquire, Planned, Done
  <2>3. CASE LockBusy(p)
    BY <2>3 DEF LockFree, LockBusy, Planned, Done
  <2>4. CASE Release(p)
    BY <2>4 DEF Closed, Release, Planned, Done
  <2>5. CASE WriteRead(p)
    BY <2>5 DEF Refuses, WriteRead, Planned, Done
  <2>6. CASE WriteReplace(p)
    BY <2>6 DEF Loaded, EnterMaintenance, WriteReplace, Planned, Done
  <2>7. CASE WriteFails(p)
    BY <2>7 DEF WriteFails, Planned, Done
  <2>8. CASE Recheck(p)
    BY <2>8 DEF Recheck, Planned, Done
  <2>9. CASE Begin(p)
    BY <2>9 DEF EnterMaintenance, Begin, Planned, Done
  <2>10. CASE Spawn(p)
    <3>1. \A q \in Proc : q # p => pc[q] \notin {"body", "complete"}
      BY <2>10, Alone DEF Spawn
    <3>2. todo'[p] = Script[prog[p]] /\ Child(p) \in holders' /\ UNCHANGED prog
      BY <2>10 DEF Spawn
    <3>3. Done(p)'  \/ prog[p] \notin {"stop", "start", "restart", "restore"}
      BY <3>2, Scripts DEF Done
    <3> QED BY <2>10, <3>1, <3>2, <3>3 DEF Spawn, Planned
  <2>11. CASE AbortUnstarted(p)
    BY <2>11 DEF AbortUnstarted, Planned, Done
  <2>12. CASE Finish(p)
    BY <2>12 DEF Finish, Planned, Done
  <2>13. CASE Fence(p)
    BY <2>13 DEF Fence, Planned, Done
  <2>14. CASE Check(p)
    BY <2>14 DEF StartAllowed, Check, Planned, Done
  <2>15. CASE Arm(p)
    BY <2>15 DEF Arm, Planned, Done
  <2>16. CASE Started(p)
    BY <2>16 DEF Started, Planned, Done
  <2>17. CASE Confirm(p)
    BY <2>17 DEF Confirm, Planned, Done
  <2>18. CASE InitCheck(p)
    BY <2>18 DEF InitCheck, Planned, Done
  <2>19. CASE AckCheck(p)
    BY <2>19 DEF AckCheck, Planned, Done
  <2>20. CASE ChildExits(p)
    BY <2>20 DEF ChildExits, Planned, Done
  <2> QED BY <1>9, <1>10, <2>1, <2>2, <2>3, <2>4, <2>5, <2>6, <2>7, <2>8, <2>9,
             <2>10, <2>11, <2>12, <2>13, <2>14, <2>15, <2>16, <2>17, <2>18,
             <2>19, <2>20 DEF ProcStep
<1>11. CASE GameExits
  BY <1>11 DEF GameExits, Planned, Done
<1>12. CASE Supervise
  BY <1>12 DEF Supervise, Planned, Done
<1>13. CASE ClockMoves
  BY <1>13 DEF ClockMoves, Planned, Done
<1>14. CASE Boot
  BY <1>14 DEF Boot, Planned
<1>15. CASE UNCHANGED vars
  BY <1>15 DEF vars, Planned, Done
<1> QED BY <1>1, <1>2, <1>3, <1>4, <1>5, <1>6, <1>7, <1>8, <1>10, <1>11, <1>12,
           <1>13, <1>14, <1>15 DEF Next

\* A stop, a start, a restart or a restore that reports success has left the
\* service as it was told to, and the marker was last to be written or removed
\* accordingly: nobody else moved it while it ran.
THEOREM SuccessIsReal == Spec => []SuccessMeansDone
<1>1. Init => SuccessInv
  BY DEF Init, SuccessInv, Planned
<1>2. TypeOK /\ LockInv /\ SuccessInv /\ [Next]_vars => SuccessInv'
  BY NextSuccess
<1>3. TypeOK /\ LockInv /\ SuccessInv => SuccessMeansDone
  BY Scripts DEF LockInv, SuccessInv, Planned, Done, SuccessMeansDone
<1>4. IInv => TypeOK /\ LockInv
  BY DEF IInv
<1> QED BY <1>1, <1>2, <1>3, <1>4, Safety, PTL DEF Spec
-----------------------------------------------------------------------------
\* Every failure and every command that outlives its controller is accounted
\* for: the strengthening the refinement needs.
LEMMA NextBroken ==
  TypeOK /\ LockInv /\ BrokenInv /\ [Next]_vars => BrokenInv'
<1> SUFFICES ASSUME TypeOK, LockInv, BrokenInv, [Next]_vars PROVE BrokenInv'
  OBVIOUS
<1> USE DEF TypeOK, LockInv, BrokenInv, MaintenanceActs, InMaintenance, StatusType,
            fileVars, serviceVars, procVars, history, Goto, Owner, Child,
            Locked, Maintenance, Writing
<1>1. ASSUME NEW p \in Proc, NEW w \in Workload, Launch(p, w[1], w[2]) PROVE BrokenInv'
  BY <1>1 DEF Launch, Free
<1>2. ASSUME NEW p \in Proc, Admit(p) PROVE BrokenInv'
  BY <1>2 DEF Admit, Free
<1>3. ASSUME NEW p \in Proc, StartReaper(p) PROVE BrokenInv'
  BY <1>3 DEF StartReaper, Free
<1>4. ASSUME NEW p \in Proc, StepTimeout(p) PROVE BrokenInv'
  BY <1>4 DEF StepTimeout
<1>5. ASSUME NEW p \in Proc, Expire(p) PROVE BrokenInv'
  BY <1>5 DEF Expire
<1>6. ASSUME NEW p \in Proc, Crash(p) PROVE BrokenInv'
  BY <1>6 DEF Crash
<1>7. ASSUME NEW p \in Proc, ChildDies(p) PROVE BrokenInv'
  BY <1>7 DEF ChildDies, Fails
<1>8. ASSUME NEW p \in Proc, WorkerDies(p) PROVE BrokenInv'
  BY <1>8 DEF WorkerDies
<1>9. ASSUME NEW p \in Proc, ChildStep(p) PROVE BrokenInv'
  <2>1. UNCHANGED <<holders, pc, kind>> /\ Child(p) \in holders
    BY <1>9, ChildStepFrame
  <2>2. UNCHANGED <<rc, tainted>> \/ Fails(p)
    BY <1>9, ChildStepFrame
  <2>3. CASE UNCHANGED <<rc, tainted>>  BY <2>1, <2>3
  <2>4. CASE Fails(p)  BY <2>1, <2>4 DEF Fails
  <2> QED BY <2>2, <2>3, <2>4
<1>10. ASSUME NEW p \in Proc, ProcStep(p) PROVE BrokenInv'
  <2>1. CASE Dispatch(p)
    BY <2>1 DEF Dispatch
  <2>2. CASE Acquire(p)
    BY <2>2 DEF LockFree, Acquire, Acquired
  <2>3. CASE LockBusy(p)
    BY <2>3 DEF LockFree, LockBusy
  <2>4. CASE Release(p)
    BY <2>4 DEF Closed, Release
  <2>5. CASE WriteRead(p)
    BY <2>5 DEF Refuses, WriteRead, Target, Forces
  <2>6. CASE WriteReplace(p)
    <3>1. CASE pc[p] = "reapWrite"
      <4>1. UNCHANGED <<tainted, holders, kind, rc>> /\ pc' = [pc EXCEPT ![p] = "release"]
        BY <2>6, <3>1 DEF Loaded, WriteReplace, Forces
      <4> QED BY <3>1, <4>1
    <3>2. CASE pc[p] # "reapWrite"
      <4>1. \A q \in Proc : q # p => pc[q] \notin Locked \ {"release"} /\ Child(q) \notin holders
        BY <2>6, <3>2, Alone DEF Loaded, WriteReplace
      <4>2. UNCHANGED <<holders, kind, rc>> /\ pc' \in {[pc EXCEPT ![p] = "gate"],
                                                        [pc EXCEPT ![p] = "release"]}
        BY <2>6 DEF Loaded, WriteReplace, EnterMaintenance
      <4>3. tainted' = tainted \/ pc[p] = "ackWrite"
        BY <2>6 DEF Loaded, WriteReplace, Forces
      <4>4. CASE pc[p] = "ackWrite"
        <5>1. pc' = [pc EXCEPT ![p] = "release"]
          BY <2>6, <4>4 DEF Loaded, WriteReplace
        <5>2. Child(p) \notin holders
          BY <4>4
        <5> QED BY <4>1, <4>2, <5>1, <5>2
      <4>5. CASE pc[p] \in {"escalate", "publish"}
        <5>1. rc[p] = 0 /\ Child(p) \notin holders /\ tainted' = tainted
          BY <2>6, <4>3, <4>5 DEF Loaded, WriteReplace
        <5> QED BY <4>1, <4>2, <4>5, <5>1
      <4>6. CASE pc[p] \notin {"ackWrite", "escalate", "publish"}
        <5>1. pc' = [pc EXCEPT ![p] = "release"] /\ tainted' = tainted
          BY <2>6, <4>3, <4>6 DEF Loaded, WriteReplace
        <5>2. Child(p) \in holders => tainted
          BY <2>6, <3>2, <4>6 DEF Loaded, WriteReplace
        <5> QED BY <4>1, <4>2, <5>1, <5>2
      <4> QED BY <4>4, <4>5, <4>6
    <3> QED BY <3>1, <3>2
  <2>7. CASE WriteFails(p)
    BY <2>7 DEF WriteFails
  <2>8. CASE Recheck(p)
    BY <2>8 DEF Recheck
  <2>9. CASE Begin(p)
    BY <2>9 DEF Begin, EnterMaintenance
  <2>10. CASE Spawn(p)
    BY <2>10 DEF Spawn
  <2>11. CASE AbortUnstarted(p)
    BY <2>11 DEF AbortUnstarted
  <2>12. CASE Finish(p)
    BY <2>12 DEF Finish
  <2>13. CASE Fence(p)
    BY <2>13 DEF Fence
  <2>14. CASE Check(p)
    BY <2>14 DEF StartAllowed, Check
  <2>15. CASE Arm(p)
    BY <2>15 DEF Arm
  <2>16. CASE Started(p)
    BY <2>16 DEF Started
  <2>17. CASE Confirm(p)
    BY <2>17 DEF Confirm
  <2>18. CASE InitCheck(p)
    BY <2>18 DEF InitCheck
  <2>19. CASE AckCheck(p)
    BY <2>19 DEF AckCheck
  <2>20. CASE ChildExits(p)
    BY <2>20 DEF ChildExits
  <2> QED BY <1>9, <1>10, <2>1, <2>2, <2>3, <2>4, <2>5, <2>6, <2>7, <2>8, <2>9,
             <2>10, <2>11, <2>12, <2>13, <2>14, <2>15, <2>16, <2>17, <2>18,
             <2>19, <2>20 DEF ProcStep
<1>11. CASE GameExits  BY <1>11 DEF GameExits
<1>12. CASE Supervise  BY <1>12 DEF Supervise
<1>13. CASE ClockMoves  BY <1>13 DEF ClockMoves
<1>14. CASE Boot  BY <1>14 DEF Boot
<1>15. CASE UNCHANGED vars BY <1>15 DEF vars
<1> QED BY <1>1, <1>2, <1>3, <1>4, <1>5, <1>6, <1>7, <1>8, <1>10, <1>11, <1>12,
           <1>13, <1>14, <1>15 DEF Next

-----------------------------------------------------------------------------
(* A service that reads as stopped stays down.  The exception is an        *)
(* acknowledgement that finds the game down for a moment after a stop was  *)
(* killed between the marker and `s6-svc -d`: the theorem is for a system  *)
(* in which nobody acknowledges.                                           *)

\* Nobody is or becomes an acknowledgement.
NoAck ==
  \A p \in Proc : /\ pc[p] \notin {"ackCheck", "ackWrite"}
                  /\ pc[p] = "acquire" => kind[p] \notin {"ack", "reap"}

\* No step makes one.
LEMMA NextNoAck ==
  ASSUME \A w \in Workload : w[1] # "ack"
  PROVE  TypeOK /\ LockInv /\ NoAck /\ [Next]_vars => NoAck'
<1> SUFFICES ASSUME TypeOK, LockInv, NoAck, [Next]_vars PROVE NoAck'
  OBVIOUS
<1> USE DEF TypeOK, fileVars, serviceVars, procVars, history, Goto, Owner, Child,
            Locked, Maintenance, Writing
<1> USE DEF LockInv, NoAck, Kind
<1>1. ASSUME NEW p \in Proc, NEW w \in Workload, Launch(p, w[1], w[2]) PROVE NoAck'
  <2>1. w[1] # "ack" /\ w[1] # "reap"
    BY <1>1 DEF Launch
  <2> QED BY <1>1, <2>1 DEF Launch, Free
<1>2. ASSUME NEW p \in Proc, Admit(p) PROVE NoAck'
  BY <1>2 DEF Admit, Free
<1>3. ASSUME NEW p \in Proc, StartReaper(p) PROVE NoAck'
  BY <1>3 DEF StartReaper, Free
<1>4. ASSUME NEW p \in Proc, StepTimeout(p) PROVE NoAck'
  BY <1>4 DEF StepTimeout
<1>5. ASSUME NEW p \in Proc, Expire(p) PROVE NoAck'
  BY <1>5 DEF Expire
<1>6. ASSUME NEW p \in Proc, Crash(p) PROVE NoAck'
  BY <1>6 DEF Crash
<1>7. ASSUME NEW p \in Proc, ChildDies(p) PROVE NoAck'
  BY <1>7 DEF ChildDies, Fails
<1>8. ASSUME NEW p \in Proc, WorkerDies(p) PROVE NoAck'
  BY <1>8 DEF WorkerDies
<1>9. ASSUME NEW p \in Proc, ChildStep(p) PROVE NoAck'
  BY <1>9, ChildStepFrame
<1>10. ASSUME NEW p \in Proc, ProcStep(p) PROVE NoAck'
  <2>1. CASE Dispatch(p)
    BY <2>1 DEF Dispatch
  <2>2. CASE Acquire(p)
    BY <2>2 DEF LockFree, Acquired, Acquire
  <2>3. CASE LockBusy(p)
    BY <2>3 DEF LockFree, LockBusy
  <2>4. CASE Release(p)
    BY <2>4 DEF Closed, Release
  <2>5. CASE WriteRead(p)
    BY <2>5 DEF Refuses, WriteRead
  <2>6. CASE WriteReplace(p)
    BY <2>6 DEF Loaded, EnterMaintenance, WriteReplace
  <2>7. CASE WriteFails(p)
    BY <2>7 DEF WriteFails
  <2>8. CASE Recheck(p)
    BY <2>8 DEF Recheck
  <2>9. CASE Begin(p)
    BY <2>9 DEF EnterMaintenance, Begin
  <2>10. CASE Spawn(p)
    BY <2>10 DEF Spawn
  <2>11. CASE AbortUnstarted(p)
    BY <2>11 DEF AbortUnstarted
  <2>12. CASE Finish(p)
    BY <2>12 DEF Finish
  <2>13. CASE Fence(p)
    BY <2>13 DEF Fence
  <2>14. CASE Check(p)
    BY <2>14 DEF StartAllowed, Check
  <2>15. CASE Arm(p)
    BY <2>15 DEF Arm
  <2>16. CASE Started(p)
    BY <2>16 DEF Started
  <2>17. CASE Confirm(p)
    BY <2>17 DEF Confirm
  <2>18. CASE InitCheck(p)
    BY <2>18 DEF InitCheck
  <2>19. CASE AckCheck(p)
    BY <2>19 DEF AckCheck
  <2>20. CASE ChildExits(p)
    BY <2>20 DEF ChildExits
  <2> QED BY <1>9, <1>10, <2>1, <2>2, <2>3, <2>4, <2>5, <2>6, <2>7, <2>8, <2>9,
             <2>10, <2>11, <2>12, <2>13, <2>14, <2>15, <2>16, <2>17, <2>18,
             <2>19, <2>20 DEF ProcStep
<1>11. CASE GameExits
  BY <1>11 DEF GameExits
<1>12. CASE Supervise
  BY <1>12 DEF Supervise
<1>13. CASE ClockMoves
  BY <1>13 DEF ClockMoves
<1>14. CASE Boot
  BY <1>14 DEF Boot
<1>15. CASE UNCHANGED vars
  BY <1>15 DEF vars
<1> QED BY <1>1, <1>2, <1>3, <1>4, <1>5, <1>6, <1>7, <1>8, <1>10, <1>11, <1>12,
           <1>13, <1>14, <1>15 DEF Next

\* What the steps that are left of a script promise, as long as nothing failed:
\* the marker is meant to be there with the order to stop, and to be gone with the
\* order to start, whether or not its file followed.
Promises(p) ==
  /\ todo[p] \cap {"fetch", "probe"} # {} => "mark" \in todo[p]
  /\ "mark" \in todo[p] => "down" \in todo[p] /\ (meant => want = "down")
  /\ "down" \in todo[p] /\ prog[p] \in {"restart", "restore"} => "clear" \in todo[p]
  /\ "up" \in todo[p] => "clear" \in todo[p] \/ (~meant /\ "mark" \notin todo[p])
  /\ MaintenanceActs(p) \/ (WakeActs(p) /\ todo[p] \subseteq {"clear", "up"})

\* A marker that is meant to be there, beside a service that is wanted up, belongs
\* to a script that has not sent the stop yet, or has not come to its removal yet.
Settles(p) == MaintenanceActs(p) /\ {"down", "clear"} \cap todo[p] # {}

ScriptInv == ~tainted => \A p \in Proc : Child(p) \in holders => Promises(p)
PairInv == ~tainted /\ meant /\ want = "up" => \E p \in Proc : Settles(p)

\* What a command in flight still does is an end of what its script promised.
LEMMA Survives ==
  ASSUME NEW g, NEW S \in SUBSET {"clear", "up"}
  PROVE  "up" \in Survivor(g, S) => "clear" \in Survivor(g, S) \/ "clear" \notin S
  BY DEF Survivor, IsNext, Rank, Commands, StartSteps, StopSteps

\* A step that leaves the service, the children and what they have to do alone
\* keeps both.
LEMMA Untouched ==
  ASSUME ScriptInv, PairInv, UNCHANGED <<want, meant>>, tainted => tainted',
         \A q \in Proc : Child(q) \in holders' <=> Child(q) \in holders,
         \A q \in Proc : Child(q) \in holders =>
           kind'[q] = kind[q] /\ prog'[q] = prog[q] /\ todo'[q] = todo[q]
  PROVE  (ScriptInv /\ PairInv)'
<1>1. \A q \in Proc : Child(q) \in holders => (Promises(q)' <=> Promises(q))
  BY DEF Promises, MaintenanceActs, WakeActs, Child
<1>2. \A q \in Proc : Settles(q)' <=> Settles(q)
  BY DEF Settles, MaintenanceActs, Child
<1> QED BY <1>1, <1>2 DEF ScriptInv, PairInv

\* Every step of a system without acknowledgements keeps the marker paired.
LEMMA NextPair ==
  TypeOK /\ LockInv /\ BrokenInv /\ NoAck /\ ScriptInv /\ PairInv /\ [Next]_vars =>
    (ScriptInv /\ PairInv)'
<1> SUFFICES ASSUME TypeOK, LockInv, BrokenInv, NoAck, ScriptInv, PairInv, [Next]_vars
             PROVE  (ScriptInv /\ PairInv)'
  OBVIOUS
<1> USE DEF TypeOK, fileVars, serviceVars, procVars, history, Goto, Owner, Child,
            Locked, Maintenance, Writing
<1> USE DEF LockInv
<1>1. ASSUME NEW p \in Proc, NEW w \in Workload, Launch(p, w[1], w[2]) PROVE (ScriptInv /\ PairInv)'
  <2>1. UNCHANGED <<svc, want, meant, holders, todo>> /\ (tainted => tainted')
    BY <1>1 DEF Launch
  <2>2. \A q \in Proc : Child(q) \in holders => kind'[q] = kind[q] /\ prog'[q] = prog[q]
    BY <1>1 DEF Launch, Free
  <2> QED BY <2>1, <2>2, Untouched
<1>2. ASSUME NEW p \in Proc, Admit(p) PROVE (ScriptInv /\ PairInv)'
  <2>1. UNCHANGED <<svc, want, meant, holders, todo>> /\ (tainted => tainted')
    BY <1>2 DEF Admit
  <2>2. \A q \in Proc : Child(q) \in holders => kind'[q] = kind[q] /\ prog'[q] = prog[q]
    BY <1>2 DEF Admit, Free
  <2> QED BY <2>1, <2>2, Untouched
<1>3. ASSUME NEW p \in Proc, StartReaper(p) PROVE (ScriptInv /\ PairInv)'
  <2>1. UNCHANGED <<svc, want, meant, holders, todo>> /\ (tainted => tainted')
    BY <1>3 DEF StartReaper
  <2>2. \A q \in Proc : Child(q) \in holders => kind'[q] = kind[q] /\ prog'[q] = prog[q]
    BY <1>3 DEF StartReaper, Free
  <2> QED BY <2>1, <2>2, Untouched
<1>4. ASSUME NEW p \in Proc, StepTimeout(p) PROVE (ScriptInv /\ PairInv)'
  <2>1. /\ UNCHANGED <<svc, want, meant, holders, kind, prog>>
        /\ todo' = [todo EXCEPT ![p] = Survivor(prog[p], todo[p])]
        /\ tainted' = (tainted \/ pc[p] = "body")
    BY <1>4 DEF StepTimeout
  <2>2. CASE pc[p] = "body"
    BY <2>1, <2>2 DEF ScriptInv, PairInv
  <2>3. CASE pc[p] # "body"
    <3>1. kind[p] \in {"wake", "knock"} /\ Child(p) \in holders
      BY <1>4, <2>3 DEF StepTimeout
    <3>2. ~Settles(p)
      BY <3>1 DEF Settles, MaintenanceActs
    <3>3. PairInv'
      BY <2>1, <2>3, <3>2 DEF PairInv, Settles, MaintenanceActs
    <3>4. ~tainted' => Promises(p)'
      <4>1. SUFFICES ASSUME ~tainted' PROVE Promises(p)'
        OBVIOUS
      <4>2. Promises(p) /\ todo[p] \subseteq {"clear", "up"}
        BY <2>1, <3>1, <4>1 DEF ScriptInv, Promises, MaintenanceActs
      <4>3. todo'[p] = Survivor(prog[p], todo[p]) /\ todo'[p] \subseteq todo[p]
        BY <2>1, ScriptSteps
      <4>4. "up" \in todo'[p] => "clear" \in todo'[p] \/ "clear" \notin todo[p]
        BY <4>2, <4>3, Survives
      <4> QED BY <2>1, <3>1, <4>2, <4>3, <4>4 DEF Promises, MaintenanceActs, WakeActs
    <3>5. \A q \in Proc : q # p => (Promises(q)' <=> Promises(q))
      BY <2>1 DEF Promises, MaintenanceActs, WakeActs
    <3> QED BY <2>1, <2>3, <3>3, <3>4, <3>5 DEF ScriptInv
  <2> QED BY <2>2, <2>3
<1>5. ASSUME NEW p \in Proc, Expire(p) PROVE (ScriptInv /\ PairInv)'
  <2>1. UNCHANGED <<svc, want, meant, holders, todo>> /\ (tainted => tainted')
    BY <1>5 DEF Expire
  <2>2. \A q \in Proc : Child(q) \in holders => kind'[q] = kind[q] /\ prog'[q] = prog[q]
    BY <1>5 DEF Expire
  <2> QED BY <2>1, <2>2, Untouched
<1>6. ASSUME NEW p \in Proc, Crash(p) PROVE (ScriptInv /\ PairInv)'
  <2>1. /\ UNCHANGED <<svc, want, meant, kind, prog>>
        /\ tainted' = (tainted \/ InMaintenance(p))
        /\ \A q \in Proc : Child(q) \in holders' <=> Child(q) \in holders
        /\ \A q \in Proc : q # p \/ kind[p] \notin {"cli", "restore"} => todo'[q] = todo[q]
    BY <1>6 DEF Crash
  <2>2. CASE MaintenanceActs(p)
    BY <2>1, <2>2 DEF ScriptInv, PairInv, BrokenInv
  <2>3. CASE ~MaintenanceActs(p)
    <3>1. \A q \in Proc : Child(q) \in holders => todo'[q] = todo[q]
      BY <2>1, <2>3 DEF MaintenanceActs
    <3> QED BY <2>1, <3>1, Untouched
  <2> QED BY <2>2, <2>3
<1>7. ASSUME NEW p \in Proc, ChildDies(p) PROVE (ScriptInv /\ PairInv)'
  <2>1. /\ UNCHANGED <<svc, want, meant, kind, prog>>
        /\ tainted' = (tainted \/ kind[p] \in Maintenance)
        /\ holders' = holders \ {Child(p)} /\ todo' = [todo EXCEPT ![p] = {}]
    BY <1>7 DEF ChildDies, Fails
  <2>2. CASE kind[p] \in Maintenance
    BY <2>1, <2>2 DEF ScriptInv, PairInv
  <2>3. CASE kind[p] \notin Maintenance
    BY <2>1, <2>3 DEF ScriptInv, PairInv, Promises, Settles, MaintenanceActs, WakeActs
  <2> QED BY <2>2, <2>3
<1>8. ASSUME NEW p \in Proc, WorkerDies(p) PROVE (ScriptInv /\ PairInv)'
  <2>1. UNCHANGED <<svc, want, meant, holders, todo>> /\ (tainted => tainted')
    BY <1>8 DEF WorkerDies
  <2>2. \A q \in Proc : Child(q) \in holders => kind'[q] = kind[q] /\ prog'[q] = prog[q]
    BY <1>8 DEF WorkerDies
  <2> QED BY <2>1, <2>2, Untouched
<1>9. ASSUME NEW p \in Proc, ChildStep(p) PROVE (ScriptInv /\ PairInv)'
  <2>1. /\ Child(p) \in holders /\ UNCHANGED <<holders, pc, kind, prog>>
        /\ UNCHANGED <<rc, tainted>> \/ Fails(p)
    BY <1>9, ChildStepFrame
  <2>2. \A q \in Proc : Child(q) \in holders => q = p
    BY <2>1, Alone
  <2>3. SUFFICES ASSUME ~tainted' PROVE ScriptInv' /\ PairInv'
    BY DEF ScriptInv, PairInv
  <2>4. ~tainted /\ Promises(p)
    BY <2>1, <2>3 DEF ScriptInv, Fails
  <2>5. meant /\ want = "up" => Settles(p)
    BY <2>2, <2>4 DEF PairInv, Settles, MaintenanceActs
  <2>6. kind[p] \in Maintenance => UNCHANGED rc
    BY <2>1, <2>3, <2>4 DEF Fails
  <2>7. SUFFICES Promises(p)' /\ (meant' /\ want' = "up" => Settles(p)')
    BY <2>1, <2>2 DEF ScriptInv, PairInv
  <2>8. CASE Fetch(p)
    <3>1. "fetch" \in todo[p] /\ IsNext("fetch", todo[p])
      BY <2>8 DEF Fetch, Does, IsNext
    <3>2. kind[p] \in Maintenance => ~StepAborts(p) /\ ~Fails(p)
      BY <2>3 DEF StepAborts, Fails
    <3>3. UNCHANGED <<MaintenanceActs(p), WakeActs(p)>>
      BY <2>1 DEF MaintenanceActs, WakeActs
    <3> QED BY <2>1, <2>4, <2>5, <2>8, <3>1, <3>2, <3>3, Ahead
            DEF Fetch, Promises, Settles, MaintenanceActs, WakeActs, StepOk, StepAborts
  <2>9. CASE Probe(p)
    <3>1. "probe" \in todo[p] /\ IsNext("probe", todo[p])
      BY <2>9 DEF Probe, Does, IsNext
    <3>2. kind[p] \in Maintenance => ~StepAborts(p) /\ ~Fails(p)
      BY <2>3 DEF StepAborts, Fails
    <3>3. UNCHANGED <<MaintenanceActs(p), WakeActs(p)>>
      BY <2>1 DEF MaintenanceActs, WakeActs
    <3> QED BY <2>1, <2>4, <2>5, <2>9, <3>1, <3>2, <3>3, Ahead
            DEF Probe, Promises, Settles, MaintenanceActs, WakeActs, StepOk, StepAborts
  <2>10. CASE Mark(p)
    <3>1. "mark" \in todo[p] /\ IsNext("mark", todo[p])
      BY <2>10 DEF Mark, Does, IsNext
    <3>2. kind[p] \in Maintenance => ~StepAborts(p) /\ ~Fails(p)
      BY <2>3 DEF StepAborts, Fails
    <3>3. UNCHANGED <<MaintenanceActs(p), WakeActs(p)>>
      BY <2>1 DEF MaintenanceActs, WakeActs
    <3> QED BY <2>1, <2>4, <2>5, <2>10, <3>1, <3>2, <3>3, Ahead
            DEF Mark, Promises, Settles, MaintenanceActs, WakeActs, StepOk, StepAborts
  <2>11. CASE Down(p)
    <3>1. "down" \in todo[p] /\ IsNext("down", todo[p])
      BY <2>11 DEF Down, Does, IsNext
    <3>2. kind[p] \in Maintenance => ~StepAborts(p) /\ ~Fails(p)
      BY <2>3 DEF StepAborts, Fails
    <3>3. UNCHANGED <<MaintenanceActs(p), WakeActs(p)>>
      BY <2>1 DEF MaintenanceActs, WakeActs
    <3> QED BY <2>1, <2>4, <2>5, <2>11, <3>1, <3>2, <3>3, Ahead
            DEF Down, Promises, Settles, MaintenanceActs, WakeActs, StepOk, StepAborts, StopSteps
  <2>12. CASE Await(p)
    <3>1. "await" \in todo[p] /\ IsNext("await", todo[p])
      BY <2>12 DEF Await, Does, IsNext
    <3>2. kind[p] \in Maintenance => ~StepAborts(p) /\ ~Fails(p)
      BY <2>3 DEF StepAborts, Fails
    <3>3. UNCHANGED <<MaintenanceActs(p), WakeActs(p)>>
      BY <2>1 DEF MaintenanceActs, WakeActs
    <3> QED BY <2>1, <2>4, <2>5, <2>12, <3>1, <3>2, <3>3, Ahead
            DEF Await, Promises, Settles, MaintenanceActs, WakeActs, StepOk, StepAborts, StopConfirmed
  <2>13. CASE Edit(p)
    <3>1. "edit" \in todo[p] /\ IsNext("edit", todo[p])
      BY <2>13 DEF Edit, Does, IsNext
    <3>2. kind[p] \in Maintenance => ~StepAborts(p) /\ ~Fails(p)
      BY <2>3 DEF StepAborts, Fails
    <3>3. UNCHANGED <<MaintenanceActs(p), WakeActs(p)>>
      BY <2>1 DEF MaintenanceActs, WakeActs
    <3> QED BY <2>1, <2>4, <2>5, <2>13, <3>1, <3>2, <3>3, Ahead
            DEF Edit, Promises, Settles, MaintenanceActs, WakeActs, StepOk, StepAborts
  <2>14. CASE Clear(p)
    <3>1. "clear" \in todo[p] /\ IsNext("clear", todo[p])
      BY <2>14 DEF Clear, Does, IsNext
    <3>2. kind[p] \in Maintenance => ~StepAborts(p) /\ ~Fails(p)
      BY <2>3 DEF StepAborts, Fails
    <3>3. UNCHANGED <<MaintenanceActs(p), WakeActs(p)>>
      BY <2>1 DEF MaintenanceActs, WakeActs
    <3> QED BY <2>1, <2>4, <2>5, <2>14, <3>1, <3>2, <3>3, Ahead
            DEF Clear, Promises, Settles, MaintenanceActs, WakeActs, StepOk, StepAborts
  <2>15. CASE Up(p)
    <3>1. "up" \in todo[p] /\ IsNext("up", todo[p])
      BY <2>15 DEF Up, Does, IsNext
    <3>2. kind[p] \in Maintenance => ~StepAborts(p) /\ ~Fails(p)
      BY <2>3 DEF StepAborts, Fails
    <3>3. UNCHANGED <<MaintenanceActs(p), WakeActs(p)>>
      BY <2>1 DEF MaintenanceActs, WakeActs
    <3> QED BY <2>1, <2>4, <2>5, <2>15, <3>1, <3>2, <3>3, Ahead
            DEF Up, Promises, Settles, MaintenanceActs, WakeActs, StepOk, StepAborts
  <2>16. CASE Bounce(p)
    <3>1. "bounce" \in todo[p] /\ IsNext("bounce", todo[p])
      BY <2>16 DEF Bounce, Does, IsNext
    <3>2. kind[p] \in Maintenance => ~StepAborts(p) /\ ~Fails(p)
      BY <2>3 DEF StepAborts, Fails
    <3>3. UNCHANGED <<MaintenanceActs(p), WakeActs(p)>>
      BY <2>1 DEF MaintenanceActs, WakeActs
    <3> QED BY <2>1, <2>4, <2>5, <2>16, <3>1, <3>2, <3>3, Ahead
            DEF Bounce, Promises, Settles, MaintenanceActs, WakeActs, StepOk, StepAborts
  <2>17. CASE Ready(p)
    <3>1. "ready" \in todo[p] /\ IsNext("ready", todo[p])
      BY <2>17 DEF Ready, Does, IsNext
    <3>2. kind[p] \in Maintenance => ~StepAborts(p) /\ ~Fails(p)
      BY <2>3 DEF StepAborts, Fails
    <3>3. UNCHANGED <<MaintenanceActs(p), WakeActs(p)>>
      BY <2>1 DEF MaintenanceActs, WakeActs
    <3> QED BY <2>1, <2>4, <2>5, <2>17, <3>1, <3>2, <3>3, Ahead
            DEF Ready, Promises, Settles, MaintenanceActs, WakeActs, StepOk, StepAborts
  <2> QED BY <1>9, <2>8, <2>9, <2>10, <2>11, <2>12, <2>13, <2>14,
             <2>15, <2>16, <2>17 DEF ChildStep
<1>10. ASSUME NEW p \in Proc, ProcStep(p) PROVE (ScriptInv /\ PairInv)'
  <2>1. CASE Dispatch(p)
    <3>1. /\ UNCHANGED <<svc, want, meant, todo, kind, prog>> /\ tainted' = tainted
          /\ \A q \in Proc : Child(q) \in holders' <=> Child(q) \in holders
      BY <2>1 DEF Dispatch
    <3> QED BY <3>1, Untouched
  <2>2. CASE Acquire(p)
    <3>1. /\ UNCHANGED <<svc, want, meant, todo, kind, prog>> /\ tainted' = tainted
          /\ \A q \in Proc : Child(q) \in holders' <=> Child(q) \in holders
      BY <2>2 DEF LockFree, Acquired, Acquire
    <3> QED BY <3>1, Untouched
  <2>3. CASE LockBusy(p)
    <3>1. /\ UNCHANGED <<svc, want, meant, todo, kind, prog>> /\ tainted' = tainted
          /\ \A q \in Proc : Child(q) \in holders' <=> Child(q) \in holders
      BY <2>3 DEF LockFree, LockBusy
    <3> QED BY <3>1, Untouched
  <2>4. CASE Release(p)
    <3>1. /\ UNCHANGED <<svc, want, meant, todo, kind, prog>> /\ tainted' = tainted
          /\ \A q \in Proc : Child(q) \in holders' <=> Child(q) \in holders
      BY <2>4 DEF Closed, Release
    <3> QED BY <3>1, Untouched
  <2>5. CASE WriteRead(p)
    <3>1. /\ UNCHANGED <<svc, want, meant, todo, kind, prog>> /\ tainted' = tainted
          /\ \A q \in Proc : Child(q) \in holders' <=> Child(q) \in holders
      BY <2>5 DEF Refuses, WriteRead
    <3> QED BY <3>1, Untouched
  <2>6. CASE WriteReplace(p)
    <3>1. UNCHANGED <<svc, want, meant, todo, kind, prog, tainted, holders>>
      BY <2>6 DEF Loaded, WriteReplace, Forces, NoAck
    <3> QED BY <3>1, Untouched
  <2>7. CASE WriteFails(p)
    <3>1. /\ UNCHANGED <<svc, want, meant, todo, kind, prog>> /\ tainted' = tainted
          /\ \A q \in Proc : Child(q) \in holders' <=> Child(q) \in holders
      BY <2>7 DEF WriteFails
    <3> QED BY <3>1, Untouched
  <2>8. CASE Recheck(p)
    <3>1. /\ UNCHANGED <<svc, want, meant, todo, kind, prog>> /\ tainted' = tainted
          /\ \A q \in Proc : Child(q) \in holders' <=> Child(q) \in holders
      BY <2>8 DEF Recheck
    <3> QED BY <3>1, Untouched
  <2>9. CASE Begin(p)
    <3>1. /\ UNCHANGED <<svc, want, meant, todo, kind, prog>> /\ tainted' = tainted
          /\ \A q \in Proc : Child(q) \in holders' <=> Child(q) \in holders
      BY <2>9 DEF EnterMaintenance, Begin
    <3> QED BY <3>1, Untouched
  <2>10. CASE Spawn(p)
    <3>1. /\ UNCHANGED <<svc, want, meant, kind, prog, tainted>> /\ kind[p] \in Maintenance
          /\ holders' = holders \cup {Child(p)} /\ todo' = [todo EXCEPT ![p] = Script[prog[p]]]
      BY <2>10 DEF Spawn
    <3>2. \A q \in Proc : Child(q) \notin holders
      BY <2>10, Alone DEF Spawn
    <3>3. ~tainted /\ meant => want = "down"
      BY <3>2 DEF PairInv, Settles, MaintenanceActs
    <3>4. ~tainted' => Promises(p)'
      BY <3>1, <3>3, Scripts DEF Promises, MaintenanceActs
    <3>5. \A q \in Proc : Child(q) \in holders' => q = p
      BY <3>1, <3>2
    <3> QED BY <3>1, <3>3, <3>4, <3>5 DEF ScriptInv, PairInv
  <2>11. CASE AbortUnstarted(p)
    <3>1. UNCHANGED <<svc, want, meant, todo, kind, holders>> /\ (tainted => tainted')
      BY <2>11 DEF AbortUnstarted
    <3>2. \A q \in Proc : Child(q) \in holders => prog'[q] = prog[q]
      BY <2>11 DEF AbortUnstarted
    <3> QED BY <3>1, <3>2, Untouched
  <2>12. CASE Finish(p)
    <3>1. UNCHANGED <<svc, want, meant, todo, kind, prog, holders>> /\ (tainted => tainted')
      BY <2>12 DEF Finish
    <3> QED BY <3>1, Untouched
  <2>13. CASE Fence(p)
    <3>1. /\ UNCHANGED <<svc, want, meant, todo, kind, prog>> /\ tainted' = tainted
          /\ \A q \in Proc : Child(q) \in holders' <=> Child(q) \in holders
      BY <2>13 DEF Fence
    <3> QED BY <3>1, Untouched
  <2>14. CASE Check(p)
    <3>1. /\ UNCHANGED <<svc, want, meant, todo, kind, prog>> /\ tainted' = tainted
          /\ \A q \in Proc : Child(q) \in holders' <=> Child(q) \in holders
      BY <2>14 DEF StartAllowed, Check
    <3> QED BY <3>1, Untouched
  <2>15. CASE Arm(p)
    <3>1. /\ UNCHANGED <<svc, want, meant, kind, prog, tainted>>
          /\ kind[p] \in {"wake", "knock"} /\ Child(p) \notin holders
      BY <2>15 DEF Arm
    <3>2. CASE UNCHANGED <<holders, todo>>
      BY <3>1, <3>2, Untouched
    <3>3. CASE holders' = holders \cup {Child(p)} /\ todo' = [todo EXCEPT ![p] = Script["start"]]
      <4>1. Promises(p)'
        BY <3>1, <3>3, Scripts DEF Promises, WakeActs
      <4>2. \A q \in Proc : Child(q) \notin holders
        BY <2>15, <3>1, Alone DEF Arm
      <4>3. \A q \in Proc : Child(q) \in holders' => q = p
        BY <3>3, <4>2
      <4>4. ~tainted /\ meant => want = "down"
        BY <4>2 DEF PairInv, Settles, MaintenanceActs
      <4> QED BY <3>1, <4>1, <4>3, <4>4 DEF ScriptInv, PairInv
    <3> QED BY <2>15, <3>2, <3>3 DEF Arm
  <2>16. CASE Started(p)
    <3>1. /\ UNCHANGED <<svc, want, meant, todo, kind, prog>> /\ tainted' = tainted
          /\ \A q \in Proc : Child(q) \in holders' <=> Child(q) \in holders
      BY <2>16 DEF Started
    <3> QED BY <3>1, Untouched
  <2>17. CASE Confirm(p)
    <3>1. /\ UNCHANGED <<svc, want, meant, todo, kind, prog>> /\ tainted' = tainted
          /\ \A q \in Proc : Child(q) \in holders' <=> Child(q) \in holders
      BY <2>17 DEF Confirm
    <3> QED BY <3>1, Untouched
  <2>18. CASE InitCheck(p)
    <3>1. /\ UNCHANGED <<svc, want, meant, todo, kind, prog>> /\ tainted' = tainted
          /\ \A q \in Proc : Child(q) \in holders' <=> Child(q) \in holders
      BY <2>18 DEF InitCheck
    <3> QED BY <3>1, Untouched
  <2>19. CASE AckCheck(p)
    <3>1. /\ UNCHANGED <<svc, want, meant, todo, kind, prog>> /\ tainted' = tainted
          /\ \A q \in Proc : Child(q) \in holders' <=> Child(q) \in holders
      BY <2>19 DEF AckCheck
    <3> QED BY <3>1, Untouched
  <2>20. CASE ChildExits(p)
    <3>1. /\ UNCHANGED <<svc, want, meant, kind, prog, tainted, todo>> /\ todo[p] = {}
          /\ holders' = holders \ {Child(p)}
      BY <2>20 DEF ChildExits
    <3>2. ~Settles(p)
      BY <3>1 DEF Settles
    <3> QED BY <3>1, <3>2 DEF ScriptInv, PairInv, Promises, Settles, MaintenanceActs, WakeActs
  <2> QED BY <1>9, <1>10, <2>1, <2>2, <2>3, <2>4, <2>5, <2>6, <2>7, <2>8, <2>9,
             <2>10, <2>11, <2>12, <2>13, <2>14, <2>15, <2>16, <2>17, <2>18,
             <2>19, <2>20 DEF ProcStep
<1>11. CASE GameExits
  BY <1>11, Untouched DEF GameExits
<1>12. CASE Supervise
  BY <1>12, Untouched DEF Supervise
<1>13. CASE ClockMoves
  <2>1. UNCHANGED <<svc, want, meant, holders, todo>> /\ (tainted => tainted')
    BY <1>13 DEF ClockMoves
  <2>2. \A q \in Proc : Child(q) \in holders => kind'[q] = kind[q] /\ prog'[q] = prog[q]
    BY <1>13 DEF ClockMoves
  <2> QED BY <2>1, <2>2, Untouched
<1>14. CASE Boot
  <2>1. meant' = FALSE /\ holders' = {}
    BY <1>14 DEF Boot
  <2> QED BY <2>1 DEF ScriptInv, PairInv
<1>15. CASE UNCHANGED vars
  BY <1>15, Untouched DEF vars
<1> QED BY <1>1, <1>2, <1>3, <1>4, <1>5, <1>6, <1>7, <1>8, <1>10, <1>11, <1>12,
           <1>13, <1>14, <1>15 DEF Next

\* Without acknowledgements, a service that reads as stopped between two
\* controllers, with the state idle, is one the supervisor leaves down, or one
\* whose marker could not be removed when it was last to be.
THEOREM StoppedStaysDown ==
  ASSUME \A w \in Workload : w[1] # "ack"
  PROVE  Spec => []StoppedIsWantedDown
<1>1. Init => BrokenInv /\ NoAck /\ ScriptInv /\ PairInv
  BY DEF Init, BrokenInv, InMaintenance, MaintenanceActs, NoAck, ScriptInv, PairInv
<1>2. TypeOK /\ LockInv /\ BrokenInv /\ NoAck /\ ScriptInv /\ PairInv /\ [Next]_vars =>
        (BrokenInv /\ NoAck /\ ScriptInv /\ PairInv)'
  BY NextBroken, NextNoAck, NextPair
<1>3. IInv /\ PairInv => StoppedIsWantedDown
  <2> SUFFICES ASSUME IInv, PairInv, Quiet, status = "idle", ServiceState = "stopped",
                      meant
               PROVE  want = "down"
    BY DEF StoppedIsWantedDown
  <2>1. ~tainted /\ want \in {"up", "down"}
    BY DEF IInv, TypeOK, TaintInv, FailClosed
  <2> QED BY <2>1 DEF Quiet, PairInv, Settles, MaintenanceActs
<1>4. IInv => TypeOK /\ LockInv
  BY DEF IInv
<1> QED BY <1>1, <1>2, <1>3, <1>4, Safety, PTL DEF Spec
=============================================================================
