------------------------ MODULE LifecycleRefinement ------------------------
(* Lifecycle implements MaintenanceFence, for every set of process slots   *)
(* and every workload.                                                     *)
EXTENDS LifecycleProofs

\* What the abstract phase is, and that no slot starts while a maintenance or
\* a failure is in the way.
LEMMA PhaseIs ==
  /\ tainted => AbstractPhase = "broken"
  /\ ~tainted /\ (\E p \in Proc : InMaintenance(p)) => AbstractPhase = "maintaining"
  /\ ~tainted /\ (\A p \in Proc : ~InMaintenance(p)) => AbstractPhase = "quiet"
  BY DEF AbstractPhase

\* The same in the next state.
LEMMA PhaseWillBe ==
  /\ tainted' => AbstractPhase' = "broken"
  /\ ~tainted' /\ (\E p \in Proc : InMaintenance(p)') => AbstractPhase' = "maintaining"
  /\ ~tainted' /\ (\A p \in Proc : ~InMaintenance(p)') => AbstractPhase' = "quiet"
  BY DEF AbstractPhase

\* A step that fails nothing, begins and ends no maintenance and starts and
\* ends no wake is invisible.
LEMMA Invisible ==
  ASSUME UNCHANGED <<tainted, stale, kind>>,
         \A q \in Proc : InMaintenance(q)' = InMaintenance(q),
         \A q \in Proc : WakeActs(q)' = WakeActs(q)
  PROVE  UNCHANGED Fenced!vars
<1>1. UNCHANGED AbstractPhase
  BY DEF AbstractPhase
<1>2. UNCHANGED AbstractRequest
  BY DEF AbstractRequest
<1>3. {p \in Proc : WakeActs(p)}' = {p \in Proc : WakeActs(p)}
  OBVIOUS
<1> QED BY <1>1, <1>2, <1>3 DEF Fenced!vars

\* A step after which the state is tainted either breaks the maintenance that
\* was going on or changes nothing that is visible.
LEMMA Breaks ==
  ASSUME tainted', UNCHANGED <<stale, kind>>,
         tainted \/ \E p \in Proc : InMaintenance(p),
         \A q \in Proc : WakeActs(q)' = WakeActs(q)
  PROVE  [Fenced!Next]_Fenced!vars
<1>1. UNCHANGED AbstractRequest
  BY DEF AbstractRequest
<1>2. {p \in Proc : WakeActs(p)}' = {p \in Proc : WakeActs(p)}
  OBVIOUS
<1>3. AbstractPhase' = "broken"
  BY PhaseWillBe
<1>4. CASE tainted
  BY <1>1, <1>2, <1>3, <1>4, PhaseIs DEF Fenced!vars
<1>5. CASE ~tainted
  <2>1. AbstractPhase = "maintaining"
    BY <1>5, PhaseIs
  <2> QED BY <1>1, <1>2, <1>3, <2>1 DEF Fenced!Break, Fenced!Next
<1> QED BY <1>4, <1>5

\* A step that ends the only maintenance without failing it is a success.
LEMMA Succeeds ==
  ASSUME UNCHANGED <<tainted, stale, kind>>,
         \E p \in Proc : InMaintenance(p),
         \A q \in Proc : ~InMaintenance(q)',
         \A q \in Proc : WakeActs(q)' = WakeActs(q)
  PROVE  [Fenced!Next]_Fenced!vars
<1>1. UNCHANGED AbstractRequest
  BY DEF AbstractRequest
<1>2. {p \in Proc : WakeActs(p)}' = {p \in Proc : WakeActs(p)}
  OBVIOUS
<1>3. CASE tainted
  BY <1>1, <1>2, <1>3, PhaseIs, PhaseWillBe DEF Fenced!vars
<1>4. CASE ~tainted
  <2>1. AbstractPhase = "maintaining" /\ AbstractPhase' = "quiet"
    BY <1>4, PhaseIs, PhaseWillBe
  <2> QED BY <1>1, <1>2, <2>1 DEF Fenced!Succeed, Fenced!Next
<1> QED BY <1>3, <1>4

\* Every request that was waiting is outdated by a step that says so.
LEMMA Outdates ==
  ASSUME stale' = [q \in Proc |-> TRUE], UNCHANGED kind
  PROVE  Fenced!Outdate
  BY DEF Fenced!Outdate, AbstractRequest

\* A step that begins a maintenance, when no wake is starting the service.
LEMMA Begins ==
  ASSUME stale' = [q \in Proc |-> TRUE], UNCHANGED <<tainted, kind>>,
         \A q \in Proc : ~InMaintenance(q),
         \E q \in Proc : InMaintenance(q)',
         \A q \in Proc : ~WakeActs(q) /\ ~WakeActs(q)'
  PROVE  [Fenced!Next]_Fenced!vars
<1>1. Fenced!Outdate
  BY Outdates
<1>2. {p \in Proc : WakeActs(p)} = {} /\ {p \in Proc : WakeActs(p)}' = {}
  OBVIOUS
<1>3. CASE tainted
  <2>1. AbstractPhase = "broken" /\ AbstractPhase' = "broken"
    BY <1>3, PhaseIs, PhaseWillBe
  <2> QED BY <1>1, <1>2, <2>1 DEF Fenced!Rotate, Fenced!Next
<1>4. CASE ~tainted
  <2>1. AbstractPhase = "quiet" /\ AbstractPhase' = "maintaining"
    BY <1>4, PhaseIs, PhaseWillBe
  <2> QED BY <1>1, <1>2, <2>1 DEF Fenced!Begin, Fenced!Next
<1> QED BY <1>3, <1>4

-----------------------------------------------------------------------------
\* A slot that is taken by a process without a request.
LEMMA Withdraws ==
  ASSUME TypeOK, LockInv, NEW p \in Proc, NEW k, Free(p), k \notin {"wake"},
         kind' = [kind EXCEPT ![p] = k], UNCHANGED <<tainted, stale, holders>>,
         \A q \in Proc : InMaintenance(q)' = InMaintenance(q)
  PROVE  [Fenced!Next]_Fenced!vars
<1>1. AbstractRequest' = [AbstractRequest EXCEPT ![p] = "none"]
  BY DEF AbstractRequest, TypeOK
<1>2. \A q \in Proc : WakeActs(q)' = WakeActs(q)
  BY DEF WakeActs, Free, TypeOK, Child
<1>3. UNCHANGED AbstractPhase
  BY DEF AbstractPhase
<1>4. {q \in Proc : WakeActs(q)}' = {q \in Proc : WakeActs(q)} /\ ~WakeActs(p)
  BY <1>2 DEF WakeActs, Free
<1> QED BY <1>1, <1>3, <1>4 DEF Fenced!Withdraw, Fenced!Next

\* A child that goes away: a start that ends, or nothing that is visible.
LEMMA ChildLeaves ==
  ASSUME TypeOK, LockInv, NEW p \in Proc, Child(p) \in holders,
         holders' = holders \ {Child(p)}, UNCHANGED <<tainted, stale, kind, pc>>
  PROVE  [Fenced!Next]_Fenced!vars
<1>1. \A q \in Proc : InMaintenance(q)' = InMaintenance(q)
  BY DEF InMaintenance
<1>2. \A q \in Proc : q # p => ~WakeActs(q) /\ ~WakeActs(q)'
  BY DEF WakeActs, LockInv, Child
<1>3. CASE kind[p] \in {"wake", "knock"}
  <2>1. UNCHANGED AbstractPhase /\ UNCHANGED AbstractRequest
    BY <1>1 DEF AbstractPhase, AbstractRequest
  <2>2. WakeActs(p) /\ ~WakeActs(p)'
    BY <1>3 DEF WakeActs
  <2>3. p \in {q \in Proc : WakeActs(q)} /\ {q \in Proc : WakeActs(q)}' = {}
    BY <1>2, <2>2
  <2> QED BY <2>1, <2>3 DEF Fenced!Started, Fenced!Next
<1>4. CASE kind[p] \notin {"wake", "knock"}
  <2>1. \A q \in Proc : WakeActs(q)' = WakeActs(q)
    BY <1>2, <1>4 DEF WakeActs
  <2> QED BY <1>1, <2>1, Invisible
<1> QED BY <1>3, <1>4

\* The replacement of the state file.
LEMMA WriteRefines ==
  ASSUME IInv, BrokenInv, NEW p \in Proc, WriteReplace(p)
  PROVE  [Fenced!Next]_Fenced!vars
<1> USE DEF Goto, procVars
<1>1. UNCHANGED <<kind, holders>> /\ TypeOK /\ LockInv
  BY DEF Loaded, WriteReplace, IInv
<1>2. \A q \in Proc : WakeActs(q)' = WakeActs(q)
  BY <1>1 DEF WakeActs
<1>3. CASE pc[p] \in {"reapWrite", "initEscalate"}
  <2>1. UNCHANGED <<tainted, stale>> /\ pc' = [pc EXCEPT ![p] = "release"]
    BY <1>3 DEF Loaded, WriteReplace, Forces, Rotates
  <2>2. \A q \in Proc : InMaintenance(q)' = InMaintenance(q)
    BY <1>1, <1>3, <2>1 DEF InMaintenance, TypeOK
  <2> QED BY <1>1, <1>2, <2>1, <2>2, Invisible
<1>4. CASE pc[p] \notin {"reapWrite", "initEscalate"}
  <2>1. Owner(p) \in holders
    BY <1>1, <1>4 DEF Loaded, WriteReplace, Writing, Locked, LockInv
  <2>2. \A q \in Proc : q # p => pc[q] \notin Locked \ {"release"} /\ Child(q) \notin holders
    BY <1>1, <2>1, Alone
  <2>3. \A q \in Proc : q # p => ~InMaintenance(q)
    BY <2>2 DEF InMaintenance, Locked
  <2>4. \A q \in Proc : q # p => ~InMaintenance(q)'
    <3>1. \A q \in Proc : q # p => pc'[q] = pc[q]
      BY <1>1 DEF Loaded, WriteReplace, EnterMaintenance, TypeOK
    <3> QED BY <2>3, <3>1 DEF InMaintenance
  <2>5. CASE pc[p] = "complete"
    <3>1. UNCHANGED <<tainted, stale>> /\ pc' = [pc EXCEPT ![p] = "release"]
      BY <2>5 DEF Loaded, WriteReplace, Forces, Rotates
    <3>2. InMaintenance(p) /\ ~InMaintenance(p)'
      BY <1>1, <2>5, <3>1 DEF InMaintenance, TypeOK
    <3> QED BY <1>1, <1>2, <2>4, <3>1, <3>2, Succeeds
  <2>6. CASE pc[p] # "complete"
    <3>1. ~InMaintenance(p)
      BY <2>6 DEF Loaded, WriteReplace, Writing, InMaintenance
    <3>2. Child(p) \notin holders
      BY <1>1, <2>6 DEF Loaded, WriteReplace, Writing, LockInv
    <3>3. \A q \in Proc : ~WakeActs(q) /\ ~WakeActs(q)'
      BY <1>2, <2>2, <3>2 DEF WakeActs
    <3>4. stale' = [q \in Proc |-> TRUE]
      BY <1>4, <2>6 DEF Loaded, WriteReplace, Writing, EnterMaintenance, Rotates
    <3>5. CASE pc[p] \in {"escalate", "publish"}
      <4>1. UNCHANGED tainted /\ pc' = [pc EXCEPT ![p] = "gate"]
        BY <3>5 DEF Loaded, WriteReplace, Forces, EnterMaintenance
      <4>2. InMaintenance(p)'
        BY <1>1, <4>1 DEF InMaintenance, TypeOK
      <4> QED BY <1>1, <2>3, <3>1, <3>3, <3>4, <4>1, <4>2, Begins
    <3>6. CASE pc[p] \notin {"escalate", "publish"}
      <4>1. pc' = [pc EXCEPT ![p] = "release"]
        BY <3>6 DEF Loaded, WriteReplace
      <4>2. ~InMaintenance(p)'
        BY <1>1, <4>1 DEF InMaintenance, TypeOK
      <4>3. Fenced!Outdate
        BY <1>1, <3>4, Outdates
      <4>4. {q \in Proc : WakeActs(q)} = {} /\ {q \in Proc : WakeActs(q)}' = {}
        BY <3>3
      <4>5. CASE tainted /\ ~tainted'
        <5>1. AbstractPhase = "broken" /\ AbstractPhase' = "quiet"
          BY <2>4, <4>2, <4>5, PhaseIs, PhaseWillBe
        <5> QED BY <4>3, <4>4, <5>1 DEF Fenced!Acknowledge, Fenced!Next
      <4>6. CASE ~(tainted /\ ~tainted')
        <5>1. (tainted /\ tainted') \/ (~tainted /\ ~tainted')
          BY <1>1, <4>6 DEF Loaded, WriteReplace, TypeOK
        <5>2. UNCHANGED AbstractPhase
          BY <2>3, <2>4, <3>1, <4>2, <5>1, PhaseIs, PhaseWillBe
        <5> QED BY <4>3, <4>4, <5>2 DEF Fenced!Rotate, Fenced!Next
      <4> QED BY <4>5, <4>6
    <3> QED BY <3>5, <3>6
  <2> QED BY <2>5, <2>6
<1> QED BY <1>3, <1>4

-----------------------------------------------------------------------------
\* Every step of the lifecycle core is a step of the fence, or invisible.
LEMMA NextRefines ==
  ASSUME IInv, BrokenInv, [Next]_vars
  PROVE  [Fenced!Next]_Fenced!vars
<1> USE DEF fileVars, serviceVars, procVars, history, Goto
<1>0. TypeOK /\ LockInv
  BY DEF IInv
<1>1. ASSUME NEW p \in Proc, NEW w \in Workload, Launch(p, w[1], w[2])
      PROVE  [Fenced!Next]_Fenced!vars
  <2>1. /\ Free(p) /\ w[1] \notin {"wake"} /\ pc[p] = "gone"
        /\ kind' = [kind EXCEPT ![p] = w[1]] /\ UNCHANGED <<tainted, stale, holders>>
        /\ pc' = [pc EXCEPT ![p] = "acquire"]
    BY <1>1 DEF Launch, Free
  <2>2. \A q \in Proc : InMaintenance(q)' = InMaintenance(q)
    BY <1>0, <2>1 DEF InMaintenance, TypeOK
  <2> QED BY <1>0, <2>1, <2>2, Withdraws
<1>2. ASSUME NEW p \in Proc, Admit(p) PROVE [Fenced!Next]_Fenced!vars
  <2>1. /\ Child(p) \notin holders /\ pc[p] = "gone" /\ status = "idle"
        /\ UNCHANGED <<tainted, holders>> /\ pc' = [pc EXCEPT ![p] = "queued"]
        /\ kind' = [kind EXCEPT ![p] = "wake"] /\ stale' = [stale EXCEPT ![p] = FALSE]
    BY <1>2 DEF Admit, Free
  <2>2. ~tainted /\ \A q \in Proc : ~InMaintenance(q)
    BY <2>1 DEF IInv, TaintInv, FailClosed
  <2>3. \A q \in Proc : ~InMaintenance(q)'
    BY <1>0, <2>1, <2>2 DEF InMaintenance, TypeOK
  <2>4. AbstractPhase = "quiet" /\ AbstractPhase' = "quiet"
    BY <2>1, <2>2, <2>3, PhaseIs, PhaseWillBe
  <2>5. AbstractRequest' = [AbstractRequest EXCEPT ![p] = "valid"]
    BY <1>0, <2>1 DEF AbstractRequest, TypeOK
  <2>6. ~WakeActs(p) /\ \A q \in Proc : WakeActs(q)' = WakeActs(q)
    BY <1>0, <2>1 DEF WakeActs, TypeOK
  <2>7. {q \in Proc : WakeActs(q)}' = {q \in Proc : WakeActs(q)}
    BY <2>6
  <2> QED BY <2>4, <2>5, <2>6, <2>7 DEF Fenced!Request, Fenced!Next
<1>3. ASSUME NEW p \in Proc, StartReaper(p) PROVE [Fenced!Next]_Fenced!vars
  <2>1. /\ Free(p) /\ pc[p] = "gone"
        /\ kind' = [kind EXCEPT ![p] = "reap"] /\ UNCHANGED <<tainted, stale, holders>>
        /\ pc' = [pc EXCEPT ![p] = "reapWrite"]
    BY <1>3 DEF StartReaper, Free
  <2>2. \A q \in Proc : InMaintenance(q)' = InMaintenance(q)
    BY <1>0, <2>1 DEF InMaintenance, TypeOK
  <2>3. "reap" \notin {"wake"}
    OBVIOUS
  <2> QED BY <1>0, <2>1, <2>2, <2>3, Withdraws
<1>4. ASSUME NEW p \in Proc, StepTimeout(p) PROVE [Fenced!Next]_Fenced!vars
  <2>1. UNCHANGED <<kind, stale, holders>>
    BY <1>4 DEF StepTimeout
  <2>2. \A q \in Proc : WakeActs(q)' = WakeActs(q)
    BY <2>1 DEF WakeActs
  <2>3. CASE pc[p] = "body"
    <3>1. tainted' /\ InMaintenance(p)
      BY <1>4, <2>3 DEF StepTimeout, InMaintenance
    <3> QED BY <2>1, <2>2, <3>1, Breaks
  <2>4. CASE pc[p] = "start"
    <3>1. UNCHANGED tainted /\ pc' = [pc EXCEPT ![p] = "release"]
      BY <1>0, <1>4, <2>4 DEF StepTimeout, TypeOK
    <3>2. \A q \in Proc : InMaintenance(q)' = InMaintenance(q)
      BY <1>0, <2>4, <3>1 DEF InMaintenance, TypeOK
    <3> QED BY <2>1, <2>2, <3>1, <3>2, Invisible
  <2> QED BY <1>4, <2>3, <2>4 DEF StepTimeout
<1>5. ASSUME NEW p \in Proc, Crash(p) PROVE [Fenced!Next]_Fenced!vars
  <2>1. UNCHANGED <<kind, stale>> /\ pc' = [pc EXCEPT ![p] = "gone"]
    BY <1>5 DEF Crash
  <2>2. \A q \in Proc : WakeActs(q)' = WakeActs(q)
    BY <1>5 DEF Crash, WakeActs, Owner, Child
  <2>3. CASE tainted \/ InMaintenance(p)
    BY <1>5, <2>1, <2>2, <2>3, Breaks DEF Crash
  <2>4. CASE ~tainted /\ ~InMaintenance(p)
    <3>1. UNCHANGED tainted
      BY <1>0, <1>5, <2>4 DEF Crash, TypeOK
    <3>2. \A q \in Proc : InMaintenance(q)' = InMaintenance(q)
      BY <1>0, <2>1, <2>4 DEF InMaintenance, TypeOK
    <3> QED BY <2>1, <2>2, <3>1, <3>2, Invisible
  <2> QED BY <2>3, <2>4
<1>6. ASSUME NEW p \in Proc, ChildDies(p) PROVE [Fenced!Next]_Fenced!vars
  <2>1. /\ UNCHANGED <<kind, stale, pc>> /\ holders' = holders \ {Child(p)}
        /\ Child(p) \in holders
    BY <1>6 DEF ChildDies
  <2>2. CASE kind[p] \in Maintenance
    <3>1. tainted' /\ (tainted \/ InMaintenance(p))
      BY <1>6, <2>1, <2>2 DEF ChildDies, Fails, BrokenInv, MaintenanceActs
    <3>2. \A q \in Proc : WakeActs(q)' = WakeActs(q)
      BY <2>1, <2>2 DEF WakeActs, Maintenance, Child
    <3> QED BY <2>1, <3>1, <3>2, Breaks
  <2>3. CASE kind[p] \notin Maintenance
    <3>1. UNCHANGED tainted
      BY <1>0, <1>6, <2>3 DEF ChildDies, Fails, TypeOK
    <3> QED BY <1>0, <2>1, <3>1, ChildLeaves
  <2> QED BY <2>2, <2>3
<1>7. ASSUME NEW p \in Proc, ChildStep(p) PROVE [Fenced!Next]_Fenced!vars
  <2>1. UNCHANGED <<holders, pc, kind, stale>> /\ Child(p) \in holders
    BY <1>7, ChildStepFrame
  <2>2. \A q \in Proc : WakeActs(q)' = WakeActs(q) /\ InMaintenance(q)' = InMaintenance(q)
    BY <2>1 DEF WakeActs, InMaintenance
  <2>3. CASE UNCHANGED tainted
    BY <2>1, <2>2, <2>3, Invisible
  <2>4. CASE ~UNCHANGED tainted
    <3>1. Fails(p)
      BY <1>7, <2>4, ChildStepFrame
    <3>2. kind[p] \in Maintenance /\ tainted'
      BY <1>0, <2>4, <3>1 DEF Fails, TypeOK
    <3>3. tainted \/ InMaintenance(p)
      BY <2>1, <3>2 DEF BrokenInv, MaintenanceActs
    <3> QED BY <2>1, <2>2, <3>2, <3>3, Breaks
  <2> QED BY <2>3, <2>4
<1>8. ASSUME NEW p \in Proc, ProcStep(p) PROVE [Fenced!Next]_Fenced!vars
  <2>1. CASE Dispatch(p) \/ Acquire(p) \/ LockBusy(p) \/ Release(p) \/ Recheck(p)
             \/ Spawn(p) \/ Fence(p) \/ Check(p) \/ Started(p) \/ Confirm(p)
             \/ InitCheck(p) \/ AckCheck(p)
    <3>1. UNCHANGED <<tainted, stale, kind>>
      BY <2>1 DEF LockFree, Closed, StartAllowed, Dispatch, Acquire, LockBusy, Release, Recheck, Spawn, Fence, Check,
                  Started, Confirm, InitCheck, AckCheck
    <3>2. \A q \in Proc : WakeActs(q)' = WakeActs(q)
      <4>1. CASE Spawn(p)
        <5>1. kind[p] \in Maintenance /\ holders' = holders \cup {Child(p)}
          BY <1>0, <4>1 DEF Spawn, LockInv
        <5> QED BY <3>1, <5>1 DEF WakeActs, Maintenance, Child
      <4>2. CASE Acquire(p)
        BY <1>0, <3>1, <4>2 DEF LockFree, Acquire, WakeActs, Owner, Child
      <4>3. CASE Release(p)
        BY <3>1, <4>3 DEF Closed, Release, WakeActs, Owner, Child
      <4>4. CASE ~(Spawn(p) \/ Acquire(p) \/ Release(p))
        <5>1. UNCHANGED holders
          BY <2>1, <4>4 DEF LockFree, StartAllowed, Dispatch, LockBusy, Recheck, Fence, Check,
                            Started, Confirm, InitCheck, AckCheck
        <5> QED BY <3>1, <5>1 DEF WakeActs
      <4> QED BY <4>1, <4>2, <4>3, <4>4
    <3>3. \A q \in Proc : InMaintenance(q)' = InMaintenance(q)
      <4>1. CASE Spawn(p)
        BY <1>0, <4>1 DEF Spawn, InMaintenance, TypeOK
      <4>2. CASE ~Spawn(p)
        <5>1. \E there \in PC \ {"gate", "body", "complete"} :
                pc' = [pc EXCEPT ![p] = there]
          BY <2>1, <4>2 DEF LockFree, Closed, StartAllowed, Dispatch, Acquire, Acquired, LockBusy, Release, Recheck, Fence,
                            Check, Started, Confirm, InitCheck, AckCheck, PC, Locked
        <5>2. pc[p] \notin {"gate", "body", "complete"}
          BY <2>1, <4>2 DEF LockFree, Closed, StartAllowed, Dispatch, Acquire, LockBusy, Release, Recheck, Fence, Check,
                            Started, Confirm, InitCheck, AckCheck
        <5> QED BY <1>0, <5>1, <5>2 DEF InMaintenance, TypeOK
      <4> QED BY <4>1, <4>2
    <3> QED BY <3>1, <3>2, <3>3, Invisible
  <2>2. CASE WriteRead(p) \/ WriteFails(p)
    <3>1. UNCHANGED <<tainted, stale, kind, holders>> /\ pc[p] \in Writing
      BY <2>2 DEF Refuses, WriteRead, WriteFails
    <3>2. \A q \in Proc : WakeActs(q)' = WakeActs(q)
      BY <3>1 DEF WakeActs
    <3>3. UNCHANGED pc \/ pc' = [pc EXCEPT ![p] = "release"]
      BY <2>2 DEF Refuses, WriteRead, WriteFails
    <3>4. CASE UNCHANGED pc \/ pc[p] # "complete"
      <4>1. \A q \in Proc : InMaintenance(q)' = InMaintenance(q)
        BY <1>0, <3>1, <3>3, <3>4 DEF InMaintenance, TypeOK, Writing
      <4> QED BY <3>1, <3>2, <4>1, Invisible
    <3>5. CASE pc[p] = "complete" /\ pc' = [pc EXCEPT ![p] = "release"]
      <4>1. \A q \in Proc : q # p => pc[q] \notin Locked \ {"release"}
        BY <1>0, <3>5, Alone DEF LockInv, Locked
      <4>2. \A q \in Proc : ~InMaintenance(q)'
        BY <1>0, <3>5, <4>1 DEF InMaintenance, TypeOK, Locked
      <4>3. InMaintenance(p)
        BY <3>5 DEF InMaintenance
      <4> QED BY <3>1, <3>2, <4>2, <4>3, Succeeds
    <3> QED BY <3>3, <3>4, <3>5
  <2>3. CASE WriteReplace(p)
    BY <2>3, WriteRefines
  <2>4. CASE Begin(p)
    <3>1. UNCHANGED <<tainted, kind, holders>>
      BY <2>4 DEF Begin
    <3>2. \A q \in Proc : WakeActs(q)' = WakeActs(q)
      BY <3>1 DEF WakeActs
    <3>3. CASE status = "unsafe"
      <4>1. pc' = [pc EXCEPT ![p] = "gate"] /\ stale' = [q \in Proc |-> TRUE]
        BY <2>4, <3>3 DEF Begin, EnterMaintenance
      <4>2. Owner(p) \in holders /\ Child(p) \notin holders /\ ~InMaintenance(p)
        BY <1>0, <2>4 DEF Begin, LockInv, Locked, InMaintenance
      <4>3. \A q \in Proc : q # p => pc[q] \notin Locked \ {"release"} /\ Child(q) \notin holders
        BY <1>0, <4>2, Alone
      <4>4. \A q \in Proc : ~InMaintenance(q)
        BY <4>2, <4>3 DEF InMaintenance, Locked
      <4>5. \A q \in Proc : ~WakeActs(q) /\ ~WakeActs(q)'
        BY <3>2, <4>2, <4>3 DEF WakeActs
      <4>6. InMaintenance(p)'
        BY <1>0, <4>1 DEF InMaintenance, TypeOK
      <4> QED BY <3>1, <4>1, <4>4, <4>5, <4>6, Begins
    <3>4. CASE status # "unsafe"
      <4>1. /\ UNCHANGED stale /\ pc[p] = "begin"
            /\ \/ pc' = [pc EXCEPT ![p] = "publish"]
               \/ pc' = [pc EXCEPT ![p] = "escalate"]
        BY <2>4, <3>4 DEF Begin
      <4>2. \A q \in Proc : InMaintenance(q)' = InMaintenance(q)
        BY <1>0, <4>1 DEF InMaintenance, TypeOK
      <4> QED BY <3>1, <3>2, <4>1, <4>2, Invisible
    <3> QED BY <3>3, <3>4
  <2>5. CASE AbortUnstarted(p) \/ Finish(p)
    <3>1. /\ UNCHANGED <<kind, holders, stale>> /\ pc[p] \in {"gate", "body"}
          /\ pc' = [pc EXCEPT ![p] = "complete"] /\ (tainted' \/ UNCHANGED tainted)
      BY <2>5 DEF AbortUnstarted, Finish
    <3>2. \A q \in Proc : WakeActs(q)' = WakeActs(q) /\ InMaintenance(q)' = InMaintenance(q)
      BY <1>0, <3>1 DEF WakeActs, InMaintenance, TypeOK
    <3>3. InMaintenance(p)
      BY <3>1 DEF InMaintenance
    <3>4. CASE UNCHANGED tainted  BY <3>1, <3>2, <3>4, Invisible
    <3>5. CASE tainted'  BY <3>1, <3>2, <3>3, <3>5, Breaks
    <3> QED BY <3>1, <3>4, <3>5
  <2>6. CASE Arm(p)
    <3>1. UNCHANGED <<tainted, stale, kind>> /\ pc[p] = "arm"
      BY <2>6 DEF Arm
    <3>2. pc' = [pc EXCEPT ![p] = "start"] \/ pc' = [pc EXCEPT ![p] = "release"]
      BY <2>6 DEF Arm
    <3>3. \A q \in Proc : InMaintenance(q)' = InMaintenance(q)
      BY <1>0, <3>1, <3>2 DEF InMaintenance, TypeOK
    <3>4. CASE UNCHANGED holders
      <4>1. \A q \in Proc : WakeActs(q)' = WakeActs(q)
        BY <3>1, <3>4 DEF WakeActs
      <4> QED BY <3>1, <3>3, <4>1, Invisible
    <3>5. CASE holders' = holders \cup {Child(p)}
      <4>1. Owner(p) \in holders /\ Child(p) \notin holders /\ kind[p] \in {"wake", "knock"}
        BY <1>0, <3>1 DEF LockInv, Locked
      <4>2. \A q \in Proc : q # p => pc[q] \notin Locked \ {"release"} /\ Child(q) \notin holders
        BY <1>0, <4>1, Alone
      <4>3. ~tainted /\ \A q \in Proc : ~InMaintenance(q)
        BY <3>1, <4>2 DEF IInv, TaintInv, SawIdle, InMaintenance, Locked
      <4>4. AbstractPhase = "quiet" /\ UNCHANGED AbstractPhase /\ UNCHANGED AbstractRequest
        BY <3>1, <3>3, <4>3 DEF AbstractPhase, AbstractRequest
      <4>5. AbstractRequest[p] # "outdated"
        <5>1. kind[p] = "wake" => ~stale[p]
          BY <3>1 DEF IInv, WakeInv
        <5> QED BY <5>1 DEF AbstractRequest
      <4>6. WakeActs(p)' /\ ~WakeActs(p)
        BY <3>1, <3>5, <4>1 DEF WakeActs
      <4>7. \A q \in Proc : q # p => ~WakeActs(q) /\ ~WakeActs(q)'
        BY <3>1, <3>5, <4>2 DEF WakeActs, Child
      <4>8. {q \in Proc : WakeActs(q)} = {} /\ {q \in Proc : WakeActs(q)}' = {p}
        BY <4>6, <4>7
      <4> QED BY <4>4, <4>5, <4>8 DEF Fenced!Start, Fenced!Next
    <3> QED BY <2>6, <3>4, <3>5 DEF Arm
  <2>7. CASE ChildExits(p)
    BY <1>0, <2>7, ChildLeaves DEF ChildExits
  <2> QED BY <1>7, <1>8, <2>1, <2>2, <2>3, <2>4, <2>5, <2>6, <2>7 DEF ProcStep
<1>9. CASE (\E p \in Proc : Expire(p) \/ WorkerDies(p)) \/ GameExits \/ Supervise
            \/ ClockMoves \/ UNCHANGED vars
  <2>1. UNCHANGED <<tainted, stale, kind, pc, holders>>
    BY <1>9 DEF Expire, WorkerDies, GameExits, Supervise, ClockMoves, vars
  <2>2. \A q \in Proc : WakeActs(q)' = WakeActs(q) /\ InMaintenance(q)' = InMaintenance(q)
    BY <2>1 DEF WakeActs, InMaintenance
  <2> QED BY <2>1, <2>2, Invisible
<1>10. CASE Boot
  <2>1. Fenced!Outdate
    BY <1>10, Outdates DEF Boot
  <2>2. {q \in Proc : WakeActs(q)}' = {}
    BY <1>10 DEF Boot, WakeActs
  <2>3. \A q \in Proc : ~InMaintenance(q)'
    BY <1>10 DEF Boot, InMaintenance
  <2>4. AbstractPhase' = IF AbstractPhase = "maintaining" THEN "broken" ELSE AbstractPhase
    <3>1. tainted' <=> tainted \/ \E q \in Proc : InMaintenance(q)
      BY <1>10 DEF Boot
    <3> QED BY <2>3, <3>1, PhaseIs, PhaseWillBe
  <2> QED BY <2>1, <2>2, <2>4 DEF Fenced!Reboot, Fenced!Next
<1> QED BY <1>1, <1>2, <1>3, <1>4, <1>5, <1>6, <1>8, <1>9, <1>10 DEF Next

\* The lifecycle core implements the fence: web, jobd, idle-watch and the wake
\* commands may rely on MaintenanceFence and forget about files and locks.
THEOREM Refinement == Spec => ImplementsFence
<1>1. Init => Fenced!Init
  BY DEF Init, Fenced!Init, AbstractPhase, AbstractRequest, InMaintenance, WakeActs
<1>2. Init => BrokenInv
  BY DEF Init, BrokenInv, InMaintenance, MaintenanceActs
<1>3. TypeOK /\ LockInv /\ BrokenInv /\ [Next]_vars => BrokenInv'
  BY NextBroken
<1>4. Spec => []BrokenInv
  <2>1. IInv => TypeOK /\ LockInv
    BY DEF IInv
  <2> QED BY <1>2, <1>3, <2>1, Safety, PTL DEF Spec
<1>5. IInv /\ BrokenInv /\ [Next]_vars => [Fenced!Next]_Fenced!vars
  BY NextRefines
<1> QED BY <1>1, <1>4, <1>5, Safety, PTL DEF Spec, ImplementsFence, Fenced!Spec
=============================================================================
