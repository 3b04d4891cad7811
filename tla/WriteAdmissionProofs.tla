------------------------- MODULE WriteAdmissionProofs -------------------------
(***************************************************************************)
(* Proofs about WriteAdmission for every set of requests, owners, delta    *)
(* runs and pages, every lifetime and every lag.                           *)
(***************************************************************************)
EXTENDS WriteAdmission, TLAPS

-------------------------------------------------------------------------------
(* Deadlines.                                                              *)

LEMMA LagFacts ==
    /\ Lag \in Int /\ 0 <= Lag
    /\ AdmissionTTL \in Int /\ 0 <= AdmissionTTL
    /\ BarrierTTL \in Int /\ 0 <= BarrierTTL
    /\ DeltaTTL \in Int /\ 0 <= DeltaTTL
    /\ RemoteTime \in Int /\ 1 <= RemoteTime
    /\ RemoteTime + Lag <= AdmissionTTL
    /\ Lag < BarrierTTL
  BY TimingAssumption

\* Every deadline a statement writes is in range, however late it is.
LEMMA DeadlinesInRange ==
    ASSUME NEW late \in Ages
    PROVE  /\ late \in Int /\ 0 <= late /\ late <= Lag
           /\ 0 - Lag \in Remaining
           /\ AdmissionTTL - late \in Remaining
           /\ BarrierTTL - late \in Remaining
           /\ DeltaTTL - late \in Remaining
  BY LagFacts DEF Ages, Remaining

\* Time never adds to a deadline and never leaves the range.
LEMMA ElapseFacts ==
    ASSUME NEW left \in Remaining
    PROVE  /\ Elapse(left) \in Remaining
           /\ Elapse(left) <= left
           /\ left > 0 => Elapse(left) = left - 1
  BY LagFacts DEF Elapse, Remaining

LEMMA AgeZero == 0 \in Ages
  BY LagFacts DEF Ages

\* What is live by a fresh timestamp is live by every older one.
LEMMA LiveAges ==
    ASSUME NEW left \in Remaining, NEW late \in Ages, Live(left, 0)
    PROVE  Live(left, late)
  BY LagFacts DEF Live, Ages, Remaining

-------------------------------------------------------------------------------
LEMMA InitTypeOK == Init => TypeOK
  <1> SUFFICES ASSUME Init PROVE TypeOK
    OBVIOUS
  <1>1. 0 - Lag \in Remaining
    BY DeadlinesInRange, AgeZero
  <1>2. NoLock \in LockRow
    BY <1>1 DEF NoLock, LockRow
  <1>3. LegacyLock \in LockRow
    BY <1>2 DEF LegacyLock, LockRow
  <1>4. restore \in RestoreRow
    BY <1>1 DEF Init, RestoreRow
  <1>5. run \in [DeltaRuns -> DeltaRun]
    BY DEF Init, DeltaRun
  <1>6. timeLeft \in [Requests -> Remaining]
    BY <1>1 DEF Init
  <1> QED
    BY <1>2, <1>3, <1>4, <1>5, <1>6, LagFacts, NameAssumption DEF Init, TypeOK

LEMMA RequestTypeOK ==
    ASSUME TypeOK, NEW r \in Requests, RequestStep(r)
    PROVE  TypeOK'
  <1> USE DEF TypeOK, requestVars, barrierVars, dataVars
  <1>1. ASSUME NEW late \in Ages, Acquire(r, late) PROVE TypeOK'
    BY <1>1, DeadlinesInRange DEF Acquire, Purged
  <1>2. ASSUME NEW late \in Ages, SourceWrite(r, late) PROVE TypeOK'
    BY <1>2 DEF SourceWrite
  <1>3. ASSUME NEW late \in Ages, RemoteCall(r, late) PROVE TypeOK'
    BY <1>3, DeadlinesInRange, LagFacts DEF RemoteCall
  <1>4. CASE RemoteReturns(r)
    BY <1>4, LagFacts DEF RemoteReturns
  <1>5. CASE StartTask(r)
    BY <1>5, NameAssumption DEF StartTask
  <1>6. CASE SettleTask(r)
    BY <1>6, NameAssumption DEF SettleTask
  <1>7. CASE FinishHandler(r)
    BY <1>7 DEF FinishHandler
  <1>8. CASE Release(r)
    BY <1>8 DEF Release
  <1>9. CASE ReleaseGivesUp(r)
    BY <1>9 DEF ReleaseGivesUp
  <1>10. CASE CrashRequest(r)
    BY <1>10, NameAssumption DEF CrashRequest
  <1> QED
    BY <1>1, <1>2, <1>3, <1>4, <1>5, <1>6, <1>7, <1>8, <1>9, <1>10 DEF RequestStep

LEMMA LockTypeOK ==
    ASSUME TypeOK, NEW o \in Owners, LockStep(o)
    PROVE  TypeOK'
  <1>1. ASSUME NEW snapshot \in BOOLEAN, NEW late \in Ages, ClaimLock(o, snapshot, late)
        PROVE  TypeOK'
    BY <1>1, DeadlinesInRange, NameAssumption
       DEF TypeOK, LockRow, ClaimLock, RotateEpoch, NoLock
  <1>2. ASSUME NEW force \in BOOLEAN, NEW late \in Ages, ClearLock(o, force, late)
        PROVE  TypeOK'
    BY <1>2, DeadlinesInRange, NameAssumption
       DEF TypeOK, LockRow, ClearLock, NoLock, requestVars, dataVars
  <1>3. ASSUME NEW snapshot \in BOOLEAN, NEW late \in Ages, SetLock(o, snapshot, late)
        PROVE  TypeOK'
    BY <1>1, <1>3 DEF SetLock
  <1>4. ASSUME NEW late \in Ages, RecoverLegacyLock(o, late) PROVE TypeOK'
    <2>1. ClaimLock(o, FALSE, late)
      BY <1>4 DEF RecoverLegacyLock
    <2> QED
      BY <1>1, <2>1
  <1> QED
    BY <1>2, <1>3, <1>4 DEF LockStep

\* The steps of a delta run change two rows; each is typed on its own.
LEMMA DeltaRowsTyped ==
    ASSUME TypeOK, NEW k \in DeltaRuns, DeltaStep(k)
    PROVE  lock' \in LockRow /\ run' \in [DeltaRuns -> DeltaRun]
  <1> USE DEF TypeOK
  <1>1. run' \in [DeltaRuns -> DeltaRun]
    <2>1. ASSUME NEW at \in {"leased", "closing"}, run' = [run EXCEPT ![k].at = at]
          PROVE  run' \in [DeltaRuns -> DeltaRun]
      BY <2>1 DEF DeltaRun
    <2>2. ASSUME NEW at \in {"idle", "read"}, NEW o \in Owners \cup {Null},
                 run' = [run EXCEPT ![k] = [at |-> at, owner |-> o]]
          PROVE  run' \in [DeltaRuns -> DeltaRun]
      BY <2>2 DEF DeltaRun
    <2>3. ASSUME NEW late \in Ages, ReadLockForDelta(k, late)
          PROVE  run' \in [DeltaRuns -> DeltaRun]
      BY <2>2, <2>3 DEF ReadLockForDelta, LockRow
    <2> QED
      BY <2>1, <2>2, <2>3
         DEF DeltaStep, AcquireDelta, AcquireDeltaRefused, RenewDelta, MarkComplete,
             StopDelta, ReleaseDelta, CrashDelta
  <1>2. ASSUME NEW late \in Ages, AcquireDelta(k, late) PROVE lock' \in LockRow
    BY <1>2, DeadlinesInRange DEF AcquireDelta, LockRow
  <1>3. ASSUME NEW late \in Ages, RenewDelta(k, late) PROVE lock' \in LockRow
    BY <1>3, DeadlinesInRange DEF RenewDelta, LockRow
  <1>4. ASSUME NEW late \in Ages, MarkComplete(k, late) PROVE lock' \in LockRow
    BY <1>4 DEF MarkComplete, LockRow
  <1>5. CASE ReleaseDelta(k)
    BY <1>5, <1>1, DeadlinesInRange, AgeZero DEF ReleaseDelta, LockRow
  <1>6. CASE lock' = lock
    BY <1>1, <1>6
  <1> QED
    BY <1>1, <1>2, <1>3, <1>4, <1>5, <1>6
       DEF DeltaStep, ReadLockForDelta, AcquireDeltaRefused, StopDelta, CrashDelta

LEMMA DeltaTypeOK ==
    ASSUME TypeOK, NEW k \in DeltaRuns, DeltaStep(k)
    PROVE  TypeOK'
  <1>1. UNCHANGED <<requestVars, restore, page, dataVars>>
    BY DEF DeltaStep, ReadLockForDelta, AcquireDelta, AcquireDeltaRefused, RenewDelta,
           MarkComplete, StopDelta, ReleaseDelta, CrashDelta
  <1> QED
    BY <1>1, DeltaRowsTyped DEF TypeOK, requestVars, dataVars

LEMMA PageTypeOK ==
    ASSUME TypeOK, NEW p \in Pages, PageStep(p)
    PROVE  TypeOK'
  <1> USE DEF TypeOK, RestoreRow, requestVars, dataVars
  <1>1. ASSUME NEW plan \in {"fresh", "resume"}, CheckPage(p, plan) PROVE TypeOK'
    BY <1>1 DEF CheckPage
  <1>2. ASSUME NEW late \in Ages, NEW d1late \in Ages, ClaimRestore(p, late, d1late)
        PROVE  TypeOK'
    BY <1>2, DeadlinesInRange DEF ClaimRestore, RotateEpoch
  <1>3. ASSUME NEW late \in Ages, NEW d1late \in Ages, ResumeRestore(p, late, d1late)
        PROVE  TypeOK'
    BY <1>3, DeadlinesInRange DEF ResumeRestore, RotateEpoch
  <1>4. ASSUME NEW late \in Ages, RenewRestore(p, late) PROVE TypeOK'
    BY <1>4, DeadlinesInRange DEF RenewRestore
  <1>5. ASSUME NEW late \in Ages, ImportRows(p, late) PROVE TypeOK'
    BY <1>5 DEF ImportRows
  <1>6. ASSUME NEW done \in BOOLEAN, NEW late \in Ages, CommitPage(p, done, late)
        PROVE  TypeOK'
    BY <1>6, DeadlinesInRange DEF CommitPage
  <1>7. CASE FailPage(p)
    BY <1>7 DEF FailPage
  <1>8. CASE ReleaseRestore(p)
    BY <1>8, DeadlinesInRange, AgeZero DEF ReleaseRestore
  <1>9. CASE CrashPage(p)
    BY <1>9 DEF CrashPage
  <1> QED
    BY <1>1, <1>2, <1>3, <1>4, <1>5, <1>6, <1>7, <1>8, <1>9 DEF PageStep

LEMMA TickTypeOK ==
    ASSUME TypeOK, Tick
    PROVE  TypeOK'
  <1>1. timeLeft' \in [Requests -> Remaining]
    BY ElapseFacts DEF TypeOK, Tick
  <1>2. remote' \in [Requests -> 0..RemoteTime]
    BY LagFacts DEF TypeOK, Tick
  <1>3. lock' = [lock EXCEPT !.left = Elapse(lock.left)] /\ Elapse(lock.left) \in Remaining
    BY ElapseFacts DEF TypeOK, LockRow, Tick
  <1>4. restore' = [restore EXCEPT !.left = Elapse(restore.left)]
          /\ Elapse(restore.left) \in Remaining
    BY ElapseFacts DEF TypeOK, RestoreRow, Tick
  <1> QED
    BY <1>1, <1>2, <1>3, <1>4 DEF TypeOK, LockRow, RestoreRow, Tick, dataVars

\* The rows, the requests, the runs and the pages keep the types of their columns.
THEOREM TypeCorrect == Spec => []TypeOK
  <1>1. TypeOK /\ [Next]_vars => TypeOK'
    <2> SUFFICES ASSUME TypeOK, [Next]_vars PROVE TypeOK'
      OBVIOUS
    <2>1. ASSUME NEW late \in Ages, AcquireRefused(late) PROVE TypeOK'
      BY <2>1 DEF TypeOK, AcquireRefused, Purged, barrierVars, dataVars
    <2>2. CASE UNCHANGED vars
      BY <2>2 DEF TypeOK, vars, requestVars, barrierVars, dataVars
    <2> QED
      BY <2>1, <2>2, RequestTypeOK, LockTypeOK, DeltaTypeOK, PageTypeOK, TickTypeOK DEF Next
  <1> QED
    BY InitTypeOK, <1>1, PTL DEF Spec

-------------------------------------------------------------------------------
(* Exclusion: FenceInv is inductive when no delta run may use a lock that it *)
(* did not ask for.                                                          *)

\* A barrier that is up is seen by every statement, however late.
LEMMA BarrierSeen ==
    ASSUME TypeOK, NEW late \in Ages, BarrierUp
    PROVE  LockActive(late) \/ RestoreActive(late)
  <1>1. lock.left \in Remaining
    BY DEF TypeOK, LockRow
  <1> QED
    BY <1>1, LiveAges DEF BarrierUp, LockActive, RestoreActive

LEMMA LockSeen ==
    ASSUME TypeOK, NEW late \in Ages, LockActive(0)
    PROVE  LockActive(late)
  BY LiveAges DEF TypeOK, LockRow, LockActive

\* A covered remote call is visible to whoever wants to raise a barrier.
LEMMA RemoteSeen ==
    ASSUME TypeOK, RemoteCovered, NEW late \in Ages, NEW r \in Requests, remote[r] > 0
    PROVE  AdmissionActive(r, late) /\ Live(timeLeft[r], late)
  <1>1. timeLeft[r] \in Int /\ remote[r] \in Int /\ late \in Int /\ late >= 0
    BY DeadlinesInRange, LagFacts DEF TypeOK, Remaining
  <1> QED
    BY <1>1 DEF RemoteCovered, AdmissionActive, Live

LEMMA InitFence == Init => FenceInv
  <1> SUFFICES ASSUME Init PROVE FenceInv
    OBVIOUS
  <1>1. lock.held /\ lock.owner = Null => ~lock.snapshot
    BY DEF Init, NoLock, LegacyLock
  <1>2. lock.delta = Null
    BY DEF Init, NoLock, LegacyLock
  <1>3. restore.phase # "unfinished" /\ current = {} /\ "request" \notin changedBy
    BY DEF Init
  <1>4. \A r \in Requests : remote[r] = 0 /\ handler[r] = "idle" /\ background[r] = 0
    BY DEF Init
  <1>5. \A k \in DeltaRuns : run[k].at = "idle"
    BY DEF Init
  <1> QED
    BY InitTypeOK, <1>1, <1>2, <1>3, <1>4, <1>5
       DEF FenceInv, BarrierExcludesAdmissions, LockExcludesRestore,
           NoRequestWritesBehindBarrier, RemoteCovered, RemoteAwaited,
           AdmittedWhileRunning, SnapshotKeptApart, Running

\* Steps of ordinary requests leave both barrier rows alone, so what is left is
\* who is admitted, what is in flight and who has written.
LEMMA RequestFence ==
    ASSUME FenceInv, NEW r \in Requests, RequestStep(r)
    PROVE  FenceInv'
  <1> USE DEF FenceInv
  <1>1. TypeOK'
    BY RequestTypeOK
  <1>2. lock' = lock /\ restore' = restore /\ run' = run
    BY DEF RequestStep, Acquire, SourceWrite, RemoteCall, RemoteReturns, StartTask,
           SettleTask, FinishHandler, Release, ReleaseGivesUp, CrashRequest, barrierVars
  <1>3. BarrierUp' <=> BarrierUp
    BY <1>2 DEF BarrierUp, LockActive
  <1>4. LockExcludesRestore' /\ SnapshotKeptApart'
    BY <1>2 DEF LockExcludesRestore, SnapshotKeptApart, LockActive
  <1>5. BarrierExcludesAdmissions'
    <2>1. ASSUME NEW late \in Ages, Acquire(r, late) PROVE ~BarrierUp
      BY <2>1, BarrierSeen DEF Acquire
    <2>2. ASSUME NEW late \in Ages, SourceWrite(r, late) PROVE current' = current
      BY <2>2 DEF SourceWrite, requestVars
    <2>3. (\E late \in Ages : Acquire(r, late)) \/ current' \subseteq current
      BY <2>2 DEF RequestStep, RemoteCall, RemoteReturns, StartTask, SettleTask,
                  FinishHandler, Release, ReleaseGivesUp, CrashRequest
    <2> QED
      BY <1>3, <2>1, <2>3 DEF BarrierExcludesAdmissions
  <1>6. NoRequestWritesBehindBarrier'
    <2>1. ASSUME NEW late \in Ages, SourceWrite(r, late) PROVE ~BarrierUp
      BY <2>1, BarrierSeen DEF SourceWrite, TriggerAdmits
    <2>2. (\E late \in Ages : SourceWrite(r, late)) \/ changedBy' = changedBy
      BY DEF RequestStep, Acquire, RemoteCall, RemoteReturns, StartTask, SettleTask,
             FinishHandler, Release, ReleaseGivesUp, CrashRequest, dataVars
    <2> QED
      BY <1>3, <2>1, <2>2 DEF NoRequestWritesBehindBarrier
  <1>7. RemoteCovered'
    <2>1. ASSUME NEW late \in Ages, Acquire(r, late) PROVE RemoteCovered'
      BY <2>1, RemoteSeen DEF Acquire, FreshToken, Purged, RemoteCovered, TypeOK
    <2>2. ASSUME NEW late \in Ages, RemoteCall(r, late) PROVE RemoteCovered'
      <3>1. timeLeft'[r] >= AdmissionTTL - late /\ timeLeft' = [timeLeft EXCEPT ![r] = timeLeft'[r]]
        BY <2>2, LagFacts, DeadlinesInRange DEF RemoteCall, TypeOK, Remaining
      <3>2. remote'[r] = RemoteTime /\ \A q \in Requests \ {r} : remote'[q] = remote[q]
        BY <2>2 DEF RemoteCall, TypeOK
      <3>3. RemoteTime <= timeLeft'[r]
        BY <3>1, LagFacts, DeadlinesInRange, <1>1 DEF TypeOK, Remaining
      <3> QED
        BY <2>2, <3>1, <3>2, <3>3 DEF RemoteCall, AdmissionActive, RemoteCovered, TypeOK
    <2>3. CASE Release(r)
      BY <2>3 DEF Release, RemoteCovered, RemoteAwaited, TypeOK
    <2>4. CASE RemoteReturns(r)
      BY <2>4 DEF RemoteReturns, RemoteCovered, TypeOK
    <2>5. CASE UNCHANGED <<current, timeLeft, remote>>
      BY <2>5 DEF RemoteCovered
    <2> QED
      BY <2>1, <2>2, <2>3, <2>4, <2>5
         DEF RequestStep, SourceWrite, StartTask, SettleTask, FinishHandler,
             ReleaseGivesUp, CrashRequest, requestVars
  <1>8. RemoteAwaited'
    BY LagFacts DEF RequestStep, Acquire, SourceWrite, RemoteCall, RemoteReturns, StartTask,
           SettleTask, FinishHandler, Release, ReleaseGivesUp, CrashRequest, requestVars,
           RemoteAwaited, ReadyToRelease, Running, FreshToken, TypeOK
  <1>9. AdmittedWhileRunning'
    <2>1. ASSUME NEW late \in Ages, Acquire(r, late) PROVE AdmittedWhileRunning'
      <3>1. ASSUME NEW q \in Requests \ {r}, Running(q)', timeLeft'[q] > 0
            PROVE  q \in admitted'
        <4>1. Running(q) /\ timeLeft[q] > 0
          BY <2>1, <3>1 DEF Acquire, Running, TypeOK
        <4>2. Live(timeLeft[q], late)
          BY <4>1, DeadlinesInRange DEF Live, TypeOK, Remaining
        <4> QED
          BY <2>1, <4>1, <4>2 DEF Acquire, Purged, AdmittedWhileRunning
      <3> QED
        BY <2>1, <3>1 DEF Acquire, AdmittedWhileRunning
    <2>2. ASSUME NEW late \in Ages, RemoteCall(r, late) PROVE AdmittedWhileRunning'
      BY <2>2 DEF RemoteCall, AdmittedWhileRunning, Running, AdmissionActive, TypeOK
    <2>3. CASE Release(r)
      BY <2>3 DEF Release, ReadyToRelease, AdmittedWhileRunning, Running, TypeOK
    <2>4. CASE /\ UNCHANGED <<admitted, timeLeft>>
               /\ \A q \in Requests : Running(q)' => Running(q)
      BY <2>4 DEF AdmittedWhileRunning
    <2>5. CASE StartTask(r) \/ SettleTask(r)
      BY <2>4, <2>5 DEF StartTask, SettleTask, Running, TypeOK
    <2>6. CASE FinishHandler(r) \/ ReleaseGivesUp(r) \/ CrashRequest(r) \/ RemoteReturns(r)
      BY <2>4, <2>6
         DEF FinishHandler, ReleaseGivesUp, CrashRequest, RemoteReturns, Running, TypeOK
    <2>7. ASSUME NEW late \in Ages, SourceWrite(r, late) PROVE AdmittedWhileRunning'
      BY <2>4, <2>7 DEF SourceWrite, Running, requestVars
    <2> QED
      BY <2>1, <2>2, <2>3, <2>5, <2>6, <2>7 DEF RequestStep
  <1> QED
    BY <1>1, <1>4, <1>5, <1>6, <1>7, <1>8, <1>9

LEMMA RefusedFence ==
    ASSUME FenceInv, NEW late \in Ages, AcquireRefused(late)
    PROVE  FenceInv'
  <1> USE DEF FenceInv, AcquireRefused, barrierVars, dataVars
  <1>1. TypeOK'
    BY DEF TypeOK, Purged
  <1>2. RemoteCovered'
    BY RemoteSeen DEF RemoteCovered, Purged, TypeOK
  <1>3. AdmittedWhileRunning'
    <2>1. ASSUME NEW q \in Requests, timeLeft[q] > 0 PROVE Live(timeLeft[q], late)
      BY <2>1, DeadlinesInRange DEF Live, TypeOK, Remaining
    <2> QED
      BY <2>1 DEF AdmittedWhileRunning, Running, Purged
  <1> QED
    BY <1>1, <1>2, <1>3
       DEF BarrierExcludesAdmissions, LockExcludesRestore, NoRequestWritesBehindBarrier,
           RemoteAwaited, ReadyToRelease, SnapshotKeptApart, BarrierUp, LockActive

\* A lock is claimed while nothing is in flight, no admission is live and no
\* restore is unfinished; the epoch rotates with it.
LEMMA ClaimFence ==
    ASSUME FenceInv, NEW o \in Owners, NEW snapshot \in BOOLEAN, NEW late \in Ages,
           FreshOwner(o), restore.phase # "unfinished", NoAdmissionActive(late),
           ClaimLock(o, snapshot, late), TypeOK'
    PROVE  FenceInv'
  <1> USE DEF FenceInv, ClaimLock, RotateEpoch
  <1>1. /\ lock'.held /\ lock'.owner = o /\ lock'.delta = Null
        /\ restore' = restore /\ run' = run /\ remote' = remote
        /\ current' = {} /\ changedBy' = {}
    BY DEF NoLock
  <1>2. \A r \in Requests : ~(remote[r] > 0)
    BY RemoteSeen DEF NoAdmissionActive
  <1>3. RemoteCovered'
    BY <1>1, <1>2 DEF RemoteCovered
  <1>4. SnapshotKeptApart'
    BY <1>1, NameAssumption DEF SnapshotKeptApart, FreshOwner
  <1>5. RemoteAwaited' /\ AdmittedWhileRunning'
    BY DEF RemoteAwaited, ReadyToRelease, AdmittedWhileRunning, Running
  <1> QED
    BY <1>1, <1>3, <1>4, <1>5
       DEF BarrierExcludesAdmissions, LockExcludesRestore, NoRequestWritesBehindBarrier

LEMMA LockFence ==
    ASSUME FenceInv, NEW o \in Owners, LockStep(o)
    PROVE  FenceInv'
  <1> USE DEF FenceInv
  <1>1. TypeOK'
    BY LockTypeOK
  <1>2. ASSUME NEW snapshot \in BOOLEAN, NEW late \in Ages, SetLock(o, snapshot, late)
        PROVE  FenceInv'
    BY <1>1, <1>2, ClaimFence DEF SetLock, RestoreActive
  <1>3. ASSUME NEW late \in Ages, RecoverLegacyLock(o, late) PROVE FenceInv'
    <2>1. LockActive(0)
      BY <1>3 DEF RecoverLegacyLock, SnapshotKeptApart, LockActive
    <2>2. restore.phase # "unfinished"
      BY <2>1 DEF LockExcludesRestore
    <2>3. ClaimLock(o, FALSE, late) /\ FreshOwner(o) /\ NoAdmissionActive(late)
      BY <1>3 DEF RecoverLegacyLock
    <2> QED
      BY <1>1, <2>2, <2>3, ClaimFence
  <1>4. ASSUME NEW force \in BOOLEAN, NEW late \in Ages, ClearLock(o, force, late)
        PROVE  FenceInv'
    <2>1. /\ lock' = NoLock /\ ~lock'.held /\ lock'.delta = Null
          /\ UNCHANGED <<requestVars, run, restore, dataVars>>
      BY <1>4 DEF ClearLock, NoLock
    <2>2. ~LockActive(0)' /\ (BarrierUp' => BarrierUp)
      BY <2>1 DEF LockActive, BarrierUp
    <2>3. SnapshotKeptApart'
      BY <2>1 DEF SnapshotKeptApart
    <2> QED
      BY <1>1, <2>1, <2>2, <2>3
         DEF requestVars, dataVars, BarrierExcludesAdmissions, LockExcludesRestore,
             NoRequestWritesBehindBarrier, RemoteCovered, RemoteAwaited, ReadyToRelease,
             AdmittedWhileRunning, Running
  <1> QED
    BY <1>2, <1>3, <1>4 DEF LockStep

\* A delta run changes the lease of a cutover lock, never whether a lock counts.
LEMMA DeltaKeepsLock ==
    ASSUME FenceInv, NEW k \in DeltaRuns, DeltaStep(k), ~AdoptsAnyLock
    PROVE  /\ lock'.held = lock.held /\ lock'.owner = lock.owner
           /\ lock'.snapshot = lock.snapshot
           /\ lock' = lock \/ ~lock.snapshot
           /\ SnapshotKeptApart'
  <1> USE DEF FenceInv, TypeOK
  <1>1. k # Null
    BY NameAssumption
  <1>2. \A q \in DeltaRuns \ {k} : run'[q] = run[q]
    BY DEF DeltaStep, ReadLockForDelta, AcquireDelta, AcquireDeltaRefused, RenewDelta,
           MarkComplete, StopDelta, ReleaseDelta, CrashDelta
  <1>3. ASSUME NEW late \in Ages, ReadLockForDelta(k, late)
        PROVE  /\ lock' = lock /\ run'[k].at = "read" /\ run'[k].owner = lock.owner
               /\ ~lock.snapshot
    BY <1>3 DEF ReadLockForDelta
  <1>4. ASSUME NEW late \in Ages, AcquireDelta(k, late)
        PROVE  /\ lock'.held = lock.held /\ lock'.owner = lock.owner
               /\ lock'.snapshot = lock.snapshot /\ ~lock.snapshot /\ lock.held
               /\ run'[k].at = "leased"
    BY <1>4 DEF AcquireDelta, SnapshotKeptApart, LockRow, DeltaRun
  <1>5. ASSUME NEW late \in Ages, RenewDelta(k, late) \/ MarkComplete(k, late)
        PROVE  /\ lock'.held = lock.held /\ lock'.owner = lock.owner
               /\ lock'.snapshot = lock.snapshot /\ ~lock.snapshot /\ lock.held
               /\ run'[k].at # "read"
    BY <1>1, <1>5 DEF RenewDelta, MarkComplete, HoldsDelta, SnapshotKeptApart, LockRow, DeltaRun
  <1>6. CASE ReleaseDelta(k) /\ HoldsDelta(k)
    <2>1. /\ lock'.held = lock.held /\ lock'.owner = lock.owner
          /\ lock'.snapshot = lock.snapshot /\ ~lock.snapshot /\ lock.held
          /\ run'[k].at # "read"
      BY <1>1, <1>6 DEF ReleaseDelta, HoldsDelta, SnapshotKeptApart, LockRow, DeltaRun
    <2> QED
      BY <1>2, <2>1 DEF SnapshotKeptApart
  <1>7. CASE \/ AcquireDeltaRefused(k) \/ StopDelta(k) \/ CrashDelta(k)
             \/ ReleaseDelta(k) /\ ~HoldsDelta(k)
    <2>1. lock' = lock /\ run'[k].at # "read"
      BY <1>7 DEF AcquireDeltaRefused, StopDelta, CrashDelta, ReleaseDelta, DeltaRun
    <2> QED
      BY <1>2, <2>1 DEF SnapshotKeptApart
  <1>8. ASSUME NEW late \in Ages, ReadLockForDelta(k, late) PROVE SnapshotKeptApart'
    BY <1>2, <1>3, <1>8 DEF SnapshotKeptApart
  <1>9. ASSUME NEW late \in Ages,
               AcquireDelta(k, late) \/ RenewDelta(k, late) \/ MarkComplete(k, late)
        PROVE  SnapshotKeptApart'
    BY <1>2, <1>4, <1>5, <1>9 DEF SnapshotKeptApart
  <1> QED
    BY <1>3, <1>4, <1>5, <1>6, <1>7, <1>8, <1>9 DEF DeltaStep

LEMMA DeltaFence ==
    ASSUME FenceInv, NEW k \in DeltaRuns, DeltaStep(k), ~AdoptsAnyLock
    PROVE  FenceInv'
  <1> USE DEF FenceInv
  <1>1. TypeOK'
    BY DeltaTypeOK
  <1>2. UNCHANGED <<requestVars, restore, page, dataVars>>
    BY DEF DeltaStep, ReadLockForDelta, AcquireDelta, AcquireDeltaRefused, RenewDelta,
           MarkComplete, StopDelta, ReleaseDelta, CrashDelta
  <1>3. (LockActive(0)' <=> LockActive(0)) /\ SnapshotKeptApart'
    BY DeltaKeepsLock DEF LockActive
  <1> QED
    BY <1>1, <1>2, <1>3
       DEF requestVars, dataVars, BarrierUp, BarrierExcludesAdmissions, LockExcludesRestore,
           NoRequestWritesBehindBarrier, RemoteCovered, RemoteAwaited, ReadyToRelease,
           AdmittedWhileRunning, Running

\* A page raises a barrier as a lock does, and otherwise keeps or lowers it.
LEMMA PageFence ==
    ASSUME FenceInv, NEW p \in Pages, PageStep(p)
    PROVE  FenceInv'
  <1> USE DEF FenceInv
  <1>1. TypeOK'
    BY PageTypeOK
  <1>2. UNCHANGED <<lock, run, remote, timeLeft, handler, background, admitted>>
    BY DEF PageStep, CheckPage, ClaimRestore, ResumeRestore, RenewRestore, ImportRows,
           CommitPage, FailPage, ReleaseRestore, CrashPage, requestVars, RotateEpoch
  <1>3. SnapshotKeptApart' /\ RemoteAwaited' /\ AdmittedWhileRunning'
    BY <1>2 DEF SnapshotKeptApart, RemoteAwaited, ReadyToRelease, AdmittedWhileRunning, Running
  <1>4. LockActive(0)' <=> LockActive(0)
    BY <1>2 DEF LockActive
  <1>5. ASSUME NEW late \in Ages, NEW d1late \in Ages,
               ClaimRestore(p, late, d1late) \/ ResumeRestore(p, late, d1late)
        PROVE  FenceInv'
    <2>1. NoAdmissionActive(late) /\ ~LockActive(0) /\ current' = {}
      BY <1>5, LockSeen DEF ClaimRestore, ResumeRestore, RotateEpoch
    <2>2. RemoteCovered'
      BY <1>2, <2>1, RemoteSeen DEF RemoteCovered, NoAdmissionActive
    <2>3. changedBy' = {} \/ (changedBy' = changedBy /\ restore'.phase = restore.phase)
      BY <1>5 DEF ClaimRestore, ResumeRestore, dataVars, TypeOK, RestoreRow
    <2> QED
      BY <1>1, <1>3, <1>4, <2>1, <2>2, <2>3
         DEF BarrierUp, BarrierExcludesAdmissions, LockExcludesRestore,
             NoRequestWritesBehindBarrier
  <1>6. CASE /\ current' = current
             /\ changedBy' \in {changedBy, changedBy \cup {"restore"}}
             /\ restore'.phase = "unfinished" => restore.phase = "unfinished"
    <2>1. BarrierUp' => BarrierUp
      BY <1>4, <1>6 DEF BarrierUp
    <2> QED
      BY <1>1, <1>2, <1>3, <1>4, <1>6, <2>1
         DEF BarrierExcludesAdmissions, LockExcludesRestore, NoRequestWritesBehindBarrier,
             RemoteCovered
  <1>7. CASE \/ \E plan \in {"fresh", "resume"} : CheckPage(p, plan)
             \/ FailPage(p) \/ CrashPage(p)
    BY <1>6, <1>7 DEF CheckPage, FailPage, CrashPage, requestVars, dataVars
  <1>8. CASE \E late \in Ages : RenewRestore(p, late) \/ ImportRows(p, late)
    BY <1>6, <1>8 DEF RenewRestore, ImportRows, requestVars, dataVars, TypeOK, RestoreRow
  <1>9. ASSUME NEW done \in BOOLEAN, NEW late \in Ages, CommitPage(p, done, late)
        PROVE  FenceInv'
    <2>1. restore'.phase \in {restore.phase, "completed"}
      BY <1>9 DEF CommitPage
    <2> QED
      BY <1>6, <1>9, <2>1 DEF CommitPage, requestVars, dataVars
  <1>10. CASE ReleaseRestore(p)
    <2>1. restore'.phase = restore.phase
      BY <1>10 DEF ReleaseRestore, TypeOK, RestoreRow
    <2> QED
      BY <1>6, <1>10, <2>1 DEF ReleaseRestore, requestVars, dataVars
  <1> QED
    BY <1>5, <1>7, <1>8, <1>9, <1>10 DEF PageStep

\* Time lowers a barrier and never raises one; a call and its cover age together.
LEMMA TickFence ==
    ASSUME FenceInv, Tick
    PROVE  FenceInv'
  <1> USE DEF FenceInv, Tick
  <1>1. TypeOK'
    BY TickTypeOK
  <1>2. /\ lock'.held = lock.held /\ lock'.owner = lock.owner /\ lock'.delta = lock.delta
        /\ lock'.snapshot = lock.snapshot /\ lock'.timed = lock.timed
        /\ lock'.left = Elapse(lock.left) /\ restore'.phase = restore.phase
    BY DEF TypeOK, LockRow, RestoreRow
  <1>3. BarrierUp' => BarrierUp
    <2>1. lock.left \in Int /\ Elapse(lock.left) \in Int /\ Elapse(lock.left) <= lock.left
      BY ElapseFacts DEF TypeOK, LockRow, Remaining
    <2> QED
      BY <1>2, <2>1 DEF BarrierUp, LockActive, Live
  <1>4. LockActive(0)' => LockActive(0)
    <2>1. lock.left \in Int /\ Elapse(lock.left) \in Int /\ Elapse(lock.left) <= lock.left
      BY ElapseFacts DEF TypeOK, LockRow, Remaining
    <2> QED
      BY <1>2, <2>1 DEF LockActive, Live
  <1>5. RemoteCovered'
    <2> SUFFICES ASSUME NEW r \in Requests, remote'[r] > 0
                 PROVE  r \in current /\ remote'[r] <= timeLeft'[r]
      BY DEF RemoteCovered
    <2>1. remote[r] \in Nat /\ timeLeft[r] \in Remaining /\ timeLeft[r] \in Int
      BY LagFacts DEF TypeOK, Remaining
    <2>2. remote[r] > 0 /\ remote'[r] = remote[r] - 1
      BY <2>1
    <2>3. r \in current /\ remote[r] <= timeLeft[r]
      BY <2>2 DEF RemoteCovered
    <2>4. timeLeft'[r] = timeLeft[r] - 1
      BY <2>1, <2>2, <2>3, ElapseFacts
    <2> QED
      BY <2>1, <2>2, <2>3, <2>4
  <1>6. RemoteAwaited'
    BY DEF RemoteAwaited, ReadyToRelease
  <1>7. AdmittedWhileRunning'
    <2>1. ASSUME NEW r \in Requests, timeLeft'[r] > 0 PROVE timeLeft[r] > 0
      BY <2>1, ElapseFacts DEF TypeOK, Remaining
    <2> QED
      BY <2>1 DEF AdmittedWhileRunning, Running
  <1>8. SnapshotKeptApart'
    BY <1>2 DEF SnapshotKeptApart
  <1> QED
    BY <1>1, <1>3, <1>4, <1>5, <1>6, <1>7, <1>8, <1>2
       DEF BarrierExcludesAdmissions, LockExcludesRestore, NoRequestWritesBehindBarrier,
           dataVars

LEMMA StepFence ==
    ASSUME FenceInv, [Next]_vars, ~AdoptsAnyLock
    PROVE  FenceInv'
  <1>1. CASE UNCHANGED vars
    BY <1>1 DEF vars, requestVars, barrierVars, dataVars, FenceInv, TypeOK, BarrierUp,
                LockActive, BarrierExcludesAdmissions, LockExcludesRestore,
                NoRequestWritesBehindBarrier, RemoteCovered, RemoteAwaited,
                ReadyToRelease, AdmittedWhileRunning, Running, SnapshotKeptApart
  <1> QED
    BY <1>1, RequestFence, RefusedFence, LockFence, DeltaFence, PageFence, TickFence DEF Next

-------------------------------------------------------------------------------
(* What the fence guarantees, for every value of the constants.            *)

\* The invariant holds in every reachable state of a deployment whose delta runs
\* use the lock they were given.
THEOREM FenceHolds ==
    ASSUME ~AdoptsAnyLock
    PROVE  Spec => []FenceInv
  <1>1. FenceInv /\ [Next]_vars => FenceInv'
    BY StepFence
  <1> QED
    BY InitFence, <1>1, PTL DEF Spec

\* No admission of the current epoch outlives the raising of a barrier.
THEOREM NoAdmissionBehindBarrier ==
    ASSUME ~AdoptsAnyLock
    PROVE  Spec => []BarrierExcludesAdmissions
  <1>1. FenceInv => BarrierExcludesAdmissions
    BY DEF FenceInv
  <1> QED
    BY FenceHolds, <1>1, PTL

\* A snapshot or cutover lock and an unfinished restore are never there together.
THEOREM LockAndRestoreApart ==
    ASSUME ~AdoptsAnyLock
    PROVE  Spec => []LockExcludesRestore
  <1>1. FenceInv => LockExcludesRestore
    BY DEF FenceInv
  <1> QED
    BY FenceHolds, <1>1, PTL

\* A Vectorize call that was renewed for lands before any barrier goes up.
THEOREM RemoteCallsLandFirst ==
    ASSUME ~AdoptsAnyLock
    PROVE  Spec => []RemoteOutsideBarrier
  <1>1. FenceInv => RemoteOutsideBarrier
    BY DEF FenceInv, RemoteOutsideBarrier, RemoteCovered, BarrierExcludesAdmissions
  <1> QED
    BY FenceHolds, <1>1, PTL

\* From the raising of a barrier on, no request statement changes a source row.
THEOREM SourceFencedFromRequests ==
    ASSUME ~AdoptsAnyLock
    PROVE  Spec => []NoRequestWritesBehindBarrier
  <1>1. FenceInv => NoRequestWritesBehindBarrier
    BY DEF FenceInv
  <1> QED
    BY FenceHolds, <1>1, PTL

\* Until its deadline nobody removes the admission of a request that still runs.
THEOREM AdmissionOutlivesTasks ==
    ASSUME ~AdoptsAnyLock
    PROVE  Spec => []AdmittedWhileRunning
  <1>1. FenceInv => AdmittedWhileRunning
    BY DEF FenceInv
  <1> QED
    BY FenceHolds, <1>1, PTL

-------------------------------------------------------------------------------
(* Every step of the fence is a step of MaintenanceBarrier or none.        *)

\* A step that keeps both barrier rows' meaning and who has written can only
\* let permissions lapse.
LEMMA LeaveOrStutter ==
    ASSUME Mode' = Mode, current' \subseteq current,
           ("request" \in changedBy)' <=> ("request" \in changedBy)
    PROVE  [Barrier!Next]_Barrier!vars
  BY DEF Barrier!Next, Barrier!Leave, Barrier!vars

\* A step that takes a barrier down grants nothing by itself.
LEMMA LowerOrStutter ==
    ASSUME LockExcludesRestore, current' = current, changedBy' = changedBy,
           BarrierUp' => Mode' = Mode
    PROVE  [Barrier!Next]_Barrier!vars
  BY DEF Barrier!Next, Barrier!Lower, Barrier!vars, Mode, BarrierUp

LEMMA RequestImplements ==
    ASSUME FenceInv, NEW r \in Requests, RequestStep(r)
    PROVE  [Barrier!Next]_Barrier!vars
  <1>1. lock' = lock /\ restore' = restore
    BY DEF RequestStep, Acquire, SourceWrite, RemoteCall, RemoteReturns, StartTask,
           SettleTask, FinishHandler, Release, ReleaseGivesUp, CrashRequest, barrierVars
  <1>2. Mode' = Mode
    BY <1>1 DEF Mode, LockActive
  <1>3. ASSUME NEW late \in Ages, Acquire(r, late) PROVE Barrier!Admit(r)
    <2>1. Mode = "shared"
      BY <1>3, BarrierSeen DEF Acquire, FenceInv, BarrierUp, Mode
    <2> QED
      BY <1>2, <1>3, <2>1 DEF Acquire, dataVars, Barrier!Admit
  <1>4. ASSUME NEW late \in Ages, SourceWrite(r, late) PROVE Barrier!Change
    <2>1. Mode = "shared"
      BY <1>4, BarrierSeen DEF SourceWrite, TriggerAdmits, FenceInv, BarrierUp, Mode
    <2> QED
      BY <1>2, <1>4, <2>1
         DEF SourceWrite, TriggerAdmits, AdmissionActive, requestVars, Barrier!Change
  <1>5. \/ \E late \in Ages : Acquire(r, late) \/ SourceWrite(r, late)
        \/ current' \subseteq current /\ changedBy' = changedBy
    BY DEF RequestStep, RemoteCall, RemoteReturns, StartTask, SettleTask,
           FinishHandler, Release, ReleaseGivesUp, CrashRequest, dataVars
  <1> QED
    BY <1>2, <1>3, <1>4, <1>5, LeaveOrStutter DEF Barrier!Next

\* Raising: from "shared", or again over a barrier that is already up.
LEMMA RaiseOrStutter ==
    ASSUME FenceInv, current' = {}, "request" \notin changedBy', BarrierUp',
           Mode = "shared" \/ Mode' = Mode
    PROVE  [Barrier!Next]_Barrier!vars
  <1>1. CASE Mode = "shared"
    BY <1>1 DEF Mode, BarrierUp, Barrier!Next, Barrier!Raise
  <1>2. CASE Mode' = Mode /\ Mode # "shared"
    <2>1. BarrierUp
      BY <1>2 DEF Mode, BarrierUp
    <2> QED
      BY <1>2, <2>1 DEF FenceInv, BarrierExcludesAdmissions, NoRequestWritesBehindBarrier,
                       Barrier!vars
  <1> QED
    BY <1>1, <1>2

\* A lock that was just claimed counts: its deadline is further off than any lag.
LEMMA ClaimRaises ==
    ASSUME NEW o \in Owners, NEW snapshot \in BOOLEAN, NEW late \in Ages,
           ClaimLock(o, snapshot, late)
    PROVE  LockActive(0)' /\ current' = {} /\ changedBy' = {}
  BY LagFacts, DeadlinesInRange DEF ClaimLock, RotateEpoch, LockActive, NoLock, Live

LEMMA LockImplements ==
    ASSUME FenceInv, NEW o \in Owners, LockStep(o)
    PROVE  [Barrier!Next]_Barrier!vars
  <1> USE DEF FenceInv
  <1>1. ASSUME NEW snapshot \in BOOLEAN, NEW late \in Ages, SetLock(o, snapshot, late)
        PROVE  [Barrier!Next]_Barrier!vars
    <2>1. ~LockActive(0)
      BY <1>1, LiveAges DEF SetLock, LockActive, TypeOK, LockRow
    <2>2. Mode = "shared"
      BY <1>1, <2>1 DEF SetLock, RestoreActive, Mode
    <2> QED
      BY <1>1, <2>2, ClaimRaises, RaiseOrStutter DEF SetLock, BarrierUp
  <1>2. ASSUME NEW late \in Ages, RecoverLegacyLock(o, late)
        PROVE  [Barrier!Next]_Barrier!vars
    <2>1. ClaimLock(o, FALSE, late) /\ LockActive(0)
      BY <1>2 DEF RecoverLegacyLock, SnapshotKeptApart, LockActive
    <2>2. LockActive(0)' /\ current' = {} /\ changedBy' = {}
      BY <2>1, ClaimRaises
    <2> QED
      BY <2>1, <2>2, RaiseOrStutter DEF Mode, BarrierUp
  <1>3. ASSUME NEW force \in BOOLEAN, NEW late \in Ages, ClearLock(o, force, late)
        PROVE  [Barrier!Next]_Barrier!vars
    <2>1. ~LockActive(0)' /\ restore' = restore /\ current' = current /\ changedBy' = changedBy
      BY <1>3 DEF ClearLock, NoLock, LockActive, requestVars, dataVars
    <2>2. BarrierUp' => Mode' = Mode
      BY <2>1 DEF BarrierUp, Mode, LockExcludesRestore
    <2> QED
      BY <2>1, <2>2, LowerOrStutter
  <1> QED
    BY <1>1, <1>2, <1>3 DEF LockStep

LEMMA PageImplements ==
    ASSUME FenceInv, NEW p \in Pages, PageStep(p)
    PROVE  [Barrier!Next]_Barrier!vars
  <1> USE DEF FenceInv
  <1>1. LockActive(0)' <=> LockActive(0)
    BY DEF PageStep, CheckPage, ClaimRestore, ResumeRestore, RenewRestore, ImportRows,
           CommitPage, FailPage, ReleaseRestore, CrashPage, LockActive
  <1>2. ASSUME NEW late \in Ages, NEW d1late \in Ages, ClaimRestore(p, late, d1late)
        PROVE  [Barrier!Next]_Barrier!vars
    <2>1. ~LockActive(0) /\ restore'.phase = "unfinished" /\ current' = {} /\ changedBy' = {}
      BY <1>2, LockSeen DEF ClaimRestore, RotateEpoch
    <2> QED
      BY <1>1, <2>1, RaiseOrStutter DEF BarrierUp, Mode
  <1>3. CASE /\ current' \subseteq current /\ restore'.phase = restore.phase
             /\ changedBy' \in {changedBy, changedBy \cup {"restore"}}
    BY <1>1, <1>3, LeaveOrStutter DEF Mode
  <1>4. ASSUME NEW late \in Ages, NEW d1late \in Ages, ResumeRestore(p, late, d1late)
        PROVE  [Barrier!Next]_Barrier!vars
    <2>1. restore'.phase = restore.phase /\ current' = {} /\ changedBy' = changedBy
      BY <1>4 DEF ResumeRestore, RotateEpoch, dataVars, TypeOK, RestoreRow
    <2> QED
      BY <1>3, <2>1
  <1>5. ASSUME NEW done \in BOOLEAN, NEW late \in Ages, CommitPage(p, done, late)
        PROVE  [Barrier!Next]_Barrier!vars
    <2>1. /\ restore'.phase \in {restore.phase, "completed"}
          /\ current' = current /\ changedBy' = changedBy
      BY <1>5 DEF CommitPage, requestVars, dataVars
    <2>2. BarrierUp' => Mode' = Mode
      BY <1>1, <2>1 DEF BarrierUp, Mode
    <2> QED
      BY <2>1, <2>2, LowerOrStutter
  <1>6. CASE \/ \E plan \in {"fresh", "resume"} : CheckPage(p, plan)
             \/ FailPage(p) \/ CrashPage(p)
    BY <1>3, <1>6 DEF CheckPage, FailPage, CrashPage, requestVars, dataVars
  <1>7. CASE \E late \in Ages : RenewRestore(p, late) \/ ImportRows(p, late)
    BY <1>3, <1>7 DEF RenewRestore, ImportRows, requestVars, dataVars, TypeOK, RestoreRow
  <1>8. CASE ReleaseRestore(p)
    <2>1. restore'.phase = restore.phase
      BY <1>8 DEF ReleaseRestore, TypeOK, RestoreRow
    <2> QED
      BY <1>3, <1>8, <2>1 DEF ReleaseRestore, requestVars, dataVars
  <1> QED
    BY <1>2, <1>4, <1>5, <1>6, <1>7, <1>8 DEF PageStep

LEMMA DeltaImplements ==
    ASSUME FenceInv, NEW k \in DeltaRuns, DeltaStep(k), ~AdoptsAnyLock
    PROVE  [Barrier!Next]_Barrier!vars
  <1>1. UNCHANGED <<requestVars, restore, dataVars>>
    BY DEF DeltaStep, ReadLockForDelta, AcquireDelta, AcquireDeltaRefused, RenewDelta,
           MarkComplete, StopDelta, ReleaseDelta, CrashDelta
  <1>2. LockActive(0)' <=> LockActive(0)
    BY DeltaKeepsLock DEF LockActive
  <1> QED
    BY <1>1, <1>2, LeaveOrStutter DEF Mode, requestVars, dataVars

LEMMA TickImplements ==
    ASSUME FenceInv, Tick
    PROVE  [Barrier!Next]_Barrier!vars
  <1> USE DEF FenceInv
  <1>1. restore'.phase = restore.phase /\ current' = current /\ changedBy' = changedBy
    BY DEF Tick, dataVars, TypeOK, RestoreRow
  <1>2. LockActive(0)' => LockActive(0)
    <2>1. lock.left \in Int /\ Elapse(lock.left) \in Int /\ Elapse(lock.left) <= lock.left
      BY ElapseFacts DEF TypeOK, LockRow, Remaining
    <2>2. /\ lock'.held = lock.held /\ lock'.snapshot = lock.snapshot
          /\ lock'.timed = lock.timed /\ lock'.left = Elapse(lock.left)
      BY DEF Tick, TypeOK, LockRow
    <2> QED
      BY <2>1, <2>2 DEF LockActive, Live
  <1>3. BarrierUp' => Mode' = Mode
    BY <1>1, <1>2 DEF BarrierUp, Mode, LockExcludesRestore
  <1> QED
    BY <1>1, <1>3, LowerOrStutter

\* The detailed fence implements the abstract barrier: permissions are granted in
\* shared mode only, raising takes them all back, lowering gives none.
THEOREM FenceImplementsBarrier ==
    ASSUME ~AdoptsAnyLock
    PROVE  Spec => ImplementsBarrier
  <1>1. Init => Barrier!Init
    BY DEF Init, Barrier!Init, Mode, LockActive, NoLock, LegacyLock
  <1>2. FenceInv /\ [Next]_vars => [Barrier!Next]_Barrier!vars
    <2> SUFFICES ASSUME FenceInv, [Next]_vars PROVE [Barrier!Next]_Barrier!vars
      OBVIOUS
    <2>1. ASSUME NEW late \in Ages, AcquireRefused(late)
          PROVE  [Barrier!Next]_Barrier!vars
      BY <2>1, LeaveOrStutter DEF AcquireRefused, barrierVars, dataVars, Mode, LockActive
    <2>2. CASE UNCHANGED vars
      BY <2>2, LeaveOrStutter DEF vars, requestVars, barrierVars, dataVars, Mode, LockActive
    <2> QED
      BY <2>1, <2>2, RequestImplements, LockImplements, DeltaImplements, PageImplements,
         TickImplements DEF Next
  <1> QED
    BY FenceHolds, <1>1, <1>2, PTL DEF Spec, ImplementsBarrier, Barrier!Spec
===============================================================================
