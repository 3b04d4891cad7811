---------------------------- MODULE WriteAdmission ----------------------------
(***************************************************************************)
(* The write fence of the memory database: src/migration/write-lock.ts,    *)
(* the lease half of src/backup/r2.ts and the triggers of                  *)
(* src/db/write-protection-schema.ts, which meet in four D1 tables.        *)
(*                                                                         *)
(*   memory_write_admissions  -> admitted, current, timeLeft               *)
(*   memory_write_epoch       -> membership of current (rotation = empty)  *)
(*   migration_control        -> lock                                      *)
(*   restore_state            -> restore (its lease; cursors: R2Restore)   *)
(*                                                                         *)
(* One D1 statement or batch is one action.  Deadlines are kept as the     *)
(* time that is left, so the state space is finite without a clock bound.  *)
(* A statement carries the caller's Date.now(), read before the statement  *)
(* travels, and a trigger reads strftime('%s'), which drops the fraction:  *)
(* both may be up to Lag ticks old, so every test of a deadline takes the  *)
(* age "late" of the timestamp it uses.                                    *)
(***************************************************************************)
EXTENDS Integers, FiniteSets

CONSTANTS
    Requests,       \* slots of write requests; a slot is its admission token
    Owners,         \* owner_id values of migration_control
    DeltaRuns,      \* slots of final-delta requests; a slot is its token
    Pages,          \* slots of restore-page requests; a slot is its lease_owner
    Null,           \* SQL NULL
    AdmissionTTL,   \* WRITE_ADMISSION_MS
    BarrierTTL,     \* RESTORE_LEASE_MS: snapshot lock and restore lease
    DeltaTTL,       \* FINAL_DELTA_LEASE_MS
    Lag,            \* greatest age of a timestamp when D1 evaluates it
    RemoteTime,     \* longest time from a renewal until its remote call landed
    MaxBackground,  \* bound on the waitUntil tasks of one request
    AdoptsAnyLock   \* a delta run may use a lock that it did not ask for

ASSUME TimingAssumption ==
    /\ Lag \in Nat
    /\ {AdmissionTTL, BarrierTTL, DeltaTTL} \subseteq Nat
    /\ RemoteTime \in Nat \ {0}
    /\ RemoteTime + Lag <= AdmissionTTL
    /\ Lag < BarrierTTL

ASSUME NameAssumption ==
    /\ Null \notin Owners \cup DeltaRuns \cup Pages
    /\ MaxBackground \in Nat
    /\ AdoptsAnyLock \in BOOLEAN

VARIABLES
    admitted,       \* tokens that have a row in memory_write_admissions
    current,        \* those whose generation is the one in memory_write_epoch
    timeLeft,       \* expires_at of each row, as time left
    handler,        \* the request: idle, open, or closing (handlerDone)
    background,     \* its unsettled waitUntil promises (pending)
    remote,         \* time within which its remote call will have landed, 0: none
    lock,           \* the migration_control row
    run,            \* the final-delta requests
    restore,        \* the restore_state row
    page,           \* the restore-page requests
    targetEmpty,    \* every corpus table is empty
    changedBy       \* history: who changed source rows since a barrier was raised

requestVars == <<admitted, current, timeLeft, handler, background, remote>>
barrierVars == <<lock, run, restore, page>>
dataVars    == <<targetEmpty, changedBy>>
vars        == <<requestVars, barrierVars, dataVars>>

-------------------------------------------------------------------------------
(* Deadlines.                                                              *)

Ages == 0..Lag

Remaining == (0 - Lag) .. (AdmissionTTL + BarrierTTL + DeltaTTL)

\* expires_at > now, for a now that is late ticks old
Live(left, late) == left + late > 0

Elapse(left) == IF left > 0 - Lag THEN left - 1 ELSE left

-------------------------------------------------------------------------------
(* The three conditions every statement of the fence is built from.        *)

NoLock == [held |-> FALSE, owner |-> Null, snapshot |-> FALSE, timed |-> FALSE,
           left |-> 0 - Lag, delta |-> Null, complete |-> FALSE]

\* A lock row that an older deployment wrote, before owner_id existed.
LegacyLock == [NoLock EXCEPT !.held = TRUE]

\* Mutant of LockActive: an expired snapshot lock still counts.
MutLockActive(late) == lock.held

\* An expired snapshot lock does not count; a row without expiry never expires.
LockActive(late) ==
    /\ lock.held
    /\ ~(lock.snapshot /\ lock.timed /\ ~Live(lock.left, late))

\* An unfinished restore, or a lease that still runs on a completed one.
RestoreActive(late) ==
    \/ restore.phase = "unfinished"
    \/ restore.lease # Null /\ Live(restore.left, late)

\* Mutant of AdmissionActive: expires_at is not looked at.
MutAdmissionActive(r, late) == r \in current

AdmissionActive(r, late) == r \in current /\ Live(timeLeft[r], late)

NoAdmissionActive(late) == \A r \in Requests : ~AdmissionActive(r, late)

\* Mutant of TriggerAdmits: any row that has not expired will do.
MutTriggerAdmits(r, late) == r \in admitted /\ Live(timeLeft[r], late)

\* The condition of the BEFORE INSERT/UPDATE/DELETE triggers for the marker of r.
TriggerAdmits(r, late) ==
    ~LockActive(late) /\ ~RestoreActive(late) /\ AdmissionActive(r, late)

-------------------------------------------------------------------------------
LockRow == [held : BOOLEAN, owner : Owners \cup {Null}, snapshot : BOOLEAN,
            timed : BOOLEAN, left : Remaining, delta : DeltaRuns \cup {Null},
            complete : BOOLEAN]

RestoreRow == [phase : {"none", "unfinished", "completed"},
               lease : Pages \cup {Null}, left : Remaining]

DeltaRun == [at : {"idle", "read", "leased", "closing"}, owner : Owners \cup {Null}]

\* The columns of the four tables and the progress of every client.
TypeOK ==
    /\ admitted \subseteq Requests
    /\ current \subseteq admitted
    /\ timeLeft \in [Requests -> Remaining]
    /\ handler \in [Requests -> {"idle", "open", "closing"}]
    /\ background \in [Requests -> 0..MaxBackground]
    /\ remote \in [Requests -> 0..RemoteTime]
    /\ lock \in LockRow
    /\ run \in [DeltaRuns -> DeltaRun]
    /\ restore \in RestoreRow
    /\ page \in [Pages -> {"idle", "fresh", "resume", "importing", "renewed", "closing"}]
    /\ targetEmpty \in BOOLEAN
    /\ changedBy \subseteq {"request", "restore"}

Init ==
    /\ admitted = {}
    /\ current = {}
    /\ timeLeft = [r \in Requests |-> 0 - Lag]
    /\ handler = [r \in Requests |-> "idle"]
    /\ background = [r \in Requests |-> 0]
    /\ remote = [r \in Requests |-> 0]
    /\ lock \in {NoLock, LegacyLock}
    /\ run = [k \in DeltaRuns |-> [at |-> "idle", owner |-> Null]]
    /\ restore = [phase |-> "none", lease |-> Null, left |-> 0 - Lag]
    /\ page = [p \in Pages |-> "idle"]
    /\ targetEmpty \in BOOLEAN
    /\ changedBy = {}

-------------------------------------------------------------------------------
(* Ordinary write requests.                                                *)

\* The slot may stand for a new crypto.randomUUID(): nothing remembers it.
FreshToken(r) ==
    handler[r] = "idle" /\ r \notin admitted /\ remote[r] = 0

\* DELETE ... WHERE expires_at <= now opens the batch of every acquisition.
Purged(late) == {r \in admitted : Live(timeLeft[r], late)}

\* Mutant of Acquire: the lock row is not consulted.
MutAcquire(r, late) ==
    /\ FreshToken(r)
    /\ ~RestoreActive(late)
    /\ admitted' = Purged(late) \cup {r}
    /\ current' = (current \cap Purged(late)) \cup {r}
    /\ timeLeft' = [timeLeft EXCEPT ![r] = AdmissionTTL - late]
    /\ handler' = [handler EXCEPT ![r] = "open"]
    /\ UNCHANGED <<background, remote, barrierVars, dataVars>>

Acquire(r, late) ==
    /\ FreshToken(r)
    /\ ~LockActive(late) /\ ~RestoreActive(late)
    /\ admitted' = Purged(late) \cup {r}
    /\ current' = (current \cap Purged(late)) \cup {r}
    /\ timeLeft' = [timeLeft EXCEPT ![r] = AdmissionTTL - late]
    /\ handler' = [handler EXCEPT ![r] = "open"]
    /\ UNCHANGED <<background, remote, barrierVars, dataVars>>

\* The caller gets 423, yet the purge of the batch is committed.
AcquireRefused(late) ==
    /\ LockActive(late) \/ RestoreActive(late)
    /\ admitted' = Purged(late)
    /\ current' = current \cap Purged(late)
    /\ UNCHANGED <<timeLeft, handler, background, remote, barrierVars, dataVars>>

\* The handler, or a waitUntil task that outlives it, is running.
Running(r) == handler[r] = "open" \/ background[r] > 0

\* A statement on a source table whose marker starts with the token of r; a
\* delete may leave the corpus empty.
SourceWrite(r, late) ==
    /\ Running(r)
    /\ TriggerAdmits(r, late)
    /\ targetEmpty' \in BOOLEAN
    /\ changedBy' = changedBy \cup {"request"}
    /\ UNCHANGED <<requestVars, barrierVars>>

\* Mutant of RemoteCall: the admission is checked but not renewed.
MutRemoteCall(r, late) ==
    /\ Running(r) /\ remote[r] = 0
    /\ AdmissionActive(r, late)
    /\ remote' = [remote EXCEPT ![r] = RemoteTime]
    /\ UNCHANGED <<admitted, current, timeLeft, handler, background, barrierVars, dataVars>>

\* renewMemoryWriteAdmission, then one call to Vectorize.
RemoteCall(r, late) ==
    /\ Running(r) /\ remote[r] = 0
    /\ AdmissionActive(r, late)
    /\ timeLeft' = [timeLeft EXCEPT
                      ![r] = IF @ > AdmissionTTL - late THEN @ ELSE AdmissionTTL - late]
    /\ remote' = [remote EXCEPT ![r] = RemoteTime]
    /\ UNCHANGED <<admitted, current, handler, background, barrierVars, dataVars>>

RemoteReturns(r) ==
    /\ remote[r] > 0
    /\ remote' = [remote EXCEPT ![r] = 0]
    /\ UNCHANGED <<admitted, current, timeLeft, handler, background, barrierVars, dataVars>>

\* waitUntil, from the handler or from a task that has not settled yet.
StartTask(r) ==
    /\ Running(r) /\ background[r] < MaxBackground
    /\ background' = [background EXCEPT ![r] = @ + 1]
    /\ UNCHANGED <<admitted, current, timeLeft, handler, remote, barrierVars, dataVars>>

SettleTask(r) ==
    /\ background[r] > 0
    /\ background[r] = 1 /\ handler[r] = "closing" => remote[r] = 0
    /\ background' = [background EXCEPT ![r] = @ - 1]
    /\ UNCHANGED <<admitted, current, timeLeft, handler, remote, barrierVars, dataVars>>

\* finish(): the response is ready; what the handler awaited has returned.
FinishHandler(r) ==
    /\ handler[r] = "open"
    /\ background[r] = 0 => remote[r] = 0
    /\ handler' = [handler EXCEPT ![r] = "closing"]
    /\ UNCHANGED <<admitted, current, timeLeft, background, remote, barrierVars, dataVars>>

\* Mutant of ReadyToRelease: pending tasks are not waited for.
MutReadyToRelease(r) == handler[r] = "closing"

\* releaseOnce, by whichever of finish() and the last task came last.
ReadyToRelease(r) == handler[r] = "closing" /\ background[r] = 0

Release(r) ==
    /\ ReadyToRelease(r)
    /\ admitted' = admitted \ {r}
    /\ current' = current \ {r}
    /\ handler' = [handler EXCEPT ![r] = "idle"]
    /\ UNCHANGED <<timeLeft, background, remote, barrierVars, dataVars>>

\* Three failed DELETEs: the row stays until its expiry.
ReleaseGivesUp(r) ==
    /\ ReadyToRelease(r)
    /\ handler' = [handler EXCEPT ![r] = "idle"]
    /\ UNCHANGED <<admitted, current, timeLeft, background, remote, barrierVars, dataVars>>

\* The invocation is killed; a remote call it already sent may still land.
CrashRequest(r) ==
    /\ handler[r] # "idle"
    /\ handler' = [handler EXCEPT ![r] = "idle"]
    /\ background' = [background EXCEPT ![r] = 0]
    /\ UNCHANGED <<admitted, current, timeLeft, remote, barrierVars, dataVars>>

-------------------------------------------------------------------------------
(* The maintenance lock: embedding cutover and backup snapshot.            *)

FreshOwner(o) == lock.owner # o /\ \A k \in DeltaRuns : run[k].owner # o

\* Mutant of RotateEpoch: the generation is left alone.
MutRotateEpoch == UNCHANGED requestVars

RotateEpoch == current' = {} /\ UNCHANGED <<admitted, timeLeft, handler, background, remote>>

ClaimLock(o, snapshot, late) ==
    /\ lock' = [NoLock EXCEPT !.held = TRUE, !.owner = o, !.snapshot = snapshot,
                              !.timed = snapshot,
                              !.left = IF snapshot THEN BarrierTTL - late ELSE @]
    /\ RotateEpoch
    /\ changedBy' = {}
    /\ UNCHANGED <<run, restore, page, targetEmpty>>

\* Mutant of SetLock: restore_state is not consulted.
MutSetLock(o, snapshot, late) ==
    /\ FreshOwner(o)
    /\ NoAdmissionActive(late)
    /\ lock.held => lock.snapshot /\ lock.timed /\ ~Live(lock.left, late)
    /\ ClaimLock(o, snapshot, late)

\* The claim of setMemoryWriteLock: a new row, or the row of an expired snapshot.
SetLock(o, snapshot, late) ==
    /\ FreshOwner(o)
    /\ ~RestoreActive(late)
    /\ NoAdmissionActive(late)
    /\ lock.held => lock.snapshot /\ lock.timed /\ ~Live(lock.left, late)
    /\ ClaimLock(o, snapshot, late)

\* Its recovery claim: an ownerless row is taken over, but not by a backup.
RecoverLegacyLock(o, late) ==
    /\ FreshOwner(o)
    /\ lock.held /\ lock.owner = Null
    /\ NoAdmissionActive(late)
    /\ ClaimLock(o, FALSE, late)

\* clearMemoryWriteLock, for whoever knows the owner (GET /migration/status).
ClearLock(o, force, late) ==
    /\ lock.held /\ lock.owner = o
    /\ force \/ lock.complete
    /\ lock.delta = Null \/ ~Live(lock.left, late)
    /\ lock' = NoLock
    /\ UNCHANGED <<requestVars, run, restore, page, dataVars>>

-------------------------------------------------------------------------------
(* The final delta: the one writer of derived state under a cutover lock.  *)

\* POST /migration/reembed reads the lock that its caller named.
ReadLockForDelta(k, late) ==
    /\ run[k].at = "idle" /\ lock.delta # k
    /\ LockActive(late) /\ lock.owner # Null
    /\ AdoptsAnyLock \/ ~lock.snapshot
    /\ run' = [run EXCEPT ![k] = [at |-> "read", owner |-> lock.owner]]
    /\ UNCHANGED <<requestVars, lock, restore, page, dataVars>>

HoldsDelta(k) == lock.held /\ lock.owner = run[k].owner /\ lock.delta = k

AcquireDelta(k, late) ==
    /\ run[k].at = "read"
    /\ lock.held /\ lock.owner = run[k].owner /\ lock.delta = Null
    /\ lock' = [lock EXCEPT !.delta = k, !.timed = TRUE, !.left = DeltaTTL - late,
                            !.complete = FALSE]
    /\ run' = [run EXCEPT ![k].at = "leased"]
    /\ UNCHANGED <<requestVars, restore, page, dataVars>>

\* Another run holds the token, even an expired one, or the lock is gone.
AcquireDeltaRefused(k) ==
    /\ run[k].at = "read"
    /\ ~(lock.held /\ lock.owner = run[k].owner /\ lock.delta = Null)
    /\ run' = [run EXCEPT ![k] = [at |-> "idle", owner |-> Null]]
    /\ UNCHANGED <<requestVars, lock, restore, page, dataVars>>

RenewDelta(k, late) ==
    /\ run[k].at = "leased" /\ HoldsDelta(k) /\ Live(lock.left, late)
    /\ lock' = [lock EXCEPT !.left = DeltaTTL - late]
    /\ UNCHANGED <<requestVars, run, restore, page, dataVars>>

MarkComplete(k, late) ==
    /\ run[k].at = "leased" /\ HoldsDelta(k) /\ Live(lock.left, late)
    /\ lock' = [lock EXCEPT !.complete = TRUE]
    /\ run' = [run EXCEPT ![k].at = "closing"]
    /\ UNCHANGED <<requestVars, restore, page, dataVars>>

\* The batch is over without completion, or a renewal found the lease lost.
StopDelta(k) ==
    /\ run[k].at = "leased"
    /\ run' = [run EXCEPT ![k].at = "closing"]
    /\ UNCHANGED <<requestVars, lock, restore, page, dataVars>>

ReleaseDelta(k) ==
    /\ run[k].at = "closing"
    /\ lock' = IF HoldsDelta(k)
                 THEN [lock EXCEPT !.delta = Null, !.timed = FALSE, !.left = 0 - Lag]
                 ELSE lock
    /\ run' = [run EXCEPT ![k] = [at |-> "idle", owner |-> Null]]
    /\ UNCHANGED <<requestVars, restore, page, dataVars>>

\* A kill, or a release that failed and was only logged.
CrashDelta(k) ==
    /\ run[k].at # "idle"
    /\ run' = [run EXCEPT ![k] = [at |-> "idle", owner |-> Null]]
    /\ UNCHANGED <<requestVars, lock, restore, page, dataVars>>

-------------------------------------------------------------------------------
(* Restore pages and their lease.                                          *)

\* What a page decides from the ledger and the tables before it claims the
\* lease.  A completed restore is replayed as a no-op unless the target was
\* emptied; an unfinished one is resumed, or begun again over an empty target.
CheckPage(p, plan) ==
    /\ page[p] = "idle" /\ restore.lease # p
    /\ \/ plan = "fresh" /\ targetEmpty
       \/ plan = "resume" /\ restore.phase = "unfinished"
    /\ page' = [page EXCEPT ![p] = plan]
    /\ UNCHANGED <<requestVars, lock, run, restore, dataVars>>

LeaseFree(late) == restore.lease = Null \/ ~Live(restore.left, late)

\* Mutant of ClaimRestore: migration_control is not consulted.
MutClaimRestore(p, late, d1late) ==
    /\ page[p] = "fresh"
    /\ targetEmpty
    /\ LeaseFree(late) /\ NoAdmissionActive(late)
    /\ restore' = [phase |-> "unfinished", lease |-> p, left |-> BarrierTTL - late]
    /\ page' = [page EXCEPT ![p] = "importing"]
    /\ RotateEpoch
    /\ changedBy' = {}
    /\ UNCHANGED <<lock, run, targetEmpty>>

\* New run, switch of backup, or restart over a cleared target.  The lock is
\* judged by D1's clock, the admissions and the lease by the Worker's.
ClaimRestore(p, late, d1late) ==
    /\ page[p] = "fresh"
    /\ targetEmpty
    /\ LeaseFree(late) /\ NoAdmissionActive(late) /\ ~LockActive(d1late)
    /\ restore' = [phase |-> "unfinished", lease |-> p, left |-> BarrierTTL - late]
    /\ page' = [page EXCEPT ![p] = "importing"]
    /\ RotateEpoch
    /\ changedBy' = {}
    /\ UNCHANGED <<lock, run, targetEmpty>>

\* The same backup goes on from its durable cursor, whatever the phase is now.
ResumeRestore(p, late, d1late) ==
    /\ page[p] = "resume"
    /\ LeaseFree(late) /\ NoAdmissionActive(late) /\ ~LockActive(d1late)
    /\ restore' = [restore EXCEPT !.lease = p, !.left = BarrierTTL - late]
    /\ page' = [page EXCEPT ![p] = "importing"]
    /\ RotateEpoch
    /\ UNCHANGED <<lock, run, dataVars>>

RenewRestore(p, late) ==
    /\ page[p] = "importing"
    /\ restore.lease = p /\ Live(restore.left, late)
    /\ restore' = [restore EXCEPT !.left = BarrierTTL - late]
    /\ page' = [page EXCEPT ![p] = "renewed"]
    /\ UNCHANGED <<requestVars, lock, run, dataVars>>

\* The first disjunct of the insert triggers: the live lease admits its page.
ImportRows(p, late) ==
    /\ page[p] = "renewed"
    /\ restore.lease = p /\ Live(restore.left, late)
    /\ page' = [page EXCEPT ![p] = "importing"]
    /\ targetEmpty' = FALSE
    /\ changedBy' = changedBy \cup {"restore"}
    /\ UNCHANGED <<requestVars, lock, run, restore>>

\* The cursor update, after a renewal of its own; done: the counts agreed.
CommitPage(p, done, late) ==
    /\ page[p] = "renewed"
    /\ restore.lease = p /\ Live(restore.left, late)
    /\ restore' = [phase |-> IF done THEN "completed" ELSE restore.phase,
                   lease |-> Null, left |-> 0 - Lag]
    /\ page' = [page EXCEPT ![p] = "idle"]
    /\ UNCHANGED <<requestVars, lock, run, dataVars>>

\* A failed row, a lost lease or a refused statement ends the page.
FailPage(p) ==
    /\ page[p] \in {"fresh", "resume", "importing", "renewed"}
    /\ page' = [page EXCEPT ![p] = "closing"]
    /\ UNCHANGED <<requestVars, lock, run, restore, dataVars>>

ReleaseRestore(p) ==
    /\ page[p] = "closing"
    /\ restore' = IF restore.lease = p
                    THEN [restore EXCEPT !.lease = Null, !.left = 0 - Lag]
                    ELSE restore
    /\ page' = [page EXCEPT ![p] = "idle"]
    /\ UNCHANGED <<requestVars, lock, run, dataVars>>

CrashPage(p) ==
    /\ page[p] # "idle"
    /\ page' = [page EXCEPT ![p] = "idle"]
    /\ UNCHANGED <<requestVars, lock, run, restore, dataVars>>

-------------------------------------------------------------------------------
\* Time passes; when its time is up a remote call has landed.
Tick ==
    /\ timeLeft' = [r \in Requests |-> Elapse(timeLeft[r])]
    /\ remote' = [r \in Requests |-> IF remote[r] > 0 THEN remote[r] - 1 ELSE 0]
    /\ lock' = [lock EXCEPT !.left = Elapse(@)]
    /\ restore' = [restore EXCEPT !.left = Elapse(@)]
    /\ UNCHANGED <<admitted, current, handler, background, run, page, dataVars>>

RequestStep(r) ==
    \/ \E late \in Ages : Acquire(r, late)
    \/ \E late \in Ages : SourceWrite(r, late)
    \/ \E late \in Ages : RemoteCall(r, late)
    \/ RemoteReturns(r)
    \/ StartTask(r)
    \/ SettleTask(r)
    \/ FinishHandler(r)
    \/ Release(r)
    \/ ReleaseGivesUp(r)
    \/ CrashRequest(r)

LockStep(o) ==
    \/ \E snapshot \in BOOLEAN, late \in Ages : SetLock(o, snapshot, late)
    \/ \E late \in Ages : RecoverLegacyLock(o, late)
    \/ \E force \in BOOLEAN, late \in Ages : ClearLock(o, force, late)

DeltaStep(k) ==
    \/ \E late \in Ages : ReadLockForDelta(k, late)
    \/ \E late \in Ages : AcquireDelta(k, late)
    \/ AcquireDeltaRefused(k)
    \/ \E late \in Ages : RenewDelta(k, late)
    \/ \E late \in Ages : MarkComplete(k, late)
    \/ StopDelta(k)
    \/ ReleaseDelta(k)
    \/ CrashDelta(k)

PageStep(p) ==
    \/ \E plan \in {"fresh", "resume"} : CheckPage(p, plan)
    \/ \E late, d1late \in Ages : ClaimRestore(p, late, d1late)
    \/ \E late, d1late \in Ages : ResumeRestore(p, late, d1late)
    \/ \E late \in Ages : RenewRestore(p, late)
    \/ \E late \in Ages : ImportRows(p, late)
    \/ \E done \in BOOLEAN, late \in Ages : CommitPage(p, done, late)
    \/ FailPage(p)
    \/ ReleaseRestore(p)
    \/ CrashPage(p)

Next ==
    \/ \E r \in Requests : RequestStep(r)
    \/ \E late \in Ages : AcquireRefused(late)
    \/ \E o \in Owners : LockStep(o)
    \/ \E k \in DeltaRuns : DeltaStep(k)
    \/ \E p \in Pages : PageStep(p)
    \/ Tick

Spec == Init /\ [][Next]_vars

\* Clocks advance; no client, handler or background task has to do anything.
FairSpec == Spec /\ WF_vars(Tick)

-------------------------------------------------------------------------------
(* Properties.                                                             *)

\* A barrier is up: a maintenance lock that counts, or an unfinished restore.
\* (The short lease of a replay over a completed restore is not one of these.)
BarrierUp == LockActive(0) \/ restore.phase = "unfinished"

\* No admission of the current epoch coexists with a barrier: setMemoryWriteLock
\* and the restore claims wait for live admissions and fence off, by rotating the
\* epoch, those that only expired; acquireMemoryWriteAdmission yields to both.
BarrierExcludesAdmissions == BarrierUp => current = {}

\* A backup or a cutover never overlaps an unfinished restore, although each is
\* claimed by a statement that reads the other's row and writes only its own.
LockExcludesRestore == ~(LockActive(0) /\ restore.phase = "unfinished")

\* A Vectorize call of an ordinary request never lands inside a barrier, even if
\* the request was killed after sending it: the renewal before the call keeps
\* every barrier away for longer than the call can take.
RemoteOutsideBarrier == \A r \in Requests : remote[r] > 0 => ~BarrierUp

\* Since the barrier was raised no ordinary request has changed a source row.
NoRequestWritesBehindBarrier == BarrierUp => "request" \notin changedBy

\* A request keeps its row until the handler and every waitUntil task are done;
\* before its expiry nobody else removes it.
AdmittedWhileRunning ==
    \A r \in Requests : Running(r) /\ timeLeft[r] > 0 => r \in admitted

-------------------------------------------------------------------------------
(* The inductive invariant of the exclusion (WriteAdmissionProofs).         *)
(*                                                                         *)
(* That a barrier excludes admissions is not inductive by itself.  A       *)
(* barrier is raised only when no admission is live, so a remote call in   *)
(* flight must be covered by an admission that outlives it; and no step    *)
(* may make an expired lock count again, so a delta lease must never sit   *)
(* on a snapshot lock.                                                     *)

\* A remote call in flight is covered until it has landed.
RemoteCovered ==
    \A r \in Requests : remote[r] > 0 => r \in current /\ remote[r] <= timeLeft[r]

\* Whatever releases an admission has awaited the remote call before.
RemoteAwaited == \A r \in Requests : ReadyToRelease(r) => remote[r] = 0

\* Snapshot locks are claimed with an owner and never lent to a delta run.
SnapshotKeptApart ==
    /\ lock.held /\ lock.owner = Null => ~lock.snapshot
    /\ lock.delta # Null => lock.held /\ ~lock.snapshot
    /\ \A k \in DeltaRuns :
         run[k].at = "read" /\ lock.held /\ lock.owner = run[k].owner => ~lock.snapshot

FenceInv ==
    /\ TypeOK
    /\ BarrierExcludesAdmissions
    /\ LockExcludesRestore
    /\ NoRequestWritesBehindBarrier
    /\ RemoteCovered
    /\ RemoteAwaited
    /\ AdmittedWhileRunning
    /\ SnapshotKeptApart

-------------------------------------------------------------------------------
(* Refinement.  The mode is what the two barrier rows say now; a request    *)
(* holds a permission while its admission is of the current epoch.          *)

Mode == IF LockActive(0) THEN "frozen"
        ELSE IF restore.phase = "unfinished" THEN "restoring" ELSE "shared"

Barrier == INSTANCE MaintenanceBarrier
             WITH mode <- Mode, holders <- current, touched <- "request" \in changedBy

\* Admissions, epoch, lock row, restore row and triggers together implement the
\* promise of MaintenanceBarrier, step by step.
ImplementsBarrier == Barrier!Spec

-------------------------------------------------------------------------------
(* Liveness.                                                               *)

\* A snapshot lock whose backup died stops counting, whatever anybody does.
SnapshotLockLapses ==
    \A o \in Owners : lock.owner = o /\ lock.snapshot ~> ~(LockActive(0) /\ lock.owner = o)

\* An admission whose request is gone (killed, or its release failed three
\* times) stops standing in the way of a backup, a cutover or a restore.
OrphanAdmissionLapses ==
    \A r \in Requests : handler[r] = "idle" /\ r \in admitted
                          ~> ~AdmissionActive(r, 0) \/ handler[r] # "idle"

-------------------------------------------------------------------------------
(* A claim of the documentation that the code does not keep.                *)

\* docs/fork/BACKUP_RESTORE.md: the snapshot barrier expires after 120 seconds.
SnapshotLockStaysTimed ==
    lock.held /\ lock.snapshot => lock.timed /\ lock.left <= BarrierTTL
===============================================================================
