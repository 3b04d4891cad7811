--------------------------- MODULE MCWriteAdmission ---------------------------
(* The fence on two instances, chosen by the initial state: writers, two lock  *)
(* owners and a final delta without restores; and one writer, one owner and    *)
(* the pages of restores. Together they are more than TLC gets through.        *)
EXTENDS WriteAdmission, TLC

CONSTANTS Writers, Holders   \* of the second instance

VARIABLE part
all == <<vars, part>>

Begins == Init /\ part \in {"cutover", "restore"}

Cutover == part = "cutover" /\ UNCHANGED part
Restoring == part = "restore" /\ UNCHANGED part
HasWriter(r) == (part = "restore" => r \in Writers) /\ UNCHANGED part
HasOwner(o) == (part = "restore" => o \in Holders) /\ UNCHANGED part

WriterStep ==
    \/ \E r \in Requests, late \in Ages : \/ HasWriter(r) /\ Acquire(r, late)
                                          \/ HasWriter(r) /\ RemoteCall(r, late)
                                          \/ HasWriter(r) /\ SourceWrite(r, late)
    \/ \E r \in Requests : \/ HasWriter(r) /\ RemoteReturns(r)
                           \/ HasWriter(r) /\ StartTask(r)
                           \/ HasWriter(r) /\ SettleTask(r)
                           \/ HasWriter(r) /\ FinishHandler(r)
                           \/ HasWriter(r) /\ Release(r)
                           \/ HasWriter(r) /\ ReleaseGivesUp(r)
                           \/ HasWriter(r) /\ CrashRequest(r)
    \/ \E late \in Ages : AcquireRefused(late) /\ UNCHANGED part

OwnerStep ==
    \E o \in Owners, late \in Ages :
       \/ HasOwner(o) /\ RecoverLegacyLock(o, late)
       \/ \E snapshot \in BOOLEAN : HasOwner(o) /\ SetLock(o, snapshot, late)
       \/ \E force \in BOOLEAN : HasOwner(o) /\ ClearLock(o, force, late)

CutoverStep ==
    \E k \in DeltaRuns :
       \/ Cutover /\ AcquireDeltaRefused(k)
       \/ Cutover /\ StopDelta(k)
       \/ Cutover /\ ReleaseDelta(k)
       \/ Cutover /\ CrashDelta(k)
       \/ \E late \in Ages : \/ Cutover /\ ReadLockForDelta(k, late)
                             \/ Cutover /\ AcquireDelta(k, late)
                             \/ Cutover /\ RenewDelta(k, late)
                             \/ Cutover /\ MarkComplete(k, late)

RestoreStep ==
    \E p \in Pages :
       \/ Restoring /\ FailPage(p)
       \/ Restoring /\ ReleaseRestore(p)
       \/ Restoring /\ CrashPage(p)
       \/ \E plan \in {"fresh", "resume"} : Restoring /\ CheckPage(p, plan)
       \/ \E late, d1late \in Ages : \/ Restoring /\ ClaimRestore(p, late, d1late)
                                     \/ Restoring /\ ResumeRestore(p, late, d1late)
       \/ \E late \in Ages : \/ Restoring /\ RenewRestore(p, late)
                             \/ Restoring /\ ImportRows(p, late)
                             \/ \E done \in BOOLEAN : Restoring /\ CommitPage(p, done, late)

Elapses == Tick /\ UNCHANGED part
Goes == WriterStep \/ OwnerStep \/ CutoverStep \/ RestoreStep \/ Elapses

AllSpec == Begins /\ [][Goes]_all
AllFairSpec == AllSpec /\ WF_all(Elapses)
===============================================================================
