------------------------------- MODULE R2Restore -------------------------------
(***************************************************************************)
(* Restore of an R2 backup page by page: restoreR2Backup with              *)
(* acquireRestoreLease, renewRestoreLease and releaseRestoreLease of        *)
(* src/backup/r2.ts and the trusted half of importExportPayload.           *)
(*                                                                         *)
(* Each call reads the ledger and the target, claims the lease, imports one *)
(* page of rows, verifies the counts at the end and commits the cursor; any *)
(* of these awaits may be the last one of its Worker, and other calls run   *)
(* between them.  The four tables and their cursors are one sequence of     *)
(* rows and one cursor.  How the barrier keeps ordinary requests away is    *)
(* WriteAdmission; here they change the target whenever it is down.        *)
(***************************************************************************)
EXTENDS Naturals, FiniteSets

CONSTANTS
    Calls,          \* slots of POST /admin/restore/:backupId; a slot is its lease_owner
    Backups,        \* verified archives
    Rows,           \* Rows[b]: the number of rows of archive b
    Own,            \* rows that normal operation adds
    Limit,          \* rows of one page
    Offsets,        \* explicit offsets that clients pass
    Null            \* SQL NULL, no argument

ASSUME RestoreAssumption ==
    /\ Rows \in [Backups -> Nat]
    /\ Limit \in Nat \ {0}
    /\ Offsets \subseteq Nat
    /\ Null \notin Calls \cup Backups \cup Nat

VARIABLES
    db,         \* the rows of the target
    ledger,     \* the restore_state row
    call        \* the calls and what they have read

vars == <<db, ledger, call>>

-------------------------------------------------------------------------------
RowsOf(b) == {<<b, n>> : n \in 1..Rows[b]}

AnyRow == (UNION {RowsOf(b) : b \in Backups}) \cup Own

Cursor == {0} \cup UNION {0..Rows[b] : b \in Backups}

Ledger == [backup : Backups \cup {Null}, phase : {"none", "unfinished", "completed"},
           next : Cursor, lease : Calls \cup {Null}, live : BOOLEAN]

\* seen and done are the cursor and the completion of the ledger it claimed.
Call == [at : {"idle", "checked", "fresh", "resume", "claimed", "renewed",
               "inserted", "verified", "closing"},
         backup : Backups \cup {Null}, wanted : Offsets \cup {Null},
         seen : Cursor, done : BOOLEAN]

Idle == [at |-> "idle", backup |-> Null, wanted |-> Null, seen |-> 0, done |-> FALSE]

\* The rows of the target, the ledger and the calls.
TypeOK ==
    /\ db \subseteq AnyRow
    /\ ledger \in Ledger
    /\ call \in [Calls -> Call]

Init ==
    /\ db \in {{}, Own}
    /\ ledger = [backup |-> Null, phase |-> "none", next |-> 0, lease |-> Null, live |-> FALSE]
    /\ call = [c \in Calls |-> Idle]

-------------------------------------------------------------------------------
(* What goes on around a restore.                                          *)

LeaseHeld == ledger.lease # Null /\ ledger.live

\* Mutant of BarrierUp: only the lease keeps ordinary requests away.
MutBarrierUp == LeaseHeld

BarrierUp == ledger.phase = "unfinished" \/ LeaseHeld

\* An ordinary request remembers or forgets a row.
NormalOperation ==
    /\ ~BarrierUp
    /\ \/ \E row \in Own \ db : db' = db \cup {row}
       \/ \E row \in db : db' = db \ {row}
    /\ UNCHANGED <<ledger, call>>

\* The 120 seconds since the last renewal are over.
LapseLease ==
    /\ LeaseHeld
    /\ ledger' = [ledger EXCEPT !.live = FALSE]
    /\ UNCHANGED <<db, call>>

-------------------------------------------------------------------------------
(* One call.                                                               *)

\* The manifest and the chunk are verified, then the ledger and the target are
\* read.  A completed restore of the same archive is answered as a no-op, unless
\* the target has been emptied.
Check(c, b, wanted) ==
    /\ call[c].at = "idle" /\ ledger.lease # c
    /\ ~(ledger.backup = b /\ ledger.phase = "completed" /\ (db # {} \/ Rows[b] = 0))
    /\ call' = [call EXCEPT ![c] = [Idle EXCEPT !.at = "checked", !.backup = b, !.wanted = wanted]]
    /\ UNCHANGED <<db, ledger>>

\* acquireRestoreLease reads both again: a new or another archive, or a restart
\* over a cleared target, needs the target empty; anything else is a resumption.
IsFresh(b) ==
    \/ ledger.backup # b
    \/ db = {} /\ (ledger.next > 0 \/ ledger.phase = "completed")

Plan(c) ==
    /\ call[c].at = "checked"
    /\ IsFresh(call[c].backup) => db = {}
    /\ call' = [call EXCEPT ![c].at = IF IsFresh(call[c].backup) THEN "fresh" ELSE "resume"]
    /\ UNCHANGED <<db, ledger>>

Refuse(c) ==
    /\ call[c].at \in {"checked", "fresh", "resume"}
    /\ call' = [call EXCEPT ![c] = Idle]
    /\ UNCHANGED <<db, ledger>>

\* Mutant of ClaimFresh: the target is not proved empty again.
MutClaimFresh(c) ==
    /\ call[c].at = "fresh"
    /\ ~LeaseHeld
    /\ ledger' = [backup |-> call[c].backup, phase |-> "unfinished", next |-> 0,
                  lease |-> c, live |-> TRUE]
    /\ call' = [call EXCEPT ![c].at = "claimed", ![c].seen = 0, ![c].done = FALSE]
    /\ UNCHANGED db

\* One statement proves the target empty and the lease free, and resets the run.
ClaimFresh(c) ==
    /\ call[c].at = "fresh"
    /\ db = {} /\ ~LeaseHeld
    /\ ledger' = [backup |-> call[c].backup, phase |-> "unfinished", next |-> 0,
                  lease |-> c, live |-> TRUE]
    /\ call' = [call EXCEPT ![c].at = "claimed", ![c].seen = 0, ![c].done = FALSE]
    /\ UNCHANGED db

\* Mutant of ClaimResume: any ledger that exists is taken for a completed one.
MutClaimResume(c) ==
    /\ call[c].at = "resume"
    /\ ledger.backup = call[c].backup /\ ~LeaseHeld
    /\ ledger' = [ledger EXCEPT !.lease = c, !.live = TRUE]
    /\ call' = [call EXCEPT ![c].at = "claimed", ![c].seen = ledger.next,
                            ![c].done = (ledger.phase # "none")]
    /\ UNCHANGED db

\* The archive is still the ledger's, and the lease is free.
ClaimResume(c) ==
    /\ call[c].at = "resume"
    /\ ledger.backup = call[c].backup /\ ~LeaseHeld
    /\ ledger' = [ledger EXCEPT !.lease = c, !.live = TRUE]
    /\ call' = [call EXCEPT ![c].at = "claimed", ![c].seen = ledger.next,
                            ![c].done = (ledger.phase = "completed")]
    /\ UNCHANGED db

\* The durable cursor unless the client names an earlier one.
Offset(c) == IF call[c].wanted = Null THEN call[c].seen ELSE call[c].wanted

\* Mutant of PageEnd: a page is not cut at the end of the archive.
MutPageEnd(c) == Offset(c) + Limit

PageEnd(c) ==
    IF Offset(c) + Limit < Rows[call[c].backup] THEN Offset(c) + Limit ELSE Rows[call[c].backup]

PageRows(c) == {<<call[c].backup, n>> : n \in (Offset(c) + 1)..PageEnd(c)}

HoldsLease(c) == ledger.lease = c /\ ledger.live

Renew(c) ==
    /\ call[c].at = "claimed"
    /\ Offset(c) <= call[c].seen
    /\ HoldsLease(c)
    /\ call' = [call EXCEPT ![c].at = "renewed"]
    /\ UNCHANGED <<db, ledger>>

\* The batch lands under the lease; rows that are there are skipped.
Insert(c) ==
    /\ call[c].at = "renewed"
    /\ HoldsLease(c)
    /\ db' = db \cup PageRows(c)
    /\ call' = [call EXCEPT ![c].at = "inserted"]
    /\ UNCHANGED ledger

\* Mutant of InsertSome: a failed row does not end the page.
MutInsertSome(c) ==
    /\ call[c].at = "renewed"
    /\ HoldsLease(c)
    /\ \E landed \in SUBSET PageRows(c) :
         landed # PageRows(c) /\ db' = db \cup landed
    /\ call' = [call EXCEPT ![c].at = "inserted"]
    /\ UNCHANGED ledger

\* Edges and projects fall back to one statement per row: some land, one fails,
\* and the page ends without a commit.
InsertSome(c) ==
    /\ call[c].at = "renewed"
    /\ HoldsLease(c)
    /\ \E landed \in SUBSET PageRows(c) :
         landed # PageRows(c) /\ db' = db \cup landed
    /\ call' = [call EXCEPT ![c].at = "closing"]
    /\ UNCHANGED ledger

Finished(c) == PageEnd(c) = Rows[call[c].backup]

\* Before the first completion the rows of the target are counted.
Verify(c) ==
    /\ call[c].at = "inserted"
    /\ Finished(c) /\ ~call[c].done => Cardinality(db) = Rows[call[c].backup]
    /\ call' = [call EXCEPT ![c].at = "verified"]
    /\ UNCHANGED <<db, ledger>>

\* Mutant of Commit: the cursor is set to the end of this page.
MutCommit(c) ==
    /\ call[c].at = "verified"
    /\ HoldsLease(c) /\ ledger.backup = call[c].backup
    /\ ledger' = [ledger EXCEPT
                    !.next = PageEnd(c),
                    !.phase = IF Finished(c) \/ call[c].done THEN "completed" ELSE "unfinished",
                    !.lease = Null, !.live = FALSE]
    /\ call' = [call EXCEPT ![c] = Idle]
    /\ UNCHANGED db

\* Renewal and cursor update; the lease goes with them.
Commit(c) ==
    /\ call[c].at = "verified"
    /\ HoldsLease(c) /\ ledger.backup = call[c].backup
    /\ ledger' = [ledger EXCEPT
                    !.next = IF PageEnd(c) > @ THEN PageEnd(c) ELSE @,
                    !.phase = IF Finished(c) \/ call[c].done THEN "completed" ELSE "unfinished",
                    !.lease = Null, !.live = FALSE]
    /\ call' = [call EXCEPT ![c] = Idle]
    /\ UNCHANGED db

\* A lost lease, an offset beyond the cursor, a failed row, a count that differs.
Fail(c) ==
    /\ call[c].at \in {"claimed", "renewed", "inserted", "verified"}
    /\ call' = [call EXCEPT ![c].at = "closing"]
    /\ UNCHANGED <<db, ledger>>

Close(c) ==
    /\ call[c].at = "closing"
    /\ ledger' = IF ledger.lease = c THEN [ledger EXCEPT !.lease = Null, !.live = FALSE]
                                     ELSE ledger
    /\ call' = [call EXCEPT ![c] = Idle]
    /\ UNCHANGED db

Crash(c) ==
    /\ call[c].at # "idle"
    /\ call' = [call EXCEPT ![c] = Idle]
    /\ UNCHANGED <<db, ledger>>

-------------------------------------------------------------------------------
CallStep(c) ==
    \/ \E b \in Backups, wanted \in Offsets \cup {Null} : Check(c, b, wanted)
    \/ Plan(c)
    \/ Refuse(c)
    \/ ClaimFresh(c)
    \/ ClaimResume(c)
    \/ Renew(c)
    \/ Insert(c)
    \/ InsertSome(c)
    \/ Verify(c)
    \/ Commit(c)
    \/ Fail(c)
    \/ Close(c)
    \/ Crash(c)

Next ==
    \/ NormalOperation
    \/ LapseLease
    \/ \E c \in Calls : CallStep(c)

Spec == Init /\ [][Next]_vars

-------------------------------------------------------------------------------
(* Properties.                                                             *)

\* While a restore is unfinished the target holds rows of its archive only: no
\* row of another archive that was switched away from, none of a request.
TargetUnmixed == ledger.phase = "unfinished" => db \subseteq RowsOf(ledger.backup)

\* The durable cursor never runs ahead of the rows, whatever page was lost.
CursorBacked ==
    ledger.phase = "unfinished" => \A n \in 1..ledger.next : <<ledger.backup, n>> \in db

\* A restore completes only over a target that is the archive, row for row: the
\* count was taken an await earlier, and other calls may have run since.
CompletesWhole ==
    [][ledger.phase = "unfinished" /\ ledger'.phase = "completed"
         => db = RowsOf(ledger.backup)]_vars

\* The cursor goes back, and a completed restore is unfinished again, only over
\* an empty target.
RewindsOnlyWhenEmpty ==
    [][ledger'.next < ledger.next \/ (ledger.phase = "completed" /\ ledger'.phase # "completed")
         => db = {}]_vars

-------------------------------------------------------------------------------
(* The inductive invariant (R2BackupProofs).                               *)
(*                                                                         *)
(* What a call has read is worth something only while it holds the lease:  *)
(* then cursor, archive and completion are still the ledger's, and rows    *)
(* it has inserted are still there.  A call that lost its lease may know   *)
(* anything; it must not be able to act on it.                             *)

\* Without a row no archive is named; a row names one and a cursor within it.
LedgerSound ==
    IF ledger.phase = "none"
      THEN ledger.backup = Null /\ ledger.next = 0 /\ ledger.lease = Null
      ELSE ledger.backup \in Backups /\ ledger.next <= Rows[ledger.backup]

ArchiveKnown == \A c \in Calls : call[c].at # "idle" => call[c].backup \in Backups

\* A slot that has not claimed yet is not the one the ledger names.
NotYetClaimed ==
    \A c \in Calls : call[c].at \in {"checked", "fresh", "resume"} => ledger.lease # c

Claimed(c) == call[c].at \in {"claimed", "renewed", "inserted", "verified"}

HolderUpToDate ==
    \A c \in Calls : Claimed(c) /\ HoldsLease(c) =>
        /\ ledger.phase # "none"
        /\ call[c].backup = ledger.backup
        /\ call[c].seen = ledger.next
        /\ call[c].done = (ledger.phase = "completed")

\* After the first renewal the offset is known not to skip a row.
NoGap ==
    \A c \in Calls : call[c].at \in {"renewed", "inserted", "verified"} => Offset(c) <= call[c].seen

PageLanded ==
    \A c \in Calls :
        call[c].at \in {"inserted", "verified"} /\ HoldsLease(c) /\ ledger.phase = "unfinished"
          => PageRows(c) \subseteq db

RestoreInv ==
    /\ TypeOK
    /\ TargetUnmixed
    /\ CursorBacked
    /\ LedgerSound
    /\ ArchiveKnown
    /\ NotYetClaimed
    /\ HolderUpToDate
    /\ NoGap
    /\ PageLanded

-------------------------------------------------------------------------------
Contract == INSTANCE RestoreContract
              WITH filling <- ledger.phase = "unfinished", source <- ledger.backup,
                   content <- db

\* For clients that pass no offsets, the pages implement the contract.
ImplementsContract == Contract!Spec

\* docs/fork/BACKUP_RESTORE.md: after completed_at another call for the same
\* backup does not reinsert old rows, even for explicitly old offsets.
CompletedNeverReinserts ==
    [][ledger.phase = "completed" => db' \subseteq db \cup Own]_vars
===============================================================================
