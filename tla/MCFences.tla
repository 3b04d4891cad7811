------------------------------- MODULE MCFences -------------------------------
(* The components whose calls must not get in each other's way: the restore of *)
(* a backup, the embedding migration, the full-text index, push delivery and   *)
(* the validity windows.  They share no state, so a behaviour is one of a      *)
(* single component, which the initial state chooses, and a property of one    *)
(* holds of them all together.                                                 *)
(* The migration is there twice: its calls one after the other while the       *)
(* Worker writes, and two calls at once over a corpus that stands still.       *)
EXTENDS R2Restore, ValidityIntervals, MigratedRows, FtsMirror, DeviceDeliveries, TLC

CONSTANTS whole, empty,
          Writers, MaxEdits

VARIABLES part,
          migration, older, batch, clock, locks, changes,
          filled, window, night, repair, indexFaults,
          due, fails, delivery, lease, cursor, run, faults, dropped

MCRows == (whole :> 2) @@ (empty :> 0)

Migration == INSTANCE EmbeddingMigration WITH ledger <- migration
Index == INSTANCE FtsIndex WITH cursor <- filled, faults <- indexFaults
Push == INSTANCE PushDelivery WITH Runs <- Batches, record <- delivery
Validity == INSTANCE ValidityWindows

migrationVars == <<rows, migration, older, lock, batch, clock, locks, changes, returned>>
indexVars == <<entries, fts, table, triggers, torn, ready, filled, window, night, repair,
               indexFaults, drifted, late>>
pushVars == <<due, subs, fails, delivery, lease, cursor, run, faults,
              delivered, overlaps, outdated, unheard, dropped>>
all == <<part, vars, migrationVars, indexVars, pushVars, validityVars>>

\* A part that is not the chosen one stays in one of its initial states.
Begins == /\ part \in {"restore", "migration", "batches", "index", "push", "validity"}
          /\ Init /\ (part # "restore" => db = {})
          /\ Migration!Init /\ (part \notin {"migration", "batches"} => \A i \in Ids : rows[i] = Nothing)
          /\ Index!Init /\ (part # "index" => entries = Index!Empty)
          /\ Push!Init /\ (part # "push" => subs = {})
          /\ Validity!Init

OnRestore == part = "restore"
OnMigration == part \in {"migration", "batches"}
Served == part = "migration"
OnIndex == part = "index"
OnPush == part = "push"
OnValidity == part = "validity"

RestoreOnly == UNCHANGED <<part, migrationVars, indexVars, pushVars, validityVars>>
MigrationOnly == UNCHANGED <<part, vars, indexVars, pushVars, validityVars>>
IndexOnly == UNCHANGED <<part, vars, migrationVars, pushVars, validityVars>>
PushOnly == UNCHANGED <<part, vars, migrationVars, indexVars, validityVars>>
ValidityOnly == UNCHANGED <<part, vars, migrationVars, indexVars, pushVars>>

Alone(b) == Served => \A c \in Batches \ {b} : batch[c].at = "idle"
\* Memories are interchangeable and take their names in order; a capture states no end.
NextName(m) == \A n \in Memories : n < m => ~Validity!Fresh(n)
Stated == {w \in Windows : w.until = None}

RestoreStep ==
    \/ OnRestore /\ NormalOperation /\ RestoreOnly
    \/ OnRestore /\ LapseLease /\ RestoreOnly
    \/ OnRestore /\ \E c \in Calls, b \in Backups, wanted \in Offsets \cup {Null} : Check(c, b, wanted) /\ RestoreOnly
    \/ \E c \in Calls :
          \/ OnRestore /\ Plan(c) /\ RestoreOnly
          \/ OnRestore /\ Refuse(c) /\ RestoreOnly
          \/ OnRestore /\ ClaimFresh(c) /\ RestoreOnly
          \/ OnRestore /\ ClaimResume(c) /\ RestoreOnly
          \/ OnRestore /\ Renew(c) /\ RestoreOnly
          \/ OnRestore /\ Insert(c) /\ RestoreOnly
          \/ OnRestore /\ InsertSome(c) /\ RestoreOnly
          \/ OnRestore /\ Verify(c) /\ RestoreOnly
          \/ OnRestore /\ Commit(c) /\ RestoreOnly
          \/ OnRestore /\ Fail(c) /\ RestoreOnly
          \/ OnRestore /\ Close(c) /\ RestoreOnly
          \/ OnRestore /\ Crash(c) /\ RestoreOnly

MigrationStep ==
    \/ \E i \in Ids :
          \/ Served /\ Migration!Capture(i) /\ MigrationOnly
          \/ Served /\ Migration!Import(i) /\ MigrationOnly
          \/ Served /\ Migration!Edit(i) /\ MigrationOnly
          \/ Served /\ Migration!Withdraw(i) /\ MigrationOnly
          \/ Served /\ Migration!TakeBack(i) /\ MigrationOnly
    \/ OnMigration /\ Migration!Tick /\ MigrationOnly
    \/ OnMigration /\ Migration!SetLock /\ MigrationOnly
    \/ OnMigration /\ Migration!ClearLock /\ MigrationOnly
    \/ \E b \in Batches : \/ OnMigration /\ Alone(b) /\ Migration!BeginFull(b) /\ MigrationOnly
                          \/ OnMigration /\ \E restart \in BOOLEAN : Alone(b) /\ Migration!BeginDelta(b, restart) /\ MigrationOnly
                          \/ OnMigration /\ Migration!Embed(b) /\ MigrationOnly
                          \/ OnMigration /\ Migration!Finish(b) /\ MigrationOnly
                          \/ OnMigration /\ Migration!Crash(b) /\ MigrationOnly

IndexStep ==
    \/ OnIndex /\ \E r \in Rowids, c \in Contents \cup {Absent} : Index!Write(r, c) /\ IndexOnly
    \/ OnIndex /\ \E r \in Rowids : Index!Drift(r) /\ IndexOnly
    \/ OnIndex /\ Index!FailWrite /\ IndexOnly
    \/ OnIndex /\ Index!RepairUnlatch /\ IndexOnly
    \/ OnIndex /\ Index!RepairRewind /\ IndexOnly
    \/ OnIndex /\ Index!RepairDdl /\ IndexOnly
    \/ OnIndex /\ Index!Look /\ IndexOnly
    \/ OnIndex /\ Index!Probe /\ IndexOnly
    \/ OnIndex /\ Index!RebuildUnlatch /\ IndexOnly
    \/ OnIndex /\ Index!RebuildRewind /\ IndexOnly
    \/ OnIndex /\ Index!RebuildDdl /\ IndexOnly
    \/ OnIndex /\ Index!ReadPage /\ IndexOnly
    \/ OnIndex /\ Index!Throw /\ IndexOnly
    \/ OnIndex /\ Index!Fill /\ IndexOnly
    \/ OnIndex /\ Index!Advance /\ IndexOnly
    \/ OnIndex /\ Index!Parity /\ IndexOnly
    \/ OnIndex /\ Index!Latch /\ IndexOnly
    \/ OnIndex /\ Index!Restart /\ IndexOnly
    \/ OnIndex /\ Index!Count /\ IndexOnly
    \/ OnIndex /\ Index!Compare /\ IndexOnly
    \/ OnIndex /\ Index!DeleteOrphans /\ IndexOnly
    \/ OnIndex /\ Index!StartAgain /\ IndexOnly
    \/ OnIndex /\ Index!Unready /\ IndexOnly
    \/ OnIndex /\ Index!Review /\ IndexOnly
    \/ OnIndex /\ Index!Reindex /\ IndexOnly
    \/ OnIndex /\ Index!Turn /\ IndexOnly
    \/ OnIndex /\ Index!LoseTable /\ IndexOnly
    \/ OnIndex /\ Index!Tamper /\ IndexOnly
    \/ OnIndex /\ Index!Tear /\ IndexOnly
    \/ OnIndex /\ Index!Kill /\ IndexOnly

PushStep ==
    \/ \E r \in Batches :
          \/ OnPush /\ Push!Prepare(r) /\ PushOnly
          \/ OnPush /\ Push!ReadLease(r) /\ PushOnly
          \/ OnPush /\ Push!PutLease(r) /\ PushOnly
          \/ OnPush /\ Push!CheckLease(r) /\ PushOnly
          \/ OnPush /\ Push!Refresh(r) /\ PushOnly
          \/ OnPush /\ Push!RecordAhead(r) /\ PushOnly
          \/ OnPush /\ Push!SendOk(r) /\ PushOnly
          \/ OnPush /\ Push!SendFails(r) /\ PushOnly
          \/ OnPush /\ Push!SendGone(r) /\ PushOnly
          \/ OnPush /\ Push!SendUnheard(r) /\ PushOnly
          \/ OnPush /\ Push!EndSending(r) /\ PushOnly
          \/ OnPush /\ Push!RetryFailed(r) /\ PushOnly
          \/ OnPush /\ Push!Apply(r) /\ PushOnly
          \/ OnPush /\ Push!MoveCursor(r) /\ PushOnly
          \/ OnPush /\ Push!Release(r) /\ PushOnly
          \/ OnPush /\ Push!DropLease(r) /\ PushOnly
          \/ OnPush /\ Push!Kill(r) /\ PushOnly
    \/ OnPush /\ Push!Lapse /\ PushOnly
    \/ OnPush /\ \E w \in Workspaces : Push!Reschedule(w) /\ PushOnly

ValidityStep ==
    \/ \E m \in Memories :
          \/ OnValidity /\ \E w \in Stated : NextName(m) /\ Validity!Remember(m, w) /\ ValidityOnly
          \/ OnValidity /\ Validity!Edit(m) /\ ValidityOnly
          \/ OnValidity /\ Validity!Deprecate(m) /\ ValidityOnly
          \/ OnValidity /\ \E large \in BOOLEAN : Validity!Forget(m, large) /\ ValidityOnly
          \/ OnValidity /\ Validity!Restore(m) /\ ValidityOnly
          \/ OnValidity /\ Validity!Undo(m) /\ ValidityOnly
    \/ \E c \in Writers :
          \/ OnValidity /\ \E m, old \in Memories, w \in Stated : NextName(m) /\ Validity!Tell(c, m, w, old) /\ ValidityOnly
          \/ OnValidity /\ Validity!Store(c) /\ ValidityOnly
          \/ OnValidity /\ Validity!Supersede(c) /\ ValidityOnly
          \/ OnValidity /\ \E m \in Memories : Validity!ReadStatus(c, m) /\ ValidityOnly
          \/ OnValidity /\ Validity!SetStatus(c) /\ ValidityOnly
          \/ OnValidity /\ \E m \in Memories, w \in Windows : Validity!ReadDates(c, m, w) /\ ValidityOnly
          \/ OnValidity /\ Validity!SetDates(c) /\ ValidityOnly

Goes == RestoreStep \/ MigrationStep \/ IndexStep \/ PushStep \/ ValidityStep

AllSpec == Begins /\ [][Goes]_all

\* Batches and runs are interchangeable, and go by the same names: only one of
\* the components moves. No property is about liveness.
Alike == Permutations(Batches)

-------------------------------------------------------------------------------
\* The properties are stated in the modules of the components.
AllTypeOK == /\ part = "restore" => TypeOK
             /\ part \in {"migration", "batches"} => Migration!TypeOK
             /\ part = "index" => Index!TypeOK
             /\ part = "push" => Push!TypeOK
             /\ part = "validity" => Validity!TypeOK
===============================================================================
