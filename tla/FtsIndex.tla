------------------------------- MODULE FtsIndex -------------------------------
(* db/fts-backfill.ts, db/fts-repair.ts and db/fts-write-guard.ts: the         *)
(* full-text mirror of entries. Triggers keep it in step while they and the    *)
(* table are there; a write that fails on it repairs it from the request; the  *)
(* night fills it page by page, latches it ready after a parity check, and     *)
(* from then on looks for drift. Recall uses it when the latch is set and all  *)
(* four objects are there.                                                     *)
EXTENDS FtsMirror

VARIABLES cursor, window,        \* the other two KV keys
          night, repair,         \* runFtsMaintenance and repairFtsIndex in progress
          faults                 \* counter

index == <<fts, table, triggers, torn>>
kv == <<ready, cursor, window>>
vars == <<entries, index, kv, night, repair, faults, drifted, late>>

Stored(t) == {r \in Rowids : t[r] # Absent}
Highest(S) == IF S = {} THEN 0 ELSE CHOOSE r \in S : \A s \in S : s <= r
Readable == table /\ ~torn
Empty == [r \in Rowids |-> Absent]

Asleep == [at |-> "asleep", from |-> 0, to |-> 0, seen |-> 0, stale |-> {}, struck |-> FALSE]
At(step) == night' = [night EXCEPT !.at = step]
Quiet == [at |-> "idle", missing |-> FALSE, kvOk |-> TRUE, struck |-> FALSE]

Init == /\ entries \in {t \in [Rowids -> Contents \cup {Absent}] : Stored(t) = 1..Cardinality(Stored(t))}
        /\ fts = Empty /\ table = TRUE /\ triggers = "exact" /\ torn = FALSE
        /\ ready = FALSE /\ cursor = 0 /\ window = 0
        /\ night = Asleep /\ repair = Quiet
        /\ faults = 0 /\ drifted = FALSE /\ late = FALSE

(* A capture takes the rowid after the highest; edits and deletions any. The   *)
(* triggers mirror the row, one of another body perhaps; a rowid that the      *)
(* index already has refuses the insert.                                       *)
Write(r, c) ==
    /\ entries[r] # c
    /\ entries[r] = Absent => r = Highest(Stored(entries)) + 1
    /\ entries' = [entries EXCEPT ![r] = c]
    /\ CASE triggers = "none" -> UNCHANGED fts
         [] triggers = "exact" -> /\ Readable
                                  /\ entries[r] = Absent => fts[r] = Absent
                                  /\ fts' = [fts EXCEPT ![r] = c]
         [] triggers = "other" -> Readable /\ (UNCHANGED fts \/ fts' = [fts EXCEPT ![r] = c])
    /\ UNCHANGED <<table, triggers, torn, kv, night, repair, faults, drifted, late>>

(* retryOnce: a write that fails on the index repairs it; the retry is a Write. *)
FailWrite == /\ repair.at = "idle" /\ triggers # "none" /\ ~Readable
             /\ repair' = [Quiet EXCEPT !.at = "unlatch", !.missing = ~table]
             /\ UNCHANGED <<entries, index, kv, night, faults, drifted, late>>

RepairUnlatch ==
    /\ repair.at = "unlatch"
    /\ \/ ready' = FALSE /\ repair' = [repair EXCEPT !.at = "rewind"]
       \/ UNCHANGED ready /\ repair' = [repair EXCEPT !.at = "rewind", !.kvOk = FALSE]
    /\ UNCHANGED <<entries, index, cursor, window, night, faults, drifted, late>>

RepairRewind ==
    /\ repair.at = "rewind"
    /\ \/ cursor' = 0 /\ repair' = [repair EXCEPT !.at = "ddl"]
       \/ UNCHANGED cursor /\ repair' = [repair EXCEPT !.at = "ddl", !.kvOk = FALSE]
    /\ UNCHANGED <<entries, index, ready, window, night, faults, drifted, late>>

(* A missing table comes back with its triggers, unless another isolate was    *)
(* there first (CREATE TRIGGER IF NOT EXISTS leaves one of another body); in   *)
(* every other case the triggers go, and nobody uses the index.                *)
RepairDdl ==
    /\ repair.at = "ddl"
    /\ repair' = Quiet
    /\ IF repair.missing /\ repair.kvOk
         THEN IF table THEN UNCHANGED <<index, late>>
              ELSE /\ table' = TRUE /\ fts' = Empty /\ torn' = FALSE
                   /\ triggers' \in {"exact", IF triggers = "none" THEN "exact" ELSE triggers}
                   /\ late' = (late \/ repair.struck)
         ELSE triggers' = "none" /\ UNCHANGED <<table, fts, torn, late>>
    /\ UNCHANGED <<entries, kv, night, faults, drifted>>

(* The night. runFtsMaintenance: not live, or not readable, means a rebuild.   *)
Look == /\ night.at = "asleep"
        /\ At(IF FtsLive THEN "probe" ELSE "unlatch")
        /\ UNCHANGED <<entries, index, kv, repair, faults, drifted, late>>

Probe == /\ night.at = "probe"
         /\ At(IF ~Readable THEN "unlatch" ELSE IF ready THEN "count" ELSE "page")
         /\ UNCHANGED <<entries, index, kv, repair, faults, drifted, late>>

(* rebuildFtsIndex: the keys first, then everything anew in one batch.         *)
RebuildUnlatch == /\ night.at = "unlatch"
                  /\ ready' = FALSE /\ At("rewind")
                  /\ UNCHANGED <<entries, index, cursor, window, repair, faults, drifted, late>>

RebuildRewind == /\ night.at = "rewind"
                 /\ cursor' = 0 /\ At("ddl")
                 /\ UNCHANGED <<entries, index, ready, window, repair, faults, drifted, late>>

RebuildDdl == /\ night.at = "ddl"
              /\ table' = TRUE /\ triggers' = "exact" /\ torn' = FALSE /\ fts' = Empty
              /\ At("page")
              /\ UNCHANGED <<entries, kv, repair, faults, drifted, late>>

(* backfillStep: a page of rowids behind the cursor.                           *)
ReadPage ==
    /\ night.at = "page"
    /\ LET beyond == {r \in Stored(entries) : r > cursor}
           page == {r \in beyond : Cardinality({s \in beyond : s <= r}) <= Page}
       IN IF page = {} THEN At("parity")
          ELSE night' = [night EXCEPT !.at = "fill", !.from = cursor, !.to = Highest(page),
                                      !.seen = Cardinality(page)]
    /\ UNCHANGED <<entries, index, kv, repair, faults, drifted, late>>

Refill(rowids) == fts' = [r \in Rowids |-> IF r \in rowids THEN entries[r] ELSE fts[r]]

(* A batch on an index that is gone throws, and the night is over.             *)
Throw == /\ night.at \in {"fill", "parity", "count", "compare", "orphans", "review", "reindex"}
         /\ ~Readable
         /\ night' = Asleep
         /\ UNCHANGED <<entries, index, kv, repair, faults, drifted, late>>

Fill == /\ night.at = "fill" /\ Readable
        /\ Refill({r \in Rowids : r > night.from /\ r <= night.to})
        /\ At("advance")
        /\ UNCHANGED <<entries, table, triggers, torn, kv, repair, faults, drifted, late>>

Advance == /\ night.at = "advance"
           /\ cursor' = night.to
           /\ IF night.seen < Page THEN At("parity") ELSE night' = Asleep
           /\ UNCHANGED <<entries, index, ready, window, repair, faults, drifted, late>>

MutParity ==    \* the cursor found no more rows, and that is enough
    /\ night.at = "parity" /\ Readable
    /\ night' = [night EXCEPT !.at = IF FtsLive THEN "latch" ELSE "restart"]
    /\ UNCHANGED <<entries, index, kv, repair, faults, drifted, late>>

(* readyLatchAllowed, one batch.                                               *)
Parity == /\ night.at = "parity" /\ Readable
          /\ At(IF FtsLive /\ InStep THEN "latch" ELSE "restart")
          /\ UNCHANGED <<entries, index, kv, repair, faults, drifted, late>>

Latch == /\ night.at = "latch"
         /\ ready' = TRUE
         /\ drifted' = FALSE /\ late' = night.struck
         /\ night' = Asleep
         /\ UNCHANGED <<entries, index, cursor, window, repair, faults>>

MutRestart ==    \* the next night goes on behind the last page
    /\ night.at = "restart" /\ night' = Asleep
    /\ UNCHANGED <<entries, index, kv, repair, faults, drifted, late>>

Restart == /\ night.at = "restart"
           /\ cursor' = 0 /\ night' = Asleep
           /\ UNCHANGED <<entries, index, ready, window, repair, faults, drifted, late>>

(* checkFtsIntegrity: the two counts are read one after the other; then the    *)
(* newest row.                                                                 *)
Count == /\ night.at = "count" /\ Readable
         /\ night' = [night EXCEPT !.at = "compare", !.seen = Cardinality(Stored(fts)),
                                   !.to = Highest(Stored(entries))]
         /\ UNCHANGED <<entries, index, kv, repair, faults, drifted, late>>

Compare == /\ night.at = "compare" /\ Readable
           /\ At(IF /\ Cardinality(Stored(entries)) = night.seen
                    /\ \A r \in Stored(entries) : r = Highest(Stored(entries)) => fts[r] # Absent
                 THEN "review" ELSE "orphans")
           /\ UNCHANGED <<entries, index, kv, repair, faults, drifted, late>>

DeleteOrphans == /\ night.at = "orphans" /\ Readable
                 /\ Refill(Rowids \ Stored(entries)) /\ At("again")
                 /\ UNCHANGED <<entries, table, triggers, torn, kv, repair, faults, drifted, late>>

StartAgain == /\ night.at = "again"
              /\ cursor' = 0 /\ At("unready")
              /\ UNCHANGED <<entries, index, ready, window, repair, faults, drifted, late>>

Unready == /\ night.at = "unready"
           /\ ready' = FALSE /\ night' = Asleep
           /\ UNCHANGED <<entries, index, cursor, window, repair, faults, drifted, late>>

InWindow(r) == r > window /\ r <= window + Window

(* rotateContentCheck: rows of the window that differ are indexed again as     *)
(* they are by then.                                                           *)
Review == /\ night.at = "review" /\ Readable
          /\ LET differing == {r \in Stored(entries) : InWindow(r) /\ fts[r] # entries[r]}
             IN night' = [night EXCEPT !.at = IF differing = {} THEN "turn" ELSE "reindex",
                                       !.stale = differing]
          /\ UNCHANGED <<entries, index, kv, repair, faults, drifted, late>>

Reindex == /\ night.at = "reindex" /\ Readable
           /\ Refill(night.stale) /\ At("turn")
           /\ UNCHANGED <<entries, table, triggers, torn, kv, repair, faults, drifted, late>>

Turn == /\ night.at = "turn"
        /\ window' = IF window + Window >= night.to THEN 0 ELSE window + Window
        /\ night' = Asleep
        /\ UNCHANGED <<entries, index, ready, cursor, repair, faults, drifted, late>>

(* What goes wrong outside: the table is lost, a trigger is another one, the   *)
(* index is corrupt, or a row of it is not what it was.                        *)
Strike == /\ faults < IndexFaults /\ faults' = faults + 1
          /\ night' = [night EXCEPT !.struck = night.at = "latch"]
          /\ repair' = [repair EXCEPT !.struck = repair.at \in {"rewind", "ddl"}]
          /\ UNCHANGED <<entries, kv, late>>

LoseTable == /\ table /\ table' = FALSE /\ fts' = Empty /\ torn' = FALSE
             /\ UNCHANGED <<triggers, drifted>> /\ Strike
Tamper == /\ triggers = "exact" /\ triggers' = "other"
          /\ UNCHANGED <<fts, table, torn, drifted>> /\ Strike
Tear == /\ Readable /\ torn' = TRUE
        /\ UNCHANGED <<fts, table, triggers, drifted>> /\ Strike
Drift(r) == /\ table /\ \E c \in Contents \cup {Absent} : c # fts[r] /\ fts' = [fts EXCEPT ![r] = c]
            /\ drifted' = TRUE
            /\ UNCHANGED <<table, triggers, torn>> /\ Strike

Kill == /\ faults < IndexFaults /\ faults' = faults + 1
        /\ \/ night.at # "asleep" /\ night' = Asleep /\ UNCHANGED repair
           \/ repair.at # "idle" /\ repair' = Quiet /\ UNCHANGED night
        /\ UNCHANGED <<entries, index, kv, drifted, late>>

Night == \/ Look \/ Probe \/ RebuildUnlatch \/ RebuildRewind \/ RebuildDdl \/ ReadPage \/ Throw
         \/ Fill \/ Advance \/ Parity \/ Latch \/ Restart \/ Count \/ Compare \/ DeleteOrphans
         \/ StartAgain \/ Unready \/ Review \/ Reindex \/ Turn
Repair == RepairUnlatch \/ RepairRewind \/ RepairDdl
Next == \/ \E r \in Rowids, c \in Contents \cup {Absent} : Write(r, c)
        \/ FailWrite \/ Repair \/ Night
        \/ LoseTable \/ Tamper \/ Tear \/ Kill
        \/ \E r \in Rowids : Drift(r)

Spec == Init /\ [][Next]_vars
(* The cron comes every night. *)
Fairness == WF_vars(Night)

--------------------------------------------------------------------------------
TypeOK ==
    /\ {entries, fts} \subseteq [Rowids -> Contents \cup {Absent}]
    /\ table \in BOOLEAN /\ triggers \in {"exact", "other", "none"} /\ torn \in BOOLEAN
    /\ ready \in BOOLEAN /\ {cursor, window} \subseteq Nat
    /\ faults \in 0..IndexFaults /\ drifted \in BOOLEAN /\ late \in BOOLEAN

(* After the last fault the index comes back, whatever is written meanwhile,   *)
(* if only nothing is written between the two counts night after night; but a  *)
(* row of the index behind the last entry, left there while it was being       *)
(* filled, keeps the latch from ever being set.                                *)
Stranded == ~ready /\ \E r \in Stored(fts) : r > Highest(Stored(entries))
ComesBack == <>[][night.at = "compare" => UNCHANGED entries]_vars
             => []<>(ready /\ FtsLive /\ InStep) \/ <>[]Stranded
================================================================================
