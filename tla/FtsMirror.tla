------------------------------- MODULE FtsMirror -------------------------------
(* The full-text mirror of entries and the latch under which recall uses it,   *)
(* from db/fts-backfill.ts and recall/fts.ts, and what is promised of it       *)
(* whatever writes, repairs and nights do.                                     *)
EXTENDS Naturals, FiniteSets

CONSTANTS Rowids,      \* 1..n
          Contents, Absent,
          Page,        \* FTS_BACKFILL_BATCH
          Window,      \* FTS_CONTENT_CHECK_WINDOW
          IndexFaults  \* bound on lost tables, torn indexes, drifts and killed Workers

ASSUME MirrorAssumption ==
    /\ IsFiniteSet(Rowids) /\ Rowids = 1..Cardinality(Rowids)
    /\ Absent \notin Contents
    /\ Page \in Nat /\ Window \in Nat /\ IndexFaults \in Nat

VARIABLES entries, fts,          \* what is stored under each rowid
          table, triggers, torn, \* sqlite_master, and whether entries_fts is corrupt
          ready,                 \* the KV key of the latch
          drifted, late          \* history

FtsLive == table /\ triggers = "exact"
InStep == fts = entries

(* An index that is live and whose latch in KV is set has every entry as it    *)
(* is: no interleaving of writes, repairs, pages and latches leaves it with    *)
(* holes (line 43). An isolate that read the latch goes by it for five minutes *)
(* more (recall/fts.ts:62), of which this says nothing. Left out: an index     *)
(* whose rows were changed from outside since the latch, and a latch or a new  *)
(* table behind a fault that struck between the parity check, or the clearing  *)
(* of the latch, and it.                                                       *)
ServedIsComplete == ready /\ FtsLive /\ ~drifted /\ ~late => InStep
================================================================================
