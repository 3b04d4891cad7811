----------------------------- MODULE MigratedRows -----------------------------
(* The entries that an embedding migration moves to a new index, the write     *)
(* lock under which its last pass runs, and what is promised when that lock is *)
(* marked complete, from migration/embedding.ts and migration/write-lock.ts.   *)
EXTENDS Naturals, FiniteSets

CONSTANTS Ids,        \* entry ids, 1..n
          Batches,    \* calls of /migration/run, one after the other under each name
          MaxEntries, \* MIGRATION_MAX_ENTRIES_PER_BATCH
          MaxTime, MaxLocks, MaxChanges, \* bounds: the clock, locks, the Worker's writes
          Nothing     \* no row, no ledger, no lock, no lease

EntryRow == [created : 1..MaxTime, updated : 1..MaxTime, indexable : BOOLEAN,
             vec : {"none", "old", "new"}]
MigrationLedger == [started : 1..MaxTime, cursor : Nat \X Nat, finished : BOOLEAN,
                    deltaCursor : Nat \X Nat, deltaOwner : 0..MaxLocks]
WriteLock == [owner : 1..MaxLocks, lease : Batches \cup {Nothing}, complete : BOOLEAN]

ASSUME MigrationAssumption ==
    /\ IsFiniteSet(Ids) /\ Ids \subseteq Nat \ {0}
    /\ MaxEntries \in Nat /\ MaxTime \in Nat \ {0} /\ MaxLocks \in Nat /\ MaxChanges \in Nat
    /\ Nothing \notin EntryRow /\ Nothing \notin MigrationLedger /\ Nothing \notin WriteLock

VARIABLES rows,       \* entries: creation, update, indexable, and the index its vector_ids
                      \* are from: "none" of them, the "old" one or the "new"
          lock,       \* the write lock: owner, final-delta lease, completed
          returned    \* history: entries that came back, indexed, under an old update time

Indexable == {i \in Ids : rows[i] # Nothing /\ rows[i].indexable}

(* Once the final pass has marked the lock complete, every entry that belongs  *)
(* in the index is in the new one with the content it has: whatever was        *)
(* captured, imported, edited or withdrawn around the cursors, from whatever   *)
(* ledger a batch went on, and whichever of two batches put its own last       *)
(* ("re-embed rows captured or edited since the full scan began"). Entries     *)
(* that were indexed again under an old update time are left out: neither scan *)
(* need meet them.                                                             *)
CompleteMeansRebuilt ==
    lock # Nothing /\ lock.complete => \A i \in Indexable \ returned : rows[i].vec = "new"
================================================================================
