------------------------------ MODULE IndexProofs ------------------------------
(* Theorems about the indexes that recall uses: the full-text mirror of the    *)
(* entries (FtsIndex), the rows of the embedding migration                     *)
(* (EmbeddingMigration) and the vectors of a memory with the journal of their  *)
(* deletions (VectorOutbox).                                                   *)
EXTENDS VectorOutbox, FtsMirror, MigratedRows, FiniteSetTheorems, WellFoundedInduction, TLAPS

VARIABLES cursor, window, night, repair, indexFaults,
          ledger, older, batch, clock, locks, changes

Index == INSTANCE FtsIndex WITH faults <- indexFaults
Migration == INSTANCE EmbeddingMigration

(* An instance has a Cardinality of its own, which is the same. *)
LEMMA IndexCardinality ==
  ASSUME NEW S
  PROVE  Index!Cardinality(S) = Cardinality(S)
  BY DEF Index!Cardinality, Cardinality, Index!IsFiniteSet, IsFiniteSet

LEMMA LowestExists ==
  ASSUME NEW S, S \subseteq Nat, S # {}
  PROVE  \E e \in S : \A f \in S : e <= f
  <1> DEFINE R == OpToRel(<, Nat)
  <1>1. IsWellFoundedOn(R, Nat)
    BY NatLessThanWellFounded
  <1>2. \A x, y \in Nat : <<y, x>> \in R <=> y < x
    BY DEF OpToRel
  <1> HIDE DEF R
  <1>3. PICK x \in S : \A y \in S : ~(<<y, x>> \in R)
    BY <1>1, WFMin
  <1>4. ASSUME NEW y \in S PROVE x <= y
    <2>1. x \in Nat /\ y \in Nat /\ ~(y < x)
      BY <1>2, <1>3
    <2> QED
      BY <2>1
  <1> QED
    BY <1>4

--------------------------------------------------------------------------------
(* The full-text index.                                                        *)

(* The highest of a set of rowids is one of them, and a number in any case.    *)
LEMMA HighestType ==
  ASSUME NEW S, S \subseteq Rowids
  PROVE  Index!Highest(S) \in Nat
  <1>1. CASE S = {}
    BY <1>1 DEF Index!Highest
  <1>2. CASE S # {}
    <2> DEFINE n == Cardinality(Rowids)
               T == {n - r : r \in S}
    <2>1. n \in Nat /\ Rowids = 1..n
      BY MirrorAssumption, FS_CardinalityType
    <2> HIDE DEF n
    <2>2. \A r \in S : r \in Nat /\ r <= n
      BY <2>1
    <2>3. T \subseteq Nat /\ T # {}
      <3>1. \A r \in S : n - r \in Nat
        BY <2>1, <2>2
      <3> QED
        BY <1>2, <3>1
    <2>4. PICK t \in T : \A u \in T : t <= u
      BY <2>3, LowestExists
    <2>5. PICK r \in S : t = n - r
      BY <2>4
    <2>6. \A s \in S : s <= r
      <3>1. \A s \in S : n - r <= n - s
        BY <2>4, <2>5
      <3> QED
        BY <2>1, <2>2, <3>1
    <2>7. Index!Highest(S) \in S
      BY <1>2, <2>6 DEF Index!Highest
    <2> QED
      BY <2>2, <2>7
  <1> QED
    BY <1>1, <1>2

(* Where a night and a repair can be, and what they carry.                     *)
Night == [at : {"asleep", "probe", "unlatch", "rewind", "ddl", "page", "fill", "advance", "parity",
                "latch", "restart", "count", "compare", "orphans", "again", "unready", "review",
                "reindex", "turn"},
          from : Nat, to : Nat, seen : Nat, stale : SUBSET Rowids, struck : BOOLEAN]
Repair == [at : {"idle", "unlatch", "rewind", "ddl"}, missing : BOOLEAN, kvOk : BOOLEAN,
           struck : BOOLEAN]

(* The inductive invariant. Whoever is about to make the index anew has        *)
(* cleared the latch: a night since it cleared it, unless it latches itself,   *)
(* and a repair until a night latches, which is then over a table that is      *)
(* there. Between the parity check and the latch only a fault takes the index  *)
(* out of step.                                                                *)
Types == Index!TypeOK /\ night \in Night /\ repair \in Repair
RebuildsUnready == night.at \in {"rewind", "ddl"} => ~ready
LatchesInStep == night.at = "latch" /\ ~night.struck => table /\ (FtsLive => InStep)
RepairsUnready == repair.at \in {"rewind", "ddl"} /\ repair.missing /\ repair.kvOk /\ ~repair.struck
                    => table \/ ~ready \/ late
IndexInv == Types /\ RebuildsUnready /\ LatchesInStep /\ RepairsUnready /\ ServedIsComplete

LEMMA NightTypes ==
  ASSUME NEW n \in Night, NEW b \in BOOLEAN
  PROVE  Index!Asleep \in Night /\ [n EXCEPT !.struck = b] \in Night
  BY DEF Night, Index!Asleep

LEMMA RepairTypes ==
  ASSUME NEW n \in Repair, NEW b \in BOOLEAN
  PROVE  Index!Quiet \in Repair /\ [n EXCEPT !.struck = b] \in Repair
  BY DEF Repair, Index!Quiet

LEMMA StrikeTypes ==
  ASSUME Types, Index!Strike
  PROVE  night' \in Night /\ repair' \in Repair
  <1> DEFINE a == night.at = "latch"
             b == repair.at \in {"rewind", "ddl"}
  <1>1. a \in BOOLEAN /\ b \in BOOLEAN
    OBVIOUS
  <1>2. night' = [night EXCEPT !.struck = a] /\ repair' = [repair EXCEPT !.struck = b]
    BY DEF Index!Strike
  <1> HIDE DEF a, b
  <1>3. night \in Night /\ repair \in Repair
    BY DEF Types
  <1> QED
    BY <1>1, <1>2, <1>3, NightTypes, RepairTypes

(* What the full-text table and the entries can be, as facts of their own.     *)
LEMMA MirrorTypes ==
  ASSUME Types
  PROVE  /\ entries \in [Rowids -> Contents \cup {Absent}] /\ fts \in [Rowids -> Contents \cup {Absent}]
         /\ cursor \in Nat /\ window \in Nat
  BY DEF Types, Index!TypeOK

LEMMA IndexInitially == Index!Init => IndexInv
  <1> SUFFICES ASSUME Index!Init PROVE IndexInv
    OBVIOUS
  <1>1. Index!Empty \in [Rowids -> Contents \cup {Absent}]
    BY DEF Index!Empty
  <1>2. Index!TypeOK
    <2>1. entries \in [Rowids -> Contents \cup {Absent}] /\ fts \in [Rowids -> Contents \cup {Absent}]
      BY <1>1 DEF Index!Init
    <2>2. /\ table \in BOOLEAN /\ triggers \in {"exact", "other", "none"} /\ torn \in BOOLEAN
          /\ ready \in BOOLEAN /\ cursor \in Nat /\ window \in Nat
          /\ indexFaults \in 0..IndexFaults /\ drifted \in BOOLEAN /\ late \in BOOLEAN
      <3>1. table = TRUE /\ torn = FALSE /\ ready = FALSE /\ drifted = FALSE /\ late = FALSE
        BY DEF Index!Init
      <3>2. triggers = "exact" /\ cursor = 0 /\ window = 0 /\ indexFaults = 0
        BY DEF Index!Init
      <3>3. /\ table \in BOOLEAN /\ torn \in BOOLEAN /\ ready \in BOOLEAN
            /\ drifted \in BOOLEAN /\ late \in BOOLEAN
        BY ONLY <3>1
      <3>4. IndexFaults \in Nat
        BY MirrorAssumption
      <3>5. triggers \in {"exact", "other", "none"} /\ cursor \in Nat /\ window \in Nat /\ indexFaults \in 0..IndexFaults
        BY <3>2, <3>4
      <3> QED
        BY <3>3, <3>5
    <2> QED
      BY <2>1, <2>2 DEF Index!TypeOK
  <1>3. night \in Night /\ repair \in Repair
    BY DEF Index!Init, Index!Asleep, Index!Quiet, Night, Repair
  <1>4. RebuildsUnready /\ LatchesInStep /\ RepairsUnready /\ ServedIsComplete
    BY DEF Index!Init, Index!Asleep, Index!Quiet, RebuildsUnready, LatchesInStep, RepairsUnready,
           ServedIsComplete
  <1> QED
    BY <1>2, <1>3, <1>4 DEF IndexInv, Types

LEMMA IndexStep == IndexInv /\ [Index!Next]_(Index!vars) => IndexInv'
  <1> SUFFICES ASSUME IndexInv, [Index!Next]_(Index!vars) PROVE IndexInv'
    OBVIOUS
  <1> USE MirrorAssumption
  <1>1. ASSUME NEW r \in Rowids, NEW c \in Contents \cup {Absent}, Index!Write(r, c)
       PROVE  IndexInv'
    <2>a. Types
      BY DEF IndexInv
    <2>1. Index!TypeOK'
      <3>1. entries' \in [Rowids -> Contents \cup {Absent}]
        BY <1>1, <2>a, MirrorTypes DEF Index!Write
      <3>2. fts' \in [Rowids -> Contents \cup {Absent}]
        <4>1. CASE fts' = [fts EXCEPT ![r] = c]
          BY <1>1, <2>a, <4>1, MirrorTypes
        <4>2. CASE fts' = fts
          BY <2>a, <4>2, MirrorTypes
        <4>3. triggers \in {"exact", "other", "none"}
          BY <2>a DEF Types, Index!TypeOK
        <4> QED
          BY <1>1, <4>1, <4>2, <4>3 DEF Index!Write
      <3>3. UNCHANGED <<table, triggers, torn, ready, cursor, window, indexFaults, drifted, late>>
        BY <1>1 DEF Index!Write, Index!kv
      <3> QED
        BY <2>a, <3>1, <3>2, <3>3 DEF Types, Index!TypeOK
    <2>2. night' \in Night /\ repair' \in Repair
      BY <1>1 DEF IndexInv, Types, Index!TypeOK, Night, Repair, Index!Write, Index!index,
             Index!kv, Index!Readable, Index!index, Index!kv
    <2>3. RebuildsUnready' /\ LatchesInStep' /\ RepairsUnready' /\ ServedIsComplete'
      BY <1>1 DEF IndexInv, Types, Index!TypeOK, Night, Repair, RebuildsUnready, LatchesInStep,
             RepairsUnready, ServedIsComplete, FtsLive, InStep, Index!FtsLive, Index!InStep,
             Index!Write, Index!index, Index!kv, Index!Readable, Index!index, Index!kv
    <2> QED
      BY <2>1, <2>2, <2>3 DEF IndexInv, Types
  <1>2. CASE Index!FailWrite
    <2>1. Index!TypeOK'
      BY <1>2 DEF IndexInv, Types, Index!TypeOK, Night, Index!FailWrite, Index!Readable,
             Index!Quiet, Index!index, Index!kv
    <2>2. night' \in Night /\ repair' \in Repair
      BY <1>2 DEF IndexInv, Types, Index!TypeOK, Night, Repair, Index!FailWrite, Index!Readable,
             Index!Quiet, Index!index, Index!kv
    <2>3. RebuildsUnready' /\ LatchesInStep' /\ RepairsUnready' /\ ServedIsComplete'
      BY <1>2 DEF IndexInv, Types, Index!TypeOK, Night, Repair, RebuildsUnready, LatchesInStep,
             RepairsUnready, ServedIsComplete, FtsLive, InStep, Index!FtsLive, Index!InStep,
             Index!FailWrite, Index!Readable, Index!Quiet, Index!index, Index!kv
    <2> QED
      BY <2>1, <2>2, <2>3 DEF IndexInv, Types
  <1>3. CASE Index!RepairUnlatch
    <2>1. Index!TypeOK'
      BY <1>3 DEF IndexInv, Types, Index!TypeOK, Night, Index!RepairUnlatch, Index!index,
             Index!kv
    <2>2. night' \in Night /\ repair' \in Repair
      BY <1>3 DEF IndexInv, Types, Index!TypeOK, Night, Repair, Index!RepairUnlatch,
             Index!index, Index!kv
    <2>3. RebuildsUnready' /\ LatchesInStep' /\ RepairsUnready' /\ ServedIsComplete'
      <3>1. RebuildsUnready'
        BY <1>3 DEF IndexInv, Types, Index!TypeOK, Repair, RebuildsUnready, FtsLive, InStep,
               Index!FtsLive, Index!InStep, Index!RepairUnlatch, Index!index, Index!kv
      <3>2. LatchesInStep'
        BY <1>3 DEF IndexInv, Types, Index!TypeOK, Repair, LatchesInStep, FtsLive, InStep,
               Index!FtsLive, Index!InStep, Index!RepairUnlatch, Index!index, Index!kv
      <3>3. RepairsUnready'
        BY <1>3 DEF IndexInv, Types, Index!TypeOK, Repair, RepairsUnready, FtsLive, InStep,
               Index!FtsLive, Index!InStep, Index!RepairUnlatch, Index!index, Index!kv
      <3>4. ServedIsComplete'
        BY <1>3 DEF IndexInv, Types, Index!TypeOK, Repair, ServedIsComplete, FtsLive, InStep,
               Index!FtsLive, Index!InStep, Index!RepairUnlatch, Index!index, Index!kv
      <3> QED
        BY <3>1, <3>2, <3>3, <3>4
    <2> QED
      BY <2>1, <2>2, <2>3 DEF IndexInv, Types
  <1>4. CASE Index!RepairRewind
    <2>1. Index!TypeOK'
      BY <1>4 DEF IndexInv, Types, Index!TypeOK, Night, Index!RepairRewind, Index!index,
             Index!kv
    <2>2. night' \in Night /\ repair' \in Repair
      BY <1>4 DEF IndexInv, Types, Index!TypeOK, Night, Repair, Index!RepairRewind, Index!index,
             Index!kv
    <2>3. RebuildsUnready' /\ LatchesInStep' /\ RepairsUnready' /\ ServedIsComplete'
      BY <1>4 DEF IndexInv, Types, Index!TypeOK, Night, Repair, RebuildsUnready, LatchesInStep,
             RepairsUnready, ServedIsComplete, FtsLive, InStep, Index!FtsLive, Index!InStep,
             Index!RepairRewind, Index!index, Index!kv
    <2> QED
      BY <2>1, <2>2, <2>3 DEF IndexInv, Types
  <1>5. CASE Index!RepairDdl
    <2>a. Types
      BY DEF IndexInv
    <2>1. Index!TypeOK'
      <3>1. Index!Empty \in [Rowids -> Contents \cup {Absent}]
        BY DEF Index!Empty
      <3>2. fts' \in [Rowids -> Contents \cup {Absent}] /\ entries' = entries
        BY <1>5, <2>a, <3>1, MirrorTypes DEF Index!RepairDdl, Index!index
      <3>3. table' \in BOOLEAN /\ torn' \in BOOLEAN /\ late' \in BOOLEAN /\ triggers' \in {"exact", "other", "none"}
        BY <1>5, <2>a DEF Index!RepairDdl, Index!index, Types, Index!TypeOK
      <3>4. UNCHANGED <<ready, cursor, window, indexFaults, drifted>>
        BY <1>5 DEF Index!RepairDdl, Index!kv
      <3>5. entries' \in [Rowids -> Contents \cup {Absent}]
        BY <2>a, <3>2, MirrorTypes
      <3> QED
        BY <2>a, <3>2, <3>3, <3>4, <3>5 DEF Types, Index!TypeOK
    <2>2. night' \in Night /\ repair' \in Repair
      BY <1>5 DEF IndexInv, Types, Index!TypeOK, Night, Repair, Index!RepairDdl, Index!Quiet,
             Index!Empty, Index!index, Index!kv
    <2>3. RebuildsUnready' /\ LatchesInStep' /\ RepairsUnready' /\ ServedIsComplete'
      BY <1>5 DEF IndexInv, Types, Index!TypeOK, Night, Repair, RebuildsUnready, LatchesInStep,
             RepairsUnready, ServedIsComplete, FtsLive, InStep, Index!FtsLive, Index!InStep,
             Index!RepairDdl, Index!Quiet, Index!Empty, Index!index, Index!kv
    <2> QED
      BY <2>1, <2>2, <2>3 DEF IndexInv, Types
  <1>6. CASE Index!Look
    <2>1. Index!TypeOK'
      BY <1>6 DEF IndexInv, Types, Index!TypeOK, Night, Index!Look, Index!At, Index!index,
             Index!kv
    <2>2. night' \in Night /\ repair' \in Repair
      BY <1>6 DEF IndexInv, Types, Index!TypeOK, Night, Repair, Index!Look, Index!At,
             Index!index, Index!kv
    <2>3. RebuildsUnready' /\ LatchesInStep' /\ RepairsUnready' /\ ServedIsComplete'
      BY <1>6 DEF IndexInv, Types, Index!TypeOK, Night, Repair, RebuildsUnready, LatchesInStep,
             RepairsUnready, ServedIsComplete, FtsLive, InStep, Index!FtsLive, Index!InStep,
             Index!Look, Index!At, Index!index, Index!kv
    <2> QED
      BY <2>1, <2>2, <2>3 DEF IndexInv, Types
  <1>7. CASE Index!Probe
    <2>1. Index!TypeOK'
      BY <1>7 DEF IndexInv, Types, Index!TypeOK, Night, Index!Probe, Index!At, Index!Readable,
             Index!index, Index!kv
    <2>2. night' \in Night /\ repair' \in Repair
      BY <1>7 DEF IndexInv, Types, Index!TypeOK, Night, Repair, Index!Probe, Index!At,
             Index!Readable, Index!index, Index!kv
    <2>3. RebuildsUnready' /\ LatchesInStep' /\ RepairsUnready' /\ ServedIsComplete'
      BY <1>7 DEF IndexInv, Types, Index!TypeOK, Night, Repair, RebuildsUnready, LatchesInStep,
             RepairsUnready, ServedIsComplete, FtsLive, InStep, Index!FtsLive, Index!InStep,
             Index!Probe, Index!At, Index!Readable, Index!index, Index!kv
    <2> QED
      BY <2>1, <2>2, <2>3 DEF IndexInv, Types
  <1>8. CASE Index!RebuildUnlatch
    <2>1. Index!TypeOK'
      BY <1>8 DEF IndexInv, Types, Index!TypeOK, Night, Index!RebuildUnlatch, Index!At,
             Index!index, Index!kv
    <2>2. night' \in Night /\ repair' \in Repair
      BY <1>8 DEF IndexInv, Types, Index!TypeOK, Night, Repair, Index!RebuildUnlatch, Index!At,
             Index!index, Index!kv
    <2>3. RebuildsUnready' /\ LatchesInStep' /\ RepairsUnready' /\ ServedIsComplete'
      BY <1>8 DEF IndexInv, Types, Index!TypeOK, Night, Repair, RebuildsUnready, LatchesInStep,
             RepairsUnready, ServedIsComplete, FtsLive, InStep, Index!FtsLive, Index!InStep,
             Index!RebuildUnlatch, Index!At, Index!index, Index!kv
    <2> QED
      BY <2>1, <2>2, <2>3 DEF IndexInv, Types
  <1>9. CASE Index!RebuildRewind
    <2>1. Index!TypeOK'
      BY <1>9 DEF IndexInv, Types, Index!TypeOK, Night, Index!RebuildRewind, Index!At,
             Index!index, Index!kv
    <2>2. night' \in Night /\ repair' \in Repair
      BY <1>9 DEF IndexInv, Types, Index!TypeOK, Night, Repair, Index!RebuildRewind, Index!At,
             Index!index, Index!kv
    <2>3. RebuildsUnready' /\ LatchesInStep' /\ RepairsUnready' /\ ServedIsComplete'
      BY <1>9 DEF IndexInv, Types, Index!TypeOK, Night, Repair, RebuildsUnready, LatchesInStep,
             RepairsUnready, ServedIsComplete, FtsLive, InStep, Index!FtsLive, Index!InStep,
             Index!RebuildRewind, Index!At, Index!index, Index!kv
    <2> QED
      BY <2>1, <2>2, <2>3 DEF IndexInv, Types
  <1>10. CASE Index!RebuildDdl
    <2>1. Index!TypeOK'
      BY <1>10 DEF IndexInv, Types, Index!TypeOK, Night, Index!RebuildDdl, Index!At,
             Index!Empty, Index!index, Index!kv
    <2>2. night' \in Night /\ repair' \in Repair
      BY <1>10 DEF IndexInv, Types, Index!TypeOK, Night, Repair, Index!RebuildDdl, Index!At,
             Index!Empty, Index!index, Index!kv
    <2>3. RebuildsUnready' /\ LatchesInStep' /\ RepairsUnready' /\ ServedIsComplete'
      BY <1>10 DEF IndexInv, Types, Index!TypeOK, Night, Repair, RebuildsUnready, LatchesInStep,
             RepairsUnready, ServedIsComplete, FtsLive, InStep, Index!FtsLive, Index!InStep,
             Index!RebuildDdl, Index!At, Index!Empty, Index!index, Index!kv
    <2> QED
      BY <2>1, <2>2, <2>3 DEF IndexInv, Types
  <1>11. CASE Index!ReadPage
    <2>a. Types
      BY DEF IndexInv
    <2>1. Index!TypeOK'
      BY <1>11 DEF IndexInv, Types, Index!TypeOK, Night, Index!ReadPage, Index!At, Index!Stored,
             Index!index, Index!kv
    <2>2. night' \in Night /\ repair' \in Repair
      <3> DEFINE beyond == {r \in Index!Stored(entries) : r > cursor}
                 page == {r \in beyond : Index!Cardinality({s \in beyond : s <= r}) <= Page}
      <3>1. page \subseteq Rowids
        BY DEF Index!Stored
      <3>2. Index!Highest(page) \in Nat /\ Index!Cardinality(page) \in Nat
        BY <3>1, IndexCardinality, MirrorAssumption, HighestType, FS_Subset, FS_CardinalityType
      <3>3. \/ night' = [night EXCEPT !.at = "parity"]
            \/ night' = [night EXCEPT !.at = "fill", !.from = cursor, !.to = Index!Highest(page),
                                     !.seen = Index!Cardinality(page)]
        BY <1>11 DEF Index!ReadPage, Index!At
      <3> HIDE DEF page
      <3>4. repair' = repair /\ night \in Night /\ repair \in Repair /\ cursor \in Nat
        BY <1>11, <2>a, MirrorTypes DEF Index!ReadPage, Types
      <3> QED
        BY <3>2, <3>3, <3>4 DEF Night
    <2>3. RebuildsUnready' /\ LatchesInStep' /\ RepairsUnready' /\ ServedIsComplete'
      BY <1>11 DEF IndexInv, Types, Index!TypeOK, Night, Repair, RebuildsUnready, LatchesInStep,
             RepairsUnready, ServedIsComplete, FtsLive, InStep, Index!FtsLive, Index!InStep,
             Index!ReadPage, Index!At, Index!Stored, Index!index, Index!kv
    <2> QED
      BY <2>1, <2>2, <2>3 DEF IndexInv, Types
  <1>12. CASE Index!Throw
    <2>1. Index!TypeOK'
      BY <1>12 DEF IndexInv, Types, Index!TypeOK, Night, Index!Throw, Index!Asleep, Index!index,
             Index!kv
    <2>2. night' \in Night /\ repair' \in Repair
      BY <1>12 DEF IndexInv, Types, Index!TypeOK, Night, Repair, Index!Throw, Index!Asleep,
             Index!index, Index!kv
    <2>3. RebuildsUnready' /\ LatchesInStep' /\ RepairsUnready' /\ ServedIsComplete'
      BY <1>12 DEF IndexInv, Types, Index!TypeOK, Night, Repair, RebuildsUnready, LatchesInStep,
             RepairsUnready, ServedIsComplete, FtsLive, InStep, Index!FtsLive, Index!InStep,
             Index!Throw, Index!Asleep, Index!index, Index!kv
    <2> QED
      BY <2>1, <2>2, <2>3 DEF IndexInv, Types
  <1>13. CASE Index!Fill
    <2>1. Index!TypeOK'
      BY <1>13 DEF IndexInv, Types, Index!TypeOK, Night, Index!Fill, Index!At, Index!Refill,
             Index!index, Index!kv
    <2>2. night' \in Night /\ repair' \in Repair
      BY <1>13 DEF IndexInv, Types, Index!TypeOK, Night, Repair, Index!Fill, Index!At,
             Index!Refill, Index!index, Index!kv
    <2>3. RebuildsUnready' /\ LatchesInStep' /\ RepairsUnready' /\ ServedIsComplete'
      BY <1>13 DEF IndexInv, Types, Index!TypeOK, Night, Repair, RebuildsUnready, LatchesInStep,
             RepairsUnready, ServedIsComplete, FtsLive, InStep, Index!FtsLive, Index!InStep,
             Index!Fill, Index!At, Index!Refill, Index!index, Index!kv
    <2> QED
      BY <2>1, <2>2, <2>3 DEF IndexInv, Types
  <1>14. CASE Index!Advance
    <2>a. Types
      BY DEF IndexInv
    <2>1. Index!TypeOK'
      BY <1>14 DEF IndexInv, Types, Index!TypeOK, Night, Index!Advance, Index!At, Index!Asleep,
             Index!index, Index!kv
    <2>2. night' \in Night /\ repair' \in Repair
      <3>1. night' = [night EXCEPT !.at = "parity"] \/ night' = Index!Asleep
        BY <1>14 DEF Index!Advance, Index!At
      <3>2. repair' = repair /\ night \in Night /\ repair \in Repair
        BY <1>14, <2>a DEF Index!Advance, Types
      <3>3. [night EXCEPT !.at = "parity"] \in Night /\ Index!Asleep \in Night
        BY <3>2, NightTypes DEF Night
      <3> QED
        BY <3>1, <3>2, <3>3
    <2>3. RebuildsUnready' /\ LatchesInStep' /\ RepairsUnready' /\ ServedIsComplete'
      BY <1>14 DEF IndexInv, Types, Index!TypeOK, Night, Repair, RebuildsUnready, LatchesInStep,
             RepairsUnready, ServedIsComplete, FtsLive, InStep, Index!FtsLive, Index!InStep,
             Index!Advance, Index!At, Index!Asleep, Index!index, Index!kv
    <2> QED
      BY <2>1, <2>2, <2>3 DEF IndexInv, Types
  <1>15. CASE Index!Parity
    <2>1. Index!TypeOK'
      BY <1>15 DEF IndexInv, Types, Index!TypeOK, Night, Index!Parity, Index!At, Index!index,
             Index!kv
    <2>2. night' \in Night /\ repair' \in Repair
      BY <1>15 DEF IndexInv, Types, Index!TypeOK, Night, Repair, Index!Parity, Index!At,
             Index!index, Index!kv
    <2>3. RebuildsUnready' /\ LatchesInStep' /\ RepairsUnready' /\ ServedIsComplete'
      BY <1>15 DEF IndexInv, Types, Index!TypeOK, Night, Repair, RebuildsUnready, LatchesInStep,
             RepairsUnready, ServedIsComplete, FtsLive, InStep, Index!FtsLive, Index!InStep,
             Index!Parity, Index!At, Index!index, Index!kv
    <2> QED
      BY <2>1, <2>2, <2>3 DEF IndexInv, Types
  <1>16. CASE Index!Latch
    <2>1. Index!TypeOK'
      BY <1>16 DEF IndexInv, Types, Index!TypeOK, Night, Index!Latch, Index!Asleep, Index!index,
             Index!kv
    <2>2. night' \in Night /\ repair' \in Repair
      BY <1>16 DEF IndexInv, Types, Index!TypeOK, Night, Repair, Index!Latch, Index!Asleep,
             Index!index, Index!kv
    <2>3. RebuildsUnready' /\ LatchesInStep' /\ RepairsUnready' /\ ServedIsComplete'
      BY <1>16 DEF IndexInv, Types, Index!TypeOK, Night, Repair, RebuildsUnready, LatchesInStep,
             RepairsUnready, ServedIsComplete, FtsLive, InStep, Index!FtsLive, Index!InStep,
             Index!Latch, Index!Asleep, Index!index, Index!kv
    <2> QED
      BY <2>1, <2>2, <2>3 DEF IndexInv, Types
  <1>17. CASE Index!Restart
    <2>1. Index!TypeOK'
      BY <1>17 DEF IndexInv, Types, Index!TypeOK, Night, Index!Restart, Index!Asleep,
             Index!index, Index!kv
    <2>2. night' \in Night /\ repair' \in Repair
      BY <1>17 DEF IndexInv, Types, Index!TypeOK, Night, Repair, Index!Restart, Index!Asleep,
             Index!index, Index!kv
    <2>3. RebuildsUnready' /\ LatchesInStep' /\ RepairsUnready' /\ ServedIsComplete'
      BY <1>17 DEF IndexInv, Types, Index!TypeOK, Night, Repair, RebuildsUnready, LatchesInStep,
             RepairsUnready, ServedIsComplete, FtsLive, InStep, Index!FtsLive, Index!InStep,
             Index!Restart, Index!Asleep, Index!index, Index!kv
    <2> QED
      BY <2>1, <2>2, <2>3 DEF IndexInv, Types
  <1>18. CASE Index!Count
    <2>a. Types
      BY DEF IndexInv
    <2>1. Index!TypeOK'
      BY <1>18 DEF IndexInv, Types, Index!TypeOK, Night, Index!Count, Index!Stored, Index!index,
             Index!kv
    <2>2. night' \in Night /\ repair' \in Repair
      <3> DEFINE seen == Index!Cardinality(Index!Stored(fts))
                 to == Index!Highest(Index!Stored(entries))
      <3>1. Index!Stored(entries) \subseteq Rowids /\ Index!Stored(fts) \subseteq Rowids
        BY DEF Index!Stored
      <3>2. seen \in Nat /\ to \in Nat
        BY <3>1, IndexCardinality, MirrorAssumption, HighestType, FS_Subset, FS_CardinalityType
      <3>3. night' = [night EXCEPT !.at = "compare", !.seen = seen, !.to = to]
        BY <1>18 DEF Index!Count
      <3> HIDE DEF seen, to
      <3>4. repair' = repair /\ night \in Night /\ repair \in Repair
        BY <1>18, <2>a DEF Index!Count, Types
      <3> QED
        BY <3>2, <3>3, <3>4 DEF Night
    <2>3. RebuildsUnready' /\ LatchesInStep' /\ RepairsUnready' /\ ServedIsComplete'
      BY <1>18 DEF IndexInv, Types, Index!TypeOK, Night, Repair, RebuildsUnready, LatchesInStep,
             RepairsUnready, ServedIsComplete, FtsLive, InStep, Index!FtsLive, Index!InStep,
             Index!Count, Index!Stored, Index!index, Index!kv
    <2> QED
      BY <2>1, <2>2, <2>3 DEF IndexInv, Types
  <1>19. CASE Index!Compare
    <2>1. Index!TypeOK'
      BY <1>19 DEF IndexInv, Types, Index!TypeOK, Night, Index!Compare, Index!At, Index!index,
             Index!kv
    <2>2. night' \in Night /\ repair' \in Repair
      BY <1>19 DEF IndexInv, Types, Index!TypeOK, Night, Repair, Index!Compare, Index!At,
             Index!index, Index!kv
    <2>3. RebuildsUnready' /\ LatchesInStep' /\ RepairsUnready' /\ ServedIsComplete'
      BY <1>19 DEF IndexInv, Types, Index!TypeOK, Night, Repair, RebuildsUnready, LatchesInStep,
             RepairsUnready, ServedIsComplete, FtsLive, InStep, Index!FtsLive, Index!InStep,
             Index!Compare, Index!At, Index!index, Index!kv
    <2> QED
      BY <2>1, <2>2, <2>3 DEF IndexInv, Types
  <1>20. CASE Index!DeleteOrphans
    <2>1. Index!TypeOK'
      BY <1>20 DEF IndexInv, Types, Index!TypeOK, Night, Index!DeleteOrphans, Index!At,
             Index!Refill, Index!index, Index!kv
    <2>2. night' \in Night /\ repair' \in Repair
      BY <1>20 DEF IndexInv, Types, Index!TypeOK, Night, Repair, Index!DeleteOrphans, Index!At,
             Index!Refill, Index!index, Index!kv
    <2>3. RebuildsUnready' /\ LatchesInStep' /\ RepairsUnready' /\ ServedIsComplete'
      BY <1>20 DEF IndexInv, Types, Index!TypeOK, Night, Repair, RebuildsUnready, LatchesInStep,
             RepairsUnready, ServedIsComplete, FtsLive, InStep, Index!FtsLive, Index!InStep,
             Index!DeleteOrphans, Index!At, Index!Refill, Index!index, Index!kv
    <2> QED
      BY <2>1, <2>2, <2>3 DEF IndexInv, Types
  <1>21. CASE Index!StartAgain
    <2>1. Index!TypeOK'
      BY <1>21 DEF IndexInv, Types, Index!TypeOK, Night, Index!StartAgain, Index!At,
             Index!index, Index!kv
    <2>2. night' \in Night /\ repair' \in Repair
      BY <1>21 DEF IndexInv, Types, Index!TypeOK, Night, Repair, Index!StartAgain, Index!At,
             Index!index, Index!kv
    <2>3. RebuildsUnready' /\ LatchesInStep' /\ RepairsUnready' /\ ServedIsComplete'
      BY <1>21 DEF IndexInv, Types, Index!TypeOK, Night, Repair, RebuildsUnready, LatchesInStep,
             RepairsUnready, ServedIsComplete, FtsLive, InStep, Index!FtsLive, Index!InStep,
             Index!StartAgain, Index!At, Index!index, Index!kv
    <2> QED
      BY <2>1, <2>2, <2>3 DEF IndexInv, Types
  <1>22. CASE Index!Unready
    <2>1. Index!TypeOK'
      BY <1>22 DEF IndexInv, Types, Index!TypeOK, Night, Index!Unready, Index!Asleep,
             Index!index, Index!kv
    <2>2. night' \in Night /\ repair' \in Repair
      BY <1>22 DEF IndexInv, Types, Index!TypeOK, Night, Repair, Index!Unready, Index!Asleep,
             Index!index, Index!kv
    <2>3. RebuildsUnready' /\ LatchesInStep' /\ RepairsUnready' /\ ServedIsComplete'
      BY <1>22 DEF IndexInv, Types, Index!TypeOK, Night, Repair, RebuildsUnready, LatchesInStep,
             RepairsUnready, ServedIsComplete, FtsLive, InStep, Index!FtsLive, Index!InStep,
             Index!Unready, Index!Asleep, Index!index, Index!kv
    <2> QED
      BY <2>1, <2>2, <2>3 DEF IndexInv, Types
  <1>23. CASE Index!Review
    <2>1. Index!TypeOK'
      BY <1>23 DEF IndexInv, Types, Index!TypeOK, Night, Index!Review, Index!Stored,
             Index!index, Index!kv
    <2>2. night' \in Night /\ repair' \in Repair
      BY <1>23 DEF IndexInv, Types, Index!TypeOK, Night, Repair, Index!Review, Index!Stored,
             Index!index, Index!kv
    <2>3. RebuildsUnready' /\ LatchesInStep' /\ RepairsUnready' /\ ServedIsComplete'
      BY <1>23 DEF IndexInv, Types, Index!TypeOK, Night, Repair, RebuildsUnready, LatchesInStep,
             RepairsUnready, ServedIsComplete, FtsLive, InStep, Index!FtsLive, Index!InStep,
             Index!Review, Index!Stored, Index!index, Index!kv
    <2> QED
      BY <2>1, <2>2, <2>3 DEF IndexInv, Types
  <1>24. CASE Index!Reindex
    <2>1. Index!TypeOK'
      BY <1>24 DEF IndexInv, Types, Index!TypeOK, Night, Index!Reindex, Index!At, Index!Refill,
             Index!index, Index!kv
    <2>2. night' \in Night /\ repair' \in Repair
      BY <1>24 DEF IndexInv, Types, Index!TypeOK, Night, Repair, Index!Reindex, Index!At,
             Index!Refill, Index!index, Index!kv
    <2>3. RebuildsUnready' /\ LatchesInStep' /\ RepairsUnready' /\ ServedIsComplete'
      BY <1>24 DEF IndexInv, Types, Index!TypeOK, Night, Repair, RebuildsUnready, LatchesInStep,
             RepairsUnready, ServedIsComplete, FtsLive, InStep, Index!FtsLive, Index!InStep,
             Index!Reindex, Index!At, Index!Refill, Index!index, Index!kv
    <2> QED
      BY <2>1, <2>2, <2>3 DEF IndexInv, Types
  <1>25. CASE Index!Turn
    <2>1. Index!TypeOK'
      BY <1>25 DEF IndexInv, Types, Index!TypeOK, Night, Index!Turn, Index!Asleep, Index!index,
             Index!kv
    <2>2. night' \in Night /\ repair' \in Repair
      BY <1>25 DEF IndexInv, Types, Index!TypeOK, Night, Repair, Index!Turn, Index!Asleep,
             Index!index, Index!kv
    <2>3. RebuildsUnready' /\ LatchesInStep' /\ RepairsUnready' /\ ServedIsComplete'
      BY <1>25 DEF IndexInv, Types, Index!TypeOK, Night, Repair, RebuildsUnready, LatchesInStep,
             RepairsUnready, ServedIsComplete, FtsLive, InStep, Index!FtsLive, Index!InStep,
             Index!Turn, Index!Asleep, Index!index, Index!kv
    <2> QED
      BY <2>1, <2>2, <2>3 DEF IndexInv, Types
  <1>26. CASE Index!LoseTable
    <2>a. Types
      BY DEF IndexInv
    <2>1. Index!TypeOK'
      <3>1. Index!Empty \in [Rowids -> Contents \cup {Absent}]
        BY DEF Index!Empty
      <3>2. fts' = Index!Empty /\ entries' = entries
        BY <1>26 DEF Index!LoseTable, Index!Strike
      <3>3. fts' \in [Rowids -> Contents \cup {Absent}] /\ entries' \in [Rowids -> Contents \cup {Absent}]
        BY <2>a, <3>1, <3>2, MirrorTypes
      <3>4. /\ table' = FALSE /\ torn' = FALSE /\ indexFaults < IndexFaults /\ indexFaults' = indexFaults + 1
            /\ UNCHANGED <<triggers, ready, cursor, window, drifted, late>>
        BY <1>26 DEF Index!LoseTable, Index!Strike, Index!kv
      <3>5. indexFaults' \in 0..IndexFaults
        BY <2>a, <3>4, MirrorAssumption DEF Types, Index!TypeOK
      <3>6. UNCHANGED <<triggers, ready, cursor, window, drifted, late>>
        BY <3>4
      <3>7. /\ triggers' \in {"exact", "other", "none"} /\ ready' \in BOOLEAN
            /\ cursor' \in Nat /\ window' \in Nat /\ drifted' \in BOOLEAN /\ late' \in BOOLEAN
        BY <2>a, <3>6 DEF Types, Index!TypeOK
      <3> QED
        BY <3>3, <3>4, <3>5, <3>7 DEF Index!TypeOK
    <2>2. night' \in Night /\ repair' \in Repair
      BY <1>26, <2>a, StrikeTypes DEF Index!LoseTable
    <2>3. RebuildsUnready' /\ LatchesInStep' /\ RepairsUnready' /\ ServedIsComplete'
      BY <1>26 DEF IndexInv, Types, Index!TypeOK, Night, Repair, RebuildsUnready, LatchesInStep,
             RepairsUnready, ServedIsComplete, FtsLive, InStep, Index!FtsLive, Index!InStep,
             Index!LoseTable, Index!Strike, Index!Empty, Index!index, Index!kv
    <2> QED
      BY <2>1, <2>2, <2>3 DEF IndexInv, Types
  <1>27. CASE Index!Tamper
    <2>a. Types
      BY DEF IndexInv
    <2>1. Index!TypeOK'
      BY <1>27 DEF IndexInv, Types, Index!TypeOK, Night, Index!Tamper, Index!Strike,
             Index!index, Index!kv
    <2>2. night' \in Night /\ repair' \in Repair
      BY <1>27, <2>a, StrikeTypes DEF Index!Tamper
    <2>3. RebuildsUnready' /\ LatchesInStep' /\ RepairsUnready' /\ ServedIsComplete'
      BY <1>27 DEF IndexInv, Types, Index!TypeOK, Night, Repair, RebuildsUnready, LatchesInStep,
             RepairsUnready, ServedIsComplete, FtsLive, InStep, Index!FtsLive, Index!InStep,
             Index!Tamper, Index!Strike, Index!index, Index!kv
    <2> QED
      BY <2>1, <2>2, <2>3 DEF IndexInv, Types
  <1>28. CASE Index!Tear
    <2>a. Types
      BY DEF IndexInv
    <2>1. Index!TypeOK'
      BY <1>28 DEF IndexInv, Types, Index!TypeOK, Night, Index!Tear, Index!Strike, Index!index,
             Index!kv
    <2>2. night' \in Night /\ repair' \in Repair
      BY <1>28, <2>a, StrikeTypes DEF Index!Tear
    <2>3. RebuildsUnready' /\ LatchesInStep' /\ RepairsUnready' /\ ServedIsComplete'
      BY <1>28 DEF IndexInv, Types, Index!TypeOK, Night, Repair, RebuildsUnready, LatchesInStep,
             RepairsUnready, ServedIsComplete, FtsLive, InStep, Index!FtsLive, Index!InStep,
             Index!Tear, Index!Strike, Index!index, Index!kv
    <2> QED
      BY <2>1, <2>2, <2>3 DEF IndexInv, Types
  <1>29. CASE Index!Kill
    <2>a. Types
      BY DEF IndexInv
    <2>1. Index!TypeOK'
      BY <1>29 DEF IndexInv, Types, Index!TypeOK, Night, Index!Kill, Index!Asleep, Index!Quiet,
             Index!index, Index!kv
    <2>2. night' \in Night /\ repair' \in Repair
      <3>1. night' \in {night, Index!Asleep} /\ repair' \in {repair, Index!Quiet}
        BY <1>29 DEF Index!Kill
      <3>2. night \in Night /\ repair \in Repair
        BY <2>a DEF Types
      <3> QED
        BY <3>1, <3>2, NightTypes, RepairTypes
    <2>3. RebuildsUnready' /\ LatchesInStep' /\ RepairsUnready' /\ ServedIsComplete'
      BY <1>29 DEF IndexInv, Types, Index!TypeOK, Night, Repair, RebuildsUnready, LatchesInStep,
             RepairsUnready, ServedIsComplete, FtsLive, InStep, Index!FtsLive, Index!InStep,
             Index!Kill, Index!Asleep, Index!Quiet, Index!index, Index!kv
    <2> QED
      BY <2>1, <2>2, <2>3 DEF IndexInv, Types
  <1>30. ASSUME NEW r \in Rowids, Index!Drift(r) PROVE IndexInv'
    <2>a. Types
      BY DEF IndexInv
    <2>1. Index!TypeOK'
      BY <1>30 DEF IndexInv, Types, Index!TypeOK, Night, Index!Drift, Index!Strike, Index!index,
             Index!kv
    <2>2. night' \in Night /\ repair' \in Repair
      BY <1>30, <2>a, StrikeTypes DEF Index!Drift
    <2>3. RebuildsUnready' /\ LatchesInStep' /\ RepairsUnready' /\ ServedIsComplete'
      BY <1>30 DEF IndexInv, Types, Index!TypeOK, Night, Repair, RebuildsUnready, LatchesInStep,
             RepairsUnready, ServedIsComplete, FtsLive, InStep, Index!FtsLive, Index!InStep,
             Index!Drift, Index!Strike, Index!index, Index!kv
    <2> QED
      BY <2>1, <2>2, <2>3 DEF IndexInv, Types
  <1>31. CASE UNCHANGED Index!vars
    BY <1>31 DEF Index!vars, Index!index, Index!kv, IndexInv, Types, Index!TypeOK, RebuildsUnready,
       LatchesInStep, RepairsUnready, ServedIsComplete, FtsLive, InStep, Index!FtsLive, Index!InStep
  <1> QED
    BY <1>1, <1>2, <1>3, <1>4, <1>5, <1>6, <1>7, <1>8, <1>9, <1>10, <1>11, <1>12, <1>13, <1>14,
       <1>15, <1>16, <1>17, <1>18, <1>19, <1>20, <1>21, <1>22, <1>23, <1>24, <1>25, <1>26,
       <1>27, <1>28, <1>29, <1>30, <1>31 DEF Index!Next, Index!Night, Index!Repair

(* Every variable of the full-text index keeps its type, a rowid its number.   *)
THEOREM IndexTypeCorrect == Index!Spec => []Index!TypeOK
  <1>1. IndexInv => Index!TypeOK
    BY DEF IndexInv, Types
  <1> QED
    BY <1>1, IndexInitially, IndexStep, PTL DEF Index!Spec

(* An index that recall uses has every entry as it is, for any number of       *)
(* rowids, contents and faults: the night's rebuild, pages, parity check and   *)
(* latch, the repair from a request and the triggers, in any order.            *)
THEOREM ServedIndexIsComplete == Index!Spec => []ServedIsComplete
  <1>1. IndexInv => ServedIsComplete
    BY DEF IndexInv
  <1> QED
    BY <1>1, IndexInitially, IndexStep, PTL DEF Index!Spec

--------------------------------------------------------------------------------
(* The embedding migration. Keys are pairs, of a time and an id, in the order  *)
(* of pairs.                                                                   *)

LEMMA MigrationCardinality ==
  ASSUME NEW S
  PROVE  Migration!Cardinality(S) = Cardinality(S)
  BY DEF Migration!Cardinality, Cardinality, Migration!IsFiniteSet, IsFiniteSet

LEMMA BeforeOrders ==
  /\ \A k, l, m \in Nat \X Nat : Migration!Before(k, l) /\ Migration!Before(l, m) => Migration!Before(k, m)
  /\ \A k, l \in Nat \X Nat : Migration!Before(k, l) \/ Migration!Before(l, k) \/ k = l
  /\ \A k \in Nat \X Nat : ~Migration!Before(k, k)
  <1>1. \A k \in Nat \X Nat : k[1] \in Nat /\ k[2] \in Nat /\ k = <<k[1], k[2]>>
    OBVIOUS
  <1>2. \A a, b, c, d, e, f \in Nat :
            (a < c \/ (a = c /\ b < d)) /\ (c < e \/ (c = e /\ d < f)) => a < e \/ (a = e /\ b < f)
    OBVIOUS
  <1>3. ASSUME NEW k \in Nat \X Nat, NEW l \in Nat \X Nat, NEW m \in Nat \X Nat,
               Migration!Before(k, l), Migration!Before(l, m)
        PROVE  Migration!Before(k, m)
    BY <1>1, <1>2, <1>3 DEF Migration!Before
  <1>4. ASSUME NEW k \in Nat \X Nat, NEW l \in Nat \X Nat
        PROVE  Migration!Before(k, l) \/ Migration!Before(l, k) \/ k = l
    BY <1>1 DEF Migration!Before
  <1>5. \A k \in Nat \X Nat : ~Migration!Before(k, k)
    BY <1>1 DEF Migration!Before
  <1> QED
    BY <1>3, <1>4, <1>5

(* Of several entries one comes first.                                         *)
LEMMA FirstExists ==
  ASSUME NEW S, S # {}, NEW k, \A i \in S : k[i] \in Nat \X Nat
  PROVE  \E x \in S : \A y \in S : ~Migration!Before(k[y], k[x])
  <1> DEFINE T == {k[i][1] : i \in S}
  <1>1. \A i \in S : k[i][1] \in Nat /\ k[i][2] \in Nat
    OBVIOUS
  <1>2. T \subseteq Nat /\ T # {}
    BY <1>1
  <1>3. PICK t \in T : \A u \in T : t <= u
    BY <1>2, LowestExists
  <1> DEFINE U == {i \in S : k[i][1] = t}
             V == {k[i][2] : i \in U}
  <1>4. V \subseteq Nat /\ V # {}
    BY <1>1, <1>3
  <1>5. PICK v \in V : \A w \in V : v <= w
    BY <1>4, LowestExists
  <1>6. PICK x \in U : k[x][2] = v
    BY <1>5
  <1>7. ASSUME NEW y \in S PROVE ~Migration!Before(k[y], k[x])
    <2>1. t \in Nat /\ v \in Nat /\ k[x][1] = t /\ k[x][2] = v /\ k[y][1] \in Nat /\ k[y][2] \in Nat
      BY <1>1, <1>2, <1>3, <1>4, <1>5, <1>6
    <2>2. t <= k[y][1]
      BY <1>3
    <2>3. k[y][1] = t => v <= k[y][2]
      BY <1>5
    <2> HIDE DEF T, U, V
    <2> QED
      BY <2>1, <2>2, <2>3 DEF Migration!Before
  <1> QED
    BY <1>6, <1>7

LEMMA RowFields ==
  ASSUME NEW entry \in EntryRow, NEW i \in Ids, NEW phase
  PROVE  /\ entry # Nothing /\ entry.created \in Nat \ {0} /\ entry.updated \in Nat \ {0}
         /\ entry.indexable \in BOOLEAN /\ entry.vec \in {"none", "old", "new"}
         /\ Migration!Key(phase, entry, i) \in Nat \X Nat /\ Migration!Key(phase, entry, i)[2] = i
         /\ Migration!Before(Migration!Start, Migration!Key(phase, entry, i))
  <1>1. /\ entry # Nothing /\ entry.created \in Nat \ {0} /\ entry.updated \in Nat \ {0}
        /\ entry.indexable \in BOOLEAN /\ entry.vec \in {"none", "old", "new"} /\ i \in Nat \ {0}
    BY MigrationAssumption DEF EntryRow
  <1>2. CASE phase = "full"
    BY <1>1, <1>2 DEF Migration!Key, Migration!Before, Migration!Start
  <1>3. CASE phase # "full"
    BY <1>1, <1>3 DEF Migration!Key, Migration!Before, Migration!Start
  <1> QED
    BY <1>1, <1>2, <1>3

(* A page is what comes first of the entries it is taken from, as they are.    *)
Pages == UNION {[S -> EntryRow] : S \in SUBSET Ids}

LEMMA PageOfFacts ==
  ASSUME rows \in [Ids -> EntryRow \cup {Nothing}], NEW led, NEW phase, NEW from
  PROVE  LET p == Migration!PageOf(led, phase, from)
         IN /\ p \in Pages
            /\ \A x \in DOMAIN p : p[x] = rows[x]
            /\ \A j \in Migration!After(led, phase, from), x \in DOMAIN p :
                  j \in DOMAIN p \/ Migration!Before(Migration!Key(phase, p[x], x), Migration!Key(phase, rows[j], j))
  <1> DEFINE all == Migration!After(led, phase, from)
             K(i) == Migration!Key(phase, rows[i], i)
             below(i) == {j \in all : Migration!Before(K(j), K(i))}
             first == {i \in all : Migration!Cardinality(below(i)) < MaxEntries}
             p == Migration!PageOf(led, phase, from)
  <1>1. \A i \in all : i \in Ids /\ rows[i] \in EntryRow
    BY DEF Migration!After, Migration!Pending, Migration!Indexable
  <1>2. \A i \in all : K(i) \in Nat \X Nat /\ K(i)[2] = i
    BY <1>1, RowFields
  <1>3. IsFiniteSet(all)
    BY <1>1, FS_Subset, MigrationAssumption
  <1>4. p = [i \in first |-> rows[i]]
    BY DEF Migration!PageOf
  <1> HIDE DEF all, K, p
  <1>5. ASSUME NEW j \in all, NEW x \in first, j \notin first
        PROVE  Migration!Before(K(x), K(j))
    <2> SUFFICES ASSUME ~Migration!Before(K(x), K(j)) PROVE FALSE
      OBVIOUS
    <2>1. Migration!Before(K(j), K(x))
      <3>1. K(j) # K(x)
        BY <1>2, <1>5
      <3> QED
        BY <1>2, <1>5, <3>1, BeforeOrders
    <2>2. below(j) \subseteq below(x)
      BY <1>2, <1>5, <2>1, BeforeOrders
    <2>3. /\ IsFiniteSet(below(x)) /\ IsFiniteSet(below(j))
          /\ Cardinality(below(j)) <= Cardinality(below(x))
      <3>1. below(x) \subseteq all
        OBVIOUS
      <3> HIDE DEF below
      <3>2. IsFiniteSet(below(x))
        BY <1>3, <3>1, FS_Subset
      <3> QED
        BY <2>2, <3>2, FS_Subset
    <2>4. Cardinality(below(x)) \in Nat /\ Cardinality(below(j)) \in Nat
      BY <2>3, FS_CardinalityType
    <2>5. Cardinality(below(x)) < MaxEntries /\ ~(Cardinality(below(j)) < MaxEntries)
      BY <1>5, MigrationCardinality
    <2> QED
      BY <2>3, <2>4, <2>5, MigrationAssumption
  <1>6. first \subseteq Ids /\ \A i \in first : rows[i] \in EntryRow
    BY <1>1
  <1>7. p \in [first -> EntryRow] /\ DOMAIN p = first /\ \A x \in first : p[x] = rows[x]
    BY <1>4, <1>6
  <1> HIDE DEF first
  <1>8. p \in Pages
    BY <1>6, <1>7 DEF Pages
  <1>9. \A j \in all, x \in DOMAIN p :
            j \in DOMAIN p \/ Migration!Before(Migration!Key(phase, p[x], x), Migration!Key(phase, rows[j], j))
    BY <1>5, <1>7 DEF K
  <1> QED
    BY <1>7, <1>8, <1>9 DEF p, all

--------------------------------------------------------------------------------
(* The inductive invariant of the migration, of the entries rs, the set back   *)
(* of those that returned, the lock lk, the time now and the number n of locks.*)

(* What a phase that began at a time still has to embed: the full scan what is *)
(* left of the index before, a delta pass what it is about. An entry whose old *)
(* vectors are from before the scan was one of the first when it began.        *)
Owes(rs, back, since, phase, i) ==
  /\ rs[i] # Nothing /\ rs[i].indexable
  /\ IF phase = "full"
       THEN i \notin back /\ rs[i].vec = "old" /\ rs[i].updated < since
       ELSE rs[i].vec # "new" /\ (rs[i].updated >= since \/ rs[i].vec = "none")

(* All of it is beyond a cursor.                                               *)
Ahead(rs, back, since, phase, from) ==
  \A i \in Ids : Owes(rs, back, since, phase, i) => Migration!Before(from, Migration!Key(phase, rs[i], i))

Held(lk, owner) == lk # Nothing /\ lk.owner = owner

(* A ledger may be put again at any later time. Its cursor skips nothing; the  *)
(* cursor of its delta pass skips nothing under the lock it belongs to.        *)
LedgerInv(led, rs, back, lk, now, n) ==
  /\ led.started <= now /\ led.deltaOwner <= n
  /\ Ahead(rs, back, led.started, "full", led.cursor)
  /\ led.finished => \A i \in Ids : ~Owes(rs, back, led.started, "full", i)
  /\ Held(lk, led.deltaOwner) => Ahead(rs, back, led.started, "delta", led.deltaCursor)

(* What a batch owes is in its page, where it read it, or behind all of it.    *)
PageInv(t, rs, back) ==
  /\ Ahead(rs, back, t.led.started, t.phase, t.reached)
  /\ \A i \in Ids : Owes(rs, back, t.led.started, t.phase, i) => \A x \in DOMAIN t.page :
        \/ i \in DOMAIN t.page /\ Migration!Key(t.phase, t.page[i], i) = Migration!Key(t.phase, rs[i], i)
        \/ Migration!Before(Migration!Key(t.phase, t.page[x], x), Migration!Key(t.phase, rs[i], i))

Call == [at : {"idle", "embed"}, phase : {"full", "delta"}, led : MigrationLedger \cup {Nothing},
         page : Pages, reached : (Nat \X Nat) \cup {Nothing}, failed : BOOLEAN, owner : 0..MaxLocks]

(* A batch without an owner runs while there is no lock. A batch of the lock   *)
(* goes on where its own delta pass is.                                        *)
CallInv(t, rs, back, lk, now, n) ==
  t.at = "embed" =>
    /\ t.led \in MigrationLedger /\ t.reached \in Nat \X Nat /\ t.owner <= n
    /\ LedgerInv(t.led, rs, back, lk, now, n)
    /\ t.owner = 0 => lk = Nothing
    /\ t.phase = "full" => t.owner = 0 /\ PageInv(t, rs, back)
    /\ t.phase = "delta" => t.led.finished /\ (t.owner # 0 => t.led.deltaOwner = t.owner)
    /\ t.phase = "delta" /\ Held(lk, t.owner) => PageInv(t, rs, back)

MigrationInv ==
  /\ Migration!TypeOK
  /\ batch \in [Batches -> Call]
  /\ lock # Nothing => lock.owner <= locks
  /\ \A led \in {ledger, older} \ {Nothing} : LedgerInv(led, rows, returned, lock, clock, locks)
  /\ \A b \in Batches : CallInv(batch[b], rows, returned, lock, clock, locks)
  /\ CompleteMeansRebuilt

(* A step leaves of what a phase owes a part, under the same keys.             *)
Kept(rs, back, rs2, back2, now, phase) ==
  \A since \in Nat : since <= now => \A i \in Ids :
     Owes(rs2, back2, since, phase, i) => /\ Owes(rs, back, since, phase, i)
                                          /\ Migration!Key(phase, rs2[i], i) = Migration!Key(phase, rs[i], i)

LEMMA AheadKept ==
  ASSUME NEW rs, NEW back, NEW rs2, NEW back2, NEW now, NEW phase, NEW since \in Nat, since <= now, NEW from,
         Kept(rs, back, rs2, back2, now, phase), Ahead(rs, back, since, phase, from)
  PROVE  Ahead(rs2, back2, since, phase, from)
  BY DEF Kept, Ahead

LEMMA LedgerKept ==
  ASSUME NEW rs, NEW back, NEW rs2, NEW back2, NEW lk, NEW lk2,
         NEW now \in Nat, NEW now2 \in Nat, NEW n \in Nat, NEW n2 \in Nat, now <= now2, n <= n2,
         NEW led \in MigrationLedger, LedgerInv(led, rs, back, lk, now, n),
         Kept(rs, back, rs2, back2, now, "full"),
         \A o \in 0..n : Held(lk2, o) => Held(lk, o) /\ Kept(rs, back, rs2, back2, now, "delta")
  PROVE  LedgerInv(led, rs2, back2, lk2, now2, n2)
  <1>1. led.started \in Nat /\ led.deltaOwner \in Nat
    BY MigrationAssumption DEF MigrationLedger
  <1>2. led.started <= now /\ led.deltaOwner <= n /\ led.started <= now2 /\ led.deltaOwner <= n2
    BY <1>1 DEF LedgerInv
  <1>3. Ahead(rs2, back2, led.started, "full", led.cursor)
    BY <1>1, <1>2, AheadKept DEF LedgerInv
  <1>4. led.finished => \A i \in Ids : ~Owes(rs2, back2, led.started, "full", i)
    BY <1>1, <1>2 DEF LedgerInv, Kept
  <1>5. ASSUME Held(lk2, led.deltaOwner) PROVE Ahead(rs2, back2, led.started, "delta", led.deltaCursor)
    <2>1. Held(lk, led.deltaOwner) /\ Kept(rs, back, rs2, back2, now, "delta")
      BY <1>1, <1>2, <1>5
    <2> QED
      BY <1>1, <1>2, <2>1, AheadKept DEF LedgerInv
  <1> QED
    BY <1>2, <1>3, <1>4, <1>5 DEF LedgerInv

LEMMA PageKept ==
  ASSUME NEW rs, NEW back, NEW rs2, NEW back2, NEW now, NEW t, t.led.started \in Nat, t.led.started <= now,
         Kept(rs, back, rs2, back2, now, t.phase), PageInv(t, rs, back)
  PROVE  PageInv(t, rs2, back2)
  <1>1. Ahead(rs2, back2, t.led.started, t.phase, t.reached)
    BY AheadKept DEF PageInv
  <1>2. \A i \in Ids : Owes(rs2, back2, t.led.started, t.phase, i) =>
           /\ Owes(rs, back, t.led.started, t.phase, i)
           /\ Migration!Key(t.phase, rs2[i], i) = Migration!Key(t.phase, rs[i], i)
    BY DEF Kept
  <1> QED
    BY <1>1, <1>2 DEF PageInv

LEMMA CallKept ==
  ASSUME NEW rs, NEW back, NEW rs2, NEW back2, NEW lk, NEW lk2,
         NEW now \in Nat, NEW now2 \in Nat, NEW n \in Nat, NEW n2 \in Nat, now <= now2, n <= n2,
         NEW t \in Call, CallInv(t, rs, back, lk, now, n),
         Kept(rs, back, rs2, back2, now, "full"),
         \A o \in 0..n : Held(lk2, o) => Held(lk, o) /\ Kept(rs, back, rs2, back2, now, "delta"),
         t.at = "embed" /\ t.owner = 0 => lk2 = Nothing
  PROVE  CallInv(t, rs2, back2, lk2, now2, n2)
  <1> SUFFICES ASSUME t.at = "embed" PROVE CallInv(t, rs2, back2, lk2, now2, n2)
    BY DEF CallInv
  <1>1. /\ t.led \in MigrationLedger /\ t.reached \in Nat \X Nat /\ t.owner <= n
        /\ LedgerInv(t.led, rs, back, lk, now, n) /\ t.owner \in Nat
    BY MigrationAssumption DEF CallInv, Call
  <1>2. LedgerInv(t.led, rs2, back2, lk2, now2, n2)
    BY <1>1, LedgerKept
  <1>3. t.led.started \in Nat /\ t.led.started <= now
    BY <1>1, MigrationAssumption DEF LedgerInv, MigrationLedger
  <1>4. t.owner <= n2
    BY <1>1
  <1>5. t.phase = "full" => t.owner = 0 /\ PageInv(t, rs2, back2)
    <2>1. t.phase = "full" => t.owner = 0 /\ PageInv(t, rs, back)
      BY DEF CallInv
    <2> QED
      BY <1>3, <2>1, PageKept
  <1>6. t.phase = "delta" /\ Held(lk2, t.owner) => PageInv(t, rs2, back2)
    <2> SUFFICES ASSUME t.phase = "delta", Held(lk2, t.owner) PROVE PageInv(t, rs2, back2)
      OBVIOUS
    <2>1. Held(lk, t.owner) /\ Kept(rs, back, rs2, back2, now, "delta")
      BY <1>1
    <2>2. PageInv(t, rs, back)
      BY <2>1 DEF CallInv
    <2> QED
      BY <1>3, <2>1, <2>2, PageKept
  <1>7. t.phase = "delta" => t.led.finished /\ (t.owner # 0 => t.led.deltaOwner = t.owner)
    BY DEF CallInv
  <1> QED
    BY <1>1, <1>2, <1>4, <1>5, <1>6, <1>7 DEF CallInv

LEMMA MigrationSets ==
  Migration!EntryRow = EntryRow /\ Migration!MigrationLedger = MigrationLedger /\ Migration!WriteLock = WriteLock
  BY DEF Migration!EntryRow, EntryRow, Migration!MigrationLedger, MigrationLedger, Migration!WriteLock, WriteLock

LEMMA MigrationConstants ==
  /\ MaxEntries \in Nat /\ MaxTime \in Nat /\ 1 <= MaxTime /\ MaxLocks \in Nat /\ MaxChanges \in Nat
  /\ \A led \in MigrationLedger : led # Nothing
  /\ \A lk \in WriteLock : lk # Nothing /\ lk.owner \in Nat \ {0}
  BY MigrationAssumption DEF WriteLock

(* What has a lock has one of its owners, and a lock that is none is nobody's. *)
LEMMA StepKept ==
  ASSUME MigrationInv, Migration!TypeOK', batch' \in [Batches -> Call],
         lock' # Nothing => lock'.owner <= locks', clock <= clock', locks <= locks',
         Kept(rows, returned, rows', returned', clock, "full"),
         \A o \in 0..locks : Held(lock', o) => Held(lock, o) /\ Kept(rows, returned, rows', returned', clock, "delta"),
         \A b \in Batches : \/ batch'[b] = batch[b] /\ (batch[b].at = "embed" /\ batch[b].owner = 0 => lock' = Nothing)
                            \/ CallInv(batch'[b], rows', returned', lock', clock', locks'),
         \A led \in {ledger', older'} \ {Nothing} :
            led \in {ledger, older} \/ LedgerInv(led, rows', returned', lock', clock', locks'),
         CompleteMeansRebuilt'
  PROVE  MigrationInv'
  <1>1. clock \in Nat /\ clock' \in Nat /\ locks \in Nat /\ locks' \in Nat
    BY MigrationConstants DEF MigrationInv, Migration!TypeOK
  <1>2. {ledger, older} \subseteq MigrationLedger \cup {Nothing}
    BY MigrationSets DEF MigrationInv, Migration!TypeOK
  <1>3. \A led \in {ledger', older'} \ {Nothing} : LedgerInv(led, rows', returned', lock', clock', locks')
    <2> TAKE led \in {ledger', older'} \ {Nothing}
    <2>1. CASE led \in {ledger, older}
      <3>1. led \in MigrationLedger /\ LedgerInv(led, rows, returned, lock, clock, locks)
        BY <1>2, <2>1 DEF MigrationInv
      <3> QED
        BY <1>1, <3>1, LedgerKept
    <2> QED
      BY <2>1
  <1>4. \A b \in Batches : CallInv(batch'[b], rows', returned', lock', clock', locks')
    <2> TAKE b \in Batches
    <2>1. CASE batch'[b] = batch[b] /\ (batch[b].at = "embed" /\ batch[b].owner = 0 => lock' = Nothing)
      <3>1. batch[b] \in Call /\ CallInv(batch[b], rows, returned, lock, clock, locks)
        BY DEF MigrationInv
      <3>2. CallInv(batch[b], rows', returned', lock', clock', locks')
        BY <1>1, <2>1, <3>1, CallKept
      <3> QED
        BY <2>1, <3>2
    <2> QED
      BY <2>1
  <1> QED
    BY <1>3, <1>4 DEF MigrationInv

LEMMA KeptSame ==
  ASSUME NEW rs, NEW back, NEW now, NEW phase
  PROVE  Kept(rs, back, rs, back, now, phase)
  BY DEF Kept

(* A write of one row under which the phase no longer owes it.                 *)
LEMMA WriteKept ==
  ASSUME NEW rs, DOMAIN rs = Ids, rs = [j \in Ids |-> rs[j]], NEW back, NEW back2, NEW i \in Ids, NEW entry, back \ {i} \subseteq back2,
         NEW now \in Nat, NEW phase, NEW rs2, rs2 = [rs EXCEPT ![i] = entry],
         \A since \in Nat : since <= now => ~Owes(rs2, back2, since, phase, i)
  PROVE  Kept(rs, back, rs2, back2, now, phase)
  <1> SUFFICES ASSUME NEW since \in Nat, since <= now, NEW j \in Ids, Owes(rs2, back2, since, phase, j)
               PROVE  /\ Owes(rs, back, since, phase, j)
                      /\ Migration!Key(phase, rs2[j], j) = Migration!Key(phase, rs[j], j)
    BY DEF Kept
  <1>1. j # i
    OBVIOUS
  <1>2. rs2[j] = rs[j]
    BY <1>1
  <1>3. j \in back => j \in back2
    BY <1>1
  <1> QED
    BY <1>2, <1>3 DEF Owes

(* The writes of the serving Worker.                                           *)
LEMMA WorkerStep ==
  ASSUME MigrationInv, lock = Nothing, UNCHANGED <<ledger, older, lock, batch, clock, locks>>,
         changes < MaxChanges, changes' = changes + 1, NEW i \in Ids, NEW entry \in EntryRow,
         rows' = [rows EXCEPT ![i] = entry], returned' \subseteq Ids, returned \ {i} \subseteq returned',
         ~entry.indexable \/ entry.vec # "old" \/ entry.updated >= clock \/ i \in returned'
  PROVE  MigrationInv'
  <1>1. clock \in Nat /\ locks \in Nat /\ changes \in Nat /\ rows \in [Ids -> EntryRow \cup {Nothing}]
    BY MigrationConstants, MigrationSets DEF MigrationInv, Migration!TypeOK
  <1>2. Migration!TypeOK'
    <2>1. rows' \in [Ids -> EntryRow \cup {Nothing}]
      BY <1>1
    <2>2. changes' \in 0..MaxChanges
      BY <1>1, MigrationConstants
    <2> QED
      BY <2>1, <2>2, MigrationSets DEF MigrationInv, Migration!TypeOK
  <1>3. Kept(rows, returned, rows', returned', clock, "full")
    <2>1. rows'[i] = entry /\ entry.updated \in Nat
      BY <1>1, RowFields
    <2>2. \A since \in Nat : since <= clock => ~Owes(rows', returned', since, "full", i)
      BY <1>1, <2>1 DEF Owes
    <2>3. DOMAIN rows = Ids /\ rows = [j \in Ids |-> rows[j]]
      BY <1>1
    <2> QED
      BY <1>1, <2>2, <2>3, WriteKept
  <1>4. \A o : ~Held(lock', o)
    BY DEF Held
  <1>5. CompleteMeansRebuilt'
    BY DEF CompleteMeansRebuilt
  <1>6. batch' \in [Batches -> Call]
    BY DEF MigrationInv
  <1> QED
    BY <1>1, <1>2, <1>3, <1>4, <1>5, <1>6, StepKept

LEMMA CaptureInv ==
  ASSUME MigrationInv, NEW i \in Ids, Migration!Capture(i) PROVE MigrationInv'
  <1> DEFINE entry == [created |-> clock, updated |-> clock, indexable |-> TRUE, vec |-> "old"]
  <1>1. clock \in 1..MaxTime /\ returned \subseteq Ids /\ clock \in Nat
    BY MigrationConstants DEF MigrationInv, Migration!TypeOK
  <1>2. entry \in EntryRow /\ entry.updated >= clock
    BY <1>1 DEF EntryRow
  <1>3. rows' = [rows EXCEPT ![i] = entry] /\ returned' = returned
    BY DEF Migration!Capture, Migration!Written
  <1>4. /\ lock = Nothing /\ UNCHANGED <<ledger, older, lock, batch, clock, locks>>
        /\ changes < MaxChanges /\ changes' = changes + 1
    BY DEF Migration!Capture, Migration!Serves
  <1> HIDE DEF entry
  <1> QED
    BY <1>1, <1>2, <1>3, <1>4, WorkerStep

LEMMA ImportInv ==
  ASSUME MigrationInv, NEW i \in Ids, Migration!Import(i) PROVE MigrationInv'
  <1>1. PICK t \in 1..clock :
           rows' = [rows EXCEPT ![i] = [created |-> t, updated |-> t, indexable |-> TRUE, vec |-> "none"]]
    BY DEF Migration!Import, Migration!Written
  <1> DEFINE entry == [created |-> t, updated |-> t, indexable |-> TRUE, vec |-> "none"]
  <1>2. clock \in 1..MaxTime /\ returned \subseteq Ids
    BY DEF MigrationInv, Migration!TypeOK
  <1>3. entry \in EntryRow /\ entry.vec # "old"
    BY <1>2, MigrationConstants DEF EntryRow
  <1>4. /\ lock = Nothing /\ UNCHANGED <<ledger, older, lock, batch, clock, locks, returned>>
        /\ changes < MaxChanges /\ changes' = changes + 1
    BY DEF Migration!Import, Migration!Serves
  <1>5. rows' = [rows EXCEPT ![i] = entry]
    BY <1>1
  <1> HIDE DEF entry
  <1> QED
    BY <1>2, <1>3, <1>4, <1>5, WorkerStep

LEMMA EditInv ==
  ASSUME MigrationInv, NEW i \in Ids, Migration!Edit(i) PROVE MigrationInv'
  <1>1. PICK vec \in {"old", "none"} :
           rows' = [rows EXCEPT ![i] = [rows[i] EXCEPT !.updated = Migration!Later(i), !.vec = vec]]
    BY DEF Migration!Edit, Migration!Written
  <1> DEFINE entry == [rows[i] EXCEPT !.updated = Migration!Later(i), !.vec = vec]
  <1>2. clock \in 1..MaxTime /\ returned \subseteq Ids /\ rows[i] \in EntryRow
    BY MigrationSets DEF MigrationInv, Migration!TypeOK, Migration!Edit, Migration!Indexable
  <1>3. rows[i].updated \in Nat /\ clock \in Nat /\ 1 <= clock
    BY <1>2, RowFields, MigrationConstants
  <1>4. Migration!Later(i) \in 1..MaxTime /\ Migration!Later(i) >= clock
    <2>1. Migration!Later(i) <= MaxTime
      BY DEF Migration!Edit
    <2> QED
      BY <1>3, <2>1, MigrationConstants DEF Migration!Later
  <1>5. entry \in EntryRow /\ entry.updated >= clock
    BY <1>2, <1>4 DEF EntryRow
  <1>6. /\ lock = Nothing /\ UNCHANGED <<ledger, older, lock, batch, clock, locks>>
        /\ returned' = returned \ {i}
        /\ changes < MaxChanges /\ changes' = changes + 1
    BY DEF Migration!Edit, Migration!Serves
  <1>7. rows' = [rows EXCEPT ![i] = entry]
    BY <1>1
  <1> HIDE DEF entry
  <1> QED
    BY <1>2, <1>5, <1>6, <1>7, WorkerStep

LEMMA WithdrawInv ==
  ASSUME MigrationInv, NEW i \in Ids, Migration!Withdraw(i) PROVE MigrationInv'
  <1> DEFINE entry == [rows[i] EXCEPT !.indexable = FALSE, !.vec = "none"]
  <1>1. returned \subseteq Ids /\ rows[i] \in EntryRow
    BY MigrationSets DEF MigrationInv, Migration!TypeOK, Migration!Withdraw, Migration!Indexable
  <1>2. entry \in EntryRow /\ entry.vec # "old"
    BY <1>1 DEF EntryRow
  <1>3. /\ lock = Nothing /\ UNCHANGED <<ledger, older, lock, batch, clock, locks, returned>>
        /\ changes < MaxChanges /\ changes' = changes + 1
    BY DEF Migration!Withdraw, Migration!Serves
  <1>4. rows' = [rows EXCEPT ![i] = entry]
    BY DEF Migration!Withdraw, Migration!Written
  <1> HIDE DEF entry
  <1> QED
    BY <1>1, <1>2, <1>3, <1>4, WorkerStep

LEMMA TakeBackInv ==
  ASSUME MigrationInv, NEW i \in Ids, Migration!TakeBack(i) PROVE MigrationInv'
  <1>1. PICK vec \in {"old", "none"} :
           /\ rows' = [rows EXCEPT ![i] = [rows[i] EXCEPT !.indexable = TRUE, !.vec = vec]]
           /\ returned' = IF vec = "old" THEN returned \cup {i} ELSE returned
    BY DEF Migration!TakeBack, Migration!Written
  <1> DEFINE entry == [rows[i] EXCEPT !.indexable = TRUE, !.vec = vec]
  <1>2. returned \subseteq Ids /\ rows[i] \in EntryRow
    BY MigrationSets DEF MigrationInv, Migration!TypeOK, Migration!TakeBack
  <1>3. entry \in EntryRow /\ entry.vec = vec
    BY <1>2 DEF EntryRow
  <1>4. /\ lock = Nothing /\ UNCHANGED <<ledger, older, lock, batch, clock, locks>>
        /\ changes < MaxChanges /\ changes' = changes + 1
    BY DEF Migration!TakeBack, Migration!Serves
  <1>5. rows' = [rows EXCEPT ![i] = entry]
    BY <1>1
  <1> HIDE DEF entry
  <1>6. returned' \subseteq Ids /\ returned \ {i} \subseteq returned'
    BY <1>1, <1>2
  <1>7. entry.vec # "old" \/ i \in returned'
    BY <1>1, <1>3
  <1> QED
    BY <1>3, <1>4, <1>5, <1>6, <1>7, WorkerStep

LEMMA IdleCall ==
  Migration!Idle \in Call /\ Migration!Idle.at = "idle"
  <1>1. <<>> \in Pages
    <2>1. <<>> \in [{} -> EntryRow]
      OBVIOUS
    <2> QED
      BY <2>1 DEF Pages
  <1>2. 0 \in 0..MaxLocks
    BY MigrationConstants
  <1> QED
    BY <1>1, <1>2 DEF Migration!Idle, Call

LEMMA MigrationInitially == Migration!Init => MigrationInv
  <1> SUFFICES ASSUME Migration!Init PROVE MigrationInv
    OBVIOUS
  <1>1. rows \in [Ids -> EntryRow \cup {Nothing}]
    <2>1. 1 \in 1..MaxTime
      BY MigrationConstants
    <2>2. /\ [created : {1}, updated : {1}, indexable : BOOLEAN, vec : {"none"}] \subseteq EntryRow
          /\ [created : {1}, updated : {1}, indexable : {TRUE}, vec : {"old"}] \subseteq EntryRow
      BY <2>1 DEF EntryRow
    <2> QED
      BY <2>2 DEF Migration!Init
  <1>2. /\ ledger = Nothing /\ older = Nothing /\ lock = Nothing /\ returned = {}
        /\ clock = 1 /\ locks = 0 /\ changes = 0
    BY DEF Migration!Init
  <1>3. Migration!TypeOK
    BY <1>1, <1>2, MigrationConstants, MigrationSets DEF Migration!TypeOK
  <1>4. batch \in [Batches -> Call] /\ \A b \in Batches : batch[b].at = "idle"
    BY IdleCall DEF Migration!Init
  <1> QED
    BY <1>2, <1>3, <1>4 DEF MigrationInv, CallInv, CompleteMeansRebuilt

LEMMA MigrationTypes ==
  ASSUME MigrationInv
  PROVE  /\ rows \in [Ids -> EntryRow \cup {Nothing}] /\ returned \subseteq Ids
         /\ {ledger, older} \subseteq MigrationLedger \cup {Nothing}
         /\ lock \in WriteLock \cup {Nothing} /\ clock \in 1..MaxTime
         /\ clock \in Nat /\ locks \in Nat /\ locks \in 0..MaxLocks /\ changes \in 0..MaxChanges
  BY MigrationConstants, MigrationSets DEF MigrationInv, Migration!TypeOK

(* A step that leaves the entries alone.                                       *)
LEMMA StillStep ==
  ASSUME MigrationInv, UNCHANGED <<rows, returned, changes>>,
         ledger' \in MigrationLedger \cup {Nothing}, older' \in MigrationLedger \cup {Nothing},
         lock' \in WriteLock \cup {Nothing}, locks' \in 0..MaxLocks, clock' \in 1..MaxTime,
         batch' \in [Batches -> Call],
         lock' # Nothing => lock'.owner <= locks', clock <= clock', locks <= locks',
         \A o \in 0..locks : Held(lock', o) => Held(lock, o),
         \A b \in Batches : \/ batch'[b] = batch[b] /\ (batch[b].at = "embed" /\ batch[b].owner = 0 => lock' = Nothing)
                            \/ CallInv(batch'[b], rows', returned', lock', clock', locks'),
         \A led \in {ledger', older'} \ {Nothing} :
            led \in {ledger, older} \/ LedgerInv(led, rows', returned', lock', clock', locks'),
         lock' # Nothing /\ lock'.complete
            => (lock # Nothing /\ lock.complete) \/ \A i \in Indexable \ returned : rows[i].vec = "new"
  PROVE  MigrationInv'
  <1>1. Migration!TypeOK'
    BY MigrationTypes, MigrationSets DEF Migration!TypeOK
  <1>2. \A phase : Kept(rows, returned, rows', returned', clock, phase)
    BY KeptSame
  <1>3. CompleteMeansRebuilt'
    <2>1. Indexable' = Indexable
      BY DEF Indexable
    <2> QED
      BY <2>1 DEF MigrationInv, CompleteMeansRebuilt
  <1> QED
    BY <1>1, <1>2, <1>3, StepKept

LEMMA TickInv ==
  ASSUME MigrationInv, Migration!Tick PROVE MigrationInv'
  <1>1. clock' \in 1..MaxTime /\ clock <= clock'
    BY MigrationTypes, MigrationConstants DEF Migration!Tick
  <1>2. UNCHANGED <<rows, ledger, older, lock, batch, locks, changes, returned>>
    BY DEF Migration!Tick
  <1>3. \A b \in Batches : batch[b].at = "embed" /\ batch[b].owner = 0 => lock = Nothing
    BY DEF MigrationInv, CallInv
  <1>4. batch \in [Batches -> Call] /\ (lock # Nothing => lock.owner <= locks)
    BY DEF MigrationInv
  <1> QED
    BY <1>1, <1>2, <1>3, <1>4, MigrationTypes, StillStep

LEMMA SetLockInv ==
  ASSUME MigrationInv, Migration!SetLock PROVE MigrationInv'
  <1> DEFINE lk == [owner |-> locks + 1, lease |-> Nothing, complete |-> FALSE]
  <1>1. locks + 1 \in 1..MaxLocks /\ locks' = locks + 1 /\ locks' \in 0..MaxLocks
    BY MigrationTypes, MigrationConstants DEF Migration!SetLock
  <1>2. lk \in WriteLock /\ lk.owner = locks + 1 /\ lk.complete = FALSE
    BY <1>1 DEF WriteLock
  <1>3. lock' = lk /\ UNCHANGED <<rows, ledger, older, batch, clock, changes, returned>>
    BY DEF Migration!SetLock
  <1> HIDE DEF lk
  <1>4. \A o \in 0..locks : ~Held(lock', o)
    BY <1>2, <1>3, MigrationTypes DEF Held
  <1>5. \A b \in Batches : ~(batch[b].at = "embed" /\ batch[b].owner = 0)
    BY DEF Migration!SetLock
  <1>6. batch \in [Batches -> Call]
    BY DEF MigrationInv
  <1>7. clock <= clock' /\ locks <= locks' /\ lock'.owner <= locks'
    BY <1>1, <1>2, <1>3, MigrationTypes
  <1> QED
    BY <1>1, <1>2, <1>3, <1>4, <1>5, <1>6, <1>7, MigrationTypes, StillStep

LEMMA ClearLockInv ==
  ASSUME MigrationInv, Migration!ClearLock PROVE MigrationInv'
  <1>1. lock' = Nothing /\ UNCHANGED <<rows, ledger, older, batch, clock, locks, changes, returned>>
    BY DEF Migration!ClearLock
  <1>2. batch \in [Batches -> Call]
    BY DEF MigrationInv
  <1>3. clock <= clock' /\ locks <= locks'
    BY <1>1, MigrationTypes
  <1> QED
    BY <1>1, <1>2, <1>3, MigrationTypes, StillStep DEF Held

LEMMA CrashInv ==
  ASSUME MigrationInv, NEW b \in Batches, Migration!Crash(b) PROVE MigrationInv'
  <1>1. batch' = [batch EXCEPT ![b] = Migration!Idle]
        /\ UNCHANGED <<rows, ledger, older, lock, clock, locks, changes, returned>>
    BY DEF Migration!Crash
  <1>2. batch' \in [Batches -> Call] /\ batch'[b].at = "idle" /\ \A c \in Batches \ {b} : batch'[c] = batch[c]
    BY <1>1, IdleCall DEF MigrationInv
  <1>3. \A c \in Batches : batch[c].at = "embed" /\ batch[c].owner = 0 => lock = Nothing
    BY DEF MigrationInv, CallInv
  <1>4. CallInv(batch'[b], rows', returned', lock', clock', locks')
    BY <1>2 DEF CallInv
  <1>5. clock <= clock' /\ locks <= locks' /\ (lock # Nothing => lock.owner <= locks)
    BY <1>1, MigrationTypes DEF MigrationInv
  <1> QED
    BY <1>1, <1>2, <1>3, <1>4, <1>5, MigrationTypes, StillStep

(* A batch begins.                                                             *)
LEMMA BegunInv ==
  ASSUME MigrationInv, NEW b \in Batches, NEW phase \in {"full", "delta"}, NEW led \in MigrationLedger,
         NEW owner \in 0..MaxLocks, Migration!Begun(b, phase, led, owner),
         UNCHANGED <<rows, ledger, older, clock, locks, changes, returned>>,
         lock' \in WriteLock \cup {Nothing}, lock' = Nothing <=> lock = Nothing,
         lock # Nothing => lock'.owner = lock.owner /\ lock'.complete = lock.complete,
         LedgerInv(led, rows, returned, lock, clock, locks), owner <= locks,
         owner = 0 <=> lock = Nothing, lock # Nothing => lock.owner = owner,
         phase = "full" => owner = 0,
         phase = "delta" => led.finished /\ (owner # 0 => led.deltaOwner = owner)
  PROVE  MigrationInv'
  <1> DEFINE from == IF phase = "full" THEN led.cursor ELSE led.deltaCursor
             p == Migration!PageOf(led, phase, from)
             t == [Migration!Idle EXCEPT !.at = "embed", !.phase = phase, !.led = led, !.reached = from,
                                         !.page = p, !.owner = owner]
  <1>1. batch' = [batch EXCEPT ![b] = t]
    BY DEF Migration!Begun
  <1>2. /\ p \in Pages /\ \A x \in DOMAIN p : p[x] = rows[x]
        /\ \A j \in Migration!After(led, phase, from), x \in DOMAIN p :
              j \in DOMAIN p \/ Migration!Before(Migration!Key(phase, p[x], x), Migration!Key(phase, rows[j], j))
    BY MigrationTypes, PageOfFacts
  <1>3. from \in Nat \X Nat /\ led.started \in Nat
    BY MigrationAssumption DEF MigrationLedger
  <1> HIDE DEF p, from
  <1>4. /\ t \in Call /\ t.at = "embed" /\ t.phase = phase /\ t.led = led /\ t.reached = from
        /\ t.page = p /\ t.owner = owner
    BY <1>2, <1>3, IdleCall DEF Call
  <1> HIDE DEF t
  <1>5. ASSUME Ahead(rows, returned, led.started, phase, from)
        PROVE  PageInv(t, rows, returned)
    <2>1. ASSUME NEW j \in Ids, Owes(rows, returned, led.started, phase, j)
          PROVE  j \in Migration!After(led, phase, from)
      <3>1. Migration!Before(from, Migration!Key(phase, rows[j], j))
        BY <1>5, <2>1 DEF Ahead
      <3>2. j \in Migration!Pending(led, phase)
        BY <2>1 DEF Owes, Migration!Pending, Migration!Indexable
      <3> QED
        BY <3>1, <3>2 DEF Migration!After
    <2>2. ASSUME NEW j \in Ids, Owes(rows, returned, led.started, phase, j), NEW x \in DOMAIN p
          PROVE  \/ j \in DOMAIN p /\ Migration!Key(phase, p[j], j) = Migration!Key(phase, rows[j], j)
                 \/ Migration!Before(Migration!Key(phase, p[x], x), Migration!Key(phase, rows[j], j))
      BY <1>2, <2>1, <2>2
    <2> QED
      BY <1>4, <1>5, <2>2 DEF PageInv
  <1>6. phase = "full" => PageInv(t, rows, returned)
    BY <1>5 DEF LedgerInv, from
  <1>7. phase = "delta" /\ Held(lock, owner) => PageInv(t, rows, returned)
    <2> SUFFICES ASSUME phase = "delta", Held(lock, owner) PROVE PageInv(t, rows, returned)
      OBVIOUS
    <2>1. led.deltaOwner = owner
      BY DEF Held
    <2>2. Ahead(rows, returned, led.started, "delta", led.deltaCursor)
      BY <2>1 DEF LedgerInv
    <2> QED
      BY <1>5, <2>2 DEF from
  <1>8. CallInv(t, rows, returned, lock, clock, locks)
    BY <1>3, <1>4, <1>6, <1>7 DEF CallInv
  <1>9. \A o \in 0..locks : Held(lock', o) => Held(lock, o)
    BY DEF Held
  <1>10. CallInv(t, rows', returned', lock', clock', locks')
    <2>1. clock \in Nat /\ locks \in Nat /\ clock' = clock /\ locks' = locks /\ clock <= clock /\ locks <= locks
      BY MigrationTypes
    <2>2. \A ph : Kept(rows, returned, rows, returned, clock, ph)
      BY KeptSame
    <2>3. CallInv(t, rows, returned, lock', clock, locks)
      BY <1>4, <1>8, <1>9, <2>1, <2>2, CallKept
    <2> QED
      BY <2>3
  <1>11. batch' \in [Batches -> Call] /\ batch'[b] = t /\ \A c \in Batches \ {b} : batch'[c] = batch[c]
    BY <1>1, <1>4 DEF MigrationInv
  <1>12. \A c \in Batches : batch[c].at = "embed" /\ batch[c].owner = 0 => lock' = Nothing
    BY DEF MigrationInv, CallInv
  <1>13. lock' # Nothing => lock'.owner <= locks'
    BY DEF MigrationInv
  <1>14. clock <= clock' /\ locks <= locks' /\ locks' \in 0..MaxLocks /\ clock' \in 1..MaxTime
    BY MigrationTypes
  <1>15. \A c \in Batches : \/ batch'[c] = batch[c] /\ (batch[c].at = "embed" /\ batch[c].owner = 0 => lock' = Nothing)
                            \/ CallInv(batch'[c], rows', returned', lock', clock', locks')
    BY <1>10, <1>11, <1>12
  <1>16. ledger' \in MigrationLedger \cup {Nothing} /\ older' \in MigrationLedger \cup {Nothing}
    BY MigrationTypes
  <1> QED
    BY <1>9, <1>11, <1>13, <1>14, <1>15, <1>16, StillStep

LEMMA BeginFullInv ==
  ASSUME MigrationInv, NEW b \in Batches, Migration!BeginFull(b) PROVE MigrationInv'
  <1>1. PICK led0 \in Migration!Readable :
           Migration!Begun(b, "full", IF led0 = Nothing THEN Migration!Fresh ELSE led0, 0)
    BY DEF Migration!BeginFull
  <1> DEFINE led == IF led0 = Nothing THEN Migration!Fresh ELSE led0
  <1>2. lock = Nothing /\ UNCHANGED <<rows, ledger, older, lock, clock, locks, changes, returned>>
    BY DEF Migration!BeginFull
  <1>3. led \in MigrationLedger /\ LedgerInv(led, rows, returned, lock, clock, locks)
    <2>1. CASE led0 = Nothing
      <3>1. led = [started |-> clock, cursor |-> <<0, 0>>, finished |-> FALSE,
                   deltaCursor |-> <<0, 0>>, deltaOwner |-> 0]
        BY <2>1 DEF Migration!Fresh, Migration!Start
      <3>2. led \in MigrationLedger
        <4>1. clock \in 1..MaxTime /\ <<0, 0>> \in Nat \X Nat /\ 0 \in 0..MaxLocks
          BY MigrationTypes, MigrationConstants
        <4> HIDE DEF led
        <4> QED
          BY <3>1, <4>1 DEF MigrationLedger
      <3>3. Ahead(rows, returned, clock, "full", <<0, 0>>)
        BY MigrationTypes, RowFields DEF Ahead, Owes, Migration!Start
      <3>4. led.started <= clock /\ led.deltaOwner <= locks
        BY <3>1, MigrationTypes
      <3> QED
        BY <1>2, <3>1, <3>2, <3>3, <3>4 DEF LedgerInv, Held
    <2>2. CASE led0 # Nothing
      <3>1. led = led0 /\ led0 \in {ledger, older} \ {Nothing}
        BY <2>2 DEF Migration!Readable
      <3> QED
        BY <3>1, MigrationTypes DEF MigrationInv
    <2> QED
      BY <2>1, <2>2
  <1> HIDE DEF led
  <1>4. Migration!Begun(b, "full", led, 0)
    BY <1>1 DEF led
  <1>5. 0 \in 0..MaxLocks /\ 0 <= locks /\ lock \in WriteLock \cup {Nothing}
    BY MigrationTypes, MigrationConstants
  <1> QED
    BY <1>2, <1>3, <1>4, <1>5, BegunInv

LEMMA BeginDeltaInv ==
  ASSUME MigrationInv, NEW b \in Batches, NEW restart \in BOOLEAN, Migration!BeginDelta(b, restart)
  PROVE  MigrationInv'
  <1> DEFINE owner == IF lock = Nothing THEN 0 ELSE lock.owner
  <1>1. PICK led0 \in Migration!Readable \ {Nothing} :
           led0.finished /\ Migration!Begun(b, "delta", Migration!DeltaFrom(led0, restart, owner), owner)
    BY DEF Migration!BeginDelta
  <1> DEFINE led == Migration!DeltaFrom(led0, restart, owner)
  <1>2. /\ UNCHANGED <<rows, ledger, older, clock, locks, changes, returned>>
        /\ lock' = IF lock = Nothing THEN lock ELSE [lock EXCEPT !.lease = b]
    BY DEF Migration!BeginDelta
  <1>3. led0 \in MigrationLedger /\ LedgerInv(led0, rows, returned, lock, clock, locks)
    BY MigrationTypes DEF MigrationInv, Migration!Readable
  <1>4. /\ lock' \in WriteLock \cup {Nothing} /\ (lock' = Nothing <=> lock = Nothing)
        /\ lock # Nothing => lock'.owner = lock.owner /\ lock'.complete = lock.complete
    <2>1. CASE lock = Nothing
      BY <1>2, <2>1
    <2>2. CASE lock # Nothing
      <3>1. lock \in WriteLock /\ lock' = [lock EXCEPT !.lease = b]
        BY <1>2, <2>2, MigrationTypes
      <3>2. lock' \in WriteLock /\ lock'.owner = lock.owner /\ lock'.complete = lock.complete
        BY <3>1 DEF WriteLock
      <3> QED
        BY <2>2, <3>2, MigrationConstants
    <2> QED
      BY <2>1, <2>2
  <1>5. /\ owner \in 0..MaxLocks /\ owner <= locks /\ (owner = 0 <=> lock = Nothing)
        /\ lock # Nothing => lock.owner = owner
    <2>1. CASE lock = Nothing
      BY <2>1, MigrationTypes, MigrationConstants
    <2>2. CASE lock # Nothing
      <3>1. lock \in WriteLock /\ lock.owner <= locks
        BY <2>2, MigrationTypes DEF MigrationInv
      <3> QED
        BY <2>2, <3>1, MigrationConstants DEF WriteLock
    <2> QED
      BY <2>1, <2>2
  <1> HIDE DEF owner
  <1>6. /\ led \in MigrationLedger /\ led.started = led0.started /\ led.cursor = led0.cursor
        /\ led.finished = led0.finished
        /\ owner # 0 => led.deltaOwner = owner
        /\ led.deltaOwner \in {owner, led0.deltaOwner}
        /\ \/ led.deltaCursor = <<0, 0>>
           \/ led.deltaCursor = led0.deltaCursor /\ led.deltaOwner = led0.deltaOwner
    <2>1. CASE restart \/ (owner # 0 /\ led0.deltaOwner # owner)
      <3>1. led = [led0 EXCEPT !.deltaCursor = <<0, 0>>, !.deltaOwner = IF owner # 0 THEN owner ELSE led0.deltaOwner]
        BY <2>1 DEF Migration!DeltaFrom, Migration!Start
      <3> DEFINE d == IF owner # 0 THEN owner ELSE led0.deltaOwner
      <3>2. d \in 0..MaxLocks /\ d \in {owner, led0.deltaOwner} /\ (owner # 0 => d = owner)
        BY <1>3, <1>5 DEF MigrationLedger
      <3>3. led = [led0 EXCEPT !.deltaCursor = <<0, 0>>, !.deltaOwner = d]
        BY <3>1
      <3> HIDE DEF d, led
      <3>4. <<0, 0>> \in Nat \X Nat
        OBVIOUS
      <3> QED
        BY <1>3, <3>2, <3>3, <3>4 DEF MigrationLedger
    <2>2. CASE ~(restart \/ (owner # 0 /\ led0.deltaOwner # owner))
      <3>1. led = led0
        BY <2>2 DEF Migration!DeltaFrom
      <3> QED
        BY <1>3, <2>2, <3>1
    <2> QED
      BY <2>1, <2>2
  <1>7. Migration!Begun(b, "delta", led, owner)
    BY <1>1
  <1> HIDE DEF led
  <1>8. LedgerInv(led, rows, returned, lock, clock, locks)
    <2>1. Ahead(rows, returned, led.started, "delta", <<0, 0>>)
      BY MigrationTypes, RowFields DEF Ahead, Owes, Migration!Start
    <2>2. Held(lock, led.deltaOwner) => Ahead(rows, returned, led.started, "delta", led.deltaCursor)
      BY <1>3, <1>6, <2>1 DEF LedgerInv
    <2>3. led.deltaOwner <= locks
      BY <1>3, <1>5, <1>6 DEF LedgerInv
    <2> QED
      BY <1>3, <1>6, <2>2, <2>3 DEF LedgerInv
  <1> QED
    BY <1>1, <1>2, <1>4, <1>5, <1>6, <1>7, <1>8, BegunInv

(* A batch embeds the first entry of its page.                                 *)
LEMMA EmbedInv ==
  ASSUME MigrationInv, NEW b \in Batches, Migration!Embed(b) PROVE MigrationInv'
  <1> DEFINE t == batch[b]
             page == t.page
             at(x) == Migration!Key(t.phase, page[x], x)
             i == CHOOSE x \in DOMAIN page : \A y \in DOMAIN page : ~Migration!Before(at(y), at(x))
  <1>1. /\ t.at = "embed" /\ page # <<>> /\ UNCHANGED <<ledger, older, lock, clock, locks, changes>>
        /\ t \in Call /\ CallInv(t, rows, returned, lock, clock, locks)
    BY DEF Migration!Embed, MigrationInv
  <1>2. page \in Pages /\ t.led \in MigrationLedger /\ t.reached \in Nat \X Nat
    BY <1>1 DEF Call, CallInv
  <1>3. \A c \in Batches : batch[c].at = "embed" /\ batch[c].owner = 0 => lock = Nothing
    BY DEF MigrationInv, CallInv
  <1>4. /\ clock <= clock' /\ locks <= locks' /\ (lock # Nothing => lock.owner <= locks)
        /\ locks' \in 0..MaxLocks /\ clock' \in 1..MaxTime /\ clock \in Nat /\ locks \in Nat
        /\ lock' \in WriteLock \cup {Nothing} /\ ledger' \in MigrationLedger \cup {Nothing}
        /\ older' \in MigrationLedger \cup {Nothing}
    BY <1>1, MigrationTypes DEF MigrationInv
  <1>5. CASE /\ batch' = [batch EXCEPT ![b].page = <<>>, ![b].failed = TRUE]
             /\ UNCHANGED <<rows, returned>>
    <2> DEFINE t2 == [t EXCEPT !.page = <<>>, !.failed = TRUE]
    <2>1. batch' = [batch EXCEPT ![b] = t2]
      BY <1>5
    <2>2. /\ t2 \in Call /\ t2.at = t.at /\ t2.phase = t.phase /\ t2.led = t.led /\ t2.reached = t.reached
          /\ t2.page = <<>> /\ t2.owner = t.owner
      BY <1>1, IdleCall DEF Call, Migration!Idle
    <2> HIDE DEF t2, t
    <2>3. batch' \in [Batches -> Call] /\ batch'[b] = t2 /\ \A c \in Batches \ {b} : batch'[c] = batch[c]
      BY <2>1, <2>2 DEF MigrationInv
    <2>4. PageInv(t, rows, returned) => PageInv(t2, rows, returned)
      BY <2>2 DEF PageInv
    <2>5. CallInv(t2, rows, returned, lock, clock, locks)
      BY <1>1, <2>2, <2>4 DEF CallInv
    <2> QED
      BY <1>1, <1>3, <1>4, <1>5, <2>3, <2>5, StillStep
  <1>6. CASE /\ Migration!MayWrite(b) /\ rows[i] = page[i] /\ page[i].indexable
             /\ Migration!Written(i, [rows[i] EXCEPT !.vec = "new"])
             /\ batch' = [batch EXCEPT ![b].page = [x \in DOMAIN page \ {i} |-> page[x]], ![b].reached = at(i)]
             /\ returned' = returned \ {i}
    <2> DEFINE rest == [x \in DOMAIN page \ {i} |-> page[x]]
               t2 == [t EXCEPT !.page = rest, !.reached = at(i)]
               entry == [rows[i] EXCEPT !.vec = "new"]
    <2>1. /\ DOMAIN page \subseteq Ids /\ DOMAIN page # {}
          /\ \A x \in DOMAIN page : page[x] \in EntryRow /\ at(x) \in Nat \X Nat /\ at(x)[2] = x
      <3>1. PICK S \in SUBSET Ids : page \in [S -> EntryRow]
        BY <1>2 DEF Pages
      <3>2. S # {}
        BY <1>1, <3>1
      <3>3. \A x \in DOMAIN page : page[x] \in EntryRow
        BY <3>1
      <3> QED
        BY <3>1, <3>2, <3>3, RowFields
    <2>2. i \in DOMAIN page /\ \A y \in DOMAIN page : ~Migration!Before(at(y), at(i))
      <3> DEFINE k == [x \in DOMAIN page |-> at(x)]
      <3>1. \A x \in DOMAIN page : k[x] = at(x) /\ k[x] \in Nat \X Nat
        BY <2>1
      <3> HIDE DEF k
      <3>2. \E x \in DOMAIN page : \A y \in DOMAIN page : ~Migration!Before(k[y], k[x])
        BY <2>1, <3>1, FirstExists
      <3>3. \E x \in DOMAIN page : \A y \in DOMAIN page : ~Migration!Before(at(y), at(x))
        BY <3>1, <3>2
      <3> QED
        BY <3>3
    <2> HIDE DEF i
    <2>3. rest \in Pages /\ DOMAIN rest = DOMAIN page \ {i} /\ \A x \in DOMAIN rest : rest[x] = page[x]
      <3>1. rest \in [DOMAIN page \ {i} -> EntryRow]
        BY <2>1
      <3> QED
        BY <2>1, <3>1 DEF Pages
    <2>4. i \in Ids /\ rows[i] \in EntryRow /\ at(i) \in Nat \X Nat
      BY <1>6, <2>1, <2>2
    <2>5. entry \in EntryRow /\ entry.vec = "new"
      BY <2>4 DEF EntryRow
    <2>6. rows' = [rows EXCEPT ![i] = entry] /\ returned' = returned \ {i}
      BY <1>6 DEF Migration!Written
    <2>7. batch' = [batch EXCEPT ![b] = t2]
      BY <1>6
    <2> DEFINE key == at(i)
    <2> HIDE DEF rest, entry
    <2>8. /\ t2 \in Call /\ t2.at = t.at /\ t2.phase = t.phase /\ t2.led = t.led /\ t2.reached = key
          /\ t2.page = rest /\ t2.owner = t.owner
      <3>1. key \in Nat \X Nat
        BY <2>4
      <3>2. t2 = [t EXCEPT !.page = rest, !.reached = key]
        OBVIOUS
      <3> HIDE DEF key, t, t2
      <3> QED
        BY <1>1, <2>3, <3>1, <3>2 DEF Call
    <2> HIDE DEF t2
    <2>9. rows \in [Ids -> EntryRow \cup {Nothing}] /\ rows' \in [Ids -> EntryRow \cup {Nothing}]
      BY <2>4, <2>5, <2>6, MigrationTypes
    <2>10. rows'[i] = entry /\ \A j \in Ids \ {i} : rows'[j] = rows[j]
      BY <2>4, <2>6, <2>9
    <2>11. \A since, phase : ~Owes(rows', returned', since, phase, i)
      BY <2>5, <2>10 DEF Owes
    <2>12. \A phase : Kept(rows, returned, rows', returned', clock, phase)
      <3>1. DOMAIN rows = Ids /\ rows = [j \in Ids |-> rows[j]]
        BY <2>9
      <3>2. returned \ {i} \subseteq returned'
        BY <2>6
      <3> QED
        BY <1>4, <2>4, <2>6, <2>11, <3>1, <3>2, WriteKept
    <2>13. CallInv(t, rows', returned', lock, clock, locks)
      BY <1>1, <1>3, <1>4, <2>12, CallKept
    <2>14. ASSUME PageInv(t, rows', returned') PROVE PageInv(t2, rows', returned')
      <3> DEFINE K(j) == Migration!Key(t.phase, rows'[j], j)
      <3>1. ASSUME NEW j \in Ids, Owes(rows', returned', t.led.started, t.phase, j)
            PROVE  j # i /\ Migration!Before(key, K(j))
        <4>1. j # i
          BY <2>11, <3>1
        <4>2. \/ j \in DOMAIN page /\ at(j) = K(j)
              \/ Migration!Before(at(i), K(j))
          BY <2>2, <2>14, <3>1 DEF PageInv
        <4>3. CASE j \in DOMAIN page /\ at(j) = K(j)
          <5>1. at(j) # at(i) /\ ~Migration!Before(at(j), at(i)) /\ at(j) \in Nat \X Nat /\ at(i) \in Nat \X Nat
            BY <2>1, <2>2, <4>1, <4>3
          <5>2. Migration!Before(at(i), at(j))
            BY <5>1, BeforeOrders
          <5> QED
            BY <4>1, <4>3, <5>2
        <4> QED
          BY <4>1, <4>2, <4>3
      <3>2. Ahead(rows', returned', t.led.started, t.phase, key)
        BY <3>1 DEF Ahead
      <3>3. ASSUME NEW j \in Ids, Owes(rows', returned', t.led.started, t.phase, j), NEW x \in DOMAIN rest
            PROVE  \/ j \in DOMAIN rest /\ Migration!Key(t.phase, rest[j], j) = K(j)
                   \/ Migration!Before(Migration!Key(t.phase, rest[x], x), K(j))
        <4>1. j # i /\ x \in DOMAIN page /\ rest[x] = page[x]
          BY <2>3, <3>1, <3>3
        <4>2. \/ j \in DOMAIN page /\ at(j) = K(j)
              \/ Migration!Before(at(x), K(j))
          BY <2>14, <3>3, <4>1 DEF PageInv
        <4>3. j \in DOMAIN page => j \in DOMAIN rest /\ rest[j] = page[j]
          BY <2>3, <4>1
        <4> QED
          BY <4>1, <4>2, <4>3
      <3> HIDE DEF key
      <3> QED
        BY <2>8, <3>2, <3>3 DEF PageInv
    <2> HIDE DEF key
    <2>15. CallInv(t2, rows', returned', lock, clock, locks)
      <3>1. key \in Nat \X Nat
        BY <2>4 DEF key
      <3> HIDE DEF t
      <3> QED
        BY <1>1, <2>8, <2>13, <2>14, <3>1 DEF CallInv
    <2>16. batch' \in [Batches -> Call] /\ batch'[b] = t2 /\ \A c \in Batches \ {b} : batch'[c] = batch[c]
      BY <2>7, <2>8 DEF MigrationInv
    <2>17. Migration!TypeOK'
      <3>1. returned' \subseteq Ids
        BY <2>6, MigrationTypes
      <3> QED
        BY <1>1, <2>9, <3>1, MigrationSets DEF MigrationInv, Migration!TypeOK
    <2>18. CompleteMeansRebuilt'
      <3> SUFFICES ASSUME lock # Nothing, lock.complete, NEW j \in (Indexable \ returned)' PROVE rows'[j].vec = "new"
        BY <1>1 DEF CompleteMeansRebuilt
      <3>1. CASE j = i
        BY <2>5, <2>10, <3>1
      <3>2. CASE j # i
        <4>1. j \in Indexable \ returned /\ rows'[j] = rows[j]
          BY <2>6, <2>10, <3>2 DEF Indexable
        <4> QED
          BY <4>1 DEF MigrationInv, CompleteMeansRebuilt
      <3> QED
        BY <3>1, <3>2
    <2>19. \A c \in Batches : \/ batch'[c] = batch[c] /\ (batch[c].at = "embed" /\ batch[c].owner = 0 => lock' = Nothing)
                              \/ CallInv(batch'[c], rows', returned', lock', clock', locks')
      BY <1>1, <1>3, <2>15, <2>16
    <2> QED
      BY <1>1, <1>4, <2>12, <2>16, <2>17, <2>18, <2>19, StepKept
  <1> QED
    BY <1>5, <1>6 DEF Migration!Embed

(* A batch counts the rest and puts its ledger.                                *)
LEMMA FinishInv ==
  ASSUME MigrationInv, NEW b \in Batches, Migration!Finish(b) PROVE MigrationInv'
  <1> DEFINE t == batch[b]
             from == IF t.phase = "full" THEN t.led.cursor ELSE t.led.deltaCursor
             done == Migration!After(t.led, t.phase, t.reached) = {} /\ ~(t.failed /\ t.reached = from)
             next == IF t.phase = "full" THEN [t.led EXCEPT !.cursor = t.reached, !.finished = t.led.finished \/ done]
                                         ELSE [t.led EXCEPT !.deltaCursor = t.reached]
  <1>1. /\ t.at = "embed" /\ t \in Call /\ CallInv(t, rows, returned, lock, clock, locks)
        /\ batch' = [batch EXCEPT ![b] = Migration!Idle]
        /\ UNCHANGED <<rows, clock, locks, changes, returned>>
    BY DEF Migration!Finish, MigrationInv
  <1>2. \/ /\ done /\ t.owner # 0 /\ Migration!MayWrite(b)
           /\ lock' = [lock EXCEPT !.complete = TRUE] /\ ledger' = next /\ older' = ledger
        \/ UNCHANGED <<lock, ledger, older>>
        \/ ledger' = next /\ older' = ledger /\ UNCHANGED lock
    BY DEF Migration!Finish
  <1>3. /\ t.led \in MigrationLedger /\ t.reached \in Nat \X Nat /\ t.owner \in Nat
        /\ LedgerInv(t.led, rows, returned, lock, clock, locks)
        /\ t.phase \in {"full", "delta"} /\ t.led.started \in Nat
        /\ lock # Nothing => lock \in WriteLock
    BY <1>1, MigrationAssumption, MigrationTypes DEF Call, CallInv, MigrationLedger
  <1>4. t.phase = "full" \/ Held(lock, t.owner) => PageInv(t, rows, returned)
    BY <1>1, <1>3 DEF CallInv
  <1>5. ASSUME PageInv(t, rows, returned), done, NEW i \in Ids
        PROVE  ~Owes(rows, returned, t.led.started, t.phase, i)
    <2> SUFFICES ASSUME Owes(rows, returned, t.led.started, t.phase, i) PROVE FALSE
      OBVIOUS
    <2>1. Migration!Before(t.reached, Migration!Key(t.phase, rows[i], i))
      BY <1>5 DEF PageInv, Ahead
    <2>2. i \in Migration!Pending(t.led, t.phase)
      BY DEF Owes, Migration!Pending, Migration!Indexable
    <2>3. i \in Migration!After(t.led, t.phase, t.reached)
      BY <2>1, <2>2 DEF Migration!After
    <2> QED
      BY <1>5, <2>3
  <1>6. done \in BOOLEAN
    OBVIOUS
  <1> HIDE DEF done
  <1>7. next \in MigrationLedger /\ LedgerInv(next, rows, returned, lock, clock, locks)
    <2>1. CASE t.phase = "full"
      <3> DEFINE f == t.led.finished \/ done
      <3>1. f \in BOOLEAN
        OBVIOUS
      <3>2. next = [t.led EXCEPT !.cursor = t.reached, !.finished = f]
        BY <2>1
      <3>3. Ahead(rows, returned, t.led.started, "full", t.reached)
        BY <1>4, <2>1 DEF PageInv
      <3>4. f => \A i \in Ids : ~Owes(rows, returned, t.led.started, "full", i)
        BY <1>3, <1>4, <1>5, <2>1 DEF LedgerInv
      <3> HIDE DEF f, next, t
      <3>5. /\ next \in MigrationLedger /\ next.started = t.led.started /\ next.cursor = t.reached
            /\ next.finished = f /\ next.deltaCursor = t.led.deltaCursor /\ next.deltaOwner = t.led.deltaOwner
        BY <1>3, <3>1, <3>2 DEF MigrationLedger
      <3> QED
        BY <1>3, <3>3, <3>4, <3>5 DEF LedgerInv
    <2>2. CASE t.phase # "full"
      <3>1. next = [t.led EXCEPT !.deltaCursor = t.reached]
        BY <2>2
      <3>2. Held(lock, t.led.deltaOwner) => Ahead(rows, returned, t.led.started, "delta", t.reached)
        <4> SUFFICES ASSUME Held(lock, t.led.deltaOwner)
                     PROVE  Ahead(rows, returned, t.led.started, "delta", t.reached)
          OBVIOUS
        <4>1. t.phase = "delta" /\ t.owner # 0
          BY <1>1, <1>3, <2>2 DEF CallInv, Held
        <4>2. t.led.deltaOwner = t.owner
          BY <1>1, <4>1 DEF CallInv
        <4>3. PageInv(t, rows, returned)
          BY <1>4, <4>2
        <4> QED
          BY <4>1, <4>3 DEF PageInv
      <3> HIDE DEF next, t
      <3>3. /\ next \in MigrationLedger /\ next.started = t.led.started /\ next.cursor = t.led.cursor
            /\ next.finished = t.led.finished /\ next.deltaCursor = t.reached
            /\ next.deltaOwner = t.led.deltaOwner
        BY <1>3, <3>1 DEF MigrationLedger
      <3> QED
        BY <1>3, <3>2, <3>3 DEF LedgerInv
    <2> QED
      BY <2>1, <2>2
  <1> HIDE DEF next
  <1>8. batch' \in [Batches -> Call] /\ batch'[b].at = "idle" /\ \A c \in Batches \ {b} : batch'[c] = batch[c]
    BY <1>1, IdleCall DEF MigrationInv
  <1>9. CallInv(batch'[b], rows', returned', lock', clock', locks')
    BY <1>8 DEF CallInv
  <1>10. \A c \in Batches : batch[c].at = "embed" /\ batch[c].owner = 0 => lock = Nothing
    BY DEF MigrationInv, CallInv
  <1>11. /\ clock <= clock' /\ locks <= locks' /\ (lock # Nothing => lock.owner <= locks)
         /\ locks' \in 0..MaxLocks /\ clock' \in 1..MaxTime
         /\ lock \in WriteLock \cup {Nothing} /\ ledger \in MigrationLedger \cup {Nothing}
         /\ older \in MigrationLedger \cup {Nothing}
    BY <1>1, MigrationTypes DEF MigrationInv
  <1>12. CASE /\ done /\ t.owner # 0 /\ Migration!MayWrite(b)
              /\ lock' = [lock EXCEPT !.complete = TRUE] /\ ledger' = next /\ older' = ledger
    <2>1. lock # Nothing /\ lock.owner = t.owner
      BY <1>12 DEF Migration!MayWrite
    <2>2. lock \in WriteLock /\ Held(lock, t.owner) /\ t.phase = "delta" /\ t.led.finished
      BY <1>1, <1>3, <1>12, <2>1 DEF Held, CallInv
    <2>3. lock' \in WriteLock /\ lock'.owner = lock.owner
      BY <1>12, <2>2 DEF WriteLock
    <2>4. lock' # Nothing
      BY <2>3, MigrationConstants
    <2>5. \A o : Held(lock', o) => Held(lock, o)
      BY <2>1, <2>3 DEF Held
    <2>6. \A i \in Ids : ~Owes(rows, returned, t.led.started, "delta", i)
      BY <1>4, <1>5, <1>12, <2>2
    <2>7. \A i \in Ids : ~Owes(rows, returned, t.led.started, "full", i)
      BY <1>3, <2>2 DEF LedgerInv
    <2>8. ASSUME NEW i \in Indexable \ returned PROVE rows[i].vec = "new"
      <3>1. i \in Ids /\ rows[i] # Nothing /\ rows[i].indexable /\ i \notin returned /\ rows[i] \in EntryRow
        BY MigrationTypes DEF Indexable
      <3>2. rows[i].vec \in {"none", "old", "new"} /\ rows[i].updated \in Nat
        BY <3>1, RowFields
      <3> QED
        BY <1>3, <2>6, <2>7, <3>1, <3>2 DEF Owes
    <2>9. LedgerInv(next, rows', returned', lock', clock', locks')
      BY <1>1, <1>7, <2>5 DEF LedgerInv
    <2>10. \A led \in {ledger', older'} \ {Nothing} :
              led \in {ledger, older} \/ LedgerInv(led, rows', returned', lock', clock', locks')
      BY <1>12, <2>9
    <2>11. \A c \in Batches \ {b} : batch[c].at = "embed" /\ batch[c].owner = 0 => lock' = Nothing
      BY <1>10, <2>1
    <2>12. ledger' \in MigrationLedger \cup {Nothing} /\ older' \in MigrationLedger \cup {Nothing}
      BY <1>7, <1>11, <1>12
    <2>13. lock'.owner <= locks'
      BY <1>1, <1>11, <2>1, <2>3
    <2>14. \A c \in Batches : \/ batch'[c] = batch[c] /\ (batch[c].at = "embed" /\ batch[c].owner = 0 => lock' = Nothing)
                              \/ CallInv(batch'[c], rows', returned', lock', clock', locks')
      BY <1>8, <1>9, <2>11
    <2> QED
      BY <1>1, <1>8, <1>11, <2>3, <2>5, <2>8, <2>10, <2>12, <2>13, <2>14, StillStep
  <1>13. CASE /\ UNCHANGED lock
              /\ UNCHANGED <<ledger, older>> \/ (ledger' = next /\ older' = ledger)
    <2>1. LedgerInv(next, rows', returned', lock', clock', locks')
      BY <1>1, <1>7, <1>13
    <2>2. \A led \in {ledger', older'} \ {Nothing} :
              led \in {ledger, older} \/ LedgerInv(led, rows', returned', lock', clock', locks')
      BY <1>13, <2>1
    <2>3. ledger' \in MigrationLedger \cup {Nothing} /\ older' \in MigrationLedger \cup {Nothing}
      BY <1>7, <1>11, <1>13
    <2>4. \A c \in Batches : \/ batch'[c] = batch[c] /\ (batch[c].at = "embed" /\ batch[c].owner = 0 => lock' = Nothing)
                             \/ CallInv(batch'[c], rows', returned', lock', clock', locks')
      BY <1>8, <1>9, <1>10, <1>13
    <2>5. lock' # Nothing => lock'.owner <= locks'
      BY <1>1, <1>11, <1>13
    <2> QED
      BY <1>1, <1>8, <1>11, <1>13, <2>2, <2>3, <2>4, <2>5, StillStep
  <1> QED
    BY <1>2, <1>12, <1>13

LEMMA MigrationStep == MigrationInv /\ [Migration!Next]_(Migration!vars) => MigrationInv'
  <1> SUFFICES ASSUME MigrationInv, [Migration!Next]_(Migration!vars) PROVE MigrationInv'
    OBVIOUS
  <1>1. CASE UNCHANGED Migration!vars
    <2>1. UNCHANGED <<rows, ledger, older, lock, batch, clock, locks, changes, returned>>
      BY <1>1 DEF Migration!vars
    <2>2. \A c \in Batches : batch[c].at = "embed" /\ batch[c].owner = 0 => lock = Nothing
      BY DEF MigrationInv, CallInv
    <2>3. /\ clock <= clock' /\ locks <= locks' /\ (lock # Nothing => lock.owner <= locks)
          /\ batch \in [Batches -> Call]
      BY <2>1, MigrationTypes DEF MigrationInv
    <2> QED
      BY <2>1, <2>2, <2>3, MigrationTypes, StillStep
  <1>2. CASE Migration!Next
    BY <1>2, CaptureInv, ImportInv, EditInv, WithdrawInv, TakeBackInv, TickInv, SetLockInv, ClearLockInv,
       BeginFullInv, BeginDeltaInv, EmbedInv, FinishInv, CrashInv DEF Migration!Next
  <1> QED
    BY <1>1, <1>2

(* Rows, ledgers, lock and counters of the migration keep their types.         *)
THEOREM MigrationTypeCorrect == Migration!Spec => []Migration!TypeOK
  <1>1. MigrationInv => Migration!TypeOK
    BY DEF MigrationInv
  <1> QED
    BY <1>1, MigrationInitially, MigrationStep, PTL DEF Migration!Spec

(* A lock marked complete has every entry in the new index with the content it *)
(* has, for any number of entries, batches and locks, with batches that        *)
(* overlap, ledgers that are read late or put last, and writes of the serving  *)
(* Worker between the passes.                                                  *)
THEOREM CompleteIsRebuilt == Migration!Spec => []CompleteMeansRebuilt
  <1>1. MigrationInv => CompleteMeansRebuilt
    BY DEF MigrationInv
  <1> QED
    BY <1>1, MigrationInitially, MigrationStep, PTL DEF Migration!Spec

--------------------------------------------------------------------------------
(* The vectors of one memory. Of the index only matters which vectors it will  *)
(* have once it has applied its queue.                                         *)
Served == {u \in Uploads : Stays(u)}

(* An upload whose request is over, and one that will never commit again.      *)
Landed(u) == up[u].at \notin {"idle", "read", "journalled", "sent"} /\ u \notin flight
Settled(u) == Landed(u) /\ up[u].at # "ready"

(* Gone from the index, and for good.                                          *)
Dead(u) == Landed(u) /\ u \notin Served

(* What a journal names and is not to be found among some vectors is gone.     *)
Covered(j, S) == ops[j] # Null => \A u \in ops[j].ids : u \in S \/ Dead(u)

(* A journal acts only on what was listed before, but for the vectors of its   *)
(* own upload; ready = 1 and ready = 3 say that those have landed, a receipt   *)
(* that the index was told to delete them.                                     *)
OpInv(j) ==
  ops[j] # Null =>
    /\ \A u \in ops[j].ids : up[u].at \notin {"idle", "read"} /\ (j # <<u, 1>> => Settled(u))
    /\ ops[j].ready \in {1, 3} => \A u \in ops[j].ids : Landed(u)
    /\ IF ops[j].ready = 3 THEN ops[j].receipt # Null => ops[j].ids \cap Served = {}
                           ELSE ops[j].receipt = Null

(* So does whoever works on one, and it knows all of its vectors.              *)
HandInv(a) ==
  LET h == hand[a]
      j == h.op
  IN
  /\ h.at = "idle" => h = NoHand
  /\ h.at # "idle" => /\ j \in Journals
                      /\ h.kind = "lifecycle" => j \in Removals \X {1}
                      /\ \A u \in h.ids : j # <<u, 1>> => Settled(u)
  /\ h.at = "claim" => h.kind = "drain" /\ h.ready \in {0, 1}
  /\ h.at \in {"judge", "delete", "record"} \/ (h.at = "claim" /\ h.ready = 1) =>
        \A u \in h.ids : Landed(u)
  /\ h.at = "record" \/ (h.at = "judge" /\ AwaitsIndex(a)) => h.ids \cap Served = {}
  /\ h.at = "delete" => h.ids \cap row.listed \subseteq Unfenced
  /\ h.at \in {"claim", "judge"} /\ h.kind # "lifecycle" => Covered(j, h.ids)

NoneOn(j) == ops[j] = Null /\ \A a \in Actors : hand[a].op # j

(* While an upload may still be committed its journal is whole, and it has     *)
(* been told to nobody, as long as it is not claimed.                          *)
JournalInv(u) ==
  LET j == <<u, 1>>
      at == up[u].at
  IN
  /\ at \in {"idle", "read"} => NoneOn(j)
  /\ at \in {"journalled", "sent"} =>
        /\ ops[j] # Null /\ ops[j].ready \in {0, 2} /\ ops[j].ids = up[u].prior \cup {u}
        /\ \A a \in Actors : hand[a].op = j => hand[a].at = "claim" /\ hand[a].ready = 0
  /\ at \in {"journalled", "sent", "ready"} /\ ops[j] # Null /\ ops[j].ready \in {0, 1} =>
        /\ ops[j].ids = up[u].prior \cup {u}
        /\ \A a \in Actors : hand[a].op = j => hand[a].at = "claim"
        /\ at \in {"sent", "ready"} /\ u \notin flight /\ u \notin Unfenced => u \in Served
  /\ at \notin {"idle", "read", "ended"} => Covered(j, up[u].prior \cup {u})
  /\ u \in Unfenced /\ at \notin {"second", "ended"} => NoneOn(<<u, 2>>)
  /\ at = "second" => Covered(<<u, 2>>, up[u].stale)

UploadInv(u) ==
  LET at == up[u].at IN
  /\ \A v \in up[u].seen.listed \cup up[u].prior \cup up[u].stale : Settled(v)
  /\ u \in flight => at \in {"sent", "ended"}
  /\ at \in {"retiring", "second"} => u \in Unfenced
  /\ at # "ended" => hand[u] = NoHand
  /\ u \notin Unfenced \cup Passages /\ at \notin {"idle", "ended"} => up[u].prior = up[u].seen.listed

RemovalInv(x) ==
  /\ \A v \in removal[x].seen.listed : Settled(v)
  /\ removal[x].at # "ended" => NoneOn(<<x, 1>>) /\ hand[x] = NoHand

RowInv == \A u \in row.listed : Settled(u) /\ (u \notin Unfenced => u \in Served)

(* A journal keeps a vector that nobody working on it is about to leave out.   *)
Drops(a, j, u) ==
  /\ hand[a].op = j
  /\ \/ hand[a].at = "retire"
     \/ hand[a].at \in {"judge", "delete", "record"} /\ hand[a].kind # "lifecycle" /\ u \notin hand[a].ids

Keeps(j, u) == ops[j] # Null /\ u \in ops[j].ids /\ \A a \in Actors : ~Drops(a, j, u)

Cared(u, J) ==
  \/ u \in overlooked \/ u \in row.listed
  \/ u \notin flight /\ u \notin Served
  \/ \E j \in J : Keeps(j, u)

CareInv(u) ==
  /\ Cared(u, Journals)
  /\ up[u].at = "committed" /\ u \notin Unfenced => Cared(u, Journals \ {<<u, 1>>})

OutboxInv ==
  /\ TypeOK
  /\ \A j \in Journals : OpInv(j)
  /\ \A a \in Actors : HandInv(a)
  /\ \A u \in Uploads : JournalInv(u)
  /\ \A u \in Uploads : UploadInv(u)
  /\ \A x \in Removals : RemovalInv(x)
  /\ RowInv
  /\ \A u \in Uploads : CareInv(u)

--------------------------------------------------------------------------------
(* What the index will have.                                                   *)

StaysOn(q, has, u) ==
  LET last == CHOOSE n \in 0..Len(q) :
                  /\ n = 0 \/ u \in q[n].ids
                  /\ \A m \in n + 1..Len(q) : u \notin q[m].ids
  IN IF last = 0 THEN u \in has ELSE q[last].kind = "upsert"

LEMMA StaysIs ==
  ASSUME NEW u
  PROVE  /\ Stays(u) = StaysOn(queue, visible, u)
         /\ Stays(u)' = StaysOn(queue', visible', u)
  BY DEF Stays, StaysOn

(* The last mention of a vector in the queue, by place.                        *)
Mentions(q, u, n) == n \in 1..Len(q) /\ u \in q[n].ids
LastAt(q, u, n) == Mentions(q, u, n) /\ \A m \in n + 1..Len(q) : u \notin q[m].ids

LEMMA LastMention ==
  ASSUME NEW q, Len(q) \in Nat, NEW has, NEW u
  PROVE  /\ (\A n \in 1..Len(q) : u \notin q[n].ids) => (StaysOn(q, has, u) <=> u \in has)
         /\ \A n \in 1..Len(q) : LastAt(q, u, n) => (StaysOn(q, has, u) <=> q[n].kind = "upsert")
         /\ (\A n \in 1..Len(q) : u \notin q[n].ids) \/ \E n \in 1..Len(q) : LastAt(q, u, n)
  <1> DEFINE P(n) == /\ n = 0 \/ u \in q[n].ids
                     /\ \A m \in n + 1..Len(q) : u \notin q[m].ids
             last == CHOOSE n \in 0..Len(q) : P(n)
  <1>1. StaysOn(q, has, u) = IF last = 0 THEN u \in has ELSE q[last].kind = "upsert"
    BY DEF StaysOn
  <1>2. ASSUME NEW n \in 0..Len(q), NEW k \in 0..Len(q), P(n), P(k), n < k PROVE FALSE
    BY <1>2
  <1>3. ASSUME NEW n \in 0..Len(q), P(n) PROVE last = n
    <2>1. last \in 0..Len(q) /\ P(last)
      BY <1>3
    <2> HIDE DEF last, P
    <2>2. ~(last < n) /\ ~(n < last)
      BY <1>2, <1>3, <2>1
    <2> QED
      BY <2>1, <2>2
  <1>4. ASSUME \A n \in 1..Len(q) : u \notin q[n].ids PROVE StaysOn(q, has, u) <=> u \in has
    <2>1. 0 \in 0..Len(q) /\ P(0)
      BY <1>4
    <2>2. last = 0
      BY <1>3, <2>1
    <2> HIDE DEF last
    <2> QED
      BY <1>1, <2>2
  <1>5. ASSUME NEW n \in 1..Len(q), LastAt(q, u, n) PROVE StaysOn(q, has, u) <=> q[n].kind = "upsert"
    <2>1. n \in 0..Len(q) /\ P(n) /\ n # 0
      BY <1>5 DEF LastAt, Mentions
    <2>2. last = n
      BY <1>3, <2>1
    <2> HIDE DEF last, P
    <2> QED
      BY <1>1, <2>1, <2>2
  <1>6. ASSUME NEW k \in 1..Len(q), u \in q[k].ids PROVE \E n \in 1..Len(q) : LastAt(q, u, n)
    <2> DEFINE S == {d \in Nat : \E n \in 1..Len(q) : u \in q[n].ids /\ d = Len(q) - n}
    <2>1. Len(q) - k \in S
      BY <1>6
    <2>2. PICK d \in S : \A e \in S : d <= e
      BY <2>1, LowestExists
    <2>3. PICK n \in 1..Len(q) : u \in q[n].ids /\ d = Len(q) - n
      BY <2>2
    <2>4. ASSUME NEW m \in n + 1..Len(q), u \in q[m].ids PROVE FALSE
      <3>1. m \in 1..Len(q) /\ Len(q) - m \in Nat
        BY <2>4
      <3>2. Len(q) - m \in S
        BY <2>4, <3>1
      <3>3. d <= Len(q) - m
        BY <2>2, <3>2
      <3> QED
        BY <2>3, <3>1, <3>3, <2>4
    <2>5. LastAt(q, u, n)
      BY <2>3, <2>4 DEF LastAt, Mentions
    <2> QED
      BY <2>5
  <1> QED
    BY <1>4, <1>5, <1>6

LEMMA StaysApply ==
  ASSUME NEW q \in Seq(Mutation), q # <<>>, NEW has, NEW u,
         NEW now, now = IF Head(q).kind = "upsert" THEN has \cup Head(q).ids ELSE has \ Head(q).ids
  PROVE  StaysOn(Tail(q), now, u) <=> StaysOn(q, has, u)
  <1> DEFINE t == Tail(q)
  <1>1. /\ Len(q) \in Nat \ {0} /\ Len(t) = Len(q) - 1 /\ Len(t) \in Nat
        /\ Head(q) = q[1] /\ \A n \in 1..Len(t) : t[n] = q[n + 1]
    OBVIOUS
  <1> HIDE DEF t
  <1>2. CASE \E n \in 1..Len(t) : LastAt(t, u, n)
    <2>1. PICK n \in 1..Len(t) : LastAt(t, u, n)
      BY <1>2
    <2>2. n + 1 \in 1..Len(q) /\ u \in q[n + 1].ids /\ q[n + 1].kind = t[n].kind
      BY <1>1, <2>1 DEF LastAt, Mentions
    <2>3. ASSUME NEW m \in (n + 1) + 1..Len(q) PROVE u \notin q[m].ids
      <3>1. m - 1 \in n + 1..Len(t) /\ m - 1 \in 1..Len(t) /\ (m - 1) + 1 = m
        BY <1>1, <2>1
      <3> QED
        BY <1>1, <2>1, <3>1 DEF LastAt
    <2>4. LastAt(q, u, n + 1)
      BY <2>2, <2>3 DEF LastAt, Mentions
    <2>5. StaysOn(t, now, u) <=> t[n].kind = "upsert"
      BY <1>1, <2>1, LastMention
    <2>6. StaysOn(q, has, u) <=> q[n + 1].kind = "upsert"
      BY <1>1, <2>2, <2>4, LastMention
    <2> QED
      BY <2>2, <2>5, <2>6 DEF t
  <1>3. CASE \A n \in 1..Len(t) : u \notin t[n].ids
    <2>1. StaysOn(t, now, u) <=> u \in now
      BY <1>1, <1>3, LastMention
    <2>2. ASSUME NEW m \in 1 + 1..Len(q) PROVE u \notin q[m].ids
      <3>1. m - 1 \in 1..Len(t) /\ (m - 1) + 1 = m
        BY <1>1
      <3> QED
        BY <1>1, <1>3, <3>1
    <2>3. CASE u \in q[1].ids
      <3>1. 1 \in 1..Len(q) /\ LastAt(q, u, 1)
        BY <1>1, <2>2, <2>3 DEF LastAt, Mentions
      <3>2. StaysOn(q, has, u) <=> q[1].kind = "upsert"
        BY <1>1, <3>1, LastMention
      <3> QED
        BY <1>1, <2>1, <2>3, <3>2 DEF t
    <2>4. CASE u \notin q[1].ids
      <3>1. \A n \in 1..Len(q) : u \notin q[n].ids
        BY <1>1, <2>2, <2>4
      <3>2. StaysOn(q, has, u) <=> u \in has
        BY <1>1, <3>1, LastMention
      <3> QED
        BY <1>1, <2>1, <2>4, <3>2 DEF t
    <2> QED
      BY <2>3, <2>4
  <1> QED
    BY <1>1, <1>2, <1>3, LastMention

LEMMA StaysAppend ==
  ASSUME NEW q \in Seq(Mutation), NEW has, NEW u, NEW m \in Mutation
  PROVE  StaysOn(Append(q, m), has, u) <=> IF u \in m.ids THEN m.kind = "upsert" ELSE StaysOn(q, has, u)
  <1> DEFINE t == Append(q, m)
  <1>1. /\ Len(q) \in Nat /\ Len(t) = Len(q) + 1 /\ Len(t) \in Nat
        /\ t[Len(q) + 1] = m /\ \A n \in 1..Len(q) : t[n] = q[n]
    OBVIOUS
  <1> HIDE DEF t
  <1>2. CASE u \in m.ids
    <2>1. Len(t) \in 1..Len(t) /\ LastAt(t, u, Len(t))
      BY <1>1, <1>2 DEF LastAt, Mentions
    <2>2. StaysOn(t, has, u) <=> t[Len(t)].kind = "upsert"
      BY <1>1, <2>1, LastMention
    <2> QED
      BY <1>1, <1>2, <2>2 DEF t
  <1>3. CASE u \notin m.ids /\ \E n \in 1..Len(q) : LastAt(q, u, n)
    <2>1. PICK n \in 1..Len(q) : LastAt(q, u, n)
      BY <1>3
    <2>2. n \in 1..Len(t) /\ t[n] = q[n] /\ u \in q[n].ids
      BY <1>1, <2>1 DEF LastAt, Mentions
    <2>3. ASSUME NEW k \in n + 1..Len(t) PROVE u \notin t[k].ids
      <3>1. CASE k = Len(t)
        BY <1>1, <1>3, <3>1
      <3>2. CASE k # Len(t)
        <4>1. k \in n + 1..Len(q) /\ k \in 1..Len(q)
          BY <1>1, <2>1, <3>2
        <4> QED
          BY <1>1, <2>1, <4>1 DEF LastAt
      <3> QED
        BY <3>1, <3>2
    <2>4. LastAt(t, u, n)
      BY <2>2, <2>3 DEF LastAt, Mentions
    <2>5. StaysOn(t, has, u) <=> t[n].kind = "upsert"
      BY <1>1, <2>2, <2>4, LastMention
    <2>6. StaysOn(q, has, u) <=> q[n].kind = "upsert"
      BY <1>1, <2>1, LastMention
    <2> QED
      BY <1>3, <2>2, <2>5, <2>6 DEF t
  <1>4. CASE u \notin m.ids /\ \A n \in 1..Len(q) : u \notin q[n].ids
    <2>1. \A n \in 1..Len(t) : u \notin t[n].ids
      <3> SUFFICES ASSUME NEW n \in 1..Len(t) PROVE u \notin t[n].ids
        OBVIOUS
      <3>1. n = Len(q) + 1 \/ n \in 1..Len(q)
        BY <1>1
      <3> QED
        BY <1>1, <1>4, <3>1
    <2>2. StaysOn(t, has, u) <=> u \in has
      BY <1>1, <2>1, LastMention
    <2>3. StaysOn(q, has, u) <=> u \in has
      BY <1>1, <1>4, LastMention
    <2> QED
      BY <1>4, <2>2, <2>3 DEF t
  <1>5. (\A n \in 1..Len(q) : u \notin q[n].ids) \/ \E n \in 1..Len(q) : LastAt(q, u, n)
    BY <1>1, LastMention
  <1> QED
    BY <1>2, <1>3, <1>4, <1>5

LEMMA ServedSame ==
  ASSUME UNCHANGED <<queue, visible>>
  PROVE  Served' = Served
  <1>1. \A u : Stays(u)' = Stays(u)
    BY StaysIs
  <1> QED
    BY <1>1 DEF Served

LEMMA ServedApply ==
  ASSUME TypeOK, Apply
  PROVE  Served' = Served
  <1>1. queue \in Seq(Mutation) /\ queue # <<>> /\ queue' = Tail(queue)
    BY DEF TypeOK, Apply
  <1>2. visible' = IF Head(queue).kind = "upsert" THEN visible \cup Head(queue).ids ELSE visible \ Head(queue).ids
    BY DEF Apply
  <1>3. ASSUME NEW u PROVE StaysOn(queue', visible', u) <=> StaysOn(queue, visible, u)
    BY <1>1, <1>2, StaysApply
  <1>4. ASSUME NEW u PROVE Stays(u)' <=> Stays(u)
    BY <1>3, StaysIs
  <1> QED
    BY <1>4 DEF Served

LEMMA ServedAccept ==
  ASSUME TypeOK, NEW kind \in {"upsert", "delete"}, NEW ids \in SUBSET Uploads, Accept(kind, ids), visible' = visible
  PROVE  Served' = IF kind = "upsert" THEN Served \cup ids ELSE Served \ ids
  <1> DEFINE m == [kind |-> kind, ids |-> ids]
  <1>1. queue \in Seq(Mutation) /\ queue' = Append(queue, m) /\ m \in Mutation
    BY DEF TypeOK, Accept, Mutation
  <1>2. m.kind = kind /\ m.ids = ids
    OBVIOUS
  <1> HIDE DEF m
  <1>3. ASSUME NEW u PROVE StaysOn(queue', visible', u) <=> IF u \in ids THEN kind = "upsert" ELSE StaysOn(queue, visible, u)
    BY <1>1, <1>2, StaysAppend
  <1>4. ASSUME NEW u PROVE Stays(u)' <=> IF u \in ids THEN kind = "upsert" ELSE Stays(u)
    BY <1>3, StaysIs
  <1> QED
    BY <1>4 DEF Served

--------------------------------------------------------------------------------
(* What a step leaves alone.                                                   *)

(* Names of journals and of calls.                                             *)
LEMMA Names ==
  /\ \A u \in Uploads : <<u, 1>> \in Journals
  /\ \A u \in Unfenced : u \in Uploads /\ <<u, 2>> \in Journals
  /\ \A x \in Removals : <<x, 1>> \in Journals
  /\ \A j \in Journals : j # Null /\ \E c \in Uploads \cup Removals : j = <<c, 1>> \/ j = <<c, 2>>
  /\ \A j \in Removals \X {1} : \A u \in Uploads : j # <<u, 1>> /\ j # <<u, 2>>
  /\ Uploads \cap Removals = {} /\ Uploads \cap Drains = {} /\ Removals \cap Drains = {}
  /\ Uploads \subseteq Actors /\ Removals \subseteq Actors /\ Drains \subseteq Actors
  /\ Null \notin Nat /\ Null \notin Op
  BY OutboxAssumption DEF Journals, Actors

LEMMA NoHandFacts ==
  /\ NoHand \in Hand /\ NoHand.at = "idle" /\ NoHand.op = Null /\ NoHand.ids = {}
  /\ NoHand.op \notin Journals
  BY Names DEF NoHand, Hand, Receipt

(* The types, as facts about the functions.                                    *)
Upload0 == [at : {"idle", "read", "journalled", "sent", "failing", "ready", "committed", "retiring", "second",
                  "ended"},
            seen : Row, prior : SUBSET Uploads, stale : SUBSET Uploads]
Removal0 == [at : {"idle", "read", "ended"}, seen : Row]

LEMMA TypeParts ==
  TypeOK <=> /\ row \in Row
             /\ ops \in [Journals -> Op \cup {Null}]
             /\ visible \subseteq Uploads
             /\ queue \in Seq(Mutation)
             /\ flight \subseteq Uploads
             /\ up \in [Uploads -> Upload0]
             /\ removal \in [Removals -> Removal0]
             /\ hand \in [Actors -> Hand]
             /\ overlooked \subseteq Uploads
             /\ faults \in 0..MaxFaults
  BY DEF TypeOK, Upload0, Removal0

(* Uploads only go on, and what is deleted does not come back.                 *)
Onward == \A u \in Uploads : /\ up[u].at \notin {"idle", "read"} => up'[u].at \notin {"idle", "read"}
                             /\ Landed(u) => Landed(u)'
                             /\ Settled(u) => Settled(u)'
Final == \A u \in Uploads : Dead(u) => Dead(u)'

LEMMA CoveredKept ==
  ASSUME NEW j, NEW S, Covered(j, S), Final, ops[j] \in Op \cup {Null},
         ops'[j] # Null => ops[j] # Null /\ \A u \in ops'[j].ids : u \in ops[j].ids \/ Dead(u)'
  PROVE  Covered(j, S)'
  BY DEF Covered, Final, Op

LEMMA OpKept ==
  ASSUME NEW j, OpInv(j), ops[j] \in Op \cup {Null}, ops'[j] = ops[j], Onward, Final
  PROVE  OpInv(j)'
  <1> SUFFICES ASSUME ops[j] # Null PROVE OpInv(j)'
    BY DEF OpInv
  <1>1. ops[j].ids \subseteq Uploads
    BY DEF Op
  <1>2. \A u \in ops[j].ids : up'[u].at \notin {"idle", "read"} /\ (j # <<u, 1>> => Settled(u)')
    BY <1>1 DEF OpInv, Onward
  <1>3. ops[j].ready \in {1, 3} => \A u \in ops[j].ids : Landed(u) /\ Landed(u)'
    BY <1>1 DEF OpInv, Onward
  <1>4. ops[j].ready = 3 /\ ops[j].receipt # Null => ops[j].ids \cap Served' = {}
    BY <1>1, <1>3 DEF OpInv, Final, Dead
  <1> QED
    BY <1>2, <1>3, <1>4 DEF OpInv

LEMMA HandKept ==
  ASSUME NEW a, HandInv(a), hand[a] \in Hand, hand'[a] = hand[a], Onward, Final,
         Covered(hand[a].op, hand[a].ids) => Covered(hand[a].op, hand[a].ids)',
         hand[a].at = "delete" => hand[a].ids \cap row'.listed \subseteq Unfenced
  PROVE  HandInv(a)'
  <1> DEFINE h == hand[a]
  <1>1. h.ids \subseteq Uploads
    BY DEF Hand
  <1>2. AwaitsIndex(a)' = AwaitsIndex(a)
    BY DEF AwaitsIndex
  <1>3. \A u \in h.ids : (Settled(u) => Settled(u)') /\ (Landed(u) => Landed(u)')
                         /\ (Landed(u) /\ u \notin Served => u \notin Served')
    BY <1>1 DEF Onward, Final, Dead
  <1>4. h.at \in {"judge", "delete", "record"} \/ (h.at = "claim" /\ h.ready = 1) => \A u \in h.ids : Landed(u)
    BY DEF HandInv
  <1>5. h.at = "record" \/ (h.at = "judge" /\ AwaitsIndex(a)) => h.ids \cap Served' = {}
    BY <1>3, <1>4 DEF HandInv
  <1>6. h.at # "idle" => h.op \in Journals /\ (h.kind = "lifecycle" => h.op \in Removals \X {1})
                         /\ \A u \in h.ids : h.op # <<u, 1>> => Settled(u)'
    BY <1>3 DEF HandInv
  <1>7. h.at \in {"judge", "delete", "record"} \/ (h.at = "claim" /\ h.ready = 1) => \A u \in h.ids : Landed(u)'
    BY <1>3, <1>4
  <1>8. /\ h.at = "idle" => h = NoHand
        /\ h.at = "claim" => h.kind = "drain" /\ h.ready \in {0, 1}
        /\ h.at \in {"claim", "judge"} /\ h.kind # "lifecycle" => Covered(h.op, h.ids)'
    BY DEF HandInv
  <1> QED
    BY <1>2, <1>5, <1>6, <1>7, <1>8 DEF HandInv

(* An upload, its journals and who works on them.                              *)
LEMMA JournalKept ==
  ASSUME NEW v \in Uploads, OutboxInv, up'[v] = up[v], v \in flight <=> v \in flight', v \in Served => v \in Served',
         Final, \A k \in Journals \cap {<<v, 1>>, <<v, 2>>} :
                   /\ ops'[k] = ops[k]
                   /\ \A a \in Actors : hand'[a].op = k => hand'[a] = hand[a]
  PROVE  JournalInv(v)'
  <1>1. /\ JournalInv(v) /\ ops \in [Journals -> Op \cup {Null}] /\ <<v, 1>> \in Journals
        /\ v \in Unfenced => <<v, 2>> \in Journals
        /\ up[v].at = "second" => v \in Unfenced
    BY Names, TypeParts DEF OutboxInv, UploadInv
  <1>2. \A k \in Journals \cap {<<v, 1>>, <<v, 2>>} : NoneOn(k) => NoneOn(k)'
    BY DEF NoneOn
  <1>3. \A k \in Journals \cap {<<v, 1>>, <<v, 2>>} : \A S : Covered(k, S) => Covered(k, S)'
    BY <1>1, CoveredKept
  <1>4. /\ ops'[<<v, 1>>] = ops[<<v, 1>>]
        /\ \A a \in Actors : hand'[a].op = <<v, 1>> => hand'[a] = hand[a]
        /\ NoneOn(<<v, 1>>) => NoneOn(<<v, 1>>)'
        /\ \A S : Covered(<<v, 1>>, S) => Covered(<<v, 1>>, S)'
    BY <1>1, <1>2, <1>3
  <1>5. v \in Unfenced => /\ NoneOn(<<v, 2>>) => NoneOn(<<v, 2>>)'
                          /\ \A S : Covered(<<v, 2>>, S) => Covered(<<v, 2>>, S)'
    BY <1>1, <1>2, <1>3
  <1> QED
    BY <1>1, <1>4, <1>5 DEF JournalInv

LEMMA UploadKept ==
  ASSUME NEW v \in Uploads, UploadInv(v), up[v] \in Upload0, up'[v] = up[v], v \in flight' => v \in flight,
         up[v].at # "ended" => hand'[v] = hand[v], Onward
  PROVE  UploadInv(v)'
  <1>1. up[v].seen.listed \cup up[v].prior \cup up[v].stale \subseteq Uploads
    BY DEF Upload0, Row
  <1> QED
    BY <1>1 DEF UploadInv, Onward

LEMMA RemovalKept ==
  ASSUME NEW x \in Removals, RemovalInv(x), removal[x] \in Removal0, removal'[x] = removal[x], Onward,
         removal[x].at # "ended" => /\ hand'[x] = hand[x] /\ ops'[<<x, 1>>] = ops[<<x, 1>>]
                                    /\ \A a \in Actors : hand'[a].op = <<x, 1>> => hand'[a] = hand[a]
  PROVE  RemovalInv(x)'
  <1>1. removal[x].seen.listed \subseteq Uploads
    BY DEF Removal0, Row
  <1>2. removal[x].at # "ended" => NoneOn(<<x, 1>>)'
    BY DEF RemovalInv, NoneOn
  <1> QED
    BY <1>1, <1>2 DEF RemovalInv, Onward

LEMMA RowKept ==
  ASSUME RowInv, row \in Row, row'.listed \subseteq row.listed, Onward, row'.listed \cap Served \subseteq Unfenced \cup Served'
  PROVE  RowInv'
  <1>1. row.listed \subseteq Uploads
    BY DEF Row
  <1> QED
    BY <1>1 DEF RowInv, Onward

LEMMA CareKept ==
  ASSUME NEW u \in Uploads, CareInv(u),
         u \in overlooked => u \in overlooked',
         u \in row.listed => u \in row'.listed \/ u \in overlooked' \/ \E j \in Journals \ {<<u, 1>>} : Keeps(j, u)',
         u \notin flight /\ u \notin Served => u \notin flight' /\ u \notin Served',
         \A j \in Journals : Keeps(j, u) => \/ Keeps(j, u)' \/ u \in row'.listed \/ u \in overlooked'
                                           \/ (u \notin flight' /\ u \notin Served'),
         up'[u].at = "committed" => up[u].at = "committed"
  PROVE  CareInv(u)'
  BY DEF CareInv, Cared

LEMMA OutboxParts ==
  ASSUME TypeOK, \A j \in Journals : OpInv(j), \A a \in Actors : HandInv(a), \A u \in Uploads : JournalInv(u),
         \A u \in Uploads : UploadInv(u), \A x \in Removals : RemovalInv(x), RowInv, \A u \in Uploads : CareInv(u)
  PROVE  OutboxInv
  BY DEF OutboxInv

(* A step of an actor that works on a journal.                                 *)
LEMMA HandStepInv ==
  ASSUME OutboxInv, TypeOK', NEW a \in Actors, NEW j \in Journals,
         UNCHANGED <<row, flight, up, removal, overlooked>>,
         a \in Drains \/ hand[a] # NoHand,
         ops[j] # Null \/ hand[a].op = j,
         hand'[a] = NoHand \/ hand'[a].op = j,
         \A b \in Actors \ {a} : hand'[b] = hand[b],
         \A k \in Journals \ {j} : ops'[k] = ops[k],
         ops'[j] # Null => ops[j] # Null /\ \A u \in ops'[j].ids : u \in ops[j].ids \/ Dead(u),
         Served' \subseteq Served,
         \A u \in Served \ Served' : hand[a].at = "delete" /\ u \in hand[a].ids,
         HandInv(a)', OpInv(j)',
         \A u \in Uploads : j = <<u, 1>> /\ up[u].at \in {"journalled", "sent"} =>
            /\ ops'[j] # Null /\ ops'[j].ready \in {0, 2} /\ ops'[j].ids = ops[j].ids
            /\ hand'[a].op = j => hand'[a].at = "claim" /\ hand'[a].ready = 0,
         \A u \in Uploads : j = <<u, 1>> /\ up[u].at \in {"journalled", "sent", "ready"}
                             /\ ops'[j] # Null /\ ops'[j].ready \in {0, 1} =>
            /\ ops'[j].ids = ops[j].ids /\ ops[j].ready \in {0, 1}
            /\ hand'[a].op = j => hand'[a].at = "claim",
         \A u \in Uploads : Keeps(j, u) /\ u \notin row.listed /\ (u \in flight \/ u \in Served') => Keeps(j, u)'
  PROVE  OutboxInv'
  <1>0. /\ TypeOK /\ RowInv
        /\ \A k \in Journals : OpInv(k)
        /\ \A b \in Actors : HandInv(b)
        /\ \A u \in Uploads : JournalInv(u) /\ UploadInv(u) /\ CareInv(u)
        /\ \A x \in Removals : RemovalInv(x)
    BY DEF OutboxInv
  <1>1. /\ row \in Row /\ ops \in [Journals -> Op \cup {Null}] /\ up \in [Uploads -> Upload0]
        /\ removal \in [Removals -> Removal0] /\ hand \in [Actors -> Hand]
    BY <1>0, TypeParts
  <1>2. \A u \in Uploads : (Landed(u)' <=> Landed(u)) /\ (Settled(u)' <=> Settled(u)) /\ up'[u] = up[u]
    BY DEF Landed, Settled
  <1>3. Onward /\ Final
    BY <1>2 DEF Onward, Final, Dead
  <1>30. \A k \in Journals : \A S : Covered(k, S) => Covered(k, S)'
    <2> SUFFICES ASSUME NEW k \in Journals, NEW S, Covered(k, S) PROVE Covered(k, S)'
      OBVIOUS
    <2>1. ops'[k] # Null => ops[k] # Null /\ \A u \in ops'[k].ids : u \in ops[k].ids \/ Dead(u)'
      <3>1. ops'[j] # Null => ops'[j].ids \subseteq Uploads
        BY DEF TypeOK, Op
      <3> QED
        BY <1>3, <3>1 DEF Final
    <2> QED
      BY <1>1, <1>3, <2>1, CoveredKept
  <1>4. ASSUME NEW k \in Journals PROVE OpInv(k)'
    <2>1. CASE k = j
      BY <2>1
    <2>2. CASE k # j
      <3>1. ops'[k] = ops[k] /\ ops[k] \in Op \cup {Null}
        BY <2>2, <1>1
      <3> QED
        BY <3>1, <1>0, <1>3, OpKept
    <2> QED
      BY <2>1, <2>2
  <1>5. ASSUME NEW b \in Actors PROVE HandInv(b)'
    <2>1. CASE b = a
      BY <2>1
    <2>2. CASE b # a
      <3> DEFINE k == hand[b].op
      <3>1. hand'[b] = hand[b] /\ hand[b] \in Hand
        BY <2>2, <1>1
      <3>2. CASE hand[b].at = "idle"
        <4>1. hand'[b] = NoHand
          BY <3>1, <3>2, <1>0 DEF HandInv
        <4> QED
          BY <4>1, NoHandFacts DEF HandInv, NoHand, AwaitsIndex
      <3>3. CASE hand[b].at # "idle"
        <4>1. k \in Journals
          BY <3>3, <1>0 DEF HandInv
        <4>2. Covered(k, hand[b].ids) => Covered(k, hand[b].ids)'
          BY <3>1, <4>1, <1>30
        <4>3. hand[b].at = "delete" => hand[b].ids \cap row'.listed \subseteq Unfenced
          BY <1>0 DEF HandInv
        <4> QED
          BY <3>1, <4>2, <4>3, <1>0, <1>3, HandKept
      <3> QED
        BY <3>2, <3>3
    <2> QED
      BY <2>1, <2>2
  <1>6. \A k \in Journals \ {j} : \A b \in Actors : hand'[b].op = k => hand'[b] = hand[b]
    BY NoHandFacts, Names
  <1>7. \A k \in Journals : NoneOn(k) => k # j /\ NoneOn(k)'
    BY <1>6 DEF NoneOn
  <1>8. ASSUME NEW u \in Uploads PROVE JournalInv(u)'
    <2> DEFINE i == <<u, 1>>
    <2>0. JournalInv(u) /\ i \in Journals
      BY <1>0, Names
    <2>1. up[u].at \in {"idle", "read"} => NoneOn(i)'
      BY <1>7, <2>0 DEF JournalInv
    <2>2. u \in Unfenced /\ up[u].at \notin {"second", "ended"} => NoneOn(<<u, 2>>)'
      BY <1>7, <2>0, Names DEF JournalInv
    <2>3. up[u].at \in {"journalled", "sent"} =>
            /\ ops'[i] # Null /\ ops'[i].ready \in {0, 2} /\ ops'[i].ids = up[u].prior \cup {u}
            /\ \A b \in Actors : hand'[b].op = i => hand'[b].at = "claim" /\ hand'[b].ready = 0
      <3> SUFFICES ASSUME up[u].at \in {"journalled", "sent"}
                   PROVE  /\ ops'[i] # Null /\ ops'[i].ready \in {0, 2} /\ ops'[i].ids = up[u].prior \cup {u}
                          /\ \A b \in Actors : hand'[b].op = i => hand'[b].at = "claim" /\ hand'[b].ready = 0
        OBVIOUS
      <3>1. /\ ops[i] # Null /\ ops[i].ready \in {0, 2} /\ ops[i].ids = up[u].prior \cup {u}
            /\ \A b \in Actors : hand[b].op = i => hand[b].at = "claim" /\ hand[b].ready = 0
        BY <2>0 DEF JournalInv
      <3>2. CASE i = j
        BY <3>1, <3>2
      <3>3. CASE i # j
        BY <3>1, <3>3, <1>6, <2>0
      <3> QED
        BY <3>2, <3>3
    <2>4. ASSUME up[u].at \in {"journalled", "sent", "ready"}, ops'[i] # Null, ops'[i].ready \in {0, 1}
          PROVE  /\ ops'[i].ids = up[u].prior \cup {u}
                 /\ \A b \in Actors : hand'[b].op = i => hand'[b].at = "claim"
                 /\ up[u].at \in {"sent", "ready"} /\ u \notin flight /\ u \notin Unfenced => u \in Served'
      <3>1. /\ ops[i] # Null /\ ops[i].ready \in {0, 1} /\ ops'[i].ids = ops[i].ids
            /\ i = j /\ hand'[a].op = i => hand'[a].at = "claim"
        <4>1. CASE i = j
          BY <2>4, <4>1
        <4>2. CASE i # j
          BY <2>0, <2>4, <4>2
        <4> QED
          BY <4>1, <4>2
      <3>2. /\ ops[i].ids = up[u].prior \cup {u}
            /\ \A b \in Actors : hand[b].op = i => hand[b].at = "claim"
            /\ up[u].at \in {"sent", "ready"} /\ u \notin flight /\ u \notin Unfenced => u \in Served
        BY <2>0, <2>4, <3>1 DEF JournalInv
      <3>3. ASSUME NEW b \in Actors, hand'[b].op = i PROVE hand'[b].at = "claim"
        <4>1. CASE b = a
          <5>1. hand'[a].op = j
            BY <3>3, <4>1, <2>0, NoHandFacts
          <5> QED
            BY <3>1, <3>3, <4>1, <5>1
        <4>2. CASE b # a
          BY <3>2, <3>3, <4>2
        <4> QED
          BY <4>1, <4>2
      <3>4. ASSUME u \in Served, u \notin Served' PROVE FALSE
        <4>1. hand[a].at = "delete" /\ u \in hand[a].ids
          BY <3>4
        <4>2. hand[a].op # i
          BY <3>2, <4>1
        <4>3. Settled(u)
          BY <1>0, <4>1, <4>2 DEF HandInv
        <4> QED
          BY <2>4, <4>3 DEF Settled, Landed
      <3> QED
        BY <3>1, <3>2, <3>3, <3>4
    <2>5. up[u].at \notin {"idle", "read", "ended"} => Covered(i, up[u].prior \cup {u})'
      <3>1. up[u].at \notin {"idle", "read", "ended"} => Covered(i, up[u].prior \cup {u})
        BY <2>0 DEF JournalInv
      <3>2. (up[u].prior \cup {u})' = up[u].prior \cup {u}
        BY <1>2
      <3> QED
        BY <1>2, <1>30, <2>0, <3>1
    <2>6. up[u].at = "second" => Covered(<<u, 2>>, up[u].stale)'
      <3>1. up[u].at = "second" => <<u, 2>> \in Journals /\ Covered(<<u, 2>>, up[u].stale)
        BY <2>0, <1>0, Names DEF UploadInv, JournalInv
      <3> QED
        BY <1>2, <1>30, <3>1
    <2> QED
      BY <1>2, <2>1, <2>2, <2>3, <2>4, <2>5, <2>6 DEF JournalInv
  <1>9. ASSUME NEW u \in Uploads PROVE UploadInv(u)'
    <2>1. up[u].at # "ended" => hand'[u] = hand[u]
      <3>1. up[u].at # "ended" => hand[u] = NoHand
        BY <1>0 DEF UploadInv
      <3> QED
        BY <3>1, Names
    <2> QED
      BY <1>0, <1>1, <1>3, <2>1, UploadKept
  <1>10. ASSUME NEW x \in Removals PROVE RemovalInv(x)'
    <2>1. removal[x].at # "ended" => hand[x] = NoHand /\ NoneOn(<<x, 1>>)
      BY <1>0 DEF RemovalInv
    <2>2. removal[x].at # "ended" => hand'[x] = hand[x] /\ ops'[<<x, 1>>] = ops[<<x, 1>>]
                                     /\ \A b \in Actors : hand'[b].op = <<x, 1>> => hand'[b] = hand[b]
      BY <1>6, <1>7, <2>1, Names
    <2> QED
      BY <1>0, <1>1, <1>3, <2>2, RemovalKept
  <1>11. RowInv'
    <2>1. row.listed \cap Served \subseteq Unfenced \cup Served'
      BY <1>0 DEF HandInv
    <2> QED
      BY <1>0, <1>1, <1>3, <2>1, RowKept
  <1>12. ASSUME NEW u \in Uploads PROVE CareInv(u)'
    <2>1. ASSUME NEW k \in Journals, k # j, Keeps(k, u) PROVE Keeps(k, u)'
      <3>1. ops'[k] # Null /\ u \in ops'[k].ids
        BY <2>1 DEF Keeps
      <3>2. ASSUME NEW b \in Actors PROVE ~Drops(b, k, u)'
        BY <1>6, <2>1 DEF Keeps, Drops
      <3> QED
        BY <3>1, <3>2 DEF Keeps
    <2>2. \A k \in Journals : Keeps(k, u) => Keeps(k, u)' \/ u \in row'.listed \/ u \in overlooked'
                                          \/ (u \notin flight' /\ u \notin Served')
      BY <2>1
    <2> QED
      BY <1>0, <2>2, CareKept
  <1> QED
    BY <1>4, <1>5, <1>8, <1>9, <1>10, <1>11, <1>12 DEF OutboxInv

LEMMA Parts ==
  ASSUME OutboxInv
  PROVE  /\ row \in Row /\ ops \in [Journals -> Op \cup {Null}] /\ visible \subseteq Uploads
         /\ queue \in Seq(Mutation) /\ flight \subseteq Uploads /\ up \in [Uploads -> Upload0]
         /\ removal \in [Removals -> Removal0] /\ hand \in [Actors -> Hand]
         /\ overlooked \subseteq Uploads /\ faults \in 0..MaxFaults
         /\ TypeOK /\ RowInv
         /\ \A k \in Journals : OpInv(k)
         /\ \A b \in Actors : HandInv(b)
         /\ \A u \in Uploads : JournalInv(u) /\ UploadInv(u) /\ CareInv(u)
         /\ \A x \in Removals : RemovalInv(x)
  BY TypeParts DEF OutboxInv

LEMMA OpTypes ==
  ASSUME NEW o \in Op
  PROVE  /\ o # Null /\ o.ids \subseteq Uploads /\ o.ready \in 0..3 /\ o.receipt \in Receipt
         /\ \A r \in 0..3 : [o EXCEPT !.ready = r] \in Op
  BY Names DEF Op

LEMMA HandTypes ==
  ASSUME NEW h \in Hand
  PROVE  /\ h.ids \subseteq Uploads /\ h.ready \in 0..3 /\ h.receipt \in Receipt
         /\ h.op \in Journals \cup {Null}
         /\ \A at \in {"idle", "claim", "judge", "delete", "record", "retire"} : [h EXCEPT !.at = at] \in Hand
  BY DEF Hand

(* A step that changes one actor's work and at most one journal keeps types.   *)
LEMMA HandTypesKept ==
  ASSUME TypeOK, NEW a \in Actors, NEW h \in Hand, NEW j \in Journals, NEW o \in Op \cup {Null},
         hand' = [hand EXCEPT ![a] = h], ops' = [ops EXCEPT ![j] = o] \/ ops' = ops,
         queue' \in Seq(Mutation), faults' \in 0..MaxFaults,
         UNCHANGED <<row, visible, flight, up, removal, overlooked>>
  PROVE  TypeOK'
  BY DEF TypeOK

LEMMA SelectInv ==
  ASSUME OutboxInv, NEW d \in Drains, NEW j \in Journals, Select(d, j)
  PROVE  OutboxInv'
  <1> DEFINE h == [at |-> IF ops[j].ready \in {0, 1} THEN "claim" ELSE "judge",
                   kind |-> "drain", op |-> j, ids |-> ops[j].ids,
                   ready |-> ops[j].ready, receipt |-> ops[j].receipt]
  <1>1. /\ hand[d].at = "idle" /\ ops[j] # Null
        /\ ops[j].ready = 2 => \A u \in ops[j].ids : ~Pending(u)
        /\ hand' = [hand EXCEPT ![d] = h] /\ ops' = ops /\ faults' = faults
        /\ UNCHANGED <<row, visible, queue, flight, up, removal, overlooked>>
    BY DEF Select, Due, Exists, IndexUnchanged, ActorsUnchanged
  <1>2. d \in Actors /\ ops[j] \in Op /\ hand[d] = NoHand
    BY <1>1, Names, Parts DEF HandInv
  <1>3. h \in Hand /\ h.op = j /\ h.ids = ops[j].ids /\ h.kind = "drain" /\ h.ready = ops[j].ready
        /\ h.receipt = ops[j].receipt /\ h.at = IF ops[j].ready \in {0, 1} THEN "claim" ELSE "judge"
    BY <1>2 DEF Hand, Op
  <1> HIDE DEF h
  <1>4. hand'[d] = h /\ \A b \in Actors \ {d} : hand'[b] = hand[b]
    BY <1>1, <1>2, Parts
  <1>5. TypeOK'
    BY <1>1, <1>2, <1>3, Parts, HandTypesKept
  <1>6. Served' = Served
    BY <1>1, ServedSame
  <1>7. OpInv(j)'
    BY <1>1, <1>6, Parts DEF OpInv, Landed, Settled
  <1>8. \A u \in ops[j].ids : u \in Uploads /\ up[u].at \notin {"idle", "read"} /\ (j # <<u, 1>> => Settled(u))
    BY <1>1, <1>2, OpTypes, Parts DEF OpInv
  <1>9. ops[j].ready \in {1, 2, 3} => \A u \in ops[j].ids : Landed(u)
    <2>1. CASE ops[j].ready = 2
      BY <1>1, <1>8, <2>1 DEF Pending, Landed
    <2>2. CASE ops[j].ready \in {1, 3}
      BY <1>1, <2>2, Parts DEF OpInv
    <2> QED
      BY <2>1, <2>2
  <1>10. HandInv(d)'
    <2>1. AwaitsIndex(d)' => ops[j].ready = 3 /\ ops[j].receipt # Null
      BY <1>3, <1>4 DEF AwaitsIndex
    <2>2. AwaitsIndex(d)' => ops[j].ids \cap Served' = {}
      BY <1>1, <1>6, <2>1, Parts DEF OpInv
    <2>3. ops[j].ready \in 0..3
      BY <1>2, OpTypes
    <2>4. \A u \in ops[j].ids : (Landed(u) => Landed(u)') /\ (Settled(u) => Settled(u)')
      BY <1>1 DEF Landed, Settled
    <2> QED
      BY <1>1, <1>3, <1>4, <1>8, <1>9, <2>2, <2>3, <2>4 DEF HandInv, Covered
  <1>11. ASSUME NEW u \in Uploads, j = <<u, 1>>, up[u].at \in {"journalled", "sent"}
         PROVE  ops[j].ready = 0
    <2>1. ops[j].ready \in {0, 2} /\ u \in ops[j].ids
      BY <1>11, Parts DEF JournalInv
    <2> QED
      BY <1>1, <1>11, <2>1 DEF Pending
  <1>12. ASSUME NEW u \in Uploads, Keeps(j, u) PROVE Keeps(j, u)'
    BY <1>1, <1>3, <1>4, <1>12 DEF Keeps, Drops
  <1>13. ops'[j] = ops[j]
    BY <1>1
  <1>14. /\ UNCHANGED <<row, flight, up, removal, overlooked>>
         /\ d \in Drains \/ hand[d] # NoHand
         /\ ops[j] # Null \/ hand[d].op = j
         /\ hand'[d] = NoHand \/ hand'[d].op = j
         /\ \A b \in Actors \ {d} : hand'[b] = hand[b]
         /\ \A k \in Journals \ {j} : ops'[k] = ops[k]
         /\ ops'[j] # Null => ops[j] # Null /\ \A u \in ops'[j].ids : u \in ops[j].ids \/ Dead(u)
         /\ Served' \subseteq Served
         /\ \A u \in Served \ Served' : hand[d].at = "delete" /\ u \in hand[d].ids
    BY <1>1, <1>3, <1>4, <1>6, <1>13
  <1>15. \A u \in Uploads : j = <<u, 1>> /\ up[u].at \in {"journalled", "sent"} =>
            /\ ops'[j] # Null /\ ops'[j].ready \in {0, 2} /\ ops'[j].ids = ops[j].ids
            /\ hand'[d].op = j => hand'[d].at = "claim" /\ hand'[d].ready = 0
    BY <1>1, <1>3, <1>4, <1>11, <1>13
  <1>16. \A u \in Uploads : j = <<u, 1>> /\ up[u].at \in {"journalled", "sent", "ready"}
                             /\ ops'[j] # Null /\ ops'[j].ready \in {0, 1} =>
            /\ ops'[j].ids = ops[j].ids /\ ops[j].ready \in {0, 1}
            /\ hand'[d].op = j => hand'[d].at = "claim"
    BY <1>3, <1>4, <1>13
  <1> QED
    BY <1>2, <1>5, <1>7, <1>10, <1>12, <1>14, <1>15, <1>16, HandStepInv

LEMMA ClaimInv ==
  ASSUME OutboxInv, NEW d \in Drains, Claim(d)
  PROVE  OutboxInv'
  <1>0. PICK j, h, o : /\ j = hand[d].op
                       /\ h = IF hand[d].ready = 1 THEN [hand[d] EXCEPT !.at = "judge"] ELSE NoHand
                       /\ o = IF ops[j] # Null /\ ops[j].ready \in {0, 1} THEN [ops[j] EXCEPT !.ready = 2] ELSE ops[j]
    OBVIOUS
  <1>1. /\ hand[d].at = "claim" /\ hand' = [hand EXCEPT ![d] = h] /\ faults' = faults
        /\ UNCHANGED <<row, visible, queue, flight, up, removal, overlooked>>
    BY <1>0 DEF Claim, Goes, Stops, IndexUnchanged, ActorsUnchanged
  <1>2. /\ d \in Actors /\ hand[d] \in Hand /\ HandInv(d) /\ j \in Journals /\ ops[j] \in Op \cup {Null}
        /\ ops \in [Journals -> Op \cup {Null}] /\ hand \in [Actors -> Hand] /\ OpInv(j)
    BY <1>0, <1>1, Names, Parts DEF HandInv
  <1>3. ops' = [ops EXCEPT ![j] = o]
    BY <1>0, <1>2 DEF Claim, Exists
  <1>4. /\ h \in Hand /\ o \in Op \cup {Null}
        /\ h.at = "judge" \/ h = NoHand
        /\ h # NoHand => /\ h.at = "judge" /\ h.op = j /\ h.ids = hand[d].ids /\ h.kind = hand[d].kind
                         /\ hand[d].ready = 1 /\ h.ready = 1
    <2>1. o \in Op \cup {Null}
      BY <1>0, <1>2 DEF Op
    <2>2. CASE hand[d].ready = 1
      BY <1>0, <1>2, <2>1, <2>2 DEF Hand
    <2>3. CASE hand[d].ready # 1
      BY <1>0, <2>1, <2>3, NoHandFacts
    <2> QED
      BY <2>2, <2>3
  <1>5. o # Null => /\ ops[j] # Null /\ o.ids = ops[j].ids /\ o.receipt = ops[j].receipt
                    /\ o.ready = 2 \/ (o.ready = ops[j].ready /\ o.ready \notin {0, 1})
    BY <1>0, <1>2, Names DEF Op
  <1>6. ops[j] # Null => o # Null
    <2>1. ASSUME ops[j] # Null PROVE ops[j] \in Op /\ [ops[j] EXCEPT !.ready = 2] \in Op
      BY <1>2, <2>1 DEF Op
    <2> QED
      BY <1>0, <2>1, Names
  <1>7. TypeOK'
    <2>1. queue' \in Seq(Mutation) /\ faults' \in 0..MaxFaults /\ TypeOK
      BY <1>1, Parts
    <2> QED
      BY <1>1, <1>2, <1>3, <1>4, <2>1, HandTypesKept
  <1>8. Served' = Served
    BY <1>1, ServedSame
  <1>9. /\ hand'[d] = h /\ \A b \in Actors \ {d} : hand'[b] = hand[b]
        /\ ops'[j] = o /\ \A k \in Journals \ {j} : ops'[k] = ops[k]
    BY <1>1, <1>2, <1>3
  <1>10. \A u : (Landed(u)' <=> Landed(u)) /\ (Settled(u)' <=> Settled(u)) /\ (Dead(u)' <=> Dead(u))
    BY <1>1, <1>8 DEF Landed, Settled, Dead
  <1>11. OpInv(j)'
    <2> SUFFICES ASSUME o # Null PROVE OpInv(j)'
      BY <1>9 DEF OpInv
    <2>1. /\ ops[j] # Null /\ o.ids = ops[j].ids /\ o.receipt = ops[j].receipt
          /\ o.ready = 2 \/ (o.ready = ops[j].ready /\ o.ready \notin {0, 1})
      BY <1>5
    <2>2. o.ready = 2 => ops[j].ready # 3
      BY <1>0, <2>1
    <2> QED
      BY <1>1, <1>2, <1>8, <1>9, <1>10, <2>1, <2>2 DEF OpInv
  <1>12. HandInv(d)'
    <2>1. CASE h = NoHand
      BY <2>1, <1>9, NoHandFacts DEF HandInv
    <2>2. CASE h # NoHand
      <3>1. ~AwaitsIndex(d)'
        BY <1>4, <1>9, <2>2 DEF AwaitsIndex
      <3>2. Covered(j, h.ids)'
        BY <1>0, <1>1, <1>2, <1>4, <1>5, <1>9, <1>10, <2>2 DEF HandInv, Covered
      <3> QED
        BY <1>0, <1>1, <1>2, <1>4, <1>9, <1>10, <2>2, <3>1, <3>2 DEF HandInv
    <2> QED
      BY <2>1, <2>2
  <1>13. ASSUME NEW u \in Uploads, Keeps(j, u), u \in flight \/ u \in Served' PROVE Keeps(j, u)'
    <2>1. u \in h.ids \/ h = NoHand
      BY <1>0, <1>1, <1>2, <1>4, <1>8, <1>13 DEF HandInv, Covered, Keeps, Dead, Landed
    <2>2. ~Drops(d, j, u)'
      BY <1>4, <1>9, <2>1, NoHandFacts DEF Drops
    <2>3. \A b \in Actors \ {d} : ~Drops(b, j, u)'
      BY <1>9, <1>13 DEF Keeps, Drops
    <2> QED
      BY <1>5, <1>6, <1>9, <1>13, <2>2, <2>3 DEF Keeps
  <1>14. ASSUME NEW u \in Uploads, j = <<u, 1>>, up[u].at \in {"journalled", "sent"}
         PROVE  ops[j] # Null /\ ops[j].ready \in {0, 2} /\ hand[d].ready = 0
    BY <1>0, <1>2, <1>14, Parts DEF JournalInv
  <1>15. /\ UNCHANGED <<row, flight, up, removal, overlooked>>
         /\ hand[d].op = j
         /\ hand'[d] = NoHand \/ hand'[d].op = j
         /\ ops'[j] # Null => ops[j] # Null /\ \A u \in ops'[j].ids : u \in ops[j].ids \/ Dead(u)
         /\ Served' \subseteq Served
         /\ \A u \in Served \ Served' : hand[d].at = "delete" /\ u \in hand[d].ids
    BY <1>0, <1>1, <1>4, <1>5, <1>8, <1>9
  <1>16. \A u \in Uploads : j = <<u, 1>> /\ up[u].at \in {"journalled", "sent"} =>
            /\ ops'[j] # Null /\ ops'[j].ready \in {0, 2} /\ ops'[j].ids = ops[j].ids
            /\ hand'[d].op = j => hand'[d].at = "claim" /\ hand'[d].ready = 0
    BY <1>2, <1>4, <1>5, <1>6, <1>9, <1>14, NoHandFacts
  <1>17. \A u \in Uploads : j = <<u, 1>> /\ up[u].at \in {"journalled", "sent", "ready"}
                             /\ ops'[j] # Null /\ ops'[j].ready \in {0, 1} =>
            /\ ops'[j].ids = ops[j].ids /\ ops[j].ready \in {0, 1}
            /\ hand'[d].op = j => hand'[d].at = "claim"
    BY <1>5, <1>9
  <1> QED
    BY <1>2, <1>7, <1>9, <1>11, <1>12, <1>13, <1>15, <1>16, <1>17, HandStepInv

(* An actor that is past the claim of its journal.                             *)
LEMMA PastStepInv ==
  ASSUME OutboxInv, TypeOK', NEW a \in Actors, NEW j, j = hand[a].op, hand[a].at \notin {"idle", "claim"},
         UNCHANGED <<row, flight, up, removal, overlooked>>,
         hand'[a] = NoHand \/ hand'[a].op = j,
         \A b \in Actors \ {a} : hand'[b] = hand[b],
         \A k \in Journals \ {j} : ops'[k] = ops[k],
         ops'[j] # Null => /\ ops[j] # Null /\ \A u \in ops'[j].ids : u \in ops[j].ids \/ Dead(u)
                           /\ ops'[j].ready \in {0, 1} => ops[j].ready \in {0, 1},
         Served' \subseteq Served,
         \A u \in Served \ Served' : hand[a].at = "delete" /\ u \in hand[a].ids,
         HandInv(a)', OpInv(j)',
         \A u \in Uploads : Keeps(j, u) /\ u \notin row.listed /\ (u \in flight \/ u \in Served') => Keeps(j, u)'
  PROVE  OutboxInv'
  <1>1. HandInv(a) /\ hand[a] # NoHand /\ j \in Journals
    BY Parts, NoHandFacts DEF HandInv
  <1>2. ASSUME NEW u \in Uploads, j = <<u, 1>> PROVE up[u].at \notin {"journalled", "sent"}
    BY <1>2, Parts DEF JournalInv
  <1>3. ASSUME NEW u \in Uploads, j = <<u, 1>>, up[u].at = "ready", ops[j] # Null PROVE ops[j].ready \notin {0, 1}
    BY <1>3, Parts DEF JournalInv
  <1>4. \A u \in Uploads : j = <<u, 1>> /\ up[u].at \in {"journalled", "sent"} =>
            /\ ops'[j] # Null /\ ops'[j].ready \in {0, 2} /\ ops'[j].ids = ops[j].ids
            /\ hand'[a].op = j => hand'[a].at = "claim" /\ hand'[a].ready = 0
    BY <1>2
  <1>5. \A u \in Uploads : j = <<u, 1>> /\ up[u].at \in {"journalled", "sent", "ready"}
                             /\ ops'[j] # Null /\ ops'[j].ready \in {0, 1} =>
            /\ ops'[j].ids = ops[j].ids /\ ops[j].ready \in {0, 1}
            /\ hand'[a].op = j => hand'[a].at = "claim"
    BY <1>2, <1>3
  <1> QED
    BY <1>1, <1>4, <1>5, HandStepInv

(* What is known of an actor that is past the claim of its journal.            *)
LEMMA PastFacts ==
  ASSUME OutboxInv, NEW a \in Actors, hand[a].at \notin {"idle", "claim"}
  PROVE  /\ hand[a] \in Hand /\ hand[a].op \in Journals /\ HandInv(a)
         /\ hand[a].ids \subseteq Uploads /\ hand[a].kind \in {"settle", "lifecycle", "drain"}
         /\ hand[a].ready \in 0..3 /\ hand[a].receipt \in Receipt
         /\ ops[hand[a].op] \in Op \cup {Null} /\ OpInv(hand[a].op)
         /\ queue \in Seq(Mutation) /\ faults \in 0..MaxFaults
         /\ ops \in [Journals -> Op \cup {Null}] /\ hand \in [Actors -> Hand]
  BY Parts DEF HandInv, Hand

LEMMA JudgeInv ==
  ASSUME OutboxInv, NEW a \in Actors, Judge(a)
  PROVE  OutboxInv'
  <1>0. PICK j, left, n : j = hand[a].op /\ left = hand[a].ids \ row.listed /\ n = Len(queue) + 1
    OBVIOUS
  <1>1. /\ hand[a].at = "judge" /\ ops' = ops /\ faults' = faults
        /\ UNCHANGED <<row, visible, queue, flight, up, removal, overlooked>>
    BY DEF Judge, IndexUnchanged, ActorsUnchanged
  <1>2. PICK h :
          /\ hand' = [hand EXCEPT ![a] = h]
          /\ \/ h = NoHand
             \/ /\ h = [hand[a] EXCEPT !.at = "retire"] /\ hand[a].kind # "lifecycle"
                /\ left = {} \/ AwaitsIndex(a)
             \/ h = [hand[a] EXCEPT !.ids = left, !.at = "delete",
                                    !.receipt = IF hand[a].kind = "lifecycle" THEN Null ELSE n]
    BY <1>0 DEF Judge, Goes, Stops, AwaitsIndex
  <1>3. /\ hand[a] \in Hand /\ j \in Journals /\ HandInv(a) /\ hand[a].ids \subseteq Uploads
        /\ hand[a].kind \in {"settle", "lifecycle", "drain"} /\ ops[j] \in Op \cup {Null} /\ OpInv(j)
        /\ queue \in Seq(Mutation) /\ faults \in 0..MaxFaults
        /\ ops \in [Journals -> Op \cup {Null}] /\ hand \in [Actors -> Hand]
    BY <1>0, <1>1, PastFacts
  <1>4. n \in Receipt
    BY <1>0, <1>3 DEF Receipt
  <1>5. h \in Hand /\ (h = NoHand \/ h.op = j)
    <2>1. left \in SUBSET Uploads /\ n \in Receipt /\ Null \in Receipt
      BY <1>0, <1>3, <1>4 DEF Receipt
    <2>2. CASE h = NoHand
      BY <2>2, NoHandFacts
    <2>3. CASE h = [hand[a] EXCEPT !.at = "retire"]
      BY <1>0, <1>3, <2>3 DEF Hand
    <2>4. CASE h = [hand[a] EXCEPT !.ids = left, !.at = "delete",
                                   !.receipt = IF hand[a].kind = "lifecycle" THEN Null ELSE n]
      BY <1>0, <1>3, <2>1, <2>4 DEF Hand
    <2> QED
      BY <1>2, <2>2, <2>3, <2>4
  <1>6. hand'[a] = h /\ \A b \in Actors \ {a} : hand'[b] = hand[b]
    BY <1>2, <1>3
  <1>7. TypeOK'
    BY <1>1, <1>2, <1>3, <1>5, Parts, HandTypesKept
  <1>8. Served' = Served
    BY <1>1, ServedSame
  <1>9. \A u : (Landed(u)' <=> Landed(u)) /\ (Settled(u)' <=> Settled(u))
    BY <1>1 DEF Landed, Settled
  <1>10. OpInv(j)'
    BY <1>1, <1>3, <1>8, <1>9 DEF OpInv
  <1>11. /\ \A u \in hand[a].ids : Landed(u) /\ (j # <<u, 1>> => Settled(u))
         /\ hand[a].kind = "lifecycle" => j \in Removals \X {1}
         /\ AwaitsIndex(a) => hand[a].ids \cap Served = {}
         /\ hand[a].kind # "lifecycle" => Covered(j, hand[a].ids)
    BY <1>0, <1>1, <1>3 DEF HandInv
  <1>12. HandInv(a)'
    <2>1. CASE h = NoHand
      BY <1>6, <2>1, NoHandFacts DEF HandInv
    <2>2. CASE h = [hand[a] EXCEPT !.at = "retire"]
      <3>1. h.at = "retire" /\ h.ids = hand[a].ids /\ h.kind = hand[a].kind /\ h.op = j
        BY <1>0, <1>3, <2>2 DEF Hand
      <3> QED
        BY <1>3, <1>6, <1>9, <1>11, <3>1 DEF HandInv
    <2>3. CASE h = [hand[a] EXCEPT !.ids = left, !.at = "delete",
                                   !.receipt = IF hand[a].kind = "lifecycle" THEN Null ELSE n]
      <3>1. h.at = "delete" /\ h.ids = left /\ h.kind = hand[a].kind /\ h.op = j
        BY <1>0, <1>3, <2>3 DEF Hand
      <3> QED
        BY <1>0, <1>1, <1>3, <1>6, <1>9, <1>11, <3>1 DEF HandInv
    <2> QED
      BY <1>2, <2>1, <2>2, <2>3
  <1>13. ASSUME NEW u \in Uploads, Keeps(j, u), u \notin row.listed, u \in flight \/ u \in Served'
         PROVE  Keeps(j, u)'
    <2>1. hand[a].kind # "lifecycle" => u \in left
      BY <1>0, <1>8, <1>11, <1>13 DEF Keeps, Covered, Dead, Landed
    <2>2. AwaitsIndex(a) => hand[a].kind # "lifecycle" /\ u \notin left
      BY <1>0, <1>8, <1>11, <1>13 DEF AwaitsIndex, Landed
    <2>3. h.at = "retire" => hand[a].kind # "lifecycle" /\ (left = {} \/ AwaitsIndex(a))
      BY <1>2, <1>3, NoHandFacts DEF Hand
    <2>4. h.at # "idle" /\ h.at # "retire" => h.kind = hand[a].kind /\ h.ids = left
      BY <1>2, <1>3, NoHandFacts DEF Hand
    <2>5. ~Drops(a, j, u)'
      <3>1. h.at # "retire"
        BY <2>1, <2>2, <2>3
      <3> QED
        BY <1>6, <2>1, <2>4, <3>1 DEF Drops
    <2>6. \A b \in Actors \ {a} : ~Drops(b, j, u)'
      BY <1>6, <1>13 DEF Keeps, Drops
    <2> QED
      BY <1>1, <1>13, <2>5, <2>6 DEF Keeps
  <1>14. /\ hand[a].at \notin {"idle", "claim"}
         /\ UNCHANGED <<row, flight, up, removal, overlooked>>
         /\ hand'[a] = NoHand \/ hand'[a].op = j
         /\ \A k \in Journals \ {j} : ops'[k] = ops[k]
         /\ ops'[j] # Null => /\ ops[j] # Null /\ \A u \in ops'[j].ids : u \in ops[j].ids \/ Dead(u)
                              /\ ops'[j].ready \in {0, 1} => ops[j].ready \in {0, 1}
         /\ Served' \subseteq Served
         /\ \A u \in Served \ Served' : hand[a].at = "delete" /\ u \in hand[a].ids
    BY <1>1, <1>5, <1>6, <1>8
  <1> QED
    BY <1>0, <1>6, <1>7, <1>10, <1>12, <1>13, <1>14, PastStepInv

(* Both answers of a delete call: what the index was told is as good as gone.  *)
LEMMA DeletedInv ==
  ASSUME OutboxInv, NEW a \in Actors, Delete(a) \/ DeleteFails(a)
  PROVE  OutboxInv'
  <1>0. PICK j : j = hand[a].op
    OBVIOUS
  <1>1. /\ hand[a].at = "delete" /\ ops' = ops
        /\ UNCHANGED <<row, visible, flight, up, removal, overlooked>>
    BY DEF Delete, DeleteFails, ActorsUnchanged
  <1>2. PICK h : /\ hand' = [hand EXCEPT ![a] = h]
                 /\ \/ h = NoHand
                    \/ /\ h = [hand[a] EXCEPT !.at = "record"]
                       /\ hand[a].ids = {} \/ Accept("delete", hand[a].ids)
    BY DEF Delete, DeleteFails, Goes, Stops
  <1>3. /\ hand[a] \in Hand /\ j \in Journals /\ HandInv(a) /\ hand[a].ids \subseteq Uploads
        /\ hand[a].kind \in {"settle", "lifecycle", "drain"} /\ ops[j] \in Op \cup {Null} /\ OpInv(j)
        /\ queue \in Seq(Mutation) /\ faults \in 0..MaxFaults
        /\ ops \in [Journals -> Op \cup {Null}] /\ hand \in [Actors -> Hand] /\ TypeOK
    BY <1>0, <1>1, PastFacts, Parts
  <1>4. queue' = queue \/ Accept("delete", hand[a].ids)
    BY DEF Delete, DeleteFails
  <1>5. /\ Served' = Served \/ Served' = Served \ hand[a].ids
        /\ h # NoHand => Served' \cap hand[a].ids = {}
    <2>1. Accept("delete", hand[a].ids) => Served' = Served \ hand[a].ids
      <3> DEFINE ids == hand[a].ids
      <3>1. ids \in SUBSET Uploads
        BY <1>3
      <3> HIDE DEF ids
      <3>2. Accept("delete", ids) => Served' = Served \ ids
        BY <1>1, <1>3, <3>1, ServedAccept
      <3> QED
        BY <3>2 DEF ids
    <2>2. queue' = queue => Served' = Served
      BY <1>1, ServedSame
    <2> QED
      BY <1>2, <1>4, <2>1, <2>2
  <1>6. h \in Hand /\ (h = NoHand \/ h.op = j)
    BY <1>0, <1>2, <1>3, NoHandFacts DEF Hand
  <1>7. hand'[a] = h /\ \A b \in Actors \ {a} : hand'[b] = hand[b]
    BY <1>2, <1>3
  <1>8. TypeOK'
    <2>1. queue' \in Seq(Mutation)
      <3>1. [kind |-> "delete", ids |-> hand[a].ids] \in Mutation
        BY <1>3 DEF Mutation
      <3> QED
        BY <1>3, <1>4, <3>1 DEF Accept
    <2>2. faults' \in 0..MaxFaults
      BY <1>3, OutboxAssumption DEF Delete, DeleteFails, Fault
    <2> QED
      BY <1>1, <1>2, <1>3, <1>6, <2>1, <2>2, HandTypesKept
  <1>9. \A u : (Landed(u)' <=> Landed(u)) /\ (Settled(u)' <=> Settled(u))
    BY <1>1 DEF Landed, Settled
  <1>10. OpInv(j)'
    BY <1>1, <1>3, <1>5, <1>9 DEF OpInv
  <1>11. HandInv(a)'
    <2>1. CASE h = NoHand
      BY <1>7, <2>1, NoHandFacts DEF HandInv
    <2>2. CASE h = [hand[a] EXCEPT !.at = "record"] /\ h # NoHand
      <3>1. h.at = "record" /\ h.ids = hand[a].ids /\ h.kind = hand[a].kind /\ h.op = j
        BY <1>0, <1>3, <2>2 DEF Hand
      <3>2. /\ \A u \in hand[a].ids : Landed(u) /\ (j # <<u, 1>> => Settled(u))
            /\ hand[a].kind = "lifecycle" => j \in Removals \X {1}
        BY <1>0, <1>1, <1>3 DEF HandInv
      <3> QED
        BY <1>3, <1>5, <1>7, <1>9, <2>2, <3>1, <3>2 DEF HandInv
    <2> QED
      BY <1>2, <2>1, <2>2
  <1>12. ASSUME NEW u \in Uploads, Keeps(j, u) PROVE Keeps(j, u)'
    <2>1. h # NoHand => h.at = "record" /\ h.kind = hand[a].kind /\ h.ids = hand[a].ids
      BY <1>2, <1>3 DEF Hand
    <2>2. ~Drops(a, j, u)'
      BY <1>0, <1>1, <1>7, <1>12, <2>1, NoHandFacts DEF Keeps, Drops
    <2>3. \A b \in Actors \ {a} : ~Drops(b, j, u)'
      BY <1>7, <1>12 DEF Keeps, Drops
    <2> QED
      BY <1>1, <1>12, <2>2, <2>3 DEF Keeps
  <1>13. /\ hand[a].at \notin {"idle", "claim"}
         /\ UNCHANGED <<row, flight, up, removal, overlooked>>
         /\ hand'[a] = NoHand \/ hand'[a].op = j
         /\ \A k \in Journals \ {j} : ops'[k] = ops[k]
         /\ ops'[j] # Null => /\ ops[j] # Null /\ \A u \in ops'[j].ids : u \in ops[j].ids \/ Dead(u)
                              /\ ops'[j].ready \in {0, 1} => ops[j].ready \in {0, 1}
         /\ Served' \subseteq Served
         /\ \A u \in Served \ Served' : hand[a].at = "delete" /\ u \in hand[a].ids
    BY <1>1, <1>5, <1>6, <1>7
  <1> QED
    BY <1>0, <1>7, <1>8, <1>10, <1>11, <1>12, <1>13, PastStepInv

(* A journal is told what was deleted, or is deleted itself.                   *)
LEMMA ClosedInv ==
  ASSUME OutboxInv, NEW a \in Actors, Record(a) \/ Retire(a)
  PROVE  OutboxInv'
  <1>0. PICK j : j = hand[a].op
    OBVIOUS
  <1>1. /\ hand[a].at \in {"record", "retire"} /\ hand' = [hand EXCEPT ![a] = NoHand] /\ faults' = faults
        /\ UNCHANGED <<row, visible, queue, flight, up, removal, overlooked>>
    BY DEF Record, Retire, Stops, IndexUnchanged, ActorsUnchanged
  <1>2. /\ hand[a] \in Hand /\ j \in Journals /\ HandInv(a) /\ hand[a].ids \subseteq Uploads
        /\ hand[a].kind \in {"settle", "lifecycle", "drain"} /\ hand[a].receipt \in Receipt
        /\ ops[j] \in Op \cup {Null} /\ OpInv(j)
        /\ queue \in Seq(Mutation) /\ faults \in 0..MaxFaults
        /\ ops \in [Journals -> Op \cup {Null}] /\ hand \in [Actors -> Hand] /\ TypeOK
    BY <1>0, <1>1, PastFacts, Parts
  <1>3. PICK o :
          /\ ops' = [ops EXCEPT ![j] = o]
          /\ \/ o = Null /\ (hand[a].at = "retire" \/ ops[j] = Null)
             \/ hand[a].at = "record" /\ ops[j] # Null /\ hand[a].kind = "lifecycle" /\ o = [ops[j] EXCEPT !.ready = 3]
             \/ /\ hand[a].at = "record" /\ ops[j] # Null /\ hand[a].kind # "lifecycle"
                /\ o = [ids |-> hand[a].ids, ready |-> 3, receipt |-> hand[a].receipt]
    <2>1. CASE Retire(a)
      BY <1>0, <2>1 DEF Retire
    <2>2. CASE Record(a) /\ ops[j] = Null
      <3>1. ops' = ops
        BY <1>0, <2>2 DEF Record, Exists
      <3>2. ops' = [ops EXCEPT ![j] = Null]
        BY <1>2, <2>2, <3>1
      <3> QED
        BY <2>2, <3>2
    <2>3. CASE Record(a) /\ ops[j] # Null
      BY <1>0, <1>2, <2>3 DEF Record, Exists
    <2> QED
      BY <2>1, <2>2, <2>3
  <1>4. o \in Op \cup {Null}
    BY <1>2, <1>3 DEF Op
  <1>5. /\ hand'[a] = NoHand /\ \A b \in Actors \ {a} : hand'[b] = hand[b]
        /\ ops'[j] = o /\ \A k \in Journals \ {j} : ops'[k] = ops[k]
    BY <1>1, <1>2, <1>3
  <1>6. TypeOK'
    BY <1>1, <1>2, <1>3, <1>4, NoHandFacts, HandTypesKept
  <1>7. Served' = Served
    BY <1>1, ServedSame
  <1>8. \A u : (Landed(u)' <=> Landed(u)) /\ (Settled(u)' <=> Settled(u))
    BY <1>1 DEF Landed, Settled
  <1>9. /\ \A u \in hand[a].ids : j # <<u, 1>> => Settled(u)
        /\ hand[a].kind = "lifecycle" => j \in Removals \X {1}
        /\ hand[a].at = "record" => hand[a].ids \cap Served = {} /\ \A u \in hand[a].ids : Landed(u)
    BY <1>0, <1>1, <1>2 DEF HandInv
  <1>10. ASSUME o # Null
         PROVE  /\ ops[j] # Null /\ o.ready = 3
                /\ \A u \in o.ids : u \in ops[j].ids \/ Dead(u)
                /\ \A u \in o.ids : Landed(u) /\ (j # <<u, 1>> => Settled(u))
                /\ o.receipt # Null => o.ids \cap Served = {}
    <2>1. CASE hand[a].kind = "lifecycle"
      <3>1. ops[j] # Null /\ o.ready = 3 /\ o.ids = ops[j].ids /\ o.receipt = ops[j].receipt
        BY <1>2, <1>3, <1>10, <2>1 DEF Op
      <3>2. o.ids \subseteq Uploads /\ \A u \in Uploads : j # <<u, 1>>
        BY <1>2, <1>9, <2>1, <3>1, Names DEF Op
      <3>3. \A u \in o.ids : Settled(u)
        BY <1>2, <3>1, <3>2 DEF OpInv
      <3>4. o.receipt # Null => o.ids \cap Served = {}
        BY <1>2, <3>1 DEF OpInv
      <3> QED
        BY <3>1, <3>3, <3>4 DEF Settled
    <2>2. CASE hand[a].kind # "lifecycle"
      <3>1. ops[j] # Null /\ o.ready = 3 /\ o.ids = hand[a].ids /\ hand[a].at = "record"
        BY <1>3, <1>10, <2>2
      <3> QED
        BY <1>9, <3>1 DEF Dead
    <2> QED
      BY <2>1, <2>2
  <1>11. OpInv(j)'
    <2> SUFFICES ASSUME o # Null PROVE OpInv(j)'
      BY <1>5 DEF OpInv
    <2>1. \A u \in o.ids : up'[u].at \notin {"idle", "read"}
      BY <1>1, <1>10 DEF Landed
    <2> QED
      BY <1>5, <1>7, <1>8, <1>10, <2>1 DEF OpInv
  <1>12. HandInv(a)'
    BY <1>5, NoHandFacts DEF HandInv
  <1>13. ASSUME NEW u \in Uploads, Keeps(j, u) PROVE Keeps(j, u)'
    <2>1. hand[a].at # "retire" /\ (hand[a].kind # "lifecycle" => u \in hand[a].ids)
      BY <1>0, <1>1, <1>13 DEF Keeps, Drops
    <2>2. o # Null /\ u \in o.ids
      <3>1. ops[j] # Null /\ u \in ops[j].ids
        BY <1>13 DEF Keeps
      <3>2. CASE hand[a].kind = "lifecycle"
        <4>1. o = [ops[j] EXCEPT !.ready = 3] /\ ops[j] \in Op
          BY <1>2, <1>3, <2>1, <3>1, <3>2
        <4>2. o \in Op /\ o.ids = ops[j].ids
          BY <4>1 DEF Op
        <4> QED
          BY <3>1, <4>2, Names
      <3>3. CASE hand[a].kind # "lifecycle"
        <4>1. o = [ids |-> hand[a].ids, ready |-> 3, receipt |-> hand[a].receipt]
          BY <1>3, <2>1, <3>1, <3>3
        <4>2. o \in Op
          BY <1>2, <4>1 DEF Op
        <4> QED
          BY <2>1, <3>3, <4>1, <4>2, Names
      <3> QED
        BY <3>2, <3>3
    <2>3. \A b \in Actors : ~Drops(b, j, u)'
      BY <1>5, <1>13, NoHandFacts DEF Keeps, Drops
    <2> QED
      BY <1>5, <2>2, <2>3 DEF Keeps
  <1>14. /\ hand[a].at \notin {"idle", "claim"}
         /\ UNCHANGED <<row, flight, up, removal, overlooked>>
         /\ hand'[a] = NoHand \/ hand'[a].op = j
         /\ ops'[j] # Null => /\ ops[j] # Null /\ \A u \in ops'[j].ids : u \in ops[j].ids \/ Dead(u)
                              /\ ops'[j].ready \in {0, 1} => ops[j].ready \in {0, 1}
         /\ Served' \subseteq Served
         /\ \A u \in Served \ Served' : hand[a].at = "delete" /\ u \in hand[a].ids
    BY <1>1, <1>5, <1>7, <1>10
  <1> QED
    BY <1>0, <1>5, <1>6, <1>11, <1>12, <1>13, <1>14, PastStepInv

(* A step of an upload, or of its request.                                     *)
LEMMA UploadStepInv ==
  ASSUME OutboxInv, TypeOK', NEW u \in Uploads, removal' = removal,
         \A v \in Uploads \ {u} : up'[v] = up[v] /\ (v \in flight' <=> v \in flight) /\ (v \in Served' <=> v \in Served),
         \A k \in Journals \ {<<u, 1>>, <<u, 2>>} : ops'[k] = ops[k],
         \A k \in Journals \cap {<<u, 1>>, <<u, 2>>} :
            /\ OpInv(k)'
            /\ ops'[k] # Null => \/ ops[k] # Null /\ ops'[k].ids = ops[k].ids
                                 \/ \A a \in Actors : hand[a].op # k,
         \A a \in Actors \ {u} : hand'[a] = hand[a],
         hand'[u] = hand[u] \/ (HandInv(u)' /\ hand[u] = NoHand /\ hand'[u].op \in {<<u, 1>>, <<u, 2>>}),
         up[u].at \notin {"idle", "read"} => up'[u].at \notin {"idle", "read"},
         Landed(u) => Landed(u)', Settled(u) => Settled(u)', Dead(u) => Dead(u)',
         \A a \in Actors : hand[a].at = "delete" => hand[a].ids \cap row'.listed \subseteq Unfenced,
         JournalInv(u)', UploadInv(u)', RowInv', \A v \in Uploads : CareInv(v)'
  PROVE  OutboxInv'
  <1>1. Onward
    BY DEF Onward, Landed, Settled
  <1>2. Final
    BY DEF Final, Dead, Landed
  <1>3. ASSUME NEW k \in Journals PROVE OpInv(k)'
    <2>1. CASE k \in {<<u, 1>>, <<u, 2>>}
      BY <2>1
    <2>2. CASE k \notin {<<u, 1>>, <<u, 2>>}
      BY <1>1, <1>2, <2>2, Parts, OpKept
    <2> QED
      BY <2>1, <2>2
  <1>4. ASSUME NEW b \in Actors PROVE HandInv(b)'
    <2>1. CASE hand'[b] # hand[b]
      BY <2>1
    <2>2. CASE hand'[b] = hand[b]
      <3> DEFINE k == hand[b].op
      <3>1. CASE hand[b].at = "idle"
        <4>1. hand'[b] = NoHand
          BY <2>2, <3>1, Parts DEF HandInv
        <4> QED
          BY <4>1, NoHandFacts DEF HandInv, AwaitsIndex
      <3>2. CASE hand[b].at # "idle"
        <4>1. k \in Journals /\ ops[k] \in Op \cup {Null}
          BY <3>2, Parts DEF HandInv
        <4>2. ops'[k] # Null => ops[k] # Null /\ ops'[k].ids = ops[k].ids
          <5>1. CASE k \in {<<u, 1>>, <<u, 2>>}
            BY <4>1, <5>1
          <5>2. CASE k \notin {<<u, 1>>, <<u, 2>>}
            BY <4>1, <5>2
          <5> QED
            BY <5>1, <5>2
        <4>3. Covered(k, hand[b].ids) => Covered(k, hand[b].ids)'
          BY <1>2, <2>2, <4>1, <4>2, CoveredKept
        <4> QED
          BY <1>1, <1>2, <2>2, <4>3, Parts, HandKept
      <3> QED
        BY <3>1, <3>2
    <2> QED
      BY <2>1, <2>2
  <1>5. ASSUME NEW k \in Journals \ {<<u, 1>>, <<u, 2>>}, NEW b \in Actors, hand'[b].op = k
        PROVE  hand'[b] = hand[b]
    BY <1>5
  <1>6. ASSUME NEW v \in Uploads PROVE JournalInv(v)'
    <2>1. CASE v = u
      BY <2>1
    <2>2. CASE v # u
      <3>1. \A k \in {<<v, 1>>, <<v, 2>>} : k \notin {<<u, 1>>, <<u, 2>>}
        BY <2>2
      <3>2. \A k \in Journals \cap {<<v, 1>>, <<v, 2>>} :
               /\ ops'[k] = ops[k]
               /\ \A b \in Actors : hand'[b].op = k => hand'[b] = hand[b]
        BY <1>5, <3>1
      <3> QED
        BY <1>2, <2>2, <3>2, JournalKept
    <2> QED
      BY <2>1, <2>2
  <1>7. ASSUME NEW v \in Uploads PROVE UploadInv(v)'
    <2>1. CASE v = u
      BY <2>1
    <2>2. CASE v # u
      <3>1. hand'[v] = hand[v]
        BY <2>2, Names
      <3> QED
        BY <1>1, <2>2, <3>1, Parts, UploadKept
    <2> QED
      BY <2>1, <2>2
  <1>8. ASSUME NEW x \in Removals PROVE RemovalInv(x)'
    <2>1. x # u /\ x \in Actors /\ <<x, 1>> \in Journals \ {<<u, 1>>, <<u, 2>>}
      BY Names
    <2>2. hand'[x] = hand[x] /\ ops'[<<x, 1>>] = ops[<<x, 1>>]
      BY <2>1
    <2>3. \A b \in Actors : hand'[b].op = <<x, 1>> => hand'[b] = hand[b]
      BY <1>5, <2>1
    <2> QED
      BY <1>1, <2>2, <2>3, Parts, RemovalKept
  <1> QED
    BY <1>3, <1>4, <1>6, <1>7, <1>8 DEF OutboxInv

(* One that leaves the row alone.                                              *)
LEMMA QuietStepInv ==
  ASSUME OutboxInv, TypeOK', NEW u \in Uploads, UNCHANGED <<row, removal, overlooked>>,
         \A v \in Uploads \ {u} : up'[v] = up[v] /\ (v \in flight' <=> v \in flight) /\ (v \in Served' <=> v \in Served),
         u \in Served => u \in Served',
         \A k \in Journals \ {<<u, 1>>, <<u, 2>>} : ops'[k] = ops[k],
         \A k \in Journals \cap {<<u, 1>>, <<u, 2>>} :
            /\ OpInv(k)'
            /\ ops'[k] # Null => \/ ops[k] # Null /\ ops'[k].ids = ops[k].ids
                                 \/ \A a \in Actors : hand[a].op # k,
         \A a \in Actors \ {u} : hand'[a] = hand[a],
         hand'[u] = hand[u] \/ (HandInv(u)' /\ hand[u] = NoHand /\ hand'[u].op \in {<<u, 1>>, <<u, 2>>}),
         up[u].at \notin {"idle", "read"} => up'[u].at \notin {"idle", "read"},
         Landed(u) => Landed(u)', Settled(u) => Settled(u)', Dead(u) => Dead(u)',
         JournalInv(u)', UploadInv(u)', up'[u].at = "committed" => up[u].at = "committed",
         \A v \in Uploads \ {u} : \A j \in Journals :
            Keeps(j, v) => Keeps(j, v)' \/ (v \notin flight' /\ v \notin Served'),
         CareInv(u)' \/ /\ u \notin flight /\ u \notin Served => u \notin flight' /\ u \notin Served'
                        /\ \A j \in Journals : Keeps(j, u) => Keeps(j, u)' \/ (u \notin flight' /\ u \notin Served')
  PROVE  OutboxInv'
  <1>1. RowInv'
    <2>1. Onward
      BY DEF Onward, Landed, Settled
    <2>2. row.listed \subseteq Uploads
      BY Parts DEF Row
    <2>3. row'.listed \subseteq row.listed /\ row'.listed \cap Served \subseteq Unfenced \cup Served'
      BY <2>2
    <2> QED
      BY <2>1, <2>3, Parts, RowKept
  <1>2. ASSUME NEW v \in Uploads PROVE CareInv(v)'
    <2>1. CASE v = u
      BY <2>1, Parts, CareKept
    <2>2. CASE v # u
      BY <2>2, Parts, CareKept
    <2> QED
      BY <2>1, <2>2
  <1>3. \A a \in Actors : hand[a].at = "delete" => hand[a].ids \cap row'.listed \subseteq Unfenced
    BY Parts DEF HandInv
  <1> QED
    BY <1>1, <1>2, <1>3, UploadStepInv

(* One that changes nothing else than the upload.                              *)
LEMMA OwnStepInv ==
  ASSUME OutboxInv, NEW u \in Uploads, NEW w \in Upload0, up' = [up EXCEPT ![u] = w],
         UNCHANGED <<row, ops, visible, queue, flight, removal, hand, overlooked>>, faults' \in 0..MaxFaults,
         up[u].at \notin {"idle", "read"} => w.at \notin {"idle", "read"},
         Landed(u) => Landed(u)', Settled(u) => w.at # "ready", w.at = "committed" => up[u].at = "committed",
         JournalInv(u)', UploadInv(u)'
  PROVE  OutboxInv'
  <1>1. up'[u] = w /\ \A v \in Uploads \ {u} : up'[v] = up[v]
    BY Parts
  <1>2. TypeOK'
    <2>1. /\ row \in Row /\ ops \in [Journals -> Op \cup {Null}] /\ visible \subseteq Uploads
          /\ queue \in Seq(Mutation) /\ flight \subseteq Uploads /\ up' \in [Uploads -> Upload0]
          /\ removal \in [Removals -> Removal0] /\ hand \in [Actors -> Hand]
          /\ overlooked \subseteq Uploads
      BY Parts
    <2> QED
      BY <2>1 DEF TypeOK, Upload0, Removal0
  <1>3. Served' = Served
    BY ServedSame
  <1>4. Settled(u) => Settled(u)'
    BY <1>1 DEF Settled
  <1>5. Dead(u) => Dead(u)'
    BY <1>3 DEF Dead
  <1>6. Onward /\ Final
    <2>1. \A v \in Uploads \ {u} : (Landed(v)' <=> Landed(v)) /\ (Settled(v)' <=> Settled(v)) /\ (Dead(v)' <=> Dead(v))
      BY <1>1, <1>3 DEF Landed, Settled, Dead
    <2> QED
      BY <1>1, <1>4, <1>5, <2>1 DEF Onward, Final
  <1>7. \A k \in Journals : OpInv(k)'
    BY <1>6, Parts, OpKept
  <1>8. \A v \in Uploads : \A j \in Journals : Keeps(j, v) => Keeps(j, v)'
    BY DEF Keeps, Drops
  <1> QED
    BY <1>1, <1>2, <1>3, <1>4, <1>5, <1>7, <1>8, QuietStepInv

(* What an upload knows, as facts about it.                                    *)
LEMMA UploadFacts ==
  ASSUME OutboxInv, NEW u \in Uploads
  PROVE  /\ up[u] \in Upload0 /\ JournalInv(u) /\ UploadInv(u) /\ CareInv(u) /\ TypeOK
         /\ up[u].seen \in Row /\ up[u].seen.listed \subseteq Uploads
         /\ up[u].prior \subseteq Uploads /\ up[u].stale \subseteq Uploads
         /\ row \in Row /\ row.listed \subseteq Uploads /\ u \in Actors
         /\ <<u, 1>> \in Journals /\ (u \in Unfenced => <<u, 2>> \in Journals)
         /\ ops \in [Journals -> Op \cup {Null}] /\ hand \in [Actors -> Hand] /\ up \in [Uploads -> Upload0]
         /\ up[u].at # "ended" => hand[u] = NoHand
         /\ u \in flight => up[u].at \in {"sent", "ended"}
  BY Parts, Names DEF Upload0, Row, UploadInv

LEMMA EndedFacts ==
  ASSUME NEW at \in {"idle", "ended"}
  PROVE  /\ Upload(at) \in Upload0 /\ Upload(at).at = at /\ Upload(at).seen.listed = {}
         /\ Upload(at).prior = {} /\ Upload(at).stale = {}
  BY DEF Upload, Upload0, NewRow, Row

LEMMA ReadRowInv ==
  ASSUME OutboxInv, NEW u \in Uploads, ReadRow(u)
  PROVE  OutboxInv'
  <1>0. PICK w : w = [at |-> "read", seen |-> row, stale |-> {},
                      prior |-> IF u \in Passages THEN {} ELSE row.listed]
    OBVIOUS
  <1>1. /\ up[u].at = "idle" /\ up' = [up EXCEPT ![u] = w]
        /\ UNCHANGED <<row, ops, visible, queue, flight, removal, hand, overlooked, faults>>
    BY <1>0 DEF ReadRow, IndexUnchanged, RestUnchanged
  <1>2. w \in Upload0
    BY <1>0, UploadFacts DEF Upload0
  <1>3. up'[u] = w /\ w.at = "read" /\ w.seen = row /\ w.stale = {} /\ w.prior \subseteq row.listed
        /\ (u \notin Passages => w.prior = w.seen.listed)
    BY <1>0, <1>1, UploadFacts
  <1>4. \A v \in row.listed : Settled(v)'
    <2>1. \A v \in row.listed : Settled(v) /\ v # u
      BY <1>1, Parts DEF RowInv, Settled, Landed
    <2> QED
      BY <1>1, <2>1, UploadFacts DEF Settled, Landed
  <1>5. UploadInv(u)'
    BY <1>1, <1>3, <1>4, UploadFacts DEF UploadInv
  <1>6. JournalInv(u)'
    BY <1>1, <1>3, UploadFacts DEF JournalInv, NoneOn
  <1>7. ~Landed(u)
    BY <1>1 DEF Landed
  <1> QED
    BY <1>1, <1>2, <1>3, <1>5, <1>6, <1>7, Parts, OwnStepInv DEF Settled

(* An upload that gives up, or that goes on to what it replaced.               *)
LEMMA RetiringInv ==
  ASSUME OutboxInv, NEW u \in Uploads, NEW w, w = up'[u], up' = [up EXCEPT ![u] = w],
         UNCHANGED <<row, ops, visible, queue, flight, removal, hand, overlooked>>, faults' \in 0..MaxFaults,
         up[u].at \in {"ready", "committed"},
         w.at = IF u \in Unfenced THEN "retiring" ELSE "failing", w \in Upload0,
         w.seen = up[u].seen, w.prior = up[u].prior, w.stale = {u} \/ w.stale \subseteq up[u].seen.listed
  PROVE  OutboxInv'
  <1>1. Landed(u) /\ Landed(u)' /\ Settled(u)'
    BY UploadFacts DEF Landed, Settled
  <1>2. Onward
    BY <1>1, Parts DEF Onward, Landed, Settled
  <1>3. UploadInv(u)'
    BY <1>1, <1>2, UploadFacts DEF UploadInv, Onward
  <1>4. Served' = Served
    BY ServedSame
  <1>5. JournalInv(u)'
    <2>1. Covered(<<u, 1>>, up[u].prior \cup {u})
      BY UploadFacts DEF JournalInv
    <2>2. Final
      BY <1>2, <1>4 DEF Final, Onward, Dead
    <2>3. \A S : Covered(<<u, 1>>, S) => Covered(<<u, 1>>, S)'
      BY <2>2, UploadFacts, CoveredKept
    <2>4. Covered(<<u, 1>>, w.prior \cup {u})'
      BY <2>1, <2>3
    <2>5. u \in Unfenced => NoneOn(<<u, 2>>)'
      BY UploadFacts DEF JournalInv, NoneOn
    <2> QED
      BY <2>4, <2>5 DEF JournalInv
  <1> QED
    BY <1>1, <1>3, <1>5, OwnStepInv

LEMMA LoseInv ==
  ASSUME OutboxInv, NEW u \in Uploads,
         Lose(u) \/ RetireReplaced(u) \/ (CommitFails(u) /\ row' = row /\ overlooked' = overlooked)
  PROVE  OutboxInv'
  <1>0. PICK w : w = up'[u]
    OBVIOUS
  <1>1. /\ UNCHANGED <<row, ops, visible, queue, flight, removal, hand, overlooked>>
        /\ faults' = faults \/ Fault
        /\ up[u].at \in {"ready", "committed"}
        /\ \/ up' = [up EXCEPT ![u].at = IF u \in Unfenced THEN "retiring" ELSE "failing", ![u].stale = {u}]
           \/ u \in Unfenced /\ up' = [up EXCEPT ![u].at = "retiring", ![u].stale = up[u].seen.listed \ {u}]
    BY DEF Lose, RetireReplaced, CommitFails, GivesUp, IndexUnchanged, RestUnchanged
  <1>2. faults' \in 0..MaxFaults
    BY <1>1, Parts, OutboxAssumption DEF Fault
  <1>3. /\ up' = [up EXCEPT ![u] = w] /\ w \in Upload0
        /\ w.at = IF u \in Unfenced THEN "retiring" ELSE "failing"
        /\ w.seen = up[u].seen /\ w.prior = up[u].prior
        /\ w.stale = {u} \/ w.stale \subseteq up[u].seen.listed
    <2>1. CASE up' = [up EXCEPT ![u].at = IF u \in Unfenced THEN "retiring" ELSE "failing", ![u].stale = {u}]
      <3>1. w = [up[u] EXCEPT !.at = IF u \in Unfenced THEN "retiring" ELSE "failing", !.stale = {u}]
        BY <1>0, <2>1, UploadFacts
      <3>2. up' = [up EXCEPT ![u] = w]
        BY <2>1, <3>1, UploadFacts
      <3>3. up[u] \in Upload0 /\ {u} \in SUBSET Uploads
        BY UploadFacts
      <3> QED
        BY <3>1, <3>2, <3>3 DEF Upload0
    <2>2. CASE u \in Unfenced /\ up' = [up EXCEPT ![u].at = "retiring", ![u].stale = up[u].seen.listed \ {u}]
      <3>1. w = [up[u] EXCEPT !.at = "retiring", !.stale = up[u].seen.listed \ {u}]
        BY <1>0, <2>2, UploadFacts
      <3>2. up' = [up EXCEPT ![u] = w]
        BY <2>2, <3>1, UploadFacts
      <3>3. up[u] \in Upload0 /\ up[u].seen.listed \subseteq Uploads
        BY UploadFacts
      <3>4. PICK s : s = up[u].seen.listed \ {u} /\ s \in SUBSET Uploads
        BY <3>3
      <3> QED
        BY <2>2, <3>1, <3>2, <3>3, <3>4 DEF Upload0
    <2> QED
      BY <1>1, <2>1, <2>2
  <1> QED
    BY <1>0, <1>1, <1>2, <1>3, RetiringInv

LEMMA RetryInv ==
  ASSUME OutboxInv, NEW u \in Uploads, Retry(u)
  PROVE  OutboxInv'
  <1>0. PICK w : w = [up[u] EXCEPT !.seen = row]
    OBVIOUS
  <1>1. /\ u \in Unfenced /\ up[u].at = "ready" /\ up' = [up EXCEPT ![u] = w]
        /\ UNCHANGED <<row, ops, visible, queue, flight, removal, hand, overlooked, faults>>
    BY <1>0 DEF Retry, IndexUnchanged, RestUnchanged
  <1>2. /\ w \in Upload0 /\ w.at = "ready" /\ w.seen = row /\ w.prior = up[u].prior /\ w.stale = up[u].stale
        /\ up'[u] = w
    BY <1>0, <1>1, UploadFacts DEF Upload0
  <1>3. \A v : (Landed(v)' <=> Landed(v)) /\ (Settled(v)' <=> Settled(v))
    BY <1>1, <1>2, UploadFacts DEF Landed, Settled
  <1>4. UploadInv(u)'
    <2>1. \A v \in row.listed : Settled(v)
      BY Parts DEF RowInv
    <2> QED
      BY <1>1, <1>2, <1>3, <2>1, UploadFacts DEF UploadInv
  <1>5. JournalInv(u)'
    <2>1. Served' = Served
      BY <1>1, ServedSame
    <2>2. \A v : Dead(v)' <=> Dead(v)
      BY <1>3, <2>1 DEF Dead
    <2>3. \A S : Covered(<<u, 1>>, S)' <=> Covered(<<u, 1>>, S)
      BY <1>1, <2>2 DEF Covered
    <2> QED
      BY <1>1, <1>2, <2>1, <2>3, UploadFacts DEF JournalInv, NoneOn
  <1> QED
    BY <1>1, <1>2, <1>3, <1>4, <1>5, Parts, OwnStepInv DEF Settled

(* The request of an upload.                                                   *)
LEMMA SendInv ==
  ASSUME OutboxInv, NEW u \in Uploads, Send(u)
  PROVE  OutboxInv'
  <1>0. PICK w, j : w = [up[u] EXCEPT !.at = "sent"] /\ j = <<u, 1>>
    OBVIOUS
  <1>1. /\ up[u].at = "journalled" /\ up' = [up EXCEPT ![u] = w] /\ flight' = flight \cup {u}
        /\ UNCHANGED <<row, ops, visible, queue, removal, hand, overlooked, faults>>
    BY <1>0, UploadFacts DEF Send, Moves, Exists, RestUnchanged, JournalInv
  <1>2. /\ w \in Upload0 /\ w.at = "sent" /\ w.seen = up[u].seen /\ w.prior = up[u].prior /\ w.stale = up[u].stale
        /\ up'[u] = w /\ \A v \in Uploads \ {u} : up'[v] = up[v] /\ (v \in flight' <=> v \in flight)
    BY <1>0, <1>1, UploadFacts DEF Upload0
  <1>3. TypeOK'
    <2>1. /\ row \in Row /\ ops \in [Journals -> Op \cup {Null}] /\ visible \subseteq Uploads
          /\ queue \in Seq(Mutation) /\ flight \cup {u} \subseteq Uploads /\ up' \in [Uploads -> Upload0]
          /\ removal \in [Removals -> Removal0] /\ hand \in [Actors -> Hand]
          /\ overlooked \subseteq Uploads /\ faults \in 0..MaxFaults
      BY <1>1, <1>2, Parts
    <2> QED
      BY <1>1, <2>1 DEF TypeOK, Upload0, Removal0
  <1>4. Served' = Served
    BY <1>1, ServedSame
  <1>5. ~Landed(u) /\ ~Settled(u) /\ ~Dead(u)
    BY <1>1 DEF Landed, Settled, Dead
  <1>6. Onward /\ Final
    <2>1. \A v \in Uploads \ {u} : (Landed(v)' <=> Landed(v)) /\ (Settled(v)' <=> Settled(v)) /\ (Dead(v)' <=> Dead(v))
      BY <1>2, <1>4 DEF Landed, Settled, Dead
    <2> QED
      BY <1>2, <1>5, <2>1 DEF Onward, Final
  <1>7. \A k \in Journals : OpInv(k)'
    BY <1>1, <1>6, Parts, OpKept
  <1>8. \A v \in Uploads : \A k \in Journals : Keeps(k, v) => Keeps(k, v)'
    BY <1>1 DEF Keeps, Drops
  <1>9. /\ ops[j] # Null /\ ops[j].ready \in {0, 2} /\ ops[j].ids = up[u].prior \cup {u}
        /\ \A a \in Actors : hand[a].op = j => hand[a].at = "claim" /\ hand[a].ready = 0
    BY <1>0, <1>1, UploadFacts DEF JournalInv
  <1>10. Keeps(j, u)'
    BY <1>1, <1>9 DEF Keeps, Drops
  <1>11. CareInv(u)'
    BY <1>0, <1>2, <1>10, UploadFacts DEF CareInv, Cared
  <1>12. UploadInv(u)'
    BY <1>1, <1>2, <1>6, UploadFacts DEF UploadInv, Onward
  <1>13. JournalInv(u)'
    <2>1. \A v \in ops[j].ids : v \in w.prior \cup {u}
      BY <1>2, <1>9
    <2>2. Covered(j, w.prior \cup {u})'
      BY <1>1, <2>1 DEF Covered
    <2>3. u \in Unfenced => NoneOn(<<u, 2>>)'
      BY <1>1, UploadFacts DEF JournalInv, NoneOn
    <2> QED
      BY <1>0, <1>1, <1>2, <1>9, <2>2, <2>3 DEF JournalInv
  <1> QED
    BY <1>1, <1>2, <1>3, <1>4, <1>5, <1>7, <1>8, <1>11, <1>12, <1>13, QuietStepInv

(* A step that leaves the requests and the index alone.                        *)
LEMMA JournalStepInv ==
  ASSUME OutboxInv, NEW u \in Uploads, NEW w \in Upload0, NEW k \in Journals, k \in {<<u, 1>>, <<u, 2>>},
         NEW o \in Op \cup {Null}, NEW h \in Hand,
         up[u].at # "ended", up' = [up EXCEPT ![u] = w], ops' = [ops EXCEPT ![k] = o], hand' = [hand EXCEPT ![u] = h],
         UNCHANGED <<row, visible, queue, flight, removal, overlooked, faults>>,
         up[u].at \notin {"idle", "read"} => w.at \notin {"idle", "read"},
         Landed(u) => Landed(u)', Settled(u) => Settled(u)', w.at = "committed" => up[u].at = "committed",
         OpInv(k)',
         o # Null => (ops[k] # Null /\ o.ids = ops[k].ids) \/ (ops[k] = Null /\ \A a \in Actors : hand[a].op # k),
         o = Null => ops[k] = Null,
         h = NoHand \/ (h.op = k /\ HandInv(u)'),
         \A v \in Uploads \ {u} : Keeps(k, v) /\ Drops(u, k, v)' => v \notin flight /\ v \notin Served,
         CareInv(u)' \/ (Keeps(k, u) /\ Drops(u, k, u)' => u \notin flight /\ u \notin Served),
         JournalInv(u)', UploadInv(u)'
  PROVE  OutboxInv'
  <1>1. hand[u] = NoHand /\ u \in Actors
    BY UploadFacts
  <1>2. /\ up'[u] = w /\ \A v \in Uploads \ {u} : up'[v] = up[v]
        /\ ops'[k] = o /\ \A j \in Journals \ {k} : ops'[j] = ops[j]
        /\ hand'[u] = h /\ \A a \in Actors \ {u} : hand'[a] = hand[a]
    BY <1>1, Parts
  <1>3. TypeOK'
    <2>1. /\ row \in Row /\ ops' \in [Journals -> Op \cup {Null}] /\ visible \subseteq Uploads
          /\ queue \in Seq(Mutation) /\ flight \subseteq Uploads /\ up' \in [Uploads -> Upload0]
          /\ removal \in [Removals -> Removal0] /\ hand' \in [Actors -> Hand]
          /\ overlooked \subseteq Uploads /\ faults \in 0..MaxFaults
      BY Parts
    <2> QED
      BY <2>1 DEF TypeOK, Upload0, Removal0
  <1>4. Served' = Served
    BY ServedSame
  <1>5. Dead(u) => Dead(u)'
    BY <1>4 DEF Dead
  <1>6. Onward /\ Final
    <2>1. \A v \in Uploads \ {u} : (Landed(v)' <=> Landed(v)) /\ (Settled(v)' <=> Settled(v)) /\ (Dead(v)' <=> Dead(v))
      BY <1>2, <1>4 DEF Landed, Settled, Dead
    <2> QED
      BY <1>2, <1>5, <2>1 DEF Onward, Final
  <1>7. \A j \in Journals : OpInv(j)'
    <2> SUFFICES ASSUME NEW j \in Journals PROVE OpInv(j)'
      OBVIOUS
    <2>1. CASE j = k
      BY <2>1
    <2>2. CASE j # k
      BY <1>2, <1>6, <2>2, Parts, OpKept
    <2> QED
      BY <2>1, <2>2
  <1>8. \A j \in Journals : ops'[j] # Null => \/ ops[j] # Null /\ ops'[j].ids = ops[j].ids
                                             \/ \A a \in Actors : hand[a].op # j
    <2> SUFFICES ASSUME NEW j \in Journals, ops'[j] # Null
                 PROVE  (ops[j] # Null /\ ops'[j].ids = ops[j].ids) \/ \A a \in Actors : hand[a].op # j
      OBVIOUS
    <2>1. CASE j = k
      BY <1>2, <2>1
    <2>2. CASE j # k
      BY <1>2, <2>2
    <2> QED
      BY <2>1, <2>2
  <1>9. ASSUME NEW j \in Journals, NEW v \in Uploads, Keeps(j, v), j = k => ~Drops(u, k, v)'
        PROVE  Keeps(j, v)'
    <2>1. ops'[j] # Null /\ v \in ops'[j].ids
      <3>1. ops[j] # Null /\ v \in ops[j].ids
        BY <1>9 DEF Keeps
      <3>2. CASE j = k
        BY <1>2, <3>1, <3>2
      <3>3. CASE j # k
        BY <1>2, <3>1, <3>3
      <3> QED
        BY <3>2, <3>3
    <2>2. ~Drops(u, j, v)'
      <3>1. CASE j = k
        BY <1>9, <3>1
      <3>2. CASE j # k
        BY <1>2, <3>2, NoHandFacts DEF Drops
      <3> QED
        BY <3>1, <3>2
    <2>3. \A b \in Actors \ {u} : ~Drops(b, j, v)'
      BY <1>2, <1>9 DEF Keeps, Drops
    <2> QED
      BY <2>1, <2>2, <2>3 DEF Keeps
  <1>10. \A v \in Uploads \ {u} : \A j \in Journals :
            Keeps(j, v) => Keeps(j, v)' \/ (v \notin flight' /\ v \notin Served')
    BY <1>4, <1>9
  <1>11. CareInv(u)' \/ /\ u \notin flight /\ u \notin Served => u \notin flight' /\ u \notin Served'
                        /\ \A j \in Journals : Keeps(j, u) => Keeps(j, u)' \/ (u \notin flight' /\ u \notin Served')
    BY <1>4, <1>9
  <1>12. hand'[u] = hand[u] \/ (HandInv(u)' /\ hand[u] = NoHand /\ hand'[u].op \in {<<u, 1>>, <<u, 2>>})
    BY <1>1, <1>2
  <1>13. \A j \in Journals \ {<<u, 1>>, <<u, 2>>} : ops'[j] = ops[j]
    BY <1>2
  <1> QED
    BY <1>2, <1>3, <1>4, <1>5, <1>7, <1>8, <1>10, <1>11, <1>12, <1>13, QuietStepInv

LEMMA JournalInvStep ==
  ASSUME OutboxInv, NEW u \in Uploads, Journal(u)
  PROVE  OutboxInv'
  <1>0. PICK w, k, o : /\ w = [up[u] EXCEPT !.at = "journalled"] /\ k = <<u, 1>>
                       /\ o = NewOp(up[u].prior \cup {u}, 0)
    OBVIOUS
  <1>1. /\ up[u].at = "read" /\ up' = [up EXCEPT ![u] = w] /\ ops' = [ops EXCEPT ![k] = o]
        /\ UNCHANGED <<row, visible, queue, flight, removal, hand, overlooked, faults>>
    BY <1>0 DEF Journal, Moves, IndexUnchanged, RestUnchanged
  <1>2. /\ w \in Upload0 /\ w.at = "journalled" /\ w.seen = up[u].seen /\ w.prior = up[u].prior
        /\ w.stale = up[u].stale /\ up'[u] = w /\ \A v \in Uploads \ {u} : up'[v] = up[v]
    BY <1>0, <1>1, UploadFacts DEF Upload0
  <1>3. /\ o \in Op /\ o # Null /\ o.ids = w.prior \cup {u} /\ o.ready = 0 /\ o.receipt = Null
        /\ k \in Journals /\ ops'[k] = o
    <2>0. up[u].prior \subseteq Uploads
      BY UploadFacts
    <2>1. PICK ids : ids = up[u].prior \cup {u} /\ ids \in SUBSET Uploads
      BY <2>0
    <2>2. o = [ids |-> ids, ready |-> 0, receipt |-> Null]
      BY <1>0, <2>1 DEF NewOp
    <2>3. o \in Op
      BY <2>1, <2>2 DEF Op, Receipt
    <2>4. o.ids = ids /\ o.ready = 0 /\ o.receipt = Null
      BY <2>2
    <2>5. k \in Journals /\ ops'[k] = o
      BY <1>0, <1>1, UploadFacts
    <2> QED
      BY <1>2, <2>1, <2>3, <2>4, <2>5, Names
  <1>4. /\ hand[u] = NoHand /\ hand' = [hand EXCEPT ![u] = NoHand] /\ NoHand \in Hand
    BY <1>1, UploadFacts, NoHandFacts
  <1>5. ops[k] = Null /\ \A a \in Actors : hand[a].op # k
    BY <1>0, <1>1, UploadFacts DEF JournalInv, NoneOn
  <1>6. ~Landed(u)
    BY <1>1 DEF Landed
  <1>7. \A v \in Uploads : (Landed(v) => Landed(v)') /\ (Settled(v) => Settled(v)')
    BY <1>1, <1>2, <1>6 DEF Landed, Settled
  <1>8. UploadInv(u)'
    BY <1>1, <1>2, <1>7, UploadFacts DEF UploadInv
  <1>9. OpInv(k)'
    <2>1. \A v \in up[u].prior : Settled(v)' /\ v \in Uploads
      BY <1>7, UploadFacts DEF UploadInv
    <2>2. \A v \in o.ids : up'[v].at \notin {"idle", "read"} /\ (k # <<v, 1>> => Settled(v)')
      BY <1>0, <1>2, <1>3, <2>1 DEF Settled, Landed
    <2> QED
      BY <1>3, <2>2 DEF OpInv
  <1>10. JournalInv(u)'
    <2>1. Covered(k, w.prior \cup {u})'
      BY <1>3 DEF Covered
    <2>2. u \in Unfenced => NoneOn(<<u, 2>>)'
      <3>1. <<u, 2>> # k
        BY <1>0
      <3> QED
        BY <1>1, <3>1, UploadFacts DEF JournalInv, NoneOn
    <2>3. \A a \in Actors : hand'[a].op # k
      BY <1>1, <1>5
    <2> QED
      BY <1>0, <1>2, <1>3, <2>1, <2>2, <2>3 DEF JournalInv
  <1>11. \A v \in Uploads : ~Keeps(k, v)
    BY <1>5 DEF Keeps
  <1>12. /\ k \in {<<u, 1>>, <<u, 2>>} /\ up[u].at # "ended"
         /\ UNCHANGED <<row, visible, queue, flight, removal, overlooked, faults>>
         /\ up[u].at \notin {"idle", "read"} => w.at \notin {"idle", "read"}
         /\ w.at = "committed" => up[u].at = "committed"
         /\ o # Null => (ops[k] # Null /\ o.ids = ops[k].ids) \/ (ops[k] = Null /\ \A a \in Actors : hand[a].op # k)
         /\ o = Null => ops[k] = Null
    BY <1>0, <1>1, <1>2, <1>3, <1>5
  <1> QED
    BY <1>1, <1>2, <1>3, <1>4, <1>7, <1>8, <1>9, <1>10, <1>11, <1>12, JournalStepInv

(* An acknowledged request: the journal may be acted on, unless it is claimed. *)
LEMMA MarkReadyInv ==
  ASSUME OutboxInv, NEW u \in Uploads, MarkReady(u)
  PROVE  OutboxInv'
  <1>0. PICK w, k, o : /\ w = [up[u] EXCEPT !.at = "ready"] /\ k = <<u, 1>>
                       /\ o = IF ops[k].ready = 0 THEN [ops[k] EXCEPT !.ready = 1] ELSE ops[k]
    OBVIOUS
  <1>1. /\ up[u].at = "sent" /\ u \notin flight /\ up' = [up EXCEPT ![u] = w] /\ ops' = MarkedReady(k)
        /\ UNCHANGED <<row, visible, queue, flight, removal, hand, overlooked, faults>>
    BY <1>0 DEF MarkReady, Moves, IndexUnchanged, RestUnchanged
  <1>2. /\ w \in Upload0 /\ w.at = "ready" /\ w.seen = up[u].seen /\ w.prior = up[u].prior
        /\ w.stale = up[u].stale /\ up'[u] = w /\ \A v \in Uploads \ {u} : up'[v] = up[v]
    BY <1>0, <1>1, UploadFacts DEF Upload0
  <1>3. /\ k \in Journals /\ ops[k] \in Op /\ ops[k].ready \in {0, 2} /\ ops[k].ids = w.prior \cup {u}
        /\ ops[k].receipt = Null
        /\ \A a \in Actors : hand[a].op = k => hand[a].at = "claim" /\ hand[a].ready = 0
    <2>1. /\ k \in Journals /\ ops[k] \in Op /\ ops[k].ready \in {0, 2} /\ ops[k].ids = w.prior \cup {u}
          /\ \A a \in Actors : hand[a].op = k => hand[a].at = "claim" /\ hand[a].ready = 0
      <3>1. k \in Journals /\ ops[k] \in Op \cup {Null} /\ JournalInv(u)
        BY <1>0, UploadFacts
      <3>2. /\ ops[k] # Null /\ ops[k].ready \in {0, 2} /\ ops[k].ids = up[u].prior \cup {u}
            /\ \A a \in Actors : hand[a].op = k => hand[a].at = "claim" /\ hand[a].ready = 0
        BY <1>0, <1>1, <3>1 DEF JournalInv
      <3> QED
        BY <1>2, <3>1, <3>2
    <2>2. OpInv(k) /\ ops[k] # Null
      BY <2>1, Parts, Names
    <2>3. ops[k].receipt = Null
      BY <2>1, <2>2 DEF OpInv
    <2> QED
      BY <2>1, <2>3
  <1>4. ops' = [ops EXCEPT ![k] = o]
    BY <1>0, <1>1, <1>3, UploadFacts, Names DEF MarkedReady, Exists
  <1>5. /\ o \in Op /\ o # Null /\ o.ids = w.prior \cup {u} /\ o.ids = ops[k].ids /\ o.ready \in {1, 2}
        /\ o.receipt = Null /\ ops'[k] = o /\ (o.ready = 1 => ops[k].ready = 0)
    <2>1. o \in Op /\ o.ids = ops[k].ids /\ o.receipt = ops[k].receipt /\ o.ready \in {1, 2}
          /\ (o.ready = 1 => ops[k].ready = 0)
      BY <1>0, <1>3 DEF Op
    <2> QED
      BY <1>3, <1>4, <2>1, UploadFacts, Names
  <1>6. /\ hand[u] = NoHand /\ hand' = [hand EXCEPT ![u] = NoHand] /\ NoHand \in Hand
    BY <1>1, UploadFacts, NoHandFacts
  <1>7. ~Landed(u) /\ Landed(u)'
    BY <1>1, <1>2 DEF Landed
  <1>8. \A v \in Uploads : (Landed(v) => Landed(v)') /\ (Settled(v) => Settled(v)')
    BY <1>1, <1>2, <1>7 DEF Landed, Settled
  <1>9. UploadInv(u)'
    BY <1>1, <1>2, <1>8, UploadFacts DEF UploadInv
  <1>10. OpInv(k)'
    <2>1. \A v \in w.prior : Settled(v)' /\ v \in Uploads
      BY <1>2, <1>8, UploadFacts DEF UploadInv
    <2>2. \A v \in o.ids : up'[v].at \notin {"idle", "read"} /\ (k # <<v, 1>> => Settled(v)') /\ Landed(v)'
      BY <1>0, <1>5, <1>7, <2>1 DEF Settled, Landed
    <2> QED
      BY <1>5, <2>2 DEF OpInv
  <1>11. JournalInv(u)'
    <2>1. Covered(k, w.prior \cup {u})'
      BY <1>5 DEF Covered
    <2>2. u \in Unfenced => NoneOn(<<u, 2>>)'
      <3>1. <<u, 2>> # k
        BY <1>0
      <3> QED
        BY <1>1, <1>4, <3>1, UploadFacts DEF JournalInv, NoneOn
    <2>3. \A a \in Actors : hand'[a].op = k => hand'[a].at = "claim"
      BY <1>1, <1>3
    <2>4. o.ready = 1 /\ u \notin Unfenced => u \in Served'
      <3>1. ops[k].ready = 0 /\ u \notin Unfenced => u \in Served
        BY <1>0, <1>1, <1>3, UploadFacts, Names DEF JournalInv
      <3> QED
        BY <1>1, <1>5, <3>1, ServedSame
    <2> QED
      BY <1>0, <1>2, <1>5, <2>1, <2>2, <2>3, <2>4 DEF JournalInv
  <1>12. \A v \in Uploads : Keeps(k, v) /\ Drops(u, k, v)' => v \notin flight /\ v \notin Served
    <2>1. \A v \in Uploads : ~Drops(u, k, v)'
      BY <1>1, <1>3, <1>6, NoHandFacts DEF Drops
    <2> QED
      BY <2>1
  <1>13. /\ k \in {<<u, 1>>, <<u, 2>>} /\ up[u].at # "ended"
         /\ UNCHANGED <<row, visible, queue, flight, removal, overlooked, faults>>
         /\ up[u].at \notin {"idle", "read"} => w.at \notin {"idle", "read"}
         /\ w.at = "committed" => up[u].at = "committed"
         /\ o # Null => (ops[k] # Null /\ o.ids = ops[k].ids) \/ (ops[k] = Null /\ \A a \in Actors : hand[a].op # k)
         /\ o = Null => ops[k] = Null
    BY <1>0, <1>1, <1>2, <1>3, <1>5, Names
  <1> QED
    <2>1. /\ w \in Upload0 /\ k \in Journals /\ o \in Op \cup {Null} /\ NoHand \in Hand
          /\ up' = [up EXCEPT ![u] = w] /\ ops' = [ops EXCEPT ![k] = o] /\ hand' = [hand EXCEPT ![u] = NoHand]
          /\ Landed(u) => Landed(u)'
          /\ Settled(u) => Settled(u)'
      BY <1>1, <1>2, <1>3, <1>4, <1>5, <1>6, <1>8
    <2> QED
      BY <2>1, <1>9, <1>10, <1>11, <1>12, <1>13, JournalStepInv

(* An upload that ends: it has landed, and it is not committed any more.       *)
LEMMA EndingFacts ==
  ASSUME OutboxInv, NEW u \in Uploads, up[u].at \in {"failing", "committed", "retiring", "second"},
         up' = [up EXCEPT ![u] = Upload("ended")], flight' = flight
  PROVE  /\ Upload("ended") \in Upload0 /\ up'[u] = Upload("ended") /\ up'[u].at = "ended"
         /\ Settled(u) /\ \A v \in Uploads : (Landed(v)' <=> Landed(v)) /\ (Settled(v)' <=> Settled(v))
         /\ up'[u].seen.listed = {} /\ up'[u].prior = {} /\ up'[u].stale = {}
         /\ JournalInv(u)' /\ UploadInv(u)'
  <1>1. Upload("ended") \in Upload0 /\ up'[u] = Upload("ended") /\ \A v \in Uploads \ {u} : up'[v] = up[v]
    BY EndedFacts, UploadFacts
  <1>2. up'[u].at = "ended" /\ up'[u].seen.listed = {} /\ up'[u].prior = {} /\ up'[u].stale = {}
    BY <1>1, EndedFacts
  <1>3. u \notin flight
    BY UploadFacts
  <1>4. Settled(u) /\ Settled(u)'
    BY <1>2, <1>3 DEF Settled, Landed
  <1>5. \A v \in Uploads : (Landed(v)' <=> Landed(v)) /\ (Settled(v)' <=> Settled(v))
    BY <1>1, <1>4 DEF Settled, Landed
  <1>6. JournalInv(u)'
    BY <1>2 DEF JournalInv
  <1>7. UploadInv(u)'
    BY <1>2 DEF UploadInv
  <1> QED
    BY <1>1, <1>2, <1>4, <1>5, <1>6, <1>7

LEMMA JournalRetiredInv ==
  ASSUME OutboxInv, NEW u \in Uploads, JournalRetired(u)
  PROVE  OutboxInv'
  <1>0. PICK doomed : doomed = up[u].stale \cap visible
    OBVIOUS
  <1>1. /\ up[u].at = "retiring" /\ u \in Unfenced
        /\ UNCHANGED <<row, visible, queue, flight, removal, hand, overlooked, faults>>
    BY UploadFacts DEF JournalRetired, Ends, IndexUnchanged, RestUnchanged, UploadInv
  <1>2. CASE doomed = {}
    <2>1. up' = [up EXCEPT ![u] = Upload("ended")] /\ ops' = ops
      BY <1>0, <1>2 DEF JournalRetired, Ends
    <2>2. Upload("ended").at = "ended"
      BY EndedFacts
    <2> QED
      BY <1>1, <2>1, <2>2, EndingFacts, OwnStepInv, Parts
  <1>3. CASE doomed # {}
    <2>1. PICK w, k, o : /\ w = [up[u] EXCEPT !.at = "second", !.stale = doomed] /\ k = <<u, 2>>
                         /\ o = [ids |-> doomed, ready |-> 0, receipt |-> Null]
      OBVIOUS
    <2>2. /\ up' = [up EXCEPT ![u].at = "second", ![u].stale = doomed]
          /\ ops' = [ops EXCEPT ![k] = o]
      BY <1>0, <1>3, <2>1 DEF JournalRetired, NewOp
    <2>3. up' = [up EXCEPT ![u] = w]
      BY <2>1, <2>2, UploadFacts
    <2>4. up[u].stale \subseteq Uploads /\ up[u] \in Upload0
      BY UploadFacts
    <2>5. doomed \in SUBSET Uploads /\ doomed \subseteq up[u].stale
      BY <1>0, <2>4
    <2>6. /\ w \in Upload0 /\ w.at = "second" /\ w.seen = up[u].seen /\ w.prior = up[u].prior /\ w.stale = doomed
      BY <2>1, <2>4, <2>5 DEF Upload0
    <2>7. up'[u] = w /\ \A v \in Uploads \ {u} : up'[v] = up[v]
      BY <2>3, UploadFacts
    <2>8. o \in Op /\ o # Null /\ o.ids = doomed /\ o.ready = 0 /\ o.receipt = Null
      <3>1. o \in Op
        BY <2>1, <2>5 DEF Op, Receipt
      <3> QED
        BY <2>1, <3>1, Names
    <2>9. k \in Journals /\ ops'[k] = o
      BY <1>1, <2>1, <2>2, UploadFacts
    <2>10. ops[k] = Null /\ \A a \in Actors : hand[a].op # k
      BY <1>1, <2>1, UploadFacts DEF JournalInv, NoneOn
    <2>11. Landed(u) /\ Landed(u)' /\ Settled(u)'
      BY <1>1, <2>6, <2>7, UploadFacts DEF Landed, Settled
    <2>12. \A v \in Uploads : (Landed(v) => Landed(v)') /\ (Settled(v) => Settled(v)')
      BY <1>1, <2>7, <2>11 DEF Landed, Settled
    <2>13. UploadInv(u)'
      BY <1>1, <2>5, <2>6, <2>7, <2>12, UploadFacts DEF UploadInv
    <2>14. OpInv(k)'
      <3>1. \A v \in doomed : Settled(v)'
        BY <2>5, <2>12, UploadFacts DEF UploadInv
      <3>2. \A v \in o.ids : up'[v].at \notin {"idle", "read"} /\ Settled(v)'
        BY <2>8, <3>1 DEF Settled, Landed
      <3> QED
        BY <2>8, <2>9, <3>2 DEF OpInv
    <2>15. JournalInv(u)'
      <3>1. Covered(k, doomed)'
        BY <2>8, <2>9 DEF Covered
      <3>2. Covered(<<u, 1>>, w.prior \cup {u})'
        <4>1. Covered(<<u, 1>>, w.prior \cup {u})
          BY <1>1, <2>6, UploadFacts DEF JournalInv
        <4>2. ops'[<<u, 1>>] = ops[<<u, 1>>]
          <5>1. <<u, 1>> # k
            BY <2>1
          <5> QED
            BY <2>2, <5>1, UploadFacts
        <4>3. Final
          <5>1. Served' = Served
            BY <1>1, ServedSame
          <5> QED
            BY <2>12, <5>1 DEF Final, Dead
        <4> QED
          BY <4>1, <4>2, <4>3, UploadFacts, CoveredKept
      <3> QED
        BY <2>1, <2>6, <2>7, <3>1, <3>2 DEF JournalInv
    <2>16. \A v \in Uploads : ~Keeps(k, v)
      BY <2>10 DEF Keeps
    <2>17. /\ k \in {<<u, 1>>, <<u, 2>>} /\ up[u].at # "ended" /\ NoHand \in Hand
           /\ hand' = [hand EXCEPT ![u] = NoHand] /\ o \in Op \cup {Null}
           /\ UNCHANGED <<row, visible, queue, flight, removal, overlooked, faults>>
           /\ up[u].at \notin {"idle", "read"} => w.at \notin {"idle", "read"}
           /\ w.at = "committed" => up[u].at = "committed"
           /\ o # Null => (ops[k] # Null /\ o.ids = ops[k].ids) \/ (ops[k] = Null /\ \A a \in Actors : hand[a].op # k)
           /\ o = Null => ops[k] = Null
      BY <1>1, <2>1, <2>6, <2>8, <2>10, UploadFacts, NoHandFacts
    <2> QED
      BY <2>2, <2>3, <2>6, <2>9, <2>11, <2>13, <2>14, <2>15, <2>16, <2>17, JournalStepInv
  <1> QED
    BY <1>2, <1>3

(* It settles a journal whose vectors it knows.                                *)
LEMMA SettleInv ==
  ASSUME OutboxInv, NEW u \in Uploads, NEW k \in Journals, k \in {<<u, 1>>, <<u, 2>>}, NEW S \in SUBSET Uploads,
         up[u].at \in {"failing", "committed", "second"}, up' = [up EXCEPT ![u] = Upload("ended")],
         ops' = ops \/ ops' = MarkedReady(k),
         hand' = [hand EXCEPT ![u] = [NoHand EXCEPT !.at = "judge", !.kind = "settle", !.op = k, !.ids = S]],
         UNCHANGED <<row, visible, queue, flight, removal, overlooked, faults>>,
         Covered(k, S), \A v \in S : Settled(v)
  PROVE  OutboxInv'
  <1>1. PICK h, o : /\ h = [NoHand EXCEPT !.at = "judge", !.kind = "settle", !.op = k, !.ids = S]
                    /\ o = IF ops' # ops THEN [ops[k] EXCEPT !.ready = 1] ELSE ops[k]
    OBVIOUS
  <1>2. /\ h \in Hand /\ h.at = "judge" /\ h.kind = "settle" /\ h.op = k /\ h.ids = S
    <2>1. h = [at |-> "judge", kind |-> "settle", op |-> k, ids |-> S, ready |-> 0, receipt |-> Null]
      BY <1>1 DEF NoHand
    <2> QED
      BY <2>1 DEF Hand, Receipt
  <1>3. hand[u] = NoHand /\ hand'[u] = h /\ hand' = [hand EXCEPT ![u] = h]
    BY <1>1, UploadFacts
  <1>4. /\ ops[k] \in Op \cup {Null} /\ OpInv(k)
        /\ ops' # ops => ops' = [ops EXCEPT ![k].ready = 1] /\ ops[k] # Null /\ ops[k].ready = 0
    BY Parts DEF MarkedReady, Exists
  <1>5. /\ ops' = [ops EXCEPT ![k] = o] /\ ops'[k] = o
    BY <1>1, <1>4, UploadFacts
  <1>6. /\ o \in Op \cup {Null} /\ (o = Null <=> ops[k] = Null)
        /\ o # Null => /\ o.ids = ops[k].ids /\ o.receipt = ops[k].receipt
                       /\ o.ready = ops[k].ready \/ (o.ready = 1 /\ ops[k].ready = 0)
    <2>1. CASE ops' = ops
      BY <1>1, <1>4, <2>1
    <2>2. CASE ops' # ops
      <3>1. ops[k] \in Op /\ o = [ops[k] EXCEPT !.ready = 1]
        BY <1>1, <1>4, <2>2
      <3>2. o \in Op /\ o.ids = ops[k].ids /\ o.receipt = ops[k].receipt /\ o.ready = 1
        BY <3>1 DEF Op
      <3> QED
        BY <1>4, <2>2, <3>2, Names
    <2> QED
      BY <2>1, <2>2
  <1>7. /\ Upload("ended") \in Upload0 /\ up'[u].at = "ended"
        /\ Settled(u) /\ \A v \in Uploads : (Landed(v)' <=> Landed(v)) /\ (Settled(v)' <=> Settled(v))
        /\ JournalInv(u)' /\ UploadInv(u)'
    BY EndingFacts
  <1>8. Served' = Served
    BY ServedSame
  <1>9. OpInv(k)'
    <2> SUFFICES ASSUME o # Null PROVE OpInv(k)'
      BY <1>5 DEF OpInv
    <2>1. ops[k] # Null /\ ops[k] \in Op /\ ops[k].ids \subseteq Uploads
      BY <1>4, <1>6 DEF Op
    <2>2. \A v \in ops[k].ids : Landed(v)
      BY <2>1 DEF Covered, Dead, Settled
    <2>3. \A v \in o.ids : up'[v].at \notin {"idle", "read"} /\ Landed(v)' /\ (k # <<v, 1>> => Settled(v)')
      <3>1. \A v \in o.ids : v \in Uploads /\ Landed(v)' /\ (k # <<v, 1>> => Settled(v)')
        BY <1>4, <1>6, <1>7, <2>1, <2>2 DEF OpInv
      <3> QED
        BY <3>1 DEF Landed
    <2>4. IF o.ready = 3 THEN o.receipt # Null => o.ids \cap Served' = {} ELSE o.receipt = Null
      BY <1>4, <1>6, <1>8, <2>1 DEF OpInv
    <2> QED
      BY <1>5, <2>3, <2>4 DEF OpInv
  <1>10. HandInv(u)'
    <2>1. ~AwaitsIndex(u)'
      BY <1>2, <1>3 DEF AwaitsIndex
    <2>2. Covered(k, S)'
      <3>1. Final
        BY <1>7, <1>8 DEF Final, Dead
      <3> QED
        BY <1>4, <1>5, <1>6, <3>1, CoveredKept
    <2>3. \A v \in S : Settled(v)' /\ Landed(v)'
      BY <1>7 DEF Settled
    <2> QED
      BY <1>2, <1>3, <2>1, <2>2, <2>3 DEF HandInv
  <1>11. \A v \in Uploads : Keeps(k, v) /\ Drops(u, k, v)' => v \notin flight /\ v \notin Served
    <2> SUFFICES ASSUME NEW v \in Uploads, Keeps(k, v), Drops(u, k, v)' PROVE v \notin flight /\ v \notin Served
      OBVIOUS
    <2>1. v \notin S
      BY <1>2, <1>3 DEF Drops
    <2>2. Dead(v)
      BY <2>1 DEF Keeps, Covered
    <2> QED
      BY <2>2 DEF Dead, Landed
  <1>12. /\ Upload("ended").at = "ended" /\ up[u].at # "ended"
         /\ o # Null => (ops[k] # Null /\ o.ids = ops[k].ids) \/ (ops[k] = Null /\ \A a \in Actors : hand[a].op # k)
         /\ o = Null => ops[k] = Null
         /\ Landed(u) => Landed(u)'
         /\ Settled(u) => Settled(u)'
    BY <1>6, <1>7, EndedFacts
  <1> QED
    BY <1>2, <1>3, <1>5, <1>6, <1>7, <1>9, <1>10, <1>11, <1>12, JournalStepInv

LEMMA SettleUploadInv ==
  ASSUME OutboxInv, NEW u \in Uploads,
         SettleFailed(u) \/ SettleRetired(u) \/ (SettleCommitted(u) /\ up[u].prior \ {u} # {})
  PROVE  OutboxInv'
  <1>1. PICK k, S : \/ k = <<u, 1>> /\ S = up[u].prior \cup {u} /\ up[u].at \in {"failing", "committed"}
                       /\ (SettleFailed(u) \/ (SettleCommitted(u) /\ up[u].prior \ {u} # {}))
                    \/ k = <<u, 2>> /\ S = up[u].stale /\ up[u].at = "second" /\ SettleRetired(u)
    BY DEF SettleFailed, SettleRetired, SettleCommitted, Ends
  <1>2. /\ up' = [up EXCEPT ![u] = Upload("ended")]
        /\ ops' = ops \/ ops' = MarkedReady(k)
        /\ hand' = [hand EXCEPT ![u] = [NoHand EXCEPT !.at = "judge", !.kind = "settle", !.op = k, !.ids = S]]
        /\ UNCHANGED <<row, visible, queue, flight, removal, overlooked, faults>>
    BY <1>1 DEF SettleFailed, SettleRetired, SettleCommitted, Ends, Begin, IndexUnchanged, RestUnchanged
  <1>3. /\ \A v \in up[u].prior \cup up[u].stale : Settled(v)
        /\ up[u].prior \subseteq Uploads /\ up[u].stale \subseteq Uploads /\ (up[u].at = "second" => u \in Unfenced)
    BY UploadFacts DEF UploadInv
  <1>4. Settled(u)
    BY <1>1, UploadFacts DEF Settled, Landed
  <1>5. S \in SUBSET Uploads /\ \A v \in S : Settled(v)
    BY <1>1, <1>3, <1>4
  <1>6. k \in Journals /\ k \in {<<u, 1>>, <<u, 2>>} /\ up[u].at \in {"failing", "committed", "second"}
    BY <1>1, <1>3, UploadFacts
  <1>7. Covered(k, S)
    BY <1>1, UploadFacts DEF JournalInv
  <1> QED
    BY <1>2, <1>5, <1>6, <1>7, SettleInv

(* Or, with nothing replaced, it deletes the journal: the row has its vector.  *)
LEMMA CloseUploadInv ==
  ASSUME OutboxInv, NEW u \in Uploads, SettleCommitted(u), up[u].prior \ {u} = {}
  PROVE  OutboxInv'
  <1>1. PICK k, o, h : k = <<u, 1>> /\ o = ops[k] /\ h = [NoHand EXCEPT !.at = "retire", !.op = k]
    OBVIOUS
  <1>2. /\ up[u].at = "committed" /\ u \notin Unfenced /\ up' = [up EXCEPT ![u] = Upload("ended")] /\ ops' = ops
        /\ hand' = [hand EXCEPT ![u].at = "retire", ![u].op = k]
        /\ UNCHANGED <<row, visible, queue, flight, removal, overlooked, faults>>
    BY <1>1 DEF SettleCommitted, Ends, IndexUnchanged, RestUnchanged
  <1>3. k \in Journals /\ h \in Hand /\ h.at = "retire" /\ h.op = k /\ h.kind = "settle" /\ h.ids = {}
    <2>1. h = [at |-> "retire", kind |-> "settle", op |-> k, ids |-> {}, ready |-> 0, receipt |-> Null]
      BY <1>1 DEF NoHand
    <2>2. k \in Journals
      BY <1>1, UploadFacts
    <2> QED
      BY <2>1, <2>2 DEF Hand, Receipt
  <1>4. /\ hand[u] = NoHand /\ hand' = [hand EXCEPT ![u] = h] /\ hand'[u] = h
        /\ \A a \in Actors \ {u} : hand'[a] = hand[a]
    BY <1>1, <1>2, UploadFacts
  <1>5. ops' = [ops EXCEPT ![k] = o] /\ ops[k] \in Op \cup {Null} /\ o \in Op \cup {Null}
    BY <1>1, <1>2, <1>3, UploadFacts
  <1>6. /\ Upload("ended") \in Upload0 /\ up'[u].at = "ended"
        /\ Settled(u) /\ \A v \in Uploads : (Landed(v)' <=> Landed(v)) /\ (Settled(v)' <=> Settled(v))
        /\ JournalInv(u)' /\ UploadInv(u)'
    BY <1>2, EndingFacts
  <1>7. Served' = Served
    BY <1>2, ServedSame
  <1>8. OpInv(k)'
    <2>1. Onward /\ Final
      <3>1. \A v \in Uploads \ {u} : up'[v] = up[v]
        BY <1>2, UploadFacts
      <3> QED
        BY <1>6, <1>7, <3>1 DEF Onward, Final, Dead
    <2> QED
      BY <1>2, <1>3, <1>5, <2>1, Parts, OpKept
  <1>9. HandInv(u)'
    BY <1>3, <1>4 DEF HandInv
  <1>10. \A v \in Uploads \ {u} : Keeps(k, v) => v \notin flight /\ v \notin Served
    <2>1. Covered(k, up[u].prior \cup {u})
      BY <1>1, <1>2, UploadFacts DEF JournalInv
    <2> QED
      BY <2>1 DEF Keeps, Covered, Dead, Landed
  <1>11. CareInv(u)'
    <2>1. Cared(u, Journals \ {k})
      BY <1>1, <1>2, UploadFacts DEF CareInv
    <2>2. ASSUME NEW j \in Journals \ {k}, Keeps(j, u) PROVE Keeps(j, u)'
      BY <1>2, <1>3, <1>4, <2>2 DEF Keeps, Drops
    <2>3. Cared(u, Journals)'
      BY <1>2, <1>7, <2>1, <2>2 DEF Cared
    <2> QED
      BY <1>6, <2>3 DEF CareInv
  <1>12. /\ Upload("ended").at = "ended" /\ up[u].at # "ended" /\ k \in {<<u, 1>>, <<u, 2>>}
         /\ Landed(u) => Landed(u)'
         /\ Settled(u) => Settled(u)'
         /\ o = Null => ops[k] = Null
         /\ o # Null => (ops[k] # Null /\ o.ids = ops[k].ids) \/ (ops[k] = Null /\ \A a \in Actors : hand[a].op # k)
    BY <1>1, <1>2, <1>6, EndedFacts
  <1> QED
    <2>1. /\ k \in Journals /\ Upload("ended") \in Upload0 /\ o \in Op \cup {Null} /\ h \in Hand
          /\ up' = [up EXCEPT ![u] = Upload("ended")] /\ ops' = [ops EXCEPT ![k] = o] /\ hand' = [hand EXCEPT ![u] = h]
          /\ UNCHANGED <<row, visible, queue, flight, removal, overlooked, faults>>
          /\ h = NoHand \/ (h.op = k /\ HandInv(u)')
          /\ \A v \in Uploads \ {u} : Keeps(k, v) /\ Drops(u, k, v)' => v \notin flight /\ v \notin Served
          /\ JournalInv(u)' /\ UploadInv(u)'
      BY <1>2, <1>3, <1>4, <1>5, <1>6, <1>9, <1>10
    <2>2. Upload("ended").at = "committed" => up[u].at = "committed"
      BY <1>12
    <2>3. up[u].at \notin {"idle", "read"} => Upload("ended").at \notin {"idle", "read"}
      BY <1>12
    <2> QED
      BY <2>1, <2>2, <2>3, <1>8, <1>11, <1>12, JournalStepInv

(* A request that is answered, fails or is lost.                               *)
LEMMA UpsertServed ==
  ASSUME OutboxInv, NEW u \in Uploads, visible' = visible,
         queue' = queue \/ (u \in flight /\ Accept("upsert", {u}))
  PROVE  /\ queue' \in Seq(Mutation)
         /\ Served' = Served \/ (u \in flight /\ Served' = Served \cup {u})
         /\ queue' # queue => Served' = Served \cup {u}
         /\ Accept("upsert", {u}) => Served' = Served \cup {u}
  <1>1. Accept("upsert", {u}) => Served' = Served \cup {u}
    <2>1. PICK ids, kind : ids = {u} /\ ids \in SUBSET Uploads /\ kind = "upsert"
      OBVIOUS
    <2>2. Accept(kind, ids) => Served' = Served \cup ids
      BY <2>1, Parts, ServedAccept
    <2> QED
      BY <2>1, <2>2
  <1>2. queue' = queue => Served' = Served
    BY ServedSame
  <1>3. queue' \in Seq(Mutation)
    <2>1. [kind |-> "upsert", ids |-> {u}] \in Mutation
      BY DEF Mutation
    <2> QED
      BY <2>1, Parts DEF Accept
  <1> QED
    BY <1>1, <1>2, <1>3

LEMMA RequestStepInv ==
  ASSUME OutboxInv, NEW u \in Uploads, UNCHANGED <<row, ops, visible, removal, hand, overlooked>>,
         flight' = flight \ {u}, queue' = queue \/ (u \in flight /\ Accept("upsert", {u})), faults' \in 0..MaxFaults,
         NEW w \in Upload0, up' = [up EXCEPT ![u] = w], ~Landed(u), w.at # "committed",
         up[u].at \notin {"idle", "read"} => w.at \notin {"idle", "read"}, JournalInv(u)', UploadInv(u)'
  PROVE  OutboxInv'
  <1>1. up'[u] = w /\ \A v \in Uploads \ {u} : up'[v] = up[v]
    BY UploadFacts
  <1>2. /\ queue' \in Seq(Mutation)
        /\ Served' = Served \/ (u \in flight /\ Served' = Served \cup {u})
    BY UpsertServed
  <1>3. TypeOK'
    <2>1. /\ row \in Row /\ ops \in [Journals -> Op \cup {Null}] /\ visible \subseteq Uploads
          /\ flight \ {u} \subseteq Uploads /\ up' \in [Uploads -> Upload0]
          /\ removal \in [Removals -> Removal0] /\ hand \in [Actors -> Hand]
          /\ overlooked \subseteq Uploads
      BY Parts
    <2> QED
      BY <1>2, <2>1 DEF TypeOK, Upload0, Removal0
  <1>4. /\ \A v \in Uploads \ {u} : (v \in flight' <=> v \in flight) /\ (v \in Served' <=> v \in Served)
        /\ u \in Served => u \in Served'
        /\ u \notin flight /\ u \notin Served => u \notin flight' /\ u \notin Served'
    BY <1>2
  <1>5. ~Settled(u) /\ ~Dead(u)
    BY DEF Settled, Dead
  <1>6. Onward /\ Final
    <2>1. \A v \in Uploads \ {u} : (Landed(v)' <=> Landed(v)) /\ (Settled(v)' <=> Settled(v)) /\ (Dead(v)' <=> Dead(v))
      BY <1>1, <1>4 DEF Landed, Settled, Dead
    <2> QED
      BY <1>1, <1>5, <2>1 DEF Onward, Final
  <1>7. \A k \in Journals : OpInv(k)'
    BY <1>6, Parts, OpKept
  <1>8. \A v \in Uploads : \A j \in Journals : Keeps(j, v) => Keeps(j, v)'
    BY DEF Keeps, Drops
  <1> QED
    BY <1>1, <1>3, <1>4, <1>5, <1>7, <1>8, QuietStepInv

LEMMA UpsertFailsInv ==
  ASSUME OutboxInv, NEW u \in Uploads, UpsertFails(u)
  PROVE  OutboxInv'
  <1>1. PICK w : w = [up[u] EXCEPT !.at = "failing"]
    OBVIOUS
  <1>2. /\ up[u].at = "sent" /\ up' = [up EXCEPT ![u] = w] /\ Fault /\ flight' = flight \ {u}
        /\ queue' = queue \/ (u \in flight /\ Accept("upsert", {u}))
        /\ UNCHANGED <<row, ops, visible, removal, hand, overlooked>>
    BY <1>1 DEF UpsertFails, Moves, RestUnchanged
  <1>3. /\ w \in Upload0 /\ w.at = "failing" /\ w.seen = up[u].seen /\ w.prior = up[u].prior
        /\ w.stale = up[u].stale /\ up'[u] = w /\ \A v \in Uploads \ {u} : up'[v] = up[v]
    BY <1>1, <1>2, UploadFacts DEF Upload0
  <1>4. faults' \in 0..MaxFaults
    BY <1>2, Parts, OutboxAssumption DEF Fault
  <1>5. ~Landed(u)
    BY <1>2 DEF Landed
  <1>6. \A v \in Uploads : (Settled(v) => Settled(v)')
    BY <1>2, <1>3, <1>5 DEF Settled, Landed
  <1>7. UploadInv(u)'
    BY <1>2, <1>3, <1>6, UploadFacts DEF UploadInv
  <1>8. JournalInv(u)'
    <2>1. ops[<<u, 1>>] # Null /\ ops[<<u, 1>>].ids = w.prior \cup {u}
      BY <1>2, <1>3, UploadFacts DEF JournalInv
    <2>2. Covered(<<u, 1>>, w.prior \cup {u})'
      BY <1>2, <2>1 DEF Covered
    <2>3. u \in Unfenced => NoneOn(<<u, 2>>)'
      BY <1>2, UploadFacts DEF JournalInv, NoneOn
    <2> QED
      BY <1>3, <2>2, <2>3 DEF JournalInv
  <1> QED
    BY <1>2, <1>3, <1>4, <1>5, <1>7, <1>8, RequestStepInv

LEMMA ArrivesInv ==
  ASSUME OutboxInv, NEW u \in Uploads, Land(u) \/ Vanish(u)
  PROVE  OutboxInv'
  <1>1. PICK w : w = up[u]
    OBVIOUS
  <1>2. /\ u \in flight /\ flight' = flight \ {u} /\ up' = up /\ faults' = faults
        /\ UNCHANGED <<row, ops, visible, removal, hand, overlooked>>
        /\ queue' = queue \/ (u \in flight /\ Accept("upsert", {u}))
        /\ Accept("upsert", {u}) \/ up[u].at = "ended"
    BY DEF Land, Vanish
  <1>3. w \in Upload0 /\ up' = [up EXCEPT ![u] = w] /\ up[u].at \in {"sent", "ended"}
    BY <1>1, <1>2, UploadFacts
  <1>4. ~Landed(u) /\ faults' \in 0..MaxFaults
    BY <1>2, Parts DEF Landed
  <1>5. Served' = Served \/ Served' = Served \cup {u}
    BY <1>2, UpsertServed
  <1>6. \A v \in Uploads : (Settled(v) => Settled(v)') /\ (Dead(v) => Dead(v)')
    BY <1>2, <1>4, <1>5 DEF Settled, Landed, Dead
  <1>7. UploadInv(u)'
    BY <1>2, <1>6, UploadFacts DEF UploadInv
  <1>8. JournalInv(u)'
    <2>1. CASE up[u].at = "ended"
      BY <1>2, <2>1 DEF JournalInv
    <2>2. CASE up[u].at = "sent"
      <3>1. u \in Served'
        BY <1>2, <2>2, UpsertServed
      <3>2. ops[<<u, 1>>] # Null /\ ops[<<u, 1>>].ids = up[u].prior \cup {u}
        BY <2>2, UploadFacts DEF JournalInv
      <3>3. Covered(<<u, 1>>, up[u].prior \cup {u})'
        BY <1>2, <3>2 DEF Covered
      <3>4. u \in Unfenced => NoneOn(<<u, 2>>)'
        BY <1>2, <2>2, UploadFacts DEF JournalInv, NoneOn
      <3>5. JournalInv(u)
        BY UploadFacts
      <3> QED
        BY <1>2, <2>2, <3>1, <3>3, <3>4, <3>5 DEF JournalInv
    <2> QED
      BY <1>3, <2>1, <2>2
  <1> QED
    BY <1>1, <1>2, <1>3, <1>4, <1>7, <1>8, RequestStepInv

--------------------------------------------------------------------------------
(* The commit: the row lists the upload, and the journal what it listed.       *)

LEMMA ListedInv ==
  ASSUME OutboxInv, NEW u \in Uploads, up[u].at = "ready", Listed(u), NEW w \in Upload0, up' = [up EXCEPT ![u] = w],
         w.at \in {"committed", "retiring", "failing"}, w.at = "retiring" => u \in Unfenced,
         w.seen = up[u].seen, w.prior = up[u].prior, w.stale = up[u].stale \/ w.stale = {u},
         UNCHANGED <<ops, visible, queue, flight, removal, hand>>, faults' \in 0..MaxFaults
  PROVE  OutboxInv'
  <1>1. up'[u] = w /\ \A v \in Uploads \ {u} : up'[v] = up[v]
    BY UploadFacts
  <1>2. PICK k, old : /\ k = <<u, 1>> /\ old = row.listed /\ old \in SUBSET Uploads
                      /\ k \in Journals /\ ops[k] \in Op \cup {Null}
    BY UploadFacts
  <1>3. /\ row = up[u].seen
        /\ u \in Unfenced \/ (ops[k] # Null /\ ops[k].ready = 1)
        /\ row' = [row EXCEPT !.listed = {u} \cup (IF u \in Passages THEN @ ELSE {})]
        /\ overlooked' = IF u \notin Unfenced THEN overlooked
                         ELSE IF ops[k] # Null /\ ops[k].ready = 1 THEN overlooked \cup (old \ up[u].prior)
                         ELSE overlooked \cup old
    BY <1>2 DEF Listed, Committable, Fenced, Exists
  <1>4. row' \in Row /\ row'.listed = {u} \cup (IF u \in Passages THEN old ELSE {})
    BY <1>2, <1>3, UploadFacts DEF Row
  <1>5. /\ overlooked \subseteq overlooked' /\ overlooked' \subseteq Uploads
    BY <1>2, <1>3, Parts
  <1>6. TypeOK'
    <2>1. /\ ops \in [Journals -> Op \cup {Null}] /\ visible \subseteq Uploads /\ queue \in Seq(Mutation)
          /\ flight \subseteq Uploads /\ up' \in [Uploads -> Upload0]
          /\ removal \in [Removals -> Removal0] /\ hand \in [Actors -> Hand]
      BY Parts
    <2> QED
      BY <1>4, <1>5, <2>1 DEF TypeOK, Upload0, Removal0
  <1>7. Served' = Served
    BY ServedSame
  <1>8. u \notin flight /\ Landed(u) /\ Landed(u)' /\ Settled(u)' /\ ~Settled(u)
    BY <1>1, UploadFacts DEF Landed, Settled
  <1>9. Dead(u) => Dead(u)'
    BY <1>7, <1>8 DEF Dead
  <1>10. Onward /\ Final
    <2>1. \A v \in Uploads \ {u} : (Landed(v)' <=> Landed(v)) /\ (Settled(v)' <=> Settled(v)) /\ (Dead(v)' <=> Dead(v))
      BY <1>1, <1>7 DEF Landed, Settled, Dead
    <2> QED
      BY <1>1, <1>8, <1>9, <2>1 DEF Onward, Final
  <1>11. \A j \in Journals : OpInv(j)'
    BY <1>10, Parts, OpKept
  <1>12. ASSUME ops[k] # Null, ops[k].ready = 1
         PROVE  /\ ops[k].ids = up[u].prior \cup {u}
                /\ \A a \in Actors : hand[a].op = k => hand[a].at = "claim"
                /\ u \notin Unfenced => u \in Served
    BY <1>2, <1>8, <1>12, UploadFacts DEF JournalInv
  <1>13. RowInv'
    <2>1. Settled(u)' /\ (u \notin Unfenced => u \in Served')
      BY <1>3, <1>7, <1>8, <1>12
    <2>2. \A v \in old : Settled(v)' /\ (v \notin Unfenced => v \in Served')
      BY <1>2, <1>7, <1>10, Parts DEF RowInv, Onward
    <2> QED
      BY <1>4, <2>1, <2>2 DEF RowInv
  <1>14. ASSUME NEW a \in Actors, hand[a].at = "delete" PROVE hand[a].ids \cap row'.listed \subseteq Unfenced
    <2>1. hand[a].ids \cap old \subseteq Unfenced
      BY <1>2, <1>14, Parts DEF HandInv
    <2>2. ASSUME u \in hand[a].ids, u \notin Unfenced PROVE FALSE
      <3>1. hand[a].op # k
        BY <1>3, <1>12, <1>14, <2>2
      <3>2. Settled(u)
        BY <1>2, <1>14, <2>2, <3>1, Parts DEF HandInv
      <3> QED
        BY <1>8, <3>2
    <2> QED
      BY <1>4, <2>1, <2>2
  <1>15. UploadInv(u)'
    BY <1>1, <1>8, <1>10, UploadFacts DEF UploadInv, Onward
  <1>16. JournalInv(u)'
    <2>1. Covered(k, w.prior \cup {u})
      BY <1>2, UploadFacts DEF JournalInv
    <2>2. Covered(k, w.prior \cup {u})'
      BY <1>2, <1>10, <2>1, CoveredKept
    <2>3. u \in Unfenced => NoneOn(<<u, 2>>)'
      BY UploadFacts DEF JournalInv, NoneOn
    <2> QED
      BY <1>1, <1>2, <2>2, <2>3 DEF JournalInv
  <1>17. \A v : \A j : Keeps(j, v)' <=> Keeps(j, v)
    BY DEF Keeps, Drops
  <1>18. ASSUME NEW v \in old PROVE v \in row'.listed \/ v \in overlooked' \/ Keeps(k, v)
    <2>1. CASE u \in Passages
      BY <1>4, <1>18, <2>1
    <2>2. CASE u \notin Passages /\ ~(ops[k] # Null /\ ops[k].ready = 1)
      BY <1>3, <1>18, <2>2
    <2>3. CASE u \notin Passages /\ ops[k] # Null /\ ops[k].ready = 1
      <3>1. v \in up[u].prior \/ v \in overlooked'
        <4>1. u \notin Unfenced => up[u].prior = up[u].seen.listed
          BY <2>3, UploadFacts DEF UploadInv
        <4> QED
          BY <1>2, <1>3, <1>18, <2>3, <4>1
      <3>2. v \in up[u].prior => Keeps(k, v)
        BY <1>12, <2>3 DEF Keeps, Drops
      <3> QED
        BY <3>1, <3>2
    <2> QED
      BY <2>1, <2>2, <2>3
  <1>19. ASSUME NEW v \in Uploads PROVE CareInv(v)'
    <2>1. CASE v = u
      BY <1>4, <2>1 DEF CareInv, Cared
    <2>2. CASE v # u
      <3>1. v \in row.listed => v \in row'.listed \/ v \in overlooked' \/ \E j \in Journals \ {<<v, 1>>} : Keeps(j, v)'
        <4>1. k \in Journals \ {<<v, 1>>}
          BY <1>2, <2>2
        <4> QED
          BY <1>2, <1>17, <1>18, <4>1
      <3>2. up'[v] = up[v]
        BY <1>1, <2>2
      <3> QED
        BY <1>5, <1>7, <1>17, <3>1, <3>2, Parts, CareKept
    <2> QED
      BY <2>1, <2>2
  <1>20. \A j \in Journals : ops'[j] # Null => ops[j] # Null /\ ops'[j].ids = ops[j].ids
    OBVIOUS
  <1> QED
    BY <1>1, <1>6, <1>7, <1>8, <1>9, <1>11, <1>13, <1>14, <1>15, <1>16, <1>19, <1>20, UploadStepInv

LEMMA CommitInv ==
  ASSUME OutboxInv, NEW u \in Uploads, Commit(u) \/ CommitFails(u)
  PROVE  OutboxInv'
  <1>1. CASE Commit(u)
    <2>1. PICK w : w = [up[u] EXCEPT !.at = "committed"]
      OBVIOUS
    <2>2. /\ up[u].at = "ready" /\ up' = [up EXCEPT ![u] = w] /\ Listed(u)
          /\ UNCHANGED <<ops, visible, queue, flight, removal, hand, faults>>
      BY <1>1, <2>1 DEF Commit, Moves, IndexUnchanged
    <2>3. /\ w \in Upload0 /\ w.at = "committed" /\ w.seen = up[u].seen /\ w.prior = up[u].prior
          /\ w.stale = up[u].stale
      BY <2>1, UploadFacts DEF Upload0
    <2> QED
      BY <2>2, <2>3, Parts, ListedInv
  <1>2. CASE CommitFails(u)
    <2>1. CASE Listed(u)
      <3>1. PICK w : w = [up[u] EXCEPT !.at = IF u \in Unfenced THEN "retiring" ELSE "failing", !.stale = {u}]
        OBVIOUS
      <3>2. /\ up[u].at = "ready" /\ Fault
            /\ up' = [up EXCEPT ![u].at = IF u \in Unfenced THEN "retiring" ELSE "failing", ![u].stale = {u}]
            /\ UNCHANGED <<ops, visible, queue, flight, removal, hand>>
        BY <1>2 DEF CommitFails, GivesUp, IndexUnchanged
      <3>3. up' = [up EXCEPT ![u] = w]
        BY <3>1, <3>2, UploadFacts
      <3>4. up[u] \in Upload0 /\ {u} \in SUBSET Uploads
        BY UploadFacts
      <3>5. /\ w \in Upload0 /\ w.at = IF u \in Unfenced THEN "retiring" ELSE "failing"
            /\ w.seen = up[u].seen /\ w.prior = up[u].prior /\ w.stale = {u}
        BY <3>1, <3>4 DEF Upload0
      <3>6. faults' \in 0..MaxFaults
        BY <3>2, Parts, OutboxAssumption DEF Fault
      <3> QED
        BY <2>1, <3>2, <3>3, <3>5, <3>6, ListedInv
    <2>2. CASE UNCHANGED <<row, overlooked>>
      BY <1>2, <2>2, LoseInv
    <2> QED
      BY <1>2, <2>1, <2>2 DEF CommitFails
  <1> QED
    BY <1>1, <1>2

--------------------------------------------------------------------------------
(* Removals, killed Workers and the index.                                     *)

LEMMA RemovalReadInv ==
  ASSUME OutboxInv, NEW x \in Removals, ReadCandidate(x) \/ RemovalLost(x)
  PROVE  OutboxInv'
  <1>1. PICK r : /\ removal' = [removal EXCEPT ![x] = r]
                 /\ r = [at |-> "read", seen |-> row] \/ r = Removal("ended")
                 /\ removal[x].at # "ended"
                 /\ UNCHANGED <<row, ops, visible, queue, flight, up, hand, overlooked, faults>>
    BY DEF ReadCandidate, RemovalLost, IndexUnchanged
  <1>2. r \in Removal0 /\ (r.seen.listed = {} \/ r.seen.listed = row.listed)
    BY <1>1, Parts DEF Removal, Removal0, NewRow, Row
  <1>3. removal'[x] = r /\ \A y \in Removals \ {x} : removal'[y] = removal[y]
    BY <1>1, Parts
  <1>4. TypeOK'
    <2>1. /\ row \in Row /\ ops \in [Journals -> Op \cup {Null}] /\ visible \subseteq Uploads
          /\ queue \in Seq(Mutation) /\ flight \subseteq Uploads /\ up \in [Uploads -> Upload0]
          /\ removal' \in [Removals -> Removal0] /\ hand \in [Actors -> Hand]
          /\ overlooked \subseteq Uploads /\ faults \in 0..MaxFaults
      BY <1>1, <1>2, Parts
    <2> QED
      BY <1>1, <2>1 DEF TypeOK, Upload0, Removal0
  <1>5. Served' = Served
    BY <1>1, ServedSame
  <1>6. Onward /\ Final
    BY <1>1, <1>5 DEF Onward, Final, Landed, Settled, Dead
  <1>7. \A j \in Journals : OpInv(j)'
    BY <1>1, <1>6, Parts, OpKept
  <1>8. \A a \in Actors : HandInv(a)'
    <2> SUFFICES ASSUME NEW a \in Actors PROVE HandInv(a)'
      OBVIOUS
    <2>1. hand'[a] = hand[a] /\ hand[a] \in Hand /\ HandInv(a)
      BY <1>1, Parts
    <2>2. Covered(hand[a].op, hand[a].ids) => Covered(hand[a].op, hand[a].ids)'
      BY <1>1, <1>5 DEF Covered, Dead, Landed
    <2>3. hand[a].at = "delete" => hand[a].ids \cap row'.listed \subseteq Unfenced
      BY <1>1, <2>1 DEF HandInv
    <2> QED
      BY <1>6, <2>1, <2>2, <2>3, HandKept
  <1>9. \A v \in Uploads : JournalInv(v)'
    BY <1>1, <1>5, <1>6, JournalKept
  <1>10. \A v \in Uploads : UploadInv(v)'
    BY <1>1, <1>6, Parts, UploadKept
  <1>11. \A y \in Removals : RemovalInv(y)'
    <2> SUFFICES ASSUME NEW y \in Removals PROVE RemovalInv(y)'
      OBVIOUS
    <2>1. CASE y = x
      <3>1. \A v \in r.seen.listed : Settled(v)'
        BY <1>1, <1>2, Parts DEF RowInv, Settled, Landed
      <3>2. NoneOn(<<x, 1>>)' /\ hand'[x] = NoHand
        BY <1>1, Parts DEF RemovalInv, NoneOn
      <3> QED
        BY <1>3, <2>1, <3>1, <3>2 DEF RemovalInv
    <2>2. CASE y # x
      BY <1>1, <1>3, <1>6, <2>2, Parts, RemovalKept
    <2> QED
      BY <2>1, <2>2
  <1>12. RowInv'
    BY <1>1, <1>5, Parts DEF RowInv, Settled, Landed
  <1>13. \A v \in Uploads : CareInv(v)'
    <2>1. \A v : \A j : Keeps(j, v)' <=> Keeps(j, v)
      BY <1>1 DEF Keeps, Drops
    <2> QED
      BY <1>1, <1>5, <2>1, Parts, CareKept
  <1> QED
    BY <1>4, <1>7, <1>8, <1>9, <1>10, <1>11, <1>12, <1>13, OutboxParts DEF OutboxInv

(* The batch: the row lists nothing any more, the journal what it listed.      *)
LEMMA RemovedInv ==
  ASSUME OutboxInv, NEW x \in Removals, removal[x].at = "read", removal' = [removal EXCEPT ![x] = Removal("ended")],
         row' \in Row, row'.listed = {}, NEW k, k = <<x, 1>>, NEW old, old = row.listed,
         ops' = [ops EXCEPT ![k] = NewOp(old, 1)], Submits(x),
         overlooked \subseteq overlooked', overlooked' \subseteq Uploads,
         removal[x].seen.listed = {} => old \subseteq overlooked',
         UNCHANGED <<visible, queue, flight, up, faults>>
  PROVE  OutboxInv'
  <1>1. PICK o, seen : o = NewOp(old, 1) /\ seen = removal[x].seen.listed
    OBVIOUS
  <1>2. /\ k \in Journals /\ k \in Removals \X {1} /\ x \in Actors
        /\ \A u \in Uploads : k # <<u, 1>> /\ k # <<u, 2>>
        /\ \A y \in Removals \ {x} : k # <<y, 1>>
        /\ old \in SUBSET Uploads /\ seen \in SUBSET Uploads
        /\ hand[x] = NoHand /\ ops[k] = Null /\ \A a \in Actors : hand[a].op # k
        /\ \A v \in seen : Settled(v)
        /\ \A v \in old : Settled(v)
    BY <1>1, Names, Parts DEF RemovalInv, NoneOn, RowInv, Row, Removal0
  <1>3. /\ o \in Op /\ o # Null /\ o.ids = old /\ o.ready = 1 /\ o.receipt = Null
        /\ ops'[k] = o /\ \A j \in Journals \ {k} : ops'[j] = ops[j]
    <2>1. o = [ids |-> old, ready |-> 1, receipt |-> Null]
      BY <1>1 DEF NewOp
    <2>2. o \in Op
      BY <1>2, <2>1 DEF Op, Receipt
    <2> QED
      BY <1>1, <1>2, <2>1, <2>2, Names, Parts
  <1>4. PICK h : /\ hand' = [hand EXCEPT ![x] = h]
                 /\ IF seen = {} THEN h = [NoHand EXCEPT !.at = "retire", !.op = k]
                    ELSE h = [NoHand EXCEPT !.at = "judge", !.kind = "lifecycle", !.op = k, !.ids = seen]
    <2>1. CASE seen = {}
      <3>1. hand' = [hand EXCEPT ![x].at = "retire", ![x].op = k]
        BY <1>1, <2>1 DEF Submits
      <3>2. hand' = [hand EXCEPT ![x] = [NoHand EXCEPT !.at = "retire", !.op = k]]
        BY <1>2, <3>1, Parts
      <3> QED
        BY <2>1, <3>2
    <2>2. CASE seen # {}
      BY <1>1, <2>2 DEF Submits, Begin
    <2> QED
      BY <2>1, <2>2
  <1>5. /\ h \in Hand /\ h.op = k
        /\ seen = {} => h.at = "retire" /\ h.kind = "settle" /\ h.ids = {}
        /\ seen # {} => h.at = "judge" /\ h.kind = "lifecycle" /\ h.ids = seen
    <2>1. CASE seen = {}
      <3>1. h = [at |-> "retire", kind |-> "settle", op |-> k, ids |-> {}, ready |-> 0, receipt |-> Null]
        BY <1>4, <2>1 DEF NoHand
      <3> QED
        BY <1>2, <2>1, <3>1 DEF Hand, Receipt
    <2>2. CASE seen # {}
      <3>1. h = [at |-> "judge", kind |-> "lifecycle", op |-> k, ids |-> seen, ready |-> 0, receipt |-> Null]
        BY <1>4, <2>2 DEF NoHand
      <3> QED
        BY <1>2, <2>2, <3>1 DEF Hand, Receipt
    <2> QED
      BY <2>1, <2>2
  <1>6. hand'[x] = h /\ \A a \in Actors \ {x} : hand'[a] = hand[a]
    BY <1>2, <1>4, Parts
  <1>7. /\ Removal("ended") \in Removal0 /\ Removal("ended").at = "ended" /\ Removal("ended").seen.listed = {}
        /\ removal'[x] = Removal("ended") /\ \A y \in Removals \ {x} : removal'[y] = removal[y]
    BY Parts DEF Removal, Removal0, NewRow, Row
  <1>8. TypeOK'
    <2>1. /\ ops' \in [Journals -> Op \cup {Null}] /\ visible \subseteq Uploads
          /\ queue \in Seq(Mutation) /\ flight \subseteq Uploads /\ up \in [Uploads -> Upload0]
          /\ removal' \in [Removals -> Removal0] /\ hand' \in [Actors -> Hand] /\ faults \in 0..MaxFaults
      BY <1>1, <1>3, <1>4, <1>5, <1>7, Parts
    <2> QED
      BY <2>1 DEF TypeOK, Upload0, Removal0
  <1>9. Served' = Served
    BY ServedSame
  <1>10. \A v : (Landed(v)' <=> Landed(v)) /\ (Settled(v)' <=> Settled(v)) /\ (Dead(v)' <=> Dead(v))
    BY <1>9 DEF Landed, Settled, Dead
  <1>11. Onward /\ Final
    BY <1>10 DEF Onward, Final
  <1>12. \A j \in Journals : OpInv(j)'
    <2> SUFFICES ASSUME NEW j \in Journals PROVE OpInv(j)'
      OBVIOUS
    <2>1. CASE j = k
      <3>1. \A v \in old : up'[v].at \notin {"idle", "read"} /\ Settled(v)' /\ Landed(v)'
        BY <1>2, <1>10 DEF Settled, Landed
      <3> QED
        BY <1>3, <2>1, <3>1 DEF OpInv
    <2>2. CASE j # k
      BY <1>3, <1>11, <2>2, Parts, OpKept
    <2> QED
      BY <2>1, <2>2
  <1>13. \A a \in Actors : HandInv(a)'
    <2> SUFFICES ASSUME NEW a \in Actors PROVE HandInv(a)'
      OBVIOUS
    <2>1. CASE a = x
      <3>1. ~AwaitsIndex(x)'
        BY <1>5, <1>6 DEF AwaitsIndex
      <3>2. \A v \in seen : Settled(v)' /\ Landed(v)'
        BY <1>2, <1>10 DEF Settled
      <3>3. CASE seen = {}
        BY <1>2, <1>5, <1>6, <2>1, <3>3 DEF HandInv
      <3>4. CASE seen # {}
        BY <1>2, <1>5, <1>6, <2>1, <3>1, <3>2, <3>4 DEF HandInv
      <3> QED
        BY <3>3, <3>4
    <2>2. CASE a # x
      <3>1. hand'[a] = hand[a] /\ hand[a] \in Hand /\ HandInv(a) /\ hand[a].op # k
        BY <1>2, <1>6, <2>2, Parts
      <3>2. CASE hand[a].at = "idle"
        BY <3>1, <3>2, NoHandFacts DEF HandInv, AwaitsIndex
      <3>3. CASE hand[a].at # "idle"
        <4>1. ops'[hand[a].op] = ops[hand[a].op]
          BY <1>3, <3>1, <3>3 DEF HandInv
        <4>2. Covered(hand[a].op, hand[a].ids) => Covered(hand[a].op, hand[a].ids)'
          BY <1>10, <3>1, <4>1 DEF Covered
        <4> QED
          BY <1>11, <3>1, <4>2, HandKept
      <3> QED
        BY <3>2, <3>3
    <2> QED
      BY <2>1, <2>2
  <1>14. \A v \in Uploads : JournalInv(v)'
    <2> SUFFICES ASSUME NEW v \in Uploads PROVE JournalInv(v)'
      OBVIOUS
    <2>1. \A j \in Journals \cap {<<v, 1>>, <<v, 2>>} :
             /\ ops'[j] = ops[j]
             /\ \A a \in Actors : hand'[a].op = j => hand'[a] = hand[a]
      BY <1>2, <1>3, <1>5, <1>6
    <2> QED
      BY <1>9, <1>11, <2>1, JournalKept
  <1>15. \A v \in Uploads : UploadInv(v)'
    BY <1>6, <1>11, Names, Parts, UploadKept
  <1>16. \A y \in Removals : RemovalInv(y)'
    <2> SUFFICES ASSUME NEW y \in Removals PROVE RemovalInv(y)'
      OBVIOUS
    <2>1. CASE y = x
      BY <1>7, <2>1 DEF RemovalInv
    <2>2. CASE y # x
      <3>1. /\ hand'[y] = hand[y] /\ ops'[<<y, 1>>] = ops[<<y, 1>>]
            /\ \A a \in Actors : hand'[a].op = <<y, 1>> => hand'[a] = hand[a]
        BY <1>2, <1>3, <1>5, <1>6, <2>2, Names
      <3> QED
        BY <1>7, <1>11, <2>2, <3>1, Parts, RemovalKept
    <2> QED
      BY <2>1, <2>2
  <1>17. RowInv'
    BY DEF RowInv
  <1>18. \A v \in Uploads : CareInv(v)'
    <2> SUFFICES ASSUME NEW v \in Uploads PROVE CareInv(v)'
      OBVIOUS
    <2>1. v \in old /\ seen # {} => Keeps(k, v)'
      <3>1. ASSUME seen # {}, NEW a \in Actors PROVE ~Drops(a, k, v)'
        <4>1. CASE a = x
          BY <1>5, <1>6, <3>1, <4>1 DEF Drops
        <4>2. CASE a # x
          BY <1>2, <1>6, <4>2 DEF Drops
        <4> QED
          BY <4>1, <4>2
      <3> QED
        BY <1>3, <3>1 DEF Keeps
    <2>2. k \in Journals \ {<<v, 1>>}
      BY <1>2
    <2>3. v \in row.listed => v \in row'.listed \/ v \in overlooked' \/ \E j \in Journals \ {<<v, 1>>} : Keeps(j, v)'
      BY <1>1, <2>1, <2>2
    <2>4. ASSUME NEW j \in Journals, Keeps(j, v) PROVE Keeps(j, v)'
      <3>1. j # k
        BY <1>2, <2>4 DEF Keeps
      <3>2. ops'[j] = ops[j]
        BY <1>3, <3>1
      <3>3. \A a \in Actors : ~Drops(a, j, v)'
        BY <1>5, <1>6, <2>4, <3>1 DEF Keeps, Drops
      <3> QED
        BY <2>4, <3>2, <3>3 DEF Keeps
    <2> QED
      BY <1>9, <2>3, <2>4, Parts, CareKept
  <1> QED
    BY <1>8, <1>12, <1>13, <1>14, <1>15, <1>16, <1>17, <1>18 DEF OutboxInv

LEMMA RemovesInv ==
  ASSUME OutboxInv, NEW x \in Removals, Forget(x) \/ Deprecate(x)
  PROVE  OutboxInv'
  <1>1. PICK k, old : k = <<x, 1>> /\ old = row.listed /\ old \in SUBSET Uploads
    BY Parts DEF Row
  <1>2. /\ removal[x].at = "read" /\ removal' = [removal EXCEPT ![x] = Removal("ended")]
        /\ row' \in Row /\ row'.listed = {} /\ Submits(x)
        /\ UNCHANGED <<visible, queue, flight, up, faults>>
    BY DEF Forget, Deprecate, Row, IndexUnchanged
  <1>3. ops' = [ops EXCEPT ![k] = NewOp(old, 1)]
    BY <1>1 DEF Forget, Deprecate, Unchanged
  <1>4. /\ overlooked \subseteq overlooked' /\ overlooked' \subseteq Uploads
        /\ removal[x].seen.listed = {} => old \subseteq overlooked'
    BY <1>1, Parts DEF Forget, Deprecate, Unchanged
  <1> QED
    BY <1>1, <1>2, <1>3, <1>4, RemovedInv

LEMMA KilledInv ==
  ASSUME OutboxInv, NEW a \in Actors, Crash(a)
  PROVE  OutboxInv'
  <1>1. /\ up' = IF a \in Uploads THEN [up EXCEPT ![a] = Upload("ended")] ELSE up
        /\ hand' = [hand EXCEPT ![a] = NoHand] /\ Fault
        /\ UNCHANGED <<row, ops, visible, queue, flight, removal, overlooked>>
    BY DEF Crash, Stops, IndexUnchanged
  <1>2. /\ hand'[a] = NoHand /\ \A b \in Actors \ {a} : hand'[b] = hand[b]
        /\ \A u \in Uploads : up'[u] = IF u = a THEN Upload("ended") ELSE up[u]
        /\ \A b \in Actors : \A j \in Journals : hand'[b].op = j => hand'[b] = hand[b]
    BY <1>1, Parts, NoHandFacts
  <1>3. TypeOK'
    <2>1. faults' \in 0..MaxFaults
      BY <1>1, Parts, OutboxAssumption DEF Fault
    <2>2. /\ row \in Row /\ ops \in [Journals -> Op \cup {Null}] /\ visible \subseteq Uploads
          /\ queue \in Seq(Mutation) /\ flight \subseteq Uploads /\ up' \in [Uploads -> Upload0]
          /\ removal \in [Removals -> Removal0] /\ hand' \in [Actors -> Hand]
          /\ overlooked \subseteq Uploads
      BY <1>1, Parts, EndedFacts, NoHandFacts
    <2> QED
      BY <1>1, <2>1, <2>2 DEF TypeOK, Upload0, Removal0
  <1>4. Served' = Served
    BY <1>1, ServedSame
  <1>5. Onward /\ Final
    BY <1>1, <1>2, <1>4, EndedFacts DEF Onward, Final, Landed, Settled, Dead
  <1>6. \A j \in Journals : OpInv(j)'
    BY <1>1, <1>5, Parts, OpKept
  <1>7. \A b \in Actors : HandInv(b)'
    <2> SUFFICES ASSUME NEW b \in Actors PROVE HandInv(b)'
      OBVIOUS
    <2>1. CASE hand'[b] = NoHand
      BY <2>1, NoHandFacts DEF HandInv, AwaitsIndex
    <2>2. CASE hand'[b] # NoHand
      <3>1. hand'[b] = hand[b] /\ hand[b] \in Hand /\ HandInv(b)
        BY <1>2, <2>2, Parts
      <3>2. hand[b].op \in Journals
        BY <2>2, <3>1 DEF HandInv
      <3>3. Covered(hand[b].op, hand[b].ids) => Covered(hand[b].op, hand[b].ids)'
        BY <1>1, <1>5, <3>1, <3>2, Parts, CoveredKept
      <3>4. hand[b].at = "delete" => hand[b].ids \cap row'.listed \subseteq Unfenced
        BY <1>1, <3>1 DEF HandInv
      <3> QED
        BY <1>5, <3>1, <3>3, <3>4, HandKept
    <2> QED
      BY <2>1, <2>2
  <1>8. \A v \in Uploads : JournalInv(v)'
    <2> SUFFICES ASSUME NEW v \in Uploads PROVE JournalInv(v)'
      OBVIOUS
    <2>1. CASE v = a
      BY <1>2, <2>1, EndedFacts DEF JournalInv
    <2>2. CASE v # a
      BY <1>1, <1>2, <1>4, <1>5, <2>2, JournalKept
    <2> QED
      BY <2>1, <2>2
  <1>9. \A v \in Uploads : UploadInv(v)'
    <2> SUFFICES ASSUME NEW v \in Uploads PROVE UploadInv(v)'
      OBVIOUS
    <2>1. CASE v = a
      BY <1>2, <2>1, EndedFacts DEF UploadInv
    <2>2. CASE v # a
      BY <1>1, <1>2, <1>5, <2>2, Names, Parts, UploadKept
    <2> QED
      BY <2>1, <2>2
  <1>10. \A x \in Removals : RemovalInv(x)'
    <2> SUFFICES ASSUME NEW x \in Removals PROVE RemovalInv(x)'
      OBVIOUS
    <2>1. x \in Actors /\ <<x, 1>> \in Journals
      BY Names
    <2>2. removal[x].at # "ended" => hand'[x] = hand[x]
      BY <1>2, <2>1, Parts DEF RemovalInv
    <2> QED
      BY <1>1, <1>2, <1>5, <2>1, <2>2, Parts, RemovalKept
  <1>11. RowInv'
    <2>1. row'.listed \subseteq row.listed /\ row'.listed \cap Served \subseteq Unfenced \cup Served'
      BY <1>1, <1>4
    <2> QED
      BY <1>5, <2>1, Parts, RowKept
  <1>12. \A v \in Uploads : CareInv(v)'
    <2> SUFFICES ASSUME NEW v \in Uploads PROVE CareInv(v)'
      OBVIOUS
    <2>1. ASSUME NEW j \in Journals, Keeps(j, v) PROVE Keeps(j, v)'
      BY <1>1, <1>2, <2>1 DEF Keeps, Drops
    <2>2. up'[v].at = "committed" => up[v].at = "committed"
      BY <1>2, EndedFacts
    <2> QED
      BY <1>1, <1>4, <2>1, <2>2, Parts, CareKept
  <1> QED
    BY <1>3, <1>6, <1>7, <1>8, <1>9, <1>10, <1>11, <1>12 DEF OutboxInv

(* What the index applies only brings the receipts closer.                     *)
LEMMA ApplyInv ==
  ASSUME OutboxInv, Apply
  PROVE  OutboxInv'
  <1>1. UNCHANGED <<row, flight, up, removal, overlooked, faults>>
    BY DEF Apply
  <1>2. \A r \in Receipt : Later(r) \in Receipt /\ (Later(r) = Null <=> r = Null)
    BY Names DEF Later, Receipt
  <1>3. ASSUME NEW j \in Journals
        PROVE  /\ ops'[j] \in Op \cup {Null} /\ (ops'[j] = Null <=> ops[j] = Null)
               /\ ops[j] # Null => /\ ops'[j].ids = ops[j].ids /\ ops'[j].ready = ops[j].ready
                                   /\ ops'[j].receipt = Null <=> ops[j].receipt = Null
    <2>1. ops'[j] = IF ops[j] = Null THEN Null ELSE [ops[j] EXCEPT !.receipt = Later(@)]
      BY DEF Apply
    <2>2. CASE ops[j] = Null
      BY <2>1, <2>2
    <2>3. CASE ops[j] # Null
      <3>1. ops[j] \in Op /\ ops'[j] = [ops[j] EXCEPT !.receipt = Later(@)]
        BY <2>1, <2>3, Parts
      <3>2. ops[j].receipt \in Receipt
        BY <3>1 DEF Op
      <3>3. PICK r : r = Later(ops[j].receipt) /\ r \in Receipt /\ (r = Null <=> ops[j].receipt = Null)
        BY <1>2, <3>2
      <3>4. ops'[j] = [ops[j] EXCEPT !.receipt = r]
        BY <3>1, <3>3
      <3>5. ops'[j] \in Op /\ ops'[j].ids = ops[j].ids /\ ops'[j].ready = ops[j].ready /\ ops'[j].receipt = r
        BY <3>1, <3>3, <3>4 DEF Op
      <3> QED
        BY <2>3, <3>3, <3>5, Names
    <2> QED
      BY <2>2, <2>3
  <1>4. ASSUME NEW a \in Actors
        PROVE  /\ hand'[a] \in Hand /\ hand'[a].at = hand[a].at /\ hand'[a].kind = hand[a].kind
               /\ hand'[a].op = hand[a].op /\ hand'[a].ids = hand[a].ids /\ hand'[a].ready = hand[a].ready
               /\ hand'[a].receipt = Null <=> hand[a].receipt = Null
               /\ hand[a] = NoHand => hand'[a] = NoHand
    <2>1. hand[a] \in Hand /\ hand'[a] = [hand[a] EXCEPT !.receipt = Later(@)]
      BY Parts DEF Apply
    <2>2. hand[a].receipt \in Receipt
      BY <2>1 DEF Hand
    <2>3. PICK r : r = Later(hand[a].receipt) /\ r \in Receipt /\ (r = Null <=> hand[a].receipt = Null)
      BY <1>2, <2>2
    <2>4. hand'[a] = [hand[a] EXCEPT !.receipt = r]
      BY <2>1, <2>3
    <2>5. /\ hand'[a] \in Hand /\ hand'[a].at = hand[a].at /\ hand'[a].kind = hand[a].kind
          /\ hand'[a].op = hand[a].op /\ hand'[a].ids = hand[a].ids /\ hand'[a].ready = hand[a].ready
          /\ hand'[a].receipt = r
      BY <2>1, <2>3, <2>4 DEF Hand
    <2>6. hand[a] = NoHand => hand'[a] = NoHand
      <3> SUFFICES ASSUME hand[a] = NoHand PROVE hand'[a] = NoHand
        OBVIOUS
      <3>1. NoHand.receipt = Null
        BY DEF NoHand
      <3>2. [NoHand EXCEPT !.receipt = Null] = NoHand
        BY DEF NoHand
      <3> QED
        BY <2>3, <2>4, <3>1, <3>2
    <2> QED
      BY <2>3, <2>5, <2>6
  <1>5. TypeOK'
    <2>1. /\ row \in Row /\ flight \subseteq Uploads /\ up \in [Uploads -> Upload0] /\ removal \in [Removals -> Removal0]
          /\ overlooked \subseteq Uploads /\ faults \in 0..MaxFaults /\ queue \in Seq(Mutation) /\ visible \subseteq Uploads
      BY Parts
    <2>2. Head(queue) \in Mutation /\ queue' \in Seq(Mutation)
      BY <2>1 DEF Apply
    <2>3. visible' \subseteq Uploads
      BY <2>1, <2>2 DEF Apply, Mutation
    <2>4. ops' \in [Journals -> Op \cup {Null}]
      <3>1. ops' = [j \in Journals |-> IF ops[j] = Null THEN Null ELSE [ops[j] EXCEPT !.receipt = Later(@)]]
        BY DEF Apply
      <3> QED
        BY <1>3, <3>1
    <2>5. hand' \in [Actors -> Hand]
      <3>1. hand' = [a \in Actors |-> [hand[a] EXCEPT !.receipt = Later(@)]]
        BY DEF Apply
      <3> QED
        BY <1>4, <3>1
    <2> QED
      BY <1>1, <2>1, <2>2, <2>3, <2>4, <2>5 DEF TypeOK, Upload0, Removal0
  <1>6. Served' = Served
    BY Parts, ServedApply
  <1>7. \A v : (Landed(v)' <=> Landed(v)) /\ (Settled(v)' <=> Settled(v)) /\ (Dead(v)' <=> Dead(v))
    BY <1>1, <1>6 DEF Landed, Settled, Dead
  <1>8. /\ \A j \in Journals : NoneOn(j) => NoneOn(j)'
        /\ \A j \in Journals : \A S : Covered(j, S) => Covered(j, S)'
    BY <1>3, <1>4, <1>7 DEF NoneOn, Covered
  <1>9. \A j \in Journals : OpInv(j)'
    <2> SUFFICES ASSUME NEW j \in Journals, ops[j] # Null PROVE OpInv(j)'
      BY <1>3 DEF OpInv
    <2>1. OpInv(j)
      BY Parts
    <2> QED
      BY <1>1, <1>3, <1>6, <1>7, <2>1 DEF OpInv
  <1>10. \A a \in Actors : HandInv(a)'
    <2> SUFFICES ASSUME NEW a \in Actors PROVE HandInv(a)'
      OBVIOUS
    <2>1. HandInv(a)
      BY Parts
    <2>2. AwaitsIndex(a)' <=> AwaitsIndex(a)
      BY <1>4 DEF AwaitsIndex
    <2>3. CASE hand[a].at = "idle"
      BY <1>4, <2>1, <2>3, NoHandFacts DEF HandInv
    <2>4. CASE hand[a].at # "idle"
      BY <1>1, <1>4, <1>6, <1>7, <1>8, <2>1, <2>2, <2>4 DEF HandInv
    <2> QED
      BY <2>3, <2>4
  <1>11. \A v \in Uploads : JournalInv(v)'
    <2> SUFFICES ASSUME NEW v \in Uploads PROVE JournalInv(v)'
      OBVIOUS
    <2>1. PICK k : k = <<v, 1>> /\ k \in Journals
      BY Names
    <2>2. JournalInv(v) /\ (v \in Unfenced => <<v, 2>> \in Journals) /\ (up[v].at = "second" => v \in Unfenced)
      BY Names, Parts DEF UploadInv
    <2>3. up[v].at \in {"idle", "read"} => NoneOn(k)'
      BY <1>8, <2>1, <2>2 DEF JournalInv
    <2>4. up[v].at \in {"journalled", "sent"} =>
            /\ ops'[k] # Null /\ ops'[k].ready \in {0, 2} /\ ops'[k].ids = up[v].prior \cup {v}
            /\ \A a \in Actors : hand'[a].op = k => hand'[a].at = "claim" /\ hand'[a].ready = 0
      BY <1>3, <1>4, <2>1, <2>2 DEF JournalInv
    <2>5. up[v].at \in {"journalled", "sent", "ready"} /\ ops'[k] # Null /\ ops'[k].ready \in {0, 1} =>
            /\ ops'[k].ids = up[v].prior \cup {v}
            /\ \A a \in Actors : hand'[a].op = k => hand'[a].at = "claim"
            /\ up[v].at \in {"sent", "ready"} /\ v \notin flight /\ v \notin Unfenced => v \in Served'
      <3>1. up[v].at \in {"journalled", "sent", "ready"} /\ ops[k] # Null /\ ops[k].ready \in {0, 1} =>
              /\ ops[k].ids = up[v].prior \cup {v}
              /\ \A a \in Actors : hand[a].op = k => hand[a].at = "claim"
              /\ up[v].at \in {"sent", "ready"} /\ v \notin flight /\ v \notin Unfenced => v \in Served
        BY <2>1, <2>2 DEF JournalInv
      <3> QED
        BY <1>3, <1>4, <1>6, <2>1, <3>1
    <2>6. up[v].at \notin {"idle", "read", "ended"} => Covered(k, up[v].prior \cup {v})'
      <3>1. up[v].at \notin {"idle", "read", "ended"} => Covered(k, up[v].prior \cup {v})
        BY <2>1, <2>2 DEF JournalInv
      <3> QED
        BY <1>1, <1>8, <2>1, <3>1
    <2>7. v \in Unfenced /\ up[v].at \notin {"second", "ended"} => NoneOn(<<v, 2>>)'
      BY <1>8, <2>2 DEF JournalInv
    <2>8. up[v].at = "second" => Covered(<<v, 2>>, up[v].stale)'
      <3>1. up[v].at = "second" => Covered(<<v, 2>>, up[v].stale) /\ <<v, 2>> \in Journals
        BY <2>2 DEF JournalInv
      <3> QED
        BY <1>1, <1>8, <3>1
    <2> QED
      BY <1>1, <2>1, <2>3, <2>4, <2>5, <2>6, <2>7, <2>8 DEF JournalInv
  <1>12. \A v \in Uploads : UploadInv(v)'
    BY <1>1, <1>4, <1>7, Names, Parts DEF UploadInv
  <1>13. \A x \in Removals : RemovalInv(x)'
    BY <1>1, <1>4, <1>7, <1>8, Names, Parts DEF RemovalInv
  <1>14. RowInv'
    BY <1>1, <1>6, <1>7, Parts DEF RowInv
  <1>15. \A v \in Uploads : CareInv(v)'
    <2>1. ASSUME NEW j \in Journals, NEW v, Keeps(j, v) PROVE Keeps(j, v)'
      BY <1>3, <1>4, <2>1 DEF Keeps, Drops
    <2> QED
      BY <1>1, <1>6, <2>1, Parts, CareKept
  <1> QED
    BY <1>5, <1>9, <1>10, <1>11, <1>12, <1>13, <1>14, <1>15 DEF OutboxInv

LEMMA OutboxStutter ==
  ASSUME OutboxInv, UNCHANGED vars
  PROVE  OutboxInv'
  <1>1. UNCHANGED <<row, ops, visible, queue, flight, up, removal, hand, overlooked, faults>>
    BY DEF vars
  <1>2. Served' = Served
    BY <1>1, ServedSame
  <1>3. Onward /\ Final
    BY <1>1, <1>2 DEF Onward, Final, Landed, Settled, Dead
  <1>4. TypeOK'
    BY <1>1, Parts DEF TypeOK
  <1>5. \A j \in Journals : OpInv(j)'
    BY <1>1, <1>3, Parts, OpKept
  <1>6. \A a \in Actors : HandInv(a)'
    <2>1. \A v : (Landed(v)' <=> Landed(v)) /\ (Settled(v)' <=> Settled(v)) /\ (Dead(v)' <=> Dead(v))
      BY <1>1, <1>2 DEF Landed, Settled, Dead
    <2>2. \A j : \A S : Covered(j, S)' <=> Covered(j, S)
      BY <1>1, <2>1 DEF Covered
    <2> SUFFICES ASSUME NEW a \in Actors PROVE HandInv(a)'
      OBVIOUS
    <2>3. AwaitsIndex(a)' <=> AwaitsIndex(a)
      BY <1>1 DEF AwaitsIndex
    <2>4. HandInv(a)
      BY Parts
    <2> QED
      BY <1>1, <1>2, <2>1, <2>2, <2>3, <2>4 DEF HandInv
  <1>7. \A v \in Uploads : JournalInv(v)'
    BY <1>1, <1>2, <1>3, JournalKept
  <1>8. \A v \in Uploads : UploadInv(v)'
    BY <1>1, <1>3, Parts, UploadKept
  <1>9. \A x \in Removals : RemovalInv(x)'
    BY <1>1, <1>3, Parts, RemovalKept
  <1>10. RowInv'
    BY <1>1, <1>2, Parts DEF RowInv, Settled, Landed
  <1>11. \A v \in Uploads : CareInv(v)'
    <2>1. \A v : \A j : Keeps(j, v)' <=> Keeps(j, v)
      BY <1>1 DEF Keeps, Drops
    <2> QED
      BY <1>1, <1>2, <2>1, Parts, CareKept
  <1> QED
    BY <1>4, <1>5, <1>6, <1>7, <1>8, <1>9, <1>10, <1>11 DEF OutboxInv

LEMMA OutboxInit ==
  ASSUME Init
  PROVE  OutboxInv
  <1>1. /\ row = NewRow /\ NewRow \in Row /\ NewRow.listed = {} /\ visible = {} /\ queue = <<>> /\ flight = {}
        /\ overlooked = {} /\ faults = 0
        /\ \A j \in Journals : ops[j] = Null
        /\ \A a \in Actors : hand[a] = NoHand
        /\ \A u \in Uploads : up[u] = Upload("idle")
        /\ \A x \in Removals : removal[x] = Removal("idle")
    BY DEF Init, NewRow, Row
  <1>2. TypeOK
    <2>1. /\ ops \in [Journals -> Op \cup {Null}] /\ up \in [Uploads -> Upload0]
          /\ removal \in [Removals -> Removal0] /\ hand \in [Actors -> Hand]
      BY EndedFacts, NoHandFacts DEF Init, Removal, Removal0, NewRow, Row
    <2> QED
      BY <1>1, <2>1, OutboxAssumption DEF TypeOK, Upload0, Removal0
  <1>3. \A u : u \notin Served
    <2>1. Len(queue) = 0 /\ Len(queue) \in Nat /\ \A n \in 1..Len(queue) : FALSE
      BY <1>1
    <2>2. \A u : StaysOn(queue, visible, u) <=> u \in visible
      BY <2>1, LastMention
    <2> QED
      BY <1>1, <2>2, StaysIs DEF Served
  <1>4. \A j \in Journals : NoneOn(j)
    BY <1>1, NoHandFacts DEF NoneOn
  <1>5. \A u \in Uploads : /\ up[u].at = "idle" /\ up[u].seen.listed = {} /\ up[u].prior = {} /\ up[u].stale = {}
    BY <1>1, EndedFacts
  <1>6. \A x \in Removals : removal[x].at = "idle" /\ removal[x].seen.listed = {}
    BY <1>1 DEF Removal
  <1>7. \A j \in Journals : OpInv(j)
    BY <1>1 DEF OpInv
  <1>8. \A a \in Actors : HandInv(a)
    BY <1>1, NoHandFacts DEF HandInv
  <1>9. \A u \in Uploads : JournalInv(u)
    BY <1>4, <1>5, Names DEF JournalInv
  <1>10. \A u \in Uploads : UploadInv(u)
    BY <1>1, <1>5, Names DEF UploadInv
  <1>11. \A x \in Removals : RemovalInv(x)
    BY <1>1, <1>4, <1>6, Names DEF RemovalInv
  <1>12. RowInv
    BY <1>1 DEF RowInv
  <1>13. \A u \in Uploads : CareInv(u)
    BY <1>1, <1>3, <1>5 DEF CareInv, Cared
  <1> QED
    BY <1>2, <1>7, <1>8, <1>9, <1>10, <1>11, <1>12, <1>13 DEF OutboxInv

LEMMA OutboxStep ==
  ASSUME OutboxInv, [Next]_vars
  PROVE  OutboxInv'
  <1>1. CASE Apply
    BY <1>1, ApplyInv
  <1>2. CASE \E u \in Uploads : Land(u) \/ Vanish(u)
    BY <1>2, ArrivesInv
  <1>3. CASE \E u \in Uploads : UploadStep(u)
    <2>1. PICK u \in Uploads : UploadStep(u)
      BY <1>3
    <2>2. CASE ReadRow(u) \/ Journal(u) \/ Send(u) \/ UpsertFails(u) \/ MarkReady(u)
      BY <2>2, ReadRowInv, JournalInvStep, SendInv, UpsertFailsInv, MarkReadyInv
    <2>3. CASE Commit(u) \/ Lose(u) \/ Retry(u) \/ CommitFails(u) \/ RetireReplaced(u)
      BY <2>3, CommitInv, LoseInv, RetryInv
    <2>4. CASE SettleFailed(u) \/ SettleCommitted(u) \/ JournalRetired(u) \/ SettleRetired(u)
      BY <2>4, SettleUploadInv, CloseUploadInv, JournalRetiredInv
    <2> QED
      BY <2>1, <2>2, <2>3, <2>4 DEF UploadStep
  <1>4. CASE \E x \in Removals : RemovalStep(x)
    BY <1>4, RemovalReadInv, RemovesInv DEF RemovalStep
  <1>5. CASE \E d \in Drains : Claim(d) \/ \E j \in Journals : Select(d, j)
    BY <1>5, ClaimInv, SelectInv
  <1>6. CASE \E a \in Actors : HandStep(a)
    BY <1>6, JudgeInv, DeletedInv, ClosedInv DEF HandStep
  <1>7. CASE \E a \in Actors : Crash(a)
    BY <1>7, KilledInv
  <1>8. CASE UNCHANGED vars
    BY <1>8, OutboxStutter
  <1> QED
    BY <1>1, <1>2, <1>3, <1>4, <1>5, <1>6, <1>7, <1>8 DEF Next

LEMMA OutboxAlways == Spec => []OutboxInv
  <1>1. Init => OutboxInv
    BY OutboxInit
  <1>2. OutboxInv /\ [Next]_vars => OutboxInv'
    BY OutboxStep
  <1> QED
    BY <1>1, <1>2, PTL DEF Spec

THEOREM OutboxTypeCorrect == Spec => []TypeOK
  <1>1. OutboxInv => TypeOK
    BY DEF OutboxInv
  <1> QED
    BY <1>1, OutboxAlways, PTL

THEOREM ListedServed == Spec => []ListedIsServed
  <1>1. OutboxInv => ListedIsServed
    BY DEF OutboxInv, RowInv, Served, ListedIsServed
  <1> QED
    BY <1>1, OutboxAlways, PTL

THEOREM NothingLost == Spec => []NothingForgotten
  <1>1. ASSUME OutboxInv PROVE NothingForgotten
    <2> SUFFICES ASSUME NEW u \in Uploads \ overlooked, u \in flight \/ Stays(u) PROVE Owned(u)
      BY DEF NothingForgotten
    <2>1. Cared(u, Journals)
      BY <1>1 DEF OutboxInv, CareInv
    <2>2. u \in row.listed \/ \E j \in Journals : Keeps(j, u)
      BY <2>1 DEF Cared, Served
    <2> QED
      BY <2>2 DEF Owned, Keeps, Exists
  <1>2. OutboxInv => NothingForgotten
    BY <1>1
  <1> QED
    BY <1>2, OutboxAlways, PTL
================================================================================
