------------------------------ MODULE R2Snapshot ------------------------------
(***************************************************************************)
(* Creation of an R2 backup: createR2Backup and writeChunkedTable of       *)
(* src/backup/r2.ts under the snapshot lock of src/migration/write-lock.ts. *)
(*                                                                         *)
(* A snapshot reads D1 page by page and writes one immutable chunk per     *)
(* page, then the manifest.  Its lock may lapse at any of these awaits;    *)
(* from then on ordinary requests change the source and another backup may *)
(* claim the lock.  The content of the source is abstracted to its         *)
(* version; the fence itself is WriteAdmission.                            *)
(***************************************************************************)
EXTENDS BackupObjects

VARIABLES
    version,    \* the state of the source tables
    owner,      \* migration_control.owner_id
    lockLive,   \* the lock row has not expired
    at,         \* where each attempt is
    total,      \* the pages its row counts call for
    page,       \* the page it is at
    id,         \* its backup ID
    answer,     \* what its pending ownership check will be told: none, live, lapsed
    taken,      \* the source versions it has read so far
    writtenKeys \* the pages whose chunk keys it would delete after a failure

attemptVars == <<at, total, page, id, answer, taken, writtenKeys>>
bucketVars  == <<chunk, manifest, misled>>
vars        == <<version, owner, lockLive, attemptVars, bucketVars>>

-------------------------------------------------------------------------------
\* counts and history counts are single reads; every other stop of an attempt
\* comes after the check of lock ownership whose name it carries.
Stops == {"idle", "counts", "beforeRead", "read", "beforePut", "put", "historyCount",
          "beforeManifest", "manifest", "undo", "unlock"}

Checks == {"beforeRead", "beforePut", "beforeManifest"}

\* The rows, the objects and the progress of every attempt.
TypeOK ==
    /\ version \in 0..MaxVersion
    /\ owner \in Attempts \cup {Cutover, Nothing}
    /\ lockLive \in BOOLEAN
    /\ at \in [Attempts -> Stops]
    /\ total \in [Attempts -> 0..Pages]
    /\ page \in [Attempts -> 1..(Pages + 1)]
    /\ id \in [Attempts -> Names \cup {Nothing}]
    /\ answer \in [Attempts -> {"none", "live", "lapsed"}]
    /\ taken \in [Attempts -> SUBSET (0..MaxVersion)]
    /\ writtenKeys \in [Attempts -> SUBSET PageRange]
    /\ chunk \in [Names -> [PageRange -> Chunk \cup {Nothing}]]
    /\ manifest \in [Names -> Manifest \cup {Nothing}]
    /\ misled \subseteq Names

Init ==
    /\ version = 0
    /\ owner = Nothing
    /\ lockLive = FALSE
    /\ at = [a \in Attempts |-> "idle"]
    /\ total = [a \in Attempts |-> 0]
    /\ page = [a \in Attempts |-> 1]
    /\ id = [a \in Attempts |-> Nothing]
    /\ answer = [a \in Attempts |-> "none"]
    /\ taken = [a \in Attempts |-> {}]
    /\ writtenKeys = [a \in Attempts |-> {}]
    /\ chunk = [i \in Names |-> [p \in PageRange |-> Nothing]]
    /\ manifest = [i \in Names |-> Nothing]
    /\ misled = {}

-------------------------------------------------------------------------------
(* What goes on around a snapshot.                                         *)

LockFree == owner = Nothing \/ ~lockLive

\* An ordinary request changes the source: the fence admits it once no lock counts.
SourceWrite ==
    /\ LockFree
    /\ version < MaxVersion
    /\ version' = version + 1
    /\ UNCHANGED <<owner, lockLive, attemptVars, bucketVars>>

\* The 120 seconds are over; a cutover lock has no such limit.
Lapse ==
    /\ owner \in Attempts /\ lockLive
    /\ lockLive' = FALSE
    /\ UNCHANGED <<version, owner, attemptVars, bucketVars>>

\* POST and DELETE /migration/write-lock.
CutoverLock ==
    /\ LockFree
    /\ owner' = Cutover
    /\ lockLive' = TRUE
    /\ UNCHANGED <<version, attemptVars, bucketVars>>

CutoverUnlock ==
    /\ owner = Cutover
    /\ owner' = Nothing
    /\ lockLive' = FALSE
    /\ UNCHANGED <<version, attemptVars, bucketVars>>

-------------------------------------------------------------------------------
(* The attempt.                                                            *)

\* setMemoryWriteLock with requireNew: a new row, or the row of a lapsed snapshot.
Start(a, i) ==
    /\ at[a] = "idle" /\ id[a] = Nothing
    /\ LockFree
    /\ owner' = a
    /\ lockLive' = TRUE
    /\ id' = [id EXCEPT ![a] = i]
    /\ at' = [at EXCEPT ![a] = "counts"]
    /\ UNCHANGED <<version, total, page, answer, taken, writtenKeys, bucketVars>>

\* Integrations and mirrors are absent; the rows are counted.
ReadCounts(a, n) ==
    /\ at[a] = "counts"
    /\ total' = [total EXCEPT ![a] = n]
    /\ taken' = [taken EXCEPT ![a] = @ \cup {version}]
    /\ at' = [at EXCEPT ![a] = IF n = 0 THEN "historyCount" ELSE "beforeRead"]
    /\ UNCHANGED <<version, owner, lockLive, page, id, answer, writtenKeys, bucketVars>>

\* Mutant of AskOwner: the owner is compared, its expiry is not.
MutAskOwner(a) ==
    /\ at[a] \in Checks /\ answer[a] = "none"
    /\ answer' = [answer EXCEPT ![a] = IF owner = a THEN "live" ELSE "lapsed"]
    /\ UNCHANGED <<version, owner, lockLive, at, total, page, id, taken, writtenKeys, bucketVars>>

\* assertMemoryWriteLockOwner takes Date.now() and then asks D1: the expiry is
\* judged by the moment of asking, the owner by the moment of the answer.
AskOwner(a) ==
    /\ at[a] \in Checks /\ answer[a] = "none"
    /\ answer' = [answer EXCEPT ![a] = IF owner = a /\ lockLive THEN "live" ELSE "lapsed"]
    /\ UNCHANGED <<version, owner, lockLive, at, total, page, id, taken, writtenKeys, bucketVars>>

Owned(a) ==
    /\ at[a] \in Checks /\ answer[a] = "live" /\ owner = a
    /\ answer' = [answer EXCEPT ![a] = "none"]
    /\ at' = [at EXCEPT ![a] = CASE @ = "beforeRead" -> "read"
                                 [] @ = "beforePut"  -> "put"
                                 [] OTHER            -> "manifest"]
    /\ UNCHANGED <<version, owner, lockLive, total, page, id, taken, writtenKeys, bucketVars>>

\* The lock lapsed or is somebody else's: the error leads to the cleanup.
NotOwned(a) ==
    /\ answer[a] = "lapsed" \/ (answer[a] = "live" /\ owner # a)
    /\ answer' = [answer EXCEPT ![a] = "none"]
    /\ at' = [at EXCEPT ![a] = "undo"]
    /\ UNCHANGED <<version, owner, lockLive, total, page, id, taken, writtenKeys, bucketVars>>

ReadPage(a) ==
    /\ at[a] = "read"
    /\ taken' = [taken EXCEPT ![a] = @ \cup {version}]
    /\ at' = [at EXCEPT ![a] = "beforePut"]
    /\ UNCHANGED <<version, owner, lockLive, total, page, id, answer, writtenKeys, bucketVars>>

\* The version a page was read at is the newest one taken so far.
Newest(a) == CHOOSE v \in taken[a] : \A w \in taken[a] : w <= v

\* Mutant of PutChunk: the put is not conditional.
MutPutChunk(a) ==
    LET i == id[a]  p == page[a] IN
    /\ at[a] = "put"
    /\ chunk' = [chunk EXCEPT ![i][p] = [by |-> a, version |-> Newest(a)]]
    /\ writtenKeys' = [writtenKeys EXCEPT ![a] = @ \cup {p}]
    /\ page' = [page EXCEPT ![a] = p + 1]
    /\ at' = [at EXCEPT ![a] = IF p < total[a] THEN "beforeRead" ELSE "historyCount"]
    /\ UNCHANGED <<version, owner, lockLive, total, id, answer, taken, manifest, misled>>

\* A conditional put: nothing is overwritten.
PutChunk(a) ==
    LET i == id[a]  p == page[a] IN
    /\ at[a] = "put"
    /\ chunk[i][p] = Nothing
    /\ chunk' = [chunk EXCEPT ![i][p] = [by |-> a, version |-> Newest(a)]]
    /\ writtenKeys' = [writtenKeys EXCEPT ![a] = @ \cup {p}]
    /\ page' = [page EXCEPT ![a] = p + 1]
    /\ at' = [at EXCEPT ![a] = IF p < total[a] THEN "beforeRead" ELSE "historyCount"]
    /\ UNCHANGED <<version, owner, lockLive, total, id, answer, taken, manifest, misled>>

\* The key exists already, or the put fails.
PutChunkFails(a) ==
    /\ at[a] = "put"
    /\ at' = [at EXCEPT ![a] = "undo"]
    /\ UNCHANGED <<version, owner, lockLive, total, page, id, answer, taken, writtenKeys, bucketVars>>

\* The put fails for its caller, yet the object is stored.
PutChunkMisleads(a) ==
    LET i == id[a]  p == page[a] IN
    /\ at[a] = "put"
    /\ chunk[i][p] = Nothing
    /\ chunk' = [chunk EXCEPT ![i][p] = [by |-> a, version |-> Newest(a)]]
    /\ at' = [at EXCEPT ![a] = "undo"]
    /\ UNCHANGED <<version, owner, lockLive, total, page, id, answer, taken, writtenKeys, manifest, misled>>

\* The remaining count; it is covered by the last ownership check only.
ReadHistoryCount(a) ==
    /\ at[a] = "historyCount"
    /\ taken' = [taken EXCEPT ![a] = @ \cup {version}]
    /\ at' = [at EXCEPT ![a] = "beforeManifest"]
    /\ UNCHANGED <<version, owner, lockLive, total, page, id, answer, writtenKeys, bucketVars>>

ManifestOf(a) == [by |-> a, pages |-> 1..total[a], versions |-> taken[a]]

PutManifest(a) ==
    /\ at[a] = "manifest"
    /\ manifest[id[a]] = Nothing
    /\ manifest' = [manifest EXCEPT ![id[a]] = ManifestOf(a)]
    /\ at' = [at EXCEPT ![a] = "unlock"]
    /\ UNCHANGED <<version, owner, lockLive, total, page, id, answer, taken, writtenKeys, chunk, misled>>

PutManifestFails(a) ==
    /\ at[a] = "manifest"
    /\ at' = [at EXCEPT ![a] = "undo"]
    /\ UNCHANGED <<version, owner, lockLive, total, page, id, answer, taken, writtenKeys, bucketVars>>

\* The put fails for its caller, who then cleans up, yet the manifest is stored.
PutManifestMisleads(a) ==
    /\ at[a] = "manifest"
    /\ manifest[id[a]] = Nothing
    /\ manifest' = [manifest EXCEPT ![id[a]] = ManifestOf(a)]
    /\ misled' = misled \cup {id[a]}
    /\ at' = [at EXCEPT ![a] = "undo"]
    /\ UNCHANGED <<version, owner, lockLive, total, page, id, answer, taken, writtenKeys, chunk>>

\* Any other error on the way: a connected integration, a dangling edge, a count
\* that changed, a D1 read that failed.
Fails(a) ==
    /\ at[a] \in {"counts", "read", "historyCount"}
    /\ at' = [at EXCEPT ![a] = "undo"]
    /\ UNCHANGED <<version, owner, lockLive, total, page, id, answer, taken, writtenKeys, bucketVars>>

\* The catch block deletes the keys this attempt has written, or fails to.
Undo(a) ==
    /\ at[a] = "undo"
    /\ chunk' \in {chunk, [chunk EXCEPT ![id[a]] =
                             [p \in PageRange |-> IF p \in writtenKeys[a] THEN Nothing ELSE @[p]]]}
    /\ at' = [at EXCEPT ![a] = "unlock"]
    /\ UNCHANGED <<version, owner, lockLive, total, page, id, answer, taken, writtenKeys, manifest, misled>>

\* The finally block clears the lock of this owner, lapsed or not.
Unlock(a) ==
    /\ at[a] = "unlock"
    /\ owner' = IF owner = a THEN Nothing ELSE owner
    /\ lockLive' = IF owner = a THEN FALSE ELSE lockLive
    /\ at' = [at EXCEPT ![a] = "idle"]
    /\ UNCHANGED <<version, total, page, id, answer, taken, writtenKeys, bucketVars>>

\* The Worker is killed; nothing it left behind is cleaned up.
Crash(a) ==
    /\ at[a] # "idle"
    /\ at' = [at EXCEPT ![a] = "idle"]
    /\ answer' = [answer EXCEPT ![a] = "none"]
    /\ UNCHANGED <<version, owner, lockLive, total, page, id, taken, writtenKeys, bucketVars>>

-------------------------------------------------------------------------------
AttemptStep(a) ==
    \/ \E i \in Names : Start(a, i)
    \/ \E n \in 0..Pages : ReadCounts(a, n)
    \/ AskOwner(a)
    \/ Owned(a)
    \/ NotOwned(a)
    \/ ReadPage(a)
    \/ PutChunk(a)
    \/ PutChunkFails(a)
    \/ PutChunkMisleads(a)
    \/ ReadHistoryCount(a)
    \/ PutManifest(a)
    \/ PutManifestFails(a)
    \/ PutManifestMisleads(a)
    \/ Fails(a)
    \/ Undo(a)
    \/ Unlock(a)
    \/ Crash(a)

Next ==
    \/ SourceWrite
    \/ Lapse
    \/ CutoverLock
    \/ CutoverUnlock
    \/ \E a \in Attempts : AttemptStep(a)

Spec == Init /\ [][Next]_vars
===============================================================================
