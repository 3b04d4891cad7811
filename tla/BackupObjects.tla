------------------------------ MODULE BackupObjects -----------------------------
(***************************************************************************)
(* The objects of R2 backups, from src/backup/r2.ts: what a bucket holds of *)
(* each backup, and what is promised of one that is published, whatever     *)
(* becomes of the lock under which it was taken.                            *)
(***************************************************************************)
EXTENDS Naturals, FiniteSets

CONSTANTS
    Attempts,       \* calls of createR2Backup
    Names,          \* backup IDs: the milliseconds of the call, perhaps shared
    Pages,          \* bound on the page reads of one snapshot
    MaxVersion,     \* bound on source changes
    Cutover,        \* the owner of an embedding-cutover lock, no attempt
    Nothing         \* no owner, no ID, no object

PageRange == 1..Pages

Chunk == [by : Attempts, version : 0..MaxVersion]

Manifest == [by : Attempts, pages : SUBSET PageRange, versions : SUBSET (0..MaxVersion)]

ASSUME BackupAssumption ==
    /\ Pages \in Nat /\ MaxVersion \in Nat
    /\ Cutover \notin Attempts
    /\ Nothing \notin Attempts \cup {Cutover} /\ Nothing \notin Names
    /\ Nothing \notin Chunk /\ Nothing \notin Manifest

VARIABLES
    chunk,      \* R2: chunk[i][p] is the writer and version of page p, or Nothing
    manifest,   \* R2: manifest[i] is the writer, its pages and versions, or Nothing
    misled      \* history: IDs whose manifest was stored by a put that failed

-------------------------------------------------------------------------------
(* Properties.                                                             *)

Published == {i \in Names : manifest[i] # Nothing}

\* A published backup is one state of the source: although the lock may lapse at
\* every await and writers resume, whatever was read before the last ownership
\* check was read under one tenure of the lock.
SnapshotIsOneState == \A i \in Published : Cardinality(manifest[i].versions) = 1

\* The chunks a manifest names are in the bucket as their writer stored them, so
\* restore finds every chunk and its hash: no other attempt under the same ID, no
\* cleanup and no late put has touched them.  (Not so for a manifest whose put
\* failed for its caller: the catch block deletes its chunks.)
PublishedRestorable ==
    \A i \in Published \ misled : \A p \in manifest[i].pages :
        /\ chunk[i][p] # Nothing
        /\ chunk[i][p].by = manifest[i].by /\ chunk[i][p].version \in manifest[i].versions
===============================================================================
