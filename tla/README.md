# second-brain-cloudflare: a verification project

TLA+ models of the memory store in this repository (`src/src/`), the TLC runs that
check them and TLAPS proofs about them. Paths below are relative to the repository
unless they name a `.tla` or `.cfg` file.

The program is a Cloudflare Worker. D1 (SQLite) is the source of truth; Vectorize is a
derived index; KV holds cursors, flags, caches and integration records; R2 holds
backups. Requests, cron ticks and `waitUntil` tasks run concurrently in isolates that
may be killed at any `await`. There is no transaction over two round trips to D1, and
none over two stores: whatever is coordinated is coordinated by single SQL statements
with guards, by leases with an expiry, and by journals that a later run finishes.

## 1. Inventory

| component | state | operations | what is hard | what makes it correct |
| --- | --- | --- | --- | --- |
| Write fence (`migration/write-lock.ts`, `db/write-protection-schema.ts`, `routes/migration.ts`) | `memory_write_admissions`, `memory_write_epoch`, `migration_control`, `restore_state` | acquire, renew, release an admission; set, recover, clear a lock; final-delta lease; triggers on every source table | four actors, three clocks, killed holders, remote calls that land late | barriers exclude writers and each other; nothing waits for the dead |
| R2 backup (`backup/r2.ts`) | R2 chunks and manifest, the snapshot lock | create, list | a lock that may lapse at each await, equal IDs, puts that fail or mislead | an archive is one state of the source, immutable, restorable |
| R2 restore (`backup/r2.ts`, `backup/history.ts`, `entries/import.ts`) | `restore_state`, the source tables | one page per call | concurrent calls, stale plans, partial batches, old offsets | the target is never mixed, complete means whole |
| Vector outbox (`vectorize/`, `capture/store.ts`) | `vector_cleanup_ops`, `entries.vector_ids`, Vectorize | journal, upsert, commit, settle, drain | upserts landing after deletes, IDs reused by a later edit | no live entry loses its vectors, no dead vector stays for ever |
| Embedding migration (`migration/embedding.ts`) | cursors in KV, generation in D1 | full batch, delta batch | the corpus changes under the cursor | no entry is skipped |
| Capture (`capture/`) | entries, pending appends, receipts | store, append, merge, edit, lifecycle | compare-and-set around model and index calls | retries do not apply twice |
| Trash, undo, versions (`memory/`) | `entries_trash`, `entry_versions`, `entry_events` | forget, restore, undo, purge | batches whose guards must agree | a row is in exactly one place, history survives |
| Full text (`db/fts-*.ts`) | `entries_fts`, triggers, cursor and ready flag in KV | backfill, repair, check | the flag outliving its evidence | ready means complete |
| Integrations (`integrations/`) | provider generation, lease, draining flag, KV records | connect, sync, disconnect | a sync outliving its lease | nothing is mirrored behind a purge |
| ChatGPT session (`lib/chatgpt-session.ts`) | one D1 row: revision, state, cipher | connect, refresh, disconnect | single-use refresh tokens, lost answers | a token is used once; the session does not get stuck |
| Nightly run and D1 budget (`runtime/`) | ledger of SQL statements, nested reservations | reserve, charge, release | concurrent passes | the limit is never exceeded and nothing is lost |
| Push (`push/`) | KV lease, delivery record, daily count | run | KV without compare-and-set | one notification per device and date, and one more for each overlap, outdated read or lost answer |
| Insight, compression, brief, staleness, when, quarantine, decisions | candidates, digests, marks | scheduled passes | model output | writes go through the fence |
| Recall (`recall/`) | none of its own | search, rerank, distil | ranking | scores; not a matter of states |
| Validity (`memory/validity.ts`, `capture/entry.ts`, `capture/lifecycle.ts`) | `valid_from`, `valid_until`, supersedes edges | capture, mark wrong, take back, forget, restore, undo, edit dates | the closer of a memory may itself go or move | an end is handed over with the memory that set it |
| Graph, projects, tags, tiers, rollover | edges, tags, tiers | traversal | limits and boundaries | pure functions against their definitions |
| Prompt capsule, standing context, vocabulary | caches | build, invalidate | stale caches | an edit is seen |
| Identity, tenancy, team, OAuth, MCP server, routes, schema | tokens, users, workspaces | HTTP and tool dispatch | authorisation | predicates on rows |

The components meet in D1. A write request takes an admission before it changes a source
row, stamps every statement with a marker that starts with its token, and renews the
admission before every call to Vectorize. A backup and an embedding cutover take the
maintenance lock; a restore takes the restore row and its lease. Each of the three claims
is one statement that reads the rows of the others and, in the same batch, rotates the
epoch so that older admissions lose their force. Triggers repeat the three conditions on
every source table.

`PROJECT.json` lists the hazards with their lines and the properties that cover them.

## 2. Plan

Order, most important first. The first twelve are done; the rest is open.

1. `WriteAdmission` over `MaintenanceBarrier`: everything else relies on the fence.
2. `R2Snapshot`: backup creation under a lock that lapses.
3. `R2Restore` over `RestoreContract`: pages, leases, cursors.
4. `VectorOutbox`: `capture/store.ts`, `capture/lifecycle.ts` and `vectorize/cleanup.ts`.
5. `EmbeddingMigration`: full and delta passes over a corpus that changes.
6. `TrashLifecycle`: forget, restore, delete for ever, purge, and the versions that go along.
7. `ChatGptSession` and `ProviderLease`: a single-use token; a lease that expires under its
   holder.
8. `NightlyJob` over `D1Budget`: nested reservations, with proofs.
9. `FtsIndex`: a derived index that is latched ready, breaks, and is rebuilt.
10. `PushDelivery`: overlapping runs over a store without compare-and-set.
11. `EntryVersions`: the texts a history keeps, whole or as lengths, and undo.
12. `ValidityWindows`: when a memory is true, and who ended it.
13. Open: bulk removals of vectors and an abstract "index follows the rows" for
    `VectorOutbox` to implement; the release of held captures; the daily write
    cap of push delivery; the move and layer routes of integrations; the invalidation of the
    prompt capsule and of the vocabulary; page arithmetic and traversal as pure
    operators.

Every safety property and every action property that a run checks has a proof. What is left
to TLC is named in section 7.

## 3. Modules

`MaintenanceBarrier.tla` is the promise of the fence without leases, clocks or SQL: the
corpus is shared, frozen or being restored; permissions are given only while it is shared,
raising a barrier takes all of them back, and only a holder changes the corpus.

`WriteAdmission.tla` is the fence. One D1 statement or batch is one action.

| variables | code |
| --- | --- |
| `admitted`, `current`, `timeLeft` | rows of `memory_write_admissions`; those of the current generation; `expires_at` |
| `handler`, `background`, `remote` | `handlerDone` and `pending` of `beginMemoryWriteAdmission`; a Vectorize call in flight |
| `lock` | `migration_control` |
| `run` | a `POST /migration/reembed` with its delta token |
| `restore`, `page` | `restore_state` and the calls of `restoreR2Backup` |
| `targetEmpty`, `changedBy` | whether the corpus is empty; history: who changed source rows since a barrier was raised |

Deadlines are kept as time left. `Tick` lets time pass; each test of a deadline takes the
age of the timestamp it uses, up to `Lag`, for the Worker reads its clock before the
statement travels and D1's `strftime('%s')` drops the fraction. The expired rows that
`acquireMemoryWriteAdmission` purges are purged in the same action, refused or not. A
remote call lands at any time within `RemoteTime`, also after its request was killed.
`AdoptsAnyLock` says whether a client of `/migration/reembed` may name a lock that is not
a cutover lock: the code lets it (section 5), and the guarantees are stated for clients
that do not. Restore cursors are left to `R2Restore`; a lock whose reason is
`r2-backup-snapshot` is taken to come from a backup, although the endpoint would accept
that reason from its caller, without an expiry.

`R2Snapshot.tla` is `createR2Backup`. The source is a version number; a page read adds the
version to what the attempt has `taken`. `assertMemoryWriteLockOwner` is two actions, for
the expiry is judged by the moment of asking and the owner by the moment of the answer.
Puts succeed, fail, or are stored although they fail for their caller. The tables are one
sequence of pages and a page is one chunk. There is one lock row, so `owner` and
`lockLive` stand for the fence: `SourceWrite` is possible whenever no lock counts.

`RestoreContract.tla` is the promise of a restore: it begins over an empty target, nobody
else touches the target until it is finished, and finished means equal to the archive.

`R2Restore.tla` is `restoreR2Backup` and the lease functions. A call is checked, planned,
claims a fresh or a resumed run, renews, inserts a page, counts, commits, or fails at any of
these points. Archives are sets of numbered rows, the four tables and cursors are one
sequence and one cursor. Verification of the manifest and of the chunk precedes the call.

The state that a promise speaks of, and the promise, stand in a small module of their own
where the component is one of several in a run: `BackupObjects` (`R2Snapshot`), `FtsMirror`
(`FtsIndex`), `MigratedRows` (`EmbeddingMigration`), `ProviderItems` (`ProviderLease`),
`SessionRow` (`ChatGptSession`), `ValidityIntervals` (`ValidityWindows`) and `VersionHistory`
(`EntryVersions`). The component adds its actions and its other variables; the module of the
run and the module of the proofs extend the small one, so both speak of the same property.

`VectorOutbox.tla` is one memory, its vectors and the journal of their deletions.

| variables | code |
| --- | --- |
| `row` | the row of `entries`: status and `vector_ids` |
| `ops` | `vector_cleanup_ops`: identifiers, `ready` 0 to 3, delete receipt |
| `visible`, `queue`, `flight` | Vectorize: what it returns, what it accepted and has not applied, upserts on the network |
| `up` | `storeMigrationEntry`, `upsertEntryVectors` with its caller's commit (`Unfenced`), `indexPendingAppendPassage` (`Passages`) |
| `removal` | `forgetEntry`, `deprecateWithValidity` |
| `hand` | a deletion under way: `settleVectorCleanupOp`, `submitLifecycleVectorCleanup`, or the drain |
| `overlooked` | history: vectors that left the row, or never entered it, outside of any journal (section 5) |

An upload has one vector, for its chunks share one fate, and identifiers of its own, as
`newVectorIds` mints them. The index accepts a mutation and applies it later, in order; a
request on the network lands at any time, also after its Worker was killed, or never. A
delete receipt counts the mutations accepted since `deleteSubmittedAt`: as soon as any of
them is processed, `cleanupDeleteWasProcessed` answers yes, which may be too early. Expiries
may have passed at any moment, except that the second expiry of a journal, 20 minutes after
it was claimed, outlasts an upsert of its own that is under way: that grace is what the
code relies on, and `Due` says so. Three pairs of awaits are one action each, for whatever
could happen between the two can also happen after them, or counts as a fault before them:
the authorisation of an upsert and its sending (it lands later anyway), its
acknowledgement and `markVectorCleanupReady`, and the read of the row before a deletion
and the authorisation of it. The journals of a page are
independent, so a drain takes one at a time; the two reads of a row before an update are
one, for a different answer only loses the compare-and-set. Not modelled:
`submitVectorCleanupBatch`, `forceActive`, providers without receipts and deletes of more
than one batch, the SQL budget, identifiers that two memories share, the commit of
`appendToEntry`, held updates, and restoring from the trash.

`EmbeddingMigration.tla` is `runBatch`, `runDeltaBatch` and their routes, between the
writes of the Worker that serves meanwhile.

| variables | code |
| --- | --- |
| `rows` | `entries`: `created_at`, `updated_at`, `INDEXABLE_SQL`, and the index `vector_ids` is from |
| `ledger`, `older` | the migration state in KV and the value before, for a read may be late |
| `lock` | `migration_control` with its final-delta lease |
| `batch` | the calls: phase, the ledger they read, what is left of their page |
| `returned` | history: entries indexed again under an old update time, which neither scan need meet |

Keys of a scan are pairs of time and id, and several writes fall on one time. A lease of the
lock may be over at any moment, so a delta batch that starts takes it. `storeMigrationEntry`
throws when its compare-and-set is lost, so a failure ends the page with the cursor before it.

`TrashLifecycle.tla` is `memory/trash.ts` for a few ids that are used again. Every call is a
read and, some time later, one batch whose statements carry the same guards; `pairs` are the
ids with the workspaces they were read in, `nonce` names the very trash row. A memory that is
too large is not kept (tier 3) and loses its history. The counter `nonces` is the order of
`trashed_at` as well.

`FtsIndex.tla` is the nightly `runFtsMaintenance` with its four await-separated parts
(rebuild, page, latch or restart; counts; content window), `repairFtsIndex` after a failed
write, and the triggers, which may be missing or of another body. Faults drop the table or
triggers, tear the index, change a row, or kill the night. `late` marks a fault that strikes
between a parity check, or the clearing of the latch, and what follows it.

`ProviderLease.tla` is the operation lease of one provider, its record per generation in KV
and the mirror rows. A sync lists items, inserts and deletes rows under `Holds`, and puts the
item map; a disconnect marks draining, trashes pages that its client asks for by cursor,
sweeps what the map does not know, retires the generation and erases the record. The lease
may end under its holder at any await and a call may die.

`DeviceDeliveries.tla` has the subscriptions, the history of what arrived where, and
`NothingTwice`. `PushDelivery.tla` is `pushDueItemsAllWorkspaces` over it: the slice of the
ring, the lease in KV that is put and read back, the refresh of the records, the record ahead
of the sends, the sends, what is taken back of them, `fail_count` as the run read it and as it
is, the cursor and the release. A workspace has one item whose date may move. History variables
count overlapping runs, records of an outdated date and answers that were lost.

`ChatGptSession.tla` is the session row by revision and state, the calls of
`chatGptAccessToken`, `importChatGptSession` and `disconnectChatGptSession`. `unsettled` are
the revisions whose token was sent and whose outcome is open.

`D1Budget.tla` is `SqlAllocation`: `available` says which statements each allocation holds,
not only how many, so that giving one back twice would be seen. `NightlyJob.tla` is
`runScheduledJobs` over it: the reserve for the release of the admission, the schema, the
admission, the rotation, passes that charge, or reserve and mutate Vectorize, a section with
an inner pass, the full-text share, and a Worker that is killed anywhere. One round of
passes with one section stands for the phases of the job, which repeat that pattern.

`EntryVersions.tla` is one memory with its history: the writers that take versions, and
`revertEntry` and `undoGroup` of `memory/undo.ts`. It is built on `VersionHistory.tla`, which
has the variables, the texts, of which some extend others, how `memory/versions.ts` reads a
version, and what a history must go on to be.

| variables | code |
| --- | --- |
| `content` | `entries.content` |
| `history` | `entry_versions`: the text in full or its length, the reason, `meta.recreated_incoming` |
| `call` | a writer or an undo: the row it read, the newest version, what it decided |
| `was`, `recreated` | history: the text before each version; how often a merge's incoming text became a row |

A writer reads the row and later commits its snapshot, its write and the prune in one batch
under a compare-and-set on the text. An undo reads the row, then the versions, then embeds,
and commits if its version number is still free. A status change and a digest mark need no
read; an append to a short memory is an `own` write. What is left out: tags, dates and
`vector_ids` of a version, the marker on rows that a job wrote, who may read or revert, the
release of rows that were held, and the trimming of incoming texts that are too large.

`ValidityWindows.tla` is `memory/validity.ts` with every call that ends a memory or gives an
end back. `ValidityIntervals.tla` has the windows and `planSupersede`, as an operator on two
of them.

| variables | code |
| --- | --- |
| `row` | `entries` and `entries_trash`: start, end, wrong or not, a revision, the newest version |
| `edges`, `kept` | supersedes edges; those in the trash row of a memory (`edges_json`) |
| `ask` | a capture told which memory it contradicts, before and after its insert; a status change; an edit of dates |
| `edits` | bound: calls counted so far |

A capture reads, embeds, is judged against a memory it read, inserts, and closes the older of
the two windows under a guard on the row it read. The statements of one batch are one action,
`retractionHook` and `unretractionHook` included. Left out: held and protected memories, the
dismissal of several memories in one call, the links of a person, workspaces, tiers and
rollover, flags on what was built on a memory, and `vector_ids`, so that a compare-and-set may
succeed here that fails in the code. Dates may lie later than the day of the call.

`MCR2Restore`, `MCVectorOutbox`, `MCEntryVersions` and `MCValidityWindows` instantiate one
component for TLC.
`MCWriteAdmission`, `MCLeases`, `MCFences` and `MCProgress` hold several instances at once:
a variable `part` that the initial state sets says which of them moves, and the others rest
in an initial state. The instances share no state, so each behaviour is a behaviour of one of
them, and a property that holds of all holds of each. Components that do share state in the
code meet through the fence, which `EmbeddingMigration`, `R2Snapshot` and `R2Restore` keep
as a variable of their own with the promises that `WriteAdmission` is shown to keep.

Operators named `Mut...` stand before the definition they mutate: each is that definition
with one plausible mistake, and a property is kept only if TLC finds it violated by such a
mistake.

## 4. Runs that pass

`admission_requests` (`MCWriteAdmission`, `WriteAdmission.cfg`): two instances. In the first,
two requests, two lock owners, one delta run, no restore; in the second one request, one
owner and two restore pages, so that one may take over the lease of the other. Lifetimes 3,
2, 2, `Lag` 1, one background task per request. Two requests are needed for one to purge, or
be refused, while the other runs; two owners for one to replace the lapsed lock of the other.
Lifetimes of a few ticks are enough: only their order, and `RemoteTime + Lag <=
AdmissionTTL`, are ever compared (16 minutes against a call), and the proofs are for all
values.
  - `BarrierExcludesAdmissions`, `NoRequestWritesBehindBarrier`, `RemoteOutsideBarrier`: a
    barrier keeps new writers out, has none inside, and no call of theirs lands behind it.
  - `LockExcludesRestore`: a lock that counts and an unfinished restore exclude each other.
  - `AdmittedWhileRunning`: no release before the last `waitUntil` task.
  - `ImplementsBarrier`: each step is a step of `MaintenanceBarrier` or none.
  - `SnapshotLockLapses`, `OrphanAdmissionLapses`: liveness, under weak fairness of `Tick`
    only. Clocks do advance; no request, handler or client is assumed to do anything.

`outbox` (`VectorOutbox.cfg`): a capture, an update and a passage, a `forget` and a
deprecation, of which any two happen; one drain, one fault, two mutations in the queue.
Two requests are the least for one to change the row under the other; a queue of two is
the least for a delete to wait behind, or in front of, an upsert; one fault kills a Worker
at any await or lets a call fail whose effect may or may not have happened.
  - `ListedIsServed`: what a fenced commit made the row refer to is never deleted.
  - `NothingForgotten`: whatever the index has, or will have once it applies its queue and
    what is on the network, is known to the row or to a journal.

`leases` (`MCLeases`, `Leases.cfg`): calls that read first and change later.
  - Trash: two calls, two ids, two workspaces, two memories and two trash rows. One id that
    serves two memories is the case that matters. `OnePlace`, `HistoryIsTheMemorys`,
    `OnlyWhatWasRead`.
  - Provider: two operations, two items, two rows, two generations, pages of one. Two items
    and a page of one are the least for a purge with a cursor; two rows for one that the map
    does not know. `NothingBehindPurge`: no row of a purged generation is left or appears.
    `NoRowWhileDraining`: nothing is inserted between the first page of a purge and its end.
  - History: two calls, three texts (`<<1>>`, `<<1, 2>>` which extends it, `<<2>>` which does
    not), three versions of which two are kept, or one of a mirror. Two calls are the least for
    one to commit behind the reads of the other; three versions the least for a prune to take
    the oldest while a length is cut from a newer one. `HistoryIsTrue`: prunes leave no gap and
    spare what is not a sync's, an append loses nothing, and a history that reads as the texts
    were goes on to do so, but for the undo of section 5 (`Torn`). `RecreatedOnce`: the text
    that a merge took in becomes a row of its own at most once.
  - Backup: two attempts, two IDs which they may share, up to two pages, one change of the
    source. Two states of the source are enough for an archive to be of both.
    `SnapshotIsOneState`; `PublishedRestorable`: what is published stays as it was and whole.

`fences` (`MCFences`, `Fences.cfg`): calls that overtake each other.
  - Restore: two calls, an archive of two rows and an empty one, pages of one row, one row of
    normal operation, offsets 0, 1 or none. Two rows and a page of one are the least for a
    cursor in the middle; two calls for one to overtake the other. `TargetUnmixed`,
    `CursorBacked`, `RewindsOnlyWhenEmpty`, `ImplementsContract` (completion included).
  - Migration: two entries, pages of one, two times, two locks; either calls one after the
    other and one write of the Worker, or two calls at once and none. Two entries are the
    least for a cursor between them; one write can fall before or behind it.
    `CompleteMeansRebuilt`.
  - Full text: two rowids, two contents, a page of two, a window of one, one fault.
    `ServedIsComplete`: with latch and triggers in place the index has every entry as it is.
  - Validity: three memories, dates 0 and 1, two counted edits, one call under way besides the
    ones of a single batch; memories take their names in order and a capture states no end.
    Three memories are the least for one to be ended by a second that a third ended in turn.
    `LinksHandOver`: who goes hands its own end to what it had ended.
  - Push: two runs, one device, two dates, one fault. `NothingTwice`: a subscribed device gets
    one date once, and again only for an overlap, an outdated read or an unheard answer, each
    counted. Section 6 proves it for any number of runs, workspaces and devices; why only of
    subscribed ones is in section 5.

`progress` (`MCProgress`, `Progress.cfg`): what must come about. Fairness, per component:
  - Nightly job: the cron comes back (weak fairness of its steps), and the Worker is not
    killed, the store not locked, every single night before the rotation (strong fairness of
    the three steps up to it). Ten statements for seven allocations, two passes, two
    workspaces of which one is the workspace '' of old entries, at which the cursor starts.
    `LimitKept`, `NothingStranded`, `PromisesAffordable`, and `TurnsComeRound`: a workspace
    that keeps its entries has its night again and again.
  - Session: calls that are not killed go on. Two calls, a disconnect, three imports.
    `TokenSentOnce`, `NewestPrevails`, `RefreshSettles`.
  - Full text: the night comes back (weak fairness). `ComesBack`, if not every night an
    entry is written between its two counts; see section 5 for `Stranded`.
  - Push: runs come back and the lease expires. One run, two workspaces, a slice of two, one
    date, one fault. `EveryoneReached`; with a slice smaller than the ring it fails
    (`push_ring`).
  - Outbox: one capture, one `forget`, two faults. Requests that are not killed go on, the
    index applies what it accepted and accepts what arrives, and the cron comes back to every
    journal. The last is strong fairness, for whether a journal is due changes with the
    uploads it waits for; the code orders journals by age and excludes those of earlier
    pages, so none is starved. `IndexConverges`: in the end there are no journals, and the
    index has nothing that the row does not list.

Only one component of the three composite modules moves in a behaviour, so the disjunction
of two fairness conditions is the one of the component that is there.

The deadlock check is on in `admission_requests`: time passes. It is off in the others: calls, faults and dates are bounded by name, and where they are used up nothing
is left to do.

## 5. Runs that fail: where the code and its documentation part

- `lock_adopted`: `acquireFinalDeltaLease` replaces the expiry of whatever lock it is given
  and `releaseFinalDeltaLease` clears it. `POST /migration/write-lock` answers with the
  lock of a backup that is running, owner included, and `POST /migration/reembed` accepts
  that owner. A backup that is then killed leaves a lock that never lapses, against
  `docs/fork/BACKUP_RESTORE.md:23`.
- `restore_reinserts`: `completed_at` is read before the lease is claimed and not again. A
  call with an old offset that read it too early reinserts rows that were deleted after the
  completion, against `docs/fork/BACKUP_RESTORE.md:35`.

- `update_loses_vectors`: `upsertEntryVectors` marks its journal ready before its caller
  commits, and the commits of `updateEntryContent`, undo and the mirrors do not require
  `ready = 1`, unlike those of `storeMigrationEntry` (`src/capture/store.ts:359`). A drain
  in between deletes the new vectors and the row then refers to nothing, against
  `src/vectorize/cleanup.ts:343`.
- `forget_drops_tombstone`: `forgetEntry` hands the vectors it read before its batch to
  `submitLifecycleVectorCleanup`, which drops the journal of the batch when there are none.
  Vectors committed in between lose row and journal at once, against
  `src/vectorize/cleanup.ts:4`.

- `push_ring`: a run that finds nothing due in its slice of the ring returns before it moves
  the cursor (`src/push/send.ts:736`). The next run reads the same slice, so a workspace
  behind it is reached only after something becomes due within the slice, against the comment
  at `src/push/send.ts:711`. The run has two workspaces and a slice of one; the code has 4.

- `undo_over_write`: `revertEntry` reads the row (`src/memory/undo.ts:330`), then the versions.
  If a status change and an append commit between the two, going back to the status version
  means the text from before the append, which is the text that was read: the undo takes it
  for no change of text, records its version as a length, and puts the old text back
  over the appended one. The appended text is in no version, and the length has no text that
  is long enough, so every later read of the versions throws `VersionChainError`, against the
  comment at `src/memory/versions.ts:381`. The version number does not protect it, for it is
  taken from the versions, which were read after the append. Going back to the version right
  after the row, as undo does by default, ends as a no-change; the defect needs something
  else to change as well, as that status, or a `to_version` of the caller. Members of a group
  are safe: they compare the newest version with the one at their classification.

- `closers` (`MCValidityWindows`, `ValidityWindows_closers.cfg`): what a capture contradicts is
  read with the candidates (`src/capture/duplicate.ts:145`), judged, and read again
  (`src/capture/entry.ts:493`), and none of these leaves out a memory that is marked wrong, nor
  does `supersedeStatements` look at the one that closes. So x is stored and marked wrong, and a
  capture that comes afterwards is told that it contradicts x, starts no later than x, and is
  closed by x, against `src/memory/validity.ts:201`: what a memory that is wrong has closed should
  be open. The same comes about when y is in the trash while its closer is marked wrong, and is
  restored closed. `MCValidityWindows` lets calls run one after the other.

Further observations are in the models but are not runs. A later attempt of an update
keeps its upload when the content is the same; if the list was changed in between, what it
replaces is in no journal until `deleteStaleVectors`, which skips what the index does not
return yet. `overlooked` marks these vectors and those of the last two findings, and
`NothingForgotten` and `IndexConverges` exempt them, so that no property covers the later
attempt. And a manifest put that is stored although it fails makes `createR2Backup` delete the
chunks of a manifest that is now published. `misled` marks these IDs and the two properties of published archives exempt them.

- Full text: an index row behind the last entry, left by an entry that was deleted while the
  index was not live, is never met by a page of the backfill, and the parity check then
  refuses the latch for ever (`Stranded`). A write between the two nightly counts can make the
  check reset an index that is in step, or hide one that is not until the next night.
- Push: a fetch that throws after it was delivered is sent again; a record that a run put over
  a newer one of an overlapping run can drop a notification. Both are in the model, and
  `EveryoneReached` exempts overlaps. A device that was given up leaves the records with the
  next put (`pruneDeliveryMap`), while runs that read the subscriptions before it was still
  have it: each of them sees a record without it under the lease and sends to it again,
  overlap or not. This takes three runs, which the instance does not have; `NothingTwice` is
  about the devices that are subscribed.
- Integrations: a request with an old cursor that arrives after a reconnection repeats the
  count of a page; a late read of KV may count a swept row again. Only counts are affected.
- Trash: the purge deletes the vectors of all the rows it chose, although
  `src/memory/trash.ts:615` speaks of the purged ones only; two memories that link to each
  other and are forgotten and restored in the same order lose the link. Vectors and links are
  not modelled.
- Migration: an entry that is indexed again under its old update time by the serving Worker,
  after the full scan passed it, is met by no delta scan unless its `vector_ids` are empty
  (`returned`).

## 6. Proofs

The proof modules hold for every value of the constants: any number of requests, owners,
delta runs, calls, archives, passes, statements and workspaces, any lifetimes, page limits
and offsets.

`WriteAdmissionProofs.tla`, from `NameAssumption` (`Null` is nobody's name) and
`TimingAssumption` (lifetimes are numbers, a remote call and the lag of a clock fit into
the lifetime of an admission, the lag is shorter than a barrier's). All theorems but
`TypeCorrect` also assume `~AdoptsAnyLock`; section 5 shows what happens without it.
That no admission counts behind a barrier is not inductive. `FenceInv` adds what makes it
so: `RemoteCovered` and `RemoteAwaited` (a remote call lands while the admission it renewed
still counts, whatever the lag), and `SnapshotKeptApart` (a delta run never has the lock
of a backup). The invariance proof has a lemma per group of actions. From it follow
`NoAdmissionBehindBarrier`, `LockAndRestoreApart`, `RemoteCallsLandFirst`,
`SourceFencedFromRequests`, `AdmissionOutlivesTasks`, and `FenceImplementsBarrier`: the
initial states are initial states of `MaintenanceBarrier`, and each action is one of its
steps or changes none of its variables.

`R2BackupProofs.tla`, first part, from `RestoreAssumption` alone. `TargetUnmixed` and `CursorBacked`
say nothing of what calls have read, so they are not inductive. `RestoreInv` adds that what
a call has read is worth something only while it holds the lease: then archive, cursor and
completion are still the ledger's (`HolderUpToDate`), its offset skips no row (`NoGap`), and
the rows of the page it has inserted are still there (`PageLanded`), for no request and no
other call can have removed them. A call that lost its lease may hold anything; every
action that would use it tests the lease first. `CompletionIsWhole` needs no reasoning about
the counts that `Verify` compares: the rows below the cursor and those of the last page are
the archive, and `TargetUnmixed` says that there is nothing else. The count is a second line
of defence. `RestoreImplementsContract` maps `ClaimFresh` to `Begin`, an insertion to
`Fill`, or to `Use` once the restore is complete, `Commit` to `Finish` when it completes the
restore, requests to `Use`, and everything else to a stutter.

Second part, from `BackupAssumption` (names are not the absence of one, a cutover is no
attempt), `BackupIsOneState` and `BackupRestorable`. The lock may lapse at any await, so what
an attempt has read is one version only while it holds the lock or was told that it did.
`SnapshotInv` says that of each attempt (`AttemptInv`: what it has `taken` is the current
version while its lock counts, and at most one version at every put; the chunks it would
delete are its own), and of each manifest (`PublishedInv`: one version, its chunks are there
as its writer put them, and that writer is over, for nobody else would delete them).

`NightlyJobProofs.tla`, from `BudgetAssumption` and `JobAssumption` (the names of the
allocations differ, the reserves are numbers, the release reserve fits the limit). That the
limit is kept is a matter of counting only because no statement is held twice: `JobInv` has
`HeldApart` (allocations are disjoint, and none holds what ran), `Counted` (as many ran as
the ledger says), `Accounted` (each statement is held by an allocation or was run), `PassesFit` and
`AllocationsFit` (which allocations are open at which stage), and `Provided` (a pass that
sent its mutation, and the admission to be released, have what they need). The first part
of the module proves the operations of a budget, each for any allocation; the second has a
lemma per action of the job. `LimitHolds`, `PromisesAreAffordable`, `NothingIsStranded` and
`StatementsHeldApart` follow.

`TrashLifecycleProofs.tla`, from `TrashAssumption` (finitely many ids, the bounds are
numbers, a row is not the absence of one). None of the three properties is inductive alone.
`TrashInv` adds `LivesApart` (no two places hold one memory, and every memory has a number
that was given out), without which an edit could give the history of one memory to another;
`NoncesKnown` and `ReadRow` (a nonce that was read is on the row it was read from, or on no
row, for trash rows are numbered as they are made), without which a batch could take another
memory under the same id; and `IdleReadsNothing`. `MemoriesStay` and `ReadingStays` say once
what keeps the two halves; then there is a lemma per action. `OnePlaceHolds`, `HistoryStays`
and, from the same invariant, the action property `OnlyWhatWasReadHolds` follow.

`EntryVersionsProofs.tla`, from `TextsAssumption` (texts are sequences, and with a text each of
its beginnings) and `KeepAssumption` (something is kept). That a merge's text becomes a row
at most once is not inductive: what forbids a second time is the `covers` of some version, and
versions are pruned. `HistoryInv` adds `Ordered` (a version covers only merges that are
older), so that with the covering version the merge itself is gone, for prunes take the
oldest first; `NoGap`; `TakenOut` (a merge that was taken out is covered, or is pruned);
and `DecidedCalls` (what an undo has decided to take out is not covered yet, unless the
newest version has moved, and then it will not commit). For the texts it adds `Lengths` (a
version has a text or a length) and `ReadCalls` (what a call has read is a text). The full
copy that a length is cut from is a minimum, and most of the module shows that an added version
and a prune leave it, or the row, as the base of each version. `RecreatedAtMostOnce` and
`HistoryTold`, which is `HistoryIsTrue` with its exception, follow.

`ValidityWindowsProofs.tla`, from `ValidityAssumption` (dates are numbers, `None` is no date and
no memory): `EndsHandedOver`, an action property, needs little of the history. `WindowsInv` has
that edges join live memories and none a memory with itself, in the table, in the trash and in
what captures were told, and that a version about dates has the status the memory still has:
then an undo of dates never changes the status, and of all actions only marking, forgetting
and an undo back to wrong can end a standing memory. For these `retractionHook` is computed:
who had ended what goes, and who takes its place.

`IntegrationProofs.tla`, from `ProviderAssumption` (keys and rows are positive numbers, there is a
highest key, generations are numbers from 0). A sync may outlive its lease, so that no sync
writes behind a purge is a matter of what the insert tests: `LeaseInv` adds that whoever purges
the current generation finds it draining, that nothing is live when a purge has seen its end,
and that purged generations are older than the current one (`Placed`). From it
`NothingStaysBehindPurge` and the action property `DrainingOnlyTakes`. For the session,
`SessionInv` says that a revision is given out once and belongs to one grant, that only the call
that marked a revision settles it, and that a revision with an open answer is never ready:
`TokensSentOnce` and `NewestGrantPrevails` follow without any assumption.

The last part of `IntegrationProofs` is push delivery, from `PushAssumption` (workspaces and
devices are numbered and finitely many, limits are positive): `PushTypeCorrect` and
`DeliveredOnce`, which states `NothingTwice` for any number of runs, workspaces and devices. The
property is a count, and not inductive: before a run sends, nothing says that it may. `Slack` is
what the bound still allows once every run under the lease (`Holders`) that has not sent to a
device has done so: overlaps, outdated records, unheard answers and one for the lease being
held, less what was delivered and less these runs. An overlap counts for the run that comes in
and a lost answer for the notification it was about, so coming under the lease and sending leave
it as it is; it rises with a record of an outdated date and when a run leaves the others without
having sent, and it falls only when the last run under the lease leaves having sent. `Accounted`
says that it never falls below -1, and what holds at 0 (nobody has the lease, or some holder is
not `Committed` to the device, or the record has the device, or the date has moved on) and at -1
(no holder is committed, and if the date is still the same the record has the device and no
holder remembers otherwise or will put a record without it: `Harmless`). So at -1 a run that
comes under the lease reads the device in the record, leaves it there and does not send.
`Grounded` ties what a run remembers to the dates and the subscriptions, which only move on;
the operators of the model (`Sorted`, `Slice`, `Interleaved`, `Reserved`, `FirstOf`) have a
lemma each, of which `SortedFacts` needs that a finite set of numbers has one of every rank
(`RankExists`). TLC checked `PushInv` as an invariant, with three runs and with three devices,
before it was proved, and refuted the property as it stood, about all devices.

`IndexProofs.tla`, from `MirrorAssumption` (rowids are 1 to n, absent is no content, the bounds
are numbers): that a ready and live index is complete is not inductive, for a night latches on
a comparison it made earlier. `IndexInv` adds `LatchesInStep` (between parity check and latch
the index is in step or not live, whatever was written: live triggers keep it so, and who
breaks them leaves a mark), `RebuildsUnready` and `RepairsUnready` (who rebuilds has cleared the
latch, unless a fault struck since). From `MigrationAssumption` (ids are positive and finitely
many, bounds are numbers, nothing is not a row), `CompleteIsRebuilt`: `Owes` says what a phase
of the migration has still to embed, and `MigrationInv` that this is `Ahead` of every cursor that
may ever be used: of both ledgers in KV (`LedgerInv`), and of the page and the cursor of every
batch (`CallInv`, `PageInv`), the delta cursor only under the lock it belongs to. The theorem is
for the whole of `Spec`: any number of overlapping batches among the writes of the Worker, more
than the runs explore.

The last part, from `OutboxAssumption` (every call has a name of its own, `Null` names nothing,
the bounds are numbers): `OutboxTypeCorrect`, `ListedServed` and `NothingLost`. Of the index only
what it will have once its queue is applied matters, and for each vector only the last mutation
that names it (`Served`). `OutboxInv` says who may still act on what. A journal names vectors of
requests that are over, except that of its own upload (`OpInv`); `ready` 1 and 3 mean that they
have landed, a receipt that they are gone. Whoever works on a journal knows all of its vectors, or
those it does not know are gone for good (`HandInv`, `Covered`): that is why a drain may take a
journal again that another drain is at. While an upload may commit under its journal, the journal
is whole and was taken by nobody who deletes (`JournalInv`), so a fenced commit lists only what is
served (`RowInv`). For `NothingForgotten`, that some journal names the vector is not inductive, for
it may be one that is about to be retired or overwritten without it: `CareInv` asks for the row, or
a journal that nobody at work on it will leave it out of (`Keeps`), besides what is gone or
`overlooked`; and that a commit has such a keeper apart from the journal it is about to drop.

## 7. Only model-checked, and not modelled

Liveness under fairness is beyond the prover and stays with TLC, as do `ENABLED` and
induction over data: `SnapshotLockLapses`, `OrphanAdmissionLapses`, `TurnsComeRound`,
`RefreshSettles`, `ComesBack`, `EveryoneReached`, `IndexConverges`. `AllTypeOK` of a composite
run is the conjunction of type invariants that have a theorem each.

The models cover the code whose correctness is a matter of states and interleavings. That is
a small share of the repository: the installer (`installer/`), the user interface and its
translations (`public/`), build and check scripts (`scripts/`), and in `src/` itself parsing,
validation, formatting, prompts, scoring and ranking, tool and route tables. These are
sequential code over text and real numbers, or calls of a language model; a model of them
would repeat the code, and tests reach them. Within the modelled components, what is left out
is listed with each component in `PROJECT.json` and above; the parts of the plan that are open
are item 13 of section 2.
