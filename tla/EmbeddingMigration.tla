-------------------------- MODULE EmbeddingMigration --------------------------
(* migration/embedding.ts and routes/migration.ts: the entries are re-embedded *)
(* for a new index in batches, a full scan by creation and then passes over    *)
(* what changed since it began, the last one under the write lock, while the   *)
(* serving Worker goes on writing to the index before. The ledger of the       *)
(* batches is a KV value, and a read may return the value before. Time is a    *)
(* counter; several calls fall on one value of it.                             *)
EXTENDS MigratedRows

VARIABLES ledger, older, \* KV: the migration state, and the value before
          batch, clock, locks, changes \* with the bounded counters

vars == <<rows, ledger, older, lock, batch, clock, locks, changes, returned>>

Idle == [at |-> "idle", phase |-> "full", led |-> Nothing, page |-> <<>>, reached |-> Nothing,
         failed |-> FALSE, owner |-> 0]
Start == <<0, 0>>    \* no cursor
Fresh == [started |-> clock, cursor |-> Start, finished |-> FALSE,
          deltaCursor |-> Start, deltaOwner |-> 0]
Before(k, l) == k[1] < l[1] \/ (k[1] = l[1] /\ k[2] < l[2])
Init == /\ rows \in [Ids -> {Nothing} \cup [created : {1}, updated : {1}, indexable : BOOLEAN, vec : {"none"}]
                           \cup [created : {1}, updated : {1}, indexable : {TRUE}, vec : {"old"}]]
        /\ ledger = Nothing /\ older = Nothing /\ lock = Nothing
        /\ batch = [b \in Batches |-> Idle] /\ clock = 1 /\ locks = 0 /\ changes = 0 /\ returned = {}

--------------------------------------------------------------------------------
(* The serving Worker; every write of it is refused under the lock.            *)
Written(i, row) == rows' = [rows EXCEPT ![i] = row]
Serves == lock = Nothing /\ changes < MaxChanges /\ changes' = changes + 1
Later(i) == IF rows[i].updated >= clock THEN rows[i].updated + 1 ELSE clock

Capture(i) ==
    /\ Serves /\ rows[i] = Nothing
    /\ Written(i, [created |-> clock, updated |-> clock, indexable |-> TRUE, vec |-> "old"])
    /\ UNCHANGED <<ledger, older, lock, batch, clock, locks, returned>>

(* An import keeps the times it was given and has no vectors yet. *)
Import(i) ==
    /\ Serves /\ rows[i] = Nothing
    /\ \E t \in 1..clock : Written(i, [created |-> t, updated |-> t, indexable |-> TRUE, vec |-> "none"])
    /\ UNCHANGED <<ledger, older, lock, batch, clock, locks, returned>>

(* New content, embedded or not: vectors of either kind are of the index before. *)
Edit(i) ==
    /\ Serves /\ i \in Indexable /\ Later(i) <= MaxTime
    /\ \E vec \in {"old", "none"} : Written(i, [rows[i] EXCEPT !.updated = Later(i), !.vec = vec])
    /\ returned' = returned \ {i}
    /\ UNCHANGED <<ledger, older, lock, batch, clock, locks>>

(* Deprecated or held: out of the index.                                       *)
Withdraw(i) ==
    /\ Serves /\ i \in Indexable
    /\ Written(i, [rows[i] EXCEPT !.indexable = FALSE, !.vec = "none"])
    /\ UNCHANGED <<ledger, older, lock, batch, clock, locks, returned>>

(* Taken back into the index by applyStatus, or repaired by vectorize-pending; *)
(* neither touches the update time.                                            *)
TakeBack(i) ==
    /\ Serves /\ rows[i] # Nothing /\ (rows[i].vec = "none" \/ ~rows[i].indexable)
    /\ \E vec \in {"old", "none"} : /\ Written(i, [rows[i] EXCEPT !.indexable = TRUE, !.vec = vec])
                                    /\ returned' = IF vec = "old" THEN returned \cup {i} ELSE returned
    /\ UNCHANGED <<ledger, older, lock, batch, clock, locks>>

Tick == /\ clock < MaxTime /\ clock' = clock + 1
        /\ UNCHANGED <<rows, ledger, older, lock, batch, locks, changes, returned>>

--------------------------------------------------------------------------------
(* The operator. setMemoryWriteLock waits until no admission is left, so no    *)
(* batch without the lock is under way; it may be cleared by force.            *)
SetLock ==
    /\ lock = Nothing /\ locks < MaxLocks
    /\ \A b \in Batches : batch[b].at # "idle" => batch[b].owner # 0
    /\ locks' = locks + 1 /\ lock' = [owner |-> locks + 1, lease |-> Nothing, complete |-> FALSE]
    /\ UNCHANGED <<rows, ledger, older, batch, clock, changes, returned>>

ClearLock ==
    /\ lock # Nothing /\ locks < MaxLocks /\ lock' = Nothing
    /\ UNCHANGED <<rows, ledger, older, batch, clock, locks, changes, returned>>

--------------------------------------------------------------------------------
(* readMigration. *)
Readable == {ledger, older}

(* What the scan of a phase is ordered by. *)
Key(phase, row, i) == <<IF phase = "full" THEN row.created ELSE row.updated, i>>

(* The entries a phase is about, and those of them after a cursor. *)
Pending(led, phase) ==
    {i \in Indexable : phase = "full" \/ rows[i].updated >= led.started \/ rows[i].vec = "none"}
After(led, phase, cursor) == {i \in Pending(led, phase) : Before(cursor, Key(phase, rows[i], i))}

PageOf(led, phase, cursor) ==
    LET all == After(led, phase, cursor)
        first == {i \in all : Cardinality({j \in all : Before(Key(phase, rows[j], j), Key(phase, rows[i], i))}) < MaxEntries}
    IN [i \in first |-> rows[i]]

Begun(b, phase, led, owner) ==
    LET cursor == IF phase = "full" THEN led.cursor ELSE led.deltaCursor
    IN batch' = [batch EXCEPT ![b] = [Idle EXCEPT !.at = "embed", !.phase = phase, !.led = led, !.reached = cursor,
                                                  !.page = PageOf(led, phase, cursor), !.owner = owner]]

(* runBatch, under an admission. *)
BeginFull(b) ==
    /\ batch[b].at = "idle" /\ lock = Nothing
    /\ \E led \in Readable : Begun(b, "full", IF led = Nothing THEN Fresh ELSE led, 0)
    /\ UNCHANGED <<rows, ledger, older, lock, clock, locks, changes, returned>>

MutDeltaFrom(led, restart, owner) ==    \* the cursor of the pass before the lock is kept
    IF restart THEN [led EXCEPT !.deltaCursor = Start, !.deltaOwner = owner] ELSE led
(* The delta cursor holds within one lock only. *)
DeltaFrom(led, restart, owner) ==
    IF restart \/ (owner # 0 /\ led.deltaOwner # owner)
      THEN [led EXCEPT !.deltaCursor = Start, !.deltaOwner = IF owner # 0 THEN owner ELSE @]
      ELSE led

(* runDeltaBatch, under an admission or the lock's lease, which is taken when  *)
(* it is free or over; it may be over at any time, so it is just taken.        *)
BeginDelta(b, restart) ==
    /\ batch[b].at = "idle"
    /\ LET owner == IF lock = Nothing THEN 0 ELSE lock.owner IN
       \E led \in Readable \ {Nothing} : led.finished /\ Begun(b, "delta", DeltaFrom(led, restart, owner), owner)
    /\ lock' = IF lock = Nothing THEN lock ELSE [lock EXCEPT !.lease = b]
    /\ UNCHANGED <<rows, ledger, older, clock, locks, changes, returned>>

(* The lock's lease for a batch of the lock, an admission for the others.      *)
MayWrite(b) == IF batch[b].owner = 0 THEN lock = Nothing
               ELSE lock # Nothing /\ lock.owner = batch[b].owner /\ lock.lease = b

(* storeEntry of the next entry of the page; it lands if the row is as it was  *)
(* read. The first failure ends the page, and the cursor stays before it.      *)
Embed(b) ==
    /\ batch[b].at = "embed" /\ batch[b].page # <<>>
    /\ LET page == batch[b].page
           at(i) == Key(batch[b].phase, page[i], i)
           i == CHOOSE x \in DOMAIN page : \A y \in DOMAIN page : ~Before(at(y), at(x))
       IN \/ /\ MayWrite(b) /\ rows[i] = page[i] /\ page[i].indexable
             /\ Written(i, [rows[i] EXCEPT !.vec = "new"])
             /\ batch' = [batch EXCEPT ![b].page = [x \in DOMAIN page \ {i} |-> page[x]], ![b].reached = at(i)]
             /\ returned' = returned \ {i}
          \/ /\ batch' = [batch EXCEPT ![b].page = <<>>, ![b].failed = TRUE]
             /\ UNCHANGED <<rows, returned>>
    /\ UNCHANGED <<ledger, older, lock, clock, locks, changes>>

(* The rest is counted, the lock marked complete if there is none, the ledger  *)
(* put. A batch that achieved nothing is not done.                             *)
Finish(b) ==
    /\ batch[b].at = "embed" /\ batch[b].page = <<>>
    /\ LET t == batch[b]
           cursor == IF t.phase = "full" THEN t.led.cursor ELSE t.led.deltaCursor
           done == After(t.led, t.phase, t.reached) = {} /\ ~(t.failed /\ t.reached = cursor)
           next == IF t.phase = "full" THEN [t.led EXCEPT !.cursor = t.reached, !.finished = @ \/ done]
                                       ELSE [t.led EXCEPT !.deltaCursor = t.reached]
       IN IF done /\ t.owner # 0
            THEN IF MayWrite(b)
                   THEN /\ lock' = [lock EXCEPT !.complete = TRUE]
                        /\ ledger' = next /\ older' = ledger
                   ELSE UNCHANGED <<lock, ledger, older>>
            ELSE /\ ledger' = next /\ older' = ledger
                 /\ UNCHANGED lock
    /\ batch' = [batch EXCEPT ![b] = Idle]
    /\ UNCHANGED <<rows, clock, locks, changes, returned>>

(* The call dies. *)
Crash(b) == /\ batch[b].at # "idle" /\ batch' = [batch EXCEPT ![b] = Idle]
            /\ UNCHANGED <<rows, ledger, older, lock, clock, locks, changes, returned>>

Next == \/ \E i \in Ids : Capture(i) \/ Import(i) \/ Edit(i) \/ Withdraw(i) \/ TakeBack(i)
        \/ Tick \/ SetLock \/ ClearLock
        \/ \E b \in Batches : \/ BeginFull(b) \/ (\E restart \in BOOLEAN : BeginDelta(b, restart))
                              \/ Embed(b) \/ Finish(b) \/ Crash(b)
Spec == Init /\ [][Next]_vars

--------------------------------------------------------------------------------
TypeOK ==
    /\ rows \in [Ids -> EntryRow \cup {Nothing}] /\ returned \subseteq Ids
    /\ {ledger, older} \subseteq MigrationLedger \cup {Nothing}
    /\ lock \in WriteLock \cup {Nothing}
    /\ locks \in 0..MaxLocks /\ clock \in 1..MaxTime /\ changes \in 0..MaxChanges
================================================================================
