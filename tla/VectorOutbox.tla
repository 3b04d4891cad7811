----------------------------- MODULE VectorOutbox -----------------------------
(***************************************************************************)
(* The vectors of one memory and the journal of their deletions:           *)
(* src/vectorize/cleanup.ts and its callers in src/capture.                *)
(*                                                                         *)
(* A row of entries lists the vectors that index it.  An upload journals   *)
(* the vectors it will add and replace, sends them to the index, marks the  *)
(* journal ready and commits the list by compare-and-set.  Whatever stops   *)
(* on the way, the journal is what the drain later deletes from the index.  *)
(* D1 statements are atomic; every await is an interleaving point.  One    *)
(* upload has one vector: the chunks of a content share its identity.      *)
(***************************************************************************)
EXTENDS Naturals, FiniteSets, Sequences

CONSTANTS
    Uploads,        \* uploads, each with identifiers of its own
    Unfenced,       \* those through upsertEntryVectors: update, undo, mirror
    Passages,       \* those of indexPendingAppendPassage, which replace nothing
    Forgets,        \* calls of forgetEntry
    Deprecations,   \* calls of deprecateEntry
    Drains,         \* passes of drainPendingVectorCleanup, one journal at a time
    MaxFaults,      \* bound: killed Workers and failed remote calls
    MaxQueue,       \* bound: mutations accepted and not applied
    MaxRequests,    \* bound: uploads and removals in one behaviour
    Null

Removals == Forgets \cup Deprecations

Actors == Uploads \cup Removals \cup Drains

\* The second journal of an upload is the one of deleteEntryVectors.
Journals == (Uploads \cup Removals) \X {1} \cup Unfenced \X {2}

Row == [state : {"live", "deprecated", "gone"}, listed : SUBSET Uploads]

Mutation == [kind : {"upsert", "delete"}, ids : SUBSET Uploads]

\* How many mutations the index has still to apply before describe() answers
\* that the delete was processed; Null without a receipt.
Receipt == Nat \cup {Null}

Op == [ids : SUBSET Uploads, ready : 0..3, receipt : Receipt]

\* Every call has a name of its own, and Null names nothing.
ASSUME OutboxAssumption ==
    /\ Unfenced \subseteq Uploads /\ Passages \subseteq Uploads \ Unfenced
    /\ Uploads \cap Removals = {} /\ Uploads \cap Drains = {} /\ Removals \cap Drains = {}
    /\ MaxFaults \in Nat /\ MaxRequests \in Nat
    /\ MaxQueue \in Nat \ {0}
    /\ Null \notin Nat \cup Journals \cup Op

VARIABLES
    row,        \* the memory
    ops,        \* vector_cleanup_ops
    visible,    \* vectors that the index returns
    queue,      \* mutations that the index has accepted and not applied
    flight,     \* uploads on the network
    up, removal, hand,  \* uploads, removals, and the deletion each actor is at
    overlooked, \* history: replaced or removed from the row outside of any journal
    faults

vars == <<row, ops, visible, queue, flight, up, removal, hand, overlooked, faults>>

-------------------------------------------------------------------------------
Hand == [at : {"idle", "claim", "judge", "delete", "record", "retire"},
         kind : {"settle", "lifecycle", "drain"}, op : Journals \cup {Null},
         ids : SUBSET Uploads, ready : 0..3, receipt : Receipt]

NoHand == [at |-> "idle", kind |-> "settle", op |-> Null, ids |-> {}, ready |-> 0,
           receipt |-> Null]

\* The row, the journal, the index and everything the actors hold.
TypeOK ==
    /\ row \in Row
    /\ ops \in [Journals -> Op \cup {Null}]
    /\ visible \subseteq Uploads
    /\ queue \in Seq(Mutation)
    /\ flight \subseteq Uploads
    /\ up \in [Uploads -> [at : {"idle", "read", "journalled", "sent", "failing",
                                 "ready", "committed", "retiring", "second", "ended"},
                           seen : Row, prior : SUBSET Uploads, stale : SUBSET Uploads]]
    /\ removal \in [Removals -> [at : {"idle", "read", "ended"}, seen : Row]]
    /\ hand \in [Actors -> Hand]
    /\ overlooked \subseteq Uploads
    /\ faults \in 0..MaxFaults

NewRow == [state |-> "live", listed |-> {}]

\* An upload or a removal that has not begun, or has ended.
Upload(at) == [at |-> at, seen |-> NewRow, prior |-> {}, stale |-> {}]

Removal(at) == [at |-> at, seen |-> NewRow]

\* A memory just captured, not yet indexed.
Init ==
    /\ row = NewRow
    /\ ops = [j \in Journals |-> Null]
    /\ visible = {} /\ queue = <<>> /\ flight = {}
    /\ up = [u \in Uploads |-> Upload("idle")]
    /\ removal = [x \in Removals |-> Removal("idle")]
    /\ hand = [a \in Actors |-> NoHand]
    /\ overlooked = {}
    /\ faults = 0

-------------------------------------------------------------------------------
(* The index.                                                              *)

Exists(j) == j \in Journals /\ ops[j] # Null

Fault == faults < MaxFaults /\ faults' = faults + 1

\* An accepted mutation is applied later, in the order of acceptance.
Accept(kind, ids) ==
    Len(queue) < MaxQueue /\ queue' = Append(queue, [kind |-> kind, ids |-> ids])

\* Mutant of Later: the receipt is not compared, only counted.
MutLater(receipt) == IF receipt # Null THEN receipt - 1 ELSE receipt

Later(receipt) == IF receipt \in Nat \ {0} THEN receipt - 1 ELSE receipt

Apply ==
    /\ queue # <<>>
    /\ visible' = IF Head(queue).kind = "upsert" THEN visible \cup Head(queue).ids
                                                 ELSE visible \ Head(queue).ids
    /\ queue' = Tail(queue)
    /\ ops' = [j \in Journals |->
                 IF ops[j] = Null THEN Null
                                  ELSE [ops[j] EXCEPT !.receipt = Later(@)]]
    /\ hand' = [a \in Actors |-> [hand[a] EXCEPT !.receipt = Later(@)]]
    /\ UNCHANGED <<row, flight, up, removal, overlooked, faults>>

\* A request reaches the index, whether or not its sender still waits for it.
Land(u) ==
    /\ u \in flight
    /\ flight' = flight \ {u}
    /\ Accept("upsert", {u})
    /\ UNCHANGED <<row, ops, visible, up, removal, hand, overlooked, faults>>

\* The request of a killed Worker may never arrive.
Vanish(u) ==
    /\ u \in flight /\ up[u].at = "ended"
    /\ flight' = flight \ {u}
    /\ UNCHANGED <<row, ops, visible, queue, up, removal, hand, overlooked, faults>>

-------------------------------------------------------------------------------
(* Deleting what a journal names: settleVectorCleanupOp, the second half of *)
(* submitLifecycleVectorCleanup, and the drain.                            *)

Begin(a, kind, j, ids) ==
    hand' = [hand EXCEPT ![a] = [NoHand EXCEPT !.at = "judge", !.kind = kind,
                                               !.op = j, !.ids = ids]]

Goes(a, at) == hand' = [hand EXCEPT ![a].at = at]

Stops(a) == hand' = [hand EXCEPT ![a] = NoHand]

IndexUnchanged == UNCHANGED <<visible, queue, flight>>

ActorsUnchanged == UNCHANGED <<up, removal, overlooked>>

\* An upload that its request may still send or that is on the network.
Pending(u) == u \in flight \/ up[u].at \in {"journalled", "sent"}

\* Mutant of Due: an expiry is never looked at.
MutDue(j) == Exists(j) /\ ops[j].ready = 1

\* ready = 1 is due at once, the others when they expire.  An expiry may have
\* passed at any moment, but the second one, after the claim, outlasts the upload
\* that the first one did not wait for.
Due(j) ==
    /\ Exists(j)
    /\ ops[j].ready = 2 => \A u \in ops[j].ids : ~Pending(u)

\* Mutant of Select: a journal that is not ready is acted on once it expires.
MutSelect(d, j) ==
    /\ hand[d].at = "idle"
    /\ Due(j)
    /\ hand' = [hand EXCEPT ![d] =
                  [at |-> IF ops[j].ready \in {0, 1} THEN "claim" ELSE "judge",
                   kind |-> "drain", op |-> j, ids |-> ops[j].ids,
                   ready |-> IF ops[j].ready = 0 THEN 1 ELSE ops[j].ready,
                   receipt |-> ops[j].receipt]]
    /\ UNCHANGED <<row, ops, faults>> /\ IndexUnchanged /\ ActorsUnchanged

Select(d, j) ==
    /\ hand[d].at = "idle"
    /\ Due(j)
    /\ hand' = [hand EXCEPT ![d] =
                  [at |-> IF ops[j].ready \in {0, 1} THEN "claim" ELSE "judge",
                   kind |-> "drain", op |-> j, ids |-> ops[j].ids,
                   ready |-> ops[j].ready, receipt |-> ops[j].receipt]]
    /\ UNCHANGED <<row, ops, faults>> /\ IndexUnchanged /\ ActorsUnchanged

\* A journal selected at ready = 0 is only quarantined.
Claim(d) ==
    LET j == hand[d].op IN
    /\ hand[d].at = "claim"
    /\ ops' = IF Exists(j) /\ ops[j].ready \in {0, 1} THEN [ops EXCEPT ![j].ready = 2]
                                                      ELSE ops
    /\ IF hand[d].ready = 1 THEN Goes(d, "judge") ELSE Stops(d)
    /\ UNCHANGED <<row, faults>> /\ IndexUnchanged /\ ActorsUnchanged

\* Whether a delete recorded with a receipt only has to be confirmed.
AwaitsIndex(a) ==
    hand[a].kind = "drain" /\ hand[a].ready = 3 /\ hand[a].receipt # Null

\* The row is read; what it lists is not deleted.  authorizeVectorMutation finds
\* the journal, or throws.  deleteSubmittedAt is now: once the index reports any
\* later mutation as processed, the deletion counts as processed.
Judge(a) ==
    LET left == hand[a].ids \ row.listed
        submits == hand' = [hand EXCEPT ![a].ids = left, ![a].at = "delete", ![a].receipt =
                              IF hand[a].kind = "lifecycle" THEN Null ELSE Len(queue) + 1]
    IN
    /\ hand[a].at = "judge"
    /\ IF left = {} /\ hand[a].kind # "lifecycle" THEN Goes(a, "retire")
       ELSE IF AwaitsIndex(a) /\ hand[a].receipt # 0 THEN Stops(a)
       ELSE IF AwaitsIndex(a) /\ left \cap visible = {} THEN Goes(a, "retire")
       ELSE IF Exists(hand[a].op) THEN submits ELSE Stops(a)
    /\ UNCHANGED <<row, ops, faults>> /\ IndexUnchanged /\ ActorsUnchanged

Delete(a) ==
    /\ hand[a].at = "delete"
    /\ IF hand[a].ids = {} THEN queue' = queue ELSE Accept("delete", hand[a].ids)
    /\ Goes(a, "record")
    /\ UNCHANGED <<row, ops, visible, flight, faults>> /\ ActorsUnchanged

\* The call throws, three times for a settle or a drain; it may have arrived.
DeleteFails(a) ==
    /\ hand[a].at = "delete" /\ hand[a].ids # {}
    /\ Fault
    /\ queue' = queue \/ Accept("delete", hand[a].ids)
    /\ Stops(a)
    /\ UNCHANGED <<row, ops, visible, flight>> /\ ActorsUnchanged

Record(a) ==
    LET j == hand[a].op IN
    /\ hand[a].at = "record"
    /\ ops' = IF ~Exists(j) THEN ops
              ELSE IF hand[a].kind = "lifecycle"
              THEN [ops EXCEPT ![j].ready = 3]
              ELSE [ops EXCEPT ![j] = [ids |-> hand[a].ids, ready |-> 3,
                                       receipt |-> hand[a].receipt]]
    /\ Stops(a)
    /\ UNCHANGED <<row, faults>> /\ IndexUnchanged /\ ActorsUnchanged

Retire(a) ==
    /\ hand[a].at = "retire"
    /\ ops' = [ops EXCEPT ![hand[a].op] = Null]
    /\ Stops(a)
    /\ UNCHANGED <<row, faults>> /\ IndexUnchanged /\ ActorsUnchanged

-------------------------------------------------------------------------------
(* Uploads.                                                                *)

Moves(u, from, to) == up[u].at = from /\ up' = [up EXCEPT ![u].at = to]

Ends(u, from) == up[u].at = from /\ up' = [up EXCEPT ![u] = Upload("ended")]

RestUnchanged == UNCHANGED <<removal, overlooked>>

Admitted ==
    MaxRequests > Cardinality({u \in Uploads : up[u].at # "idle"})
                    + Cardinality({x \in Removals : removal[x].at # "idle"})

NewOp(ids, ready) == [ids |-> ids, ready |-> ready, receipt |-> Null]

\* markVectorCleanupReady
MarkedReady(j) ==
    IF Exists(j) /\ ops[j].ready = 0 THEN [ops EXCEPT ![j].ready = 1] ELSE ops

\* What the compare-and-set will expect and the vectors to be replaced.  An update
\* reads the latter again after the embedding: a different answer only loses the
\* compare-and-set.
ReadRow(u) ==
    /\ up[u].at = "idle" /\ Admitted
    /\ row.state = "live" \/ (u \in Unfenced /\ row.state = "deprecated")
    /\ u \in Passages => row.listed # {}
    /\ up' = [up EXCEPT ![u] = [at |-> "read", seen |-> row, stale |-> {},
                                prior |-> IF u \in Passages THEN {} ELSE row.listed]]
    /\ UNCHANGED <<row, ops, hand, faults>> /\ IndexUnchanged /\ RestUnchanged

Journal(u) ==
    /\ Moves(u, "read", "journalled")
    /\ ops' = [ops EXCEPT ![<<u, 1>>] = NewOp(up[u].prior \cup {u}, 0)]
    /\ UNCHANGED <<row, hand, faults>> /\ IndexUnchanged /\ RestUnchanged

\* authorizeVectorMutation and the upsert.
Send(u) ==
    /\ \/ /\ Exists(<<u, 1>>)
          /\ Moves(u, "journalled", "sent")
          /\ flight' = flight \cup {u}
       \/ /\ ~Exists(<<u, 1>>)
          /\ Moves(u, "journalled", "failing")
          /\ flight' = flight
    /\ UNCHANGED <<row, ops, visible, queue, hand, faults>> /\ RestUnchanged

\* The upsert throws; the index has the vectors or has refused them.
UpsertFails(u) ==
    /\ Moves(u, "sent", "failing")
    /\ Fault
    /\ flight' = flight \ {u}
    /\ queue' = queue \/ (u \in flight /\ Accept("upsert", {u}))
    /\ UNCHANGED <<row, ops, visible, hand>> /\ RestUnchanged

\* The upsert is acknowledged.
MarkReady(u) ==
    /\ u \notin flight
    /\ Moves(u, "sent", "ready")
    /\ ops' = MarkedReady(<<u, 1>>)
    /\ UNCHANGED <<row, hand, faults>> /\ IndexUnchanged /\ RestUnchanged

\* Its journal still waits at ready = 1: no drain has claimed it.
Fenced(u) == Exists(<<u, 1>>) /\ ops[<<u, 1>>].ready = 1

\* Mutant of Committable: the commit is not fenced on the journal.
MutCommittable(u) == row = up[u].seen

\* The row is as it was read; upsertEntryVectors leaves the fence out.
Committable(u) == row = up[u].seen /\ (u \in Unfenced \/ Fenced(u))

\* What the commit replaces is journalled, unless the journal is being worked off
\* or the upload was kept from an attempt that had read another list.
Listed(u) ==
    /\ Committable(u)
    /\ row' = [row EXCEPT !.listed = {u} \cup (IF u \in Passages THEN @ ELSE {})]
    /\ overlooked' =
         CASE u \notin Unfenced -> overlooked
           [] u \in Unfenced /\ Fenced(u) -> overlooked \cup (row.listed \ up[u].prior)
           [] u \in Unfenced /\ ~Fenced(u) -> overlooked \cup row.listed

Commit(u) ==
    /\ Moves(u, "ready", "committed")
    /\ Listed(u)
    /\ UNCHANGED <<ops, removal, hand, faults>> /\ IndexUnchanged

\* discardUpload for an update, the settlement of its journal for the others.
GivesUp(u) ==
    up' = [up EXCEPT ![u].at = IF u \in Unfenced THEN "retiring" ELSE "failing",
                     ![u].stale = {u}]

\* The row was changed, in its list or in a column that is not modelled.
Lose(u) ==
    /\ up[u].at = "ready"
    /\ GivesUp(u)
    /\ UNCHANGED <<row, ops, hand, faults>> /\ IndexUnchanged /\ RestUnchanged

\* The next attempt of an update keeps the vectors when the content is the same.
Retry(u) ==
    /\ u \in Unfenced /\ up[u].at = "ready"
    /\ row # up[u].seen /\ row.state # "gone"
    /\ up' = [up EXCEPT ![u].seen = row]
    /\ UNCHANGED <<row, ops, hand, faults>> /\ IndexUnchanged /\ RestUnchanged

\* The batch throws, although it may have been committed.
CommitFails(u) ==
    /\ up[u].at = "ready"
    /\ Fault
    /\ Listed(u) \/ UNCHANGED <<row, overlooked>>
    /\ GivesUp(u)
    /\ UNCHANGED <<ops, removal, hand>> /\ IndexUnchanged

\* markVectorCleanupReady and settleVectorCleanupOp with all candidates.
SettleFailed(u) ==
    /\ Ends(u, "failing")
    /\ ops' = MarkedReady(<<u, 1>>)
    /\ Begin(u, "settle", <<u, 1>>, up[u].prior \cup {u})
    /\ UNCHANGED <<row, faults>> /\ IndexUnchanged /\ RestUnchanged

\* After the commit the journal is settled, or deleted if nothing was replaced.
SettleCommitted(u) ==
    /\ u \notin Unfenced
    /\ Ends(u, "committed")
    /\ IF up[u].prior \ {u} # {}
         THEN Begin(u, "settle", <<u, 1>>, up[u].prior \cup {u})
         ELSE hand' = [hand EXCEPT ![u].at = "retire", ![u].op = <<u, 1>>]
    /\ UNCHANGED <<row, ops, faults>> /\ IndexUnchanged /\ RestUnchanged

\* deleteStaleVectors of what the row listed; the first journal stays.
RetireReplaced(u) ==
    /\ u \in Unfenced /\ up[u].at = "committed"
    /\ up' = [up EXCEPT ![u].at = "retiring", ![u].stale = up[u].seen.listed \ {u}]
    /\ UNCHANGED <<row, ops, hand, faults>> /\ IndexUnchanged /\ RestUnchanged

\* deleteEntryVectors journals those that the index returns now.
JournalRetired(u) ==
    LET doomed == up[u].stale \cap visible IN
    /\ \/ doomed = {} /\ Ends(u, "retiring") /\ ops' = ops
       \/ /\ doomed # {}
          /\ up[u].at = "retiring"
          /\ up' = [up EXCEPT ![u].at = "second", ![u].stale = doomed]
          /\ ops' = [ops EXCEPT ![<<u, 2>>] = NewOp(doomed, 0)]
    /\ UNCHANGED <<row, hand, faults>> /\ IndexUnchanged /\ RestUnchanged

SettleRetired(u) ==
    /\ Ends(u, "second")
    /\ ops' = MarkedReady(<<u, 2>>)
    /\ Begin(u, "settle", <<u, 2>>, up[u].stale)
    /\ UNCHANGED <<row, faults>> /\ IndexUnchanged /\ RestUnchanged

-------------------------------------------------------------------------------
(* Removals.                                                               *)

ReadCandidate(x) ==
    /\ removal[x].at = "idle" /\ row.state # "gone" /\ Admitted
    /\ removal' = [removal EXCEPT ![x] = [at |-> "read", seen |-> row]]
    /\ UNCHANGED <<row, ops, up, hand, overlooked, faults>> /\ IndexUnchanged

\* submitLifecycleVectorCleanup with the vectors of the earlier read: without
\* any, it only deletes the journal of the batch.
Submits(x) ==
    IF removal[x].seen.listed = {}
      THEN hand' = [hand EXCEPT ![x].at = "retire", ![x].op = <<x, 1>>]
      ELSE Begin(x, "lifecycle", <<x, 1>>, removal[x].seen.listed)

\* One batch journals what the row lists by then and deletes the row.
Forget(x) ==
    /\ x \in Forgets /\ removal[x].at = "read" /\ row.state # "gone"
    /\ removal' = [removal EXCEPT ![x] = Removal("ended")]
    /\ row' = [state |-> "gone", listed |-> {}]
    /\ ops' = [ops EXCEPT ![<<x, 1>>] = NewOp(row.listed, 1)]
    /\ Submits(x)
    /\ overlooked' = IF removal[x].seen.listed = {} THEN overlooked \cup row.listed
                                                    ELSE overlooked
    /\ UNCHANGED <<up, faults>> /\ IndexUnchanged

\* The compare-and-set of a deprecation pins the list.
Unchanged(x) == row.state # "gone" /\ row.listed = removal[x].seen.listed

Deprecate(x) ==
    /\ x \in Deprecations /\ removal[x].at = "read" /\ Unchanged(x)
    /\ removal' = [removal EXCEPT ![x] = Removal("ended")]
    /\ row' = [state |-> "deprecated", listed |-> {}]
    /\ ops' = [ops EXCEPT ![<<x, 1>>] = NewOp(removal[x].seen.listed, 1)]
    /\ Submits(x)
    /\ UNCHANGED <<up, overlooked, faults>> /\ IndexUnchanged

\* Another removal or a change of the list came first.
RemovalLost(x) ==
    /\ removal[x].at = "read"
    /\ row.state = "gone" \/ (x \in Deprecations /\ ~Unchanged(x))
    /\ removal' = [removal EXCEPT ![x] = Removal("ended")]
    /\ UNCHANGED <<row, ops, up, hand, overlooked, faults>> /\ IndexUnchanged

\* A killed Worker leaves its journals and its requests behind.
Crash(a) ==
    /\ \/ hand[a].at # "idle"
       \/ a \in Uploads /\ up[a].at \notin {"idle", "ended"}
    /\ Fault
    /\ up' = IF a \in Uploads THEN [up EXCEPT ![a] = Upload("ended")] ELSE up
    /\ Stops(a)
    /\ UNCHANGED <<row, ops, removal, overlooked>> /\ IndexUnchanged

-------------------------------------------------------------------------------
UploadStep(u) ==
    \/ ReadRow(u) \/ Journal(u) \/ Send(u) \/ UpsertFails(u) \/ MarkReady(u)
    \/ Commit(u) \/ Lose(u) \/ Retry(u) \/ CommitFails(u)
    \/ SettleFailed(u) \/ SettleCommitted(u)
    \/ RetireReplaced(u) \/ JournalRetired(u) \/ SettleRetired(u)

RemovalStep(x) == ReadCandidate(x) \/ Forget(x) \/ Deprecate(x) \/ RemovalLost(x)

HandStep(a) ==
    Judge(a) \/ Delete(a) \/ DeleteFails(a) \/ Record(a) \/ Retire(a)

Next ==
    \/ Apply
    \/ \E u \in Uploads : Land(u) \/ Vanish(u) \/ UploadStep(u)
    \/ \E x \in Removals : RemovalStep(x)
    \/ \E d \in Drains : Claim(d) \/ \E j \in Journals : Select(d, j)
    \/ \E a \in Actors : HandStep(a) \/ Crash(a)

Spec == Init /\ [][Next]_vars

\* Requests that are not killed run to their end, the index answers and applies,
\* expiries pass, and the scheduled drain comes back to every journal.
Fairness ==
    /\ WF_vars(Apply)
    /\ \A u \in Uploads : WF_vars(Land(u)) /\ WF_vars(UploadStep(u) /\ up[u].at # "idle")
    /\ \A a \in Actors : WF_vars(HandStep(a))
    /\ \A d \in Drains : WF_vars(Claim(d)) /\ \A j \in Journals : SF_vars(Select(d, j))

FairSpec == Spec /\ Fairness

-------------------------------------------------------------------------------
(* Properties.                                                             *)

\* Whether the index has u once it has applied what it accepted.
Stays(u) ==
    LET last == CHOOSE n \in 0..Len(queue) :
                    /\ n = 0 \/ u \in queue[n].ids
                    /\ \A m \in n + 1..Len(queue) : u \notin queue[m].ids
    IN IF last = 0 THEN u \in visible ELSE queue[last].kind = "upsert"

\* A row never names a vector that its cleanup has deleted or is to delete: the
\* commit is fenced on ready = 1 and the drain claims before it reads the row.
ListedIsServed == \A u \in row.listed \ Unfenced : Stays(u)

\* The same of every upload, as cleanup.ts promises of the drain: only vectors
\* that the current row no longer references are removed.
OnlyUnreferencedDeleted == \A u \in row.listed : Stays(u)

\* The row or a journal knows the vector.
Owned(u) == u \in row.listed \/ \E j \in Journals : Exists(j) /\ u \in ops[j].ids

\* Every vector that the index has or may come to have is known to the row or to
\* a journal, in whatever order requests, deletions and expiries take their steps.
NothingForgotten ==
    \A u \in Uploads \ overlooked : u \in flight \/ Stays(u) => Owned(u)

\* The same without exception: the journal is the source of truth for deletions.
TombstonesAreTruth == \A u \in Uploads : u \in flight \/ Stays(u) => Owned(u)

\* Once the uploads and faults are over, every journal is worked off and the
\* index holds no vector that the row does not list.
IndexConverges ==
    <>[](/\ \A j \in Journals : ops[j] = Null
         /\ visible \subseteq row.listed \cup overlooked)

===============================================================================
