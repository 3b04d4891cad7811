---------------------------- MODULE TrashLifecycle ----------------------------
(* memory/trash.ts with capture/lifecycle.ts and routes/entries.ts: memories    *)
(* leave entries for entries_trash, come back, or go for good, by requests that *)
(* read first and change later in one guarded D1 batch. An id may be used again *)
(* by an import once both tables are rid of it, so what the batches have to get *)
(* right is which memory they mean. The order of the nonces is the order of     *)
(* deletion (deleted_at). Links, vectors and audit rows are left out.           *)
EXTENDS Naturals, FiniteSets

CONSTANTS Requests,   \* calls, one after the other under each name
          Ids, Workspaces,
          MaxLives,   \* bound: memories created
          MaxNonces,  \* bound: trash rows written
          None

(* Rows are never taken for the absence of one. *)
ASSUME TrashAssumption ==
    /\ IsFiniteSet(Ids) /\ MaxLives \in Nat /\ MaxNonces \in Nat
    /\ None \notin [life : Nat, ws : Workspaces, large : BOOLEAN]
    /\ None \notin [life : Nat, ws : Workspaces, nonce : Nat]

VARIABLES entry,      \* entries: the memory under each id, its workspace, whether it is
                      \* too large for the trash
          bin,        \* entries_trash: the memory, its workspace and nonce
          versions,   \* entry_versions by entry_id: the memories whose history is there
          req,        \* the calls and what they have read
          lives, nonces, \* counters: memories so far, trash rows so far
          edited      \* history variable: memories that were ever edited

vars == <<entry, bin, versions, req, lives, nonces, edited>>

Idle == [at |-> "idle", pairs |-> [i \in {} |-> None], hard |-> {}, nonce |-> 0, saw |-> 0]
Live == {i \in Ids : entry[i] # None}
Trashed == {i \in Ids : bin[i] # None}
Done(q) == req' = [req EXCEPT ![q] = Idle]

Init == /\ entry = [i \in Ids |-> None] /\ bin = [i \in Ids |-> None]
        /\ versions = [i \in Ids |-> {}] /\ req = [q \in Requests |-> Idle]
        /\ lives = 0 /\ nonces = 0 /\ edited = {}

MutImport(i, w) ==    \* the trash is not looked at
    /\ lives < MaxLives /\ i \notin Live
    /\ lives' = lives + 1
    /\ entry' = [entry EXCEPT ![i] = [life |-> lives + 1, ws |-> w, large |-> FALSE]]
    /\ UNCHANGED <<bin, versions, req, nonces, edited>>

(* An import, or a capture under a fresh id: neither table has the id, and what *)
(* history an earlier memory left under it is dropped.                          *)
Import(i, w) ==
    /\ lives < MaxLives /\ i \notin Live \cup Trashed
    /\ lives' = lives + 1
    /\ entry' = [entry EXCEPT ![i] = [life |-> lives + 1, ws |-> w, large |-> FALSE]]
    /\ versions' = [versions EXCEPT ![i] = {}]
    /\ UNCHANGED <<bin, req, nonces, edited>>

(* An edit keeps the state before it as a version. *)
Edit(i, large) ==
    /\ i \in Live
    /\ entry' = [entry EXCEPT ![i].large = large]
    /\ versions' = [versions EXCEPT ![i] = @ \cup {entry[i].life}]
    /\ edited' = edited \cup {entry[i].life}
    /\ UNCHANGED <<bin, req, lives, nonces>>

Share(i, w) ==
    /\ i \in Live /\ w # entry[i].ws
    /\ entry' = [entry EXCEPT ![i].ws = w]
    /\ UNCHANGED <<bin, versions, req, lives, nonces, edited>>

(* forgetEntry of one id, trashMirroredEntries of a chunk: the rows the caller  *)
(* may change, their workspaces and the form each gets in the trash.            *)
ReadForget(q, S) ==
    /\ req[q].at = "idle" /\ S # {} /\ S \subseteq Live
    /\ req' = [req EXCEPT ![q] = [Idle EXCEPT !.at = "forget", !.pairs = [i \in S |-> entry[i].ws],
                                              !.hard = {i \in S : entry[i].large}]]
    /\ UNCHANGED <<entry, bin, versions, lives, nonces, edited>>

(* The rows that are still where the read authorized them. *)
Guarded(q) == {i \in DOMAIN req[q].pairs \cap Live : entry[i].ws = req[q].pairs[i]}

MutVersionsOf(q) == req[q].hard    \* the history goes by id alone
(* The tier 3 rows whose history goes too. *)
VersionsOf(q) == {i \in req[q].hard : i \in Guarded(q) /\ i \notin Trashed}

(* trashManyStatements: an insert that meets a trash row of the id, or a row    *)
(* that has outgrown the trash, fails the whole batch.                          *)
ForgetBatch(q) ==
    /\ req[q].at = "forget" /\ Done(q)
    /\ LET moved == Guarded(q) \ req[q].hard IN
       IF moved \cap Trashed # {} \/ (\E i \in moved : entry[i].large)
         THEN UNCHANGED <<entry, bin, versions, nonces>>
         ELSE /\ nonces + Cardinality(moved) <= MaxNonces
              /\ nonces' = nonces + Cardinality(moved)
              /\ \E n \in [moved -> nonces + 1..nonces + Cardinality(moved)] :
                    /\ \A i, j \in moved : n[i] = n[j] => i = j
                    /\ bin' = [i \in Ids |-> IF i \in moved THEN [life |-> entry[i].life, ws |-> entry[i].ws, nonce |-> n[i]]
                                             ELSE bin[i]]
              /\ versions' = [i \in Ids |-> IF i \in VersionsOf(q) THEN {} ELSE versions[i]]
              /\ entry' = [i \in Ids |-> IF i \in Guarded(q) THEN None ELSE entry[i]]
    /\ UNCHANGED <<lives, edited>>

(* getTrashedEntry, for a restore or for Delete forever. *)
ReadTrashed(q, i, what) ==
    /\ req[q].at = "idle" /\ i \in Trashed
    /\ what = "restore" => i \notin Live
    /\ req' = [req EXCEPT ![q] = [Idle EXCEPT !.at = what, !.pairs = [x \in {i} |-> bin[i].ws],
                                              !.nonce = bin[i].nonce, !.saw = bin[i].life]]
    /\ UNCHANGED <<entry, bin, versions, lives, nonces, edited>>

IdOf(q) == CHOOSE i \in DOMAIN req[q].pairs : TRUE
MutPinned(q) == IdOf(q) \in Trashed    \* by id alone
(* The very row that was read, by its nonce. *)
Pinned(q) == IdOf(q) \in Trashed /\ bin[IdOf(q)].nonce = req[q].nonce

(* restoreEntry, after the upload: a live row under the id fails the batch.     *)
RestoreBatch(q) ==
    /\ req[q].at = "restore" /\ Done(q)
    /\ IF Pinned(q) /\ IdOf(q) \notin Live
         THEN /\ entry' = [entry EXCEPT ![IdOf(q)] = [life |-> bin[IdOf(q)].life, ws |-> bin[IdOf(q)].ws, large |-> FALSE]]
              /\ bin' = [bin EXCEPT ![IdOf(q)] = None]
         ELSE UNCHANGED <<entry, bin>>
    /\ UNCHANGED <<versions, lives, nonces, edited>>

(* deleteForever: history is by id, so a live row keeps it.                     *)
ForeverBatch(q) ==
    /\ req[q].at = "forever" /\ Done(q)
    /\ IF Pinned(q) /\ bin[IdOf(q)].ws = req[q].pairs[IdOf(q)]
         THEN /\ bin' = [bin EXCEPT ![IdOf(q)] = None]
              /\ versions' = [versions EXCEPT ![IdOf(q)] = IF IdOf(q) \in Live THEN @ ELSE {}]
         ELSE UNCHANGED <<bin, versions>>
    /\ UNCHANGED <<entry, lives, nonces, edited>>

(* purgeTrash: the expired rows, those deleted before a cutoff in the past.     *)
ReadPurge(q, cutoff) ==
    /\ req[q].at = "idle" /\ \E i \in Trashed : bin[i].nonce < cutoff
    /\ req' = [req EXCEPT ![q] = [Idle EXCEPT !.at = "purge", !.nonce = cutoff, !.pairs =
                                    [i \in {x \in Trashed : bin[x].nonce < cutoff} |-> bin[i].ws]]]
    /\ UNCHANGED <<entry, bin, versions, lives, nonces, edited>>

Expired(q) == {i \in DOMAIN req[q].pairs \cap Trashed : bin[i].nonce < req[q].nonce}

PurgeBatch(q) ==
    /\ req[q].at = "purge" /\ Done(q)
    /\ versions' = [i \in Ids |-> IF i \in Expired(q) \ Live THEN {} ELSE versions[i]]
    /\ bin' = [i \in Ids |-> IF i \in Expired(q) THEN None ELSE bin[i]]
    /\ UNCHANGED <<entry, lives, nonces, edited>>

(* A call that dies, or whose upload fails, has changed nothing. *)
Abandon(q) == /\ req[q].at # "idle" /\ Done(q)
              /\ UNCHANGED <<entry, bin, versions, lives, nonces, edited>>

Next == \/ \E i \in Ids, w \in Workspaces : Import(i, w) \/ Share(i, w)
        \/ \E i \in Ids, large \in BOOLEAN : Edit(i, large)
        \/ \E q \in Requests :
              \/ \E S \in SUBSET Ids : ReadForget(q, S)
              \/ \E i \in Ids, what \in {"restore", "forever"} : ReadTrashed(q, i, what)
              \/ \E cutoff \in 2..nonces + 1 : ReadPurge(q, cutoff)
              \/ ForgetBatch(q) \/ RestoreBatch(q) \/ ForeverBatch(q) \/ PurgeBatch(q) \/ Abandon(q)
Spec == Init /\ [][Next]_vars

--------------------------------------------------------------------------------
TypeOK ==
    /\ entry \in [Ids -> [life : 1..MaxLives, ws : Workspaces, large : BOOLEAN] \cup {None}]
    /\ bin \in [Ids -> [life : 1..MaxLives, ws : Workspaces, nonce : 1..MaxNonces] \cup {None}]
    /\ versions \in [Ids -> SUBSET (1..MaxLives)]
    /\ req \in [Requests -> [at : {"idle", "forget", "restore", "forever", "purge"},
                            pairs : UNION {[S -> Workspaces] : S \in SUBSET Ids},
                            hard : SUBSET Ids, nonce : Nat, saw : Nat]]
    /\ lives \in 0..MaxLives /\ nonces \in 0..MaxNonces /\ edited \in SUBSET (1..lives)

(* "Ids are unique across entries and entries_trash" (entries/import.ts:42),    *)
(* whatever a restore, an import and a forget of one id interleave to.          *)
OnePlace == Live \cap Trashed = {}

(* The history under an id is that of the memory there, whole: no batch that    *)
(* left the memory, because it was shared, edited, restored or trashed by       *)
(* another meanwhile, took its versions, and none left them for the next memory *)
(* under the id to be undone to (trash.ts:266, 560).                            *)
HistoryIsTheMemorys ==
    \A i \in Ids : LET there == IF i \in Live THEN {entry[i].life}
                                ELSE IF i \in Trashed THEN {bin[i].life} ELSE {}
                   IN versions[i] = there \cap edited

(* A request takes a memory only from the workspace its own read found it in,   *)
(* and a restore or a Delete forever only the very memory it was asked for,     *)
(* though rows are shared, purged and their ids used again before its batch.    *)
OnlyWhatWasRead ==
    [][\A q \in Requests : req'[q] = Idle => \A i \in DOMAIN req[q].pairs :
         /\ entry[i] # None /\ entry'[i] = None => entry[i].ws = req[q].pairs[i]
         /\ bin[i] # None /\ bin'[i] = None /\ req[q].at # "purge"
              => bin[i].ws = req[q].pairs[i] /\ bin[i].life = req[q].saw]_vars

--------------------------------------------------------------------------------
(* What the history property rests on: every memory is in one place only, under *)
(* a number that was given out.                                                 *)
LifeAt(i) == IF i \in Live THEN entry[i].life ELSE bin[i].life
LivesApart ==
    \A i, j \in Live \cup Trashed : LifeAt(i) <= lives /\ (LifeAt(i) = LifeAt(j) => i = j)

(* What a request goes by: trash rows are numbered as they are made, so a nonce *)
(* that was read is on the row it was read from, or on none.                    *)
NoncesKnown == \A i \in Trashed : bin[i].nonce <= nonces
ReadRow ==
    \A q \in Requests : req[q].at \in {"restore", "forever"} =>
        /\ req[q].nonce <= nonces
        /\ \E i \in Ids : /\ DOMAIN req[q].pairs = {i}
                          /\ i \in Trashed /\ bin[i].nonce = req[q].nonce
                               => bin[i].ws = req[q].pairs[i] /\ bin[i].life = req[q].saw
IdleReadsNothing == \A q \in Requests : req[q].at = "idle" => DOMAIN req[q].pairs = {}

TrashInv == TypeOK /\ OnePlace /\ HistoryIsTheMemorys
            /\ LivesApart /\ NoncesKnown /\ ReadRow /\ IdleReadsNothing
================================================================================
