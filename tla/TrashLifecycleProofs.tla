------------------------- MODULE TrashLifecycleProofs -------------------------
(* Proofs about TrashLifecycle for any number of requests, ids, workspaces,    *)
(* memories and trash rows.                                                    *)
EXTENDS TrashLifecycle, FiniteSetTheorems, TLAPS

-------------------------------------------------------------------------------
EntryRow == [life : 1..MaxLives, ws : Workspaces, large : BOOLEAN]
BinRow == [life : 1..MaxLives, ws : Workspaces, nonce : 1..MaxNonces]
Reading == UNION {[S -> Workspaces] : S \in SUBSET Ids}
Request == [at : {"idle", "forget", "restore", "forever", "purge"}, pairs : Reading,
            hard : SUBSET Ids, nonce : Nat, saw : Nat]

\* A row is not the absence of one.
LEMMA RowsAreRows == None \notin EntryRow /\ None \notin BinRow
  BY TrashAssumption DEF EntryRow, BinRow

LEMMA Typed ==
  TypeOK <=> /\ entry \in [Ids -> EntryRow \cup {None}]
             /\ bin \in [Ids -> BinRow \cup {None}]
             /\ versions \in [Ids -> SUBSET (1..MaxLives)]
             /\ req \in [Requests -> Request]
             /\ lives \in 0..MaxLives /\ nonces \in 0..MaxNonces /\ edited \in SUBSET (1..lives)
  BY DEF TypeOK, EntryRow, BinRow, Reading, Request

LEMMA TypedNext ==
  TypeOK' <=> /\ entry' \in [Ids -> EntryRow \cup {None}]
              /\ bin' \in [Ids -> BinRow \cup {None}]
              /\ versions' \in [Ids -> SUBSET (1..MaxLives)]
              /\ req' \in [Requests -> Request]
              /\ lives' \in 0..MaxLives /\ nonces' \in 0..MaxNonces /\ edited' \in SUBSET (1..lives')
  BY DEF TypeOK, EntryRow, BinRow, Reading, Request

\* An idle request is a request, and it has read nothing.
LEMMA IdleIsRequest == Idle \in Request /\ Idle.at = "idle" /\ DOMAIN Idle.pairs = {}
  <1>1. [i \in {} |-> None] \in [{} -> Workspaces]
    OBVIOUS
  <1>2. [i \in {} |-> None] \in Reading
    BY <1>1 DEF Reading
  <1> QED BY <1>2 DEF Idle, Request

LEMMA TrashStarts == Init => TrashInv
  <1> SUFFICES ASSUME Init PROVE TrashInv
    OBVIOUS
  <1>1. TypeOK
    BY TrashAssumption, IdleIsRequest, Typed DEF Init
  <1>2. Live = {} /\ Trashed = {}
    BY DEF Init, Live, Trashed
  <1>3. HistoryIsTheMemorys
    BY <1>2 DEF Init, HistoryIsTheMemorys
  <1>4. ReadRow /\ IdleReadsNothing
    BY IdleIsRequest DEF Init, ReadRow, IdleReadsNothing
  <1> QED BY <1>1, <1>2, <1>3, <1>4 DEF TrashInv, OnePlace, LivesApart, NoncesKnown

-------------------------------------------------------------------------------
(* The two tables, row by row. *)
LEMMA Rows ==
  ASSUME TypeOK
  PROVE  /\ Live \subseteq Ids /\ Trashed \subseteq Ids
         /\ \A i \in Ids : (i \in Live <=> entry[i] # None) /\ (i \in Trashed <=> bin[i] # None)
         /\ \A i \in Live : entry[i] \in EntryRow
         /\ \A i \in Trashed : bin[i] \in BinRow
  BY Typed DEF Live, Trashed

LEMMA RowsNext ==
  /\ Live' \subseteq Ids /\ Trashed' \subseteq Ids
  /\ \A i \in Ids : (i \in Live' <=> entry'[i] # None) /\ (i \in Trashed' <=> bin'[i] # None)
  BY DEF Live, Trashed

(* A request that is done with is idle, the others are as they were. *)
LEMMA DoneTyped ==
  ASSUME TypeOK, NEW q \in Requests, Done(q)
  PROVE  /\ req' \in [Requests -> Request] /\ req'[q] = Idle
         /\ \A r \in Requests \ {q} : req'[r] = req[r]
  BY Typed, IdleIsRequest DEF Done

(* What the open requests read stays true where trash rows are only made under *)
(* new nonces.                                                                 *)
LEMMA ReadingStays ==
  ASSUME TrashInv, nonces' \in Nat, nonces' >= nonces,
         \A i \in Ids : bin'[i] # None => bin'[i] = bin[i] \/ bin'[i].nonce > nonces,
         \A r \in Requests : req'[r] = req[r] \/ req'[r] = Idle
  PROVE  ReadRow' /\ IdleReadsNothing'
  <1> USE DEF TrashInv
  <1>1. nonces \in Nat /\ \A r \in Requests : req[r].nonce \in Nat
    BY Typed, TrashAssumption DEF Request
  <1>2. IdleReadsNothing'
    BY IdleIsRequest DEF IdleReadsNothing
  <1>3. ASSUME NEW r \in Requests, req'[r].at \in {"restore", "forever"}
        PROVE  /\ req'[r].nonce <= nonces'
               /\ \E i \in Ids : /\ DOMAIN req'[r].pairs = {i}
                                 /\ i \in Trashed' /\ bin'[i].nonce = req'[r].nonce
                                      => bin'[i].ws = req'[r].pairs[i] /\ bin'[i].life = req'[r].saw
    <2>1. req'[r] = req[r]
      BY <1>3, IdleIsRequest
    <2>2. PICK i \in Ids : /\ req[r].nonce <= nonces /\ DOMAIN req[r].pairs = {i}
                           /\ i \in Trashed /\ bin[i].nonce = req[r].nonce
                                => bin[i].ws = req[r].pairs[i] /\ bin[i].life = req[r].saw
      BY <1>3, <2>1 DEF ReadRow
    <2>3. i \in Trashed' /\ bin'[i].nonce = req[r].nonce => bin'[i] = bin[i] /\ i \in Trashed
      BY <1>1, <2>2, Rows, RowsNext
    <2> QED BY <1>1, <2>1, <2>2, <2>3
  <1> QED BY <1>2, <1>3 DEF ReadRow

(* The history property, said of LifeAt. *)
LEMMA HistoryAt ==
  HistoryIsTheMemorys <=>
    \A i \in Ids : versions[i] = (IF i \in Live \cup Trashed THEN {LifeAt(i)} ELSE {}) \cap edited
  BY DEF HistoryIsTheMemorys, LifeAt

LEMMA HistoryAtNext ==
  HistoryIsTheMemorys' <=>
    \A i \in Ids : versions'[i] = (IF i \in Live' \cup Trashed' THEN {LifeAt(i)'} ELSE {}) \cap edited'
  BY DEF HistoryIsTheMemorys, LifeAt

(* A step that creates no memory and moves none to another id keeps what is    *)
(* said of the memories, if it drops the history of exactly those that go.     *)
LEMMA MemoriesStay ==
  ASSUME TrashInv, lives' = lives, edited' = edited,
         \A i \in Live' \cup Trashed' :
            i \in Live \cup Trashed /\ LifeAt(i)' = LifeAt(i) /\ versions'[i] = versions[i],
         \A i \in Ids : i \notin Live' \cup Trashed' => versions'[i] = {}
  PROVE  HistoryIsTheMemorys' /\ LivesApart'
  <1>1. HistoryIsTheMemorys'
    BY HistoryAt, HistoryAtNext, RowsNext DEF TrashInv
  <1>2. LivesApart'
    BY DEF TrashInv, LivesApart
  <1> QED BY <1>1, <1>2

-------------------------------------------------------------------------------
LEMMA ImportKeeps ==
  ASSUME TrashInv, NEW i \in Ids, NEW w \in Workspaces, Import(i, w)
  PROVE  TrashInv'
  <1> USE DEF TrashInv
  <1> DEFINE row == [life |-> lives + 1, ws |-> w, large |-> FALSE]
  <1>1. /\ lives \in Nat /\ lives' = lives + 1 /\ lives + 1 \in 1..MaxLives
        /\ row \in EntryRow /\ row # None
    <2>1. lives \in Nat /\ lives' = lives + 1 /\ lives + 1 \in 1..MaxLives
      BY Typed, TrashAssumption DEF Import
    <2>2. row \in EntryRow
      BY <2>1 DEF EntryRow
    <2> QED BY <2>1, <2>2, RowsAreRows
  <1>2. /\ entry'[i] = row /\ bin' = bin /\ versions'[i] = {} /\ edited' = edited
        /\ \A j \in Ids \ {i} : entry'[j] = entry[j] /\ versions'[j] = versions[j]
    BY Typed DEF Import
  <1>3. TypeOK'
    BY <1>1, Typed, TypedNext DEF Import
  <1>4. Live' = Live \cup {i} /\ Trashed' = Trashed /\ i \notin Live \cup Trashed
    BY <1>1, <1>2, Rows, RowsNext DEF Import
  <1>5. OnePlace'
    BY <1>4 DEF OnePlace
  <1>6. LifeAt(i)' = lives + 1 /\ \A j \in (Live \cup Trashed) \ {i} : LifeAt(j)' = LifeAt(j)
    BY <1>2, <1>4, Rows DEF LifeAt
  <1>7. \A j \in Live \cup Trashed : LifeAt(j) \in Nat /\ LifeAt(j) <= lives
    <2>1. \A j \in Live \cup Trashed : LifeAt(j) \in 1..MaxLives
      BY Rows DEF LifeAt, EntryRow, BinRow
    <2> QED BY <2>1, TrashAssumption DEF LivesApart
  <1>8. LivesApart'
    BY <1>1, <1>4, <1>6, <1>7 DEF LivesApart
  <1>9. HistoryIsTheMemorys'
    <2>1. lives + 1 \notin edited
      BY <1>1, Typed
    <2> QED BY <1>2, <1>4, <1>6, <2>1, Rows, HistoryAt, HistoryAtNext
  <1>10. NoncesKnown'
    BY <1>2, <1>4 DEF Import, NoncesKnown
  <1>11. ReadRow' /\ IdleReadsNothing'
    BY Typed, <1>2, ReadingStays DEF Import
  <1> QED BY <1>3, <1>5, <1>8, <1>9, <1>10, <1>11

LEMMA EditKeeps ==
  ASSUME TrashInv, NEW i \in Ids, NEW large \in BOOLEAN, Edit(i, large)
  PROVE  TrashInv'
  <1> USE DEF TrashInv
  <1>1. i \in Live /\ entry[i] \in EntryRow /\ entry[i].life \in 1..lives
    <2>1. i \in Live /\ entry[i] \in EntryRow
      BY Rows DEF Edit
    <2>2. LifeAt(i) = entry[i].life /\ LifeAt(i) <= lives
      BY <2>1 DEF LifeAt, LivesApart
    <2> QED BY <2>1, <2>2, Typed, TrashAssumption DEF EntryRow
  <1>2. /\ entry'[i] \in EntryRow /\ entry'[i] # None /\ entry'[i].life = entry[i].life
        /\ \A j \in Ids \ {i} : entry'[j] = entry[j] /\ versions'[j] = versions[j]
        /\ versions'[i] = versions[i] \cup {entry[i].life}
        /\ edited' = edited \cup {entry[i].life} /\ bin' = bin /\ lives' = lives /\ nonces' = nonces
    BY <1>1, Typed, RowsAreRows DEF Edit, EntryRow
  <1>3. TypeOK'
    <2>1. entry' \in [Ids -> EntryRow \cup {None}]
      BY <1>2, Typed DEF Edit
    <2>2. versions' \in [Ids -> SUBSET (1..MaxLives)]
      BY <1>1, Typed, TrashAssumption DEF Edit
    <2> QED BY <1>1, <1>2, <2>1, <2>2, Typed, TypedNext DEF Edit
  <1>4. Live' = Live /\ Trashed' = Trashed
    BY <1>1, <1>2, Rows, RowsNext
  <1>5. \A j \in Live \cup Trashed : LifeAt(j)' = LifeAt(j)
    BY <1>2, <1>4, Rows DEF LifeAt
  <1>6. LivesApart'
    BY <1>2, <1>4, <1>5 DEF LivesApart
  <1>7. HistoryIsTheMemorys'
    <2>1. LifeAt(i) = entry[i].life /\ \A j \in (Live \cup Trashed) \ {i} : LifeAt(j) # entry[i].life
      BY <1>1 DEF LifeAt, LivesApart
    <2> QED BY <1>1, <1>2, <1>4, <1>5, <2>1, HistoryAt, HistoryAtNext
  <1>8. OnePlace' /\ NoncesKnown'
    BY <1>2, <1>4 DEF OnePlace, NoncesKnown
  <1>9. ReadRow' /\ IdleReadsNothing'
    BY Typed, <1>2, ReadingStays DEF Edit
  <1> QED BY <1>3, <1>6, <1>7, <1>8, <1>9

LEMMA ShareKeeps ==
  ASSUME TrashInv, NEW i \in Ids, NEW w \in Workspaces, Share(i, w)
  PROVE  TrashInv'
  <1> USE DEF TrashInv
  <1>1. i \in Live /\ entry[i] \in EntryRow
    BY Rows DEF Share
  <1>2. /\ entry'[i] \in EntryRow /\ entry'[i] # None /\ entry'[i].life = entry[i].life
        /\ \A j \in Ids \ {i} : entry'[j] = entry[j]
        /\ UNCHANGED <<bin, versions, req, lives, nonces, edited>>
    BY <1>1, Typed, RowsAreRows DEF Share, EntryRow
  <1>3. TypeOK'
    <2>1. entry' \in [Ids -> EntryRow \cup {None}]
      BY <1>2, Typed DEF Share
    <2> QED BY <1>2, <2>1, Typed, TypedNext
  <1>4. Live' = Live /\ Trashed' = Trashed
    BY <1>1, <1>2, Rows, RowsNext
  <1>5. \A j \in Live \cup Trashed : LifeAt(j)' = LifeAt(j)
    BY <1>2, <1>4, Rows DEF LifeAt
  <1>6. HistoryIsTheMemorys' /\ LivesApart'
    <2>1. \A j \in Ids : j \notin Live \cup Trashed => versions[j] = {}
      BY HistoryAt
    <2> QED BY <1>2, <1>4, <1>5, <2>1, MemoriesStay
  <1>7. OnePlace' /\ NoncesKnown'
    BY <1>2, <1>4 DEF OnePlace, NoncesKnown
  <1>8. ReadRow' /\ IdleReadsNothing'
    BY Typed, <1>2, ReadingStays
  <1> QED BY <1>3, <1>6, <1>7, <1>8

(* A step that only a request takes note of. *)
LEMMA RequestsOnly ==
  ASSUME TrashInv, UNCHANGED <<entry, bin, versions, lives, nonces, edited>>,
         req' \in [Requests -> Request], ReadRow', IdleReadsNothing'
  PROVE  TrashInv'
  <1> USE DEF TrashInv
  <1>1. TypeOK'
    BY Typed, TypedNext
  <1>2. OnePlace' /\ HistoryIsTheMemorys' /\ LivesApart' /\ NoncesKnown'
    BY DEF OnePlace, HistoryIsTheMemorys, LivesApart, LifeAt, NoncesKnown, Live, Trashed
  <1> QED BY <1>1, <1>2

LEMMA ReadForgetKeeps ==
  ASSUME TrashInv, NEW q \in Requests, NEW S \in SUBSET Ids, ReadForget(q, S)
  PROVE  TrashInv'
  <1> USE DEF TrashInv
  <1> DEFINE new == [Idle EXCEPT !.at = "forget", !.pairs = [i \in S |-> entry[i].ws],
                                 !.hard = {i \in S : entry[i].large}]
  <1>1. req' = [req EXCEPT ![q] = new]
    BY DEF ReadForget
  <1>2. new \in Request /\ new.at = "forget"
    <2>1. [i \in S |-> entry[i].ws] \in [S -> Workspaces]
      BY Rows DEF ReadForget, EntryRow
    <2> QED BY <2>1, IdleIsRequest DEF Request, Reading
  <1>3. req' \in [Requests -> Request] /\ req'[q].at = "forget" /\ \A r \in Requests \ {q} : req'[r] = req[r]
    BY <1>1, <1>2, Typed
  <1>4. ReadRow' /\ IdleReadsNothing'
    BY <1>3 DEF ReadForget, ReadRow, IdleReadsNothing, Trashed
  <1> QED BY <1>3, <1>4, RequestsOnly DEF ReadForget

LEMMA ReadTrashedKeeps ==
  ASSUME TrashInv, NEW q \in Requests, NEW i \in Ids, NEW what \in {"restore", "forever"},
         ReadTrashed(q, i, what)
  PROVE  TrashInv'
  <1> USE DEF TrashInv
  <1> DEFINE new == [Idle EXCEPT !.at = what, !.pairs = [x \in {i} |-> bin[i].ws],
                                 !.nonce = bin[i].nonce, !.saw = bin[i].life]
  <1>1. req' = [req EXCEPT ![q] = new]
    BY DEF ReadTrashed
  <1>2. bin[i] \in BinRow /\ i \in Trashed /\ bin[i].nonce \in Nat /\ bin[i].life \in Nat
    BY Rows, TrashAssumption DEF ReadTrashed, BinRow
  <1>3. /\ new \in Request /\ new.at = what
        /\ new.nonce = bin[i].nonce /\ new.pairs = [x \in {i} |-> bin[i].ws] /\ new.saw = bin[i].life
    <2>1. [x \in {i} |-> bin[i].ws] \in [{i} -> Workspaces]
      BY <1>2 DEF BinRow
    <2>2. [x \in {i} |-> bin[i].ws] \in Reading
      BY <2>1 DEF Reading
    <2> QED BY <1>2, <2>2, IdleIsRequest DEF Request
  <1>4. req' \in [Requests -> Request] /\ req'[q] = new /\ \A r \in Requests \ {q} : req'[r] = req[r]
    BY <1>1, <1>3, Typed
  <1>5. /\ new.nonce <= nonces /\ DOMAIN new.pairs = {i}
        /\ bin[i].ws = new.pairs[i] /\ bin[i].life = new.saw
    BY <1>2, <1>3 DEF NoncesKnown
  <1>6. Trashed' = Trashed /\ bin' = bin /\ nonces' = nonces
    BY DEF ReadTrashed, Trashed
  <1> HIDE DEF new
  <1>7. ReadRow'
    BY <1>4, <1>5, <1>6 DEF ReadRow
  <1>8. IdleReadsNothing'
    BY <1>3, <1>4 DEF IdleReadsNothing
  <1> QED BY <1>4, <1>7, <1>8, RequestsOnly DEF ReadTrashed

LEMMA ReadPurgeKeeps ==
  ASSUME TrashInv, NEW q \in Requests, NEW cutoff \in 2..nonces + 1, ReadPurge(q, cutoff)
  PROVE  TrashInv'
  <1> USE DEF TrashInv
  <1> DEFINE S == {x \in Trashed : bin[x].nonce < cutoff}
             new == [Idle EXCEPT !.at = "purge", !.nonce = cutoff, !.pairs = [i \in S |-> bin[i].ws]]
  <1>1. req' = [req EXCEPT ![q] = new]
    BY DEF ReadPurge
  <1>2. new \in Request /\ new.at = "purge"
    <2>1. [i \in S |-> bin[i].ws] \in [S -> Workspaces] /\ S \in SUBSET Ids
      BY Rows DEF BinRow
    <2>2. cutoff \in Nat
      BY Typed, TrashAssumption
    <2> QED BY <2>1, <2>2, IdleIsRequest DEF Request, Reading
  <1>3. req' \in [Requests -> Request] /\ req'[q].at = "purge" /\ \A r \in Requests \ {q} : req'[r] = req[r]
    BY <1>1, <1>2, Typed
  <1>4. ReadRow' /\ IdleReadsNothing'
    BY <1>3 DEF ReadPurge, ReadRow, IdleReadsNothing, Trashed
  <1> QED BY <1>3, <1>4, RequestsOnly DEF ReadPurge

LEMMA AbandonKeeps ==
  ASSUME TrashInv, NEW q \in Requests, Abandon(q)
  PROVE  TrashInv'
  <1> USE DEF TrashInv
  <1>1. ReadRow' /\ IdleReadsNothing'
    BY Typed, DoneTyped, ReadingStays DEF Abandon
  <1> QED BY <1>1, DoneTyped, RequestsOnly DEF Abandon

-------------------------------------------------------------------------------
(* The batches. The rows a batch takes are the rows it read.                   *)
LEMMA ReadId ==
  ASSUME TrashInv, NEW q \in Requests, req[q].at \in {"restore", "forever"}
  PROVE  /\ IdOf(q) \in Ids /\ DOMAIN req[q].pairs = {IdOf(q)}
         /\ Pinned(q) => /\ bin[IdOf(q)].ws = req[q].pairs[IdOf(q)]
                         /\ bin[IdOf(q)].life = req[q].saw
  BY DEF TrashInv, ReadRow, IdOf, Pinned

LEMMA ForgetKeeps ==
  ASSUME TrashInv, NEW q \in Requests, ForgetBatch(q)
  PROVE  TrashInv'
  <1> USE DEF TrashInv
  <1> DEFINE moved == Guarded(q) \ req[q].hard
             count == Cardinality(moved)
  <1>1. req' \in [Requests -> Request] /\ \A r \in Requests : req'[r] = req[r] \/ req'[r] = Idle
    BY DoneTyped DEF ForgetBatch
  <1>2. CASE moved \cap Trashed # {} \/ (\E i \in moved : entry[i].large)
    <2>1. UNCHANGED <<entry, bin, versions, lives, nonces, edited>>
      BY <1>2 DEF ForgetBatch
    <2>2. ReadRow' /\ IdleReadsNothing'
      BY <1>1, <2>1, Typed, ReadingStays
    <2> QED BY <1>1, <2>1, <2>2, RequestsOnly
  <1>3. CASE ~(moved \cap Trashed # {} \/ (\E i \in moved : entry[i].large))
    <2>1. PICK n \in [moved -> nonces + 1..nonces + count] :
             bin' = [i \in Ids |-> IF i \in moved
                                     THEN [life |-> entry[i].life, ws |-> entry[i].ws, nonce |-> n[i]]
                                     ELSE bin[i]]
      BY <1>3 DEF ForgetBatch
    <2>2. /\ nonces + count <= MaxNonces /\ nonces' = nonces + count
          /\ versions' = [i \in Ids |-> IF i \in VersionsOf(q) THEN {} ELSE versions[i]]
          /\ entry' = [i \in Ids |-> IF i \in Guarded(q) THEN None ELSE entry[i]]
          /\ lives' = lives /\ edited' = edited /\ moved \cap Trashed = {}
      BY <1>3 DEF ForgetBatch
    <2>3. Guarded(q) \subseteq Live /\ moved \subseteq Guarded(q) /\ Guarded(q) \subseteq Ids
      BY Rows DEF Guarded
    <2>4. count \in Nat /\ nonces \in Nat /\ nonces' \in 0..MaxNonces
      <3>1. count \in Nat
        BY <2>3, TrashAssumption, FS_Subset, FS_CardinalityType
      <3> QED BY <2>2, <3>1, Typed, TrashAssumption
    <2>5. \A i \in moved : n[i] \in 1..MaxNonces /\ n[i] > nonces /\ n[i] <= nonces'
      <3> HIDE DEF moved, count
      <3> QED BY <2>2, <2>4, TrashAssumption
    <2> HIDE DEF moved, count
    <2>6. \A i \in moved : /\ bin'[i] \in BinRow /\ bin'[i] # None
                           /\ bin'[i].nonce > nonces /\ bin'[i].nonce <= nonces'
                           /\ bin'[i].life = entry[i].life
      <3> SUFFICES ASSUME NEW i \in moved
                   PROVE  /\ bin'[i] \in BinRow /\ bin'[i] # None
                          /\ bin'[i].nonce > nonces /\ bin'[i].nonce <= nonces'
                          /\ bin'[i].life = entry[i].life
        OBVIOUS
      <3> DEFINE row == [life |-> entry[i].life, ws |-> entry[i].ws, nonce |-> n[i]]
      <3>1. bin'[i] = row
        BY <2>1, <2>3
      <3>2. row.nonce = n[i] /\ row.life = entry[i].life
        OBVIOUS
      <3>3. entry[i] \in EntryRow
        BY <2>3, Rows
      <3>4. row \in BinRow
        BY <2>5, <3>3 DEF EntryRow, BinRow
      <3> HIDE DEF row
      <3> QED BY <2>5, <3>1, <3>2, <3>4, RowsAreRows
    <2>7. /\ \A i \in Ids \ moved : bin'[i] = bin[i]
          /\ \A i \in Guarded(q) : entry'[i] = None
          /\ \A i \in Ids \ Guarded(q) : entry'[i] = entry[i]
      BY <2>1, <2>2, <2>3
    <2>8. Live' = Live \ Guarded(q) /\ Trashed' = Trashed \cup moved
      <3>1. \A i \in Ids : i \in Live' <=> i \in Live \ Guarded(q)
        BY <2>3, <2>7, Rows, RowsNext
      <3>2. \A i \in Ids : i \in Trashed' <=> i \in Trashed \cup moved
        BY <2>3, <2>6, <2>7, Rows, RowsNext
      <3> QED BY <2>3, <3>1, <3>2, Rows, RowsNext
    <2>9. OnePlace'
      BY <2>3, <2>8 DEF OnePlace
    <2>10. TypeOK'
      <3>1. bin' \in [Ids -> BinRow \cup {None}]
        BY <2>1, <2>6, <2>7, Typed
      <3>2. entry' \in [Ids -> EntryRow \cup {None}] /\ versions' \in [Ids -> SUBSET (1..MaxLives)]
        BY <2>2, Typed
      <3> QED BY <1>1, <2>2, <2>4, <3>1, <3>2, Typed, TypedNext
    <2>11. HistoryIsTheMemorys' /\ LivesApart'
      <3>1. ASSUME NEW i \in Live' \cup Trashed'
            PROVE  i \in Live \cup Trashed /\ LifeAt(i)' = LifeAt(i) /\ versions'[i] = versions[i]
        <4>1. i \in Live \cup Trashed /\ i \in Ids
          BY <2>3, <2>8, Rows
        <4>2. i \notin VersionsOf(q)
          BY <2>3, <2>8 DEF VersionsOf, moved
        <4>3. LifeAt(i)' = LifeAt(i)
          BY <2>3, <2>6, <2>7, <2>8, <4>1 DEF LifeAt, OnePlace
        <4> QED BY <2>2, <4>1, <4>2, <4>3
      <3>2. ASSUME NEW i \in Ids, i \notin Live' \cup Trashed' PROVE versions'[i] = {}
        <4>1. i \in Live \cup Trashed => i \in VersionsOf(q)
          BY <2>8, <3>2 DEF VersionsOf, moved
        <4>2. i \notin Live \cup Trashed => versions[i] = {}
          BY HistoryAt
        <4> QED BY <2>2, <4>1, <4>2
      <3> QED BY <2>2, <3>1, <3>2, MemoriesStay
    <2>12. NoncesKnown'
      <3>1. \A i \in Trashed \ moved : bin'[i].nonce <= nonces'
        <4>1. \A i \in Trashed : bin[i].nonce <= nonces /\ bin[i].nonce \in Nat
          BY Rows, TrashAssumption DEF NoncesKnown, BinRow
        <4> QED BY <2>2, <2>4, <2>7, <4>1, Rows
      <3> QED BY <2>6, <2>8, <3>1 DEF NoncesKnown
    <2>13. ReadRow' /\ IdleReadsNothing'
      <3>1. \A i \in Ids : bin'[i] = bin[i] \/ bin'[i].nonce > nonces
        BY <2>6, <2>7
      <3>2. nonces' \in Nat /\ nonces' >= nonces
        BY <2>2, <2>4
      <3> QED BY <1>1, <3>1, <3>2, ReadingStays
    <2> QED BY <2>9, <2>10, <2>11, <2>12, <2>13
  <1> QED BY <1>2, <1>3

LEMMA RestoreKeeps ==
  ASSUME TrashInv, NEW q \in Requests, RestoreBatch(q)
  PROVE  TrashInv'
  <1> USE DEF TrashInv
  <1> DEFINE i == IdOf(q)
             row == [life |-> bin[i].life, ws |-> bin[i].ws, large |-> FALSE]
  <1>1. req' \in [Requests -> Request] /\ \A r \in Requests : req'[r] = req[r] \/ req'[r] = Idle
    BY DoneTyped DEF RestoreBatch
  <1>2. UNCHANGED <<versions, lives, nonces, edited>>
    BY DEF RestoreBatch
  <1>3. CASE ~(Pinned(q) /\ i \notin Live)
    <2>1. UNCHANGED <<entry, bin, versions, lives, nonces, edited>>
      BY <1>2, <1>3 DEF RestoreBatch
    <2>2. ReadRow' /\ IdleReadsNothing'
      BY <1>1, <2>1, Typed, ReadingStays
    <2> QED BY <1>1, <2>1, <2>2, RequestsOnly
  <1>4. CASE Pinned(q) /\ i \notin Live
    <2>1. i \in Ids /\ i \in Trashed /\ i \notin Live /\ bin[i] \in BinRow
      BY <1>4, Rows DEF Pinned
    <2>2. row \in EntryRow /\ row # None /\ row.life = bin[i].life
      <3>1. row \in EntryRow
        BY <2>1 DEF EntryRow, BinRow
      <3> QED BY <3>1, RowsAreRows
    <2>3. entry' = [entry EXCEPT ![i] = row] /\ bin' = [bin EXCEPT ![i] = None]
      BY <1>4 DEF RestoreBatch
    <2> HIDE DEF row, i
    <2>4. /\ entry'[i] = row /\ bin'[i] = None
          /\ \A j \in Ids \ {i} : entry'[j] = entry[j] /\ bin'[j] = bin[j]
      BY <2>1, <2>3, Typed
    <2>5. Live' = Live \cup {i} /\ Trashed' = Trashed \ {i}
      BY <2>1, <2>2, <2>4, Rows, RowsNext
    <2>6. TypeOK'
      BY <1>1, <1>2, <2>2, <2>3, Typed, TypedNext
    <2>7. OnePlace' /\ NoncesKnown'
      BY <1>2, <2>4, <2>5, Rows DEF OnePlace, NoncesKnown
    <2>8. HistoryIsTheMemorys' /\ LivesApart'
      <3>1. \A j \in Live \cup Trashed : LifeAt(j)' = LifeAt(j)
        BY <2>1, <2>2, <2>4, <2>5, Rows DEF LifeAt
      <3>2. \A j \in Ids : j \notin Live \cup Trashed => versions[j] = {}
        BY HistoryAt
      <3> QED BY <1>2, <2>1, <2>5, <3>1, <3>2, MemoriesStay
    <2>9. ReadRow' /\ IdleReadsNothing'
      BY <1>1, <1>2, <2>4, Typed, ReadingStays
    <2> QED BY <2>6, <2>7, <2>8, <2>9
  <1> QED BY <1>3, <1>4

(* Trash rows that go for good, with the history of those that are not live.   *)
LEMMA RowsGo ==
  ASSUME TrashInv, UNCHANGED <<entry, lives, nonces, edited>>,
         req' \in [Requests -> Request], \A r \in Requests : req'[r] = req[r] \/ req'[r] = Idle,
         NEW gone \in SUBSET Trashed,
         bin' \in [Ids -> BinRow \cup {None}], versions' \in [Ids -> SUBSET (1..MaxLives)],
         \A j \in gone : bin'[j] = None /\ versions'[j] = {},
         \A j \in Ids \ gone : bin'[j] = bin[j] /\ versions'[j] = versions[j]
  PROVE  TrashInv'
  <1> USE DEF TrashInv
  <1>1. TypeOK'
    BY Typed, TypedNext
  <1>2. Live' = Live /\ Trashed' = Trashed \ gone
    BY Rows, RowsNext
  <1>3. OnePlace' /\ NoncesKnown'
    BY <1>2, Rows DEF OnePlace, NoncesKnown
  <1>4. HistoryIsTheMemorys' /\ LivesApart'
    <2>1. \A j \in Live' \cup Trashed' : LifeAt(j)' = LifeAt(j)
      BY <1>2, Rows DEF LifeAt
    <2>2. \A j \in Live' \cup Trashed' : j \notin gone
      BY <1>2 DEF OnePlace
    <2>3. \A j \in Ids : j \notin Live \cup Trashed => versions[j] = {}
      BY HistoryAt
    <2> QED BY <1>2, <2>1, <2>2, <2>3, Rows, MemoriesStay
  <1>5. ReadRow' /\ IdleReadsNothing'
    BY Typed, ReadingStays
  <1> QED BY <1>1, <1>3, <1>4, <1>5

LEMMA ForeverKeeps ==
  ASSUME TrashInv, NEW q \in Requests, ForeverBatch(q)
  PROVE  TrashInv'
  <1> USE DEF TrashInv
  <1>1. req' \in [Requests -> Request] /\ \A r \in Requests : req'[r] = req[r] \/ req'[r] = Idle
    BY DoneTyped DEF ForeverBatch
  <1>2. UNCHANGED <<entry, lives, nonces, edited>>
    BY DEF ForeverBatch
  <1> DEFINE goes == Pinned(q) /\ bin[IdOf(q)].ws = req[q].pairs[IdOf(q)]
  <1>3. CASE ~goes
    <2>1. UNCHANGED <<bin, versions>>
      BY <1>3 DEF ForeverBatch
    <2>2. ReadRow' /\ IdleReadsNothing'
      BY <1>1, <1>2, <2>1, Typed, ReadingStays
    <2> QED BY <1>1, <1>2, <2>1, <2>2, RequestsOnly
  <1>4. CASE goes
    <2>1. IdOf(q) \in Trashed /\ IdOf(q) \in Ids /\ IdOf(q) \notin Live
      BY <1>4, Rows DEF Pinned, OnePlace
    <2>2. /\ bin' = [bin EXCEPT ![IdOf(q)] = None]
          /\ versions' = [versions EXCEPT ![IdOf(q)] = {}]
      BY <1>4, <2>1, Typed DEF ForeverBatch
    <2>3. bin' \in [Ids -> BinRow \cup {None}] /\ versions' \in [Ids -> SUBSET (1..MaxLives)]
      BY <2>2, Typed
    <2> DEFINE gone == {IdOf(q)}
    <2>4. /\ gone \in SUBSET Trashed
          /\ \A j \in gone : bin'[j] = None /\ versions'[j] = {}
          /\ \A j \in Ids \ gone : bin'[j] = bin[j] /\ versions'[j] = versions[j]
      BY <2>1, <2>2, Typed
    <2> HIDE DEF gone
    <2> QED BY <1>1, <1>2, <2>1, <2>3, <2>4, RowsGo
  <1> QED BY <1>3, <1>4

LEMMA PurgeKeeps ==
  ASSUME TrashInv, NEW q \in Requests, PurgeBatch(q)
  PROVE  TrashInv'
  <1> USE DEF TrashInv
  <1>1. req' \in [Requests -> Request] /\ \A r \in Requests : req'[r] = req[r] \/ req'[r] = Idle
    BY DoneTyped DEF PurgeBatch
  <1>2. /\ UNCHANGED <<entry, lives, nonces, edited>>
        /\ versions' = [i \in Ids |-> IF i \in Expired(q) \ Live THEN {} ELSE versions[i]]
        /\ bin' = [i \in Ids |-> IF i \in Expired(q) THEN None ELSE bin[i]]
    BY DEF PurgeBatch
  <1>3. Expired(q) \in SUBSET Trashed /\ Expired(q) \cap Live = {} /\ Expired(q) \subseteq Ids
    BY Rows DEF Expired, OnePlace
  <1>4. bin' \in [Ids -> BinRow \cup {None}] /\ versions' \in [Ids -> SUBSET (1..MaxLives)]
    BY <1>2, Typed
  <1>5. /\ \A j \in Expired(q) : bin'[j] = None /\ versions'[j] = {}
        /\ \A j \in Ids \ Expired(q) : bin'[j] = bin[j] /\ versions'[j] = versions[j]
    BY <1>2, <1>3
  <1> QED BY <1>1, <1>2, <1>3, <1>4, <1>5, RowsGo

-------------------------------------------------------------------------------
LEMMA TrashInductive == TrashInv /\ [Next]_vars => TrashInv'
  <1> SUFFICES ASSUME TrashInv, [Next]_vars PROVE TrashInv'
    OBVIOUS
  <1>1. ASSUME NEW i \in Ids, NEW w \in Workspaces, Import(i, w) PROVE TrashInv'
    BY <1>1, ImportKeeps
  <1>2. ASSUME NEW i \in Ids, NEW w \in Workspaces, Share(i, w) PROVE TrashInv'
    BY <1>2, ShareKeeps
  <1>3. ASSUME NEW i \in Ids, NEW large \in BOOLEAN, Edit(i, large) PROVE TrashInv'
    BY <1>3, EditKeeps
  <1>4. ASSUME NEW q \in Requests, NEW S \in SUBSET Ids, ReadForget(q, S) PROVE TrashInv'
    BY <1>4, ReadForgetKeeps
  <1>5. ASSUME NEW q \in Requests, NEW i \in Ids, NEW what \in {"restore", "forever"},
               ReadTrashed(q, i, what)
        PROVE  TrashInv'
    BY <1>5, ReadTrashedKeeps
  <1>6. ASSUME NEW q \in Requests, NEW cutoff \in 2..nonces + 1, ReadPurge(q, cutoff) PROVE TrashInv'
    BY <1>6, ReadPurgeKeeps
  <1>7. ASSUME NEW q \in Requests, ForgetBatch(q) PROVE TrashInv'
    BY <1>7, ForgetKeeps
  <1>8. ASSUME NEW q \in Requests, RestoreBatch(q) PROVE TrashInv'
    BY <1>8, RestoreKeeps
  <1>9. ASSUME NEW q \in Requests, ForeverBatch(q) PROVE TrashInv'
    BY <1>9, ForeverKeeps
  <1>10. ASSUME NEW q \in Requests, PurgeBatch(q) PROVE TrashInv'
    BY <1>10, PurgeKeeps
  <1>11. ASSUME NEW q \in Requests, Abandon(q) PROVE TrashInv'
    BY <1>11, AbandonKeeps
  <1>12. CASE UNCHANGED vars
    BY <1>12 DEF vars, TrashInv, TypeOK, OnePlace, HistoryIsTheMemorys, LivesApart, LifeAt,
                 NoncesKnown, ReadRow, IdleReadsNothing, Live, Trashed
  <1> QED BY <1>1, <1>2, <1>3, <1>4, <1>5, <1>6, <1>7, <1>8, <1>9, <1>10, <1>11, <1>12 DEF Next

LEMMA TrashAlways == Spec => []TrashInv
  BY TrashStarts, TrashInductive, PTL DEF Spec

(* Whatever imports, edits, shares, forgets, restores and purges interleave to, *)
(* the tables, the requests and the counters hold what their columns can.       *)
THEOREM TypeCorrect == Spec => []TypeOK
  <1>1. TrashInv => TypeOK
    BY DEF TrashInv
  <1> QED BY <1>1, TrashAlways, PTL

(* Ids stay unique across entries and entries_trash, for any number of requests *)
(* (entries/import.ts:42, the guard of the import and of the restore batch).    *)
THEOREM OnePlaceHolds == Spec => []OnePlace
  <1>1. TrashInv => OnePlace
    BY DEF TrashInv
  <1> QED BY <1>1, TrashAlways, PTL

(* The history under an id is that of the memory there, whole: no batch takes   *)
(* the versions of a memory it did not take, none leaves them to the next one.  *)
THEOREM HistoryStays == Spec => []HistoryIsTheMemorys
  <1>1. TrashInv => HistoryIsTheMemorys
    BY DEF TrashInv
  <1> QED BY <1>1, TrashAlways, PTL

-------------------------------------------------------------------------------
(* What a step takes, it takes from where the request that it ends read it.    *)
LEMMA TakesWhatWasRead ==
  ASSUME TrashInv, [Next]_vars, NEW q \in Requests, req'[q] = Idle,
         NEW i \in DOMAIN req[q].pairs
  PROVE  /\ entry[i] # None /\ entry'[i] = None => entry[i].ws = req[q].pairs[i]
         /\ bin[i] # None /\ bin'[i] = None /\ req[q].at # "purge"
              => bin[i].ws = req[q].pairs[i] /\ bin[i].life = req[q].saw
  <1> DEFINE Good == /\ entry[i] # None /\ entry'[i] = None => entry[i].ws = req[q].pairs[i]
                     /\ bin[i] # None /\ bin'[i] = None /\ req[q].at # "purge"
                          => bin[i].ws = req[q].pairs[i] /\ bin[i].life = req[q].saw
  <1> USE DEF TrashInv
  <1>1. i \in Ids
    BY Typed DEF Request, Reading
  <1>2. req' # req
    BY IdleIsRequest DEF IdleReadsNothing
  <1>3. ASSUME NEW r \in Requests, Done(r) PROVE r = q
    BY <1>3, DoneTyped, IdleIsRequest DEF IdleReadsNothing
  <1>4. CASE UNCHANGED <<entry, bin>>
    BY <1>4
  <1>5. ASSUME NEW r \in Requests, ForgetBatch(r) PROVE Good
    <2>1. r = q /\ req[q].at = "forget"
      BY <1>3, <1>5 DEF ForgetBatch
    <2> DEFINE moved == Guarded(q) \ req[q].hard
    <2>2. CASE moved \cap Trashed # {} \/ (\E k \in moved : entry[k].large)
      BY <1>4, <1>5, <2>1, <2>2 DEF ForgetBatch
    <2>3. CASE ~(moved \cap Trashed # {} \/ (\E k \in moved : entry[k].large))
      <3>1. entry' = [k \in Ids |-> IF k \in Guarded(q) THEN None ELSE entry[k]]
        BY <1>5, <2>1, <2>3 DEF ForgetBatch
      <3>2. i \notin moved => bin'[i] = bin[i]
        <4>1. PICK n : bin' = [k \in Ids |-> IF k \in moved
                                   THEN [life |-> entry[k].life, ws |-> entry[k].ws, nonce |-> n[k]]
                                   ELSE bin[k]]
          BY <1>5, <2>1, <2>3 DEF ForgetBatch
        <4> QED BY <1>1, <4>1
      <3>3. i \in moved => bin[i] = None
        BY <1>1, <2>3, Rows
      <3> QED BY <1>1, <3>1, <3>2, <3>3 DEF Guarded
    <2> QED BY <2>2, <2>3
  <1>6. ASSUME NEW r \in Requests, RestoreBatch(r) PROVE Good
    <2>1. r = q /\ req[q].at = "restore"
      BY <1>3, <1>6 DEF RestoreBatch
    <2>2. i = IdOf(q)
      BY <2>1, ReadId
    <2>3. CASE ~(Pinned(q) /\ IdOf(q) \notin Live)
      BY <1>4, <1>6, <2>1, <2>3 DEF RestoreBatch
    <2>4. CASE Pinned(q) /\ IdOf(q) \notin Live
      <3>1. entry[i] = None
        BY <1>1, <2>2, <2>4, Rows
      <3> QED BY <2>1, <2>2, <2>4, <3>1, ReadId
    <2> QED BY <2>3, <2>4
  <1>7. ASSUME NEW r \in Requests, ForeverBatch(r) PROVE Good
    <2>1. r = q /\ req[q].at = "forever" /\ entry' = entry
      BY <1>3, <1>7 DEF ForeverBatch
    <2>2. i = IdOf(q)
      BY <2>1, ReadId
    <2>3. CASE ~(Pinned(q) /\ bin[IdOf(q)].ws = req[q].pairs[IdOf(q)])
      BY <1>4, <1>7, <2>1, <2>3 DEF ForeverBatch
    <2>4. CASE Pinned(q) /\ bin[IdOf(q)].ws = req[q].pairs[IdOf(q)]
      BY <2>1, <2>2, <2>4, ReadId
    <2> QED BY <2>3, <2>4
  <1>8. ASSUME NEW r \in Requests, PurgeBatch(r) PROVE Good
    BY <1>3, <1>8 DEF PurgeBatch
  <1>9. \/ UNCHANGED <<entry, bin>>
        \/ \E r \in Requests : ForgetBatch(r) \/ RestoreBatch(r) \/ ForeverBatch(r) \/ PurgeBatch(r)
    BY <1>2 DEF Next, vars, Import, Share, Edit, ReadForget, ReadTrashed, ReadPurge, Abandon
  <1> QED BY <1>4, <1>5, <1>6, <1>7, <1>8, <1>9

(* However the rows a request read are shared, purged and their ids used again  *)
(* before its batch, the batch takes a memory only from the workspace it was    *)
(* read in, and a restore or a Delete forever only the memory it was asked for. *)
THEOREM OnlyWhatWasReadHolds == Spec => OnlyWhatWasRead
  <1>1. TrashInv /\ [Next]_vars =>
          [\A q \in Requests : req'[q] = Idle => \A i \in DOMAIN req[q].pairs :
             /\ entry[i] # None /\ entry'[i] = None => entry[i].ws = req[q].pairs[i]
             /\ bin[i] # None /\ bin'[i] = None /\ req[q].at # "purge"
                  => bin[i].ws = req[q].pairs[i] /\ bin[i].life = req[q].saw]_vars
    BY TakesWhatWasRead
  <1> QED BY <1>1, TrashAlways, PTL DEF Spec, OnlyWhatWasRead

===============================================================================
