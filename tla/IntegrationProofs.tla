--------------------------- MODULE IntegrationProofs ---------------------------
(* Proofs about the connections to outside services: the lease of a provider,  *)
(* which this module extends, the session with ChatGPT, which it names         *)
(* Session, and the push runs, which it names Push; for any calls and runs     *)
(* under way, any items, rows, workspaces and devices and any bounds.          *)
EXTENDS ProviderLease, SessionRow, DeviceDeliveries, FiniteSetTheorems, SequenceTheorems,
        WellFoundedInduction, TLAPS

-------------------------------------------------------------------------------
(* Lowest and highest of a set of ids.                                         *)

LEMMA LowestExists ==
  ASSUME NEW S, S \subseteq Nat, S # {}
  PROVE  \E e \in S : \A f \in S : e <= f
  <1> DEFINE R == OpToRel(<, Nat)
  <1>1. IsWellFoundedOn(R, Nat)
    BY NatLessThanWellFounded
  <1>2. \A x, y \in Nat : <<y, x>> \in R <=> y < x
    BY DEF OpToRel
  <1> HIDE DEF R
  <1>3. PICK x \in S : \A y \in S : ~(<<y, x>> \in R)
    BY <1>1, WFMin
  <1>4. ASSUME NEW y \in S PROVE x <= y
    <2>1. x \in Nat /\ y \in Nat /\ ~(y < x)
      BY <1>2, <1>3
    <2> QED
      BY <2>1
  <1> QED
    BY <1>4

LEMMA LowestOfFacts ==
  ASSUME NEW S, S \subseteq Rows, S # {}
  PROVE  LowestOf(S) \in S
  <1>1. \E e \in S : \A f \in S : e <= f
    BY LowestExists, ProviderAssumption
  <1> QED
    BY <1>1 DEF LowestOf

LEMMA HighestOfFacts ==
  ASSUME NEW S, S \subseteq Keys, S # {}
  PROVE  HighestOf(S) \in S
  <1>1. PICK top \in Keys : \A k \in Keys : k <= top
    BY ProviderAssumption
  <1> DEFINE T == {top - k : k \in S}
  <1>2. Keys \subseteq Nat
    BY ProviderAssumption
  <1>3. \A k \in S : k \in Nat /\ top \in Nat /\ k <= top
    BY <1>1, <1>2
  <1>4. T \subseteq Nat /\ T # {}
    BY <1>3
  <1>5. PICK t \in T : \A u \in T : t <= u
    BY <1>4, LowestExists
  <1>6. PICK e \in S : t = top - e
    BY <1>5
  <1>7. ASSUME NEW f \in S PROVE f <= e
    <2>1. top - e <= top - f
      BY <1>5, <1>6
    <2> QED
      BY <1>3, <2>1
  <1>8. \E x \in S : \A f \in S : f <= x
    BY <1>7
  <1> QED
    BY <1>8 DEF HighestOf

-------------------------------------------------------------------------------
(* The inductive invariant of the lease.                                       *)

Places == {"idle", "claim", "connect", "sync", "disconnect", "insert", "delete", "list", "keep",
           "reset", "page", "tell", "sweep", "swept", "retire", "erase"}
Cursors == Keys \cup {0, None}
Marks == [from : Cursors, next : Cursors]
Records == [map : [Keys -> Rows \cup {0}], disconnecting : Marks \cup {None}]
Providers == [gen : Generations, owner : Operations \cup {None}, valid : BOOLEAN, draining : BOOLEAN]
Ops == [at : Places, mode : {"none", "connect", "sync", "disconnect"}, gen : Generations,
        item : Keys \cup {0}, row : Rows \cup {0}, page : SUBSET Rows, cursor : Cursors, next : Cursors]

LeaseTypes ==
    /\ provider \in Providers
    /\ record \in [Generations -> Records \cup {None}]
    /\ live \subseteq Rows
    /\ op \in [Operations -> Ops]
    /\ client \in Cursors
    /\ born \in [Rows -> Generations \cup {None}]
    /\ purged \subseteq Nat

\* A purge between its first page and its end, and a sync.
Purging == {"reset", "page", "tell", "sweep", "swept", "retire"}
Syncing == {"sync", "insert", "delete", "list"}

\* Whoever purges the current generation finds it draining, and who saw that nothing was left of
\* it is still right: none but a sync inserts, and no sync holds a lease while it drains.
Placed(q) ==
    /\ q.at # "idle" => q.mode # "none" /\ q.gen <= provider.gen
    /\ q.at \in Syncing => q.mode = "sync"
    /\ q.at \in Purging /\ q.gen = provider.gen => provider.draining
    /\ q.at = "retire" /\ q.gen = provider.gen => live = {}

LeaseInv ==
    /\ LeaseTypes
    /\ \A o \in Operations : Placed(op[o])
    /\ \A g \in purged : g < provider.gen
    /\ NothingBehindPurge

LEMMA LeaseInit == Init => LeaseInv
  <1> SUFFICES ASSUME Init PROVE LeaseInv
    OBVIOUS
  <1>1. Idle \in Ops /\ Idle.at = "idle"
    BY ProviderAssumption DEF Idle, Ops, Places, Cursors
  <1>2. LeaseTypes
    BY <1>1, ProviderAssumption DEF Init, LeaseTypes, Providers, Cursors
  <1>3. \A o \in Operations : Placed(op[o])
    BY <1>1 DEF Init, Placed, Syncing, Purging
  <1> QED
    BY <1>2, <1>3 DEF Init, LeaseInv, NothingBehindPurge

-------------------------------------------------------------------------------
(* The invariant, step by step.                                                *)

\* A step that neither inserts a row nor rotates the generation.
LEMMA StepKeeps ==
  ASSUME LeaseInv, LeaseTypes', NEW o \in Operations, \A p \in Operations \ {o} : op'[p] = op[p],
         Placed(op[o])', provider'.gen = provider.gen, provider.draining => provider'.draining,
         live' \subseteq live, born' = born, purged' = purged
  PROVE  LeaseInv'
  <1>1. \A p \in Operations \ {o} : Placed(op[p])'
    BY DEF LeaseInv, Placed
  <1> QED
    BY <1>1 DEF LeaseInv, NothingBehindPurge

LEMMA IdleFacts == Idle \in Ops /\ Idle.at = "idle"
  BY ProviderAssumption DEF Idle, Ops, Places, Cursors

LEMMA LeaveFacts ==
  ASSUME LeaseInv, NEW o \in Operations, Leave(o)
  PROVE  /\ op' \in [Operations -> Ops] /\ \A p \in Operations \ {o} : op'[p] = op[p]
         /\ Placed(op[o])'
         /\ provider' \in Providers
         /\ provider'.gen = provider.gen /\ provider'.draining = provider.draining
  <1>1. op' = [op EXCEPT ![o] = Idle] /\ provider' = Released(o)
    BY DEF Leave
  <1>2. op'[o].at = "idle"
    BY <1>1, IdleFacts DEF LeaseInv, LeaseTypes
  <1>3. Placed(op[o])'
    BY <1>2 DEF Placed, Syncing, Purging
  <1>4. op' \in [Operations -> Ops] /\ \A p \in Operations \ {o} : op'[p] = op[p]
    BY <1>1, IdleFacts DEF LeaseInv, LeaseTypes
  <1>5. /\ provider' \in Providers
        /\ provider'.gen = provider.gen /\ provider'.draining = provider.draining
    BY <1>1 DEF Released, LeaseInv, LeaseTypes, Providers
  <1> QED
    BY <1>3, <1>4, <1>5

\* A call that leaves, having changed the record, the rows it knows of and the client at most.
LEMMA LeaveKeeps ==
  ASSUME LeaseInv, NEW o \in Operations, Leave(o),
         record' \in [Generations -> Records \cup {None}], client' \in Cursors,
         live' \subseteq live, born' = born, purged' = purged
  PROVE  LeaseInv'
  <1>1. LeaseTypes'
    BY LeaveFacts DEF LeaseInv, LeaseTypes
  <1> QED
    BY <1>1, LeaveFacts, StepKeeps

\* A call that goes on to another step.
LEMMA GoFacts ==
  ASSUME LeaseInv, NEW o \in Operations, NEW step \in Places, Go(o, step)
  PROVE  /\ op' \in [Operations -> Ops] /\ \A p \in Operations \ {o} : op'[p] = op[p]
         /\ op'[o].at = step /\ op'[o].gen = op[o].gen /\ op'[o].mode = op[o].mode
         /\ provider' = provider
  BY DEF Go, LeaseInv, LeaseTypes, Ops

LEMMA PutType ==
  ASSUME LeaseInv, NEW r \in Records, Put(r)
  PROVE  record' \in [Generations -> Records \cup {None}]
  BY DEF Put, LeaseInv, LeaseTypes

LEMMA CurrentType == LeaseInv => Current \in Records \cup {None}
  BY DEF Current, LeaseInv, LeaseTypes, Providers

LEMMA NoteType ==
  ASSUME LeaseInv, NEW mark \in Marks, Note(mark)
  PROVE  record' \in [Generations -> Records \cup {None}]
  <1>1. CASE Current = None
    BY <1>1 DEF Note, LeaseInv, LeaseTypes
  <1>2. CASE Current # None
    <2>1. [Current EXCEPT !.disconnecting = mark] \in Records
      BY <1>2, CurrentType DEF Records
    <2> QED
      BY <1>2, <2>1, PutType DEF Note
  <1> QED
    BY <1>1, <1>2

LEMMA BeginInv ==
  ASSUME LeaseInv, NEW o \in Operations, NEW mode \in {"connect", "sync", "disconnect"}, Begin(o, mode)
  PROVE  LeaseInv'
  <1> DEFINE cursor == IF mode = "disconnect" THEN client ELSE None
             new == [Idle EXCEPT !.at = "claim", !.mode = mode, !.gen = provider.gen, !.cursor = cursor]
  <1>1. op' = [op EXCEPT ![o] = new] /\ UNCHANGED <<provider, record, live, client, born, purged>>
    BY DEF Begin
  <1>2. cursor \in Cursors /\ provider.gen \in Generations
    BY DEF LeaseInv, LeaseTypes, Providers, Cursors
  <1> HIDE DEF cursor
  <1>3. new \in Ops /\ new.at = "claim" /\ new.gen = provider.gen /\ new.mode # "none"
    BY <1>2, IdleFacts DEF Ops, Places
  <1> HIDE DEF new
  <1>4. LeaseTypes'
    BY <1>1, <1>3 DEF LeaseInv, LeaseTypes
  <1>5. op'[o] = new /\ \A p \in Operations \ {o} : op'[p] = op[p]
    BY <1>1 DEF LeaseInv, LeaseTypes
  <1>6. provider.gen \in Nat
    BY <1>2, ProviderAssumption
  <1>7. Placed(op[o])'
    BY <1>1, <1>3, <1>5, <1>6 DEF Placed, Syncing, Purging
  <1> QED
    BY <1>1, <1>4, <1>5, <1>7, StepKeeps

LEMMA ClaimInv ==
  ASSUME LeaseInv, NEW o \in Operations, Claim(o)
  PROVE  LeaseInv'
  <1>1. UNCHANGED <<record, live, client, born, purged>> /\ op[o].at = "claim"
    BY DEF Claim
  <1>2. CASE /\ provider' = [provider EXCEPT !.owner = o, !.valid = TRUE]
             /\ op' = [op EXCEPT ![o].at = op[o].mode]
    <2>1. /\ provider' \in Providers
          /\ provider'.gen = provider.gen /\ provider'.draining = provider.draining
      BY <1>2 DEF LeaseInv, LeaseTypes, Providers
    <2>2. op[o].mode \in {"connect", "sync", "disconnect"} /\ op[o].gen <= provider.gen
      BY <1>1 DEF LeaseInv, LeaseTypes, Placed, Ops
    <2>3. /\ op' \in [Operations -> Ops]
          /\ \A p \in Operations \ {o} : op'[p] = op[p]
          /\ op'[o].at = op[o].mode /\ op'[o].mode = op[o].mode /\ op'[o].gen = op[o].gen
      BY <1>2, <2>2 DEF LeaseInv, LeaseTypes, Ops, Places
    <2>4. Placed(op[o])'
      BY <2>1, <2>2, <2>3 DEF Placed, Syncing, Purging
    <2>5. LeaseTypes'
      BY <1>1, <2>1, <2>3 DEF LeaseInv, LeaseTypes
    <2> QED
      BY <1>1, <2>1, <2>3, <2>4, <2>5, StepKeeps
  <1>3. CASE op' = [op EXCEPT ![o] = Idle] /\ provider' = provider
    <2>1. op' \in [Operations -> Ops] /\ op'[o].at = "idle" /\ \A p \in Operations \ {o} : op'[p] = op[p]
      BY <1>3, IdleFacts DEF LeaseInv, LeaseTypes
    <2>2. LeaseTypes' /\ Placed(op[o])'
      BY <1>1, <1>3, <2>1 DEF LeaseInv, LeaseTypes, Placed, Syncing, Purging
    <2> QED
      BY <1>1, <1>3, <2>1, <2>2, StepKeeps
  <1> QED
    BY <1>2, <1>3 DEF Claim

LEMMA ConnectInv ==
  ASSUME LeaseInv, NEW o \in Operations, Connect(o)
  PROVE  LeaseInv'
  <1> DEFINE new == [map |-> IF Current = None THEN Unmapped ELSE Current.map, disconnecting |-> None]
  <1>1. Leave(o) /\ UNCHANGED <<live, client, born, purged>> /\ (Put(new) \/ record' = record)
    BY DEF Connect
  <1>2. Unmapped \in [Keys -> Rows \cup {0}]
    BY DEF Unmapped
  <1>3. new \in Records
    BY <1>2, CurrentType DEF Records
  <1> HIDE DEF new
  <1>4. record' \in [Generations -> Records \cup {None}] /\ client' \in Cursors
    BY <1>1, <1>3, PutType DEF LeaseInv, LeaseTypes
  <1> QED
    BY <1>1, <1>4, LeaveKeeps

LEMMA NothingToDoInv ==
  ASSUME LeaseInv, NEW o \in Operations, NothingToDo(o)
  PROVE  LeaseInv'
  <1>1. record' \in [Generations -> Records \cup {None}] /\ client' \in Cursors
    BY DEF NothingToDo, LeaseInv, LeaseTypes
  <1> QED
    BY <1>1, LeaveKeeps DEF NothingToDo

LEMMA PickInv ==
  ASSUME LeaseInv, NEW o \in Operations, NEW k \in Keys, Pick(o, k)
  PROVE  LeaseInv'
  <1> DEFINE row == Current.map[k]
             step == IF row \in live THEN "delete" ELSE "insert"
  <1>1. /\ op' = [op EXCEPT ![o].at = step, ![o].item = k, ![o].row = row]
        /\ op[o].at = "sync" /\ Current # None
        /\ UNCHANGED <<provider, record, live, client, born, purged>>
    BY DEF Pick
  <1>2. row \in Rows \cup {0} /\ step \in {"delete", "insert"}
    BY <1>1, CurrentType DEF Records
  <1> HIDE DEF row, step
  <1>3. op[o].mode = "sync" /\ op[o].gen <= provider.gen
    BY <1>1 DEF LeaseInv, Placed, Syncing
  <1>4. /\ op' \in [Operations -> Ops] /\ \A p \in Operations \ {o} : op'[p] = op[p]
        /\ op'[o].at = step /\ op'[o].mode = "sync" /\ op'[o].gen = op[o].gen
    <2> DEFINE new == [op[o] EXCEPT !.at = step, !.item = k, !.row = row]
    <2>1. op \in [Operations -> Ops] /\ op[o] \in Ops
      BY DEF LeaseInv, LeaseTypes
    <2>2. op' = [op EXCEPT ![o] = new]
      BY <1>1, <2>1
    <2>3. new \in Ops /\ new.at = step /\ new.mode = op[o].mode /\ new.gen = op[o].gen
      BY <1>2, <2>1 DEF Ops, Places
    <2> HIDE DEF new
    <2> QED
      BY <1>3, <2>1, <2>2, <2>3
  <1>5. LeaseTypes'
    BY <1>1, <1>4 DEF LeaseInv, LeaseTypes
  <1>6. Placed(op[o])'
    BY <1>1, <1>2, <1>3, <1>4 DEF Placed, Syncing, Purging
  <1> QED
    BY <1>1, <1>4, <1>5, <1>6, StepKeeps

\* The one step that brings a row: of the current generation, which is not draining.
LEMMA InsertFacts ==
  ASSUME LeaseInv, NEW o \in Operations, Insert(o)
  PROVE  \/ Leave(o) /\ UNCHANGED <<live, born>>
         \/ \E e \in Rows : /\ live' = live \cup {e} /\ born' = [born EXCEPT ![e] = provider.gen]
                            /\ op' = [op EXCEPT ![o].at = "list", ![o].row = e] /\ provider' = provider
                            /\ ~provider.draining
  <1>1. Fresh \subseteq Rows
    BY DEF Fresh
  <1>2. Fresh # {} => LowestOf(Fresh) \in Rows
    BY <1>1, LowestOfFacts
  <1>3. Holds(o) => ~provider.draining /\ op[o].gen = provider.gen
    BY DEF Insert, Holds, LeaseInv, Placed, Syncing
  <1> QED
    BY <1>2, <1>3 DEF Insert

LEMMA InsertInv ==
  ASSUME LeaseInv, NEW o \in Operations, Insert(o)
  PROVE  LeaseInv'
  <1>1. UNCHANGED <<record, client, purged>> /\ op[o].at = "insert"
    BY DEF Insert
  <1>2. CASE Leave(o) /\ UNCHANGED <<live, born>>
    BY <1>1, <1>2, LeaveKeeps DEF LeaseInv, LeaseTypes
  <1>3. ASSUME NEW e \in Rows, live' = live \cup {e}, born' = [born EXCEPT ![e] = provider.gen],
               op' = [op EXCEPT ![o].at = "list", ![o].row = e], provider' = provider, ~provider.draining
        PROVE  LeaseInv'
    <2>1. op[o].mode = "sync" /\ op[o].gen <= provider.gen
      BY <1>1 DEF LeaseInv, Placed, Syncing
    <2>2. /\ op' \in [Operations -> Ops] /\ \A p \in Operations \ {o} : op'[p] = op[p]
          /\ op'[o].at = "list" /\ op'[o].mode = "sync" /\ op'[o].gen = op[o].gen
      <3> DEFINE new == [op[o] EXCEPT !.at = "list", !.row = e]
      <3>1. op \in [Operations -> Ops] /\ op[o] \in Ops
        BY DEF LeaseInv, LeaseTypes
      <3>2. op' = [op EXCEPT ![o] = new]
        BY <1>3, <3>1
      <3>3. new \in Ops /\ new.at = "list" /\ new.mode = op[o].mode /\ new.gen = op[o].gen
        BY <3>1 DEF Ops, Places
      <3> HIDE DEF new
      <3> QED
        BY <2>1, <3>1, <3>2, <3>3
    <2>3. provider.gen \in Generations /\ provider.gen \in Nat
      BY ProviderAssumption DEF LeaseInv, LeaseTypes, Providers
    <2>4. LeaseTypes'
      BY <1>1, <1>3, <2>2, <2>3 DEF LeaseInv, LeaseTypes
    <2>5. \A p \in Operations : Placed(op[p])'
      <3>1. Placed(op[o])'
        BY <1>3, <2>1, <2>2 DEF Placed, Syncing, Purging
      <3>2. \A p \in Operations \ {o} : Placed(op[p])'
        BY <1>3, <2>2 DEF LeaseInv, Placed, Purging
      <3> QED
        BY <3>1, <3>2
    <2>6. provider.gen \notin purged
      BY <2>3 DEF LeaseInv
    <2>7. NothingBehindPurge'
      BY <1>1, <1>3, <2>6 DEF LeaseInv, LeaseTypes, NothingBehindPurge
    <2> QED
      BY <1>1, <1>3, <2>4, <2>5, <2>7 DEF LeaseInv
  <1> QED
    BY <1>2, <1>3, InsertFacts

LEMMA DeleteRowInv ==
  ASSUME LeaseInv, NEW o \in Operations, DeleteRow(o)
  PROVE  LeaseInv'
  <1>1. UNCHANGED <<record, client, born, purged>> /\ op[o].at = "delete"
    BY DEF DeleteRow
  <1>2. CASE Leave(o) /\ live' = live
    BY <1>1, <1>2, LeaveKeeps DEF LeaseInv, LeaseTypes
  <1>3. CASE live' = live \ {op[o].row} /\ op' = [op EXCEPT ![o].at = "list", ![o].row = 0] /\ provider' = provider
    <2>1. op[o].mode = "sync" /\ op[o].gen <= provider.gen
      BY <1>1 DEF LeaseInv, Placed, Syncing
    <2>2. /\ op' \in [Operations -> Ops] /\ \A p \in Operations \ {o} : op'[p] = op[p]
          /\ op'[o].at = "list" /\ op'[o].mode = "sync" /\ op'[o].gen = op[o].gen
      <3> DEFINE new == [op[o] EXCEPT !.at = "list", !.row = 0]
      <3>1. op \in [Operations -> Ops] /\ op[o] \in Ops
        BY DEF LeaseInv, LeaseTypes
      <3>2. op' = [op EXCEPT ![o] = new]
        BY <1>3, <3>1
      <3>3. new \in Ops /\ new.at = "list" /\ new.mode = op[o].mode /\ new.gen = op[o].gen
        BY <3>1 DEF Ops, Places
      <3> HIDE DEF new
      <3> QED
        BY <2>1, <3>1, <3>2, <3>3
    <2>3. LeaseTypes'
      BY <1>1, <1>3, <2>2 DEF LeaseInv, LeaseTypes
    <2>4. Placed(op[o])'
      BY <1>3, <2>1, <2>2 DEF Placed, Syncing, Purging
    <2> QED
      BY <1>1, <1>3, <2>2, <2>3, <2>4, StepKeeps
  <1> QED
    BY <1>2, <1>3 DEF DeleteRow

LEMMA ListInv ==
  ASSUME LeaseInv, NEW o \in Operations, List(o)
  PROVE  LeaseInv'
  <1> DEFINE new == [Current EXCEPT !.map[op[o].item] = op[o].row]
  <1>1. /\ Leave(o) /\ UNCHANGED <<live, client, born, purged>>
        /\ (Current # None /\ Put(new)) \/ record' = record
    BY DEF List
  <1>2. op[o].row \in Rows \cup {0}
    BY DEF LeaseInv, LeaseTypes, Ops
  <1>3. Current # None => new \in Records
    BY <1>2, CurrentType DEF Records
  <1> HIDE DEF new
  <1>4. record' \in [Generations -> Records \cup {None}] /\ client' \in Cursors
    BY <1>1, <1>3, PutType DEF LeaseInv, LeaseTypes
  <1> QED
    BY <1>1, <1>4, LeaveKeeps

\* A step of a disconnect that goes on and leaves all but the record and the rows it takes alone.
LEMMA GoKeeps ==
  ASSUME LeaseInv, NEW o \in Operations, NEW step \in Places \ Syncing, Go(o, step), op[o].at # "idle",
         step \in Purging => op[o].at \in Purging,
         step = "retire" /\ op[o].gen = provider.gen => live' = {},
         record' \in [Generations -> Records \cup {None}], live' \subseteq live,
         UNCHANGED <<client, born, purged>>
  PROVE  LeaseInv'
  <1>1. /\ op' \in [Operations -> Ops] /\ \A p \in Operations \ {o} : op'[p] = op[p]
        /\ op'[o].at = step /\ op'[o].gen = op[o].gen /\ op'[o].mode = op[o].mode
        /\ provider' = provider
    BY GoFacts
  <1>2. Placed(op[o])
    BY DEF LeaseInv
  <1>3. Placed(op[o])'
    BY <1>1, <1>2 DEF Placed
  <1>4. LeaseTypes'
    BY <1>1 DEF LeaseInv, LeaseTypes
  <1> QED
    BY <1>1, <1>3, <1>4, StepKeeps

LEMMA KeepInv ==
  ASSUME LeaseInv, NEW o \in Operations, Keep(o)
  PROVE  LeaseInv'
  <1>1. "keep" \in Places \ Syncing /\ "keep" \notin Purging
    BY DEF Places, Syncing, Purging
  <1> QED
    BY <1>1, GoKeeps DEF Keep, LeaseInv, LeaseTypes

LEMMA DrainInv ==
  ASSUME LeaseInv, NEW o \in Operations, Drain(o)
  PROVE  LeaseInv'
  <1> DEFINE page == PageFrom(Current.map, op[o].cursor)
             step == IF op[o].cursor = None THEN "reset" ELSE IF page = {} THEN "sweep" ELSE "page"
             rows == {Current.map[k] : k \in page}
             next == IF page = {} THEN None ELSE HighestOf(page)
  <1>1. UNCHANGED <<record, live, born, purged>> /\ op[o].at = "disconnect" /\ Current \in Records
    BY CurrentType DEF Drain
  <1>2. CASE Leave(o) /\ UNCHANGED client
    BY <1>1, <1>2, LeaveKeeps DEF LeaseInv, LeaseTypes
  <1>3. CASE /\ Repeated(o) /\ provider' = [Released(o) EXCEPT !.draining = TRUE]
             /\ op' = [op EXCEPT ![o] = Idle] /\ client' \in {Current.disconnecting.next, client}
    <2>1. /\ provider' \in Providers /\ provider'.gen = provider.gen /\ provider'.draining
      BY <1>3 DEF Released, LeaseInv, LeaseTypes, Providers
    <2>2. client' \in Cursors
      BY <1>1, <1>3 DEF Repeated, Records, Marks, LeaseInv, LeaseTypes
    <2>3. op' \in [Operations -> Ops] /\ op'[o].at = "idle" /\ \A p \in Operations \ {o} : op'[p] = op[p]
      BY <1>3, IdleFacts DEF LeaseInv, LeaseTypes
    <2>4. LeaseTypes' /\ Placed(op[o])'
      BY <1>1, <2>1, <2>2, <2>3 DEF LeaseInv, LeaseTypes, Placed, Syncing, Purging
    <2> QED
      BY <1>1, <2>1, <2>3, <2>4, StepKeeps
  <1>4. CASE /\ Holds(o) /\ provider' = [provider EXCEPT !.draining = TRUE]
             /\ op' = [op EXCEPT ![o] = [@ EXCEPT !.at = step, !.page = rows, !.next = next]]
             /\ UNCHANGED client
    <2> DEFINE new == [op[o] EXCEPT !.at = step, !.page = rows, !.next = next]
    <2>1. /\ provider' \in Providers /\ provider'.gen = provider.gen /\ provider'.draining
      BY <1>4 DEF LeaseInv, LeaseTypes, Providers
    <2>2. op \in [Operations -> Ops] /\ op[o] \in Ops /\ op' = [op EXCEPT ![o] = new]
      BY <1>4 DEF LeaseInv, LeaseTypes
    <2>3. page \subseteq Keys /\ rows \subseteq Rows
      BY <1>1 DEF PageFrom, FirstOf, Records
    <2>4. next \in Cursors /\ step \in {"reset", "sweep", "page"}
      <3> HIDE DEF page
      <3> QED
        BY <2>3, HighestOfFacts DEF Cursors
    <2> HIDE DEF page, rows, next, step
    <2>5. new \in Ops /\ new.at = step /\ new.mode = op[o].mode /\ new.gen = op[o].gen
      BY <2>2, <2>3, <2>4 DEF Ops, Places
    <2> HIDE DEF new
    <2>6. /\ op' \in [Operations -> Ops] /\ \A p \in Operations \ {o} : op'[p] = op[p]
          /\ op'[o].at = step /\ op'[o].mode = op[o].mode /\ op'[o].gen = op[o].gen
      BY <2>2, <2>5
    <2>7. LeaseTypes'
      BY <1>1, <1>4, <2>1, <2>6 DEF LeaseInv, LeaseTypes
    <2>8. op[o].mode # "none" /\ op[o].gen <= provider.gen
      BY <1>1 DEF LeaseInv, Placed
    <2>9. Placed(op[o])'
      BY <2>1, <2>4, <2>6, <2>8 DEF Placed, Syncing
    <2> QED
      BY <1>1, <1>4, <2>1, <2>6, <2>7, <2>9, StepKeeps
  <1> QED
    BY <1>2, <1>3, <1>4 DEF Drain

LEMMA MarkedType == Marked \in Marks
  BY DEF Marked, Marks, Cursors

LEMMA ResetInv ==
  ASSUME LeaseInv, NEW o \in Operations, Reset(o)
  PROVE  LeaseInv'
  <1> DEFINE step == IF op[o].page = {} THEN "sweep" ELSE "page"
  <1>1. UNCHANGED <<live, client, born, purged>> /\ op[o].at = "reset"
    BY DEF Reset
  <1>2. CASE Note(Marked) /\ Go(o, step)
    <2>1. /\ step \in Places \ Syncing /\ step # "retire" /\ op[o].at \in Purging
          /\ op[o].at # "idle"
      BY <1>1 DEF Places, Syncing, Purging
    <2>2. record' \in [Generations -> Records \cup {None}]
      BY <1>2, NoteType, MarkedType
    <2> HIDE DEF step
    <2> QED
      BY <1>1, <1>2, <2>1, <2>2, GoKeeps
  <1>3. CASE Leave(o) /\ record' = record
    BY <1>1, <1>3, LeaveKeeps DEF LeaseInv, LeaseTypes
  <1> QED
    BY <1>2, <1>3 DEF Reset

LEMMA TrashPageInv ==
  ASSUME LeaseInv, NEW o \in Operations, TrashPage(o)
  PROVE  LeaseInv'
  <1>1. UNCHANGED <<record, client, born, purged>> /\ op[o].at = "page"
    BY DEF TrashPage
  <1>2. live' \subseteq live
    BY DEF TrashPage
  <1>3. CASE Leave(o)
    BY <1>1, <1>2, <1>3, LeaveKeeps DEF LeaseInv, LeaseTypes
  <1>4. CASE op' = [op EXCEPT ![o].at = "tell", ![o].page = {}] /\ provider' = provider
    <2> DEFINE new == [op[o] EXCEPT !.at = "tell", !.page = {}]
    <2>1. op \in [Operations -> Ops] /\ op[o] \in Ops /\ op' = [op EXCEPT ![o] = new]
      BY <1>4 DEF LeaseInv, LeaseTypes
    <2>2. new \in Ops /\ new.at = "tell" /\ new.mode = op[o].mode /\ new.gen = op[o].gen
      BY <2>1 DEF Ops, Places
    <2> HIDE DEF new
    <2>3. /\ op' \in [Operations -> Ops] /\ \A p \in Operations \ {o} : op'[p] = op[p]
          /\ op'[o].at = "tell" /\ op'[o].mode = op[o].mode /\ op'[o].gen = op[o].gen
      BY <2>1, <2>2
    <2>4. LeaseTypes'
      BY <1>1, <1>2, <1>4, <2>3 DEF LeaseInv, LeaseTypes
    <2>5. Placed(op[o])
      BY DEF LeaseInv
    <2>6. Placed(op[o])'
      BY <1>1, <1>4, <2>3, <2>5 DEF Placed, Syncing, Purging
    <2> QED
      BY <1>1, <1>2, <1>4, <2>3, <2>4, <2>6, StepKeeps
  <1> QED
    BY <1>3, <1>4 DEF TrashPage

LEMMA TellInv ==
  ASSUME LeaseInv, NEW o \in Operations, Tell(o) \/ TellSwept(o)
  PROVE  LeaseInv'
  <1> DEFINE told == [from |-> op[o].cursor, next |-> op[o].next]
  <1>1. op[o].cursor \in Cursors /\ op[o].next \in Cursors /\ client \in Cursors
    BY DEF LeaseInv, LeaseTypes, Ops
  <1>2. told \in Marks
    BY <1>1 DEF Marks
  <1>3. /\ UNCHANGED <<live, born, purged>> /\ Leave(o)
        /\ Note(told) \/ Note(Marked) \/ record' = record
        /\ client' \in {op[o].next, client}
    BY DEF Tell, TellSwept, Answer
  <1> HIDE DEF told
  <1>4. record' \in [Generations -> Records \cup {None}]
    BY <1>2, <1>3, NoteType, MarkedType DEF LeaseInv, LeaseTypes
  <1> QED
    BY <1>1, <1>3, <1>4, LeaveKeeps

\* Nothing is left: the one place from which a purge may go on to retire the generation.
LEMMA SweepInv ==
  ASSUME LeaseInv, NEW o \in Operations, Sweep(o)
  PROVE  LeaseInv'
  <1> DEFINE next == IF op[o].cursor = None THEN 0 ELSE op[o].cursor
  <1>1. UNCHANGED <<record, client, born, purged>> /\ op[o].at = "sweep"
    BY DEF Sweep
  <1>2. CASE live = {} /\ Go(o, "retire") /\ UNCHANGED live
    <2>1. "retire" \in Places \ Syncing /\ op[o].at \in Purging /\ op[o].at # "idle"
      BY <1>1 DEF Places, Syncing, Purging
    <2> QED
      BY <1>1, <1>2, <2>1, GoKeeps DEF LeaseInv, LeaseTypes
  <1>3. CASE Leave(o) /\ UNCHANGED live
    BY <1>1, <1>3, LeaveKeeps DEF LeaseInv, LeaseTypes
  <1>4. CASE /\ live' = live \ FirstOf(live) /\ op' = [op EXCEPT ![o].at = "swept", ![o].next = next]
             /\ provider' = provider
    <2> DEFINE new == [op[o] EXCEPT !.at = "swept", !.next = next]
    <2>1. op \in [Operations -> Ops] /\ op[o] \in Ops /\ op' = [op EXCEPT ![o] = new]
      BY <1>4 DEF LeaseInv, LeaseTypes
    <2>2. next \in Cursors
      BY <2>1 DEF Ops, Cursors
    <2> HIDE DEF next
    <2>3. new \in Ops /\ new.at = "swept" /\ new.mode = op[o].mode /\ new.gen = op[o].gen
      BY <2>1, <2>2 DEF Ops, Places
    <2> HIDE DEF new
    <2>4. /\ op' \in [Operations -> Ops] /\ \A p \in Operations \ {o} : op'[p] = op[p]
          /\ op'[o].at = "swept" /\ op'[o].mode = op[o].mode /\ op'[o].gen = op[o].gen
      BY <2>1, <2>3
    <2>5. LeaseTypes'
      BY <1>1, <1>4, <2>4 DEF LeaseInv, LeaseTypes
    <2>6. Placed(op[o])
      BY DEF LeaseInv
    <2>7. Placed(op[o])'
      BY <1>1, <1>4, <2>4, <2>6 DEF Placed, Syncing, Purging
    <2> QED
      BY <1>1, <1>4, <2>4, <2>5, <2>7, StepKeeps
  <1> QED
    BY <1>2, <1>3, <1>4 DEF Sweep

\* The generation rotates.  All that is left behind is of no call's generation any more.
LEMMA RetireInv ==
  ASSUME LeaseInv, NEW o \in Operations, Retire(o)
  PROVE  LeaseInv'
  <1>1. UNCHANGED <<record, live, client, born>> /\ op[o].at \in {"keep", "retire"}
    BY DEF Retire
  <1>2. CASE Leave(o) /\ UNCHANGED purged
    BY <1>1, <1>2, LeaveKeeps DEF LeaseInv, LeaseTypes
  <1>3. CASE /\ Holds(o) /\ provider.gen + 1 \in Generations
             /\ provider' = [provider EXCEPT !.gen = @ + 1, !.draining = FALSE]
             /\ purged' = IF op[o].at = "retire" THEN 0..provider.gen ELSE purged
             /\ op' = [op EXCEPT ![o].at = "erase"]
    <2>1. provider.gen \in Generations /\ provider.gen \in Nat
      BY ProviderAssumption DEF LeaseInv, LeaseTypes, Providers
    <2>2. provider' \in Providers /\ provider'.gen = provider.gen + 1
      BY <1>3 DEF LeaseInv, LeaseTypes, Providers
    <2>3. /\ op' \in [Operations -> Ops] /\ \A p \in Operations \ {o} : op'[p] = op[p]
          /\ op'[o].at = "erase" /\ op'[o].mode = op[o].mode /\ op'[o].gen = op[o].gen
      BY <1>3 DEF LeaseInv, LeaseTypes, Ops, Places
    <2>4. purged' \subseteq Nat
      BY <1>3, <2>1 DEF LeaseInv, LeaseTypes
    <2>5. LeaseTypes'
      BY <1>1, <2>2, <2>3, <2>4 DEF LeaseInv, LeaseTypes
    <2>6. \A p \in Operations : /\ op'[p].at # "idle" => op'[p].mode # "none" /\ op'[p].gen < provider'.gen
                                /\ op'[p].at \in Syncing => op'[p].mode = "sync"
      <3>1. \A p \in Operations : op[p].gen \in Nat
        BY ProviderAssumption DEF LeaseInv, LeaseTypes, Ops
      <3>2. /\ op[o].at # "idle"
            /\ "erase" \notin Syncing
        BY <1>1 DEF Syncing
      <3>3. \A p \in Operations : /\ op[p].at # "idle" => op[p].mode # "none" /\ op[p].gen <= provider.gen
                                  /\ op[p].at \in Syncing => op[p].mode = "sync"
        BY DEF LeaseInv, Placed
      <3> QED
        BY <2>1, <2>2, <2>3, <3>1, <3>2, <3>3
    <2>7. \A p \in Operations : Placed(op[p])'
      <3>1. \A p \in Operations : op'[p].gen \in Nat
        BY <2>5, ProviderAssumption DEF LeaseTypes, Ops
      <3>2. provider'.gen \in Nat
        BY <2>1, <2>2
      <3>3. "idle" \notin Purging /\ "retire" # "idle"
        BY DEF Purging
      <3> QED
        BY <2>6, <3>1, <3>2, <3>3 DEF Placed
    <2>8. (\A g \in purged : g < provider.gen)'
      BY <1>3, <2>1, <2>2 DEF LeaseInv, LeaseTypes
    <2>9. NothingBehindPurge'
      <3>1. op[o].at = "retire" => live = {}
        BY <1>3 DEF Holds, LeaseInv, Placed
      <3> QED
        BY <1>1, <1>3, <3>1 DEF LeaseInv, NothingBehindPurge
    <2> QED
      BY <2>5, <2>7, <2>8, <2>9 DEF LeaseInv
  <1> QED
    BY <1>2, <1>3 DEF Retire

LEMMA EraseInv ==
  ASSUME LeaseInv, NEW o \in Operations, Erase(o)
  PROVE  LeaseInv'
  <1>1. record' \in [Generations -> Records \cup {None}] /\ client' \in Cursors
    BY DEF Erase, LeaseInv, LeaseTypes, Cursors
  <1> QED
    BY <1>1, LeaveKeeps DEF Erase

LEMMA CrashInv ==
  ASSUME LeaseInv, NEW o \in Operations, Crash(o)
  PROVE  LeaseInv'
  <1>1. op' = [op EXCEPT ![o] = Idle] /\ UNCHANGED <<provider, record, live, client, born, purged>>
    BY DEF Crash
  <1>2. op' \in [Operations -> Ops] /\ op'[o].at = "idle" /\ \A p \in Operations \ {o} : op'[p] = op[p]
    BY <1>1, IdleFacts DEF LeaseInv, LeaseTypes
  <1>3. LeaseTypes' /\ Placed(op[o])'
    BY <1>1, <1>2 DEF LeaseInv, LeaseTypes, Placed, Syncing, Purging
  <1> QED
    BY <1>1, <1>2, <1>3, StepKeeps

LEMMA ExpiresInv ==
  ASSUME LeaseInv, Expire
  PROVE  LeaseInv'
  <1>1. /\ provider' \in Providers
        /\ provider'.gen = provider.gen /\ provider'.draining = provider.draining
    BY DEF Expire, LeaseInv, LeaseTypes, Providers
  <1>2. UNCHANGED <<record, live, op, client, born, purged>>
    BY DEF Expire
  <1>3. LeaseTypes'
    BY <1>1, <1>2 DEF LeaseInv, LeaseTypes
  <1> QED
    BY <1>1, <1>2, <1>3 DEF LeaseInv, Placed, NothingBehindPurge

LEMMA LeaseNext == LeaseInv /\ [Next]_providerVars => LeaseInv'
  <1> SUFFICES ASSUME LeaseInv, [Next]_providerVars PROVE LeaseInv'
    OBVIOUS
  <1>1. ASSUME NEW o \in Operations, Step(o) PROVE LeaseInv'
    BY <1>1, BeginInv, PickInv, ClaimInv, ConnectInv, NothingToDoInv, InsertInv, DeleteRowInv, ListInv,
       KeepInv, DrainInv, ResetInv, TrashPageInv, TellInv, SweepInv, RetireInv, EraseInv, CrashInv DEF Step
  <1>2. CASE Expire
    BY <1>2, ExpiresInv
  <1>3. CASE UNCHANGED providerVars
    BY <1>3 DEF providerVars, LeaseInv, LeaseTypes, Placed, NothingBehindPurge
  <1> QED
    BY <1>1, <1>2, <1>3 DEF Next

LEMMA LeaseInvariant == Spec => []LeaseInv
  <1> QED
    BY LeaseInit, LeaseNext, PTL DEF Spec

\* The row of the provider, the records, the mirror rows and the client's cursor keep their types.
THEOREM LeaseTypeCorrect == Spec => []TypeOK
  <1>1. LeaseInv => TypeOK
    BY DEF LeaseInv, LeaseTypes, TypeOK, Providers, Records, Cursors
  <1> QED
    BY <1>1, LeaseInvariant, PTL

\* No mirror row of a generation whose purge was reported done is ever there again, whatever syncs
\* were under way, whenever their leases ended and wherever calls died.
THEOREM NothingStaysBehindPurge == Spec => []NothingBehindPurge
  <1> QED
    BY LeaseInvariant, PTL DEF LeaseInv

\* While a provider drains, none of its rows appears.
THEOREM DrainingOnlyTakes == Spec => NoRowWhileDraining
  <1> DEFINE Step1 == provider.draining /\ provider'.gen = provider.gen => live' \subseteq live
  <1>1. LeaseInv /\ [Next]_providerVars => Step1
    <2> SUFFICES ASSUME LeaseInv, [Next]_providerVars, provider.draining PROVE live' \subseteq live
      OBVIOUS
    <2>1. ASSUME NEW o \in Operations, Insert(o) PROVE live' = live
      BY <2>1, InsertFacts
    <2>2. ASSUME NEW o \in Operations, Step(o), ~Insert(o) PROVE live' \subseteq live
      BY <2>2 DEF Step, Begin, Pick, Claim, Connect, NothingToDo, DeleteRow, List, Keep, Drain, Reset,
                  TrashPage, Tell, Sweep, TellSwept, Retire, Erase, Crash
    <2>3. CASE Expire \/ UNCHANGED providerVars
      BY <2>3 DEF Expire, providerVars
    <2> QED
      BY <2>1, <2>2, <2>3 DEF Next
  <1>2. Spec => [][Step1]_providerVars
    <2> HIDE DEF Step1
    <2> QED
      BY <1>1, LeaseInvariant, PTL DEF Spec
  <1> QED
    BY <1>2 DEF NoRowWhileDraining

-------------------------------------------------------------------------------
(* The ChatGPT session.                                                        *)

CONSTANTS Disconnects, MaxRevisions

Session == INSTANCE ChatGptSession

Live == session # Session!NoSession
\* Whose refresh may still end: it has marked the revision it read.
Refreshing(c) == call[c].at \in {"marked", "sent", "accepted", "retryable", "failed"}

\* A revision is given out once and belongs to one grant.  Once it was marked, only the call that
\* marked it settles it; and it is ready again only if its token was rejected.
SessionInv ==
    /\ Session!TypeOK
    /\ Live => session.rev \in 1..last
    /\ \A c \in Calls : call[c].at # "idle" => call[c].rev \in 1..last
    /\ \A d \in Disconnects : disc[d].at # "idle" => disc[d].rev \in 1..last
    /\ \A r \in unsettled : r \in 1..last
    /\ \A c \in Calls : call[c].at # "idle" /\ session.rev = call[c].rev => session.grant = call[c].grant
    /\ \A c \in Calls : Refreshing(c) /\ session.rev = call[c].rev => session.state = "refreshing"
    /\ \A c, e \in Calls : Refreshing(c) /\ Refreshing(e) /\ call[c].rev = call[e].rev => c = e
    /\ \A c \in Calls : call[c].at \in {"marked", "retryable"} => call[c].rev \notin unsettled
    /\ session.state = "ready" => session.rev \notin unsettled
    /\ Session!NewestPrevails

SessionStates == [rev : Nat, state : Session!States, fresh : BOOLEAN, grant : Nat]

LEMMA SessionInit == Session!Init => SessionInv
  BY DEF Session!Init, SessionInv, Session!TypeOK, Session!NoSession, Session!Resting, Session!At, Session!States,
         Session!NewestPrevails, Live, Refreshing

LEMMA ImportInv ==
  ASSUME SessionInv, Session!Import
  PROVE  SessionInv'
  <1>1. /\ session' \in SessionStates /\ session' # Session!NoSession
        /\ session'.rev = last + 1 /\ session'.state = "ready" /\ session'.grant = last + 1
        /\ last' = last + 1 /\ last \in Nat /\ newest' = last + 1
        /\ UNCHANGED <<call, disc, unsettled, removed, orphaned>>
    BY DEF Session!Import, SessionInv, Session!TypeOK, SessionStates, Session!States, Session!NoSession
  <1>2. Session!TypeOK'
    BY <1>1 DEF SessionInv, Session!TypeOK, SessionStates
  <1> QED
    BY <1>1, <1>2 DEF SessionInv, Live, Refreshing, Session!NewestPrevails

LEMMA ExpireInv ==
  ASSUME SessionInv, Session!Expire
  PROVE  SessionInv'
  <1>1. /\ session' \in SessionStates /\ session' # Session!NoSession
        /\ session'.rev = session.rev /\ session'.state = session.state /\ session'.grant = session.grant
        /\ session # Session!NoSession
        /\ UNCHANGED <<call, disc, last, unsettled, newest, removed, orphaned>>
    BY DEF Session!Expire, SessionInv, Session!TypeOK, SessionStates, Session!States, Session!NoSession, Live
  <1>2. Session!TypeOK'
    BY <1>1 DEF SessionInv, Session!TypeOK, SessionStates
  <1> QED
    BY <1>1, <1>2 DEF SessionInv, Live, Refreshing, Session!NewestPrevails

\* The steps in which a call learns something and the row stays as it is.
LEMMA ReadExpiredInv ==
  ASSUME SessionInv, NEW c \in Calls, Session!ReadExpired(c)
  PROVE  SessionInv'
  <1>1. Session!TypeOK'
    BY DEF Session!ReadExpired, SessionInv, Session!TypeOK, Session!At, Session!NoSession
  <1>2. /\ call'[c] = [at |-> "read", rev |-> session.rev, grant |-> session.grant]
        /\ \A e \in Calls \ {c} : call'[e] = call[e]
        /\ session.state = "ready" /\ Live
        /\ UNCHANGED <<session, disc, last, unsettled, newest, removed, orphaned>>
    BY DEF Session!ReadExpired, SessionInv, Session!TypeOK, Live
  <1> QED
    BY <1>1, <1>2 DEF SessionInv, Live, Refreshing, Session!NewestPrevails

LEMMA PresentInv ==
  ASSUME SessionInv, NEW c \in Calls, Session!Present(c)
  PROVE  SessionInv'
  <1>1. Session!TypeOK'
    BY DEF Session!Present, SessionInv, Session!TypeOK, Session!At
  <1>2. /\ call[c].at = "marked" /\ call'[c].at = "sent"
        /\ call'[c].rev = call[c].rev /\ call'[c].grant = call[c].grant
        /\ \A e \in Calls \ {c} : call'[e] = call[e]
        /\ unsettled' = unsettled \cup {call[c].rev}
        /\ UNCHANGED <<session, disc, last, newest, removed, orphaned>>
    BY DEF Session!Present, SessionInv, Session!TypeOK, Session!At
  <1> QED
    BY <1>1, <1>2 DEF SessionInv, Live, Refreshing, Session!NewestPrevails

LEMMA AnswerInv ==
  ASSUME SessionInv, NEW c \in Calls,
         Session!Accepted(c) \/ Session!Unavailable(c) \/ Session!Uncertain(c)
  PROVE  SessionInv'
  <1>1. Session!TypeOK'
    BY DEF Session!Accepted, Session!Unavailable, Session!Uncertain, SessionInv, Session!TypeOK, Session!At
  <1>2. /\ call[c].at \in {"sent", "accepted"} /\ call'[c].at \in {"accepted", "retryable", "failed"}
        /\ call'[c].rev = call[c].rev /\ call'[c].grant = call[c].grant
        /\ \A e \in Calls \ {c} : call'[e] = call[e]
        /\ IF call'[c].at = "retryable" THEN unsettled' = unsettled \ {call[c].rev} ELSE unsettled' = unsettled
        /\ UNCHANGED <<session, disc, last, newest, removed, orphaned>>
    BY DEF Session!Accepted, Session!Unavailable, Session!Uncertain, SessionInv, Session!TypeOK, Session!At
  <1> QED
    BY <1>1, <1>2 DEF SessionInv, Live, Refreshing, Session!NewestPrevails

\* The steps that change the row.  A row is marked only while it is ready.
LEMMA MarkInv ==
  ASSUME SessionInv, NEW c \in Calls, Session!Mark(c)
  PROVE  SessionInv'
  <1>1. CASE Session!Is(call[c].rev, "ready")
    <2>1. /\ session' \in SessionStates /\ session' # Session!NoSession /\ Live
          /\ session.rev = call[c].rev /\ session.state = "ready"
          /\ session'.rev = session.rev /\ session'.state = "refreshing" /\ session'.grant = session.grant
      BY <1>1 DEF Session!Mark, Session!Is, SessionInv, Session!TypeOK, SessionStates, Session!States,
                  Session!NoSession, Live
    <2>2. /\ call[c].at = "read" /\ call'[c].at = "marked"
          /\ call'[c].rev = call[c].rev /\ call'[c].grant = call[c].grant
          /\ \A e \in Calls \ {c} : call'[e] = call[e]
          /\ UNCHANGED <<disc, last, unsettled, newest, removed, orphaned>>
      BY <1>1 DEF Session!Mark, SessionInv, Session!TypeOK, Session!At
    <2>3. Session!TypeOK'
      BY <1>1, <2>1 DEF Session!Mark, SessionInv, Session!TypeOK, SessionStates, Session!At
    <2> QED
      BY <2>1, <2>2, <2>3 DEF SessionInv, Live, Refreshing, Session!NewestPrevails
  <1>2. CASE ~Session!Is(call[c].rev, "ready")
    <2>1. Session!TypeOK'
      BY <1>2 DEF Session!Mark, SessionInv, Session!TypeOK, Session!At, Session!Resting
    <2>2. /\ call'[c].at = "idle" /\ \A e \in Calls \ {c} : call'[e] = call[e]
          /\ UNCHANGED <<session, disc, last, unsettled, newest, removed, orphaned>>
      BY <1>2 DEF Session!Mark, SessionInv, Session!TypeOK, Session!Resting
    <2> QED
      BY <2>1, <2>2 DEF SessionInv, Live, Refreshing, Session!NewestPrevails
  <1> QED
    BY <1>1, <1>2

\* The credentials go in if the row is the one the call marked, which is of its grant.
LEMMA StoreInv ==
  ASSUME SessionInv, NEW c \in Calls, Session!Store(c)
  PROVE  SessionInv'
  <1>1. call'[c].at = "idle" /\ \A e \in Calls \ {c} : call'[e] = call[e]
    BY DEF Session!Store, SessionInv, Session!TypeOK, Session!Resting
  <1>2. UNCHANGED <<disc, unsettled, newest, removed, orphaned>>
    BY DEF Session!Store
  <1>3. CASE Session!Is(call[c].rev, "refreshing")
    <2>1. /\ session' \in SessionStates /\ session' # Session!NoSession /\ Live
          /\ session'.rev = last + 1 /\ session'.state = "ready" /\ session'.grant = session.grant
          /\ last' = last + 1 /\ last \in Nat
      <3> DEFINE new == [rev |-> last + 1, state |-> "ready", fresh |-> TRUE, grant |-> call[c].grant]
      <3>1. session' = new /\ last' = last + 1 /\ call[c].at = "accepted"
        BY <1>3 DEF Session!Store
      <3>2. Live /\ session.rev = call[c].rev
        BY <1>3 DEF Session!Is, Live
      <3>3. last \in Nat /\ call[c].grant \in Nat /\ call[c].grant = session.grant
        BY <3>1, <3>2 DEF SessionInv, Session!TypeOK, Session!At
      <3>4. new \in SessionStates /\ new.rev # 0
        BY <3>3 DEF SessionStates, Session!States
      <3> QED
        BY <3>1, <3>2, <3>3, <3>4 DEF Session!NoSession
    <2>2. call' = [call EXCEPT ![c] = Session!Resting]
      BY DEF Session!Store
    <2>3. Session!TypeOK'
      BY <2>1, <2>2, <1>2 DEF SessionInv, Session!TypeOK, SessionStates, Session!At, Session!Resting
    <2> QED
      BY <1>1, <1>2, <2>1, <2>3 DEF SessionInv, Live, Refreshing, Session!NewestPrevails
  <1>4. CASE ~Session!Is(call[c].rev, "refreshing")
    <2>1. UNCHANGED <<session, last>>
      BY <1>4 DEF Session!Store
    <2>2. Session!TypeOK'
      BY <1>2, <2>1 DEF Session!Store, SessionInv, Session!TypeOK, Session!At, Session!Resting
    <2> QED
      BY <1>1, <1>2, <2>1, <2>2 DEF SessionInv, Live, Refreshing, Session!NewestPrevails
  <1> QED
    BY <1>3, <1>4

LEMMA GiveUpInv ==
  ASSUME SessionInv, NEW c \in Calls, Session!GiveUp(c)
  PROVE  SessionInv'
  <1>1. /\ call[c].at \in {"retryable", "failed"} /\ call'[c].at = "idle"
        /\ \A e \in Calls \ {c} : call'[e] = call[e]
    BY DEF Session!GiveUp, SessionInv, Session!TypeOK, Session!Resting
  <1>2. UNCHANGED <<disc, last, unsettled, newest, removed, orphaned>>
    BY DEF Session!GiveUp
  <1>3. CASE Session!Is(call[c].rev, "refreshing")
    <2>1. /\ session' \in SessionStates /\ session' # Session!NoSession /\ Live
          /\ session.rev = call[c].rev
          /\ session'.rev = session.rev /\ session'.grant = session.grant
          /\ session'.state = IF call[c].at = "retryable" THEN "ready" ELSE "reauth"
      BY <1>3 DEF Session!GiveUp, Session!AfterError, Session!Is, SessionInv, Session!TypeOK, SessionStates,
                  Session!States, Session!NoSession, Live
    <2>2. Session!TypeOK'
      BY <2>1, <1>2 DEF Session!GiveUp, SessionInv, Session!TypeOK, SessionStates, Session!At, Session!Resting
    <2> QED
      BY <1>1, <1>2, <2>1, <2>2 DEF SessionInv, Live, Refreshing, Session!NewestPrevails
  <1>4. CASE ~Session!Is(call[c].rev, "refreshing")
    <2>1. session' = session
      BY <1>4 DEF Session!GiveUp
    <2>2. Session!TypeOK'
      BY <1>2, <2>1 DEF Session!GiveUp, SessionInv, Session!TypeOK, Session!At, Session!Resting
    <2> QED
      BY <1>1, <1>2, <2>1, <2>2 DEF SessionInv, Live, Refreshing, Session!NewestPrevails
  <1> QED
    BY <1>3, <1>4

LEMMA KillInv ==
  ASSUME SessionInv, NEW c \in Calls, Session!Kill(c)
  PROVE  SessionInv'
  <1>1. Session!TypeOK'
    BY DEF Session!Kill, SessionInv, Session!TypeOK, Session!At, Session!Resting
  <1>2. /\ call'[c].at = "idle" /\ \A e \in Calls \ {c} : call'[e] = call[e]
        /\ UNCHANGED <<session, disc, last, unsettled, newest, removed>>
    BY DEF Session!Kill, SessionInv, Session!TypeOK, Session!Resting
  <1> QED
    BY <1>1, <1>2 DEF SessionInv, Live, Refreshing, Session!NewestPrevails

\* The steps of a disconnect, which keeps off a row that is being refreshed.
LEMMA ReadToDisconnectInv ==
  ASSUME SessionInv, NEW d \in Disconnects, Session!ReadToDisconnect(d)
  PROVE  SessionInv'
  <1>1. Session!TypeOK'
    BY DEF Session!ReadToDisconnect, SessionInv, Session!TypeOK, Session!At, Session!NoSession
  <1>2. /\ Live /\ disc'[d].rev = session.rev /\ \A e \in Disconnects \ {d} : disc'[e] = disc[e]
        /\ UNCHANGED <<session, call, last, unsettled, newest, removed, orphaned>>
    BY DEF Session!ReadToDisconnect, SessionInv, Session!TypeOK, Live
  <1> QED
    BY <1>1, <1>2 DEF SessionInv, Live, Refreshing, Session!NewestPrevails

LEMMA WithdrawInv ==
  ASSUME SessionInv, NEW d \in Disconnects, Session!Withdraw(d)
  PROVE  SessionInv'
  <1>1. \A e \in Disconnects : disc'[e].at # "idle" => disc[e].at # "idle" /\ disc'[e].rev = disc[e].rev
    BY DEF Session!Withdraw, SessionInv, Session!TypeOK, Session!At, Session!Resting
  <1>2. UNCHANGED <<call, last, unsettled, newest, removed, orphaned>>
    BY DEF Session!Withdraw
  <1>3. \/ session' = session
        \/ /\ session' \in SessionStates /\ session' # Session!NoSession /\ Live
           /\ session.state # "refreshing" /\ session'.state = "reauth"
           /\ session'.rev = session.rev /\ session'.grant = session.grant
    BY DEF Session!Withdraw, SessionInv, Session!TypeOK, SessionStates, Session!States, Session!NoSession, Live
  <1>4. Session!TypeOK'
    BY <1>2, <1>3 DEF Session!Withdraw, SessionInv, Session!TypeOK, SessionStates, Session!At, Session!Resting
  <1> QED
    BY <1>1, <1>2, <1>3, <1>4 DEF SessionInv, Live, Refreshing, Session!NewestPrevails

LEMMA DeleteInv ==
  ASSUME SessionInv, NEW d \in Disconnects, Session!Delete(d)
  PROVE  SessionInv'
  <1>1. \A e \in Disconnects : disc'[e].at # "idle" => disc[e].at # "idle" /\ disc'[e].rev = disc[e].rev
    BY DEF Session!Delete, SessionInv, Session!TypeOK, Session!Resting
  <1>2. UNCHANGED <<call, last, unsettled, newest, orphaned>>
    BY DEF Session!Delete
  <1>3. \/ UNCHANGED <<session, removed>>
        \/ Live /\ session' = Session!NoSession /\ removed' = session.grant
    BY DEF Session!Delete, Live
  <1>4. Session!TypeOK'
    BY <1>2, <1>3 DEF Session!Delete, SessionInv, Session!TypeOK, Session!At, Session!Resting, Live
  <1>5. Session!NoSession.rev = 0 /\ Session!NoSession.state = "none"
    BY DEF Session!NoSession
  <1> QED
    BY <1>1, <1>2, <1>3, <1>4, <1>5 DEF SessionInv, Live, Refreshing, Session!NewestPrevails

LEMMA SessionNext == SessionInv /\ [Session!Next]_Session!sessionVars => SessionInv'
  <1> SUFFICES ASSUME SessionInv, [Session!Next]_Session!sessionVars PROVE SessionInv'
    OBVIOUS
  <1>1. CASE Session!Import \/ Session!Expire
    BY <1>1, ImportInv, ExpireInv
  <1>2. ASSUME NEW c \in Calls, Session!ReadExpired(c) \/ Session!Progress(c) \/ Session!Kill(c)
        PROVE  SessionInv'
    BY <1>2, ReadExpiredInv, MarkInv, PresentInv, AnswerInv, StoreInv, GiveUpInv, KillInv DEF Session!Progress
  <1>3. ASSUME NEW d \in Disconnects,
               Session!ReadToDisconnect(d) \/ Session!Withdraw(d) \/ Session!Delete(d)
        PROVE  SessionInv'
    BY <1>3, ReadToDisconnectInv, WithdrawInv, DeleteInv
  <1>4. CASE UNCHANGED Session!sessionVars
    BY <1>4 DEF Session!sessionVars, SessionInv, Session!TypeOK, Live, Refreshing, Session!NewestPrevails
  <1> QED
    BY <1>1, <1>2, <1>3, <1>4 DEF Session!Next

LEMMA SessionInvariant == Session!Spec => []SessionInv
  <1> QED
    BY SessionInit, SessionNext, PTL DEF Session!Spec

\* The row, the calls and the counters keep their types.
THEOREM SessionTypeCorrect == Session!Spec => []Session!TypeOK
  <1> QED
    BY SessionInvariant, PTL DEF SessionInv

\* A refresh token is presented by one call alone, and never again while the outcome of an earlier
\* attempt is open, however calls, imports and disconnects interleave and wherever calls are killed.
THEOREM TokensSentOnce == Session!Spec => []TokenSentOnce
  <1>1. SessionInv => TokenSentOnce
    BY DEF SessionInv, TokenSentOnce, Refreshing
  <1> QED
    BY <1>1, SessionInvariant, PTL

\* The session is of the grant imported last, or that very grant was disconnected.
THEOREM NewestGrantPrevails == Session!Spec => []NewestPrevails
  <1>1. SessionInv => NewestPrevails
    BY DEF SessionInv, NewestPrevails, Session!NewestPrevails, NoSession, Session!NoSession
  <1> QED
    BY <1>1, SessionInvariant, PTL
-------------------------------------------------------------------------------
(* Push delivery: the operators.                                               *)

CONSTANT Runs

VARIABLES due, fails, delivery, lease, cursor, run, faults, dropped

Push == INSTANCE PushDelivery WITH record <- delivery

LEMMA PushSizes ==
  ASSUME NEW S
  PROVE  Push!Cardinality(S) = Cardinality(S)
  BY DEF Push!Cardinality, Cardinality, Push!IsFiniteSet, IsFiniteSet

LEMMA RankExists ==
  ASSUME NEW S, S \subseteq Nat, IsFiniteSet(S), NEW n \in 1..Cardinality(S)
  PROVE  \E x \in S : Cardinality({y \in S : y < x}) = n - 1
  <1> DEFINE Below(x) == {y \in S : y < x}
             rank == [x \in S |-> Cardinality(Below(x))]
             Places0 == 0..Cardinality(S) - 1
  <1>1. Cardinality(S) \in Nat /\ Cardinality(S) > 0
    BY FS_CardinalityType
  <1>2. ASSUME NEW x \in S PROVE rank[x] \in Places0
    <2>1. Below(x) \subseteq S \ {x} /\ S \ {x} \subseteq S
      OBVIOUS
    <2>2. IsFiniteSet(S \ {x}) /\ Cardinality(S \ {x}) = Cardinality(S) - 1
      BY FS_RemoveElement
    <2>3. IsFiniteSet(Below(x)) /\ Cardinality(Below(x)) <= Cardinality(S) - 1
      BY <2>1, <2>2, FS_Subset
    <2> QED
      BY <1>1, <2>3, FS_CardinalityType
  <1>3. ASSUME NEW x \in S, NEW z \in S, x < z PROVE rank[x] # rank[z]
    <2>0. \A y \in S : y \in Nat
      OBVIOUS
    <2>a. \A y \in S : y < x => y < z
      BY <1>3, <2>0
    <2>b. ~(x < x)
      BY <2>0
    <2>1. Below(x) \subseteq Below(z) /\ x \in Below(z) /\ x \notin Below(x)
      BY <1>3, <2>a, <2>b, Zenon
    <2>2. IsFiniteSet(Below(z))
      BY FS_Subset
    <2> HIDE DEF Below
    <2>3. Cardinality(Below(z)) # Cardinality(Below(x))
      BY <2>1, <2>2, FS_Subset
    <2> QED
      BY <2>3
  <1>4. \A x, z \in S : rank[x] = rank[z] => x = z
    <2> TAKE x, z \in S
    <2>1. x < z \/ z < x \/ x = z
      OBVIOUS
    <2> QED
      BY <2>1, <1>3
  <1>5. IsFiniteSet(Places0) /\ Cardinality(Places0) = Cardinality(S)
    <2>1. /\ 0 \in Int /\ Cardinality(S) - 1 \in Int /\ ~(0 > Cardinality(S) - 1)
          /\ Cardinality(S) - 1 - 0 + 1 = Cardinality(S)
      BY <1>1
    <2> QED
      BY <2>1, FS_Interval
  <1>6. rank \in [S -> Places0]
    BY <1>2
  <1> HIDE DEF rank
  <1>7. rank \in Injection(S, Places0)
    BY <1>4, <1>6 DEF Injection, IsInjective
  <1>8. rank \in Surjection(S, Places0)
    BY <1>5, <1>7, FS_Injection
  <1>9. n - 1 \in Places0
    BY <1>1
  <1>10. PICK x \in S : rank[x] = n - 1
    BY <1>8, <1>9 DEF Surjection
  <1> QED
    BY <1>10 DEF rank

\* The numbers of a finite set in order: a sequence of its elements.
LEMMA SortedFacts ==
  ASSUME NEW S, S \subseteq Nat, IsFiniteSet(S)
  PROVE  /\ Push!Sorted(S) \in Seq(S)
         /\ Len(Push!Sorted(S)) = Cardinality(S)
         /\ DOMAIN Push!Sorted(S) = 1..Cardinality(S)
  <1> DEFINE nth(n) == CHOOSE x \in S : Push!Cardinality({y \in S : y < x}) = n - 1
  <1>1. Push!Sorted(S) = [n \in 1..Cardinality(S) |-> nth(n)]
    BY PushSizes DEF Push!Sorted
  <1>2. ASSUME NEW n \in 1..Cardinality(S) PROVE nth(n) \in S
    <2>1. \E x \in S : Push!Cardinality({y \in S : y < x}) = n - 1
      BY RankExists, PushSizes
    <2> QED
      BY <2>1
  <1>3. Cardinality(S) \in Nat
    BY FS_CardinalityType
  <1> HIDE DEF nth
  <1>4. Push!Sorted(S) \in [1..Cardinality(S) -> S]
    BY <1>1, <1>2
  <1> QED
    BY <1>3, <1>4

\* The workspaces of a run are among the subscribed ones.
LEMMA SliceFacts ==
  ASSUME subs \subseteq Subscriptions
  PROVE  Push!Slice \in Seq(Workspaces)
  <1> USE PushAssumption
  <1> DEFINE around == {s[1] : s \in subs}
             after == {w \in around : w > cursor}
             before == {w \in around : w <= cursor}
             turned == Push!Sorted(after) \o Push!Sorted(before)
             size == IF Width < Len(turned) THEN Width ELSE Len(turned)
  <1>1. after \subseteq Workspaces /\ before \subseteq Workspaces
    BY DEF Subscriptions
  <1>2. /\ IsFiniteSet(after) /\ IsFiniteSet(before)
        /\ after \subseteq Nat /\ before \subseteq Nat
    BY <1>1, FS_Subset
  <1> HIDE DEF after, before
  <1>3. Push!Sorted(after) \in Seq(Workspaces) /\ Push!Sorted(before) \in Seq(Workspaces)
    BY <1>1, <1>2, SortedFacts, SeqMonotonic
  <1>4. turned \in Seq(Workspaces)
    BY <1>3, ConcatProperties
  <1> HIDE DEF turned
  <1>5. size \in Int /\ size <= Len(turned) /\ Len(turned) \in Nat
    BY <1>4
  <1>6. \A i \in 1..size : turned[i] \in Workspaces
    BY <1>4, <1>5
  <1>7. SubSeq(turned, 1, size) \in Seq(Workspaces)
    BY <1>5, <1>6, SubSeqProperties
  <1> QED
    BY <1>7 DEF Push!Slice, turned, after, before

\* The tasks of the workspaces of a ring: of each the devices that its record lacks.
Lacking(ring, when, known, map) ==
    {t \in Subscriptions : t[1] \in Push!ToSet(ring) /\ t[2] \in Push!Missing(t[1], when, known, map)}

LEMMA InterleavedFacts ==
  ASSUME NEW ring \in Seq(Workspaces), NEW when, NEW known, NEW map
  PROVE  /\ Push!Interleaved(ring, when, known, map) \in Seq(Lacking(ring, when, known, map))
         /\ Push!Interleaved(ring, when, known, map) # <<>> => ring # <<>>
  <1> USE PushAssumption
  <1> DEFINE tasks == {t \in (1..Len(ring)) \X Devices : t[2] \in Push!Missing(ring[t[1]], when, known, map)}
             place(t) == t[1] + Len(ring) * Push!Cardinality({u \in tasks : u[1] = t[1] /\ u[2] < t[2]})
             taken == {place(t) : t \in tasks}
             places == Push!Sorted(taken)
             at(n) == CHOOSE t \in tasks : place(t) = places[n]
             plan == [n \in DOMAIN places |-> <<ring[at(n)[1]], at(n)[2]>>]
  <1>1. plan = Push!Interleaved(ring, when, known, map)
    BY DEF Push!Interleaved
  <1>2. IsFiniteSet(1..Len(ring)) /\ Len(ring) \in Nat
    <2>1. Len(ring) \in Nat
      BY LenProperties
    <2>2. 1 \in Int /\ Len(ring) \in Int
      BY <2>1
    <2> QED
      BY <2>1, <2>2, FS_Interval, Zenon
  <1>3. IsFiniteSet((1..Len(ring)) \X Devices)
    BY <1>2, FS_Product
  <1>4. IsFiniteSet(tasks)
    <2>1. tasks \in SUBSET ((1..Len(ring)) \X Devices)
      OBVIOUS
    <2> QED
      BY <1>3, <2>1, FS_Subset
  <1>5. ASSUME NEW t \in tasks PROVE place(t) \in Nat
    <2> DEFINE below == {u \in tasks : u[1] = t[1] /\ u[2] < t[2]}
    <2>1. IsFiniteSet(below)
      <3>1. below \in SUBSET tasks
        OBVIOUS
      <3> QED
        BY <1>4, <3>1, FS_Subset
    <2>2. Push!Cardinality(below) \in Nat
      BY <2>1, FS_CardinalityType, PushSizes
    <2> HIDE DEF below
    <2>3. \A a, b \in Nat : a * b \in Nat
      OBVIOUS
    <2>4. Len(ring) * Push!Cardinality(below) \in Nat
      BY <1>2, <2>2, <2>3
    <2>5. t[1] \in Nat
      BY <1>2
    <2> QED
      BY <2>4, <2>5 DEF below
  <1>6. IsFiniteSet(taken) /\ taken \subseteq Nat
    <2> DEFINE f == [t \in tasks |-> place(t)]
    <2>1. f \in Surjection(tasks, taken)
      <3> HIDE DEF place, tasks
      <3> QED
        BY DEF Surjection
    <2>2. IsFiniteSet(taken)
      <3> HIDE DEF f, tasks, taken
      <3> QED
        BY <2>1, <1>4, FS_Surjection
    <2>3. taken \subseteq Nat
      <3> HIDE DEF place, tasks
      <3> QED
        BY <1>5
    <2> QED
      BY <2>2, <2>3
  <1> HIDE DEF place
  <1>7. places \in Seq(taken) /\ DOMAIN places = 1..Cardinality(taken) /\ Cardinality(taken) \in Nat
    <2> HIDE DEF taken
    <2> QED
      BY <1>6, SortedFacts, FS_CardinalityType
  <1> HIDE DEF places
  <1>8. ASSUME NEW n \in DOMAIN places PROVE at(n) \in tasks
    <2>1. places[n] \in taken
      <3> HIDE DEF taken
      <3> QED
        BY <1>7
    <2>2. \E t \in tasks : place(t) = places[n]
      BY <2>1
    <2> QED
      BY <2>2
  <1> HIDE DEF at
  <1>9. ASSUME NEW n \in DOMAIN places
        PROVE  <<ring[at(n)[1]], at(n)[2]>> \in Lacking(ring, when, known, map)
    <2>1. /\ at(n)[1] \in 1..Len(ring) /\ at(n)[2] \in Devices
          /\ at(n)[2] \in Push!Missing(ring[at(n)[1]], when, known, map)
      BY <1>8
    <2>2. ring[at(n)[1]] \in Workspaces /\ ring[at(n)[1]] \in Push!ToSet(ring)
      BY <2>1 DEF Push!ToSet
    <2> QED
      BY <2>1, <2>2 DEF Lacking, Subscriptions
  <1>10. plan \in Seq(Lacking(ring, when, known, map))
    <2>1. plan \in [1..Cardinality(taken) -> Lacking(ring, when, known, map)]
      BY <1>7, <1>9
    <2> HIDE DEF plan, taken
    <2> QED
      BY <1>7, <2>1
  <1>11. plan # <<>> => ring # <<>>
    <2> SUFFICES ASSUME ring = <<>> PROVE plan = <<>>
      OBVIOUS
    <2>1. \A n \in DOMAIN places : FALSE
      BY <1>8, <1>2
    <2> QED
      BY <2>1, <1>7, <1>10
  <1> QED
    BY <1>1, <1>10, <1>11

\* The first tasks of a plan, as many as the budget affords.
LEMMA ReservedFacts ==
  ASSUME NEW S, NEW tasks \in Seq(S)
  PROVE  /\ Push!Reserved(tasks) \in Seq(S)
         /\ Len(Push!Reserved(tasks)) \in Nat /\ Len(Push!Reserved(tasks)) <= Len(tasks)
         /\ Push!ToSet(Push!Reserved(tasks)) \subseteq Push!ToSet(tasks)
  <1> USE PushAssumption
  <1> DEFINE size == IF Fetches < Len(tasks) THEN Fetches ELSE Len(tasks)
             mine == SubSeq(tasks, 1, size)
  <1>1. size \in Nat /\ size <= Len(tasks) /\ Len(tasks) \in Nat /\ DOMAIN tasks = 1..Len(tasks)
    OBVIOUS
  <1>2. mine = Push!Reserved(tasks)
    BY DEF Push!Reserved
  <1> HIDE DEF size
  <1>3. \A i \in 1..size : tasks[i] \in S
    BY <1>1
  <1>4. /\ mine \in Seq(S) /\ Len(mine) = size
        /\ \A i \in 1..size : mine[i] = tasks[i]
    BY <1>1, <1>3, SubSeqProperties
  <1> HIDE DEF mine
  <1>5. DOMAIN mine = 1..size
    BY <1>4
  <1>6. Push!ToSet(mine) \subseteq Push!ToSet(tasks)
    BY <1>1, <1>4, <1>5 DEF Push!ToSet
  <1> QED
    BY <1>1, <1>2, <1>4, <1>6

\* The first task of a kind, of a plan that has one.
LEMMA FirstFacts ==
  ASSUME NEW r, NEW S, run[r].todo \in Seq(S), NEW tasks, tasks \subseteq Push!ToSet(run[r].todo), tasks # {}
  PROVE  Push!FirstOf(r, tasks) \in tasks
  <1> DEFINE todo == run[r].todo
             places == {i \in DOMAIN todo : todo[i] \in tasks}
             at == CHOOSE i \in DOMAIN todo : todo[i] \in tasks /\ \A j \in 1..i - 1 : todo[j] \notin tasks
  <1>1. DOMAIN todo = 1..Len(todo) /\ Len(todo) \in Nat
    OBVIOUS
  <1>2. places \subseteq Nat /\ places # {}
    BY <1>1 DEF Push!ToSet
  <1>3. PICK i \in places : \A j \in places : i <= j
    BY <1>2, LowestExists
  <1>4. \A j \in 1..i - 1 : todo[j] \notin tasks
    BY <1>1, <1>3
  <1>5. at \in DOMAIN todo /\ todo[at] \in tasks
    BY <1>3, <1>4
  <1> QED
    BY <1>5 DEF Push!FirstOf

-------------------------------------------------------------------------------
(* Push delivery: the inductive invariant.                                     *)

\* What a run that is under way knows fits together, and its dates and devices are not newer than D1.
Grounded(m, dates, devices) ==
    /\ \A w \in Workspaces : m.when[w] <= dates[w]
    /\ devices \subseteq m.known /\ m.mine \subseteq m.known
    /\ m.ring # <<>>
    /\ \A t \in Push!ToSet(m.todo) : t[1] \in Push!ToSet(m.ring)
    /\ m.mine \subseteq Push!ToSet(m.todo)
    /\ m.left \subseteq Push!OwnersOf(m.mine)
    /\ m.at \in {"due", "claim", "check", "refresh"} => m.mine = {}
    /\ m.at \in {"due", "claim", "check", "refresh", "record"} => m.results = Push!Unanswered
    /\ m.results.ok \cup m.results.failed \subseteq m.mine
    /\ m.results.ok \cap m.results.failed = {}
    /\ \A t \in m.mine : (m.at = "record" => t[1] \notin m.left) =>
           m.map[t[1]].when = m.when[t[1]] /\ t[2] \in m.map[t[1]].have

UnderLease == {"refresh", "record", "send", "retry", "apply", "move", "release", "drop"}
Holders == {r \in Runs : run[r].at \in UnderLease}

\* A run has sent the item of date v to device s, or recorded that it is about to.
Spent(m, s, v) == s \in m.results.ok /\ m.when[s[1]] = v
Armed(m, s, v) == /\ m.at \in {"record", "send"} /\ m.when[s[1]] = v
                  /\ s \in m.mine \ (m.results.ok \cup m.results.failed \cup m.results.gone)
                  /\ m.at = "record" => s[1] \notin m.left
Committed(m, s, v) == Spent(m, s, v) \/ Armed(m, s, v)
Unspent(s, v) == {r \in Holders : ~Spent(run[r], s, v)}

\* The record says that device s has the item of date v; a run leaves it at that.
Kept(s, v) == delivery[s[1]].when = v /\ s[2] \in delivery[s[1]].have
Harmless(m, s, v) ==
    m.at # "refresh" =>
        /\ m.when[s[1]] = v => s \notin m.mine /\ m.map[s[1]].when = v /\ s[2] \in m.map[s[1]].have
        /\ m.when[s[1]] # v /\ s[1] \in Push!OwnersOf(m.mine) => m.at = "record" /\ s[1] \in m.left

\* How many more notifications the bound allows than have been sent, were all runs under the lease
\* that have not sent theirs to send it.
Slack(s, v) == overlaps + outdated + unheard[<<s, v>>] + (IF Holders = {} THEN 0 ELSE 1)
                   - delivered[<<s, v>>] - Cardinality(Unspent(s, v))

Accounted(s, v) ==
    /\ Slack(s, v) >= -1
    /\ Slack(s, v) = 0 => \/ Holders = {} \/ Kept(s, v) \/ v < due[s[1]]
                          \/ \E r \in Holders : ~Committed(run[r], s, v)
    /\ Slack(s, v) = -1 => /\ v <= due[s[1]]
                           /\ \A r \in Holders : ~Committed(run[r], s, v)
                           /\ v = due[s[1]] => Kept(s, v) /\ \A r \in Holders : Harmless(run[r], s, v)

PushInv ==
    /\ Push!TypeOK /\ overlaps <= faults
    /\ IsFiniteSet(Holders)
    /\ \A r \in Runs : run[r] # Push!Idle => Grounded(run[r], due, subs)
    /\ \A s \in subs, v \in 1..MaxMoves : Accounted(s, v)

\* A run goes on with m in memory.
Becomes(r, m) == /\ run' = [run EXCEPT ![r] = m]
                 /\ m # Push!Idle => m \in Push!Memory /\ Grounded(m, due', subs')

LEMMA PushInit == Push!Init => PushInv
  <1> USE PushAssumption
  <1> SUFFICES ASSUME Push!Init PROVE PushInv
    OBVIOUS
  <1>1. Holders = {} /\ \A r \in Runs : run[r] = Push!Idle
    BY DEF Push!Init, Holders, UnderLease, Push!Idle
  <1>2. IsFiniteSet(Holders) /\ \A s, v : Cardinality(Unspent(s, v)) = 0
    <2>1. \A s, v : Unspent(s, v) = {}
      BY <1>1 DEF Unspent
    <2> QED
      BY <1>1, <2>1, FS_EmptySet
  <1>3. Push!TypeOK
    BY DEF Push!Init, Push!TypeOK, Push!Records, Push!Dates, Push!Subscriptions, Push!Idle
  <1>4. ASSUME NEW s \in subs, NEW v \in 1..MaxMoves PROVE Accounted(s, v)
    <2>1. Slack(s, v) = 0
      <3>1. <<s, v>> \in Subscriptions \X (1..MaxMoves)
        BY DEF Push!Init, Push!Subscriptions, Subscriptions
      <3>2. unheard[<<s, v>>] = 0 /\ delivered[<<s, v>>] = 0 /\ overlaps = 0 /\ outdated = 0
        BY <3>1 DEF Push!Init, Push!Subscriptions, Subscriptions
      <3> QED
        BY <1>1, <1>2, <3>2 DEF Slack
    <2> QED
      BY <1>1, <2>1 DEF Accounted
  <1>5. overlaps <= faults
    BY DEF Push!Init
  <1> QED
    BY <1>1, <1>2, <1>3, <1>4, <1>5 DEF PushInv

\* The memories of all runs after a step of one.
LEMMA BecomesFacts ==
  ASSUME PushInv, NEW r \in Runs, NEW m, Becomes(r, m), due' = due, subs' \subseteq subs
  PROVE  /\ run' \in [Runs -> Push!Memory \cup {Push!Idle}]
         /\ run'[r] = m
         /\ \A q \in Runs \ {r} : run'[q] = run[q]
         /\ \A q \in Runs : run'[q] # Push!Idle => Grounded(run'[q], due', subs')
  <1>1. /\ run' \in [Runs -> Push!Memory \cup {Push!Idle}]
        /\ run'[r] = m
        /\ \A q \in Runs \ {r} : run'[q] = run[q]
    BY DEF Becomes, PushInv, Push!TypeOK
  <1>2. ASSUME NEW q \in Runs, run'[q] # Push!Idle PROVE Grounded(run'[q], due', subs')
    <2>1. CASE q = r
      BY <1>1, <1>2, <2>1 DEF Becomes
    <2>2. CASE q # r
      <3>1. run'[q] = run[q] /\ Grounded(run[q], due, subs)
        BY <1>1, <1>2, <2>2 DEF PushInv
      <3> QED
        BY <3>1 DEF Grounded
    <2> QED
      BY <2>1, <2>2
  <1> QED
    BY <1>1, <1>2

LEMMA HoldersFacts ==
  ASSUME PushInv, NEW r \in Runs, NEW m, Becomes(r, m), due' = due, subs' \subseteq subs
  PROVE  /\ Holders' = IF m.at \in UnderLease THEN Holders \cup {r} ELSE Holders \ {r}
         /\ IsFiniteSet(Holders')
  <1>1. run'[r] = m /\ \A q \in Runs \ {r} : run'[q] = run[q]
    BY BecomesFacts
  <1>2. Holders' = IF m.at \in UnderLease THEN Holders \cup {r} ELSE Holders \ {r}
    BY <1>1 DEF Holders
  <1>3. IsFiniteSet(Holders \cup {r}) /\ IsFiniteSet(Holders \ {r})
    BY FS_AddElement, FS_RemoveElement DEF PushInv
  <1> QED
    BY <1>2, <1>3

LEMMA SlackTypes ==
  ASSUME PushInv, NEW s \in subs, NEW v \in 1..MaxMoves
  PROVE  /\ overlaps \in Nat /\ outdated \in Nat
         /\ <<s, v>> \in Subscriptions \X (1..MaxMoves) /\ s \in Subscriptions /\ s[1] \in Workspaces
         /\ unheard[<<s, v>>] \in Nat /\ delivered[<<s, v>>] \in Nat
         /\ IsFiniteSet(Unspent(s, v)) /\ Cardinality(Unspent(s, v)) \in Nat
         /\ Unspent(s, v) \subseteq Holders
         /\ due[s[1]] \in Nat /\ v \in Nat
         /\ Slack(s, v) \in Int
  <1> USE PushAssumption
  <1>1. /\ s \in Subscriptions /\ <<s, v>> \in Subscriptions \X (1..MaxMoves)
        /\ overlaps \in Nat /\ outdated \in Nat
        /\ unheard[<<s, v>>] \in Nat /\ delivered[<<s, v>>] \in Nat
        /\ s[1] \in Workspaces /\ due[s[1]] \in 1..MaxMoves
    <2>1. s \in Subscriptions /\ s[1] \in Workspaces /\ <<s, v>> \in Subscriptions \X (1..MaxMoves)
      BY DEF PushInv, Push!TypeOK, Push!Subscriptions, Subscriptions
    <2>2. overlaps \in Nat /\ outdated \in Nat /\ due \in [Workspaces -> 1..MaxMoves]
      BY DEF PushInv, Push!TypeOK
    <2>3. /\ unheard \in [Subscriptions \X (1..MaxMoves) -> Nat]
          /\ delivered \in [Subscriptions \X (1..MaxMoves) -> Nat]
      BY DEF PushInv, Push!TypeOK, Push!Subscriptions, Subscriptions
    <2> QED
      BY <2>1, <2>2, <2>3
  <1>2. /\ IsFiniteSet(Unspent(s, v)) /\ Cardinality(Unspent(s, v)) \in Nat
        /\ Unspent(s, v) \subseteq Holders
    <2>1. Unspent(s, v) \in SUBSET Holders /\ IsFiniteSet(Holders)
      BY DEF Unspent, PushInv
    <2> QED
      BY <2>1, FS_Subset, FS_CardinalityType
  <1>3. Slack(s, v) \in Int
    BY <1>1, <1>2 DEF Slack
  <1> QED
    BY <1>1, <1>2, <1>3

LEMMA SlackSame ==
  ASSUME PushInv, NEW s \in subs, NEW v \in 1..MaxMoves, Holders' = Holders,
         overlaps' = overlaps, outdated' = outdated,
         unheard'[<<s, v>>] = unheard[<<s, v>>], delivered'[<<s, v>>] = delivered[<<s, v>>],
         \A q \in Holders : Spent(run'[q], s, v) <=> Spent(run[q], s, v)
  PROVE  Slack(s, v)' = Slack(s, v)
  <1>1. Unspent(s, v)' = Unspent(s, v)
    BY DEF Unspent
  <1> QED
    BY <1>1 DEF Slack

\* A step that leaves the slack alone, commits nobody and takes nothing out of the record.
LEMMA SteadyKeeps ==
  ASSUME PushInv, NEW s \in subs, NEW v \in 1..MaxMoves, Holders' = Holders, due' = due,
         Slack(s, v)' = Slack(s, v), Kept(s, v) => Kept(s, v)',
         \A q \in Holders : Committed(run'[q], s, v) => Committed(run[q], s, v),
         \A q \in Holders : Kept(s, v) /\ v = due[s[1]] /\ Harmless(run[q], s, v) => Harmless(run'[q], s, v)
  PROVE  Accounted(s, v)'
  <1>1. Accounted(s, v)
    BY DEF PushInv
  <1> HIDE DEF Slack
  <1> QED
    BY <1>1 DEF Accounted

\* A step of a holder, or of a run that is none, that leaves the record and the counts alone.
LEMMA InsideKeeps ==
  ASSUME PushInv, NEW r \in Runs, NEW m, Becomes(r, m), r \in Holders <=> m.at \in UnderLease,
         due' = due, subs' \subseteq subs, delivery' = delivery, overlaps' = overlaps, outdated' = outdated,
         NEW s \in subs', NEW v \in 1..MaxMoves,
         unheard'[<<s, v>>] = unheard[<<s, v>>], delivered'[<<s, v>>] = delivered[<<s, v>>],
         r \in Holders => /\ Spent(m, s, v) <=> Spent(run[r], s, v)
                          /\ Committed(m, s, v) => Committed(run[r], s, v)
                          /\ Kept(s, v) /\ v = due[s[1]] /\ Harmless(run[r], s, v) => Harmless(m, s, v)
  PROVE  Accounted(s, v)'
  <1>1. run'[r] = m /\ \A q \in Runs \ {r} : run'[q] = run[q]
    BY BecomesFacts
  <1>2. Holders' = Holders
    BY HoldersFacts
  <1>3. Holders \subseteq Runs /\ s \in subs
    BY DEF Holders
  <1>4. \A q \in Holders : Spent(run'[q], s, v) <=> Spent(run[q], s, v)
    BY <1>1, <1>3
  <1>5. Slack(s, v)' = Slack(s, v)
    BY <1>2, <1>3, <1>4, SlackSame
  <1>6. Kept(s, v) => Kept(s, v)'
    BY DEF Kept
  <1>7. \A q \in Holders : Committed(run'[q], s, v) => Committed(run[q], s, v)
    BY <1>1, <1>3
  <1>8. \A q \in Holders : Kept(s, v) /\ v = due[s[1]] /\ Harmless(run[q], s, v) => Harmless(run'[q], s, v)
    BY <1>1, <1>3
  <1> QED
    BY <1>2, <1>3, <1>5, <1>6, <1>7, <1>8, SteadyKeeps

\* A run leaves the lease: it ended, or it was killed.
LEMMA LeavingKeeps ==
  ASSUME PushInv, NEW r \in Holders, Becomes(r, Push!Idle),
         due' = due, subs' \subseteq subs, delivery' = delivery, overlaps' = overlaps, outdated' = outdated,
         NEW s \in subs', NEW v \in 1..MaxMoves,
         unheard'[<<s, v>>] = unheard[<<s, v>>], delivered'[<<s, v>>] = delivered[<<s, v>>]
  PROVE  Accounted(s, v)'
  <1>0. r \in Runs /\ s \in subs /\ ~(Push!Idle.at \in UnderLease) /\ Holders \subseteq Runs
    BY DEF Holders, Push!Idle, UnderLease
  <1>1. run'[r] = Push!Idle /\ \A q \in Runs \ {r} : run'[q] = run[q]
    BY <1>0, BecomesFacts
  <1>2. Holders' = Holders \ {r}
    BY <1>0, HoldersFacts
  <1>3. \A q \in Holders' : run'[q] = run[q]
    BY <1>0, <1>1, <1>2
  <1>4. Unspent(s, v)' = Unspent(s, v) \ {r}
    BY <1>2, <1>3 DEF Unspent
  <1>5. /\ overlaps \in Nat /\ outdated \in Nat
        /\ unheard[<<s, v>>] \in Nat /\ delivered[<<s, v>>] \in Nat
        /\ IsFiniteSet(Unspent(s, v)) /\ Cardinality(Unspent(s, v)) \in Nat
        /\ due[s[1]] \in Nat /\ v \in Nat /\ s[1] \in Workspaces
    BY <1>0, SlackTypes
  <1>6. Cardinality(Unspent(s, v)') = IF r \in Unspent(s, v) THEN Cardinality(Unspent(s, v)) - 1
                                                          ELSE Cardinality(Unspent(s, v))
    BY <1>4, <1>5, FS_RemoveElement
  <1>7. Accounted(s, v)
    BY <1>0 DEF PushInv
  <1>8. Slack(s, v)' = Slack(s, v) + (IF r \in Unspent(s, v) THEN 1 ELSE 0)
                                   - (IF Holders' = {} THEN 1 ELSE 0)
    <2>1. Holders # {}
      OBVIOUS
    <2>2. Slack(s, v) = overlaps + outdated + unheard[<<s, v>>] + 1
                           - delivered[<<s, v>>] - Cardinality(Unspent(s, v))
      BY <2>1 DEF Slack
    <2>3. Slack(s, v)' = overlaps + outdated + unheard[<<s, v>>] + (IF Holders' = {} THEN 0 ELSE 1)
                            - delivered[<<s, v>>] - Cardinality(Unspent(s, v)')
      BY DEF Slack
    <2> HIDE DEF Slack
    <2> QED
      BY <1>5, <1>6, <2>2, <2>3
  <1>9. Slack(s, v) \in Int
    BY <1>0, SlackTypes
  <1>10. Kept(s, v)' = Kept(s, v)
    BY DEF Kept
  <1>11. CASE r \in Unspent(s, v) /\ Holders' # {}
    <2>1. Slack(s, v)' = Slack(s, v) + 1
      BY <1>8, <1>9, <1>11
    <2>2. Slack(s, v) = -1 => \E q \in Holders' : ~Committed(run'[q], s, v)
      BY <1>2, <1>3, <1>7, <1>11 DEF Accounted
    <2> QED
      BY <1>7, <1>9, <2>1, <2>2 DEF Accounted
  <1>12. CASE r \in Unspent(s, v) /\ Holders' = {}
    <2>1. Slack(s, v)' = Slack(s, v)
      BY <1>8, <1>9, <1>12
    <2> QED
      BY <1>7, <1>9, <1>10, <1>12, <2>1 DEF Accounted
  <1>13. CASE r \notin Unspent(s, v)
    <2>1. Spent(run[r], s, v) /\ Committed(run[r], s, v)
      BY <1>13 DEF Unspent, Committed
    <2>2. Slack(s, v) >= 0
      BY <1>7, <1>9, <2>1 DEF Accounted
    <2>3. v <= due[s[1]]
      <3>1. Grounded(run[r], due, subs)
        BY <1>0 DEF PushInv, Holders, UnderLease, Push!Idle
      <3> QED
        BY <1>5, <2>1, <3>1 DEF Spent, Grounded
    <2>4. CASE Holders' = {}
      <3>1. Slack(s, v)' = Slack(s, v) - 1
        BY <1>8, <1>9, <1>13, <2>4
      <3>2. \A q \in Holders : q = r
        BY <1>2, <2>4
      <3>3. Slack(s, v) = 0 => Kept(s, v) \/ v < due[s[1]]
        BY <1>7, <2>1, <3>2 DEF Accounted
      <3>4. Slack(s, v)' >= -1
        BY <1>9, <2>2, <3>1
      <3>5. Slack(s, v)' = -1 => Slack(s, v) = 0
        BY <1>9, <3>1
      <3> QED
        BY <1>5, <1>10, <2>3, <2>4, <3>3, <3>4, <3>5 DEF Accounted
    <2>5. CASE Holders' # {}
      <3>1. Slack(s, v)' = Slack(s, v)
        BY <1>8, <1>9, <1>13, <2>5
      <3>2. (\E q \in Holders : ~Committed(run[q], s, v)) => \E q \in Holders' : ~Committed(run'[q], s, v)
        BY <1>2, <1>3, <2>1
      <3>3. Slack(s, v)' >= 0 /\ Slack(s, v)' # -1
        BY <1>9, <2>2, <3>1
      <3>4. Slack(s, v) = 0 => \/ Kept(s, v) \/ v < due[s[1]]
                               \/ \E q \in Holders : ~Committed(run[q], s, v)
        BY <1>7 DEF Accounted
      <3> QED
        BY <1>9, <1>10, <3>1, <3>2, <3>3, <3>4 DEF Accounted
    <2> QED
      BY <2>4, <2>5
  <1> QED
    BY <1>11, <1>12, <1>13

LEMMA PushConcludes ==
  ASSUME PushInv, NEW r \in Runs, NEW m, Becomes(r, m), due' = due, subs' \subseteq subs,
         fails' \in [Push!Subscriptions -> Nat], delivery' \in Push!Records,
         lease' \in Runs \cup {None}, cursor' \in Workspaces \cup {0},
         faults' \in 0..MaxFaults, overlaps' \in 0..MaxFaults, overlaps' <= faults', outdated' \in Nat,
         delivered' \in [Push!Subscriptions \X (1..MaxMoves) -> Nat],
         unheard' \in [Push!Subscriptions \X (1..MaxMoves) -> Nat],
         dropped' \subseteq Push!Subscriptions \X Push!Dates,
         \A s \in subs', v \in 1..MaxMoves : Accounted(s, v)'
  PROVE  PushInv'
  <1>1. /\ run' \in [Runs -> Push!Memory \cup {Push!Idle}]
        /\ \A q \in Runs : run'[q] # Push!Idle => Grounded(run'[q], due', subs')
    BY BecomesFacts
  <1>2. IsFiniteSet(Holders')
    BY HoldersFacts
  <1>3. subs' \subseteq Push!Subscriptions /\ due' \in [Workspaces -> 1..MaxMoves]
    BY DEF PushInv, Push!TypeOK
  <1>4. Push!TypeOK'
    BY <1>1, <1>3 DEF Push!TypeOK
  <1>5. IsFiniteSet(Holders)'
    BY <1>2
  <1> QED
    BY <1>1, <1>4, <1>5 DEF PushInv

LEMMA RunFacts ==
  ASSUME PushInv, NEW r \in Runs, run[r].at # "idle"
  PROVE  /\ run[r] \in Push!Memory /\ run[r] # Push!Idle /\ Grounded(run[r], due, subs)
         /\ r \in Holders <=> run[r].at \in UnderLease
  <1>1. run[r] # Push!Idle
    BY DEF Push!Idle
  <1> QED
    BY <1>1 DEF PushInv, Push!TypeOK, Holders

\* The next step of a run that learns nothing in this one.
LEMMA MoveFacts ==
  ASSUME PushInv, NEW r \in Runs, run[r].at # "idle", NEW step \in Push!Steps, Push!Move(r, step),
         due' = due, subs' \subseteq subs,
         \/ {step, run[r].at} \subseteq {"due", "claim", "check", "refresh"}
         \/ /\ step \notin {"due", "claim", "check", "refresh", "record"}
            /\ run[r].at = "record" => run[r].left = {}
  PROVE  \E m : /\ Becomes(r, m) /\ m.at = step
                /\ m.when = run[r].when /\ m.map = run[r].map /\ m.mine = run[r].mine
                /\ m.left = run[r].left /\ m.results = run[r].results
  <1> DEFINE me == run[r]
             m == [me EXCEPT !.at = step]
  <1>1. me \in Push!Memory /\ Grounded(me, due, subs)
    BY RunFacts
  <1>2. /\ m.at = step /\ m.ring = me.ring /\ m.map = me.map /\ m.when = me.when /\ m.known = me.known
        /\ m.todo = me.todo /\ m.mine = me.mine /\ m.left = me.left /\ m.results = me.results
        /\ m \in Push!Memory
    BY <1>1 DEF Push!Memory
  <1>3. run' = [run EXCEPT ![r] = m]
    BY DEF Push!Move
  <1> HIDE DEF m
  <1>4. Grounded(m, due', subs')
    BY <1>1, <1>2 DEF Grounded
  <1> QED
    BY <1>2, <1>3, <1>4 DEF Becomes

LEMMA MovesKeep ==
  ASSUME PushInv, NEW r \in Runs, run[r].at # "idle", NEW step \in Push!Steps, Push!Move(r, step),
         due' = due, subs' \subseteq subs,
         \/ {step, run[r].at} \subseteq {"due", "claim", "check"}
         \/ /\ step \in UnderLease \ {"refresh", "record"} /\ run[r].at \in UnderLease \ {"refresh"}
            /\ step = "send" => run[r].at = "record"
            /\ run[r].at = "record" => run[r].left = {},
         fails' \in [Push!Subscriptions -> Nat], lease' \in Runs \cup {None},
         cursor' \in Workspaces \cup {0}, faults' \in 0..MaxFaults, faults <= faults',
         dropped' \subseteq Push!Subscriptions \X Push!Dates,
         UNCHANGED <<delivery, overlaps, outdated, delivered, unheard>>
  PROVE  PushInv'
  <1>1. PICK m : /\ Becomes(r, m) /\ m.at = step
                 /\ m.when = run[r].when /\ m.map = run[r].map /\ m.mine = run[r].mine
                 /\ m.left = run[r].left /\ m.results = run[r].results
    BY MoveFacts DEF UnderLease
  <1>2. r \in Holders <=> m.at \in UnderLease
    BY <1>1, RunFacts DEF UnderLease
  <1>3. ASSUME NEW s \in subs', NEW v \in 1..MaxMoves, r \in Holders
        PROVE  /\ Spent(m, s, v) <=> Spent(run[r], s, v)
               /\ Committed(m, s, v) => Committed(run[r], s, v)
               /\ Harmless(run[r], s, v) => Harmless(m, s, v)
    <2>1. /\ m.at \in UnderLease \ {"refresh", "record"} /\ run[r].at \in UnderLease \ {"refresh"}
          /\ m.at = "send" => run[r].at = "record"
          /\ run[r].at = "record" => run[r].left = {}
      BY <1>1, <1>2, <1>3 DEF UnderLease
    <2>2. Spent(m, s, v) <=> Spent(run[r], s, v)
      BY <1>1 DEF Spent
    <2>3. Armed(m, s, v) => Armed(run[r], s, v)
      BY <1>1, <2>1 DEF Armed
    <2>4. Harmless(run[r], s, v) => Harmless(m, s, v)
      BY <1>1, <2>1 DEF Harmless
    <2> QED
      BY <2>2, <2>3, <2>4 DEF Committed
  <1>4. \A s \in subs', v \in 1..MaxMoves : Accounted(s, v)'
    BY <1>1, <1>2, <1>3, InsideKeeps
  <1>5. /\ delivery' \in Push!Records /\ overlaps' \in 0..MaxFaults /\ outdated' \in Nat
        /\ delivered' \in [Push!Subscriptions \X (1..MaxMoves) -> Nat]
        /\ unheard' \in [Push!Subscriptions \X (1..MaxMoves) -> Nat]
    BY DEF PushInv, Push!TypeOK
  <1>6. overlaps' <= faults'
    BY DEF PushInv, Push!TypeOK
  <1> QED
    BY <1>1, <1>4, <1>5, <1>6, PushConcludes

\* A run that ends, under the lease or not.
LEMMA IdleKeeps ==
  ASSUME PushInv, NEW r \in Runs, run' = [run EXCEPT ![r] = Push!Idle],
         lease' \in Runs \cup {None}, faults' \in 0..MaxFaults, faults <= faults',
         dropped' \subseteq Push!Subscriptions \X Push!Dates,
         UNCHANGED <<due, subs, fails, delivery, cursor, overlaps, outdated, delivered, unheard>>
  PROVE  PushInv'
  <1>1. Becomes(r, Push!Idle)
    BY DEF Becomes
  <1>2. ASSUME NEW s \in subs', NEW v \in 1..MaxMoves PROVE Accounted(s, v)'
    <2>1. ~(Push!Idle.at \in UnderLease)
      BY DEF Push!Idle, UnderLease
    <2> QED
      BY <1>1, <2>1, InsideKeeps, LeavingKeeps
  <1>3. /\ fails' \in [Push!Subscriptions -> Nat] /\ cursor' \in Workspaces \cup {0}
        /\ delivery' \in Push!Records /\ overlaps' \in 0..MaxFaults /\ outdated' \in Nat
        /\ delivered' \in [Push!Subscriptions \X (1..MaxMoves) -> Nat]
        /\ unheard' \in [Push!Subscriptions \X (1..MaxMoves) -> Nat]
    BY DEF PushInv, Push!TypeOK
  <1>4. overlaps' <= faults'
    BY DEF PushInv, Push!TypeOK
  <1> QED
    BY <1>1, <1>2, <1>3, <1>4, PushConcludes

LEMMA FaultTypes ==
  ASSUME PushInv
  PROVE  /\ faults \in 0..MaxFaults /\ faults <= faults
         /\ faults < MaxFaults => faults + 1 \in 0..MaxFaults /\ faults <= faults + 1
  BY PushAssumption DEF PushInv, Push!TypeOK

LEMMA PrepareInv ==
  ASSUME PushInv, NEW r \in Runs, Push!Prepare(r)
  PROVE  PushInv'
  <1> DEFINE tasks == Push!Interleaved(Push!Slice, due, subs, delivery)
             failing == {s \in subs : fails[s] + 1 >= MaxFails}
             m == [Push!Idle EXCEPT !.at = "due", !.ring = Push!Slice, !.map = delivery, !.when = due,
                                    !.known = subs, !.failing = failing, !.todo = tasks, !.from = cursor]
  <1>1. subs \subseteq Subscriptions /\ Subscriptions = Push!Subscriptions
    BY DEF PushInv, Push!TypeOK, Push!Subscriptions, Subscriptions
  <1>2. Push!Slice \in Seq(Workspaces)
    BY <1>1, SliceFacts
  <1>3. tasks \in Seq(Lacking(Push!Slice, due, subs, delivery)) /\ (tasks # <<>> => Push!Slice # <<>>)
    BY <1>2, InterleavedFacts
  <1>4. tasks # <<>> /\ run' = [run EXCEPT ![r] = m] /\ run[r].at = "idle"
    BY DEF Push!Prepare
  <1> HIDE DEF tasks
  <1>5. Lacking(Push!Slice, due, subs, delivery) \subseteq {s \in Subscriptions : s[1] \in Push!ToSet(Push!Slice)}
    BY DEF Lacking
  <1>6. tasks \in Seq({s \in Subscriptions : s[1] \in Push!ToSet(Push!Slice)})
    BY <1>3, <1>5, SeqMonotonic
  <1>7. tasks \in Seq(Push!Subscriptions)
    <2>1. {s \in Subscriptions : s[1] \in Push!ToSet(Push!Slice)} \subseteq Push!Subscriptions
      BY <1>1
    <2> QED
      BY <1>6, <2>1, SeqMonotonic
  <1>8. \A t \in Push!ToSet(tasks) : t[1] \in Push!ToSet(Push!Slice)
    BY <1>6 DEF Push!ToSet
  <1>9. /\ m.at = "due" /\ m.ring = Push!Slice /\ m.when = due /\ m.known = subs /\ m.todo = tasks
        /\ m.mine = {} /\ m.left = {} /\ m.results = Push!Unanswered /\ m.map = delivery
        /\ m.from = cursor /\ m.broken = FALSE
    BY DEF Push!Idle
  <1>10. m \in Push!Memory
    BY <1>1, <1>2, <1>7
       DEF Push!Idle, Push!Memory, Push!Unanswered, Push!Tasks, Push!Steps, PushInv, Push!TypeOK
  <1> HIDE DEF m
  <1>11. UNCHANGED <<due, subs, fails, delivery, lease, cursor, faults, overlaps, outdated, delivered,
                     unheard, dropped>>
    BY DEF Push!Prepare, Push!d1, Push!kv, Push!history
  <1>12. Grounded(m, due', subs')
    <2>1. \A w \in Workspaces : due[w] <= due[w]
      BY DEF PushInv, Push!TypeOK
    <2> QED
      BY <1>3, <1>4, <1>8, <1>9, <1>11, <2>1 DEF Grounded, Push!Unanswered
  <1>13. Becomes(r, m)
    BY <1>4, <1>10, <1>12 DEF Becomes
  <1>14. r \notin Holders /\ m.at \notin UnderLease
    BY <1>4, <1>9 DEF Holders, UnderLease
  <1>15. \A s \in subs', v \in 1..MaxMoves : Accounted(s, v)'
    BY <1>11, <1>13, <1>14, InsideKeeps
  <1> QED
    BY <1>11, <1>13, <1>15, PushConcludes DEF PushInv, Push!TypeOK

LEMMA ReadLeaseInv ==
  ASSUME PushInv, NEW r \in Runs, Push!ReadLease(r)
  PROVE  PushInv'
  <1>1. /\ UNCHANGED <<due, subs, fails, delivery, lease, cursor, faults, overlaps, outdated, delivered,
                       unheard, dropped>>
        /\ run[r].at = "due"
        /\ Push!Move(r, "claim") \/ run' = [run EXCEPT ![r] = Push!Idle]
    BY DEF Push!ReadLease, Push!d1, Push!kv, Push!history
  <1>2. /\ fails' \in [Push!Subscriptions -> Nat] /\ lease' \in Runs \cup {None}
        /\ cursor' \in Workspaces \cup {0} /\ dropped' \subseteq Push!Subscriptions \X Push!Dates
    BY <1>1 DEF PushInv, Push!TypeOK
  <1>3. CASE Push!Move(r, "claim")
    BY <1>1, <1>2, <1>3, FaultTypes, MovesKeep DEF Push!Steps
  <1>4. CASE run' = [run EXCEPT ![r] = Push!Idle]
    BY <1>1, <1>2, <1>4, FaultTypes, IdleKeeps
  <1> QED
    BY <1>1, <1>3, <1>4

LEMMA PutLeaseInv ==
  ASSUME PushInv, NEW r \in Runs, Push!PutLease(r)
  PROVE  PushInv'
  <1>1. /\ UNCHANGED <<due, subs, fails, delivery, cursor, overlaps, outdated, delivered, unheard, dropped>>
        /\ run[r].at = "claim"
        /\ \/ lease' = r /\ Push!Move(r, "check") /\ faults' = faults
           \/ /\ faults < MaxFaults /\ faults' = faults + 1 /\ lease' = lease
              /\ run' = [run EXCEPT ![r] = Push!Idle]
    BY DEF Push!PutLease, Push!d1, Push!history
  <1>2. /\ fails' \in [Push!Subscriptions -> Nat] /\ lease' \in Runs \cup {None}
        /\ cursor' \in Workspaces \cup {0} /\ dropped' \subseteq Push!Subscriptions \X Push!Dates
    BY <1>1 DEF PushInv, Push!TypeOK
  <1>3. faults' \in 0..MaxFaults /\ faults <= faults'
    BY <1>1, FaultTypes
  <1>4. CASE Push!Move(r, "check")
    BY <1>1, <1>2, <1>3, <1>4, MovesKeep DEF Push!Steps
  <1>5. CASE run' = [run EXCEPT ![r] = Push!Idle]
    BY <1>1, <1>2, <1>3, <1>5, IdleKeeps
  <1> QED
    BY <1>1, <1>4, <1>5

\* A run comes under the lease: it has neither sent nor recorded anything.
LEMMA EnteringKeeps ==
  ASSUME PushInv, NEW r \in Runs, r \notin Holders, NEW m, Becomes(r, m), m.at = "refresh",
         m.results = Push!Unanswered,
         due' = due, subs' = subs, delivery' = delivery, outdated' = outdated,
         delivered' = delivered, unheard' = unheard,
         overlaps' = overlaps + (IF Holders = {} THEN 0 ELSE 1),
         NEW s \in subs, NEW v \in 1..MaxMoves
  PROVE  Accounted(s, v)'
  <1>1. run'[r] = m /\ \A q \in Runs \ {r} : run'[q] = run[q]
    BY BecomesFacts
  <1>2. Holders' = Holders \cup {r} /\ Holders \subseteq Runs
    BY HoldersFacts DEF UnderLease, Holders
  <1>3. \A q \in Holders : run'[q] = run[q]
    BY <1>1, <1>2
  <1>4. ~Spent(m, s, v) /\ ~Committed(m, s, v) /\ Harmless(m, s, v)
    BY DEF Spent, Armed, Committed, Harmless, Push!Unanswered
  <1>5. Unspent(s, v)' = Unspent(s, v) \cup {r} /\ r \notin Unspent(s, v)
    BY <1>1, <1>2, <1>3, <1>4 DEF Unspent
  <1>6. /\ overlaps \in Nat /\ outdated \in Nat
        /\ unheard[<<s, v>>] \in Nat /\ delivered[<<s, v>>] \in Nat
        /\ IsFiniteSet(Unspent(s, v)) /\ Cardinality(Unspent(s, v)) \in Nat
    BY SlackTypes
  <1>7. Cardinality(Unspent(s, v)') = Cardinality(Unspent(s, v)) + 1
    BY <1>5, <1>6, FS_AddElement
  <1>8. Slack(s, v)' = Slack(s, v)
    <2>1. Holders' # {}
      BY <1>2
    <2>2. Slack(s, v)' = overlaps' + outdated + unheard[<<s, v>>] + 1
                            - delivered[<<s, v>>] - Cardinality(Unspent(s, v)')
      BY <2>1 DEF Slack
    <2>3. CASE Holders = {}
      BY <1>6, <1>7, <2>2, <2>3 DEF Slack
    <2>4. CASE Holders # {}
      BY <1>6, <1>7, <2>2, <2>4 DEF Slack
    <2> QED
      BY <2>3, <2>4
  <1>9. Kept(s, v)' = Kept(s, v)
    BY DEF Kept
  <1>10. Accounted(s, v)
    BY DEF PushInv
  <1>11. \A q \in Holders' : q = r \/ q \in Holders
    BY <1>2
  <1>12. r \in Holders' /\ ~Committed(run'[r], s, v) /\ Harmless(run'[r], s, v)
    BY <1>1, <1>2, <1>4
  <1>13. Slack(s, v)' = -1 =>
            /\ v <= due'[s[1]]
            /\ \A q \in Holders' : ~Committed(run'[q], s, v)
            /\ v = due'[s[1]] => Kept(s, v)' /\ \A q \in Holders' : Harmless(run'[q], s, v)
    <2> SUFFICES ASSUME Slack(s, v) = -1
                 PROVE  /\ v <= due[s[1]]
                        /\ \A q \in Holders' : ~Committed(run'[q], s, v)
                        /\ v = due[s[1]] => Kept(s, v) /\ \A q \in Holders' : Harmless(run'[q], s, v)
      BY <1>8, <1>9
    <2>1. /\ v <= due[s[1]]
          /\ \A q \in Holders : ~Committed(run[q], s, v)
          /\ v = due[s[1]] => Kept(s, v) /\ \A q \in Holders : Harmless(run[q], s, v)
      BY <1>10 DEF Accounted
    <2> QED
      BY <1>3, <1>11, <1>12, <2>1
  <1> HIDE DEF Slack
  <1> QED
    BY <1>8, <1>10, <1>12, <1>13 DEF Accounted

LEMMA CheckLeaseInv ==
  ASSUME PushInv, NEW r \in Runs, Push!CheckLease(r)
  PROVE  PushInv'
  <1>1. /\ UNCHANGED <<due, subs, fails, delivery, lease, cursor, outdated, delivered, unheard, dropped>>
        /\ run[r].at = "check"
    BY DEF Push!CheckLease, Push!d1, Push!kv
  <1>2. /\ fails' \in [Push!Subscriptions -> Nat] /\ lease' \in Runs \cup {None}
        /\ cursor' \in Workspaces \cup {0} /\ dropped' \subseteq Push!Subscriptions \X Push!Dates
        /\ delivery' \in Push!Records /\ outdated' \in Nat
        /\ delivered' \in [Push!Subscriptions \X (1..MaxMoves) -> Nat]
        /\ unheard' \in [Push!Subscriptions \X (1..MaxMoves) -> Nat]
    BY <1>1 DEF PushInv, Push!TypeOK
  <1>3. CASE lease \in {None, r}
    <2>1. Push!Move(r, "refresh")
      BY <1>3 DEF Push!CheckLease
    <2>2. PICK m : /\ Becomes(r, m) /\ m.at = "refresh" /\ m.results = run[r].results
      BY <1>1, <2>1, MoveFacts DEF Push!Steps
    <2>3. m.results = Push!Unanswered /\ r \notin Holders
      BY <1>1, <2>2, RunFacts DEF Grounded, Holders, UnderLease
    <2>4. Push!Overlapping(r) <=> Holders # {}
      BY <2>3 DEF Push!Overlapping, Push!Held, Holders, UnderLease
    <2>5. /\ overlaps' = overlaps + (IF Holders = {} THEN 0 ELSE 1)
          /\ faults' = faults + (IF Holders = {} THEN 0 ELSE 1)
          /\ Holders # {} => faults < MaxFaults
      <3>1. overlaps \in Nat /\ faults \in Nat
        BY PushAssumption DEF PushInv, Push!TypeOK
      <3> QED
        BY <1>3, <2>4, <3>1 DEF Push!CheckLease
    <2>6. overlaps' \in 0..MaxFaults /\ faults' \in 0..MaxFaults /\ overlaps' <= faults'
      BY <2>5, PushAssumption DEF PushInv, Push!TypeOK
    <2>7. \A s \in subs', v \in 1..MaxMoves : Accounted(s, v)'
      BY <1>1, <2>2, <2>3, <2>5, EnteringKeeps
    <2> QED
      BY <1>1, <1>2, <2>2, <2>6, <2>7, PushConcludes
  <1>4. CASE lease \notin {None, r}
    <2>1. run' = [run EXCEPT ![r] = Push!Idle] /\ overlaps' = overlaps /\ faults' = faults
      BY <1>4 DEF Push!CheckLease
    <2> QED
      BY <1>1, <1>2, <2>1, FaultTypes, IdleKeeps
  <1> QED
    BY <1>3, <1>4

LEMMA RefreshInv ==
  ASSUME PushInv, NEW r \in Runs, Push!Refresh(r)
  PROVE  PushInv'
  <1> DEFINE me == run[r]
             had(w) == Push!Missing(w, me.when, me.known, me.map) # {}
             map == [w \in Workspaces |-> IF had(w) THEN delivery[w] ELSE me.map[w]]
             tasks == Push!Interleaved(me.ring, me.when, me.known, map)
             mine == Push!ToSet(Push!Reserved(tasks))
             m == [me EXCEPT !.at = "record", !.map = map, !.todo = tasks,
                             !.mine = mine, !.left = Push!OwnersOf(mine)]
  <1>1. /\ UNCHANGED <<due, subs, fails, delivery, lease, cursor, faults, overlaps, outdated, delivered,
                       unheard, dropped>>
        /\ me.at = "refresh" /\ run' = [run EXCEPT ![r] = m]
    BY DEF Push!Refresh, Push!d1, Push!kv, Push!history
  <1>2. me \in Push!Memory /\ Grounded(me, due, subs) /\ r \in Holders
    BY <1>1, RunFacts DEF UnderLease
  <1>3. /\ me.ring \in Seq(Workspaces) /\ me.map \in Push!Records
        /\ delivery \in Push!Records /\ Subscriptions = Push!Subscriptions
    BY <1>2 DEF Push!Memory, PushInv, Push!TypeOK, Push!Subscriptions, Subscriptions
  <1>4. map \in Push!Records
    BY <1>3 DEF Push!Records
  <1>5. ASSUME NEW s \in subs, delivery[s[1]].when = me.when[s[1]], s[2] \in delivery[s[1]].have
        PROVE  map[s[1]].when = me.when[s[1]] /\ s[2] \in map[s[1]].have
    <2>1. s \in Subscriptions /\ s[1] \in Workspaces /\ s[2] \in Devices /\ s = <<s[1], s[2]>>
      BY DEF PushInv, Push!TypeOK, Push!Subscriptions, Subscriptions
    <2>2. <<s[1], s[2]>> \in me.known
      BY <1>2, <2>1 DEF Grounded
    <2>3. ~had(s[1]) => me.map[s[1]].when = me.when[s[1]] /\ s[2] \in me.map[s[1]].have
      BY <2>1, <2>2 DEF Push!Missing
    <2> QED
      BY <1>5, <2>1, <2>3
  <1> HIDE DEF map
  <1>6. tasks \in Seq(Lacking(me.ring, me.when, me.known, map))
    BY <1>3, InterleavedFacts
  <1> HIDE DEF tasks
  <1>7. mine \subseteq Push!ToSet(tasks) /\ Push!ToSet(tasks) \subseteq Lacking(me.ring, me.when, me.known, map)
    BY <1>6, ReservedFacts DEF Push!ToSet
  <1>8. tasks \in Seq(Push!Subscriptions) /\ mine \subseteq Push!Subscriptions
    <2>1. Lacking(me.ring, me.when, me.known, map) \subseteq Push!Subscriptions
      BY <1>3 DEF Lacking
    <2> QED
      BY <1>6, <1>7, <2>1, SeqMonotonic
  <1>9. Push!OwnersOf(mine) \subseteq Workspaces
    BY <1>8 DEF Push!OwnersOf, Push!Subscriptions
  <1> HIDE DEF mine
  <1>10. /\ m.at = "record" /\ m.ring = me.ring /\ m.map = map /\ m.when = me.when /\ m.known = me.known
         /\ m.todo = tasks /\ m.mine = mine /\ m.left = Push!OwnersOf(mine) /\ m.results = me.results
         /\ m \in Push!Memory
    BY <1>2, <1>4, <1>8, <1>9 DEF Push!Memory, Push!Tasks, Push!Steps
  <1> HIDE DEF m
  <1>11. mine \subseteq me.known
    <2>1. \A t \in mine : t \in Push!Subscriptions /\ t[2] \in Push!Missing(t[1], me.when, me.known, map)
      BY <1>7, <1>8 DEF Lacking
    <2>2. ASSUME NEW t \in mine PROVE t \in me.known
      <3>1. t = <<t[1], t[2]>>
        BY <2>1 DEF Push!Subscriptions
      <3>2. <<t[1], t[2]>> \in me.known
        BY <2>1 DEF Push!Missing
      <3> QED
        BY <3>1, <3>2
    <2> QED
      BY <2>2
  <1>12. Grounded(m, due', subs')
    <2>1. \A t \in Push!ToSet(m.todo) : t[1] \in Push!ToSet(m.ring)
      BY <1>7, <1>10 DEF Lacking
    <2>2. \A t \in m.mine : t[1] \in m.left
      BY <1>10 DEF Push!OwnersOf
    <2>3. m.results = Push!Unanswered
      BY <1>1, <1>2, <1>10 DEF Grounded
    <2> QED
      BY <1>1, <1>2, <1>7, <1>10, <1>11, <2>1, <2>2, <2>3 DEF Grounded, Push!Unanswered
  <1>13. Becomes(r, m)
    BY <1>1, <1>10, <1>12 DEF Becomes
  <1>14. m.results = Push!Unanswered /\ me.results = Push!Unanswered
    BY <1>1, <1>2, <1>10 DEF Grounded
  <1>15. ASSUME NEW s \in subs', NEW v \in 1..MaxMoves
         PROVE  /\ Spent(m, s, v) <=> Spent(run[r], s, v)
                /\ Committed(m, s, v) => Committed(run[r], s, v)
                /\ Kept(s, v) /\ v = due[s[1]] /\ Harmless(run[r], s, v) => Harmless(m, s, v)
    <2>1. ~Spent(m, s, v) /\ ~Spent(me, s, v)
      BY <1>14 DEF Spent, Push!Unanswered
    <2>2. ~Armed(m, s, v)
      <3>1. s \in mine => s[1] \in Push!OwnersOf(mine)
        BY DEF Push!OwnersOf
      <3> QED
        BY <1>10, <3>1 DEF Armed
    <2>3. ASSUME Kept(s, v), m.when[s[1]] = v
          PROVE  s \notin m.mine /\ m.map[s[1]].when = v /\ s[2] \in m.map[s[1]].have
      <3>1. map[s[1]].when = me.when[s[1]] /\ s[2] \in map[s[1]].have
        BY <1>1, <1>5, <1>10, <2>3 DEF Kept
      <3>2. s \notin mine
        BY <1>7, <3>1 DEF Lacking, Push!Missing
      <3> QED
        BY <1>10, <2>3, <3>1, <3>2
    <2> QED
      BY <1>10, <2>1, <2>2, <2>3 DEF Committed, Harmless
  <1>16. \A s \in subs', v \in 1..MaxMoves : Accounted(s, v)'
    BY <1>1, <1>2, <1>10, <1>13, <1>15, InsideKeeps DEF UnderLease
  <1> QED
    BY <1>1, <1>13, <1>16, PushConcludes DEF PushInv, Push!TypeOK

\* The workspace whose record is next.
LEMMA OwnerFacts ==
  ASSUME PushInv, NEW r \in Runs, run[r].at # "idle", run[r].left # {}
  PROVE  Push!NextOwner(r) \in run[r].left /\ Push!NextOwner(r) \in Workspaces
  <1> DEFINE tasks == {t \in run[r].mine : t[1] \in run[r].left}
  <1>1. run[r] \in Push!Memory /\ Grounded(run[r], due, subs)
    BY RunFacts
  <1>2. run[r].todo \in Seq(Push!Subscriptions) /\ run[r].left \subseteq Workspaces
    BY <1>1 DEF Push!Memory
  <1>3. tasks \subseteq Push!ToSet(run[r].todo) /\ tasks # {}
    BY <1>1 DEF Grounded, Push!OwnersOf
  <1>4. Push!FirstOf(r, tasks) \in tasks
    <2> HIDE DEF tasks
    <2> QED
      BY <1>2, <1>3, FirstFacts
  <1>5. Push!NextOwner(r) \in run[r].left
    BY <1>4 DEF Push!NextOwner
  <1> QED
    BY <1>2, <1>5

\* What a put changes of the slack: nothing, or one more if its date had moved.
LEMMA PutSlack ==
  ASSUME PushInv, NEW r \in Holders, NEW m, Becomes(r, m), m.at \in UnderLease,
         m.results = run[r].results, m.when = run[r].when,
         due' = due, subs' \subseteq subs, overlaps' = overlaps,
         delivered' = delivered, unheard' = unheard,
         NEW more \in {0, 1}, outdated' = outdated + more,
         NEW s \in subs, NEW v \in 1..MaxMoves
  PROVE  /\ Holders' = Holders /\ run'[r] = m /\ \A q \in Holders \ {r} : run'[q] = run[q]
         /\ Slack(s, v)' = Slack(s, v) + more
         /\ Slack(s, v) \in Int
  <1>1. r \in Runs /\ Holders \subseteq Runs
    BY DEF Holders
  <1>2. Holders' = Holders
    BY <1>1, HoldersFacts
  <1>3. run'[r] = m /\ \A q \in Holders \ {r} : run'[q] = run[q]
    BY <1>1, BecomesFacts
  <1>4. \A q \in Holders : Spent(run'[q], s, v) <=> Spent(run[q], s, v)
    BY <1>3 DEF Spent
  <1>5. Unspent(s, v)' = Unspent(s, v)
    BY <1>2, <1>4 DEF Unspent
  <1>6. Slack(s, v)' = Slack(s, v) + more
    <2>1. Slack(s, v)' = overlaps + (outdated + more) + unheard[<<s, v>>] + (IF Holders = {} THEN 0 ELSE 1)
                            - delivered[<<s, v>>] - Cardinality(Unspent(s, v))
      BY <1>2, <1>5 DEF Slack
    <2>2. /\ overlaps \in Nat /\ outdated \in Nat
          /\ unheard[<<s, v>>] \in Nat /\ delivered[<<s, v>>] \in Nat
          /\ Cardinality(Unspent(s, v)) \in Nat
      BY SlackTypes
    <2> QED
      BY <2>1, <2>2 DEF Slack
  <1> QED
    BY <1>2, <1>3, <1>6, SlackTypes

\* The record of a workspace names its reserved devices before anything is sent.
LEMMA AheadKeeps ==
  ASSUME PushInv, NEW r \in Holders, run[r].at = "record", NEW m, Becomes(r, m), m.at = "record",
         m.results = run[r].results, m.when = run[r].when, m.mine = run[r].mine,
         NEW w \in run[r].left, m.left = run[r].left \ {w},
         m.map[w].when = run[r].when[w],
         run[r].map[w].when = run[r].when[w] => run[r].map[w].have \subseteq m.map[w].have,
         \A d \in Devices : <<w, d>> \in run[r].mine => d \in m.map[w].have,
         \A x \in Workspaces \ {w} : m.map[x] = run[r].map[x] /\ delivery'[x] = delivery[x],
         delivery'[w].when = run[r].when[w],
         \A d \in m.map[w].have : <<w, d>> \in run[r].known => d \in delivery'[w].have,
         outdated' = outdated + (IF due[w] # run[r].when[w] THEN 1 ELSE 0),
         due' = due, subs' = subs, overlaps' = overlaps, delivered' = delivered, unheard' = unheard,
         NEW s \in subs, NEW v \in 1..MaxMoves
  PROVE  Accounted(s, v)'
  <1> DEFINE more == IF due[w] # run[r].when[w] THEN 1 ELSE 0
  <1>1. /\ Holders' = Holders /\ run'[r] = m /\ \A q \in Holders \ {r} : run'[q] = run[q]
        /\ Slack(s, v)' = Slack(s, v) + more
        /\ Slack(s, v) \in Int
    BY PutSlack DEF UnderLease
  <1>2. Accounted(s, v)
    BY DEF PushInv
  <1>3. /\ s[1] \in Workspaces /\ s = <<s[1], s[2]>> /\ s[2] \in Devices
        /\ due[s[1]] \in Nat /\ v \in Nat
    <2>1. s \in Subscriptions /\ s[1] \in Workspaces /\ due[s[1]] \in Nat /\ v \in Nat
      BY SlackTypes
    <2>2. s = <<s[1], s[2]>> /\ s[2] \in Devices
      BY <2>1 DEF Subscriptions
    <2> QED
      BY <2>1, <2>2
  <1>4. Grounded(run[r], due, subs) /\ run[r].results = Push!Unanswered
    BY RunFacts DEF Holders, UnderLease, Grounded
  <1>5. ~Spent(m, s, v) /\ ~Spent(run[r], s, v)
    BY <1>4 DEF Spent, Push!Unanswered
  <1> HIDE DEF Slack
  <1>6. CASE s[1] # w
    <2>1. Kept(s, v)' = Kept(s, v)
      BY <1>3, <1>6 DEF Kept
    <2>2. Committed(m, s, v) <=> Committed(run[r], s, v)
      BY <1>6 DEF Committed, Spent, Armed
    <2>3. Harmless(run[r], s, v) => Harmless(m, s, v)
      BY <1>3, <1>6 DEF Harmless
    <2>4. \A q \in Holders : /\ Committed(run'[q], s, v) => Committed(run[q], s, v)
                             /\ Harmless(run[q], s, v) => Harmless(run'[q], s, v)
      BY <1>1, <2>2, <2>3
    <2>5. CASE due[w] = run[r].when[w]
      <3>1. Slack(s, v)' = Slack(s, v)
        BY <1>1, <2>5
      <3> QED
        BY <1>1, <2>1, <2>4, <3>1, SteadyKeeps
    <2>6. CASE due[w] # run[r].when[w]
      <3>1. Slack(s, v)' = Slack(s, v) + 1
        BY <1>1, <2>6
      <3>2. Slack(s, v) = -1 => ~Committed(m, s, v)
        BY <1>2, <2>2 DEF Accounted
      <3> QED
        BY <1>1, <1>2, <3>1, <3>2 DEF Accounted
    <2> QED
      BY <2>5, <2>6
  <1>7. CASE s[1] = w
    <2>1. run[r].when[w] <= due[w] /\ s \in run[r].known /\ run[r].mine \subseteq run[r].known
      BY <1>3, <1>4, <1>7 DEF Grounded
    <2>2. Committed(m, s, v) => s \in m.mine /\ run[r].when[w] = v
      BY <1>5, <1>7 DEF Committed, Armed
    <2>3. CASE due[w] # run[r].when[w]
      <3>1. Slack(s, v)' = Slack(s, v) + 1
        BY <1>1, <2>3
      <3>2. Slack(s, v) = -1 => v < due[w] \/ ~Committed(m, s, v)
        BY <1>2, <1>3, <1>7, <2>2, <2>3 DEF Accounted
      <3> QED
        BY <1>1, <1>2, <1>7, <3>1, <3>2 DEF Accounted
    <2>4. CASE due[w] = run[r].when[w]
      <3>1. Slack(s, v)' = Slack(s, v)
        BY <1>1, <2>4
      <3>2. Slack(s, v) = -1 => v <= due[w] /\ ~Committed(run[r], s, v)
        BY <1>2, <1>7 DEF Accounted
      <3>3. CASE run[r].when[w] # v
        <4>1. ~Committed(m, s, v)
          BY <2>2, <3>3
        <4>2. \A q \in Holders : Committed(run'[q], s, v) => Committed(run[q], s, v)
          BY <1>1, <4>1
        <4>3. v # due[s[1]]
          BY <1>7, <2>4, <3>3
        <4> QED
          BY <1>1, <1>2, <3>1, <4>1, <4>2, <4>3 DEF Accounted
      <3>4. CASE run[r].when[w] = v
        <4>1. s \in run[r].mine => Kept(s, v)'
          BY <1>3, <1>7, <2>1, <3>4 DEF Kept
        <4>2. Slack(s, v) = 0 => Kept(s, v)' \/ ~Committed(m, s, v)
          BY <2>2, <4>1
        <4>3. ASSUME Slack(s, v) = -1
              PROVE  /\ Kept(s, v)' /\ \A q \in Holders : Harmless(run'[q], s, v)
                     /\ \A q \in Holders : ~Committed(run'[q], s, v)
          <5>1. /\ v = due[s[1]] /\ Kept(s, v) /\ \A q \in Holders : Harmless(run[q], s, v)
                /\ \A q \in Holders : ~Committed(run[q], s, v)
            BY <1>2, <1>7, <2>4, <3>4, <4>3 DEF Accounted
          <5>2. s \notin run[r].mine /\ run[r].map[w].when = v /\ s[2] \in run[r].map[w].have
            BY <1>7, <3>4, <5>1 DEF Harmless
          <5>3. m.map[w].when = v /\ s[2] \in m.map[w].have
            BY <3>4, <5>2
          <5>4. Kept(s, v)'
            BY <1>3, <1>7, <2>1, <3>4, <5>3 DEF Kept
          <5>5. Harmless(m, s, v) /\ ~Committed(m, s, v)
            BY <1>7, <2>2, <3>4, <5>2, <5>3 DEF Harmless
          <5> QED
            BY <1>1, <5>1, <5>4, <5>5
        <4> QED
          BY <1>1, <1>2, <1>7, <2>4, <3>1, <3>4, <4>2, <4>3 DEF Accounted
      <3> QED
        BY <3>3, <3>4
    <2> QED
      BY <2>3, <2>4
  <1> QED
    BY <1>6, <1>7

LEMMA RecordAheadPuts ==
  ASSUME PushInv, NEW r \in Runs, Push!RecordAhead(r), run[r].left # {}, faults' = faults
  PROVE  PushInv'
  <1> DEFINE me == run[r]
             w == Push!NextOwner(r)
             mine == {d \in Devices : <<w, d>> \in me.mine}
             old == IF me.map[w].when = me.when[w] THEN me.map[w].have ELSE {}
             new == [when |-> me.when[w], have |-> old \cup mine]
             pruned == [new EXCEPT !.have = {d \in @ : <<w, d>> \in me.known}]
             m == [me EXCEPT !.map = [me.map EXCEPT ![w] = new], !.left = me.left \ {w}]
  <1>1. /\ UNCHANGED <<due, subs, fails, lease, cursor, delivered, overlaps, unheard, dropped>>
        /\ me.at = "record"
    BY DEF Push!RecordAhead, Push!d1
  <1>2. /\ delivery' = [delivery EXCEPT ![w] = pruned]
        /\ run' = [run EXCEPT ![r].map[w] = new, ![r].left = @ \ {w}]
        /\ outdated' = outdated + (IF due[w] # me.when[w] THEN 1 ELSE 0)
    <2>1. faults # faults + 1
      BY FaultTypes
    <2> HIDE DEF w
    <2> QED
      BY <2>1 DEF Push!RecordAhead, w
  <1>3. me \in Push!Memory /\ Grounded(me, due, subs) /\ r \in Holders
    BY <1>1, RunFacts DEF UnderLease
  <1>4. w \in me.left /\ w \in Workspaces
    BY <1>1, OwnerFacts
  <1> HIDE DEF w
  <1>5. me.map \in Push!Records /\ delivery \in Push!Records /\ me.when \in [Workspaces -> 1..MaxMoves]
    BY <1>3 DEF Push!Memory, PushInv, Push!TypeOK
  <1>6. me.when[w] \in Push!Dates
    BY <1>4, <1>5, PushAssumption DEF Push!Dates
  <1>7. old \subseteq Devices
    BY <1>4, <1>5 DEF Push!Records
  <1>8. /\ new \in [when : Push!Dates, have : SUBSET Devices]
        /\ new.when = me.when[w] /\ new.have = old \cup mine
    BY <1>6, <1>7
  <1>9. /\ pruned.when = me.when[w] /\ pruned.have = {d \in new.have : <<w, d>> \in me.known}
        /\ pruned \in [when : Push!Dates, have : SUBSET Devices]
    BY <1>8
  <1> HIDE DEF new, pruned
  <1>10. run' = [run EXCEPT ![r] = m]
    BY <1>2 DEF PushInv, Push!TypeOK
  <1>11. /\ m.at = "record" /\ m.ring = me.ring /\ m.map = [me.map EXCEPT ![w] = new] /\ m.when = me.when
        /\ m.known = me.known /\ m.todo = me.todo /\ m.mine = me.mine /\ m.left = me.left \ {w}
        /\ m.results = me.results
    BY <1>1, <1>3 DEF Push!Memory
  <1>12. [me.map EXCEPT ![w] = new] \in Push!Records
    BY <1>5, <1>8 DEF Push!Records
  <1>13. m \in Push!Memory
    BY <1>3, <1>12 DEF Push!Memory
  <1> HIDE DEF m
  <1>14. m.map[w] = new /\ \A x \in Workspaces \ {w} : m.map[x] = me.map[x]
    BY <1>4, <1>5, <1>11 DEF Push!Records
  <1>15. Grounded(m, due', subs')
    <2>1. ASSUME NEW t \in m.mine, t[1] \notin m.left
          PROVE  m.map[t[1]].when = m.when[t[1]] /\ t[2] \in m.map[t[1]].have
      <3>1. t \in Push!Subscriptions
        BY <1>13 DEF Push!Memory, Push!Tasks
      <3>2. t[1] \in Workspaces /\ t[2] \in Devices /\ t = <<t[1], t[2]>>
        BY <3>1 DEF Push!Subscriptions
      <3>3. CASE t[1] = w
        <4>1. <<w, t[2]>> \in me.mine
          BY <1>11, <2>1, <3>2, <3>3
        <4> QED
          BY <1>8, <1>11, <1>14, <3>2, <3>3, <4>1
      <3>4. CASE t[1] # w
        <4>1. t \in me.mine /\ t[1] \notin me.left
          BY <1>11, <2>1, <3>4
        <4> QED
          BY <1>3, <1>11, <1>14, <3>2, <3>4, <4>1 DEF Grounded
      <3> QED
        BY <3>3, <3>4
    <2> QED
      BY <1>1, <1>3, <1>11, <2>1 DEF Grounded
  <1>16. Becomes(r, m)
    BY <1>10, <1>13, <1>15 DEF Becomes
  <1>17. /\ delivery'[w].when = me.when[w]
         /\ delivery'[w].have = {d \in new.have : <<w, d>> \in me.known}
         /\ \A x \in Workspaces \ {w} : delivery'[x] = delivery[x]
         /\ delivery' \in Push!Records
    <2>1. delivery'[w] = pruned /\ \A x \in Workspaces \ {w} : delivery'[x] = delivery[x]
      BY <1>2, <1>4, <1>5 DEF Push!Records
    <2>2. delivery' \in Push!Records
      BY <1>2, <1>5, <1>9 DEF Push!Records
    <2> QED
      BY <1>9, <2>1, <2>2
  <1>18. ASSUME NEW s \in subs', NEW v \in 1..MaxMoves PROVE Accounted(s, v)'
    <2>1. /\ m.map[w].when = me.when[w]
          /\ me.map[w].when = me.when[w] => me.map[w].have \subseteq m.map[w].have
          /\ \A d \in Devices : <<w, d>> \in me.mine => d \in m.map[w].have
      BY <1>8, <1>14
    <2>2. \A d \in m.map[w].have : <<w, d>> \in me.known => d \in delivery'[w].have
      BY <1>14, <1>17
    <2>3. \A x \in Workspaces \ {w} : m.map[x] = me.map[x] /\ delivery'[x] = delivery[x]
      BY <1>14, <1>17
    <2>4. due' = due /\ subs' = subs /\ overlaps' = overlaps /\ delivered' = delivered /\ unheard' = unheard
      BY <1>1
    <2>5. s \in subs /\ w \in me.left /\ m.left = me.left \ {w}
      BY <1>4, <1>11, <2>4
    <2>6. m.at = "record" /\ m.results = me.results /\ m.when = me.when /\ m.mine = me.mine
      BY <1>11
    <2> QED
      BY <1>1, <1>2, <1>3, <1>16, <1>17, <2>1, <2>2, <2>3, <2>4, <2>5, <2>6, AheadKeeps
  <1>19. outdated' \in Nat
    BY <1>2 DEF PushInv, Push!TypeOK
  <1> QED
    BY <1>1, <1>16, <1>17, <1>18, <1>19, PushConcludes DEF PushInv, Push!TypeOK

LEMMA RecordAheadFails ==
  ASSUME PushInv, NEW r \in Runs, run[r].at = "record",
         run' = [run EXCEPT ![r].at = "send", ![r].broken = TRUE, ![r].left = {},
                            ![r].mine = {t \in @ : t[1] \notin run[r].left}],
         faults < MaxFaults, faults' = faults + 1,
         UNCHANGED <<due, subs, fails, delivery, lease, cursor, delivered, overlaps, outdated, unheard, dropped>>
  PROVE  PushInv'
  <1> DEFINE me == run[r]
             rest == {t \in me.mine : t[1] \notin me.left}
             m == [me EXCEPT !.at = "send", !.broken = TRUE, !.left = {}, !.mine = rest]
  <1>1. me \in Push!Memory /\ Grounded(me, due, subs) /\ r \in Holders
    BY RunFacts DEF UnderLease
  <1>2. run' = [run EXCEPT ![r] = m]
    BY DEF PushInv, Push!TypeOK
  <1>3. rest \in Push!Tasks
    BY <1>1 DEF Push!Memory, Push!Tasks
  <1> HIDE DEF rest
  <1>4. /\ m.at = "send" /\ m.ring = me.ring /\ m.map = me.map /\ m.when = me.when
        /\ m.known = me.known /\ m.todo = me.todo /\ m.mine = rest /\ m.left = {}
        /\ m.results = me.results /\ m \in Push!Memory
    BY <1>1, <1>3 DEF Push!Memory, Push!Steps
  <1> HIDE DEF m
  <1>5. me.results = Push!Unanswered
    BY <1>1 DEF Grounded
  <1>6. Grounded(m, due', subs')
    BY <1>1, <1>4, <1>5 DEF Grounded, rest, Push!Unanswered
  <1>7. Becomes(r, m)
    BY <1>2, <1>4, <1>6 DEF Becomes
  <1>8. ASSUME NEW s \in subs', NEW v \in 1..MaxMoves
        PROVE  /\ Spent(m, s, v) <=> Spent(run[r], s, v)
               /\ Committed(m, s, v) => Committed(run[r], s, v)
               /\ Harmless(run[r], s, v) => Harmless(m, s, v)
    <2>1. Spent(m, s, v) <=> Spent(run[r], s, v)
      BY <1>4 DEF Spent
    <2>2. Armed(m, s, v) => Armed(run[r], s, v)
      BY <1>4 DEF Armed, rest
    <2>3. Harmless(run[r], s, v) => Harmless(m, s, v)
      BY <1>4 DEF Harmless, rest, Push!OwnersOf
    <2> QED
      BY <2>1, <2>2, <2>3 DEF Committed
  <1>9. \A s \in subs', v \in 1..MaxMoves : Accounted(s, v)'
    BY <1>1, <1>4, <1>7, <1>8, InsideKeeps DEF UnderLease
  <1>10. faults' \in 0..MaxFaults /\ overlaps' <= faults'
    BY FaultTypes DEF PushInv, Push!TypeOK
  <1> QED
    BY <1>7, <1>9, <1>10, PushConcludes DEF PushInv, Push!TypeOK

LEMMA RecordAheadInv ==
  ASSUME PushInv, NEW r \in Runs, Push!RecordAhead(r)
  PROVE  PushInv'
  <1>1. /\ UNCHANGED <<due, subs, fails, lease, cursor, delivered, overlaps, unheard, dropped>>
        /\ run[r].at = "record"
    BY DEF Push!RecordAhead, Push!d1
  <1>2. CASE run[r].left = {}
    <2>1. Push!Move(r, "send") /\ UNCHANGED <<delivery, faults, outdated>>
      BY <1>2 DEF Push!RecordAhead
    <2>2. /\ fails' \in [Push!Subscriptions -> Nat] /\ lease' \in Runs \cup {None}
          /\ cursor' \in Workspaces \cup {0} /\ dropped' \subseteq Push!Subscriptions \X Push!Dates
      BY <1>1 DEF PushInv, Push!TypeOK
    <2>3. "send" \in Push!Steps
      BY DEF Push!Steps
    <2>4. "send" \in UnderLease \ {"refresh", "record"} /\ run[r].at \in UnderLease \ {"refresh"}
      BY <1>1 DEF UnderLease
    <2> QED
      BY <1>1, <1>2, <2>1, <2>2, <2>3, <2>4, FaultTypes, MovesKeep
  <1>3. CASE run[r].left # {}
    <2>1. CASE faults' = faults
      BY <1>3, <2>1, RecordAheadPuts
    <2>2. CASE faults' # faults
      <3>1. /\ faults < MaxFaults /\ faults' = faults + 1
            /\ run' = [run EXCEPT ![r].at = "send", ![r].broken = TRUE, ![r].left = {},
                                  ![r].mine = {t \in @ : t[1] \notin run[r].left}]
            /\ UNCHANGED <<delivery, outdated>>
        BY <1>3, <2>2 DEF Push!RecordAhead
      <3> QED
        BY <1>1, <3>1, RecordAheadFails
    <2> QED
      BY <2>1, <2>2
  <1> QED
    BY <1>2, <1>3

\* The task that is sent next.
LEMMA SendingFacts ==
  ASSUME PushInv, NEW r \in Runs, Push!CanSend(r)
  PROVE  /\ run[r].at = "send" /\ run[r] \in Push!Memory /\ Grounded(run[r], due, subs) /\ r \in Holders
         /\ Push!Sending(r) \in run[r].mine /\ Push!Sending(r) \in Push!Subscriptions
         /\ Push!Sending(r) \notin run[r].results.ok \cup run[r].results.failed \cup run[r].results.gone
         /\ run[r].when[Push!Sending(r)[1]] \in 1..MaxMoves
  <1>1. run[r].at = "send" /\ Push!Unsent(r) # {}
    BY DEF Push!CanSend
  <1>2. run[r] \in Push!Memory /\ Grounded(run[r], due, subs) /\ r \in Holders
    BY <1>1, RunFacts DEF UnderLease
  <1>3. Push!Unsent(r) \subseteq Push!ToSet(run[r].todo) /\ run[r].todo \in Seq(Push!Subscriptions)
    BY <1>2 DEF Grounded, Push!Unsent, Push!Memory
  <1>4. Push!Sending(r) \in Push!Unsent(r)
    BY <1>1, <1>3, FirstFacts DEF Push!Sending
  <1>5. /\ Push!Sending(r) \in run[r].mine
        /\ Push!Sending(r) \notin run[r].results.ok \cup run[r].results.failed \cup run[r].results.gone
    BY <1>4 DEF Push!Unsent
  <1>6. Push!Sending(r) \in Push!Subscriptions /\ run[r].when \in [Workspaces -> 1..MaxMoves]
    BY <1>2, <1>5 DEF Push!Memory, Push!Tasks
  <1>7. Push!Sending(r)[1] \in Workspaces
    BY <1>6 DEF Push!Subscriptions
  <1> QED
    BY <1>1, <1>2, <1>5, <1>6, <1>7

\* A run remembers an answer.
LEMMA AnswerGrounded ==
  ASSUME PushInv, NEW r \in Runs, Push!CanSend(r), due' = due, subs' = subs,
         NEW m \in Push!Memory, run' = [run EXCEPT ![r] = m],
         m.results.ok \cup m.results.failed \subseteq m.mine, m.results.ok \cap m.results.failed = {},
         m.at = "send", m.ring = run[r].ring, m.map = run[r].map, m.when = run[r].when,
         m.known = run[r].known, m.todo = run[r].todo, m.mine = run[r].mine, m.left = run[r].left
  PROVE  Becomes(r, m)
  <1>1. run[r].at = "send" /\ Grounded(run[r], due, subs)
    BY SendingFacts
  <1>2. Grounded(m, due', subs')
    BY <1>1 DEF Grounded
  <1> QED
    BY <1>2 DEF Becomes

\* An answer other than an ok: whoever had sent has, and nobody is committed by it.
LEMMA RefusedKeeps ==
  ASSUME PushInv, NEW r \in Runs, Push!CanSend(r), NEW m, Becomes(r, m), m.at = "send",
         m.results.ok = run[r].results.ok, run[r].results.failed \subseteq m.results.failed,
         run[r].results.gone \subseteq m.results.gone,
         m.when = run[r].when, m.map = run[r].map, m.mine = run[r].mine, m.left = run[r].left,
         NEW s \in subs, NEW v \in 1..MaxMoves
  PROVE  /\ Spent(m, s, v) <=> Spent(run[r], s, v)
         /\ Committed(m, s, v) => Committed(run[r], s, v)
         /\ Harmless(run[r], s, v) => Harmless(m, s, v)
  <1>1. run[r].at = "send"
    BY SendingFacts
  <1>2. Spent(m, s, v) <=> Spent(run[r], s, v)
    BY DEF Spent
  <1>3. Armed(m, s, v) => Armed(run[r], s, v)
    BY <1>1 DEF Armed
  <1>4. Harmless(run[r], s, v) => Harmless(m, s, v)
    BY <1>1 DEF Harmless
  <1> QED
    BY <1>2, <1>3, <1>4 DEF Committed

LEMMA SendFailsInv ==
  ASSUME PushInv, NEW r \in Runs, Push!SendFails(r) \/ Push!SendGone(r)
  PROVE  PushInv'
  <1> DEFINE me == run[r]
             x == Push!Sending(r)
  <1>1. /\ Push!CanSend(r)
        /\ UNCHANGED <<due, subs, fails, delivery, lease, cursor, faults, overlaps, outdated, delivered,
                       unheard, dropped>>
    BY DEF Push!SendFails, Push!SendGone, Push!d1, Push!kv, Push!history
  <1>2. /\ me \in Push!Memory /\ Grounded(me, due, subs) /\ r \in Holders
        /\ x \in me.mine /\ x \in Push!Subscriptions
        /\ x \notin me.results.ok \cup me.results.failed \cup me.results.gone
    BY <1>1, SendingFacts
  <1>3. me.results \in [ok : Push!Tasks, failed : Push!Tasks, gone : Push!Tasks]
    BY <1>2 DEF Push!Memory
  <1>4. /\ me.results.ok \cup me.results.failed \subseteq me.mine
        /\ me.results.ok \cap me.results.failed = {}
    BY <1>2 DEF Grounded
  <1>5. PICK done \in [ok : Push!Tasks, failed : Push!Tasks, gone : Push!Tasks] :
            /\ run' = [run EXCEPT ![r] = [me EXCEPT !.results = done]]
            /\ done.ok = me.results.ok
            /\ \/ done.failed = me.results.failed \cup {x} /\ done.gone = me.results.gone
               \/ done.gone = me.results.gone \cup {x} /\ done.failed = me.results.failed
    <2>1. CASE Push!SendFails(r)
      <3> DEFINE done == [me.results EXCEPT !.failed = @ \cup {x}]
      <3>1. /\ done \in [ok : Push!Tasks, failed : Push!Tasks, gone : Push!Tasks]
            /\ done.ok = me.results.ok /\ done.failed = me.results.failed \cup {x}
            /\ done.gone = me.results.gone
        BY <1>2, <1>3 DEF Push!Tasks
      <3>2. run' = [run EXCEPT ![r] = [me EXCEPT !.results = done]]
        BY <2>1 DEF Push!SendFails
      <3> HIDE DEF done
      <3> QED
        BY <3>1, <3>2
    <2>2. CASE Push!SendGone(r)
      <3> DEFINE done == [me.results EXCEPT !.gone = @ \cup {x}]
      <3>1. /\ done \in [ok : Push!Tasks, failed : Push!Tasks, gone : Push!Tasks]
            /\ done.ok = me.results.ok /\ done.failed = me.results.failed
            /\ done.gone = me.results.gone \cup {x}
        BY <1>2, <1>3 DEF Push!Tasks
      <3>2. run' = [run EXCEPT ![r] = [me EXCEPT !.results = done]]
        BY <2>2 DEF Push!SendGone
      <3> HIDE DEF done
      <3> QED
        BY <3>1, <3>2
    <2> QED
      BY <2>1, <2>2
  <1> HIDE DEF x
  <1>6. done.ok \cup done.failed \subseteq me.mine /\ done.ok \cap done.failed = {}
    BY <1>2, <1>4, <1>5
  <1> DEFINE m == [me EXCEPT !.results = done]
  <1>7. /\ m.at = "send" /\ m.ring = me.ring /\ m.map = me.map /\ m.when = me.when /\ m.known = me.known
        /\ m.todo = me.todo /\ m.mine = me.mine /\ m.left = me.left /\ m.results = done
        /\ m \in Push!Memory
    BY <1>1, <1>2, SendingFacts DEF Push!Memory
  <1>8. run' = [run EXCEPT ![r] = m]
    BY <1>5
  <1> HIDE DEF m
  <1>9. Becomes(r, m)
    BY <1>1, <1>6, <1>7, <1>8, AnswerGrounded
  <1>10. ASSUME NEW s \in subs', NEW v \in 1..MaxMoves PROVE Accounted(s, v)'
    <2>1. /\ Spent(m, s, v) <=> Spent(run[r], s, v)
          /\ Committed(m, s, v) => Committed(run[r], s, v)
          /\ Harmless(run[r], s, v) => Harmless(m, s, v)
      BY <1>1, <1>5, <1>7, <1>9, RefusedKeeps
    <2> QED
      BY <1>1, <1>2, <1>7, <1>9, <2>1, InsideKeeps DEF UnderLease
  <1> QED
    BY <1>1, <1>9, <1>10, PushConcludes DEF PushInv, Push!TypeOK

\* The counts of all the other devices and dates stay.
LEMMA CountedUp ==
  ASSUME NEW S, NEW f, f \in [S -> Nat], NEW t \in S, NEW g, g = [f EXCEPT ![t] = @ + 1]
  PROVE  g \in [S -> Nat] /\ g[t] = f[t] + 1 /\ \A u \in S : u # t => g[u] = f[u]
  OBVIOUS

LEMMA SendOkInv ==
  ASSUME PushInv, NEW r \in Runs, Push!SendOk(r)
  PROVE  PushInv'
  <1> DEFINE me == run[r]
             x == Push!Sending(r)
             u == me.when[x[1]]
             done == [me.results EXCEPT !.ok = @ \cup {x}]
             m == [me EXCEPT !.results = done]
  <1>1. /\ Push!CanSend(r)
        /\ UNCHANGED <<due, subs, fails, delivery, lease, cursor, faults, overlaps, outdated, unheard, dropped>>
        /\ run' = [run EXCEPT ![r].results.ok = @ \cup {x}]
        /\ delivered' = [delivered EXCEPT ![<<x, u>>] = @ + 1]
    BY DEF Push!SendOk, Push!d1, Push!kv, Push!Task
  <1>2. /\ me.at = "send" /\ me \in Push!Memory /\ Grounded(me, due, subs) /\ r \in Holders
        /\ x \in me.mine /\ x \in Push!Subscriptions
        /\ x \notin me.results.ok \cup me.results.failed \cup me.results.gone
        /\ u \in 1..MaxMoves
    BY <1>1, SendingFacts
  <1>3. me.results \in [ok : Push!Tasks, failed : Push!Tasks, gone : Push!Tasks]
    BY <1>2 DEF Push!Memory
  <1>4. run' = [run EXCEPT ![r] = m]
    BY <1>1
  <1> HIDE DEF x
  <1>5. /\ done \in [ok : Push!Tasks, failed : Push!Tasks, gone : Push!Tasks]
        /\ done.ok = me.results.ok \cup {x} /\ done.failed = me.results.failed
        /\ done.gone = me.results.gone
    BY <1>2, <1>3 DEF Push!Tasks
  <1> HIDE DEF done
  <1>6. done.ok \cup done.failed \subseteq me.mine /\ done.ok \cap done.failed = {}
    BY <1>2, <1>5 DEF Grounded
  <1>7. /\ m.at = "send" /\ m.ring = me.ring /\ m.map = me.map /\ m.when = me.when /\ m.known = me.known
        /\ m.todo = me.todo /\ m.mine = me.mine /\ m.left = me.left /\ m.results = done
        /\ m \in Push!Memory
    BY <1>2, <1>5 DEF Push!Memory
  <1> HIDE DEF m
  <1>8. Becomes(r, m)
    BY <1>1, <1>4, <1>6, <1>7, AnswerGrounded
  <1>9. /\ delivered' \in [Push!Subscriptions \X (1..MaxMoves) -> Nat]
        /\ delivered'[<<x, u>>] = delivered[<<x, u>>] + 1
        /\ \A t \in Push!Subscriptions \X (1..MaxMoves) : t # <<x, u>> => delivered'[t] = delivered[t]
    <2>1. /\ delivered \in [Push!Subscriptions \X (1..MaxMoves) -> Nat]
          /\ <<x, u>> \in Push!Subscriptions \X (1..MaxMoves)
      BY <1>2 DEF PushInv, Push!TypeOK
    <2> HIDE DEF u
    <2> QED
      BY <1>1, <2>1, CountedUp
  <1>10. ASSUME NEW s \in subs', NEW v \in 1..MaxMoves PROVE Accounted(s, v)'
    <2>1. s \in subs
      BY <1>1
    <2>2. CASE s = x /\ u = v
      <3>1. Spent(m, s, v) /\ ~Spent(me, s, v)
        BY <1>2, <1>5, <1>7, <2>2 DEF Spent
      <3>2. Armed(me, s, v)
        BY <1>2, <2>2 DEF Armed
      <3>3. ~Harmless(me, s, v)
        BY <1>2, <2>2 DEF Harmless
      <3>4. Holders' = Holders
        BY <1>1, <1>2, <1>7, <1>8, HoldersFacts DEF UnderLease
      <3>5. run'[r] = m /\ \A q \in Holders \ {r} : run'[q] = run[q]
        BY <1>1, <1>8, BecomesFacts DEF Holders
      <3>6. Unspent(s, v)' = Unspent(s, v) \ {r} /\ r \in Unspent(s, v)
        BY <1>2, <3>1, <3>4, <3>5 DEF Unspent
      <3>7. /\ overlaps \in Nat /\ outdated \in Nat
            /\ unheard[<<s, v>>] \in Nat /\ delivered[<<s, v>>] \in Nat
            /\ IsFiniteSet(Unspent(s, v)) /\ Cardinality(Unspent(s, v)) \in Nat
        BY <2>1, SlackTypes
      <3>8. Cardinality(Unspent(s, v)') = Cardinality(Unspent(s, v)) - 1
        BY <3>6, <3>7, FS_RemoveElement
      <3>9. Slack(s, v)' = Slack(s, v)
        <4>1. Slack(s, v)' = overlaps + outdated + unheard[<<s, v>>] + (IF Holders = {} THEN 0 ELSE 1)
                                - (delivered[<<s, v>>] + 1) - (Cardinality(Unspent(s, v)) - 1)
          BY <1>1, <1>9, <2>2, <3>4, <3>8 DEF Slack
        <4> QED
          BY <3>7, <4>1 DEF Slack
      <3>10. Kept(s, v) => Kept(s, v)'
        BY <1>1 DEF Kept
      <3>11. \A q \in Holders : Committed(run'[q], s, v) => Committed(run[q], s, v)
        BY <3>2, <3>5 DEF Committed
      <3>12. \A q \in Holders : Harmless(run[q], s, v) => Harmless(run'[q], s, v)
        BY <3>3, <3>5
      <3> QED
        BY <1>1, <2>1, <3>4, <3>9, <3>10, <3>11, <3>12, SteadyKeeps
    <2>3. CASE ~(s = x /\ u = v)
      <3>1. Spent(m, s, v) <=> Spent(me, s, v)
        BY <1>5, <1>7, <2>3 DEF Spent
      <3>2. Armed(m, s, v) => Armed(me, s, v)
        BY <1>2, <1>5, <1>7 DEF Armed
      <3>3. Harmless(me, s, v) => Harmless(m, s, v)
        BY <1>2, <1>7 DEF Harmless
      <3>4. <<s, v>> \in Push!Subscriptions \X (1..MaxMoves) /\ <<s, v>> # <<x, u>>
        BY <2>1, <2>3 DEF PushInv, Push!TypeOK
      <3>5. delivered'[<<s, v>>] = delivered[<<s, v>>]
        BY <1>9, <3>4
      <3> QED
        BY <1>1, <1>2, <1>7, <1>8, <3>1, <3>2, <3>3, <3>5, InsideKeeps DEF UnderLease, Committed
    <2> QED
      BY <2>2, <2>3
  <1> QED
    BY <1>1, <1>8, <1>9, <1>10, PushConcludes DEF PushInv, Push!TypeOK

LEMMA SendUnheardInv ==
  ASSUME PushInv, NEW r \in Runs, Push!SendUnheard(r)
  PROVE  PushInv'
  <1> DEFINE me == run[r]
             x == Push!Sending(r)
             u == me.when[x[1]]
             done == [me.results EXCEPT !.failed = @ \cup {x}]
             m == [me EXCEPT !.results = done]
  <1>1. /\ Push!CanSend(r)
        /\ UNCHANGED <<due, subs, fails, delivery, lease, cursor, overlaps, outdated, dropped>>
        /\ faults < MaxFaults /\ faults' = faults + 1
        /\ run' = [run EXCEPT ![r].results.failed = @ \cup {x}]
        /\ delivered' = [delivered EXCEPT ![<<x, u>>] = @ + 1]
        /\ unheard' = [unheard EXCEPT ![<<x, u>>] = @ + 1]
    BY DEF Push!SendUnheard, Push!d1, Push!kv, Push!Task
  <1>2. /\ me.at = "send" /\ me \in Push!Memory /\ Grounded(me, due, subs) /\ r \in Holders
        /\ x \in me.mine /\ x \in Push!Subscriptions
        /\ x \notin me.results.ok \cup me.results.failed \cup me.results.gone
        /\ u \in 1..MaxMoves
    BY <1>1, SendingFacts
  <1>3. me.results \in [ok : Push!Tasks, failed : Push!Tasks, gone : Push!Tasks]
    BY <1>2 DEF Push!Memory
  <1>4. run' = [run EXCEPT ![r] = m]
    BY <1>1
  <1> HIDE DEF x
  <1>5. /\ done \in [ok : Push!Tasks, failed : Push!Tasks, gone : Push!Tasks]
        /\ done.failed = me.results.failed \cup {x} /\ done.ok = me.results.ok
        /\ done.gone = me.results.gone
    BY <1>2, <1>3 DEF Push!Tasks
  <1> HIDE DEF done
  <1>6. done.ok \cup done.failed \subseteq me.mine /\ done.ok \cap done.failed = {}
    BY <1>2, <1>5 DEF Grounded
  <1>7. /\ m.at = "send" /\ m.ring = me.ring /\ m.map = me.map /\ m.when = me.when /\ m.known = me.known
        /\ m.todo = me.todo /\ m.mine = me.mine /\ m.left = me.left /\ m.results = done
        /\ m \in Push!Memory
    BY <1>2, <1>5 DEF Push!Memory
  <1> HIDE DEF m
  <1>8. Becomes(r, m)
    BY <1>1, <1>4, <1>6, <1>7, AnswerGrounded
  <1>9. /\ delivered' \in [Push!Subscriptions \X (1..MaxMoves) -> Nat]
        /\ unheard' \in [Push!Subscriptions \X (1..MaxMoves) -> Nat]
        /\ delivered'[<<x, u>>] = delivered[<<x, u>>] + 1
        /\ unheard'[<<x, u>>] = unheard[<<x, u>>] + 1
        /\ \A t \in Push!Subscriptions \X (1..MaxMoves) :
               t # <<x, u>> => delivered'[t] = delivered[t] /\ unheard'[t] = unheard[t]
    <2>1. /\ delivered \in [Push!Subscriptions \X (1..MaxMoves) -> Nat]
          /\ unheard \in [Push!Subscriptions \X (1..MaxMoves) -> Nat]
          /\ <<x, u>> \in Push!Subscriptions \X (1..MaxMoves)
      BY <1>2 DEF PushInv, Push!TypeOK
    <2> HIDE DEF u
    <2>2. /\ delivered' \in [Push!Subscriptions \X (1..MaxMoves) -> Nat]
          /\ delivered'[<<x, u>>] = delivered[<<x, u>>] + 1
          /\ \A t \in Push!Subscriptions \X (1..MaxMoves) : t # <<x, u>> => delivered'[t] = delivered[t]
      BY <1>1, <2>1, CountedUp
    <2>3. /\ unheard' \in [Push!Subscriptions \X (1..MaxMoves) -> Nat]
          /\ unheard'[<<x, u>>] = unheard[<<x, u>>] + 1
          /\ \A t \in Push!Subscriptions \X (1..MaxMoves) : t # <<x, u>> => unheard'[t] = unheard[t]
      BY <1>1, <2>1, CountedUp
    <2> QED
      BY <2>2, <2>3
  <1>10. ASSUME NEW s \in subs', NEW v \in 1..MaxMoves PROVE Accounted(s, v)'
    <2>1. s \in subs
      BY <1>1
    <2>2. /\ Spent(m, s, v) <=> Spent(run[r], s, v)
          /\ Committed(m, s, v) => Committed(run[r], s, v)
          /\ Harmless(run[r], s, v) => Harmless(m, s, v)
      <3>1. /\ m.results.ok = me.results.ok /\ me.results.failed \subseteq m.results.failed
            /\ me.results.gone \subseteq m.results.gone
        BY <1>5, <1>7
      <3> QED
        BY <1>1, <1>7, <1>8, <2>1, <3>1, RefusedKeeps
    <2>3. Holders' = Holders
      <3>1. m.at \in UnderLease /\ due' = due /\ subs' \subseteq subs
        BY <1>1, <1>7 DEF UnderLease
      <3>2. Holders' = Holders \cup {r}
        BY <1>8, <3>1, HoldersFacts
      <3> QED
        BY <1>2, <3>2
    <2>4. run'[r] = m /\ \A q \in Holders \ {r} : run'[q] = run[q]
      BY <1>1, <1>8, BecomesFacts DEF Holders
    <2>5. Unspent(s, v)' = Unspent(s, v)
      BY <2>2, <2>3, <2>4 DEF Unspent
    <2>6. /\ overlaps \in Nat /\ outdated \in Nat
          /\ unheard[<<s, v>>] \in Nat /\ delivered[<<s, v>>] \in Nat
          /\ Cardinality(Unspent(s, v)) \in Nat
      BY <2>1, SlackTypes
    <2>7. unheard'[<<s, v>>] - delivered'[<<s, v>>] = unheard[<<s, v>>] - delivered[<<s, v>>]
          /\ unheard'[<<s, v>>] \in Nat /\ delivered'[<<s, v>>] \in Nat
      <3>1. <<s, v>> \in Push!Subscriptions \X (1..MaxMoves)
        BY <2>1 DEF PushInv, Push!TypeOK
      <3>2. CASE <<s, v>> = <<x, u>>
        <4>1. unheard'[<<s, v>>] = unheard[<<s, v>>] + 1 /\ delivered'[<<s, v>>] = delivered[<<s, v>>] + 1
          BY <1>9, <3>2
        <4> QED
          BY <2>6, <4>1
      <3>3. CASE <<s, v>> # <<x, u>>
        BY <1>9, <2>6, <3>1, <3>3
      <3> QED
        BY <3>2, <3>3
    <2>8. Slack(s, v)' = Slack(s, v)
      <3>1. Slack(s, v)' = overlaps + outdated + unheard'[<<s, v>>] + (IF Holders = {} THEN 0 ELSE 1)
                              - delivered'[<<s, v>>] - Cardinality(Unspent(s, v))
        BY <1>1, <2>3, <2>5 DEF Slack
      <3>2. Slack(s, v) = overlaps + outdated + unheard[<<s, v>>] + (IF Holders = {} THEN 0 ELSE 1)
                              - delivered[<<s, v>>] - Cardinality(Unspent(s, v))
        BY DEF Slack
      <3> HIDE DEF Slack
      <3> QED
        BY <2>6, <2>7, <3>1, <3>2
    <2>9. Kept(s, v) => Kept(s, v)'
      BY <1>1 DEF Kept
    <2>10. \A q \in Holders : /\ Committed(run'[q], s, v) => Committed(run[q], s, v)
                              /\ Harmless(run[q], s, v) => Harmless(run'[q], s, v)
      BY <2>2, <2>4
    <2> QED
      BY <1>1, <2>1, <2>3, <2>8, <2>9, <2>10, SteadyKeeps
  <1>11. faults' \in 0..MaxFaults /\ overlaps' <= faults'
    BY <1>1, FaultTypes DEF PushInv, Push!TypeOK
  <1> QED
    BY <1>1, <1>8, <1>9, <1>10, <1>11, PushConcludes DEF PushInv, Push!TypeOK

LEMMA EndSendingInv ==
  ASSUME PushInv, NEW r \in Runs, Push!EndSending(r)
  PROVE  PushInv'
  <1> DEFINE me == run[r]
             m == [me EXCEPT !.at = "retry", !.left = Push!OwnersOf(me.results.failed)]
  <1>1. /\ UNCHANGED <<due, subs, fails, delivery, lease, cursor, faults, overlaps, outdated, delivered,
                       unheard, dropped>>
        /\ me.at = "send" /\ run' = [run EXCEPT ![r] = m]
    BY DEF Push!EndSending, Push!d1, Push!kv, Push!history
  <1>2. me \in Push!Memory /\ Grounded(me, due, subs) /\ r \in Holders
    BY <1>1, RunFacts DEF UnderLease
  <1>3. /\ Push!OwnersOf(me.results.failed) \subseteq Push!OwnersOf(me.mine)
        /\ Push!OwnersOf(me.results.failed) \subseteq Workspaces
    <2>1. me.results.failed \subseteq me.mine /\ me.mine \subseteq Push!Subscriptions
      BY <1>2 DEF Grounded, Push!Memory, Push!Tasks
    <2>2. \A t \in me.mine : t[1] \in Workspaces
      BY <2>1 DEF Push!Subscriptions
    <2> QED
      BY <2>1, <2>2 DEF Push!OwnersOf
  <1>4. /\ m.at = "retry" /\ m.ring = me.ring /\ m.map = me.map /\ m.when = me.when /\ m.known = me.known
        /\ m.todo = me.todo /\ m.mine = me.mine /\ m.left = Push!OwnersOf(me.results.failed)
        /\ m.results = me.results /\ m \in Push!Memory
    BY <1>2, <1>3 DEF Push!Memory, Push!Steps
  <1> HIDE DEF m
  <1>5. Grounded(m, due', subs')
    BY <1>1, <1>2, <1>3, <1>4 DEF Grounded
  <1>6. Becomes(r, m)
    BY <1>1, <1>4, <1>5 DEF Becomes
  <1>7. ASSUME NEW s \in subs', NEW v \in 1..MaxMoves
        PROVE  /\ Spent(m, s, v) <=> Spent(run[r], s, v)
               /\ Committed(m, s, v) => Committed(run[r], s, v)
               /\ Harmless(run[r], s, v) => Harmless(m, s, v)
    <2>1. Spent(m, s, v) <=> Spent(me, s, v)
      BY <1>4 DEF Spent
    <2>2. ~Armed(m, s, v)
      BY <1>4 DEF Armed
    <2>3. Harmless(me, s, v) => Harmless(m, s, v)
      BY <1>1, <1>4 DEF Harmless
    <2> QED
      BY <2>1, <2>2, <2>3 DEF Committed
  <1>8. \A s \in subs', v \in 1..MaxMoves : Accounted(s, v)'
    BY <1>1, <1>2, <1>4, <1>6, <1>7, InsideKeeps DEF UnderLease
  <1> QED
    BY <1>1, <1>6, <1>8, PushConcludes DEF PushInv, Push!TypeOK

\* A device that failed leaves the record; the record keeps every other one that the run sent to.
LEMMA BackKeeps ==
  ASSUME PushInv, NEW r \in Holders, run[r].at = "retry", NEW m, Becomes(r, m), m.at = "retry",
         m.results = run[r].results, m.when = run[r].when, m.mine = run[r].mine, m.map = run[r].map,
         NEW w \in run[r].left,
         \A x \in Workspaces \ {w} : delivery'[x] = delivery[x],
         delivery'[w].when = run[r].map[w].when,
         \A d \in run[r].map[w].have : <<w, d>> \notin run[r].results.failed => d \in delivery'[w].have,
         outdated' = outdated,
         due' = due, subs' = subs, overlaps' = overlaps, delivered' = delivered, unheard' = unheard,
         NEW s \in subs, NEW v \in 1..MaxMoves
  PROVE  Accounted(s, v)'
  <1>1. /\ Holders' = Holders /\ run'[r] = m /\ \A q \in Holders \ {r} : run'[q] = run[q]
        /\ Slack(s, v)' = Slack(s, v)
    <2>1. outdated \in Nat /\ Slack(s, v) \in Int
      BY SlackTypes
    <2>2. outdated' = outdated + 0 /\ m.at \in UnderLease /\ subs' \subseteq subs
      BY <2>1 DEF UnderLease
    <2>3. 0 \in {0, 1}
      OBVIOUS
    <2>4. /\ Holders' = Holders /\ run'[r] = m /\ \A q \in Holders \ {r} : run'[q] = run[q]
          /\ Slack(s, v)' = Slack(s, v) + 0
      BY <2>2, <2>3, PutSlack
    <2> QED
      BY <2>1, <2>4
  <1>2. Accounted(s, v)
    BY DEF PushInv
  <1>3. /\ s[1] \in Workspaces /\ s = <<s[1], s[2]>> /\ s[2] \in Devices
    <2>1. s \in Subscriptions
      BY SlackTypes
    <2> QED
      BY <2>1 DEF Subscriptions
  <1>4. Grounded(run[r], due, subs)
    BY RunFacts DEF Holders, UnderLease
  <1> HIDE DEF Slack
  <1>5. Committed(m, s, v) <=> Committed(run[r], s, v)
    BY DEF Committed, Spent, Armed
  <1>6. Harmless(run[r], s, v) => Harmless(m, s, v)
    BY DEF Harmless
  <1>7. \A q \in Holders : /\ Committed(run'[q], s, v) <=> Committed(run[q], s, v)
                           /\ Harmless(run[q], s, v) => Harmless(run'[q], s, v)
    BY <1>1, <1>5, <1>6
  <1>8. CASE s[1] # w
    <2>1. Kept(s, v) => Kept(s, v)'
      BY <1>3, <1>8 DEF Kept
    <2> QED
      BY <1>1, <1>7, <2>1, SteadyKeeps
  <1>9. CASE s[1] = w
    <2>1. Slack(s, v) = 0 => Kept(s, v)' \/ ~Committed(m, s, v)
      <3>1. SUFFICES ASSUME Spent(run[r], s, v) PROVE Kept(s, v)'
        BY <1>5 DEF Committed, Armed
      <3>2. s \in run[r].mine /\ s \notin run[r].results.failed /\ run[r].when[w] = v
        BY <1>4, <1>9, <3>1 DEF Grounded, Spent
      <3>3. run[r].map[w].when = v /\ s[2] \in run[r].map[w].have
        BY <1>4, <1>9, <3>2 DEF Grounded
      <3> QED
        BY <1>3, <1>9, <3>2, <3>3 DEF Kept
    <2>2. ASSUME v = due[s[1]], Slack(s, v) = -1 PROVE Kept(s, v)'
      <3>1. Harmless(run[r], s, v)
        BY <1>2, <2>2 DEF Accounted
      <3>2. w \in Push!OwnersOf(run[r].mine)
        BY <1>4 DEF Grounded
      <3>3. /\ s \notin run[r].mine /\ run[r].map[w].when = v /\ s[2] \in run[r].map[w].have
        BY <1>9, <3>1, <3>2 DEF Harmless
      <3>4. s \notin run[r].results.failed
        BY <1>4, <3>3 DEF Grounded
      <3> QED
        BY <1>3, <1>9, <3>3, <3>4 DEF Kept
    <2> QED
      BY <1>1, <1>2, <1>7, <2>1, <2>2 DEF Accounted
  <1> QED
    BY <1>8, <1>9

\* What a run remembers of a workspace whose failures it has taken back, or could not.
LEMMA RetriedFacts ==
  ASSUME PushInv, NEW r \in Runs, run[r].at = "retry", NEW w, due' = due, subs' = subs,
         \/ run' = [run EXCEPT ![r].left = @ \ {w}]
         \/ run' = [run EXCEPT ![r].left = @ \ {w}, ![r].broken = TRUE]
  PROVE  \E m : /\ Becomes(r, m) /\ m.at = "retry" /\ m.when = run[r].when /\ m.map = run[r].map
                /\ m.mine = run[r].mine /\ m.results = run[r].results
  <1> DEFINE me == run[r]
             one == [me EXCEPT !.left = me.left \ {w}]
             two == [me EXCEPT !.left = me.left \ {w}, !.broken = TRUE]
  <1>1. me \in Push!Memory /\ Grounded(me, due, subs)
    BY RunFacts
  <1>2. /\ one.at = "retry" /\ one.ring = me.ring /\ one.map = me.map /\ one.when = me.when
        /\ one.known = me.known /\ one.todo = me.todo /\ one.mine = me.mine
        /\ one.left = me.left \ {w} /\ one.results = me.results
        /\ one \in Push!Memory
    BY <1>1 DEF Push!Memory
  <1>3. /\ two.at = "retry" /\ two.ring = me.ring /\ two.map = me.map /\ two.when = me.when
        /\ two.known = me.known /\ two.todo = me.todo /\ two.mine = me.mine
        /\ two.left = me.left \ {w} /\ two.results = me.results
        /\ two \in Push!Memory
    BY <1>1 DEF Push!Memory
  <1>4. run' = [run EXCEPT ![r] = one] \/ run' = [run EXCEPT ![r] = two]
    BY DEF PushInv, Push!TypeOK
  <1> HIDE DEF one, two
  <1>5. Grounded(one, due', subs') /\ Grounded(two, due', subs')
    BY <1>1, <1>2, <1>3 DEF Grounded
  <1>6. CASE run' = [run EXCEPT ![r] = one]
    BY <1>2, <1>5, <1>6 DEF Becomes
  <1>7. CASE run' = [run EXCEPT ![r] = two]
    BY <1>3, <1>5, <1>7 DEF Becomes
  <1> QED
    BY <1>4, <1>6, <1>7

LEMMA RetryFailedInv ==
  ASSUME PushInv, NEW r \in Runs, Push!RetryFailed(r)
  PROVE  PushInv'
  <1> DEFINE me == run[r]
             w == Push!NextOwner(r)
             failed == {d \in Devices : <<w, d>> \in me.results.failed}
  <1>1. /\ UNCHANGED <<due, subs, fails, lease, cursor, delivered, overlaps, outdated, unheard>>
        /\ me.at = "retry"
    BY DEF Push!RetryFailed, Push!d1
  <1>2. /\ fails' \in [Push!Subscriptions -> Nat] /\ lease' \in Runs \cup {None}
        /\ cursor' \in Workspaces \cup {0} /\ overlaps' \in 0..MaxFaults /\ outdated' \in Nat
        /\ delivered' \in [Push!Subscriptions \X (1..MaxMoves) -> Nat]
        /\ unheard' \in [Push!Subscriptions \X (1..MaxMoves) -> Nat]
    BY <1>1 DEF PushInv, Push!TypeOK
  <1>3. me \in Push!Memory /\ Grounded(me, due, subs) /\ r \in Holders
    BY <1>1, RunFacts DEF UnderLease
  <1>4. CASE me.left = {}
    <2>1. Push!Move(r, "apply") /\ UNCHANGED <<delivery, faults, dropped>>
      BY <1>4 DEF Push!RetryFailed
    <2>2. dropped' \subseteq Push!Subscriptions \X Push!Dates
      BY <2>1 DEF PushInv, Push!TypeOK
    <2>3. "apply" \in Push!Steps
      BY DEF Push!Steps
    <2>4. "apply" \in UnderLease \ {"refresh", "record"} /\ me.at \in UnderLease \ {"refresh"}
      BY <1>1 DEF UnderLease
    <2> QED
      BY <1>1, <1>2, <2>1, <2>2, <2>3, <2>4, FaultTypes, MovesKeep
  <1>5. CASE me.left # {}
    <2>1. \/ /\ delivery' = [delivery EXCEPT ![w] = [me.map[w] EXCEPT !.have = @ \ failed]]
             /\ run' = [run EXCEPT ![r].left = @ \ {w}]
             /\ UNCHANGED <<faults, dropped>>
          \/ /\ run' = [run EXCEPT ![r].left = @ \ {w}, ![r].broken = TRUE]
             /\ faults < MaxFaults /\ faults' = faults + 1
             /\ dropped' = dropped \cup {<<<<w, d>>, me.when[w]>> : d \in failed}
             /\ UNCHANGED delivery
      BY <1>5 DEF Push!RetryFailed
    <2>2. w \in me.left /\ w \in Workspaces
      BY <1>1, <1>5, OwnerFacts
    <2> HIDE DEF w
    <2>3. PICK m : /\ Becomes(r, m) /\ m.at = "retry" /\ m.when = me.when /\ m.map = me.map
                   /\ m.mine = me.mine /\ m.results = me.results
      <3>1. due' = due /\ subs' = subs
        BY <1>1
      <3> HIDE DEF failed
      <3> QED
        BY <1>1, <2>1, <3>1, RetriedFacts
    <2>4. CASE faults' = faults
      <3> DEFINE back == [me.map[w] EXCEPT !.have = @ \ failed]
      <3>1. delivery' = [delivery EXCEPT ![w] = back] /\ dropped' = dropped
        <4>1. faults # faults + 1
          BY FaultTypes
        <4> QED
          BY <2>1, <2>4, <4>1
      <3>2. me.map[w] \in [when : Push!Dates, have : SUBSET Devices] /\ delivery \in Push!Records
        BY <1>3, <2>2 DEF Push!Memory, Push!Records, PushInv, Push!TypeOK
      <3>3. /\ back \in [when : Push!Dates, have : SUBSET Devices]
            /\ back.when = me.map[w].when /\ back.have = me.map[w].have \ failed
        BY <3>2
      <3> HIDE DEF back
      <3>4. delivery'[w] = back /\ \A x \in Workspaces \ {w} : delivery'[x] = delivery[x]
        BY <2>2, <3>1, <3>2 DEF Push!Records
      <3>5. delivery' \in Push!Records
        BY <3>1, <3>2, <3>3 DEF Push!Records
      <3>6. \A d \in me.map[w].have : <<w, d>> \notin me.results.failed => d \in delivery'[w].have
        BY <3>3, <3>4
      <3>7. delivery'[w].when = me.map[w].when
        BY <3>3, <3>4
      <3>8. ASSUME NEW s \in subs', NEW v \in 1..MaxMoves PROVE Accounted(s, v)'
        <4>1. /\ due' = due /\ subs' = subs /\ overlaps' = overlaps /\ outdated' = outdated
              /\ delivered' = delivered /\ unheard' = unheard /\ s \in subs
          BY <1>1
        <4> QED
          BY <1>1, <1>3, <2>2, <2>3, <3>4, <3>6, <3>7, <4>1, BackKeeps
      <3>9. dropped' \subseteq Push!Subscriptions \X Push!Dates /\ faults' \in 0..MaxFaults /\ overlaps' <= faults'
        BY <1>1, <2>4, <3>1 DEF PushInv, Push!TypeOK
      <3> QED
        BY <1>1, <1>2, <2>3, <3>5, <3>8, <3>9, PushConcludes
    <2>5. CASE faults' # faults
      <3>1. /\ faults < MaxFaults /\ faults' = faults + 1 /\ delivery' = delivery
            /\ dropped' = dropped \cup {<<<<w, d>>, me.when[w]>> : d \in failed}
        BY <2>1, <2>5
      <3>2. me.when[w] \in Push!Dates
        <4>1. me.when[w] \in 1..MaxMoves
          BY <1>3, <2>2 DEF Push!Memory
        <4> QED
          BY <4>1, PushAssumption DEF Push!Dates
      <3>3. dropped' \subseteq Push!Subscriptions \X Push!Dates
        <4>1. \A d \in failed : <<<<w, d>>, me.when[w]>> \in Push!Subscriptions \X Push!Dates
          BY <2>2, <3>2 DEF Push!Subscriptions
        <4>2. dropped \subseteq Push!Subscriptions \X Push!Dates
          BY DEF PushInv, Push!TypeOK
        <4> QED
          BY <3>1, <4>1, <4>2
      <3>4. ASSUME NEW s \in subs', NEW v \in 1..MaxMoves
            PROVE  /\ Spent(m, s, v) <=> Spent(run[r], s, v)
                   /\ Committed(m, s, v) => Committed(run[r], s, v)
                   /\ Harmless(run[r], s, v) => Harmless(m, s, v)
        BY <1>1, <2>3 DEF Committed, Spent, Armed, Harmless
      <3>5. \A s \in subs', v \in 1..MaxMoves : Accounted(s, v)'
        BY <1>1, <1>3, <2>3, <3>1, <3>4, InsideKeeps DEF UnderLease
      <3>6. faults' \in 0..MaxFaults /\ overlaps' <= faults' /\ delivery' \in Push!Records
        BY <1>1, <3>1, FaultTypes DEF PushInv, Push!TypeOK
      <3> QED
        BY <1>1, <1>2, <2>3, <3>3, <3>5, <3>6, PushConcludes
    <2> QED
      BY <2>4, <2>5
  <1> QED
    BY <1>4, <1>5

LEMMA ApplyInv ==
  ASSUME PushInv, NEW r \in Runs, Push!Apply(r)
  PROVE  PushInv'
  <1> USE PushAssumption
  <1> DEFINE me == run[r]
             lost == me.results.gone \cup (me.results.failed \cap me.failing)
  <1>1. /\ UNCHANGED <<due, delivery, lease, cursor, faults, delivered, overlaps, outdated, unheard, dropped>>
        /\ me.at = "apply" /\ Push!Move(r, "move")
        /\ subs' = subs \ lost
        /\ fails' = [s \in Push!Subscriptions |-> IF s \in me.results.ok \cup lost THEN 0
                                                  ELSE IF s \in me.results.failed \cap subs THEN fails[s] + 1 ELSE fails[s]]
    BY DEF Push!Apply, Push!kv, Push!history
  <1>2. fails \in [Push!Subscriptions -> Nat]
    BY DEF PushInv, Push!TypeOK
  <1>3. ASSUME NEW s \in Push!Subscriptions
        PROVE  (IF s \in me.results.ok \cup lost THEN 0
                ELSE IF s \in me.results.failed \cap subs THEN fails[s] + 1 ELSE fails[s]) \in Nat
    BY <1>2
  <1>4. fails' \in [Push!Subscriptions -> Nat]
    <2> HIDE DEF lost
    <2> QED
      BY <1>1, <1>3
  <1>5. /\ lease' \in Runs \cup {None} /\ cursor' \in Workspaces \cup {0}
        /\ dropped' \subseteq Push!Subscriptions \X Push!Dates
    BY <1>1 DEF PushInv, Push!TypeOK
  <1>6. "move" \in Push!Steps
    BY DEF Push!Steps
  <1>7. "move" \in UnderLease \ {"refresh", "record"} /\ me.at \in UnderLease \ {"refresh"}
    BY <1>1 DEF UnderLease
  <1>8. subs' \subseteq subs
    BY <1>1
  <1> HIDE DEF lost
  <1> QED
    BY <1>1, <1>4, <1>5, <1>6, <1>7, <1>8, FaultTypes, MovesKeep

\* The place a run leaves the ring at is one of the ring, or where it entered it.
LEMMA NextCursorFacts ==
  ASSUME PushInv, NEW r \in Runs, run[r].at # "idle"
  PROVE  Push!NextCursor(r) \in Workspaces \cup {0}
  <1> DEFINE me == run[r]
             ring == me.ring
             kept == Len(Push!Reserved(me.todo))
             stopped == me.todo[kept + 1][1]
             at == CHOOSE i \in DOMAIN ring : ring[i] = stopped
  <1>1. me \in Push!Memory /\ Grounded(me, due, subs)
    BY RunFacts
  <1>2. /\ ring \in Seq(Workspaces) /\ ring # <<>> /\ me.todo \in Seq(Push!Subscriptions)
        /\ me.from \in Workspaces \cup {0}
        /\ \A t \in Push!ToSet(me.todo) : t[1] \in Push!ToSet(ring)
    BY <1>1 DEF Push!Memory, Grounded
  <1>3. /\ Len(ring) \in Nat /\ Len(ring) > 0 /\ DOMAIN ring = 1..Len(ring)
        /\ Len(me.todo) \in Nat /\ DOMAIN me.todo = 1..Len(me.todo)
    BY <1>2, EmptySeq
  <1>4. kept \in Nat /\ kept <= Len(me.todo)
    BY <1>2, ReservedFacts
  <1>5. Push!Last(ring) \in Workspaces
    BY <1>2, <1>3 DEF Push!Last
  <1> HIDE DEF ring, kept
  <1>6. CASE kept = Len(me.todo)
    BY <1>5, <1>6 DEF Push!NextCursor, ring, kept
  <1>7. CASE kept # Len(me.todo)
    <2>1. kept + 1 \in 1..Len(me.todo)
      BY <1>3, <1>4, <1>7
    <2>2. stopped \in Push!ToSet(ring)
      BY <1>2, <1>3, <2>1 DEF Push!ToSet
    <2> HIDE DEF stopped
    <2>3. at \in DOMAIN ring
      BY <2>2 DEF Push!ToSet
    <2>4. at > 1 => ring[at - 1] \in Workspaces
      <3>1. at > 1 => at - 1 \in 1..Len(ring)
        BY <1>3, <2>3
      <3> HIDE DEF at
      <3> QED
        BY <1>2, <3>1
    <2>5. Push!NextCursor(r) = IF at > 1 THEN ring[at - 1] ELSE me.from
      BY <1>7 DEF Push!NextCursor, ring, kept, stopped
    <2> HIDE DEF at
    <2> QED
      BY <1>2, <2>4, <2>5
  <1> QED
    BY <1>6, <1>7

LEMMA MoveCursorInv ==
  ASSUME PushInv, NEW r \in Runs, Push!MoveCursor(r)
  PROVE  PushInv'
  <1>1. /\ UNCHANGED <<due, subs, fails, delivery, lease, delivered, overlaps, outdated, unheard, dropped>>
        /\ run[r].at = "move" /\ Push!Move(r, "release")
        /\ \/ UNCHANGED <<cursor, faults>>
           \/ cursor' = Push!NextCursor(r) /\ faults' = faults
           \/ faults < MaxFaults /\ faults' = faults + 1 /\ cursor' = cursor
    BY DEF Push!MoveCursor, Push!d1, Push!history
  <1>2. /\ fails' \in [Push!Subscriptions -> Nat] /\ lease' \in Runs \cup {None}
        /\ dropped' \subseteq Push!Subscriptions \X Push!Dates
    BY <1>1 DEF PushInv, Push!TypeOK
  <1>3. cursor' \in Workspaces \cup {0}
    BY <1>1, NextCursorFacts DEF PushInv, Push!TypeOK
  <1>4. faults' \in 0..MaxFaults /\ faults <= faults'
    BY <1>1, FaultTypes
  <1>5. "release" \in Push!Steps
    BY DEF Push!Steps
  <1>6. "release" \in UnderLease \ {"refresh", "record"} /\ run[r].at \in UnderLease \ {"refresh"}
    BY <1>1 DEF UnderLease
  <1> QED
    BY <1>1, <1>2, <1>3, <1>4, <1>5, <1>6, MovesKeep

LEMMA ReleaseInv ==
  ASSUME PushInv, NEW r \in Runs, Push!Release(r)
  PROVE  PushInv'
  <1>1. /\ UNCHANGED <<due, subs, fails, delivery, lease, cursor, faults, delivered, overlaps, outdated,
                       unheard, dropped>>
        /\ run[r].at = "release"
        /\ Push!Move(r, "drop") \/ run' = [run EXCEPT ![r] = Push!Idle]
    BY DEF Push!Release, Push!d1, Push!kv, Push!history
  <1>2. /\ fails' \in [Push!Subscriptions -> Nat] /\ lease' \in Runs \cup {None}
        /\ cursor' \in Workspaces \cup {0} /\ dropped' \subseteq Push!Subscriptions \X Push!Dates
        /\ faults' \in 0..MaxFaults /\ faults <= faults'
    BY <1>1, FaultTypes DEF PushInv, Push!TypeOK
  <1>3. CASE Push!Move(r, "drop")
    <2>1. "drop" \in Push!Steps
      BY DEF Push!Steps
    <2>2. "drop" \in UnderLease \ {"refresh", "record"} /\ run[r].at \in UnderLease \ {"refresh"}
      BY <1>1 DEF UnderLease
    <2> QED
      BY <1>1, <1>2, <1>3, <2>1, <2>2, MovesKeep
  <1>4. CASE run' = [run EXCEPT ![r] = Push!Idle]
    BY <1>1, <1>2, <1>4, IdleKeeps
  <1> QED
    BY <1>1, <1>3, <1>4

LEMMA DropLeaseInv ==
  ASSUME PushInv, NEW r \in Runs, Push!DropLease(r)
  PROVE  PushInv'
  <1>1. /\ UNCHANGED <<due, subs, fails, delivery, cursor, faults, delivered, overlaps, outdated, unheard, dropped>>
        /\ lease' = None /\ run' = [run EXCEPT ![r] = Push!Idle]
    BY DEF Push!DropLease, Push!d1, Push!history
  <1>2. /\ lease' \in Runs \cup {None} /\ dropped' \subseteq Push!Subscriptions \X Push!Dates
        /\ faults' \in 0..MaxFaults /\ faults <= faults'
    BY <1>1, FaultTypes DEF PushInv, Push!TypeOK
  <1> QED
    BY <1>1, <1>2, IdleKeeps

LEMMA PushKillInv ==
  ASSUME PushInv, NEW r \in Runs, Push!Kill(r)
  PROVE  PushInv'
  <1>1. /\ UNCHANGED <<due, subs, fails, delivery, lease, cursor, delivered, overlaps, outdated, unheard>>
        /\ run[r].at # "idle" /\ run' = [run EXCEPT ![r] = Push!Idle]
        /\ faults < MaxFaults /\ faults' = faults + 1
        /\ dropped' = dropped \cup {<<t, run[r].when[t[1]]>> : t \in run[r].mine}
    BY DEF Push!Kill, Push!d1, Push!kv
  <1>2. run[r] \in Push!Memory
    BY <1>1, RunFacts
  <1>3. \A t \in run[r].mine : <<t, run[r].when[t[1]]>> \in Push!Subscriptions \X Push!Dates
    <2>1. run[r].mine \subseteq Push!Subscriptions /\ run[r].when \in [Workspaces -> 1..MaxMoves]
      BY <1>2 DEF Push!Memory, Push!Tasks
    <2>2. 1..MaxMoves \subseteq Push!Dates
      BY PushAssumption DEF Push!Dates
    <2>3. \A t \in Push!Subscriptions : t[1] \in Workspaces
      BY DEF Push!Subscriptions
    <2>4. \A w \in Workspaces : run[r].when[w] \in Push!Dates
      BY <2>1, <2>2
    <2> QED
      BY <2>1, <2>3, <2>4
  <1>4. dropped' \subseteq Push!Subscriptions \X Push!Dates
    <2>1. dropped \subseteq Push!Subscriptions \X Push!Dates
      BY DEF PushInv, Push!TypeOK
    <2> QED
      BY <1>1, <1>3, <2>1
  <1>5. lease' \in Runs \cup {None} /\ faults' \in 0..MaxFaults /\ faults <= faults'
    BY <1>1, FaultTypes DEF PushInv, Push!TypeOK
  <1> QED
    BY <1>1, <1>4, <1>5, IdleKeeps

\* A lease that ends while its run goes on, and a date that moves.
LEMMA PushOutsideInv ==
  ASSUME PushInv, Push!Lapse \/ \E w \in Workspaces : Push!Reschedule(w)
  PROVE  PushInv'
  <1> USE PushAssumption
  <1>1. UNCHANGED <<subs, fails, delivery, cursor, run, faults, delivered, overlaps, outdated, unheard, dropped>>
    BY DEF Push!Lapse, Push!Reschedule, Push!d1, Push!kv, Push!history
  <1>2. /\ lease' \in Runs \cup {None}
        /\ due' \in [Workspaces -> 1..MaxMoves]
        /\ \A w \in Workspaces : due[w] \in Nat /\ due'[w] \in Nat /\ due[w] <= due'[w]
    <2>1. due \in [Workspaces -> 1..MaxMoves] /\ lease \in Runs \cup {None}
      BY DEF PushInv, Push!TypeOK
    <2>2. ASSUME Push!Lapse PROVE due' = due /\ lease' = None
      BY <2>2 DEF Push!Lapse, Push!d1
    <2>3. ASSUME NEW w \in Workspaces, Push!Reschedule(w)
          PROVE  /\ lease' = lease /\ due' \in [Workspaces -> 1..MaxMoves]
                 /\ \A x \in Workspaces : due'[x] = due[x] \/ due'[x] = due[x] + 1
      <3>1. due[w] < MaxMoves /\ due' = [due EXCEPT ![w] = @ + 1] /\ lease' = lease
        BY <2>3 DEF Push!Reschedule, Push!kv
      <3> QED
        BY <2>1, <3>1
    <2>4. due' \in [Workspaces -> 1..MaxMoves] /\ lease' \in Runs \cup {None}
      BY <2>1, <2>2, <2>3
    <2>5. ASSUME NEW w \in Workspaces PROVE due[w] \in Nat /\ due'[w] \in Nat /\ due[w] <= due'[w]
      <3>1. due[w] \in 1..MaxMoves /\ due'[w] \in 1..MaxMoves
        BY <2>1, <2>4
      <3>2. due'[w] = due[w] \/ due'[w] = due[w] + 1
        BY <2>2, <2>3
      <3> QED
        BY <3>1, <3>2
    <2> QED
      BY <2>4, <2>5
  <1>3. Push!TypeOK' /\ overlaps' <= faults'
    BY <1>1, <1>2 DEF PushInv, Push!TypeOK
  <1>4. Holders' = Holders /\ IsFiniteSet(Holders')
    <2>1. Holders' = Holders
      BY <1>1 DEF Holders
    <2> QED
      BY <2>1 DEF PushInv
  <1>5. ASSUME NEW r \in Runs, run'[r] # Push!Idle PROVE Grounded(run'[r], due', subs')
    <2>1. run[r] \in Push!Memory /\ Grounded(run[r], due, subs) /\ run'[r] = run[r]
      BY <1>1, <1>5 DEF PushInv, Push!TypeOK
    <2>2. run[r].when \in [Workspaces -> 1..MaxMoves]
      BY <2>1 DEF Push!Memory
    <2>3. ASSUME NEW w \in Workspaces PROVE run[r].when[w] <= due'[w]
      <3>1. run[r].when[w] <= due[w] /\ run[r].when[w] \in Nat
        BY <2>1, <2>2 DEF Grounded
      <3>2. due[w] \in Nat /\ due'[w] \in Nat /\ due[w] <= due'[w]
        BY <1>2
      <3> QED
        BY <3>1, <3>2
    <2> QED
      BY <1>1, <2>1, <2>3 DEF Grounded
  <1>6. ASSUME NEW s \in subs', NEW v \in 1..MaxMoves PROVE Accounted(s, v)'
    <2>1. s \in subs /\ Accounted(s, v)
      BY <1>1 DEF PushInv
    <2>2. /\ s[1] \in Workspaces /\ v \in Nat /\ due[s[1]] \in Nat
      BY <2>1, SlackTypes
    <2>3. Slack(s, v)' = Slack(s, v)
      BY <1>1, <1>4, <2>1, SlackSame
    <2>4. Kept(s, v)' = Kept(s, v)
      BY <1>1 DEF Kept
    <2>5. \A q \in Holders : run'[q] = run[q]
      BY <1>1
    <2>6. /\ v <= due[s[1]] => v <= due'[s[1]] /\ (v = due'[s[1]] => v = due[s[1]])
          /\ v < due[s[1]] => v < due'[s[1]]
      <3>1. due[s[1]] \in Nat /\ due'[s[1]] \in Nat /\ due[s[1]] <= due'[s[1]]
        BY <1>2, <2>2
      <3> QED
        BY <2>2, <3>1
    <2> HIDE DEF Slack
    <2> QED
      BY <1>4, <2>1, <2>3, <2>4, <2>5, <2>6 DEF Accounted
  <1>7. IsFiniteSet(Holders)'
    BY <1>4
  <1> QED
    BY <1>3, <1>5, <1>6, <1>7 DEF PushInv

LEMMA PushNext == PushInv /\ [Push!Next]_Push!vars => PushInv'
  <1> SUFFICES ASSUME PushInv, [Push!Next]_Push!vars PROVE PushInv'
    OBVIOUS
  <1>1. ASSUME NEW r \in Runs, Push!Step(r) PROVE PushInv'
    BY <1>1, PrepareInv, ReadLeaseInv, PutLeaseInv, CheckLeaseInv, RefreshInv, RecordAheadInv, SendOkInv,
       SendFailsInv, SendUnheardInv, EndSendingInv, RetryFailedInv, ApplyInv, MoveCursorInv, ReleaseInv,
       DropLeaseInv DEF Push!Step
  <1>2. CASE UNCHANGED Push!vars
    <2>1. UNCHANGED <<due, subs, fails, delivery, lease, cursor, run, faults, delivered, overlaps, outdated,
                      unheard, dropped>>
      BY <1>2 DEF Push!vars, Push!d1, Push!kv, Push!history
    <2>2. Push!TypeOK' /\ Holders' = Holders /\ overlaps' <= faults'
      BY <2>1 DEF PushInv, Push!TypeOK, Holders
    <2>3. ASSUME NEW s \in subs, NEW v \in 1..MaxMoves PROVE Accounted(s, v)'
      <3>1. Slack(s, v)' = Slack(s, v) /\ Kept(s, v)' = Kept(s, v)
        BY <2>1, <2>2, SlackSame DEF Kept
      <3> HIDE DEF Slack
      <3> QED
        BY <2>1, <2>2, <3>1 DEF PushInv, Accounted
    <2>4. IsFiniteSet(Holders)'
      BY <2>2 DEF PushInv
    <2> QED
      BY <2>1, <2>2, <2>3, <2>4 DEF PushInv
  <1> QED
    BY <1>1, <1>2, PushKillInv, PushOutsideInv DEF Push!Next

LEMMA PushInvariant == Push!Spec => []PushInv
  <1> QED
    BY PushInit, PushNext, PTL DEF Push!Spec

\* Dates, subscriptions, records, lease and cursor keep their types, and so does what a run remembers.
THEOREM PushTypeCorrect == Push!Spec => []Push!TypeOK
  <1> QED
    BY PushInvariant, PTL DEF PushInv

\* However many runs overlap and wherever they are killed, a device that is still subscribed has an
\* item of one date once, and once more at most for each overlap, each record of a date that had moved
\* and each answer that was lost.
THEOREM DeliveredOnce == Push!Spec => []NothingTwice
  <1>1. PushInv => NothingTwice
    <2> SUFFICES ASSUME PushInv, NEW t \in DOMAIN delivered, t[1] \in subs
                 PROVE  delivered[t] <= 1 + overlaps + outdated + unheard[t]
      BY DEF NothingTwice
    <2> DEFINE s == t[1]
               v == t[2]
    <2>1. s \in subs /\ v \in 1..MaxMoves /\ t = <<s, v>>
      BY DEF PushInv, Push!TypeOK
    <2> HIDE DEF s, v
    <2>2. /\ overlaps \in Nat /\ outdated \in Nat
          /\ unheard[<<s, v>>] \in Nat /\ delivered[<<s, v>>] \in Nat
          /\ IsFiniteSet(Unspent(s, v)) /\ Cardinality(Unspent(s, v)) \in Nat
      BY <2>1, SlackTypes
    <2>3. Slack(s, v) >= -1 /\ (Slack(s, v) = -1 => \A r \in Holders : ~Committed(run[r], s, v))
      BY <2>1 DEF PushInv, Accounted
    <2>4. CASE Holders = {}
      BY <2>1, <2>2, <2>3, <2>4 DEF Slack
    <2>5. CASE Holders # {}
      <3>1. Slack(s, v) = overlaps + outdated + unheard[<<s, v>>] + 1
                             - delivered[<<s, v>>] - Cardinality(Unspent(s, v))
        BY <2>5 DEF Slack
      <3>2. CASE Slack(s, v) = -1
        <4>1. Unspent(s, v) # {}
          BY <2>3, <2>5, <3>2 DEF Unspent, Committed
        <4>2. Cardinality(Unspent(s, v)) # 0
          BY <2>2, <4>1, FS_EmptySet
        <4> HIDE DEF Slack
        <4> QED
          BY <2>1, <2>2, <3>1, <3>2, <4>2
      <3>3. CASE Slack(s, v) # -1
        <4> HIDE DEF Slack
        <4> QED
          BY <2>1, <2>2, <2>3, <3>1, <3>3
      <3> QED
        BY <3>2, <3>3
    <2> QED
      BY <2>4, <2>5
  <1> QED
    BY <1>1, PushInvariant, PTL
================================================================================
