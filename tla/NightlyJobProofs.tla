--------------------------- MODULE NightlyJobProofs ---------------------------
(* Proofs about D1Budget and NightlyJob for every limit, every set of passes   *)
(* and all sizes of reservations.                                              *)
EXTENDS NightlyJob, FiniteSetTheorems, TLAPS

-------------------------------------------------------------------------------
(* The ledger. *)

Ledger == BudgetTypeOK /\ HeldApart /\ Counted /\ Accounted

\* Every allocation holds a finite number of statements.
LEMMA HoldingsFinite ==
  ASSUME BudgetTypeOK
  PROVE  /\ \A a \in Allocations : /\ IsFiniteSet(available[a])
                                   /\ Cardinality(available[a]) \in Nat
         /\ IsFiniteSet(executed) /\ Cardinality(executed) \in Nat
  <1>1. \A S \in SUBSET Statements : IsFiniteSet(S) /\ Cardinality(S) \in Nat
    BY BudgetAssumption, FS_Subset, FS_CardinalityType
  <1> QED BY <1>1 DEF BudgetTypeOK

\* An allocation that can afford n statements parts with exactly n of its own.
LEMMA PortionTaken ==
  ASSUME BudgetTypeOK, NEW a \in Allocations, NEW n \in Nat, Affords(a, n)
  PROVE  /\ Portion(a, n) \subseteq available[a]
         /\ Cardinality(Portion(a, n)) = n
         /\ IsFiniteSet(Portion(a, n))
         /\ Cardinality(available[a] \ Portion(a, n)) = Cardinality(available[a]) - n
  <1>1. Portion(a, n) \in Portions(a, n)
    BY DEF Affords, Portion
  <1>2. Portion(a, n) \subseteq available[a] /\ Cardinality(Portion(a, n)) = n
    BY <1>1 DEF Portions
  <1>3. available[a] \cap Portion(a, n) = Portion(a, n)
    BY <1>2
  <1>4. IsFiniteSet(available[a])
    BY HoldingsFinite
  <1>5. IsFiniteSet(Portion(a, n))
    BY <1>2, <1>4, FS_Subset
  <1>6. Cardinality(available[a] \ Portion(a, n)) = Cardinality(available[a]) - n
    BY <1>2, <1>3, <1>4, FS_Difference
  <1> QED BY <1>2, <1>5, <1>6

\* A reservation moves its statements from the parent to the child.
LEMMA ReserveSound ==
  ASSUME Ledger, NEW p \in Allocations, NEW c \in Allocations, NEW n \in Nat, Reserve(p, c, n)
  PROVE  /\ Ledger'
         /\ p # c
         /\ Cardinality(available'[c]) = n
         /\ \A a \in Allocations \ {p, c} : available'[a] = available[a]
         /\ \A a \in Allocations : /\ status'[a] = IF a = c THEN "open" ELSE status[a]
                                   /\ parent'[a] = IF a = c THEN p ELSE parent[a]
         /\ used' = used
  <1> USE DEF Ledger
  <1>1. p # c
    BY DEF Reserve, Affords
  <1>2. Portion(p, n) \subseteq available[p] /\ Cardinality(Portion(p, n)) = n
    BY PortionTaken DEF Reserve
  <1>3. \A a \in Allocations : available'[a] = IF a = p THEN available[p] \ Portion(p, n)
                                               ELSE IF a = c THEN Portion(p, n) ELSE available[a]
    BY <1>1 DEF Reserve, BudgetTypeOK
  <1>4. \A a \in Allocations : /\ status'[a] = IF a = c THEN "open" ELSE status[a]
                               /\ parent'[a] = IF a = c THEN p ELSE parent[a]
    BY DEF Reserve, BudgetTypeOK
  <1>5. available[c] = {}
    BY DEF Reserve, HeldApart
  <1>6. BudgetTypeOK'
    BY <1>2 DEF Reserve, BudgetTypeOK
  <1>7. HeldApart'
    <2>1. executed' = executed
      BY DEF Reserve
    <2>2. \A a, b \in Allocations : a # b => available'[a] \cap available'[b] = {}
      BY <1>1, <1>2, <1>3 DEF HeldApart
    <2>3. \A a \in Allocations : available'[a] \cap executed' = {}
      BY <1>2, <1>3, <2>1 DEF HeldApart
    <2>4. \A a \in Allocations : status'[a] # "open" => available'[a] = {}
      BY <1>2, <1>3, <1>4 DEF HeldApart, Reserve, Affords
    <2> QED BY <2>2, <2>3, <2>4 DEF HeldApart
  <1>8. Counted' /\ used' = used
    BY DEF Counted, Reserve
  <1>9. Accounted'
    <2> SUFFICES ASSUME NEW s \in Statements, s \notin executed
                 PROVE  \E a \in Allocations : s \in available'[a]
      BY DEF Accounted, Reserve
    <2>1. PICK a \in Allocations : s \in available[a]
      BY DEF Accounted
    <2>2. s \in available'[a] \/ s \in available'[c]
      BY <1>1, <1>3, <1>5, <2>1
    <2> QED BY <2>2
  <1> QED BY <1>1, <1>2, <1>3, <1>4, <1>6, <1>7, <1>8, <1>9

\* What is charged leaves its allocation and has been executed.
LEMMA ChargeSound ==
  ASSUME Ledger, NEW c \in Allocations, NEW n \in Nat, Charge(c, n)
  PROVE  /\ Ledger'
         /\ Cardinality(available'[c]) = Cardinality(available[c]) - n
         /\ \A a \in Allocations \ {c} : available'[a] = available[a]
         /\ status' = status /\ parent' = parent
  <1> USE DEF Ledger
  <1> DEFINE P == Portion(c, n)
  <1>1. /\ P \subseteq available[c] /\ Cardinality(P) = n /\ IsFiniteSet(P)
        /\ Cardinality(available[c] \ P) = Cardinality(available[c]) - n
    BY PortionTaken DEF Charge
  <1>2. \A a \in Allocations : available'[a] = IF a = c THEN available[c] \ P ELSE available[a]
    BY DEF Charge, BudgetTypeOK
  <1>3. status' = status /\ parent' = parent /\ executed' = executed \cup P /\ used' = used + n
    BY DEF Charge
  <1>4. BudgetTypeOK'
    BY <1>1, <1>3 DEF Charge, BudgetTypeOK
  <1>5. HeldApart'
    <2>1. \A a, b \in Allocations : a # b => available'[a] \cap available'[b] = {}
      BY <1>1, <1>2 DEF HeldApart
    <2>2. \A a \in Allocations : available'[a] \cap executed' = {}
      BY <1>1, <1>2, <1>3 DEF HeldApart
    <2>3. \A a \in Allocations : status'[a] # "open" => available'[a] = {}
      BY <1>1, <1>2, <1>3 DEF HeldApart
    <2> QED BY <2>1, <2>2, <2>3 DEF HeldApart
  <1>6. Counted'
    <2>1. executed \cap P = {}
      BY <1>1 DEF HeldApart
    <2>2. Cardinality(executed \cup P) = Cardinality(executed) + n
      <3>1. IsFiniteSet(executed) /\ Cardinality(executed) \in Nat
        BY HoldingsFinite
      <3>2. Cardinality(executed \cup P) = Cardinality(executed) + Cardinality(P) - Cardinality({})
        BY <1>1, <2>1, <3>1, FS_Union
      <3> QED BY <1>1, <3>1, <3>2, FS_EmptySet
    <2> QED BY <1>3, <2>2 DEF Counted
  <1>7. Accounted'
    BY <1>1, <1>2, <1>3 DEF Accounted
  <1> QED BY <1>1, <1>2, <1>3, <1>4, <1>5, <1>6, <1>7

LEMMA DeferSound ==
  ASSUME Ledger, NEW c \in Allocations, NEW n \in Nat, Defer(c, n)
  PROVE  /\ Ledger'
         /\ available' = available /\ status' = status /\ parent' = parent
  BY DEF Ledger, Defer, BudgetTypeOK, HeldApart, Counted, Accounted

LEMMA NoBudgetStepSound ==
  ASSUME Ledger, UNCHANGED budgetVars
  PROVE  /\ Ledger'
         /\ available' = available /\ status' = status /\ parent' = parent
  BY DEF budgetVars, Ledger, BudgetTypeOK, HeldApart, Counted, Accounted

\* What a release gives back goes to one allocation, and none of it is lost.
LEMMA ReleaseSound ==
  ASSUME Ledger, NEW c \in Allocations, Release(c), parent[c] # c, status[parent[c]] = "open"
  PROVE  /\ Ledger'
         /\ \A a \in Allocations \ {c} : Cardinality(available[a]) <= Cardinality(available'[a])
         /\ \A a \in Allocations : status'[a] = IF a = c THEN "closed" ELSE status[a]
         /\ parent' = parent
  <1> USE DEF Ledger
  <1> DEFINE p == parent[c]
  <1>1. p \in Allocations
    BY DEF BudgetTypeOK
  <1>2. \A a \in Allocations : available'[a] = IF a = c THEN {}
                                               ELSE IF a = p THEN available[p] \cup available[c] ELSE available[a]
    BY DEF Release
  <1>3. \A a \in Allocations : status'[a] = IF a = c THEN "closed" ELSE status[a]
    BY DEF Release, BudgetTypeOK
  <1>4. executed' = executed /\ used' = used /\ parent' = parent
    BY DEF Release
  <1>5. BudgetTypeOK'
    <2>1. available' \in [Allocations -> SUBSET Statements]
      BY DEF Release, BudgetTypeOK
    <2> QED BY <2>1 DEF Release, BudgetTypeOK
  <1>6. HeldApart'
    <2>1. \A a, b \in Allocations : a # b => available'[a] \cap available'[b] = {}
      BY <1>1, <1>2 DEF HeldApart
    <2>2. \A a \in Allocations : available'[a] \cap executed' = {}
      BY <1>1, <1>2, <1>4 DEF HeldApart
    <2>3. \A a \in Allocations : status'[a] # "open" => available'[a] = {}
      BY <1>1, <1>2, <1>3 DEF HeldApart
    <2> QED BY <2>1, <2>2, <2>3 DEF HeldApart
  <1>7. Counted'
    BY <1>4 DEF Counted
  <1>8. Accounted'
    BY <1>1, <1>2, <1>4 DEF Accounted
  <1>9. \A a \in Allocations \ {c} : Cardinality(available[a]) <= Cardinality(available'[a])
    <2>1. \A a \in Allocations \ {c} : available[a] \in SUBSET available'[a] /\ available'[a] \in SUBSET Statements
      BY <1>2, <1>5 DEF BudgetTypeOK
    <2>2. \A S \in SUBSET Statements : IsFiniteSet(S)
      BY BudgetAssumption, FS_Subset
    <2> QED BY <2>1, <2>2, FS_Subset
  <1> QED BY <1>1, <1>2, <1>3, <1>4, <1>5, <1>6, <1>7, <1>8, <1>9

\* A new invocation begins with the whole limit at its root.
LEMMA NewBudgetSound ==
  ASSUME available = [a \in Allocations |-> IF a = Root THEN Statements ELSE {}],
         status = [a \in Allocations |-> IF a = Root THEN "open" ELSE "unborn"],
         parent = [a \in Allocations |-> Root],
         used = 0, deferred = FALSE, executed = {}
  PROVE  Ledger
  BY BudgetAssumption, FS_EmptySet DEF Ledger, BudgetTypeOK, HeldApart, Counted, Accounted

-------------------------------------------------------------------------------
(* The job. *)

LEMMA Names ==
    /\ {Root, Final, Fts, Section, Inner} \subseteq Allocations /\ AllPasses \subseteq Allocations
    /\ Root \notin {Final, Fts, Section} /\ Final \notin {Fts, Section} /\ Fts # Section
    /\ AllPasses \cap {Root, Final, Fts, Section} = {}
    /\ Inner \in AllPasses /\ Passes \subseteq AllPasses /\ Inner \notin Passes
    /\ \A p \in AllPasses : Host(p) = IF p = Inner THEN Section ELSE Root
    /\ \A p \in AllPasses : p # Inner => p \in Passes
    /\ ReleaseReserve \in Nat \ {0} /\ Work \in Nat \ {0}
  BY BudgetAssumption, JobAssumption DEF AllPasses, Host

\* A workspace that the ring returns is one of the workspaces.
LEMMA RingMember ==
  ASSUME present \in SUBSET Workspaces
  PROVE  NextWorkspace \in Workspaces \cup {NoSlice}
  <1>1. ASSUME NEW ring \in SUBSET Workspaces, ring # {}
        PROVE  \E w \in ring : \A v \in ring : w <= v
    <2>1. ring \subseteq Nat
      BY JobAssumption
    <2>2. PICK w \in ring : \A v \in ring : ~ (<<v, w>> \in OpToRel(<, Nat))
      BY <1>1, <2>1, NatLessThanWellFounded, WFMin
    <2>3. \A v \in ring : ~ (v < w)
      BY <2>1, <2>2 DEF OpToRel
    <2> QED BY <2>1, <2>3
  <1> DEFINE after == {w \in present : w > cursor}
             ring == IF after # {} THEN after ELSE present
  <1>2. ring \in SUBSET Workspaces
    OBVIOUS
  <1>3. NextWorkspace = IF ring # {} THEN CHOOSE w \in ring : \A v \in ring : w <= v ELSE NoSlice
    BY DEF NextWorkspace
  <1> HIDE DEF ring
  <1>4. CASE ring # {}
    <2>1. (CHOOSE w \in ring : \A v \in ring : w <= v) \in ring
      BY <1>1, <1>2, <1>4
    <2> QED BY <1>2, <1>3, <1>4, <2>1
  <1>5. CASE ring = {}
    BY <1>3, <1>5
  <1> QED BY <1>4, <1>5

LEMMA JobStarts == Init => JobInv
  <1> SUFFICES ASSUME Init PROVE JobInv
    OBVIOUS
  <1>1. Ledger
    BY NewBudgetSound DEF Init, NewBudget
  <1>2. TypeOK
    BY <1>1, Names DEF Init, Ledger, TypeOK
  <1>3. PassesFit /\ AllocationsFit /\ Provided
    BY Names DEF Init, PassesFit, AllocationsFit, Provided
  <1> QED BY <1>1, <1>2, <1>3 DEF JobInv, Ledger

\* Steps that leave all reservations open as they are, and spend at most n of c.
LEMMA Spending ==
  ASSUME JobInv, NEW c \in Allocations, NEW n \in Nat,
         Charge(c, n) \/ Defer(c, n) \/ UNCHANGED budgetVars
  PROVE  /\ Ledger'
         /\ status' = status /\ parent' = parent
         /\ \A a \in Allocations \ {c} : Cardinality(available'[a]) = Cardinality(available[a])
         /\ Cardinality(available'[c]) >= Cardinality(available[c]) - n
  <1>1. Ledger
    BY DEF JobInv, TypeOK, Ledger
  <1>2. Cardinality(available[c]) \in Nat
    BY <1>1, HoldingsFinite DEF Ledger
  <1>3. CASE Charge(c, n)
    BY <1>1, <1>2, <1>3, ChargeSound
  <1>4. CASE Defer(c, n)
    BY <1>1, <1>2, <1>4, DeferSound
  <1>5. CASE UNCHANGED budgetVars
    BY <1>1, <1>2, <1>5, NoBudgetStepSound
  <1> QED BY <1>3, <1>4, <1>5

JobTypes ==
    /\ stage \in {"asleep", "waking", "schema", "admission", "rotation", "passes",
                  "section", "fts", "indexing", "leaving"}
    /\ pass \in [AllPasses -> {"reading", "candidate", "reserved", "sent", "settled", "done"}]
    /\ schemaOld \in BOOLEAN /\ tries \in 0..ReleaseReserve
    /\ cursor \in Workspaces \cup {0}
    /\ present \in SUBSET Workspaces /\ slice \in Workspaces \cup {NoSlice}

LEMMA InvParts == JobInv <=> Ledger /\ JobTypes /\ PassesFit /\ AllocationsFit /\ Provided
  BY DEF JobInv, Ledger, TypeOK, JobTypes

LEMMA InvPartsNext == JobInv' <=> Ledger' /\ JobTypes' /\ PassesFit' /\ AllocationsFit' /\ Provided'
  BY DEF JobInv, Ledger, TypeOK, JobTypes

\* Holdings are numbers, before a step and after it.
LEMMA Numbers ==
  ASSUME Ledger, Ledger'
  PROVE  \A a \in Allocations : Cardinality(available[a]) \in Nat /\ Cardinality(available'[a]) \in Nat
  <1>1. \A S \in SUBSET Statements : Cardinality(S) \in Nat
    BY BudgetAssumption, FS_Subset, FS_CardinalityType
  <1> QED BY <1>1 DEF Ledger, BudgetTypeOK

LEMMA PopulateKeeps ==
  ASSUME JobInv, NEW w \in Workspaces, Populate(w)
  PROVE  JobInv'
  <1>0. Ledger /\ JobTypes /\ PassesFit /\ AllocationsFit /\ Provided
    BY InvParts
  <1>1. /\ Ledger' /\ status' = status /\ parent' = parent
        /\ \A a \in Allocations \ {Root} : Cardinality(available'[a]) = Cardinality(available[a])
        /\ Cardinality(available'[Root]) >= Cardinality(available[Root]) - 0
    BY Spending, Names DEF Populate
  <1>2. JobTypes'
    BY <1>0, Names DEF JobTypes, Populate
  <1>3. PassesFit'
    BY <1>0, Names DEF JobTypes, PassesFit, Populate
  <1>4. AllocationsFit'
    BY <1>0, <1>1, Names DEF JobTypes, PassesFit, AllocationsFit, Expected, InFlight, Populate
  <1>5. Provided'
    BY <1>0, <1>1, Names, Numbers DEF JobTypes, PassesFit, Provided, Populate
  <1> QED BY <1>1, <1>2, <1>3, <1>4, <1>5, InvPartsNext

LEMMA InitialiseDatabaseKeeps ==
  ASSUME JobInv, InitialiseDatabase
  PROVE  JobInv'
  <1>0. Ledger /\ JobTypes /\ PassesFit /\ AllocationsFit /\ Provided
    BY InvParts
  <1>1. /\ Ledger' /\ status' = status /\ parent' = parent
        /\ \A a \in Allocations \ {Root} : Cardinality(available'[a]) = Cardinality(available[a])
        /\ Cardinality(available'[Root]) >= Cardinality(available[Root]) - 1
    BY Spending, Names DEF InitialiseDatabase
  <1>2. JobTypes'
    BY <1>0, Names DEF JobTypes, InitialiseDatabase, Enter
  <1>3. PassesFit'
    BY <1>0, Names DEF JobTypes, PassesFit, InitialiseDatabase, Enter
  <1>4. AllocationsFit'
    BY <1>0, <1>1, Names DEF JobTypes, PassesFit, AllocationsFit, Expected, InFlight, InitialiseDatabase, Enter
  <1>5. Provided'
    BY <1>0, <1>1, Names, Numbers DEF JobTypes, PassesFit, Provided, InitialiseDatabase, Enter
  <1> QED BY <1>1, <1>2, <1>3, <1>4, <1>5, InvPartsNext

LEMMA AdmitKeeps ==
  ASSUME JobInv, Admit
  PROVE  JobInv'
  <1>0. Ledger /\ JobTypes /\ PassesFit /\ AllocationsFit /\ Provided
    BY InvParts
  <1>1. /\ Ledger' /\ status' = status /\ parent' = parent
        /\ \A a \in Allocations \ {Root} : Cardinality(available'[a]) = Cardinality(available[a])
        /\ Cardinality(available'[Root]) >= Cardinality(available[Root]) - 1
    BY Spending, Names DEF Admit
  <1>2. JobTypes'
    BY <1>0, Names DEF JobTypes, Admit, Enter
  <1>3. PassesFit'
    BY <1>0, Names DEF JobTypes, PassesFit, Admit, Enter
  <1>4. AllocationsFit'
    BY <1>0, <1>1, Names DEF JobTypes, PassesFit, AllocationsFit, Expected, InFlight, Admit, Enter
  <1>5. Provided'
    BY <1>0, <1>1, Names, Numbers DEF JobTypes, PassesFit, Provided, Admit, Enter
  <1> QED BY <1>1, <1>2, <1>3, <1>4, <1>5, InvPartsNext

LEMMA RotateKeeps ==
  ASSUME JobInv, Rotate
  PROVE  JobInv'
  <1>0. Ledger /\ JobTypes /\ PassesFit /\ AllocationsFit /\ Provided
    BY InvParts
  <1>1. /\ Ledger' /\ status' = status /\ parent' = parent
        /\ \A a \in Allocations \ {Root} : Cardinality(available'[a]) = Cardinality(available[a])
        /\ Cardinality(available'[Root]) >= Cardinality(available[Root]) - 2
    <2>1. \/ Charge(Root, 2) \/ Charge(Root, 1) \/ Defer(Root, 2)
      BY DEF Rotate
    <2>2. Root \in Allocations /\ Cardinality(available[Root]) \in Nat
      BY <1>0, Names, HoldingsFinite DEF Ledger
    <2> QED BY <2>1, <2>2, Spending, Numbers, <1>0
  <1>2. JobTypes'
    BY <1>0, Names, RingMember DEF JobTypes, Rotate
  <1>3. PassesFit'
    BY <1>0, Names DEF JobTypes, PassesFit, Rotate
  <1>4. AllocationsFit'
    BY <1>0, <1>1, Names DEF JobTypes, PassesFit, AllocationsFit, Expected, InFlight, Rotate
  <1>5. Provided'
    BY <1>0, <1>1, Names, Numbers DEF JobTypes, PassesFit, Provided, Rotate
  <1> QED BY <1>1, <1>2, <1>3, <1>4, <1>5, InvPartsNext

LEMMA ReadKeeps ==
  ASSUME JobInv, NEW p \in AllPasses, Read(p)
  PROVE  JobInv'
  <1>0. Ledger /\ JobTypes /\ PassesFit /\ AllocationsFit /\ Provided
    BY InvParts
  <1>1. /\ Ledger' /\ status' = status /\ parent' = parent
        /\ \A a \in Allocations \ {Host(p)} : Cardinality(available'[a]) = Cardinality(available[a])
        /\ Cardinality(available'[Host(p)]) >= Cardinality(available[Host(p)]) - 1
    <2>1. Host(p) \in Allocations /\ 1 \in Nat
      BY Names
    <2> QED BY <2>1, Spending DEF Read
  <1>2. JobTypes'
    BY <1>0, Names DEF JobTypes, Read, MovePass
  <1>3. PassesFit'
    BY <1>0, Names DEF JobTypes, PassesFit, Read, MovePass
  <1>4. AllocationsFit'
    BY <1>0, <1>1, Names DEF JobTypes, PassesFit, AllocationsFit, Expected, InFlight, Read, MovePass
  <1>5. Provided'
    BY <1>0, <1>1, Names, Numbers DEF JobTypes, PassesFit, Provided, Read, MovePass
  <1> QED BY <1>1, <1>2, <1>3, <1>4, <1>5, InvPartsNext

LEMMA AuthoriseKeeps ==
  ASSUME JobInv, NEW p \in AllPasses, Authorise(p)
  PROVE  JobInv'
  <1>0. Ledger /\ JobTypes /\ PassesFit /\ AllocationsFit /\ Provided
    BY InvParts
  <1>1. /\ Ledger' /\ status' = status /\ parent' = parent
        /\ \A a \in Allocations \ {p} : Cardinality(available'[a]) = Cardinality(available[a])
        /\ Cardinality(available'[p]) >= Cardinality(available[p]) - 1
    <2>1. p \in Allocations /\ 1 \in Nat
      BY Names
    <2> QED BY <2>1, Spending DEF Authorise
  <1>2. JobTypes'
    BY <1>0, Names DEF JobTypes, Authorise, MovePass
  <1>3. PassesFit'
    BY <1>0, Names DEF JobTypes, PassesFit, Authorise, MovePass
  <1>4. AllocationsFit'
    BY <1>0, <1>1, Names DEF JobTypes, PassesFit, AllocationsFit, Expected, InFlight, Authorise, MovePass
  <1>5. Provided'
    BY <1>0, <1>1, Names, Numbers DEF JobTypes, PassesFit, Provided, Authorise, MovePass
  <1> QED BY <1>1, <1>2, <1>3, <1>4, <1>5, InvPartsNext

LEMMA RecordKeeps ==
  ASSUME JobInv, NEW p \in AllPasses, Record(p)
  PROVE  JobInv'
  <1>0. Ledger /\ JobTypes /\ PassesFit /\ AllocationsFit /\ Provided
    BY InvParts
  <1>1. /\ Ledger' /\ status' = status /\ parent' = parent
        /\ \A a \in Allocations \ {p} : Cardinality(available'[a]) = Cardinality(available[a])
        /\ Cardinality(available'[p]) >= Cardinality(available[p]) - (Work - 1)
    <2>1. p \in Allocations /\ (Work - 1) \in Nat
      BY Names
    <2> QED BY <2>1, Spending DEF Record
  <1>2. JobTypes'
    BY <1>0, Names DEF JobTypes, Record, MovePass
  <1>3. PassesFit'
    BY <1>0, Names DEF JobTypes, PassesFit, Record, MovePass
  <1>4. AllocationsFit'
    BY <1>0, <1>1, Names DEF JobTypes, PassesFit, AllocationsFit, Expected, InFlight, Record, MovePass
  <1>5. Provided'
    BY <1>0, <1>1, Names, Numbers DEF JobTypes, PassesFit, Provided, Record, MovePass
  <1> QED BY <1>1, <1>2, <1>3, <1>4, <1>5, InvPartsNext

LEMMA AbandonKeeps ==
  ASSUME JobInv, NEW p \in AllPasses, Abandon(p)
  PROVE  JobInv'
  <1>0. Ledger /\ JobTypes /\ PassesFit /\ AllocationsFit /\ Provided
    BY InvParts
  <1>1. /\ Ledger' /\ status' = status /\ parent' = parent
        /\ \A a \in Allocations \ {p} : Cardinality(available'[a]) = Cardinality(available[a])
        /\ Cardinality(available'[p]) >= Cardinality(available[p]) - 0
    <2>1. p \in Allocations /\ 0 \in Nat
      BY Names
    <2> QED BY <2>1, Spending DEF Abandon
  <1>2. JobTypes'
    BY <1>0, Names DEF JobTypes, Abandon, MovePass
  <1>3. PassesFit'
    BY <1>0, Names DEF JobTypes, PassesFit, Abandon, MovePass
  <1>4. AllocationsFit'
    BY <1>0, <1>1, Names DEF JobTypes, PassesFit, AllocationsFit, Expected, InFlight, Abandon, MovePass
  <1>5. Provided'
    BY <1>0, <1>1, Names, Numbers DEF JobTypes, PassesFit, Provided, Abandon, MovePass
  <1> QED BY <1>1, <1>2, <1>3, <1>4, <1>5, InvPartsNext

LEMMA IndexEntriesKeeps ==
  ASSUME JobInv, IndexEntries
  PROVE  JobInv'
  <1>0. Ledger /\ JobTypes /\ PassesFit /\ AllocationsFit /\ Provided
    BY InvParts
  <1>1. /\ Ledger' /\ status' = status /\ parent' = parent
        /\ \A a \in Allocations \ {Fts} : Cardinality(available'[a]) = Cardinality(available[a])
        /\ Cardinality(available'[Fts]) >= Cardinality(available[Fts]) - 1
    BY Spending, Names DEF IndexEntries
  <1>2. JobTypes'
    BY <1>0, Names DEF JobTypes, IndexEntries, Enter
  <1>3. PassesFit'
    BY <1>0, Names DEF JobTypes, PassesFit, IndexEntries, Enter
  <1>4. AllocationsFit'
    BY <1>0, <1>1, Names DEF JobTypes, PassesFit, AllocationsFit, Expected, InFlight, IndexEntries, Enter
  <1>5. Provided'
    BY <1>0, <1>1, Names, Numbers DEF JobTypes, PassesFit, Provided, IndexEntries, Enter
  <1> QED BY <1>1, <1>2, <1>3, <1>4, <1>5, InvPartsNext

LEMMA ReleaseAdmissionKeeps ==
  ASSUME JobInv, ReleaseAdmission
  PROVE  JobInv'
  <1>0. Ledger /\ JobTypes /\ PassesFit /\ AllocationsFit /\ Provided
    BY InvParts
  <1>1. /\ Ledger' /\ status' = status /\ parent' = parent
        /\ \A a \in Allocations \ {Final} : Cardinality(available'[a]) = Cardinality(available[a])
        /\ Cardinality(available'[Final]) >= Cardinality(available[Final]) - 1
    BY Spending, Names DEF ReleaseAdmission
  <1>2. JobTypes'
    BY <1>0, Names DEF JobTypes, ReleaseAdmission, Enter
  <1>3. PassesFit'
    BY <1>0, Names DEF JobTypes, PassesFit, ReleaseAdmission, Enter
  <1>4. AllocationsFit'
    BY <1>0, <1>1, Names DEF JobTypes, PassesFit, AllocationsFit, Expected, InFlight, ReleaseAdmission, Enter
  <1>5. Provided'
    BY <1>0, <1>1, Names, Numbers DEF JobTypes, PassesFit, Provided, ReleaseAdmission, Enter
  <1> QED BY <1>1, <1>2, <1>3, <1>4, <1>5, InvPartsNext

LEMMA KillKeeps ==
  ASSUME JobInv, Kill
  PROVE  JobInv'
  <1>0. Ledger /\ JobTypes /\ PassesFit /\ AllocationsFit /\ Provided
    BY InvParts
  <1>1. /\ Ledger' /\ status' = status /\ parent' = parent
        /\ \A a \in Allocations \ {Root} : Cardinality(available'[a]) = Cardinality(available[a])
        /\ Cardinality(available'[Root]) >= Cardinality(available[Root]) - 0
    BY Spending, Names DEF Kill
  <1>2. JobTypes'
    BY <1>0, Names DEF JobTypes, Kill
  <1>3. PassesFit'
    BY <1>0, Names DEF JobTypes, PassesFit, Kill
  <1>4. AllocationsFit'
    BY <1>0, <1>1, Names DEF JobTypes, PassesFit, AllocationsFit, Expected, InFlight, Kill
  <1>5. Provided'
    BY <1>0, <1>1, Names, Numbers DEF JobTypes, PassesFit, Provided, Kill
  <1> QED BY <1>1, <1>2, <1>3, <1>4, <1>5, InvPartsNext

LEMMA WakeKeeps ==
  ASSUME JobInv, Wake
  PROVE  JobInv'
  <1>0. Ledger /\ JobTypes /\ PassesFit /\ AllocationsFit /\ Provided
    BY InvParts
  <1>1. Ledger'
    BY BudgetAssumption, FS_EmptySet
       DEF Wake, Ledger, BudgetTypeOK, HeldApart, Counted, Accounted
  <1>2. JobTypes'
    BY <1>0, Names DEF JobTypes, Wake
  <1>3. PassesFit'
    BY <1>0, Names DEF JobTypes, PassesFit, Wake
  <1>4. AllocationsFit'
    BY <1>0, <1>1, Names DEF JobTypes, PassesFit, AllocationsFit, Expected, InFlight, Wake
  <1>5. Provided'
    BY <1>0, <1>1, Names, Numbers DEF JobTypes, PassesFit, Provided, Wake
  <1> QED BY <1>1, <1>2, <1>3, <1>4, <1>5, InvPartsNext

LEMMA ReserveReleaseKeeps ==
  ASSUME JobInv, ReserveRelease
  PROVE  JobInv'
  <1>0. Ledger /\ JobTypes /\ PassesFit /\ AllocationsFit /\ Provided
    BY InvParts
  <1>1. /\ Ledger' /\ Cardinality(available'[Final]) = ReleaseReserve
        /\ \A a \in Allocations \ {Root, Final} : available'[a] = available[a]
        /\ \A a \in Allocations : /\ status'[a] = IF a = Final THEN "open" ELSE status[a]
                                  /\ parent'[a] = IF a = Final THEN Root ELSE parent[a]
    <2>1. ReleaseReserve \in Nat
      BY Names
    <2> QED BY <1>0, <2>1, Names, ReserveSound DEF ReserveRelease
  <1>2. JobTypes'
    BY <1>0, Names DEF JobTypes, ReserveRelease, Enter
  <1>3. PassesFit'
    BY <1>0, Names DEF JobTypes, PassesFit, ReserveRelease, Enter
  <1>4. AllocationsFit'
    BY <1>0, <1>1, Names DEF JobTypes, PassesFit, AllocationsFit, Expected, InFlight, ReserveRelease, Enter
  <1>5. Provided'
    BY <1>0, <1>1, Names, Numbers DEF JobTypes, PassesFit, Provided, ReserveRelease, Enter
  <1> QED BY <1>1, <1>2, <1>3, <1>4, <1>5, InvPartsNext

LEMMA ReserveWorkKeeps ==
  ASSUME JobInv, NEW p \in AllPasses, ReserveWork(p)
  PROVE  JobInv'
  <1>0. Ledger /\ JobTypes /\ PassesFit /\ AllocationsFit /\ Provided
    BY InvParts
  <1>1. CASE Reserve(Host(p), p, Work) /\ MovePass(p, "reserved")
    <2>1. /\ Ledger' /\ Cardinality(available'[p]) = Work
          /\ \A a \in Allocations \ {Host(p), p} : available'[a] = available[a]
          /\ \A a \in Allocations : /\ status'[a] = IF a = p THEN "open" ELSE status[a]
                                    /\ parent'[a] = IF a = p THEN Host(p) ELSE parent[a]
      BY <1>0, <1>1, Names, ReserveSound
    <2>2. JobTypes'
      BY <1>0, <1>1, Names DEF JobTypes, MovePass
    <2>3. PassesFit'
      BY <1>0, <1>1, Names DEF JobTypes, PassesFit, MovePass, ReserveWork
    <2>4. AllocationsFit'
      BY <1>0, <1>1, <2>1, Names DEF JobTypes, PassesFit, AllocationsFit, Expected, InFlight, MovePass, ReserveWork
    <2>5. Provided'
      BY <1>0, <1>1, <2>1, Names, Numbers DEF JobTypes, PassesFit, Provided, MovePass, ReserveWork
    <2> QED BY <2>1, <2>2, <2>3, <2>4, <2>5, InvPartsNext
  <1>2. CASE Defer(Host(p), Work) /\ MovePass(p, "done")
    <2>1. Ledger' /\ available' = available /\ status' = status /\ parent' = parent
      BY <1>0, <1>2, Names, DeferSound
    <2>2. JobTypes'
      BY <1>0, <1>2, Names DEF JobTypes, MovePass
    <2>3. PassesFit'
      BY <1>0, <1>2, Names DEF JobTypes, PassesFit, MovePass, ReserveWork
    <2>4. AllocationsFit'
      BY <1>0, <1>2, <2>1, Names DEF JobTypes, PassesFit, AllocationsFit, Expected, InFlight, MovePass, ReserveWork
    <2>5. Provided'
      BY <1>0, <1>2, <2>1, Names DEF JobTypes, PassesFit, Provided, MovePass, ReserveWork
    <2> QED BY <2>1, <2>2, <2>3, <2>4, <2>5, InvPartsNext
  <1> QED BY <1>1, <1>2 DEF ReserveWork

LEMMA OpenSectionKeeps ==
  ASSUME JobInv, OpenSection
  PROVE  JobInv'
  <1>0. Ledger /\ JobTypes /\ PassesFit /\ AllocationsFit /\ Provided
    BY InvParts
  <1> DEFINE n == Smaller(SectionSize, Remaining(Root))
  <1>n. n \in Nat
    BY <1>0, Names, HoldingsFinite, JobAssumption DEF Ledger, Smaller, Remaining
  <1> HIDE DEF n
  <1>1. CASE /\ Reserve(Root, Section, n)
             /\ stage' = "section" /\ pass' = [pass EXCEPT ![Inner] = "reading"]
             /\ UNCHANGED <<schemaOld, tries, cursor, present, slice>>
    <2>0. /\ stage = "passes" /\ (\A p \in Passes : pass[p] = "done")
          /\ stage' = "section" /\ pass' = [pass EXCEPT ![Inner] = "reading"]
          /\ UNCHANGED <<schemaOld, tries, cursor, present, slice>>
      BY <1>1 DEF OpenSection
    <2>1. /\ Ledger' /\ Cardinality(available'[Section]) = n
          /\ \A a \in Allocations \ {Root, Section} : available'[a] = available[a]
          /\ \A a \in Allocations : /\ status'[a] = IF a = Section THEN "open" ELSE status[a]
                                    /\ parent'[a] = IF a = Section THEN Root ELSE parent[a]
      BY <1>0, <1>1, <1>n, Names, ReserveSound
    <2>2. JobTypes'
      BY <1>0, <2>0, Names DEF JobTypes
    <2>3. PassesFit'
      BY <1>0, <2>0, Names DEF JobTypes, PassesFit
    <2>4. AllocationsFit'
      BY <1>0, <2>0, <2>1, Names DEF JobTypes, PassesFit, AllocationsFit, Expected, InFlight
    <2>5. Provided'
      BY <1>0, <2>0, <2>1, Names, Numbers DEF JobTypes, PassesFit, Provided
    <2> QED BY <2>1, <2>2, <2>3, <2>4, <2>5, InvPartsNext
  <1>2. CASE UNCHANGED budgetVars /\ Enter("fts")
    <2>1. Ledger' /\ available' = available /\ status' = status /\ parent' = parent
      BY <1>0, <1>2, NoBudgetStepSound
    <2>2. JobTypes'
      BY <1>0, <1>2, Names DEF JobTypes, Enter
    <2>3. PassesFit'
      BY <1>0, <1>2, Names DEF JobTypes, PassesFit, Enter, OpenSection
    <2>4. AllocationsFit'
      BY <1>0, <1>2, <2>1, Names DEF JobTypes, PassesFit, AllocationsFit, Expected, InFlight, Enter, OpenSection
    <2>5. Provided'
      BY <1>0, <1>2, <2>1, Names DEF JobTypes, PassesFit, Provided, Enter, OpenSection
    <2> QED BY <2>1, <2>2, <2>3, <2>4, <2>5, InvPartsNext
  <1> QED BY <1>1, <1>2 DEF OpenSection, n

LEMMA OpenFtsKeeps ==
  ASSUME JobInv, OpenFts
  PROVE  JobInv'
  <1>0. Ledger /\ JobTypes /\ PassesFit /\ AllocationsFit /\ Provided
    BY InvParts
  <1> DEFINE n == Smaller(FtsSize, Remaining(Root))
  <1>n. n \in Nat
    BY <1>0, Names, HoldingsFinite, JobAssumption DEF Ledger, Smaller, Remaining
  <1> HIDE DEF n
  <1>1. CASE Reserve(Root, Fts, n) /\ Enter("indexing")
    <2>0. /\ stage = "fts" /\ stage' = "indexing"
          /\ UNCHANGED <<pass, schemaOld, tries, cursor, present, slice>>
      BY <1>1 DEF OpenFts, Enter
    <2>1. /\ Ledger' /\ Cardinality(available'[Fts]) = n
          /\ \A a \in Allocations \ {Root, Fts} : available'[a] = available[a]
          /\ \A a \in Allocations : /\ status'[a] = IF a = Fts THEN "open" ELSE status[a]
                                    /\ parent'[a] = IF a = Fts THEN Root ELSE parent[a]
      BY <1>0, <1>1, <1>n, Names, ReserveSound
    <2>2. JobTypes'
      BY <1>0, <2>0, Names DEF JobTypes
    <2>3. PassesFit'
      BY <1>0, <2>0, Names DEF JobTypes, PassesFit
    <2>4. AllocationsFit'
      BY <1>0, <2>0, <2>1, Names DEF JobTypes, PassesFit, AllocationsFit, Expected, InFlight
    <2>5. Provided'
      BY <1>0, <2>0, <2>1, Names, Numbers DEF JobTypes, PassesFit, Provided
    <2> QED BY <2>1, <2>2, <2>3, <2>4, <2>5, InvPartsNext
  <1>2. CASE UNCHANGED budgetVars /\ Enter("leaving")
    <2>1. Ledger' /\ available' = available /\ status' = status /\ parent' = parent
      BY <1>0, <1>2, NoBudgetStepSound
    <2>2. JobTypes'
      BY <1>0, <1>2, Names DEF JobTypes, Enter
    <2>3. PassesFit'
      BY <1>0, <1>2, Names DEF JobTypes, PassesFit, Enter, OpenFts
    <2>4. AllocationsFit'
      BY <1>0, <1>2, <2>1, Names DEF JobTypes, PassesFit, AllocationsFit, Expected, InFlight, Enter, OpenFts
    <2>5. Provided'
      BY <1>0, <1>2, <2>1, Names DEF JobTypes, PassesFit, Provided, Enter, OpenFts
    <2> QED BY <2>1, <2>2, <2>3, <2>4, <2>5, InvPartsNext
  <1> QED BY <1>1, <1>2 DEF OpenFts, n

LEMMA ReturnKeeps ==
  ASSUME JobInv, NEW p \in AllPasses, Return(p)
  PROVE  JobInv'
  <1>0. Ledger /\ JobTypes /\ PassesFit /\ AllocationsFit /\ Provided
    BY InvParts
  <1>1. /\ Ledger'
        /\ \A a \in Allocations \ {p} : Cardinality(available[a]) <= Cardinality(available'[a])
        /\ \A a \in Allocations : status'[a] = IF a = p THEN "closed" ELSE status[a]
        /\ parent' = parent
    <2>1. parent[p] # p /\ status[parent[p]] = "open"
      BY <1>0, Names DEF JobTypes, PassesFit, AllocationsFit, Expected, InFlight, Return
    <2> QED BY <1>0, <2>1, Names, ReleaseSound DEF Return
  <1>2. JobTypes'
    BY <1>0, Names DEF JobTypes, Return, MovePass
  <1>3. PassesFit'
    BY <1>0, Names DEF JobTypes, PassesFit, Return, MovePass
  <1>4. AllocationsFit'
    BY <1>0, <1>1, Names DEF JobTypes, PassesFit, AllocationsFit, Expected, InFlight, Return, MovePass
  <1>5. Provided'
    BY <1>0, <1>1, Names, Numbers DEF JobTypes, PassesFit, Provided, Return, MovePass
  <1> QED BY <1>1, <1>2, <1>3, <1>4, <1>5, InvPartsNext

LEMMA CloseSectionKeeps ==
  ASSUME JobInv, CloseSection
  PROVE  JobInv'
  <1>0. Ledger /\ JobTypes /\ PassesFit /\ AllocationsFit /\ Provided
    BY InvParts
  <1>1. /\ Ledger'
        /\ \A a \in Allocations \ {Section} : Cardinality(available[a]) <= Cardinality(available'[a])
        /\ \A a \in Allocations : status'[a] = IF a = Section THEN "closed" ELSE status[a]
        /\ parent' = parent
    <2>1. parent[Section] # Section /\ status[parent[Section]] = "open"
      BY <1>0, Names DEF JobTypes, PassesFit, AllocationsFit, Expected, InFlight, CloseSection, Release
    <2> QED BY <1>0, <2>1, Names, ReleaseSound DEF CloseSection
  <1>2. JobTypes'
    BY <1>0, Names DEF JobTypes, CloseSection, Enter
  <1>3. PassesFit'
    BY <1>0, Names DEF JobTypes, PassesFit, CloseSection, Enter
  <1>4. AllocationsFit'
    BY <1>0, <1>1, Names DEF JobTypes, PassesFit, AllocationsFit, Expected, InFlight, CloseSection, Enter
  <1>5. Provided'
    BY <1>0, <1>1, Names, Numbers DEF JobTypes, PassesFit, Provided, CloseSection, Enter
  <1> QED BY <1>1, <1>2, <1>3, <1>4, <1>5, InvPartsNext

LEMMA CloseFtsKeeps ==
  ASSUME JobInv, CloseFts
  PROVE  JobInv'
  <1>0. Ledger /\ JobTypes /\ PassesFit /\ AllocationsFit /\ Provided
    BY InvParts
  <1>1. /\ Ledger'
        /\ \A a \in Allocations \ {Fts} : Cardinality(available[a]) <= Cardinality(available'[a])
        /\ \A a \in Allocations : status'[a] = IF a = Fts THEN "closed" ELSE status[a]
        /\ parent' = parent
    <2>1. parent[Fts] # Fts /\ status[parent[Fts]] = "open"
      BY <1>0, Names DEF JobTypes, PassesFit, AllocationsFit, Expected, InFlight, CloseFts, Release
    <2> QED BY <1>0, <2>1, Names, ReleaseSound DEF CloseFts
  <1>2. JobTypes'
    BY <1>0, Names DEF JobTypes, CloseFts, Enter
  <1>3. PassesFit'
    BY <1>0, Names DEF JobTypes, PassesFit, CloseFts, Enter
  <1>4. AllocationsFit'
    BY <1>0, <1>1, Names DEF JobTypes, PassesFit, AllocationsFit, Expected, InFlight, CloseFts, Enter
  <1>5. Provided'
    BY <1>0, <1>1, Names, Numbers DEF JobTypes, PassesFit, Provided, CloseFts, Enter
  <1> QED BY <1>1, <1>2, <1>3, <1>4, <1>5, InvPartsNext

LEMMA JobInvInductive == JobInv /\ [Next]_vars => JobInv'
  <1> SUFFICES ASSUME JobInv, [Next]_vars PROVE JobInv'
    OBVIOUS
  <1>1. ASSUME NEW p \in AllPasses, PassStep(p) PROVE JobInv'
    BY <1>1, ReadKeeps, ReserveWorkKeeps, AuthoriseKeeps, RecordKeeps, AbandonKeeps, ReturnKeeps DEF PassStep
  <1>2. CASE Proceed
    BY <1>1, <1>2, WakeKeeps, ReserveReleaseKeeps, InitialiseDatabaseKeeps, AdmitKeeps, RotateKeeps,
       OpenSectionKeeps, CloseSectionKeeps, OpenFtsKeeps, IndexEntriesKeeps, CloseFtsKeeps,
       ReleaseAdmissionKeeps DEF Proceed
  <1>3. ASSUME NEW w \in Workspaces, Populate(w) PROVE JobInv'
    BY <1>3, PopulateKeeps
  <1>4. CASE Kill
    BY <1>4, KillKeeps
  <1>5. CASE UNCHANGED vars
    BY <1>5 DEF vars, budgetVars, jobVars, JobInv, TypeOK, BudgetTypeOK, HeldApart, PassesFit, AllocationsFit,
                Expected, InFlight, Host, Counted, Accounted, Provided
  <1> QED BY <1>2, <1>3, <1>4, <1>5 DEF Next

LEMMA JobInvAlways == Spec => []JobInv
  BY JobStarts, JobInvInductive, PTL DEF Spec

-------------------------------------------------------------------------------
(* What follows from it. *)

\* Ledger, allocations, stages and the ring keep their types.
THEOREM TypeCorrect == Spec => []TypeOK
  <1>1. JobInv => TypeOK
    BY DEF JobInv
  <1> QED BY <1>1, JobInvAlways, PTL

\* No statement is in two hands, or executed and still in one.
THEOREM StatementsHeldApart == Spec => []HeldApart
  <1>1. JobInv => HeldApart
    BY DEF JobInv
  <1> QED BY <1>1, JobInvAlways, PTL

\* The limit of an invocation holds for all nestings and orders of reservations
\* (runtime/d1-budget.ts:66).
THEOREM LimitHolds == Spec => []LimitKept
  <1>1. ASSUME JobInv PROVE LimitKept
    <2>1. executed \in SUBSET Statements /\ used = Cardinality(executed)
      BY <1>1 DEF JobInv, TypeOK, BudgetTypeOK, Counted
    <2> QED BY <2>1, BudgetAssumption, FS_Subset DEF LimitKept
  <1> QED BY <1>1, JobInvAlways, PTL

\* What a mutation that was sent and the release of the admission need is there.
THEOREM PromisesAreAffordable == Spec => []PromisesAffordable
  <1>1. ASSUME JobInv PROVE PromisesAffordable
    <2>0. Ledger /\ JobTypes /\ AllocationsFit /\ PassesFit /\ Provided
      BY <1>1, InvParts
    <2>1. ASSUME NEW p \in AllPasses, pass[p] = "sent" PROVE Remaining(p) >= Work - 1
      <3>1. status[p] = "open"
        BY <2>0, <2>1, Names DEF AllocationsFit, PassesFit, Expected, InFlight
      <3> QED BY <2>0, <2>1, <3>1 DEF Provided, Remaining
    <2>2. ASSUME stage \notin {"asleep", "waking"} PROVE Remaining(Final) >= ReleaseReserve - tries
      <3>1. status[Final] = "open"
        BY <2>0, <2>2, Names DEF AllocationsFit, Expected
      <3> QED BY <2>0, <2>2, <3>1 DEF Provided, Remaining
    <2> QED BY <2>1, <2>2 DEF PromisesAffordable
  <1> QED BY <1>1, JobInvAlways, PTL

\* When the job leaves, what it has not executed is at the root or kept for the
\* release of the admission, and nowhere else.
THEOREM NothingIsStranded == Spec => []NothingStranded
  <1>1. ASSUME JobInv, stage = "leaving"
        PROVE  Remaining(Root) + used = Cardinality(Statements) - Remaining(Final)
    <2>0. Ledger /\ JobTypes /\ AllocationsFit /\ PassesFit
      BY <1>1, InvParts
    <2>1. status[Root] = "open" /\ status[Final] = "open"
      BY <1>1, <2>0, Names DEF AllocationsFit, Expected
    <2>2. \A a \in Allocations \ {Root, Final} : available[a] = {}
      BY <1>1, <2>0, Names DEF AllocationsFit, Expected, PassesFit, InFlight, Ledger, HeldApart
    <2> DEFINE R == available[Root]  F == available[Final]  E == executed
    <2>3. Statements = (R \cup F) \cup E
      BY <2>0, <2>2, Names DEF Ledger, Accounted, BudgetTypeOK
    <2>4. R \cap F = {} /\ (R \cup F) \cap E = {}
      BY <2>0, Names DEF Ledger, HeldApart
    <2>5. /\ IsFiniteSet(R) /\ IsFiniteSet(F) /\ IsFiniteSet(E)
          /\ {Cardinality(R), Cardinality(F), Cardinality(E)} \subseteq Nat
      BY <2>0, Names, HoldingsFinite DEF Ledger
    <2>6. Cardinality(R \cap F) = 0 /\ Cardinality((R \cup F) \cap E) = 0
      BY <2>4, FS_EmptySet
    <2>7. /\ IsFiniteSet(R \cup F)
          /\ Cardinality(R \cup F) = Cardinality(R) + Cardinality(F)
      <3> HIDE DEF R, F, E
      <3>1. /\ IsFiniteSet(R \cup F)
            /\ Cardinality(R \cup F) = Cardinality(R) + Cardinality(F) - Cardinality(R \cap F)
        BY <2>5, FS_Union
      <3>2. Cardinality(R) \in Nat /\ Cardinality(F) \in Nat
        BY <2>5
      <3> QED BY <2>6, <3>1, <3>2
    <2>8. Cardinality(Statements) = Cardinality(R) + Cardinality(F) + Cardinality(E)
      <3>1. Statements = (R \cup F) \cup E
        BY <2>3
      <3> HIDE DEF R, F, E
      <3>2. Cardinality((R \cup F) \cup E) = Cardinality(R \cup F) + Cardinality(E) - Cardinality((R \cup F) \cap E)
        BY <2>5, <2>7, FS_Union
      <3>3. Cardinality(R) \in Nat /\ Cardinality(F) \in Nat /\ Cardinality(E) \in Nat
        BY <2>5
      <3> QED BY <2>6, <2>7, <3>1, <3>2, <3>3
    <2> QED BY <2>0, <2>1, <2>5, <2>8 DEF Remaining, Ledger, Counted
  <1>2. JobInv => NothingStranded
    BY <1>1 DEF NothingStranded
  <1> QED BY <1>2, JobInvAlways, PTL
===============================================================================
