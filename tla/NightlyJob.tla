------------------------------ MODULE NightlyJob ------------------------------
(* runtime/scheduled.ts, nightly_maintenance, over the budget of D1Budget: the *)
(* order of initialisation, admission, rotation, concurrent passes, sections   *)
(* and release, and which allocation pays for each. A pass reads, then, for    *)
(* each remote mutation, reserves all the statements it will need, authorises  *)
(* the mutation, sends it and records its receipt (capture/store.ts,           *)
(* vectorize/cleanup.ts, staleness/pass.ts). One round stands for all rounds.  *)
EXTENDS D1Budget

CONSTANTS Final, Fts, Section, \* allocations of the invocation itself
          Passes, \* the passes run with allSettled; a pass names its own reservation too
          Inner,            \* the pass that runs inside Section
          ReleaseReserve, Work, SectionSize, SectionMin, FtsSize, FtsMin,
          Workspaces,       \* numbered in the order of their names
          NoSlice

ASSUME JobAssumption ==
    /\ {Final, Fts, Section, Inner} \cup Passes \subseteq Allocations \ {Root}
    /\ Section # Fts /\ Final \notin {Section, Fts}
    /\ Inner \notin {Final, Fts, Section} /\ Passes \cap {Final, Fts, Section, Inner} = {}
    /\ {ReleaseReserve, Work} \subseteq Nat \ {0}
    /\ {SectionSize, SectionMin, FtsSize, FtsMin} \subseteq Nat
    /\ ReleaseReserve <= Cardinality(Statements)
    /\ Workspaces \subseteq Nat /\ NoSlice \notin Workspaces

VARIABLES stage, pass,
          schemaOld,  \* initializeDatabase still has something to change
          tries,      \* attempts to release the admission that failed
          cursor,     \* maintenance_cursor
          present,    \* workspaces that have entries
          slice       \* the workspace of this night

jobVars == <<stage, pass, schemaOld, tries, cursor, present, slice>>
vars == <<budgetVars, jobVars>>

AllPasses == Passes \cup {Inner}
Smaller(m, n) == IF m < n THEN m ELSE n

Init == /\ NewBudget
        /\ stage = "asleep" /\ pass = [p \in AllPasses |-> "done"]
        /\ schemaOld \in BOOLEAN /\ tries = 0
        /\ cursor = 0 /\ present \in SUBSET Workspaces /\ slice = NoSlice

(* Entries of a workspace come and go with requests. *)
Populate(w) == /\ present' = IF w \in present THEN present \ {w} ELSE present \cup {w}
               /\ UNCHANGED <<budgetVars, stage, pass, schemaOld, tries, cursor, slice>>

Enter(next) == stage' = next /\ UNCHANGED <<pass, schemaOld, tries, cursor, present, slice>>

(* A new invocation, a new ledger. *)
Wake == /\ stage = "asleep"
        /\ available' = [a \in Allocations |-> IF a = Root THEN Statements ELSE {}]
        /\ status' = [a \in Allocations |-> IF a = Root THEN "open" ELSE "unborn"]
        /\ parent' = [a \in Allocations |-> Root]
        /\ used' = 0 /\ deferred' = FALSE /\ executed' = {}
        /\ stage' = "waking" /\ tries' = 0 /\ slice' = NoSlice
        /\ pass' = [p \in AllPasses |-> "done"]
        /\ UNCHANGED <<schemaOld, cursor, present>>

(* reserveD1Sql for the release, before the first await. *)
ReserveRelease == /\ stage = "waking" /\ Reserve(Root, Final, ReleaseReserve) /\ Enter("schema")

(* initializeDatabase; a night that changed the schema does nothing else. *)
InitialiseDatabase ==
    /\ stage = "schema"
    /\ \/ /\ Charge(Root, 1)
          /\ schemaOld' = FALSE
          /\ stage' = IF schemaOld THEN "asleep" ELSE "admission"
          /\ UNCHANGED <<pass, tries, cursor, present, slice>>
       \/ Defer(Root, 1) /\ Enter("asleep")

(* beginMemoryWriteAdmission: the insert and the read of the barrier. *)
Admit == /\ stage = "admission"
         /\ \/ Charge(Root, 1) /\ Enter("rotation")
            \/ Charge(Root, 1) /\ Enter("asleep")
            \/ Defer(Root, 1) /\ Enter("asleep")

MutNextWorkspace ==    \* the ring has no way back to its beginning
    LET after == {w \in present : w > cursor}
    IN IF after # {} THEN CHOOSE w \in after : \A v \in after : w <= v ELSE NoSlice

(* nextWorkspace: the first after the cursor, or else the very first. *)
NextWorkspace ==
    LET after == {w \in present : w > cursor}
        ring == IF after # {} THEN after ELSE present
    IN IF ring # {} THEN CHOOSE w \in ring : \A v \in ring : w <= v ELSE NoSlice

(* Its read and its write each take a statement; a failure means no slice.     *)
Rotate == /\ stage = "rotation"
          /\ \/ /\ NextWorkspace # NoSlice /\ Charge(Root, 2)
                /\ slice' = NextWorkspace /\ cursor' = NextWorkspace
             \/ /\ NextWorkspace = NoSlice /\ Charge(Root, 1)
                /\ UNCHANGED <<slice, cursor>>
             \/ Defer(Root, 2) /\ UNCHANGED <<slice, cursor>>
          /\ pass' = [p \in AllPasses |-> IF p \in Passes THEN "reading" ELSE "done"]
          /\ stage' = "passes"
          /\ UNCHANGED <<schemaOld, tries, present>>

Host(p) == IF p = Inner THEN Section ELSE Root
MovePass(p, to) == /\ pass' = [pass EXCEPT ![p] = to]
                   /\ UNCHANGED <<stage, schemaOld, tries, cursor, present, slice>>

Read(p) == /\ pass[p] = "reading"
           /\ \/ Charge(Host(p), 1) /\ MovePass(p, "candidate")
              \/ Charge(Host(p), 1) /\ MovePass(p, "done")
              \/ Defer(Host(p), 1) /\ MovePass(p, "done")

MutReserveWork(p) ==    \* the receipt is not counted
    /\ pass[p] = "candidate"
    /\ \/ Reserve(Host(p), p, Work - 1) /\ MovePass(p, "reserved")
       \/ Defer(Host(p), Work - 1) /\ MovePass(p, "done")

ReserveWork(p) == /\ pass[p] = "candidate"
                  /\ \/ Reserve(Host(p), p, Work) /\ MovePass(p, "reserved")
                     \/ Defer(Host(p), Work) /\ MovePass(p, "done")

(* The remote mutation is on its way from here on. *)
Authorise(p) == /\ pass[p] = "reserved"
                /\ \/ Charge(p, 1) /\ MovePass(p, "sent")
                   \/ Defer(p, 1) /\ MovePass(p, "settled")

Record(p) == /\ pass[p] = "sent"
             /\ \/ Charge(p, Work - 1) /\ MovePass(p, "settled")
                \/ Defer(p, Work - 1) /\ MovePass(p, "settled")

(* The call fails, and its journal is left for another night. *)
Abandon(p) == pass[p] \in {"reserved", "sent"} /\ UNCHANGED budgetVars /\ MovePass(p, "settled")

Return(p) == pass[p] = "settled" /\ Release(p) /\ MovePass(p, "done")

PassStep(p) == Read(p) \/ ReserveWork(p) \/ Authorise(p) \/ Record(p) \/ Abandon(p) \/ Return(p)

(* Promise.allSettled, then index maintenance in a section of its own. *)
OpenSection ==
    /\ stage = "passes" /\ \A p \in Passes : pass[p] = "done"
    /\ \/ /\ Remaining(Root) >= SectionMin
          /\ Reserve(Root, Section, Smaller(SectionSize, Remaining(Root)))
          /\ stage' = "section" /\ pass' = [pass EXCEPT ![Inner] = "reading"]
          /\ UNCHANGED <<schemaOld, tries, cursor, present, slice>>
       \/ Remaining(Root) < SectionMin /\ UNCHANGED budgetVars /\ Enter("fts")

CloseSection == stage = "section" /\ pass[Inner] = "done" /\ Release(Section) /\ Enter("fts")

(* runFtsMaintenance on what is left; it stops where its statements end. *)
OpenFts == /\ stage = "fts"
           /\ \/ /\ Remaining(Root) >= FtsMin
                 /\ Reserve(Root, Fts, Smaller(FtsSize, Remaining(Root))) /\ Enter("indexing")
              \/ Remaining(Root) < FtsMin /\ UNCHANGED budgetVars /\ Enter("leaving")

IndexEntries == stage = "indexing" /\ (Charge(Fts, 1) \/ Defer(Fts, 1)) /\ Enter("indexing")
CloseFts == stage = "indexing" /\ Release(Fts) /\ Enter("leaving")

(* finishAdmission, from the allocation kept for it, at most three times. *)
ReleaseAdmission ==
    /\ stage = "leaving"
    /\ \/ Charge(Final, 1) /\ Enter("asleep")
       \/ /\ Charge(Final, 1) /\ tries < ReleaseReserve - 1
          /\ tries' = tries + 1
          /\ UNCHANGED <<stage, pass, schemaOld, cursor, present, slice>>
       \/ Defer(Final, 1) /\ Enter("asleep")

(* The Worker is killed, and its passes with it. *)
Kill == /\ stage \notin {"asleep", "waking"} /\ stage' = "asleep"
        /\ pass' = [p \in AllPasses |-> "done"]
        /\ UNCHANGED <<budgetVars, schemaOld, tries, cursor, present, slice>>

Proceed == \/ Wake \/ ReserveRelease \/ InitialiseDatabase \/ Admit \/ Rotate
           \/ \E p \in AllPasses : PassStep(p)
           \/ OpenSection \/ CloseSection \/ OpenFts \/ IndexEntries \/ CloseFts \/ ReleaseAdmission

Next == Proceed \/ Kill \/ \E w \in Workspaces : Populate(w)

Spec == Init /\ [][Next]_vars

(* The cron comes back; and the Worker is not killed, the store not locked,    *)
(* every single night before the rotation.                                     *)
Fairness == /\ WF_vars(Proceed)
            /\ SF_vars(InitialiseDatabase) /\ SF_vars(Admit /\ stage' = "rotation") /\ SF_vars(Rotate)

--------------------------------------------------------------------------------
TypeOK ==
    /\ BudgetTypeOK
    /\ stage \in {"asleep", "waking", "schema", "admission", "rotation", "passes",
                  "section", "fts", "indexing", "leaving"}
    /\ pass \in [AllPasses -> {"reading", "candidate", "reserved", "sent", "settled", "done"}]
    /\ schemaOld \in BOOLEAN /\ tries \in 0..ReleaseReserve
    /\ cursor \in Workspaces \cup {0}
    /\ present \in SUBSET Workspaces /\ slice \in Workspaces \cup {NoSlice}

(* Whatever else the night has spent: a remote mutation that was sent can be   *)
(* recorded and the admission can be released, for what they need was set      *)
(* aside before them ("ordinary work cannot consume them").                    *)
PromisesAffordable ==
    /\ \A p \in AllPasses : pass[p] = "sent" => Remaining(p) >= Work - 1
    /\ stage \notin {"asleep", "waking"} => Remaining(Final) >= ReleaseReserve - tries

(* What the passes and sections reserved and did not use is there for what     *)
(* comes after them: nothing is stranded in a reservation that was closed.     *)
NothingStranded ==
    stage = "leaving" =>
        Remaining(Root) + used = Cardinality(Statements) - Remaining(Final)

(* The inductive invariant (NightlyJobProofs): which allocations are open at   *)
(* each stage and from whom they have what they hold, that every statement is  *)
(* held or executed, and what the reservations that are counted on still hold. *)
InFlight(p) == pass[p] \in {"reserved", "sent", "settled"}
Expected(a) == \/ a = Root
               \/ a = Final /\ stage # "waking"
               \/ a = Section /\ stage = "section"
               \/ a = Fts /\ stage = "indexing"
               \/ a \in AllPasses /\ InFlight(a)

PassesFit == /\ \A p \in Passes : pass[p] # "done" => stage = "passes"
             /\ pass[Inner] # "done" => stage = "section"
AllocationsFit ==
    stage # "asleep" =>
        /\ \A a \in Allocations : (status[a] = "open") <=> Expected(a)
        /\ \A p \in AllPasses : InFlight(p) => parent[p] = Host(p)
        /\ \A a \in {Section, Fts} : status[a] = "open" => parent[a] = Root
Counted == used = Cardinality(executed)
Accounted == \A s \in Statements : s \in executed \/ \E a \in Allocations : s \in available[a]
Provided ==
    /\ \A p \in AllPasses : pass[p] = "reserved" => Cardinality(available[p]) >= Work
    /\ \A p \in AllPasses : pass[p] = "sent" => Cardinality(available[p]) >= Work - 1
    /\ stage \notin {"asleep", "waking"} => Cardinality(available[Final]) >= ReleaseReserve - tries

JobInv == TypeOK /\ HeldApart /\ PassesFit /\ AllocationsFit /\ Counted /\ Accounted /\ Provided

(* Every workspace that keeps its entries has its night again and again. *)
TurnsComeRound ==
    \A w \in Workspaces : []<>(slice = w) \/ []<>(w \notin present)
================================================================================
