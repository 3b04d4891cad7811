------------------------------- MODULE D1Budget -------------------------------
(* runtime/d1-budget.ts: the SQL statements that one scheduled invocation may  *)
(* execute, dealt out to nested allocations. A statement is a member of        *)
(* Statements and an amount is a set of that many of them, so that what an     *)
(* allocation holds and what was executed can be told apart; ledger.used       *)
(* counts as the code counts. An allocation that was closed, or that holds too *)
(* little, refuses, and the ledger remembers that something was deferred.      *)
EXTENDS Naturals, FiniteSets

CONSTANTS Statements,   \* as many as the limit
          Allocations,  \* identities for the allocations of an invocation
          Root

ASSUME BudgetAssumption == IsFiniteSet(Statements) /\ Root \in Allocations

VARIABLES available,  \* SqlAllocation.available, as statements
          status,     \* not created yet, open, or closed
          parent,     \* SqlAllocation.parent
          used, deferred, \* the ledger
          executed    \* history: the statements that were executed

budgetVars == <<available, status, parent, used, deferred, executed>>

Remaining(a) == IF status[a] = "open" THEN Cardinality(available[a]) ELSE 0
Portions(a, n) == {S \in SUBSET available[a] : Cardinality(S) = n}
Portion(a, n) == CHOOSE S \in Portions(a, n) : TRUE
Affords(a, n) == status[a] = "open" /\ Portions(a, n) # {}

NewBudget ==
    /\ available = [a \in Allocations |-> IF a = Root THEN Statements ELSE {}]
    /\ status = [a \in Allocations |-> IF a = Root THEN "open" ELSE "unborn"]
    /\ parent = [a \in Allocations |-> Root]
    /\ used = 0 /\ deferred = FALSE /\ executed = {}

MutReserve(p, c, n) ==    \* a reservation is not deducted
    /\ Affords(p, n) /\ status[c] = "unborn"
    /\ available' = [available EXCEPT ![c] = Portion(p, n)]
    /\ status' = [status EXCEPT ![c] = "open"]
    /\ parent' = [parent EXCEPT ![c] = p]
    /\ UNCHANGED <<used, deferred, executed>>

(* reserve: a child takes over n statements of its parent. *)
Reserve(p, c, n) ==
    /\ Affords(p, n) /\ status[c] = "unborn"
    /\ available' = [available EXCEPT ![p] = @ \ Portion(p, n), ![c] = Portion(p, n)]
    /\ status' = [status EXCEPT ![c] = "open"]
    /\ parent' = [parent EXCEPT ![c] = p]
    /\ UNCHANGED <<used, deferred, executed>>

(* charge: one statement, or the statements of one batch. *)
Charge(a, n) ==
    /\ Affords(a, n)
    /\ available' = [available EXCEPT ![a] = @ \ Portion(a, n)]
    /\ executed' = executed \cup Portion(a, n)
    /\ used' = used + n
    /\ UNCHANGED <<status, parent, deferred>>

(* Either of them when the allocation is closed or holds too little. *)
Defer(a, n) == /\ status[a] # "unborn" /\ ~Affords(a, n)
               /\ deferred' = TRUE
               /\ UNCHANGED <<available, status, parent, used, executed>>

MutRelease(c) ==    \* the reservation is closed with what is left in it
    /\ status[c] = "open" /\ c # Root
    /\ status' = [status EXCEPT ![c] = "closed"]
    /\ available' = [available EXCEPT ![c] = {}]
    /\ UNCHANGED <<parent, used, deferred, executed>>

(* release: what is left goes back to the parent, if that is still open. *)
Release(c) ==
    /\ status[c] = "open" /\ c # Root
    /\ status' = [status EXCEPT ![c] = "closed"]
    /\ available' = [a \in Allocations |->
                        IF a = c THEN {}
                        ELSE IF a = parent[c] /\ status[a] = "open"
                               THEN available[a] \cup available[c]
                               ELSE available[a]]
    /\ UNCHANGED <<parent, used, deferred, executed>>

BudgetStep == \/ \E p, c \in Allocations, n \in 0..Cardinality(Statements) : Reserve(p, c, n)
              \/ \E a \in Allocations, n \in 1..Cardinality(Statements) : Charge(a, n) \/ Defer(a, n)
              \/ \E c \in Allocations : Release(c)

BudgetSpec == NewBudget /\ [][BudgetStep]_budgetVars

--------------------------------------------------------------------------------
BudgetTypeOK ==
    /\ available \in [Allocations -> SUBSET Statements]
    /\ status \in [Allocations -> {"unborn", "open", "closed"}]
    /\ parent \in [Allocations -> Allocations]
    /\ used \in Nat /\ deferred \in BOOLEAN
    /\ executed \in SUBSET Statements

(* However reservations nest and in whatever order they are released: the      *)
(* invocation executes no more statements than its limit (line 66).            *)
LimitKept == used <= Cardinality(Statements)

(* No statement is in the hands of two allocations, or executed and still in   *)
(* the hands of one; only an open allocation holds any.                        *)
HeldApart ==
    /\ \A a, b \in Allocations : a # b => available[a] \cap available[b] = {}
    /\ \A a \in Allocations : available[a] \cap executed = {}
    /\ \A a \in Allocations : status[a] # "open" => available[a] = {}
================================================================================
