--------------------------- MODULE DeviceDeliveries ---------------------------
(* What push/send.ts has delivered to which device: the subscriptions in D1,   *)
(* the counts that only a reader of the history sees, and what the runs        *)
(* promise of them, however they overlap and wherever they are killed.         *)
EXTENDS Naturals, FiniteSets

CONSTANTS Workspaces, Devices, \* numbered in their order
          Width,       \* MAX_PUSH_WORKSPACES_PER_RUN
          Fetches,     \* the fetch budget of a run
          MaxFails,    \* MAX_FAIL_COUNT
          MaxMoves,    \* bound on dates of an item
          MaxFaults    \* bound on overlaps, killed runs, failed puts and lost answers

ASSUME PushAssumption ==
    /\ Workspaces \subseteq Nat \ {0} /\ IsFiniteSet(Workspaces)
    /\ Devices \subseteq Nat /\ IsFiniteSet(Devices)
    /\ {Width, Fetches, MaxFails, MaxMoves} \subseteq Nat \ {0} /\ MaxFaults \in Nat

VARIABLES subs,       \* push_subscriptions
          delivered,  \* history: notifications that arrived, by device and date
          unheard,    \* history: those whose answer did not
          overlaps,   \* history: runs that took the lease while another one had it
          outdated    \* history: records of a date that had moved since it was read

Subscriptions == Workspaces \X Devices

--------------------------------------------------------------------------------
(* A subscribed device gets an item of one date once; more often only for each *)
(* overlap of two runs ("the cost of either is one duplicate notification",    *)
(* line 110), each answer that was lost, and each record of a date that had    *)
(* moved since its run read it.                                                *)
NothingTwice ==
    \A t \in DOMAIN delivered :
        t[1] \in subs => delivered[t] <= 1 + overlaps + outdated + unheard[t]
================================================================================
