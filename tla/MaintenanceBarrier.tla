-------------------------- MODULE MaintenanceBarrier --------------------------
(***************************************************************************)
(* What the write fence promises, without leases, clocks or SQL: ordinary  *)
(* requests share the corpus; a frozen corpus (snapshot, cutover) and a    *)
(* corpus being restored belong to nobody else.  Raising a barrier takes   *)
(* every permission back, and no permission is granted behind it.          *)
(***************************************************************************)
CONSTANT Requests

VARIABLES
    mode,       \* "shared", "frozen" or "restoring"
    holders,    \* requests that may change the corpus
    touched     \* a request has changed it since a barrier was last raised

vars == <<mode, holders, touched>>

TypeOK ==
    /\ mode \in {"shared", "frozen", "restoring"}
    /\ holders \subseteq Requests
    /\ touched \in BOOLEAN

Init ==
    /\ mode \in {"shared", "frozen"}
    /\ holders = {}
    /\ touched = FALSE

\* Permissions are granted only while nobody owns the corpus; some may lapse.
Admit(r) ==
    /\ mode = "shared"
    /\ holders' \subseteq holders \cup {r}
    /\ UNCHANGED <<mode, touched>>

Leave ==
    /\ holders' \subseteq holders
    /\ UNCHANGED <<mode, touched>>

Change ==
    /\ mode = "shared" /\ holders # {}
    /\ touched' = TRUE
    /\ UNCHANGED <<mode, holders>>

Raise ==
    /\ mode = "shared"
    /\ mode' \in {"frozen", "restoring"}
    /\ holders' = {}
    /\ touched' = FALSE

Lower ==
    /\ mode # "shared"
    /\ mode' = "shared"
    /\ UNCHANGED <<holders, touched>>

Next ==
    \/ \E r \in Requests : Admit(r)
    \/ Leave
    \/ Change
    \/ Raise
    \/ Lower

Spec == Init /\ [][Next]_vars

\* Behind a barrier nobody holds a permission and nothing has been changed.
Exclusive == mode # "shared" => holders = {} /\ ~touched
===============================================================================
