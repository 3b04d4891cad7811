---------------------------- MODULE RestoreContract ----------------------------
(***************************************************************************)
(* What a restore promises the owner of the target: it begins over an      *)
(* empty target, nobody else touches the target until it is finished, and   *)
(* finished means that the target is the backup, row for row.               *)
(***************************************************************************)
CONSTANTS
    Backups,        \* the archives
    RowsOf(_),      \* the rows of an archive
    AnyRow          \* every row the target can hold

VARIABLES
    filling,        \* a restore is unfinished
    source,         \* the archive it restores
    content         \* the rows of the target

vars == <<filling, source, content>>

Init == filling = FALSE /\ content \subseteq AnyRow

\* Begun, or begun again with this or another archive before the first row.
Begin(b) ==
    /\ content = {}
    /\ filling' = TRUE
    /\ source' = b
    /\ content' = {}

Fill ==
    /\ filling
    /\ content \subseteq content' /\ content' \subseteq RowsOf(source)
    /\ UNCHANGED <<filling, source>>

Finish ==
    /\ filling /\ content = RowsOf(source)
    /\ filling' = FALSE
    /\ UNCHANGED <<source, content>>

\* Normal operation.
Use ==
    /\ ~filling
    /\ content' \subseteq AnyRow
    /\ UNCHANGED <<filling, source>>

Next == (\E b \in Backups : Begin(b)) \/ Fill \/ Finish \/ Use

Spec == Init /\ [][Next]_vars
===============================================================================
