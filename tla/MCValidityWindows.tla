--------------------------- MODULE MCValidityWindows ---------------------------
(* The validity windows under calls that come one after the other: none begins *)
(* before the one before it has ended.                                         *)
EXTENDS ValidityWindows

OneAtATime == \A c \in Writers : ask[c].at # "idle" => ask'[c] # ask[c]
InTurn == Init /\ [][Next /\ OneAtATime]_validityVars
===============================================================================
