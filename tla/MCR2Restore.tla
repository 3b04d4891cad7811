------------------------------ MODULE MCR2Restore ------------------------------
(* Two calls for an archive of two rows and an empty one. *)
EXTENDS R2Restore, TLC

CONSTANTS whole, empty

MCRows == (whole :> 2) @@ (empty :> 0)
===============================================================================
