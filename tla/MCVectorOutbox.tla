---------------------------- MODULE MCVectorOutbox ----------------------------
(* One memory; of the uploads, u1 is a capture, u2 an update, p a passage. *)
EXTENDS VectorOutbox

CONSTANTS u1, u2, p
===============================================================================
