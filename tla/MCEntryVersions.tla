---------------------------- MODULE MCEntryVersions ----------------------------
(* Two calls, of writers or of undo, over a memory whose texts may extend each *)
(* other or not.                                                               *)
EXTENDS EntryVersions, TLC

MCTexts == {<<1>>, <<1, 2>>, <<2>>}

\* Calls are interchangeable; no property is about liveness.
Alike == Permutations(Calls)
===============================================================================
