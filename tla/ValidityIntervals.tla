--------------------------- MODULE ValidityIntervals ---------------------------
(* The windows of memory/validity.ts: a memory is true from a date on and      *)
(* until another, or still; and which of two windows that contradict each      *)
(* other a capture ends. The memories, and what is promised of their ends,     *)
(* whatever captures, status changes, undos and edits of dates do.             *)
EXTENDS Naturals

CONSTANTS Memories,
          Latest,      \* bound: the last date
          None

ASSUME ValidityAssumption == Latest \in Nat /\ None \notin Memories \cup Nat

Times == 0..Latest
Ends == Times \cup {None}
Windows == {w \in [from : Times, until : Ends] : w.until # None => w.from <= w.until}

\* planSupersede compares windows, not the order of arrival.
SupersedePlan(old, new) ==
    IF new.from > old.from
      THEN IF \/ old.until # None /\ old.until <= new.from
              \/ new.until # None /\ (old.until = None \/ old.until >= new.until)
             THEN "none" ELSE "older"
      ELSE IF new.until # None /\ new.until <= old.from THEN "none" ELSE "newer"

-------------------------------------------------------------------------------
VARIABLES row,      \* entries and entries_trash
          edges,    \* supersedes edges: <<what replaces, what it replaced>>
          kept,     \* the edges in the trash row of a memory
          ask,      \* captures, validity updates and status changes under way
          edits     \* counter: calls that change what is there, so far

validityVars == <<row, edges, kept, ask, edits>>

Live(m) == row[m].at = "live"
Standing(m) == Live(m) /\ ~row[m].wrong

\* Half of P3, step by step: a memory that is marked wrong, forgotten or reverted to wrong lets go of
\* every memory it had ended, which takes over its own end and, if a standing memory had ended it in
\* turn, is from then on replaced by a standing one that begins there.
LinksHandOver ==
    [][\A x, y \in Memories :
          /\ Standing(x) /\ ~Standing(x)'
          /\ <<x, y>> \in edges /\ row[y].until = row[x].from
          /\ row[x].until = None \/ row[x].until > row[x].from
          => /\ row'[y].until = row[x].until
             /\ (\E z \in Memories \ {y} : <<z, x>> \in edges /\ Standing(z) /\ row[z].from = row[x].until)
                => \E z \in Memories : <<z, y>> \in edges' /\ Standing(z)' /\ row'[z].from = row'[y].until
      ]_validityVars
===============================================================================
