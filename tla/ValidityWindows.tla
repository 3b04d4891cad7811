---------------------------- MODULE ValidityWindows ----------------------------
(* memory/validity.ts with the supersede of capture/entry.ts, the statuses of  *)
(* capture/lifecycle.ts, memory/trash.ts and memory/undo.ts: when each memory  *)
(* is true, which memory ended it, and how the ends go back and forth when a   *)
(* memory is marked wrong, forgotten, restored or undone.  A start is the      *)
(* effective one; of the versions the newest is kept.  Held and protected      *)
(* memories, system jobs, workspaces, the purge of the trash and the flags on  *)
(* what was built on a memory are left out; so are vector_ids: a compare-and-  *)
(* set on them may succeed here where the code's fails.                        *)
EXTENDS ValidityIntervals

CONSTANTS Writers,
          MaxEdits     \* bound: calls that change what is there

\* The newest version: the cause in its meta, the memory it names, and the state before it.
NoVersion == [cause |-> "none", by |-> None, from |-> 0, until |-> None, wrong |-> FALSE]
Blank == [at |-> "none", from |-> 0, until |-> None, wrong |-> FALSE, revision |-> 0, newest |-> NoVersion]
Idle == [at |-> "idle"]

\* The causes of versions; those of versions about dates.
Dating == {"supersede", "retraction", "unretraction", "explicit", "propagate", "redated"}
Causes == {"none", "text", "status", "reverted"} \cup Dating

Versions == [cause : Causes, by : Memories \cup {None}, from : Times, until : Ends, wrong : BOOLEAN]
MemoryRows == [at : {"none", "live", "trash"}, from : Times, until : Ends, wrong : BOOLEAN,
               revision : Nat, newest : Versions]
Requests ==
    [at : {"idle"}]
    \cup [at : {"told", "stored"}, id : Memories, window : Windows, old : Memories,
          read : [from : Times, until : Ends, wrong : BOOLEAN, revision : Nat]]
    \cup [at : {"status"}, id : Memories, leaves : BOOLEAN]
    \cup [at : {"dates"}, id : Memories, window : Windows, moving : SUBSET Memories, from : Times, until : Ends]

TypeOK ==
    /\ row \in [Memories -> MemoryRows]
    /\ edges \subseteq {e \in Memories \X Memories : Live(e[1]) /\ Live(e[2])}
    /\ kept \in [Memories -> SUBSET (Memories \X Memories)]
    /\ ask \in [Writers -> Requests]
    /\ edits \in Nat

Init == /\ row = [m \in Memories |-> Blank]
        /\ edges = {} /\ kept = [m \in Memories |-> {}]
        /\ ask = [c \in Writers |-> Idle]
        /\ edits = 0

Counted == edits < MaxEdits /\ edits' = edits + 1

-------------------------------------------------------------------------------
(* Versions and hooks, as functions of the rows r.                             *)

Version(r, m, cause, by) ==
    [cause |-> cause, by |-> by, from |-> r[m].from, until |-> r[m].until, wrong |-> r[m].wrong]

\* The memories S get new ends, each with a version.
Ending(r, S, until, cause, by) ==
    [m \in Memories |-> IF m \in S THEN [r[m] EXCEPT !.until = until, !.newest = Version(r, m, cause, by)]
                        ELSE r[m]]

\* retractionHook: what x ended at its own start, unless x is an empty window.
EndedBy(r, x) == {y \in Memories : /\ <<x, y>> \in edges /\ r[y].at = "live" /\ r[y].until = r[x].from
                                   /\ r[x].until = None \/ r[x].until > r[x].from}
Reopened(r, x) == Ending(r, EndedBy(r, x), r[x].until, "retraction", x)

\* What had ended x in turn now ends what x had replaced; of several, any one.
Enders(r, x, y) == {z \in Memories \ {y} : /\ <<z, x>> \in edges /\ r[z].at = "live" /\ ~r[z].wrong
                                           /\ r[z].from = r[x].until}
Inherit(r, x, others) ==
    \E heir \in [EndedBy(r, x) -> Memories \cup {None}] :
        /\ \A y \in DOMAIN heir : IF Enders(r, x, y) = {} THEN heir[y] = None ELSE heir[y] \in Enders(r, x, y)
        /\ edges' = others \cup {<<heir[y], y>> : y \in {y \in DOMAIN heir : heir[y] # None}}

\* unretractionHook: what the retraction of x reopened, if nothing changed it since.
Owed(r, links, x) == {y \in Memories : /\ <<x, y>> \in links /\ r[y].at = "live" /\ r[y].until = r[x].until
                                       /\ r[y].newest.cause = "retraction" /\ r[y].newest.by = x}
Reclosed(r, links, x) == Ending(r, Owed(r, links, x), r[x].from, "unretraction", x)

-------------------------------------------------------------------------------
(* Captures.                                                                   *)

Fresh(m) == row[m].at = "none" /\ \A c \in Writers : ask[c].at = "told" => ask[c].id # m
Stored(m, w) == [row EXCEPT ![m] = [Blank EXCEPT !.at = "live", !.from = w.from, !.until = w.until]]

\* A capture that contradicts nothing, or whose plan is none.
Remember(m, w) ==
    /\ Fresh(m)
    /\ row' = Stored(m, w)
    /\ UNCHANGED <<edges, kept, ask, edits>>

\* The memory it contradicts is read, whatever its status, and the windows are compared.  One that
\* ends may still be a candidate, for dates may lie later today.  An unstated start that does not
\* come after the older one is moved behind it, which is one of the windows here.
Tell(c, m, w, old) ==
    /\ ask[c].at = "idle" /\ Fresh(m) /\ Live(old)
    /\ SupersedePlan(row[old], w) # "none"
    /\ ask' = [ask EXCEPT ![c] = [at |-> "told", id |-> m, window |-> w, old |-> old,
                                  read |-> [from |-> row[old].from, until |-> row[old].until,
                                            wrong |-> row[old].wrong, revision |-> row[old].revision]]]
    /\ UNCHANGED <<row, edges, kept, edits>>

Store(c) ==
    /\ ask[c].at = "told"
    /\ row' = Stored(ask[c].id, ask[c].window)
    /\ ask' = [ask EXCEPT ![c].at = "stored"]
    /\ UNCHANGED <<edges, kept, edits>>

\* supersedeStatements: the row that ends is compared with what was read, the other is not.
\* The edge goes by the end of the row.
Supersede(c) ==
    LET q == ask[c]
        older == SupersedePlan(q.read, q.window) = "older"
        target == IF older THEN q.old ELSE q.id
        closer == IF older THEN q.id ELSE q.old
        at == IF older THEN q.window.from ELSE q.read.from
        unchanged == /\ Standing(target)
                     /\ row[target].until = IF older THEN q.read.until ELSE q.window.until
                     /\ older => ~q.read.wrong /\ row[target].revision = q.read.revision
    IN  /\ q.at = "stored"
        /\ row' = Ending(row, IF unchanged THEN {target} ELSE {}, at, "supersede", closer)
        /\ edges' = edges \cup {e \in {<<closer, target>>} : /\ Live(closer) /\ Live(target)
                                                             /\ row'[target].until = at}
        /\ ask' = [ask EXCEPT ![c] = Idle]
        /\ UNCHANGED <<kept, edits>>

-------------------------------------------------------------------------------
(* Statuses, edits, the trash and undo.                                        *)

\* An append, an update or a merge: the row and its newest version are others.
Edit(m) ==
    /\ Live(m) /\ Counted
    /\ row' = [row EXCEPT ![m].revision = @ + 1, ![m].newest = Version(row, m, "text", None)]
    /\ UNCHANGED <<edges, kept, ask>>

Marked(m, wrong) == [row EXCEPT ![m].wrong = wrong, ![m].newest = Version(row, m, "status", None)]

\* deprecateWithValidity.  Once more on a wrong memory, it writes no version.
Deprecate(m) ==
    LET r == IF row[m].wrong THEN row ELSE Marked(m, TRUE) IN
    /\ Live(m) /\ Counted
    /\ row' = Reopened(r, m) /\ Inherit(r, m, edges)
    /\ UNCHANGED <<kept, ask>>

\* applyStatus with another status: whether the memory leaves deprecated is what was read.
ReadStatus(c, m) ==
    /\ ask[c].at = "idle" /\ Live(m) /\ Counted
    /\ ask' = [ask EXCEPT ![c] = [at |-> "status", id |-> m, leaves |-> row[m].wrong]]
    /\ UNCHANGED <<row, edges, kept>>

SetStatus(c) ==
    LET m == ask[c].id IN
    /\ ask[c].at = "status"
    /\ row' = IF ~Live(m) THEN row
              ELSE IF ask[c].leaves THEN Reclosed(Marked(m, FALSE), edges, m) ELSE Marked(m, FALSE)
    /\ ask' = [ask EXCEPT ![c] = Idle]
    /\ UNCHANGED <<edges, kept, edits>>

Of(m) == {e \in edges : m \in {e[1], e[2]}}

\* With the edges gone, the hook finds nothing.
MutForget(m, large) ==
    /\ Live(m) /\ Counted
    /\ kept' = [kept EXCEPT ![m] = IF large THEN {} ELSE Of(m)]
    /\ row' = [row EXCEPT ![m].at = "trash"]
    /\ edges' = edges \ Of(m)
    /\ UNCHANGED ask

\* forgetEntry: the hook runs before the edges and the row go.  A large memory keeps no edges.
Forget(m, large) ==
    /\ Live(m) /\ Counted
    /\ kept' = [kept EXCEPT ![m] = IF large THEN {} ELSE Of(m)]
    /\ row' = [Reopened(row, m) EXCEPT ![m].at = "trash"]
    /\ Inherit(row, m, edges \ Of(m))
    /\ UNCHANGED ask

\* restoreEntry: the edges whose other end is live come back, then the hook runs.
Restore(m) ==
    LET links == edges \cup {e \in kept[m] : \A n \in {e[1], e[2]} \ {m} : Live(n)}
        back == [row EXCEPT ![m].at = "live"]
    IN  /\ row[m].at = "trash" /\ Counted
        /\ edges' = links
        /\ kept' = [kept EXCEPT ![m] = {}]
        /\ row' = IF row[m].wrong THEN back ELSE Reclosed(back, links, m)
        /\ UNCHANGED ask

\* revertEntry: back to the state that the newest version recorded, and to its dates if the
\* version was about dates.
Undo(m) ==
    LET v == row[m].newest
        dated == v.cause \in Dating
        r == [row EXCEPT ![m].wrong = v.wrong, ![m].revision = @ + 1,
                         ![m].from = IF dated THEN v.from ELSE @,
                         ![m].until = IF dated THEN v.until ELSE @,
                         ![m].newest = Version(row, m, IF dated THEN "redated" ELSE "reverted", None)]
    IN  /\ Live(m) /\ v.cause # "none" /\ Counted
        /\ dated => <<v.from, v.until>> # <<row[m].from, row[m].until>>
        /\ \/ /\ v.wrong /\ ~row[m].wrong
              /\ row' = Reopened(r, m) /\ Inherit(r, m, edges)
           \/ /\ row[m].wrong /\ ~v.wrong
              /\ row' = Reclosed(r, edges, m) /\ UNCHANGED edges
           \/ /\ row[m].wrong = v.wrong
              /\ row' = r /\ UNCHANGED edges
        /\ UNCHANGED <<kept, ask>>

-------------------------------------------------------------------------------
(* updateEntryValidity.                                                        *)

Replaced(m) == {y \in Memories : <<m, y>> \in edges /\ row[y].until = row[m].from}

\* A start at or before that of a memory it replaced is refused.
ReadDates(c, m, w) ==
    /\ ask[c].at = "idle" /\ Live(m) /\ Counted
    /\ <<w.from, w.until>> # <<row[m].from, row[m].until>>
    /\ LET moving == IF w.from = row[m].from THEN {} ELSE Replaced(m) IN
       /\ \A y \in moving : row[y].from < w.from
       /\ ask' = [ask EXCEPT ![c] = [at |-> "dates", id |-> m, window |-> w, moving |-> moving,
                                     from |-> row[m].from, until |-> row[m].until]]
    /\ UNCHANGED <<row, edges, kept>>

\* What it replaced moves if the new start is there and the old ends still meet the old one.
SetDates(c) ==
    LET q == ask[c]
        unchanged == Live(q.id) /\ row[q.id].from = q.from /\ row[q.id].until = q.until
        r == IF unchanged THEN [row EXCEPT ![q.id].from = q.window.from, ![q.id].until = q.window.until,
                                           ![q.id].newest = Version(row, q.id, "explicit", None)]
             ELSE row
        meeting == {y \in q.moving : /\ Live(q.id) /\ r[q.id].from = q.window.from
                                     /\ Live(y) /\ r[y].until = q.from}
    IN  /\ q.at = "dates"
        /\ row' = Ending(r, meeting, q.window.from, "propagate", q.id)
        /\ ask' = [ask EXCEPT ![c] = Idle]
        /\ UNCHANGED <<edges, kept, edits>>

Next ==
    \/ \E m \in Memories : \/ \E w \in Windows : Remember(m, w)
                           \/ Edit(m)
                           \/ Deprecate(m)
                           \/ \E large \in BOOLEAN : Forget(m, large)
                           \/ Restore(m)
                           \/ Undo(m)
    \/ \E c \in Writers : \/ \E m, old \in Memories, w \in Windows : Tell(c, m, w, old)
                          \/ Store(c)
                          \/ Supersede(c)
                          \/ \E m \in Memories : ReadStatus(c, m)
                          \/ SetStatus(c)
                          \/ \E m \in Memories, w \in Windows : ReadDates(c, m, w)
                          \/ SetDates(c)

Spec == Init /\ [][Next]_validityVars

-------------------------------------------------------------------------------
(* Properties.                                                                 *)

\* P3: what a capture has closed, and nothing changed since, was closed by a memory that is live
\* and not wrong.  (src/memory/validity.ts:201.  It fails: who is in the trash while its closer is
\* marked wrong comes back closed, and a capture does not look at the closer again.)
ClosersStand ==
    \A y \in Memories : Live(y) /\ row[y].newest.cause = "supersede" => Standing(row[y].newest.by)
===============================================================================
