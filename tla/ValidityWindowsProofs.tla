------------------------- MODULE ValidityWindowsProofs -------------------------
(* Proofs about ValidityWindows for any memories, any dates, any number of     *)
(* calls under way and any bound on the calls.                                 *)
EXTENDS ValidityWindows, TLAPS

-------------------------------------------------------------------------------
(* The inductive invariant.                                                    *)

\* The rows and the edges.  Edges join live memories and none replaces itself.  A version about
\* dates is of the status the memory still has: what sets the status writes a version of its own.
RowsInv(r, links) ==
    /\ r \in [Memories -> MemoryRows]
    /\ links \subseteq {e \in Memories \X Memories : r[e[1]].at = "live" /\ r[e[2]].at = "live"}
    /\ \A e \in links : e[1] # e[2]
    /\ \A m \in Memories : r[m].newest.cause \in Dating => r[m].newest.wrong = r[m].wrong

\* The edges in the trash and the calls under way, which lead to no such edge either.
CallsInv ==
    /\ kept \in [Memories -> SUBSET (Memories \X Memories)]
    /\ \A m \in Memories : \A e \in kept[m] : e[1] # e[2]
    /\ ask \in [Writers -> Requests]
    /\ \A c \in Writers : ask[c].at \in {"told", "stored"} => ask[c].id # ask[c].old
    /\ edits \in Nat

WindowsInv == RowsInv(row, edges) /\ CallsInv

-------------------------------------------------------------------------------
(* What the functions of the rows do.                                          *)

LEMMA NoneIsNoDate == None \notin Memories /\ None \notin Times /\ Times \subseteq Ends
  BY ValidityAssumption DEF Times, Ends

LEMMA VersionType ==
  ASSUME NEW r \in [Memories -> MemoryRows], NEW m \in Memories, NEW cause \in Causes,
         NEW by \in Memories \cup {None}
  PROVE  /\ Version(r, m, cause, by) \in Versions
         /\ Version(r, m, cause, by).wrong = r[m].wrong
  BY DEF Version, Versions, MemoryRows

\* From r to e the memory m has got at most another end, and a version of it.
Unended(r, e, m) ==
    /\ e[m].at = r[m].at /\ e[m].from = r[m].from /\ e[m].wrong = r[m].wrong
    /\ (r[m].newest.cause \in Dating => r[m].newest.wrong = r[m].wrong)
          => (e[m].newest.cause \in Dating => e[m].newest.wrong = e[m].wrong)

LEMMA EndingFacts ==
  ASSUME NEW r \in [Memories -> MemoryRows], NEW S, NEW until \in Ends, NEW cause \in Causes,
         NEW by \in Memories \cup {None}
  PROVE  /\ Ending(r, S, until, cause, by) \in [Memories -> MemoryRows]
         /\ \A m \in Memories : Unended(r, Ending(r, S, until, cause, by), m)
         /\ \A m \in Memories : Ending(r, S, until, cause, by)[m].until = IF m \in S THEN until ELSE r[m].until
  <1> DEFINE e == Ending(r, S, until, cause, by)
  <1>1. SUFFICES ASSUME NEW m \in Memories
                 PROVE  /\ e[m] \in MemoryRows
                        /\ Unended(r, e, m)
                        /\ e[m].until = IF m \in S THEN until ELSE r[m].until
    BY DEF Ending
  <1>2. Version(r, m, cause, by) \in Versions /\ Version(r, m, cause, by).wrong = r[m].wrong
    BY VersionType
  <1>3. CASE m \in S
    <2>1. e[m] = [r[m] EXCEPT !.until = until, !.newest = Version(r, m, cause, by)]
      BY <1>3 DEF Ending
    <2>2. r[m] \in MemoryRows
      OBVIOUS
    <2> QED
      BY <1>2, <1>3, <2>1, <2>2 DEF MemoryRows, Unended
  <1>4. CASE m \notin S
    BY <1>4 DEF Ending, Unended
  <1> QED
    BY <1>3, <1>4

LEMMA InheritFacts ==
  ASSUME NEW r, NEW x, NEW others, Inherit(r, x, others)
  PROVE  /\ others \subseteq edges'
         /\ \A e \in edges' \ others : \E y \in EndedBy(r, x) : \E z \in Enders(r, x, y) : e = <<z, y>>
         /\ \A y \in EndedBy(r, x) : Enders(r, x, y) # {}
                                     => \E z \in Enders(r, x, y) : <<z, y>> \in edges'
  <1>1. PICK heir \in [EndedBy(r, x) -> Memories \cup {None}] :
             /\ \A y \in EndedBy(r, x) : IF Enders(r, x, y) = {} THEN heir[y] = None
                                         ELSE heir[y] \in Enders(r, x, y)
             /\ edges' = others \cup {<<heir[y], y>> : y \in {y \in EndedBy(r, x) : heir[y] # None}}
    BY DEF Inherit
  <1>2. \A y \in EndedBy(r, x) : heir[y] # None <=> heir[y] \in Enders(r, x, y)
    BY <1>1, NoneIsNoDate DEF Enders
  <1> QED
    BY <1>1, <1>2

-------------------------------------------------------------------------------
(* What the steps do to the rows and the edges.                                *)

LEMMA InvTypes == WindowsInv => TypeOK
  BY DEF WindowsInv, TypeOK, RowsInv, CallsInv, Live

LEMMA ReopenedFacts ==
  ASSUME NEW r \in [Memories -> MemoryRows], NEW x \in Memories
  PROVE  /\ Reopened(r, x) \in [Memories -> MemoryRows]
         /\ \A m \in Memories : Unended(r, Reopened(r, x), m)
         /\ \A m \in EndedBy(r, x) : Reopened(r, x)[m].until = r[x].until
         /\ \A m \in Memories \ EndedBy(r, x) : Reopened(r, x)[m].until = r[m].until
  <1> DEFINE S == EndedBy(r, x)
             until == r[x].until
             cause == "retraction"
             e == Ending(r, S, until, cause, x)
  <1>1. until \in Ends /\ cause \in Causes /\ x \in Memories \cup {None}
    BY DEF MemoryRows, Causes, Dating
  <1>2. /\ e \in [Memories -> MemoryRows]
        /\ \A m \in Memories : Unended(r, e, m)
        /\ \A m \in Memories : e[m].until = IF m \in S THEN until ELSE r[m].until
    <2> HIDE DEF S, until, cause
    <2> QED
      BY <1>1, EndingFacts
  <1>3. e = Reopened(r, x)
    BY DEF Reopened
  <1>4. EndedBy(r, x) \subseteq Memories
    BY DEF EndedBy
  <1> HIDE DEF e
  <1> QED
    BY <1>2, <1>3, <1>4

LEMMA ReclosedFacts ==
  ASSUME NEW r \in [Memories -> MemoryRows], NEW x \in Memories, NEW links
  PROVE  /\ Reclosed(r, links, x) \in [Memories -> MemoryRows]
         /\ \A m \in Memories : Unended(r, Reclosed(r, links, x), m)
  <1> DEFINE S == Owed(r, links, x)
             until == r[x].from
             cause == "unretraction"
             e == Ending(r, S, until, cause, x)
  <1>1. until \in Ends /\ cause \in Causes /\ x \in Memories \cup {None}
    BY NoneIsNoDate DEF MemoryRows, Causes, Dating
  <1>2. e \in [Memories -> MemoryRows] /\ \A m \in Memories : Unended(r, e, m)
    <2> HIDE DEF S, until, cause
    <2> QED
      BY <1>1, EndingFacts
  <1>3. e = Reclosed(r, links, x)
    BY DEF Reclosed
  <1> HIDE DEF e
  <1> QED
    BY <1>2, <1>3

\* Rows whose memories got other ends go on with the same edges.
LEMMA UnendedKeeps ==
  ASSUME NEW r, NEW links, RowsInv(r, links), NEW e \in [Memories -> MemoryRows],
         \A m \in Memories : Unended(r, e, m)
  PROVE  RowsInv(e, links)
  BY DEF RowsInv, Unended

\* What a retraction of x replaces is not x, nor replaced by x.
LEMMA InheritedEdges ==
  ASSUME NEW r, NEW x \in Memories, RowsInv(r, edges), NEW others \in SUBSET edges, Inherit(r, x, others)
  PROVE  \A e \in edges' \ others : /\ e \in Memories \X Memories /\ e[1] # e[2]
                                    /\ r[e[1]].at = "live" /\ r[e[2]].at = "live"
                                    /\ e[1] # x /\ e[2] # x
  <1> SUFFICES ASSUME NEW e \in edges' \ others
               PROVE  /\ e \in Memories \X Memories /\ e[1] # e[2]
                      /\ r[e[1]].at = "live" /\ r[e[2]].at = "live"
                      /\ e[1] # x /\ e[2] # x
    OBVIOUS
  <1>1. PICK y \in EndedBy(r, x) : \E z \in Enders(r, x, y) : e = <<z, y>>
    BY InheritFacts
  <1>2. PICK z \in Enders(r, x, y) : e = <<z, y>>
    BY <1>1
  <1>3. y \in Memories /\ <<x, y>> \in edges /\ r[y].at = "live"
    BY <1>1 DEF EndedBy
  <1>4. z \in Memories /\ z # y /\ <<z, x>> \in edges /\ r[z].at = "live"
    BY <1>2 DEF Enders
  <1>5. <<x, y>>[1] # <<x, y>>[2] /\ <<z, x>>[1] # <<z, x>>[2]
    BY <1>3, <1>4 DEF RowsInv
  <1> QED
    BY <1>2, <1>3, <1>4, <1>5

\* The hook of a retraction, when x stays.
LEMMA RetractionKeeps ==
  ASSUME NEW r, NEW x \in Memories, RowsInv(r, edges), Inherit(r, x, edges)
  PROVE  RowsInv(Reopened(r, x), edges')
  <1>1. r \in [Memories -> MemoryRows]
    BY DEF RowsInv
  <1>2. RowsInv(r, edges')
    <2>1. edges \subseteq edges'
      BY InheritFacts
    <2>2. \A e \in edges' \ edges : /\ e \in Memories \X Memories /\ e[1] # e[2]
                                   /\ r[e[1]].at = "live" /\ r[e[2]].at = "live"
      BY InheritedEdges
    <2> QED
      BY <2>1, <2>2 DEF RowsInv
  <1> QED
    BY <1>1, <1>2, ReopenedFacts, UnendedKeeps

\* A memory that is changed stays where it is or becomes live.
LEMMA OneRowKeeps ==
  ASSUME NEW r, NEW links, RowsInv(r, links), NEW m \in Memories, NEW new \in MemoryRows,
         new.at \in {r[m].at, "live"},
         new.newest.cause \in Dating => new.newest.wrong = new.wrong
  PROVE  RowsInv([r EXCEPT ![m] = new], links)
  <1> DEFINE e == [r EXCEPT ![m] = new]
  <1>1. e \in [Memories -> MemoryRows]
    BY DEF RowsInv
  <1>2. e[m] = new /\ \A n \in Memories \ {m} : e[n] = r[n]
    BY DEF RowsInv
  <1> HIDE DEF e
  <1>3. \A n \in Memories : r[n].at = "live" => e[n].at = "live"
    BY <1>2
  <1>4. RowsInv(e, links)
    BY <1>1, <1>2, <1>3 DEF RowsInv
  <1> QED
    BY <1>4 DEF e

LEMMA BlankType == Blank \in MemoryRows /\ Blank.newest.cause = "none" /\ "none" \notin Dating
  BY ValidityAssumption DEF Blank, NoVersion, MemoryRows, Versions, Causes, Dating, Times, Ends

LEMMA StoredKeeps ==
  ASSUME NEW m \in Memories, NEW w \in Windows, RowsInv(row, edges)
  PROVE  RowsInv(Stored(m, w), edges)
  <1> DEFINE new == [Blank EXCEPT !.at = "live", !.from = w.from, !.until = w.until]
  <1>0. w.from \in Times /\ w.until \in Ends
    BY DEF Windows
  <1>1. new \in MemoryRows /\ new.at = "live" /\ new.newest.cause = "none"
    BY <1>0, BlankType DEF MemoryRows
  <1> HIDE DEF new
  <1>3. RowsInv([row EXCEPT ![m] = new], edges)
    BY <1>1, BlankType, OneRowKeeps
  <1> QED
    BY <1>3 DEF Stored, new

LEMMA MarkedKeeps ==
  ASSUME NEW m \in Memories, NEW wrong \in BOOLEAN, RowsInv(row, edges)
  PROVE  /\ RowsInv(Marked(m, wrong), edges)
         /\ \A n \in Memories \ {m} : Marked(m, wrong)[n] = row[n]
         /\ Marked(m, wrong)[m].at = row[m].at /\ Marked(m, wrong)[m].wrong = wrong
         /\ Marked(m, wrong)[m].from = row[m].from /\ Marked(m, wrong)[m].until = row[m].until
  <1> DEFINE v == Version(row, m, "status", None)
             new == [row[m] EXCEPT !.wrong = wrong, !.newest = v]
  <1>1. row \in [Memories -> MemoryRows] /\ row[m] \in MemoryRows
    BY DEF RowsInv
  <1>2. v \in Versions /\ v.cause = "status"
    <2>1. "status" \in Causes
      BY DEF Causes
    <2> QED
      BY <1>1, <2>1, VersionType DEF Version
  <1>3. "status" \notin Dating
    BY DEF Dating
  <1>4. Marked(m, wrong) = [row EXCEPT ![m] = new]
    BY <1>1 DEF Marked
  <1> HIDE DEF v
  <1>5. /\ new \in MemoryRows /\ new.at = row[m].at /\ new.newest = v /\ new.wrong = wrong
        /\ new.from = row[m].from /\ new.until = row[m].until
    BY <1>1, <1>2 DEF MemoryRows
  <1> HIDE DEF new
  <1>6. RowsInv([row EXCEPT ![m] = new], edges)
    BY <1>2, <1>3, <1>5, OneRowKeeps
  <1> QED
    BY <1>1, <1>4, <1>5, <1>6

-------------------------------------------------------------------------------
(* The invariant, step by step.                                                *)

LEMMA Asked ==
  ASSUME CallsInv, NEW c \in Writers
  PROVE  /\ ask[c].at \in {"told", "stored"} =>
               /\ ask[c].id \in Memories /\ ask[c].old \in Memories /\ ask[c].window \in Windows
               /\ ask[c].read \in [from : Times, until : Ends, wrong : BOOLEAN, revision : Nat]
         /\ ask[c].at = "status" => ask[c].id \in Memories /\ ask[c].leaves \in BOOLEAN
         /\ ask[c].at = "dates" =>
               /\ ask[c].id \in Memories /\ ask[c].window \in Windows
               /\ ask[c].moving \subseteq Memories
  BY DEF CallsInv, Requests

LEMMA InitInv == Init => WindowsInv
  <1> SUFFICES ASSUME Init PROVE WindowsInv
    OBVIOUS
  <1>2. RowsInv(row, edges)
    BY BlankType DEF Init, RowsInv
  <1>3. CallsInv
    BY DEF Init, CallsInv, Idle, Requests
  <1> QED
    BY <1>2, <1>3 DEF WindowsInv

LEMMA RememberInv ==
  ASSUME WindowsInv, NEW m \in Memories, NEW w \in Windows, Remember(m, w)
  PROVE  WindowsInv'
  <1>1. RowsInv(row, edges)'
    BY StoredKeeps DEF Remember, WindowsInv
  <1> QED
    BY <1>1 DEF Remember, WindowsInv, CallsInv

LEMMA TellInv ==
  ASSUME WindowsInv, NEW c \in Writers, NEW m \in Memories, NEW old \in Memories,
         NEW w \in Windows, Tell(c, m, w, old)
  PROVE  WindowsInv'
  <1> DEFINE q == [at |-> "told", id |-> m, window |-> w, old |-> old,
                   read |-> [from |-> row[old].from, until |-> row[old].until,
                             wrong |-> row[old].wrong, revision |-> row[old].revision]]
  <1>1. ask' = [ask EXCEPT ![c] = q]
    BY DEF Tell
  <1>2. row[old] \in MemoryRows
    BY DEF WindowsInv, RowsInv
  <1>3. q \in Requests
    BY <1>2 DEF Requests, MemoryRows
  <1>4. m # old
    BY DEF Tell, Fresh, Live
  <1>5. q.at = "told" /\ q.id = m /\ q.old = old
    OBVIOUS
  <1> HIDE DEF q
  <1>6. CallsInv'
    BY <1>1, <1>3, <1>4, <1>5 DEF Tell, WindowsInv, CallsInv
  <1> QED
    BY <1>6 DEF Tell, WindowsInv, RowsInv

LEMMA StoreInv ==
  ASSUME WindowsInv, NEW c \in Writers, Store(c)
  PROVE  WindowsInv'
  <1>1. ask[c].id \in Memories /\ ask[c].window \in Windows /\ ask[c].at = "told"
    BY Asked DEF Store, WindowsInv
  <1>2. RowsInv(row, edges)'
    BY <1>1, StoredKeeps DEF Store, WindowsInv
  <1>3. ask' \in [Writers -> Requests]
    BY <1>1 DEF Store, WindowsInv, CallsInv, Requests
  <1>4. CallsInv'
    BY <1>1, <1>3 DEF Store, WindowsInv, CallsInv
  <1> QED
    BY <1>2, <1>4 DEF WindowsInv

\* What Supersede does to the rows and the edges.
LEMMA SupersededRows ==
  ASSUME WindowsInv, NEW c \in Writers, Supersede(c)
  PROVE  /\ row' \in [Memories -> MemoryRows] /\ \A m \in Memories : Unended(row, row', m)
         /\ edges \subseteq edges'
         /\ \A e \in edges' \ edges : \E x, y \in Memories : e = <<x, y>> /\ x # y /\ Live(x) /\ Live(y)
  <1> DEFINE q == ask[c]
             older == SupersedePlan(q.read, q.window) = "older"
             target == IF older THEN q.old ELSE q.id
             closer == IF older THEN q.id ELSE q.old
             at == IF older THEN q.window.from ELSE q.read.from
  <1>1. /\ q.id \in Memories /\ q.old \in Memories /\ q.id # q.old
        /\ q.window.from \in Times /\ q.read.from \in Times
    BY Asked DEF Supersede, WindowsInv, CallsInv, Windows
  <1>2. /\ target \in Memories /\ closer \in Memories /\ closer # target
        /\ at \in Ends /\ "supersede" \in Causes
    BY <1>1, NoneIsNoDate DEF Causes, Dating
  <1>3. /\ \E S : row' = Ending(row, S, at, "supersede", closer)
        /\ edges \subseteq edges'
        /\ \A e \in edges' \ edges : e = <<closer, target>> /\ Live(closer) /\ Live(target)
    BY DEF Supersede
  <1> HIDE DEF target, closer, at
  <1>4. row \in [Memories -> MemoryRows]
    BY DEF WindowsInv, RowsInv
  <1>5. row' \in [Memories -> MemoryRows] /\ \A m \in Memories : Unended(row, row', m)
    BY <1>2, <1>3, <1>4, EndingFacts
  <1> QED
    BY <1>2, <1>3, <1>5

LEMMA SupersedeInv ==
  ASSUME WindowsInv, NEW c \in Writers, Supersede(c)
  PROVE  WindowsInv'
  <1>1. ask' = [ask EXCEPT ![c] = Idle] /\ UNCHANGED <<kept, edits>>
    BY DEF Supersede
  <1>2. RowsInv(row', edges)
    BY SupersededRows, UnendedKeeps DEF WindowsInv
  <1>3. \A e \in edges' \ edges : /\ e \in Memories \X Memories /\ e[1] # e[2]
                                   /\ row'[e[1]].at = "live" /\ row'[e[2]].at = "live"
    BY SupersededRows DEF Live, Unended
  <1>4. RowsInv(row, edges)'
    BY <1>2, <1>3 DEF RowsInv
  <1>5. CallsInv'
    BY <1>1 DEF WindowsInv, CallsInv, Idle, Requests
  <1> QED
    BY <1>4, <1>5 DEF WindowsInv

LEMMA EditInv ==
  ASSUME WindowsInv, NEW m \in Memories, Edit(m)
  PROVE  WindowsInv'
  <1> DEFINE v == Version(row, m, "text", None)
             new == [row[m] EXCEPT !.revision = @ + 1, !.newest = v]
  <1>1. row \in [Memories -> MemoryRows] /\ row[m] \in MemoryRows
    BY DEF WindowsInv, RowsInv
  <1>2. v \in Versions /\ v.cause = "text"
    <2>1. "text" \in Causes
      BY DEF Causes
    <2> QED
      BY <1>1, <2>1, VersionType DEF Version
  <1>3. "text" \notin Dating
    BY DEF Dating
  <1>4. row' = [row EXCEPT ![m] = new]
    BY <1>1 DEF Edit
  <1> HIDE DEF v
  <1>5. new \in MemoryRows /\ new.at = row[m].at /\ new.newest = v
    <2>1. row[m].revision + 1 \in Nat
      BY <1>1 DEF MemoryRows
    <2>2. new = [row[m] EXCEPT !.revision = row[m].revision + 1, !.newest = v]
      OBVIOUS
    <2> DEFINE n == row[m].revision + 1
    <2> HIDE DEF n
    <2> QED
      BY <1>1, <1>2, <2>1, <2>2 DEF MemoryRows
  <1> HIDE DEF new
  <1>6. RowsInv(row', edges)
    BY <1>2, <1>3, <1>4, <1>5, OneRowKeeps DEF WindowsInv
  <1>7. CallsInv'
    BY DEF Edit, Counted, WindowsInv, CallsInv
  <1> QED
    BY <1>6, <1>7 DEF Edit, WindowsInv, RowsInv

LEMMA DeprecateInv ==
  ASSUME WindowsInv, NEW m \in Memories, Deprecate(m)
  PROVE  WindowsInv'
  <1> DEFINE r == IF row[m].wrong THEN row ELSE Marked(m, TRUE)
  <1>1. row' = Reopened(r, m) /\ Inherit(r, m, edges)
    BY DEF Deprecate
  <1>2. RowsInv(r, edges)
    BY MarkedKeeps DEF WindowsInv
  <1> HIDE DEF r
  <1>3. RowsInv(row, edges)'
    BY <1>1, <1>2, RetractionKeeps
  <1>4. CallsInv'
    BY DEF Deprecate, Counted, WindowsInv, CallsInv
  <1> QED
    BY <1>3, <1>4 DEF WindowsInv

LEMMA ReadStatusInv ==
  ASSUME WindowsInv, NEW c \in Writers, NEW m \in Memories, ReadStatus(c, m)
  PROVE  WindowsInv'
  <1>1. row[m].wrong \in BOOLEAN
    BY DEF WindowsInv, RowsInv, MemoryRows
  <1>2. CallsInv'
    BY <1>1 DEF ReadStatus, Counted, WindowsInv, CallsInv, Requests
  <1> QED
    BY <1>2 DEF ReadStatus, WindowsInv, RowsInv

LEMMA SetStatusInv ==
  ASSUME WindowsInv, NEW c \in Writers, SetStatus(c)
  PROVE  WindowsInv'
  <1> DEFINE m == ask[c].id
             r == Marked(m, FALSE)
  <1>1. m \in Memories
    BY Asked DEF SetStatus, WindowsInv
  <1>2. row' \in {row, r, Reclosed(r, edges, m)} /\ ask' = [ask EXCEPT ![c] = Idle]
        /\ UNCHANGED <<edges, kept, edits>>
    BY DEF SetStatus
  <1> HIDE DEF m
  <1>3. RowsInv(r, edges)
    BY <1>1, MarkedKeeps DEF WindowsInv
  <1> HIDE DEF r
  <1>4. RowsInv(Reclosed(r, edges, m), edges)
    <2>1. r \in [Memories -> MemoryRows]
      BY <1>3 DEF RowsInv
    <2> QED
      BY <1>1, <1>3, <2>1, ReclosedFacts, UnendedKeeps
  <1>5. RowsInv(row, edges)'
    BY <1>2, <1>3, <1>4 DEF WindowsInv
  <1>6. CallsInv'
    BY <1>2 DEF WindowsInv, CallsInv, Idle, Requests
  <1> QED
    BY <1>5, <1>6 DEF WindowsInv

LEMMA ForgetInv ==
  ASSUME WindowsInv, NEW m \in Memories, NEW large \in BOOLEAN, Forget(m, large)
  PROVE  WindowsInv'
  <1> DEFINE others == edges \ Of(m)
             r == Reopened(row, m)
  <1>1. /\ row' = [r EXCEPT ![m].at = "trash"] /\ Inherit(row, m, others)
        /\ kept' \in {[kept EXCEPT ![m] = {}], [kept EXCEPT ![m] = Of(m)]}
        /\ ask' = ask /\ edits' = edits + 1
    BY DEF Forget, Counted
  <1>2. RowsInv(row, edges) /\ row \in [Memories -> MemoryRows]
    BY DEF WindowsInv, RowsInv
  <1>3. RowsInv(r, edges)
    BY <1>2, ReopenedFacts, UnendedKeeps
  <1>4. \A n \in Memories : r[n].at = row[n].at
    BY <1>2, ReopenedFacts DEF Unended
  <1>5. \A e \in edges' : /\ e \in Memories \X Memories /\ e[1] # e[2]
                          /\ r[e[1]].at = "live" /\ r[e[2]].at = "live"
                          /\ e[1] # m /\ e[2] # m
    <2>1. \A e \in others : /\ e \in Memories \X Memories /\ e[1] # e[2]
                            /\ r[e[1]].at = "live" /\ r[e[2]].at = "live"
                            /\ e[1] # m /\ e[2] # m
      BY <1>3 DEF RowsInv, Of
    <2>2. others \in SUBSET edges
      OBVIOUS
    <2>3. \A e \in edges' \ others : /\ e \in Memories \X Memories /\ e[1] # e[2]
                                     /\ row[e[1]].at = "live" /\ row[e[2]].at = "live"
                                     /\ e[1] # m /\ e[2] # m
      <3> HIDE DEF others
      <3> QED
        BY <1>1, <1>2, <2>2, InheritedEdges
    <2> HIDE DEF others
    <2> QED
      BY <1>4, <2>1, <2>3
  <1> HIDE DEF r
  <1>6. /\ row' \in [Memories -> MemoryRows]
        /\ \A n \in Memories : row'[n].newest = r[n].newest /\ row'[n].wrong = r[n].wrong
        /\ \A n \in Memories \ {m} : row'[n] = r[n]
    BY <1>1, <1>3 DEF RowsInv, MemoryRows
  <1>7. RowsInv(row, edges)'
    BY <1>3, <1>5, <1>6 DEF RowsInv
  <1>8. Of(m) \subseteq Memories \X Memories /\ \A e \in Of(m) : e[1] # e[2]
    BY <1>2 DEF RowsInv, Of
  <1> HIDE DEF others
  <1>9. CallsInv'
    BY <1>1, <1>8 DEF WindowsInv, CallsInv
  <1> QED
    BY <1>7, <1>9 DEF WindowsInv

LEMMA RestoreInv ==
  ASSUME WindowsInv, NEW m \in Memories, Restore(m)
  PROVE  WindowsInv'
  <1> DEFINE links == edges \cup {e \in kept[m] : \A n \in {e[1], e[2]} \ {m} : Live(n)}
             back == [row EXCEPT ![m].at = "live"]
  <1>1. /\ edges' = links /\ row' \in {back, Reclosed(back, links, m)}
        /\ kept' = [kept EXCEPT ![m] = {}] /\ ask' = ask /\ edits' = edits + 1
    BY DEF Restore, Counted
  <1>2. RowsInv(row, edges) /\ row \in [Memories -> MemoryRows] /\ CallsInv
    BY DEF WindowsInv, RowsInv
  <1>3. RowsInv(back, edges)
    <2> DEFINE new == [row[m] EXCEPT !.at = "live"]
    <2>1. /\ new \in MemoryRows /\ new.at = "live"
          /\ new.newest = row[m].newest /\ new.wrong = row[m].wrong
      BY <1>2 DEF MemoryRows
    <2>2. back = [row EXCEPT ![m] = new]
      BY <1>2
    <2> HIDE DEF new, back
    <2>3. new.newest.cause \in Dating => new.newest.wrong = new.wrong
      BY <1>2, <2>1 DEF RowsInv
    <2> QED
      BY <1>2, <2>1, <2>2, <2>3, OneRowKeeps
  <1>4. RowsInv(back, links)
    <2>1. back[m].at = "live" /\ \A n \in Memories : Live(n) => back[n].at = "live"
      BY <1>2 DEF Live
    <2>2. \A e \in kept[m] : e \in Memories \X Memories /\ e[1] # e[2]
      BY <1>2 DEF CallsInv
    <2> HIDE DEF back
    <2> QED
      BY <1>3, <2>1, <2>2 DEF RowsInv
  <1> HIDE DEF back, links
  <1>5. RowsInv(Reclosed(back, links, m), links)
    <2>1. back \in [Memories -> MemoryRows]
      BY <1>4 DEF RowsInv
    <2> QED
      BY <1>4, <2>1, ReclosedFacts, UnendedKeeps
  <1>6. RowsInv(row, edges)'
    BY <1>1, <1>4, <1>5
  <1>7. CallsInv'
    BY <1>1, <1>2 DEF CallsInv
  <1> QED
    BY <1>6, <1>7 DEF WindowsInv

\* The row that an undo makes of row[m].
Undone(m) ==
    LET v == row[m].newest
        dated == v.cause \in Dating
    IN  [row[m] EXCEPT !.wrong = v.wrong, !.revision = @ + 1,
                       !.from = IF dated THEN v.from ELSE @,
                       !.until = IF dated THEN v.until ELSE @,
                       !.newest = Version(row, m, IF dated THEN "redated" ELSE "reverted", None)]

LEMMA UndoneFacts ==
  ASSUME RowsInv(row, edges), NEW m \in Memories
  PROVE  LET new == Undone(m) IN
         /\ new \in MemoryRows /\ new.at = row[m].at /\ new.wrong = row[m].newest.wrong
         /\ new.newest.cause \in Dating => new.newest.wrong = new.wrong
         /\ row[m].wrong # row[m].newest.wrong =>
                new.from = row[m].from /\ new.until = row[m].until
  <1> DEFINE new == Undone(m)
             dated == row[m].newest.cause \in Dating
             cause == IF dated THEN "redated" ELSE "reverted"
             v == Version(row, m, cause, None)
  <1>1. row \in [Memories -> MemoryRows] /\ row[m] \in MemoryRows
    BY DEF RowsInv
  <1>2. cause \in Causes /\ (cause \in Dating => dated)
    BY DEF Causes, Dating
  <1>3. v \in Versions /\ v.wrong = row[m].wrong
    <2> HIDE DEF cause
    <2> QED
      BY <1>1, <1>2, VersionType
  <1>4. v.cause = cause
    BY DEF Version
  <1>5. dated => row[m].newest.wrong = row[m].wrong
    BY DEF RowsInv
  <1>6. row[m].newest \in Versions /\ row[m].revision + 1 \in Nat
    BY <1>1 DEF MemoryRows
  <1>7. /\ row[m].newest.from \in Times /\ row[m].newest.until \in Ends /\ row[m].newest.wrong \in BOOLEAN
        /\ row[m].from \in Times /\ row[m].until \in Ends
    BY <1>1, <1>6 DEF MemoryRows, Versions
  <1> DEFINE from == IF dated THEN row[m].newest.from ELSE row[m].from
             until == IF dated THEN row[m].newest.until ELSE row[m].until
             n == row[m].revision + 1
  <1>8. from \in Times /\ until \in Ends
    BY <1>7
  <1>9. new = [row[m] EXCEPT !.wrong = row[m].newest.wrong, !.revision = n, !.from = from,
                             !.until = until, !.newest = v]
    BY DEF Undone
  <1>10. n \in Nat
    BY <1>6
  <1>11. ~dated => from = row[m].from /\ until = row[m].until
    OBVIOUS
  <1> HIDE DEF new, v, from, until, n, cause, dated
  <1>12. /\ new \in MemoryRows /\ new.at = row[m].at /\ new.wrong = row[m].newest.wrong
         /\ new.from = from /\ new.until = until /\ new.newest = v
    BY <1>1, <1>3, <1>7, <1>8, <1>9, <1>10 DEF MemoryRows
  <1>13. dated <=> row[m].newest.cause \in Dating
    BY DEF dated
  <1>14. /\ new.newest.cause \in Dating => new.newest.wrong = new.wrong
         /\ row[m].wrong # row[m].newest.wrong => new.from = row[m].from /\ new.until = row[m].until
    BY <1>2, <1>3, <1>4, <1>5, <1>11, <1>12, <1>13
  <1> QED
    BY <1>12, <1>14 DEF new

\* The same, of the rows.
LEMMA UndoneRows ==
  ASSUME RowsInv(row, edges), NEW m \in Memories, Undo(m)
  PROVE  \E r : /\ RowsInv(r, edges)
                /\ \A n \in Memories \ {m} : r[n] = row[n]
                /\ r[m].at = row[m].at /\ r[m].wrong = row[m].newest.wrong
                /\ row[m].wrong # row[m].newest.wrong =>
                       r[m].from = row[m].from /\ r[m].until = row[m].until
                /\ \/ row[m].newest.wrong /\ ~row[m].wrong /\ row' = Reopened(r, m) /\ Inherit(r, m, edges)
                   \/ row[m].wrong /\ ~row[m].newest.wrong /\ row' = Reclosed(r, edges, m) /\ UNCHANGED edges
                   \/ row[m].wrong = row[m].newest.wrong /\ row' = r /\ UNCHANGED edges
  <1> DEFINE new == Undone(m)
             v == row[m].newest
             dated == v.cause \in Dating
             r == [row EXCEPT ![m].wrong = v.wrong, ![m].revision = @ + 1,
                         ![m].from = IF dated THEN v.from ELSE @,
                         ![m].until = IF dated THEN v.until ELSE @,
                         ![m].newest = Version(row, m, IF dated THEN "redated" ELSE "reverted", None)]
  <1>1. row \in [Memories -> MemoryRows]
    BY DEF RowsInv
  <1>2. r = [row EXCEPT ![m] = new]
    BY <1>1 DEF Undone
  <1>3. \/ v.wrong /\ ~row[m].wrong /\ row' = Reopened(r, m) /\ Inherit(r, m, edges)
        \/ row[m].wrong /\ ~v.wrong /\ row' = Reclosed(r, edges, m) /\ UNCHANGED edges
        \/ row[m].wrong = v.wrong /\ row' = r /\ UNCHANGED edges
    BY DEF Undo
  <1> HIDE DEF r
  <1>4. /\ new \in MemoryRows /\ new.at = row[m].at /\ new.wrong = v.wrong
        /\ new.newest.cause \in Dating => new.newest.wrong = new.wrong
        /\ row[m].wrong # v.wrong => new.from = row[m].from /\ new.until = row[m].until
    BY UndoneFacts
  <1> HIDE DEF new
  <1>5. RowsInv(r, edges)
    BY <1>2, <1>4, OneRowKeeps
  <1>6. r[m] = new /\ \A n \in Memories \ {m} : r[n] = row[n]
    BY <1>1, <1>2
  <1> QED
    BY <1>3, <1>4, <1>5, <1>6

LEMMA UndoInv ==
  ASSUME WindowsInv, NEW m \in Memories, Undo(m)
  PROVE  WindowsInv'
  <1>1. PICK r : /\ RowsInv(r, edges)
                 /\ \/ row' = Reopened(r, m) /\ Inherit(r, m, edges)
                    \/ row' = Reclosed(r, edges, m) /\ UNCHANGED edges
                    \/ row' = r /\ UNCHANGED edges
    BY UndoneRows DEF WindowsInv
  <1>2. r \in [Memories -> MemoryRows]
    BY <1>1 DEF RowsInv
  <1>3. RowsInv(row, edges)'
    <2>1. CASE row' = Reopened(r, m) /\ Inherit(r, m, edges)
      BY <1>1, <2>1, RetractionKeeps
    <2>2. CASE row' = Reclosed(r, edges, m) /\ UNCHANGED edges
      BY <1>1, <1>2, <2>2, ReclosedFacts, UnendedKeeps
    <2>3. CASE row' = r /\ UNCHANGED edges
      BY <1>1, <2>3
    <2> QED
      BY <1>1, <2>1, <2>2, <2>3
  <1>4. CallsInv'
    BY DEF Undo, Counted, WindowsInv, CallsInv
  <1> QED
    BY <1>3, <1>4 DEF WindowsInv

LEMMA ReadDatesInv ==
  ASSUME WindowsInv, NEW c \in Writers, NEW m \in Memories, NEW w \in Windows, ReadDates(c, m, w)
  PROVE  WindowsInv'
  <1> DEFINE moving == IF w.from = row[m].from THEN {} ELSE Replaced(m)
             q == [at |-> "dates", id |-> m, window |-> w, moving |-> moving,
                   from |-> row[m].from, until |-> row[m].until]
  <1>1. ask' = [ask EXCEPT ![c] = q]
    BY DEF ReadDates
  <1>2. row[m].from \in Times /\ row[m].until \in Ends
    BY DEF WindowsInv, RowsInv, MemoryRows
  <1>3. moving \subseteq Memories
    BY DEF Replaced
  <1> HIDE DEF moving
  <1>4. q \in Requests /\ q.at = "dates"
    BY <1>2, <1>3 DEF Requests
  <1> HIDE DEF q
  <1>5. CallsInv'
    <2>1. kept' = kept /\ edits' = edits + 1
      BY DEF ReadDates, Counted
    <2>2. ask' \in [Writers -> Requests]
      BY <1>1, <1>4 DEF WindowsInv, CallsInv
    <2>3. \A d \in Writers : ask'[d].at \in {"told", "stored"} => ask'[d] = ask[d]
      BY <1>1, <1>4 DEF WindowsInv, CallsInv
    <2> QED
      BY <2>1, <2>2, <2>3 DEF WindowsInv, CallsInv
  <1> QED
    BY <1>5 DEF ReadDates, WindowsInv, RowsInv

\* What SetDates does to the rows.
LEMMA DatedRows ==
  ASSUME WindowsInv, NEW c \in Writers, SetDates(c)
  PROVE  /\ RowsInv(row', edges)
         /\ \A n \in Memories : row'[n].at = row[n].at /\ row'[n].wrong = row[n].wrong
  <1> DEFINE q == ask[c]
             unchanged == Live(q.id) /\ row[q.id].from = q.from /\ row[q.id].until = q.until
             v == Version(row, q.id, "explicit", None)
             new == [row[q.id] EXCEPT !.from = q.window.from, !.until = q.window.until, !.newest = v]
             r == IF unchanged THEN [row EXCEPT ![q.id].from = q.window.from, ![q.id].until = q.window.until,
                                                ![q.id].newest = v]
                  ELSE row
  <1>1. /\ q.id \in Memories /\ q.window.from \in Times /\ q.window.until \in Ends
        /\ q.window.from \in Ends
    BY Asked, NoneIsNoDate DEF SetDates, WindowsInv, Windows
  <1>2. RowsInv(row, edges) /\ row \in [Memories -> MemoryRows] /\ row[q.id] \in MemoryRows
    BY <1>1 DEF WindowsInv, RowsInv
  <1>3. \E S : row' = Ending(r, S, q.window.from, "propagate", q.id)
    BY DEF SetDates
  <1>4. r \in {row, [row EXCEPT ![q.id] = new]}
    BY <1>1, <1>2
  <1> HIDE DEF r
  <1>5. v \in Versions /\ v.wrong = row[q.id].wrong
    <2>1. "explicit" \in Causes
      BY DEF Causes, Dating
    <2> QED
      BY <1>1, <1>2, <2>1, VersionType
  <1> HIDE DEF v
  <1>6. /\ new \in MemoryRows /\ new.at = row[q.id].at /\ new.wrong = row[q.id].wrong
        /\ new.newest.wrong = new.wrong
    BY <1>1, <1>2, <1>5 DEF MemoryRows
  <1> HIDE DEF new
  <1>7. RowsInv(r, edges) /\ r \in [Memories -> MemoryRows]
    <2>1. CASE r = row
      BY <1>2, <2>1
    <2>2. CASE r = [row EXCEPT ![q.id] = new]
      <3> DEFINE m == q.id
      <3>1. m \in Memories /\ new.at = row[m].at
        BY <1>1, <1>6
      <3> HIDE DEF m
      <3>2. RowsInv([row EXCEPT ![m] = new], edges)
        BY <1>2, <1>6, <3>1, OneRowKeeps
      <3> QED
        BY <2>2, <3>2 DEF m, RowsInv
    <2> QED
      BY <1>4, <2>1, <2>2
  <1>8. \A n \in Memories : r[n].at = row[n].at /\ r[n].wrong = row[n].wrong
    BY <1>1, <1>2, <1>4, <1>6
  <1>9. "propagate" \in Causes
    BY DEF Causes, Dating
  <1>10. row' \in [Memories -> MemoryRows] /\ \A n \in Memories : Unended(r, row', n)
    <2> DEFINE cause == "propagate"
               until == q.window.from
               by == q.id
    <2>1. PICK S : row' = Ending(r, S, until, cause, by)
      BY <1>3
    <2>2. cause \in Causes /\ until \in Ends /\ by \in Memories \cup {None}
      BY <1>1, <1>9
    <2> HIDE DEF cause, until, by
    <2>3. /\ Ending(r, S, until, cause, by) \in [Memories -> MemoryRows]
          /\ \A n \in Memories : Unended(r, Ending(r, S, until, cause, by), n)
      BY <1>7, <2>2, EndingFacts
    <2> QED
      BY <2>1, <2>3
  <1> QED
    BY <1>7, <1>8, <1>10, UnendedKeeps DEF Unended

LEMMA SetDatesInv ==
  ASSUME WindowsInv, NEW c \in Writers, SetDates(c)
  PROVE  WindowsInv'
  <1>1. RowsInv(row, edges)'
    BY DatedRows DEF SetDates
  <1>2. CallsInv'
    BY DEF SetDates, WindowsInv, CallsInv, Idle, Requests
  <1> QED
    BY <1>1, <1>2 DEF WindowsInv

LEMMA NextInv == WindowsInv /\ [Next]_validityVars => WindowsInv'
  <1> SUFFICES ASSUME WindowsInv, [Next]_validityVars PROVE WindowsInv'
    OBVIOUS
  <1>1. ASSUME NEW m \in Memories, NEW w \in Windows, Remember(m, w) PROVE WindowsInv'
    BY <1>1, RememberInv
  <1>2. ASSUME NEW m \in Memories, Edit(m) PROVE WindowsInv'
    BY <1>2, EditInv
  <1>3. ASSUME NEW m \in Memories, Deprecate(m) PROVE WindowsInv'
    BY <1>3, DeprecateInv
  <1>4. ASSUME NEW m \in Memories, NEW large \in BOOLEAN, Forget(m, large) PROVE WindowsInv'
    BY <1>4, ForgetInv
  <1>5. ASSUME NEW m \in Memories, Restore(m) PROVE WindowsInv'
    BY <1>5, RestoreInv
  <1>6. ASSUME NEW m \in Memories, Undo(m) PROVE WindowsInv'
    BY <1>6, UndoInv
  <1>7. ASSUME NEW c \in Writers, NEW m \in Memories, NEW old \in Memories, NEW w \in Windows,
               Tell(c, m, w, old)
        PROVE  WindowsInv'
    BY <1>7, TellInv
  <1>8. ASSUME NEW c \in Writers, Store(c) PROVE WindowsInv'
    BY <1>8, StoreInv
  <1>9. ASSUME NEW c \in Writers, Supersede(c) PROVE WindowsInv'
    BY <1>9, SupersedeInv
  <1>10. ASSUME NEW c \in Writers, NEW m \in Memories, ReadStatus(c, m) PROVE WindowsInv'
    BY <1>10, ReadStatusInv
  <1>11. ASSUME NEW c \in Writers, SetStatus(c) PROVE WindowsInv'
    BY <1>11, SetStatusInv
  <1>12. ASSUME NEW c \in Writers, NEW m \in Memories, NEW w \in Windows, ReadDates(c, m, w)
         PROVE  WindowsInv'
    BY <1>12, ReadDatesInv
  <1>13. ASSUME NEW c \in Writers, SetDates(c) PROVE WindowsInv'
    BY <1>13, SetDatesInv
  <1>14. ASSUME UNCHANGED validityVars PROVE WindowsInv'
    BY <1>14 DEF validityVars, WindowsInv, RowsInv, CallsInv
  <1> QED
    BY <1>1, <1>2, <1>3, <1>4, <1>5, <1>6, <1>7, <1>8, <1>9, <1>10, <1>11, <1>12, <1>13, <1>14 DEF Next

LEMMA WindowsInvariant == Spec => []WindowsInv
  <1> QED
    BY InitInv, NextInv, PTL DEF Spec

\* Rows, edges, the trash and calls keep their types, for any memories, any last date, any number
\* of calls under way and of changes.
THEOREM TypeCorrect == Spec => []TypeOK
  <1> QED
    BY WindowsInvariant, InvTypes, PTL

-------------------------------------------------------------------------------
(* The ends of what a memory had ended.                                        *)

\* A step lets go of what x had ended, as LinksHandOver says.
HandsOver(x, y) ==
    /\ row'[y].until = row[x].until
    /\ (\E z \in Memories \ {y} : <<z, x>> \in edges /\ Standing(z) /\ row[z].from = row[x].until)
          => \E z \in Memories : <<z, y>> \in edges' /\ Standing(z)' /\ row'[z].from = row'[y].until

\* The hook, run over rows r that differ from those before at x only, hands over, even if x then goes.
LEMMA HookHandsOver ==
  ASSUME NEW x \in Memories, NEW y \in Memories, <<x, y>> \in edges, row[y].until = row[x].from,
         row[x].until = None \/ row[x].until > row[x].from,
         NEW r \in [Memories -> MemoryRows],
         \A n \in Memories \ {x} : r[n] = row[n],
         r[x].from = row[x].from /\ r[x].until = row[x].until,
         RowsInv(row, edges), NEW others, Inherit(r, x, others),
         \A n \in Memories \ {x} : row'[n] = Reopened(r, x)[n]
  PROVE  HandsOver(x, y)
  <1>1. y # x /\ r[y] = row[y] /\ row[y].at = "live"
    <2>1. <<x, y>>[1] # <<x, y>>[2] /\ row[<<x, y>>[2]].at = "live"
      BY DEF RowsInv
    <2> QED
      BY <2>1
  <1>2. y \in EndedBy(r, x)
    BY <1>1 DEF EndedBy
  <1>3. row'[y].until = row[x].until
    BY <1>1, <1>2, ReopenedFacts
  <1>4. ASSUME NEW z \in Memories \ {y}, <<z, x>> \in edges, Standing(z), row[z].from = row[x].until
        PROVE  \E h \in Memories : <<h, y>> \in edges' /\ Standing(h)' /\ row'[h].from = row'[y].until
    <2>1. z # x
      <3>1. <<z, x>>[1] # <<z, x>>[2]
        BY <1>4 DEF RowsInv
      <3> QED
        BY <3>1
    <2>2. z \in Enders(r, x, y)
      BY <1>4, <2>1 DEF Enders, Standing, Live
    <2>3. PICK h \in Enders(r, x, y) : <<h, y>> \in edges'
      BY <1>2, <2>2, InheritFacts
    <2>4. /\ h \in Memories /\ <<h, x>> \in edges
          /\ r[h].at = "live" /\ ~r[h].wrong /\ r[h].from = r[x].until
      BY DEF Enders
    <2>5. h # x
      <3>1. <<h, x>>[1] # <<h, x>>[2]
        BY <2>4 DEF RowsInv
      <3> QED
        BY <3>1
    <2>6. row'[h].at = "live" /\ ~row'[h].wrong /\ row'[h].from = row[x].until
      BY <2>4, <2>5, ReopenedFacts DEF Unended
    <2> QED
      BY <1>3, <2>3, <2>4, <2>6 DEF Standing, Live
  <1> QED
    BY <1>3, <1>4 DEF HandsOver

\* No memory stops standing.
AllStand == \A x \in Memories : Standing(x) => Standing(x)'

\* Marking a memory wrong, forgetting it and undoing leave every other memory standing, and hand
\* over what the memory had ended.
LEMMA OneFalls ==
  ASSUME RowsInv(row, edges), NEW m \in Memories, NEW r \in [Memories -> MemoryRows], NEW others,
         \A n \in Memories \ {m} : r[n] = row[n],
         r[m].from = row[m].from /\ r[m].until = row[m].until,
         Inherit(r, m, others),
         \A n \in Memories \ {m} : row'[n] = Reopened(r, m)[n],
         NEW x \in Memories, NEW y \in Memories, Standing(x), ~Standing(x)',
         <<x, y>> \in edges, row[y].until = row[x].from,
         row[x].until = None \/ row[x].until > row[x].from
  PROVE  HandsOver(x, y)
  <1>1. x = m
    <2> SUFFICES ASSUME x # m PROVE FALSE
      OBVIOUS
    <2>1. row'[x].at = row[x].at /\ row'[x].wrong = row[x].wrong
      BY ReopenedFacts DEF Unended
    <2> QED
      BY <2>1 DEF Standing, Live
  <1> QED
    BY <1>1, HookHandsOver

LEMMA DeprecateHandsOver ==
  ASSUME WindowsInv, NEW m \in Memories, Deprecate(m), NEW x \in Memories, NEW y \in Memories,
         Standing(x), ~Standing(x)', <<x, y>> \in edges, row[y].until = row[x].from,
         row[x].until = None \/ row[x].until > row[x].from
  PROVE  HandsOver(x, y)
  <1> DEFINE r == IF row[m].wrong THEN row ELSE Marked(m, TRUE)
  <1>1. row' = Reopened(r, m) /\ Inherit(r, m, edges)
    BY DEF Deprecate
  <1>2. RowsInv(row, edges)
    BY DEF WindowsInv
  <1>3. /\ r \in [Memories -> MemoryRows]
        /\ \A n \in Memories \ {m} : r[n] = row[n]
        /\ r[m].from = row[m].from /\ r[m].until = row[m].until
    BY <1>2, MarkedKeeps DEF RowsInv
  <1> HIDE DEF r
  <1> QED
    BY <1>1, <1>2, <1>3, OneFalls

LEMMA ForgetHandsOver ==
  ASSUME WindowsInv, NEW m \in Memories, NEW large \in BOOLEAN, Forget(m, large),
         NEW x \in Memories, NEW y \in Memories,
         Standing(x), ~Standing(x)', <<x, y>> \in edges, row[y].until = row[x].from,
         row[x].until = None \/ row[x].until > row[x].from
  PROVE  HandsOver(x, y)
  <1> DEFINE others == edges \ Of(m)
             r == Reopened(row, m)
  <1>1. row' = [r EXCEPT ![m].at = "trash"] /\ Inherit(row, m, others)
    BY DEF Forget
  <1>2. RowsInv(row, edges) /\ row \in [Memories -> MemoryRows]
    BY DEF WindowsInv, RowsInv
  <1>3. r \in [Memories -> MemoryRows]
    BY <1>2, ReopenedFacts
  <1>4. \A n \in Memories \ {m} : row'[n] = r[n]
    <2> HIDE DEF r
    <2> QED
      BY <1>1, <1>3
  <1> HIDE DEF others
  <1> QED
    BY <1>1, <1>2, <1>4, OneFalls

\* A version about dates never changes the status, so an undo that does leaves the dates alone.
LEMMA UndoHandsOver ==
  ASSUME WindowsInv, NEW m \in Memories, Undo(m), NEW x \in Memories, NEW y \in Memories,
         Standing(x), ~Standing(x)', <<x, y>> \in edges, row[y].until = row[x].from,
         row[x].until = None \/ row[x].until > row[x].from
  PROVE  HandsOver(x, y)
  <1>1. PICK r : /\ RowsInv(r, edges)
                 /\ \A n \in Memories \ {m} : r[n] = row[n]
                 /\ r[m].at = row[m].at /\ r[m].wrong = row[m].newest.wrong
                 /\ row[m].wrong # row[m].newest.wrong =>
                        r[m].from = row[m].from /\ r[m].until = row[m].until
                 /\ \/ row[m].newest.wrong /\ ~row[m].wrong /\ row' = Reopened(r, m) /\ Inherit(r, m, edges)
                    \/ row[m].wrong /\ ~row[m].newest.wrong /\ row' = Reclosed(r, edges, m) /\ UNCHANGED edges
                    \/ row[m].wrong = row[m].newest.wrong /\ row' = r /\ UNCHANGED edges
    BY UndoneRows DEF WindowsInv
  <1>2. RowsInv(row, edges) /\ r \in [Memories -> MemoryRows]
    BY <1>1 DEF WindowsInv, RowsInv
  <1>3. CASE row[m].newest.wrong /\ ~row[m].wrong /\ row' = Reopened(r, m) /\ Inherit(r, m, edges)
    BY <1>1, <1>2, <1>3, OneFalls
  <1>4. CASE row[m].wrong /\ ~row[m].newest.wrong /\ row' = Reclosed(r, edges, m) /\ UNCHANGED edges
    <2>1. \A n \in Memories : row'[n].at = r[n].at /\ row'[n].wrong = r[n].wrong
      BY <1>2, <1>4, ReclosedFacts DEF Unended
    <2> QED
      BY <1>1, <1>4, <2>1 DEF Standing, Live
  <1>5. CASE row[m].wrong = row[m].newest.wrong /\ row' = r /\ UNCHANGED edges
    BY <1>1, <1>5 DEF Standing, Live
  <1> QED
    BY <1>1, <1>3, <1>4, <1>5

\* Every other step leaves every memory standing.
LEMMA StoredStands ==
  ASSUME WindowsInv, NEW m \in Memories, NEW w \in Windows, row' = Stored(m, w)
  PROVE  AllStand
  <1> DEFINE new == [Blank EXCEPT !.at = "live", !.from = w.from, !.until = w.until]
  <1>1. row' = [row EXCEPT ![m] = new]
    BY DEF Stored
  <1>2. new.at = "live" /\ new.wrong = FALSE
    BY DEF Blank
  <1> HIDE DEF new
  <1>3. row \in [Memories -> MemoryRows]
    BY DEF WindowsInv, RowsInv
  <1> QED
    BY <1>1, <1>2, <1>3 DEF AllStand, Standing, Live

LEMMA SupersedeStands ==
  ASSUME WindowsInv, NEW c \in Writers, Supersede(c)
  PROVE  AllStand
  BY SupersededRows DEF Unended, AllStand, Standing, Live

LEMMA SetStatusStands ==
  ASSUME WindowsInv, NEW c \in Writers, SetStatus(c)
  PROVE  AllStand
  <1> DEFINE m == ask[c].id
             r == Marked(m, FALSE)
  <1>1. m \in Memories
    BY Asked DEF SetStatus, WindowsInv
  <1>2. row' \in {row, r, Reclosed(r, edges, m)}
    BY DEF SetStatus
  <1> HIDE DEF m
  <1>3. /\ r \in [Memories -> MemoryRows]
        /\ \A n \in Memories \ {m} : r[n] = row[n]
        /\ r[m].at = row[m].at /\ r[m].wrong = FALSE
    BY <1>1, MarkedKeeps DEF WindowsInv, RowsInv
  <1> HIDE DEF r
  <1>4. \A n \in Memories : Unended(r, Reclosed(r, edges, m), n)
    BY <1>1, <1>3, ReclosedFacts
  <1>5. \A n \in Memories : \/ row'[n].at = row[n].at /\ row'[n].wrong = row[n].wrong
                            \/ row'[n].at = row[n].at /\ row'[n].wrong = FALSE
    <2>1. CASE row' = row
      BY <2>1
    <2>2. CASE row' = r
      BY <1>3, <2>2
    <2>3. CASE row' = Reclosed(r, edges, m)
      <3>1. \A n \in Memories : row'[n].at = r[n].at /\ row'[n].wrong = r[n].wrong
        BY <1>4, <2>3 DEF Unended
      <3> QED
        BY <1>3, <3>1
    <2> QED
      BY <1>2, <2>1, <2>2, <2>3
  <1> QED
    BY <1>5 DEF AllStand, Standing, Live

LEMMA RestoreStands ==
  ASSUME WindowsInv, NEW m \in Memories, Restore(m)
  PROVE  AllStand
  <1> DEFINE links == edges \cup {e \in kept[m] : \A n \in {e[1], e[2]} \ {m} : Live(n)}
             back == [row EXCEPT ![m].at = "live"]
  <1>1. row' \in {back, Reclosed(back, links, m)}
    BY DEF Restore
  <1>2. row \in [Memories -> MemoryRows] /\ row[m].at = "trash"
    BY DEF WindowsInv, RowsInv, Restore
  <1>3. /\ back \in [Memories -> MemoryRows]
        /\ \A n \in Memories \ {m} : back[n] = row[n]
    BY <1>2 DEF MemoryRows
  <1> HIDE DEF back, links
  <1>4. \A n \in Memories : Unended(back, Reclosed(back, links, m), n)
    BY <1>3, ReclosedFacts
  <1>5. \A n \in Memories \ {m} : row'[n].at = row[n].at /\ row'[n].wrong = row[n].wrong
    BY <1>1, <1>3, <1>4 DEF Unended
  <1> QED
    BY <1>2, <1>5 DEF AllStand, Standing, Live

LEMMA EditStands ==
  ASSUME WindowsInv, NEW m \in Memories, Edit(m)
  PROVE  AllStand
  <1> DEFINE v == Version(row, m, "text", None)
             n == row[m].revision + 1
  <1>1. row' = [row EXCEPT ![m].revision = n, ![m].newest = v]
    BY DEF Edit
  <1>2. row \in [Memories -> MemoryRows]
    BY DEF WindowsInv, RowsInv
  <1> HIDE DEF v, n
  <1>3. \A x \in Memories : row'[x].at = row[x].at /\ row'[x].wrong = row[x].wrong
    BY <1>1, <1>2 DEF MemoryRows
  <1> QED
    BY <1>3 DEF AllStand, Standing, Live

\* LinksHandOver of every step.
LEMMA StepHandsOver ==
  ASSUME WindowsInv, [Next]_validityVars, NEW x \in Memories, NEW y \in Memories,
         Standing(x), ~Standing(x)', <<x, y>> \in edges, row[y].until = row[x].from,
         row[x].until = None \/ row[x].until > row[x].from
  PROVE  HandsOver(x, y)
  <1>1. ASSUME NEW m \in Memories, NEW w \in Windows, Remember(m, w) PROVE AllStand
    BY <1>1, StoredStands DEF Remember
  <1>2. ASSUME NEW m \in Memories, Edit(m) PROVE AllStand
    BY <1>2, EditStands
  <1>3. ASSUME NEW m \in Memories, Deprecate(m) PROVE HandsOver(x, y)
    BY <1>3, DeprecateHandsOver
  <1>4. ASSUME NEW m \in Memories, NEW large \in BOOLEAN, Forget(m, large) PROVE HandsOver(x, y)
    BY <1>4, ForgetHandsOver
  <1>5. ASSUME NEW m \in Memories, Restore(m) PROVE AllStand
    BY <1>5, RestoreStands
  <1>6. ASSUME NEW m \in Memories, Undo(m) PROVE HandsOver(x, y)
    BY <1>6, UndoHandsOver
  <1>7. ASSUME NEW c \in Writers, NEW m \in Memories, NEW old \in Memories, NEW w \in Windows,
               Tell(c, m, w, old)
        PROVE  row' = row
    BY <1>7 DEF Tell
  <1>8. ASSUME NEW c \in Writers, Store(c) PROVE AllStand
    <2>1. ask[c].id \in Memories /\ ask[c].window \in Windows
      BY <1>8, Asked DEF Store, WindowsInv
    <2> QED
      BY <1>8, <2>1, StoredStands DEF Store
  <1>9. ASSUME NEW c \in Writers, Supersede(c) PROVE AllStand
    BY <1>9, SupersedeStands
  <1>10. ASSUME NEW c \in Writers, NEW m \in Memories, ReadStatus(c, m) PROVE row' = row
    BY <1>10 DEF ReadStatus
  <1>11. ASSUME NEW c \in Writers, SetStatus(c) PROVE AllStand
    BY <1>11, SetStatusStands
  <1>12. ASSUME NEW c \in Writers, NEW m \in Memories, NEW w \in Windows, ReadDates(c, m, w)
         PROVE  row' = row
    BY <1>12 DEF ReadDates
  <1>13. ASSUME NEW c \in Writers, SetDates(c) PROVE AllStand
    BY <1>13, DatedRows DEF AllStand, Standing, Live
  <1>14. ASSUME UNCHANGED validityVars PROVE row' = row
    BY <1>14 DEF validityVars
  <1>15. row' # row /\ ~AllStand
    BY DEF AllStand, Standing, Live
  <1> QED
    BY <1>1, <1>2, <1>3, <1>4, <1>5, <1>6, <1>7, <1>8, <1>9, <1>10, <1>11, <1>12, <1>13, <1>14,
       <1>15 DEF Next

\* A memory that is marked wrong, forgotten or reverted to wrong hands over what it had ended.
THEOREM EndsHandedOver == Spec => LinksHandOver
  <1> DEFINE Step == \A x, y \in Memories :
                       /\ Standing(x) /\ ~Standing(x)'
                       /\ <<x, y>> \in edges /\ row[y].until = row[x].from
                       /\ row[x].until = None \/ row[x].until > row[x].from
                       => HandsOver(x, y)
  <1>1. WindowsInv /\ [Next]_validityVars => Step
    BY StepHandsOver
  <1>2. Spec => [][Step]_validityVars
    <2> HIDE DEF Step
    <2> QED
      BY <1>1, WindowsInvariant, PTL DEF Spec
  <1> QED
    BY <1>2 DEF LinksHandOver, HandsOver

===============================================================================
