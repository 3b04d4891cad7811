----------------------------- MODULE EntryVersions -----------------------------
(* The versions of a memory, from src/memory/versions.ts, and its undo, from   *)
(* revertEntry and undoGroup of src/memory/undo.ts, among the writers that     *)
(* take versions: update, append, merge, mirror sync, status and digest mark.  *)
(*                                                                             *)
(* An undo reads the row, then the versions, embeds, and commits if no version *)
(* has come in between.  Tags, dates and vector_ids are left out: a            *)
(* compare-and-set on them may succeed here where the code's fails, never the  *)
(* other way round.  So are the marker that an undo leaves on what a job       *)
(* wrote, and the question of who may read or revert what.                     *)
EXTENDS VersionHistory

CONSTANT Calls      \* calls of writers and of undo

-------------------------------------------------------------------------------
\* merge stands for replace as well, own for every reason that nothing here asks about.
Reasons == {"append", "merge", "mirror", "own"}

Version == [text : Texts \cup {NoText}, len : Nat, reason : Reasons, covers : SUBSET Seqs]

Call == [at : {"idle", "read", "decided"},
         content : Texts \cup {NoText},         \* the text it read
         tip : 0..MaxSeq,                       \* the newest version by the row, then the newest read
         grouped : BOOLEAN,                     \* an undo of a group
         text : Texts \cup {NoText},            \* what the undo puts back
         creates : SUBSET Seqs,                 \* the merges it takes the incoming text out of
         covers : SUBSET Seqs]                  \* meta.recreated_incoming

Idle == [at |-> "idle", content |-> NoText, tip |-> 0, grouped |-> FALSE,
         text |-> NoText, creates |-> {}, covers |-> {}]

TypeOK ==
    /\ content \in Texts
    /\ DOMAIN history \subseteq Seqs
    /\ history \in [DOMAIN history -> Version]
    /\ call \in [Calls -> Call]
    /\ was \in [DOMAIN history -> Texts]
    /\ recreated \in [Seqs -> Nat]

Init ==
    /\ content \in Texts
    /\ history = <<>>
    /\ call = [c \in Calls |-> Idle]
    /\ was = <<>>
    /\ recreated = [m \in Seqs |-> 0]

-------------------------------------------------------------------------------
(* Versions.                                                                   *)

\* The prunes that end a batch: the newest VersionKeep stay; after a sync, of what lies below
\* everything that anyone else wrote, the newest MirrorKeep.
Kept(seq, reason) ==
    LET Left == {n \in DOMAIN history \cup {seq} : n + VersionKeep > seq}
    IN  {n \in Left : \/ reason # "mirror" \/ n + MirrorKeep > seq
                      \/ \E m \in Left \ {seq} : m <= n /\ history[m].reason # "mirror"}

\* The snapshot that precedes a write, and the prune that follows it.
Snapshot(reason, delta, covers) ==
    LET seq == Newest + 1
        kept == Kept(seq, reason)
        v == [text |-> IF delta THEN NoText ELSE content, len |-> IF delta THEN Len(content) ELSE 0,
              reason |-> reason, covers |-> covers]
    IN  /\ seq <= MaxSeq
        /\ history' = [n \in kept |-> IF n = seq THEN v ELSE history[n]]
        /\ was' = [n \in kept |-> IF n = seq THEN content ELSE was[n]]

-------------------------------------------------------------------------------
(* Writers.                                                                    *)

\* A writer or an undo reads the row.  The group of an undo was classified by the versions
\* before; it is compared with what they are later, and is taken to be as fresh as the row.
Read(c, grouped) ==
    /\ call[c].at = "idle"
    /\ call' = [call EXCEPT ![c] = [Idle EXCEPT !.at = "read", !.content = content,
                                                !.tip = Newest, !.grouped = grouped]]
    /\ UNCHANGED <<content, history, was, recreated>>

\* An update, append, merge or sync: snapshot and write repeat the compare-and-set on the row.
\* A hold that its text may call for is a status set right after.
Write(c, reason, next) ==
    /\ call[c].at = "read" /\ ~call[c].grouped
    /\ content = call[c].content
    /\ reason = "append" => Extends(call[c].content, next)
    /\ next # content
    /\ Snapshot(reason, Extends(content, next), {})
    /\ content' = next
    /\ call' = [call EXCEPT ![c] = Idle]
    /\ UNCHANGED recreated

\* A status or a date: the text is not in the statement, whatever was read.
SetStatus ==
    /\ Snapshot("own", TRUE, {})
    /\ UNCHANGED <<content, call, recreated>>

\* A digest marks its source: the statement itself appends the note.
RollUp(next) ==
    /\ Extends(content, next) /\ next # content
    /\ Snapshot("append", TRUE, {})
    /\ content' = next
    /\ UNCHANGED <<call, recreated>>

\* The compare-and-set is lost, the embedding fails, or the Worker is gone.
Leave(c) ==
    /\ call[c].at # "idle"
    /\ call' = [call EXCEPT ![c] = Idle]
    /\ UNCHANGED <<content, history, was, recreated>>

-------------------------------------------------------------------------------
(* Undo.                                                                       *)

\* The merges whose incoming text is known to be a row of its own.
Recorded == UNION {history[n].covers : n \in DOMAIN history}

\* Mutant of Crossed: that it may be a row already is not looked at.
MutCrossed(seq) == {m \in DOMAIN history : m >= seq /\ history[m].reason = "merge"}

\* The merges whose incoming text going back to a version takes out of the row.
Crossed(seq) == {m \in DOMAIN history : m >= seq /\ history[m].reason = "merge"} \ Recorded

\* The versions are read after the row and understood from it; a member of a group has to be
\* where it was classified.  The first version since the row was read says what the row said,
\* tags included: if its text makes no change, nothing does and the undo ends.
ReadVersions(c, seq) ==
    /\ call[c].at = "read"
    /\ call[c].grouped => call[c].tip = Newest
    /\ Readable(call[c].content, seq)
    /\ TextAt(call[c].content, seq) = call[c].content => seq # call[c].tip + 1
    /\ call' = [call EXCEPT ![c] = [@ EXCEPT !.at = "decided", !.tip = Newest,
                   !.text = TextAt(call[c].content, seq), !.creates = Crossed(seq),
                   !.covers = Crossed(seq) \cup history[seq].covers]]
    /\ UNCHANGED <<content, history, was, recreated>>

\* Mutant of Undo: a version that has come in between is not noticed.
MutUndo(c) ==
    LET same == call[c].text = call[c].content
    IN  /\ call[c].at = "decided"
        /\ Snapshot("own", same \/ Extends(content, call[c].text), call[c].covers)
        /\ content' = call[c].text
        /\ recreated' = [m \in Seqs |-> recreated[m] + (IF m \in call[c].creates THEN 1 ELSE 0)]
        /\ call' = [call EXCEPT ![c] = Idle]

\* The snapshot takes the number after the newest version read, and the rest of the batch
\* lands with it.  Whether the undo changes the text was found from the text read.
Undo(c) ==
    LET same == call[c].text = call[c].content
    IN  /\ call[c].at = "decided"
        /\ Newest = call[c].tip
        /\ Snapshot("own", same \/ Extends(content, call[c].text), call[c].covers)
        /\ content' = call[c].text
        /\ recreated' = [m \in Seqs |-> recreated[m] + (IF m \in call[c].creates THEN 1 ELSE 0)]
        /\ call' = [call EXCEPT ![c] = Idle]

-------------------------------------------------------------------------------
Next ==
    \/ \E c \in Calls :
          \/ \E grouped \in BOOLEAN : Read(c, grouped)
          \/ \E reason \in Reasons, next \in Texts : Write(c, reason, next)
          \/ \E seq \in DOMAIN history : ReadVersions(c, seq)
          \/ Undo(c)
          \/ Leave(c)
    \/ SetStatus
    \/ \E next \in Texts : RollUp(next)

Spec == Init /\ [][Next]_historyVars
===============================================================================
