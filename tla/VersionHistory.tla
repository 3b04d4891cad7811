---------------------------- MODULE VersionHistory -----------------------------
(* A memory and its versions, from src/memory/versions.ts: how the texts that  *)
(* writes replaced are read, and what a history must go on to be whatever      *)
(* writers and undo do. A version keeps the text that a write replaced: in     *)
(* full, or, when the next text begins with it, only as a length.              *)
EXTENDS Naturals, Sequences

CONSTANTS
    Texts,              \* what a memory may say, with every beginning of it
    VersionKeep,        \* VERSION_KEEP
    MirrorKeep,         \* MIRROR_VERSION_KEEP
    MaxSeq              \* bound on the versions taken

ASSUME TextsAssumption ==
    /\ Texts \subseteq Seq(Nat) \ {<<>>}
    /\ \A t \in Texts : \A n \in 1..Len(t) : SubSeq(t, 1, n) \in Texts

ASSUME KeepAssumption ==
    /\ VersionKeep \in Nat \ {0} /\ MirrorKeep \in Nat \ {0}
    /\ MaxSeq \in Nat

NoText == <<>>      \* content IS NULL

Extends(s, t) == Len(s) <= Len(t) /\ SubSeq(t, 1, Len(s)) = s

-------------------------------------------------------------------------------
VARIABLES
    content,    \* entries.content
    history,    \* entry_versions of the memory, by seq
    call,       \* what each call has read and decided
    was,        \* history: the text before each version
    recreated   \* history: how often a merge's incoming text became a row of its own

historyVars == <<content, history, call, was, recreated>>

Seqs == 1..MaxSeq

-------------------------------------------------------------------------------
(* Reading a history.                                                          *)

\* The newest sequence number, 0 without versions.
Newest == IF DOMAIN history = {} THEN 0
          ELSE CHOOSE n \in DOMAIN history : \A m \in DOMAIN history : m <= n

\* What a run of lengths is cut from: the nearest newer full copy, or the row.
FullAbove(seq) == {n \in DOMAIN history : n > seq /\ history[n].text # NoText}

Base(current, seq) ==
    IF FullAbove(seq) = {} THEN current
    ELSE history[CHOOSE n \in FullAbove(seq) : \A m \in FullAbove(seq) : n <= m].text

\* A length beyond its base is a VersionChainError.
Readable(current, seq) ==
    history[seq].text # NoText \/ history[seq].len <= Len(Base(current, seq))

\* The text before the change that a version recorded.
TextAt(current, seq) ==
    IF history[seq].text # NoText THEN history[seq].text
    ELSE SubSeq(Base(current, seq), 1, history[seq].len)

-------------------------------------------------------------------------------
(* Properties.                                                                 *)

\* The kept versions are a run that ends with the newest.
NoGap == \A n \in DOMAIN history : n = Newest \/ n + 1 \in DOMAIN history

\* Every version reads as the text that its write replaced.
TextsTrue == \A n \in DOMAIN history : Readable(content, n) /\ TextAt(content, n) = was[n]

\* An undo that took itself to leave the text alone lands on another text than it read.
Torn == \E c \in DOMAIN call : /\ call[c].at = "decided" /\ ~call[c].grouped
                               /\ call[c].text = call[c].content /\ content # call[c].content
                               /\ call'[c].at = "idle" /\ history' # history

\* An append leaves out nothing of what the memory said by then.
Appended == \A n \in DOMAIN history' \ DOMAIN history :
                history'[n].reason = "append" => Extends(content, content')

\* What is not a sync's is only pruned by its age.
OthersStay == \A n \in DOMAIN history \ DOMAIN history' :
                  history[n].reason = "mirror" \/ n + VersionKeep <= Newest + 1

\* Whatever overtakes whatever, appends lose nothing, prunes leave no gap and spare what people
\* wrote, and a history that tells the texts as they were still does after any step of a writer
\* or of an undo.  The one exception is Torn: an undo of a single memory that had read the row
\* before a write and the versions after it.
HistoryIsTrue == [][NoGap' /\ Appended /\ OthersStay /\ (TextsTrue => TextsTrue' \/ Torn)]_historyVars

\* The incoming text of a merge becomes a row of its own at most once, however often undo goes
\* back and forth past the merge, two at a time included.
RecreatedOnce == \A m \in Seqs : recreated[m] <= 1

\* The comment on VersionChain.text: every version can be read, and reads as "the text this
\* entry had before the change version `seq` recorded".
HistoryReadable == TextsTrue
===============================================================================
