-------------------------- MODULE EntryVersionsProofs --------------------------
(* Proofs about EntryVersions for any calls, any texts closed under beginnings *)
(* and any numbers of versions kept.                                           *)
EXTENDS EntryVersions, SequenceTheorems, TLAPS

-------------------------------------------------------------------------------
(* The inductive invariant.                                                    *)

\* The kept versions have a newest one, and those kept in full above any have an oldest one.
Ordered ==
    /\ DOMAIN history # {} => \E n \in DOMAIN history : \A m \in DOMAIN history : m <= n
    /\ \A n \in DOMAIN history : FullAbove(n) # {} => \E k \in FullAbove(n) : \A m \in FullAbove(n) : k <= m

\* A version that is no full copy keeps the length of a text.
Lengths == \A n \in DOMAIN history : history[n].text = NoText => history[n].len >= 1

\* What a call has read: a text, versions up to the newest, and the text of now if there are
\* no newer ones; an undo that is not of a group may have read its text earlier.
ReadCalls ==
    \A c \in Calls : call[c].at # "idle" =>
        /\ call[c].content \in Texts
        /\ call[c].tip <= Newest
        /\ call[c].at = "read" \/ call[c].grouped =>
               (call[c].tip = Newest => call[c].content = content)

\* What an undo has decided: a text, and, while no newer version comes, merges that no version
\* records as taken out.
DecidedCalls ==
    \A c \in Calls : call[c].at = "decided" =>
        /\ call[c].text \in Texts
        /\ call[c].creates \subseteq call[c].covers
        /\ call[c].tip = Newest => /\ call[c].creates \subseteq DOMAIN history
                                   /\ call[c].creates \cap Recorded = {}

\* A merge whose incoming text has been taken out is recorded for as long as it is kept itself:
\* by a newer version, which the prunes take later.
TakenOut ==
    \A m \in Seqs : recreated[m] # 0 =>
        /\ recreated[m] = 1
        /\ m <= Newest
        /\ m \in DOMAIN history => \E n \in DOMAIN history : n > m /\ m \in history[n].covers

HistoryInv ==
    /\ TypeOK /\ Ordered /\ Lengths /\ NoGap
    /\ ReadCalls /\ DecidedCalls /\ TakenOut

-------------------------------------------------------------------------------
(* Texts.                                                                      *)

LEMMA TextIsSeq ==
  ASSUME NEW t \in Texts
  PROVE  /\ t \in Seq(Nat) /\ Len(t) \in Nat /\ Len(t) >= 1
         /\ t # NoText
         /\ SubSeq(t, 1, Len(t)) = t
         /\ \A n \in 1..Len(t) : SubSeq(t, 1, n) \in Texts
  <1>1. t \in Seq(Nat) /\ t # <<>>
    BY TextsAssumption
  <1>2. Len(t) \in Nat /\ Len(t) # 0
    BY <1>1, EmptySeq, LenProperties
  <1>3. SubSeq(t, 1, Len(t)) = t
    BY <1>1, SubSeqFull
  <1> QED BY <1>1, <1>2, <1>3, TextsAssumption DEF NoText

\* A text extends itself, and a beginning of what it extends is a beginning of it.
LEMMA Beginnings ==
  ASSUME NEW s \in Texts, NEW t \in Texts, Extends(s, t), NEW n \in 1..Len(s)
  PROVE  n <= Len(t) /\ SubSeq(t, 1, n) = SubSeq(s, 1, n)
  <1>1. /\ s \in Seq(Nat) /\ Len(s) \in Nat /\ t \in Seq(Nat) /\ Len(t) \in Nat
        /\ Len(s) <= Len(t) /\ SubSeq(t, 1, Len(s)) = s /\ n \in Nat /\ n <= Len(s)
    BY TextIsSeq DEF Extends
  <1>2. SubSeq(SubSeq(t, 1, Len(s)), 1, n) = SubSeq(t, 1, n)
    BY <1>1, SubSeqOfSubSeq
  <1> QED BY <1>1, <1>2

LEMMA ExtendsItself ==
  ASSUME NEW t \in Texts
  PROVE  Extends(t, t)
  BY TextIsSeq DEF Extends

-------------------------------------------------------------------------------
(* The newest version, and the base of a run of lengths.                       *)

LEMMA NewestIs ==
  ASSUME TypeOK, Ordered
  PROVE  /\ Newest \in Nat /\ Newest \in 0..MaxSeq
         /\ \A m \in DOMAIN history : m \in Nat /\ m >= 1 /\ m <= Newest
         /\ DOMAIN history # {} => Newest \in DOMAIN history
  <1>1. MaxSeq \in Nat /\ \A m \in DOMAIN history : m \in Nat /\ m >= 1 /\ m <= MaxSeq
    BY KeepAssumption DEF TypeOK, Seqs
  <1>2. CASE DOMAIN history = {}
    BY <1>1, <1>2 DEF Newest
  <1>3. CASE DOMAIN history # {}
    <2>1. Newest = CHOOSE n \in DOMAIN history : \A m \in DOMAIN history : m <= n
      BY <1>3 DEF Newest
    <2>2. Newest \in DOMAIN history /\ \A m \in DOMAIN history : m <= Newest
      BY <1>3, <2>1 DEF Ordered
    <2> QED BY <1>1, <2>2
  <1> QED BY <1>2, <1>3

LEMMA BaseIs ==
  ASSUME TypeOK, Ordered, NEW current \in Texts, NEW n \in DOMAIN history
  PROVE  /\ Base(current, n) \in Texts
         /\ FullAbove(n) = {} => Base(current, n) = current
  <1>1. CASE FullAbove(n) = {}
    BY <1>1 DEF Base
  <1>2. CASE FullAbove(n) # {}
    <2> DEFINE k == CHOOSE k \in FullAbove(n) : \A m \in FullAbove(n) : k <= m
    <2>2. k \in FullAbove(n)
      BY <1>2 DEF Ordered
    <2>3. history[k].text \in Texts
      BY <2>2 DEF FullAbove, TypeOK, Version, NoText
    <2> QED BY <1>2, <2>3 DEF Base
  <1> QED BY <1>1, <1>2

\* A version that can be read reads as a text.
LEMMA TextAtIs ==
  ASSUME TypeOK, Ordered, Lengths, NEW current \in Texts, NEW n \in DOMAIN history, Readable(current, n)
  PROVE  TextAt(current, n) \in Texts
  <1>1. CASE history[n].text # NoText
    BY <1>1 DEF TextAt, TypeOK, Version
  <1>2. CASE history[n].text = NoText
    <2>1. Base(current, n) \in Texts /\ history[n].len \in Nat /\ history[n].len >= 1
      BY <1>2, BaseIs DEF TypeOK, Version, Lengths
    <2>2. history[n].len \in 1..Len(Base(current, n))
      BY <1>2, <2>1, TextIsSeq DEF Readable
    <2> QED BY <1>2, <2>1, <2>2, TextIsSeq DEF TextAt
  <1> QED BY <1>1, <1>2
-------------------------------------------------------------------------------
(* A snapshot and its prunes.                                                  *)

\* The prunes keep the new version, and with a version all that are newer; what they take is a
\* sync's or old.
LEMMA KeptIs ==
  ASSUME TypeOK, Ordered, NEW reason
  PROVE  LET seq == Newest + 1 IN
         /\ Kept(seq, reason) \subseteq DOMAIN history \cup {seq}
         /\ seq \in Kept(seq, reason)
         /\ \A n \in Kept(seq, reason), m \in DOMAIN history : m > n => m \in Kept(seq, reason)
         /\ \A n \in DOMAIN history \ Kept(seq, reason) :
                history[n].reason = "mirror" \/ n + VersionKeep <= seq
  <1> DEFINE seq == Newest + 1
             Left == {n \in DOMAIN history \cup {seq} : n + VersionKeep > seq}
  <1>1. /\ seq \in Nat /\ seq \notin DOMAIN history
        /\ \A m \in DOMAIN history \cup {seq} : m \in Nat /\ m <= seq
    BY NewestIs
  <1>2. VersionKeep \in Nat /\ VersionKeep >= 1 /\ MirrorKeep \in Nat /\ MirrorKeep >= 1
    BY KeepAssumption
  <1>3. Kept(seq, reason) = {n \in Left : \/ reason # "mirror" \/ n + MirrorKeep > seq
                                          \/ \E k \in Left \ {seq} : k <= n /\ history[k].reason # "mirror"}
    BY DEF Kept
  <1>4. seq \in Left /\ seq + MirrorKeep > seq
    BY <1>1, <1>2
  <1>5. ASSUME NEW n \in Kept(seq, reason), NEW m \in DOMAIN history, m > n
        PROVE  m \in Kept(seq, reason)
    <2>1. n \in Nat /\ m \in Nat /\ n + VersionKeep > seq
      BY <1>1, <1>3
    <2>2. m \in Left
      BY <1>1, <1>2, <1>5, <2>1
    <2>3. CASE n + MirrorKeep > seq
      BY <1>1, <1>2, <1>3, <1>5, <2>1, <2>2, <2>3
    <2>4. CASE reason # "mirror"
      BY <1>3, <2>2, <2>4
    <2>5. CASE \E k \in Left \ {seq} : k <= n /\ history[k].reason # "mirror"
      <3>1. PICK k \in Left \ {seq} : k <= n /\ history[k].reason # "mirror"
        BY <2>5
      <3>2. k <= m
        BY <1>1, <1>5, <2>1, <3>1
      <3> QED BY <1>3, <2>2, <3>1, <3>2
    <2> QED BY <1>3, <2>3, <2>4, <2>5
  <1>6. ASSUME NEW n \in DOMAIN history \ Kept(seq, reason)
        PROVE  history[n].reason = "mirror" \/ n + VersionKeep <= seq
    <2>1. CASE n \notin Left
      BY <1>1, <1>2, <2>1
    <2>2. CASE n \in Left
      <3>1. n \in Left \ {seq} /\ n <= n
        BY <1>1, <2>2
      <3> QED BY <1>3, <1>6, <3>1
    <2> QED BY <2>1, <2>2
  <1> QED BY <1>3, <1>4, <1>5, <1>6

\* What holds of the versions after a snapshot, whoever takes it.
Snapped(reason, delta, covers) ==
    LET seq == Newest + 1 IN
    /\ seq \in Seqs
    /\ DOMAIN history' \subseteq DOMAIN history \cup {seq}
    /\ seq \in DOMAIN history' /\ seq \notin DOMAIN history
    /\ \A n \in DOMAIN history', m \in DOMAIN history : m > n => m \in DOMAIN history'
    /\ \A n \in DOMAIN history \ DOMAIN history' : history[n].reason = "mirror" \/ n + VersionKeep <= seq
    /\ \A n \in DOMAIN history' \ {seq} : history'[n] = history[n] /\ was'[n] = was[n]
    /\ history'[seq] = [text |-> IF delta THEN NoText ELSE content,
                         len |-> IF delta THEN Len(content) ELSE 0,
                         reason |-> reason, covers |-> covers]
    /\ was'[seq] = content
    /\ Newest' = seq

LEMMA SnapshotStep ==
  ASSUME TypeOK, Ordered, Lengths, NoGap,
         NEW reason \in Reasons, NEW delta \in BOOLEAN, NEW covers \in SUBSET Seqs,
         Snapshot(reason, delta, covers)
  PROVE  /\ Snapped(reason, delta, covers)
         /\ DOMAIN history' \subseteq Seqs
         /\ history' \in [DOMAIN history' -> Version]
         /\ was' \in [DOMAIN history' -> Texts]
         /\ Ordered' /\ Lengths' /\ NoGap'
  <1> DEFINE seq == Newest + 1
             kept == Kept(seq, reason)
             v == [text |-> IF delta THEN NoText ELSE content, len |-> IF delta THEN Len(content) ELSE 0,
                   reason |-> reason, covers |-> covers]
  <1>1. /\ seq <= MaxSeq
        /\ history' = [n \in kept |-> IF n = seq THEN v ELSE history[n]]
        /\ was' = [n \in kept |-> IF n = seq THEN content ELSE was[n]]
    BY DEF Snapshot
  <1>2. /\ DOMAIN history' = kept
        /\ kept \subseteq DOMAIN history \cup {seq} /\ seq \in kept
        /\ \A n \in kept, m \in DOMAIN history : m > n => m \in kept
        /\ \A n \in DOMAIN history \ kept : history[n].reason = "mirror" \/ n + VersionKeep <= seq
    BY <1>1, KeptIs
  <1>3. /\ Newest \in Nat /\ seq \in Nat /\ seq >= 1 /\ seq \notin DOMAIN history
        /\ \A m \in DOMAIN history \cup {seq} : m \in Nat /\ m <= seq
    BY NewestIs
  <1>4. \A n \in kept \ {seq} : n \in DOMAIN history /\ history'[n] = history[n] /\ was'[n] = was[n]
    BY <1>1, <1>2
  <1>5. history'[seq] = v /\ was'[seq] = content
    BY <1>1, <1>2
  <1>6. seq \in Seqs /\ kept \subseteq Seqs
    BY <1>1, <1>2, <1>3, KeepAssumption DEF TypeOK, Seqs
  <1>7. content \in Texts /\ Len(content) \in Nat /\ Len(content) >= 1 /\ content # NoText
    BY TextIsSeq DEF TypeOK
  <1>8. v \in Version
    BY <1>7 DEF Version
  <1>9. history' \in [kept -> Version] /\ was' \in [kept -> Texts]
    BY <1>1, <1>2, <1>4, <1>7, <1>8 DEF TypeOK
  <1>10. Newest' = seq
    <2>1. \A m \in kept : m \in Nat /\ m <= seq
      BY <1>2, <1>3
    <2>2. Newest' = CHOOSE n \in kept : \A m \in kept : m <= n
      BY <1>2 DEF Newest
    <2>3. Newest' \in kept /\ \A m \in kept : m <= Newest'
      BY <1>2, <2>1, <2>2
    <2> QED BY <1>2, <1>3, <2>1, <2>3
  <1>11. Lengths'
    BY <1>2, <1>4, <1>5, <1>7 DEF Lengths
  <1>12. NoGap'
    <2> SUFFICES ASSUME NEW n \in kept, n # seq PROVE n + 1 \in kept
      BY <1>2, <1>10 DEF NoGap
    <2>1. n \in DOMAIN history /\ n \in Nat /\ (n = Newest \/ n + 1 \in DOMAIN history)
      BY <1>3, <1>4 DEF NoGap
    <2> QED BY <1>2, <2>1
  <1>13. Ordered'
    <2>1. \A m \in kept : m <= seq
      BY <1>2, <1>3
    <2>2. ASSUME NEW n \in kept, FullAbove(n)' # {}
          PROVE  \E k \in FullAbove(n)' : \A m \in FullAbove(n)' : k <= m
      <3>1. FullAbove(n)' \subseteq FullAbove(n) \cup {seq}
        BY <1>2, <1>4 DEF FullAbove
      <3>2. n # seq => FullAbove(n) \subseteq FullAbove(n)'
        BY <1>2, <1>3, <1>4 DEF FullAbove
      <3>3. n = seq => FullAbove(n) = {}
        BY <1>3 DEF FullAbove
      <3>4. \A m \in FullAbove(n) : m \in Nat /\ m <= seq
        BY <1>3 DEF FullAbove
      <3>5. CASE FullAbove(n) = {}
        BY <1>3, <2>2, <3>1, <3>5
      <3>6. CASE FullAbove(n) # {}
        <4>1. n \in DOMAIN history /\ n # seq
          BY <1>2, <3>3, <3>6
        <4>2. PICK k \in FullAbove(n) : \A m \in FullAbove(n) : k <= m
          BY <3>6, <4>1 DEF Ordered
        <4> QED BY <3>1, <3>2, <3>4, <4>1, <4>2
      <3> QED BY <3>5, <3>6
    <2> QED BY <1>2, <2>1, <2>2 DEF Ordered
  <1> QED BY <1>2, <1>3, <1>4, <1>5, <1>6, <1>9, <1>10, <1>11, <1>12, <1>13 DEF Snapped
-------------------------------------------------------------------------------
(* The invariant, action by action.                                            *)

LEMMA IdleIsCall == Idle \in Call /\ Idle.at = "idle"
  BY KeepAssumption DEF Idle, Call

LEMMA HistoryStarts == Init => HistoryInv
  <1> SUFFICES ASSUME Init PROVE HistoryInv
    OBVIOUS
  <1>1. DOMAIN history = {} /\ DOMAIN was = {}
    BY DEF Init
  <1>2. history \in [DOMAIN history -> Version] /\ was \in [DOMAIN history -> Texts]
    BY <1>1 DEF Init
  <1>3. TypeOK
    BY <1>1, <1>2, IdleIsCall DEF Init, TypeOK
  <1> QED BY <1>1, <1>3, IdleIsCall DEF Init, HistoryInv, Ordered, Lengths, NoGap, ReadCalls, DecidedCalls, TakenOut

\* A snapshot outdates whatever the calls know.
LEMMA CallsOutdated ==
  ASSUME HistoryInv, NEW reason, NEW delta, NEW covers, Snapped(reason, delta, covers),
         \A c \in Calls : call'[c] = call[c] \/ call'[c] = Idle
  PROVE  ReadCalls' /\ DecidedCalls'
  <1>1. Newest' = Newest + 1 /\ Newest \in Nat
    BY NewestIs DEF Snapped, HistoryInv
  <1>2. \A c \in Calls : call[c].tip \in Nat
    BY KeepAssumption DEF HistoryInv, TypeOK, Call
  <1>3. ASSUME NEW c \in Calls, call'[c].at # "idle"
        PROVE  /\ call'[c] = call[c] /\ call'[c].content \in Texts
               /\ call'[c].tip <= Newest' /\ call'[c].tip # Newest'
    <2>1. call'[c] = call[c]
      BY <1>3, IdleIsCall
    <2>2. call[c].content \in Texts /\ call[c].tip <= Newest
      BY <1>3, <2>1 DEF HistoryInv, ReadCalls
    <2> QED BY <1>1, <1>2, <2>1, <2>2
  <1>4. ReadCalls'
    BY <1>3 DEF ReadCalls
  <1>5. DecidedCalls'
    BY <1>3 DEF DecidedCalls, HistoryInv
  <1> QED BY <1>4, <1>5

\* What has been taken out stays recorded, and what an undo takes out is recorded by its version.
LEMMA TakenOutStays ==
  ASSUME HistoryInv, NEW reason, NEW delta, NEW covers, Snapped(reason, delta, covers),
         \A m \in Seqs : \/ recreated'[m] = recreated[m]
                         \/ recreated'[m] = 1 /\ m \in DOMAIN history /\ m \in covers
  PROVE  TakenOut'
  <1> DEFINE seq == Newest + 1
  <1>1. /\ Newest \in Nat /\ Newest' = seq
        /\ \A m \in DOMAIN history : m \in Nat /\ m <= Newest
        /\ seq \in DOMAIN history' /\ history'[seq].covers = covers
    BY NewestIs DEF HistoryInv, Snapped
  <1> SUFFICES ASSUME NEW m \in Seqs, recreated'[m] # 0
               PROVE  /\ recreated'[m] = 1 /\ m <= Newest'
                      /\ m \in DOMAIN history' =>
                             \E n \in DOMAIN history' : n > m /\ m \in history'[n].covers
    BY DEF TakenOut
  <1>2. m \in Nat
    BY DEF Seqs
  <1>3. CASE recreated'[m] = 1 /\ m \in DOMAIN history /\ m \in covers
    BY <1>1, <1>3
  <1>4. CASE recreated'[m] = recreated[m]
    <2>1. recreated[m] = 1 /\ m <= Newest
      BY <1>4 DEF HistoryInv, TakenOut
    <2>2. ASSUME m \in DOMAIN history'
          PROVE  \E n \in DOMAIN history' : n > m /\ m \in history'[n].covers
      <3>1. m \in DOMAIN history
        BY <1>1, <1>2, <2>1, <2>2 DEF Snapped
      <3>2. PICK n \in DOMAIN history : n > m /\ m \in history[n].covers
        BY <1>4, <3>1 DEF HistoryInv, TakenOut
      <3>3. n \in DOMAIN history' /\ history'[n] = history[n]
        BY <2>2, <3>2 DEF Snapped
      <3> QED BY <3>2, <3>3
    <2> QED BY <1>1, <1>2, <1>4, <2>1, <2>2
  <1> QED BY <1>3, <1>4

\* A writer takes a version and takes nothing out of a merge.
LEMMA WriterKeeps ==
  ASSUME HistoryInv, NEW reason \in Reasons, NEW delta \in BOOLEAN, Snapshot(reason, delta, {}),
         content' \in Texts, call' \in [Calls -> Call], recreated' = recreated,
         \A c \in Calls : call'[c] = call[c] \/ call'[c] = Idle
  PROVE  HistoryInv'
  <1>1. /\ Snapped(reason, delta, {})
        /\ DOMAIN history' \subseteq Seqs /\ history' \in [DOMAIN history' -> Version]
        /\ was' \in [DOMAIN history' -> Texts]
        /\ Ordered' /\ Lengths' /\ NoGap'
    BY SnapshotStep DEF HistoryInv
  <1>2. TypeOK'
    BY <1>1 DEF HistoryInv, TypeOK
  <1>3. ReadCalls' /\ DecidedCalls'
    BY <1>1, CallsOutdated
  <1>4. TakenOut'
    BY <1>1, TakenOutStays
  <1> QED BY <1>1, <1>2, <1>3, <1>4 DEF HistoryInv

LEMMA WriteKeeps ==
  ASSUME HistoryInv, NEW c \in Calls, NEW reason \in Reasons, NEW next \in Texts, Write(c, reason, next)
  PROVE  HistoryInv'
  <1>1. call' \in [Calls -> Call] /\ \A d \in Calls : call'[d] = call[d] \/ call'[d] = Idle
    BY IdleIsCall DEF Write, HistoryInv, TypeOK
  <1>2. Extends(content, next) \in BOOLEAN
    BY DEF Extends
  <1> QED BY <1>1, <1>2, WriterKeeps DEF Write

LEMMA SetStatusKeeps ==
  ASSUME HistoryInv, SetStatus
  PROVE  HistoryInv'
  <1>1. content' \in Texts /\ call' \in [Calls -> Call]
    BY DEF SetStatus, HistoryInv, TypeOK
  <1> QED BY <1>1, WriterKeeps DEF SetStatus, Reasons

LEMMA RollUpKeeps ==
  ASSUME HistoryInv, NEW next \in Texts, RollUp(next)
  PROVE  HistoryInv'
  <1>1. call' \in [Calls -> Call]
    BY DEF RollUp, HistoryInv, TypeOK
  <1> QED BY <1>1, WriterKeeps DEF RollUp, Reasons

\* A call moves, the memory stays.
LEMMA CallMoves ==
  ASSUME HistoryInv, UNCHANGED <<content, history, was, recreated>>, call' \in [Calls -> Call],
         ReadCalls', DecidedCalls'
  PROVE  HistoryInv'
  BY DEF HistoryInv, TypeOK, Ordered, FullAbove, Lengths, NoGap, Newest, TakenOut

LEMMA ReadKeeps ==
  ASSUME HistoryInv, NEW c \in Calls, NEW grouped \in BOOLEAN, Read(c, grouped)
  PROVE  HistoryInv'
  <1> DEFINE now == [Idle EXCEPT !.at = "read", !.content = content, !.tip = Newest, !.grouped = grouped]
  <1>1. Newest \in 0..MaxSeq
    BY NewestIs DEF HistoryInv
  <1>2. /\ call' = [call EXCEPT ![c] = now] /\ UNCHANGED <<content, history, was, recreated>>
        /\ Newest' = Newest /\ Recorded' = Recorded
    BY DEF Read, Newest, Recorded
  <1>3. now \in Call /\ now.at = "read" /\ now.content = content /\ now.tip = Newest
    BY <1>1, IdleIsCall DEF HistoryInv, TypeOK, Call, Idle
  <1>4. /\ call' \in [Calls -> Call] /\ call'[c] = now
        /\ \A d \in Calls : d # c => call'[d] = call[d]
    BY <1>2, <1>3 DEF HistoryInv, TypeOK
  <1>5. ReadCalls'
    BY <1>1, <1>2, <1>3, <1>4 DEF ReadCalls, HistoryInv, TypeOK
  <1>6. DecidedCalls'
    BY <1>2, <1>3, <1>4 DEF DecidedCalls, HistoryInv
  <1> QED BY <1>2, <1>4, <1>5, <1>6, CallMoves

LEMMA LeaveKeeps ==
  ASSUME HistoryInv, NEW c \in Calls, Leave(c)
  PROVE  HistoryInv'
  <1>1. UNCHANGED <<content, history, was, recreated>> /\ Newest' = Newest /\ Recorded' = Recorded
    BY DEF Leave, Newest, Recorded
  <1>2. call' \in [Calls -> Call] /\ \A d \in Calls : call'[d] = call[d] \/ call'[d] = Idle
    BY IdleIsCall DEF Leave, HistoryInv, TypeOK
  <1>3. ReadCalls' /\ DecidedCalls'
    BY <1>1, <1>2, IdleIsCall DEF ReadCalls, DecidedCalls, HistoryInv
  <1> QED BY <1>1, <1>2, <1>3, CallMoves
LEMMA ReadVersionsKeeps ==
  ASSUME HistoryInv, NEW c \in Calls, NEW seq \in DOMAIN history, ReadVersions(c, seq)
  PROVE  HistoryInv'
  <1> DEFINE crossed == Crossed(seq)
             covers == crossed \cup history[seq].covers
             text == TextAt(call[c].content, seq)
             now == [call[c] EXCEPT !.at = "decided", !.tip = Newest, !.text = text,
                                    !.creates = crossed, !.covers = covers]
  <1>1. /\ call[c].at = "read" /\ (call[c].grouped => call[c].tip = Newest)
        /\ Readable(call[c].content, seq)
        /\ call' = [call EXCEPT ![c] = now] /\ UNCHANGED <<content, history, was, recreated>>
        /\ Newest' = Newest /\ Recorded' = Recorded
    BY DEF ReadVersions, Newest, Recorded
  <1>2. Newest \in 0..MaxSeq /\ Newest <= Newest
    BY NewestIs DEF HistoryInv
  <1>3. /\ call[c].content \in Texts
        /\ call[c].grouped => call[c].content = content
    BY <1>1 DEF HistoryInv, ReadCalls
  <1>4. text \in Texts
    BY <1>1, <1>3, TextAtIs DEF HistoryInv
  <1>5. /\ crossed \subseteq DOMAIN history /\ crossed \cap Recorded = {}
        /\ crossed \in SUBSET Seqs /\ covers \in SUBSET Seqs
    BY DEF Crossed, HistoryInv, TypeOK, Version
  <1>6. call[c] \in Call
    BY DEF HistoryInv, TypeOK
  <1>7. /\ now \in Call /\ now.at = "decided" /\ now.tip = Newest /\ now.text = text
        /\ now.creates = crossed /\ now.covers = covers
        /\ now.content = call[c].content /\ now.grouped = call[c].grouped
    BY <1>2, <1>4, <1>5, <1>6 DEF Call
  <1>8. /\ call' \in [Calls -> Call] /\ call'[c] = now
        /\ \A d \in Calls : d # c => call'[d] = call[d]
    BY <1>1, <1>7 DEF HistoryInv, TypeOK
  <1>9. ReadCalls'
    BY <1>1, <1>2, <1>3, <1>7, <1>8 DEF ReadCalls, HistoryInv
  <1>10. DecidedCalls'
    BY <1>1, <1>4, <1>5, <1>7, <1>8 DEF DecidedCalls, HistoryInv
  <1> QED BY <1>1, <1>8, <1>9, <1>10, CallMoves

\* What an undo takes out of a merge had not been taken out, or the record would be there.
LEMMA UndoCounts ==
  ASSUME HistoryInv, NEW c \in Calls, Undo(c), NEW m \in Seqs
  PROVE  \/ recreated'[m] = recreated[m]
         \/ recreated'[m] = 1 /\ m \in DOMAIN history /\ m \in call[c].covers
  <1>1. /\ call[c].at = "decided" /\ Newest = call[c].tip
        /\ recreated'[m] = recreated[m] + (IF m \in call[c].creates THEN 1 ELSE 0)
    BY DEF Undo
  <1>2. recreated[m] \in Nat
    BY DEF HistoryInv, TypeOK
  <1>3. CASE m \notin call[c].creates
    BY <1>1, <1>2, <1>3
  <1>4. CASE m \in call[c].creates
    <2>1. m \in DOMAIN history /\ m \notin Recorded /\ m \in call[c].covers
      BY <1>1, <1>4 DEF HistoryInv, DecidedCalls
    <2>2. recreated[m] = 0
      BY <2>1 DEF HistoryInv, TakenOut, Recorded
    <2> QED BY <1>1, <1>4, <2>1, <2>2
  <1> QED BY <1>3, <1>4

LEMMA UndoKeeps ==
  ASSUME HistoryInv, NEW c \in Calls, Undo(c)
  PROVE  HistoryInv'
  <1> DEFINE same == call[c].text = call[c].content
             delta == same \/ Extends(content, call[c].text)
  <1>1. /\ call[c].at = "decided" /\ Snapshot("own", delta, call[c].covers)
        /\ content' = call[c].text /\ call' = [call EXCEPT ![c] = Idle]
        /\ recreated' = [m \in Seqs |-> recreated[m] + (IF m \in call[c].creates THEN 1 ELSE 0)]
    BY DEF Undo
  <1>2. delta \in BOOLEAN /\ "own" \in Reasons /\ call[c].covers \in SUBSET Seqs
    BY DEF Extends, Reasons, HistoryInv, TypeOK, Call
  <1>3. /\ Snapped("own", delta, call[c].covers)
        /\ DOMAIN history' \subseteq Seqs /\ history' \in [DOMAIN history' -> Version]
        /\ was' \in [DOMAIN history' -> Texts]
        /\ Ordered' /\ Lengths' /\ NoGap'
    BY <1>1, <1>2, SnapshotStep DEF HistoryInv
  <1>4. content' \in Texts
    BY <1>1 DEF HistoryInv, DecidedCalls
  <1>5. call' \in [Calls -> Call] /\ \A d \in Calls : call'[d] = call[d] \/ call'[d] = Idle
    BY <1>1, IdleIsCall DEF HistoryInv, TypeOK
  <1>6. recreated' \in [Seqs -> Nat]
    BY <1>1 DEF HistoryInv, TypeOK
  <1>7. ReadCalls' /\ DecidedCalls'
    BY <1>3, <1>5, CallsOutdated
  <1>8. TakenOut'
    BY <1>3, UndoCounts, TakenOutStays
  <1> QED BY <1>3, <1>4, <1>5, <1>6, <1>7, <1>8 DEF HistoryInv, TypeOK

LEMMA HistoryInductive == HistoryInv /\ [Next]_historyVars => HistoryInv'
  <1> SUFFICES ASSUME HistoryInv, [Next]_historyVars PROVE HistoryInv'
    OBVIOUS
  <1>1. ASSUME NEW c \in Calls, NEW grouped \in BOOLEAN, Read(c, grouped) PROVE HistoryInv'
    BY <1>1, ReadKeeps
  <1>2. ASSUME NEW c \in Calls, NEW reason \in {"append", "merge", "mirror", "own"}, NEW next \in Texts,
               Write(c, reason, next)
        PROVE  HistoryInv'
    BY <1>2, WriteKeeps DEF Reasons
  <1>3. ASSUME NEW c \in Calls, NEW seq \in DOMAIN history, ReadVersions(c, seq) PROVE HistoryInv'
    BY <1>3, ReadVersionsKeeps
  <1>4. ASSUME NEW c \in Calls, Undo(c) PROVE HistoryInv'
    BY <1>4, UndoKeeps
  <1>5. ASSUME NEW c \in Calls, Leave(c) PROVE HistoryInv'
    BY <1>5, LeaveKeeps
  <1>6. CASE SetStatus
    BY <1>6, SetStatusKeeps
  <1>7. ASSUME NEW next \in Texts, RollUp(next) PROVE HistoryInv'
    BY <1>7, RollUpKeeps
  <1>8. CASE UNCHANGED historyVars
    <2>1. UNCHANGED <<content, history, was, recreated>> /\ call' = call
      BY <1>8 DEF historyVars
    <2>2. call' \in [Calls -> Call]
      BY <2>1 DEF HistoryInv, TypeOK
    <2>3. Newest' = Newest /\ Recorded' = Recorded
      BY <2>1 DEF Newest, Recorded
    <2>4. ReadCalls' /\ DecidedCalls'
      BY <2>1, <2>3 DEF HistoryInv, ReadCalls, DecidedCalls
    <2> QED BY <2>1, <2>2, <2>4, CallMoves
  <1> QED BY <1>1, <1>2, <1>3, <1>4, <1>5, <1>6, <1>7, <1>8 DEF Next, Reasons

LEMMA HistoryAlways == Spec => []HistoryInv
  BY HistoryStarts, HistoryInductive, PTL DEF Spec

(* The row, its versions and the calls keep their types, for any calls, texts   *)
(* and numbers of versions kept.                                               *)
THEOREM TypeCorrect == Spec => []TypeOK
  <1>1. HistoryInv => TypeOK
    BY DEF HistoryInv
  <1> QED BY <1>1, HistoryAlways, PTL

(* The incoming text of a merge becomes a row of its own at most once           *)
(* (undo.ts:413): the version that records it outlives the merge's own.         *)
THEOREM RecreatedAtMostOnce == Spec => []RecreatedOnce
  <1>1. HistoryInv => RecreatedOnce
    BY DEF HistoryInv, TypeOK, TakenOut, RecreatedOnce
  <1> QED BY <1>1, HistoryAlways, PTL
-------------------------------------------------------------------------------
(* What a step does to the history.                                            *)

\* A write that does not lose the beginning it counts on leaves every version as true as it was.
LEMMA TextsStayTrue ==
  ASSUME HistoryInv, NEW reason, NEW delta \in BOOLEAN, NEW covers, Snapped(reason, delta, covers),
         content' \in Texts, delta => Extends(content, content'), TextsTrue
  PROVE  TextsTrue'
  <1> DEFINE seq == Newest + 1
  <1>1. /\ content \in Texts /\ Len(content) \in Nat /\ Len(content) >= 1
        /\ content # NoText /\ SubSeq(content, 1, Len(content)) = content
    BY TextIsSeq DEF HistoryInv, TypeOK
  <1>2. /\ Newest \in Nat /\ \A m \in DOMAIN history : m \in Nat /\ m <= Newest
        /\ DOMAIN history' \subseteq DOMAIN history \cup {seq} /\ seq \in DOMAIN history'
    BY NewestIs DEF HistoryInv, Snapped
  <1>3. ASSUME NEW n \in DOMAIN history', n = seq
        PROVE  Readable(content, n)' /\ TextAt(content, n)' = was'[n]
    <2>1. /\ was'[n] = content
          /\ history'[n].text = IF delta THEN NoText ELSE content
          /\ history'[n].len = IF delta THEN Len(content) ELSE 0
      BY <1>3 DEF Snapped
    <2>2. CASE ~delta
      BY <1>1, <2>1, <2>2 DEF Readable, TextAt
    <2>3. CASE delta
      <3>1. FullAbove(n)' = {}
        BY <1>2, <1>3 DEF FullAbove
      <3>2. Base(content, n)' = content'
        BY <3>1 DEF Base
      <3>3. Len(content) <= Len(content') /\ SubSeq(content', 1, Len(content)) = content
        BY <2>3 DEF Extends
      <3> QED BY <2>1, <2>3, <3>2, <3>3 DEF Readable, TextAt
    <2> QED BY <2>2, <2>3
  <1>4. ASSUME NEW n \in DOMAIN history', n # seq
        PROVE  Readable(content, n)' /\ TextAt(content, n)' = was'[n]
    <2>1. /\ n \in DOMAIN history /\ n \in Nat /\ n < seq
          /\ history'[n] = history[n] /\ was'[n] = was[n]
      BY <1>2, <1>4 DEF Snapped
    <2>2. Readable(content, n) /\ TextAt(content, n) = was[n]
      BY <2>1 DEF TextsTrue
    <2>3. CASE history[n].text # NoText
      BY <2>1, <2>2, <2>3 DEF Readable, TextAt
    <2>4. CASE history[n].text = NoText
      <3> DEFINE len == history[n].len
      <3>1. len \in Nat /\ len >= 1 /\ len <= Len(Base(content, n)) /\ SubSeq(Base(content, n), 1, len) = was[n]
        BY <2>1, <2>2, <2>4 DEF HistoryInv, TypeOK, Version, Lengths, Readable, TextAt
      <3>2. FullAbove(n) \subseteq FullAbove(n)'
        BY <1>2, <1>4, <2>1 DEF FullAbove, Snapped
      <3>3. FullAbove(n)' = FullAbove(n) \cup (IF delta THEN {} ELSE {seq})
        BY <1>1, <1>2, <2>1, <3>2 DEF FullAbove, Snapped
      <3>4. SUFFICES len <= Len(Base(content, n)') /\ SubSeq(Base(content, n)', 1, len) = was[n]
        BY <2>1, <2>4 DEF Readable, TextAt
      <3>5. CASE FullAbove(n) # {}
        <4>1. PICK k \in FullAbove(n) : \A m \in FullAbove(n) : k <= m
          BY <2>1, <3>5 DEF HistoryInv, Ordered
        <4>2. \A m \in FullAbove(n) : m \in DOMAIN history /\ m \in Nat /\ m < seq
          BY <1>2 DEF FullAbove
        <4>3. k = CHOOSE i \in FullAbove(n) : \A m \in FullAbove(n) : i <= m
          BY <4>1, <4>2
        <4>4. k \in FullAbove(n)' /\ \A m \in FullAbove(n)' : k <= m /\ m \in Nat
          BY <1>2, <3>3, <4>1, <4>2
        <4>5. k = CHOOSE i \in FullAbove(n)' : \A m \in FullAbove(n)' : i <= m
          BY <4>4
        <4>6. history'[k] = history[k]
          BY <4>1, <4>2, <4>4 DEF Snapped, FullAbove
        <4>7. Base(content, n) = history[k].text
          BY <3>5, <4>3 DEF Base
        <4>8. Base(content, n)' = history'[k].text
          BY <4>4, <4>5 DEF Base
        <4> QED BY <3>1, <4>6, <4>7, <4>8
      <3>6. CASE FullAbove(n) = {} /\ ~delta
        <4>1. FullAbove(n)' = {seq}
          BY <3>3, <3>6
        <4>2. seq = CHOOSE i \in FullAbove(n)' : \A m \in FullAbove(n)' : i <= m
          BY <1>2, <4>1
        <4>3. Base(content, n)' = history'[seq].text
          BY <4>1, <4>2 DEF Base
        <4>4. Base(content, n) = content /\ history'[seq].text = content
          BY <3>6 DEF Base, Snapped
        <4> QED BY <3>1, <4>3, <4>4
      <3>7. CASE FullAbove(n) = {} /\ delta
        <4>1. Base(content, n) = content /\ Base(content, n)' = content'
          BY <3>3, <3>7 DEF Base
        <4>2. len \in 1..Len(content)
          BY <1>1, <3>1, <4>1
        <4>3. Extends(content, content')
          BY <3>7
        <4>4. len <= Len(content') /\ SubSeq(content', 1, len) = SubSeq(content, 1, len)
          BY <1>1, <4>2, <4>3, Beginnings
        <4> QED BY <3>1, <4>1, <4>4
      <3> QED BY <3>5, <3>6, <3>7
    <2> QED BY <2>3, <2>4
  <1> QED BY <1>3, <1>4 DEF TextsTrue

\* The parts of HistoryIsTrue, for a step that takes a version.
LEMMA StepIsTrue ==
  ASSUME HistoryInv, NEW reason, NEW delta \in BOOLEAN, NEW covers, Snapped(reason, delta, covers),
         content' \in Texts, NoGap', reason = "append" => Extends(content, content'),
         (delta => Extends(content, content')) \/ Torn
  PROVE  NoGap' /\ Appended /\ OthersStay /\ (TextsTrue => TextsTrue' \/ Torn)
  <1>1. Appended
    BY DEF Appended, Snapped
  <1>2. OthersStay
    BY DEF OthersStay, Snapped
  <1>3. TextsTrue => TextsTrue' \/ Torn
    BY TextsStayTrue
  <1> QED BY <1>1, <1>2, <1>3

\* A step that takes no version.
LEMMA QuietStep ==
  ASSUME HistoryInv, UNCHANGED <<content, history, was>>
  PROVE  NoGap' /\ Appended /\ OthersStay /\ (TextsTrue => TextsTrue' \/ Torn)
  <1>1. NoGap'
    BY DEF HistoryInv, NoGap, Newest
  <1>2. Appended /\ OthersStay
    BY DEF Appended, OthersStay
  <1>3. \A n : FullAbove(n)' = FullAbove(n)
    BY DEF FullAbove
  <1>4. ASSUME NEW n PROVE Base(content, n)' = Base(content, n)
    <2>1. CASE FullAbove(n) = {}
      BY <1>3, <2>1 DEF Base
    <2>2. CASE FullAbove(n) # {}
      <3> DEFINE k(S) == CHOOSE i \in S : \A m \in S : i <= m
      <3>1. /\ Base(content, n) = history[k(FullAbove(n))].text
            /\ Base(content, n)' = history'[k(FullAbove(n)')].text
        BY <1>3, <2>2 DEF Base
      <3>2. k(FullAbove(n)') = k(FullAbove(n))
        BY <1>3
      <3> QED BY <3>1, <3>2
    <2> QED BY <2>1, <2>2
  <1>5. TextsTrue => TextsTrue'
    BY <1>4 DEF TextsTrue, Readable, TextAt
  <1> QED BY <1>1, <1>2, <1>5

\* An undo that misjudges is Torn: one of a group has read the text of now.
LEMMA UndoExtendsOrTears ==
  ASSUME HistoryInv, NEW c \in Calls, Undo(c), DOMAIN history' # DOMAIN history
  PROVE  LET delta == call[c].text = call[c].content \/ Extends(content, call[c].text)
         IN  (delta => Extends(content, content')) \/ Torn
  <1>1. /\ call[c].at = "decided" /\ Newest = call[c].tip /\ content' = call[c].text
        /\ call' = [call EXCEPT ![c] = Idle] /\ content \in Texts
    BY DEF Undo, HistoryInv, TypeOK
  <1>2. c \in DOMAIN call /\ call'[c].at = "idle" /\ history' # history
    BY <1>1, IdleIsCall DEF HistoryInv, TypeOK
  <1>3. CASE call[c].text = call[c].content /\ content = call[c].content
    BY <1>1, <1>3, ExtendsItself
  <1>4. CASE call[c].text = call[c].content /\ content # call[c].content
    <2>1. ~call[c].grouped
      BY <1>1, <1>4 DEF HistoryInv, ReadCalls
    <2> QED BY <1>1, <1>2, <1>4, <2>1 DEF Torn
  <1>5. CASE call[c].text # call[c].content
    BY <1>1, <1>5
  <1> QED BY <1>3, <1>4, <1>5

LEMMA HistoryStepIsTrue ==
  HistoryInv /\ [Next]_historyVars => NoGap' /\ Appended /\ OthersStay /\ (TextsTrue => TextsTrue' \/ Torn)
  <1> SUFFICES ASSUME HistoryInv, [Next]_historyVars
               PROVE  NoGap' /\ Appended /\ OthersStay /\ (TextsTrue => TextsTrue' \/ Torn)
    OBVIOUS
  <1>1. content \in Texts /\ Extends(content, content)
    BY ExtendsItself DEF HistoryInv, TypeOK
  <1>2. ASSUME NEW c \in Calls, NEW reason \in {"append", "merge", "mirror", "own"}, NEW next \in Texts,
               Write(c, reason, next)
        PROVE  NoGap' /\ Appended /\ OthersStay /\ (TextsTrue => TextsTrue' \/ Torn)
    <2> DEFINE delta == Extends(content, next)
    <2>1. /\ content = call[c].content /\ content' = next /\ reason \in Reasons
          /\ reason = "append" => delta
          /\ delta \in BOOLEAN /\ Snapshot(reason, delta, {})
      BY <1>2 DEF Write, Reasons, Extends
    <2>2. Snapped(reason, delta, {}) /\ NoGap'
      BY <2>1, SnapshotStep DEF HistoryInv
    <2> QED BY <2>1, <2>2, StepIsTrue
  <1>3. CASE SetStatus
    <2>1. /\ content' = content /\ "own" \in Reasons /\ TRUE \in BOOLEAN /\ {} \in SUBSET Seqs
          /\ Snapshot("own", TRUE, {})
      BY <1>3 DEF SetStatus, Reasons
    <2>2. Snapped("own", TRUE, {}) /\ NoGap'
      BY <2>1, SnapshotStep DEF HistoryInv
    <2> QED BY <1>1, <2>1, <2>2, StepIsTrue
  <1>4. ASSUME NEW next \in Texts, RollUp(next)
        PROVE  NoGap' /\ Appended /\ OthersStay /\ (TextsTrue => TextsTrue' \/ Torn)
    <2>1. /\ content' = next /\ Extends(content, next)
          /\ "append" \in Reasons /\ TRUE \in BOOLEAN /\ {} \in SUBSET Seqs
          /\ Snapshot("append", TRUE, {})
      BY <1>4 DEF RollUp, Reasons
    <2>2. Snapped("append", TRUE, {}) /\ NoGap'
      BY <2>1, SnapshotStep DEF HistoryInv
    <2> QED BY <2>1, <2>2, StepIsTrue
  <1>5. ASSUME NEW c \in Calls, Undo(c)
        PROVE  NoGap' /\ Appended /\ OthersStay /\ (TextsTrue => TextsTrue' \/ Torn)
    <2> DEFINE delta == call[c].text = call[c].content \/ Extends(content, call[c].text)
    <2>1. /\ Snapshot("own", delta, call[c].covers) /\ "own" \in Reasons /\ delta \in BOOLEAN
          /\ call[c].covers \in SUBSET Seqs /\ content' \in Texts
      BY <1>5 DEF Undo, Reasons, Extends, HistoryInv, TypeOK, Call, DecidedCalls
    <2>2. Snapped("own", delta, call[c].covers) /\ NoGap'
      BY <2>1, SnapshotStep DEF HistoryInv
    <2>3. DOMAIN history' # DOMAIN history /\ "own" # "append"
      BY <2>2 DEF Snapped
    <2>4. (delta => Extends(content, content')) \/ Torn
      BY <1>5, <2>3, UndoExtendsOrTears
    <2> HIDE DEF delta
    <2> QED BY <2>1, <2>2, <2>3, <2>4, StepIsTrue
  <1>6. CASE UNCHANGED <<content, history, was>>
    BY <1>6, QuietStep
  <1> QED BY <1>2, <1>3, <1>4, <1>5, <1>6 DEF Next, Reasons, Read, ReadVersions, Leave, historyVars

(* Appends lose nothing, prunes leave no gap and spare what people wrote, and   *)
(* every version tells the text it was taken of, whatever overtakes whatever    *)
(* (versions.ts:90, 254, 392), but for a torn undo of a single memory           *)
(* (undo.ts:330).                                                               *)
THEOREM HistoryTold == Spec => HistoryIsTrue
  <1>1. HistoryInv /\ [Next]_historyVars => [NoGap' /\ Appended /\ OthersStay /\ (TextsTrue => TextsTrue' \/ Torn)]_historyVars
    BY HistoryStepIsTrue
  <1> QED BY <1>1, HistoryAlways, PTL DEF Spec, HistoryIsTrue
===============================================================================
