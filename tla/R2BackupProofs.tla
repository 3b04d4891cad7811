---------------------------- MODULE R2BackupProofs ----------------------------
(***************************************************************************)
(* Proofs about R2Restore for every set of calls, archives, page limits,   *)
(* offsets and rows of normal operation, and about R2Snapshot for every    *)
(* set of attempts and IDs and any number of pages and source versions.    *)
(***************************************************************************)
EXTENDS R2Restore, BackupObjects, FiniteSetTheorems, TLAPS

-------------------------------------------------------------------------------
(* Cursors and pages.                                                      *)

LEMMA NullApart == Null \notin Calls /\ Null \notin Backups /\ Null \notin Nat
  BY RestoreAssumption

\* A cursor within an archive is a cursor.
LEMMA CursorFacts ==
    /\ Cursor \subseteq Nat
    /\ 0 \in Cursor
    /\ \A b \in Backups : Rows[b] \in Nat /\ 0..Rows[b] \subseteq Cursor
  BY RestoreAssumption DEF Cursor

\* The offset of a call is a number, and a page ends within its archive.
LEMMA PageFacts ==
    ASSUME TypeOK, NEW c \in Calls, call[c].backup \in Backups
    PROVE  /\ Offset(c) \in Nat
           /\ PageEnd(c) \in Cursor
           /\ PageEnd(c) <= Rows[call[c].backup]
           /\ PageRows(c) \subseteq RowsOf(call[c].backup)
           /\ RowsOf(call[c].backup) \subseteq AnyRow
  <1>1. call[c] \in Call
    BY DEF TypeOK
  <1>2. Offset(c) \in Nat
    BY <1>1, CursorFacts, RestoreAssumption DEF Call, Offset
  <1>3. Rows[call[c].backup] \in Nat /\ Limit \in Nat
    BY CursorFacts, RestoreAssumption
  <1>4. PageEnd(c) \in 0..Rows[call[c].backup]
    BY <1>2, <1>3 DEF PageEnd
  <1>5. PageRows(c) \subseteq RowsOf(call[c].backup)
    BY <1>2, <1>3, <1>4 DEF PageRows, RowsOf
  <1>6. RowsOf(call[c].backup) \subseteq AnyRow
    BY DEF AnyRow
  <1> QED
    BY <1>2, <1>3, <1>4, <1>5, <1>6, CursorFacts

\* A page that starts within the prefix on the target extends the prefix.
LEMMA PrefixGrows ==
    ASSUME TypeOK, NEW c \in Calls, call[c].backup \in Backups,
           Offset(c) <= call[c].seen,
           \A n \in 1..call[c].seen : <<call[c].backup, n>> \in db,
           PageRows(c) \subseteq db
    PROVE  \A n \in 1..PageEnd(c) : <<call[c].backup, n>> \in db
  <1>1. call[c].seen \in Nat
    BY CursorFacts DEF TypeOK, Call
  <1>2. SUFFICES ASSUME NEW n \in 1..PageEnd(c) PROVE <<call[c].backup, n>> \in db
    OBVIOUS
  <1>3. CASE n <= call[c].seen
    BY <1>1, <1>2, <1>3, PageFacts, CursorFacts
  <1>4. CASE ~(n <= call[c].seen)
    BY <1>1, <1>2, <1>4, PageFacts, CursorFacts DEF PageRows
  <1> QED
    BY <1>3, <1>4

-------------------------------------------------------------------------------
(* The invariant.                                                          *)

LEMMA InitInv == Init => RestoreInv
  <1> SUFFICES ASSUME Init PROVE RestoreInv
    OBVIOUS
  <1>1. db \subseteq AnyRow
    BY DEF Init, AnyRow
  <1>2. ledger \in Ledger
    BY CursorFacts DEF Init, Ledger
  <1>3. call \in [Calls -> Call]
    BY CursorFacts DEF Init, Call, Idle
  <1>4. \A c \in Calls : call[c].at = "idle"
    BY DEF Init, Idle
  <1>5. /\ ledger.phase = "none" /\ ledger.backup = Null
        /\ ledger.next = 0 /\ ledger.lease = Null
    BY DEF Init
  <1>6. TargetUnmixed /\ CursorBacked /\ LedgerSound
    BY <1>5 DEF TargetUnmixed, CursorBacked, LedgerSound
  <1>7. ArchiveKnown /\ NotYetClaimed /\ HolderUpToDate /\ NoGap /\ PageLanded
    BY <1>4 DEF ArchiveKnown, NotYetClaimed, Claimed, HolderUpToDate, NoGap, PageLanded
  <1> QED
    BY <1>1, <1>2, <1>3, <1>6, <1>7 DEF RestoreInv, TypeOK

\* A request works on the target only when no restore is unfinished.
LEMMA NormalOperationInv == RestoreInv /\ NormalOperation => RestoreInv'
  <1> SUFFICES ASSUME RestoreInv, NormalOperation PROVE RestoreInv'
    OBVIOUS
  <1>1. ledger.phase # "unfinished" /\ UNCHANGED <<ledger, call>>
    BY DEF NormalOperation, BarrierUp
  <1>2. TypeOK'
    BY DEF RestoreInv, TypeOK, NormalOperation, AnyRow
  <1>3. TargetUnmixed' /\ CursorBacked' /\ PageLanded'
    BY <1>1 DEF TargetUnmixed, CursorBacked, PageLanded
  <1>4. LedgerSound' /\ ArchiveKnown' /\ NotYetClaimed' /\ HolderUpToDate' /\ NoGap'
    BY <1>1
       DEF RestoreInv, LedgerSound, ArchiveKnown, NotYetClaimed, Claimed, HolderUpToDate,
           HoldsLease, NoGap, Offset
  <1> QED
    BY <1>2, <1>3, <1>4 DEF RestoreInv

LEMMA LapseLeaseInv == RestoreInv /\ LapseLease => RestoreInv'
  <1> SUFFICES ASSUME RestoreInv, LapseLease PROVE RestoreInv'
    OBVIOUS
  <1>1. TypeOK'
    BY DEF RestoreInv, TypeOK, LapseLease, Ledger
  <1>2. /\ ledger' = [ledger EXCEPT !.live = FALSE] /\ ledger \in Ledger
        /\ UNCHANGED <<db, call>>
    BY DEF LapseLease, RestoreInv, TypeOK
  <1>3. /\ ledger'.backup = ledger.backup /\ ledger'.phase = ledger.phase
        /\ ledger'.next = ledger.next /\ ledger'.lease = ledger.lease /\ ~ledger'.live
    BY <1>2 DEF Ledger
  <1> QED
    BY <1>1, <1>2, <1>3
       DEF RestoreInv, TargetUnmixed, CursorBacked, LedgerSound, ArchiveKnown, NotYetClaimed,
           Claimed, HolderUpToDate, HoldsLease, NoGap, Offset, PageLanded, RowsOf

-------------------------------------------------------------------------------
(* The steps that touch neither the target nor the ledger.                 *)

\* What such a step owes the invariant: the one call it moves.
LEMMA OwnStep ==
    ASSUME RestoreInv, NEW c \in Calls, UNCHANGED <<db, ledger>>,
           NEW moved \in Call, call' = [call EXCEPT ![c] = moved],
           moved.at # "idle" => moved.backup \in Backups,
           moved.at \in {"checked", "fresh", "resume"} => ledger.lease # c,
           moved.at \in {"claimed", "renewed", "inserted", "verified"} =>
               /\ Claimed(c)
               /\ moved = [call[c] EXCEPT !.at = moved.at],
           moved.at \in {"renewed", "inserted", "verified"} => Offset(c) <= call[c].seen,
           moved.at \in {"inserted", "verified"} => call[c].at \in {"inserted", "verified"}
    PROVE  RestoreInv'
  <1> DEFINE Live == {"claimed", "renewed", "inserted", "verified"}
  <1>1. TypeOK'
    BY DEF RestoreInv, TypeOK
  <1>2. call \in [Calls -> Call] /\ call[c] \in Call
    BY DEF RestoreInv, TypeOK
  <1>3. \A d \in Calls : d # c => call'[d] = call[d]
    BY <1>2
  <1>4. call'[c] = moved
    BY <1>2
  <1>5. moved.at \in Live =>
          /\ moved.backup = call[c].backup /\ moved.wanted = call[c].wanted
          /\ moved.seen = call[c].seen /\ moved.done = call[c].done
    BY <1>2 DEF Call
  <1>6. TargetUnmixed' /\ CursorBacked' /\ LedgerSound'
    BY DEF RestoreInv, TargetUnmixed, CursorBacked, LedgerSound, RowsOf
  <1>7. ArchiveKnown' /\ NotYetClaimed'
    BY <1>3, <1>4 DEF RestoreInv, ArchiveKnown, NotYetClaimed
  <1>8. HolderUpToDate'
    <2> SUFFICES ASSUME NEW d \in Calls, Claimed(d)', HoldsLease(d)'
                 PROVE  /\ ledger.phase # "none"
                        /\ call'[d].backup = ledger.backup
                        /\ call'[d].seen = ledger.next
                        /\ call'[d].done = (ledger.phase = "completed")
      BY DEF HolderUpToDate
    <2>1. Claimed(d) /\ HoldsLease(d)
      BY <1>3, <1>4 DEF Claimed, HoldsLease
    <2>2. /\ ledger.phase # "none"
          /\ call[d].backup = ledger.backup
          /\ call[d].seen = ledger.next
          /\ call[d].done = (ledger.phase = "completed")
      BY <2>1 DEF RestoreInv, HolderUpToDate
    <2> QED
      BY <2>2, <1>3, <1>4, <1>5 DEF Claimed
  <1>9. NoGap'
    BY <1>3, <1>4, <1>5 DEF RestoreInv, NoGap, Offset
  <1>10. PageLanded'
    <2> SUFFICES ASSUME NEW d \in Calls, call'[d].at \in {"inserted", "verified"},
                        HoldsLease(d)', ledger.phase = "unfinished"
                 PROVE  PageRows(d)' \subseteq db
      BY DEF PageLanded
    <2>1. call[d].at \in {"inserted", "verified"} /\ HoldsLease(d)
      BY <1>3, <1>4 DEF HoldsLease
    <2>2. PageRows(d) \subseteq db
      BY <2>1 DEF RestoreInv, PageLanded
    <2>3. PageRows(d)' = PageRows(d)
      <3>1. call'[d].backup = call[d].backup /\ call'[d].wanted = call[d].wanted
            /\ call'[d].seen = call[d].seen
        BY <1>3, <1>4, <1>5
      <3> QED
        BY <3>1 DEF PageRows, PageEnd, Offset
    <2> QED
      BY <2>2, <2>3
  <1> QED
    BY <1>1, <1>6, <1>7, <1>8, <1>9, <1>10 DEF RestoreInv

LEMMA IdleIsCall == Idle \in Call /\ Idle.at = "idle"
  BY CursorFacts DEF Idle, Call

\* The steps of a call that only move the call on.
LEMMA ReadStepInv ==
    ASSUME RestoreInv, NEW c \in Calls,
           \/ \E b \in Backups, wanted \in Offsets \cup {Null} : Check(c, b, wanted)
           \/ Plan(c) \/ Refuse(c) \/ Renew(c) \/ Verify(c) \/ Fail(c) \/ Crash(c)
    PROVE  RestoreInv'
  <1>1. call \in [Calls -> Call] /\ call[c] \in Call
    BY DEF RestoreInv, TypeOK
  <1>2. call[c].at # "idle" => call[c].backup \in Backups
    BY DEF RestoreInv, ArchiveKnown
  <1>3. ASSUME NEW b \in Backups, NEW wanted \in Offsets \cup {Null}, Check(c, b, wanted)
        PROVE  RestoreInv'
    <2> DEFINE moved == [Idle EXCEPT !.at = "checked", !.backup = b, !.wanted = wanted]
    <2>1. moved \in Call /\ moved.at = "checked" /\ moved.backup = b
      BY CursorFacts DEF Idle, Call
    <2>2. /\ call' = [call EXCEPT ![c] = moved]
          /\ UNCHANGED <<db, ledger>> /\ ledger.lease # c
      BY <1>3 DEF Check
    <2> HIDE DEF moved
    <2> QED
      BY <2>1, <2>2, OwnStep
  <1>4. ASSUME call' = [call EXCEPT ![c] = Idle], UNCHANGED <<db, ledger>>
        PROVE  RestoreInv'
    <2> HIDE DEF Idle
    <2> QED
      BY <1>4, IdleIsCall, OwnStep
  <1>5. ASSUME NEW at \in {"fresh", "resume", "renewed", "verified", "closing"},
               UNCHANGED <<db, ledger>>, call' = [call EXCEPT ![c].at = at],
               call[c].at # "idle",
               at \in {"fresh", "resume"} => call[c].at = "checked",
               at = "renewed" => call[c].at = "claimed" /\ Offset(c) <= call[c].seen,
               at = "verified" => call[c].at = "inserted"
        PROVE  RestoreInv'
    <2> DEFINE moved == [call[c] EXCEPT !.at = at]
    <2>1. moved \in Call /\ moved.at = at /\ moved.backup = call[c].backup
      BY <1>1 DEF Call
    <2>2. call' = [call EXCEPT ![c] = moved]
      BY <1>5, <1>1
    <2>3. at \in {"fresh", "resume"} => ledger.lease # c
      BY <1>5 DEF RestoreInv, NotYetClaimed
    <2>4. at \in {"renewed", "verified"} => Claimed(c) /\ Offset(c) <= call[c].seen
      BY <1>5 DEF RestoreInv, NoGap, Claimed
    <2>5. moved = [call[c] EXCEPT !.at = moved.at]
      BY <2>1
    <2> HIDE DEF moved
    <2> QED
      BY <1>2, <1>5, <2>1, <2>2, <2>3, <2>4, <2>5, OwnStep
  <1>6. CASE Plan(c)
    BY <1>5, <1>6 DEF Plan
  <1>7. CASE Renew(c)
    BY <1>5, <1>7 DEF Renew
  <1>8. CASE Verify(c)
    BY <1>5, <1>8 DEF Verify
  <1>9. CASE Fail(c)
    BY <1>5, <1>9 DEF Fail
  <1> QED
    BY <1>3, <1>4, <1>6, <1>7, <1>8, <1>9 DEF Refuse, Crash

-------------------------------------------------------------------------------
(* The claims.  A claim needs the lease free, so whatever other calls have  *)
(* read, none of them holds it.                                            *)

LEMMA ClaimFreshInv ==
    ASSUME RestoreInv, NEW c \in Calls, ClaimFresh(c)
    PROVE  RestoreInv'
  <1>1. /\ call \in [Calls -> Call] /\ call[c] \in Call /\ db' = db /\ db = {}
        /\ ledger' = [backup |-> call[c].backup, phase |-> "unfinished", next |-> 0,
                      lease |-> c, live |-> TRUE]
        /\ call' = [call EXCEPT ![c].at = "claimed", ![c].seen = 0, ![c].done = FALSE]
    BY DEF ClaimFresh, RestoreInv, TypeOK
  <1>2. call[c].backup \in Backups
    BY DEF RestoreInv, ArchiveKnown, ClaimFresh
  <1>3. /\ call'[c].at = "claimed" /\ call'[c].seen = 0 /\ call'[c].done = FALSE
        /\ call'[c].backup = call[c].backup
    BY <1>1 DEF Call
  <1>4. \A d \in Calls : d # c => call'[d] = call[d]
    BY <1>1
  <1>5. TypeOK'
    <2>1. ledger' \in Ledger
      BY <1>1, <1>2, CursorFacts DEF Ledger
    <2>2. call' \in [Calls -> Call]
      BY <1>1, CursorFacts DEF Call
    <2> QED
      BY <1>1, <2>1, <2>2 DEF RestoreInv, TypeOK
  <1>6. TargetUnmixed' /\ CursorBacked' /\ LedgerSound'
    BY <1>1, <1>2, CursorFacts DEF TargetUnmixed, CursorBacked, LedgerSound
  <1>7. ArchiveKnown'
    BY <1>2, <1>3, <1>4 DEF RestoreInv, ArchiveKnown
  <1>8. NotYetClaimed'
    BY <1>1, <1>3, <1>4 DEF RestoreInv, NotYetClaimed
  <1>9. \A d \in Calls : HoldsLease(d)' => d = c
    BY <1>1 DEF HoldsLease
  <1>10. HolderUpToDate'
    BY <1>1, <1>3, <1>9 DEF HolderUpToDate
  <1>11. NoGap'
    BY <1>3, <1>4 DEF RestoreInv, NoGap, Offset
  <1>12. PageLanded'
    BY <1>3, <1>9 DEF PageLanded
  <1> QED
    BY <1>5, <1>6, <1>7, <1>8, <1>10, <1>11, <1>12 DEF RestoreInv

LEMMA ClaimResumeInv ==
    ASSUME RestoreInv, NEW c \in Calls, ClaimResume(c)
    PROVE  RestoreInv'
  <1>1. /\ call \in [Calls -> Call] /\ call[c] \in Call /\ db' = db /\ ledger \in Ledger
        /\ ledger' = [ledger EXCEPT !.lease = c, !.live = TRUE]
        /\ call' = [call EXCEPT ![c].at = "claimed", ![c].seen = ledger.next,
                                ![c].done = (ledger.phase = "completed")]
        /\ ledger.backup = call[c].backup
    BY DEF ClaimResume, RestoreInv, TypeOK
  <1>2. call[c].backup \in Backups
    BY DEF RestoreInv, ArchiveKnown, ClaimResume
  <1>3. /\ call'[c].at = "claimed" /\ call'[c].seen = ledger.next
        /\ call'[c].done = (ledger.phase = "completed")
        /\ call'[c].backup = call[c].backup
    BY <1>1 DEF Call
  <1>4. \A d \in Calls : d # c => call'[d] = call[d]
    BY <1>1
  <1>5. /\ ledger'.backup = ledger.backup /\ ledger'.phase = ledger.phase
        /\ ledger'.next = ledger.next /\ ledger'.lease = c
    BY <1>1 DEF Ledger
  <1>6. TypeOK'
    <2>1. ledger' \in Ledger
      BY <1>1 DEF Ledger
    <2>2. call' \in [Calls -> Call]
      BY <1>1 DEF Call, Ledger
    <2> QED
      BY <1>1, <2>1, <2>2 DEF RestoreInv, TypeOK
  \* Before the first claim the ledger names no archive.
  <1>7. ledger.phase # "none"
    BY <1>1, <1>2, NullApart DEF RestoreInv, LedgerSound
  <1>8. TargetUnmixed' /\ CursorBacked' /\ LedgerSound'
    <2>1. TargetUnmixed' /\ CursorBacked'
      BY <1>1, <1>5 DEF RestoreInv, TargetUnmixed, CursorBacked, RowsOf
    <2>2. LedgerSound'
      BY <1>5, <1>7 DEF RestoreInv, LedgerSound
    <2> QED
      BY <2>1, <2>2
  <1>9. ArchiveKnown'
    BY <1>2, <1>3, <1>4 DEF RestoreInv, ArchiveKnown
  <1>10. NotYetClaimed'
    BY <1>3, <1>4, <1>5 DEF RestoreInv, NotYetClaimed
  <1>11. \A d \in Calls : HoldsLease(d)' => d = c
    BY <1>5 DEF HoldsLease
  <1>12. HolderUpToDate'
    BY <1>1, <1>3, <1>5, <1>7, <1>11 DEF HolderUpToDate
  <1>13. NoGap'
    BY <1>3, <1>4 DEF RestoreInv, NoGap, Offset
  <1>14. PageLanded'
    BY <1>3, <1>11 DEF PageLanded
  <1> QED
    BY <1>6, <1>8, <1>9, <1>10, <1>12, <1>13, <1>14 DEF RestoreInv

-------------------------------------------------------------------------------
(* The page.                                                               *)

\* Rows of the ledger's archive land; the call keeps what it has read.
LEMMA LandStep ==
    ASSUME RestoreInv, NEW c \in Calls, call[c].at = "renewed", HoldsLease(c),
           NEW landed \in SUBSET PageRows(c), db' = db \cup landed,
           NEW at \in {"inserted", "closing"}, call' = [call EXCEPT ![c].at = at],
           at = "inserted" => landed = PageRows(c),
           UNCHANGED ledger
    PROVE  RestoreInv'
  <1>1. call \in [Calls -> Call] /\ call[c] \in Call /\ TypeOK
    BY DEF RestoreInv, TypeOK
  <1>2. /\ call[c].backup = ledger.backup /\ ledger.phase # "none"
        /\ call[c].backup \in Backups
    BY DEF RestoreInv, HolderUpToDate, ArchiveKnown, Claimed
  <1>3. landed \subseteq RowsOf(ledger.backup) /\ landed \subseteq AnyRow
    BY <1>1, <1>2, PageFacts
  <1>4. /\ call'[c].at = at /\ call'[c].backup = call[c].backup
        /\ call'[c].wanted = call[c].wanted /\ call'[c].seen = call[c].seen
        /\ call'[c].done = call[c].done
    BY <1>1 DEF Call
  <1>5. \A d \in Calls : d # c => call'[d] = call[d]
    BY <1>1
  <1>6. TypeOK'
    <2>1. call' \in [Calls -> Call]
      BY <1>1 DEF Call
    <2> QED
      BY <1>1, <1>3, <2>1 DEF TypeOK
  <1>7. TargetUnmixed' /\ CursorBacked' /\ LedgerSound'
    BY <1>3 DEF RestoreInv, TargetUnmixed, CursorBacked, LedgerSound, RowsOf
  <1>8. ArchiveKnown' /\ NotYetClaimed'
    BY <1>2, <1>4, <1>5 DEF RestoreInv, ArchiveKnown, NotYetClaimed
  <1>9. HolderUpToDate'
    <2>1. ASSUME NEW d \in Calls, Claimed(d)', HoldsLease(d)' PROVE d = c
      BY <2>1 DEF HoldsLease
    <2>2. /\ ledger.phase # "none" /\ call[c].backup = ledger.backup
          /\ call[c].seen = ledger.next /\ call[c].done = (ledger.phase = "completed")
      BY DEF RestoreInv, HolderUpToDate, Claimed
    <2> QED
      BY <1>4, <2>1, <2>2 DEF HolderUpToDate
  <1>10. NoGap'
    BY <1>4, <1>5 DEF RestoreInv, NoGap, Offset
  <1>11. PageLanded'
    <2> SUFFICES ASSUME NEW d \in Calls, call'[d].at \in {"inserted", "verified"},
                        HoldsLease(d)', ledger.phase = "unfinished"
                 PROVE  PageRows(d)' \subseteq db'
      BY DEF PageLanded
    <2>1. d = c
      BY DEF HoldsLease
    <2>2. PageRows(c)' = PageRows(c)
      BY <1>4 DEF PageRows, PageEnd, Offset
    <2> QED
      BY <1>4, <2>1, <2>2
  <1> QED
    BY <1>6, <1>7, <1>8, <1>9, <1>10, <1>11 DEF RestoreInv

LEMMA InsertInv ==
    ASSUME RestoreInv, NEW c \in Calls, Insert(c) \/ InsertSome(c)
    PROVE  RestoreInv'
  <1>1. CASE Insert(c)
    BY <1>1, LandStep DEF Insert
  <1>2. CASE InsertSome(c)
    <2>1. PICK landed \in SUBSET PageRows(c) : db' = db \cup landed
      BY <1>2 DEF InsertSome
    <2> QED
      BY <1>2, <2>1, LandStep DEF InsertSome
  <1> QED
    BY <1>1, <1>2

\* The ledger gives the lease up: nobody holds it any more.
LEMMA LeaseGivenUp ==
    ASSUME RestoreInv, NEW c \in Calls, db' = db, call' = [call EXCEPT ![c] = Idle],
           TypeOK', TargetUnmixed', CursorBacked', LedgerSound', ~ledger'.live,
           ledger'.lease = Null
    PROVE  RestoreInv'
  <1>1. call \in [Calls -> Call]
    BY DEF RestoreInv, TypeOK
  <1>2. call'[c].at = "idle" /\ \A d \in Calls : d # c => call'[d] = call[d]
    BY <1>1, IdleIsCall
  <1>3. ArchiveKnown'
    BY <1>2 DEF RestoreInv, ArchiveKnown
  <1>4. NotYetClaimed'
    BY NullApart DEF NotYetClaimed
  <1>5. HolderUpToDate' /\ PageLanded'
    BY DEF HolderUpToDate, PageLanded, HoldsLease
  <1>6. NoGap'
    BY <1>2 DEF RestoreInv, NoGap, Offset
  <1> QED
    BY <1>3, <1>4, <1>5, <1>6 DEF RestoreInv

\* What the holder of the lease knows when it commits.
LEMMA AtCommit ==
    ASSUME RestoreInv, NEW c \in Calls, call[c].at = "verified", HoldsLease(c)
    PROVE  /\ call[c].backup = ledger.backup /\ ledger.backup \in Backups
           /\ call[c].seen = ledger.next
           /\ call[c].done = (ledger.phase = "completed")
           /\ ledger.phase \in {"unfinished", "completed"}
           /\ ledger.next \in Nat /\ ledger.next <= Rows[ledger.backup]
           /\ PageEnd(c) \in Cursor /\ PageEnd(c) \in Nat
           /\ PageEnd(c) <= Rows[ledger.backup]
           /\ ledger.phase = "unfinished" =>
                \A n \in 1..PageEnd(c) : <<ledger.backup, n>> \in db
  <1>1. /\ call[c].backup = ledger.backup /\ call[c].seen = ledger.next
        /\ call[c].done = (ledger.phase = "completed") /\ ledger.phase # "none"
    BY DEF RestoreInv, HolderUpToDate, Claimed
  <1>2. ledger.backup \in Backups /\ ledger.next <= Rows[ledger.backup]
    BY <1>1 DEF RestoreInv, LedgerSound
  <1>3. ledger \in Ledger /\ TypeOK
    BY DEF RestoreInv, TypeOK
  <1>4. ledger.next \in Nat /\ ledger.phase \in {"unfinished", "completed"}
    BY <1>1, <1>3, CursorFacts DEF Ledger
  <1>5. PageEnd(c) \in Cursor /\ PageEnd(c) \in Nat /\ PageEnd(c) <= Rows[ledger.backup]
    BY <1>1, <1>2, <1>3, PageFacts, CursorFacts
  <1>6. ASSUME ledger.phase = "unfinished"
        PROVE  \A n \in 1..PageEnd(c) : <<ledger.backup, n>> \in db
    <2>1. PageRows(c) \subseteq db /\ Offset(c) <= call[c].seen
      BY <1>6 DEF RestoreInv, PageLanded, NoGap
    <2>2. \A n \in 1..call[c].seen : <<call[c].backup, n>> \in db
      BY <1>1, <1>6 DEF RestoreInv, CursorBacked
    <2> QED
      BY <1>1, <1>2, <1>3, <2>1, <2>2, PrefixGrows
  <1> QED
    BY <1>1, <1>2, <1>4, <1>5, <1>6

LEMMA CommitInv ==
    ASSUME RestoreInv, NEW c \in Calls, Commit(c)
    PROVE  RestoreInv'
  <1> DEFINE next == IF PageEnd(c) > ledger.next THEN PageEnd(c) ELSE ledger.next
             phase == IF Finished(c) \/ call[c].done THEN "completed" ELSE "unfinished"
  <1>1. call \in [Calls -> Call] /\ ledger \in Ledger
    BY DEF RestoreInv, TypeOK
  <1>2. /\ call[c].at = "verified" /\ HoldsLease(c) /\ db' = db
        /\ call' = [call EXCEPT ![c] = Idle]
        /\ ledger' = [ledger EXCEPT !.next = next, !.phase = phase,
                                    !.lease = Null, !.live = FALSE]
    BY DEF Commit
  <1>3. /\ ledger'.backup = ledger.backup /\ ledger'.next = next /\ ledger'.phase = phase
        /\ ledger'.lease = Null /\ ~ledger'.live
    BY <1>1, <1>2 DEF Ledger
  <1>4. next \in Cursor /\ next <= Rows[ledger.backup] /\ ledger.backup \in Backups
    BY <1>1, <1>2, AtCommit DEF Ledger
  <1>5. phase = "unfinished" => ledger.phase = "unfinished"
    BY <1>2, AtCommit
  <1>6. TypeOK'
    <2>1. ledger' \in Ledger
      BY <1>1, <1>2, <1>4 DEF Ledger
    <2>2. call' \in [Calls -> Call]
      BY <1>1, <1>2, IdleIsCall
    <2> QED
      BY <1>2, <2>1, <2>2 DEF RestoreInv, TypeOK
  <1>7. TargetUnmixed'
    BY <1>2, <1>3, <1>5 DEF RestoreInv, TargetUnmixed, RowsOf
  <1>8. CursorBacked'
    <2> SUFFICES ASSUME phase = "unfinished", NEW n \in 1..next
                 PROVE  <<ledger.backup, n>> \in db
      BY <1>2, <1>3 DEF CursorBacked
    <2>1. CASE next = PageEnd(c)
      BY <1>2, <1>5, <2>1, AtCommit
    <2>2. CASE next = ledger.next
      BY <1>5, <2>2 DEF RestoreInv, CursorBacked
    <2> QED
      BY <2>1, <2>2
  <1>9. LedgerSound'
    <2>1. ledger'.phase # "none"
      BY <1>3
    <2> HIDE DEF next, phase
    <2> QED
      BY <1>3, <1>4, <2>1 DEF LedgerSound
  <1> HIDE DEF next, phase
  <1> QED
    BY <1>2, <1>3, <1>6, <1>7, <1>8, <1>9, LeaseGivenUp

LEMMA CloseInv ==
    ASSUME RestoreInv, NEW c \in Calls, Close(c)
    PROVE  RestoreInv'
  <1>1. call \in [Calls -> Call] /\ ledger \in Ledger
    BY DEF RestoreInv, TypeOK
  <1>2. CASE ledger.lease = c
    <2>1. /\ ledger' = [ledger EXCEPT !.lease = Null, !.live = FALSE] /\ db' = db
          /\ call' = [call EXCEPT ![c] = Idle]
      BY <1>2 DEF Close
    <2>2. /\ ledger'.backup = ledger.backup /\ ledger'.phase = ledger.phase
          /\ ledger'.next = ledger.next /\ ledger'.lease = Null /\ ~ledger'.live
      BY <1>1, <2>1 DEF Ledger
    <2>3. TypeOK'
      <3>1. ledger' \in Ledger
        BY <1>1, <2>1 DEF Ledger
      <3>2. call' \in [Calls -> Call]
        BY <1>1, <2>1, IdleIsCall
      <3> QED
        BY <2>1, <3>1, <3>2 DEF RestoreInv, TypeOK
    <2>4. TargetUnmixed' /\ CursorBacked' /\ LedgerSound'
      BY <2>1, <2>2 DEF RestoreInv, TargetUnmixed, CursorBacked, LedgerSound, RowsOf
    <2> QED
      BY <2>1, <2>2, <2>3, <2>4, LeaseGivenUp
  <1>3. CASE ledger.lease # c
    <2>1. UNCHANGED <<db, ledger>> /\ call' = [call EXCEPT ![c] = Idle]
      BY <1>3 DEF Close
    <2> QED
      BY <2>1, IdleIsCall, OwnStep
  <1> QED
    BY <1>2, <1>3

LEMMA StutterInv == RestoreInv /\ UNCHANGED vars => RestoreInv'
  BY DEF RestoreInv, vars, TypeOK, TargetUnmixed, CursorBacked, LedgerSound, ArchiveKnown,
         NotYetClaimed, Claimed, HolderUpToDate, HoldsLease, NoGap, PageLanded, PageRows,
         PageEnd, Offset, RowsOf

LEMMA NextInv == RestoreInv /\ [Next]_vars => RestoreInv'
  <1> SUFFICES ASSUME RestoreInv, [Next]_vars PROVE RestoreInv'
    OBVIOUS
  <1>1. ASSUME NEW c \in Calls, CallStep(c) PROVE RestoreInv'
    BY <1>1, ReadStepInv, ClaimFreshInv, ClaimResumeInv, InsertInv, CommitInv, CloseInv
       DEF CallStep
  <1> QED
    BY <1>1, NormalOperationInv, LapseLeaseInv, StutterInv DEF Next

\* The invariant the theorems below are read off from.
THEOREM RestoreSound == Spec => []RestoreInv
  BY InitInv, NextInv, PTL DEF Spec

-------------------------------------------------------------------------------
(* The properties.                                                         *)

\* The rows, the ledger and what calls remember keep their types.
THEOREM TypeCorrect == Spec => []TypeOK
  BY RestoreSound, PTL DEF RestoreInv

\* An unfinished restore shares its target with nothing else, for any number of
\* calls, archives and resumptions.
THEOREM TargetNeverMixed == Spec => []TargetUnmixed
  BY RestoreSound, PTL DEF RestoreInv

\* The cursor an interrupted restore resumes from skips no row.
THEOREM CursorSound == Spec => []CursorBacked
  BY RestoreSound, PTL DEF RestoreInv

\* A page that commits the completion has the whole archive under it.
LEMMA CommitWhole ==
    ASSUME RestoreInv, NEW c \in Calls, Commit(c),
           ledger.phase = "unfinished", ledger'.phase = "completed"
    PROVE  db = RowsOf(ledger.backup)
  <1>1. call[c].at = "verified" /\ HoldsLease(c)
    BY DEF Commit
  <1>2. ledger \in Ledger
    BY DEF RestoreInv, TypeOK
  <1>3. Finished(c) \/ call[c].done
    BY <1>2 DEF Commit, Ledger
  <1>4. PageEnd(c) = Rows[ledger.backup]
    BY <1>1, <1>3, AtCommit DEF Finished
  <1>5. RowsOf(ledger.backup) \subseteq db
    BY <1>1, <1>4, AtCommit DEF RowsOf
  <1>6. db \subseteq RowsOf(ledger.backup)
    BY DEF RestoreInv, TargetUnmixed
  <1> QED
    BY <1>5, <1>6

\* How a step of a call changes the ledger.
LEMMA LedgerSteps ==
    ASSUME RestoreInv, NEW c \in Calls, CallStep(c), ~ClaimFresh(c), ~Commit(c)
    PROVE  /\ ledger'.backup = ledger.backup
           /\ ledger'.phase = ledger.phase
           /\ ledger'.next = ledger.next
  <1>1. ledger \in Ledger
    BY DEF RestoreInv, TypeOK
  <1>2. CASE ClaimResume(c)
    BY <1>1, <1>2 DEF ClaimResume, Ledger
  <1>3. CASE Close(c)
    BY <1>1, <1>3 DEF Close, Ledger
  <1> QED
    BY <1>2, <1>3 DEF CallStep, Check, Plan, Refuse, Renew, Insert, InsertSome, Verify, Fail, Crash

LEMMA LapseKeeps ==
    ASSUME RestoreInv, LapseLease
    PROVE  /\ ledger'.backup = ledger.backup
           /\ ledger'.phase = ledger.phase
           /\ ledger'.next = ledger.next
  BY DEF RestoreInv, TypeOK, LapseLease, Ledger

\* A restore completes over the archive, row for row.
THEOREM CompletionIsWhole == Spec => CompletesWhole
  <1>1. RestoreInv /\ [Next]_vars
          => (ledger.phase = "unfinished" /\ ledger'.phase = "completed"
                => db = RowsOf(ledger.backup)) \/ UNCHANGED vars
    <2> SUFFICES ASSUME RestoreInv, Next,
                        ledger.phase = "unfinished", ledger'.phase = "completed"
                 PROVE  db = RowsOf(ledger.backup)
      BY DEF vars
    <2>1. ~NormalOperation /\ ~LapseLease
      BY LapseKeeps DEF NormalOperation
    <2>2. PICK c \in Calls : CallStep(c)
      BY <2>1 DEF Next
    <2>3. CASE ClaimFresh(c)
      BY <2>3 DEF ClaimFresh
    <2>4. CASE Commit(c)
      BY <2>4, CommitWhole
    <2> QED
      BY <2>2, <2>3, <2>4, LedgerSteps
  <1> QED
    BY <1>1, RestoreSound, PTL DEF Spec, CompletesWhole

\* The cursor and the completion go back only over an empty target.
THEOREM RewindNeedsEmpty == Spec => RewindsOnlyWhenEmpty
  <1>1. RestoreInv /\ [Next]_vars
          => (ledger'.next < ledger.next
                \/ (ledger.phase = "completed" /\ ledger'.phase # "completed") => db = {})
             \/ UNCHANGED vars
    <2> SUFFICES ASSUME RestoreInv, Next,
                        ledger'.next < ledger.next
                          \/ (ledger.phase = "completed" /\ ledger'.phase # "completed")
                 PROVE  db = {}
      BY DEF vars
    <2>1. ledger \in Ledger /\ ledger.next \in Nat
      BY CursorFacts DEF RestoreInv, TypeOK, Ledger
    <2>2. ~NormalOperation /\ ~LapseLease
      BY <2>1, LapseKeeps DEF NormalOperation
    <2>3. PICK c \in Calls : CallStep(c)
      BY <2>2 DEF Next
    <2>4. CASE ClaimFresh(c)
      BY <2>4 DEF ClaimFresh
    <2>5. CASE Commit(c)
      <3>1. PageEnd(c) \in Nat /\ call[c].done = (ledger.phase = "completed")
        BY <2>5, AtCommit DEF Commit
      <3>2. ledger'.next >= ledger.next
        BY <2>1, <2>5, <3>1 DEF Commit, Ledger
      <3>3. ledger.phase = "completed" => ledger'.phase = "completed"
        BY <2>1, <2>5, <3>1 DEF Commit, Ledger
      <3>4. ledger'.next \in Nat
        BY <2>1, <2>5, <3>1 DEF Commit, Ledger
      <3> QED
        BY <2>1, <3>2, <3>3, <3>4
    <2> QED
      BY <2>1, <2>3, <2>4, <2>5, LedgerSteps
  <1> QED
    BY <1>1, RestoreSound, PTL DEF Spec, RewindsOnlyWhenEmpty

-------------------------------------------------------------------------------
(* The pages implement the contract.                                       *)

LEMMA InitContract == Init => Contract!Init
  BY DEF Init, Contract!Init, AnyRow

\* Each step of a call is a step of the contract.
LEMMA CallContract ==
    ASSUME RestoreInv, NEW c \in Calls, CallStep(c)
    PROVE  [Contract!Next]_(Contract!vars)
  <1>1. CASE ClaimFresh(c)
    <2>1. call[c].backup \in Backups
      BY <1>1 DEF ClaimFresh, RestoreInv, ArchiveKnown
    <2>2. Contract!Begin(call[c].backup)
      BY <1>1 DEF ClaimFresh, Contract!Begin
    <2> QED
      BY <2>1, <2>2 DEF Contract!Next
  <1>2. CASE Commit(c)
    <2>1. ledger \in Ledger /\ db' = db
      BY <1>2 DEF RestoreInv, TypeOK, Commit
    <2>2. ledger'.backup = ledger.backup /\ ledger'.phase \in {"completed", "unfinished"}
      BY <1>2, <2>1 DEF Commit, Ledger
    <2>3. CASE ledger.phase = "unfinished" /\ ledger'.phase = "completed"
      <3>1. db = RowsOf(ledger.backup)
        BY <1>2, <2>3, CommitWhole
      <3>2. Contract!Finish
        BY <2>1, <2>2, <2>3, <3>1 DEF Contract!Finish
      <3> QED
        BY <3>2 DEF Contract!Next
    <2>4. CASE ledger.phase = "completed"
      <3>1. ledger'.phase = "completed"
        <4>1. call[c].done
          BY <1>2, <2>4, AtCommit DEF Commit
        <4> QED
          BY <1>2, <2>1, <4>1 DEF Commit, Ledger
      <3> QED
        BY <2>1, <2>2, <2>4, <3>1 DEF Contract!vars
    <2>5. ledger.phase \in {"unfinished", "completed"}
      BY <1>2, AtCommit DEF Commit
    <2> QED
      BY <2>1, <2>2, <2>3, <2>4, <2>5 DEF Contract!vars
  <1>3. CASE Insert(c) \/ InsertSome(c)
    <2>1. PICK landed \in SUBSET PageRows(c) : db' = db \cup landed
      BY <1>3 DEF Insert, InsertSome
    <2>2. ledger' = ledger /\ call[c].at = "renewed" /\ HoldsLease(c)
      BY <1>3 DEF Insert, InsertSome
    <2>3. TypeOK /\ call[c].backup = ledger.backup /\ call[c].backup \in Backups
      BY <2>2 DEF RestoreInv, HolderUpToDate, Claimed, ArchiveKnown
    <2>4. landed \subseteq RowsOf(ledger.backup) /\ landed \subseteq AnyRow
      BY <2>1, <2>3, PageFacts
    <2>5. CASE ledger.phase = "unfinished"
      <3>1. db \subseteq RowsOf(ledger.backup)
        BY <2>5 DEF RestoreInv, TargetUnmixed
      <3>2. Contract!Fill
        BY <2>1, <2>2, <2>4, <2>5, <3>1 DEF Contract!Fill
      <3> QED
        BY <3>2 DEF Contract!Next
    <2>6. CASE ledger.phase # "unfinished"
      <3>1. db' \subseteq AnyRow
        BY <2>1, <2>3, <2>4 DEF TypeOK
      <3>2. Contract!Use
        BY <2>2, <2>6, <3>1 DEF Contract!Use
      <3> QED
        BY <3>2 DEF Contract!Next
    <2> QED
      BY <2>5, <2>6
  <1>4. CASE ~(ClaimFresh(c) \/ Commit(c) \/ Insert(c) \/ InsertSome(c))
    <2>1. db' = db
      BY <1>4 DEF CallStep, Check, Plan, Refuse, ClaimResume, Renew, Verify, Fail, Close, Crash
    <2>2. ledger'.backup = ledger.backup /\ ledger'.phase = ledger.phase
      BY <1>4, LedgerSteps
    <2> QED
      BY <2>1, <2>2 DEF Contract!vars
  <1> QED
    BY <1>1, <1>2, <1>3, <1>4

LEMMA StepContract == RestoreInv /\ [Next]_vars => [Contract!Next]_(Contract!vars)
  <1> SUFFICES ASSUME RestoreInv, [Next]_vars PROVE [Contract!Next]_(Contract!vars)
    OBVIOUS
  <1>1. CASE NormalOperation
    <2>1. ledger.phase # "unfinished" /\ ledger' = ledger
      BY <1>1 DEF NormalOperation, BarrierUp
    <2>2. db' \subseteq AnyRow
      BY <1>1 DEF NormalOperation, RestoreInv, TypeOK, AnyRow
    <2>3. Contract!Use
      BY <2>1, <2>2 DEF Contract!Use
    <2> QED
      BY <2>3 DEF Contract!Next
  <1>2. CASE LapseLease
    <2>1. ledger'.backup = ledger.backup /\ ledger'.phase = ledger.phase /\ db' = db
      BY <1>2, LapseKeeps DEF LapseLease
    <2> QED
      BY <2>1 DEF Contract!vars
  <1>3. CASE UNCHANGED vars
    BY <1>3 DEF vars, Contract!vars
  <1> QED
    BY <1>1, <1>2, <1>3, CallContract DEF Next

\* Page by page, over any number of calls that fail, stop or are overtaken, the
\* restore keeps the promise of RestoreContract.
THEOREM RestoreImplementsContract == Spec => ImplementsContract
  BY InitContract, StepContract, RestoreSound, PTL DEF Spec, Contract!Spec, ImplementsContract

-------------------------------------------------------------------------------
(* The creation of backups.                                                    *)

VARIABLES version, owner, lockLive, at, total, page, id, answer, taken, writtenKeys

Snapshot == INSTANCE R2Snapshot

OneOf(S) == \E v \in 0..MaxVersion : S = {v}

Reading == {"beforeRead", "read", "beforePut", "put"}
Closing == {"historyCount", "beforeManifest", "manifest"}

\* An attempt that may still run its cleanup, or publish.
Busy(a) == at[a] \notin {"idle", "unlock"}

Stored(a, i, p) == chunk[i][p] # Nothing /\ chunk[i][p].by = a

\* How far an attempt is, which pages it has written, and what it has read: one version while its
\* lock counts, hence at every check that was answered so, hence before every put.  The chunks that
\* it would delete are its own, as long as it may delete them.
AttemptInv(a) ==
    /\ at[a] # "idle" => id[a] # Nothing
    /\ id[a] = Nothing => taken[a] = {}
    /\ id[a] = Nothing \/ at[a] = "counts" => page[a] = 1 /\ writtenKeys[a] = {}
    /\ at[a] \in Reading => page[a] <= total[a]
    /\ at[a] \in Closing => page[a] = total[a] + 1
    /\ at[a] \in Reading \cup Closing => writtenKeys[a] = 1..(page[a] - 1)
    /\ answer[a] # "none" => at[a] \in Snapshot!Checks
    /\ at[a] \in {"beforePut", "put", "beforeManifest", "manifest"} => taken[a] # {}
    /\ owner = a /\ lockLive => taken[a] \subseteq {version}
    /\ answer[a] = "live" \/ at[a] \in {"put", "manifest"} =>
           \E v \in 0..MaxVersion : taken[a] \subseteq {v}
    /\ Busy(a) => \A p \in writtenKeys[a] : Stored(a, id[a], p) /\ chunk[id[a]][p].version \in taken[a]

\* A manifest is of one version.  One whose put was heard is of an attempt that is over, and what
\* it names is there: only its writer would delete that.
PublishedInv(i) ==
    manifest[i] # Nothing =>
        LET a == manifest[i].by IN
        /\ OneOf(manifest[i].versions)
        /\ i \notin misled => /\ id[a] = i /\ ~Busy(a)
                              /\ \A p \in manifest[i].pages :
                                    Stored(a, i, p) /\ chunk[i][p].version \in manifest[i].versions

SnapshotInv ==
    /\ Snapshot!TypeOK
    /\ \A a \in Attempts : AttemptInv(a)
    /\ \A i \in Names : PublishedInv(i)

LEMMA Constants ==
    /\ Pages \in Nat /\ MaxVersion \in Nat /\ 0 \in 0..MaxVersion
    /\ Cutover \notin Attempts /\ Nothing \notin Attempts /\ Nothing # Cutover /\ Nothing \notin Names
    /\ Nothing \notin Chunk /\ Nothing \notin Manifest
  BY BackupAssumption

LEMMA SnapshotInit == Snapshot!Init => SnapshotInv
  <1> SUFFICES ASSUME Snapshot!Init PROVE SnapshotInv
    OBVIOUS
  <1>1. Snapshot!TypeOK
    <2>1. 0 \in 0..MaxVersion /\ 0 \in 0..Pages /\ 1 \in 1..(Pages + 1)
      BY Constants
    <2>2. chunk \in [Names -> [Snapshot!PageRange -> Snapshot!Chunk \cup {Nothing}]]
      BY DEF Snapshot!Init, Snapshot!PageRange
    <2>3. /\ at \in [Attempts -> Snapshot!Stops] /\ total \in [Attempts -> 0..Pages]
          /\ page \in [Attempts -> 1..(Pages + 1)] /\ id \in [Attempts -> Names \cup {Nothing}]
          /\ answer \in [Attempts -> {"none", "live", "lapsed"}]
          /\ taken \in [Attempts -> SUBSET (0..MaxVersion)]
          /\ writtenKeys \in [Attempts -> SUBSET Snapshot!PageRange]
          /\ manifest \in [Names -> Snapshot!Manifest \cup {Nothing}]
      BY <2>1 DEF Snapshot!Init, Snapshot!Stops
    <2> QED
      BY <2>1, <2>2, <2>3 DEF Snapshot!Init, Snapshot!TypeOK
  <1>2. ASSUME NEW a \in Attempts PROVE AttemptInv(a)
    <2>1. /\ at[a] = "idle" /\ page[a] = 1 /\ id[a] = Nothing /\ answer[a] = "none"
          /\ taken[a] = {} /\ writtenKeys[a] = {} /\ ~lockLive
      BY DEF Snapshot!Init
    <2> QED
      BY <2>1 DEF AttemptInv, Busy, Reading, Closing
  <1>3. ASSUME NEW i \in Names PROVE PublishedInv(i)
    BY DEF Snapshot!Init, PublishedInv
  <1> QED
    BY <1>1, <1>2, <1>3 DEF SnapshotInv

-------------------------------------------------------------------------------
(* What a step leaves alone.                                                   *)

\* An attempt that does not move stays sound, if its lock is not given back to it, the source does
\* not change under it and nobody touches its chunks.
LEMMA AttemptKept ==
  ASSUME NEW b \in Attempts, AttemptInv(b),
         at'[b] = at[b], total'[b] = total[b], page'[b] = page[b], id'[b] = id[b],
         answer'[b] = answer[b], taken'[b] = taken[b], writtenKeys'[b] = writtenKeys[b],
         owner' = b /\ lockLive' => owner = b /\ lockLive /\ version' = version,
         Busy(b) => \A p \in writtenKeys[b] : chunk'[id[b]][p] = chunk[id[b]][p]
  PROVE  AttemptInv(b)'
  BY DEF AttemptInv, Busy, Stored

\* A step of attempt a that leaves the bucket and the source alone.
LEMMA QuietStep ==
  ASSUME SnapshotInv, NEW a \in Attempts, Snapshot!TypeOK', AttemptInv(a)',
         UNCHANGED <<version, chunk, manifest, misled>>,
         \A b \in Attempts \ {a} :
             /\ at'[b] = at[b] /\ total'[b] = total[b] /\ page'[b] = page[b] /\ id'[b] = id[b]
             /\ answer'[b] = answer[b] /\ taken'[b] = taken[b] /\ writtenKeys'[b] = writtenKeys[b]
             /\ owner' = b /\ lockLive' => owner = b /\ lockLive,
         \/ id[a] = Nothing
         \/ id'[a] = id[a] /\ (Busy(a) \/ ~Busy(a)')
  PROVE  SnapshotInv'
  <1>1. ASSUME NEW b \in Attempts PROVE AttemptInv(b)'
    <2>1. CASE b # a
      BY <2>1, AttemptKept DEF SnapshotInv
    <2> QED
      BY <2>1
  <1>2. ASSUME NEW i \in Names PROVE PublishedInv(i)'
    <2> SUFFICES ASSUME manifest[i] # Nothing PROVE PublishedInv(i)'
      BY DEF PublishedInv
    <2> DEFINE w == manifest[i].by
    <2>1. w \in Attempts
      BY Constants DEF SnapshotInv, Snapshot!TypeOK, Snapshot!Manifest, Manifest
    <2>2. i \notin misled => id[w] = i /\ ~Busy(w)
      BY DEF SnapshotInv, PublishedInv
    <2>3. i \notin misled => id'[w] = i /\ ~Busy(w)'
      BY <2>1, <2>2, Constants DEF Busy
    <2> QED
      BY <2>3 DEF SnapshotInv, PublishedInv, Stored, OneOf
  <1> QED
    BY <1>1, <1>2 DEF SnapshotInv

-------------------------------------------------------------------------------
(* The steps that leave the bucket alone.                                      *)

LEMMA StartInv ==
  ASSUME SnapshotInv, NEW a \in Attempts, NEW i \in Names, Snapshot!Start(a, i)
  PROVE  SnapshotInv'
  <1> USE Constants
  <1>1. Snapshot!TypeOK'
    BY DEF SnapshotInv, AttemptInv, Snapshot!TypeOK, Snapshot!Stops, Snapshot!Checks, Snapshot!Start, Snapshot!bucketVars, Snapshot!LockFree
  <1>2. AttemptInv(a)
    BY DEF SnapshotInv
  <1>3. AttemptInv(a)'
    BY <1>2 DEF SnapshotInv, AttemptInv, Snapshot!TypeOK, Snapshot!Checks, Snapshot!Start, Snapshot!bucketVars,
                Busy, Stored, Reading, Closing, Snapshot!LockFree
  <1>4. /\ UNCHANGED <<version, chunk, manifest, misled>>
        /\ id[a] = Nothing \/ (id'[a] = id[a] /\ (Busy(a) \/ ~Busy(a)'))
    BY <1>2 DEF SnapshotInv, AttemptInv, Snapshot!TypeOK, Snapshot!Checks, Snapshot!Start, Snapshot!bucketVars, Busy, Snapshot!LockFree
  <1>5. ASSUME NEW b \in Attempts \ {a}
        PROVE  /\ at'[b] = at[b] /\ total'[b] = total[b] /\ page'[b] = page[b] /\ id'[b] = id[b]
               /\ answer'[b] = answer[b] /\ taken'[b] = taken[b] /\ writtenKeys'[b] = writtenKeys[b]
               /\ owner' = b /\ lockLive' => owner = b /\ lockLive
    BY DEF SnapshotInv, Snapshot!TypeOK, Snapshot!Start, Snapshot!LockFree
  <1> QED
    BY <1>1, <1>3, <1>4, <1>5, QuietStep

LEMMA ReadCountsInv ==
  ASSUME SnapshotInv, NEW a \in Attempts, NEW n \in 0..Pages, Snapshot!ReadCounts(a, n)
  PROVE  SnapshotInv'
  <1> USE Constants
  <1>1. Snapshot!TypeOK'
    BY DEF SnapshotInv, AttemptInv, Snapshot!TypeOK, Snapshot!Stops, Snapshot!Checks, Snapshot!ReadCounts, Snapshot!bucketVars
  <1>2. AttemptInv(a)
    BY DEF SnapshotInv
  <1>3. AttemptInv(a)'
    BY <1>2 DEF SnapshotInv, AttemptInv, Snapshot!TypeOK, Snapshot!Checks, Snapshot!ReadCounts, Snapshot!bucketVars,
                Busy, Stored, Reading, Closing
  <1>4. /\ UNCHANGED <<version, chunk, manifest, misled>>
        /\ id[a] = Nothing \/ (id'[a] = id[a] /\ (Busy(a) \/ ~Busy(a)'))
    BY <1>2 DEF SnapshotInv, AttemptInv, Snapshot!TypeOK, Snapshot!Checks, Snapshot!ReadCounts, Snapshot!bucketVars, Busy
  <1>5. ASSUME NEW b \in Attempts \ {a}
        PROVE  /\ at'[b] = at[b] /\ total'[b] = total[b] /\ page'[b] = page[b] /\ id'[b] = id[b]
               /\ answer'[b] = answer[b] /\ taken'[b] = taken[b] /\ writtenKeys'[b] = writtenKeys[b]
               /\ owner' = b /\ lockLive' => owner = b /\ lockLive
    BY DEF SnapshotInv, Snapshot!TypeOK, Snapshot!ReadCounts
  <1> QED
    BY <1>1, <1>3, <1>4, <1>5, QuietStep

LEMMA AskOwnerInv ==
  ASSUME SnapshotInv, NEW a \in Attempts, Snapshot!AskOwner(a)
  PROVE  SnapshotInv'
  <1> USE Constants
  <1>1. Snapshot!TypeOK'
    BY DEF SnapshotInv, AttemptInv, Snapshot!TypeOK, Snapshot!Stops, Snapshot!Checks, Snapshot!AskOwner, Snapshot!bucketVars
  <1>2. AttemptInv(a)
    BY DEF SnapshotInv
  <1>3. AttemptInv(a)'
    BY <1>2 DEF SnapshotInv, AttemptInv, Snapshot!TypeOK, Snapshot!Checks, Snapshot!AskOwner, Snapshot!bucketVars,
                Busy, Stored, Reading, Closing
  <1>4. /\ UNCHANGED <<version, chunk, manifest, misled>>
        /\ id[a] = Nothing \/ (id'[a] = id[a] /\ (Busy(a) \/ ~Busy(a)'))
    BY <1>2 DEF SnapshotInv, AttemptInv, Snapshot!TypeOK, Snapshot!Checks, Snapshot!AskOwner, Snapshot!bucketVars, Busy
  <1>5. ASSUME NEW b \in Attempts \ {a}
        PROVE  /\ at'[b] = at[b] /\ total'[b] = total[b] /\ page'[b] = page[b] /\ id'[b] = id[b]
               /\ answer'[b] = answer[b] /\ taken'[b] = taken[b] /\ writtenKeys'[b] = writtenKeys[b]
               /\ owner' = b /\ lockLive' => owner = b /\ lockLive
    BY DEF SnapshotInv, Snapshot!TypeOK, Snapshot!AskOwner
  <1> QED
    BY <1>1, <1>3, <1>4, <1>5, QuietStep

LEMMA OwnedInv ==
  ASSUME SnapshotInv, NEW a \in Attempts, Snapshot!Owned(a)
  PROVE  SnapshotInv'
  <1> USE Constants
  <1>1. Snapshot!TypeOK'
    BY DEF SnapshotInv, AttemptInv, Snapshot!TypeOK, Snapshot!Stops, Snapshot!Checks, Snapshot!Owned, Snapshot!bucketVars
  <1>2. AttemptInv(a)
    BY DEF SnapshotInv
  <1>3. AttemptInv(a)'
    BY <1>2 DEF SnapshotInv, AttemptInv, Snapshot!TypeOK, Snapshot!Checks, Snapshot!Owned, Snapshot!bucketVars,
                Busy, Stored, Reading, Closing
  <1>4. /\ UNCHANGED <<version, chunk, manifest, misled>>
        /\ id[a] = Nothing \/ (id'[a] = id[a] /\ (Busy(a) \/ ~Busy(a)'))
    BY <1>2 DEF SnapshotInv, AttemptInv, Snapshot!TypeOK, Snapshot!Checks, Snapshot!Owned, Snapshot!bucketVars, Busy
  <1>5. ASSUME NEW b \in Attempts \ {a}
        PROVE  /\ at'[b] = at[b] /\ total'[b] = total[b] /\ page'[b] = page[b] /\ id'[b] = id[b]
               /\ answer'[b] = answer[b] /\ taken'[b] = taken[b] /\ writtenKeys'[b] = writtenKeys[b]
               /\ owner' = b /\ lockLive' => owner = b /\ lockLive
    BY DEF SnapshotInv, Snapshot!TypeOK, Snapshot!Owned
  <1> QED
    BY <1>1, <1>3, <1>4, <1>5, QuietStep

LEMMA NotOwnedInv ==
  ASSUME SnapshotInv, NEW a \in Attempts, Snapshot!NotOwned(a)
  PROVE  SnapshotInv'
  <1> USE Constants
  <1>1. Snapshot!TypeOK'
    BY DEF SnapshotInv, AttemptInv, Snapshot!TypeOK, Snapshot!Stops, Snapshot!Checks, Snapshot!NotOwned, Snapshot!bucketVars
  <1>2. AttemptInv(a)
    BY DEF SnapshotInv
  <1>3. AttemptInv(a)'
    BY <1>2 DEF SnapshotInv, AttemptInv, Snapshot!TypeOK, Snapshot!Checks, Snapshot!NotOwned, Snapshot!bucketVars,
                Busy, Stored, Reading, Closing
  <1>4. /\ UNCHANGED <<version, chunk, manifest, misled>>
        /\ id[a] = Nothing \/ (id'[a] = id[a] /\ (Busy(a) \/ ~Busy(a)'))
    BY <1>2 DEF SnapshotInv, AttemptInv, Snapshot!TypeOK, Snapshot!Checks, Snapshot!NotOwned, Snapshot!bucketVars, Busy
  <1>5. ASSUME NEW b \in Attempts \ {a}
        PROVE  /\ at'[b] = at[b] /\ total'[b] = total[b] /\ page'[b] = page[b] /\ id'[b] = id[b]
               /\ answer'[b] = answer[b] /\ taken'[b] = taken[b] /\ writtenKeys'[b] = writtenKeys[b]
               /\ owner' = b /\ lockLive' => owner = b /\ lockLive
    BY DEF SnapshotInv, Snapshot!TypeOK, Snapshot!NotOwned
  <1> QED
    BY <1>1, <1>3, <1>4, <1>5, QuietStep

LEMMA ReadPageInv ==
  ASSUME SnapshotInv, NEW a \in Attempts, Snapshot!ReadPage(a)
  PROVE  SnapshotInv'
  <1> USE Constants
  <1>1. Snapshot!TypeOK'
    BY DEF SnapshotInv, AttemptInv, Snapshot!TypeOK, Snapshot!Stops, Snapshot!Checks, Snapshot!ReadPage, Snapshot!bucketVars
  <1>2. AttemptInv(a)
    BY DEF SnapshotInv
  <1>3. AttemptInv(a)'
    BY <1>2 DEF SnapshotInv, AttemptInv, Snapshot!TypeOK, Snapshot!Checks, Snapshot!ReadPage, Snapshot!bucketVars,
                Busy, Stored, Reading, Closing
  <1>4. /\ UNCHANGED <<version, chunk, manifest, misled>>
        /\ id[a] = Nothing \/ (id'[a] = id[a] /\ (Busy(a) \/ ~Busy(a)'))
    BY <1>2 DEF SnapshotInv, AttemptInv, Snapshot!TypeOK, Snapshot!Checks, Snapshot!ReadPage, Snapshot!bucketVars, Busy
  <1>5. ASSUME NEW b \in Attempts \ {a}
        PROVE  /\ at'[b] = at[b] /\ total'[b] = total[b] /\ page'[b] = page[b] /\ id'[b] = id[b]
               /\ answer'[b] = answer[b] /\ taken'[b] = taken[b] /\ writtenKeys'[b] = writtenKeys[b]
               /\ owner' = b /\ lockLive' => owner = b /\ lockLive
    BY DEF SnapshotInv, Snapshot!TypeOK, Snapshot!ReadPage
  <1> QED
    BY <1>1, <1>3, <1>4, <1>5, QuietStep

LEMMA PutChunkFailsInv ==
  ASSUME SnapshotInv, NEW a \in Attempts, Snapshot!PutChunkFails(a)
  PROVE  SnapshotInv'
  <1> USE Constants
  <1>1. Snapshot!TypeOK'
    BY DEF SnapshotInv, AttemptInv, Snapshot!TypeOK, Snapshot!Stops, Snapshot!Checks, Snapshot!PutChunkFails, Snapshot!bucketVars
  <1>2. AttemptInv(a)
    BY DEF SnapshotInv
  <1>3. AttemptInv(a)'
    BY <1>2 DEF SnapshotInv, AttemptInv, Snapshot!TypeOK, Snapshot!Checks, Snapshot!PutChunkFails, Snapshot!bucketVars,
                Busy, Stored, Reading, Closing
  <1>4. /\ UNCHANGED <<version, chunk, manifest, misled>>
        /\ id[a] = Nothing \/ (id'[a] = id[a] /\ (Busy(a) \/ ~Busy(a)'))
    BY <1>2 DEF SnapshotInv, AttemptInv, Snapshot!TypeOK, Snapshot!Checks, Snapshot!PutChunkFails, Snapshot!bucketVars, Busy
  <1>5. ASSUME NEW b \in Attempts \ {a}
        PROVE  /\ at'[b] = at[b] /\ total'[b] = total[b] /\ page'[b] = page[b] /\ id'[b] = id[b]
               /\ answer'[b] = answer[b] /\ taken'[b] = taken[b] /\ writtenKeys'[b] = writtenKeys[b]
               /\ owner' = b /\ lockLive' => owner = b /\ lockLive
    BY DEF SnapshotInv, Snapshot!TypeOK, Snapshot!PutChunkFails
  <1> QED
    BY <1>1, <1>3, <1>4, <1>5, QuietStep

LEMMA ReadHistoryCountInv ==
  ASSUME SnapshotInv, NEW a \in Attempts, Snapshot!ReadHistoryCount(a)
  PROVE  SnapshotInv'
  <1> USE Constants
  <1>1. Snapshot!TypeOK'
    BY DEF SnapshotInv, AttemptInv, Snapshot!TypeOK, Snapshot!Stops, Snapshot!Checks, Snapshot!ReadHistoryCount, Snapshot!bucketVars
  <1>2. AttemptInv(a)
    BY DEF SnapshotInv
  <1>3. AttemptInv(a)'
    BY <1>2 DEF SnapshotInv, AttemptInv, Snapshot!TypeOK, Snapshot!Checks, Snapshot!ReadHistoryCount, Snapshot!bucketVars,
                Busy, Stored, Reading, Closing
  <1>4. /\ UNCHANGED <<version, chunk, manifest, misled>>
        /\ id[a] = Nothing \/ (id'[a] = id[a] /\ (Busy(a) \/ ~Busy(a)'))
    BY <1>2 DEF SnapshotInv, AttemptInv, Snapshot!TypeOK, Snapshot!Checks, Snapshot!ReadHistoryCount, Snapshot!bucketVars, Busy
  <1>5. ASSUME NEW b \in Attempts \ {a}
        PROVE  /\ at'[b] = at[b] /\ total'[b] = total[b] /\ page'[b] = page[b] /\ id'[b] = id[b]
               /\ answer'[b] = answer[b] /\ taken'[b] = taken[b] /\ writtenKeys'[b] = writtenKeys[b]
               /\ owner' = b /\ lockLive' => owner = b /\ lockLive
    BY DEF SnapshotInv, Snapshot!TypeOK, Snapshot!ReadHistoryCount
  <1> QED
    BY <1>1, <1>3, <1>4, <1>5, QuietStep

LEMMA PutManifestFailsInv ==
  ASSUME SnapshotInv, NEW a \in Attempts, Snapshot!PutManifestFails(a)
  PROVE  SnapshotInv'
  <1> USE Constants
  <1>1. Snapshot!TypeOK'
    BY DEF SnapshotInv, AttemptInv, Snapshot!TypeOK, Snapshot!Stops, Snapshot!Checks, Snapshot!PutManifestFails, Snapshot!bucketVars
  <1>2. AttemptInv(a)
    BY DEF SnapshotInv
  <1>3. AttemptInv(a)'
    BY <1>2 DEF SnapshotInv, AttemptInv, Snapshot!TypeOK, Snapshot!Checks, Snapshot!PutManifestFails, Snapshot!bucketVars,
                Busy, Stored, Reading, Closing
  <1>4. /\ UNCHANGED <<version, chunk, manifest, misled>>
        /\ id[a] = Nothing \/ (id'[a] = id[a] /\ (Busy(a) \/ ~Busy(a)'))
    BY <1>2 DEF SnapshotInv, AttemptInv, Snapshot!TypeOK, Snapshot!Checks, Snapshot!PutManifestFails, Snapshot!bucketVars, Busy
  <1>5. ASSUME NEW b \in Attempts \ {a}
        PROVE  /\ at'[b] = at[b] /\ total'[b] = total[b] /\ page'[b] = page[b] /\ id'[b] = id[b]
               /\ answer'[b] = answer[b] /\ taken'[b] = taken[b] /\ writtenKeys'[b] = writtenKeys[b]
               /\ owner' = b /\ lockLive' => owner = b /\ lockLive
    BY DEF SnapshotInv, Snapshot!TypeOK, Snapshot!PutManifestFails
  <1> QED
    BY <1>1, <1>3, <1>4, <1>5, QuietStep

LEMMA FailsInv ==
  ASSUME SnapshotInv, NEW a \in Attempts, Snapshot!Fails(a)
  PROVE  SnapshotInv'
  <1> USE Constants
  <1>1. Snapshot!TypeOK'
    BY DEF SnapshotInv, AttemptInv, Snapshot!TypeOK, Snapshot!Stops, Snapshot!Checks, Snapshot!Fails, Snapshot!bucketVars
  <1>2. AttemptInv(a)
    BY DEF SnapshotInv
  <1>3. AttemptInv(a)'
    BY <1>2 DEF SnapshotInv, AttemptInv, Snapshot!TypeOK, Snapshot!Checks, Snapshot!Fails, Snapshot!bucketVars,
                Busy, Stored, Reading, Closing
  <1>4. /\ UNCHANGED <<version, chunk, manifest, misled>>
        /\ id[a] = Nothing \/ (id'[a] = id[a] /\ (Busy(a) \/ ~Busy(a)'))
    BY <1>2 DEF SnapshotInv, AttemptInv, Snapshot!TypeOK, Snapshot!Checks, Snapshot!Fails, Snapshot!bucketVars, Busy
  <1>5. ASSUME NEW b \in Attempts \ {a}
        PROVE  /\ at'[b] = at[b] /\ total'[b] = total[b] /\ page'[b] = page[b] /\ id'[b] = id[b]
               /\ answer'[b] = answer[b] /\ taken'[b] = taken[b] /\ writtenKeys'[b] = writtenKeys[b]
               /\ owner' = b /\ lockLive' => owner = b /\ lockLive
    BY DEF SnapshotInv, Snapshot!TypeOK, Snapshot!Fails
  <1> QED
    BY <1>1, <1>3, <1>4, <1>5, QuietStep

LEMMA UnlockInv ==
  ASSUME SnapshotInv, NEW a \in Attempts, Snapshot!Unlock(a)
  PROVE  SnapshotInv'
  <1> USE Constants
  <1>1. Snapshot!TypeOK'
    BY DEF SnapshotInv, AttemptInv, Snapshot!TypeOK, Snapshot!Stops, Snapshot!Checks, Snapshot!Unlock, Snapshot!bucketVars
  <1>2. AttemptInv(a)
    BY DEF SnapshotInv
  <1>3. AttemptInv(a)'
    BY <1>2 DEF SnapshotInv, AttemptInv, Snapshot!TypeOK, Snapshot!Checks, Snapshot!Unlock, Snapshot!bucketVars,
                Busy, Stored, Reading, Closing
  <1>4. /\ UNCHANGED <<version, chunk, manifest, misled>>
        /\ id[a] = Nothing \/ (id'[a] = id[a] /\ (Busy(a) \/ ~Busy(a)'))
    BY <1>2 DEF SnapshotInv, AttemptInv, Snapshot!TypeOK, Snapshot!Checks, Snapshot!Unlock, Snapshot!bucketVars, Busy
  <1>5. ASSUME NEW b \in Attempts \ {a}
        PROVE  /\ at'[b] = at[b] /\ total'[b] = total[b] /\ page'[b] = page[b] /\ id'[b] = id[b]
               /\ answer'[b] = answer[b] /\ taken'[b] = taken[b] /\ writtenKeys'[b] = writtenKeys[b]
               /\ owner' = b /\ lockLive' => owner = b /\ lockLive
    BY DEF SnapshotInv, Snapshot!TypeOK, Snapshot!Unlock
  <1> QED
    BY <1>1, <1>3, <1>4, <1>5, QuietStep

LEMMA CrashInv ==
  ASSUME SnapshotInv, NEW a \in Attempts, Snapshot!Crash(a)
  PROVE  SnapshotInv'
  <1> USE Constants
  <1>1. Snapshot!TypeOK'
    BY DEF SnapshotInv, AttemptInv, Snapshot!TypeOK, Snapshot!Stops, Snapshot!Checks, Snapshot!Crash, Snapshot!bucketVars
  <1>2. AttemptInv(a)
    BY DEF SnapshotInv
  <1>3. AttemptInv(a)'
    BY <1>2 DEF SnapshotInv, AttemptInv, Snapshot!TypeOK, Snapshot!Checks, Snapshot!Crash, Snapshot!bucketVars,
                Busy, Stored, Reading, Closing
  <1>4. /\ UNCHANGED <<version, chunk, manifest, misled>>
        /\ id[a] = Nothing \/ (id'[a] = id[a] /\ (Busy(a) \/ ~Busy(a)'))
    BY <1>2 DEF SnapshotInv, AttemptInv, Snapshot!TypeOK, Snapshot!Checks, Snapshot!Crash, Snapshot!bucketVars, Busy
  <1>5. ASSUME NEW b \in Attempts \ {a}
        PROVE  /\ at'[b] = at[b] /\ total'[b] = total[b] /\ page'[b] = page[b] /\ id'[b] = id[b]
               /\ answer'[b] = answer[b] /\ taken'[b] = taken[b] /\ writtenKeys'[b] = writtenKeys[b]
               /\ owner' = b /\ lockLive' => owner = b /\ lockLive
    BY DEF SnapshotInv, Snapshot!TypeOK, Snapshot!Crash
  <1> QED
    BY <1>1, <1>3, <1>4, <1>5, QuietStep

-------------------------------------------------------------------------------
(* The steps that change the bucket.                                           *)

\* A chunk is put where none was: nothing that is counted on is replaced.
LEMMA ChunkPut ==
  ASSUME SnapshotInv, NEW a \in Attempts, at[a] = "put", chunk[id[a]][page[a]] = Nothing,
         chunk' = [chunk EXCEPT ![id[a]][page[a]] = [by |-> a, version |-> Snapshot!Newest(a)]]
  PROVE  /\ id[a] \in Names /\ page[a] \in PageRange /\ page[a] <= total[a]
         /\ chunk'[id[a]][page[a]] # Nothing /\ chunk'[id[a]][page[a]].by = a
         /\ chunk'[id[a]][page[a]].version \in taken[a]
         /\ \A i \in Names : \A p \in PageRange : chunk[i][p] # Nothing => chunk'[i][p] = chunk[i][p]
         /\ chunk' \in [Names -> [PageRange -> Chunk \cup {Nothing}]]
  <1> DEFINE c == [by |-> a, version |-> Snapshot!Newest(a)]
  <1>1. /\ id[a] \in Names /\ page[a] \in PageRange /\ page[a] <= total[a]
        /\ chunk \in [Names -> [PageRange -> Chunk \cup {Nothing}]]
        /\ taken[a] # {} /\ taken[a] \subseteq 0..MaxVersion
    BY Constants DEF SnapshotInv, AttemptInv, Snapshot!TypeOK, Snapshot!PageRange, PageRange, Snapshot!Chunk, Chunk, Reading
  <1>2. PICK v \in 0..MaxVersion : taken[a] = {v}
    BY <1>1 DEF SnapshotInv, AttemptInv
  <1>3. Snapshot!Newest(a) = v
    BY <1>2 DEF Snapshot!Newest
  <1>4. c \in Chunk /\ c # Nothing /\ c.by = a /\ c.version \in taken[a]
    BY <1>2, <1>3, Constants DEF Chunk
  <1> HIDE DEF c
  <1>5. chunk' = [chunk EXCEPT ![id[a]][page[a]] = c]
    BY DEF c
  <1>6. chunk' = [chunk EXCEPT ![id[a]] = [chunk[id[a]] EXCEPT ![page[a]] = c]]
    BY <1>5
  <1>7. chunk'[id[a]] = [chunk[id[a]] EXCEPT ![page[a]] = c] /\ \A i \in Names \ {id[a]} : chunk'[i] = chunk[i]
    BY <1>1, <1>6
  <1>8. chunk'[id[a]][page[a]] = c /\ id[a] \in Names
    BY <1>1, <1>7
  <1>9. \A i \in Names : \A p \in PageRange : chunk[i][p] # Nothing => chunk'[i][p] = chunk[i][p]
    BY <1>1, <1>7
  <1>10. chunk' \in [Names -> [PageRange -> Chunk \cup {Nothing}]]
    BY <1>1, <1>4, <1>6
  <1>11. chunk'[id[a]][page[a]] # Nothing /\ chunk'[id[a]][page[a]].by = a /\ chunk'[id[a]][page[a]].version \in taken[a]
    BY <1>4, <1>8
  <1> QED
    BY <1>1, <1>9, <1>10, <1>11

\* A step of attempt a after which every chunk that others count on is as it was.
LEMMA ChunkStep ==
  ASSUME SnapshotInv, NEW a \in Attempts, Snapshot!TypeOK', AttemptInv(a)', Busy(a),
         UNCHANGED <<version, owner, lockLive, total, id, answer, taken, manifest, misled>>,
         \A b \in Attempts \ {a} :
             at'[b] = at[b] /\ page'[b] = page[b] /\ writtenKeys'[b] = writtenKeys[b],
         \A i \in Names : \A p \in PageRange :
             chunk[i][p] # Nothing /\ chunk[i][p].by # a => chunk'[i][p] = chunk[i][p]
  PROVE  SnapshotInv'
  <1> USE Constants
  <1>1. ASSUME NEW b \in Attempts PROVE AttemptInv(b)'
    <2>1. CASE b # a
      <3>1. AttemptInv(b) /\ writtenKeys[b] \subseteq PageRange /\ id[b] \in Names \cup {Nothing}
        BY DEF SnapshotInv, Snapshot!TypeOK, PageRange, Snapshot!PageRange
      <3>2. Busy(b) => \A p \in writtenKeys[b] : chunk'[id[b]][p] = chunk[id[b]][p]
        BY <2>1, <3>1 DEF AttemptInv, Busy, Stored
      <3> QED
        BY <2>1, <3>1, <3>2, AttemptKept
    <2> QED
      BY <2>1
  <1>2. ASSUME NEW i \in Names PROVE PublishedInv(i)'
    <2> SUFFICES ASSUME manifest[i] # Nothing PROVE PublishedInv(i)'
      BY DEF PublishedInv
    <2> DEFINE w == manifest[i].by
    <2>1. w \in Attempts /\ manifest[i].pages \subseteq PageRange
      BY DEF SnapshotInv, Snapshot!TypeOK, Snapshot!Manifest, Manifest, Snapshot!PageRange, PageRange
    <2>2. PublishedInv(i)
      BY DEF SnapshotInv
    <2>3. i \notin misled => id'[w] = i /\ ~Busy(w)' /\ \A p \in manifest[i].pages : chunk'[i][p] = chunk[i][p]
      BY <2>1, <2>2 DEF PublishedInv, Busy, Stored
    <2> QED
      BY <2>2, <2>3 DEF PublishedInv, Stored, OneOf
  <1> QED
    BY <1>1, <1>2 DEF SnapshotInv

LEMMA PutChunkInv ==
  ASSUME SnapshotInv, NEW a \in Attempts, Snapshot!PutChunk(a)
  PROVE  SnapshotInv'
  <1> USE Constants
  <1> DEFINE p == page[a]  i == id[a]
  <1>1. /\ at[a] = "put" /\ chunk[i][p] = Nothing
        /\ chunk' = [chunk EXCEPT ![i][p] = [by |-> a, version |-> Snapshot!Newest(a)]]
        /\ writtenKeys' = [writtenKeys EXCEPT ![a] = @ \cup {p}]
        /\ page' = [page EXCEPT ![a] = p + 1]
        /\ at' = [at EXCEPT ![a] = IF p < total[a] THEN "beforeRead" ELSE "historyCount"]
        /\ UNCHANGED <<version, owner, lockLive, total, id, answer, taken, manifest, misled>>
    BY DEF Snapshot!PutChunk
  <1>2. /\ i \in Names /\ p \in PageRange /\ p <= total[a]
        /\ chunk'[i][p] # Nothing /\ chunk'[i][p].by = a /\ chunk'[i][p].version \in taken[a]
        /\ \A j \in Names : \A q \in PageRange : chunk[j][q] # Nothing => chunk'[j][q] = chunk[j][q]
        /\ chunk' \in [Names -> [PageRange -> Chunk \cup {Nothing}]]
    BY <1>1, ChunkPut
  <1>3. AttemptInv(a) /\ Snapshot!TypeOK
    BY DEF SnapshotInv
  <1>4. Snapshot!TypeOK'
    BY <1>1, <1>2, <1>3 DEF Snapshot!TypeOK, Snapshot!PageRange, PageRange, Snapshot!Chunk, Chunk, Snapshot!Stops
  <1>5. /\ page'[a] = p + 1 /\ writtenKeys'[a] = writtenKeys[a] \cup {p} /\ writtenKeys[a] = 1..(p - 1)
        /\ at'[a] = (IF p < total[a] THEN "beforeRead" ELSE "historyCount")
        /\ id[a] # Nothing /\ total[a] \in Nat /\ p \in Nat /\ answer[a] = "none"
    BY <1>1, <1>2, <1>3 DEF Snapshot!TypeOK, AttemptInv, Reading, Snapshot!Checks, PageRange
  <1>6. \A q \in writtenKeys'[a] : Stored(a, i, q)' /\ chunk'[i][q].version \in taken[a]
    BY <1>1, <1>2, <1>3, <1>5 DEF AttemptInv, Busy, Stored, Snapshot!TypeOK, Snapshot!PageRange, PageRange
  <1>7. AttemptInv(a)'
    <2>1. writtenKeys'[a] = 1..(page'[a] - 1)
      BY <1>2, <1>5 DEF PageRange
    <2> QED
      BY <1>1, <1>2, <1>3, <1>5, <1>6, <2>1 DEF AttemptInv, Busy, Reading, Closing, Snapshot!Checks
  <1>8. /\ Busy(a)
        /\ \A b \in Attempts \ {a} : at'[b] = at[b] /\ page'[b] = page[b] /\ writtenKeys'[b] = writtenKeys[b]
    BY <1>1, <1>3 DEF Busy, Snapshot!TypeOK
  <1> QED
    BY <1>1, <1>2, <1>4, <1>7, <1>8, ChunkStep

LEMMA PutChunkMisleadsInv ==
  ASSUME SnapshotInv, NEW a \in Attempts, Snapshot!PutChunkMisleads(a)
  PROVE  SnapshotInv'
  <1> USE Constants
  <1>1. /\ at[a] = "put" /\ chunk[id[a]][page[a]] = Nothing
        /\ chunk' = [chunk EXCEPT ![id[a]][page[a]] = [by |-> a, version |-> Snapshot!Newest(a)]]
        /\ at' = [at EXCEPT ![a] = "undo"]
        /\ UNCHANGED <<version, owner, lockLive, total, page, id, answer, taken, writtenKeys, manifest, misled>>
    BY DEF Snapshot!PutChunkMisleads
  <1>2. /\ id[a] \in Names
        /\ \A j \in Names : \A q \in PageRange : chunk[j][q] # Nothing => chunk'[j][q] = chunk[j][q]
        /\ chunk' \in [Names -> [PageRange -> Chunk \cup {Nothing}]]
    BY <1>1, ChunkPut
  <1>3. AttemptInv(a) /\ Snapshot!TypeOK
    BY DEF SnapshotInv
  <1>4. Snapshot!TypeOK'
    BY <1>1, <1>2, <1>3 DEF Snapshot!TypeOK, Snapshot!PageRange, PageRange, Snapshot!Chunk, Chunk, Snapshot!Stops
  <1>5. at'[a] = "undo" /\ id[a] # Nothing /\ answer[a] = "none"
    BY <1>1, <1>2, <1>3 DEF Snapshot!TypeOK, AttemptInv, Snapshot!Checks
  <1>6. AttemptInv(a)'
    <2>1. \A q \in writtenKeys[a] : Stored(a, id[a], q)' /\ chunk'[id[a]][q].version \in taken[a]
      BY <1>1, <1>2, <1>3 DEF AttemptInv, Busy, Stored, Snapshot!TypeOK, Snapshot!PageRange, PageRange
    <2> QED
      BY <1>1, <1>3, <1>5, <2>1 DEF AttemptInv, Busy, Reading, Closing
  <1>7. Busy(a) /\ \A b \in Attempts \ {a} : at'[b] = at[b]
    BY <1>1, <1>3 DEF Busy, Snapshot!TypeOK
  <1> QED
    BY <1>1, <1>2, <1>4, <1>6, <1>7, ChunkStep

\* The cleanup deletes chunks of its own attempt only, which is over then.
LEMMA UndoInv ==
  ASSUME SnapshotInv, NEW a \in Attempts, Snapshot!Undo(a)
  PROVE  SnapshotInv'
  <1> USE Constants
  <1> DEFINE i == id[a]
             left == [p \in PageRange |-> IF p \in writtenKeys[a] THEN Nothing ELSE chunk[i][p]]
  <1>1. /\ at[a] = "undo"
        /\ chunk' = chunk \/ chunk' = [chunk EXCEPT ![i] = left]
        /\ at' = [at EXCEPT ![a] = "unlock"]
        /\ UNCHANGED <<version, owner, lockLive, total, page, id, answer, taken, writtenKeys, manifest, misled>>
    BY DEF Snapshot!Undo, Snapshot!PageRange, PageRange
  <1>2. AttemptInv(a) /\ Snapshot!TypeOK
    BY DEF SnapshotInv
  <1>3. /\ i \in Names /\ chunk \in [Names -> [PageRange -> Chunk \cup {Nothing}]]
        /\ answer[a] = "none" /\ at \in [Attempts -> Snapshot!Stops]
        /\ \A p \in writtenKeys[a] : chunk[i][p].by = a
    BY <1>1, <1>2 DEF AttemptInv, Snapshot!TypeOK, Snapshot!PageRange, PageRange, Snapshot!Chunk, Chunk, Snapshot!Checks, Busy, Stored
  <1>4. left \in [PageRange -> Chunk \cup {Nothing}]
    BY <1>3
  <1>5. \A p \in PageRange : chunk[i][p] # Nothing /\ chunk[i][p].by # a => left[p] = chunk[i][p]
    BY <1>3
  <1> HIDE DEF left
  <1>6. chunk' \in [Names -> [PageRange -> Chunk \cup {Nothing}]]
    BY <1>1, <1>3, <1>4
  <1>7. \A j \in Names : \A p \in PageRange :
            chunk[j][p] # Nothing /\ chunk[j][p].by # a => chunk'[j][p] = chunk[j][p]
    BY <1>1, <1>3, <1>5
  <1>8. Snapshot!TypeOK'
    BY <1>1, <1>2, <1>6 DEF Snapshot!TypeOK, Snapshot!PageRange, PageRange, Snapshot!Chunk, Chunk, Snapshot!Stops
  <1>9. at'[a] = "unlock" /\ Busy(a) /\ \A b \in Attempts \ {a} : at'[b] = at[b]
    BY <1>1, <1>3 DEF Busy
  <1>10. AttemptInv(a)'
    BY <1>1, <1>2, <1>3, <1>9 DEF AttemptInv, Busy, Reading, Closing
  <1> QED
    BY <1>1, <1>7, <1>8, <1>9, <1>10, ChunkStep

\* A manifest is stored of what the attempt has read, under the last check, and written.
LEMMA ManifestPut ==
  ASSUME SnapshotInv, NEW a \in Attempts, Snapshot!PutManifest(a) \/ Snapshot!PutManifestMisleads(a)
  PROVE  SnapshotInv'
  <1> USE Constants
  <1> DEFINE i == id[a]  m == [by |-> a, pages |-> 1..total[a], versions |-> taken[a]]
  <1>1. /\ at[a] = "manifest" /\ manifest[i] = Nothing
        /\ manifest' = [manifest EXCEPT ![i] = m]
        /\ \/ at' = [at EXCEPT ![a] = "unlock"] /\ misled' = misled
           \/ at' = [at EXCEPT ![a] = "undo"] /\ misled' = misled \cup {i}
        /\ UNCHANGED <<version, owner, lockLive, total, page, id, answer, taken, writtenKeys, chunk>>
    BY DEF Snapshot!PutManifest, Snapshot!PutManifestMisleads, Snapshot!ManifestOf
  <1>2. AttemptInv(a) /\ Snapshot!TypeOK
    BY DEF SnapshotInv
  <1>3. /\ i \in Names /\ manifest \in [Names -> Manifest \cup {Nothing}] /\ at \in [Attempts -> Snapshot!Stops]
        /\ total[a] \in 0..Pages /\ taken[a] \subseteq 0..MaxVersion
        /\ page[a] = total[a] + 1 /\ writtenKeys[a] = 1..(page[a] - 1) /\ answer[a] = "none"
        /\ \A p \in writtenKeys[a] : Stored(a, i, p) /\ chunk[i][p].version \in taken[a]
    BY <1>1, <1>2 DEF AttemptInv, Snapshot!TypeOK, Snapshot!PageRange, PageRange, Snapshot!Manifest, Manifest,
                      Snapshot!Checks, Busy, Closing
  <1>4. OneOf(taken[a])
    BY <1>1, <1>2 DEF AttemptInv, OneOf
  <1>5. writtenKeys[a] = 1..total[a]
    BY <1>3
  <1>6. m \in Manifest /\ m # Nothing /\ m.by = a /\ m.pages = writtenKeys[a] /\ m.versions = taken[a]
    BY <1>3, <1>5 DEF Manifest, PageRange
  <1> HIDE DEF m
  <1>7. manifest' \in [Names -> Manifest \cup {Nothing}] /\ manifest'[i] = m
        /\ \A j \in Names \ {i} : manifest'[j] = manifest[j]
    BY <1>1, <1>3, <1>6
  <1>8. Snapshot!TypeOK'
    BY <1>1, <1>2, <1>3, <1>7 DEF Snapshot!TypeOK, Snapshot!PageRange, PageRange, Snapshot!Manifest, Manifest, Snapshot!Stops
  <1>9. /\ \/ at'[a] = "unlock" /\ misled' = misled
           \/ at'[a] = "undo" /\ misled' = misled \cup {i}
        /\ \A b \in Attempts \ {a} : at'[b] = at[b]
    BY <1>1, <1>3
  <1>10. ASSUME NEW b \in Attempts PROVE AttemptInv(b)'
    <2>1. CASE b = a
      BY <1>1, <1>2, <1>3, <1>9, <2>1 DEF AttemptInv, Busy, Reading, Closing, Stored
    <2>2. CASE b # a
      BY <1>1, <1>9, <2>2, AttemptKept DEF SnapshotInv
    <2> QED
      BY <2>1, <2>2
  <1>11. ASSUME NEW j \in Names PROVE PublishedInv(j)'
    <2>1. CASE j = i
      BY <1>1, <1>3, <1>4, <1>6, <1>7, <1>9, <2>1 DEF PublishedInv, OneOf, Stored, Busy
    <2>2. CASE j # i /\ manifest[j] # Nothing
      <3> DEFINE w == manifest[j].by
      <3>1. w \in Attempts
        BY <1>3, <2>2 DEF Manifest
      <3>2. PublishedInv(j)
        BY DEF SnapshotInv
      <3>3. j \notin misled' => id'[w] = j /\ ~Busy(w)'
        BY <1>1, <1>9, <2>2, <3>1, <3>2 DEF PublishedInv, Busy
      <3> QED
        BY <1>1, <1>7, <1>9, <2>2, <3>2, <3>3 DEF PublishedInv, OneOf, Stored
    <2>3. CASE j # i /\ manifest[j] = Nothing
      BY <1>7, <2>3 DEF PublishedInv
    <2> QED
      BY <2>1, <2>2, <2>3
  <1> QED
    BY <1>8, <1>10, <1>11 DEF SnapshotInv

-------------------------------------------------------------------------------
(* The invariant and what follows from it.                                     *)

\* What goes on around the attempts gives no lock back and changes no source under one.
LEMMA SurroundingsInv ==
  ASSUME SnapshotInv,
         Snapshot!SourceWrite \/ Snapshot!Lapse \/ Snapshot!CutoverLock \/ Snapshot!CutoverUnlock
  PROVE  SnapshotInv'
  <1> USE Constants
  <1> USE DEF Snapshot!SourceWrite, Snapshot!Lapse, Snapshot!CutoverLock, Snapshot!CutoverUnlock, Snapshot!LockFree,
              Snapshot!attemptVars, Snapshot!bucketVars
  <1>1. UNCHANGED <<at, total, page, id, answer, taken, writtenKeys, chunk, manifest, misled>>
    OBVIOUS
  <1>2. Snapshot!TypeOK'
    <2>1. version \in 0..MaxVersion /\ owner \in Attempts \cup {Cutover, Nothing} /\ lockLive \in BOOLEAN
      BY DEF SnapshotInv, Snapshot!TypeOK
    <2>2. version' \in 0..MaxVersion
      BY <2>1
    <2>3. owner' \in Attempts \cup {Cutover, Nothing} /\ lockLive' \in BOOLEAN
      BY <2>1
    <2> QED
      BY <1>1, <2>2, <2>3 DEF SnapshotInv, Snapshot!TypeOK
  <1>3. ASSUME NEW b \in Attempts PROVE owner' = b /\ lockLive' => owner = b /\ lockLive /\ version' = version
    OBVIOUS
  <1>4. ASSUME NEW b \in Attempts PROVE AttemptInv(b)'
    BY <1>1, <1>3, AttemptKept DEF SnapshotInv
  <1>5. ASSUME NEW i \in Names PROVE PublishedInv(i)'
    BY <1>1 DEF SnapshotInv, PublishedInv, Stored, Busy
  <1> QED
    BY <1>2, <1>4, <1>5 DEF SnapshotInv

LEMMA SnapshotNext == SnapshotInv /\ [Snapshot!Next]_Snapshot!vars => SnapshotInv'
  <1> SUFFICES ASSUME SnapshotInv, [Snapshot!Next]_Snapshot!vars PROVE SnapshotInv'
    OBVIOUS
  <1>1. ASSUME NEW a \in Attempts, Snapshot!AttemptStep(a) PROVE SnapshotInv'
    <2>1. ASSUME NEW i \in Names, Snapshot!Start(a, i) PROVE SnapshotInv'
      BY <2>1, StartInv
    <2>2. ASSUME NEW n \in 0..Pages, Snapshot!ReadCounts(a, n) PROVE SnapshotInv'
      BY <2>2, ReadCountsInv
    <2> QED
      BY <1>1, <2>1, <2>2, AskOwnerInv, OwnedInv, NotOwnedInv, ReadPageInv, PutChunkInv, PutChunkFailsInv,
         PutChunkMisleadsInv, ReadHistoryCountInv, ManifestPut, PutManifestFailsInv, FailsInv, UndoInv, UnlockInv,
         CrashInv DEF Snapshot!AttemptStep
  <1>2. CASE UNCHANGED Snapshot!vars
    BY <1>2 DEF Snapshot!vars, Snapshot!attemptVars, Snapshot!bucketVars, SnapshotInv, Snapshot!TypeOK, AttemptInv,
                PublishedInv, Stored, Busy
  <1> QED
    BY <1>1, <1>2, SurroundingsInv DEF Snapshot!Next

LEMMA SnapshotInvariant == Snapshot!Spec => []SnapshotInv
  <1> QED
    BY SnapshotInit, SnapshotNext, PTL DEF Snapshot!Spec

\* The lock, the attempts and the bucket keep their types.
THEOREM SnapshotTypeCorrect == Snapshot!Spec => []Snapshot!TypeOK
  <1> QED
    BY SnapshotInvariant, PTL DEF SnapshotInv

\* Every published backup is of one version of the source, however often its lock lapses and the
\* source changes between its reads.
THEOREM BackupIsOneState == Snapshot!Spec => []SnapshotIsOneState
  <1>1. SnapshotInv => SnapshotIsOneState
    <2> SUFFICES ASSUME SnapshotInv, NEW i \in Published PROVE Cardinality(manifest[i].versions) = 1
      BY DEF SnapshotIsOneState
    <2>1. PICK v \in 0..MaxVersion : manifest[i].versions = {v}
      BY DEF SnapshotInv, PublishedInv, Published, OneOf
    <2> QED
      BY <2>1, FS_Singleton
  <1> QED
    BY <1>1, SnapshotInvariant, PTL

\* A backup whose manifest was put and heard of finds every chunk it names as its attempt stored it,
\* for any number of attempts, also under one ID, that fail, mislead, clean up or die.
THEOREM BackupRestorable == Snapshot!Spec => []PublishedRestorable
  <1>1. SnapshotInv => PublishedRestorable
    BY DEF SnapshotInv, PublishedInv, Published, PublishedRestorable, Stored
  <1> QED
    BY <1>1, SnapshotInvariant, PTL
===============================================================================
