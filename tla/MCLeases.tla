------------------------------- MODULE MCLeases -------------------------------
(* Calls that read first and change what they read later: the batches of the   *)
(* trash, the operations on a provider under their lease, the writers and the  *)
(* undo of a memory, and two backups over a source that changes. They share no *)
(* state, so a behaviour is one of a single component, which the initial state *)
(* chooses.                                                                    *)
EXTENDS TrashLifecycle, VersionHistory, ProviderItems, BackupObjects, TLC

CONSTANT Operations

VARIABLES part,
          version, owner, lockLive, at, total, page, id, answer, taken, writtenKeys

\* What a memory may say: one text extends another, a third does neither.
MCTexts == {<<1>>, <<1, 2>>, <<2>>}

Provider == INSTANCE ProviderLease
Undoing == INSTANCE EntryVersions WITH Calls <- Operations
Backup == INSTANCE R2Snapshot

backupVars == <<version, owner, lockLive, at, total, page, id, answer, taken, writtenKeys,
                chunk, manifest, misled>>
all == <<part, vars, providerVars, historyVars, backupVars>>

\* A part that is not the chosen one stays in one of its initial states.
Begins == /\ part \in {"trash", "provider", "history", "backup"}
          /\ Init
          /\ Provider!Init
          /\ Undoing!Init /\ (part # "history" => content = <<1>>)
          /\ Backup!Init

OnTrash == part = "trash"
OnProvider == part = "provider"
OnHistory == part = "history"
OnBackup == part = "backup"

TrashOnly == UNCHANGED <<part, providerVars, historyVars, backupVars>>
ProviderOnly == UNCHANGED <<part, vars, historyVars, backupVars>>
HistoryOnly == UNCHANGED <<part, vars, providerVars, backupVars>>
BackupOnly == UNCHANGED <<part, vars, providerVars, historyVars>>

TrashStep ==
    \/ \E i \in Ids, w \in Workspaces : \/ OnTrash /\ Import(i, w) /\ TrashOnly
                                        \/ OnTrash /\ Share(i, w) /\ TrashOnly
    \/ \E i \in Ids, large \in BOOLEAN : OnTrash /\ Edit(i, large) /\ TrashOnly
    \/ \E q \in Requests, S \in SUBSET Ids : OnTrash /\ ReadForget(q, S) /\ TrashOnly
    \/ \E q \in Requests, i \in Ids, what \in {"restore", "forever"} : OnTrash /\ ReadTrashed(q, i, what) /\ TrashOnly
    \/ \E q \in Requests, cutoff \in 2..nonces + 1 : OnTrash /\ ReadPurge(q, cutoff) /\ TrashOnly
    \/ \E q \in Requests :
          \/ OnTrash /\ ForgetBatch(q) /\ TrashOnly
          \/ OnTrash /\ RestoreBatch(q) /\ TrashOnly
          \/ OnTrash /\ ForeverBatch(q) /\ TrashOnly
          \/ OnTrash /\ PurgeBatch(q) /\ TrashOnly
          \/ OnTrash /\ Abandon(q) /\ TrashOnly

ProviderStep ==
    \/ OnProvider /\ Provider!Expire /\ ProviderOnly
    \/ \E o \in Operations, mode \in {"connect", "sync", "disconnect"} : OnProvider /\ Provider!Begin(o, mode) /\ ProviderOnly
    \/ \E o \in Operations, k \in Keys : OnProvider /\ Provider!Pick(o, k) /\ ProviderOnly
    \/ \E o \in Operations :
          \/ OnProvider /\ Provider!Claim(o) /\ ProviderOnly
          \/ OnProvider /\ Provider!Connect(o) /\ ProviderOnly
          \/ OnProvider /\ Provider!NothingToDo(o) /\ ProviderOnly
          \/ OnProvider /\ Provider!Insert(o) /\ ProviderOnly
          \/ OnProvider /\ Provider!DeleteRow(o) /\ ProviderOnly
          \/ OnProvider /\ Provider!List(o) /\ ProviderOnly
          \/ OnProvider /\ Provider!Keep(o) /\ ProviderOnly
          \/ OnProvider /\ Provider!Drain(o) /\ ProviderOnly
          \/ OnProvider /\ Provider!Reset(o) /\ ProviderOnly
          \/ OnProvider /\ Provider!TrashPage(o) /\ ProviderOnly
          \/ OnProvider /\ Provider!Tell(o) /\ ProviderOnly
          \/ OnProvider /\ Provider!Sweep(o) /\ ProviderOnly
          \/ OnProvider /\ Provider!TellSwept(o) /\ ProviderOnly
          \/ OnProvider /\ Provider!Retire(o) /\ ProviderOnly
          \/ OnProvider /\ Provider!Erase(o) /\ ProviderOnly
          \/ OnProvider /\ Provider!Crash(o) /\ ProviderOnly

HistoryStep ==
    \/ \E c \in Operations :
          \/ \E grouped \in BOOLEAN : OnHistory /\ Undoing!Read(c, grouped) /\ HistoryOnly
          \/ \E reason \in Undoing!Reasons, next \in Texts : OnHistory /\ Undoing!Write(c, reason, next) /\ HistoryOnly
          \/ \E seq \in DOMAIN history : OnHistory /\ Undoing!ReadVersions(c, seq) /\ HistoryOnly
          \/ OnHistory /\ Undoing!Undo(c) /\ HistoryOnly
          \/ OnHistory /\ Undoing!Leave(c) /\ HistoryOnly
    \/ OnHistory /\ Undoing!SetStatus /\ HistoryOnly
    \/ \E next \in Texts : OnHistory /\ Undoing!RollUp(next) /\ HistoryOnly

BackupStep ==
    \/ OnBackup /\ Backup!SourceWrite /\ BackupOnly
    \/ OnBackup /\ Backup!Lapse /\ BackupOnly
    \/ OnBackup /\ Backup!CutoverLock /\ BackupOnly
    \/ OnBackup /\ Backup!CutoverUnlock /\ BackupOnly
    \/ \E a \in Attempts :
          \/ \E i \in Names : OnBackup /\ Backup!Start(a, i) /\ BackupOnly
          \/ \E n \in 0..Pages : OnBackup /\ Backup!ReadCounts(a, n) /\ BackupOnly
          \/ OnBackup /\ Backup!AskOwner(a) /\ BackupOnly
          \/ OnBackup /\ Backup!Owned(a) /\ BackupOnly
          \/ OnBackup /\ Backup!NotOwned(a) /\ BackupOnly
          \/ OnBackup /\ Backup!ReadPage(a) /\ BackupOnly
          \/ OnBackup /\ Backup!PutChunk(a) /\ BackupOnly
          \/ OnBackup /\ Backup!PutChunkFails(a) /\ BackupOnly
          \/ OnBackup /\ Backup!PutChunkMisleads(a) /\ BackupOnly
          \/ OnBackup /\ Backup!ReadHistoryCount(a) /\ BackupOnly
          \/ OnBackup /\ Backup!PutManifest(a) /\ BackupOnly
          \/ OnBackup /\ Backup!PutManifestFails(a) /\ BackupOnly
          \/ OnBackup /\ Backup!PutManifestMisleads(a) /\ BackupOnly
          \/ OnBackup /\ Backup!Fails(a) /\ BackupOnly
          \/ OnBackup /\ Backup!Undo(a) /\ BackupOnly
          \/ OnBackup /\ Backup!Unlock(a) /\ BackupOnly
          \/ OnBackup /\ Backup!Crash(a) /\ BackupOnly

AllSpec == Begins /\ [][TrashStep \/ ProviderStep \/ HistoryStep \/ BackupStep]_all

\* Calls of every component are interchangeable and go by the same names, as do the ids
\* of memories and backups: only one of the components moves. No property is about liveness.
Alike == Permutations(Operations) \cup Permutations(Ids)

-------------------------------------------------------------------------------
\* The properties are stated in the modules of the components.
AllTypeOK == /\ part = "trash" => TypeOK
             /\ part = "provider" => Provider!TypeOK
             /\ part = "history" => Undoing!TypeOK
             /\ part = "backup" => Backup!TypeOK
===============================================================================
