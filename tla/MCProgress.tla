------------------------------ MODULE MCProgress ------------------------------
(* The components that run on schedules and have to get somewhere: the nightly *)
(* job, the refresh of the ChatGPT session, the full-text index, the ring of   *)
(* the push runs and the outbox of the vectors. They share no state, so a      *)
(* behaviour is one of a single component, which the initial state chooses,    *)
(* and a property of one holds of them all together.                           *)
EXTENDS NightlyJob, SessionRow

CONSTANTS Disconnects, MaxRevisions,
          Rowids, Contents, Absent, Page, Window, IndexFaults,
          Runs, RingWorkspaces, Devices, Width, Fetches, MaxFails, MaxMoves, RingFaults,
          Uploads, Unfenced, Passages, Forgets, Deprecations, Drains,
          OutboxFaults, MaxQueue, MaxRequests,
          None

VARIABLES part,
          entries, fts, table, triggers, torn, ready, filled, window, night, repair,
          indexFaults, drifted, late,
          due, subs, fails, record, lease, ring, run, ringFaults,
          delivered, overlaps, outdated, unheard, dropped,
          row, ops, visible, queue, flight, up, removal, hand, overlooked, outboxFaults

Session == INSTANCE ChatGptSession
Index == INSTANCE FtsIndex WITH cursor <- filled, faults <- indexFaults
Ring == INSTANCE PushDelivery WITH Workspaces <- RingWorkspaces, cursor <- ring,
                                   faults <- ringFaults, MaxFaults <- RingFaults
Outbox == INSTANCE VectorOutbox WITH faults <- outboxFaults, MaxFaults <- OutboxFaults, Null <- None

indexVars == <<entries, fts, table, triggers, torn, ready, filled, window, night, repair,
               indexFaults, drifted, late>>
ringVars == <<due, subs, fails, record, lease, ring, run, ringFaults,
              delivered, overlaps, outdated, unheard, dropped>>
outboxVars == <<row, ops, visible, queue, flight, up, removal, hand, overlooked, outboxFaults>>
all == <<part, vars, sessionVars, indexVars, ringVars, outboxVars>>

\* A part that is not the chosen one stays in one of its initial states.
Begins ==
    /\ part \in {"job", "session", "index", "ring", "outbox"}
    /\ Init /\ (part # "job" => ~schemaOld /\ present = {})
    /\ Session!Init
    /\ Index!Init /\ (part # "index" => entries = Index!Empty)
    /\ Ring!Init /\ (part # "ring" => subs = {})
    /\ Outbox!Init

OnJob == part = "job" /\ UNCHANGED <<part, sessionVars, indexVars, ringVars, outboxVars>>
OnSession == part = "session" /\ UNCHANGED <<part, vars, indexVars, ringVars, outboxVars>>
OnIndex == part = "index" /\ UNCHANGED <<part, vars, sessionVars, ringVars, outboxVars>>
OnRing == part = "ring" /\ UNCHANGED <<part, vars, sessionVars, indexVars, outboxVars>>
OnOutbox == part = "outbox" /\ UNCHANGED <<part, vars, sessionVars, indexVars, ringVars>>

JobStep ==
    \/ OnJob /\ Wake
    \/ OnJob /\ ReserveRelease
    \/ OnJob /\ InitialiseDatabase
    \/ OnJob /\ Admit
    \/ OnJob /\ Rotate
    \/ \E p \in AllPasses : \/ OnJob /\ Read(p)
                            \/ OnJob /\ ReserveWork(p)
                            \/ OnJob /\ Authorise(p)
                            \/ OnJob /\ Record(p)
                            \/ OnJob /\ Abandon(p)
                            \/ OnJob /\ Return(p)
    \/ OnJob /\ OpenSection
    \/ OnJob /\ CloseSection
    \/ OnJob /\ OpenFts
    \/ OnJob /\ IndexEntries
    \/ OnJob /\ CloseFts
    \/ OnJob /\ ReleaseAdmission
    \/ OnJob /\ Kill
    \/ \E w \in Workspaces : OnJob /\ Populate(w)

SessionStep ==
    \/ OnSession /\ Session!Import
    \/ OnSession /\ Session!Expire
    \/ \E c \in Calls : \/ OnSession /\ Session!ReadExpired(c)
                        \/ OnSession /\ Session!Mark(c)
                        \/ OnSession /\ Session!Present(c)
                        \/ OnSession /\ Session!Accepted(c)
                        \/ OnSession /\ Session!Unavailable(c)
                        \/ OnSession /\ Session!Uncertain(c)
                        \/ OnSession /\ Session!Store(c)
                        \/ OnSession /\ Session!GiveUp(c)
                        \/ OnSession /\ Session!Kill(c)
    \/ \E d \in Disconnects : \/ OnSession /\ Session!ReadToDisconnect(d)
                              \/ OnSession /\ Session!Withdraw(d)
                              \/ OnSession /\ Session!Delete(d)

IndexStep ==
    \/ \E r \in Rowids, c \in Contents \cup {Absent} : OnIndex /\ Index!Write(r, c)
    \/ \E r \in Rowids : OnIndex /\ Index!Drift(r)
    \/ OnIndex /\ Index!FailWrite
    \/ OnIndex /\ Index!RepairUnlatch
    \/ OnIndex /\ Index!RepairRewind
    \/ OnIndex /\ Index!RepairDdl
    \/ OnIndex /\ Index!Look
    \/ OnIndex /\ Index!Probe
    \/ OnIndex /\ Index!RebuildUnlatch
    \/ OnIndex /\ Index!RebuildRewind
    \/ OnIndex /\ Index!RebuildDdl
    \/ OnIndex /\ Index!ReadPage
    \/ OnIndex /\ Index!Throw
    \/ OnIndex /\ Index!Fill
    \/ OnIndex /\ Index!Advance
    \/ OnIndex /\ Index!Parity
    \/ OnIndex /\ Index!Latch
    \/ OnIndex /\ Index!Restart
    \/ OnIndex /\ Index!Count
    \/ OnIndex /\ Index!Compare
    \/ OnIndex /\ Index!DeleteOrphans
    \/ OnIndex /\ Index!StartAgain
    \/ OnIndex /\ Index!Unready
    \/ OnIndex /\ Index!Review
    \/ OnIndex /\ Index!Reindex
    \/ OnIndex /\ Index!Turn
    \/ OnIndex /\ Index!LoseTable
    \/ OnIndex /\ Index!Tamper
    \/ OnIndex /\ Index!Tear
    \/ OnIndex /\ Index!Kill

\* The single actions of the last two fire in runs of their own.
Goes == JobStep \/ SessionStep \/ IndexStep
        \/ (OnRing /\ Ring!Next)
        \/ (OnOutbox /\ Outbox!Next)

\* The fairness of each component. Only one of them ever moves, so actions of two
\* may share a condition: it is the condition of the one that is there.
Progresses ==
    /\ WF_all(\/ OnJob /\ Proceed
              \/ OnIndex /\ Index!Night
              \/ OnRing /\ Ring!Lapse
              \/ OnOutbox /\ Outbox!Apply)
    /\ \A c \in Calls : WF_all(OnSession /\ Session!Progress(c))
    /\ \A r \in Runs : WF_all(OnRing /\ Ring!Step(r))
    /\ \A u \in Uploads : /\ WF_all(OnOutbox /\ Outbox!Land(u))
                          /\ WF_all(OnOutbox /\ Outbox!UploadStep(u) /\ up[u].at # "idle")
    /\ \A a \in Outbox!Actors : WF_all(OnOutbox /\ Outbox!HandStep(a))
    /\ \A d \in Drains : WF_all(OnOutbox /\ Outbox!Claim(d))
    /\ \A d \in Drains, u \in Uploads, x \in Forgets :
          /\ SF_all((OnJob /\ InitialiseDatabase) \/ (OnOutbox /\ Outbox!Select(d, <<u, 1>>)))
          /\ SF_all((OnJob /\ Admit /\ stage' = "rotation") \/ (OnOutbox /\ Outbox!Select(d, <<x, 1>>)))
    /\ SF_all(OnJob /\ Rotate)

FairSpec == Begins /\ [][Goes]_all /\ Progresses

-------------------------------------------------------------------------------
\* The properties are stated in the modules of the components.
AllTypeOK == TypeOK /\ Session!TypeOK /\ Index!TypeOK /\ Ring!TypeOK /\ Outbox!TypeOK
RefreshSettles == Session!RefreshSettles
ComesBack == Index!ComesBack \/ <>[](part # "index")
EveryoneReached == Ring!EveryoneReached
IndexConverges == Outbox!IndexConverges
===============================================================================
