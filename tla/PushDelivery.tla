----------------------------- MODULE PushDelivery -----------------------------
(* push/send.ts: notifications of due items, sent by runs of the hourly cron   *)
(* (pushDueItemsAllWorkspaces) that may overlap, each in an isolate of its     *)
(* own. A workspace has one item that is due again whenever its date moves;    *)
(* its delivery record, a KV value without compare-and-set, names the date and *)
(* the devices that have it.                                                   *)
EXTENDS DeviceDeliveries, Sequences, SequencesExt

CONSTANTS Runs,
          None

VARIABLES due, fails,           \* D1: dates of the items, fail_count
          record, lease, cursor, \* KV
          run,                  \* the invocations
          faults,
          dropped               \* history

d1 == <<due, subs, fails>>
kv == <<record, lease, cursor>>
history == <<delivered, overlaps, outdated, unheard, dropped>>
vars == <<d1, kv, run, faults, history>>

\* failing are the devices whose next failure, by the count that the run read, is one too many,
\* mine the reserved tasks, left the workspaces whose record is still to be put.
Unanswered == [ok |-> {}, failed |-> {}, gone |-> {}]
Idle == [at |-> "idle", ring |-> <<>>, map |-> None, when |-> None, known |-> {}, failing |-> {},
         todo |-> <<>>, mine |-> {}, left |-> {}, results |-> Unanswered, from |-> 0, broken |-> FALSE]
Held(r) == run[r].at \in {"refresh", "record", "send", "retry", "apply", "move", "release", "drop"}
Move(r, step) == run' = [run EXCEPT ![r].at = step]

Init == /\ due = [w \in Workspaces |-> 1]
        /\ subs \in SUBSET Subscriptions /\ fails = [s \in Subscriptions |-> 0]
        /\ record = [w \in Workspaces |-> [when |-> 0, have |-> {}]]
        /\ lease = None /\ cursor = 0
        /\ run = [r \in Runs |-> Idle]
        /\ faults = 0 /\ overlaps = 0 /\ outdated = 0
        /\ delivered = [t \in Subscriptions \X (1..MaxMoves) |-> 0]
        /\ unheard = delivered /\ dropped = {}

(* The date of an item moves. *)
Reschedule(w) == /\ due[w] < MaxMoves
                 /\ due' = [due EXCEPT ![w] = @ + 1]
                 /\ UNCHANGED <<subs, fails, kv, run, faults, history>>

Sorted(S) == [n \in 1..Cardinality(S) |-> CHOOSE x \in S : Cardinality({y \in S : y < x}) = n - 1]

(* ringSlice: from strictly after the cursor, around the ring.                 *)
Slice == LET ring == {s[1] : s \in subs}
             turned == Sorted({w \in ring : w > cursor}) \o Sorted({w \in ring : w <= cursor})
         IN SubSeq(turned, 1, IF Width < Len(turned) THEN Width ELSE Len(turned))

(* computeTasks, per workspace: the devices that the record lacks.             *)
Missing(w, when, known, map) ==
    {d \in Devices : <<w, d>> \in known /\ ~(map[w].when = when[w] /\ d \in map[w].have)}

(* interleave: the first of each workspace, then the second of each.           *)
Interleaved(ring, when, known, map) ==
    LET tasks == {t \in (1..Len(ring)) \X Devices : t[2] \in Missing(ring[t[1]], when, known, map)}
        place(t) == t[1] + Len(ring) * Cardinality({u \in tasks : u[1] = t[1] /\ u[2] < t[2]})
        places == Sorted({place(t) : t \in tasks})
        at(n) == CHOOSE t \in tasks : place(t) = places[n]
    IN [n \in DOMAIN places |-> <<ring[at(n)[1]], at(n)[2]>>]

(* prepareWorkspacePush of every workspace of the slice.                       *)
Prepare(r) ==
    /\ run[r].at = "idle"
    /\ LET tasks == Interleaved(Slice, due, subs, record)
           failing == {s \in subs : fails[s] + 1 >= MaxFails}
       IN /\ tasks # <<>>
          /\ run' = [run EXCEPT ![r] = [Idle EXCEPT !.at = "due", !.ring = Slice, !.map = record,
                          !.when = due, !.known = subs, !.failing = failing, !.todo = tasks, !.from = cursor]]
    /\ UNCHANGED <<d1, kv, faults, history>>

(* acquireRunLease: read, put, and read back.                                  *)
ReadLease(r) ==
    /\ run[r].at = "due"
    /\ IF lease = None THEN Move(r, "claim") ELSE run' = [run EXCEPT ![r] = Idle]
    /\ UNCHANGED <<d1, kv, faults, history>>

PutLease(r) ==
    /\ run[r].at = "claim"
    /\ \/ lease' = r /\ Move(r, "check") /\ UNCHANGED faults
       \/ /\ faults < MaxFaults /\ faults' = faults + 1
          /\ run' = [run EXCEPT ![r] = Idle] /\ UNCHANGED lease
    /\ UNCHANGED <<d1, record, cursor, history>>

Overlapping(r) == \E q \in Runs \ {r} : Held(q)
CheckLease(r) ==
    /\ run[r].at = "check"
    /\ IF lease \in {None, r}
         THEN /\ Move(r, "refresh")
              /\ IF Overlapping(r)
                   THEN overlaps' = overlaps + 1 /\ faults < MaxFaults /\ faults' = faults + 1
                   ELSE UNCHANGED <<overlaps, faults>>
         ELSE run' = [run EXCEPT ![r] = Idle] /\ UNCHANGED <<overlaps, faults>>
    /\ UNCHANGED <<d1, kv, delivered, outdated, unheard, dropped>>

(* reserve: the first tasks that the budget can afford. *)
Reserved(tasks) == SubSeq(tasks, 1, IF Fetches < Len(tasks) THEN Fetches ELSE Len(tasks))
OwnersOf(tasks) == {t[1] : t \in tasks}
(* The first of some tasks, in the order of the run. *)
FirstOf(r, tasks) ==
    LET todo == run[r].todo
        at == CHOOSE i \in DOMAIN todo : todo[i] \in tasks /\ \A j \in 1..i - 1 : todo[j] \notin tasks
    IN todo[at]

MutRefresh(r) ==    \* the tasks of before the lease are sent
    /\ run[r].at = "refresh"
    /\ LET mine == ToSet(Reserved(run[r].todo))
       IN run' = [run EXCEPT ![r].at = "record", ![r].mine = mine, ![r].left = OwnersOf(mine)]
    /\ UNCHANGED <<d1, kv, faults, history>>

(* refreshTasks, under the lease, of workspaces that had tasks.                *)
Refresh(r) ==
    /\ run[r].at = "refresh"
    /\ LET had(w) == Missing(w, run[r].when, run[r].known, run[r].map) # {}
           map == [w \in Workspaces |-> IF had(w) THEN record[w] ELSE run[r].map[w]]
           tasks == Interleaved(run[r].ring, run[r].when, run[r].known, map)
           mine == ToSet(Reserved(tasks))
       IN run' = [run EXCEPT ![r].at = "record", ![r].map = map, ![r].todo = tasks,
                             ![r].mine = mine, ![r].left = OwnersOf(mine)]
    /\ UNCHANGED <<d1, kv, faults, history>>

(* The next of the workspaces whose record is to be put, and its reserved tasks. *)
NextOwner(r) == FirstOf(r, {t \in run[r].mine : t[1] \in run[r].left})[1]

(* recordAhead of one workspace after the other: its record names the devices  *)
(* before anything is sent; the first put that fails ends it.                  *)
RecordAhead(r) ==
    /\ run[r].at = "record"
    /\ IF run[r].left = {}
         THEN Move(r, "send") /\ UNCHANGED <<record, faults, outdated>>
         ELSE LET w == NextOwner(r)
                  mine == {d \in Devices : <<w, d>> \in run[r].mine}
                  old == IF run[r].map[w].when = run[r].when[w] THEN run[r].map[w].have ELSE {}
                  new == [when |-> run[r].when[w], have |-> old \cup mine]
                  pruned == [new EXCEPT !.have = {d \in @ : <<w, d>> \in run[r].known}]
              IN \/ /\ record' = [record EXCEPT ![w] = pruned]
                    /\ run' = [run EXCEPT ![r].map[w] = new, ![r].left = @ \ {w}]
                    /\ outdated' = outdated + (IF due[w] # run[r].when[w] THEN 1 ELSE 0)
                    /\ UNCHANGED faults
                 \/ /\ faults < MaxFaults /\ faults' = faults + 1
                    /\ run' = [run EXCEPT ![r].at = "send", ![r].broken = TRUE, ![r].left = {},
                                          ![r].mine = {t \in @ : t[1] \notin run[r].left}]
                    /\ UNCHANGED <<record, outdated>>
    /\ UNCHANGED <<d1, lease, cursor, delivered, overlaps, unheard, dropped>>

Unsent(r) == LET done == run[r].results IN run[r].mine \ (done.ok \cup done.failed \cup done.gone)
Sending(r) == FirstOf(r, Unsent(r))
Task(r) == <<Sending(r), run[r].when[Sending(r)[1]]>>
CanSend(r) == run[r].at = "send" /\ Unsent(r) # {}

SendOk(r) == /\ CanSend(r) /\ run' = [run EXCEPT ![r].results.ok = @ \cup {Sending(r)}]
             /\ delivered' = [delivered EXCEPT ![Task(r)] = @ + 1]
             /\ UNCHANGED <<d1, kv, faults, overlaps, outdated, unheard, dropped>>
SendFails(r) == /\ CanSend(r) /\ run' = [run EXCEPT ![r].results.failed = @ \cup {Sending(r)}]
                /\ UNCHANGED <<d1, kv, faults, history>>
SendGone(r) == /\ CanSend(r) /\ run' = [run EXCEPT ![r].results.gone = @ \cup {Sending(r)}]
               /\ UNCHANGED <<d1, kv, faults, history>>
(* The notification arrives and the answer does not: a failure like any other. *)
SendUnheard(r) == /\ CanSend(r) /\ run' = [run EXCEPT ![r].results.failed = @ \cup {Sending(r)}]
                  /\ faults < MaxFaults /\ faults' = faults + 1
                  /\ delivered' = [delivered EXCEPT ![Task(r)] = @ + 1]
                  /\ unheard' = [unheard EXCEPT ![Task(r)] = @ + 1]
                  /\ UNCHANGED <<d1, kv, overlaps, outdated, dropped>>

EndSending(r) ==
    /\ run[r].at = "send" /\ Unsent(r) = {}
    /\ run' = [run EXCEPT ![r].at = "retry", ![r].left = OwnersOf(run[r].results.failed)]
    /\ UNCHANGED <<d1, kv, faults, history>>

MutRetryFailed(r) ==    \* a failure leaves the record as it is
    /\ run[r].at = "retry" /\ Move(r, "apply")
    /\ UNCHANGED <<d1, kv, faults, history>>

(* retryFailedSends: the devices that failed leave the record, which is put as *)
(* this run has it.                                                            *)
RetryFailed(r) ==
    /\ run[r].at = "retry"
    /\ IF run[r].left = {}
         THEN Move(r, "apply") /\ UNCHANGED <<record, faults, dropped>>
         ELSE LET w == NextOwner(r)
                  failed == {d \in Devices : <<w, d>> \in run[r].results.failed}
              IN \/ /\ record' = [record EXCEPT ![w] = [run[r].map[w] EXCEPT !.have = @ \ failed]]
                    /\ run' = [run EXCEPT ![r].left = @ \ {w}]
                    /\ UNCHANGED <<faults, dropped>>
                 \/ /\ run' = [run EXCEPT ![r].left = @ \ {w}, ![r].broken = TRUE]
                    /\ faults < MaxFaults /\ faults' = faults + 1
                    /\ dropped' = dropped \cup {<<<<w, d>>, run[r].when[w]>> : d \in failed}
                    /\ UNCHANGED record
    /\ UNCHANGED <<d1, lease, cursor, delivered, overlaps, outdated, unheard>>

(* applySubscriptionOutcomes: one result per device and run.  A device is given *)
(* up by the count that the run read, and the count of D1 goes up by one.      *)
Apply(r) ==
    /\ run[r].at = "apply" /\ Move(r, "move")
    /\ LET lost == run[r].results.gone \cup (run[r].results.failed \cap run[r].failing)
       IN /\ subs' = subs \ lost
          /\ fails' = [s \in Subscriptions |-> IF s \in run[r].results.ok \cup lost THEN 0
                                               ELSE IF s \in run[r].results.failed \cap subs THEN fails[s] + 1
                                               ELSE fails[s]]
    /\ UNCHANGED <<due, kv, faults, history>>

(* To the last workspace read, or to just before the one the budget stopped at. *)
NextCursor(r) ==
    LET ring == run[r].ring  stopped == run[r].todo[Len(Reserved(run[r].todo)) + 1][1]
        at == CHOOSE i \in DOMAIN ring : ring[i] = stopped
    IN IF Len(Reserved(run[r].todo)) = Len(run[r].todo) THEN Last(ring)
       ELSE IF at > 1 THEN ring[at - 1] ELSE run[r].from

MoveCursor(r) ==
    /\ run[r].at = "move" /\ Move(r, "release")
    /\ IF run[r].broken \/ NextCursor(r) = run[r].from THEN UNCHANGED <<cursor, faults>>
       ELSE \/ cursor' = NextCursor(r) /\ UNCHANGED faults
            \/ faults < MaxFaults /\ faults' = faults + 1 /\ UNCHANGED cursor
    /\ UNCHANGED <<d1, record, lease, history>>

(* releaseRunLease: a get, then a delete. *)
Release(r) ==
    /\ run[r].at = "release"
    /\ IF lease = r THEN Move(r, "drop") ELSE run' = [run EXCEPT ![r] = Idle]
    /\ UNCHANGED <<d1, kv, faults, history>>
DropLease(r) ==
    /\ run[r].at = "drop"
    /\ lease' = None /\ run' = [run EXCEPT ![r] = Idle]
    /\ UNCHANGED <<d1, record, cursor, faults, history>>

(* The minute of the lease is over, whatever its run is doing.                 *)
Lapse == lease # None /\ lease' = None /\ UNCHANGED <<d1, record, cursor, run, faults, history>>

(* A killed run takes along what it recorded and has not sent, or not settled. *)
Kill(r) ==
    /\ run[r].at # "idle" /\ faults < MaxFaults /\ faults' = faults + 1
    /\ dropped' = dropped \cup {<<t, run[r].when[t[1]]>> : t \in run[r].mine}
    /\ run' = [run EXCEPT ![r] = Idle]
    /\ UNCHANGED <<d1, kv, delivered, overlaps, outdated, unheard>>

Step(r) == \/ Prepare(r) \/ ReadLease(r) \/ PutLease(r) \/ CheckLease(r) \/ Refresh(r) \/ RecordAhead(r)
           \/ SendOk(r) \/ SendFails(r) \/ SendGone(r) \/ SendUnheard(r) \/ EndSending(r)
           \/ RetryFailed(r) \/ Apply(r) \/ MoveCursor(r) \/ Release(r) \/ DropLease(r)
Next == \/ \E r \in Runs : Step(r) \/ Kill(r)
        \/ Lapse
        \/ \E w \in Workspaces : Reschedule(w)

Spec == Init /\ [][Next]_vars
(* The cron comes every hour, its awaits end, and KV drops an old lease. *)
Fairness == WF_vars(Lapse) /\ \A r \in Runs : WF_vars(Step(r))
FairSpec == Spec /\ Fairness

--------------------------------------------------------------------------------
Dates == 0..MaxMoves
Records == [Workspaces -> [when : Dates, have : SUBSET Devices]]
Tasks == SUBSET Subscriptions
Steps == {"due", "claim", "check", "refresh", "record", "send", "retry", "apply", "move", "release", "drop"}

(* What a run remembers. *)
Memory == [at : Steps, ring : Seq(Workspaces), map : Records, when : [Workspaces -> 1..MaxMoves], known : Tasks,
           failing : Tasks, todo : Seq(Subscriptions), mine : Tasks, left : SUBSET Workspaces,
           results : [ok : Tasks, failed : Tasks, gone : Tasks], from : Workspaces \cup {0}, broken : BOOLEAN]

TypeOK ==
    /\ due \in [Workspaces -> 1..MaxMoves] /\ subs \subseteq Subscriptions
    /\ fails \in [Subscriptions -> Nat]
    /\ record \in Records
    /\ lease \in Runs \cup {None} /\ cursor \in Workspaces \cup {0}
    /\ run \in [Runs -> Memory \cup {Idle}]
    /\ faults \in 0..MaxFaults /\ overlaps \in 0..MaxFaults /\ outdated \in Nat
    /\ delivered \in [Subscriptions \X (1..MaxMoves) -> Nat]
    /\ unheard \in [Subscriptions \X (1..MaxMoves) -> Nat]
    /\ dropped \subseteq Subscriptions \X Dates

(* Once the dates rest, every device gets its item or is given up ("this       *)
(* reaches every workspace and subscription within a bounded number of runs"), *)
(* unless its run is killed or could not take a failure back, or two runs      *)
(* overlapped.                                                                 *)
EveryoneReached ==
    <>[](\A s \in subs : delivered[<<s, due[s[1]]>>] > 0 \/ <<s, due[s[1]]>> \in dropped \/ overlaps > 0)
================================================================================
