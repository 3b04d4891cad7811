----------------------------- MODULE ProviderLease -----------------------------
(* integrations/framework.ts, mirror.ts and routes/integrations.ts: connect,   *)
(* sync and disconnect of one provider take turns under a lease of its D1 row, *)
(* and what they do is fenced by owner, generation and draining. The record of *)
(* the connection is a KV value under the generation: whoever lost the lease   *)
(* reaches the value of its own generation at most. A sync mirrors an item by  *)
(* inserting a row and only later listing it in the record; a purging          *)
(* disconnect is a sequence of calls that the client continues, repeats or     *)
(* starts again. A statement or put that follows a renewal directly lands      *)
(* before the renewed lease ends.                                              *)
EXTENDS ProviderItems

CONSTANTS Operations, \* invocations, one after the other under each name
          None

Idle == [at |-> "idle", mode |-> "none", gen |-> 0, item |-> 0, row |-> 0,
         page |-> {}, cursor |-> None, next |-> None]
Marked == [from |-> None, next |-> None]
Unmapped == [k \in Keys |-> 0]
Fresh == {e \in Rows : born[e] = None}

Go(o, step) == op' = [op EXCEPT ![o].at = step] /\ UNCHANGED provider
(* releaseIntegrationOperation, in a finally: the lease is freed if still owned. *)
Released(o) == IF provider.owner = o THEN [provider EXCEPT !.owner = None, !.valid = FALSE] ELSE provider
Leave(o) == op' = [op EXCEPT ![o] = Idle] /\ provider' = Released(o)
MutHolds(o) == provider.gen = op[o].gen    \* no renewal: only the generation is looked at
(* renewIntegrationOperation, and the clauses of the statements after it.      *)
Holds(o) == /\ provider.owner = o /\ provider.valid /\ provider.gen = op[o].gen
            /\ op[o].mode = "disconnect" \/ ~provider.draining
Current == record[provider.gen]
Disconnecting(r) == r # None /\ r.disconnecting # None
Put(r) == record' = [record EXCEPT ![provider.gen] = r]

Init == /\ provider = [gen |-> 0, owner |-> None, valid |-> FALSE, draining |-> FALSE]
        /\ record = [g \in Generations |-> None]
        /\ live = {} /\ op = [o \in Operations |-> Idle]
        /\ client = None /\ born = [e \in Rows |-> None] /\ purged = {}

(* acquireIntegrationOperation: the generation is read before the lease is taken. *)
Begin(o, mode) ==
    /\ op[o].at = "idle"
    /\ op' = [op EXCEPT ![o] = [Idle EXCEPT !.at = "claim", !.mode = mode, !.gen = provider.gen,
                                            !.cursor = IF mode = "disconnect" THEN client ELSE None]]
    /\ UNCHANGED <<provider, record, live, client, born, purged>>

(* ... whose holder then loads the record. It does so in the step that first   *)
(* uses it: only who holds the lease changes it, and the others are refused.   *)
Claim(o) ==
    /\ op[o].at = "claim"
    /\ IF /\ provider.owner = None \/ ~provider.valid
          /\ op[o].mode = "disconnect" \/ ~provider.draining
         THEN /\ provider' = [provider EXCEPT !.owner = o, !.valid = TRUE]
              /\ op' = [op EXCEPT ![o].at = op[o].mode]
         ELSE op' = [op EXCEPT ![o] = Idle] /\ UNCHANGED provider
    /\ UNCHANGED <<record, live, client, born, purged>>

(* connect, after the token was validated: the item map is kept.               *)
Connect(o) ==
    /\ op[o].at = "connect" /\ Leave(o)
    /\ IF Holds(o)
         THEN Put([map |-> IF Current = None THEN Unmapped ELSE Current.map, disconnecting |-> None])
         ELSE UNCHANGED record
    /\ UNCHANGED <<live, client, born, purged>>

NothingToDo(o) ==    \* no connection, or a sync of one that is disconnecting
    /\ op[o].at \in {"sync", "disconnect"} /\ Leave(o)
    /\ Current = None \/ (op[o].mode = "sync" /\ Disconnecting(Current))
    /\ UNCHANGED <<record, live, client, born, purged>>

(* sync: an item that has its row is updated, which shows nowhere here, or, if *)
(* archived, deleted; one without a row is created. The item is fetched and    *)
(* its row built before the statement that inserts or deletes it.              *)
Pick(o, k) ==
    /\ op[o].at = "sync" /\ Current # None /\ ~Disconnecting(Current)
    /\ LET row == Current.map[k]
       IN op' = [op EXCEPT ![o].at = IF row \in live THEN "delete" ELSE "insert", ![o].item = k, ![o].row = row]
    /\ UNCHANGED <<provider, record, live, client, born, purged>>

Insert(o) ==
    /\ op[o].at = "insert" /\ Fresh # {}
    /\ IF Holds(o) /\ ~Disconnecting(Current)
         THEN LET e == LowestOf(Fresh)
              IN /\ live' = live \cup {e} /\ born' = [born EXCEPT ![e] = op[o].gen]
                 /\ op' = [op EXCEPT ![o].at = "list", ![o].row = e] /\ UNCHANGED provider
         ELSE Leave(o) /\ UNCHANGED <<live, born>>
    /\ UNCHANGED <<record, client, purged>>

MutDeleteRow(o) ==    \* the item is listed with no row, and not dropped from the map
    /\ op[o].at = "delete"
    /\ IF Holds(o)
         THEN /\ live' = live \ {op[o].row}
              /\ op' = [op EXCEPT ![o].at = "list", ![o].row = None] /\ UNCHANGED provider
         ELSE Leave(o) /\ UNCHANGED live
    /\ UNCHANGED <<record, client, born, purged>>

DeleteRow(o) ==
    /\ op[o].at = "delete"
    /\ IF Holds(o)
         THEN /\ live' = live \ {op[o].row}
              /\ op' = [op EXCEPT ![o].at = "list", ![o].row = 0] /\ UNCHANGED provider
         ELSE Leave(o) /\ UNCHANGED live
    /\ UNCHANGED <<record, client, born, purged>>

(* updateIntegration: the deltas on a record read again. *)
List(o) ==
    /\ op[o].at = "list" /\ Leave(o)
    /\ IF Current # None /\ Holds(o) THEN Put([Current EXCEPT !.map[op[o].item] = op[o].row])
                                     ELSE UNCHANGED record
    /\ UNCHANGED <<live, client, born, purged>>

(* disconnect: with the memories kept, or purged page by page.                 *)
Keep(o) == /\ op[o].at = "disconnect" /\ Current # None /\ op[o].cursor = None /\ Go(o, "keep")
           /\ UNCHANGED <<record, live, client, born, purged>>

(* The same cursor again, of a page whose answer is in the record.             *)
Repeated(o) == /\ op[o].cursor # None /\ Current.disconnecting # None
               /\ Current.disconnecting.from = op[o].cursor

(* The answer of a page arrives, or is lost. *)
Answer(o, next) == Leave(o) /\ client' \in {next, client}

PageFrom(map, cursor) == FirstOf({k \in Keys : map[k] # 0 /\ (cursor # None => k > cursor)})

Drain(o) ==
    /\ op[o].at = "disconnect" /\ Current # None
    /\ LET page == PageFrom(Current.map, op[o].cursor)
       IN IF ~Holds(o) THEN Leave(o) /\ UNCHANGED client
          ELSE IF Repeated(o)
            THEN /\ provider' = [Released(o) EXCEPT !.draining = TRUE]
                 /\ op' = [op EXCEPT ![o] = Idle] /\ client' \in {Current.disconnecting.next, client}
            ELSE /\ provider' = [provider EXCEPT !.draining = TRUE]
                 /\ op' = [op EXCEPT ![o] = [@ EXCEPT
                             !.at = IF op[o].cursor = None THEN "reset" ELSE IF page = {} THEN "sweep" ELSE "page",
                             !.page = {Current.map[k] : k \in page},
                             !.next = IF page = {} THEN None ELSE HighestOf(page)]]
                 /\ UNCHANGED client
    /\ UNCHANGED <<record, live, born, purged>>

Note(mark) == IF Current = None THEN UNCHANGED record ELSE Put([Current EXCEPT !.disconnecting = mark])

(* A purge that starts, or starts over. *)
Reset(o) ==
    /\ op[o].at = "reset"
    /\ IF Holds(o) THEN Note(Marked) /\ Go(o, IF op[o].page = {} THEN "sweep" ELSE "page")
                   ELSE Leave(o) /\ UNCHANGED record
    /\ UNCHANGED <<live, client, born, purged>>

(* trashMirroredEntries of a page. It may fail part of the way.                *)
TrashPage(o) ==
    /\ op[o].at = "page"
    /\ IF ~Holds(o) THEN Leave(o) /\ UNCHANGED live
       ELSE \E S \in SUBSET (op[o].page \cap live) :
              /\ live' = live \ S
              /\ IF S = op[o].page \cap live
                   THEN op' = [op EXCEPT ![o].at = "tell", ![o].page = {}] /\ UNCHANGED provider
                   ELSE Leave(o)
    /\ UNCHANGED <<record, client, born, purged>>

Tell(o) ==
    /\ op[o].at = "tell"
    /\ IF Holds(o) THEN /\ Note([from |-> op[o].cursor, next |-> op[o].next])
                        /\ Answer(o, op[o].next)
                   ELSE Leave(o) /\ UNCHANGED <<record, client>>
    /\ UNCHANGED <<live, born, purged>>

MutSweep(o) ==    \* the pages of the item map were all there was
    /\ op[o].at = "sweep" /\ Go(o, "retire")
    /\ UNCHANGED <<record, live, client, born, purged>>

(* Rows of the provider that no record lists. *)
Sweep(o) ==
    /\ op[o].at = "sweep"
    /\ IF live = {} THEN Go(o, "retire") /\ UNCHANGED live
       ELSE IF ~Holds(o) THEN Leave(o) /\ UNCHANGED live
       ELSE /\ live' = live \ FirstOf(live)
            /\ op' = [op EXCEPT ![o].at = "swept", ![o].next = IF op[o].cursor = None THEN 0 ELSE op[o].cursor]
            /\ UNCHANGED provider
    /\ UNCHANGED <<record, client, born, purged>>

TellSwept(o) ==
    /\ op[o].at = "swept"
    /\ IF Holds(o) THEN Note(Marked) /\ Answer(o, op[o].next)
                   ELSE Leave(o) /\ UNCHANGED <<record, client>>
    /\ UNCHANGED <<live, born, purged>>

(* deleteIntegration: the generation rotates, then its key is deleted.         *)
Retire(o) ==
    /\ op[o].at \in {"keep", "retire"}
    /\ IF Holds(o)
         THEN /\ provider.gen + 1 \in Generations
              /\ provider' = [provider EXCEPT !.gen = @ + 1, !.draining = FALSE]
              /\ purged' = IF op[o].at = "retire" THEN 0..provider.gen ELSE purged
              /\ op' = [op EXCEPT ![o].at = "erase"]
         ELSE Leave(o) /\ UNCHANGED purged
    /\ UNCHANGED <<record, live, client, born>>

Erase(o) ==
    /\ op[o].at = "erase" /\ Leave(o)
    /\ record' = [record EXCEPT ![op[o].gen] = None] /\ client' = None
    /\ UNCHANGED <<live, born, purged>>

(* The isolate dies with the lease held. *)
Crash(o) == /\ op[o].at # "idle" /\ op' = [op EXCEPT ![o] = Idle]
            /\ UNCHANGED <<provider, record, live, client, born, purged>>

Expire == /\ provider.valid /\ provider' = [provider EXCEPT !.valid = FALSE]
          /\ UNCHANGED <<record, live, op, client, born, purged>>

Step(o) == \/ \E mode \in {"connect", "sync", "disconnect"} : Begin(o, mode)
           \/ \E k \in Keys : Pick(o, k)
           \/ Claim(o) \/ Connect(o) \/ NothingToDo(o) \/ Insert(o) \/ DeleteRow(o) \/ List(o) \/ Keep(o) \/ Drain(o)
           \/ Reset(o) \/ TrashPage(o) \/ Tell(o) \/ Sweep(o) \/ TellSwept(o) \/ Retire(o) \/ Erase(o)
           \/ Crash(o)
Next == (\E o \in Operations : Step(o)) \/ Expire
Spec == Init /\ [][Next]_providerVars

--------------------------------------------------------------------------------
TypeOK ==
    /\ provider \in [gen : Generations, owner : Operations \cup {None}, valid : BOOLEAN, draining : BOOLEAN]
    /\ \A g \in Generations : record[g] # None => record[g].map \in [Keys -> Rows \cup {0}]
    /\ live \subseteq Rows
    /\ client \in Keys \cup {0, None}
    /\ born \in [Rows -> Generations \cup {None}]
================================================================================
