---------------------------- MODULE ChatGptSession ----------------------------
(* lib/chatgpt-session.ts: the one session row, refreshed by whichever call    *)
(* finds its access token expired. Calls of the MCP server, of the nightly     *)
(* jobs and of REST run concurrently and may be killed at any await. The       *)
(* credentials sealed under a revision are named by that revision: an import   *)
(* and a refresh each bring a refresh token of their own. Tokens that are      *)
(* fresh are returned without a change of state and do not appear.             *)
EXTENDS SessionRow

CONSTANTS Disconnects,   \* invocations of disconnectChatGptSession
          MaxRevisions   \* bound on imports and refreshes

Resting == [at |-> "idle", rev |-> 0, grant |-> 0]
Is(rev, state) == session # NoSession /\ session.rev = rev /\ session.state = state

Init == /\ session = NoSession
        /\ call = [c \in Calls |-> Resting]
        /\ disc = [d \in Disconnects |-> Resting]
        /\ last = 0 /\ newest = 0 /\ removed = 0
        /\ unsettled = {} /\ orphaned = {}

(* importChatGptSession: an upsert that does not ask what is there. *)
Import == /\ last < MaxRevisions
          /\ last' = last + 1
          /\ newest' = last'
          /\ session' = [rev |-> last', state |-> "ready", fresh |-> TRUE, grant |-> last']
          /\ UNCHANGED <<call, disc, unsettled, removed, orphaned>>

Expire == /\ session # NoSession /\ session.fresh
          /\ session' = [session EXCEPT !.fresh = FALSE]
          /\ UNCHANGED <<call, disc, last, unsettled, newest, removed, orphaned>>

(* chatGptAccessToken. *)
ReadExpired(c) ==
    /\ call[c].at = "idle"
    /\ session # NoSession /\ session.state = "ready" /\ ~session.fresh
    /\ call' = [call EXCEPT ![c] = [at |-> "read", rev |-> session.rev, grant |-> session.grant]]
    /\ UNCHANGED <<session, disc, last, unsettled, newest, removed, orphaned>>

Mark(c) ==
    /\ call[c].at = "read"
    /\ IF Is(call[c].rev, "ready")
         THEN /\ session' = [session EXCEPT !.state = "refreshing"]
              /\ call' = [call EXCEPT ![c].at = "marked"]
         ELSE /\ call' = [call EXCEPT ![c] = Resting]
              /\ UNCHANGED session
    /\ UNCHANGED <<disc, last, unsettled, newest, removed, orphaned>>

Present(c) ==
    /\ call[c].at = "marked"
    /\ call' = [call EXCEPT ![c].at = "sent"]
    /\ unsettled' = unsettled \cup {call[c].rev}
    /\ UNCHANGED <<session, disc, last, newest, removed, orphaned>>

(* The answer: tokens, an explicit 5xx, or anything else - a refusal, a lost   *)
(* response, or tokens that fail their verification.                           *)
Accepted(c) == /\ call[c].at = "sent"
               /\ call' = [call EXCEPT ![c].at = "accepted"]
               /\ UNCHANGED <<session, disc, last, unsettled, newest, removed, orphaned>>

Unavailable(c) == /\ call[c].at = "sent"
                  /\ call' = [call EXCEPT ![c].at = "retryable"]
                  /\ unsettled' = unsettled \ {call[c].rev}
                  /\ UNCHANGED <<session, disc, last, newest, removed, orphaned>>

Uncertain(c) == /\ call[c].at \in {"sent", "accepted"}
                /\ call' = [call EXCEPT ![c].at = "failed"]
                /\ UNCHANGED <<session, disc, last, unsettled, newest, removed, orphaned>>

MutStore(c) ==    \* the new credentials go in whatever revision is there
    /\ call[c].at = "accepted" /\ last < MaxRevisions
    /\ IF session # NoSession
         THEN /\ last' = last + 1
              /\ session' = [rev |-> last', state |-> "ready", fresh |-> TRUE, grant |-> call[c].grant]
         ELSE UNCHANGED <<session, last>>
    /\ call' = [call EXCEPT ![c] = Resting]
    /\ UNCHANGED <<disc, unsettled, newest, removed, orphaned>>

Store(c) ==
    /\ call[c].at = "accepted" /\ last < MaxRevisions
    /\ IF Is(call[c].rev, "refreshing")
         THEN /\ last' = last + 1
              /\ session' = [rev |-> last', state |-> "ready", fresh |-> TRUE, grant |-> call[c].grant]
         ELSE UNCHANGED <<session, last>>
    /\ call' = [call EXCEPT ![c] = Resting]
    /\ UNCHANGED <<disc, unsettled, newest, removed, orphaned>>

MutAfterError(at) == IF at \in {"retryable", "failed"} THEN "ready" ELSE "reauth"
AfterError(at) == IF at = "retryable" THEN "ready" ELSE "reauth"

MutGiveUp(c) ==   \* a failure is thrown to the caller and the mark stays
    /\ call[c].at \in {"retryable", "failed"}
    /\ call' = [call EXCEPT ![c] = Resting]
    /\ UNCHANGED <<session, disc, last, unsettled, newest, removed, orphaned>>

GiveUp(c) ==
    /\ call[c].at \in {"retryable", "failed"}
    /\ session' = IF Is(call[c].rev, "refreshing")
                    THEN [session EXCEPT !.state = AfterError(call[c].at)] ELSE session
    /\ call' = [call EXCEPT ![c] = Resting]
    /\ UNCHANGED <<disc, last, unsettled, newest, removed, orphaned>>

Kill(c) == /\ call[c].at # "idle"
           /\ orphaned' = IF call[c].at = "read" THEN orphaned ELSE orphaned \cup {call[c].rev}
           /\ call' = [call EXCEPT ![c] = Resting]
           /\ UNCHANGED <<session, disc, last, unsettled, newest, removed>>

(* disconnectChatGptSession; the revocation between the two statements may     *)
(* fail, which only its answer tells.                                          *)
ReadToDisconnect(d) ==
    /\ disc[d].at = "idle"
    /\ session # NoSession /\ session.state # "refreshing"
    /\ disc' = [disc EXCEPT ![d] = [at |-> "read", rev |-> session.rev, grant |-> session.grant]]
    /\ UNCHANGED <<session, call, last, unsettled, newest, removed, orphaned>>

Withdraw(d) ==
    /\ disc[d].at = "read"
    /\ IF session # NoSession /\ session.rev = disc[d].rev /\ session.state # "refreshing"
         THEN /\ session' = [session EXCEPT !.state = "reauth"]
              /\ disc' = [disc EXCEPT ![d].at = "revoking"]
         ELSE /\ disc' = [disc EXCEPT ![d] = Resting]
              /\ UNCHANGED session
    /\ UNCHANGED <<call, last, unsettled, newest, removed, orphaned>>

Delete(d) ==
    /\ disc[d].at = "revoking"
    /\ IF session # NoSession /\ session.rev = disc[d].rev
         THEN session' = NoSession /\ removed' = session.grant
         ELSE UNCHANGED <<session, removed>>
    /\ disc' = [disc EXCEPT ![d] = Resting]
    /\ UNCHANGED <<call, last, unsettled, newest, orphaned>>

Progress(c) == Mark(c) \/ Present(c) \/ Accepted(c) \/ Unavailable(c) \/ Uncertain(c) \/ Store(c) \/ GiveUp(c)
Next == \/ Import \/ Expire
        \/ \E c \in Calls : ReadExpired(c) \/ Progress(c) \/ Kill(c)
        \/ \E d \in Disconnects : ReadToDisconnect(d) \/ Withdraw(d) \/ Delete(d)

Spec == Init /\ [][Next]_sessionVars
(* Invocations that are not killed go on: every await of theirs has a deadline. *)
Fairness == \A c \in Calls : WF_sessionVars(Progress(c))

--------------------------------------------------------------------------------
At(places) == [at : places, rev : Nat, grant : Nat]
States == {"ready", "refreshing", "reauth"}
TypeOK ==
    /\ session \in [rev : Nat, state : States, fresh : BOOLEAN, grant : Nat] \cup {NoSession}
    /\ call \in [Calls -> At({"idle", "read", "marked", "sent", "accepted", "retryable", "failed"})]
    /\ disc \in [Disconnects -> At({"idle", "read", "revoking"})]
    /\ last \in Nat /\ newest \in Nat /\ removed \in Nat
    /\ unsettled \in SUBSET Nat /\ orphaned \in SUBSET Nat

(* Every refresh comes to an end, unless its Worker was killed: then only an   *)
(* import helps.                                                               *)
RefreshSettles ==
    []<>(session # NoSession /\ session.state = "refreshing" => session.rev \in orphaned)
================================================================================
