------------------------------ MODULE SessionRow ------------------------------
(* The one row of chatgpt_session and what the calls have read of it, from     *)
(* lib/chatgpt-session.ts; and what imports, refreshes and disconnects promise *)
(* of it, whatever order they take and wherever they are killed.               *)
EXTENDS Naturals

CONSTANT Calls      \* invocations of chatGptAccessToken

VARIABLES session,    \* chatgpt_session: revision, state, and the grant it descends from
          call, disc, \* what the invocations have read, and how far they are
          last,       \* the last revision given out
          unsettled,  \* refresh tokens presented and not rejected, history
          newest,     \* the grant imported last, history
          removed,    \* the grant a disconnect deleted last, history
          orphaned    \* revisions whose refresh was killed, history

sessionVars == <<session, call, disc, last, unsettled, newest, removed, orphaned>>

NoSession == [rev |-> 0, state |-> "none", fresh |-> FALSE, grant |-> 0]

--------------------------------------------------------------------------------
(* "Do not resend an uncertain refresh using the old refresh token": whoever   *)
(* is about to present a refresh token is alone with it, and its outcome is    *)
(* not open from an earlier call, killed or failed (lines 220 and 248).        *)
TokenSentOnce ==
    \A c \in Calls : call[c].at = "marked" =>
        /\ call[c].rev \notin unsettled
        /\ \A e \in Calls \ {c} : ~(call[e].at = "marked" /\ call[e].rev = call[c].rev)

(* A new grant prevails over refreshes and disconnects that began before it:   *)
(* the row is of the grant imported last, or that very grant was disconnected. *)
NewestPrevails == IF session = NoSession THEN removed = newest ELSE session.grant = newest
================================================================================
