--------------------------- MODULE AccessSessions ---------------------------
(***************************************************************************)
(* Access sessions and helper grants (core/phase5 and its handlers in      *)
(* core/server.py).                                                        *)
(*                                                                         *)
(* Two SQLite files: the grants and the sessions, whose rows carry a       *)
(* revision.  A connection (caller) has one request at a time in hand; the *)
(* requests of several connections are served by threads, and each read or *)
(* transaction of theirs is a step of its own.  A request never holds more *)
(* than copies: the grant read before an activation, the row and (from a   *)
(* second read) the revision of a session about to change.                 *)
(***************************************************************************)
EXTENDS Naturals, FiniteSets

CONSTANTS
    Callers,              \* connections of the owner, or callers of the service
    Sessions,             \* request ids, which become session ids
    Grants,               \* grant ids
    NoSession, NoGrant,
    MaxLife,              \* longest life of a session (max_duration_for)
    MaxTime, MaxRequests  \* bounds: the clock and the number of requests

ASSUME AccessNames == NoSession \notin Sessions /\ NoGrant \notin Grants
ASSUME AccessBounds == MaxLife \in Nat /\ MaxTime \in Nat /\ MaxRequests \in Nat

VARIABLES
    now,       \* the clock
    grant,     \* capability_grants
    sess,      \* phase5_sessions
    req,       \* the request in hand of each caller
    left,      \* requests still allowed (bound)
    raced,     \* history: sessions whose activation had read a grant that was
               \* then revoked under it
    answered   \* history: grants whose revocation was answered with success

accessVars == <<now, grant, sess, req, left, raced, answered>>

NoGrantRow == [state |-> "none", exp |-> 0]
NoSessionRow == [state |-> "none", grant |-> NoGrant, exp |-> 0, rev |-> 0]

Ended == {"closed", "expired", "revoked"}       \* is_terminal

\* _LEGAL_TRANSITIONS, as far as a request can ask for the target state.
LegalTransitions ==
    {<<"active", "locked">>, <<"active", "revoked">>, <<"active", "closed">>,
     <<"locked", "closed">>, <<"expired", "closed">>, <<"revoked", "closed">>,
     <<"closed", "closed">>}

Valid(g, t) == g.state = "live" /\ t < g.exp

IdleReq ==
    [pc |-> "idle", s |-> NoSession, to |-> "none", row |-> NoSessionRow,
     g |-> NoGrant, seen |-> NoGrantRow, exp |-> 0, t |-> 0, todo |-> {}, gone |-> {}]

Done(c) == req' = [req EXCEPT ![c] = IdleReq]

\* A caller sends its next request: a record that starts from IdleReq.
Ask(c, r) ==
    /\ req[c].pc = "idle" /\ left > 0
    /\ left' = left - 1
    /\ req' = [req EXCEPT ![c] = r]

-----------------------------------------------------------------------------
(* Grants and activation.                                                  *)

\* issue_helper_grant: one insertion; a grant id is used once.
IssueGrant(c, g, e) ==
    /\ Ask(c, IdleReq)
    /\ grant[g].state = "none" /\ e > now
    /\ grant' = [grant EXCEPT ![g] = [state |-> "live", exp |-> e]]
    /\ UNCHANGED <<now, sess, raced, answered>>

\* phase5_session_activate: the handler reads the grant of a helper session (one
\* it does not find is refused) and hands the copy to a thread.
RequestActivation(c, s, g, e) ==
    /\ g # NoGrant => grant[g].state # "none"
    /\ Ask(c, [IdleReq EXCEPT !.pc = "evaluate", !.s = s, !.g = g, !.exp = e,
                              !.seen = IF g = NoGrant THEN NoGrantRow ELSE grant[g]])
    /\ UNCHANGED <<now, grant, sess, raced, answered>>

\* Mutant: the state of the grant is not looked at.
MutMayActivate(r) ==
    /\ now < r.exp /\ r.exp <= now + MaxLife
    /\ r.g # NoGrant => r.exp <= r.seen.exp

\* evaluate_activation_request: the life asked for, and the grant as it was read.
MayActivate(r) ==
    /\ now < r.exp /\ r.exp <= now + MaxLife
    /\ r.g # NoGrant => Valid(r.seen, now) /\ r.exp <= r.seen.exp

Evaluate(c) ==
    /\ req[c].pc = "evaluate"
    /\ IF MayActivate(req[c]) THEN req' = [req EXCEPT ![c].pc = "save"] ELSE Done(c)
    /\ UNCHANGED <<now, grant, sess, left, raced, answered>>

\* save_session without an expected revision: a row of that id, whatever its
\* state, is made active again if it was bound to the same grant.
SaveActivated(c) ==
    LET r == req[c]
        old == sess[r.s]
    IN  /\ r.pc = "save"
        /\ sess' = IF old.state = "none" \/ old.grant = r.g
                   THEN [sess EXCEPT ![r.s] = [state |-> "active", grant |-> r.g,
                                               exp |-> r.exp, rev |-> old.rev + 1]]
                   ELSE sess
        /\ Done(c)
        /\ UNCHANGED <<now, grant, left, raced, answered>>

-----------------------------------------------------------------------------
(* Transitions: close, lock, revoke.                                       *)

RequestTransition(c, s, to) ==
    /\ Ask(c, [IdleReq EXCEPT !.pc = "read", !.s = s, !.to = to])
    /\ UNCHANGED <<now, grant, sess, raced, answered>>

\* A transition made for its own sake ends its request; one made by
\* revoke_helper_access goes on with the next dependent session.
After(r) == IF r.g = NoGrant THEN IdleReq
            ELSE [r EXCEPT !.pc = "each", !.s = NoSession, !.row = NoSessionRow]

\* transition_session: get_session ...
ReadSession(c) ==
    /\ req[c].pc = "read"
    /\ LET r == req[c] IN
       req' = [req EXCEPT ![c] = IF sess[r.s].state = "none" THEN After(r)
                                 ELSE [r EXCEPT !.pc = "revision", !.row = sess[r.s]]]
    /\ UNCHANGED <<now, grant, sess, left, raced, answered>>

\* ... then get_revision, in another transaction, and the decision on the copy ...
ReadRevision(c) ==
    /\ req[c].pc = "revision"
    /\ LET r == req[c] IN
       req' = [req EXCEPT ![c] = IF <<r.row.state, r.to>> \in LegalTransitions
                                 THEN [r EXCEPT !.pc = "swap", !.row.rev = sess[r.s].rev]
                                 ELSE After(r)]
    /\ UNCHANGED <<now, grant, sess, left, raced, answered>>

\* ... then save_session with the revision read: the whole row is written from
\* the copy; StaleRevisionError ends the request, whatever it had left to do.
Swap(c) ==
    LET r == req[c] IN
    /\ r.pc = "swap"
    /\ \/ /\ sess[r.s].rev = r.row.rev
          /\ sess' = [sess EXCEPT ![r.s] = [r.row EXCEPT !.state = r.to, !.rev = @ + 1]]
          /\ req' = [req EXCEPT ![c] = After(r)]
       \/ /\ sess[r.s].rev # r.row.rev
          /\ Done(c)
          /\ UNCHANGED sess
    /\ UNCHANGED <<now, grant, left, raced, answered>>

-----------------------------------------------------------------------------
(* revoke_helper_access.                                                   *)

\* Activations under way with a copy of grant g in which it was not revoked.
InFlight(g) ==
    {req[c].s : c \in {d \in Callers : /\ req[d].pc \in {"evaluate", "save"}
                                       /\ req[d].g = g /\ req[d].seen.state = "live"}}

\* The grant is revoked first (again, if it was); one not found is refused.
RequestRevocation(c, g) ==
    /\ grant[g].state # "none"
    /\ Ask(c, [IdleReq EXCEPT !.pc = "list", !.g = g, !.to = "revoked"])
    /\ grant' = [grant EXCEPT ![g].state = "revoked"]
    /\ raced' = [raced EXCEPT ![g] = @ \cup InFlight(g)]
    /\ UNCHANGED <<now, sess, answered>>

\* list_owner_sessions: one look at the sessions bound to the grant.
ListDependents(c) ==
    /\ req[c].pc = "list"
    /\ req' = [req EXCEPT ![c].pc = "each",
                          ![c].todo = {s \in Sessions : /\ sess[s].grant = req[c].g
                                                        /\ sess[s].state \notin Ended}]
    /\ UNCHANGED <<now, grant, sess, left, raced, answered>>

NextDependent(c) ==
    /\ req[c].pc = "each"
    /\ \E s \in req[c].todo :
          req' = [req EXCEPT ![c].pc = "read", ![c].s = s, ![c].todo = @ \ {s}]
    /\ UNCHANGED <<now, grant, sess, left, raced, answered>>

AnswerRevocation(c) ==
    /\ req[c].pc = "each" /\ req[c].todo = {}
    /\ answered' = answered \cup {req[c].g}
    /\ Done(c)
    /\ UNCHANGED <<now, grant, sess, left, raced>>

-----------------------------------------------------------------------------
(* authorize, for a helper.                                                *)

\* The instant of the request is fixed here for all that follows.
RequestUse(c) ==
    /\ Ask(c, [IdleReq EXCEPT !.pc = "load", !.t = now,
                   !.gone = {g \in Grants : grant[g].state = "revoked"}])
    /\ UNCHANGED <<now, grant, sess, raced, answered>>

\* get_active_session_for_actor.
LoadSession(c) ==
    LET usable == {s \in Sessions : /\ sess[s].state = "active"
                                    /\ sess[s].grant # NoGrant
                                    /\ req[c].t < sess[s].exp}
    IN  /\ req[c].pc = "load"
        /\ IF usable = {} THEN Done(c)
           ELSE \E s \in usable : req' = [req EXCEPT ![c].pc = "guard", ![c].s = s,
                                                     ![c].row = sess[s]]
        /\ UNCHANGED <<now, grant, sess, left, raced, answered>>

\* Mutant: the session is trusted for the grant it was activated with.
MutGuardUse(c) ==
    /\ req[c].pc = "guard"
    /\ req' = [req EXCEPT ![c].pc = "policy"]
    /\ UNCHANGED <<now, grant, sess, left, raced, answered>>

\* _validate_helper_grant: the grant as it is now, at the instant of the request.
GuardUse(c) ==
    /\ req[c].pc = "guard"
    /\ IF Valid(grant[req[c].row.grant], req[c].t)
       THEN req' = [req EXCEPT ![c].pc = "policy"] ELSE Done(c)
    /\ UNCHANGED <<now, grant, sess, left, raced, answered>>

\* evaluate_phase5_request: any valid grant of the helper will do here.
PolicyAllows(c) ==
    /\ req[c].pc = "policy"
    /\ IF \E g \in Grants : Valid(grant[g], req[c].t)
       THEN req' = [req EXCEPT ![c].pc = "allowed"] ELSE Done(c)
    /\ UNCHANGED <<now, grant, sess, left, raced, answered>>

AnswerUse(c) ==
    /\ req[c].pc = "allowed"
    /\ Done(c)
    /\ UNCHANGED <<now, grant, sess, left, raced, answered>>

-----------------------------------------------------------------------------
Tick ==
    /\ now < MaxTime
    /\ now' = now + 1
    /\ UNCHANGED <<grant, sess, req, left, raced, answered>>

\* expire_due_sessions: one transaction.
ExpireDue ==
    LET due == {s \in Sessions : sess[s].state = "active" /\ sess[s].exp <= now}
    IN  /\ due # {}
        /\ sess' = [s \in Sessions |-> IF s \in due
                       THEN [sess[s] EXCEPT !.state = "expired", !.rev = @ + 1]
                       ELSE sess[s]]
        /\ UNCHANGED <<now, grant, req, left, raced, answered>>

\* The process ends: requests are lost where they stand, the files stay.
Restart ==
    /\ \E c \in Callers : req[c].pc # "idle"
    /\ req' = [c \in Callers |-> IdleReq]
    /\ UNCHANGED <<now, grant, sess, left, raced, answered>>

Init ==
    /\ now = 0
    /\ grant = [g \in Grants |-> NoGrantRow]
    /\ sess = [s \in Sessions |-> NoSessionRow]
    /\ req = [c \in Callers |-> IdleReq]
    /\ left = MaxRequests
    /\ raced = [g \in Grants |-> {}]
    /\ answered = {}

Send(c) ==
    \/ \E g \in Grants, e \in 1 .. MaxTime : IssueGrant(c, g, e)
    \/ \E s \in Sessions, g \in Grants \cup {NoGrant}, e \in 1 .. MaxTime :
          RequestActivation(c, s, g, e)
    \/ \E s \in Sessions, to \in {"closed", "locked", "revoked"} :
          RequestTransition(c, s, to)
    \/ \E g \in Grants : RequestRevocation(c, g)
    \/ RequestUse(c)

Serve(c) ==
    \/ Evaluate(c) \/ SaveActivated(c)
    \/ ReadSession(c) \/ ReadRevision(c) \/ Swap(c)
    \/ ListDependents(c) \/ NextDependent(c) \/ AnswerRevocation(c)
    \/ LoadSession(c) \/ GuardUse(c) \/ PolicyAllows(c) \/ AnswerUse(c)

Next == \/ \E c \in Callers : Send(c) \/ Serve(c)
        \/ Tick \/ ExpireDue \/ Restart

Spec == Init /\ [][Next]_accessVars
=============================================================================
