---------------------- MODULE AccessSessionsProperties ----------------------
(* What access sessions and helper grants promise. *)
EXTENDS AccessSessions

SessionStates == {"none", "active", "locked", "closed", "expired", "revoked"}

GrantRows == [state : {"none", "live", "revoked"}, exp : Nat]
SessionRows ==
    [state : SessionStates, grant : Grants \cup {NoGrant}, exp : Nat, rev : Nat]

RequestPcs ==
    {"idle", "evaluate", "save", "read", "revision", "swap", "list", "each",
     "load", "guard", "policy", "allowed"}

Requests ==
    [pc : RequestPcs, s : Sessions \cup {NoSession},
     to : {"none", "closed", "locked", "revoked"}, row : SessionRows,
     g : Grants \cup {NoGrant}, seen : GrantRows, exp : Nat, t : Nat,
     todo : SUBSET Sessions, gone : SUBSET Grants]

\* Type correctness of the stores and of every request in hand.
TypeOK ==
    /\ now \in Nat
    /\ grant \in [Grants -> GrantRows]
    /\ sess \in [Sessions -> SessionRows]
    /\ req \in [Callers -> Requests]
    /\ left \in Nat
    /\ raced \in [Grants -> SUBSET Sessions]
    /\ answered \in SUBSET Grants

\* Once the revocation of a grant was answered with success, no session bound to
\* it is active, except one whose activation had read the grant before it was
\* revoked: whatever other requests lock, close, revoke or activate meanwhile,
\* whatever revisions go stale (revoke_helper_access).
AnsweredRevocationHolds ==
    \A g \in answered, s \in Sessions :
        sess[s].state = "active" /\ sess[s].grant = g => s \in raced[g]

\* A session left active by that race is worth nothing: a use is allowed only on
\* a session whose grant was not yet revoked when the use was asked for, and at
\* an instant both were still valid (Phase5RuntimeGuard.authorize).
UseIsCovered ==
    \A c \in Callers : req[c].pc = "allowed" =>
        /\ req[c].row.grant \notin req[c].gone
        /\ req[c].t < req[c].row.exp /\ req[c].t < grant[req[c].row.grant].exp

\* docs/PHASE_5_SESSION_LIFECYCLE.md: a revoked session can only be closed, or
\* activated anew: no request computed from an older copy of it undoes that.
RevokedIsLeftByRequest ==
    [][\A s \in Sessions : sess[s].state = "revoked" =>
          sess'[s].state \in {"revoked", "closed", "active"}]_accessVars
=============================================================================
