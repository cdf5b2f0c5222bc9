------------------------ MODULE AccessSessionsProofs ------------------------
(***************************************************************************)
(* Proofs about access sessions, for every number of callers, sessions and *)
(* grants and every value of the bounds: types, that an answered           *)
(* revocation holds, and that every use is covered by its grant.           *)
(*                                                                         *)
(* Neither property is inductive: both need to know what a request in hand *)
(* may still do.  ReqOK says it of one request, given the grants G, the    *)
(* sessions S and the races R; Kept says which changes of those three keep *)
(* it true of every request a step leaves alone.                           *)
(***************************************************************************)
EXTENDS AccessSessionsProperties, TLAPS

Revoking == {"list", "each", "read", "revision", "swap"}

\* A session that is active on grant g, and not because its activation had read
\* the grant before it was revoked.
Standing(s, g, S, R) == S[s].state = "active" /\ S[s].grant = g /\ s \notin R[g]

\* Which fields a request has at hand.
Shaped(r) ==
    /\ r.pc \in {"evaluate", "save", "read", "revision", "swap"} => r.s \in Sessions
    /\ r.pc \in {"list", "each"} => r.g \in Grants

\* An activation that goes on from a copy of a grant revoked since is a race.
CopyOK(r, G, R) ==
    r.pc \in {"evaluate", "save"} /\ r.g \in Grants =>
        /\ r.pc = "save" => r.seen.state = "live"
        /\ r.seen.state = "live" /\ G[r.g].state = "revoked" => r.s \in R[r.g]

\* A revocation under way has every session that stands on its grant still ahead.
AheadOK(r, G, S, R) ==
    r.pc \in Revoking /\ r.g \in Grants =>
        /\ G[r.g].state = "revoked" /\ r.to = "revoked"
        /\ \A s \in Sessions : Standing(s, r.g, S, R) =>
              \/ r.pc = "list"
              \/ s \in r.todo
              \/ s = r.s /\ r.pc \in {"read", "swap"}
              \/ s = r.s /\ r.pc = "revision" /\ r.row.state = "active"

\* A use knows which grants were revoked when it was asked for.
UseOK(r, G) ==
    /\ r.pc \in {"load", "guard", "policy", "allowed"} =>
          \A g \in r.gone : G[g].state = "revoked"
    /\ r.pc \in {"guard", "policy", "allowed"} => r.row.grant \in Grants /\ r.t < r.row.exp
    /\ r.pc \in {"policy", "allowed"} =>
          /\ r.row.grant \notin r.gone
          /\ G[r.row.grant].state # "none" /\ r.t < G[r.row.grant].exp

ReqOK(r, G, S, R) == CopyOK(r, G, R) /\ AheadOK(r, G, S, R) /\ UseOK(r, G)

ShapesOK == \A c \in Callers : Shaped(req[c])

RequestsOK == \A c \in Callers : ReqOK(req[c], grant, sess, raced)

AnsweredIsRevoked == \A g \in answered : grant[g].state = "revoked"

TypeInv == TypeOK /\ ShapesOK

Inv == TypeInv /\ RequestsOK /\ AnsweredIsRevoked /\ AnsweredRevocationHolds

\* Grants are used once and stay revoked, races are not forgotten, and no session
\* comes to stand on a revoked grant.
Kept(G, S, R, G2, S2, R2) ==
    /\ \A g \in Grants :
          /\ G[g].state = "revoked" => G2[g].state = "revoked"
          /\ G[g].state # "none" => G2[g].state # "none" /\ G2[g].exp = G[g].exp
          /\ R[g] \subseteq R2[g]
    /\ \A g \in Grants, s \in Sessions :
          G[g].state = "revoked" /\ Standing(s, g, S2, R2) => Standing(s, g, S, R)

\* A grant that a step revokes has r, if it goes on from it, among its races.
Covered(r, G, G2, R2) ==
    /\ r.pc \in {"evaluate", "save"} /\ r.g \in Grants /\ r.seen.state = "live"
    /\ G[r.g].state # "revoked" /\ G2[r.g].state = "revoked"
    => r.s \in R2[r.g]

-----------------------------------------------------------------------------
(* Types.                                                                  *)

LEMMA RowTypes == NoSessionRow \in SessionRows /\ NoGrantRow \in GrantRows
  BY DEF NoSessionRow, NoGrantRow, SessionRows, GrantRows, SessionStates

\* A row with another state and the next revision is a row.
LEMMA MovedRow ==
  ASSUME NEW row \in SessionRows, NEW to \in SessionStates
  PROVE  [row EXCEPT !.state = to, !.rev = @ + 1] \in SessionRows
  <1>1. [row EXCEPT !.state = to] \in SessionRows BY DEF SessionRows
  <1>2. row.rev + 1 \in Nat BY DEF SessionRows
  <1>3. [[row EXCEPT !.state = to] EXCEPT !.rev = row.rev + 1] \in SessionRows
    BY <1>1, <1>2 DEF SessionRows
  <1> QED BY <1>3

LEMMA IdleType == IdleReq \in Requests /\ Shaped(IdleReq)
  BY RowTypes DEF IdleReq, Requests, RequestPcs, Shaped

\* The initial stores are well typed.
LEMMA InitType == Init => TypeInv
  BY AccessBounds, RowTypes, IdleType DEF Init, TypeInv, TypeOK, ShapesOK, AccessBounds

\* A step that files a well-formed request and keeps the stores well typed.
LEMMA StepType ==
  ASSUME TypeInv, NEW c \in Callers, NEW r \in Requests, Shaped(r),
         req' = [req EXCEPT ![c] = r],
         now' \in Nat, left' \in Nat, grant' \in [Grants -> GrantRows],
         sess' \in [Sessions -> SessionRows], raced' \in [Grants -> SUBSET Sessions],
         answered' \in SUBSET Grants
  PROVE  TypeInv'
  <1>1. TypeOK' BY DEF TypeInv, TypeOK
  <1>2. \A d \in Callers : req'[d] = IF d = c THEN r ELSE req[d] BY DEF TypeInv, TypeOK
  <1> QED BY <1>1, <1>2 DEF TypeInv, ShapesOK, Shaped

\* The parts of the type invariant that a step may use.
LEMMA Parts ==
  ASSUME TypeInv
  PROVE  /\ now \in Nat /\ left \in Nat /\ grant \in [Grants -> GrantRows]
         /\ sess \in [Sessions -> SessionRows] /\ raced \in [Grants -> SUBSET Sessions]
         /\ answered \in SUBSET Grants
         /\ \A c \in Callers : req[c] \in Requests /\ Shaped(req[c])
  BY DEF TypeInv, TypeOK, ShapesOK

\* Asking spends a request.
LEMMA AskLeft ==
  ASSUME TypeInv, NEW c \in Callers, NEW r, Ask(c, r)
  PROVE  left' \in Nat /\ req' = [req EXCEPT ![c] = r]
  BY DEF TypeInv, TypeOK, Ask

\* Every request a caller sends is well formed.
LEMMA SendType ==
  ASSUME TypeInv, NEW c \in Callers, Send(c) PROVE TypeInv'
  <1> USE Parts
  <1>1. ASSUME NEW g \in Grants, NEW e \in 1 .. MaxTime, IssueGrant(c, g, e) PROVE TypeInv'
    <2>1. e \in Nat BY AccessBounds DEF AccessBounds
    <2>2. grant' \in [Grants -> GrantRows] BY <1>1, <2>1 DEF IssueGrant, GrantRows
    <2> QED BY <1>1, <2>2, AskLeft, IdleType, StepType DEF IssueGrant
  <1>2. ASSUME NEW s \in Sessions, NEW g \in Grants \cup {NoGrant}, NEW e \in 1 .. MaxTime,
               RequestActivation(c, s, g, e)
        PROVE  TypeInv'
    <2> DEFINE copy == IF g = NoGrant THEN NoGrantRow ELSE grant[g]
               r == [IdleReq EXCEPT !.pc = "evaluate", !.s = s, !.g = g, !.exp = e, !.seen = copy]
    <2>1. copy \in GrantRows /\ e \in Nat BY RowTypes, AccessBounds DEF AccessBounds
    <2>2. r \in Requests /\ Shaped(r) BY <2>1, IdleType DEF Requests, RequestPcs, Shaped
    <2>3. Ask(c, r) BY <1>2 DEF RequestActivation
    <2> QED BY <1>2, <2>2, <2>3, AskLeft, StepType DEF RequestActivation
  <1>3. ASSUME NEW s \in Sessions, NEW to \in {"closed", "locked", "revoked"},
               RequestTransition(c, s, to)
        PROVE  TypeInv'
    <2> DEFINE r == [IdleReq EXCEPT !.pc = "read", !.s = s, !.to = to]
    <2>1. r \in Requests /\ Shaped(r) BY IdleType DEF Requests, RequestPcs, Shaped
    <2>2. Ask(c, r) BY <1>3 DEF RequestTransition
    <2> QED BY <1>3, <2>1, <2>2, AskLeft, StepType DEF RequestTransition
  <1>4. ASSUME NEW g \in Grants, RequestRevocation(c, g) PROVE TypeInv'
    <2> DEFINE r == [IdleReq EXCEPT !.pc = "list", !.g = g, !.to = "revoked"]
    <2>1. r \in Requests /\ Shaped(r) BY IdleType DEF Requests, RequestPcs, Shaped
    <2>2. Ask(c, r) BY <1>4 DEF RequestRevocation
    <2>3. grant' \in [Grants -> GrantRows] BY <1>4 DEF RequestRevocation, GrantRows
    <2>4. InFlight(g) \subseteq Sessions BY DEF InFlight, Shaped
    <2>5. raced' \in [Grants -> SUBSET Sessions] BY <1>4, <2>4 DEF RequestRevocation
    <2> QED BY <1>4, <2>1, <2>2, <2>3, <2>5, AskLeft, StepType DEF RequestRevocation
  <1>5. ASSUME RequestUse(c) PROVE TypeInv'
    <2> DEFINE r == [IdleReq EXCEPT !.pc = "load", !.t = now,
                                    !.gone = {g \in Grants : grant[g].state = "revoked"}]
    <2>2. r \in Requests /\ Shaped(r) BY IdleType DEF Requests, RequestPcs, Shaped
    <2>3. Ask(c, r) BY <1>5 DEF RequestUse
    <2> QED BY <1>5, <2>2, <2>3, AskLeft, StepType DEF RequestUse
  <1> QED BY <1>1, <1>2, <1>3, <1>4, <1>5 DEF Send

\* A transition that is over leaves a well-formed request.
LEMMA AfterType ==
  \A r \in Requests : After(r) \in Requests /\ Shaped(After(r))
  BY IdleType, RowTypes DEF After, Requests, RequestPcs, Shaped

\* Every step of serving a request keeps it and the stores well formed.
LEMMA ServeType ==
  ASSUME TypeInv, NEW c \in Callers, Serve(c) PROVE TypeInv'
  <1> USE Parts
  <1> DEFINE r == req[c]
  <1>0. r \in Requests /\ Shaped(r) OBVIOUS
  <1> HIDE DEF r
  <1>1. ASSUME req' = [req EXCEPT ![c] = [r EXCEPT !.pc = "save"]], Evaluate(c) PROVE TypeInv'
    <2> DEFINE q == [r EXCEPT !.pc = "save"]
    <2>1. q \in Requests /\ Shaped(q) BY <1>0, <1>1 DEF Requests, RequestPcs, Shaped, Evaluate, r
    <2> QED BY <1>1, <2>1, StepType DEF Evaluate
  <1>2. ASSUME Done(c), UNCHANGED <<now, left, raced>>, grant' = grant,
               sess' \in [Sessions -> SessionRows], answered' \in SUBSET Grants
        PROVE  TypeInv'
    BY <1>2, IdleType, StepType DEF Done
  <1>3. ASSUME SaveActivated(c) PROVE TypeInv'
    <2>1. sess[r.s] \in SessionRows /\ r.s \in Sessions
      BY <1>0, <1>3 DEF SaveActivated, Shaped, r
    <2>2. [state |-> "active", grant |-> r.g, exp |-> r.exp, rev |-> sess[r.s].rev + 1]
          \in SessionRows
      BY <1>0, <2>1 DEF SessionRows, SessionStates, Requests
    <2>3. sess' \in [Sessions -> SessionRows] BY <1>3, <2>1, <2>2 DEF SaveActivated, r
    <2> QED BY <1>2, <1>3, <2>3 DEF SaveActivated
  <1>4. ASSUME Evaluate(c) PROVE TypeInv'
    BY <1>1, <1>2, <1>4 DEF Evaluate, r
  <1>5. ASSUME ReadSession(c) PROVE TypeInv'
    <2> DEFINE q == [r EXCEPT !.pc = "revision", !.row = sess[r.s]]
    <2>1. r.s \in Sessions BY <1>0, <1>5 DEF ReadSession, Shaped, r
    <2>2. q \in Requests /\ Shaped(q) BY <1>0, <2>1 DEF Requests, RequestPcs, Shaped
    <2> QED BY <1>0, <1>5, <2>2, AfterType, StepType DEF ReadSession, r
  <1>6. ASSUME ReadRevision(c) PROVE TypeInv'
    <2> DEFINE q == [r EXCEPT !.pc = "swap", !.row.rev = sess[r.s].rev]
    <2>1. r.s \in Sessions BY <1>0, <1>6 DEF ReadRevision, Shaped, r
    <2>2. sess[r.s].rev \in Nat /\ r.row \in SessionRows
      BY <1>0, <2>1 DEF SessionRows, Requests
    <2>3. [r.row EXCEPT !.rev = sess[r.s].rev] \in SessionRows BY <2>2 DEF SessionRows
    <2>4. q = [r EXCEPT !.pc = "swap", !.row = [r.row EXCEPT !.rev = sess[r.s].rev]]
      BY <1>0 DEF Requests
    <2>5. q \in Requests /\ Shaped(q) BY <1>0, <2>1, <2>3, <2>4 DEF Requests, RequestPcs, Shaped
    <2> QED BY <1>0, <1>6, <2>5, AfterType, StepType DEF ReadRevision, r
  <1>7. ASSUME Swap(c) PROVE TypeInv'
    <2>1. r.s \in Sessions /\ r.to \in {"none", "closed", "locked", "revoked"}
          /\ r.row \in SessionRows
      BY <1>0, <1>7 DEF Swap, Shaped, Requests, r
    <2>2. [r.row EXCEPT !.state = r.to, !.rev = @ + 1] \in SessionRows
      BY <2>1, MovedRow DEF SessionStates
    <2>3. sess' \in [Sessions -> SessionRows] BY <1>7, <2>1, <2>2 DEF Swap, r
    <2>4. CASE Done(c) BY <1>2, <1>7, <2>3, <2>4 DEF Swap
    <2>5. CASE req' = [req EXCEPT ![c] = After(r)]
      BY <1>0, <1>7, <2>3, <2>5, AfterType, StepType DEF Swap
    <2> QED BY <1>7, <2>4, <2>5 DEF Swap, r
  <1>8. ASSUME ListDependents(c) PROVE TypeInv'
    <2> DEFINE deps == {s \in Sessions : sess[s].grant = r.g /\ sess[s].state \notin Ended}
               q == [r EXCEPT !.pc = "each", !.todo = deps]
    <2>1. q \in Requests /\ Shaped(q)
      BY <1>0, <1>8 DEF ListDependents, Requests, RequestPcs, Shaped, r
    <2>2. req' = [req EXCEPT ![c] = q]
      BY <1>8 DEF ListDependents, r, TypeInv, TypeOK
    <2> QED BY <1>8, <2>1, <2>2, StepType DEF ListDependents
  <1>9. ASSUME NextDependent(c) PROVE TypeInv'
    <2>1. PICK s \in r.todo :
             req' = [req EXCEPT ![c] = [r EXCEPT !.pc = "read", !.s = s, !.todo = @ \ {s}]]
      BY <1>9 DEF NextDependent, r, TypeInv, TypeOK
    <2> DEFINE q == [r EXCEPT !.pc = "read", !.s = s, !.todo = @ \ {s}]
    <2>2. s \in Sessions BY <1>0 DEF Requests
    <2>3. q \in Requests /\ Shaped(q)
      BY <1>0, <2>2 DEF Requests, RequestPcs, Shaped
    <2> QED BY <1>9, <2>1, <2>3, StepType DEF NextDependent
  <1>10. ASSUME AnswerRevocation(c) PROVE TypeInv'
    BY <1>0, <1>2, <1>10 DEF AnswerRevocation, Shaped, r
  <1>11. ASSUME LoadSession(c) PROVE TypeInv'
    <2>1. CASE Done(c) BY <1>2, <1>11, <2>1 DEF LoadSession
    <2>2. ASSUME NEW s \in Sessions,
                 req' = [req EXCEPT ![c].pc = "guard", ![c].s = s, ![c].row = sess[s]]
          PROVE  TypeInv'
      <3> DEFINE q == [r EXCEPT !.pc = "guard", !.s = s, !.row = sess[s]]
      <3>1. q \in Requests /\ Shaped(q) BY <1>0 DEF Requests, RequestPcs, Shaped
      <3>2. req' = [req EXCEPT ![c] = q] BY <2>2 DEF r, TypeInv, TypeOK
      <3> QED BY <1>11, <3>1, <3>2, StepType DEF LoadSession
    <2> QED BY <1>11, <2>1, <2>2 DEF LoadSession
  <1>12. ASSUME NEW pc \in {"policy", "allowed"}, req' = [req EXCEPT ![c].pc = pc],
                UNCHANGED <<now, grant, sess, left, raced, answered>>
         PROVE  TypeInv'
    <2> DEFINE q == [r EXCEPT !.pc = pc]
    <2>1. q \in Requests /\ Shaped(q) BY <1>0 DEF Requests, RequestPcs, Shaped
    <2>2. req' = [req EXCEPT ![c] = q] BY <1>12 DEF r, TypeInv, TypeOK
    <2> QED BY <1>12, <2>1, <2>2, StepType
  <1>13. ASSUME GuardUse(c) \/ PolicyAllows(c) PROVE TypeInv'
    BY <1>2, <1>12, <1>13 DEF GuardUse, PolicyAllows
  <1>14. ASSUME AnswerUse(c) PROVE TypeInv'
    BY <1>2, <1>14 DEF AnswerUse
  <1> QED
    BY <1>3, <1>4, <1>5, <1>6, <1>7, <1>8, <1>9, <1>10, <1>11, <1>13, <1>14 DEF Serve

\* So does whatever happens without a request.
LEMMA OtherType ==
  ASSUME TypeInv, Tick \/ ExpireDue \/ Restart PROVE TypeInv'
  <1> USE Parts
  <1>1. CASE Tick BY <1>1 DEF Tick, TypeInv, TypeOK, ShapesOK, Shaped
  <1>2. CASE ExpireDue
    <2>1. \A s \in Sessions : sess[s] \in SessionRows
              /\ [sess[s] EXCEPT !.state = "expired", !.rev = @ + 1] \in SessionRows
      BY MovedRow DEF SessionStates
    <2>2. sess' \in [Sessions -> SessionRows] BY <1>2, <2>1 DEF ExpireDue
    <2> QED BY <1>2, <2>2 DEF ExpireDue, TypeInv, TypeOK, ShapesOK, Shaped
  <1>3. CASE Restart
    BY <1>3, IdleType DEF Restart, TypeInv, TypeOK, ShapesOK, Shaped
  <1> QED BY <1>1, <1>2, <1>3

\* The type invariant is kept by every step.
LEMMA NextType == TypeInv /\ [Next]_accessVars => TypeInv'
  <1> SUFFICES ASSUME TypeInv, [Next]_accessVars PROVE TypeInv'
    OBVIOUS
  <1>1. CASE UNCHANGED accessVars
    BY <1>1 DEF accessVars, TypeInv, TypeOK, ShapesOK, Shaped
  <1> QED BY <1>1, SendType, ServeType, OtherType DEF Next

\* The stores and the requests in hand keep their types (TypeOK), for every number
\* of callers, sessions and grants.
THEOREM TypeCorrect == Spec => []TypeOK
  <1>1. TypeInv => TypeOK BY DEF TypeInv
  <1> QED BY InitType, NextType, <1>1, PTL DEF Spec

-----------------------------------------------------------------------------
(* Safety.                                                                 *)

\* A request a step leaves alone stays what it has to be.
LEMMA KeptOK ==
  ASSUME NEW r \in Requests, Shaped(r),
         NEW G \in [Grants -> GrantRows], NEW S \in [Sessions -> SessionRows],
         NEW R \in [Grants -> SUBSET Sessions], NEW G2 \in [Grants -> GrantRows],
         NEW S2 \in [Sessions -> SessionRows], NEW R2 \in [Grants -> SUBSET Sessions],
         ReqOK(r, G, S, R), Kept(G, S, R, G2, S2, R2), Covered(r, G, G2, R2)
  PROVE  ReqOK(r, G2, S2, R2)
  <1>1. CopyOK(r, G2, R2) BY DEF ReqOK, CopyOK, Kept, Covered
  <1>2. AheadOK(r, G2, S2, R2) BY DEF ReqOK, AheadOK, Kept
  <1>3. UseOK(r, G2)
    <2>1. r.gone \subseteq Grants BY DEF Requests
    <2> QED BY <2>1 DEF ReqOK, UseOK, Kept
  <1> QED BY <1>1, <1>2, <1>3 DEF ReqOK

\* A step by which one caller's request becomes q.
LEMMA SafeStep ==
  ASSUME Inv, TypeInv', NEW c \in Callers, NEW q, req' = [req EXCEPT ![c] = q],
         ReqOK(q, grant', sess', raced'),
         Kept(grant, sess, raced, grant', sess', raced'),
         \A d \in Callers \ {c} : Covered(req[d], grant, grant', raced'),
         \A g \in answered' \ answered :
            grant'[g].state = "revoked" /\ \A s \in Sessions : ~Standing(s, g, sess', raced')
  PROVE  Inv'
  <1>1. /\ grant \in [Grants -> GrantRows] /\ grant' \in [Grants -> GrantRows]
        /\ sess \in [Sessions -> SessionRows] /\ sess' \in [Sessions -> SessionRows]
        /\ raced \in [Grants -> SUBSET Sessions] /\ raced' \in [Grants -> SUBSET Sessions]
        /\ answered \in SUBSET Grants
    BY Parts DEF Inv, TypeInv, TypeOK
  <1>2. ASSUME NEW d \in Callers PROVE ReqOK(req'[d], grant', sess', raced')
    <2>1. CASE d = c
      <3>1. req'[d] = q BY <2>1 DEF Inv, TypeInv, TypeOK
      <3> QED BY <3>1
    <2>2. CASE d # c
      <3>1. req'[d] = req[d] BY <2>2 DEF Inv, TypeInv, TypeOK
      <3>2. req[d] \in Requests /\ Shaped(req[d]) BY Parts DEF Inv
      <3>3. ReqOK(req[d], grant, sess, raced) BY DEF Inv, RequestsOK
      <3>4. Covered(req[d], grant, grant', raced') BY <2>2
      <3> QED BY <1>1, <3>1, <3>2, <3>3, <3>4, KeptOK
    <2> QED BY <2>1, <2>2
  <1>3. \A g \in answered' : grant'[g].state = "revoked"
    BY <1>1 DEF Inv, AnsweredIsRevoked, Kept
  <1>4. ASSUME NEW g \in answered', NEW s \in Sessions PROVE ~Standing(s, g, sess', raced')
    <2>1. CASE g \in answered
      <3>1. ~Standing(s, g, sess, raced)
        BY <2>1 DEF Inv, AnsweredRevocationHolds, Standing
      <3>2. grant[g].state = "revoked" /\ g \in Grants
        BY <1>1, <2>1 DEF Inv, AnsweredIsRevoked
      <3> QED BY <3>1, <3>2 DEF Kept
    <2> QED BY <2>1
  <1>5. RequestsOK' BY <1>2 DEF RequestsOK
  <1>6. AnsweredRevocationHolds' BY <1>4 DEF AnsweredRevocationHolds, Standing
  <1> QED BY <1>3, <1>5, <1>6 DEF Inv, AnsweredIsRevoked

\* A step that changes neither grants, sessions nor races keeps all of it, and one
\* that leaves the grants alone revokes none.
LEMMA Unchanged ==
  /\ UNCHANGED <<grant, sess, raced>> => Kept(grant, sess, raced, grant', sess', raced')
  /\ UNCHANGED grant => \A r : Covered(r, grant, grant', raced')
  BY DEF Kept, Covered, Standing

\* A request that is over is no obligation.
LEMMA IdleOK == \A G, S, R : ReqOK(IdleReq, G, S, R)
  BY DEF IdleReq, ReqOK, CopyOK, AheadOK, UseOK, Revoking

\* A step that only takes one request further.
LEMMA QuietStep ==
  ASSUME Inv, TypeInv', NEW c \in Callers, NEW q, req' = [req EXCEPT ![c] = q],
         UNCHANGED <<grant, sess, raced, answered>>, ReqOK(q, grant, sess, raced)
  PROVE  Inv'
  <1>1. ReqOK(q, grant', sess', raced') OBVIOUS
  <1>2. \A g \in answered' \ answered : FALSE OBVIOUS
  <1> QED BY <1>1, <1>2, Unchanged, SafeStep

\* Every request a caller sends.
LEMMA SendSafe ==
  ASSUME Inv, TypeInv', NEW c \in Callers, Send(c) PROVE Inv'
  <1>0. TypeInv /\ req[c].pc = "idle" BY DEF Inv, Send, IssueGrant, RequestActivation,
          RequestTransition, RequestRevocation, RequestUse, Ask
  <1> USE <1>0, Parts
  <1>1. ASSUME NEW g \in Grants, NEW e \in 1 .. MaxTime, IssueGrant(c, g, e) PROVE Inv'
    <2>1. req' = [req EXCEPT ![c] = IdleReq] BY <1>1 DEF IssueGrant, Ask
    <2>2. grant' = [grant EXCEPT ![g] = [state |-> "live", exp |-> e]] /\ grant[g].state = "none"
      BY <1>1 DEF IssueGrant
    <2>3. Kept(grant, sess, raced, grant', sess', raced')
      BY <1>1, <2>2 DEF IssueGrant, Kept, Standing
    <2>4. \A d \in Callers : Covered(req[d], grant, grant', raced')
      BY <2>2 DEF Covered
    <2> QED BY <1>1, <2>1, <2>3, <2>4, IdleOK, SafeStep DEF IssueGrant
  <1>2. ASSUME NEW s \in Sessions, NEW g \in Grants \cup {NoGrant}, NEW e \in 1 .. MaxTime,
               RequestActivation(c, s, g, e)
        PROVE  Inv'
    <2> DEFINE copy == IF g = NoGrant THEN NoGrantRow ELSE grant[g]
               q == [IdleReq EXCEPT !.pc = "evaluate", !.s = s, !.g = g, !.exp = e, !.seen = copy]
    <2>1. req' = [req EXCEPT ![c] = q] BY <1>2 DEF RequestActivation, Ask
    <2>2. q.pc = "evaluate" /\ q.g = g /\ q.seen = copy BY DEF IdleReq
    <2>3. g \in Grants => copy = grant[g] BY AccessNames DEF AccessNames
    <2>4. ReqOK(q, grant, sess, raced)
      BY <2>2, <2>3 DEF ReqOK, CopyOK, AheadOK, UseOK, Revoking
    <2> QED BY <1>2, <2>1, <2>4, QuietStep DEF RequestActivation
  <1>3. ASSUME NEW s \in Sessions, NEW to \in {"closed", "locked", "revoked"},
               RequestTransition(c, s, to)
        PROVE  Inv'
    <2> DEFINE q == [IdleReq EXCEPT !.pc = "read", !.s = s, !.to = to]
    <2>1. req' = [req EXCEPT ![c] = q] BY <1>3 DEF RequestTransition, Ask
    <2>2. q.pc = "read" /\ q.g = NoGrant BY DEF IdleReq
    <2>3. ReqOK(q, grant, sess, raced)
      BY <2>2, AccessNames DEF AccessNames, ReqOK, CopyOK, AheadOK, UseOK
    <2> QED BY <1>3, <2>1, <2>3, QuietStep DEF RequestTransition
  <1>4. ASSUME NEW g \in Grants, RequestRevocation(c, g) PROVE Inv'
    <2> DEFINE q == [IdleReq EXCEPT !.pc = "list", !.g = g, !.to = "revoked"]
    <2>1. req' = [req EXCEPT ![c] = q] BY <1>4 DEF RequestRevocation, Ask
    <2>2. grant' = [grant EXCEPT ![g].state = "revoked"]
          /\ raced' = [raced EXCEPT ![g] = @ \cup InFlight(g)] /\ sess' = sess
          /\ answered' = answered
      BY <1>4 DEF RequestRevocation
    <2>3. grant'[g].state = "revoked" BY <2>2 DEF GrantRows
    <2>4. \A f \in Grants : /\ f # g => grant'[f] = grant[f]
                            /\ grant'[f].exp = grant[f].exp
                            /\ raced[f] \subseteq raced'[f]
      BY <2>2 DEF GrantRows
    <2>5. Kept(grant, sess, raced, grant', sess', raced')
      <3>1. grant[g].state # "none" BY <1>4 DEF RequestRevocation
      <3> QED BY <2>2, <2>3, <2>4, <3>1 DEF Kept, Standing
    <2>6. \A d \in Callers : Covered(req[d], grant, grant', raced')
      <3> SUFFICES ASSUME NEW d \in Callers, req[d].pc \in {"evaluate", "save"},
                          req[d].g \in Grants, req[d].seen.state = "live",
                          grant[req[d].g].state # "revoked",
                          grant'[req[d].g].state = "revoked"
                   PROVE  req[d].s \in raced'[req[d].g]
        BY DEF Covered
      <3>1. req[d].g = g BY <2>4
      <3>2. req[d].s \in InFlight(g) BY <3>1 DEF InFlight
      <3> QED BY <2>2, <3>1, <3>2
    <2>7. q.pc = "list" /\ q.g = g /\ q.to = "revoked" BY DEF IdleReq
    <2>8. ReqOK(q, grant', sess', raced')
      BY <2>3, <2>7 DEF ReqOK, CopyOK, AheadOK, UseOK, Revoking
    <2> QED BY <2>1, <2>2, <2>5, <2>6, <2>8, SafeStep
  <1>5. ASSUME RequestUse(c) PROVE Inv'
    <2> DEFINE q == [IdleReq EXCEPT !.pc = "load", !.t = now,
                                    !.gone = {g \in Grants : grant[g].state = "revoked"}]
    <2>1. req' = [req EXCEPT ![c] = q] BY <1>5 DEF RequestUse, Ask
    <2>2. q.pc = "load" /\ q.gone = {g \in Grants : grant[g].state = "revoked"} BY DEF IdleReq
    <2>3. ReqOK(q, grant, sess, raced)
      BY <2>2 DEF ReqOK, CopyOK, AheadOK, UseOK, Revoking
    <2> QED BY <1>5, <2>1, <2>3, QuietStep DEF RequestUse
  <1> QED BY <1>1, <1>2, <1>3, <1>4, <1>5 DEF Send

\* A revocation goes on after a session that cannot stand any longer.
LEMMA AfterOK ==
  ASSUME NEW r \in Requests, r.pc \in {"read", "revision", "swap"}, NEW G, NEW S, NEW R,
         ReqOK(r, G, S, R), r.g \in Grants /\ Standing(r.s, r.g, S, R) => r.s \in r.todo
  PROVE  ReqOK(After(r), G, S, R)
  <1>1. CASE r.g = NoGrant BY <1>1, IdleOK DEF After
  <1>2. CASE r.g \in Grants /\ r.g # NoGrant
    <2> DEFINE q == [r EXCEPT !.pc = "each", !.s = NoSession, !.row = NoSessionRow]
    <2>1. q = After(r) BY <1>2 DEF After
    <2>2. q.pc = "each" /\ q.g = r.g /\ q.to = r.to /\ q.todo = r.todo BY DEF Requests
    <2>3. AheadOK(q, G, S, R) BY <1>2, <2>2 DEF ReqOK, AheadOK, Revoking
    <2>4. CopyOK(q, G, R) /\ UseOK(q, G) BY <2>2 DEF CopyOK, UseOK
    <2> HIDE DEF q
    <2> QED BY <2>1, <2>3, <2>4 DEF ReqOK
  <1> QED BY <1>1, <1>2 DEF Requests

\* Each step of serving a request.
LEMMA ServeSafe ==
  ASSUME Inv, TypeInv', NEW c \in Callers, Serve(c) PROVE Inv'
  <1>0. TypeInv BY DEF Inv
  <1> USE <1>0, Parts
  <1> DEFINE r == req[c]
  <1>a. r \in Requests /\ Shaped(r) /\ ReqOK(r, grant, sess, raced)
    BY DEF Inv, RequestsOK
  <1>b. \A q : req' = [req EXCEPT ![c] = q] /\ UNCHANGED <<grant, sess, raced, answered>>
                /\ ReqOK(q, grant, sess, raced) => Inv'
    BY QuietStep
  <1>c. ASSUME Done(c), UNCHANGED <<grant, sess, raced, answered>> PROVE Inv'
    BY <1>b, <1>c, IdleOK DEF Done
  <1>d. ASSUME NEW q, req' = [req EXCEPT ![c] = q], UNCHANGED <<grant, raced, answered>>,
               ReqOK(q, grant, sess', raced), Kept(grant, sess, raced, grant, sess', raced)
        PROVE  Inv'
    <2>1. ReqOK(q, grant', sess', raced') /\ Kept(grant, sess, raced, grant', sess', raced')
      BY <1>d
    <2>2. \A d \in Callers : Covered(req[d], grant, grant', raced') BY <1>d, Unchanged
    <2>3. \A g \in answered' \ answered : FALSE BY <1>d
    <2> QED BY <1>d, <2>1, <2>2, <2>3, SafeStep
  <1>e. ASSUME NEW q, req' = [req EXCEPT ![c] = q],
               ReqOK(q, grant, sess, raced), UNCHANGED <<grant, sess, raced, answered>>
        PROVE  Inv'
    BY <1>b, <1>e
  <1> HIDE DEF r
  <1>1. ASSUME Evaluate(c) PROVE Inv'
    <2>1. CASE Done(c) BY <1>c, <1>1, <2>1 DEF Evaluate
    <2>2. CASE MayActivate(r) /\ req' = [req EXCEPT ![c].pc = "save"]
      <3> DEFINE q == [r EXCEPT !.pc = "save"]
      <3>1. req' = [req EXCEPT ![c] = q] BY <1>0, <2>2 DEF r, TypeInv, TypeOK
      <3>2. r.pc = "evaluate" BY <1>1 DEF Evaluate, r
      <3>3. r.g \in Grants => r.seen.state = "live"
        BY <2>2, AccessNames DEF AccessNames, MayActivate, Valid
      <3>4. q.pc = "save" /\ q.g = r.g /\ q.seen = r.seen /\ q.s = r.s BY <1>a DEF Requests
      <3> HIDE DEF q
      <3>5. ReqOK(q, grant, sess, raced)
        BY <1>a, <3>2, <3>3, <3>4 DEF ReqOK, CopyOK, AheadOK, UseOK, Revoking
      <3> QED BY <1>1, <1>e, <3>1, <3>5 DEF Evaluate
    <2> QED BY <1>1, <2>1, <2>2 DEF Evaluate, r
  <1>2. ASSUME SaveActivated(c) PROVE Inv'
    <2>1. r.pc = "save" /\ r.s \in Sessions BY <1>a, <1>2 DEF SaveActivated, Shaped, r
    <2>2. \A s \in Sessions : s # r.s => sess'[s] = sess[s]
      BY <1>2, <2>1 DEF SaveActivated, r
    <2>3. sess' = sess \/ sess'[r.s].grant = r.g
      BY <1>2, <2>1 DEF SaveActivated, r
    <2>4. r.g \in Grants /\ grant[r.g].state = "revoked" => r.s \in raced[r.g]
      BY <1>a, <2>1 DEF ReqOK, CopyOK
    <2>5. Kept(grant, sess, raced, grant, sess', raced)
      BY <2>2, <2>3, <2>4 DEF Kept, Standing
    <2> QED BY <1>2, <1>d, <2>5, IdleOK DEF SaveActivated, Done
  <1>3. ASSUME ReadSession(c) PROVE Inv'
    <2> DEFINE q == [r EXCEPT !.pc = "revision", !.row = sess[r.s]]
    <2>1. r.pc = "read" /\ r.s \in Sessions BY <1>a, <1>3 DEF ReadSession, Shaped, r
    <2>2. CASE sess[r.s].state = "none" /\ req' = [req EXCEPT ![c] = After(r)]
      <3>1. ~Standing(r.s, r.g, sess, raced) BY <2>2 DEF Standing
      <3>2. ReqOK(After(r), grant, sess, raced) BY <1>a, <2>1, <3>1, AfterOK
      <3> QED BY <1>3, <1>e, <2>2, <3>2 DEF ReadSession
    <2>3. CASE req' = [req EXCEPT ![c] = q]
      <3>1. q.pc = "revision" /\ q.g = r.g /\ q.s = r.s /\ q.to = r.to /\ q.todo = r.todo
            /\ q.row = sess[r.s]
        BY <1>a DEF Requests
      <3> HIDE DEF q
      <3>2. AheadOK(q, grant, sess, raced)
        BY <1>a, <2>1, <3>1 DEF ReqOK, AheadOK, Revoking, Standing
      <3>3. ReqOK(q, grant, sess, raced) BY <3>1, <3>2 DEF ReqOK, CopyOK, UseOK
      <3> QED BY <1>3, <1>e, <2>3, <3>3 DEF ReadSession
    <2> QED BY <1>3, <2>2, <2>3 DEF ReadSession, r
  <1>4. ASSUME ReadRevision(c) PROVE Inv'
    <2> DEFINE q == [r EXCEPT !.pc = "swap", !.row.rev = sess[r.s].rev]
    <2>1. r.pc = "revision" /\ r.s \in Sessions BY <1>a, <1>4 DEF ReadRevision, Shaped, r
    <2>2. CASE <<r.row.state, r.to>> \notin LegalTransitions /\ req' = [req EXCEPT ![c] = After(r)]
      <3>1. r.to = "revoked" => r.row.state # "active" BY <2>2 DEF LegalTransitions
      <3>2. r.g \in Grants /\ Standing(r.s, r.g, sess, raced) => r.s \in r.todo
        BY <1>a, <2>1, <3>1 DEF ReqOK, AheadOK, Revoking
      <3>3. ReqOK(After(r), grant, sess, raced) BY <1>a, <2>1, <3>2, AfterOK
      <3> QED BY <1>4, <1>e, <2>2, <3>3 DEF ReadRevision
    <2>3. CASE req' = [req EXCEPT ![c] = q]
      <3>1. q.pc = "swap" /\ q.g = r.g /\ q.s = r.s /\ q.to = r.to /\ q.todo = r.todo
        BY <1>a DEF Requests
      <3> HIDE DEF q
      <3>2. AheadOK(q, grant, sess, raced)
        BY <1>a, <2>1, <3>1 DEF ReqOK, AheadOK, Revoking
      <3>3. ReqOK(q, grant, sess, raced) BY <3>1, <3>2 DEF ReqOK, CopyOK, UseOK
      <3> QED BY <1>4, <1>e, <2>3, <3>3 DEF ReadRevision
    <2> QED BY <1>4, <2>2, <2>3 DEF ReadRevision, r
  <1>5. ASSUME Swap(c) PROVE Inv'
    <2>1. r.pc = "swap" /\ r.s \in Sessions BY <1>a, <1>5 DEF Swap, Shaped, r
    <2>2. CASE Done(c) /\ UNCHANGED sess BY <1>5, <1>c, <2>2 DEF Swap
    <2>3. CASE /\ sess' = [sess EXCEPT ![r.s] = [r.row EXCEPT !.state = r.to, !.rev = @ + 1]]
               /\ req' = [req EXCEPT ![c] = After(r)]
      <3>1. [r.row EXCEPT !.state = r.to, !.rev = @ + 1].state = r.to
        BY <1>a DEF Requests, SessionRows
      <3>2. sess'[r.s].state # "active" BY <1>a, <2>1, <2>3, <3>1 DEF Requests
      <3>3. \A s \in Sessions : s # r.s => sess'[s] = sess[s] BY <2>1, <2>3
      <3>4. Kept(grant, sess, raced, grant, sess', raced) BY <3>2, <3>3 DEF Kept, Standing
      <3>5. ReqOK(r, grant, sess', raced)
        BY <1>a, <3>4, <2>1, KeptOK, Unchanged DEF Covered, TypeInv, TypeOK
      <3>6. ~Standing(r.s, r.g, sess', raced) BY <3>2 DEF Standing
      <3>7. ReqOK(After(r), grant, sess', raced) BY <1>a, <2>1, <3>5, <3>6, AfterOK
      <3> QED BY <1>5, <1>d, <2>3, <3>4, <3>7 DEF Swap
    <2> QED BY <1>5, <2>2, <2>3 DEF Swap, r
  <1>6. ASSUME ListDependents(c) PROVE Inv'
    <2> DEFINE deps == {s \in Sessions : sess[s].grant = r.g /\ sess[s].state \notin Ended}
               q == [r EXCEPT !.pc = "each", !.todo = deps]
    <2>1. req' = [req EXCEPT ![c] = q] /\ r.pc = "list" /\ r.g \in Grants
      BY <1>a, <1>6 DEF ListDependents, Shaped, r, TypeInv, TypeOK
    <2>2. q.pc = "each" /\ q.g = r.g /\ q.to = r.to /\ q.todo = deps BY <1>a DEF Requests
    <2>3. \A s \in Sessions : Standing(s, r.g, sess, raced) => s \in deps
      BY DEF Standing, Ended
    <2> HIDE DEF q, deps
    <2>4. AheadOK(q, grant, sess, raced)
      BY <1>a, <2>1, <2>2, <2>3 DEF ReqOK, AheadOK, Revoking
    <2>5. ReqOK(q, grant, sess, raced) BY <2>2, <2>4 DEF ReqOK, CopyOK, UseOK
    <2> QED BY <1>6, <1>e, <2>1, <2>5 DEF ListDependents
  <1>7. ASSUME NextDependent(c) PROVE Inv'
    <2>1. PICK s \in r.todo :
             req' = [req EXCEPT ![c] = [r EXCEPT !.pc = "read", !.s = s, !.todo = @ \ {s}]]
      BY <1>7 DEF NextDependent, r, TypeInv, TypeOK
    <2> DEFINE q == [r EXCEPT !.pc = "read", !.s = s, !.todo = @ \ {s}]
    <2>2. r.pc = "each" /\ r.g \in Grants BY <1>a, <1>7 DEF NextDependent, Shaped, r
    <2>3. q.pc = "read" /\ q.g = r.g /\ q.to = r.to /\ q.s = s /\ q.todo = r.todo \ {s}
      BY <1>a DEF Requests
    <2> HIDE DEF q
    <2>4. AheadOK(q, grant, sess, raced) BY <1>a, <2>2, <2>3 DEF ReqOK, AheadOK, Revoking
    <2>5. ReqOK(q, grant, sess, raced) BY <2>3, <2>4 DEF ReqOK, CopyOK, UseOK
    <2>6. req' = [req EXCEPT ![c] = q] BY <2>1 DEF q
    <2> QED BY <1>7, <1>e, <2>5, <2>6 DEF NextDependent
  <1>8. ASSUME AnswerRevocation(c) PROVE Inv'
    <2>1. r.pc = "each" /\ r.todo = {} /\ r.g \in Grants /\ answered' = answered \cup {r.g}
          /\ UNCHANGED <<grant, sess, raced>> /\ req' = [req EXCEPT ![c] = IdleReq]
      BY <1>a, <1>8 DEF AnswerRevocation, Shaped, Done, r
    <2>2. grant[r.g].state = "revoked" /\ \A s \in Sessions : ~Standing(s, r.g, sess, raced)
      BY <1>a, <2>1 DEF ReqOK, AheadOK, Revoking
    <2>3. \A g \in answered' \ answered :
             grant'[g].state = "revoked" /\ \A s \in Sessions : ~Standing(s, g, sess', raced')
      BY <2>1, <2>2
    <2>4. \A d \in Callers : Covered(req[d], grant, grant', raced') BY <2>1, Unchanged
    <2> QED BY <2>1, <2>3, <2>4, IdleOK, SafeStep, Unchanged
  <1>9. ASSUME LoadSession(c) PROVE Inv'
    <2>1. CASE Done(c) BY <1>9, <1>c, <2>1 DEF LoadSession
    <2>2. ASSUME NEW s \in Sessions, sess[s].grant # NoGrant, r.t < sess[s].exp,
                 req' = [req EXCEPT ![c].pc = "guard", ![c].s = s, ![c].row = sess[s]]
          PROVE  Inv'
      <3> DEFINE q == [r EXCEPT !.pc = "guard", !.s = s, !.row = sess[s]]
      <3>1. req' = [req EXCEPT ![c] = q] BY <2>2 DEF r, TypeInv, TypeOK
      <3>2. q.pc = "guard" /\ q.row = sess[s] /\ q.t = r.t /\ q.gone = r.gone BY <1>a DEF Requests
      <3>3. sess[s].grant \in Grants BY <2>2 DEF SessionRows
      <3>4. r.pc = "load" BY <1>9 DEF LoadSession, r
      <3> HIDE DEF q
      <3>5. ReqOK(q, grant, sess, raced)
        BY <1>a, <2>2, <3>2, <3>3, <3>4 DEF ReqOK, CopyOK, AheadOK, UseOK, Revoking
      <3> QED BY <1>9, <1>e, <3>1, <3>5 DEF LoadSession
    <2> QED BY <1>9, <2>1, <2>2 DEF LoadSession, r
  <1>10. ASSUME NEW pc \in {"policy", "allowed"}, req' = [req EXCEPT ![c].pc = pc],
                UNCHANGED <<grant, sess, raced, answered>>,
                r.pc \in {"guard", "policy"},
                r.pc = "guard" => Valid(grant[r.row.grant], r.t)
         PROVE  Inv'
    <2> DEFINE q == [r EXCEPT !.pc = pc]
    <2>1. req' = [req EXCEPT ![c] = q] BY <1>10 DEF r, TypeInv, TypeOK
    <2>2. q.pc = pc /\ q.row = r.row /\ q.t = r.t /\ q.gone = r.gone BY <1>a DEF Requests
    <2> HIDE DEF q
    <2>3. UseOK(q, grant) BY <1>a, <1>10, <2>2 DEF ReqOK, UseOK, Valid
    <2>4. ReqOK(q, grant, sess, raced) BY <1>10, <2>2, <2>3 DEF ReqOK, CopyOK, AheadOK, Revoking
    <2> QED BY <1>10, <1>e, <2>1, <2>4
  <1>11. ASSUME GuardUse(c) PROVE Inv' BY <1>11, <1>c, <1>10 DEF GuardUse, r
  <1>12. ASSUME PolicyAllows(c) PROVE Inv' BY <1>12, <1>c, <1>10 DEF PolicyAllows, r
  <1>13. ASSUME AnswerUse(c) PROVE Inv' BY <1>13, <1>c DEF AnswerUse
  <1> QED
    BY <1>1, <1>2, <1>3, <1>4, <1>5, <1>6, <1>7, <1>8, <1>9, <1>11, <1>12, <1>13 DEF Serve

\* The clock, the expiry of sessions and a restart.
LEMMA OtherSafe ==
  ASSUME Inv, TypeInv', Tick \/ ExpireDue \/ Restart PROVE Inv'
  <1>1. CASE Tick
    BY <1>1 DEF Tick, Inv, RequestsOK, AnsweredIsRevoked, AnsweredRevocationHolds
  <1>2. CASE ExpireDue
    <2>1. UNCHANGED <<grant, req, raced, answered>>
          /\ \A s \in Sessions : sess'[s] = sess[s] \/ sess'[s].state # "active"
      <3>1. \A s \in Sessions : sess[s] \in SessionRows BY Parts DEF Inv
      <3>2. \A s \in Sessions : [sess[s] EXCEPT !.state = "expired", !.rev = @ + 1].state = "expired"
        BY <3>1 DEF SessionRows
      <3> QED BY <1>2, <3>2 DEF ExpireDue
    <2>2. Kept(grant, sess, raced, grant', sess', raced') BY <2>1 DEF Kept, Standing
    <2>3. ASSUME NEW d \in Callers PROVE ReqOK(req[d], grant', sess', raced')
      <3>1. ReqOK(req[d], grant, sess, raced) /\ req[d] \in Requests /\ Shaped(req[d])
        BY Parts DEF Inv, RequestsOK
      <3>2. Covered(req[d], grant, grant', raced') BY <2>1, Unchanged
      <3> QED BY <2>2, <3>1, <3>2, KeptOK, Parts DEF Inv, TypeInv, TypeOK
    <2>4. RequestsOK' BY <2>1, <2>3 DEF RequestsOK
    <2> QED BY <2>1, <2>4 DEF Inv, AnsweredIsRevoked, AnsweredRevocationHolds
  <1>3. CASE Restart
    <2>1. \A d \in Callers : req'[d] = IdleReq BY <1>3 DEF Restart
    <2>2. RequestsOK' BY <2>1, IdleOK DEF RequestsOK
    <2> QED BY <1>3, <2>2 DEF Restart, Inv, AnsweredIsRevoked, AnsweredRevocationHolds
  <1> QED BY <1>1, <1>2, <1>3

\* The invariant holds at first, and every step keeps it.
LEMMA InitInv == Init => Inv
  BY InitType, IdleOK
  DEF Init, Inv, RequestsOK, AnsweredIsRevoked, AnsweredRevocationHolds

LEMMA NextInv == Inv /\ [Next]_accessVars => Inv'
  <1> SUFFICES ASSUME Inv, [Next]_accessVars PROVE Inv'
    OBVIOUS
  <1>1. TypeInv' BY NextType DEF Inv
  <1>2. CASE UNCHANGED accessVars
    BY <1>1, <1>2 DEF accessVars, Inv, RequestsOK, AnsweredIsRevoked, AnsweredRevocationHolds
  <1> QED BY <1>1, <1>2, SendSafe, ServeSafe, OtherSafe DEF Next

\* Once the revocation of a grant was answered, no session stands on it: whatever
\* other requests do at the same time, and however their revisions go stale.
THEOREM RevocationHolds == Spec => []AnsweredRevocationHolds
  <1>1. Inv => AnsweredRevocationHolds BY DEF Inv
  <1> QED BY InitInv, NextInv, <1>1, PTL DEF Spec

\* Every allowed use had a grant that was not revoked when it was asked for, and a
\* session and a grant that were both valid at that instant.
THEOREM UsesAreCovered == Spec => []UseIsCovered
  <1>1. Inv => UseIsCovered
    BY DEF Inv, RequestsOK, ReqOK, UseOK, UseIsCovered
  <1> QED BY InitInv, NextInv, <1>1, PTL DEF Spec
=============================================================================
