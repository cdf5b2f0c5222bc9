--------------------- MODULE ProductivityApprovalsProofs ---------------------
(***************************************************************************)
(* Proofs about productivity approvals, for every number of connections,   *)
(* proposals and approvals and every value of the bounds: an approval for  *)
(* once runs once, a proposal is done once, a content has one standing     *)
(* grant, and what was cancelled stays so.                                 *)
(*                                                                         *)
(* A confirmation works on an approval and a proposal it has looked at     *)
(* several steps before.  What it may still rely on is that the proposal   *)
(* is its own, that approvals keep their scope and their use, and that the *)
(* retained input goes with the first success.                             *)
(***************************************************************************)
EXTENDS ProductivityApprovalsProperties, TLAPS

Busy == {"consume", "take", "executing", "running"}
Working == Busy \cup {"approved", "withdraw", "answer"}

Handlers == [pc : {"new", "open", "closed"} \cup Working,
             p : Proposals \cup {NoProposal}, a : Approvals \cup {NoApproval},
             t : Nat, ok : BOOLEAN]
ProposalRows == [state : {"none", "live", "gone"}, by : Conns \cup {NoConn},
                 content : Contents \cup {NoContent}, exp : Nat]
ApprovalRows == [state : {"none", "live", "revoked"}, scope : Scopes,
                 session : Conns \cup {NoConn}, proposal : Proposals \cup {NoProposal},
                 content : Contents \cup {NoContent}, at : Nat, exp : Nat, used : BOOLEAN]

\* Types of the stores and of the handlers, and the ids a handler at work has.
TypeInv ==
    /\ now \in Nat
    /\ conn \in [Conns -> Handlers]
    /\ \A c \in Conns : conn[c].pc \in Working =>
          conn[c].p \in Proposals /\ conn[c].a \in Approvals
    /\ prop \in [Proposals -> ProposalRows] /\ input \in SUBSET Proposals
    /\ appr \in [Approvals -> ApprovalRows]
    /\ cancelled \in SUBSET (Conns \X Proposals) /\ cancels \in SUBSET Proposals
    /\ ran \in [Approvals -> 0 .. 2] /\ done \in [Proposals -> 0 .. 2]

\* A handler works on a proposal of its own connection and on an approval there is.
Owned ==
    \A c \in Conns : conn[c].pc \in Working =>
        /\ prop[conn[c].p].state # "none" /\ prop[conn[c].p].by = c
        /\ appr[conn[c].a].state # "none"

Executing(c, a) == conn[c].pc = "executing" /\ conn[c].a = a

\* An approval for once is used before it is executed, and executed by one handler.
OnceOK ==
    /\ \A a \in Approvals : appr[a].state = "none" => ran[a] = 0 /\ appr[a].scope = "once"
    /\ \A a \in Approvals : appr[a].scope = "once" =>
          /\ ran[a] \in {0, 1}
          /\ ~appr[a].used => ran[a] = 0
          /\ \A c \in Conns : Executing(c, a) => appr[a].used /\ ran[a] = 0
          /\ \A c, e \in Conns : Executing(c, a) /\ Executing(e, a) => c = e

\* A proposal that was done has lost its input, or is about to.
Ending(p) == \E c \in Conns : /\ prop[p].by = c /\ conn[c].p = p
                              /\ conn[c].pc = "answer" /\ conn[c].ok

DoneOK ==
    /\ \A p \in Proposals : done[p] \in {0, 1}
    /\ \A p \in Proposals : done[p] = 1 =>
          prop[p].state # "none" /\ (p \in input => Ending(p))
    /\ \A c \in Conns : conn[c].pc \in Busy => done[conn[c].p] = 0

\* Nothing authorizes p any more, and nothing will.
Settled(p) ==
    /\ prop[p].state = "gone"
    /\ \A a \in Approvals : appr[a].proposal = p /\ appr[a].scope \notin OfSession
                            => appr[a].state = "revoked"

CancelsOK ==
    /\ \A p \in cancels : Settled(p)
    /\ \A c \in Conns, p \in Proposals : <<c, p>> \in cancelled =>
          /\ prop[p].state # "none"
          /\ prop[p].by = c => Settled(p)

Inv == TypeInv /\ Owned /\ OnceOK /\ DoneOK /\ OneStandingGrant /\ CancelsOK

\* Proposals stay with their connection, and what is gone stays gone.
ProposalsKept ==
    \A p \in Proposals : prop[p].state # "none" =>
        /\ prop'[p].state # "none" /\ prop'[p].by = prop[p].by
        /\ prop[p].state = "gone" => prop'[p].state = "gone"

\* Approvals are neither forgotten nor changed in what they allow.
ApprovalsKept ==
    \A a \in Approvals :
        /\ appr[a].state # "none" => /\ appr'[a].state # "none"
                                     /\ appr'[a].scope = appr[a].scope
                                     /\ appr'[a].used = appr[a].used
        /\ appr'[a].state = "none" => appr'[a] = appr[a]

-----------------------------------------------------------------------------
(* What a step keeps.                                                      *)

LEMMA TypesStay ==
  ASSUME TypeInv, NEW c \in Conns, NEW h \in Handlers, conn' = [conn EXCEPT ![c] = h],
         h.pc \in Working => h.p \in Proposals /\ h.a \in Approvals,
         now' \in Nat, prop' \in [Proposals -> ProposalRows], input' \in SUBSET Proposals,
         appr' \in [Approvals -> ApprovalRows],
         cancelled' \in SUBSET (Conns \X Proposals), cancels' \in SUBSET Proposals,
         ran' \in [Approvals -> 0 .. 2], done' \in [Proposals -> 0 .. 2]
  PROVE  TypeInv'
  <1>1. conn' \in [Conns -> Handlers] BY DEF TypeInv
  <1>2. \A e \in Conns : conn'[e] = IF e = c THEN h ELSE conn[e] BY DEF TypeInv
  <1> QED BY <1>1, <1>2 DEF TypeInv

LEMMA OwnedStays ==
  ASSUME Inv, NEW c \in Conns, NEW h \in Handlers, conn' = [conn EXCEPT ![c] = h],
         ProposalsKept, ApprovalsKept,
         h.pc \in Working => /\ h.p \in Proposals /\ h.a \in Approvals
                             /\ prop'[h.p].state # "none" /\ prop'[h.p].by = c
                             /\ appr'[h.a].state # "none"
  PROVE  Owned'
  <1>1. \A e \in Conns : conn'[e] = IF e = c THEN h ELSE conn[e] BY DEF Inv, TypeInv
  <1> QED BY <1>1 DEF Inv, TypeInv, Owned, ProposalsKept, ApprovalsKept

\* No handler comes to execute, and no approval is used or taken over.
LEMMA OnceStays ==
  ASSUME Inv, NEW c \in Conns, NEW h \in Handlers, conn' = [conn EXCEPT ![c] = h],
         h.pc = "executing" => conn[c].pc = "executing" /\ h.a = conn[c].a,
         ApprovalsKept, ran' = ran
  PROVE  OnceOK'
  <1>1. \A e \in Conns : conn'[e] = IF e = c THEN h ELSE conn[e] BY DEF Inv, TypeInv
  <1>2. \A e \in Conns, a \in Approvals : Executing(e, a)' => Executing(e, a)
    BY <1>1 DEF Executing
  <1>3. ASSUME NEW a \in Approvals, appr[a].state = "none"
        PROVE  ran[a] = 0 /\ \A e \in Conns : ~Executing(e, a)
    BY <1>3 DEF Inv, OnceOK, Owned, Executing, Working, Busy
  <1> QED BY <1>2, <1>3 DEF Inv, OnceOK, ApprovalsKept

\* Nothing is done, no input is retained, and the handler answers as it must.
LEMMA DoneStays ==
  ASSUME Inv, NEW c \in Conns, NEW h \in Handlers, conn' = [conn EXCEPT ![c] = h],
         ProposalsKept, done' = done, input' \subseteq input,
         h.pc \in Busy => h.p \in Proposals /\ done[h.p] = 0,
         conn[c].pc = "answer" /\ conn[c].ok => conn[c].p \notin input'
  PROVE  DoneOK'
  <1>1. \A e \in Conns : conn'[e] = IF e = c THEN h ELSE conn[e] BY DEF Inv, TypeInv
  <1>2. ASSUME NEW p \in Proposals, done[p] = 1, p \in input' PROVE Ending(p)'
    <2>1. PICK e \in Conns : /\ prop[p].by = e /\ conn[e].p = p
                             /\ conn[e].pc = "answer" /\ conn[e].ok
      BY <1>2 DEF Inv, DoneOK, Ending
    <2>2. e # c BY <1>2, <2>1
    <2>3. prop'[p].by = e BY <1>2, <2>1 DEF Inv, DoneOK, ProposalsKept
    <2> QED BY <1>1, <2>1, <2>2, <2>3 DEF Ending
  <1>3. \A p \in Proposals : done'[p] = 1 => prop'[p].state # "none"
    BY DEF Inv, DoneOK, ProposalsKept
  <1>4. \A e \in Conns : conn'[e].pc \in Busy => done'[conn'[e].p] = 0
    BY <1>1 DEF Inv, DoneOK
  <1>5. \A p \in Proposals : done'[p] \in {0, 1} BY DEF Inv, DoneOK
  <1> QED BY <1>2, <1>3, <1>4, <1>5 DEF DoneOK

\* What was cancelled stays so.
LEMMA CancelsStay ==
  ASSUME Inv, ProposalsKept, UNCHANGED <<cancelled, cancels>>,
         \A p \in Proposals : Settled(p) => Settled(p)'
  PROVE  CancelsOK'
  BY DEF Inv, TypeInv, CancelsOK, ProposalsKept

-----------------------------------------------------------------------------
(* Steps that change neither proposals nor approvals.                      *)

LEMMA QuietStep ==
  ASSUME Inv, NEW c \in Conns, NEW h \in Handlers, conn' = [conn EXCEPT ![c] = h],
         now' \in Nat, UNCHANGED <<prop, appr, cancelled, cancels, ran, done>>,
         input' \subseteq input,
         h.pc \in Working =>
            conn[c].pc \in Working /\ h.p = conn[c].p /\ h.a = conn[c].a,
         h.pc = "executing" => conn[c].pc = "executing",
         h.pc \in Busy => done[conn[c].p] = 0,
         conn[c].pc = "answer" /\ conn[c].ok => conn[c].p \notin input'
  PROVE  Inv'
  <1>1. ProposalsKept /\ ApprovalsKept BY DEF ProposalsKept, ApprovalsKept
  <1>2. h.pc \in Working => h.p \in Proposals /\ h.a \in Approvals BY DEF Inv, TypeInv
  <1>3. Busy \subseteq Working BY DEF Working
  <1>4. TypeInv' BY <1>2, TypesStay DEF Inv, TypeInv
  <1>5. Owned' BY <1>1, <1>2, OwnedStays DEF Inv, Owned
  <1>6. "executing" \in Working BY DEF Working, Busy
  <1>7. OnceOK' BY <1>1, <1>6, OnceStays
  <1>8. DoneOK' BY <1>1, <1>2, <1>3, DoneStays
  <1>9. CancelsOK' BY <1>1, CancelsStay DEF Settled
  <1>10. OneStandingGrant' BY DEF Inv, OneStandingGrant
  <1> QED BY <1>4, <1>5, <1>7, <1>8, <1>9, <1>10 DEF Inv

\* The handlers at their ends.
LEMMA IdleTypes ==
  ASSUME NEW pc \in {"new", "open", "closed"}
  PROVE  IdleConn(pc) \in Handlers /\ IdleConn(pc).pc = pc /\ pc \notin Working
         /\ pc # "executing" /\ pc \notin Busy /\ pc # "answer"
  BY DEF IdleConn, Handlers, Working, Busy

LEMMA QuietSteps ==
  ASSUME Inv, NEW c \in Conns,
         \/ Connect(c) \/ \E p \in Proposals : RefuseConfirm(c, p)
         \/ BuildRequest(c) \/ Evaluate(c) \/ Answer(c) \/ Disconnect(c)
  PROVE  Inv'
  <1> DEFINE h == conn[c]
  <1>0. h \in Handlers /\ now \in Nat /\ conn = [conn EXCEPT ![c] = h] BY DEF Inv, TypeInv
  <1>1. ASSUME Connect(c) PROVE Inv'
    BY <1>0, <1>1, IdleTypes, QuietStep DEF Connect, EndMessage
  <1>2. ASSUME NEW p \in Proposals, RefuseConfirm(c, p) PROVE Inv'
    BY <1>0, <1>2, IdleTypes, QuietStep DEF RefuseConfirm, Open
  <1>3. ASSUME BuildRequest(c) PROVE Inv'
    <2> DEFINE g == [h EXCEPT !.pc = IF h.p \in input THEN "consume" ELSE "withdraw", !.t = now]
    <2>1. /\ g \in Handlers /\ g.p = h.p /\ g.a = h.a
          /\ g.pc = (IF h.p \in input THEN "consume" ELSE "withdraw")
      BY <1>0 DEF Handlers, Working, Busy
    <2>2. conn' = [conn EXCEPT ![c] = g] BY <1>3 DEF BuildRequest
    <2>3. h.pc = "approved" /\ h.pc \in Working /\ h.p \in Proposals
      BY <1>3 DEF BuildRequest, Working, Inv, TypeInv
    <2> HIDE DEF g
    <2>4. g.pc \in Busy => done[h.p] = 0
      <3>1. g.pc \in Busy => h.p \in input BY <2>1 DEF Busy
      <3>2. prop[h.p].by = c BY <2>3 DEF Inv, Owned
      <3>3. ~Ending(h.p) BY <2>3, <3>2 DEF Ending
      <3> QED BY <2>3, <3>1, <3>3 DEF Inv, DoneOK
    <2> QED BY <1>0, <1>3, <2>1, <2>2, <2>3, <2>4, QuietStep DEF BuildRequest
  <1>4. ASSUME Evaluate(c) PROVE Inv'
    <2>0. PICK pc \in {"take", "withdraw"} : conn' = [conn EXCEPT ![c].pc = pc]
      BY <1>4 DEF Evaluate
    <2> DEFINE g == [h EXCEPT !.pc = pc]
    <2>1. g \in Handlers /\ g.p = h.p /\ g.a = h.a /\ g.pc = pc
      BY <1>0 DEF Handlers, Working, Busy
    <2>2. conn' = [conn EXCEPT ![c] = g] BY <2>0
    <2>3. h.pc = "consume" /\ h.pc \in Working /\ h.pc \in Busy
      BY <1>4 DEF Evaluate, Working, Busy
    <2>4. done[h.p] = 0 BY <2>3 DEF Inv, DoneOK
    <2> HIDE DEF g
    <2> QED BY <1>0, <1>4, <2>1, <2>2, <2>3, <2>4, QuietStep DEF Evaluate
  <1>5. ASSUME Answer(c) PROVE Inv'
    BY <1>0, <1>5, IdleTypes, QuietStep DEF Answer, EndMessage
  <1>6. ASSUME Disconnect(c) PROVE Inv'
    <2>1. h.pc = "answer" => prop[h.p].by = c BY DEF Inv, Owned, Working
    <2>2. /\ conn' = [conn EXCEPT ![c] = IdleConn("closed")]
          /\ input' \subseteq input /\ (h.pc = "answer" => h.p \notin input')
          /\ UNCHANGED <<now, prop, appr, cancelled, ran, done, cancels>>
      BY <1>6, <2>1 DEF Disconnect
    <2> QED BY <1>0, <2>2, IdleTypes, QuietStep
  <1> QED BY <1>1, <1>2, <1>3, <1>4, <1>5, <1>6

-----------------------------------------------------------------------------
(* Preparation and confirmation.                                           *)

LEMMA PrepareStep ==
  ASSUME Inv, NEW c \in Conns, NEW p \in Proposals, NEW x \in Contents, Prepare(c, p, x)
  PROVE  Inv'
  <1> DEFINE live == [state |-> "live", by |-> c, content |-> x, exp |-> now + ProposalTTL]
             gone == [prop[p] EXCEPT !.state = "gone"]
  <1>1. /\ prop[p].state = "none" /\ conn' = conn
        /\ UNCHANGED <<now, appr, cancelled, ran, done, cancels>>
        /\ \/ prop' = [prop EXCEPT ![p] = live] /\ input' = input \cup {p}
           \/ prop' = [prop EXCEPT ![p] = gone] /\ input' = input
    BY DEF Prepare
  <1>2. live \in ProposalRows /\ gone \in ProposalRows
    <2>1. now + ProposalTTL \in Nat BY ApprovalBounds DEF Inv, TypeInv
    <2> QED BY <2>1 DEF ProposalRows, Inv, TypeInv
  <1>3. /\ \A q \in Proposals : q # p => prop'[q] = prop[q]
        /\ prop' \in [Proposals -> ProposalRows] /\ prop'[p].state # "none"
        /\ input' \in SUBSET Proposals
    <2>1. live.state # "none" /\ gone.state # "none" BY <1>2 DEF ProposalRows, Inv, TypeInv
    <2> HIDE DEF live, gone
    <2> QED BY <1>1, <1>2, <2>1 DEF Inv, TypeInv
  <1> HIDE DEF live, gone
  <1>4. ProposalsKept BY <1>1, <1>3 DEF ProposalsKept
  <1>5. TypeInv' BY <1>1, <1>3 DEF Inv, TypeInv
  <1>6. Owned' BY <1>1, <1>4 DEF Inv, Owned, ProposalsKept, TypeInv
  <1>7. OnceOK' BY <1>1 DEF Inv, OnceOK, Executing
  <1>8. DoneOK'
    <2>1. done[p] = 0 BY <1>1 DEF Inv, DoneOK
    <2>2. \A q \in Proposals : Ending(q) /\ q # p => Ending(q)' BY <1>1, <1>3 DEF Ending
    <2>3. \A q \in Proposals : q \in input' /\ q # p => q \in input BY <1>1
    <2> QED BY <1>1, <1>3, <2>1, <2>2, <2>3 DEF Inv, DoneOK
  <1>9. CancelsOK'
    <2>1. \A q \in Proposals : Settled(q) => Settled(q)' BY <1>1, <1>3 DEF Settled
    <2> QED BY <1>1, <1>4, <2>1, CancelsStay
  <1>10. OneStandingGrant' BY <1>1 DEF Inv, OneStandingGrant
  <1> QED BY <1>5, <1>6, <1>7, <1>8, <1>9, <1>10 DEF Inv

\* Of the standing grants of a content there is none or exactly the newest.
LEMMA StandingIsNewest ==
  ASSUME Inv, NEW p \in Proposals, Rebindable(p) = {}, NEW b \in Approvals,
         appr[b].state = "live", appr[b].scope = "persistent"
  PROVE  appr[b].content # prop[p].content
  <1> SUFFICES ASSUME appr[b].content = prop[p].content PROVE b \in Rebindable(p)
    OBVIOUS
  <1>1. appr[b].at \in Nat BY DEF Inv, TypeInv, ApprovalRows
  <1> QED BY <1>1 DEF Rebindable, Newest, Inv, OneStandingGrant

\* An approval that is issued.
LEMMA IssuedType ==
  ASSUME Inv, NEW c \in Conns, NEW p \in Proposals, NEW s \in Scopes, NEW d \in Durations,
         NEW a \in Approvals
  PROVE  [state |-> "live", scope |-> s, session |-> IF s \in OfSession THEN c ELSE NoConn,
          proposal |-> p, content |-> prop[p].content, at |-> now, exp |-> Expiry(p, s, d),
          used |-> FALSE] \in ApprovalRows
  <1>1. now \in Nat /\ prop[p].exp \in Nat /\ prop[p].content \in Contents \cup {NoContent}
    BY DEF Inv, TypeInv, ProposalRows
  <1>2. Expiry(p, s, d) \in Nat
    <2>1. now + OnceTTL \in Nat /\ now + d \in Nat /\ Never \in Nat
      BY <1>1, ApprovalBounds DEF Never
    <2> QED BY <1>1, <2>1 DEF Expiry, Least, Scopes
  <1> QED BY <1>1, <1>2 DEF ApprovalRows

\* What a confirmation does to the approvals.
LEMMA Granted ==
  ASSUME Inv, NEW c \in Conns, NEW p \in Proposals, NEW s \in Scopes, NEW d \in Durations,
         NEW a \in Approvals, Held(c, p),
         \/ a \in Current(c, p, s) /\ UNCHANGED appr
         \/ a \in Rebindable(p) /\ appr' = [appr EXCEPT ![a].proposal = p]
         \/ (s = "persistent" => Rebindable(p) = {}) /\ Issue(c, p, s, d, a)
  PROVE  /\ appr' \in [Approvals -> ApprovalRows] /\ ApprovalsKept /\ appr'[a].state # "none"
         /\ OneStandingGrant'
         /\ \A b \in Approvals : appr'[b] = appr[b] \/ (b = a /\ appr'[b].proposal = p)
  <1>0. appr \in [Approvals -> ApprovalRows] BY DEF Inv, TypeInv
  <1>1. CASE a \in Current(c, p, s) /\ UNCHANGED appr
    BY <1>0, <1>1 DEF Current, Newest, ApprovalsKept, Inv, OneStandingGrant
  <1>2. CASE a \in Rebindable(p) /\ appr' = [appr EXCEPT ![a].proposal = p]
    <2> DEFINE row == [appr[a] EXCEPT !.proposal = p]
    <2>1. /\ row \in ApprovalRows /\ row.proposal = p /\ row.state = appr[a].state
          /\ row.scope = appr[a].scope /\ row.used = appr[a].used
          /\ row.content = appr[a].content
      BY <1>0 DEF ApprovalRows
    <2>2. appr' = [appr EXCEPT ![a] = row] BY <1>2
    <2>3. appr[a].state = "live" BY <1>2 DEF Rebindable, Newest
    <2> HIDE DEF row
    <2>4. \A b \in Approvals : appr'[b] = IF b = a THEN row ELSE appr[b] BY <1>0, <2>2
    <2>5. appr' \in [Approvals -> ApprovalRows] BY <1>0, <2>1, <2>2
    <2>6. ApprovalsKept BY <2>1, <2>3, <2>4 DEF ApprovalsKept
    <2>7. OneStandingGrant' BY <2>1, <2>4 DEF Inv, OneStandingGrant
    <2> QED BY <2>1, <2>3, <2>4, <2>5, <2>6, <2>7
  <1>3. CASE (s = "persistent" => Rebindable(p) = {}) /\ Issue(c, p, s, d, a)
    <2> DEFINE row == [state |-> "live", scope |-> s,
                       session |-> IF s \in OfSession THEN c ELSE NoConn,
                       proposal |-> p, content |-> prop[p].content, at |-> now,
                       exp |-> Expiry(p, s, d), used |-> FALSE]
    <2>1. row \in ApprovalRows BY IssuedType
    <2>2. /\ row.proposal = p /\ row.state = "live" /\ row.scope = s
          /\ row.content = prop[p].content
      OBVIOUS
    <2>3. appr' = [appr EXCEPT ![a] = row] /\ appr[a].state = "none" BY <1>3 DEF Issue
    <2> HIDE DEF row
    <2>4. \A b \in Approvals : appr'[b] = IF b = a THEN row ELSE appr[b] BY <1>0, <2>3
    <2>5. appr' \in [Approvals -> ApprovalRows] BY <1>0, <2>1, <2>3
    <2>6. ApprovalsKept BY <2>2, <2>3, <2>4 DEF ApprovalsKept
    <2>7. OneStandingGrant'
      BY <1>3, <2>2, <2>4, StandingIsNewest DEF Inv, OneStandingGrant
    <2> QED BY <2>2, <2>4, <2>5, <2>6, <2>7
  <1> QED BY <1>1, <1>2, <1>3

LEMMA GrantStep ==
  ASSUME Inv, NEW c \in Conns, NEW p \in Proposals, NEW s \in Scopes, NEW d \in Durations,
         GrantConfirm(c, p, s, d)
  PROVE  Inv'
  <1>0. /\ UNCHANGED <<now, prop, input, cancelled, ran, done, cancels>>
        /\ Open(c) /\ Held(c, p)
    BY DEF GrantConfirm
  <1>1. PICK a \in Approvals :
          /\ conn' = [conn EXCEPT ![c] = [IdleConn("approved") EXCEPT !.p = p, !.a = a]]
          /\ \/ a \in Current(c, p, s) /\ UNCHANGED appr
             \/ a \in Rebindable(p) /\ appr' = [appr EXCEPT ![a].proposal = p]
             \/ (s = "persistent" => Rebindable(p) = {}) /\ Issue(c, p, s, d, a)
    BY DEF GrantConfirm
  <1> DEFINE h == [IdleConn("approved") EXCEPT !.p = p, !.a = a]
  <1>2. h \in Handlers /\ h.pc = "approved" /\ h.p = p /\ h.a = a
    BY DEF Handlers, IdleConn, Working
  <1>3. h.pc \in Working /\ h.pc \notin Busy /\ h.pc # "executing" BY <1>2 DEF Working, Busy
  <1>4. conn' = [conn EXCEPT ![c] = h] BY <1>1
  <1> HIDE DEF h
  <1>5. prop[p].state = "live" /\ prop[p].by = c BY <1>0 DEF Held, Registry
  <1>6. /\ appr' \in [Approvals -> ApprovalRows] /\ ApprovalsKept /\ appr'[a].state # "none"
        /\ OneStandingGrant'
        /\ \A b \in Approvals : appr'[b] = appr[b] \/ (b = a /\ appr'[b].proposal = p)
    BY <1>0, <1>1, Granted
  <1>7. ProposalsKept BY <1>0 DEF ProposalsKept
  <1>8. TypeInv'
    <2>1. /\ now' \in Nat /\ prop' \in [Proposals -> ProposalRows]
          /\ input' \in SUBSET Proposals /\ cancelled' \in SUBSET (Conns \X Proposals)
          /\ cancels' \in SUBSET Proposals /\ ran' \in [Approvals -> 0 .. 2]
          /\ done' \in [Proposals -> 0 .. 2] /\ TypeInv
      BY <1>0 DEF Inv, TypeInv
    <2> QED BY <1>2, <1>4, <1>6, <2>1, TypesStay
  <1>9. Owned' BY <1>0, <1>2, <1>4, <1>5, <1>6, <1>7, OwnedStays
  <1>10. OnceOK' BY <1>0, <1>2, <1>3, <1>4, <1>6, OnceStays
  <1>11. DoneOK'
    <2>1. conn[c].pc # "answer" BY <1>0 DEF Open
    <2> QED BY <1>0, <1>2, <1>3, <1>4, <1>7, <2>1, DoneStays
  <1>12. CancelsOK'
    <2>1. \A q \in Proposals : Settled(q) => Settled(q)' BY <1>0, <1>5, <1>6 DEF Settled
    <2> QED BY <1>0, <1>7, <2>1, CancelsStay
  <1> QED BY <1>6, <1>8, <1>9, <1>10, <1>11, <1>12 DEF Inv

-----------------------------------------------------------------------------
(* Cancellation.                                                           *)

\* What a cancellation does to the stores: it only ever takes away, and it leaves
\* nothing that authorizes a proposal of the session.
LEMMA Cancelled ==
  ASSUME Inv, NEW c \in Conns, NEW p \in Proposals, prop[p].state # "none",
         CancelEffect(c, p)
  PROVE  /\ prop' \in [Proposals -> ProposalRows] /\ appr' \in [Approvals -> ApprovalRows]
         /\ cancelled' \in SUBSET (Conns \X Proposals)
         /\ ProposalsKept /\ ApprovalsKept /\ OneStandingGrant'
         /\ \A q \in Proposals : Settled(q) => Settled(q)'
         /\ prop[p].by = c => Settled(p)'
         /\ cancelled' = cancelled \cup {<<c, p>>}
  <1>0. /\ prop \in [Proposals -> ProposalRows] /\ appr \in [Approvals -> ApprovalRows]
        /\ cancelled \in SUBSET (Conns \X Proposals)
    BY DEF Inv, TypeInv
  <1>1. CASE <<c, p>> \in cancelled
    <2>1. UNCHANGED <<prop, appr, cancelled>> BY <1>1 DEF CancelEffect
    <2>2. prop[p].by = c => Settled(p) BY <1>1 DEF Inv, CancelsOK
    <2>3. ProposalsKept /\ ApprovalsKept BY <2>1 DEF ProposalsKept, ApprovalsKept
    <2>4. OneStandingGrant' BY <2>1 DEF Inv, OneStandingGrant
    <2>5. \A q \in Proposals : Settled(q) => Settled(q)' BY <2>1 DEF Settled
    <2> QED BY <1>0, <1>1, <2>1, <2>2, <2>3, <2>4, <2>5
  <1>2. CASE <<c, p>> \notin cancelled
    <2> DEFINE gone == [prop[p] EXCEPT !.state = "gone"]
               revoked(a) == [appr[a] EXCEPT !.state = "revoked"]
    <2>1. gone \in ProposalRows /\ gone.state = "gone" /\ gone.by = prop[p].by
      BY <1>0 DEF ProposalRows
    <2>2. \A a \in Approvals :
             /\ revoked(a) \in ApprovalRows /\ revoked(a).state = "revoked"
             /\ revoked(a).scope = appr[a].scope /\ revoked(a).used = appr[a].used
             /\ revoked(a).proposal = appr[a].proposal
      BY <1>0 DEF ApprovalRows
    <2>3. /\ prop' = IF Held(c, p) THEN [prop EXCEPT ![p] = gone] ELSE prop
          /\ cancelled' = cancelled \cup {<<c, p>>}
          /\ appr' = [a \in Approvals |->
                        IF /\ appr[a].state = "live" /\ appr[a].proposal = p
                           /\ Held(c, p) \/ appr[a].scope \notin OfSession
                        THEN revoked(a) ELSE appr[a]]
      BY <1>2 DEF CancelEffect
    <2> HIDE DEF gone, revoked
    <2>4. \A q \in Proposals : prop'[q] = IF q = p /\ Held(c, p) THEN gone ELSE prop[q]
      BY <1>0, <2>3
    <2>5. prop' \in [Proposals -> ProposalRows] BY <1>0, <2>1, <2>3
    <2>6. appr' \in [Approvals -> ApprovalRows] BY <1>0, <2>2, <2>3
    <2>7. \A a \in Approvals : appr'[a] = appr[a] \/ (appr'[a] = revoked(a) /\ appr[a].state = "live")
      BY <2>3
    <2>8. ProposalsKept BY <2>1, <2>4 DEF ProposalsKept
    <2>9. ApprovalsKept BY <2>2, <2>7 DEF ApprovalsKept
    <2>10. OneStandingGrant' BY <2>2, <2>7 DEF Inv, OneStandingGrant
    <2>11. \A q \in Proposals : Settled(q) => Settled(q)'
      BY <2>1, <2>2, <2>4, <2>7 DEF Settled
    <2>12. ASSUME prop[p].by = c PROVE Settled(p)'
      <3>1. prop'[p].state = "gone"
        BY <1>0, <2>1, <2>4, <2>12 DEF Held, Registry, ProposalRows
      <3>2. \A a \in Approvals : appr'[a].proposal = p /\ appr'[a].scope \notin OfSession
                                 => appr'[a].state = "revoked"
        <4> SUFFICES ASSUME NEW a \in Approvals, appr'[a].proposal = p,
                            appr'[a].scope \notin OfSession, appr'[a] = appr[a]
                     PROVE  appr[a].state = "revoked"
          BY <2>2, <2>7
        <4>1. appr[a].state # "live" BY <2>2, <2>3
        <4>2. appr[a].state # "none" BY DEF Inv, OnceOK, OfSession
        <4> QED BY <1>0, <4>1, <4>2 DEF ApprovalRows
      <3> QED BY <3>1, <3>2 DEF Settled
    <2> QED BY <1>0, <2>3, <2>5, <2>6, <2>8, <2>9, <2>10, <2>11, <2>12
  <1> QED BY <1>1, <1>2

LEMMA CancelStep ==
  ASSUME Inv, NEW c \in Conns, NEW p \in Proposals, Cancel(c, p)
  PROVE  Inv'
  <1> DEFINE h == conn[c]
  <1>1. /\ prop[p].state # "none" /\ CancelEffect(c, p) /\ Open(c)
        /\ UNCHANGED <<now, conn, ran, done>> /\ input' \subseteq input
        /\ cancels' = IF prop[p].by = c THEN cancels \cup {p} ELSE cancels
    BY DEF Cancel
  <1>2. /\ prop' \in [Proposals -> ProposalRows] /\ appr' \in [Approvals -> ApprovalRows]
        /\ cancelled' \in SUBSET (Conns \X Proposals)
        /\ ProposalsKept /\ ApprovalsKept /\ OneStandingGrant'
        /\ \A q \in Proposals : Settled(q) => Settled(q)'
        /\ prop[p].by = c => Settled(p)'
        /\ cancelled' = cancelled \cup {<<c, p>>}
    BY <1>1, Cancelled
  <1>3. h \in Handlers /\ conn' = [conn EXCEPT ![c] = h] BY <1>1 DEF Inv, TypeInv
  <1>4. h.pc \notin Working /\ h.pc \notin Busy /\ h.pc # "answer" /\ h.pc # "executing"
    BY <1>1 DEF Open, Working, Busy
  <1> HIDE DEF h
  <1>5. TypeInv' BY <1>1, <1>2 DEF Inv, TypeInv
  <1>6. Owned' BY <1>2, <1>3, <1>4, OwnedStays
  <1>7. OnceOK' BY <1>1, <1>2, <1>3, <1>4, OnceStays
  <1>8. DoneOK'
    <2>1. conn[c].pc # "answer" BY <1>1 DEF Open
    <2> QED BY <1>1, <1>2, <1>3, <1>4, <2>1, DoneStays
  <1>9. CancelsOK'
    <2>1. \A q \in cancels' : Settled(q)' BY <1>1, <1>2 DEF Inv, TypeInv, CancelsOK
    <2>2. \A e \in Conns, q \in Proposals : <<e, q>> \in cancelled' =>
             prop'[q].state # "none" /\ (prop'[q].by = e => Settled(q)')
      BY <1>1, <1>2 DEF Inv, CancelsOK, ProposalsKept
    <2> QED BY <2>1, <2>2 DEF CancelsOK
  <1> QED BY <1>2, <1>5, <1>6, <1>7, <1>8, <1>9 DEF Inv

LEMMA WithdrawStep ==
  ASSUME Inv, NEW c \in Conns, Withdraw(c)
  PROVE  Inv'
  <1> DEFINE h == IdleConn("open")
  <1>0. PICK p \in Proposals : p = conn[c].p BY DEF Withdraw, Inv, TypeInv, Working
  <1>1. /\ conn[c].pc = "withdraw" /\ CancelEffect(c, p)
        /\ conn' = [conn EXCEPT ![c] = h]
        /\ UNCHANGED <<now, ran, done, cancels>> /\ input' \subseteq input
    BY <1>0 DEF Withdraw, EndMessage
  <1>2. prop[p].state # "none"
    BY <1>0, <1>1 DEF Inv, TypeInv, Owned, Working
  <1> HIDE DEF h
  <1>3. /\ prop' \in [Proposals -> ProposalRows] /\ appr' \in [Approvals -> ApprovalRows]
        /\ cancelled' \in SUBSET (Conns \X Proposals)
        /\ ProposalsKept /\ ApprovalsKept /\ OneStandingGrant'
        /\ \A q \in Proposals : Settled(q) => Settled(q)'
        /\ prop[p].by = c => Settled(p)'
        /\ cancelled' = cancelled \cup {<<c, p>>}
    BY <1>1, <1>2, Cancelled
  <1>4. h \in Handlers /\ h.pc \notin Working /\ h.pc \notin Busy /\ h.pc # "executing"
    BY IdleTypes DEF h
  <1>5. TypeInv'
    <2>1. /\ now' \in Nat /\ input' \in SUBSET Proposals /\ cancels' \in SUBSET Proposals
          /\ ran' \in [Approvals -> 0 .. 2] /\ done' \in [Proposals -> 0 .. 2] /\ TypeInv
      BY <1>1 DEF Inv, TypeInv
    <2> QED BY <1>1, <1>3, <1>4, <2>1, TypesStay
  <1>6. Owned' BY <1>1, <1>3, <1>4, OwnedStays
  <1>7. OnceOK' BY <1>1, <1>3, <1>4, OnceStays
  <1>8. DoneOK' BY <1>1, <1>3, <1>4, DoneStays
  <1>9. CancelsOK'
    <2>1. \A q \in cancels' : Settled(q)' BY <1>1, <1>3 DEF Inv, TypeInv, CancelsOK
    <2>2. ASSUME NEW e \in Conns, NEW q \in Proposals, <<e, q>> \in cancelled'
          PROVE  prop'[q].state # "none" /\ (prop'[q].by = e => Settled(q)')
      <3>1. <<e, q>> \in cancelled \/ (e = c /\ q = p) BY <1>3, <2>2
      <3>2. CASE <<e, q>> \in cancelled
        BY <1>3, <3>2 DEF Inv, CancelsOK, ProposalsKept
      <3>3. CASE e = c /\ q = p BY <1>2, <1>3, <3>3 DEF ProposalsKept
      <3> QED BY <3>1, <3>2, <3>3
    <2> QED BY <2>1, <2>2 DEF CancelsOK
  <1> QED BY <1>3, <1>5, <1>6, <1>7, <1>8, <1>9 DEF Inv

-----------------------------------------------------------------------------
(* Execution.                                                              *)

\* The new program counter of a handler that goes on with what it has in hand.
LEMMA GoesOn ==
  ASSUME TypeInv, NEW c \in Conns, NEW pc \in {"executing", "withdraw", "running"}
  PROVE  /\ [conn[c] EXCEPT !.pc = pc] \in Handlers
         /\ [conn[c] EXCEPT !.pc = pc].pc = pc
         /\ [conn[c] EXCEPT !.pc = pc].p = conn[c].p
         /\ [conn[c] EXCEPT !.pc = pc].a = conn[c].a
  BY DEF TypeInv, Handlers, Working, Busy

LEMMA TakeStep ==
  ASSUME Inv, NEW c \in Conns, Take(c)
  PROVE  Inv'
  <1> DEFINE p == conn[c].p
             a == conn[c].a
             once == appr[a].scope = "once"
             granted == Usable(a, conn[c].t) /\ (once => ~appr[a].used)
             pc == IF granted THEN "executing" ELSE "withdraw"
             h == [conn[c] EXCEPT !.pc = pc]
             spent == [appr[a] EXCEPT !.used = TRUE]
             gone == [prop[p] EXCEPT !.state = "gone"]
  <1>1. /\ conn[c].pc = "take" /\ conn' = [conn EXCEPT ![c] = h]
        /\ appr' = IF granted /\ once THEN [appr EXCEPT ![a] = spent] ELSE appr
        /\ prop' = IF granted /\ once THEN [prop EXCEPT ![p] = gone] ELSE prop
        /\ UNCHANGED <<now, input, cancelled, ran, done, cancels>>
    BY DEF Take, Step
  <1>2. h \in Handlers /\ h.pc = pc /\ h.p = p /\ h.a = a BY GoesOn DEF Inv
  <1>3. /\ p \in Proposals /\ a \in Approvals /\ done[p] = 0
        /\ prop[p].state # "none" /\ prop[p].by = c /\ appr[a].state # "none"
    BY <1>1 DEF Inv, TypeInv, Owned, DoneOK, Working, Busy
  <1>4. /\ spent \in ApprovalRows /\ spent.used /\ spent.state = appr[a].state
        /\ spent.scope = appr[a].scope /\ spent.content = appr[a].content
        /\ spent.proposal = appr[a].proposal
    <2>1. appr[a] \in ApprovalRows BY <1>3 DEF Inv, TypeInv
    <2> HIDE DEF a
    <2> QED BY <2>1 DEF ApprovalRows
  <1>5. gone \in ProposalRows /\ gone.state = "gone" /\ gone.by = prop[p].by
    <2>1. prop[p] \in ProposalRows BY <1>3 DEF Inv, TypeInv
    <2> HIDE DEF p
    <2> QED BY <2>1 DEF ProposalRows
  <1>6. pc = "executing" <=> granted OBVIOUS
  <1>7. granted /\ once => ~appr[a].used OBVIOUS
  <1> HIDE DEF p, a, granted, pc, h, spent, gone
  <1>8. \A e \in Conns : conn'[e] = IF e = c THEN h ELSE conn[e] BY <1>1 DEF Inv, TypeInv
  <1>9. \A b \in Approvals :
          appr'[b] = IF b = a /\ granted /\ once THEN spent ELSE appr[b]
    BY <1>1, <1>3 DEF Inv, TypeInv
  <1>10. \A q \in Proposals :
          prop'[q] = IF q = p /\ granted /\ once THEN gone ELSE prop[q]
    BY <1>1, <1>3 DEF Inv, TypeInv
  <1>11. /\ appr' \in [Approvals -> ApprovalRows] /\ prop' \in [Proposals -> ProposalRows]
    BY <1>1, <1>4, <1>5 DEF Inv, TypeInv
  <1>12. ProposalsKept BY <1>3, <1>5, <1>10 DEF ProposalsKept
  <1>13. TypeInv'
    <2>1. /\ now' \in Nat /\ input' \in SUBSET Proposals /\ cancels' \in SUBSET Proposals
          /\ cancelled' \in SUBSET (Conns \X Proposals)
          /\ ran' \in [Approvals -> 0 .. 2] /\ done' \in [Proposals -> 0 .. 2] /\ TypeInv
      BY <1>1 DEF Inv, TypeInv
    <2> QED BY <1>1, <1>2, <1>3, <1>11, <2>1, TypesStay
  <1>14. Owned'
    <2>1. \A b \in Approvals : appr'[b].state = appr[b].state BY <1>4, <1>9
    <2> QED BY <1>2, <1>3, <1>8, <1>12, <2>1 DEF Inv, TypeInv, Owned, ProposalsKept
  <1>15. OnceOK'
    <2>1. /\ \A b \in Approvals : appr'[b].scope = appr[b].scope
          /\ \A b \in Approvals : appr'[b].state = appr[b].state
          /\ \A b \in Approvals : appr[b].used => appr'[b].used
          /\ \A b \in Approvals : b # a => appr'[b].used = appr[b].used
      BY <1>4, <1>9
    <2>2. \A e \in Conns, b \in Approvals : Executing(e, b)' =>
             Executing(e, b) \/ (e = c /\ b = a /\ granted)
      BY <1>2, <1>6, <1>8 DEF Executing
    <2>3. granted /\ once => ran[a] = 0 /\ appr'[a].used /\ \A e \in Conns : ~Executing(e, a)
      BY <1>3, <1>4, <1>7, <1>9 DEF Inv, OnceOK
    <2> QED BY <1>1, <1>3, <2>1, <2>2, <2>3 DEF Inv, OnceOK
  <1>16. DoneOK'
    <2>1. h.pc \in Busy => h.p \in Proposals /\ done[h.p] = 0 BY <1>2, <1>3
    <2> QED BY <1>1, <1>2, <1>12, <2>1, DoneStays
  <1>17. CancelsOK'
    <2>1. \A q \in Proposals : Settled(q) => Settled(q)' BY <1>4, <1>5, <1>9, <1>10 DEF Settled
    <2> QED BY <1>1, <1>12, <2>1, CancelsStay
  <1>18. OneStandingGrant' BY <1>4, <1>9 DEF Inv, OneStandingGrant
  <1> QED BY <1>13, <1>14, <1>15, <1>16, <1>17, <1>18 DEF Inv

LEMMA StartStep ==
  ASSUME Inv, NEW c \in Conns, StartAdapter(c)
  PROVE  Inv'
  <1> DEFINE p == conn[c].p
             a == conn[c].a
             h == [conn[c] EXCEPT !.pc = "running"]
  <1>1. /\ conn[c].pc = "executing" /\ conn' = [conn EXCEPT ![c] = h]
        /\ ran' = [ran EXCEPT ![a] = Twice(ran[a])]
        /\ UNCHANGED <<now, prop, input, appr, cancelled, done, cancels>>
    BY DEF StartAdapter, Step
  <1>2. h \in Handlers /\ h.pc = "running" /\ h.p = p /\ h.a = a BY GoesOn DEF Inv
  <1>3. /\ p \in Proposals /\ a \in Approvals /\ done[p] = 0
        /\ prop[p].state # "none" /\ prop[p].by = c /\ appr[a].state # "none"
    BY <1>1 DEF Inv, TypeInv, Owned, DoneOK, Working, Busy
  <1>4. Twice(ran[a]) \in 0 .. 2 /\ (ran[a] = 0 => Twice(ran[a]) = 1)
    BY <1>3 DEF Twice
  <1>5. Executing(c, a) BY <1>1 DEF Executing
  <1> HIDE DEF p, a, h
  <1>6. \A e \in Conns : conn'[e] = IF e = c THEN h ELSE conn[e] BY <1>1 DEF Inv, TypeInv
  <1>7. \A b \in Approvals : ran'[b] = IF b = a THEN Twice(ran[a]) ELSE ran[b]
    BY <1>1 DEF Inv, TypeInv
  <1>8. ProposalsKept /\ ApprovalsKept BY <1>1 DEF ProposalsKept, ApprovalsKept
  <1>9. TypeInv'
    <2>1. /\ now' \in Nat /\ input' \in SUBSET Proposals /\ cancels' \in SUBSET Proposals
          /\ cancelled' \in SUBSET (Conns \X Proposals)
          /\ prop' \in [Proposals -> ProposalRows] /\ appr' \in [Approvals -> ApprovalRows]
          /\ ran' \in [Approvals -> 0 .. 2] /\ done' \in [Proposals -> 0 .. 2] /\ TypeInv
      BY <1>1, <1>4 DEF Inv, TypeInv
    <2> QED BY <1>1, <1>2, <1>3, <2>1, TypesStay
  <1>10. Owned' BY <1>1, <1>2, <1>3, <1>8, OwnedStays
  <1>11. OnceOK'
    <2>1. \A e \in Conns, b \in Approvals : Executing(e, b)' => Executing(e, b) /\ e # c
      BY <1>2, <1>6 DEF Executing
    <2>2. appr[a].scope = "once" =>
             /\ appr[a].used /\ ran[a] = 0
             /\ \A e \in Conns : Executing(e, a) => e = c
      BY <1>3, <1>5 DEF Inv, OnceOK
    <2> QED BY <1>1, <1>3, <1>4, <1>7, <2>1, <2>2 DEF Inv, OnceOK
  <1>12. DoneOK' BY <1>1, <1>2, <1>3, <1>8, DoneStays
  <1>13. CancelsOK'
    <2>1. \A q \in Proposals : Settled(q) => Settled(q)' BY <1>1 DEF Settled
    <2> QED BY <1>1, <1>8, <2>1, CancelsStay
  <1>14. OneStandingGrant' BY <1>1 DEF Inv, OneStandingGrant
  <1> QED BY <1>9, <1>10, <1>11, <1>12, <1>13, <1>14 DEF Inv

LEMMA FinishStep ==
  ASSUME Inv, NEW c \in Conns, FinishAdapter(c)
  PROVE  Inv'
  <1>p. PICK p \in Proposals : p = conn[c].p
    BY DEF FinishAdapter, Inv, TypeInv, Working, Busy
  <1>0. PICK ok \in BOOLEAN :
          /\ conn' = [conn EXCEPT ![c].pc = "answer", ![c].ok = ok]
          /\ \/ ok /\ done' = [done EXCEPT ![p] = Twice(done[p])]
             \/ done' = done
    BY <1>p DEF FinishAdapter
  <1> DEFINE h == [conn[c] EXCEPT !.pc = "answer", !.ok = ok]
  <1>1. /\ conn[c].pc = "running" /\ conn' = [conn EXCEPT ![c] = h]
        /\ UNCHANGED <<now, prop, input, appr, cancelled, ran, cancels>>
    BY <1>0 DEF FinishAdapter
  <1>2. h \in Handlers /\ h.pc = "answer" /\ h.p = p /\ h.a = conn[c].a /\ h.ok = ok
    <2>1. conn[c] \in Handlers BY DEF Inv, TypeInv
    <2> QED BY <1>p, <2>1 DEF Handlers, Working, Busy
  <1>3. /\ conn[c].a \in Approvals /\ done[p] = 0
        /\ prop[p].state # "none" /\ prop[p].by = c /\ appr[conn[c].a].state # "none"
    BY <1>p, <1>1 DEF Inv, TypeInv, Owned, DoneOK, Working, Busy
  <1> HIDE DEF h
  <1>4. Twice(done[p]) = 1 BY <1>3 DEF Twice
  <1>5. \A e \in Conns : conn'[e] = IF e = c THEN h ELSE conn[e] BY <1>1 DEF Inv, TypeInv
  <1>6. done' = done \/ (ok /\ done' = [done EXCEPT ![p] = 1]) BY <1>0, <1>4
  <1>7. ProposalsKept /\ ApprovalsKept BY <1>1 DEF ProposalsKept, ApprovalsKept
  <1>8. TypeInv'
    <2>1. /\ now' \in Nat /\ input' \in SUBSET Proposals /\ cancels' \in SUBSET Proposals
          /\ cancelled' \in SUBSET (Conns \X Proposals)
          /\ prop' \in [Proposals -> ProposalRows] /\ appr' \in [Approvals -> ApprovalRows]
          /\ ran' \in [Approvals -> 0 .. 2] /\ done' \in [Proposals -> 0 .. 2] /\ TypeInv
      BY <1>1, <1>6 DEF Inv, TypeInv
    <2> QED BY <1>1, <1>2, <1>3, <2>1, TypesStay
  <1>9. Owned' BY <1>1, <1>2, <1>3, <1>7, OwnedStays
  <1>10. OnceOK' BY <1>1, <1>2, <1>7, OnceStays
  <1>11. DoneOK'
    <2>1. CASE done' = done
      <3>1. h.pc \notin Busy BY <1>2 DEF Busy
      <3> QED BY <1>1, <1>2, <1>7, <2>1, <3>1, DoneStays
    <2>2. CASE ok /\ done' = [done EXCEPT ![p] = 1]
      <3>1. \A q \in Proposals : done'[q] = IF q = p THEN 1 ELSE done[q]
        BY <2>2 DEF Inv, TypeInv
      <3>2. Ending(p)' BY <1>1, <1>2, <1>3, <1>5, <2>2 DEF Ending
      <3>3. \A q \in Proposals : Ending(q) => Ending(q)' BY <1>1, <1>5 DEF Ending
      <3>4. \A e \in Conns : conn'[e].pc \in Busy => conn'[e].p # p
        <4> SUFFICES ASSUME NEW e \in Conns, conn'[e].pc \in Busy, conn'[e].p = p
                     PROVE  FALSE
          OBVIOUS
        <4>1. e # c BY <1>2, <1>5 DEF Busy
        <4>2. prop[p].by = e BY <1>5, <4>1 DEF Inv, Owned, Working
        <4> QED BY <1>3, <4>1, <4>2
      <3>5. \A e \in Conns : conn'[e].pc \in Busy =>
               conn'[e] = conn[e] /\ conn[e].p \in Proposals
        BY <1>2, <1>5 DEF Busy, Working, Inv, TypeInv
      <3>6. \A e \in Conns : conn'[e].pc \in Busy => done'[conn'[e].p] = 0
        BY <3>1, <3>4, <3>5 DEF Inv, DoneOK
      <3> QED BY <1>1, <1>3, <3>1, <3>2, <3>3, <3>6 DEF Inv, DoneOK
    <2> QED BY <1>6, <2>1, <2>2
  <1>12. CancelsOK'
    <2>1. \A q \in Proposals : Settled(q) => Settled(q)' BY <1>1 DEF Settled
    <2> QED BY <1>1, <1>7, <2>1, CancelsStay
  <1>13. OneStandingGrant' BY <1>1 DEF Inv, OneStandingGrant
  <1> QED BY <1>8, <1>9, <1>10, <1>11, <1>12, <1>13 DEF Inv

-----------------------------------------------------------------------------
(* The clock and the process.                                              *)

LEMMA TickStep ==
  ASSUME Inv, Tick
  PROVE  Inv'
  <1>1. now' \in Nat /\ UNCHANGED <<conn, prop, input, appr, cancelled, ran, done, cancels>>
    BY DEF Tick, Inv, TypeInv
  <1>2. TypeInv' BY <1>1 DEF Inv, TypeInv
  <1> QED BY <1>1, <1>2
    DEF Inv, Owned, OnceOK, Executing, DoneOK, Ending, OneStandingGrant, CancelsOK, Settled

LEMMA RestartStep ==
  ASSUME Inv, Restart
  PROVE  Inv'
  <1> DEFINE gone(p) == [prop[p] EXCEPT !.state = "gone"]
  <1>1. /\ conn' = [c \in Conns |-> IF conn[c].pc = "new" THEN conn[c] ELSE IdleConn("closed")]
        /\ prop' = [p \in Proposals |-> IF p \in Registry THEN gone(p) ELSE prop[p]]
        /\ input' = {} /\ cancelled' = {}
        /\ UNCHANGED <<now, appr, ran, done, cancels>>
    BY DEF Restart
  <1>2. \A p \in Proposals : /\ gone(p) \in ProposalRows /\ gone(p).state = "gone"
                             /\ gone(p).by = prop[p].by
    BY DEF Inv, TypeInv, ProposalRows
  <1> HIDE DEF gone
  <1>3. \A c \in Conns : conn'[c] \in Handlers /\ conn'[c].pc \notin Working
    <2>1. "new" \notin Working BY DEF Working, Busy
    <2> QED BY <1>1, <2>1, IdleTypes DEF Inv, TypeInv
  <1>4. Busy \subseteq Working /\ "executing" \in Working BY DEF Working, Busy
  <1>5. TypeInv'
    <2>1. conn' \in [Conns -> Handlers] BY <1>1, <1>3
    <2>2. prop' \in [Proposals -> ProposalRows] BY <1>1, <1>2 DEF Inv, TypeInv
    <2> QED BY <1>1, <1>3, <2>1, <2>2 DEF Inv, TypeInv
  <1>6. Owned' BY <1>3 DEF Owned
  <1>7. OnceOK' BY <1>1, <1>3, <1>4 DEF Inv, OnceOK, Executing
  <1>8. \A p \in Proposals : prop[p].state # "none" => prop'[p].state # "none"
    BY <1>1, <1>2
  <1>9. DoneOK' BY <1>1, <1>3, <1>4, <1>8 DEF Inv, DoneOK
  <1>10. CancelsOK'
    <2>1. \A p \in Proposals : Settled(p) => Settled(p)' BY <1>1, <1>2 DEF Settled
    <2> QED BY <1>1, <2>1 DEF Inv, TypeInv, CancelsOK
  <1>11. OneStandingGrant' BY <1>1 DEF Inv, OneStandingGrant
  <1> QED BY <1>5, <1>6, <1>7, <1>9, <1>10, <1>11 DEF Inv

LEMMA InitInv == Init => Inv
  <1> SUFFICES ASSUME Init PROVE Inv
    OBVIOUS
  <1>1. \A c \in Conns : conn[c] \in Handlers /\ conn[c].pc = "new" /\ conn[c].pc \notin Working
    BY IdleTypes DEF Init
  <1>2. /\ NoProposalRow \in ProposalRows /\ NoApprovalRow \in ApprovalRows
        /\ NoProposalRow.state = "none"
        /\ NoApprovalRow.state = "none" /\ NoApprovalRow.scope = "once"
    BY DEF NoProposalRow, NoApprovalRow, ProposalRows, ApprovalRows, Scopes
  <1>3. TypeInv
    <2>1. conn \in [Conns -> Handlers] BY <1>1 DEF Init
    <2> QED BY <1>1, <1>2, <2>1 DEF Init, TypeInv
  <1>4. Owned /\ DoneOK
    BY <1>1 DEF Init, Owned, DoneOK, Busy, Working
  <1>5. OnceOK BY <1>1, <1>2 DEF Init, OnceOK, Executing
  <1>6. OneStandingGrant /\ CancelsOK
    BY <1>2 DEF Init, OneStandingGrant, CancelsOK
  <1> QED BY <1>3, <1>4, <1>5, <1>6 DEF Inv

LEMMA NextInv == Inv /\ [Next]_approvalVars => Inv'
  <1> SUFFICES ASSUME Inv, [Next]_approvalVars PROVE Inv'
    OBVIOUS
  <1>1. CASE UNCHANGED approvalVars
    BY <1>1
    DEF approvalVars, Inv, TypeInv, Owned, OnceOK, Executing, DoneOK, Ending,
        OneStandingGrant, CancelsOK, Settled
  <1>2. ASSUME NEW c \in Conns, Serve(c) PROVE Inv'
    BY <1>2, QuietSteps, PrepareStep, GrantStep, CancelStep, WithdrawStep, TakeStep,
       StartStep, FinishStep DEF Serve
  <1> QED BY <1>1, <1>2, TickStep, RestartStep DEF Next

LEMMA InvHolds == Spec => []Inv
  BY InitInv, NextInv, PTL DEF Spec

\* An approval for once starts an adapter at most once, however many confirmations
\* of it are under way and wherever the process stops (consume_once).
THEOREM RunsOnce == Spec => []OnceRunsOnce
  <1>1. Inv => OnceRunsOnce BY DEF Inv, OnceOK, OnceRunsOnce
  <1> QED BY InvHolds, <1>1, PTL

\* What a proposal asks for succeeds at most once, whatever the scope of its
\* approval: the input goes with the first terminal answer.
THEOREM DoneOnce == Spec => []SucceedsOnce
  <1>1. Inv => SucceedsOnce BY DEF Inv, DoneOK, SucceedsOnce
  <1> QED BY InvHolds, <1>1, PTL

\* A content never has two standing grants (rebind_precise_persistent).
THEOREM StandingGrantHolds == Spec => []OneStandingGrant
  <1>1. Inv => OneStandingGrant BY DEF Inv
  <1> QED BY InvHolds, <1>1, PTL

\* A cancellation that was answered is final, for every connection and across
\* restarts (cancel_proposal).
THEOREM CancellationHolds == Spec => []CancelledStaysCancelled
  <1>1. Inv => CancelledStaysCancelled
    BY DEF Inv, TypeInv, CancelsOK, Settled, CancelledStaysCancelled, Registry
  <1> QED BY InvHolds, <1>1, PTL
=============================================================================
