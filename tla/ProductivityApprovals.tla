----------------------- MODULE ProductivityApprovals -----------------------
(***************************************************************************)
(* Productivity approvals and execution (core/productivity and its         *)
(* handlers in core/server.py).                                            *)
(*                                                                         *)
(* A proposal lives in memory, in the registry every connection shares,    *)
(* and its prepared input beside it; the approvals live in SQLite.  A      *)
(* connection serves one message at a time, and a confirmation is one long *)
(* message: grant the approval, say so, build the request, consume the     *)
(* approval, say so, run the adapter, say so.  Between those steps other   *)
(* connections confirm and cancel, the client may go away and the process  *)
(* may stop.                                                               *)
(***************************************************************************)
EXTENDS Naturals, FiniteSets

CONSTANTS
    Conns,                   \* connections; each is its own session, never reopened
    Proposals, Contents,     \* proposal ids; what a proposal asks for (its digest)
    Approvals,               \* approval ids
    NoConn, NoProposal, NoContent, NoApproval,
    MaxActive,               \* _MAX_ACTIVE
    ProposalTTL, OnceTTL,    \* life of a proposal and of an approval for once
    Durations,               \* _DURATION_CHOICES
    MaxTime                  \* bound: the clock

ASSUME ApprovalNames ==
    /\ NoConn \notin Conns /\ NoProposal \notin Proposals
    /\ NoContent \notin Contents /\ NoApproval \notin Approvals
ASSUME ApprovalBounds ==
    /\ MaxActive \in Nat /\ MaxTime \in Nat
    /\ ProposalTTL \in Nat \ {0} /\ OnceTTL \in Nat \ {0} /\ Durations \subseteq Nat \ {0}

VARIABLES
    now,        \* the clock
    conn,       \* per connection: what its handler has in hand
    prop,       \* _ProposalRegistry, and what became of the ids it gave up
    input,      \* proposals whose prepared input is retained
    appr,       \* the approvals table
    cancelled,  \* ProductivityRuntime._cancelled
    ran,        \* history: adapter starts of each approval, counted to two
    done,       \* history: successful executions of each proposal, counted to two
    cancels     \* history: proposals whose cancellation their session was told

approvalVars == <<now, conn, prop, input, appr, cancelled, ran, done, cancels>>

Never == MaxTime + ProposalTTL + 1     \* the expiry of a persistent approval

Scopes == {"once", "session", "duration", "persistent"}
OfSession == {"once", "session"}

IdleConn(pc) == [pc |-> pc, p |-> NoProposal, a |-> NoApproval, t |-> 0, ok |-> FALSE]
NoProposalRow == [state |-> "none", by |-> NoConn, content |-> NoContent, exp |-> 0]
NoApprovalRow ==
    [state |-> "none", scope |-> "once", session |-> NoConn, proposal |-> NoProposal,
     content |-> NoContent, at |-> 0, exp |-> 0, used |-> FALSE]

Twice(n) == IF n = 0 THEN 1 ELSE 2
Least(m, n) == IF m <= n THEN m ELSE n

Open(c) == conn[c].pc = "open"
Step(c, pc) == conn' = [conn EXCEPT ![c].pc = pc]
EndMessage(c) == conn' = [conn EXCEPT ![c] = IdleConn("open")]

Registry == {p \in Proposals : prop[p].state = "live"}
Held(c, p) == p \in Registry /\ prop[p].by = c              \* _get_raw
Fresh(p) == now < prop[p].exp
Usable(a, t) == appr[a].state = "live" /\ t < appr[a].exp
Newest(S) == {a \in S : \A b \in S : appr[b].at <= appr[a].at}

-----------------------------------------------------------------------------
(* Preparation.                                                            *)

Connect(c) ==
    /\ conn[c].pc = "new"
    /\ EndMessage(c)
    /\ UNCHANGED <<now, prop, input, appr, cancelled, ran, done, cancels>>

\* The *_prepare handlers: a fresh proposal and its input are stored; when the
\* registry is full the input is taken back and the id is lost.
Prepare(c, p, x) ==
    /\ Open(c) /\ prop[p].state = "none"
    /\ IF Cardinality(Registry) < MaxActive
       THEN /\ prop' = [prop EXCEPT ![p] = [state |-> "live", by |-> c, content |-> x,
                                            exp |-> now + ProposalTTL]]
            /\ input' = input \cup {p}
       ELSE /\ prop' = [prop EXCEPT ![p].state = "gone"]
            /\ UNCHANGED input
    /\ UNCHANGED <<now, conn, appr, cancelled, ran, done, cancels>>

-----------------------------------------------------------------------------
(* Confirmation: confirm_and_ticket, under the runtime's lock.             *)

\* find_current_for_proposal: unrevoked first, then the newest.
Shown(c, p) ==
    LET all == {a \in Approvals : /\ appr[a].state # "none" /\ appr[a].proposal = p
                                  /\ appr[a].scope \in OfSession => appr[a].session = c}
        live == {a \in all : appr[a].state = "live"}
    IN  Newest(IF live # {} THEN live ELSE all)

\* "pending" and "confirmed"; any other status ends the message.
Confirmable(c, p) ==
    \/ Shown(c, p) = {}
    \/ \E a \in Shown(c, p) : Usable(a, now) /\ ~appr[a].used

\* An id not held by this session is refused; an expired proposal, or one whose
\* approval is spent, revoked or expired, also gives up its input.
RefuseConfirm(c, p) ==
    /\ Open(c)
    /\ Held(c, p) /\ (Fresh(p) => ~Confirmable(c, p))
    /\ input' = input \ {p}
    /\ UNCHANGED <<now, conn, prop, appr, cancelled, ran, done, cancels>>

\* The expiries of each scope.
Expiry(p, s, d) ==
    CASE s = "once"       -> Least(prop[p].exp, now + OnceTTL)
      [] s = "session"    -> prop[p].exp        \* _SESSION_TTL_SECONDS is longer
      [] s = "duration"   -> Least(prop[p].exp, now + d)
      [] s = "persistent" -> Never

\* find_current: the unrevoked approval of that scope, used and expired ones
\* included.
Current(c, p, s) ==
    Newest({a \in Approvals : /\ appr[a].state = "live" /\ appr[a].proposal = p
                              /\ appr[a].scope = s
                              /\ s \in OfSession => appr[a].session = c})

\* Mutant: no standing grant is ever taken over.
MutRebindable(p) == {}

\* rebind_precise_persistent: a standing grant for exactly this content.
Rebindable(p) ==
    Newest({a \in Approvals : /\ appr[a].state = "live" /\ appr[a].scope = "persistent"
                              /\ appr[a].content = prop[p].content})

Issue(c, p, s, d, a) ==
    /\ appr[a].state = "none"
    /\ appr' = [appr EXCEPT ![a] =
                   [state |-> "live", scope |-> s,
                    session |-> IF s \in OfSession THEN c ELSE NoConn, proposal |-> p,
                    content |-> prop[p].content, at |-> now, exp |-> Expiry(p, s, d),
                    used |-> FALSE]]

\* An approval of that scope is found, a standing grant is moved to the
\* proposal, or a new approval is issued.
GrantConfirm(c, p, s, d) ==
    /\ Open(c)
    /\ Held(c, p) /\ Fresh(p) /\ Confirmable(c, p)
    /\ \E a \in Approvals :
          /\ \/ /\ a \in Current(c, p, s)
                /\ UNCHANGED appr
             \/ /\ Current(c, p, s) = {} /\ s = "persistent" /\ a \in Rebindable(p)
                /\ appr' = [appr EXCEPT ![a].proposal = p]
             \/ /\ Current(c, p, s) = {} /\ (s = "persistent" => Rebindable(p) = {})
                /\ Issue(c, p, s, d, a)
          /\ conn' = [conn EXCEPT ![c] = [IdleConn("approved") EXCEPT !.p = p, !.a = a]]
    /\ UNCHANGED <<now, prop, input, cancelled, ran, done, cancels>>

-----------------------------------------------------------------------------
(* Cancellation: runtime.cancel, under the same lock.                      *)

\* Mutant: the proposal is withdrawn and what it was granted stays.
MutCancelEffect(c, p) ==
    /\ prop' = IF Held(c, p) THEN [prop EXCEPT ![p].state = "gone"] ELSE prop
    /\ cancelled' = cancelled \cup {<<c, p>>}
    /\ UNCHANGED appr

\* A second cancellation by the same session changes nothing.  A session that
\* does not hold the proposal only reaches its durable approvals.
CancelEffect(c, p) ==
    LET hit == {a \in Approvals : /\ appr[a].state = "live" /\ appr[a].proposal = p
                                  /\ Held(c, p) \/ appr[a].scope \notin OfSession}
    IN  IF <<c, p>> \in cancelled THEN UNCHANGED <<prop, appr, cancelled>>
        ELSE /\ prop' = IF Held(c, p) THEN [prop EXCEPT ![p].state = "gone"] ELSE prop
             /\ appr' = [a \in Approvals |-> IF a \in hit
                            THEN [appr[a] EXCEPT !.state = "revoked"] ELSE appr[a]]
             /\ cancelled' = cancelled \cup {<<c, p>>}

\* productivity_cancel.
Cancel(c, p) ==
    /\ Open(c) /\ prop[p].state # "none"
    /\ CancelEffect(c, p)
    /\ input' = IF prop[p].by = c THEN input \ {p} ELSE input
    /\ cancels' = IF prop[p].by = c THEN cancels \cup {p} ELSE cancels
    /\ UNCHANGED <<now, conn, ran, done>>

-----------------------------------------------------------------------------
(* Execution: the rest of _handle_productivity_confirm.                    *)

\* The client was told "approved"; the request needs exactly the one retained
\* input.  authorize_execution reads the clock once.
BuildRequest(c) ==
    /\ conn[c].pc = "approved"
    /\ conn' = [conn EXCEPT ![c].pc = IF conn[c].p \in input THEN "consume" ELSE "withdraw",
                            ![c].t = now]
    /\ UNCHANGED <<now, prop, input, appr, cancelled, ran, done, cancels>>

\* ProductivityService.consume, as far as evaluate_consume: outside the lock.
Evaluate(c) ==
    LET p == conn[c].p
        a == conn[c].a
    IN  /\ conn[c].pc = "consume"
        /\ conn' = [conn EXCEPT ![c].pc =
                       IF /\ Held(c, p)
                          /\ conn[c].t < prop[p].exp \/ appr[a].scope = "persistent"
                          /\ Usable(a, conn[c].t) /\ ~appr[a].used
                          /\ appr[a].proposal = p /\ appr[a].content = prop[p].content
                          /\ appr[a].scope \in OfSession => appr[a].session = c
                       THEN "take" ELSE "withdraw"]
        /\ UNCHANGED <<now, prop, input, appr, cancelled, ran, done, cancels>>

\* Mutant: every scope is verified only.
MutTake(c) ==
    /\ conn[c].pc = "take"
    /\ Step(c, IF Usable(conn[c].a, conn[c].t) THEN "executing" ELSE "withdraw")
    /\ UNCHANGED <<now, prop, input, appr, cancelled, ran, done, cancels>>

\* consume_once, which also ends the proposal, and consume for the other scopes.
Take(c) ==
    LET p == conn[c].p
        a == conn[c].a
        once == appr[a].scope = "once"
        granted == Usable(a, conn[c].t) /\ (once => ~appr[a].used)
    IN  /\ conn[c].pc = "take"
        /\ Step(c, IF granted THEN "executing" ELSE "withdraw")
        /\ appr' = IF granted /\ once THEN [appr EXCEPT ![a].used = TRUE] ELSE appr
        /\ prop' = IF granted /\ once THEN [prop EXCEPT ![p].state = "gone"] ELSE prop
        /\ UNCHANGED <<now, input, cancelled, ran, done, cancels>>

\* _revoke_unconsumed_approval, whatever went wrong; then the error is sent.
\* proposal_expired is the only code that also gives up the input.
Withdraw(c) ==
    LET p == conn[c].p IN
    /\ conn[c].pc = "withdraw"
    /\ CancelEffect(c, p)
    /\ \/ input' = input
       \/ conn[c].t >= prop[p].exp /\ input' = input \ {p}
    /\ EndMessage(c)
    /\ UNCHANGED <<now, ran, done, cancels>>

\* The client was told "executing"; the ticket is used once.
StartAdapter(c) ==
    /\ conn[c].pc = "executing"
    /\ Step(c, "running")
    /\ ran' = [ran EXCEPT ![conn[c].a] = Twice(@)]
    /\ UNCHANGED <<now, prop, input, appr, cancelled, done, cancels>>

\* The adapter succeeds or reports its failure (ok: a terminal answer), or raises.
FinishAdapter(c) ==
    /\ conn[c].pc = "running"
    /\ \/ /\ conn' = [conn EXCEPT ![c].pc = "answer", ![c].ok = TRUE]
          /\ done' = [done EXCEPT ![conn[c].p] = Twice(@)]
       \/ /\ \E ok \in BOOLEAN : conn' = [conn EXCEPT ![c].pc = "answer", ![c].ok = ok]
          /\ UNCHANGED done
    /\ UNCHANGED <<now, prop, input, appr, cancelled, ran, cancels>>

\* Mutant: the input outlives a terminal answer.
MutAnswer(c) ==
    /\ conn[c].pc = "answer"
    /\ EndMessage(c)
    /\ UNCHANGED <<now, prop, input, appr, cancelled, ran, done, cancels>>

Answer(c) ==
    /\ conn[c].pc = "answer"
    /\ input' = IF conn[c].ok THEN input \ {conn[c].p} ELSE input
    /\ EndMessage(c)
    /\ UNCHANGED <<now, prop, appr, cancelled, ran, done, cancels>>

-----------------------------------------------------------------------------
Tick ==
    /\ now < MaxTime
    /\ now' = now + 1
    /\ UNCHANGED <<conn, prop, input, appr, cancelled, ran, done, cancels>>

\* The client is gone: seen between two messages or when something is sent to it.
\* Its inputs are cleared; its proposals stay in the registry.
Disconnect(c) ==
    /\ conn[c].pc \in {"open", "approved", "executing", "answer"}
    /\ conn' = [conn EXCEPT ![c] = IdleConn("closed")]
    /\ input' = {p \in input : prop[p].by # c}
    /\ UNCHANGED <<now, prop, appr, cancelled, ran, done, cancels>>

\* The process stops anywhere: all that is left is the approvals table.
Restart ==
    /\ \E c \in Conns : conn[c].pc \notin {"new", "closed"}
    /\ conn' = [c \in Conns |-> IF conn[c].pc = "new" THEN conn[c] ELSE IdleConn("closed")]
    /\ prop' = [p \in Proposals |-> IF p \in Registry
                   THEN [prop[p] EXCEPT !.state = "gone"] ELSE prop[p]]
    /\ input' = {} /\ cancelled' = {}
    /\ UNCHANGED <<now, appr, ran, done, cancels>>

Init ==
    /\ now = 0
    /\ conn = [c \in Conns |-> IdleConn("new")]
    /\ prop = [p \in Proposals |-> NoProposalRow]
    /\ input = {}
    /\ appr = [a \in Approvals |-> NoApprovalRow]
    /\ cancelled = {}
    /\ ran = [a \in Approvals |-> 0]
    /\ done = [p \in Proposals |-> 0]
    /\ cancels = {}

Serve(c) ==
    \/ Connect(c)
    \/ \E p \in Proposals, x \in Contents : Prepare(c, p, x)
    \/ \E p \in Proposals : RefuseConfirm(c, p) \/ Cancel(c, p)
    \/ \E p \in Proposals, s \in Scopes, d \in Durations : GrantConfirm(c, p, s, d)
    \/ BuildRequest(c) \/ Evaluate(c) \/ Take(c) \/ Withdraw(c)
    \/ StartAdapter(c) \/ FinishAdapter(c) \/ Answer(c)
    \/ Disconnect(c)

Next == (\E c \in Conns : Serve(c)) \/ Tick \/ Restart

Spec == Init /\ [][Next]_approvalVars
=============================================================================
