------------------ MODULE ProductivityApprovalsProperties ------------------
(* What productivity approvals promise. *)
EXTENDS ProductivityApprovals

\* docs/PHASE_3_COMPLETION.md: consumption precedes execution and cannot be
\* replayed.  An approval for once starts an adapter at most once, across adapter
\* errors, lost clients, retries and restarts (consume_once).
OnceRunsOnce ==
    \A a \in Approvals : appr[a].scope = "once" => ran[a] <= 1

\* What a proposal asks for is done at most once, though an approval of another
\* scope may be executed again and again: only the retained input stands between
\* the two (_clear_prepared_inputs_if_terminal).
SucceedsOnce == \A p \in Proposals : done[p] <= 1

\* One standing grant at most for the same content: revoking it leaves no twin
\* that still authorizes it (rebind_precise_persistent under the runtime's lock).
OneStandingGrant ==
    \A a, b \in Approvals :
        /\ appr[a].state = "live" /\ appr[a].scope = "persistent"
        /\ appr[b].state = "live" /\ appr[b].scope = "persistent"
        /\ appr[a].content = appr[b].content
        => a = b

\* Once its own session was told that a proposal is cancelled, nothing is left
\* that could still authorize it, and nothing comes back: the proposal is gone and
\* its durable approvals, which need no session, are revoked (cancel_proposal).
CancelledStaysCancelled ==
    \A p \in cancels :
        /\ p \notin Registry
        /\ \A a \in Approvals : /\ appr[a].proposal = p
                               /\ appr[a].scope \notin OfSession
                               => appr[a].state = "revoked"

=============================================================================
