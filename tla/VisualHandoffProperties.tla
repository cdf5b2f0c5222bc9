----------------------- MODULE VisualHandoffProperties -----------------------
(***************************************************************************)
(* What handoffs, transfers and analyses promise.                          *)
(***************************************************************************)
EXTENDS VisualHandoff

\* Whoever decides about a handoff at the same time (desktops, or the desktop
\* and the guest), those that are told they succeeded are told the same, and it is
\* what the handoff stays (_transition_for_owner, HandoffService).
OneDecision ==
    \A h \in Handoffs : told[h] \subseteq {offer[h].st}

\* Once a guest was told that an analysis is cancelled or expired, no observation of
\* it is sent, however far its thread had come (VisionService.complete, and the task
\* the handler cancelled first).
EndedStaysEnded == ended \cap seen = {}

\* A transfer that holds a place in the buffer is one its connection can still end (it
\* is pending, or in the hands of the message that declares it), unless the server lost
\* it (lost).  A binding is to the pending transfer or to the one that is pending next,
\* and goes with it (_handle_visual_control).
InHand(g, t) == req[g].pc \in {"attach", "track", "undo"} /\ req[g].t = t

TrackedTransfers ==
    /\ \A t \in Transfers \ lost : buffer[t].st = "pending" =>
          LET g == buffer[t].by IN pending[g] = t \/ InHand(g, t)
    /\ \A g \in Guests : binding[g] # NoBinding =>
          \/ pending[g] = binding[g].t
          \/ req[g].pc = "track" /\ req[g].t = binding[g].t
          \/ req[g].pc = "forget"

\* When a guest's disconnection was handled, no task, no analysis and nothing of its
\* images is left, except transfers on which the clean-up failed, and no thread that
\* still runs brings anything back (the clean-up of _handle_connection).
GoneLeavesNothing ==
    \A g \in Guests : req[g].pc = "gone" =>
        /\ pending[g] = NoTransfer /\ binding[g] = NoBinding
        /\ \A t \in Transfers \ lost : buffer[t].by # g
        /\ Held(g) = {} /\ \A a \in Analyses : record[a].by # g

=============================================================================
