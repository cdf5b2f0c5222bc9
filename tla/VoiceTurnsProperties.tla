------------------------ MODULE VoiceTurnsProperties ------------------------
(***************************************************************************)
(* What the turns of a voice session promise.                              *)
(***************************************************************************)
EXTENDS VoiceTurns

Sounding == player.st \in {"launching", "running", "paused", "ending"}

\* Once playback was stopped for a verified barge-in, no sentence of that response
\* is played any more, though its consumer may be rendering one and its generator
\* still be queueing them (handle_barge_in_speech bumps the epoch before it stops).
InterruptedStaysSilent == Sounding => player.r \notin cut

\* When shutdown reports STOPPED nothing is playing, and no consumer is left that
\* is about to play or waits for a player (shutdown joins all worker tasks, those
\* another finalizer was already waiting for included).
StoppedIsSilent ==
    state = "stopped" =>
        /\ ~Sounding
        /\ \A r \in Responses : pc[Con(r)] \notin {"render", "busy", "launching", "playing"}

\* As long as full duplex was never lost and every verified barge-in ended the response
\* it was heard under, a response is completed by the end of its own stream: the sentinel
\* carries no identity and no epoch, so one left over from an earlier response, or put
\* late by its generator, would cut the answer short.
AnswersAreNotCutShort ==
    losses = 0 /\ ~late => \A r \in Responses :
        pc[Con(r)] = "complete" => pc[Gen(r)] \in {"spoken", "done"}

=============================================================================
