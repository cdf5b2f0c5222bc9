----------------------------- MODULE VoiceTurns -----------------------------
(***************************************************************************)
(* The turns of a voice session (core/voice_session): the coordinator, its *)
(* sentence queue, its cancellation epoch and the subprocess that plays.   *)
(*                                                                         *)
(* Everything runs on one event loop: what stands between two awaits is    *)
(* one step, and every await is a point where the other tasks may run.     *)
(* The tasks: the caller of each user turn, a generator and a consumer per *)
(* response, the voice activity loop (barge-in) and the caller of shutdown.*)
(* A response has the number of its turn.                                  *)
(***************************************************************************)
EXTENDS Naturals, Sequences

CONSTANTS
    MaxTurns,     \* bound: user turns of the session
    MaxChunks,    \* bound: sentences of one answer
    Capacity,     \* queue_maxsize
    MaxBargeIns,  \* bound: times speech is heard under an answer
    MaxLosses     \* bound: times the evidence for full duplex is lost

ASSUME VoiceBounds ==
    /\ MaxTurns \in Nat /\ MaxChunks \in Nat /\ Capacity \in Nat \ {0}
    /\ MaxBargeIns \in Nat /\ MaxLosses \in Nat

Responses == 1 .. MaxTurns
None == 0                         \* no response; the utterance of a barge-in
End == 0                          \* the sentinel that ends a stream

Turn(r) == <<"turn", r>>
Gen(r) == <<"generator", r>>
Con(r) == <<"consumer", r>>
Vad == <<"vad", None>>
Stop == <<"shutdown", None>>
Workers == {Gen(r) : r \in Responses} \cup {Con(r) : r \in Responses}
Tasks == Workers \cup {Turn(r) : r \in Responses} \cup {Vad, Stop}

VARIABLES
    state,      \* _state
    active,     \* _active_response
    utt,        \* _utterance_id: a turn, or None for a barge-in
    epoch,      \* the generation of the cancellation tracker
    down,       \* _is_shutdown
    gen,        \* the epoch each turn was begun, then its response created, in
    pc,         \* where each task waits
    fin,        \* what each task that finalizes a response waits for
    tasks,      \* _response_tasks
    cancelled,  \* tasks whose cancel() was called
    queue,      \* the sentence queue: response numbers and End
    said,       \* sentences each generator has queued
    player,     \* CancellablePlaybackAdapter and its subprocess
    heard,      \* the response the current barge-in is about
    barges, losses,   \* bounds
    cut,        \* history: responses stopped for a verified barge-in
    late        \* history: one was verified after the response it was heard under

voiceVars == <<state, active, utt, epoch, down, gen, pc, fin, tasks, cancelled,
               queue, said, player, heard, barges, losses, cut, late>>

\* Neither the coordinator's own fields nor the session's bounds.
sessionVars == <<active, utt, epoch, down, gen, heard, barges, losses, cut, late>>

NoPlayback == [r |-> None, st |-> "none"]
NoFin == [r |-> None, out |-> "none", wait |-> {}]

Ready == {"idle", "listening", "degraded", "error"}     \* states a turn may start in
Answering == {"generating", "speaking"}

Alive(t) == pc[t] \notin {"none", "done"}
Runs(t) == t \notin cancelled

\* Mutant: only the response is compared, not the utterance or the epoch.
MutLive(r) == r # None /\ ~down /\ active = r

\* _is_response_active_locked.
Live(r) == r # None /\ ~down /\ active = r /\ utt = r /\ epoch <= gen[r]

\* _transition_to: after a shutdown only STOPPED is entered.
MoveTo(s) == state' = IF down THEN state ELSE s

At(t, from) == pc[t] = from /\ Runs(t)
Goto(t, to) == pc' = [pc EXCEPT ![t] = to]

-----------------------------------------------------------------------------
(* The playback adapter: one handle, a subprocess, a lock held to launch.  *)

\* stop(): SIGTERM.  A process that pause() stopped with SIGSTOP does not act
\* on it, and nothing continues such a process.
Terminated(p) == IF p.st = "running" THEN [p EXCEPT !.st = "ending"] ELSE p
Paused(p) == IF p.st = "running" THEN [p EXCEPT !.st = "paused"] ELSE p
LockFree == player.st # "launching"

\* What stop() waits for: the process it saw has ended; the handle is forgotten.
Over(r) == player.r # r \/ player.st \in {"none", "exited"}
Forget(r) == player' = IF player.r = r /\ player.st = "exited" THEN NoPlayback ELSE player

\* The caller waits for the lock, or for the process that is to end.
CallStop(t) ==
    IF LockFree
    THEN /\ player' = Terminated(player)
         /\ fin' = [fin EXCEPT ![t] = [NoFin EXCEPT !.r = player.r]]
         /\ Goto(t, "halt")
    ELSE Goto(t, "stop") /\ UNCHANGED <<player, fin>>

PlaybackExits ==
    /\ player.st \in {"running", "ending"}
    /\ player' = [player EXCEPT !.st = "exited"]
    /\ UNCHANGED <<state, pc, fin, tasks, cancelled, queue, said>>
    /\ UNCHANGED sessionVars

-----------------------------------------------------------------------------
(* _finalize_response, as a part of the task that calls it.                *)

\* Where the caller goes on.
Resume(t, out) == IF t # Vad THEN "done"
                  ELSE IF out = "interrupted" THEN "submit" ELSE "idle"

Outcome(out) ==
    CASE out = "interrupted" -> "interrupted"
      [] out = "playback_failed" -> "degraded"
      [] out \in {"generation_error", "renderer_error", "verification_error",
                  "transcript_error"} -> "error"
      [] OTHER -> "listening"

\* _matches_active_response_locked: the epoch is not looked at.
Owns(r) == ~down /\ active = r

\* Mutant: the sentences still queued are left to be dropped as stale.
MutFinalize(t, r, out) ==
    IF Owns(r)
    THEN LET others == {w \in tasks \ {t} : Alive(w)}
         IN  /\ active' = None
             /\ tasks' = tasks \ others
             /\ cancelled' = cancelled \cup others
             /\ Goto(t, "join")
             /\ fin' = [fin EXCEPT ![t] = [r |-> None, out |-> out, wait |-> others]]
             /\ UNCHANGED <<state, queue>>
    ELSE Goto(t, Resume(t, out)) /\ UNCHANGED <<state, active, tasks, queue, cancelled, fin>>

\* The response stops being active, the queue is emptied and every other task of
\* _response_tasks is cancelled; the caller waits for them, if there are any.
Finalize(t, r, out) ==
    IF Owns(r)
    THEN LET others == {w \in tasks \ {t} : Alive(w)}
         IN  /\ active' = None
             /\ tasks' = tasks \ others
             /\ queue' = <<>>
             /\ cancelled' = cancelled \cup others
             /\ IF others = {} /\ out = "completed"
                THEN MoveTo("listening") /\ Goto(t, Resume(t, out)) /\ UNCHANGED fin
                ELSE /\ Goto(t, "join")
                     /\ fin' = [fin EXCEPT ![t] = [r |-> None, out |-> out, wait |-> others]]
                     /\ UNCHANGED state
    ELSE Goto(t, Resume(t, out)) /\ UNCHANGED <<state, active, tasks, queue, cancelled, fin>>

Settle(t, out) == MoveTo(Outcome(out)) /\ Goto(t, Resume(t, out))

\* gather() returns; playback is stopped unless the response was completed.
Join(t) ==
    /\ At(t, "join") /\ \A w \in fin[t].wait : ~Alive(w)
    /\ IF fin[t].out = "completed"
       THEN Settle(t, "completed") /\ fin' = [fin EXCEPT ![t] = NoFin] /\ UNCHANGED player
       ELSE /\ LockFree
            /\ player' = Terminated(player)
            /\ fin' = [fin EXCEPT ![t] = [r |-> player.r, out |-> fin[t].out, wait |-> {}]]
            /\ Goto(t, "stopping")
            /\ UNCHANGED state
    /\ UNCHANGED <<tasks, cancelled, queue, said>>
    /\ UNCHANGED sessionVars

Stopped(t) ==
    /\ At(t, "stopping") /\ Over(fin[t].r)
    /\ Forget(fin[t].r)
    /\ Settle(t, fin[t].out)
    /\ fin' = [fin EXCEPT ![t] = NoFin]
    /\ UNCHANGED <<tasks, cancelled, queue, said>>
    /\ UNCHANGED sessionVars

-----------------------------------------------------------------------------
(* process_user_turn.                                                      *)

StartTurn(r) ==
    /\ pc[Turn(r)] = "none" /\ \A q \in 1 .. r - 1 : pc[Turn(q)] # "none"
    /\ ~down /\ state \in Ready
    /\ utt' = r
    /\ gen' = [gen EXCEPT ![r] = epoch]
    /\ state' = "processing"
    /\ Goto(Turn(r), "final")
    /\ UNCHANGED <<active, epoch, down, fin, tasks, cancelled, queue, said, player,
                   heard, barges, losses, cut, late>>

\* process_final refuses: shutdown, a stale epoch, or its own checks.
RefuseTurn(r) ==
    /\ pc[Turn(r)] = "final"
    /\ MoveTo("error")
    /\ Goto(Turn(r), "done")
    /\ UNCHANGED <<fin, tasks, cancelled, queue, said, player>>
    /\ UNCHANGED sessionVars

CheckTurn(r) ==
    /\ pc[Turn(r)] = "final" /\ ~down /\ epoch <= gen[r]
    /\ Goto(Turn(r), "submit")
    /\ UNCHANGED <<state, fin, tasks, cancelled, queue, said, player>>
    /\ UNCHANGED sessionVars

\* The turn sink raises.
FailTurn(r) ==
    /\ pc[Turn(r)] = "submit"
    /\ MoveTo("error")
    /\ Goto(Turn(r), "done")
    /\ UNCHANGED <<fin, tasks, cancelled, queue, said, player>>
    /\ UNCHANGED sessionVars

\* The sink took the turn: its response becomes the active one.
AnswerTurn(r) ==
    /\ pc[Turn(r)] = "submit"
    /\ active' = r
    /\ gen' = [gen EXCEPT ![r] = epoch]
    /\ MoveTo("generating")
    /\ Goto(Turn(r), "launch")
    /\ UNCHANGED <<utt, epoch, down, fin, tasks, cancelled, queue, said, player,
                   heard, barges, losses, cut, late>>

LaunchTurn(r) ==
    /\ pc[Turn(r)] = "launch"
    /\ tasks' = tasks \cup {Gen(r), Con(r)}
    /\ pc' = [pc EXCEPT ![Turn(r)] = "done", ![Gen(r)] = "new", ![Con(r)] = "loop"]
    /\ UNCHANGED <<state, fin, cancelled, queue, said, player>>
    /\ UNCHANGED sessionVars

-----------------------------------------------------------------------------
(* _run_generation_and_enqueue.                                            *)

StartGenerator(r) ==
    /\ At(Gen(r), "new")
    /\ Goto(Gen(r), IF Live(r) THEN "stream" ELSE "done")
    /\ UNCHANGED <<state, fin, tasks, cancelled, queue, said, player>>
    /\ UNCHANGED sessionVars

\* _safe_put_chunk waits for room as long as the epoch is not stale.
MayPut(r) == ~down /\ epoch <= gen[r] /\ Len(queue) < Capacity

PutSentence(r) ==
    /\ At(Gen(r), "stream") /\ MayPut(r) /\ said[r] < MaxChunks
    /\ queue' = Append(queue, r)
    /\ said' = [said EXCEPT ![r] = @ + 1]
    /\ UNCHANGED <<state, pc, fin, tasks, cancelled, player>>
    /\ UNCHANGED sessionVars

PutEnd(r) ==
    /\ At(Gen(r), "stream") /\ MayPut(r)
    /\ queue' = Append(queue, End)
    /\ Goto(Gen(r), "spoken")
    /\ UNCHANGED <<state, fin, tasks, cancelled, said, player>>
    /\ UNCHANGED sessionVars

\* A stale or shut down stream is left without its sentinel.
AbandonStream(r) ==
    /\ At(Gen(r), "stream") /\ (down \/ epoch > gen[r])
    /\ Goto(Gen(r), "spoken")
    /\ UNCHANGED <<state, fin, tasks, cancelled, queue, said, player>>
    /\ UNCHANGED sessionVars

EndGenerator(r) ==
    /\ At(Gen(r), "spoken")
    /\ IF Live(r) THEN MoveTo("speaking") ELSE UNCHANGED state
    /\ Goto(Gen(r), "done")
    /\ UNCHANGED <<fin, tasks, cancelled, queue, said, player>>
    /\ UNCHANGED sessionVars

FailGenerator(r) ==
    /\ At(Gen(r), "stream")
    /\ IF Live(r) THEN Finalize(Gen(r), r, "generation_error")
       ELSE /\ Goto(Gen(r), "done")
            /\ UNCHANGED <<state, active, tasks, queue, cancelled, fin>>
    /\ UNCHANGED <<utt, epoch, down, gen, said, player, heard, barges, losses, cut, late>>

-----------------------------------------------------------------------------
(* _run_tts_playback_consumer.                                             *)

ConsumerLoop(r) ==
    /\ At(Con(r), "loop")
    /\ Goto(Con(r), IF Live(r) THEN "get" ELSE "done")
    /\ UNCHANGED <<state, fin, tasks, cancelled, queue, said, player>>
    /\ UNCHANGED sessionVars

\* What follows from the item h that get_next_chunk took: a stale sentence is
\* dropped inside it, and one of another response after it.
AfterItem(r, h) ==
    CASE h = End -> IF Live(r) THEN "complete" ELSE "done"
      [] h # End /\ epoch > gen[h] -> "get"
      [] OTHER -> IF ~Live(r) THEN "done" ELSE IF h = r THEN "render" ELSE "loop"

GetItem(r) ==
    /\ At(Con(r), "get")
    /\ \/ /\ ~down /\ queue # <<>>
          /\ queue' = Tail(queue)
          /\ Goto(Con(r), AfterItem(r, Head(queue)))
       \/ /\ down
          /\ Goto(Con(r), "done")
          /\ UNCHANGED queue
    /\ UNCHANGED <<state, fin, tasks, cancelled, said, player>>
    /\ UNCHANGED sessionVars

CompleteResponse(r) ==
    /\ At(Con(r), "complete")
    /\ Finalize(Con(r), r, "completed")
    /\ UNCHANGED <<utt, epoch, down, gen, said, player, heard, barges, losses, cut, late>>

\* render() fails, or returns no playable audio.
FailRender(r) ==
    /\ At(Con(r), "render")
    /\ Finalize(Con(r), r, "renderer_error")
    /\ UNCHANGED <<utt, epoch, down, gen, said, player, heard, barges, losses, cut, late>>

\* render() returns: play() is called, and waits for its lock if it has to.
Rendered(r) ==
    /\ At(Con(r), "render")
    /\ IF Live(r) THEN IF player = NoPlayback
                       THEN /\ player' = [r |-> r, st |-> "launching"]
                            /\ Goto(Con(r), "launching")
                       ELSE Goto(Con(r), "busy") /\ UNCHANGED player
       ELSE Goto(Con(r), "done") /\ UNCHANGED player
    /\ UNCHANGED <<state, fin, tasks, cancelled, queue, said>>
    /\ UNCHANGED sessionVars

\* play() finds a handle and returns False.  A consumer whose response is no longer
\* live when play() returns stops the playback there is.
PlayRefused(r) ==
    /\ At(Con(r), "busy") /\ LockFree
    /\ IF Live(r) THEN Finalize(Con(r), r, "playback_failed")
       ELSE /\ Goto(Con(r), "quit")
            /\ UNCHANGED <<state, active, tasks, queue, cancelled, fin>>
    /\ UNCHANGED <<utt, epoch, down, gen, said, player, heard, barges, losses, cut, late>>

Launched(r) ==
    /\ At(Con(r), "launching")
    /\ player' = [player EXCEPT !.st = "running"]
    /\ Goto(Con(r), "playing")
    /\ UNCHANGED <<state, fin, tasks, cancelled, queue, said>>
    /\ UNCHANGED sessionVars

LaunchFails(r) ==
    /\ At(Con(r), "launching")
    /\ player' = NoPlayback
    /\ Finalize(Con(r), r, "playback_failed")
    /\ UNCHANGED <<utt, epoch, down, gen, said, heard, barges, losses, cut, late>>

\* play() returns: on with the next sentence, or the player had failed.
Played(r) ==
    /\ At(Con(r), "playing") /\ Over(r)
    /\ Forget(r)
    /\ \/ /\ Goto(Con(r), IF Live(r) THEN "loop" ELSE "quit")
          /\ UNCHANGED <<state, active, tasks, queue, cancelled, fin>>
       \/ Live(r) /\ Finalize(Con(r), r, "playback_failed")
    /\ UNCHANGED <<utt, epoch, down, gen, said, heard, barges, losses, cut, late>>

-----------------------------------------------------------------------------
(* A cancelled worker ends at the await it stands at, but a gather() ends  *)
(* with the tasks it gathers; the consumer stops the playback there is,    *)
(* whosever it is, and waits for it: twice, if it was playing.             *)

MayEnd(t) ==
    /\ t \in cancelled /\ Alive(t)
    /\ pc[t] = "join" => \A w \in fin[t].wait : ~Alive(w)

CancelGenerator(r) ==
    /\ MayEnd(Gen(r))
    /\ Goto(Gen(r), "done")
    /\ UNCHANGED <<state, fin, tasks, cancelled, queue, said, player>>
    /\ UNCHANGED sessionVars

InPlay == {"busy", "launching", "playing"}

CancelConsumer(r) ==
    /\ MayEnd(Con(r)) /\ pc[Con(r)] \notin {"quit", "reap"}
    /\ LockFree \/ pc[Con(r)] = "launching"
    /\ player' = IF pc[Con(r)] = "launching" THEN NoPlayback ELSE Terminated(player)
    /\ fin' = [fin EXCEPT ![Con(r)] =
                  [r |-> player.r, out |-> IF pc[Con(r)] \in InPlay THEN "again" ELSE "none",
                   wait |-> {}]]
    /\ Goto(Con(r), "reap")
    /\ UNCHANGED <<state, tasks, cancelled, queue, said>>
    /\ UNCHANGED sessionVars

QuitConsumer(r) ==
    /\ pc[Con(r)] = "quit" /\ LockFree
    /\ player' = Terminated(player)
    /\ fin' = [fin EXCEPT ![Con(r)] = [NoFin EXCEPT !.r = player.r]]
    /\ Goto(Con(r), "reap")
    /\ UNCHANGED <<state, tasks, cancelled, queue, said>>
    /\ UNCHANGED sessionVars

Reaped(r) ==
    /\ pc[Con(r)] = "reap" /\ Over(fin[Con(r)].r)
    /\ Forget(fin[Con(r)].r)
    /\ Goto(Con(r), IF fin[Con(r)].out = "again" THEN "quit" ELSE "done")
    /\ fin' = [fin EXCEPT ![Con(r)] = NoFin]
    /\ UNCHANGED <<state, tasks, cancelled, queue, said>>
    /\ UNCHANGED sessionVars

-----------------------------------------------------------------------------
(* handle_barge_in_speech, called by the voice activity loop.              *)

HoldPlayback == player' = Paused(player) /\ MoveTo("pending") /\ Goto(Vad, "verify")

HearSpeech ==
    /\ pc[Vad] = "idle" /\ state \in Answering /\ Live(active) /\ barges < MaxBargeIns
    /\ heard' = active
    /\ barges' = barges + 1
    /\ IF LockFree THEN HoldPlayback ELSE Goto(Vad, "pause") /\ UNCHANGED <<state, player>>
    /\ UNCHANGED <<active, utt, epoch, down, gen, fin, tasks, cancelled, queue, said,
                   losses, cut, late>>

PausePlayback ==
    /\ At(Vad, "pause") /\ LockFree
    /\ HoldPlayback
    /\ UNCHANGED <<fin, tasks, cancelled, queue, said>>
    /\ UNCHANGED sessionVars

\* No evidence, not the owner, echo, noise, or nothing transcribed.
DoubtBargeIn ==
    /\ pc[Vad] \in {"verify", "transcribe"} /\ Runs(Vad)
    /\ Goto(Vad, "reject")
    /\ UNCHANGED <<state, fin, tasks, cancelled, queue, said, player>>
    /\ UNCHANGED sessionVars

TranscribeBargeIn ==
    /\ At(Vad, "verify")
    /\ Goto(Vad, "transcribe")
    /\ UNCHANGED <<state, fin, tasks, cancelled, queue, said, player>>
    /\ UNCHANGED sessionVars

EndBargeIn(from, out) ==
    /\ At(Vad, from)
    /\ Finalize(Vad, heard, out)
    /\ late' = (late \/ (out = "interrupted" /\ ~down /\ active # heard))
    /\ UNCHANGED <<utt, epoch, down, gen, said, player, heard, barges, losses, cut>>

\* Verified: the barge-in's utterance is the current one, and what was created
\* in earlier epochs is stale.
VerifyBargeIn ==
    /\ At(Vad, "transcribe")
    /\ utt' = None
    /\ epoch' = epoch + 1
    /\ CallStop(Vad)
    /\ UNCHANGED <<state, active, down, gen, tasks, cancelled, queue, said, heard, barges,
                   losses, cut, late>>

StopForBargeIn ==
    /\ At(Vad, "stop") /\ LockFree
    /\ CallStop(Vad)
    /\ UNCHANGED <<state, tasks, cancelled, queue, said>>
    /\ UNCHANGED sessionVars

PlaybackCut ==
    /\ At(Vad, "halt") /\ Over(fin[Vad].r)
    /\ Forget(fin[Vad].r)
    /\ cut' = cut \cup {heard}
    /\ Goto(Vad, "interrupt")
    /\ UNCHANGED <<state, active, utt, epoch, down, gen, fin, tasks, cancelled, queue,
                   said, heard, barges, losses, late>>

\* process_final: False after a shutdown, otherwise the sink decides.
SubmitBargeIn ==
    /\ At(Vad, "submit")
    /\ Goto(Vad, "idle")
    /\ IF down THEN UNCHANGED state ELSE state' \in {"listening", "error"}
    /\ UNCHANGED <<fin, tasks, cancelled, queue, said, player>>
    /\ UNCHANGED sessionVars

BargeInStep ==
    \/ PausePlayback \/ DoubtBargeIn \/ TranscribeBargeIn
    \/ EndBargeIn("verify", "verification_error")
    \/ EndBargeIn("reject", "rejected_abandon")
    \/ EndBargeIn("transcribe", "transcript_error")
    \/ VerifyBargeIn \/ StopForBargeIn \/ PlaybackCut
    \/ EndBargeIn("interrupt", "interrupted")
    \/ SubmitBargeIn


-----------------------------------------------------------------------------
\* update_aec_evidence: full duplex is lost; a response under way goes on.
LoseDuplex ==
    /\ ~down /\ state \in Answering /\ losses < MaxLosses
    /\ losses' = losses + 1
    /\ state' = "degraded"
    /\ UNCHANGED <<active, utt, epoch, down, gen, pc, fin, tasks, cancelled, queue, said,
                   player, heard, barges, cut, late>>

(* shutdown.                                                               *)

StartShutdown ==
    /\ pc[Stop] = "none"
    /\ down' = TRUE
    /\ epoch' = epoch + 1
    /\ queue' = <<>>
    /\ CallStop(Stop)
    /\ UNCHANGED <<state, active, utt, gen, tasks, cancelled, said, heard, barges, losses,
                   cut, late>>

StopForShutdown ==
    /\ pc[Stop] = "stop" /\ LockFree
    /\ CallStop(Stop)
    /\ UNCHANGED <<state, tasks, cancelled, queue, said>>
    /\ UNCHANGED sessionVars

\* Mutant: the workers are forgotten without being cancelled.
MutCancelAll ==
    /\ pc[Stop] = "halt" /\ Over(fin[Stop].r)
    /\ Forget(fin[Stop].r)
    /\ active' = None /\ tasks' = {} /\ queue' = <<>>
    /\ Goto(Stop, "join")
    /\ UNCHANGED <<cancelled, fin, state, utt, epoch, down, gen, said, heard, barges,
                   losses, cut, late>>

CancelAll ==
    /\ pc[Stop] = "halt" /\ Over(fin[Stop].r)
    /\ Forget(fin[Stop].r)
    /\ active' = None
    /\ tasks' = {}
    /\ queue' = <<>>
    /\ cancelled' = cancelled \cup {w \in tasks : Alive(w)}
    /\ fin' = [fin EXCEPT ![Stop].wait = {w \in tasks : Alive(w)}]
    /\ Goto(Stop, "join")
    /\ UNCHANGED <<state, utt, epoch, down, gen, said, heard, barges, losses, cut, late>>

\* The workers have ended; then the voice activity loop is cancelled, which waits
\* for the tasks it is gathering.
FinishShutdown ==
    /\ pc[Stop] = "join" /\ \A w \in fin[Stop].wait : ~Alive(w)
    /\ pc[Vad] = "join" => \A w \in fin[Vad].wait : ~Alive(w)
    /\ state' = "stopped"
    /\ pc' = [pc EXCEPT ![Stop] = "done", ![Vad] = "done"]
    /\ UNCHANGED <<fin, tasks, cancelled, queue, said, player>>
    /\ UNCHANGED sessionVars

-----------------------------------------------------------------------------
Init ==
    /\ state = "idle" /\ active = None /\ utt = None /\ epoch = 0 /\ down = FALSE
    /\ gen = [r \in Responses |-> 0]
    /\ pc = [t \in Tasks |-> IF t = Vad THEN "idle" ELSE "none"]
    /\ fin = [t \in Tasks |-> NoFin]
    /\ tasks = {} /\ cancelled = {} /\ queue = <<>>
    /\ said = [r \in Responses |-> 0]
    /\ player = NoPlayback
    /\ heard = None /\ barges = 0 /\ losses = 0 /\ cut = {} /\ late = FALSE

TurnStep(r) == \/ RefuseTurn(r) \/ CheckTurn(r) \/ FailTurn(r) \/ AnswerTurn(r)
               \/ LaunchTurn(r)

GeneratorStep(r) == \/ StartGenerator(r) \/ PutSentence(r) \/ PutEnd(r)
                    \/ AbandonStream(r) \/ EndGenerator(r) \/ FailGenerator(r)
                    \/ CancelGenerator(r)

ConsumerStep(r) == \/ ConsumerLoop(r) \/ GetItem(r) \/ CompleteResponse(r)
                   \/ FailRender(r) \/ Rendered(r) \/ PlayRefused(r) \/ Launched(r)
                   \/ LaunchFails(r) \/ Played(r) \/ CancelConsumer(r)
                   \/ QuitConsumer(r) \/ Reaped(r)

FinalizeStep(t) == Join(t) \/ Stopped(t)

ShutdownStep == StopForShutdown \/ CancelAll \/ FinishShutdown

Next == \/ \E r \in Responses : StartTurn(r) \/ TurnStep(r) \/ GeneratorStep(r)
                                \/ ConsumerStep(r)
        \/ \E t \in Workers \cup {Vad} : FinalizeStep(t)
        \/ HearSpeech \/ BargeInStep \/ LoseDuplex \/ PlaybackExits
        \/ StartShutdown \/ ShutdownStep

Spec == Init /\ [][Next]_voiceVars
=============================================================================
