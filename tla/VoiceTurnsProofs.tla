-------------------------- MODULE VoiceTurnsProofs --------------------------
(***************************************************************************)
(* Proofs about the turns of a voice session, for every number of turns,   *)
(* sentences, barge-ins and losses of full duplex and every queue size: a  *)
(* response stopped for a verified barge-in stays silent, a stopped        *)
(* session is silent, and an answer is completed by its own stream.        *)
(*                                                                         *)
(* The invariant has one part for each of these, and four they rest on:    *)
(* how far turns and their workers have come, who a playback belongs to,   *)
(* who waits for whom when responses are finalized, and what a session     *)
(* that is shutting down still has.                                        *)
(***************************************************************************)
EXTENDS VoiceTurnsProperties, TLAPS

States == {"idle", "listening", "degraded", "error", "processing", "generating", "speaking",
           "pending", "interrupted", "stopped"}
TurnPcs == {"none", "final", "submit", "launch", "done"}
GenPcs == {"none", "new", "stream", "spoken", "join", "stopping", "done"}
ConPcs == {"none", "loop", "get", "complete", "render", "busy", "launching", "playing",
           "join", "stopping", "quit", "reap", "done"}
VadPcs == {"idle", "pause", "verify", "transcribe", "reject", "stop", "halt", "interrupt",
           "join", "stopping", "submit", "done"}
StopPcs == {"none", "stop", "halt", "join", "done"}
Pcs == TurnPcs \cup GenPcs \cup ConPcs \cup VadPcs \cup StopPcs
Names == 0 .. MaxTurns
Outs == {"none", "again", "completed", "interrupted", "playback_failed", "generation_error",
         "renderer_error", "verification_error", "transcript_error", "rejected_abandon"}
Fins == [r : Names, out : Outs, wait : SUBSET Workers]
Players == [r : Names, st : {"none", "launching", "running", "paused", "ending", "exited"}]
Finishers == Workers \cup {Vad}

\* Every task stands at one of its own awaits.
PcOK ==
    /\ pc \in [Tasks -> Pcs]
    /\ \A r \in Responses : /\ pc[Turn(r)] \in TurnPcs
                            /\ pc[Gen(r)] \in GenPcs /\ pc[Con(r)] \in ConPcs
    /\ pc[Vad] \in VadPcs /\ pc[Stop] \in StopPcs

DataOK ==
    /\ state \in States /\ active \in Names /\ utt \in Names /\ epoch \in Nat
    /\ down \in BOOLEAN /\ late \in BOOLEAN
    /\ gen \in [Responses -> Nat] /\ said \in [Responses -> Nat]
    /\ fin \in [Tasks -> Fins]
    /\ tasks \subseteq Workers /\ cancelled \subseteq Workers
    /\ queue \in Seq(Names)
    /\ player \in Players
    /\ heard \in Names /\ cut \subseteq Names /\ barges \in Nat /\ losses \in Nat

TypeOK == PcOK /\ DataOK

\* Workers exist once their turn launched them; a turn that has no response yet is
\* named nowhere.
Unlaunched == {"none", "final", "submit", "launch"}
TurnsOK ==
    /\ \A r \in Responses :
        /\ gen[r] <= epoch
        /\ pc[Turn(r)] \in {"none", "final", "submit"} => active # r /\ heard # r /\ r \notin cut
        /\ pc[Turn(r)] \in Unlaunched => pc[Gen(r)] = "none" /\ pc[Con(r)] = "none"
    /\ \A w \in Workers : pc[w] = "none" => w \notin tasks \cup cancelled
    /\ pc[Stop] # "none" <=> down

\* A response that was stopped, or is about to be, belongs to an earlier epoch; the stop
\* waits for its playback, if it is the one that sounds.
HeardPcs == {"pause", "verify", "transcribe", "reject", "stop", "halt", "interrupt"}
SilentOK ==
    /\ \A r \in cut : r # None /\ gen[r] < epoch
    /\ pc[Vad] \in HeardPcs => heard # None
    /\ pc[Vad] \in {"stop", "halt", "interrupt"} => gen[heard] < epoch
    /\ pc[Vad] = "halt" /\ Sounding /\ player.r = heard => fin[Vad].r = heard
    /\ InterruptedStaysSilent

\* A playback belongs to a consumer that launches it, plays it or reaps it.
PlayerOK ==
    /\ \A r \in Responses : pc[Con(r)] = "launching" => player.r = r /\ player.st = "launching"
    /\ Sounding =>
        /\ player.r # None
        /\ pc[Con(player.r)] \in {"launching", "playing", "reap"}
        /\ player.st = "launching" => pc[Con(player.r)] = "launching"
        /\ pc[Con(player.r)] = "reap" => fin[Con(player.r)].r = player.r

\* A worker that has not ended is in _response_tasks or some finalizer waits for it; only
\* cancelled ones are waited for, and they do not wait in a circle.
Joins(t, w) == pc[t] = "join" /\ w \in fin[t].wait
WaitOK ==
    /\ \A w \in Workers : Alive(w) => w \in tasks \/ \E t \in Tasks : Joins(t, w)
    /\ \A t \in Tasks, w \in Workers : Joins(t, w) => w \in cancelled
    /\ \A S \in SUBSET Workers : S # {} => \E w \in S : \A t \in S : ~Joins(t, w)

\* Once shutdown has cancelled the workers only a turn that was just answered can still
\* launch some, and these end at their first step.
StopOK ==
    /\ pc[Stop] \in {"join", "done"} =>
          \A w \in tasks : w \notin cancelled /\ pc[w] \in {"new", "loop", "done"}
    /\ pc[Stop] = "done" =>
          pc[Vad] = "done" /\ \A w \in Workers : pc[w] \in {"none", "new", "loop", "done"}
    /\ state = "stopped" => pc[Stop] = "done"

\* Without losses, late barge-ins and shutdown at most one of these holds, and the
\* session accepts no turn as long as it does: a turn is being submitted, a response is
\* active, one is being finalized, the utterance of a barge-in is being submitted.
Calm == losses = 0 /\ ~late /\ ~down
Submitting(r) == pc[Turn(r)] \in {"final", "submit"}
Finalizing(t) == pc[t] \in {"join", "stopping"}
OneAtATime ==
    /\ \A r \in Responses : Submitting(r) =>
          /\ active = None /\ state \notin Ready /\ pc[Vad] # "submit"
          /\ \A q \in Responses \ {r} : ~Submitting(q)
          /\ \A t \in Finishers : ~Finalizing(t)
    /\ active # None =>
          /\ state \notin Ready /\ pc[Vad] # "submit"
          /\ \A t \in Finishers : ~Finalizing(t)
    /\ \A t \in Finishers : Finalizing(t) =>
          /\ state \notin Ready /\ pc[Vad] # "submit"
          /\ \A u \in Finishers \ {t} : ~Finalizing(u)
    /\ pc[Vad] = "submit" => state \notin Ready

\* A stream under way is the active response's, and so is a sentinel in the queue.
StreamsOK ==
    /\ \A q \in Responses : pc[Gen(q)] = "stream" /\ Runs(Gen(q)) => active = q
    /\ (\E i \in 1 .. Len(queue) : queue[i] = End) =>
          active # None /\ pc[Gen(active)] \in {"spoken", "done"}

CalmOK == Calm => OneAtATime /\ StreamsOK

Inv == TypeOK /\ TurnsOK /\ SilentOK /\ PlayerOK /\ WaitOK /\ StopOK /\ CalmOK
       /\ AnswersAreNotCutShort

-----------------------------------------------------------------------------
\* Tasks are told apart by their kind and their number.
LEMMA TaskNames ==
  /\ Workers \subseteq Tasks /\ Finishers \subseteq Tasks
  /\ Vad \in Tasks /\ Stop \in Tasks /\ Vad # Stop
  /\ Vad \notin Workers /\ Stop \notin Workers
  /\ \A r \in Responses :
        /\ Turn(r) \in Tasks \ (Workers \cup {Vad, Stop})
        /\ Gen(r) \in Workers /\ Con(r) \in Workers
        /\ \A q \in Responses : /\ Gen(r) # Con(q)
                                /\ Gen(r) = Gen(q) => r = q
                                /\ Con(r) = Con(q) => r = q
                                /\ Turn(r) = Turn(q) => r = q
  /\ \A w \in Workers : \E r \in Responses : w = Gen(r) \/ w = Con(r)
  BY DEF Workers, Tasks, Finishers, Vad, Stop, Turn, Gen, Con

\* How a barge-in ends: where it stands, and the outcome it finalizes the response with.
BargeInEnds == {<<"verify", "verification_error">>, <<"reject", "rejected_abandon">>,
                <<"transcribe", "transcript_error">>, <<"interrupt", "interrupted">>}

-----------------------------------------------------------------------------
(* The three things _finalize_response can do.                             *)

Others(t) == {w \in tasks \ {t} : Alive(w)}

\* The response is not the active one any more: nothing is done.
Disowned(t, r, out) ==
    /\ ~Owns(r) /\ Goto(t, Resume(t, out))
    /\ UNCHANGED <<state, active, tasks, queue, cancelled, fin>>

\* No other worker is left to wait for.
EndedAtOnce(t, r, out) ==
    /\ Owns(r) /\ Others(t) = {} /\ out = "completed"
    /\ active' = None /\ queue' = <<>>
    /\ MoveTo("listening") /\ Goto(t, Resume(t, out))
    /\ tasks' = tasks /\ cancelled' = cancelled /\ fin' = fin

\* The other workers are cancelled and waited for.
Awaited(t, r, out) ==
    /\ Owns(r) /\ active' = None /\ queue' = <<>>
    /\ tasks' = tasks \ Others(t) /\ cancelled' = cancelled \cup Others(t)
    /\ fin' = [fin EXCEPT ![t] = [r |-> None, out |-> out, wait |-> Others(t)]]
    /\ Goto(t, "join") /\ state' = state

LEMMA FinalizeCases ==
  ASSUME NEW t, NEW r, NEW out, Finalize(t, r, out)
  PROVE  Disowned(t, r, out) \/ EndedAtOnce(t, r, out) \/ Awaited(t, r, out)
  BY Zenon DEF Finalize, Disowned, EndedAtOnce, Awaited, Others

-----------------------------------------------------------------------------
(* Type correctness.                                                       *)

\* The records of players and of finalizers.
LEMMA PlayerTypes ==
  /\ NoPlayback \in Players
  /\ \A n \in Names : [r |-> n, st |-> "launching"] \in Players
  /\ \A p \in Players : /\ p.r \in Names /\ Terminated(p) \in Players /\ Paused(p) \in Players
                        /\ [p EXCEPT !.st = "running"] \in Players
                        /\ [p EXCEPT !.st = "exited"] \in Players
  BY VoiceBounds DEF NoPlayback, Players, Names, Terminated, Paused, None

LEMMA FinTypes ==
  /\ NoFin \in Fins
  /\ \A n \in Names : [NoFin EXCEPT !.r = n] \in Fins
  /\ \A n \in Names, out \in Outs, W \in SUBSET Workers :
        [r |-> n, out |-> out, wait |-> W] \in Fins
  /\ \A f \in Fins : /\ f.r \in Names /\ f.out \in Outs /\ f.wait \subseteq Workers
                     /\ \A W \in SUBSET Workers : [f EXCEPT !.wait = W] \in Fins
  BY VoiceBounds DEF NoFin, Fins, Names, Outs, None

LEMMA NoneType == None \in Names /\ Responses \subseteq Names /\ Names \subseteq Nat /\ End = None
                  /\ None \notin Responses /\ \A n \in Names : n # None => n \in Responses
  BY VoiceBounds DEF Names, None, Responses, End

\* A task that goes to one of its own awaits.
LEMMA GotoType ==
  ASSUME PcOK, NEW t \in Tasks, NEW to, Goto(t, to),
         t = Vad => to \in VadPcs, t = Stop => to \in StopPcs,
         \A r \in Responses : /\ t = Turn(r) => to \in TurnPcs
                              /\ t = Gen(r) => to \in GenPcs
                              /\ t = Con(r) => to \in ConPcs
  PROVE  PcOK'
  <1>1. to \in Pcs BY DEF Pcs, Tasks, Workers
  <1> QED BY <1>1, TaskNames DEF PcOK, Goto

\* What a finalizer is left with.
LEMMA FinalizeType ==
  ASSUME TypeOK, NEW t \in Finishers, NEW r \in Names, NEW out \in Outs, Finalize(t, r, out)
  PROVE  /\ PcOK'
         /\ state' \in States /\ active' \in Names /\ fin' \in [Tasks -> Fins]
         /\ tasks' \subseteq Workers /\ cancelled' \subseteq Workers /\ queue' \in Seq(Names)
  <1>1. \A to \in {"join", "done", "idle", "submit"} :
            Goto(t, to) /\ (to \in {"idle", "submit"} => t = Vad) /\ (to = "done" => t # Vad)
               => PcOK'
    BY GotoType, TaskNames DEF TypeOK, Finishers, VadPcs, GenPcs, ConPcs
  <1>2. Goto(t, "join") \/ Goto(t, Resume(t, out)) => PcOK' BY <1>1 DEF Resume
  <1>3. None \in Names /\ Others(t) \subseteq Workers BY NoneType DEF Others, TypeOK, DataOK
  <1>4. CASE Disowned(t, r, out) BY <1>2, <1>4 DEF Disowned, TypeOK, DataOK
  <1>5. CASE EndedAtOnce(t, r, out)
    BY <1>2, <1>3, <1>5 DEF EndedAtOnce, TypeOK, DataOK, MoveTo, States
  <1>6. CASE Awaited(t, r, out)
    BY <1>2, <1>3, <1>6, FinTypes, TaskNames DEF Awaited, TypeOK, DataOK
  <1> QED BY <1>4, <1>5, <1>6, FinalizeCases

\* What stop() makes of the player and of its caller.
LEMMA StopType ==
  ASSUME TypeOK, NEW t \in Tasks, CallStop(t)
  PROVE  player' \in Players /\ fin' \in [Tasks -> Fins]
  <1>1. player.r \in Names /\ Terminated(player) \in Players
    BY PlayerTypes DEF TypeOK, DataOK
  <1>2. [NoFin EXCEPT !.r = player.r] \in Fins BY <1>1, FinTypes
  <1> QED BY <1>1, <1>2 DEF CallStop, TypeOK, DataOK

LEMMA OutcomeType == \A out : Outcome(out) \in States
  BY DEF Outcome, States

\* A queue that is not empty has a head, and a tail of its other elements.
LEMMA QueueTail ==
  ASSUME NEW q \in Seq(Names), q # <<>>
  PROVE  /\ Tail(q) \in Seq(Names) /\ Len(Tail(q)) = Len(q) - 1
         /\ 1 \in 1 .. Len(q) /\ Head(q) = q[1] /\ Head(q) \in Names
         /\ \A i \in 1 .. Len(Tail(q)) : i + 1 \in 1 .. Len(q) /\ Tail(q)[i] = q[i + 1]
  OBVIOUS

-----------------------------------------------------------------------------
(* What the parts of the invariant need of _finalize_response.             *)

LEMMA FinalizeFrame ==
  ASSUME TypeOK, NEW t \in Finishers, NEW r, NEW out, Finalize(t, r, out)
  PROVE  /\ \E to \in {"join", "done", "idle", "submit"} :
               pc' = [pc EXCEPT ![t] = to] /\ (to \in {"idle", "submit"} => t = Vad)
         /\ active' \in {active, None} /\ tasks' \subseteq tasks
         /\ \A w \in cancelled' : w \in cancelled \/ (w \in tasks /\ pc[w] # "none")
  BY FinalizeCases DEF Disowned, EndedAtOnce, Awaited, Goto, Resume, Others, Alive

\* A signal changes neither whose playback it is, nor whether it sounds or is launched.
LEMMA Signals ==
  ASSUME NEW p \in Players, NEW q \in {Terminated(p), Paused(p)}
  PROVE  /\ q.r = p.r /\ (q.st = "launching" <=> p.st = "launching")
         /\ q.st \in {"launching", "running", "paused", "ending"}
               <=> p.st \in {"launching", "running", "paused", "ending"}
  BY DEF Terminated, Paused, Players

\* What stop() does, as a step of the task t.
LEMMA StopFrame ==
  ASSUME TypeOK, NEW t \in Tasks, CallStop(t)
  PROVE  /\ player' = player \/ (player.st # "launching" /\ player' = Terminated(player))
         /\ \A w \in Tasks : w # t => fin'[w] = fin[w]
         /\ \E to \in {"halt", "stop"} :
              /\ pc' = [pc EXCEPT ![t] = to]
              /\ to = "halt" => player' = Terminated(player) /\ fin'[t].r = player.r
  BY DEF CallStop, LockFree, Goto, TypeOK, DataOK, NoFin

\* What a worker does that finalizes its response, or finds that it is no longer live.
Ends(t, r) ==
    /\ pc[t] \in {"stream", "complete", "render", "busy", "launching", "playing"} /\ Runs(t)
    /\ player' \in {player, NoPlayback}
    /\ UNCHANGED <<utt, epoch, down, gen, said, heard, barges, losses, cut, late>>
    /\ \/ \E out \in Outs : Finalize(t, r, out)
       \/ \E to \in {"done", "quit", "loop"} :
             /\ Goto(t, to) /\ (t = Gen(r) => to = "done")
             /\ UNCHANGED <<state, active, tasks, queue, cancelled, fin>>

EndsResponse(r) == Ends(Gen(r), r) \/ Ends(Con(r), r)

LEMMA Enders ==
  ASSUME NEW r \in Responses,
         \/ FailGenerator(r) \/ CompleteResponse(r) \/ FailRender(r)
         \/ PlayRefused(r) \/ LaunchFails(r) \/ Played(r)
  PROVE  EndsResponse(r)
  <1> USE TaskNames DEF EndsResponse, Ends, At, Outs
  <1>1. CASE FailGenerator(r) BY <1>1 DEF FailGenerator
  <1>2. CASE CompleteResponse(r) BY <1>2 DEF CompleteResponse
  <1>3. CASE FailRender(r) BY <1>3 DEF FailRender
  <1>4. CASE PlayRefused(r) BY <1>4 DEF PlayRefused
  <1>5. CASE LaunchFails(r) BY <1>5 DEF LaunchFails
  <1>6. CASE Played(r) BY <1>6 DEF Played, Forget
  <1> QED BY <1>1, <1>2, <1>3, <1>4, <1>5, <1>6

\* A step leaves every task at one of its own awaits.
LEMMA PcStep ==
  ASSUME TypeOK, Next
  PROVE  PcOK'
  <1>1. ASSUME NEW r \in Responses, EndsResponse(r) PROVE PcOK'
    <2>1. PICK t \in {Gen(r), Con(r)} : Ends(t, r) BY <1>1 DEF EndsResponse
    <2>2. t \in Finishers /\ t \in Tasks /\ t \in Workers BY <2>1, TaskNames DEF Finishers
    <2>3. CASE \E out \in Outs : Finalize(t, r, out) BY <2>2, <2>3, FinalizeType, NoneType
    <2>4. ASSUME NEW to \in {"done", "quit", "loop"}, Goto(t, to), t = Gen(r) => to = "done"
          PROVE  PcOK'
      BY <2>1, <2>2, <2>4, GotoType, TaskNames DEF TypeOK, GenPcs, ConPcs
    <2> QED BY <2>1, <2>3, <2>4 DEF Ends
  <1>2. ASSUME NEW from, NEW out, EndBargeIn(from, out), <<from, out>> \in BargeInEnds
         PROVE  PcOK'
    <2>1. heard \in Names /\ out \in Outs /\ Vad \in Finishers
      BY <1>2 DEF DataOK, TypeOK, BargeInEnds, Outs, Finishers
    <2> QED BY <1>2, <2>1, FinalizeType DEF EndBargeIn
  <1> USE TaskNames
        DEF At, Runs, Goto, MoveTo, MayEnd, MayPut, HoldPlayback, CallStop, Settle, PcOK, Pcs,
            TurnPcs, GenPcs, ConPcs, VadPcs, StopPcs, TypeOK, Resume, AfterItem
  <1>3. ASSUME NEW r \in Responses, StartTurn(r) PROVE PcOK' BY <1>3 DEF StartTurn
  <1>4. ASSUME NEW r \in Responses, RefuseTurn(r) PROVE PcOK' BY <1>4 DEF RefuseTurn
  <1>5. ASSUME NEW r \in Responses, CheckTurn(r) PROVE PcOK' BY <1>5 DEF CheckTurn
  <1>6. ASSUME NEW r \in Responses, FailTurn(r) PROVE PcOK' BY <1>6 DEF FailTurn
  <1>7. ASSUME NEW r \in Responses, AnswerTurn(r) PROVE PcOK' BY <1>7 DEF AnswerTurn
  <1>8. ASSUME NEW r \in Responses, LaunchTurn(r) PROVE PcOK' BY <1>8 DEF LaunchTurn
  <1>9. ASSUME NEW r \in Responses, StartGenerator(r) PROVE PcOK' BY <1>9 DEF StartGenerator
  <1>10. ASSUME NEW r \in Responses, PutSentence(r) PROVE PcOK' BY <1>10 DEF PutSentence
  <1>11. ASSUME NEW r \in Responses, PutEnd(r) PROVE PcOK' BY <1>11 DEF PutEnd
  <1>12. ASSUME NEW r \in Responses, AbandonStream(r) PROVE PcOK' BY <1>12 DEF AbandonStream
  <1>13. ASSUME NEW r \in Responses, EndGenerator(r) PROVE PcOK' BY <1>13 DEF EndGenerator
  <1>14. ASSUME NEW r \in Responses, CancelGenerator(r) PROVE PcOK'
    BY <1>14 DEF CancelGenerator
  <1>15. ASSUME NEW r \in Responses, ConsumerLoop(r) PROVE PcOK' BY <1>15 DEF ConsumerLoop
  <1>16. ASSUME NEW r \in Responses, GetItem(r) PROVE PcOK' BY <1>16 DEF GetItem
  <1>17. ASSUME NEW r \in Responses, Rendered(r) PROVE PcOK' BY <1>17 DEF Rendered
  <1>18. ASSUME NEW r \in Responses, Launched(r) PROVE PcOK' BY <1>18 DEF Launched
  <1>19. ASSUME NEW r \in Responses, CancelConsumer(r) PROVE PcOK' BY <1>19 DEF CancelConsumer
  <1>20. ASSUME NEW r \in Responses, QuitConsumer(r) PROVE PcOK' BY <1>20 DEF QuitConsumer
  <1>21. ASSUME NEW r \in Responses, Reaped(r) PROVE PcOK' BY <1>21 DEF Reaped
  <1>22. ASSUME NEW t \in Finishers, Join(t) PROVE PcOK'
    BY <1>22, GotoType DEF Join, Finishers, Outs
  <1>23. ASSUME NEW t \in Finishers, Stopped(t) PROVE PcOK'
    BY <1>23, GotoType DEF Stopped, Finishers, Outs
  <1>24. ASSUME HearSpeech PROVE PcOK' BY <1>24 DEF HearSpeech
  <1>25. ASSUME PausePlayback PROVE PcOK' BY <1>25 DEF PausePlayback
  <1>26. ASSUME DoubtBargeIn PROVE PcOK' BY <1>26 DEF DoubtBargeIn
  <1>27. ASSUME TranscribeBargeIn PROVE PcOK' BY <1>27 DEF TranscribeBargeIn
  <1>28. ASSUME VerifyBargeIn PROVE PcOK' BY <1>28 DEF VerifyBargeIn
  <1>29. ASSUME StopForBargeIn PROVE PcOK' BY <1>29 DEF StopForBargeIn
  <1>30. ASSUME PlaybackCut PROVE PcOK' BY <1>30 DEF PlaybackCut
  <1>31. ASSUME SubmitBargeIn PROVE PcOK' BY <1>31 DEF SubmitBargeIn
  <1>32. ASSUME LoseDuplex PROVE PcOK' BY <1>32 DEF LoseDuplex
  <1>33. ASSUME PlaybackExits PROVE PcOK' BY <1>33 DEF PlaybackExits
  <1>34. ASSUME StartShutdown PROVE PcOK' BY <1>34 DEF StartShutdown
  <1>35. ASSUME StopForShutdown PROVE PcOK' BY <1>35 DEF StopForShutdown
  <1>36. ASSUME CancelAll PROVE PcOK' BY <1>36 DEF CancelAll
  <1>37. ASSUME FinishShutdown PROVE PcOK' BY <1>37 DEF FinishShutdown
  <1> QED
    BY <1>1, <1>2, <1>3, <1>4, <1>5, <1>6, <1>7, <1>8, <1>9, <1>10, <1>11, <1>12, <1>13, <1>14,
       <1>15, <1>16, <1>17, <1>18, <1>19, <1>20, <1>21, <1>22, <1>23, <1>24, <1>25, <1>26,
       <1>27, <1>28, <1>29, <1>30, <1>31, <1>32, <1>33, <1>34, <1>35, <1>36, <1>37, Enders
    DEF Next, TurnStep, GeneratorStep, ConsumerStep, FinalizeStep, BargeInStep, ShutdownStep,
        BargeInEnds, Finishers

\* A step keeps the types of the other variables.
LEMMA DataStep ==
  ASSUME TypeOK, Next
  PROVE  DataOK'
  <1>1. ASSUME NEW r \in Responses, EndsResponse(r) PROVE DataOK'
    <2>1. PICK t \in {Gen(r), Con(r)} : Ends(t, r) BY <1>1 DEF EndsResponse
    <2>2. t \in Finishers /\ t \in Tasks /\ t \in Workers BY <2>1, TaskNames DEF Finishers
    <2>3. player' \in Players BY <2>1, PlayerTypes DEF Ends, TypeOK, DataOK
    <2>4. CASE \E out \in Outs : Finalize(t, r, out)
      BY <2>1, <2>2, <2>3, <2>4, FinalizeType, NoneType DEF Ends, TypeOK, DataOK
    <2>5. CASE UNCHANGED <<state, active, tasks, queue, cancelled, fin>>
      BY <2>1, <2>3, <2>5 DEF Ends, TypeOK, DataOK
    <2> QED BY <2>1, <2>4, <2>5 DEF Ends
  <1>2. ASSUME NEW r \in Responses, GetItem(r) PROVE DataOK'
    <2>1. queue' \in Seq(Names) BY <1>2, QueueTail DEF GetItem, TypeOK, DataOK
    <2> QED BY <1>2, <2>1 DEF GetItem, sessionVars, TypeOK, DataOK
  <1>3. ASSUME NEW r \in Responses, CancelConsumer(r) PROVE DataOK'
    <2>1. \A out \in Outs : [r |-> player.r, out |-> out, wait |-> {}] \in Fins
      BY FinTypes, PlayerTypes DEF TypeOK, DataOK
    <2>2. fin' \in [Tasks -> Fins] BY <1>3, <2>1 DEF CancelConsumer, Outs, TypeOK, DataOK
    <2>3. player' \in Players BY <1>3, PlayerTypes DEF CancelConsumer, TypeOK, DataOK
    <2> QED BY <1>3, <2>2, <2>3 DEF CancelConsumer, sessionVars, TypeOK, DataOK
  <1>4. ASSUME NEW t \in Finishers, Join(t) PROVE DataOK'
    <2>1. state' \in States BY <1>4, OutcomeType DEF Join, Settle, MoveTo, TypeOK, DataOK
    <2>2. t \in Tasks /\ fin[t] \in Fins BY TaskNames DEF TypeOK, DataOK
    <2>3. [r |-> player.r, out |-> fin[t].out, wait |-> {}] \in Fins
      BY <2>2, FinTypes, PlayerTypes DEF TypeOK, DataOK
    <2>4. fin' \in [Tasks -> Fins] BY <1>4, <2>3, FinTypes DEF Join, TypeOK, DataOK
    <2>5. player' \in Players BY <1>4, PlayerTypes DEF Join, TypeOK, DataOK
    <2> QED BY <1>4, <2>1, <2>4, <2>5 DEF Join, sessionVars, TypeOK, DataOK
  <1>5. ASSUME NEW t \in Finishers, Stopped(t) PROVE DataOK'
    <2>1. state' \in States BY <1>5, OutcomeType DEF Stopped, Settle, MoveTo, TypeOK, DataOK
    <2>2. player' \in Players BY <1>5, PlayerTypes DEF Stopped, Forget, TypeOK, DataOK
    <2> QED BY <1>5, <2>1, <2>2, FinTypes DEF Stopped, sessionVars, TypeOK, DataOK
  <1>6. ASSUME HearSpeech PROVE DataOK'
    <2>1. player' \in Players BY <1>6, PlayerTypes DEF HearSpeech, HoldPlayback, TypeOK, DataOK
    <2>2. state' \in States
      BY <1>6 DEF HearSpeech, HoldPlayback, MoveTo, States, TypeOK, DataOK
    <2> QED BY <1>6, <2>1, <2>2 DEF HearSpeech, TypeOK, DataOK
  <1>7. ASSUME NEW from, NEW out, EndBargeIn(from, out), <<from, out>> \in BargeInEnds
         PROVE  DataOK'
    <2>1. heard \in Names /\ out \in Outs /\ Vad \in Finishers
      BY <1>7 DEF DataOK, TypeOK, BargeInEnds, Outs, Finishers
    <2> QED BY <1>7, <2>1, FinalizeType DEF EndBargeIn, DataOK, TypeOK
  <1>8. ASSUME VerifyBargeIn PROVE DataOK'
    <2>1. CallStop(Vad) BY <1>8 DEF VerifyBargeIn
    <2>2. player' \in Players /\ fin' \in [Tasks -> Fins] BY <2>1, StopType, TaskNames
    <2> QED BY <1>8, <2>2, NoneType DEF VerifyBargeIn, sessionVars, TypeOK, DataOK
  <1>9. ASSUME StopForBargeIn PROVE DataOK'
    <2>1. CallStop(Vad) BY <1>9 DEF StopForBargeIn
    <2>2. player' \in Players /\ fin' \in [Tasks -> Fins] BY <2>1, StopType, TaskNames
    <2> QED BY <1>9, <2>2, NoneType DEF StopForBargeIn, sessionVars, TypeOK, DataOK
  <1>10. ASSUME StartShutdown PROVE DataOK'
    <2>1. CallStop(Stop) BY <1>10 DEF StartShutdown
    <2>2. player' \in Players /\ fin' \in [Tasks -> Fins] BY <2>1, StopType, TaskNames
    <2> QED BY <1>10, <2>2, NoneType DEF StartShutdown, sessionVars, TypeOK, DataOK
  <1>11. ASSUME StopForShutdown PROVE DataOK'
    <2>1. CallStop(Stop) BY <1>11 DEF StopForShutdown
    <2>2. player' \in Players /\ fin' \in [Tasks -> Fins] BY <2>1, StopType, TaskNames
    <2> QED BY <1>11, <2>2, NoneType DEF StopForShutdown, sessionVars, TypeOK, DataOK
  <1>12. ASSUME CancelAll PROVE DataOK'
    <2>1. {w \in tasks : Alive(w)} \subseteq Workers BY DEF TypeOK, DataOK
    <2>2. [fin[Stop] EXCEPT !.wait = {w \in tasks : Alive(w)}] \in Fins
      BY <2>1, FinTypes, TaskNames DEF TypeOK, DataOK
    <2>3. fin' \in [Tasks -> Fins] BY <1>12, <2>2 DEF CancelAll, TypeOK, DataOK
    <2>4. player' \in Players BY <1>12, PlayerTypes DEF CancelAll, Forget, TypeOK, DataOK
    <2> QED BY <1>12, <2>1, <2>3, <2>4, NoneType DEF CancelAll, TypeOK, DataOK
  <1> USE TaskNames, NoneType, PlayerTypes, FinTypes
        DEF At, Runs, Goto, MoveTo, MayEnd, MayPut, HoldPlayback, TypeOK, DataOK, sessionVars,
            States, Forget
  <1>13. ASSUME NEW r \in Responses, StartTurn(r) PROVE DataOK' BY <1>13 DEF StartTurn
  <1>14. ASSUME NEW r \in Responses, RefuseTurn(r) PROVE DataOK' BY <1>14 DEF RefuseTurn
  <1>15. ASSUME NEW r \in Responses, CheckTurn(r) PROVE DataOK' BY <1>15 DEF CheckTurn
  <1>16. ASSUME NEW r \in Responses, FailTurn(r) PROVE DataOK' BY <1>16 DEF FailTurn
  <1>17. ASSUME NEW r \in Responses, AnswerTurn(r) PROVE DataOK' BY <1>17 DEF AnswerTurn
  <1>18. ASSUME NEW r \in Responses, LaunchTurn(r) PROVE DataOK' BY <1>18 DEF LaunchTurn
  <1>19. ASSUME NEW r \in Responses, StartGenerator(r) PROVE DataOK'
    BY <1>19 DEF StartGenerator
  <1>20. ASSUME NEW r \in Responses, PutSentence(r) PROVE DataOK'
    <2>1. queue' \in Seq(Names) BY <1>20 DEF PutSentence
    <2>2. said' \in [Responses -> Nat] BY <1>20 DEF PutSentence
    <2> QED BY <1>20, <2>1, <2>2 DEF PutSentence
  <1>21. ASSUME NEW r \in Responses, PutEnd(r) PROVE DataOK' BY <1>21 DEF PutEnd
  <1>22. ASSUME NEW r \in Responses, AbandonStream(r) PROVE DataOK' BY <1>22 DEF AbandonStream
  <1>23. ASSUME NEW r \in Responses, EndGenerator(r) PROVE DataOK' BY <1>23 DEF EndGenerator
  <1>24. ASSUME NEW r \in Responses, CancelGenerator(r) PROVE DataOK'
    BY <1>24 DEF CancelGenerator
  <1>25. ASSUME NEW r \in Responses, ConsumerLoop(r) PROVE DataOK' BY <1>25 DEF ConsumerLoop
  <1>26. ASSUME NEW r \in Responses, Rendered(r) PROVE DataOK' BY <1>26 DEF Rendered
  <1>27. ASSUME NEW r \in Responses, Launched(r) PROVE DataOK' BY <1>27 DEF Launched
  <1>28. ASSUME NEW r \in Responses, QuitConsumer(r) PROVE DataOK' BY <1>28 DEF QuitConsumer
  <1>29. ASSUME NEW r \in Responses, Reaped(r) PROVE DataOK' BY <1>29 DEF Reaped
  <1>30. ASSUME PausePlayback PROVE DataOK' BY <1>30 DEF PausePlayback
  <1>31. ASSUME DoubtBargeIn PROVE DataOK' BY <1>31 DEF DoubtBargeIn
  <1>32. ASSUME TranscribeBargeIn PROVE DataOK' BY <1>32 DEF TranscribeBargeIn
  <1>33. ASSUME PlaybackCut PROVE DataOK' BY <1>33 DEF PlaybackCut
  <1>34. ASSUME SubmitBargeIn PROVE DataOK' BY <1>34 DEF SubmitBargeIn
  <1>35. ASSUME LoseDuplex PROVE DataOK' BY <1>35 DEF LoseDuplex
  <1>36. ASSUME PlaybackExits PROVE DataOK' BY <1>36 DEF PlaybackExits
  <1>37. ASSUME FinishShutdown PROVE DataOK' BY <1>37 DEF FinishShutdown
  <1> QED
    BY <1>1, <1>2, <1>3, <1>4, <1>5, <1>6, <1>7, <1>8, <1>9, <1>10, <1>11, <1>12, <1>13, <1>14,
       <1>15, <1>16, <1>17, <1>18, <1>19, <1>20, <1>21, <1>22, <1>23, <1>24, <1>25, <1>26,
       <1>27, <1>28, <1>29, <1>30, <1>31, <1>32, <1>33, <1>34, <1>35, <1>36, <1>37, Enders
    DEF Next, TurnStep, GeneratorStep, ConsumerStep, FinalizeStep, BargeInStep, ShutdownStep,
        BargeInEnds, Finishers

-----------------------------------------------------------------------------
(* Turns and their workers.                                                *)

LEMMA FinalizeTurns ==
  ASSUME TypeOK, TurnsOK, NEW t \in Finishers, NEW r, NEW out, Finalize(t, r, out),
         pc[t] # "none", UNCHANGED <<epoch, gen, heard, cut, down>>
  PROVE  TurnsOK'
  <1>1. PICK to \in {"join", "done", "idle", "submit"} : pc' = [pc EXCEPT ![t] = to]
    BY FinalizeFrame
  <1>2. \A w \in Tasks : w # t => pc'[w] = pc[w]
    BY <1>1 DEF TypeOK, PcOK
  <1>3. pc'[t] # "none" /\ t \in Tasks BY <1>1, TaskNames DEF TypeOK, PcOK
  <1>4. \A w \in Tasks : pc'[w] = "none" <=> pc[w] = "none" BY <1>2, <1>3
  <1>5. ASSUME NEW q \in Responses PROVE pc'[Turn(q)] = pc[Turn(q)]
    BY <1>2, TaskNames DEF Finishers
  <1>6. active' \in {active, None} /\ tasks' \subseteq tasks
    BY FinalizeFrame
  <1>7. \A w \in cancelled' : w \in cancelled \/ pc[w] # "none" BY FinalizeFrame
  <1> QED BY <1>4, <1>5, <1>6, <1>7, TaskNames, NoneType DEF TurnsOK, Unlaunched

\* A worker that goes on disturbs no turn.
LEMMA WorkerTurns ==
  ASSUME TypeOK, TurnsOK, NEW w \in Workers, pc[w] # "none", NEW to, to # "none",
         pc' = [pc EXCEPT ![w] = to],
         UNCHANGED <<active, tasks, cancelled, epoch, gen, heard, cut, down>>
  PROVE  TurnsOK'
  <1>1. \A u \in Tasks : pc'[u] = "none" <=> pc[u] = "none" BY DEF TypeOK, PcOK
  <1>2. \A q \in Responses : pc'[Turn(q)] = pc[Turn(q)] BY TaskNames DEF TypeOK, PcOK
  <1> QED BY <1>1, <1>2, TaskNames DEF TurnsOK, Unlaunched

\* A step keeps turns and workers in order.
LEMMA TurnsStep ==
  ASSUME TypeOK, TurnsOK, Next
  PROVE  TurnsOK'
  <1>1. ASSUME NEW r \in Responses, EndsResponse(r) PROVE TurnsOK'
    <2>1. PICK t \in {Gen(r), Con(r)} : Ends(t, r) BY <1>1 DEF EndsResponse
    <2>2. t \in Finishers /\ t \in Tasks /\ t \in Workers BY <2>1, TaskNames DEF Finishers
    <2>3. pc[t] # "none" /\ UNCHANGED <<epoch, gen, heard, cut, down>> BY <2>1 DEF Ends
    <2>4. CASE \E out \in Outs : Finalize(t, r, out) BY <2>2, <2>3, <2>4, FinalizeTurns
    <2>5. ASSUME NEW to \in {"done", "quit", "loop"}, Goto(t, to),
                 UNCHANGED <<active, tasks, cancelled>>
          PROVE  TurnsOK'
      <3>1. \A u \in Tasks : pc'[u] = "none" <=> pc[u] = "none"
        BY <2>3, <2>5 DEF Goto, TypeOK, PcOK
      <3>2. \A q \in Responses : pc'[Turn(q)] = pc[Turn(q)]
        BY <2>2, <2>5, TaskNames DEF Goto, TypeOK, PcOK
      <3> QED BY <2>3, <2>5, <3>1, <3>2, TaskNames DEF TurnsOK, Unlaunched
    <2> QED BY <2>1, <2>4, <2>5 DEF Ends
  <1>2. ASSUME NEW from, NEW out, EndBargeIn(from, out), <<from, out>> \in BargeInEnds
         PROVE  TurnsOK'
    <2>1. Vad \in Finishers /\ Vad \in Tasks BY TaskNames DEF Finishers
    <2>2. CASE \E q, o : Finalize(Vad, q, o)
      BY <1>2, <2>1, <2>2, FinalizeTurns DEF EndBargeIn, At, BargeInEnds
    <2> QED BY <1>2, <2>1, <2>2 DEF EndBargeIn
  <1>22. ASSUME NEW t \in Finishers, Join(t) \/ Stopped(t) PROVE TurnsOK'
    <2>1. pc[t] # "none" /\ t \in Finishers \cap Tasks
      BY <1>22, TaskNames DEF Join, Stopped, At, Runs
    <2>2. \E to \in {"stopping", "done", "idle", "submit"} : Goto(t, to)
      BY <1>22, TaskNames DEF Join, Stopped, Settle, Resume
    <2>3. UNCHANGED <<active, tasks, cancelled, epoch, gen, heard, cut, down>>
      BY <1>22 DEF Join, Stopped, Settle, sessionVars
    <2>4. \A w \in Tasks : pc'[w] = "none" <=> pc[w] = "none"
      BY <2>1, <2>2 DEF Goto, TypeOK, PcOK
    <2>5. \A q \in Responses : pc'[Turn(q)] = pc[Turn(q)]
      BY <2>1, <2>2, TaskNames DEF Goto, TypeOK, PcOK, Finishers
    <2> QED BY <2>3, <2>4, <2>5, TaskNames DEF TurnsOK, Unlaunched
  <1>16. ASSUME NEW r \in Responses, GetItem(r) PROVE TurnsOK'
    <2>1. \E to : to # "none" /\ Goto(Con(r), to) BY <1>16 DEF GetItem, AfterItem
    <2>2. pc[Con(r)] # "none" /\ UNCHANGED <<active, tasks, cancelled>>
      BY <1>16 DEF GetItem, At, sessionVars
    <2> QED BY <1>16, <2>1, <2>2, TaskNames, WorkerTurns DEF GetItem, sessionVars, Goto
  <1>17. ASSUME NEW r \in Responses, Rendered(r) PROVE TurnsOK'
    <2>1. \E to : to # "none" /\ Goto(Con(r), to) BY <1>17 DEF Rendered
    <2>2. pc[Con(r)] # "none" /\ UNCHANGED <<active, tasks, cancelled>>
      BY <1>17 DEF Rendered, At, sessionVars
    <2> QED BY <1>17, <2>1, <2>2, TaskNames, WorkerTurns DEF Rendered, sessionVars, Goto
  <1> USE TaskNames, NoneType
        DEF At, Runs, Goto, MoveTo, MayEnd, MayPut, HoldPlayback, CallStop, Settle, TurnsOK,
            Unlaunched, Alive, AfterItem, Resume, sessionVars, TypeOK, PcOK, DataOK
  <1>3. ASSUME NEW r \in Responses, StartTurn(r) PROVE TurnsOK' BY <1>3 DEF StartTurn
  <1>4. ASSUME NEW r \in Responses, RefuseTurn(r) PROVE TurnsOK' BY <1>4 DEF RefuseTurn
  <1>5. ASSUME NEW r \in Responses, CheckTurn(r) PROVE TurnsOK' BY <1>5 DEF CheckTurn
  <1>6. ASSUME NEW r \in Responses, FailTurn(r) PROVE TurnsOK' BY <1>6 DEF FailTurn
  <1>7. ASSUME NEW r \in Responses, AnswerTurn(r) PROVE TurnsOK' BY <1>7 DEF AnswerTurn
  <1>8. ASSUME NEW r \in Responses, LaunchTurn(r) PROVE TurnsOK' BY <1>8 DEF LaunchTurn
  <1>9. ASSUME NEW r \in Responses, StartGenerator(r) PROVE TurnsOK' BY <1>9 DEF StartGenerator
  <1>10. ASSUME NEW r \in Responses, PutSentence(r) PROVE TurnsOK' BY <1>10 DEF PutSentence
  <1>11. ASSUME NEW r \in Responses, PutEnd(r) PROVE TurnsOK' BY <1>11 DEF PutEnd
  <1>12. ASSUME NEW r \in Responses, AbandonStream(r) PROVE TurnsOK' BY <1>12 DEF AbandonStream
  <1>13. ASSUME NEW r \in Responses, EndGenerator(r) PROVE TurnsOK' BY <1>13 DEF EndGenerator
  <1>14. ASSUME NEW r \in Responses, CancelGenerator(r) PROVE TurnsOK'
    BY <1>14 DEF CancelGenerator
  <1>15. ASSUME NEW r \in Responses, ConsumerLoop(r) PROVE TurnsOK' BY <1>15 DEF ConsumerLoop
  <1>18. ASSUME NEW r \in Responses, Launched(r) PROVE TurnsOK' BY <1>18 DEF Launched
  <1>19. ASSUME NEW r \in Responses, CancelConsumer(r) PROVE TurnsOK'
    BY <1>19 DEF CancelConsumer
  <1>20. ASSUME NEW r \in Responses, QuitConsumer(r) PROVE TurnsOK' BY <1>20 DEF QuitConsumer
  <1>21. ASSUME NEW r \in Responses, Reaped(r) PROVE TurnsOK' BY <1>21 DEF Reaped
  <1>24. ASSUME HearSpeech PROVE TurnsOK' BY <1>24 DEF HearSpeech
  <1>25. ASSUME PausePlayback PROVE TurnsOK' BY <1>25 DEF PausePlayback
  <1>26. ASSUME DoubtBargeIn PROVE TurnsOK' BY <1>26 DEF DoubtBargeIn
  <1>27. ASSUME TranscribeBargeIn PROVE TurnsOK' BY <1>27 DEF TranscribeBargeIn
  <1>28. ASSUME VerifyBargeIn PROVE TurnsOK' BY <1>28 DEF VerifyBargeIn
  <1>29. ASSUME StopForBargeIn PROVE TurnsOK' BY <1>29 DEF StopForBargeIn
  <1>30. ASSUME PlaybackCut PROVE TurnsOK' BY <1>30 DEF PlaybackCut
  <1>31. ASSUME SubmitBargeIn PROVE TurnsOK' BY <1>31 DEF SubmitBargeIn
  <1>32. ASSUME LoseDuplex PROVE TurnsOK' BY <1>32 DEF LoseDuplex
  <1>33. ASSUME PlaybackExits PROVE TurnsOK' BY <1>33 DEF PlaybackExits
  <1>34. ASSUME StartShutdown PROVE TurnsOK' BY <1>34 DEF StartShutdown
  <1>35. ASSUME StopForShutdown PROVE TurnsOK' BY <1>35 DEF StopForShutdown
  <1>36. ASSUME CancelAll PROVE TurnsOK' BY <1>36 DEF CancelAll
  <1>37. ASSUME FinishShutdown PROVE TurnsOK' BY <1>37 DEF FinishShutdown
  <1> QED
    BY <1>1, <1>2, <1>3, <1>4, <1>5, <1>6, <1>7, <1>8, <1>9, <1>10, <1>11, <1>12, <1>13, <1>14,
       <1>15, <1>16, <1>17, <1>18, <1>19, <1>20, <1>21, <1>22, <1>24, <1>25, <1>26,
       <1>27, <1>28, <1>29, <1>30, <1>31, <1>32, <1>33, <1>34, <1>35, <1>36, <1>37, Enders
    DEF Next, TurnStep, GeneratorStep, ConsumerStep, FinalizeStep, BargeInStep, ShutdownStep,
        BargeInEnds, Finishers

-----------------------------------------------------------------------------
(* The player and the consumer it plays for.                               *)

\* Only what consumers do, and what is done to the player, matters.
LEMMA PlayerFrame ==
  ASSUME TypeOK, PlayerOK, NEW t \in Tasks, NEW to, pc' = [pc EXCEPT ![t] = to],
         \A w \in Workers : w # t => fin'[w] = fin[w],
         player' = player \/ (player.st # "launching" /\ player' \in {Terminated(player), Paused(player)}),
         to \notin {"launching", "playing", "reap"},
         pc[t] \notin {"launching", "playing", "reap"}
  PROVE  PlayerOK'
  <1>1. /\ player'.r = player.r /\ (player'.st = "launching" <=> player.st = "launching")
        /\ Sounding' <=> Sounding
    <2>1. CASE player' = player BY <2>1 DEF Sounding
    <2>2. CASE player' \in {Terminated(player), Paused(player)}
      BY <2>2, Signals DEF TypeOK, DataOK, Sounding
    <2> QED BY <2>1, <2>2
  <1>2. \A q \in Responses : Con(q) = t \/ (pc'[Con(q)] = pc[Con(q)] /\ fin'[Con(q)] = fin[Con(q)])
    BY TaskNames DEF TypeOK, PcOK
  <1>3. \A q \in Responses : Con(q) = t => pc'[Con(q)] = to BY TaskNames DEF TypeOK, PcOK
  <1>4. \A q \in Responses : pc'[Con(q)] = "launching" => pc[Con(q)] = "launching"
    BY <1>2, <1>3
  <1>5. player.st = "launching" => Sounding BY DEF Sounding
  <1>6. Sounding => player.r \in Responses BY NoneType DEF PlayerOK, TypeOK, DataOK, Players
  <1> QED BY <1>1, <1>2, <1>3, <1>4, <1>6 DEF PlayerOK

LEMMA FinalizePlayer ==
  ASSUME TypeOK, PlayerOK, NEW t \in Finishers, NEW r, NEW out, Finalize(t, r, out),
         pc[t] \notin {"launching", "playing", "reap"}, UNCHANGED player
  PROVE  PlayerOK'
  <1>1. PICK to \in {"join", "done", "idle", "submit"} : pc' = [pc EXCEPT ![t] = to]
    BY FinalizeFrame
  <1>2. t \in Tasks /\ \A w \in Workers : w # t => fin'[w] = fin[w]
    BY FinalizeCases, TaskNames DEF Disowned, EndedAtOnce, Awaited, TypeOK, DataOK
  <1> QED BY <1>1, <1>2, PlayerFrame

LEMMA FinalizeFin ==
  ASSUME TypeOK, NEW t \in Finishers, NEW r, NEW out, Finalize(t, r, out)
  PROVE  \A w \in Tasks : w # t => fin'[w] = fin[w]
  BY FinalizeCases, TaskNames DEF Disowned, EndedAtOnce, Awaited, TypeOK, DataOK

\* A step leaves a playback to its consumer.
LEMMA PlayerStep ==
  ASSUME TypeOK, TurnsOK, PlayerOK, Next
  PROVE  PlayerOK'
  <1>1. ASSUME NEW r \in Responses, LaunchTurn(r) PROVE PlayerOK'
    <2>1. pc[Con(r)] = "none" /\ Con(r) \in Tasks
      BY <1>1, TaskNames DEF LaunchTurn, TurnsOK, Unlaunched
    <2>2. \A q \in Responses : q # r => pc'[Con(q)] = pc[Con(q)]
      BY <1>1, TaskNames DEF LaunchTurn, TypeOK, PcOK
    <2>3. pc'[Con(r)] = "loop" BY <1>1, TaskNames DEF LaunchTurn, TypeOK, PcOK
    <2>4. UNCHANGED <<player, fin>> BY <1>1 DEF LaunchTurn
    <2>5. Sounding => player.r \in Responses BY NoneType DEF PlayerOK, TypeOK, DataOK, Players
    <2> QED BY <2>1, <2>2, <2>3, <2>4, <2>5 DEF PlayerOK, Sounding
  <1>2. ASSUME NEW r \in Responses, FailGenerator(r) PROVE PlayerOK'
    <2>1. Gen(r) \in Finishers /\ Gen(r) \in Tasks BY TaskNames DEF Finishers
    <2>2. CASE \E q, o : Finalize(Gen(r), q, o)
      BY <1>2, <2>1, <2>2, FinalizePlayer DEF FailGenerator, At
    <2> QED BY <1>2, <2>1, <2>2, PlayerFrame DEF FailGenerator, Goto, At
  <1>3. ASSUME NEW r \in Responses, GetItem(r) PROVE PlayerOK'
    <2>1. \E to \in {"complete", "done", "get", "render", "loop"} : pc' = [pc EXCEPT ![Con(r)] = to]
      BY <1>3 DEF GetItem, AfterItem, Goto
    <2>2. pc[Con(r)] = "get" /\ UNCHANGED <<fin, player>> BY <1>3 DEF GetItem, At
    <2> QED BY <2>1, <2>2, PlayerFrame, TaskNames
  <1>4. ASSUME NEW r \in Responses, CompleteResponse(r) PROVE PlayerOK'
    <2>1. Con(r) \in Finishers /\ Con(r) \in Tasks BY TaskNames DEF Finishers
    <2>2. CASE \E q, o : Finalize(Con(r), q, o)
      BY <1>4, <2>1, <2>2, FinalizePlayer DEF CompleteResponse, At
    <2> QED BY <1>4, <2>1, <2>2 DEF CompleteResponse
  <1>5. ASSUME NEW r \in Responses, FailRender(r) PROVE PlayerOK'
    <2>1. Con(r) \in Finishers /\ Con(r) \in Tasks BY TaskNames DEF Finishers
    <2>2. CASE \E q, o : Finalize(Con(r), q, o)
      BY <1>5, <2>1, <2>2, FinalizePlayer DEF FailRender, At
    <2> QED BY <1>5, <2>1, <2>2 DEF FailRender
  <1>6. ASSUME NEW r \in Responses, Rendered(r) PROVE PlayerOK'
    <2>1. CASE player' = player /\ fin' = fin /\ \E to \in {"busy", "done"} : pc' = [pc EXCEPT ![Con(r)] = to]
      BY <1>6, <2>1, PlayerFrame, TaskNames DEF Rendered, At
    <2>2. CASE /\ player = NoPlayback /\ player' = [r |-> r, st |-> "launching"]
               /\ pc' = [pc EXCEPT ![Con(r)] = "launching"]
      <3>1. \A q \in Responses : pc[Con(q)] # "launching" BY <2>2 DEF PlayerOK, NoPlayback
      <3>2. \A q \in Responses : q # r => pc'[Con(q)] = pc[Con(q)]
        BY <2>2, TaskNames DEF TypeOK, PcOK
      <3>3. pc'[Con(r)] = "launching" BY <2>2, TaskNames DEF TypeOK, PcOK
      <3> QED BY <2>2, <3>1, <3>2, <3>3, NoneType DEF PlayerOK, Sounding
    <2> QED BY <1>6, <2>1, <2>2 DEF Rendered, Goto
  <1>7. ASSUME NEW r \in Responses, PlayRefused(r) PROVE PlayerOK'
    <2>1. Con(r) \in Finishers /\ Con(r) \in Tasks BY TaskNames DEF Finishers
    <2>2. CASE \E q, o : Finalize(Con(r), q, o)
      BY <1>7, <2>1, <2>2, FinalizePlayer DEF PlayRefused, At
    <2> QED BY <1>7, <2>1, <2>2, PlayerFrame DEF PlayRefused, Goto, At
  <1>8. ASSUME NEW r \in Responses, LaunchFails(r) PROVE PlayerOK'
    <2>1. Con(r) \in Finishers /\ Con(r) \in Tasks BY TaskNames DEF Finishers
    <2>2. PICK to \in {"join", "done", "idle", "submit"} : pc' = [pc EXCEPT ![Con(r)] = to]
      BY <1>8, <2>1, FinalizeFrame DEF LaunchFails
    <2>3. player.r = r /\ ~Sounding' /\ \A q \in Responses : q # r => pc[Con(q)] # "launching"
      BY <1>8 DEF LaunchFails, At, PlayerOK, Sounding, NoPlayback
    <2> QED BY <2>1, <2>2, <2>3, TaskNames DEF PlayerOK, TypeOK, PcOK
  <1>9. ASSUME NEW r \in Responses, Played(r) PROVE PlayerOK'
    <2>1. Con(r) \in Finishers /\ Con(r) \in Tasks BY TaskNames DEF Finishers
    <2>2. PICK to \in {"join", "done", "idle", "submit", "loop", "quit"} :
              pc' = [pc EXCEPT ![Con(r)] = to]
      BY <1>9, <2>1, FinalizeFrame DEF Played, Goto
    <2>3. \A w \in Tasks : w # Con(r) => fin'[w] = fin[w]
      BY <1>9, <2>1, FinalizeFin DEF Played
    <2>4. Sounding' => Sounding /\ player' = player /\ player.r # r
      BY <1>9 DEF Played, Over, Forget, Sounding, NoPlayback
    <2>5. player.st # "exited" => player' = player BY <1>9 DEF Played, Forget
    <2>6. \A q \in Responses : q # r => pc'[Con(q)] = pc[Con(q)] /\ fin'[Con(q)] = fin[Con(q)]
      BY <2>2, <2>3, TaskNames DEF TypeOK, PcOK
    <2>7. pc'[Con(r)] # "launching" BY <2>1, <2>2 DEF TypeOK, PcOK
    <2>8. Sounding => player.r \in Responses BY NoneType DEF PlayerOK, TypeOK, DataOK, Players
    <2> QED BY <2>4, <2>5, <2>6, <2>7, <2>8 DEF PlayerOK
  <1>10. ASSUME NEW t \in Finishers, Join(t) PROVE PlayerOK'
    <2>1. \E to \in {"idle", "submit", "done", "stopping"} : pc' = [pc EXCEPT ![t] = to]
      BY <1>10 DEF Join, Settle, Resume, Goto
    <2>2. /\ pc[t] = "join" /\ \A w \in Tasks : w # t => fin'[w] = fin[w]
          /\ player' = player \/ (player.st # "launching" /\ player' = Terminated(player))
      BY <1>10 DEF Join, At, LockFree, TypeOK, DataOK
    <2> QED BY <2>1, <2>2, PlayerFrame, TaskNames
  <1>11. ASSUME NEW from, NEW out, EndBargeIn(from, out), <<from, out>> \in BargeInEnds
         PROVE  PlayerOK'
    <2>1. Vad \in Finishers /\ Vad \in Tasks BY TaskNames DEF Finishers
    <2>2. CASE \E q, o : Finalize(Vad, q, o)
      BY <1>11, <2>1, <2>2, FinalizePlayer DEF EndBargeIn, At, BargeInEnds
    <2> QED BY <1>11, <2>1, <2>2 DEF EndBargeIn
  <1>12. ASSUME VerifyBargeIn PROVE PlayerOK'
    <2>1. CallStop(Vad) /\ pc[Vad] \notin {"launching", "playing", "reap"}
      BY <1>12 DEF VerifyBargeIn, At
    <2>2. PICK to \in {"halt", "stop"} : pc' = [pc EXCEPT ![Vad] = to]
      BY <2>1, StopFrame, TaskNames
    <2>3. \A w \in Workers : fin'[w] = fin[w] BY <2>1, StopFrame, TaskNames
    <2>4. player' = player \/ (player.st # "launching" /\ player' = Terminated(player))
      BY <2>1, StopFrame, TaskNames
    <2> QED BY <2>1, <2>2, <2>3, <2>4, PlayerFrame, TaskNames
  <1>13. ASSUME StopForBargeIn PROVE PlayerOK'
    <2>1. CallStop(Vad) /\ pc[Vad] \notin {"launching", "playing", "reap"}
      BY <1>13 DEF StopForBargeIn, At
    <2>2. PICK to \in {"halt", "stop"} : pc' = [pc EXCEPT ![Vad] = to]
      BY <2>1, StopFrame, TaskNames
    <2>3. \A w \in Workers : fin'[w] = fin[w] BY <2>1, StopFrame, TaskNames
    <2>4. player' = player \/ (player.st # "launching" /\ player' = Terminated(player))
      BY <2>1, StopFrame, TaskNames
    <2> QED BY <2>1, <2>2, <2>3, <2>4, PlayerFrame, TaskNames
  <1>14. ASSUME StartShutdown PROVE PlayerOK'
    <2>1. CallStop(Stop) /\ pc[Stop] \notin {"launching", "playing", "reap"}
      BY <1>14 DEF StartShutdown
    <2>2. PICK to \in {"halt", "stop"} : pc' = [pc EXCEPT ![Stop] = to]
      BY <2>1, StopFrame, TaskNames
    <2>3. \A w \in Workers : fin'[w] = fin[w] BY <2>1, StopFrame, TaskNames
    <2>4. player' = player \/ (player.st # "launching" /\ player' = Terminated(player))
      BY <2>1, StopFrame, TaskNames
    <2> QED BY <2>1, <2>2, <2>3, <2>4, PlayerFrame, TaskNames
  <1>15. ASSUME StopForShutdown PROVE PlayerOK'
    <2>1. CallStop(Stop) /\ pc[Stop] \notin {"launching", "playing", "reap"}
      BY <1>15 DEF StopForShutdown
    <2>2. PICK to \in {"halt", "stop"} : pc' = [pc EXCEPT ![Stop] = to]
      BY <2>1, StopFrame, TaskNames
    <2>3. \A w \in Workers : fin'[w] = fin[w] BY <2>1, StopFrame, TaskNames
    <2>4. player' = player \/ (player.st # "launching" /\ player' = Terminated(player))
      BY <2>1, StopFrame, TaskNames
    <2> QED BY <2>1, <2>2, <2>3, <2>4, PlayerFrame, TaskNames
  <1> USE TaskNames, NoneType
        DEF At, Runs, Goto, MoveTo, MayEnd, MayPut, HoldPlayback, Settle, PlayerOK, Sounding,
            Terminated, Paused, Forget, Over, LockFree, InPlay, AfterItem, Resume, NoPlayback,
            Players, TypeOK, PcOK, DataOK
  <1>16. ASSUME NEW r \in Responses, StartTurn(r) PROVE PlayerOK' BY <1>16 DEF StartTurn
  <1>17. ASSUME NEW r \in Responses, RefuseTurn(r) PROVE PlayerOK' BY <1>17 DEF RefuseTurn
  <1>18. ASSUME NEW r \in Responses, CheckTurn(r) PROVE PlayerOK' BY <1>18 DEF CheckTurn
  <1>19. ASSUME NEW r \in Responses, FailTurn(r) PROVE PlayerOK' BY <1>19 DEF FailTurn
  <1>20. ASSUME NEW r \in Responses, AnswerTurn(r) PROVE PlayerOK' BY <1>20 DEF AnswerTurn
  <1>21. ASSUME NEW r \in Responses, StartGenerator(r) PROVE PlayerOK'
    BY <1>21 DEF StartGenerator
  <1>22. ASSUME NEW r \in Responses, PutSentence(r) PROVE PlayerOK' BY <1>22 DEF PutSentence
  <1>23. ASSUME NEW r \in Responses, PutEnd(r) PROVE PlayerOK' BY <1>23 DEF PutEnd
  <1>24. ASSUME NEW r \in Responses, AbandonStream(r) PROVE PlayerOK'
    BY <1>24 DEF AbandonStream
  <1>25. ASSUME NEW r \in Responses, EndGenerator(r) PROVE PlayerOK' BY <1>25 DEF EndGenerator
  <1>26. ASSUME NEW r \in Responses, CancelGenerator(r) PROVE PlayerOK'
    BY <1>26 DEF CancelGenerator
  <1>27. ASSUME NEW r \in Responses, ConsumerLoop(r) PROVE PlayerOK' BY <1>27 DEF ConsumerLoop
  <1>28. ASSUME NEW r \in Responses, Launched(r) PROVE PlayerOK' BY <1>28 DEF Launched
  <1>29. ASSUME NEW r \in Responses, CancelConsumer(r) PROVE PlayerOK'
    BY <1>29 DEF CancelConsumer
  <1>30. ASSUME NEW r \in Responses, QuitConsumer(r) PROVE PlayerOK' BY <1>30 DEF QuitConsumer
  <1>31. ASSUME NEW r \in Responses, Reaped(r) PROVE PlayerOK' BY <1>31 DEF Reaped
  <1>32. ASSUME NEW t \in Finishers, Stopped(t) PROVE PlayerOK' BY <1>32 DEF Stopped
  <1>33. ASSUME HearSpeech PROVE PlayerOK' BY <1>33, PlayerFrame DEF HearSpeech
  <1>34. ASSUME PausePlayback PROVE PlayerOK' BY <1>34 DEF PausePlayback
  <1>35. ASSUME DoubtBargeIn PROVE PlayerOK' BY <1>35 DEF DoubtBargeIn
  <1>36. ASSUME TranscribeBargeIn PROVE PlayerOK' BY <1>36 DEF TranscribeBargeIn
  <1>37. ASSUME PlaybackCut PROVE PlayerOK' BY <1>37 DEF PlaybackCut
  <1>38. ASSUME SubmitBargeIn PROVE PlayerOK' BY <1>38 DEF SubmitBargeIn
  <1>39. ASSUME LoseDuplex PROVE PlayerOK' BY <1>39 DEF LoseDuplex
  <1>40. ASSUME PlaybackExits PROVE PlayerOK' BY <1>40 DEF PlaybackExits
  <1>41. ASSUME CancelAll PROVE PlayerOK' BY <1>41 DEF CancelAll
  <1>42. ASSUME FinishShutdown PROVE PlayerOK' BY <1>42 DEF FinishShutdown
  <1> QED
    BY <1>1, <1>2, <1>3, <1>4, <1>5, <1>6, <1>7, <1>8, <1>9, <1>10, <1>11, <1>12, <1>13, <1>14,
       <1>15, <1>16, <1>17, <1>18, <1>19, <1>20, <1>21, <1>22, <1>23, <1>24, <1>25, <1>26,
       <1>27, <1>28, <1>29, <1>30, <1>31, <1>32, <1>33, <1>34, <1>35, <1>36, <1>37, <1>38,
       <1>39, <1>40, <1>41, <1>42
    DEF Next, TurnStep, GeneratorStep, ConsumerStep, FinalizeStep, BargeInStep, ShutdownStep,
        BargeInEnds, Finishers

-----------------------------------------------------------------------------
(* Silence after a verified barge-in.                                      *)

\* What neither starts a playback nor moves the barge-in on.
LEMMA SilentFrame ==
  ASSUME TypeOK, SilentOK, UNCHANGED <<heard, cut>>,
         \A q \in Responses : (q = heard \/ q \in cut) /\ gen[q] < epoch => gen'[q] < epoch',
         pc'[Vad] = pc[Vad] \/ pc'[Vad] \notin HeardPcs,
         pc'[Vad] = "halt" => fin'[Vad] = fin[Vad],
         Sounding' => Sounding /\ player'.r = player.r
  PROVE  SilentOK'
  <1>1. /\ cut \subseteq Names /\ heard \in Names
    BY DEF TypeOK, DataOK
  <1> QED BY <1>1, NoneType DEF SilentOK, HeardPcs, InterruptedStaysSilent

LEMMA FinalizeSilent ==
  ASSUME TypeOK, SilentOK, NEW t \in Finishers, NEW r, NEW out, Finalize(t, r, out),
         UNCHANGED <<epoch, gen, heard, cut>>,
         Sounding' => Sounding /\ player'.r = player.r
  PROVE  SilentOK'
  <1>1. PICK to \in {"join", "done", "idle", "submit"} : pc' = [pc EXCEPT ![t] = to]
    BY FinalizeFrame
  <1>2. to \notin HeardPcs BY DEF HeardPcs
  <1>3. t # Vad => fin'[Vad] = fin[Vad] /\ pc'[Vad] = pc[Vad]
    BY <1>1, FinalizeFin, TaskNames DEF TypeOK, PcOK
  <1>4. t = Vad => pc'[Vad] = to BY <1>1, TaskNames DEF TypeOK, PcOK
  <1> QED BY <1>2, <1>3, <1>4, SilentFrame DEF HeardPcs

\* A step keeps the responses that were stopped silent.
LEMMA SilentStep ==
  ASSUME TypeOK, TurnsOK, PlayerOK, SilentOK, Next
  PROVE  SilentOK'
  <1>1. ASSUME NEW r \in Responses, StartTurn(r) PROVE SilentOK'
    <2>1. heard # r /\ r \notin cut BY <1>1 DEF StartTurn, TurnsOK
    <2>2. \A q \in Responses : q # r => gen'[q] = gen[q] BY <1>1 DEF StartTurn, TypeOK, DataOK
    <2>3. pc'[Vad] = pc[Vad] BY <1>1, TaskNames DEF StartTurn, Goto, TypeOK, PcOK
    <2>4. UNCHANGED <<heard, cut, fin, player, epoch>> BY <1>1 DEF StartTurn
    <2> QED BY <2>1, <2>2, <2>3, <2>4, SilentFrame DEF Sounding
  <1>2. ASSUME NEW r \in Responses, AnswerTurn(r) PROVE SilentOK'
    <2>1. heard # r /\ r \notin cut BY <1>2 DEF AnswerTurn, TurnsOK
    <2>2. \A q \in Responses : q # r => gen'[q] = gen[q] BY <1>2 DEF AnswerTurn, TypeOK, DataOK
    <2>3. pc'[Vad] = pc[Vad] BY <1>2, TaskNames DEF AnswerTurn, Goto, TypeOK, PcOK
    <2>4. UNCHANGED <<heard, cut, fin, player, epoch>> BY <1>2 DEF AnswerTurn
    <2> QED BY <2>1, <2>2, <2>3, <2>4, SilentFrame DEF Sounding
  <1>3. ASSUME NEW r \in Responses, EndsResponse(r) PROVE SilentOK'
    <2>1. PICK t \in {Gen(r), Con(r)} : Ends(t, r) BY <1>3 DEF EndsResponse
    <2>2. t \in Finishers /\ t \in Tasks /\ t \in Workers BY <2>1, TaskNames DEF Finishers
    <2>3. UNCHANGED <<epoch, gen, heard, cut>> BY <2>1 DEF Ends
    <2>4. Sounding' => Sounding /\ player'.r = player.r
      BY <2>1 DEF Ends, Sounding, NoPlayback
    <2>5. CASE \E out \in Outs : Finalize(t, r, out) BY <2>2, <2>3, <2>4, <2>5, FinalizeSilent
    <2>6. ASSUME NEW to, Goto(t, to), fin' = fin PROVE SilentOK'
      <3>1. pc'[Vad] = pc[Vad] BY <2>2, <2>6, TaskNames DEF Goto, TypeOK, PcOK
      <3> QED BY <2>3, <2>4, <2>6, <3>1, SilentFrame
    <2> QED BY <2>1, <2>5, <2>6 DEF Ends
  <1>4. ASSUME NEW r \in Responses, GetItem(r) PROVE SilentOK'
    <2>1. pc'[Vad] = pc[Vad] BY <1>4, TaskNames DEF GetItem, Goto, TypeOK, PcOK
    <2> QED BY <1>4, <2>1, SilentFrame DEF GetItem, sessionVars, Sounding
  <1>5. ASSUME NEW r \in Responses, Rendered(r) PROVE SilentOK'
    <2>1. pc'[Vad] = pc[Vad] /\ UNCHANGED <<fin, sessionVars>>
      BY <1>5, TaskNames DEF Rendered, Goto, TypeOK, PcOK
    <2>2. CASE player' = player BY <2>1, <2>2, SilentFrame DEF sessionVars, Sounding
    <2>3. CASE Live(r) /\ player' = [r |-> r, st |-> "launching"]
      <3>1. epoch <= gen[r] /\ player'.r = r /\ gen[r] \in Nat /\ epoch \in Nat
        BY <2>3 DEF Live, TypeOK, DataOK
      <3>2. r \notin cut BY <3>1 DEF SilentOK
      <3>3. ~(pc[Vad] = "halt" /\ heard = r) BY <3>1 DEF SilentOK
      <3> QED
        BY <2>1, <3>1, <3>2, <3>3 DEF SilentOK, InterruptedStaysSilent, sessionVars, HeardPcs
    <2> QED BY <1>5, <2>2, <2>3 DEF Rendered
  <1>6. ASSUME NEW r \in Responses, Launched(r) PROVE SilentOK'
    <2>1. pc'[Vad] = pc[Vad] BY <1>6, TaskNames DEF Launched, Goto, TypeOK, PcOK
    <2>2. Sounding /\ player'.r = player.r
      BY <1>6 DEF Launched, At, PlayerOK, Sounding, TypeOK, DataOK, Players
    <2> QED BY <1>6, <2>1, <2>2, SilentFrame DEF Launched, sessionVars
  <1>7. ASSUME HearSpeech PROVE SilentOK'
    <2>1. heard' = active /\ active # None BY <1>7 DEF HearSpeech, Live
    <2>2. pc'[Vad] \in {"verify", "pause"}
      BY <1>7, TaskNames DEF HearSpeech, HoldPlayback, Goto, TypeOK, PcOK
    <2>3. player'.r = player.r /\ (Sounding' <=> Sounding)
      BY <1>7, Signals DEF HearSpeech, HoldPlayback, Sounding, TypeOK, DataOK
    <2>4. UNCHANGED <<gen, epoch, cut>> BY <1>7 DEF HearSpeech
    <2> QED BY <2>1, <2>2, <2>3, <2>4 DEF SilentOK, InterruptedStaysSilent
  <1>8. ASSUME NEW from, NEW out, EndBargeIn(from, out), <<from, out>> \in BargeInEnds
         PROVE  SilentOK'
    <2>1. Vad \in Finishers BY TaskNames DEF Finishers
    <2>2. Sounding' => Sounding /\ player'.r = player.r BY <1>8 DEF EndBargeIn, Sounding
    <2>3. CASE \E q, o : Finalize(Vad, q, o)
      BY <1>8, <2>1, <2>2, <2>3, FinalizeSilent DEF EndBargeIn
    <2> QED BY <1>8, <2>3 DEF EndBargeIn
  <1>9. ASSUME VerifyBargeIn PROVE SilentOK'
    <2>1. /\ player'.r = player.r /\ (Sounding' => Sounding) /\ pc'[Vad] \in {"halt", "stop"}
          /\ pc'[Vad] = "halt" => fin'[Vad].r = player.r
      BY <1>9, StopFrame, Signals, TaskNames DEF VerifyBargeIn, Sounding, TypeOK, PcOK, DataOK
    <2>2. heard # None /\ heard \in Responses
      BY <1>9, NoneType DEF VerifyBargeIn, At, SilentOK, HeardPcs, TypeOK, DataOK
    <2>3. gen[heard] < epoch'
      BY <1>9, <2>2 DEF VerifyBargeIn, At, SilentOK, TurnsOK, TypeOK, DataOK, sessionVars
    <2>4. UNCHANGED <<gen, heard, cut>> /\ epoch' >= epoch /\ epoch' \in Nat
      BY <1>9 DEF VerifyBargeIn, sessionVars, TypeOK, DataOK
    <2>5. \A q \in cut : q # None /\ gen[q] < epoch'
      BY <2>4, NoneType DEF SilentOK, TypeOK, DataOK
    <2> QED BY <2>1, <2>2, <2>3, <2>4, <2>5 DEF SilentOK, InterruptedStaysSilent
  <1>10. ASSUME StopForBargeIn PROVE SilentOK'
    <2>1. /\ player'.r = player.r /\ (Sounding' => Sounding) /\ pc'[Vad] \in {"halt", "stop"}
          /\ pc'[Vad] = "halt" => fin'[Vad].r = player.r
      BY <1>10, StopFrame, Signals, TaskNames
      DEF StopForBargeIn, Sounding, TypeOK, PcOK, DataOK
    <2>2. heard # None /\ heard \in Responses
      BY <1>10, NoneType DEF StopForBargeIn, At, SilentOK, HeardPcs, TypeOK, DataOK
    <2>3. gen[heard] < epoch'
      BY <1>10, <2>2 DEF StopForBargeIn, At, SilentOK, TurnsOK, TypeOK, DataOK, sessionVars
    <2>4. UNCHANGED <<gen, heard, cut>> /\ epoch' >= epoch /\ epoch' \in Nat
      BY <1>10 DEF StopForBargeIn, sessionVars, TypeOK, DataOK
    <2>5. \A q \in cut : q # None /\ gen[q] < epoch'
      BY <2>4, NoneType DEF SilentOK, TypeOK, DataOK
    <2> QED BY <2>1, <2>2, <2>3, <2>4, <2>5 DEF SilentOK, InterruptedStaysSilent
  <1>11. ASSUME StartShutdown PROVE SilentOK'
    <2>1. CallStop(Stop) BY <1>11 DEF StartShutdown
    <2>2. player'.r = player.r /\ (Sounding' => Sounding)
      BY <2>1, StopFrame, Signals, TaskNames DEF Sounding, TypeOK, DataOK
    <2>3. pc'[Vad] = pc[Vad] /\ fin'[Vad] = fin[Vad]
      BY <2>1, StopFrame, TaskNames DEF TypeOK, PcOK
    <2>4. \A q \in Responses : gen[q] < epoch => gen'[q] < epoch'
      BY <1>11 DEF StartShutdown, TypeOK, DataOK
    <2> QED BY <1>11, <2>2, <2>3, <2>4, SilentFrame DEF StartShutdown
  <1>26. ASSUME NEW t \in Finishers, Join(t) PROVE SilentOK'
    <2>1. player' \in {player, Terminated(player)} BY <1>26 DEF Join
    <2>2. Sounding' => Sounding /\ player'.r = player.r
      BY <2>1, Signals DEF Sounding, TypeOK, DataOK
    <2>3. \E to \in {"stopping", "done", "idle", "submit"} : Goto(t, to)
      BY <1>26, TaskNames DEF Join, Settle, Resume
    <2>4. /\ pc'[Vad] = pc[Vad] \/ pc'[Vad] \notin HeardPcs
          /\ pc'[Vad] = "halt" => fin'[Vad] = fin[Vad]
      BY <1>26, <2>3, TaskNames DEF Join, Goto, HeardPcs, TypeOK, PcOK, DataOK
    <2> QED BY <1>26, <2>2, <2>4, SilentFrame DEF Join, Settle, sessionVars
  <1> USE TaskNames, NoneType, SilentFrame
        DEF At, Runs, Goto, MoveTo, MayEnd, MayPut, HoldPlayback, CallStop, Settle, SilentOK,
            HeardPcs, Sounding, InterruptedStaysSilent, Terminated, Paused, Forget, Over,
            LockFree, Resume, NoPlayback, Players, sessionVars, TypeOK, PcOK, DataOK
  <1>12. ASSUME NEW r \in Responses, RefuseTurn(r) PROVE SilentOK' BY <1>12 DEF RefuseTurn
  <1>13. ASSUME NEW r \in Responses, CheckTurn(r) PROVE SilentOK' BY <1>13 DEF CheckTurn
  <1>14. ASSUME NEW r \in Responses, FailTurn(r) PROVE SilentOK' BY <1>14 DEF FailTurn
  <1>15. ASSUME NEW r \in Responses, LaunchTurn(r) PROVE SilentOK' BY <1>15 DEF LaunchTurn
  <1>16. ASSUME NEW r \in Responses, StartGenerator(r) PROVE SilentOK'
    BY <1>16 DEF StartGenerator
  <1>17. ASSUME NEW r \in Responses, PutSentence(r) PROVE SilentOK' BY <1>17 DEF PutSentence
  <1>18. ASSUME NEW r \in Responses, PutEnd(r) PROVE SilentOK' BY <1>18 DEF PutEnd
  <1>19. ASSUME NEW r \in Responses, AbandonStream(r) PROVE SilentOK'
    BY <1>19 DEF AbandonStream
  <1>20. ASSUME NEW r \in Responses, EndGenerator(r) PROVE SilentOK' BY <1>20 DEF EndGenerator
  <1>21. ASSUME NEW r \in Responses, CancelGenerator(r) PROVE SilentOK'
    BY <1>21 DEF CancelGenerator
  <1>22. ASSUME NEW r \in Responses, ConsumerLoop(r) PROVE SilentOK' BY <1>22 DEF ConsumerLoop
  <1>23. ASSUME NEW r \in Responses, CancelConsumer(r) PROVE SilentOK'
    BY <1>23 DEF CancelConsumer
  <1>24. ASSUME NEW r \in Responses, QuitConsumer(r) PROVE SilentOK' BY <1>24 DEF QuitConsumer
  <1>25. ASSUME NEW r \in Responses, Reaped(r) PROVE SilentOK' BY <1>25 DEF Reaped
  <1>27. ASSUME NEW t \in Finishers, Stopped(t) PROVE SilentOK' BY <1>27 DEF Stopped
  <1>28. ASSUME PausePlayback PROVE SilentOK' BY <1>28 DEF PausePlayback
  <1>29. ASSUME DoubtBargeIn PROVE SilentOK' BY <1>29 DEF DoubtBargeIn
  <1>30. ASSUME TranscribeBargeIn PROVE SilentOK' BY <1>30 DEF TranscribeBargeIn
  <1>31. ASSUME PlaybackCut PROVE SilentOK' BY <1>31 DEF PlaybackCut
  <1>32. ASSUME SubmitBargeIn PROVE SilentOK' BY <1>32 DEF SubmitBargeIn
  <1>33. ASSUME LoseDuplex PROVE SilentOK' BY <1>33 DEF LoseDuplex
  <1>34. ASSUME PlaybackExits PROVE SilentOK' BY <1>34 DEF PlaybackExits
  <1>35. ASSUME StopForShutdown PROVE SilentOK' BY <1>35 DEF StopForShutdown
  <1>36. ASSUME CancelAll PROVE SilentOK' BY <1>36 DEF CancelAll
  <1>37. ASSUME FinishShutdown PROVE SilentOK' BY <1>37 DEF FinishShutdown
  <1> QED
    BY <1>1, <1>2, <1>3, <1>4, <1>5, <1>6, <1>7, <1>8, <1>9, <1>10, <1>11, <1>12, <1>13, <1>14,
       <1>15, <1>16, <1>17, <1>18, <1>19, <1>20, <1>21, <1>22, <1>23, <1>24, <1>25, <1>26,
       <1>27, <1>28, <1>29, <1>30, <1>31, <1>32, <1>33, <1>34, <1>35, <1>36, <1>37, Enders
    DEF Next, TurnStep, GeneratorStep, ConsumerStep, FinalizeStep, BargeInStep, ShutdownStep,
        BargeInEnds, Finishers

-----------------------------------------------------------------------------
(* Who waits for whom.                                                     *)

\* What is said of waiting, for any way in which the tasks move.
LEMMA WaitSame ==
  ASSUME WaitOK,
         \A w \in Workers : Alive(w)' => Alive(w) \/ w \in tasks',
         \A u \in Tasks, w \in Workers : Joins(u, w)' => Joins(u, w),
         \A u \in Tasks, w \in Workers : Joins(u, w) /\ Alive(w)' => Joins(u, w)',
         tasks \subseteq tasks', cancelled \subseteq cancelled'
  PROVE  WaitOK'
  <1>1. \A w \in Workers : Alive(w)' => w \in tasks' \/ \E u \in Tasks : Joins(u, w)'
    BY DEF WaitOK
  <1>2. \A u \in Tasks, w \in Workers : Joins(u, w)' => w \in cancelled' BY DEF WaitOK
  <1>3. ASSUME NEW S \in SUBSET Workers, S # {}
        PROVE  \E w \in S : \A u \in S : ~Joins(u, w)'
    <2>1. PICK w \in S : \A u \in S : ~Joins(u, w) BY <1>3 DEF WaitOK
    <2> QED BY <2>1, TaskNames
  <1> QED BY <1>1, <1>2, <1>3 DEF WaitOK

\* One task, which waits for none that is alive, moves on.
LEMMA WaitFrame ==
  ASSUME TypeOK, WaitOK, NEW t \in Tasks, NEW to, pc' = [pc EXCEPT ![t] = to], to # "join",
         t \in Workers => Alive(t),
         pc[t] = "join" => \A w \in fin[t].wait : ~Alive(w),
         \A u \in Tasks : u # t => fin'[u] = fin[u],
         UNCHANGED <<tasks, cancelled>>
  PROVE  WaitOK'
  <1>1. \A u \in Tasks : u # t => pc'[u] = pc[u] BY DEF TypeOK, PcOK
  <1>2. pc'[t] = to BY DEF TypeOK, PcOK
  <1>3. \A w \in Workers : Alive(w)' => Alive(w) BY <1>1, TaskNames DEF Alive
  <1>4. \A u \in Tasks, w \in Workers : Joins(u, w)' => Joins(u, w)
    BY <1>1, <1>2 DEF Joins
  <1>5. \A u \in Tasks, w \in Workers : Joins(u, w) /\ Alive(w) => Joins(u, w)'
    BY <1>1 DEF Joins
  <1> QED BY <1>3, <1>4, <1>5, WaitSame

LEMMA FinalizeWait ==
  ASSUME TypeOK, WaitOK, NEW t \in Finishers, NEW r, NEW out, Finalize(t, r, out),
         t \in Workers => Alive(t), pc[t] # "join", Runs(t)
  PROVE  WaitOK'
  <1>1. CASE Disowned(t, r, out) \/ EndedAtOnce(t, r, out)
    <2>1. PICK to \in {"done", "idle", "submit"} : pc' = [pc EXCEPT ![t] = to]
      BY <1>1 DEF Disowned, EndedAtOnce, Goto, Resume
    <2> QED BY <1>1, <2>1, WaitFrame, TaskNames DEF Disowned, EndedAtOnce
  <1>2. CASE Awaited(t, r, out)
    <2>1. t \in Tasks BY TaskNames
    <2>2. \A u \in Tasks : u # t => pc'[u] = pc[u] /\ fin'[u] = fin[u]
      BY <1>2 DEF Awaited, Goto, TypeOK, PcOK, DataOK
    <2>3. pc'[t] = "join" /\ fin'[t].wait = Others(t)
      BY <1>2, <2>1 DEF Awaited, Goto, TypeOK, PcOK, DataOK
    <2>4. tasks' = tasks \ Others(t) /\ cancelled' = cancelled \cup Others(t)
      BY <1>2 DEF Awaited
    <2>5. t \notin Others(t) BY DEF Others
    <2>6. \A u \in Tasks, w \in Workers : u # t => (Joins(u, w)' <=> Joins(u, w))
      BY <2>2 DEF Joins
    <2>7. \A w \in Workers : Joins(t, w)' <=> w \in Others(t) BY <2>3 DEF Joins
    <2>8. \A w \in Workers : ~Joins(t, w) BY DEF Joins
    <2>9. ASSUME NEW w \in Workers, Alive(w)'
          PROVE  w \in tasks' \/ \E u \in Tasks : Joins(u, w)'
      <3>1. Alive(w) BY <2>2, <2>9, TaskNames DEF Alive
      <3> QED BY <2>1, <2>4, <2>6, <2>7, <2>8, <3>1 DEF WaitOK
    <2>10. \A u \in Tasks, w \in Workers : Joins(u, w)' => w \in cancelled'
      BY <2>4, <2>6, <2>7 DEF WaitOK
    <2>11. ASSUME NEW S \in SUBSET Workers, S # {}
           PROVE  \E w \in S : \A u \in S : ~Joins(u, w)'
      <3>1. CASE t \in S
        BY <2>5, <2>6, <2>7, <3>1, TaskNames DEF WaitOK, Runs
      <3>2. CASE t \notin S
        <4>1. PICK w \in S : \A u \in S : ~Joins(u, w) BY <2>11 DEF WaitOK
        <4> QED BY <2>6, <3>2, <4>1, TaskNames
      <3> QED BY <3>1, <3>2
    <2> QED BY <2>9, <2>10, <2>11 DEF WaitOK
  <1> QED BY <1>1, <1>2, FinalizeCases

\* A step loses no worker and closes no circle.
LEMMA WaitStep ==
  ASSUME TypeOK, TurnsOK, WaitOK, Next
  PROVE  WaitOK'
  <1>1. ASSUME NEW r \in Responses, LaunchTurn(r) PROVE WaitOK'
    <2>1. pc[Turn(r)] = "launch" /\ pc[Gen(r)] = "none" /\ pc[Con(r)] = "none"
      BY <1>1 DEF LaunchTurn, TurnsOK, Unlaunched
    <2>2. /\ pc'[Turn(r)] = "done" /\ pc'[Gen(r)] = "new" /\ pc'[Con(r)] = "loop"
          /\ \A u \in Tasks \ {Turn(r), Gen(r), Con(r)} : pc'[u] = pc[u]
      BY <1>1, TaskNames DEF LaunchTurn, TypeOK, PcOK
    <2>3. tasks' = tasks \cup {Gen(r), Con(r)} /\ UNCHANGED <<fin, cancelled>>
      BY <1>1 DEF LaunchTurn
    <2>4. \A u \in Tasks, w \in Workers : Joins(u, w)' <=> Joins(u, w)
      BY <2>1, <2>2, <2>3 DEF Joins
    <2>5. \A w \in Workers : Alive(w)' => Alive(w) \/ w \in tasks'
      BY <2>2, <2>3, TaskNames DEF Alive
    <2> QED BY <2>3, <2>4, <2>5, WaitSame
  <1>2. ASSUME NEW r \in Responses, PutSentence(r) PROVE WaitOK'
    BY <1>2, WaitSame DEF PutSentence, sessionVars, Joins, Alive
  <1>3. ASSUME NEW r \in Responses, EndsResponse(r) PROVE WaitOK'
    <2>1. PICK t \in {Gen(r), Con(r)} : Ends(t, r) BY <1>3 DEF EndsResponse
    <2>2. t \in Finishers /\ t \in Tasks /\ t \in Workers BY <2>1, TaskNames DEF Finishers
    <2>3. Alive(t) /\ pc[t] # "join" /\ Runs(t) BY <2>1 DEF Ends, Alive
    <2>4. CASE \E out \in Outs : Finalize(t, r, out) BY <2>2, <2>3, <2>4, FinalizeWait
    <2>5. ASSUME NEW to \in {"done", "quit", "loop"}, Goto(t, to),
                 UNCHANGED <<tasks, cancelled, fin>>
          PROVE  WaitOK'
      BY <2>2, <2>3, <2>5, WaitFrame DEF Goto
    <2> QED BY <2>1, <2>4, <2>5 DEF Ends
  <1>4. ASSUME NEW t \in Finishers, Join(t) PROVE WaitOK'
    <2>1. t \in Tasks /\ \E to \in {"idle", "submit", "done", "stopping"} : pc' = [pc EXCEPT ![t] = to]
      BY <1>4, TaskNames DEF Join, Settle, Resume, Goto
    <2> QED BY <1>4, <2>1, WaitFrame DEF Join, At, Alive, sessionVars, TypeOK, DataOK
  <1>5. ASSUME NEW t \in Finishers, Stopped(t) PROVE WaitOK'
    <2>1. t \in Tasks /\ \E to \in {"idle", "submit", "done", "stopping"} : pc' = [pc EXCEPT ![t] = to]
      BY <1>5, TaskNames DEF Stopped, Settle, Resume, Goto
    <2> QED BY <1>5, <2>1, WaitFrame DEF Stopped, At, Alive, sessionVars, TypeOK, DataOK
  <1>6. ASSUME NEW from, NEW out, EndBargeIn(from, out), <<from, out>> \in BargeInEnds
         PROVE  WaitOK'
    <2>1. Vad \in Finishers /\ Vad \in Tasks BY TaskNames DEF Finishers
    <2>2. pc[Vad] # "join" /\ Runs(Vad) BY <1>6 DEF EndBargeIn, At, Alive, BargeInEnds
    <2>3. CASE \E q, o : Finalize(Vad, q, o) BY <1>6, <2>1, <2>2, <2>3, FinalizeWait, TaskNames
    <2> QED BY <1>6, <2>3 DEF EndBargeIn
  <1>7. ASSUME VerifyBargeIn PROVE WaitOK'
    <2>1. CallStop(Vad) /\ pc[Vad] # "join" /\ UNCHANGED <<tasks, cancelled>>
      BY <1>7 DEF VerifyBargeIn, At
    <2> QED BY <2>1, StopFrame, WaitFrame, TaskNames
  <1>8. ASSUME StopForBargeIn PROVE WaitOK'
    <2>1. CallStop(Vad) /\ pc[Vad] # "join" /\ UNCHANGED <<tasks, cancelled>>
      BY <1>8 DEF StopForBargeIn, At
    <2> QED BY <2>1, StopFrame, WaitFrame, TaskNames
  <1>9. ASSUME LoseDuplex PROVE WaitOK'
    BY <1>9, WaitSame DEF LoseDuplex, Joins, Alive
  <1>10. ASSUME PlaybackExits PROVE WaitOK'
    BY <1>10, WaitSame DEF PlaybackExits, sessionVars, Joins, Alive
  <1>11. ASSUME StartShutdown PROVE WaitOK'
    <2>1. CallStop(Stop) /\ pc[Stop] # "join" /\ UNCHANGED <<tasks, cancelled>>
      BY <1>11 DEF StartShutdown, At
    <2> QED BY <2>1, StopFrame, WaitFrame, TaskNames
  <1>12. ASSUME StopForShutdown PROVE WaitOK'
    <2>1. CallStop(Stop) /\ pc[Stop] # "join" /\ UNCHANGED <<tasks, cancelled>>
      BY <1>12 DEF StopForShutdown, At
    <2> QED BY <2>1, StopFrame, WaitFrame, TaskNames
  <1>13. ASSUME CancelAll PROVE WaitOK'
    <2>1. /\ pc'[Stop] = "join" /\ fin'[Stop].wait = {w \in tasks : Alive(w)}
          /\ \A u \in Tasks \ {Stop} : pc'[u] = pc[u] /\ fin'[u] = fin[u]
      BY <1>13, TaskNames DEF CancelAll, Goto, TypeOK, PcOK, DataOK, Fins
    <2>2. tasks' = {} /\ cancelled' = cancelled \cup {w \in tasks : Alive(w)} /\ pc[Stop] = "halt"
      BY <1>13 DEF CancelAll
    <2>3. \A u \in Tasks \ {Stop}, w \in Workers : Joins(u, w)' <=> Joins(u, w)
      BY <2>1 DEF Joins
    <2>4. \A w \in Workers : ~Joins(Stop, w) /\ (Joins(Stop, w)' <=> w \in tasks /\ Alive(w))
      BY <2>1, <2>2 DEF Joins
    <2>5. \A w \in Workers : Alive(w)' <=> Alive(w) BY <2>1, TaskNames DEF Alive
    <2>6. \A w \in Workers : Alive(w)' => \E u \in Tasks : Joins(u, w)'
      BY <2>3, <2>4, <2>5, TaskNames DEF WaitOK
    <2>7. \A u \in Tasks, w \in Workers : Joins(u, w)' => w \in cancelled'
      BY <2>2, <2>3, <2>4 DEF WaitOK
    <2>8. ASSUME NEW S \in SUBSET Workers, S # {}
          PROVE  \E w \in S : \A u \in S : ~Joins(u, w)'
      <3>1. PICK w \in S : \A u \in S : ~Joins(u, w) BY <2>8 DEF WaitOK
      <3> QED BY <2>3, <3>1, TaskNames
    <2> QED BY <2>6, <2>7, <2>8 DEF WaitOK
  <1>14. ASSUME FinishShutdown PROVE WaitOK'
    <2>1. /\ pc'[Stop] = "done" /\ pc'[Vad] = "done"
          /\ \A u \in Tasks \ {Stop, Vad} : pc'[u] = pc[u]
          /\ UNCHANGED <<fin, tasks, cancelled>>
      BY <1>14, TaskNames DEF FinishShutdown, TypeOK, PcOK
    <2>2. \A w \in Workers : Joins(Stop, w) \/ Joins(Vad, w) => ~Alive(w)
      BY <1>14 DEF FinishShutdown, Joins
    <2>3. \A w \in Workers : Alive(w)' <=> Alive(w) BY <2>1, TaskNames DEF Alive
    <2>4. \A u \in Tasks, w \in Workers : Joins(u, w)' => Joins(u, w) BY <2>1 DEF Joins
    <2>5. \A u \in Tasks, w \in Workers : Joins(u, w) /\ Alive(w)' => Joins(u, w)'
      BY <2>1, <2>2, <2>3 DEF Joins
    <2> QED BY <2>1, <2>3, <2>4, <2>5, WaitSame
  <1> USE TaskNames, NoneType, WaitFrame
        DEF At, Runs, Goto, MoveTo, MayEnd, MayPut, HoldPlayback, Alive, AfterItem,
            sessionVars, TypeOK, PcOK, DataOK
  <1>15. ASSUME NEW r \in Responses, StartTurn(r) PROVE WaitOK' BY <1>15 DEF StartTurn
  <1>16. ASSUME NEW r \in Responses, RefuseTurn(r) PROVE WaitOK' BY <1>16 DEF RefuseTurn
  <1>17. ASSUME NEW r \in Responses, CheckTurn(r) PROVE WaitOK' BY <1>17 DEF CheckTurn
  <1>18. ASSUME NEW r \in Responses, FailTurn(r) PROVE WaitOK' BY <1>18 DEF FailTurn
  <1>19. ASSUME NEW r \in Responses, AnswerTurn(r) PROVE WaitOK' BY <1>19 DEF AnswerTurn
  <1>20. ASSUME NEW r \in Responses, StartGenerator(r) PROVE WaitOK'
    BY <1>20 DEF StartGenerator
  <1>21. ASSUME NEW r \in Responses, PutEnd(r) PROVE WaitOK' BY <1>21 DEF PutEnd
  <1>22. ASSUME NEW r \in Responses, AbandonStream(r) PROVE WaitOK' BY <1>22 DEF AbandonStream
  <1>23. ASSUME NEW r \in Responses, EndGenerator(r) PROVE WaitOK' BY <1>23 DEF EndGenerator
  <1>24. ASSUME NEW r \in Responses, CancelGenerator(r) PROVE WaitOK'
    BY <1>24 DEF CancelGenerator
  <1>25. ASSUME NEW r \in Responses, ConsumerLoop(r) PROVE WaitOK' BY <1>25 DEF ConsumerLoop
  <1>26. ASSUME NEW r \in Responses, GetItem(r) PROVE WaitOK' BY <1>26 DEF GetItem
  <1>27. ASSUME NEW r \in Responses, Rendered(r) PROVE WaitOK' BY <1>27 DEF Rendered
  <1>28. ASSUME NEW r \in Responses, Launched(r) PROVE WaitOK' BY <1>28 DEF Launched
  <1>29. ASSUME NEW r \in Responses, CancelConsumer(r) PROVE WaitOK'
    BY <1>29 DEF CancelConsumer
  <1>30. ASSUME NEW r \in Responses, QuitConsumer(r) PROVE WaitOK' BY <1>30 DEF QuitConsumer
  <1>31. ASSUME NEW r \in Responses, Reaped(r) PROVE WaitOK' BY <1>31 DEF Reaped
  <1>32. ASSUME HearSpeech PROVE WaitOK' BY <1>32 DEF HearSpeech
  <1>33. ASSUME PausePlayback PROVE WaitOK' BY <1>33 DEF PausePlayback
  <1>34. ASSUME DoubtBargeIn PROVE WaitOK' BY <1>34 DEF DoubtBargeIn
  <1>35. ASSUME TranscribeBargeIn PROVE WaitOK' BY <1>35 DEF TranscribeBargeIn
  <1>36. ASSUME PlaybackCut PROVE WaitOK' BY <1>36 DEF PlaybackCut
  <1>37. ASSUME SubmitBargeIn PROVE WaitOK' BY <1>37 DEF SubmitBargeIn
  <1> QED
    BY <1>1, <1>2, <1>3, <1>4, <1>5, <1>6, <1>7, <1>8, <1>9, <1>10, <1>11, <1>12, <1>13, <1>14,
       <1>15, <1>16, <1>17, <1>18, <1>19, <1>20, <1>21, <1>22, <1>23, <1>24, <1>25, <1>26,
       <1>27, <1>28, <1>29, <1>30, <1>31, <1>32, <1>33, <1>34, <1>35, <1>36, <1>37, Enders
    DEF Next, TurnStep, GeneratorStep, ConsumerStep, FinalizeStep, BargeInStep, ShutdownStep,
        BargeInEnds, Finishers

-----------------------------------------------------------------------------
(* What a session that is shutting down still has.                         *)

LEMMA TaskKinds ==
  \A t \in Tasks : t \in Workers \/ t = Vad \/ t = Stop \/ \E r \in Responses : t = Turn(r)
  BY DEF Tasks

\* Only a worker, the voice activity loop and shutdown wait for workers.
LEMMA Joiners ==
  ASSUME TypeOK, NEW t \in Tasks, NEW w \in Workers, Joins(t, w)
  PROVE  t \in Workers \/ t = Vad \/ t = Stop
  BY TaskKinds DEF Joins, TypeOK, PcOK, TurnPcs

\* After a shutdown no worker that is left was cancelled.
LEMMA LeftOver ==
  ASSUME TypeOK, WaitOK, StopOK, pc[Stop] = "done", NEW w \in Workers, Alive(w)
  PROVE  w \in tasks /\ w \notin cancelled
  <1>1. ASSUME NEW t \in Tasks, Joins(t, w) PROVE FALSE
    BY <1>1, Joiners DEF Joins, StopOK
  <1> QED BY <1>1 DEF WaitOK, StopOK

\* Where no worker becomes more than it may be, and nothing reports the end.
LEMMA StopSame ==
  ASSUME TypeOK, StopOK, pc'[Stop] \in {"join", "done"} => pc'[Stop] = pc[Stop],
         state' = "stopped" => state = "stopped" /\ pc'[Stop] = pc[Stop],
         pc[Stop] \in {"join", "done"} =>
            \A w \in tasks' : w \notin cancelled' /\ pc'[w] \in {"new", "loop", "done"},
         pc[Stop] = "done" =>
            /\ pc'[Vad] = "done"
            /\ \A w \in Workers : pc'[w] \in {"none", "new", "loop", "done"}
  PROVE  StopOK'
  BY DEF StopOK

\* One task moves on: a worker whose session shuts down ends, unless it was cancelled
\* before shutdown waited.
LEMMA StopMove ==
  ASSUME TypeOK, TurnsOK, WaitOK, StopOK, NEW t \in Tasks \ {Stop}, NEW to,
         pc' = [pc EXCEPT ![t] = to], UNCHANGED <<tasks, cancelled>>,
         state' = "stopped" => state = "stopped", pc[t] # "done",
         \/ t \notin Workers \/ ~down \/ to = "done"
         \/ pc[t] \notin {"none", "new", "loop"}
         \/ t \in cancelled /\ Alive(t)
  PROVE  StopOK'
  <1>1. pc'[Stop] = pc[Stop] BY TaskNames DEF TypeOK, PcOK
  <1>2. \A u \in Tasks : u # t => pc'[u] = pc[u] BY DEF TypeOK, PcOK
  <1>3. pc'[t] = to BY DEF TypeOK, PcOK
  <1>4. CASE pc[Stop] \notin {"join", "done"} BY <1>1, <1>4, StopSame
  <1>5. CASE pc[Stop] \in {"join", "done"}
    <2>1. down BY <1>5 DEF TurnsOK
    <2>2. ASSUME NEW w \in tasks PROVE w \notin cancelled /\ pc'[w] \in {"new", "loop", "done"}
      <3>1. w \notin cancelled /\ pc[w] \in {"new", "loop", "done"} /\ w \in Workers
        BY <1>5 DEF StopOK, TypeOK, DataOK
      <3> QED BY <1>2, <1>3, <2>1, <3>1, TaskNames
    <2>3. ASSUME pc[Stop] = "done", NEW w \in Workers
          PROVE  pc'[w] \in {"none", "new", "loop", "done"}
      <3>1. pc[w] \in {"none", "new", "loop", "done"} BY <2>3 DEF StopOK
      <3>2. w # t => pc'[w] = pc[w] BY <1>2, TaskNames
      <3>3. CASE w = t
        BY <1>3, <2>1, <2>3, <3>1, <3>3, LeftOver DEF Alive
      <3> QED BY <3>1, <3>2, <3>3
    <2>4. pc[Stop] = "done" => t # Vad BY DEF StopOK
    <2>5. pc[Stop] = "done" => pc'[Vad] = "done" BY <1>2, <2>4, TaskNames DEF StopOK
    <2> QED BY <1>1, <1>5, <2>2, <2>3, <2>5, StopSame
  <1> QED BY <1>4, <1>5

LEMMA FinalizeStop ==
  ASSUME TypeOK, TurnsOK, WaitOK, StopOK, NEW t \in Finishers, NEW r, NEW out, Finalize(t, r, out),
         pc[t] \notin {"none", "new", "loop", "done"}
  PROVE  StopOK'
  <1>1. t \in Tasks \ {Stop} BY TaskNames DEF Finishers
  <1>2. CASE Disowned(t, r, out)
    <2>1. Goto(t, Resume(t, out)) /\ UNCHANGED <<state, tasks, cancelled>> BY <1>2 DEF Disowned
    <2> QED BY <1>1, <2>1, StopMove DEF Goto
  <1>3. CASE Owns(r)
    <2>1. pc[Stop] = "none" /\ ~down BY <1>3 DEF Owns, TurnsOK
    <2>2. pc'[Stop] = "none"
      BY <1>1, <2>1, FinalizeFrame, TaskNames DEF TypeOK, PcOK
    <2>3. state' = "stopped" => state = "stopped"
      BY <2>1, FinalizeCases DEF Disowned, EndedAtOnce, Awaited, MoveTo
    <2> QED BY <2>1, <2>2, <2>3, StopSame
  <1> QED BY <1>2, <1>3, FinalizeCases DEF EndedAtOnce, Awaited

LEMMA OutcomeMoves == \A out : Outcome(out) # "stopped"
  BY DEF Outcome

\* A step of a session that shuts down revives nothing.
LEMMA StopStep ==
  ASSUME TypeOK, TurnsOK, WaitOK, StopOK, Next
  PROVE  StopOK'
  <1>1. ASSUME NEW r \in Responses, LaunchTurn(r) PROVE StopOK'
    <2>1. pc[Turn(r)] = "launch" /\ pc[Gen(r)] = "none" /\ pc[Con(r)] = "none"
      BY <1>1 DEF LaunchTurn, TurnsOK, Unlaunched
    <2>2. /\ pc'[Turn(r)] = "done" /\ pc'[Gen(r)] = "new" /\ pc'[Con(r)] = "loop"
          /\ \A u \in Tasks \ {Turn(r), Gen(r), Con(r)} : pc'[u] = pc[u]
      BY <1>1, TaskNames DEF LaunchTurn, TypeOK, PcOK
    <2>3. tasks' = tasks \cup {Gen(r), Con(r)} /\ UNCHANGED <<state, cancelled>>
      BY <1>1 DEF LaunchTurn
    <2>4. Gen(r) \notin cancelled /\ Con(r) \notin cancelled BY <2>1, TaskNames DEF TurnsOK
    <2>5. pc'[Stop] = pc[Stop] /\ pc'[Vad] = pc[Vad] BY <2>2, TaskNames
    <2>6. ASSUME pc[Stop] \in {"join", "done"}, NEW w \in tasks'
          PROVE  w \notin cancelled' /\ pc'[w] \in {"new", "loop", "done"}
      <3>1. w \in tasks => w \in Workers /\ w \notin cancelled /\ pc[w] \in {"new", "loop", "done"}
        BY <2>6 DEF StopOK, TypeOK, DataOK
      <3> QED BY <2>2, <2>3, <2>4, <2>6, <3>1, TaskNames
    <2>7. ASSUME pc[Stop] = "done", NEW w \in Workers
          PROVE  pc'[w] \in {"none", "new", "loop", "done"}
      BY <2>2, <2>7, TaskNames DEF StopOK
    <2> QED BY <2>3, <2>5, <2>6, <2>7, StopSame DEF StopOK
  <1>2. ASSUME NEW r \in Responses, PutSentence(r) PROVE StopOK'
    BY <1>2, StopSame DEF PutSentence, sessionVars, StopOK
  <1>3. ASSUME NEW r \in Responses, EndsResponse(r) PROVE StopOK'
    <2>1. PICK t \in {Gen(r), Con(r)} : Ends(t, r) BY <1>3 DEF EndsResponse
    <2>2. t \in Finishers /\ t \in Tasks /\ t \in Workers BY <2>1, TaskNames DEF Finishers
    <2>3. pc[t] \notin {"none", "new", "loop", "done"} BY <2>1 DEF Ends
    <2>4. CASE \E out \in Outs : Finalize(t, r, out) BY <2>2, <2>3, <2>4, FinalizeStop
    <2>5. ASSUME NEW to, Goto(t, to), UNCHANGED <<state, tasks, cancelled>> PROVE StopOK'
      BY <2>2, <2>3, <2>5, StopMove, TaskNames DEF Goto
    <2> QED BY <2>1, <2>4, <2>5 DEF Ends
  <1>4. ASSUME NEW t \in Finishers, Join(t) PROVE StopOK'
    <2>1. t \in Tasks \ {Stop} /\ pc[t] = "join" BY <1>4, TaskNames DEF Join, At, Finishers
    <2>2. \E to \in {"idle", "submit", "done", "stopping"} : pc' = [pc EXCEPT ![t] = to]
      BY <1>4 DEF Join, Settle, Resume, Goto
    <2>3. state' = "stopped" => state = "stopped"
      BY <1>4, OutcomeMoves DEF Join, Settle, MoveTo
    <2>4. UNCHANGED <<tasks, cancelled>> BY <1>4 DEF Join
    <2> QED BY <2>1, <2>2, <2>3, <2>4, StopMove
  <1>5. ASSUME NEW t \in Finishers, Stopped(t) PROVE StopOK'
    <2>1. t \in Tasks \ {Stop} /\ pc[t] = "stopping"
      BY <1>5, TaskNames DEF Stopped, At, Finishers
    <2>2. \E to \in {"idle", "submit", "done", "stopping"} : pc' = [pc EXCEPT ![t] = to]
      BY <1>5 DEF Stopped, Settle, Resume, Goto
    <2>3. state' = "stopped" => state = "stopped"
      BY <1>5, OutcomeMoves DEF Stopped, Settle, MoveTo
    <2>4. UNCHANGED <<tasks, cancelled>> BY <1>5 DEF Stopped
    <2> QED BY <2>1, <2>2, <2>3, <2>4, StopMove
  <1>6. ASSUME NEW from, NEW out, EndBargeIn(from, out), <<from, out>> \in BargeInEnds
         PROVE  StopOK'
    <2>1. Vad \in Finishers /\ Vad \in Tasks \ {Stop} BY TaskNames DEF Finishers
    <2>2. pc[Vad] \notin {"none", "new", "loop", "done"}
      BY <1>6 DEF EndBargeIn, At, BargeInEnds
    <2>3. CASE \E q, o : Finalize(Vad, q, o) BY <1>6, <2>1, <2>2, <2>3, FinalizeStop
    <2> QED BY <1>6, <2>3 DEF EndBargeIn
  <1>7. ASSUME VerifyBargeIn PROVE StopOK'
    <2>1. CallStop(Vad) /\ UNCHANGED <<state, tasks, cancelled>> /\ pc[Vad] # "done"
      BY <1>7 DEF VerifyBargeIn, At
    <2>2. PICK to \in {"halt", "stop"} : pc' = [pc EXCEPT ![Vad] = to]
      BY <2>1, StopFrame, TaskNames
    <2> QED BY <2>1, <2>2, StopMove, TaskNames
  <1>8. ASSUME StopForBargeIn PROVE StopOK'
    <2>1. CallStop(Vad) /\ UNCHANGED <<state, tasks, cancelled>> /\ pc[Vad] # "done"
      BY <1>8 DEF StopForBargeIn, At
    <2>2. PICK to \in {"halt", "stop"} : pc' = [pc EXCEPT ![Vad] = to]
      BY <2>1, StopFrame, TaskNames
    <2> QED BY <2>1, <2>2, StopMove, TaskNames
  <1>9. ASSUME LoseDuplex PROVE StopOK'
    BY <1>9, StopSame DEF LoseDuplex, StopOK
  <1>10. ASSUME PlaybackExits PROVE StopOK'
    BY <1>10, StopSame DEF PlaybackExits, sessionVars, StopOK
  <1>11. ASSUME StartShutdown PROVE StopOK'
    <2>1. CallStop(Stop) /\ state' = state /\ pc[Stop] # "done" BY <1>11 DEF StartShutdown
    <2>2. pc'[Stop] \in {"halt", "stop"} BY <2>1, StopFrame, TaskNames DEF TypeOK, PcOK
    <2> QED BY <2>1, <2>2 DEF StopOK
  <1>12. ASSUME StopForShutdown PROVE StopOK'
    <2>1. CallStop(Stop) /\ state' = state /\ pc[Stop] # "done" BY <1>12 DEF StopForShutdown
    <2>2. pc'[Stop] \in {"halt", "stop"} BY <2>1, StopFrame, TaskNames DEF TypeOK, PcOK
    <2> QED BY <2>1, <2>2 DEF StopOK
  <1>13. ASSUME CancelAll PROVE StopOK'
    <2>1. pc'[Stop] = "join" BY <1>13, TaskNames DEF CancelAll, Goto, TypeOK, PcOK
    <2>2. pc[Stop] = "halt" /\ state' = state /\ tasks' = {} BY <1>13 DEF CancelAll
    <2> QED BY <2>1, <2>2 DEF StopOK
  <1>14. ASSUME FinishShutdown PROVE StopOK'
    <2>1. /\ pc'[Stop] = "done" /\ pc'[Vad] = "done" /\ \A w \in Workers : pc'[w] = pc[w]
          /\ pc[Stop] = "join" /\ UNCHANGED <<tasks, cancelled>>
      BY <1>14, TaskNames DEF FinishShutdown, TypeOK, PcOK
    <2>2. \A w \in tasks : w \in Workers /\ w \notin cancelled /\ pc[w] \in {"new", "loop", "done"}
      BY <2>1 DEF StopOK, TypeOK, DataOK
    <2>3. \A w \in Workers : Joins(Stop, w) \/ Joins(Vad, w) => ~Alive(w)
      BY <1>14 DEF FinishShutdown, Joins
    <2> DEFINE Lost == {w \in Workers : Alive(w) /\ w \notin tasks}
    <2>4. ASSUME NEW w \in Lost PROVE \E t \in Lost : Joins(t, w)
      <3>1. PICK t \in Tasks : Joins(t, w) BY DEF WaitOK
      <3>2. t \in Workers BY <2>3, <3>1, Joiners
      <3>3. Alive(t) /\ t \notin tasks BY <2>2, <3>1 DEF Joins, Alive
      <3> QED BY <3>1, <3>2, <3>3
    <2>5. Lost = {}
      <3> HIDE DEF Lost
      <3>1. Lost \in SUBSET Workers BY DEF Lost
      <3> QED BY <2>4, <3>1 DEF WaitOK
    <2>6. \A w \in Workers : pc[w] \in {"none", "new", "loop", "done"} BY <2>2, <2>5 DEF Alive
    <2> QED BY <2>1, <2>2, <2>6 DEF StopOK
  <1>26. ASSUME NEW r \in Responses, GetItem(r) PROVE StopOK'
    <2>1. \E to : pc' = [pc EXCEPT ![Con(r)] = to] BY <1>26 DEF GetItem, Goto
    <2>2. pc[Con(r)] = "get" /\ UNCHANGED <<state, tasks, cancelled>>
      BY <1>26 DEF GetItem, At
    <2> QED BY <2>1, <2>2, TaskNames, StopMove
  <1> USE TaskNames, NoneType, StopMove
        DEF At, Runs, Goto, MoveTo, MayEnd, MayPut, HoldPlayback, Alive, AfterItem,
            sessionVars, Outcome, TypeOK, PcOK, DataOK
  <1>15. ASSUME NEW r \in Responses, StartTurn(r) PROVE StopOK' BY <1>15 DEF StartTurn
  <1>16. ASSUME NEW r \in Responses, RefuseTurn(r) PROVE StopOK' BY <1>16 DEF RefuseTurn
  <1>17. ASSUME NEW r \in Responses, CheckTurn(r) PROVE StopOK' BY <1>17 DEF CheckTurn
  <1>18. ASSUME NEW r \in Responses, FailTurn(r) PROVE StopOK' BY <1>18 DEF FailTurn
  <1>19. ASSUME NEW r \in Responses, AnswerTurn(r) PROVE StopOK' BY <1>19 DEF AnswerTurn
  <1>20. ASSUME NEW r \in Responses, StartGenerator(r) PROVE StopOK'
    BY <1>20 DEF StartGenerator, Live
  <1>21. ASSUME NEW r \in Responses, PutEnd(r) PROVE StopOK' BY <1>21 DEF PutEnd
  <1>22. ASSUME NEW r \in Responses, AbandonStream(r) PROVE StopOK' BY <1>22 DEF AbandonStream
  <1>23. ASSUME NEW r \in Responses, EndGenerator(r) PROVE StopOK' BY <1>23 DEF EndGenerator
  <1>24. ASSUME NEW r \in Responses, CancelGenerator(r) PROVE StopOK'
    BY <1>24 DEF CancelGenerator
  <1>25. ASSUME NEW r \in Responses, ConsumerLoop(r) PROVE StopOK'
    BY <1>25 DEF ConsumerLoop, Live
  <1>27. ASSUME NEW r \in Responses, Rendered(r) PROVE StopOK' BY <1>27 DEF Rendered
  <1>28. ASSUME NEW r \in Responses, Launched(r) PROVE StopOK' BY <1>28 DEF Launched
  <1>29. ASSUME NEW r \in Responses, CancelConsumer(r) PROVE StopOK'
    BY <1>29 DEF CancelConsumer
  <1>30. ASSUME NEW r \in Responses, QuitConsumer(r) PROVE StopOK' BY <1>30 DEF QuitConsumer
  <1>31. ASSUME NEW r \in Responses, Reaped(r) PROVE StopOK' BY <1>31 DEF Reaped
  <1>32. ASSUME HearSpeech PROVE StopOK' BY <1>32 DEF HearSpeech
  <1>33. ASSUME PausePlayback PROVE StopOK' BY <1>33 DEF PausePlayback
  <1>34. ASSUME DoubtBargeIn PROVE StopOK' BY <1>34 DEF DoubtBargeIn
  <1>35. ASSUME TranscribeBargeIn PROVE StopOK' BY <1>35 DEF TranscribeBargeIn
  <1>36. ASSUME PlaybackCut PROVE StopOK' BY <1>36 DEF PlaybackCut
  <1>37. ASSUME SubmitBargeIn PROVE StopOK' BY <1>37 DEF SubmitBargeIn
  <1> QED
    BY <1>1, <1>2, <1>3, <1>4, <1>5, <1>6, <1>7, <1>8, <1>9, <1>10, <1>11, <1>12, <1>13, <1>14,
       <1>15, <1>16, <1>17, <1>18, <1>19, <1>20, <1>21, <1>22, <1>23, <1>24, <1>25, <1>26,
       <1>27, <1>28, <1>29, <1>30, <1>31, <1>32, <1>33, <1>34, <1>35, <1>36, <1>37, Enders
    DEF Next, TurnStep, GeneratorStep, ConsumerStep, FinalizeStep, BargeInStep, ShutdownStep,
        BargeInEnds, Finishers

-----------------------------------------------------------------------------
(* One turn, response or finalization at a time.                           *)

\* Where none of them begins and the session does not become ready.
LEMMA OneSame ==
  ASSUME OneAtATime, active' \in {active, None}, state' \notin Ready \/ state' = state,
         \A r \in Responses : Submitting(r)' => Submitting(r),
         \A t \in Finishers : Finalizing(t)' => Finalizing(t),
         pc'[Vad] = "submit" => pc[Vad] = "submit"
  PROVE  OneAtATime'
  BY DEF OneAtATime

LEMMA OneMove ==
  ASSUME TypeOK, OneAtATime, NEW t \in Tasks, NEW to, pc' = [pc EXCEPT ![t] = to],
         to \notin {"final", "join", "stopping"}, to = "submit" => pc[t] = "final" /\ t # Vad,
         active' = active, state' \notin Ready \/ state' = state
  PROVE  OneAtATime'
  <1>1. \A u \in Tasks : u # t => pc'[u] = pc[u] BY DEF TypeOK, PcOK
  <1>2. pc'[t] = to BY DEF TypeOK, PcOK
  <1>3. \A r \in Responses : Submitting(r)' => Submitting(r)
    BY <1>1, <1>2, TaskNames DEF Submitting
  <1>4. \A u \in Finishers : Finalizing(u)' => Finalizing(u)
    BY <1>1, <1>2, TaskNames DEF Finalizing
  <1>5. pc'[Vad] = "submit" => pc[Vad] = "submit" BY <1>1, <1>2, TaskNames
  <1> QED BY <1>3, <1>4, <1>5, OneSame

\* The response that is finalized gives way to its finalizer.
LEMMA FinalizeOne ==
  ASSUME TypeOK, OneAtATime, ~down, NEW t \in Finishers, NEW r \in Responses, NEW out,
         Finalize(t, r, out), t = Vad /\ out = "interrupted" => active = r
  PROVE  OneAtATime'
  <1>1. t \in Tasks /\ \A q \in Responses : t # Turn(q) BY TaskNames DEF Finishers
  <1>2. CASE Disowned(t, r, out)
    <2>1. PICK to \in {"done", "idle"} : pc' = [pc EXCEPT ![t] = to]
      BY <1>2 DEF Disowned, Goto, Resume, Owns
    <2> QED BY <1>1, <1>2, <2>1, OneMove DEF Disowned
  <1>3. CASE Owns(r)
    <2>1. active = r /\ active # None BY <1>3, NoneType DEF Owns
    <2>2. /\ \A q \in Responses : ~Submitting(q)
          /\ \A u \in Finishers : ~Finalizing(u)
          /\ pc[Vad] # "submit" /\ state \notin Ready
      BY <2>1, NoneType DEF OneAtATime
    <2>3. PICK to \in {"join", "done", "idle"} : pc' = [pc EXCEPT ![t] = to]
      BY <1>3, FinalizeCases DEF Disowned, EndedAtOnce, Awaited, Goto, Resume
    <2>4. \A u \in Tasks : u # t => pc'[u] = pc[u] BY <2>3 DEF TypeOK, PcOK
    <2>5. pc'[t] = to BY <1>1, <2>3 DEF TypeOK, PcOK
    <2>6. active' = None BY <1>3, FinalizeCases DEF Disowned, EndedAtOnce, Awaited
    <2>7. \A q \in Responses : ~Submitting(q)' BY <1>1, <2>2, <2>4, TaskNames DEF Submitting
    <2>8. \A u \in Finishers : u # t => ~Finalizing(u)' BY <2>2, <2>4, TaskNames DEF Finalizing
    <2>9. pc'[Vad] # "submit" BY <2>2, <2>4, <2>5, TaskNames
    <2>10. CASE EndedAtOnce(t, r, out)
      <3>1. to # "join"
        BY <2>5, <1>1, <2>10 DEF EndedAtOnce, Goto, Resume, TypeOK, PcOK
      <3> QED BY <2>5, <2>6, <2>7, <2>8, <2>9, <3>1 DEF OneAtATime, Finalizing
    <2>11. CASE Awaited(t, r, out)
      BY <2>2, <2>6, <2>7, <2>8, <2>9, <2>11 DEF OneAtATime, Awaited
    <2> QED BY <1>3, <2>10, <2>11, FinalizeCases DEF Disowned
  <1> QED BY <1>2, <1>3, FinalizeCases DEF EndedAtOnce, Awaited

\* Losses, late barge-ins and shutdown are not undone.
LEMMA CalmStays ==
  ASSUME TypeOK, Next
  PROVE  Calm' => Calm
  <1> USE DEF Calm, TypeOK, DataOK, sessionVars
  <1>1. ASSUME NEW r \in Responses, EndsResponse(r) PROVE Calm' => Calm
    BY <1>1 DEF EndsResponse, Ends
  <1>2. ASSUME NEW r \in Responses, StartTurn(r) \/ TurnStep(r) PROVE Calm' => Calm
    BY <1>2 DEF StartTurn, TurnStep, RefuseTurn, CheckTurn, FailTurn, AnswerTurn, LaunchTurn
  <1>3. ASSUME NEW r \in Responses, GeneratorStep(r) \/ ConsumerStep(r) PROVE Calm' => Calm
    BY <1>1, <1>3, Enders
    DEF GeneratorStep, ConsumerStep, StartGenerator, PutSentence, PutEnd, AbandonStream,
        EndGenerator, CancelGenerator, ConsumerLoop, GetItem, Rendered, Launched, CancelConsumer,
        QuitConsumer, Reaped
  <1>4. ASSUME NEW t, FinalizeStep(t) PROVE Calm' => Calm
    BY <1>4 DEF FinalizeStep, Join, Stopped
  <1>5. CASE HearSpeech \/ BargeInStep
    BY <1>5
    DEF HearSpeech, BargeInStep, PausePlayback, DoubtBargeIn, TranscribeBargeIn, EndBargeIn,
        VerifyBargeIn, StopForBargeIn, PlaybackCut, SubmitBargeIn
  <1>6. CASE LoseDuplex \/ PlaybackExits BY <1>6 DEF LoseDuplex, PlaybackExits
  <1>7. CASE StartShutdown \/ ShutdownStep
    BY <1>7 DEF StartShutdown, ShutdownStep, StopForShutdown, CancelAll, FinishShutdown
  <1> QED BY <1>2, <1>3, <1>4, <1>5, <1>6, <1>7 DEF Next

\* A step begins one of these only where there is none.
LEMMA OneStep ==
  ASSUME TypeOK, TurnsOK, SilentOK, Calm, Calm', OneAtATime, Next
  PROVE  OneAtATime'
  <1>1. ASSUME NEW r \in Responses, StartTurn(r) PROVE OneAtATime'
    <2>1. /\ active = None /\ pc[Vad] # "submit" /\ \A t \in Finishers : ~Finalizing(t)
          /\ \A q \in Responses : ~Submitting(q)
      BY <1>1 DEF StartTurn, OneAtATime
    <2>2. pc'[Turn(r)] = "final" /\ \A t \in Tasks \ {Turn(r)} : pc'[t] = pc[t]
      BY <1>1, TaskNames DEF StartTurn, Goto, TypeOK, PcOK
    <2>3. \A q \in Responses \ {r} : ~Submitting(q)' BY <2>1, <2>2, TaskNames DEF Submitting
    <2>4. \A t \in Finishers : ~Finalizing(t)'
      BY <2>1, <2>2, TaskNames DEF Finalizing, Finishers
    <2>5. active' = None /\ pc'[Vad] # "submit" /\ state' \notin Ready
      BY <1>1, <2>1, <2>2, TaskNames DEF StartTurn, Ready
    <2> QED BY <2>3, <2>4, <2>5 DEF OneAtATime
  <1>2. ASSUME NEW r \in Responses, RefuseTurn(r) PROVE OneAtATime'
    <2>1. Turn(r) \in Tasks /\ Turn(r) # Vad /\ Submitting(r)
      BY <1>2, TaskNames DEF RefuseTurn, Submitting
    <2>2. /\ active = None /\ pc[Vad] # "submit" /\ \A t \in Finishers : ~Finalizing(t)
          /\ \A q \in Responses \ {r} : ~Submitting(q)
      BY <2>1 DEF OneAtATime
    <2>3. pc'[Turn(r)] = "done" /\ \A t \in Tasks \ {Turn(r)} : pc'[t] = pc[t]
      BY <1>2, <2>1 DEF RefuseTurn, Goto, TypeOK, PcOK
    <2>4. \A q \in Responses : ~Submitting(q)' BY <2>2, <2>3, TaskNames DEF Submitting
    <2>5. \A t \in Finishers : ~Finalizing(t)'
      BY <2>2, <2>3, TaskNames DEF Finalizing, Finishers
    <2>6. active' = None /\ pc'[Vad] # "submit"
      BY <1>2, <2>1, <2>2, <2>3, TaskNames DEF RefuseTurn, sessionVars
    <2> QED BY <2>4, <2>5, <2>6 DEF OneAtATime
  <1>3. ASSUME NEW r \in Responses, FailTurn(r) PROVE OneAtATime'
    <2>1. Turn(r) \in Tasks /\ Turn(r) # Vad /\ Submitting(r)
      BY <1>3, TaskNames DEF FailTurn, Submitting
    <2>2. /\ active = None /\ pc[Vad] # "submit" /\ \A t \in Finishers : ~Finalizing(t)
          /\ \A q \in Responses \ {r} : ~Submitting(q)
      BY <2>1 DEF OneAtATime
    <2>3. pc'[Turn(r)] = "done" /\ \A t \in Tasks \ {Turn(r)} : pc'[t] = pc[t]
      BY <1>3, <2>1 DEF FailTurn, Goto, TypeOK, PcOK
    <2>4. \A q \in Responses : ~Submitting(q)' BY <2>2, <2>3, TaskNames DEF Submitting
    <2>5. \A t \in Finishers : ~Finalizing(t)'
      BY <2>2, <2>3, TaskNames DEF Finalizing, Finishers
    <2>6. active' = None /\ pc'[Vad] # "submit"
      BY <1>3, <2>1, <2>2, <2>3, TaskNames DEF FailTurn, sessionVars
    <2> QED BY <2>4, <2>5, <2>6 DEF OneAtATime
  <1>4. ASSUME NEW r \in Responses, AnswerTurn(r) PROVE OneAtATime'
    <2>1. Turn(r) \in Tasks /\ Turn(r) # Vad /\ Submitting(r)
      BY <1>4, TaskNames DEF AnswerTurn, Submitting
    <2>2. /\ active = None /\ pc[Vad] # "submit" /\ \A t \in Finishers : ~Finalizing(t)
          /\ \A q \in Responses \ {r} : ~Submitting(q)
      BY <2>1 DEF OneAtATime
    <2>3. pc'[Turn(r)] = "launch" /\ \A t \in Tasks \ {Turn(r)} : pc'[t] = pc[t]
      BY <1>4, <2>1 DEF AnswerTurn, Goto, TypeOK, PcOK
    <2>4. \A q \in Responses : ~Submitting(q)' BY <2>2, <2>3, TaskNames DEF Submitting
    <2>5. \A t \in Finishers : ~Finalizing(t)'
      BY <2>2, <2>3, TaskNames DEF Finalizing, Finishers
    <2>6. pc'[Vad] # "submit" /\ state' \notin Ready
      BY <1>4, <2>1, <2>2, <2>3, TaskNames DEF AnswerTurn, MoveTo, Ready, Calm
    <2> QED BY <2>4, <2>5, <2>6 DEF OneAtATime
  <1>5. ASSUME NEW r \in Responses, LaunchTurn(r) PROVE OneAtATime'
    <2>1. /\ pc'[Turn(r)] = "done" /\ pc'[Gen(r)] = "new" /\ pc'[Con(r)] = "loop"
          /\ \A u \in Tasks \ {Turn(r), Gen(r), Con(r)} : pc'[u] = pc[u]
      BY <1>5, TaskNames DEF LaunchTurn, TypeOK, PcOK
    <2>2. \A q \in Responses : Submitting(q)' => Submitting(q)
      BY <2>1, TaskNames DEF Submitting
    <2>3. \A t \in Finishers : Finalizing(t)' => Finalizing(t)
      BY <2>1, TaskNames DEF Finalizing, Finishers
    <2>4. pc'[Vad] = pc[Vad] BY <2>1, TaskNames
    <2> QED BY <1>5, <2>2, <2>3, <2>4, OneSame DEF LaunchTurn, sessionVars
  <1>6. ASSUME NEW r \in Responses, PutSentence(r) PROVE OneAtATime'
    BY <1>6, OneSame DEF PutSentence, Submitting, Finalizing, Calm, Ready, sessionVars
  <1>7. ASSUME NEW r \in Responses, EndsResponse(r) PROVE OneAtATime'
    <2>1. PICK t \in {Gen(r), Con(r)} : Ends(t, r) BY <1>7 DEF EndsResponse
    <2>2. t \in Finishers /\ t \in Tasks /\ t \in Workers BY <2>1, TaskNames DEF Finishers
    <2>3. t # Vad /\ ~down BY <2>2, TaskNames DEF Calm
    <2>4. CASE \E out \in Outs : Finalize(t, r, out) BY <2>2, <2>3, <2>4, FinalizeOne
    <2>5. ASSUME NEW to \in {"done", "quit", "loop"}, Goto(t, to), UNCHANGED <<state, active>>
          PROVE  OneAtATime'
      BY <2>2, <2>3, <2>5, OneMove DEF Goto
    <2> QED BY <2>1, <2>4, <2>5 DEF Ends
  <1>8. ASSUME NEW t \in Finishers, Join(t) PROVE OneAtATime'
    <2>1. t \in Tasks /\ Finalizing(t) /\ \A q \in Responses : t # Turn(q)
      BY <1>8, TaskNames DEF Join, At, Finalizing, Finishers
    <2>2. /\ active = None /\ pc[Vad] # "submit" /\ state \notin Ready
          /\ \A u \in Finishers \ {t} : ~Finalizing(u)
          /\ \A q \in Responses : ~Submitting(q)
      BY <2>1 DEF OneAtATime
    <2>3. PICK to \in {"idle", "submit", "done", "stopping"} :
              /\ pc' = [pc EXCEPT ![t] = to]
              /\ to = "submit" => t = Vad /\ state' = "interrupted"
              /\ to = "stopping" => state' = state
      BY <1>8 DEF Join, Settle, Resume, Goto, Outcome, MoveTo, Calm
    <2>4. pc'[t] = to /\ \A u \in Tasks \ {t} : pc'[u] = pc[u]
      BY <2>1, <2>3 DEF TypeOK, PcOK
    <2>5. \A q \in Responses : ~Submitting(q)' BY <2>1, <2>2, <2>4, TaskNames DEF Submitting
    <2>6. \A u \in Finishers \ {t} : ~Finalizing(u)'
      BY <2>2, <2>4, TaskNames DEF Finalizing
    <2>7. Finalizing(t)' => to = "stopping" BY <2>4 DEF Finalizing
    <2>8. pc'[Vad] = "submit" => to = "submit" BY <2>2, <2>4, TaskNames
    <2>9. active' = None BY <1>8, <2>2 DEF Join, sessionVars
    <2> QED BY <2>2, <2>3, <2>5, <2>6, <2>7, <2>8, <2>9 DEF OneAtATime, Ready
  <1>9. ASSUME NEW t \in Finishers, Stopped(t) PROVE OneAtATime'
    <2>1. t \in Tasks /\ Finalizing(t) /\ \A q \in Responses : t # Turn(q)
      BY <1>9, TaskNames DEF Stopped, At, Finalizing, Finishers
    <2>2. /\ active = None /\ pc[Vad] # "submit" /\ state \notin Ready
          /\ \A u \in Finishers \ {t} : ~Finalizing(u)
          /\ \A q \in Responses : ~Submitting(q)
      BY <2>1 DEF OneAtATime
    <2>3. PICK to \in {"idle", "submit", "done", "stopping"} :
              /\ pc' = [pc EXCEPT ![t] = to]
              /\ to = "submit" => t = Vad /\ state' = "interrupted"
              /\ to = "stopping" => state' = state
      BY <1>9 DEF Stopped, Settle, Resume, Goto, Outcome, MoveTo, Calm
    <2>4. pc'[t] = to /\ \A u \in Tasks \ {t} : pc'[u] = pc[u]
      BY <2>1, <2>3 DEF TypeOK, PcOK
    <2>5. \A q \in Responses : ~Submitting(q)' BY <2>1, <2>2, <2>4, TaskNames DEF Submitting
    <2>6. \A u \in Finishers \ {t} : ~Finalizing(u)'
      BY <2>2, <2>4, TaskNames DEF Finalizing
    <2>7. Finalizing(t)' => to = "stopping" BY <2>4 DEF Finalizing
    <2>8. pc'[Vad] = "submit" => to = "submit" BY <2>2, <2>4, TaskNames
    <2>9. active' = None BY <1>9, <2>2 DEF Stopped, sessionVars
    <2> QED BY <2>2, <2>3, <2>5, <2>6, <2>7, <2>8, <2>9 DEF OneAtATime, Ready
  <1>10. ASSUME NEW from, NEW out, EndBargeIn(from, out), <<from, out>> \in BargeInEnds
         PROVE  OneAtATime'
    <2>1. Vad \in Finishers /\ heard \in Responses /\ ~down
      BY <1>10, NoneType
      DEF EndBargeIn, At, BargeInEnds, SilentOK, HeardPcs, TypeOK, DataOK, Calm, Finishers
    <2>2. out = "interrupted" => active = heard BY <1>10, <2>1 DEF EndBargeIn, Calm
    <2> QED BY <1>10, <2>1, <2>2, FinalizeOne DEF EndBargeIn
  <1>11. ASSUME VerifyBargeIn PROVE OneAtATime'
    <2>1. CallStop(Vad) /\ UNCHANGED <<state, active>> BY <1>11 DEF VerifyBargeIn, sessionVars
    <2>2. PICK to \in {"halt", "stop"} : pc' = [pc EXCEPT ![Vad] = to]
      BY <2>1, StopFrame, TaskNames
    <2> QED BY <2>1, <2>2, OneMove, TaskNames
  <1>12. ASSUME StopForBargeIn PROVE OneAtATime'
    <2>1. CallStop(Vad) /\ UNCHANGED <<state, active>> BY <1>12 DEF StopForBargeIn, sessionVars
    <2>2. PICK to \in {"halt", "stop"} : pc' = [pc EXCEPT ![Vad] = to]
      BY <2>1, StopFrame, TaskNames
    <2> QED BY <2>1, <2>2, OneMove, TaskNames
  <1>13. ASSUME SubmitBargeIn PROVE OneAtATime'
    <2>1. /\ active = None /\ \A t \in Finishers : ~Finalizing(t)
          /\ \A q \in Responses : ~Submitting(q)
      BY <1>13 DEF SubmitBargeIn, At, OneAtATime
    <2>2. pc'[Vad] = "idle" /\ \A t \in Tasks \ {Vad} : pc'[t] = pc[t]
      BY <1>13, TaskNames DEF SubmitBargeIn, Goto, TypeOK, PcOK
    <2>3. \A q \in Responses : ~Submitting(q)' BY <2>1, <2>2, TaskNames DEF Submitting
    <2>4. \A t \in Finishers : ~Finalizing(t)'
      BY <2>1, <2>2, TaskNames DEF Finalizing, Finishers
    <2>5. active' = None BY <1>13, <2>1 DEF SubmitBargeIn, sessionVars
    <2> QED BY <2>2, <2>3, <2>4, <2>5 DEF OneAtATime
  <1>14. ASSUME LoseDuplex PROVE OneAtATime'
    BY <1>14, OneSame DEF LoseDuplex, Submitting, Finalizing, Calm, Ready, sessionVars
  <1>15. ASSUME PlaybackExits PROVE OneAtATime'
    BY <1>15, OneSame DEF PlaybackExits, Submitting, Finalizing, Calm, Ready, sessionVars
  <1>16. ASSUME StartShutdown PROVE OneAtATime'
    BY <1>16, NoneType DEF StartShutdown, Calm, TurnsOK
  <1>17. ASSUME StopForShutdown PROVE OneAtATime'
    BY <1>17, NoneType DEF StopForShutdown, Calm, TurnsOK
  <1>18. ASSUME CancelAll PROVE OneAtATime'
    BY <1>18, NoneType DEF CancelAll, Calm, TurnsOK
  <1>19. ASSUME FinishShutdown PROVE OneAtATime'
    BY <1>19 DEF FinishShutdown, Calm, TurnsOK
  <1> USE TaskNames, OneMove
        DEF At, Runs, Goto, MoveTo, MayEnd, MayPut, HoldPlayback, AfterItem, sessionVars, Ready
  <1>20. ASSUME NEW r \in Responses, CheckTurn(r) PROVE OneAtATime' BY <1>20 DEF CheckTurn
  <1>21. ASSUME NEW r \in Responses, StartGenerator(r) PROVE OneAtATime'
    BY <1>21 DEF StartGenerator
  <1>22. ASSUME NEW r \in Responses, PutEnd(r) PROVE OneAtATime' BY <1>22 DEF PutEnd
  <1>23. ASSUME NEW r \in Responses, AbandonStream(r) PROVE OneAtATime'
    BY <1>23 DEF AbandonStream
  <1>24. ASSUME NEW r \in Responses, EndGenerator(r) PROVE OneAtATime'
    BY <1>24 DEF EndGenerator
  <1>25. ASSUME NEW r \in Responses, CancelGenerator(r) PROVE OneAtATime'
    BY <1>25 DEF CancelGenerator
  <1>26. ASSUME NEW r \in Responses, ConsumerLoop(r) PROVE OneAtATime'
    BY <1>26 DEF ConsumerLoop
  <1>27. ASSUME NEW r \in Responses, GetItem(r) PROVE OneAtATime' BY <1>27 DEF GetItem
  <1>28. ASSUME NEW r \in Responses, Rendered(r) PROVE OneAtATime' BY <1>28 DEF Rendered
  <1>29. ASSUME NEW r \in Responses, Launched(r) PROVE OneAtATime' BY <1>29 DEF Launched
  <1>30. ASSUME NEW r \in Responses, CancelConsumer(r) PROVE OneAtATime'
    BY <1>30 DEF CancelConsumer
  <1>31. ASSUME NEW r \in Responses, QuitConsumer(r) PROVE OneAtATime'
    BY <1>31 DEF QuitConsumer
  <1>32. ASSUME NEW r \in Responses, Reaped(r) PROVE OneAtATime' BY <1>32 DEF Reaped
  <1>33. ASSUME HearSpeech PROVE OneAtATime' BY <1>33 DEF HearSpeech
  <1>34. ASSUME PausePlayback PROVE OneAtATime' BY <1>34 DEF PausePlayback
  <1>35. ASSUME DoubtBargeIn PROVE OneAtATime' BY <1>35 DEF DoubtBargeIn
  <1>36. ASSUME TranscribeBargeIn PROVE OneAtATime' BY <1>36 DEF TranscribeBargeIn
  <1>37. ASSUME PlaybackCut PROVE OneAtATime' BY <1>37 DEF PlaybackCut
  <1> QED
    BY <1>1, <1>2, <1>3, <1>4, <1>5, <1>6, <1>7, <1>8, <1>9, <1>10, <1>11, <1>12, <1>13, <1>14,
       <1>15, <1>16, <1>17, <1>18, <1>19, <1>20, <1>21, <1>22, <1>23, <1>24, <1>25, <1>26,
       <1>27, <1>28, <1>29, <1>30, <1>31, <1>32, <1>33, <1>34, <1>35, <1>36, <1>37, Enders
    DEF Next, TurnStep, GeneratorStep, ConsumerStep, FinalizeStep, BargeInStep, ShutdownStep,
        BargeInEnds, Finishers

-----------------------------------------------------------------------------
(* Streams and their sentinels.                                            *)

LEMMA QueueAppend ==
  ASSUME NEW q \in Seq(Names), NEW x \in Names
  PROVE  /\ Len(Append(q, x)) = Len(q) + 1
         /\ \A i \in 1 .. Len(Append(q, x)) : Append(q, x)[i] = x \/ (i \in 1 .. Len(q) /\ Append(q, x)[i] = q[i])
  OBVIOUS

EndQueued == \E i \in 1 .. Len(queue) : queue[i] = End

\* A worker that was not cancelled is one of _response_tasks.
LEMMA RunningIsTracked ==
  ASSUME WaitOK, NEW w \in Workers, Alive(w), Runs(w)
  PROVE  w \in tasks
  BY DEF WaitOK, Runs

LEMMA StreamsSame ==
  ASSUME StreamsOK, active' = active, EndQueued' => EndQueued, cancelled \subseteq cancelled',
         \A q \in Responses : /\ pc'[Gen(q)] = "stream" => pc[Gen(q)] = "stream"
                              /\ pc[Gen(q)] \in {"spoken", "done"} => pc'[Gen(q)] \in {"spoken", "done"},
         active \in Names
  PROVE  StreamsOK'
  BY NoneType DEF StreamsOK, EndQueued, Runs

LEMMA StreamsMove ==
  ASSUME TypeOK, StreamsOK, active' = active, EndQueued' => EndQueued,
         cancelled \subseteq cancelled', NEW t \in Tasks, NEW to, pc' = [pc EXCEPT ![t] = to],
         t \in Workers => to # "stream" /\ (pc[t] \in {"spoken", "done"} => to = "done")
  PROVE  StreamsOK'
  <1>1. \A u \in Tasks : u # t => pc'[u] = pc[u] BY DEF TypeOK, PcOK
  <1>2. pc'[t] = to BY DEF TypeOK, PcOK
  <1>3. \A q \in Responses :
            /\ pc'[Gen(q)] = "stream" => pc[Gen(q)] = "stream"
            /\ pc[Gen(q)] \in {"spoken", "done"} => pc'[Gen(q)] \in {"spoken", "done"}
    BY <1>1, <1>2, TaskNames
  <1>4. active \in Names BY DEF TypeOK, DataOK
  <1> QED BY <1>3, <1>4, StreamsSame

\* Whoever finalizes a response leaves no other stream under way and no sentinel.
LEMMA FinalizeStreams ==
  ASSUME TypeOK, WaitOK, StreamsOK, NEW t \in Finishers, NEW r \in Responses, NEW out,
         Finalize(t, r, out), pc[t] # "done"
  PROVE  StreamsOK'
  <1>1. PICK to \in {"join", "done", "idle", "submit"} :
            pc' = [pc EXCEPT ![t] = to] /\ (to \in {"idle", "submit"} => t = Vad)
    BY FinalizeFrame
  <1>2. t \in Tasks BY TaskNames
  <1>3. \A u \in Tasks : u # t => pc'[u] = pc[u] BY <1>1 DEF TypeOK, PcOK
  <1>4. pc'[t] = to BY <1>1, <1>2 DEF TypeOK, PcOK
  <1>5. CASE Disowned(t, r, out)
    <2>1. to # "join" BY <1>4, <1>2, <1>5 DEF Disowned, Goto, Resume, TypeOK, PcOK
    <2>2. t \in Workers => to = "done" BY <1>1, <2>1, TaskNames
    <2> QED BY <1>1, <1>2, <1>5, <2>2, StreamsMove DEF Disowned, EndQueued
  <1>6. CASE EndedAtOnce(t, r, out) \/ Awaited(t, r, out)
    <2>1. active' = None /\ queue' = <<>> BY <1>6 DEF EndedAtOnce, Awaited
    <2>2. Others(t) \subseteq cancelled' BY <1>6 DEF EndedAtOnce, Awaited
    <2>3. cancelled \subseteq cancelled' BY <1>6 DEF EndedAtOnce, Awaited
    <2>4. ASSUME NEW q \in Responses, pc'[Gen(q)] = "stream", Gen(q) \notin cancelled' PROVE FALSE
      <3>1. Gen(q) # t /\ pc[Gen(q)] = "stream" /\ Gen(q) \in Workers
        BY <1>3, <1>4, <2>4, TaskNames
      <3>2. Gen(q) \in tasks BY <2>3, <2>4, <3>1, RunningIsTracked DEF Alive, Runs
      <3> QED BY <2>2, <2>4, <3>1, <3>2 DEF Others, Alive
    <2>5. ~EndQueued' BY <2>1 DEF EndQueued
    <2> QED BY <2>4, <2>5 DEF StreamsOK, EndQueued, Runs
  <1> QED BY <1>5, <1>6, FinalizeCases

-----------------------------------------------------------------------------
(* Whole answers.                                                          *)

LEMMA AnswerSame ==
  ASSUME AnswersAreNotCutShort, losses' = 0 /\ ~late' => losses = 0 /\ ~late,
         \A r \in Responses : /\ pc'[Con(r)] = "complete" => pc[Con(r)] = "complete"
                              /\ pc[Gen(r)] \in {"spoken", "done"} => pc'[Gen(r)] \in {"spoken", "done"}
  PROVE  AnswersAreNotCutShort'
  BY DEF AnswersAreNotCutShort

LEMMA AnswerMove ==
  ASSUME TypeOK, AnswersAreNotCutShort, losses' = losses, late' = late \/ late' = TRUE,
         NEW t \in Tasks, NEW to, pc' = [pc EXCEPT ![t] = to],
         t \in Workers => to # "complete" /\ (pc[t] \in {"spoken", "done"} => to = "done")
  PROVE  AnswersAreNotCutShort'
  <1>1. \A u \in Tasks : u # t => pc'[u] = pc[u] BY DEF TypeOK, PcOK
  <1>2. pc'[t] = to BY DEF TypeOK, PcOK
  <1>3. \A q \in Responses :
            /\ pc'[Con(q)] = "complete" => pc[Con(q)] = "complete"
            /\ pc[Gen(q)] \in {"spoken", "done"} => pc'[Gen(q)] \in {"spoken", "done"}
    BY <1>1, <1>2, TaskNames
  <1> QED BY <1>3, AnswerSame

\* A step leaves the streams and sentinels to the active response.
LEMMA StreamsStep ==
  ASSUME TypeOK, TurnsOK, SilentOK, WaitOK, Calm, Calm', OneAtATime, StreamsOK, Next
  PROVE  StreamsOK'
  <1>1. ASSUME NEW r \in Responses, AnswerTurn(r) PROVE StreamsOK'
    <2>1. active = None BY <1>1 DEF AnswerTurn, OneAtATime, Submitting
    <2>2. \A q \in Responses : ~(pc[Gen(q)] = "stream" /\ Runs(Gen(q)))
      BY <2>1, NoneType DEF StreamsOK
    <2>3. ~EndQueued BY <2>1 DEF StreamsOK, EndQueued
    <2>4. \A q \in Responses : pc'[Gen(q)] = pc[Gen(q)]
      BY <1>1, TaskNames DEF AnswerTurn, Goto, TypeOK, PcOK
    <2> QED BY <1>1, <2>2, <2>3, <2>4 DEF AnswerTurn, StreamsOK, EndQueued, Runs
  <1>2. ASSUME NEW r \in Responses, LaunchTurn(r) PROVE StreamsOK'
    <2>1. pc[Gen(r)] = "none" BY <1>2 DEF LaunchTurn, TurnsOK, Unlaunched
    <2>2. pc'[Gen(r)] = "new" /\ \A q \in Responses : q # r => pc'[Gen(q)] = pc[Gen(q)]
      BY <1>2, TaskNames DEF LaunchTurn, TypeOK, PcOK
    <2> QED
      BY <1>2, <2>1, <2>2, StreamsSame DEF LaunchTurn, sessionVars, EndQueued, TypeOK, DataOK
  <1>3. ASSUME NEW r \in Responses, StartGenerator(r) PROVE StreamsOK'
    <2>1. CASE Live(r)
      <3>1. active = r /\ pc[Gen(r)] = "new" BY <1>3, <2>1 DEF StartGenerator, At, Live
      <3>2. pc'[Gen(r)] = "stream" /\ \A q \in Responses : q # r => pc'[Gen(q)] = pc[Gen(q)]
        BY <1>3, <2>1, TaskNames DEF StartGenerator, Goto, TypeOK, PcOK
      <3>3. ~EndQueued BY <3>1 DEF StreamsOK, EndQueued
      <3> QED
        BY <1>3, <3>1, <3>2, <3>3 DEF StartGenerator, sessionVars, StreamsOK, EndQueued, Runs
    <2>2. CASE ~Live(r)
      BY <1>3, <2>2, StreamsMove, TaskNames DEF StartGenerator, Goto, sessionVars, EndQueued
    <2> QED BY <2>1, <2>2
  <1>4. ASSUME NEW r \in Responses, PutSentence(r) PROVE StreamsOK'
    <2>1. EndQueued' => EndQueued
      <3>1. queue' = Append(queue, r) /\ queue \in Seq(Names) /\ r \in Names /\ r # End
        BY <1>4, NoneType DEF PutSentence, TypeOK, DataOK
      <3> QED BY <3>1, QueueAppend DEF EndQueued
    <2> QED BY <1>4, <2>1, StreamsSame DEF PutSentence, sessionVars, TypeOK, DataOK
  <1>5. ASSUME NEW r \in Responses, PutEnd(r) PROVE StreamsOK'
    <2>1. active = r /\ r # None BY <1>5, NoneType DEF PutEnd, At, StreamsOK
    <2>2. pc'[Gen(r)] = "spoken" /\ \A q \in Responses : q # r => pc'[Gen(q)] = pc[Gen(q)]
      BY <1>5, TaskNames DEF PutEnd, Goto, TypeOK, PcOK
    <2> QED BY <1>5, <2>1, <2>2 DEF PutEnd, sessionVars, StreamsOK, Runs
  <1>6. ASSUME NEW r \in Responses, EndsResponse(r) PROVE StreamsOK'
    <2>1. PICK t \in {Gen(r), Con(r)} : Ends(t, r) BY <1>6 DEF EndsResponse
    <2>2. t \in Finishers /\ t \in Tasks /\ t \in Workers BY <2>1, TaskNames DEF Finishers
    <2>3. pc[t] \notin {"spoken", "done"} BY <2>1 DEF Ends
    <2>4. CASE \E out \in Outs : Finalize(t, r, out) BY <2>2, <2>3, <2>4, FinalizeStreams
    <2>5. ASSUME NEW to \in {"done", "quit", "loop"}, Goto(t, to),
                 UNCHANGED <<active, queue, cancelled>>
          PROVE  StreamsOK'
      BY <2>2, <2>3, <2>5, StreamsMove DEF Goto, EndQueued
    <2> QED BY <2>1, <2>4, <2>5 DEF Ends
  <1>7. ASSUME NEW r \in Responses, GetItem(r) PROVE StreamsOK'
    <2>1. EndQueued' => EndQueued
      <3>1. CASE queue' = queue BY <3>1 DEF EndQueued
      <3>2. CASE queue # <<>> /\ queue' = Tail(queue)
        <4>1. queue \in Seq(Names) BY DEF TypeOK, DataOK
        <4> QED BY <3>2, <4>1, QueueTail DEF EndQueued
      <3> QED BY <1>7, <3>1, <3>2 DEF GetItem
    <2>2. \E to \in {"complete", "done", "get", "render", "loop"} : pc' = [pc EXCEPT ![Con(r)] = to]
      BY <1>7 DEF GetItem, AfterItem, Goto
    <2>3. pc[Con(r)] = "get" /\ UNCHANGED <<active, cancelled>>
      BY <1>7 DEF GetItem, At, sessionVars
    <2> QED BY <2>1, <2>2, <2>3, StreamsMove, TaskNames
  <1>8. ASSUME NEW r \in Responses, CancelConsumer(r) PROVE StreamsOK'
    <2>1. Con(r) \in Tasks /\ pc[Con(r)] \notin {"spoken", "done"}
      BY <1>8, TaskNames DEF CancelConsumer, MayEnd, Alive, TypeOK, PcOK, ConPcs
    <2> QED BY <1>8, <2>1, StreamsMove DEF CancelConsumer, Goto, sessionVars, EndQueued
  <1>9. ASSUME NEW t \in Finishers, Join(t) PROVE StreamsOK'
    <2>1. t \in Tasks /\ pc[t] \notin {"spoken", "done"} BY <1>9, TaskNames DEF Join, At
    <2>2. \E to \in {"idle", "submit", "done", "stopping"} : pc' = [pc EXCEPT ![t] = to]
      BY <1>9 DEF Join, Settle, Resume, Goto
    <2> QED BY <1>9, <2>1, <2>2, StreamsMove DEF Join, sessionVars, EndQueued
  <1>10. ASSUME NEW t \in Finishers, Stopped(t) PROVE StreamsOK'
    <2>1. t \in Tasks /\ pc[t] \notin {"spoken", "done"} BY <1>10, TaskNames DEF Stopped, At
    <2>2. \E to \in {"idle", "submit", "done", "stopping"} : pc' = [pc EXCEPT ![t] = to]
      BY <1>10 DEF Stopped, Settle, Resume, Goto
    <2> QED BY <1>10, <2>1, <2>2, StreamsMove DEF Stopped, sessionVars, EndQueued
  <1>11. ASSUME NEW from, NEW out, EndBargeIn(from, out), <<from, out>> \in BargeInEnds
         PROVE  StreamsOK'
    <2>1. Vad \in Finishers /\ heard \in Responses /\ pc[Vad] # "done"
      BY <1>11, NoneType
      DEF EndBargeIn, At, BargeInEnds, SilentOK, HeardPcs, TypeOK, DataOK, Finishers
    <2> QED BY <1>11, <2>1, FinalizeStreams DEF EndBargeIn
  <1>12. ASSUME VerifyBargeIn PROVE StreamsOK'
    <2>1. CallStop(Vad) /\ UNCHANGED <<active, queue, cancelled>>
      BY <1>12 DEF VerifyBargeIn, sessionVars
    <2>2. PICK to \in {"halt", "stop"} : pc' = [pc EXCEPT ![Vad] = to]
      BY <2>1, StopFrame, TaskNames
    <2> QED BY <2>1, <2>2, StreamsMove, TaskNames DEF EndQueued
  <1>13. ASSUME StopForBargeIn PROVE StreamsOK'
    <2>1. CallStop(Vad) /\ UNCHANGED <<active, queue, cancelled>>
      BY <1>13 DEF StopForBargeIn, sessionVars
    <2>2. PICK to \in {"halt", "stop"} : pc' = [pc EXCEPT ![Vad] = to]
      BY <2>1, StopFrame, TaskNames
    <2> QED BY <2>1, <2>2, StreamsMove, TaskNames DEF EndQueued
  <1>14. ASSUME LoseDuplex PROVE StreamsOK'
    BY <1>14, StreamsSame DEF LoseDuplex, sessionVars, EndQueued, TypeOK, DataOK
  <1>15. ASSUME PlaybackExits PROVE StreamsOK'
    BY <1>15, StreamsSame DEF PlaybackExits, sessionVars, EndQueued, TypeOK, DataOK
  <1>16. ASSUME StartShutdown PROVE StreamsOK'
    BY <1>16, NoneType DEF StartShutdown, Calm, TurnsOK
  <1>17. ASSUME StopForShutdown PROVE StreamsOK'
    BY <1>17, NoneType DEF StopForShutdown, Calm, TurnsOK
  <1>18. ASSUME CancelAll PROVE StreamsOK'
    BY <1>18, NoneType DEF CancelAll, Calm, TurnsOK
  <1>19. ASSUME FinishShutdown PROVE StreamsOK'
    BY <1>19, NoneType DEF FinishShutdown, Calm, TurnsOK
  <1> USE TaskNames, StreamsMove
        DEF At, Runs, Goto, MoveTo, MayEnd, HoldPlayback, AfterItem, sessionVars, EndQueued
  <1>20. ASSUME NEW r \in Responses, StartTurn(r) PROVE StreamsOK' BY <1>20 DEF StartTurn
  <1>21. ASSUME NEW r \in Responses, RefuseTurn(r) PROVE StreamsOK' BY <1>21 DEF RefuseTurn
  <1>22. ASSUME NEW r \in Responses, CheckTurn(r) PROVE StreamsOK' BY <1>22 DEF CheckTurn
  <1>23. ASSUME NEW r \in Responses, FailTurn(r) PROVE StreamsOK' BY <1>23 DEF FailTurn
  <1>24. ASSUME NEW r \in Responses, AbandonStream(r) PROVE StreamsOK'
    BY <1>24 DEF AbandonStream
  <1>25. ASSUME NEW r \in Responses, EndGenerator(r) PROVE StreamsOK' BY <1>25 DEF EndGenerator
  <1>26. ASSUME NEW r \in Responses, CancelGenerator(r) PROVE StreamsOK'
    BY <1>26 DEF CancelGenerator
  <1>27. ASSUME NEW r \in Responses, ConsumerLoop(r) PROVE StreamsOK' BY <1>27 DEF ConsumerLoop
  <1>28. ASSUME NEW r \in Responses, Rendered(r) PROVE StreamsOK' BY <1>28 DEF Rendered
  <1>29. ASSUME NEW r \in Responses, Launched(r) PROVE StreamsOK' BY <1>29 DEF Launched
  <1>30. ASSUME NEW r \in Responses, QuitConsumer(r) PROVE StreamsOK' BY <1>30 DEF QuitConsumer
  <1>31. ASSUME NEW r \in Responses, Reaped(r) PROVE StreamsOK' BY <1>31 DEF Reaped
  <1>32. ASSUME HearSpeech PROVE StreamsOK' BY <1>32 DEF HearSpeech
  <1>33. ASSUME PausePlayback PROVE StreamsOK' BY <1>33 DEF PausePlayback
  <1>34. ASSUME DoubtBargeIn PROVE StreamsOK' BY <1>34 DEF DoubtBargeIn
  <1>35. ASSUME TranscribeBargeIn PROVE StreamsOK' BY <1>35 DEF TranscribeBargeIn
  <1>36. ASSUME PlaybackCut PROVE StreamsOK' BY <1>36 DEF PlaybackCut
  <1>37. ASSUME SubmitBargeIn PROVE StreamsOK' BY <1>37 DEF SubmitBargeIn
  <1> QED
    BY <1>1, <1>2, <1>3, <1>4, <1>5, <1>6, <1>7, <1>8, <1>9, <1>10, <1>11, <1>12, <1>13, <1>14,
       <1>15, <1>16, <1>17, <1>18, <1>19, <1>20, <1>21, <1>22, <1>23, <1>24, <1>25, <1>26,
       <1>27, <1>28, <1>29, <1>30, <1>31, <1>32, <1>33, <1>34, <1>35, <1>36, <1>37, Enders
    DEF Next, TurnStep, GeneratorStep, ConsumerStep, FinalizeStep, BargeInStep, ShutdownStep,
        BargeInEnds, Finishers

\* Only the sentinel of its own stream completes a response.
LEMMA AnswerStep ==
  ASSUME TypeOK, TurnsOK, CalmOK, AnswersAreNotCutShort, Next
  PROVE  AnswersAreNotCutShort'
  <1>1. ASSUME NEW r \in Responses, LaunchTurn(r) PROVE AnswersAreNotCutShort'
    <2>1. pc[Gen(r)] = "none" BY <1>1 DEF LaunchTurn, TurnsOK, Unlaunched
    <2>2. /\ pc'[Con(r)] = "loop"
          /\ \A q \in Responses : q # r => pc'[Gen(q)] = pc[Gen(q)] /\ pc'[Con(q)] = pc[Con(q)]
      BY <1>1, TaskNames DEF LaunchTurn, TypeOK, PcOK
    <2> QED BY <1>1, <2>1, <2>2, AnswerSame DEF LaunchTurn, sessionVars
  <1>2. ASSUME NEW r \in Responses, PutSentence(r) PROVE AnswersAreNotCutShort'
    BY <1>2, AnswerSame DEF PutSentence, sessionVars, TypeOK, DataOK
  <1>3. ASSUME NEW r \in Responses, EndsResponse(r) PROVE AnswersAreNotCutShort'
    <2>1. PICK t \in {Gen(r), Con(r)} : Ends(t, r) BY <1>3 DEF EndsResponse
    <2>2. t \in Finishers /\ t \in Tasks /\ t \in Workers BY <2>1, TaskNames DEF Finishers
    <2>3. pc[t] \notin {"spoken", "done"} /\ UNCHANGED <<losses, late>> BY <2>1 DEF Ends
    <2>4. PICK to \in {"join", "done", "idle", "submit", "quit", "loop"} :
              pc' = [pc EXCEPT ![t] = to]
      BY <2>1, <2>2, FinalizeFrame DEF Ends, Goto
    <2> QED BY <2>2, <2>3, <2>4, AnswerMove
  <1>4. ASSUME NEW r \in Responses, GetItem(r) PROVE AnswersAreNotCutShort'
    <2>1. pc[Con(r)] = "get" /\ UNCHANGED <<losses, late>> BY <1>4 DEF GetItem, At, sessionVars
    <2>2. CASE pc' = [pc EXCEPT ![Con(r)] = "complete"]
      <3>1. ~down /\ queue # <<>> /\ Head(queue) = End /\ active = r
        BY <1>4, <2>2, TaskNames DEF GetItem, AfterItem, Goto, Live, TypeOK, PcOK
      <3>2. EndQueued
        <4>1. queue \in Seq(Names) BY DEF TypeOK, DataOK
        <4> QED BY <3>1, <4>1, QueueTail DEF EndQueued
      <3>3. losses = 0 /\ ~late => pc[Gen(r)] \in {"spoken", "done"}
        BY <3>1, <3>2 DEF CalmOK, Calm, StreamsOK, EndQueued
      <3>4. \A q \in Responses : pc'[Gen(q)] = pc[Gen(q)] /\ (q # r => pc'[Con(q)] = pc[Con(q)])
        BY <2>2, TaskNames DEF TypeOK, PcOK
      <3> QED BY <1>4, <3>3, <3>4 DEF GetItem, sessionVars, AnswersAreNotCutShort
    <2>3. PICK to \in {"complete", "done", "get", "render", "loop"} : pc' = [pc EXCEPT ![Con(r)] = to]
      BY <1>4 DEF GetItem, AfterItem, Goto
    <2>4. CASE to = "complete" BY <2>2, <2>3, <2>4
    <2>5. CASE to # "complete" BY <2>1, <2>3, <2>5, AnswerMove, TaskNames
    <2> QED BY <2>4, <2>5
  <1>5. ASSUME NEW r \in Responses, CancelConsumer(r) PROVE AnswersAreNotCutShort'
    <2>1. Con(r) \in Tasks /\ pc[Con(r)] \notin {"spoken", "done"}
      BY <1>5, TaskNames DEF CancelConsumer, MayEnd, Alive, TypeOK, PcOK, ConPcs
    <2> QED BY <1>5, <2>1, AnswerMove DEF CancelConsumer, Goto, sessionVars
  <1>6. ASSUME NEW t \in Finishers, Join(t) PROVE AnswersAreNotCutShort'
    <2>1. t \in Tasks /\ pc[t] \notin {"spoken", "done"} BY <1>6, TaskNames DEF Join, At
    <2>2. \E to \in {"idle", "submit", "done", "stopping"} : pc' = [pc EXCEPT ![t] = to]
      BY <1>6 DEF Join, Settle, Resume, Goto
    <2> QED BY <1>6, <2>1, <2>2, AnswerMove DEF Join, sessionVars
  <1>7. ASSUME NEW t \in Finishers, Stopped(t) PROVE AnswersAreNotCutShort'
    <2>1. t \in Tasks /\ pc[t] \notin {"spoken", "done"} BY <1>7, TaskNames DEF Stopped, At
    <2>2. \E to \in {"idle", "submit", "done", "stopping"} : pc' = [pc EXCEPT ![t] = to]
      BY <1>7 DEF Stopped, Settle, Resume, Goto
    <2> QED BY <1>7, <2>1, <2>2, AnswerMove DEF Stopped, sessionVars
  <1>8. ASSUME NEW from, NEW out, EndBargeIn(from, out), <<from, out>> \in BargeInEnds
         PROVE  AnswersAreNotCutShort'
    <2>1. Vad \in Finishers /\ Vad \in Tasks /\ pc[Vad] \notin {"spoken", "done"}
      BY <1>8, TaskNames DEF EndBargeIn, At, Finishers, BargeInEnds
    <2>2. losses' = losses /\ (late' = late \/ late' = TRUE)
      BY <1>8 DEF EndBargeIn, TypeOK, DataOK
    <2>3. \E to : pc' = [pc EXCEPT ![Vad] = to] /\ to # "complete"
      BY <1>8, <2>1, FinalizeFrame DEF EndBargeIn
    <2> QED BY <2>1, <2>2, <2>3, AnswerMove
  <1>9. ASSUME VerifyBargeIn PROVE AnswersAreNotCutShort'
    <2>1. CallStop(Vad) /\ UNCHANGED <<losses, late>> BY <1>9 DEF VerifyBargeIn, sessionVars
    <2>2. PICK to \in {"halt", "stop"} : pc' = [pc EXCEPT ![Vad] = to]
      BY <2>1, StopFrame, TaskNames
    <2> QED BY <2>1, <2>2, AnswerMove, TaskNames
  <1>10. ASSUME StopForBargeIn PROVE AnswersAreNotCutShort'
    <2>1. CallStop(Vad) /\ UNCHANGED <<losses, late>> BY <1>10 DEF StopForBargeIn, sessionVars
    <2>2. PICK to \in {"halt", "stop"} : pc' = [pc EXCEPT ![Vad] = to]
      BY <2>1, StopFrame, TaskNames
    <2> QED BY <2>1, <2>2, AnswerMove, TaskNames
  <1>11. ASSUME LoseDuplex PROVE AnswersAreNotCutShort'
    BY <1>11, AnswerSame DEF LoseDuplex, sessionVars, TypeOK, DataOK
  <1>12. ASSUME PlaybackExits PROVE AnswersAreNotCutShort'
    BY <1>12, AnswerSame DEF PlaybackExits, sessionVars, TypeOK, DataOK
  <1>13. ASSUME StartShutdown PROVE AnswersAreNotCutShort'
    <2>1. CallStop(Stop) /\ UNCHANGED <<losses, late>> BY <1>13 DEF StartShutdown, sessionVars
    <2>2. PICK to \in {"halt", "stop"} : pc' = [pc EXCEPT ![Stop] = to]
      BY <2>1, StopFrame, TaskNames
    <2> QED BY <2>1, <2>2, AnswerMove, TaskNames
  <1>14. ASSUME StopForShutdown PROVE AnswersAreNotCutShort'
    <2>1. CallStop(Stop) /\ UNCHANGED <<losses, late>>
      BY <1>14 DEF StopForShutdown, sessionVars
    <2>2. PICK to \in {"halt", "stop"} : pc' = [pc EXCEPT ![Stop] = to]
      BY <2>1, StopFrame, TaskNames
    <2> QED BY <2>1, <2>2, AnswerMove, TaskNames
  <1>15. ASSUME FinishShutdown PROVE AnswersAreNotCutShort'
    <2>1. \A w \in Workers : pc'[w] = pc[w]
      BY <1>15, TaskNames DEF FinishShutdown, TypeOK, PcOK
    <2> QED BY <1>15, <2>1, TaskNames, AnswerSame DEF FinishShutdown, sessionVars
  <1> USE TaskNames, AnswerMove
        DEF At, Runs, Goto, MoveTo, MayEnd, MayPut, HoldPlayback, AfterItem, sessionVars,
            TypeOK, DataOK
  <1>16. ASSUME NEW r \in Responses, StartTurn(r) PROVE AnswersAreNotCutShort'
    BY <1>16 DEF StartTurn
  <1>17. ASSUME NEW r \in Responses, RefuseTurn(r) PROVE AnswersAreNotCutShort'
    BY <1>17 DEF RefuseTurn
  <1>18. ASSUME NEW r \in Responses, CheckTurn(r) PROVE AnswersAreNotCutShort'
    BY <1>18 DEF CheckTurn
  <1>19. ASSUME NEW r \in Responses, FailTurn(r) PROVE AnswersAreNotCutShort'
    BY <1>19 DEF FailTurn
  <1>20. ASSUME NEW r \in Responses, AnswerTurn(r) PROVE AnswersAreNotCutShort'
    BY <1>20 DEF AnswerTurn
  <1>21. ASSUME NEW r \in Responses, StartGenerator(r) PROVE AnswersAreNotCutShort'
    BY <1>21 DEF StartGenerator
  <1>22. ASSUME NEW r \in Responses, PutEnd(r) PROVE AnswersAreNotCutShort' BY <1>22 DEF PutEnd
  <1>23. ASSUME NEW r \in Responses, AbandonStream(r) PROVE AnswersAreNotCutShort'
    BY <1>23 DEF AbandonStream
  <1>24. ASSUME NEW r \in Responses, EndGenerator(r) PROVE AnswersAreNotCutShort'
    BY <1>24 DEF EndGenerator
  <1>25. ASSUME NEW r \in Responses, CancelGenerator(r) PROVE AnswersAreNotCutShort'
    BY <1>25 DEF CancelGenerator
  <1>26. ASSUME NEW r \in Responses, ConsumerLoop(r) PROVE AnswersAreNotCutShort'
    BY <1>26 DEF ConsumerLoop
  <1>27. ASSUME NEW r \in Responses, Rendered(r) PROVE AnswersAreNotCutShort'
    BY <1>27 DEF Rendered
  <1>28. ASSUME NEW r \in Responses, Launched(r) PROVE AnswersAreNotCutShort'
    BY <1>28 DEF Launched
  <1>29. ASSUME NEW r \in Responses, QuitConsumer(r) PROVE AnswersAreNotCutShort'
    BY <1>29 DEF QuitConsumer
  <1>30. ASSUME NEW r \in Responses, Reaped(r) PROVE AnswersAreNotCutShort' BY <1>30 DEF Reaped
  <1>31. ASSUME HearSpeech PROVE AnswersAreNotCutShort' BY <1>31 DEF HearSpeech
  <1>32. ASSUME PausePlayback PROVE AnswersAreNotCutShort' BY <1>32 DEF PausePlayback
  <1>33. ASSUME DoubtBargeIn PROVE AnswersAreNotCutShort' BY <1>33 DEF DoubtBargeIn
  <1>34. ASSUME TranscribeBargeIn PROVE AnswersAreNotCutShort' BY <1>34 DEF TranscribeBargeIn
  <1>35. ASSUME PlaybackCut PROVE AnswersAreNotCutShort' BY <1>35 DEF PlaybackCut
  <1>36. ASSUME SubmitBargeIn PROVE AnswersAreNotCutShort' BY <1>36 DEF SubmitBargeIn
  <1>37. ASSUME CancelAll PROVE AnswersAreNotCutShort' BY <1>37 DEF CancelAll
  <1> QED
    BY <1>1, <1>2, <1>3, <1>4, <1>5, <1>6, <1>7, <1>8, <1>9, <1>10, <1>11, <1>12, <1>13, <1>14,
       <1>15, <1>16, <1>17, <1>18, <1>19, <1>20, <1>21, <1>22, <1>23, <1>24, <1>25, <1>26,
       <1>27, <1>28, <1>29, <1>30, <1>31, <1>32, <1>33, <1>34, <1>35, <1>36, <1>37, Enders
    DEF Next, TurnStep, GeneratorStep, ConsumerStep, FinalizeStep, BargeInStep, ShutdownStep,
        BargeInEnds, Finishers

-----------------------------------------------------------------------------
(* The theorems.                                                           *)

LEMMA InitInv == Init => Inv
  <1> SUFFICES ASSUME Init PROVE Inv OBVIOUS
  <1>1. PcOK
    BY TaskNames DEF Init, PcOK, Pcs, TurnPcs, GenPcs, ConPcs, VadPcs, StopPcs
  <1>2. DataOK
    <2>1. fin \in [Tasks -> Fins] /\ player \in Players BY FinTypes, PlayerTypes DEF Init
    <2>2. queue \in Seq(Names) BY DEF Init
    <2> QED BY <2>1, <2>2, NoneType DEF Init, DataOK, States
  <1>3. \A w \in Tasks : pc[w] = IF w = Vad THEN "idle" ELSE "none" BY DEF Init
  <1>4. TurnsOK
    BY <1>3, TaskNames, NoneType DEF Init, TurnsOK, Unlaunched
  <1>5. ~Sounding BY DEF Init, Sounding, NoPlayback
  <1>6. SilentOK
    BY <1>3, <1>5, TaskNames DEF Init, SilentOK, HeardPcs, InterruptedStaysSilent
  <1>7. PlayerOK BY <1>3, <1>5, TaskNames DEF PlayerOK
  <1>8. \A t \in Tasks, w \in Workers : ~Joins(t, w) BY <1>3, TaskNames DEF Joins
  <1>9. \A w \in Workers : ~Alive(w) BY <1>3, TaskNames DEF Alive
  <1>10. WaitOK BY <1>8, <1>9, TaskNames DEF WaitOK
  <1>11. StopOK BY <1>3, TaskNames DEF Init, StopOK
  <1>12. \A r \in Responses : ~Submitting(r) BY <1>3, TaskNames DEF Submitting
  <1>13. \A t \in Finishers : ~Finalizing(t) BY <1>3, TaskNames DEF Finalizing
  <1>14. active = None /\ pc[Vad] # "submit" /\ queue = <<>> BY <1>3, TaskNames DEF Init
  <1>15. OneAtATime BY <1>12, <1>13, <1>14 DEF OneAtATime
  <1>16. StreamsOK BY <1>3, <1>14, TaskNames DEF StreamsOK
  <1>17. AnswersAreNotCutShort BY <1>3, TaskNames DEF AnswersAreNotCutShort
  <1> QED
    BY <1>1, <1>2, <1>4, <1>6, <1>7, <1>10, <1>11, <1>15, <1>16, <1>17 DEF Inv, TypeOK, CalmOK

LEMMA NextInv == Inv /\ [Next]_voiceVars => Inv'
  <1> SUFFICES ASSUME Inv, [Next]_voiceVars PROVE Inv' OBVIOUS
  <1>1. TypeOK /\ TurnsOK /\ SilentOK /\ PlayerOK /\ WaitOK /\ StopOK /\ CalmOK
        /\ AnswersAreNotCutShort
    BY DEF Inv
  <1>2. CASE Next
    <2>1. TypeOK' BY <1>1, <1>2, PcStep, DataStep DEF TypeOK
    <2>2. TurnsOK' /\ PlayerOK' /\ SilentOK'
      BY <1>1, <1>2, TurnsStep, PlayerStep, SilentStep
    <2>3. WaitOK' /\ StopOK' BY <1>1, <1>2, WaitStep, StopStep
    <2>4. CalmOK'
      <3> SUFFICES ASSUME Calm' PROVE OneAtATime' /\ StreamsOK' BY DEF CalmOK
      <3>1. Calm /\ OneAtATime /\ StreamsOK BY <1>1, <1>2, CalmStays DEF CalmOK
      <3> QED BY <1>1, <1>2, <3>1, OneStep, StreamsStep
    <2>5. AnswersAreNotCutShort' BY <1>1, <1>2, AnswerStep
    <2> QED BY <2>1, <2>2, <2>3, <2>4, <2>5 DEF Inv
  <1>3. CASE UNCHANGED voiceVars
    BY <1>1, <1>3
    DEF voiceVars, Inv, TypeOK, PcOK, DataOK, TurnsOK, SilentOK, InterruptedStaysSilent, PlayerOK,
        Sounding, WaitOK, Joins, Alive, StopOK, CalmOK, Calm, OneAtATime, Submitting,
        Finalizing, StreamsOK, Runs, AnswersAreNotCutShort
  <1> QED BY <1>2, <1>3

\* What Inv says of the tasks, the player and the queue holds in every reachable state,
\* whatever the order of the tasks between two awaits of the coordinator.
THEOREM Invariant == Spec => []Inv
  <1> QED BY InitInv, NextInv, PTL DEF Spec

\* Once playback was stopped for a verified barge-in the response stays silent: its
\* playback was the one waited for, and what could start another one finds its epoch
\* stale (handle_barge_in_speech, play, CancellationTracker).
THEOREM InterruptedSilent == Spec => []InterruptedStaysSilent
  <1>1. Inv => InterruptedStaysSilent BY DEF Inv, SilentOK
  <1> QED BY <1>1, Invariant, PTL

\* A session that reports STOPPED is silent and has no consumer that could still play:
\* every worker was cancelled and waited for, by shutdown itself or by a finalizer that
\* ended before, since nobody waits in a circle.
THEOREM StoppedSilent == Spec => []StoppedIsSilent
  <1>1. ASSUME Inv, state = "stopped" PROVE StoppedIsSilent
    <2>1. \A w \in Workers : pc[w] \in {"none", "new", "loop", "done"}
      BY <1>1 DEF Inv, StopOK
    <2>2. Sounding => player.r \in Responses
      BY <1>1, NoneType DEF Inv, PlayerOK, TypeOK, DataOK, Players
    <2>3. ~Sounding BY <1>1, <2>1, <2>2, TaskNames DEF Inv, PlayerOK
    <2> QED BY <2>1, <2>3, TaskNames DEF StoppedIsSilent
  <1>2. Inv => StoppedIsSilent BY <1>1 DEF StoppedIsSilent
  <1> QED BY <1>2, Invariant, PTL

\* Unless full duplex was lost or a barge-in came too late, an answer is completed by the
\* end of its own stream: a turn, a response, a finalization and the utterance of a
\* barge-in exclude each other, so that no sentinel outlives its response.
THEOREM AnswersWhole == Spec => []AnswersAreNotCutShort
  <1>1. Inv => AnswersAreNotCutShort BY DEF Inv
  <1> QED BY <1>1, Invariant, PTL
=============================================================================
