---------------------------- MODULE VoiceDaemon ----------------------------
(***************************************************************************)
(* The wake-word daemon (services/hikari_daemon.py) over its streaming     *)
(* runtime (core/voice_streaming), its playback controller                 *)
(* (core/voice_capture/playback.py) and the local wake gate                *)
(* (core/voice_safety/wake_gate.py).                                       *)
(*                                                                         *)
(* One thread listens, processes and speaks.  Around it: the people in the *)
(* room, the child process that speaks and may end at any moment, the      *)
(* clocks, and the handler of SIGINT and SIGTERM, which runs between any   *)
(* two steps of the thread and takes the global objects away from it.      *)
(***************************************************************************)
EXTENDS Naturals

CONSTANTS
    Modes,       \* how speech is captured, see below
    MaxIds,      \* _max_interruption_ids
    MaxKeys,     \* _max_utterance_keys
    MaxSignals   \* bound: signals to shut down

\* "utterance": SpeechRecognition; "frame": the CoreAudio stream; "local": the
\* same with the local wake detector in charge of the wake word.
ASSUME DaemonBounds ==
    /\ Modes \subseteq {"utterance", "frame", "local"}
    /\ MaxIds \in Nat /\ MaxKeys \in Nat \ {0} /\ MaxSignals \in Nat

None == 0
Runtimes == 1 .. 1 + MaxSignals     \* the VoiceStreamingRuntime objects there may be

WakeKinds == {"wake", "wakecmd", "wakestop"}   \* extract_wake_command finds the prefix
StopKinds == {"stop", "wakestop"}              \* is_stop_command
BargeKinds == StopKinds \cup {"cancel"}        \* speech_interrupt_mode
Kinds == WakeKinds \cup BargeKinds \cup {"talk", "wrong"}
Utterances == [kind : Kinds, owner : BOOLEAN]

VARIABLES
    mode,      \* the configured capture
    pc,        \* where the thread is
    utt,       \* the utterance it works on
    rt,        \* state of each runtime object
    cur,       \* _streaming_runtime
    mine,      \* the runtime the running function holds
    ids, keys, \* ids of interruptions and keys of utterances the runtime has seen
    hikari,    \* hikari_state
    running,   \* daemon_running
    capture,   \* _voice_audio_loop: "none" or "open"
    player,    \* _playback_controller: "none", or its state
    voice,     \* the speech process of the answer being spoken
    left,      \* why speech processes still run that nobody waits for: "refused", the
               \* waiting ended with the refusal; "survived", it was ended in vain
    barge,     \* allow_interrupt
    stamp,     \* _active_last_activity_ns is set
    ignoring,  \* within _post_interrupt_ignore_until_ns
    gate,      \* _local_wake_gate: "none", "asleep", "open" or "spent"
    signals,   \* history: signals received
    asked,     \* history: what the runtime last granted, "wake" or "sleep"
    since      \* history: commands processed since the last admitted wake, up to 3

vars == <<mode, pc, utt, rt, cur, mine, ids, keys, hikari, running, capture, player,
          voice, left, barge, stamp, ignoring, gate, signals, asked, since>>

\* What a step of the thread that is not about it leaves alone.
speechVars == <<player, voice, left, barge>>
runtimeVars == <<cur, mine, capture>>
fixed == <<mode, running, signals>>

Wakeful(s) == s \in {"wake", "idle"}                 \* is_wake_listening
ActiveListening(s) == s \in {"active", "thinking"}   \* is_active_listening

-----------------------------------------------------------------------------
(* The runtime's state machine.                                            *)

Valid == [idle |-> {"wake", "active"}, wake |-> {"active"},
          active |-> {"wake", "thinking"}, thinking |-> {"speaking", "wake", "active"},
          speaking |-> {"active", "wake", "interrupting"},
          interrupting |-> {"interrupted", "speaking"},
          interrupted |-> {"active", "wake", "thinking"}]

\* transition_to: a transition that is not in the table changes nothing.
To(s, t) == IF t \in Valid[s] THEN t ELSE s

\* assistant_speaking_start: by way of THINKING.
Speaking(s) == To(To(s, "thinking"), "speaking")

Result(s, action, k) == [state |-> s, action |-> action, keys |-> k]

\* Mutant: a full set is not cleared.
MutRemembered(k) == k + 1
\* _remember_utterance_key: a full set is cleared and the utterance refused.
Remembered(k) == IF k >= MaxKeys THEN 0 ELSE k + 1

\* process_utterance, for a verified speaker: the state it leaves the runtime in,
\* what it tells the daemon, and the keys remembered.
ProcessUtterance(s, kind, k) ==
    CASE Wakeful(s) /\ kind \notin WakeKinds -> Result(s, "ignore", k)
      [] Wakeful(s) /\ kind = "wakestop" -> Result("wake", "silent_goodbye", k)
      [] Wakeful(s) /\ kind = "wake" -> Result("active", "acknowledge", k)
      [] Wakeful(s) /\ kind = "wakecmd" ->
            IF k >= MaxKeys THEN Result("wake", "ignore", 0)
            ELSE Result("thinking", "process_command", k + 1)
      [] ActiveListening(s) /\ kind \in StopKinds -> Result("wake", "silent_goodbye", k)
      [] ActiveListening(s) /\ kind \notin StopKinds ->
            Result("thinking", IF k >= MaxKeys THEN "ignore" ELSE "process_command",
                   Remembered(k))
      [] OTHER -> Result(s, "ignore", k)

-----------------------------------------------------------------------------
(* Parts of the daemon's functions.                                        *)

\* _get_streaming_runtime: after a shutdown it makes a new runtime and resolves
\* the capture again, which opens the stream if that can be had.
Held == IF cur # None THEN cur ELSE 1 + signals
HeldState == IF cur # None THEN rt[cur] ELSE "wake"

\* It is called, and the runtime then put in state s.
Acquire(s) ==
    /\ cur' = Held
    /\ rt' = [rt EXCEPT ![Held] = s]
    /\ IF cur # None THEN UNCHANGED <<ids, keys, capture>>
       ELSE /\ ids' = 0 /\ keys' = 0
            /\ capture' \in IF mode = "utterance" THEN {"none"} ELSE {"none", "open"}

\* _sync_hikari_state_from_runtime, for the state the runtime is in.
Synced(s) == IF Wakeful(s) THEN "LISTENING" ELSE "ACTIVE"

\* _sleep_active_session_if_idle(runtime): whether it may put the session to sleep.
MayIdle(s) == ~Wakeful(s) /\ hikari # "LISTENING" /\ stamp
Stamped(s) == ~Wakeful(s) /\ hikari # "LISTENING"

\* A session that is being interrupted cannot be put to sleep: history tells whether
\* it was.
PutToSleep(r) ==
    /\ rt' = [rt EXCEPT ![r] = To(@, "wake")]
    /\ asked' = IF To(rt[r], "wake") = "wake" THEN "sleep" ELSE asked

FallAsleep(r) ==
    /\ PutToSleep(r)
    /\ hikari' = "LISTENING"
    /\ stamp' = FALSE

\* The `finally` of speak.
SpeakReturns ==
    /\ pc' = "top"
    /\ hikari' = IF hikari = "SPEAKING" THEN "ACTIVE" ELSE hikari
    /\ stamp' = (hikari = "SPEAKING" \/ stamp)

\* Its `except`: a speech process that is alive is ended, the controller cleared and
\* the runtime rearmed.  The process may survive; waiting for it in vain raises, and
\* so does a missing controller, before anything is rearmed: the loop catches that.
SpeakFails(alive) ==
    /\ SpeakReturns
    /\ voice' = "none"
    /\ \E survives \in {FALSE, alive} :
          /\ left' = IF survives THEN left \cup {"survived"} ELSE left
          /\ \/ (player = "none" \/ survives) /\ UNCHANGED <<player, rt>>
             \/ /\ player # "none" /\ player' = "idle"
                /\ rt' = [rt EXCEPT ![mine] = To(@, "active")]
    /\ UNCHANGED <<ignoring, asked>>

-----------------------------------------------------------------------------
(* listen_always.                                                          *)

LoopEnds ==
    /\ pc = "top" /\ ~running
    /\ pc' = "exited"
    /\ UNCHANGED <<utt, rt, ids, keys, hikari, stamp, ignoring, gate, asked, since>>
    /\ UNCHANGED speechVars /\ UNCHANGED runtimeVars /\ UNCHANGED fixed

\* The idle check of the loop, on the runtime it began with.
LoopTurns ==
    /\ pc = "top" /\ running
    /\ pc' = "cycle"
    /\ \/ MayIdle(rt[1]) /\ FallAsleep(1)
       \/ stamp' = Stamped(rt[1]) /\ UNCHANGED <<rt, hikari, asked>>
    /\ UNCHANGED <<utt, ids, keys, ignoring, gate, since>>
    /\ UNCHANGED speechVars /\ UNCHANGED runtimeVars /\ UNCHANGED fixed

\* One cycle of the capture there is; a signal may just have closed the stream, and
\* then it is a cycle of the microphone.
ChooseCycle ==
    /\ pc = "cycle"
    /\ pc' = IF capture = "open" THEN "enter frame" ELSE "enter"
    /\ UNCHANGED <<utt, rt, ids, keys, hikari, stamp, ignoring, gate, asked, since>>
    /\ UNCHANGED speechVars /\ UNCHANGED runtimeVars /\ UNCHANGED fixed

\* The cycle gets hold of the runtime and listens, unless the runtime or the quiet
\* time after an interruption says otherwise; there is no microphone wake word where
\* the local detector has it.  A session that is active for the daemon is made active
\* for the runtime.
Enter ==
    /\ pc = "enter"
    /\ mine' = Held
    /\ IF hikari = "LISTENING"
       THEN /\ pc' = IF Wakeful(HeldState) /\ mode # "local" THEN "wake" ELSE "top"
            /\ Acquire(HeldState)
       ELSE IF ignoring THEN pc' = "top" /\ Acquire(HeldState)
            ELSE pc' = "active" /\ Acquire(IF Wakeful(HeldState) THEN "active" ELSE HeldState)
    /\ UNCHANGED <<utt, hikari, stamp, ignoring, gate, asked, since>>
    /\ UNCHANGED speechVars /\ UNCHANGED fixed

EnterFrame ==
    /\ pc = "enter frame"
    /\ mine' = Held /\ Acquire(HeldState)
    /\ pc' = IF running THEN "frame" ELSE "top"
    /\ UNCHANGED <<utt, hikari, stamp, ignoring, gate, asked, since>>
    /\ UNCHANGED speechVars /\ UNCHANGED fixed

Listening == {"wake", "active", "frame"}

\* Something is said, transcribed, and its speaker verified or not.  Frames are
\* discarded for a while after an interruption.
Hear(u) ==
    /\ pc \in Listening
    /\ pc = "frame" => running /\ ~ignoring
    /\ utt' = u
    /\ pc' = CASE pc = "wake" -> "heard wake" [] pc = "active" -> "heard active"
               [] pc = "frame" -> "heard frame"
    /\ UNCHANGED <<rt, ids, keys, hikari, stamp, ignoring, gate, asked, since>>
    /\ UNCHANGED speechVars /\ UNCHANGED runtimeVars /\ UNCHANGED fixed

\* Nothing is said in time, nothing is understood, or the microphone fails.
Silence ==
    /\ pc \in Listening
    /\ pc' = "top"
    /\ UNCHANGED <<utt, rt, ids, keys, hikari, stamp, ignoring, gate, asked, since>>
    /\ UNCHANGED speechVars /\ UNCHANGED runtimeVars /\ UNCHANGED fixed

\* The stream reports that it is closed or broken: the daemon stops itself.
CaptureFails ==
    /\ pc = "frame" /\ running
    /\ running' = FALSE
    /\ pc' = "top"
    /\ UNCHANGED <<mode, signals, utt, rt, ids, keys, hikari, stamp, ignoring, gate, asked,
                   since>>
    /\ UNCHANGED speechVars /\ UNCHANGED runtimeVars

\* The idle check of a frame, or of an active cycle before it listens.
IdleInCycle ==
    /\ pc \in {"frame", "active"} /\ running
    /\ MayIdle(rt[mine]) /\ FallAsleep(mine)
    /\ pc' = "top"
    /\ UNCHANGED <<utt, ids, keys, ignoring, gate, since>>
    /\ UNCHANGED speechVars /\ UNCHANGED runtimeVars /\ UNCHANGED fixed

-----------------------------------------------------------------------------
(* What is done with an utterance.                                         *)

Discard(next) ==
    /\ pc' = next
    /\ UNCHANGED <<rt, keys, hikari, stamp, ignoring, gate, asked, since, barge>>

\* What the runtime granted.
Granted(action, was) ==
    CASE action = "silent_goodbye" -> "sleep"
      [] action \in {"acknowledge", "process_command"} /\ Wakeful(was) -> "wake"
      [] OTHER -> asked

\* What the runtime decides, and the part of it that every caller records.
Decision(kind) == ProcessUtterance(rt[mine], kind, keys)

Decide(kind) ==
    /\ rt' = [rt EXCEPT ![mine] = Decision(kind).state]
    /\ keys' = Decision(kind).keys
    /\ asked' = Granted(Decision(kind).action, rt[mine])

Counted(res) == IF res.action = "process_command" /\ since < 3 THEN since + 1 ELSE since

\* _listen_for_wake_word: anything but "ignore" counts as an activation.
WakeOutcome(res) ==
    IF res.action = "ignore"
    THEN pc' = "top" /\ hikari' = Synced(res.state) /\ UNCHANGED <<stamp, since, barge>>
    ELSE /\ hikari' = "ACTIVE" /\ stamp' = TRUE
         /\ since' = Counted(res)
         /\ barge' = (res.action = "process_command")
         /\ pc' = IF res.action = "process_command" THEN "process" ELSE "speak"

HeardWake ==
    /\ pc = "heard wake"
    /\ IF utt.kind \in WakeKinds /\ utt.owner
       THEN Decide(utt.kind) /\ WakeOutcome(Decision(utt.kind)) /\ UNCHANGED <<ignoring, gate>>
       ELSE Discard("top")
    /\ UNCHANGED <<utt, ids, player, voice, left>>
    /\ UNCHANGED runtimeVars /\ UNCHANGED fixed

\* The active command of either capture, after process_utterance.
ActiveOutcome(res) ==
    /\ pc' = IF res.action = "process_command" THEN "process" ELSE "top"
    /\ hikari' = IF res.action = "silent_goodbye" THEN "LISTENING" ELSE Synced(res.state)
    /\ stamp' = (res.action # "silent_goodbye")
    /\ ignoring' = (res.action = "silent_goodbye" \/ ignoring)
    /\ since' = Counted(res)
    /\ barge' = TRUE

HeardActive ==
    /\ pc = "heard active"
    /\ IF ~utt.owner THEN Discard("top")
       ELSE IF utt.kind = "wrong"
            THEN /\ pc' = "speak" /\ barge' = TRUE
                 /\ UNCHANGED <<rt, keys, hikari, stamp, ignoring, gate, asked, since>>
            ELSE Decide(utt.kind) /\ ActiveOutcome(Decision(utt.kind)) /\ UNCHANGED gate
    /\ UNCHANGED <<utt, ids, player, voice, left>>
    /\ UNCHANGED runtimeVars /\ UNCHANGED fixed

\* The utterance of a frame capture is finalized.  The local wake detector judges it
\* if the runtime is asleep now; any other is transcribed, and only then the runtime
\* is asked again whether it is asleep.
HeardFrame ==
    /\ pc = "heard frame"
    /\ ~(Wakeful(rt[mine]) /\ mode = "local")
    /\ pc' = "transcribed"
    /\ UNCHANGED <<utt, rt, ids, keys, hikari, stamp, ignoring, gate, asked, since>>
    /\ UNCHANGED speechVars /\ UNCHANGED runtimeVars /\ UNCHANGED fixed

\* A wake phrase of a frame capture; "acknowledge" is answered only if the local wake
\* gate admitted it.
FrameWakeOutcome(res, gated) ==
    /\ pc' = CASE res.action = "process_command" -> "process"
               [] res.action = "acknowledge" /\ gated -> "speak"
               [] OTHER -> "top"
    /\ hikari' = Synced(res.state)
    /\ stamp' = (~gated \/ res.action = "acknowledge" \/ stamp)
    /\ barge' = (res.action = "process_command")

\* Asleep after the transcription: in local mode too, if a signal came meanwhile, and
\* then without the gate.
HeardFrameAsleep ==
    /\ pc = "transcribed" /\ Wakeful(rt[mine])
    /\ IF utt.kind \in WakeKinds /\ utt.owner
       THEN /\ Decide(utt.kind) /\ FrameWakeOutcome(Decision(utt.kind), FALSE)
            /\ since' = Counted(Decision(utt.kind))
            /\ UNCHANGED <<ignoring, gate>>
       ELSE Discard("frame")
    /\ UNCHANGED <<utt, ids, player, voice, left>>
    /\ UNCHANGED runtimeVars /\ UNCHANGED fixed

\* admit_local_wake, WakeSafetyGate.evaluate: the owner, while nothing plays; the
\* gate may refuse for its own reasons (evidence, replay, capacity, cooldown).
Admissible == utt.kind \in WakeKinds /\ utt.owner /\ player \notin {"playing", "stopping"}

LocalWakeRefused ==
    /\ pc = "heard frame" /\ Wakeful(rt[mine]) /\ mode = "local"
    /\ pc' = "frame"
    /\ gate' \in IF gate = "none" THEN {"none", "asleep"} ELSE {gate}  \* loaded if need be
    /\ UNCHANGED <<utt, ids, rt, keys, hikari, stamp, ignoring, asked, since>>
    /\ UNCHANGED speechVars /\ UNCHANGED runtimeVars /\ UNCHANGED fixed

\* The command after the wake phrase may be transcribed or not, and the one
\* authorization may have run out by then.
LocalWakeAdmitted ==
    /\ pc = "heard frame" /\ Wakeful(rt[mine]) /\ mode = "local" /\ Admissible
    /\ \/ /\ Decide("wake") /\ FrameWakeOutcome(Decision("wake"), TRUE)
          /\ gate' = "open" /\ since' = 0
       \/ /\ utt.kind # "wake"
          /\ Decide(utt.kind) /\ FrameWakeOutcome(Decision(utt.kind), TRUE)
          /\ gate' = "spent"
          /\ since' = IF utt.kind = "wakecmd" /\ keys < MaxKeys THEN 1 ELSE 0
       \/ /\ utt.kind # "wake"
          /\ pc' = "frame" /\ gate' = "asleep" /\ since' = 0
          /\ UNCHANGED <<rt, keys, hikari, stamp, asked, barge>>
    /\ UNCHANGED <<utt, ids, player, voice, left, ignoring>>
    /\ UNCHANGED runtimeVars /\ UNCHANGED fixed

\* confirm_command: the outcomes as the gate's new state.  Expiry clears it.
Confirmed(g) == g = "open"
\* Mutant: the authorization is not consumed.
MutSpent(g) == g
Spent(g) == IF g = "open" THEN "spent" ELSE g

\* Awake after the transcription: the speaker is verified.
OwnerHeard ==
    /\ pc = "transcribed" /\ ~Wakeful(rt[mine])
    /\ pc' = IF ~utt.owner THEN "frame" ELSE IF mode = "local" THEN "authorize" ELSE "decide"
    /\ UNCHANGED <<utt, rt, ids, keys, hikari, stamp, ignoring, gate, asked, since>>
    /\ UNCHANGED speechVars /\ UNCHANGED runtimeVars /\ UNCHANGED fixed

\* In local mode a command needs the authorization of the last admitted wake; without
\* it the session is put to sleep.
AuthorizeCommand ==
    /\ pc = "authorize"
    /\ \/ /\ Confirmed(gate)
          /\ gate' = Spent(gate) /\ pc' = "decide"
          /\ UNCHANGED <<rt, hikari, asked>>
       \/ /\ PutToSleep(mine)
          /\ hikari' = Synced(rt'[mine])
          /\ gate' = IF gate = "open" THEN "asleep" ELSE gate
          /\ pc' = "top"
    /\ UNCHANGED <<utt, ids, keys, stamp, ignoring, since>>
    /\ UNCHANGED speechVars /\ UNCHANGED runtimeVars /\ UNCHANGED fixed

\* What is decided depends on the runtime as it is by then.
HeardFrameAwake ==
    /\ pc = "decide"
    /\ Decide(utt.kind) /\ ActiveOutcome(Decision(utt.kind))
    /\ UNCHANGED <<utt, ids, gate, player, voice, left>>
    /\ UNCHANGED runtimeVars /\ UNCHANGED fixed

\* process() returns: an answer to speak, or nothing.
Processed ==
    /\ pc = "process"
    /\ pc' \in {"speak", "top"}
    /\ UNCHANGED <<utt, rt, ids, keys, hikari, stamp, ignoring, gate, asked, since>>
    /\ UNCHANGED speechVars /\ UNCHANGED runtimeVars /\ UNCHANGED fixed

-----------------------------------------------------------------------------
(* speak.                                                                  *)

\* Only a runtime that may go to SPEAKING lets it go on; one made after a shutdown
\* is asleep and does not.
StartSpeaking ==
    /\ pc = "speak"
    /\ mine' = Held /\ Acquire(Speaking(HeldState))
    /\ IF Speaking(HeldState) = "speaking"
       THEN /\ pc' = "render" /\ hikari' = "SPEAKING"
            /\ player' = IF player = "none" THEN "idle" ELSE player
       ELSE pc' = "top" /\ hikari' = "ACTIVE" /\ UNCHANGED player
    /\ UNCHANGED <<utt, voice, left, barge, stamp, ignoring, gate, asked, since>>
    /\ UNCHANGED fixed

\* The speech process is started and handed to the controller, which refuses while
\* it still holds another.
StartPlayback ==
    /\ pc = "render"
    /\ IF player \in {"idle", "stopped"}
       THEN /\ player' = "playing" /\ voice' = "alive" /\ pc' = "playing"
            /\ UNCHANGED <<rt, hikari, left, stamp, ignoring, asked>>
       ELSE SpeakFails(TRUE)
    /\ UNCHANGED <<utt, ids, keys, barge, gate, since>>
    /\ UNCHANGED runtimeVars /\ UNCHANGED fixed

PlaybackNotStarted ==
    /\ pc = "render"
    /\ SpeakFails(FALSE)
    /\ UNCHANGED <<utt, ids, keys, barge, gate, since>>
    /\ UNCHANGED runtimeVars /\ UNCHANGED fixed

SpeechEnds ==
    /\ \/ voice = "alive" /\ voice' = "ended" /\ UNCHANGED left
       \/ (\E why \in left : left' = left \ {why}) /\ UNCHANGED voice
    /\ UNCHANGED <<pc, utt, rt, ids, keys, hikari, player, barge, stamp, ignoring, gate,
                   asked, since>>
    /\ UNCHANGED runtimeVars /\ UNCHANGED fixed

\* The owner says a phrase that interrupts, while the answer is spoken.
HearOver(u) ==
    /\ pc = "playing" /\ running /\ barge /\ voice = "alive"
    /\ u.owner /\ u.kind \in BargeKinds
    /\ mode # "utterance" => capture = "open"
    /\ utt' = u
    /\ pc' = "barge"
    /\ UNCHANGED <<rt, ids, keys, hikari, stamp, ignoring, gate, asked, since>>
    /\ UNCHANGED speechVars /\ UNCHANGED runtimeVars /\ UNCHANGED fixed

\* request_interruption of the runtime there is.
MayInterrupt == cur # None /\ rt[cur] = "speaking" /\ ids < MaxIds

RequestInterruption ==
    /\ pc = "barge" /\ MayInterrupt
    /\ rt' = [rt EXCEPT ![cur] = "interrupting"]
    /\ ids' = ids + 1
    /\ pc' = "cancel"
    /\ UNCHANGED <<utt, keys, hikari, stamp, ignoring, gate, asked, since>>
    /\ UNCHANGED speechVars /\ UNCHANGED runtimeVars /\ UNCHANGED fixed

\* Mutant: whatever captured it, a refused interruption ends the waiting.
MutAfterRefusal == "finish"
\* The microphone listener gives up waiting for the speech; the frame listener goes on.
AfterRefusal == IF mode = "utterance" THEN "finish" ELSE "playing"

\* The evidence a frame capture shows may also be too old.
RefuseInterruption ==
    /\ pc = "barge"
    /\ mode = "utterance" => ~MayInterrupt
    /\ Acquire(HeldState)
    /\ pc' = AfterRefusal
    /\ UNCHANGED <<mine, utt, hikari, stamp, ignoring, gate, asked, since>>
    /\ UNCHANGED speechVars /\ UNCHANGED fixed

\* The speech is over without an interruption.
SpokenOut ==
    /\ pc = "playing" /\ voice = "ended"
    /\ pc' = "finish"
    /\ UNCHANGED <<utt, rt, ids, keys, hikari, stamp, ignoring, gate, asked, since>>
    /\ UNCHANGED speechVars /\ UNCHANGED runtimeVars /\ UNCHANGED fixed

\* add_assistant_segment, notify_physically_stopped.
Finish ==
    /\ pc = "finish"
    /\ IF player = "none" THEN SpeakFails(voice = "alive")
       ELSE /\ SpeakReturns
            /\ rt' = [rt EXCEPT ![mine] = IF @ = "speaking" THEN "active" ELSE @]
            /\ player' = IF voice = "alive" THEN player ELSE "stopped"
            /\ left' = IF voice = "alive" THEN left \cup {"refused"} ELSE left
            /\ voice' = "none"
            /\ UNCHANGED <<ignoring, asked>>
    /\ UNCHANGED <<utt, ids, keys, barge, gate, since>>
    /\ UNCHANGED runtimeVars /\ UNCHANGED fixed

\* speak gives the answer up, though its process survived.
SpeechSurvives ==
    /\ SpeakReturns
    /\ voice' = "none" /\ left' = left \cup {"survived"}
    /\ UNCHANGED <<rt, ignoring, asked>>

\* PlaybackController.cancel: the process is terminated and reaped, or it survives:
\* unnoticed, or because waiting for the killed process times out, which ends speak.
CancelPlayback ==
    /\ pc = "cancel"
    /\ \/ player = "none" /\ SpeakFails(voice = "alive")
       \/ /\ player # "none" /\ player' = "stopping"
          /\ voice' \in {voice, "ended"} /\ pc' = "confirm"
          /\ UNCHANGED <<rt, hikari, left, stamp, ignoring, asked>>
       \/ /\ player # "none" /\ voice = "alive"
          /\ player' = "failed" /\ SpeechSurvives
    /\ UNCHANGED <<utt, ids, keys, barge, gate, since>>
    /\ UNCHANGED runtimeVars /\ UNCHANGED fixed

\* Mutant: a goodbye is confirmed like a soft cancel.
MutInterrupted ==
    /\ pc' = "top" /\ hikari' = "ACTIVE" /\ stamp' = TRUE /\ player' = "stopped"
    /\ rt' = [rt EXCEPT ![mine] = "active"]
    /\ asked' = IF utt.kind = "cancel" THEN asked ELSE "sleep"
    /\ ignoring' = TRUE

\* confirm_interruption, then sleep after a goodbye or on to the next command.
Interrupted ==
    IF utt.kind = "cancel"
    THEN /\ rt' = [rt EXCEPT ![mine] = "active"]
         /\ player' = "stopped"
         /\ ignoring' = TRUE
         /\ SpeakReturns
         /\ UNCHANGED asked
    ELSE /\ rt' = [rt EXCEPT ![mine] = "wake"]
         /\ player' = "idle"
         /\ ignoring' = TRUE
         /\ stamp' = FALSE
         /\ hikari' = "LISTENING"
         /\ pc' = "top"
         /\ asked' = "sleep"

\* The stop is notified, which a process that is alive refuses, and confirmed to the
\* runtime that speak began with: its request stands, for the controller would be gone
\* after a shutdown.
ConfirmInterruption ==
    /\ pc = "confirm"
    /\ IF player = "none" THEN SpeakFails(voice = "alive")
       ELSE IF voice = "alive" THEN SpeechSurvives /\ UNCHANGED player
       ELSE voice' = "none" /\ Interrupted /\ UNCHANGED left
    /\ UNCHANGED <<utt, ids, keys, barge, gate, since>>
    /\ UNCHANGED runtimeVars /\ UNCHANGED fixed

-----------------------------------------------------------------------------
IgnoreEnds ==
    /\ ignoring /\ ignoring' = FALSE
    /\ UNCHANGED <<pc, utt, rt, ids, keys, hikari, stamp, gate, asked, since>>
    /\ UNCHANGED speechVars /\ UNCHANGED runtimeVars /\ UNCHANGED fixed

\* Mutant: the loop is not told to stop.
MutRequestShutdown ==
    /\ pc # "exited" /\ signals < MaxSignals
    /\ signals' = signals + 1
    /\ capture' = "none"
    /\ rt' = IF cur = None THEN rt ELSE [rt EXCEPT ![cur] = "wake"]
    /\ cur' = None /\ player' = "none" /\ gate' = "none" /\ stamp' = FALSE /\ ignoring' = FALSE
    /\ UNCHANGED <<running, mode, pc, utt, mine, ids, keys, hikari, voice, left, barge,
                   asked, since>>

\* request_shutdown, between two steps of the thread: the objects the globals name
\* are closed and forgotten, the speech process is not touched.
RequestShutdown ==
    /\ pc # "exited" /\ signals < MaxSignals
    /\ signals' = signals + 1
    /\ running' = FALSE
    /\ capture' = "none"
    /\ rt' = IF cur = None THEN rt ELSE [rt EXCEPT ![cur] = "wake"]
    /\ cur' = None
    /\ player' = "none"
    /\ gate' = "none"
    /\ stamp' = FALSE
    /\ ignoring' = FALSE
    /\ UNCHANGED <<mode, pc, utt, mine, ids, keys, hikari, voice, left, barge, asked, since>>

-----------------------------------------------------------------------------
\* listen_always has made the first runtime and opened its capture.
Init ==
    /\ mode \in Modes
    /\ pc = "top" /\ running = TRUE /\ hikari = "LISTENING"
    /\ utt = [kind |-> "talk", owner |-> FALSE]
    /\ rt = [r \in Runtimes |-> IF r = 1 THEN "wake" ELSE "idle"]
    /\ cur = 1 /\ mine = 1 /\ ids = 0 /\ keys = 0
    /\ capture = IF mode = "utterance" THEN "none" ELSE "open"
    /\ player = "none" /\ voice = "none" /\ left = {} /\ barge = TRUE
    /\ stamp = FALSE /\ ignoring = FALSE
    /\ gate = IF mode = "local" THEN "asleep" ELSE "none"
    /\ signals = 0 /\ asked = "sleep" /\ since = 1

\* The thread.
Step == \/ LoopEnds \/ LoopTurns \/ ChooseCycle \/ Enter \/ EnterFrame
        \/ (\E u \in Utterances : Hear(u)) \/ Silence \/ CaptureFails \/ IdleInCycle
        \/ HeardWake \/ HeardActive \/ HeardFrame \/ HeardFrameAsleep
        \/ OwnerHeard \/ AuthorizeCommand \/ HeardFrameAwake
        \/ LocalWakeRefused \/ LocalWakeAdmitted \/ Processed
        \/ StartSpeaking \/ StartPlayback \/ PlaybackNotStarted
        \/ RequestInterruption \/ RefuseInterruption \/ SpokenOut \/ Finish
        \/ CancelPlayback \/ ConfirmInterruption

Next == Step \/ (\E u \in Utterances : HearOver(u)) \/ SpeechEnds \/ IgnoreEnds
        \/ RequestShutdown

Spec == Init /\ [][Next]_vars

\* Every wait of the thread is bounded but the one for the speech, which ends.
Fairness == WF_vars(Step) /\ WF_vars(SpeechEnds)

FairSpec == Spec /\ Fairness
=============================================================================
