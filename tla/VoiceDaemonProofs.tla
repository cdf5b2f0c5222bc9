------------------------- MODULE VoiceDaemonProofs -------------------------
(***************************************************************************)
(* Proofs about the wake-word daemon, for every capture, every number of   *)
(* remembered interruptions and utterances and every number of signals:    *)
(* types, that a command needs a wake, that a wake pays for one command    *)
(* and only a signal lets a second one through, and that the daemon does   *)
(* not listen while it speaks.                                             *)
(*                                                                         *)
(* None but the types is inductive: a command is allowed by the state of   *)
(* the runtime the thread holds, and a signal may take that runtime and    *)
(* the player away at any step.  As long as the daemon runs there is one   *)
(* runtime, the place of the thread tells its state, and a runtime that is *)
(* awake was woken; afterwards only the cycle that is under way counts,    *)
(* and what it has already decided about the runtime.                      *)
(***************************************************************************)
EXTENDS VoiceDaemonProperties, TLAPS

Speech == {"render", "playing", "barge", "finish", "cancel", "confirm"}
Frames == {"frame", "heard frame", "transcribed", "authorize", "decide"}
Microphone == {"enter", "wake", "heard wake", "active", "heard active"}

\* Each kind of capture has its own places in the cycle; only after a signal a cycle
\* of the microphone takes the place of one of the stream.
CapturesApart ==
    /\ mode = "utterance" => capture = "none"
    /\ running /\ mode # "utterance" => capture = "open"
    /\ pc \in Frames \cup {"enter frame"} => mode # "utterance"
    /\ running /\ pc \in Microphone => mode = "utterance"
    /\ pc \in {"wake", "heard wake"} => mode # "local"
    /\ pc = "authorize" => mode = "local"

\* Where a cycle is that may still process a command.
Cycle == {"cycle", "enter", "active", "heard active"} \cup Frames

\* An authorization that is still open paid for no command yet, and is not open any
\* more where a cycle that began before a signal may still process one.  While the
\* daemon runs, what was transcribed in local mode was said to a runtime that is awake.
GateOK ==
    mode = "local" =>
        /\ since <= 2 /\ (running \/ pc \in Cycle => since <= 1)
        /\ gate = "open" => since = 0
        /\ pc \in Cycle /\ ~running => gate # "open"
        /\ pc = "decide" => since = 0 /\ gate # "open"
        /\ pc = "transcribed" /\ running => ~Wakeful(rt[mine])

\* While the daemon runs the globals are those it started with, and the runtime is
\* speaking or being interrupted where the thread says so.
OneRuntime ==
    running => /\ cur = 1 /\ mine = 1
               /\ pc \in Speech => player # "none"
               /\ pc \in Speech \ {"cancel", "confirm"} => rt[1] = "speaking"
               /\ pc \in {"cancel", "confirm"} => rt[1] = "interrupting"

\* With a frame capture a session that is awake, for the runtime or for the daemon, was
\* woken.
AwakeIsWoken ==
    mode # "utterance" =>
        /\ (running \/ pc \in Frames \cup {"wake", "heard wake"}) /\ ~Wakeful(rt[mine])
           => asked = "wake"
        /\ (running \/ pc \in {"cycle", "enter"}) /\ hikari # "LISTENING" => asked = "wake"
        /\ running /\ pc \in {"speak"} \cup Speech => asked = "wake"
        /\ pc \in {"active", "heard active"} => asked = "wake"

\* The answer is spoken while speak waits for it, or the microphone listener gave up.
VoiceIsWaitedFor ==
    /\ voice = "alive" => pc \in {"playing", "barge", "finish", "cancel", "confirm"}
    /\ running /\ ("refused" \in left \/ (pc = "finish" /\ voice = "alive"))
       => mode = "utterance" /\ ids = MaxIds

Inv == /\ TypeOK /\ CapturesApart /\ GateOK /\ OneRuntime
       /\ AwakeIsWoken /\ CommandNeedsWake /\ VoiceIsWaitedFor
-----------------------------------------------------------------------------
(* The runtime's state machine.                                            *)

\* transition_to goes to the state asked for or stays.
LEMMA ToStaysOrGoes ==
    ASSUME NEW s \in States, NEW t \in States
    PROVE  To(s, t) \in {s, t} /\ To(s, t) \in States
BY DEF To

\* Every session can be put to sleep but one that is being interrupted.
LEMMA ToSleep ==
    ASSUME NEW s \in States \ {"interrupting"}
    PROVE  To(s, "wake") = "wake"
BY DEF To, Valid, States

\* assistant_speaking_start: a session that is asleep does not come to speak.
LEMMA SpeakingStates ==
    ASSUME NEW s \in States
    PROVE  /\ Speaking(s) \in States
           /\ Speaking(s) = "speaking" \/ (Speaking(s) = s /\ Wakeful(s))
           /\ Wakeful(s) => Speaking(s) = s
BY DEF Speaking, To, Valid, States, Wakeful

\* What process_utterance may do to the state of the runtime.
LEMMA ProcessedStates ==
    ASSUME NEW s \in States, NEW kind \in Kinds, NEW k \in 0 .. MaxKeys
    PROVE  LET res == ProcessUtterance(s, kind, k)
           IN  /\ res.state \in {s, "wake", "active", "thinking"}
               /\ res.action \in {"ignore", "silent_goodbye", "acknowledge", "process_command"}
               /\ res.keys \in 0 .. MaxKeys
               /\ res.action = "silent_goodbye" => res.state = "wake"
               /\ Wakeful(s) /\ res.action = "ignore" => Wakeful(res.state)
               /\ Wakeful(s) => (kind = "wake" => res.action = "acknowledge")
               /\ ~Wakeful(s) => res.action # "acknowledge"
               /\ s \notin {"wake", "idle", "active", "thinking"} =>
                     res.state = s /\ res.action = "ignore"
BY DaemonBounds DEF ProcessUtterance, ActiveListening, Result, Remembered, Wakeful, Kinds,
                    WakeKinds, StopKinds, BargeKinds, States

-----------------------------------------------------------------------------
(* Types.                                                                  *)

LEMMA HeldRuntime ==
    ASSUME TypeOK
    PROVE  /\ 1 \in Runtimes /\ Held \in Runtimes /\ HeldState \in States
           /\ rt[1] \in States /\ rt[mine] \in States
<1>1. signals \in Nat /\ MaxSignals \in Nat /\ signals <= MaxSignals
  BY DaemonBounds DEF TypeOK, ThreadOK
<1>2. 1 \in Runtimes /\ Held \in Runtimes
  BY <1>1 DEF TypeOK, RuntimesOK, Held, Runtimes, None
<1> QED
  BY <1>1, <1>2 DEF TypeOK, RuntimesOK, HeldState, States, None

LEMMA AcquireTypes ==
    ASSUME TypeOK, NEW s \in States, Acquire(s)
    PROVE  /\ rt' \in [Runtimes -> States] /\ cur' \in Runtimes
           /\ ids' \in 0 .. MaxIds /\ keys' \in 0 .. MaxKeys /\ capture' \in {"none", "open"}
BY HeldRuntime, DaemonBounds DEF TypeOK, RuntimesOK, DevicesOK, Acquire

LEMMA DecideTypes ==
    ASSUME TypeOK, NEW kind \in Kinds,
           rt' = [rt EXCEPT ![mine] = ProcessUtterance(rt[mine], kind, keys).state],
           keys' = ProcessUtterance(rt[mine], kind, keys).keys
    PROVE  rt' \in [Runtimes -> States] /\ keys' \in 0 .. MaxKeys
<1>1. rt[mine] \in States /\ keys \in 0 .. MaxKeys
  BY HeldRuntime DEF TypeOK, RuntimesOK
<1>2. /\ ProcessUtterance(rt[mine], kind, keys).state \in States
      /\ ProcessUtterance(rt[mine], kind, keys).keys \in 0 .. MaxKeys
  BY <1>1, ProcessedStates DEF States
<1> QED
  BY <1>2 DEF TypeOK, RuntimesOK

LEMMA GrantedTypes ==
    ASSUME TypeOK, NEW action, NEW was, NEW res
    PROVE  /\ Granted(action, was) \in {"wake", "sleep"}
           /\ Counted(res) \in 0 .. 3
           /\ Synced(was) \in {"LISTENING", "ACTIVE", "SPEAKING"}
BY DEF TypeOK, ThreadOK, Granted, Counted, Synced

LEMMA TypesStay == TypeOK /\ [Next]_vars => TypeOK'
<1> SUFFICES ASSUME TypeOK, [Next]_vars PROVE TypeOK'
  OBVIOUS
<1> USE DaemonBounds DEF TypeOK, fixed, speechVars, runtimeVars
<1>1. CASE LoopEnds
  <2>1. ThreadOK'
    BY <1>1
       DEF LoopEnds, ThreadOK, Places, Listening
  <2>2. RuntimesOK'
    BY <1>1
       DEF LoopEnds, RuntimesOK, States, None, Runtimes
  <2>3. DevicesOK'
    BY <1>1
       DEF LoopEnds, DevicesOK
  <2>4. FlagsOK'
    BY <1>1
       DEF LoopEnds, FlagsOK
  <2> QED
    BY <2>1, <2>2, <2>3, <2>4
<1>2. CASE LoopTurns
  <2>1. ThreadOK'
    BY <1>2
       DEF LoopTurns, MayIdle, Stamped, FallAsleep, PutToSleep, Runtimes, ThreadOK, Places,
           Listening
  <2>2. RuntimesOK'
    <3>1. To(rt[1], "wake") \in States
      BY HeldRuntime, ToStaysOrGoes DEF States
    <3> QED
      BY <1>2, <3>1 DEF LoopTurns, FallAsleep, PutToSleep, RuntimesOK
  <2>3. DevicesOK'
    BY <1>2
       DEF LoopTurns, MayIdle, Stamped, FallAsleep, PutToSleep, Runtimes, DevicesOK
  <2>4. FlagsOK'
    BY <1>2
       DEF LoopTurns, MayIdle, Stamped, FallAsleep, PutToSleep, Runtimes, FlagsOK
  <2> QED
    BY <2>1, <2>2, <2>3, <2>4
<1>3. CASE ChooseCycle
  <2>1. ThreadOK'
    BY <1>3
       DEF ChooseCycle, ThreadOK, Places, Listening
  <2>2. RuntimesOK'
    BY <1>3
       DEF ChooseCycle, RuntimesOK, States, None, Runtimes
  <2>3. DevicesOK'
    BY <1>3
       DEF ChooseCycle, DevicesOK
  <2>4. FlagsOK'
    BY <1>3
       DEF ChooseCycle, FlagsOK
  <2> QED
    BY <2>1, <2>2, <2>3, <2>4
<1>4. CASE Enter
  <2>1. ThreadOK'
    BY <1>4
       DEF Enter, Acquire, Held, HeldState, Runtimes, ThreadOK, Places, Listening
  <2>2. RuntimesOK'
    <3>1. \E s \in States : Acquire(s)
      BY <1>4, HeldRuntime, SpeakingStates DEF Enter, States
    <3> QED
      BY <1>4, <3>1, HeldRuntime, AcquireTypes DEF Enter, RuntimesOK
  <2>3. DevicesOK'
    BY <1>4
       DEF Enter, Acquire, Held, HeldState, Runtimes, DevicesOK
  <2>4. FlagsOK'
    BY <1>4
       DEF Enter, Acquire, Held, HeldState, Runtimes, FlagsOK
  <2> QED
    BY <2>1, <2>2, <2>3, <2>4
<1>5. CASE EnterFrame
  <2>1. ThreadOK'
    BY <1>5
       DEF EnterFrame, Acquire, Held, HeldState, Runtimes, ThreadOK, Places, Listening
  <2>2. RuntimesOK'
    <3>1. \E s \in States : Acquire(s)
      BY <1>5, HeldRuntime, SpeakingStates DEF EnterFrame, States
    <3> QED
      BY <1>5, <3>1, HeldRuntime, AcquireTypes DEF EnterFrame, RuntimesOK
  <2>3. DevicesOK'
    BY <1>5
       DEF EnterFrame, Acquire, Held, HeldState, Runtimes, DevicesOK
  <2>4. FlagsOK'
    BY <1>5
       DEF EnterFrame, Acquire, Held, HeldState, Runtimes, FlagsOK
  <2> QED
    BY <2>1, <2>2, <2>3, <2>4
<1>6. ASSUME NEW u \in Utterances, Hear(u) PROVE TypeOK'
  <2>1. ThreadOK'
    BY <1>6
       DEF Hear, Listening, ThreadOK, Places
  <2>2. RuntimesOK'
    BY <1>6
       DEF Hear, Listening, RuntimesOK, States, None, Runtimes
  <2>3. DevicesOK'
    BY <1>6
       DEF Hear, Listening, DevicesOK
  <2>4. FlagsOK'
    BY <1>6
       DEF Hear, Listening, FlagsOK
  <2> QED
    BY <2>1, <2>2, <2>3, <2>4
<1>7. CASE Silence
  <2>1. ThreadOK'
    BY <1>7
       DEF Silence, Listening, ThreadOK, Places
  <2>2. RuntimesOK'
    BY <1>7
       DEF Silence, Listening, RuntimesOK, States, None, Runtimes
  <2>3. DevicesOK'
    BY <1>7
       DEF Silence, Listening, DevicesOK
  <2>4. FlagsOK'
    BY <1>7
       DEF Silence, Listening, FlagsOK
  <2> QED
    BY <2>1, <2>2, <2>3, <2>4
<1>8. CASE CaptureFails
  <2>1. ThreadOK'
    BY <1>8
       DEF CaptureFails, ThreadOK, Places, Listening
  <2>2. RuntimesOK'
    BY <1>8
       DEF CaptureFails, RuntimesOK, States, None, Runtimes
  <2>3. DevicesOK'
    BY <1>8
       DEF CaptureFails, DevicesOK
  <2>4. FlagsOK'
    BY <1>8
       DEF CaptureFails, FlagsOK
  <2> QED
    BY <2>1, <2>2, <2>3, <2>4
<1>9. CASE IdleInCycle
  <2>1. ThreadOK'
    BY <1>9
       DEF IdleInCycle, MayIdle, FallAsleep, PutToSleep, ThreadOK, Places, Listening
  <2>2. RuntimesOK'
    BY <1>9, ToStaysOrGoes
       DEF IdleInCycle, MayIdle, FallAsleep, PutToSleep, RuntimesOK, States, None, Runtimes
  <2>3. DevicesOK'
    BY <1>9
       DEF IdleInCycle, MayIdle, FallAsleep, PutToSleep, DevicesOK
  <2>4. FlagsOK'
    BY <1>9
       DEF IdleInCycle, MayIdle, FallAsleep, PutToSleep, FlagsOK
  <2> QED
    BY <2>1, <2>2, <2>3, <2>4
<1>10. CASE HeardWake
  <2>1. ThreadOK'
    BY <1>10, GrantedTypes
       DEF HeardWake, Decide, Decision, WakeOutcome, Discard, ThreadOK, Places, Listening
  <2>2. RuntimesOK'
    BY <1>10, DecideTypes
       DEF HeardWake, Decide, Decision, WakeOutcome, Discard, RuntimesOK, States, ThreadOK,
           Utterances, Kinds, WakeKinds
  <2>3. DevicesOK'
    BY <1>10, GrantedTypes
       DEF HeardWake, Decide, Decision, WakeOutcome, Discard, DevicesOK
  <2>4. FlagsOK'
    BY <1>10
       DEF HeardWake, Decide, Decision, WakeOutcome, Discard, Granted, Counted, Synced, FlagsOK
  <2> QED
    BY <2>1, <2>2, <2>3, <2>4
<1>11. CASE HeardActive
  <2>1. ThreadOK'
    BY <1>11, GrantedTypes
       DEF HeardActive, Decide, Decision, ActiveOutcome, Discard, ThreadOK, Places, Listening
  <2>2. RuntimesOK'
    BY <1>11, DecideTypes
       DEF HeardActive, Decide, Decision, ActiveOutcome, Discard, RuntimesOK, States, ThreadOK,
           Utterances, Kinds, WakeKinds
  <2>3. DevicesOK'
    BY <1>11, GrantedTypes
       DEF HeardActive, Decide, Decision, ActiveOutcome, Discard, DevicesOK
  <2>4. FlagsOK'
    BY <1>11
       DEF HeardActive, Decide, Decision, ActiveOutcome, Discard, Granted, Counted, Synced,
           FlagsOK
  <2> QED
    BY <2>1, <2>2, <2>3, <2>4
<1>12. CASE HeardFrame
  <2>1. ThreadOK'
    BY <1>12
       DEF HeardFrame, ThreadOK, Places, Listening
  <2>2. RuntimesOK'
    BY <1>12
       DEF HeardFrame, RuntimesOK, States, None, Runtimes
  <2>3. DevicesOK'
    BY <1>12
       DEF HeardFrame, DevicesOK
  <2>4. FlagsOK'
    BY <1>12
       DEF HeardFrame, FlagsOK
  <2> QED
    BY <2>1, <2>2, <2>3, <2>4
<1>13. CASE HeardFrameAsleep
  <2>1. ThreadOK'
    BY <1>13, GrantedTypes
       DEF HeardFrameAsleep, Decide, Decision, FrameWakeOutcome, Discard, ThreadOK, Places,
           Listening
  <2>2. RuntimesOK'
    BY <1>13, DecideTypes
       DEF HeardFrameAsleep, Decide, Decision, FrameWakeOutcome, Discard, RuntimesOK, States,
           ThreadOK, Utterances, Kinds, WakeKinds
  <2>3. DevicesOK'
    BY <1>13, GrantedTypes
       DEF HeardFrameAsleep, Decide, Decision, FrameWakeOutcome, Discard, DevicesOK
  <2>4. FlagsOK'
    BY <1>13
       DEF HeardFrameAsleep, Decide, Decision, FrameWakeOutcome, Discard, Granted, Counted,
           Synced, FlagsOK
  <2> QED
    BY <2>1, <2>2, <2>3, <2>4
<1>14. CASE OwnerHeard
  <2>1. ThreadOK'
    BY <1>14
       DEF OwnerHeard, ThreadOK, Places, Listening
  <2>2. RuntimesOK'
    BY <1>14
       DEF OwnerHeard, RuntimesOK, States, None, Runtimes
  <2>3. DevicesOK'
    BY <1>14
       DEF OwnerHeard, DevicesOK
  <2>4. FlagsOK'
    BY <1>14
       DEF OwnerHeard, FlagsOK
  <2> QED
    BY <2>1, <2>2, <2>3, <2>4
<1>15. CASE AuthorizeCommand
  <2>1. ThreadOK'
    BY <1>15
       DEF AuthorizeCommand, PutToSleep, Confirmed, Spent, ThreadOK, Places, Listening
  <2>2. RuntimesOK'
    <3>1. To(rt[mine], "wake") \in States
      BY HeldRuntime, ToStaysOrGoes DEF States
    <3> QED
      BY <1>15, <3>1 DEF AuthorizeCommand, PutToSleep, RuntimesOK
  <2>3. DevicesOK'
    BY <1>15
       DEF AuthorizeCommand, PutToSleep, Synced, DevicesOK
  <2>4. FlagsOK'
    BY <1>15
       DEF AuthorizeCommand, FlagsOK
  <2> QED
    BY <2>1, <2>2, <2>3, <2>4
<1>16. CASE HeardFrameAwake
  <2>1. ThreadOK'
    BY <1>16, GrantedTypes
       DEF HeardFrameAwake, Decide, Decision, ActiveOutcome, ThreadOK, Places, Listening
  <2>2. RuntimesOK'
    <3>1. utt.kind \in Kinds
      BY DEF ThreadOK, Utterances
    <3> QED
      BY <1>16, <3>1, DecideTypes DEF HeardFrameAwake, Decide, Decision, ActiveOutcome, RuntimesOK
  <2>3. DevicesOK'
    BY <1>16, GrantedTypes
       DEF HeardFrameAwake, Decide, Decision, ActiveOutcome, DevicesOK
  <2>4. FlagsOK'
    BY <1>16
       DEF HeardFrameAwake, Decide, Decision, ActiveOutcome, FlagsOK
  <2> QED
    BY <2>1, <2>2, <2>3, <2>4
<1>17. CASE LocalWakeRefused
  <2>1. ThreadOK'
    BY <1>17
       DEF LocalWakeRefused, ThreadOK, Places, Listening
  <2>2. RuntimesOK'
    BY <1>17
       DEF LocalWakeRefused, RuntimesOK, States, None, Runtimes
  <2>3. DevicesOK'
    BY <1>17
       DEF LocalWakeRefused, DevicesOK
  <2>4. FlagsOK'
    BY <1>17
       DEF LocalWakeRefused, FlagsOK
  <2> QED
    BY <2>1, <2>2, <2>3, <2>4
<1>18. CASE LocalWakeAdmitted
  <2>1. ThreadOK'
    <3>1. /\ pc' \in {"process", "speak", "top", "frame"}
          /\ gate' \in {"open", "spent", "asleep"} /\ since' \in {0, 1}
      BY <1>18 DEF LocalWakeAdmitted, Decide, Decision, FrameWakeOutcome
    <3>2. asked' = asked \/ \E kind \in Kinds :
                  asked' = Granted(ProcessUtterance(rt[mine], kind, keys).action, rt[mine])
      BY <1>18 DEF LocalWakeAdmitted, Decide, Decision, FrameWakeOutcome, Kinds, WakeKinds,
                   ThreadOK,
                   Utterances
    <3>3. asked' \in {"wake", "sleep"}
      BY <3>2, GrantedTypes DEF ThreadOK
    <3>4. UNCHANGED <<mode, utt, signals>>
      BY <1>18 DEF LocalWakeAdmitted, Decide, Decision
    <3>5. since' \in 0 .. 3
      BY <3>1
    <3>6. pc' \in Places
      BY <3>1 DEF Places, Listening
    <3> QED
      BY <3>1, <3>3, <3>4, <3>5, <3>6 DEF ThreadOK
  <2>2. RuntimesOK'
    BY <1>18, DecideTypes
       DEF LocalWakeAdmitted, Decide, Decision, FrameWakeOutcome, RuntimesOK, States, ThreadOK,
           Utterances, Kinds, WakeKinds
  <2>3. DevicesOK'
    BY <1>18, GrantedTypes
       DEF LocalWakeAdmitted, Decide, Decision, FrameWakeOutcome, DevicesOK
  <2>4. FlagsOK'
    BY <1>18
       DEF LocalWakeAdmitted, Decide, Decision, FrameWakeOutcome, Granted, Synced, FlagsOK
  <2> QED
    BY <2>1, <2>2, <2>3, <2>4
<1>19. CASE Processed
  <2>1. ThreadOK'
    BY <1>19
       DEF Processed, ThreadOK, Places, Listening
  <2>2. RuntimesOK'
    BY <1>19
       DEF Processed, RuntimesOK, States, None, Runtimes
  <2>3. DevicesOK'
    BY <1>19
       DEF Processed, DevicesOK
  <2>4. FlagsOK'
    BY <1>19
       DEF Processed, FlagsOK
  <2> QED
    BY <2>1, <2>2, <2>3, <2>4
<1>20. CASE StartSpeaking
  <2>1. ThreadOK'
    BY <1>20
       DEF StartSpeaking, Acquire, Held, HeldState, Runtimes, ThreadOK, Places,
           Listening
  <2>2. RuntimesOK'
    <3>1. \E s \in States : Acquire(s)
      BY <1>20, HeldRuntime, SpeakingStates DEF StartSpeaking, States
    <3> QED
      BY <1>20, <3>1, HeldRuntime, AcquireTypes DEF StartSpeaking, RuntimesOK
  <2>3. DevicesOK'
    BY <1>20
       DEF StartSpeaking, Acquire, Held, HeldState, Runtimes, DevicesOK
  <2>4. FlagsOK'
    BY <1>20
       DEF StartSpeaking, Acquire, Held, HeldState, Runtimes, FlagsOK
  <2> QED
    BY <2>1, <2>2, <2>3, <2>4
<1>21. CASE StartPlayback
  <2>1. ThreadOK'
    BY <1>21
       DEF StartPlayback, SpeakFails, SpeakReturns, ThreadOK, Places, Listening
  <2>2. RuntimesOK'
    BY <1>21, ToStaysOrGoes
       DEF StartPlayback, SpeakFails, SpeakReturns, RuntimesOK, States, None, Runtimes
  <2>3. DevicesOK'
    BY <1>21
       DEF StartPlayback, SpeakFails, SpeakReturns, DevicesOK
  <2>4. FlagsOK'
    BY <1>21
       DEF StartPlayback, SpeakFails, SpeakReturns, FlagsOK
  <2> QED
    BY <2>1, <2>2, <2>3, <2>4
<1>22. CASE PlaybackNotStarted
  <2>1. ThreadOK'
    BY <1>22
       DEF PlaybackNotStarted, SpeakFails, SpeakReturns, ThreadOK, Places, Listening
  <2>2. RuntimesOK'
    BY <1>22, ToStaysOrGoes
       DEF PlaybackNotStarted, SpeakFails, SpeakReturns, RuntimesOK, States, None,
           Runtimes
  <2>3. DevicesOK'
    BY <1>22
       DEF PlaybackNotStarted, SpeakFails, SpeakReturns, DevicesOK
  <2>4. FlagsOK'
    BY <1>22
       DEF PlaybackNotStarted, SpeakFails, SpeakReturns, FlagsOK
  <2> QED
    BY <2>1, <2>2, <2>3, <2>4
<1>23. CASE RequestInterruption
  <2>1. ThreadOK'
    BY <1>23
       DEF RequestInterruption, MayInterrupt, ThreadOK, Places, Listening
  <2>2. RuntimesOK'
    BY <1>23
       DEF RequestInterruption, MayInterrupt, RuntimesOK, States, None, Runtimes
  <2>3. DevicesOK'
    BY <1>23
       DEF RequestInterruption, MayInterrupt, DevicesOK
  <2>4. FlagsOK'
    BY <1>23
       DEF RequestInterruption, MayInterrupt, FlagsOK
  <2> QED
    BY <2>1, <2>2, <2>3, <2>4
<1>24. CASE RefuseInterruption
  <2>1. ThreadOK'
    BY <1>24
       DEF RefuseInterruption, Acquire, Held, HeldState, Runtimes, AfterRefusal,
           ThreadOK, Places, Listening, Utterances
  <2>2. RuntimesOK'
    <3>1. \E s \in States : Acquire(s)
      BY <1>24, HeldRuntime, SpeakingStates DEF RefuseInterruption, States
    <3> QED
      BY <1>24, <3>1, HeldRuntime, AcquireTypes DEF RefuseInterruption, RuntimesOK
  <2>3. DevicesOK'
    BY <1>24
       DEF RefuseInterruption, Acquire, Held, HeldState, Runtimes, AfterRefusal,
           DevicesOK
  <2>4. FlagsOK'
    BY <1>24
       DEF RefuseInterruption, Acquire, Held, HeldState, Runtimes, AfterRefusal, FlagsOK
  <2> QED
    BY <2>1, <2>2, <2>3, <2>4
<1>25. CASE SpokenOut
  <2>1. ThreadOK'
    BY <1>25
       DEF SpokenOut, ThreadOK, Places, Listening
  <2>2. RuntimesOK'
    BY <1>25
       DEF SpokenOut, RuntimesOK, States, None, Runtimes
  <2>3. DevicesOK'
    BY <1>25
       DEF SpokenOut, DevicesOK
  <2>4. FlagsOK'
    BY <1>25
       DEF SpokenOut, FlagsOK
  <2> QED
    BY <2>1, <2>2, <2>3, <2>4
<1>26. CASE Finish
  <2>1. ThreadOK'
    BY <1>26
       DEF Finish, SpeakFails, SpeakReturns, ThreadOK, Places, Listening
  <2>2. RuntimesOK'
    BY <1>26, ToStaysOrGoes
       DEF Finish, SpeakFails, SpeakReturns, RuntimesOK, States, None, Runtimes
  <2>3. DevicesOK'
    BY <1>26
       DEF Finish, SpeakFails, SpeakReturns, DevicesOK
  <2>4. FlagsOK'
    BY <1>26
       DEF Finish, SpeakFails, SpeakReturns, FlagsOK
  <2> QED
    BY <2>1, <2>2, <2>3, <2>4
<1>27. CASE CancelPlayback
  <2>1. ThreadOK'
    BY <1>27
       DEF CancelPlayback, SpeakFails, SpeechSurvives, SpeakReturns, ThreadOK, Places, Listening
  <2>2. RuntimesOK'
    BY <1>27, ToStaysOrGoes
       DEF CancelPlayback, SpeakFails, SpeechSurvives, SpeakReturns, RuntimesOK, States, None,
           Runtimes
  <2>3. DevicesOK'
    BY <1>27
       DEF CancelPlayback, SpeakFails, SpeechSurvives, SpeakReturns, DevicesOK
  <2>4. FlagsOK'
    BY <1>27
       DEF CancelPlayback, SpeakFails, SpeechSurvives, SpeakReturns, FlagsOK
  <2> QED
    BY <2>1, <2>2, <2>3, <2>4
<1>28. CASE ConfirmInterruption
  <2>1. ThreadOK'
    BY <1>28
       DEF ConfirmInterruption, SpeakFails, SpeechSurvives, SpeakReturns, Interrupted, ThreadOK,
           Places,
           Listening
  <2>2. RuntimesOK'
    BY <1>28, ToStaysOrGoes
       DEF ConfirmInterruption, SpeakFails, SpeechSurvives, SpeakReturns, Interrupted, RuntimesOK,
           States, None, Runtimes
  <2>3. DevicesOK'
    BY <1>28
       DEF ConfirmInterruption, SpeakFails, SpeechSurvives, SpeakReturns, Interrupted, DevicesOK
  <2>4. FlagsOK'
    BY <1>28
       DEF ConfirmInterruption, SpeakFails, SpeechSurvives, SpeakReturns, Interrupted, FlagsOK
  <2> QED
    BY <2>1, <2>2, <2>3, <2>4
<1>29. ASSUME NEW u \in Utterances, HearOver(u) PROVE TypeOK'
  <2>1. ThreadOK'
    BY <1>29
       DEF HearOver, BargeKinds, ThreadOK, Places, Listening
  <2>2. RuntimesOK'
    BY <1>29
       DEF HearOver, BargeKinds, RuntimesOK, States, None, Runtimes
  <2>3. DevicesOK'
    BY <1>29
       DEF HearOver, BargeKinds, DevicesOK
  <2>4. FlagsOK'
    BY <1>29
       DEF HearOver, BargeKinds, FlagsOK
  <2> QED
    BY <2>1, <2>2, <2>3, <2>4
<1>30. CASE SpeechEnds
  <2>1. ThreadOK'
    BY <1>30
       DEF SpeechEnds, ThreadOK, Places, Listening
  <2>2. RuntimesOK'
    BY <1>30
       DEF SpeechEnds, RuntimesOK, States, None, Runtimes
  <2>3. DevicesOK'
    BY <1>30
       DEF SpeechEnds, DevicesOK
  <2>4. FlagsOK'
    BY <1>30
       DEF SpeechEnds, FlagsOK
  <2> QED
    BY <2>1, <2>2, <2>3, <2>4
<1>31. CASE IgnoreEnds
  <2>1. ThreadOK'
    BY <1>31
       DEF IgnoreEnds, ThreadOK, Places, Listening
  <2>2. RuntimesOK'
    BY <1>31
       DEF IgnoreEnds, RuntimesOK, States, None, Runtimes
  <2>3. DevicesOK'
    BY <1>31
       DEF IgnoreEnds, DevicesOK
  <2>4. FlagsOK'
    BY <1>31
       DEF IgnoreEnds, FlagsOK
  <2> QED
    BY <2>1, <2>2, <2>3, <2>4
<1>32. CASE RequestShutdown
  <2>1. ThreadOK'
    <3>1. signals' \in 0 .. MaxSignals
      BY <1>32 DEF RequestShutdown, ThreadOK, DaemonBounds
    <3> QED
      BY <1>32, <3>1 DEF RequestShutdown, ThreadOK
  <2>2. RuntimesOK'
    BY <1>32
       DEF RequestShutdown, RuntimesOK, States, None, Runtimes
  <2>3. DevicesOK'
    BY <1>32
       DEF RequestShutdown, DevicesOK
  <2>4. FlagsOK'
    BY <1>32
       DEF RequestShutdown, FlagsOK
  <2> QED
    BY <2>1, <2>2, <2>3, <2>4
<1>33. CASE UNCHANGED vars
  BY <1>33 DEF vars, ThreadOK, RuntimesOK, DevicesOK, FlagsOK
<1> QED
  BY <1>1, <1>2, <1>3, <1>4, <1>5, <1>6, <1>7, <1>8, <1>9, <1>10, <1>11, <1>12, <1>13,
     <1>14, <1>15, <1>16, <1>17, <1>18, <1>19, <1>20, <1>21, <1>22, <1>23, <1>24, <1>25,
     <1>26, <1>27, <1>28, <1>29, <1>30, <1>31, <1>32, <1>33 DEF Next, Step

-----------------------------------------------------------------------------
(* The invariant.                                                          *)

\* A session that is spoken in can be made active again.
LEMMA ToActive == To("speaking", "active") = "active"
BY DEF To, Valid

LEMMA ToWakeOrStays ==
    ASSUME NEW s \in States
    PROVE  To(s, "wake") \in {s, "wake"}
BY ToStaysOrGoes DEF States

\* What a decision about an utterance leaves in the runtime the thread holds.
LEMMA AnswerStates ==
    ASSUME TypeOK, NEW kind \in Kinds
    PROVE  LET res == ProcessUtterance(rt[mine], kind, keys)
           IN  /\ res.state \in {rt[mine], "wake", "active", "thinking"}
               /\ res.action \in {"ignore", "silent_goodbye", "acknowledge", "process_command"}
               /\ res.action = "silent_goodbye" => res.state = "wake"
               /\ Wakeful(rt[mine]) /\ res.action = "ignore" => Wakeful(res.state)
               /\ Wakeful(rt[mine]) => (kind = "wake" => res.action = "acknowledge")
               /\ ~Wakeful(rt[mine]) => res.action # "acknowledge"
BY HeldRuntime, ProcessedStates DEF TypeOK, RuntimesOK

\* The same of the decision of a step.
LEMMA Decided ==
    ASSUME TypeOK, NEW kind \in Kinds,
           rt' = [rt EXCEPT ![mine] = ProcessUtterance(rt[mine], kind, keys).state],
           asked' = Granted(ProcessUtterance(rt[mine], kind, keys).action, rt[mine])
    PROVE  /\ rt'[mine] \in {rt[mine], "wake", "active", "thinking"}
           /\ Wakeful(rt[mine]) => Wakeful(rt'[mine]) \/ asked' = "wake"
           /\ ~Wakeful(rt[mine]) => Wakeful(rt'[mine]) \/ asked' = asked
<1>1. rt'[mine] = ProcessUtterance(rt[mine], kind, keys).state
  BY DEF TypeOK, RuntimesOK
<1>2. \/ asked' = "sleep" /\ rt'[mine] = "wake"
      \/ asked' = "wake" /\ Wakeful(rt[mine])
      \/ asked' = asked /\ (Wakeful(rt[mine]) => Wakeful(rt'[mine]))
  BY <1>1, AnswerStates DEF Granted
<1> QED
  BY <1>1, <1>2, AnswerStates DEF Wakeful

\* While the daemon runs, getting hold of the runtime changes nothing.
LEMMA AcquireStays ==
    ASSUME TypeOK, OneRuntime, running, Acquire(HeldState)
    PROVE  Held = 1 /\ HeldState = rt[1] /\ rt' = rt /\ UNCHANGED <<cur, ids>>
BY DEF TypeOK, RuntimesOK, OneRuntime, Acquire, Held, HeldState, None

\* A step from outside speak to outside speak may do to the session what it likes.
LEMMA QuietRuntime ==
    ASSUME OneRuntime, pc' \notin Speech, UNCHANGED <<running, cur, mine>>
    PROVE  OneRuntime'
BY DEF OneRuntime, Speech

\* Getting hold of the runtime opens no stream for the microphone, and none anew while
\* the daemon runs.
LEMMA AcquireCapture ==
    ASSUME TypeOK, OneRuntime, CapturesApart, NEW s, Acquire(s)
    PROVE  /\ mode = "utterance" => capture' = "none"
           /\ running => capture' = capture
<1>1. CASE cur = None
  <2>1. ~running
    BY <1>1 DEF OneRuntime, None
  <2>2. mode = "utterance" => capture' = "none"
    BY <1>1 DEF Acquire
  <2> QED
    BY <2>1, <2>2
<1>2. CASE cur # None
  BY <1>2 DEF Acquire, CapturesApart
<1> QED
  BY <1>1, <1>2

\* After a decision about an utterance said to a session that was asleep or woken, a
\* session that is awake was woken.
LEMMA DecidedAwake ==
    ASSUME TypeOK, Wakeful(rt[mine]) \/ asked = "wake", NEW kind \in Kinds,
           rt' = [rt EXCEPT ![mine] = ProcessUtterance(rt[mine], kind, keys).state],
           asked' = Granted(ProcessUtterance(rt[mine], kind, keys).action, rt[mine])
    PROVE  LET res == ProcessUtterance(rt[mine], kind, keys)
           IN  /\ ~Wakeful(rt'[mine]) => asked' = "wake"
               /\ Synced(res.state) # "LISTENING" => asked' = "wake"
               /\ res.action \in {"acknowledge", "process_command"} => asked' = "wake"
<1>1. rt'[mine] = ProcessUtterance(rt[mine], kind, keys).state
  BY DEF TypeOK, RuntimesOK
<1>2. ~Wakeful(rt'[mine]) => asked' = "wake"
  BY Decided
<1>3. ProcessUtterance(rt[mine], kind, keys).action \in {"acknowledge", "process_command"}
      => asked' = "wake"
  BY AnswerStates DEF Granted
<1> QED
  BY <1>1, <1>2, <1>3 DEF Synced

LEMMA InvStays == Inv /\ [Next]_vars => Inv'
<1> SUFFICES ASSUME Inv, [Next]_vars PROVE Inv'
  OBVIOUS
<1> USE DEF Inv, TypeOK, fixed, speechVars, runtimeVars, Speech, Frames, Microphone, Cycle
<1>t. TypeOK'
  BY TypesStay
<1>1. CASE LoopEnds
  <2>1. CapturesApart'
    BY <1>1
       DEF LoopEnds, CapturesApart
  <2>2. GateOK'
    BY <1>1
       DEF LoopEnds, GateOK, ThreadOK
  <2>3. OneRuntime'
    BY <1>1
       DEF LoopEnds, OneRuntime, RuntimesOK
  <2>4. AwakeIsWoken'
    BY <1>1
       DEF LoopEnds, AwakeIsWoken, OneRuntime, RuntimesOK, Wakeful
  <2>5. CommandNeedsWake'
    BY <1>1
       DEF LoopEnds, CommandNeedsWake
  <2>6. VoiceIsWaitedFor'
    BY <1>1
       DEF LoopEnds, VoiceIsWaitedFor, OneRuntime, RuntimesOK, FlagsOK
  <2> QED
    BY <1>t, <2>1, <2>2, <2>3, <2>4, <2>5, <2>6
<1>2. CASE LoopTurns
  <2>1. CapturesApart'
    BY <1>2
       DEF LoopTurns, FallAsleep, PutToSleep, CapturesApart
  <2>2. GateOK'
    BY <1>2
       DEF LoopTurns, FallAsleep, PutToSleep, GateOK, ThreadOK
  <2>3. OneRuntime'
    BY <1>2, HeldRuntime, ToSleep, ToActive
       DEF LoopTurns, FallAsleep, PutToSleep, OneRuntime, RuntimesOK
  <2>4. AwakeIsWoken'
    BY <1>2, HeldRuntime, ToSleep, ToActive
       DEF LoopTurns, FallAsleep, PutToSleep, AwakeIsWoken, OneRuntime, RuntimesOK, Wakeful
  <2>5. CommandNeedsWake'
    BY <1>2
       DEF LoopTurns, FallAsleep, PutToSleep, CommandNeedsWake
  <2>6. VoiceIsWaitedFor'
    BY <1>2, HeldRuntime
       DEF LoopTurns, FallAsleep, PutToSleep, VoiceIsWaitedFor, OneRuntime, RuntimesOK,
           FlagsOK
  <2> QED
    BY <1>t, <2>1, <2>2, <2>3, <2>4, <2>5, <2>6
<1>3. CASE ChooseCycle
  <2>1. CapturesApart'
    BY <1>3
       DEF ChooseCycle, CapturesApart
  <2>2. GateOK'
    BY <1>3
       DEF ChooseCycle, GateOK, ThreadOK
  <2>3. OneRuntime'
    BY <1>3
       DEF ChooseCycle, OneRuntime, RuntimesOK
  <2>4. AwakeIsWoken'
    BY <1>3
       DEF ChooseCycle, AwakeIsWoken, OneRuntime, RuntimesOK, Wakeful
  <2>5. CommandNeedsWake'
    BY <1>3
       DEF ChooseCycle, CommandNeedsWake
  <2>6. VoiceIsWaitedFor'
    BY <1>3
       DEF ChooseCycle, VoiceIsWaitedFor, OneRuntime, RuntimesOK, FlagsOK
  <2> QED
    BY <1>t, <2>1, <2>2, <2>3, <2>4, <2>5, <2>6
<1>4. CASE Enter
  <2>1. CapturesApart'
    <3>1. \E s : Acquire(s)
      BY <1>4 DEF Enter
    <3>2. /\ mode = "utterance" => capture' = "none"
          /\ running => capture' = capture
      BY <3>1, AcquireCapture
    <3> QED
      BY <1>4, <3>2 DEF Enter, CapturesApart
  <2>2. GateOK'
    BY <1>4
       DEF Enter, GateOK, ThreadOK
  <2>3. OneRuntime'
    BY <1>4, HeldRuntime
       DEF Enter, Acquire, Held, HeldState, None, OneRuntime, RuntimesOK
  <2>4. AwakeIsWoken'
    <3>1. mode # "utterance" => ~running
      BY <1>4 DEF Enter, CapturesApart
    <3>2. pc' = "wake" => Wakeful(rt'[mine'])
      BY <1>4, HeldRuntime DEF Enter, Acquire, RuntimesOK
    <3>3. pc' = "active" /\ mode # "utterance" => asked = "wake"
      BY <1>4 DEF Enter, AwakeIsWoken
    <3> QED
      BY <1>4, <3>1, <3>2, <3>3 DEF Enter, AwakeIsWoken
  <2>5. CommandNeedsWake'
    BY <1>4
       DEF Enter, CommandNeedsWake
  <2>6. VoiceIsWaitedFor'
    BY <1>4, HeldRuntime
       DEF Enter, Acquire, Held, HeldState, None, VoiceIsWaitedFor, OneRuntime,
           RuntimesOK, FlagsOK
  <2> QED
    BY <1>t, <2>1, <2>2, <2>3, <2>4, <2>5, <2>6
<1>5. CASE EnterFrame
  <2>1. CapturesApart'
    <3>1. \E s : Acquire(s)
      BY <1>5 DEF EnterFrame
    <3>2. /\ mode = "utterance" => capture' = "none"
          /\ running => capture' = capture
      BY <3>1, AcquireCapture
    <3> QED
      BY <1>5, <3>2 DEF EnterFrame, CapturesApart
  <2>2. GateOK'
    BY <1>5
       DEF EnterFrame, GateOK, ThreadOK
  <2>3. OneRuntime'
    BY <1>5, AcquireStays DEF EnterFrame, OneRuntime
  <2>4. AwakeIsWoken'
    BY <1>5, HeldRuntime
       DEF EnterFrame, Acquire, Held, HeldState, None, AwakeIsWoken, OneRuntime,
           RuntimesOK, Wakeful
  <2>5. CommandNeedsWake'
    BY <1>5
       DEF EnterFrame, CommandNeedsWake
  <2>6. VoiceIsWaitedFor'
    BY <1>5, AcquireStays DEF EnterFrame, VoiceIsWaitedFor
  <2> QED
    BY <1>t, <2>1, <2>2, <2>3, <2>4, <2>5, <2>6
<1>6. ASSUME NEW u \in Utterances, Hear(u) PROVE Inv'
  <2>1. CapturesApart'
    BY <1>6
       DEF Hear, Listening, CapturesApart
  <2>2. GateOK'
    BY <1>6
       DEF Hear, Listening, GateOK, ThreadOK
  <2>3. OneRuntime'
    BY <1>6
       DEF Hear, Listening, OneRuntime, RuntimesOK
  <2>4. AwakeIsWoken'
    BY <1>6
       DEF Hear, Listening, AwakeIsWoken, OneRuntime, RuntimesOK, Wakeful
  <2>5. CommandNeedsWake'
    BY <1>6
       DEF Hear, Listening, CommandNeedsWake
  <2>6. VoiceIsWaitedFor'
    BY <1>6
       DEF Hear, Listening, VoiceIsWaitedFor, OneRuntime, RuntimesOK, FlagsOK
  <2> QED
    BY <1>t, <2>1, <2>2, <2>3, <2>4, <2>5, <2>6
<1>7. CASE Silence
  <2>1. CapturesApart'
    BY <1>7
       DEF Silence, Listening, CapturesApart
  <2>2. GateOK'
    BY <1>7
       DEF Silence, Listening, GateOK, ThreadOK
  <2>3. OneRuntime'
    BY <1>7
       DEF Silence, Listening, OneRuntime, RuntimesOK
  <2>4. AwakeIsWoken'
    BY <1>7
       DEF Silence, Listening, AwakeIsWoken, OneRuntime, RuntimesOK, Wakeful
  <2>5. CommandNeedsWake'
    BY <1>7
       DEF Silence, Listening, CommandNeedsWake
  <2>6. VoiceIsWaitedFor'
    BY <1>7
       DEF Silence, Listening, VoiceIsWaitedFor, OneRuntime, RuntimesOK, FlagsOK
  <2> QED
    BY <1>t, <2>1, <2>2, <2>3, <2>4, <2>5, <2>6
<1>8. CASE CaptureFails
  <2>1. CapturesApart'
    BY <1>8
       DEF CaptureFails, CapturesApart
  <2>2. GateOK'
    BY <1>8
       DEF CaptureFails, GateOK, ThreadOK
  <2>3. OneRuntime'
    BY <1>8
       DEF CaptureFails, OneRuntime, RuntimesOK
  <2>4. AwakeIsWoken'
    BY <1>8
       DEF CaptureFails, AwakeIsWoken, OneRuntime, RuntimesOK, Wakeful
  <2>5. CommandNeedsWake'
    BY <1>8
       DEF CaptureFails, CommandNeedsWake
  <2>6. VoiceIsWaitedFor'
    BY <1>8
       DEF CaptureFails, VoiceIsWaitedFor, OneRuntime, RuntimesOK, FlagsOK
  <2> QED
    BY <1>t, <2>1, <2>2, <2>3, <2>4, <2>5, <2>6
<1>9. CASE IdleInCycle
  <2>1. CapturesApart'
    BY <1>9
       DEF IdleInCycle, FallAsleep, PutToSleep, CapturesApart
  <2>2. GateOK'
    BY <1>9
       DEF IdleInCycle, FallAsleep, PutToSleep, GateOK, ThreadOK
  <2>3. OneRuntime'
    BY <1>9, ToSleep, ToActive
       DEF IdleInCycle, FallAsleep, PutToSleep, OneRuntime, RuntimesOK
  <2>4. AwakeIsWoken'
    BY <1>9, ToSleep, ToActive
       DEF IdleInCycle, FallAsleep, PutToSleep, AwakeIsWoken, OneRuntime, RuntimesOK,
           Wakeful
  <2>5. CommandNeedsWake'
    BY <1>9
       DEF IdleInCycle, FallAsleep, PutToSleep, CommandNeedsWake
  <2>6. VoiceIsWaitedFor'
    BY <1>9
       DEF IdleInCycle, FallAsleep, PutToSleep, VoiceIsWaitedFor, OneRuntime, RuntimesOK,
           FlagsOK
  <2> QED
    BY <1>t, <2>1, <2>2, <2>3, <2>4, <2>5, <2>6
<1>10. CASE HeardWake
  <2>k. utt.kind \in Kinds /\ "wake" \in Kinds
    BY DEF ThreadOK, Utterances, Kinds, WakeKinds
  <2>1. CapturesApart'
    BY <1>10
       DEF HeardWake, Decide, Decision, WakeOutcome, Discard, CapturesApart
  <2>2. GateOK'
    BY <1>10
       DEF HeardWake, Decide, Decision, WakeOutcome, Discard, Counted, GateOK, CapturesApart,
           ThreadOK
  <2>3. OneRuntime'
    BY <1>10, QuietRuntime DEF HeardWake, Decide, Decision, WakeOutcome, Discard
  <2>4. AwakeIsWoken'
    BY <1>10 DEF HeardWake, Decide, Decision, WakeOutcome, Discard, CapturesApart, AwakeIsWoken
  <2>5. CommandNeedsWake'
    <3>1. mode # "utterance" => Wakeful(rt[mine]) \/ asked = "wake"
      BY <1>10 DEF HeardWake, AwakeIsWoken
    <3>2. CASE Decide(utt.kind) /\ WakeOutcome(Decision(utt.kind))
      BY <1>10, <2>k, <3>1, <3>2, DecidedAwake
         DEF HeardWake, Decide, Decision, WakeOutcome, CommandNeedsWake
    <3> QED
      BY <1>10, <3>2 DEF HeardWake, Discard, CommandNeedsWake
  <2>6. VoiceIsWaitedFor'
    BY <1>10
       DEF HeardWake, Decide, Decision, WakeOutcome, Discard, VoiceIsWaitedFor, OneRuntime,
           RuntimesOK, FlagsOK
  <2> QED
    BY <1>t, <2>1, <2>2, <2>3, <2>4, <2>5, <2>6
<1>11. CASE HeardActive
  <2>k. utt.kind \in Kinds /\ "wake" \in Kinds
    BY DEF ThreadOK, Utterances, Kinds, WakeKinds
  <2>1. CapturesApart'
    BY <1>11
       DEF HeardActive, Decide, Decision, ActiveOutcome, Discard, CapturesApart
  <2>2. GateOK'
    <3>1. CASE mode # "local"
      BY <1>11, <3>1 DEF HeardActive, GateOK
    <3>2. CASE mode = "local"
      <4>1. since <= 1 /\ gate # "open" /\ ~running
        BY <1>11, <3>2 DEF HeardActive, GateOK, CapturesApart
      <4>2. since' <= 2
        <5>1. since' = since \/ since' = since + 1
          BY <1>11 DEF HeardActive, ActiveOutcome, Discard, Counted
        <5> QED
          BY <4>1, <5>1 DEF ThreadOK
      <4>3. pc' \in {"process", "speak", "top"} /\ gate' = gate /\ running' = running
        BY <1>11 DEF HeardActive, ActiveOutcome, Discard
      <4> QED
        BY <4>1, <4>2, <4>3 DEF GateOK
    <3> QED
      BY <3>1, <3>2
  <2>3. OneRuntime'
    BY <1>11, QuietRuntime DEF HeardActive, Decide, Decision, ActiveOutcome, Discard
  <2>4. AwakeIsWoken'
    BY <1>11 DEF HeardActive, Decide, Decision, ActiveOutcome, Discard, CapturesApart, AwakeIsWoken
  <2>5. CommandNeedsWake'
    <3>1. mode # "utterance" => asked = "wake"
      BY <1>11 DEF HeardActive, AwakeIsWoken
    <3>2. CASE Decide(utt.kind) /\ ActiveOutcome(Decision(utt.kind))
      BY <1>11, <2>k, <3>1, <3>2, DecidedAwake
         DEF HeardActive, Decide, Decision, ActiveOutcome, CommandNeedsWake
    <3> QED
      BY <1>11, <3>2 DEF HeardActive, Discard, CommandNeedsWake
  <2>6. VoiceIsWaitedFor'
    BY <1>11
       DEF HeardActive, Decide, Decision, ActiveOutcome, Discard, VoiceIsWaitedFor, OneRuntime,
           RuntimesOK, FlagsOK
  <2> QED
    BY <1>t, <2>1, <2>2, <2>3, <2>4, <2>5, <2>6
<1>12. CASE HeardFrame
  <2>1. CapturesApart'
    BY <1>12
       DEF HeardFrame, CapturesApart
  <2>2. GateOK'
    BY <1>12
       DEF HeardFrame, GateOK, ThreadOK
  <2>3. OneRuntime'
    BY <1>12
       DEF HeardFrame, OneRuntime, RuntimesOK
  <2>4. AwakeIsWoken'
    BY <1>12
       DEF HeardFrame, AwakeIsWoken, OneRuntime, RuntimesOK, Wakeful
  <2>5. CommandNeedsWake'
    BY <1>12
       DEF HeardFrame, CommandNeedsWake
  <2>6. VoiceIsWaitedFor'
    BY <1>12
       DEF HeardFrame, VoiceIsWaitedFor, OneRuntime, RuntimesOK, FlagsOK
  <2> QED
    BY <1>t, <2>1, <2>2, <2>3, <2>4, <2>5, <2>6
<1>13. CASE HeardFrameAsleep
  <2>k. utt.kind \in Kinds /\ "wake" \in Kinds
    BY DEF ThreadOK, Utterances, Kinds, WakeKinds
  <2>1. CapturesApart'
    BY <1>13
       DEF HeardFrameAsleep, Decide, Decision, FrameWakeOutcome, Discard, CapturesApart
  <2>2. GateOK'
    <3>1. CASE mode # "local"
      BY <1>13, <3>1 DEF HeardFrameAsleep, GateOK
    <3>2. CASE mode = "local"
      <4>1. since <= 1 /\ gate # "open" /\ ~running
        BY <1>13, <3>2 DEF HeardFrameAsleep, GateOK
      <4>2. CASE Discard("frame")
        BY <1>13, <4>2 DEF HeardFrameAsleep, Discard, GateOK
      <4>3. CASE FrameWakeOutcome(Decision(utt.kind), FALSE)
                 /\ since' = Counted(Decision(utt.kind)) /\ gate' = gate
        <5>1. since' <= 2
          BY <4>1, <4>3 DEF Counted, ThreadOK
        <5>2. pc' \in {"process", "top"} /\ running' = running
          BY <1>13, <4>3 DEF HeardFrameAsleep, FrameWakeOutcome
        <5> QED
          BY <4>1, <4>3, <5>1, <5>2 DEF GateOK
      <4> QED
        BY <1>13, <4>2, <4>3 DEF HeardFrameAsleep
    <3> QED
      BY <3>1, <3>2
  <2>3. OneRuntime'
    BY <1>13, QuietRuntime DEF HeardFrameAsleep, Decide, Decision, FrameWakeOutcome, Discard
  <2>4. AwakeIsWoken'
    <3>1. CASE UNCHANGED <<rt, hikari, asked>> /\ pc' = "frame"
      BY <1>13, <3>1 DEF HeardFrameAsleep, AwakeIsWoken
    <3>2. CASE Decide(utt.kind) /\ FrameWakeOutcome(Decision(utt.kind), FALSE)
      <4>1. /\ ~Wakeful(rt'[mine]) => asked' = "wake"
            /\ hikari' # "LISTENING" => asked' = "wake"
        BY <1>13, <2>k, <3>2, DecidedAwake
           DEF HeardFrameAsleep, Decide, Decision, FrameWakeOutcome
      <4>2. pc' \in {"process", "top"}
        BY <3>2 DEF FrameWakeOutcome
      <4> QED
        BY <1>13, <4>1, <4>2 DEF HeardFrameAsleep, AwakeIsWoken
    <3> QED
      BY <1>13, <3>1, <3>2 DEF HeardFrameAsleep, Discard
  <2>5. CommandNeedsWake'
    BY <1>13, AnswerStates
       DEF HeardFrameAsleep, Decide, Decision, FrameWakeOutcome, Discard, Granted,
           CommandNeedsWake, AwakeIsWoken, Wakeful
  <2>6. VoiceIsWaitedFor'
    BY <1>13
       DEF HeardFrameAsleep, Decide, Decision, FrameWakeOutcome, Discard, VoiceIsWaitedFor,
           OneRuntime, RuntimesOK, FlagsOK
  <2> QED
    BY <1>t, <2>1, <2>2, <2>3, <2>4, <2>5, <2>6
<1>14. CASE OwnerHeard
  <2>1. CapturesApart'
    BY <1>14
       DEF OwnerHeard, CapturesApart
  <2>2. GateOK'
    BY <1>14
       DEF OwnerHeard, GateOK, ThreadOK
  <2>3. OneRuntime'
    BY <1>14
       DEF OwnerHeard, OneRuntime, RuntimesOK
  <2>4. AwakeIsWoken'
    BY <1>14
       DEF OwnerHeard, AwakeIsWoken, OneRuntime, RuntimesOK, Wakeful
  <2>5. CommandNeedsWake'
    BY <1>14
       DEF OwnerHeard, CommandNeedsWake
  <2>6. VoiceIsWaitedFor'
    BY <1>14
       DEF OwnerHeard, VoiceIsWaitedFor, OneRuntime, RuntimesOK, FlagsOK
  <2> QED
    BY <1>t, <2>1, <2>2, <2>3, <2>4, <2>5, <2>6
<1>15. CASE AuthorizeCommand
  <2>1. CapturesApart'
    BY <1>15
       DEF AuthorizeCommand, PutToSleep, CapturesApart
  <2>2. GateOK'
    BY <1>15
       DEF AuthorizeCommand, PutToSleep, Confirmed, Spent, GateOK, ThreadOK
  <2>3. OneRuntime'
    BY <1>15, QuietRuntime
       DEF AuthorizeCommand, PutToSleep
  <2>4. AwakeIsWoken'
    <3>1. CASE UNCHANGED <<rt, hikari, asked>> /\ pc' = "decide"
      BY <1>15, <3>1 DEF AuthorizeCommand, AwakeIsWoken
    <3>2. CASE PutToSleep(mine) /\ hikari' = Synced(rt'[mine]) /\ pc' = "top"
      <4>1. mode # "utterance" /\ ~Wakeful(rt'[mine]) => asked' = "wake"
        BY <1>15, <3>2, HeldRuntime, ToWakeOrStays
           DEF AuthorizeCommand, PutToSleep, AwakeIsWoken, RuntimesOK, Wakeful
      <4> QED
        BY <1>15, <3>2, <4>1 DEF AuthorizeCommand, AwakeIsWoken, Synced
    <3> QED
      BY <1>15, <3>1, <3>2 DEF AuthorizeCommand
  <2>5. CommandNeedsWake'
    BY <1>15
       DEF AuthorizeCommand, CommandNeedsWake
  <2>6. VoiceIsWaitedFor'
    BY <1>15
       DEF AuthorizeCommand, VoiceIsWaitedFor
  <2> QED
    BY <1>t, <2>1, <2>2, <2>3, <2>4, <2>5, <2>6
<1>16. CASE HeardFrameAwake
  <2>k. utt.kind \in Kinds /\ "wake" \in Kinds
    BY DEF ThreadOK, Utterances, Kinds, WakeKinds
  <2>1. CapturesApart'
    BY <1>16
       DEF HeardFrameAwake, Decide, Decision, ActiveOutcome, CapturesApart
  <2>2. GateOK'
    BY <1>16
       DEF HeardFrameAwake, Decide, Decision, ActiveOutcome, Counted, GateOK, ThreadOK
  <2>3. OneRuntime'
    BY <1>16, QuietRuntime
       DEF HeardFrameAwake, Decide, Decision, ActiveOutcome
  <2>4. AwakeIsWoken'
    <3>1. mode # "utterance" => Wakeful(rt[mine]) \/ asked = "wake"
      BY <1>16 DEF HeardFrameAwake, AwakeIsWoken
    <3>2. mode # "utterance" /\ ~Wakeful(rt'[mine]) => asked' = "wake"
      BY <1>16, <2>k, <3>1, DecidedAwake DEF HeardFrameAwake, Decide, Decision
    <3>3. mode # "utterance" /\ hikari' # "LISTENING" => asked' = "wake"
      BY <1>16, <2>k, <3>1, DecidedAwake
         DEF HeardFrameAwake, Decide, Decision, ActiveOutcome
    <3> QED
      BY <1>16, <3>2, <3>3 DEF HeardFrameAwake, Decide, Decision, ActiveOutcome, AwakeIsWoken
  <2>5. CommandNeedsWake'
    <3>1. mode # "utterance" => Wakeful(rt[mine]) \/ asked = "wake"
      BY <1>16 DEF HeardFrameAwake, AwakeIsWoken
    <3> QED
      BY <1>16, <2>k, <3>1, DecidedAwake
         DEF HeardFrameAwake, Decide, Decision, ActiveOutcome, CommandNeedsWake
  <2>6. VoiceIsWaitedFor'
    BY <1>16
       DEF HeardFrameAwake, Decide, Decision, ActiveOutcome, VoiceIsWaitedFor
  <2> QED
    BY <1>t, <2>1, <2>2, <2>3, <2>4, <2>5, <2>6
<1>17. CASE LocalWakeRefused
  <2>1. CapturesApart'
    BY <1>17
       DEF LocalWakeRefused, CapturesApart
  <2>2. GateOK'
    BY <1>17
       DEF LocalWakeRefused, GateOK, ThreadOK
  <2>3. OneRuntime'
    BY <1>17
       DEF LocalWakeRefused, OneRuntime, RuntimesOK
  <2>4. AwakeIsWoken'
    BY <1>17
       DEF LocalWakeRefused, AwakeIsWoken, OneRuntime, RuntimesOK, Wakeful
  <2>5. CommandNeedsWake'
    BY <1>17
       DEF LocalWakeRefused, CommandNeedsWake
  <2>6. VoiceIsWaitedFor'
    BY <1>17
       DEF LocalWakeRefused, VoiceIsWaitedFor, OneRuntime, RuntimesOK, FlagsOK
  <2> QED
    BY <1>t, <2>1, <2>2, <2>3, <2>4, <2>5, <2>6
<1>18. CASE LocalWakeAdmitted
  <2>k. utt.kind \in Kinds /\ "wake" \in Kinds
    BY DEF ThreadOK, Utterances, Kinds, WakeKinds
  <2>1. CapturesApart'
    BY <1>18
       DEF LocalWakeAdmitted, Decide, Decision, FrameWakeOutcome, CapturesApart
  <2>2. GateOK'
    <3>1. since' \in {0, 1} /\ (gate' = "open" => since' = 0)
      BY <1>18 DEF LocalWakeAdmitted
    <3>2. pc' \in {"process", "speak", "top"} \/ (pc' = "frame" /\ gate' = "asleep")
      BY <1>18 DEF LocalWakeAdmitted, FrameWakeOutcome
    <3>3. since' <= 1 /\ since' <= 2
      BY <3>1
    <3>4. pc' \notin {"decide", "transcribed"} /\ (pc' \in Cycle => gate' # "open")
      BY <3>2
    <3> QED
      BY <3>1, <3>3, <3>4 DEF GateOK
  <2>3. OneRuntime'
    BY <1>18, QuietRuntime DEF LocalWakeAdmitted, Decide, Decision, FrameWakeOutcome, Discard
  <2>4. AwakeIsWoken'
    <3>1. CASE UNCHANGED <<rt, hikari, asked>> /\ pc' = "frame"
      BY <1>18, <3>1 DEF LocalWakeAdmitted, AwakeIsWoken
    <3>2. ASSUME NEW kind \in Kinds, Decide(kind), FrameWakeOutcome(Decision(kind), TRUE)
          PROVE  AwakeIsWoken'
      <4>1. /\ ~Wakeful(rt'[mine]) => asked' = "wake"
            /\ hikari' # "LISTENING" => asked' = "wake"
            /\ pc' = "speak" => asked' = "wake"
        BY <1>18, <3>2, DecidedAwake
           DEF LocalWakeAdmitted, Decide, Decision, FrameWakeOutcome
      <4>2. pc' \in {"process", "speak", "top"}
        BY <3>2 DEF FrameWakeOutcome
      <4>3. UNCHANGED <<mode, running, mine>>
        BY <1>18 DEF LocalWakeAdmitted
      <4> QED
        BY <4>1, <4>2, <4>3 DEF AwakeIsWoken
    <3> QED
      BY <1>18, <2>k, <3>1, <3>2 DEF LocalWakeAdmitted
  <2>5. CommandNeedsWake'
    BY <1>18, AnswerStates
       DEF LocalWakeAdmitted, Decide, Decision, FrameWakeOutcome, Granted, CommandNeedsWake,
           AwakeIsWoken, Wakeful
  <2>6. VoiceIsWaitedFor'
    BY <1>18
       DEF LocalWakeAdmitted, Decide, Decision, FrameWakeOutcome, VoiceIsWaitedFor, OneRuntime,
           RuntimesOK, FlagsOK
  <2> QED
    BY <1>t, <2>1, <2>2, <2>3, <2>4, <2>5, <2>6
<1>19. CASE Processed
  <2>1. CapturesApart'
    BY <1>19
       DEF Processed, CapturesApart
  <2>2. GateOK'
    BY <1>19
       DEF Processed, GateOK, ThreadOK
  <2>3. OneRuntime'
    BY <1>19
       DEF Processed, OneRuntime, RuntimesOK
  <2>4. AwakeIsWoken'
    BY <1>19
       DEF Processed, AwakeIsWoken, CommandNeedsWake, Wakeful
  <2>5. CommandNeedsWake'
    BY <1>19
       DEF Processed, CommandNeedsWake
  <2>6. VoiceIsWaitedFor'
    BY <1>19
       DEF Processed, VoiceIsWaitedFor, OneRuntime, RuntimesOK, FlagsOK
  <2> QED
    BY <1>t, <2>1, <2>2, <2>3, <2>4, <2>5, <2>6
<1>20. CASE StartSpeaking
  <2>1. CapturesApart'
    <3>1. \E s : Acquire(s)
      BY <1>20 DEF StartSpeaking
    <3>2. /\ mode = "utterance" => capture' = "none"
          /\ running => capture' = capture
      BY <3>1, AcquireCapture
    <3> QED
      BY <1>20, <3>2 DEF StartSpeaking, CapturesApart
  <2>2. GateOK'
    BY <1>20
       DEF StartSpeaking, GateOK, ThreadOK
  <2>3. OneRuntime'
    BY <1>20, SpeakingStates, HeldRuntime
       DEF StartSpeaking, Acquire, Held, HeldState, None, OneRuntime, RuntimesOK
  <2>4. AwakeIsWoken'
    <3>1. running /\ mode # "utterance" => asked = "wake"
      BY <1>20 DEF StartSpeaking, AwakeIsWoken
    <3>2. pc' \in {"render", "top"}
      BY <1>20 DEF StartSpeaking
    <3> QED
      BY <1>20, <3>1, <3>2 DEF StartSpeaking, AwakeIsWoken
  <2>5. CommandNeedsWake'
    BY <1>20
       DEF StartSpeaking, CommandNeedsWake
  <2>6. VoiceIsWaitedFor'
    BY <1>20, HeldRuntime
       DEF StartSpeaking, Acquire, Held, HeldState, None, VoiceIsWaitedFor, OneRuntime,
           RuntimesOK, FlagsOK
  <2> QED
    BY <1>t, <2>1, <2>2, <2>3, <2>4, <2>5, <2>6
<1>21. CASE StartPlayback
  <2>1. CapturesApart'
    BY <1>21
       DEF StartPlayback, SpeakFails, SpeakReturns, CapturesApart
  <2>2. GateOK'
    BY <1>21
       DEF StartPlayback, SpeakFails, SpeakReturns, GateOK, ThreadOK
  <2>3. OneRuntime'
    BY <1>21, ToSleep, ToActive
       DEF StartPlayback, SpeakFails, SpeakReturns, OneRuntime, RuntimesOK
  <2>4. AwakeIsWoken'
    BY <1>21, ToSleep, ToActive
       DEF StartPlayback, SpeakFails, SpeakReturns, AwakeIsWoken, OneRuntime,
           RuntimesOK, Wakeful
  <2>5. CommandNeedsWake'
    BY <1>21
       DEF StartPlayback, SpeakFails, SpeakReturns, CommandNeedsWake
  <2>6. VoiceIsWaitedFor'
    BY <1>21
       DEF StartPlayback, SpeakFails, SpeakReturns, VoiceIsWaitedFor, OneRuntime,
           RuntimesOK, FlagsOK
  <2> QED
    BY <1>t, <2>1, <2>2, <2>3, <2>4, <2>5, <2>6
<1>22. CASE PlaybackNotStarted
  <2>1. CapturesApart'
    BY <1>22
       DEF PlaybackNotStarted, SpeakFails, SpeakReturns, CapturesApart
  <2>2. GateOK'
    BY <1>22
       DEF PlaybackNotStarted, SpeakFails, SpeakReturns, GateOK, ThreadOK
  <2>3. OneRuntime'
    BY <1>22, ToSleep, ToActive
       DEF PlaybackNotStarted, SpeakFails, SpeakReturns, OneRuntime, RuntimesOK
  <2>4. AwakeIsWoken'
    BY <1>22, ToSleep, ToActive
       DEF PlaybackNotStarted, SpeakFails, SpeakReturns, AwakeIsWoken, OneRuntime,
           RuntimesOK, Wakeful
  <2>5. CommandNeedsWake'
    BY <1>22
       DEF PlaybackNotStarted, SpeakFails, SpeakReturns, CommandNeedsWake
  <2>6. VoiceIsWaitedFor'
    BY <1>22
       DEF PlaybackNotStarted, SpeakFails, SpeakReturns, VoiceIsWaitedFor, OneRuntime,
           RuntimesOK, FlagsOK
  <2> QED
    BY <1>t, <2>1, <2>2, <2>3, <2>4, <2>5, <2>6
<1>23. CASE RequestInterruption
  <2>1. CapturesApart'
    BY <1>23
       DEF RequestInterruption, CapturesApart
  <2>2. GateOK'
    BY <1>23
       DEF RequestInterruption, GateOK, ThreadOK
  <2>3. OneRuntime'
    BY <1>23
       DEF RequestInterruption, MayInterrupt, OneRuntime, RuntimesOK
  <2>4. AwakeIsWoken'
    BY <1>23
       DEF RequestInterruption, MayInterrupt, AwakeIsWoken, OneRuntime,
           RuntimesOK, Wakeful
  <2>5. CommandNeedsWake'
    BY <1>23
       DEF RequestInterruption, CommandNeedsWake
  <2>6. VoiceIsWaitedFor'
    BY <1>23
       DEF RequestInterruption, MayInterrupt, VoiceIsWaitedFor, OneRuntime,
           RuntimesOK, FlagsOK
  <2> QED
    BY <1>t, <2>1, <2>2, <2>3, <2>4, <2>5, <2>6
<1>24. CASE RefuseInterruption
  <2>1. CapturesApart'
    <3>1. \E s : Acquire(s)
      BY <1>24 DEF RefuseInterruption
    <3>2. /\ mode = "utterance" => capture' = "none"
          /\ running => capture' = capture
      BY <3>1, AcquireCapture
    <3> QED
      BY <1>24, <3>2 DEF RefuseInterruption, AfterRefusal, CapturesApart
  <2>2. GateOK'
    BY <1>24
       DEF RefuseInterruption, AfterRefusal, GateOK, ThreadOK
  <2>3. OneRuntime'
    BY <1>24, HeldRuntime
       DEF RefuseInterruption, AfterRefusal, Acquire, Held, HeldState, None, OneRuntime,
           RuntimesOK
  <2>4. AwakeIsWoken'
    BY <1>24, HeldRuntime
       DEF RefuseInterruption, AfterRefusal, Acquire, Held, HeldState, None,
           AwakeIsWoken, OneRuntime, RuntimesOK, Wakeful
  <2>5. CommandNeedsWake'
    BY <1>24
       DEF RefuseInterruption, AfterRefusal, CommandNeedsWake
  <2>6. VoiceIsWaitedFor'
    <3>1. running /\ mode = "utterance" => ids = MaxIds
      BY <1>24, DaemonBounds DEF RefuseInterruption, MayInterrupt, OneRuntime, RuntimesOK, None
    <3>2. running => ids' = ids
      BY <1>24, AcquireStays DEF RefuseInterruption
    <3> QED
      BY <1>24, <3>1, <3>2 DEF RefuseInterruption, AfterRefusal, VoiceIsWaitedFor
  <2> QED
    BY <1>t, <2>1, <2>2, <2>3, <2>4, <2>5, <2>6
<1>25. CASE SpokenOut
  <2>1. CapturesApart'
    BY <1>25
       DEF SpokenOut, CapturesApart
  <2>2. GateOK'
    BY <1>25
       DEF SpokenOut, GateOK, ThreadOK
  <2>3. OneRuntime'
    BY <1>25
       DEF SpokenOut, OneRuntime, RuntimesOK
  <2>4. AwakeIsWoken'
    BY <1>25
       DEF SpokenOut, AwakeIsWoken, OneRuntime, RuntimesOK, Wakeful
  <2>5. CommandNeedsWake'
    BY <1>25
       DEF SpokenOut, CommandNeedsWake
  <2>6. VoiceIsWaitedFor'
    BY <1>25
       DEF SpokenOut, VoiceIsWaitedFor, OneRuntime, RuntimesOK, FlagsOK
  <2> QED
    BY <1>t, <2>1, <2>2, <2>3, <2>4, <2>5, <2>6
<1>26. CASE Finish
  <2>1. CapturesApart'
    BY <1>26
       DEF Finish, SpeakFails, SpeakReturns, CapturesApart
  <2>2. GateOK'
    BY <1>26
       DEF Finish, SpeakFails, SpeakReturns, GateOK, ThreadOK
  <2>3. OneRuntime'
    BY <1>26, ToSleep, ToActive
       DEF Finish, SpeakFails, SpeakReturns, OneRuntime, RuntimesOK
  <2>4. AwakeIsWoken'
    BY <1>26, ToSleep, ToActive
       DEF Finish, SpeakFails, SpeakReturns, AwakeIsWoken, OneRuntime,
           RuntimesOK, Wakeful
  <2>5. CommandNeedsWake'
    BY <1>26
       DEF Finish, SpeakFails, SpeakReturns, CommandNeedsWake
  <2>6. VoiceIsWaitedFor'
    BY <1>26
       DEF Finish, SpeakFails, SpeakReturns, VoiceIsWaitedFor, OneRuntime,
           RuntimesOK, FlagsOK
  <2> QED
    BY <1>t, <2>1, <2>2, <2>3, <2>4, <2>5, <2>6
<1>27. CASE CancelPlayback
  <2>1. CapturesApart'
    BY <1>27
       DEF CancelPlayback, SpeakFails, SpeechSurvives, SpeakReturns, CapturesApart
  <2>2. GateOK'
    BY <1>27
       DEF CancelPlayback, SpeakFails, SpeechSurvives, SpeakReturns, GateOK, ThreadOK
  <2>3. OneRuntime'
    BY <1>27, ToSleep, ToActive
       DEF CancelPlayback, SpeakFails, SpeechSurvives, SpeakReturns, OneRuntime, RuntimesOK
  <2>4. AwakeIsWoken'
    BY <1>27, ToSleep, ToActive
       DEF CancelPlayback, SpeakFails, SpeechSurvives, SpeakReturns, AwakeIsWoken, OneRuntime,
           RuntimesOK, Wakeful
  <2>5. CommandNeedsWake'
    BY <1>27
       DEF CancelPlayback, SpeakFails, SpeechSurvives, SpeakReturns, CommandNeedsWake
  <2>6. VoiceIsWaitedFor'
    BY <1>27
       DEF CancelPlayback, SpeakFails, SpeechSurvives, SpeakReturns, VoiceIsWaitedFor, OneRuntime,
           RuntimesOK, FlagsOK
  <2> QED
    BY <1>t, <2>1, <2>2, <2>3, <2>4, <2>5, <2>6
<1>28. CASE ConfirmInterruption
  <2>1. CapturesApart'
    BY <1>28
       DEF ConfirmInterruption, SpeakFails, SpeechSurvives, SpeakReturns, Interrupted, CapturesApart
  <2>2. GateOK'
    BY <1>28
       DEF ConfirmInterruption, SpeakFails, SpeechSurvives, SpeakReturns, Interrupted, GateOK,
           ThreadOK
  <2>3. OneRuntime'
    BY <1>28, ToSleep, ToActive
       DEF ConfirmInterruption, SpeakFails, SpeechSurvives, SpeakReturns, Interrupted, OneRuntime,
           RuntimesOK
  <2>4. AwakeIsWoken'
    BY <1>28, ToSleep, ToActive
       DEF ConfirmInterruption, SpeakFails, SpeechSurvives, SpeakReturns, Interrupted, AwakeIsWoken,
           OneRuntime, RuntimesOK, Wakeful
  <2>5. CommandNeedsWake'
    BY <1>28
       DEF ConfirmInterruption, SpeakFails, SpeechSurvives, SpeakReturns, Interrupted,
           CommandNeedsWake
  <2>6. VoiceIsWaitedFor'
    BY <1>28
       DEF ConfirmInterruption, SpeakFails, SpeechSurvives, SpeakReturns, Interrupted,
           VoiceIsWaitedFor,
           OneRuntime, RuntimesOK, FlagsOK
  <2> QED
    BY <1>t, <2>1, <2>2, <2>3, <2>4, <2>5, <2>6
<1>29. ASSUME NEW u \in Utterances, HearOver(u) PROVE Inv'
  <2>1. CapturesApart'
    BY <1>29
       DEF HearOver, CapturesApart
  <2>2. GateOK'
    BY <1>29
       DEF HearOver, GateOK, ThreadOK
  <2>3. OneRuntime'
    BY <1>29
       DEF HearOver, OneRuntime, RuntimesOK
  <2>4. AwakeIsWoken'
    BY <1>29
       DEF HearOver, AwakeIsWoken, OneRuntime, RuntimesOK, Wakeful
  <2>5. CommandNeedsWake'
    BY <1>29
       DEF HearOver, CommandNeedsWake
  <2>6. VoiceIsWaitedFor'
    BY <1>29
       DEF HearOver, VoiceIsWaitedFor, OneRuntime, RuntimesOK, FlagsOK
  <2> QED
    BY <1>t, <2>1, <2>2, <2>3, <2>4, <2>5, <2>6
<1>30. CASE SpeechEnds
  <2>1. CapturesApart'
    BY <1>30
       DEF SpeechEnds, CapturesApart
  <2>2. GateOK'
    BY <1>30
       DEF SpeechEnds, GateOK, ThreadOK
  <2>3. OneRuntime'
    BY <1>30
       DEF SpeechEnds, OneRuntime, RuntimesOK
  <2>4. AwakeIsWoken'
    BY <1>30
       DEF SpeechEnds, AwakeIsWoken, OneRuntime, RuntimesOK, Wakeful
  <2>5. CommandNeedsWake'
    BY <1>30
       DEF SpeechEnds, CommandNeedsWake
  <2>6. VoiceIsWaitedFor'
    BY <1>30
       DEF SpeechEnds, VoiceIsWaitedFor, OneRuntime, RuntimesOK, FlagsOK
  <2> QED
    BY <1>t, <2>1, <2>2, <2>3, <2>4, <2>5, <2>6
<1>31. CASE IgnoreEnds
  <2>1. CapturesApart'
    BY <1>31
       DEF IgnoreEnds, CapturesApart
  <2>2. GateOK'
    BY <1>31
       DEF IgnoreEnds, GateOK, ThreadOK
  <2>3. OneRuntime'
    BY <1>31
       DEF IgnoreEnds, OneRuntime, RuntimesOK
  <2>4. AwakeIsWoken'
    BY <1>31
       DEF IgnoreEnds, AwakeIsWoken, OneRuntime, RuntimesOK, Wakeful
  <2>5. CommandNeedsWake'
    BY <1>31
       DEF IgnoreEnds, CommandNeedsWake
  <2>6. VoiceIsWaitedFor'
    BY <1>31
       DEF IgnoreEnds, VoiceIsWaitedFor, OneRuntime, RuntimesOK, FlagsOK
  <2> QED
    BY <1>t, <2>1, <2>2, <2>3, <2>4, <2>5, <2>6
<1>32. CASE RequestShutdown
  <2>1. CapturesApart'
    BY <1>32
       DEF RequestShutdown, CapturesApart
  <2>2. GateOK'
    BY <1>32
       DEF RequestShutdown, GateOK, ThreadOK
  <2>3. OneRuntime'
    BY <1>32, HeldRuntime
       DEF RequestShutdown, OneRuntime, RuntimesOK
  <2>4. AwakeIsWoken'
    BY <1>32, HeldRuntime
       DEF RequestShutdown, AwakeIsWoken, OneRuntime, RuntimesOK, Wakeful
  <2>5. CommandNeedsWake'
    BY <1>32
       DEF RequestShutdown, CommandNeedsWake
  <2>6. VoiceIsWaitedFor'
    BY <1>32, HeldRuntime
       DEF RequestShutdown, VoiceIsWaitedFor, OneRuntime, RuntimesOK, FlagsOK
  <2> QED
    BY <1>t, <2>1, <2>2, <2>3, <2>4, <2>5, <2>6
<1>33. CASE UNCHANGED vars
  BY <1>t, <1>33
     DEF vars, CapturesApart, GateOK, OneRuntime, AwakeIsWoken, CommandNeedsWake,
         VoiceIsWaitedFor
<1> QED
  BY <1>1, <1>2, <1>3, <1>4, <1>5, <1>6, <1>7, <1>8, <1>9, <1>10, <1>11, <1>12, <1>13,
     <1>14, <1>15, <1>16, <1>17, <1>18, <1>19, <1>20, <1>21, <1>22, <1>23, <1>24, <1>25,
     <1>26, <1>27, <1>28, <1>29, <1>30, <1>31, <1>32, <1>33 DEF Next, Step

LEMMA InvInit == Init => Inv
<1> SUFFICES ASSUME Init PROVE Inv
  OBVIOUS
<1>1. ThreadOK
  BY DaemonBounds DEF Init, ThreadOK, Places, Utterances, Kinds, WakeKinds, BargeKinds, StopKinds
<1>2. RuntimesOK
  BY DaemonBounds DEF Init, RuntimesOK, Runtimes, States
<1>3. DevicesOK /\ FlagsOK
  BY DEF Init, DevicesOK, FlagsOK
<1>4. CapturesApart /\ GateOK /\ OneRuntime /\ AwakeIsWoken
  BY <1>2 DEF Init, CapturesApart, GateOK, OneRuntime, AwakeIsWoken, Speech, Frames,
              Microphone, Cycle, Wakeful, Runtimes, RuntimesOK
<1>5. CommandNeedsWake /\ VoiceIsWaitedFor
  BY DEF Init, CommandNeedsWake, VoiceIsWaitedFor
<1> QED
  BY <1>1, <1>2, <1>3, <1>4, <1>5 DEF Inv, TypeOK

LEMMA InvHolds == Spec => []Inv
BY InvInit, InvStays, PTL DEF Spec

-----------------------------------------------------------------------------
(* The theorems.                                                           *)

\* The daemon's and the runtime's variables keep their types: no interruption or
\* utterance is remembered beyond the limits, no step leaves the state table.
THEOREM TypeCorrect == Spec => []TypeOK
BY InvHolds, PTL DEF Inv

\* With a frame capture no command reaches process() without a wake since the
\* session was last put to sleep, whenever signals arrive.
THEOREM CommandsAreWoken == Spec => []CommandNeedsWake
BY InvHolds, PTL DEF Inv

\* The local wake gate's authorization pays for one command (confirm_command); the
\* cycle under way at a signal may process one more without it, and no other does
\* (the two readings of is_wake_listening in _listen_frame_stream_cycle).
THEOREM OneCommandPerWakeHolds == Spec => []OneCommandPerWake
<1>1. Inv => OneCommandPerWake
  BY DEF Inv, GateOK, OneCommandPerWake, TypeOK, ThreadOK
<1> QED
  BY <1>1, InvHolds, PTL

\* A running daemon that listens is not speaking, unless the runtime's set of
\* interruptions is full and the microphone listener gave up waiting, or the speech
\* process survived what ends it (speak, PlaybackController).
THEOREM HalfDuplexHolds == Spec => []HalfDuplex
<1>1. Inv => HalfDuplex
  BY DEF Inv, VoiceIsWaitedFor, HalfDuplex, Listening
<1> QED
  BY <1>1, InvHolds, PTL

=============================================================================
