----------------------- MODULE VoiceDaemonProperties -----------------------
(***************************************************************************)
(* What the wake-word daemon promises the people around it.                *)
(***************************************************************************)
EXTENDS VoiceDaemon

States == {"idle", "wake", "active", "thinking", "speaking", "interrupting", "interrupted"}
Places == Listening \cup
    {"top", "cycle", "enter", "enter frame", "heard wake", "heard active", "heard frame",
     "transcribed", "authorize", "decide", "process", "speak", "render", "playing", "barge",
     "cancel", "confirm", "finish", "exited"}

ThreadOK ==
    /\ mode \in Modes /\ pc \in Places /\ utt \in Utterances
    /\ gate \in {"none", "asleep", "open", "spent"}
    /\ signals \in 0 .. MaxSignals
    /\ asked \in {"wake", "sleep"} /\ since \in 0 .. 3

RuntimesOK ==
    /\ rt \in [Runtimes -> States]
    /\ cur \in Runtimes \cup {None} /\ mine \in Runtimes
    /\ ids \in 0 .. MaxIds /\ keys \in 0 .. MaxKeys

DevicesOK ==
    /\ hikari \in {"LISTENING", "ACTIVE", "SPEAKING"}
    /\ capture \in {"none", "open"}
    /\ player \in {"none", "idle", "playing", "stopping", "stopped", "failed"}
    /\ voice \in {"none", "alive", "ended"}
    /\ left \subseteq {"refused", "survived"}

FlagsOK ==
    /\ running \in BOOLEAN /\ barge \in BOOLEAN
    /\ stamp \in BOOLEAN /\ ignoring \in BOOLEAN

\* The daemon's variables and the runtime's have the values their code gives them.
TypeOK == ThreadOK /\ RuntimesOK /\ DevicesOK /\ FlagsOK

\* With a frame capture no command reaches process() unless the runtime granted a
\* wake since it last put the session to sleep: by a goodbye, by a goodbye over
\* the answer, by the idle time or by the wake gate (_listen_frame_stream_cycle,
\* speak, process_utterance).
CommandNeedsWake == mode # "utterance" /\ pc = "process" => asked = "wake"

\* With the local wake detector every admitted wake pays for one command, said in
\* the same breath or after it (confirm_command).  A signal may put the runtime to
\* sleep, or close the stream, under a cycle that is under way: this one cycle may
\* process one command more, and no other follows.
OneCommandPerWake == mode = "local" => since <= IF running THEN 1 ELSE 2

\* Half duplex: the daemon does not listen for a command while it speaks, as long
\* as the runtime can remember one more interruption (with a full set the microphone
\* listener gives up waiting).  Only a speech process that survived being ended may
\* still be heard: speak gives it up.
HalfDuplex ==
    running /\ pc \in Listening =>
        /\ voice # "alive"
        /\ "refused" \in left => mode = "utterance" /\ ids = MaxIds

\* After a signal the daemon ends, wherever the thread was (request_shutdown).
SignalEnds == signals > 0 ~> pc = "exited"

\* "A verified wake-prefixed goodbye is a request to stay asleep": after a goodbye
\* the session is not listening for commands until it is woken (process_utterance;
\* the Passive Sleeping Invariant of docs/VOICE_DAEMON_INTEGRATION.md).
GoodbyeIsKept == running /\ asked = "sleep" => rt[cur] # "active"
=============================================================================
