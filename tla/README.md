# H1KARI in TLA+

H1KARI is a local personal assistant: a Python WebSocket server (`core/server.py`) that
owns a set of subsystems, each a small service over SQLite files or in-memory tables, a
desktop daemon with the voice loop, and a phone/browser front end. This directory models
the parts of it whose correctness depends on the order in which threads, requests, crashes
and time-outs meet, checks them with TLC and proves what matters most with TLAPS.

- [1. The system](#1-the-system)
- [2. Modules](#2-modules)
- [3. The models](#3-the-models)
- [4. Runs](#4-runs)
- [5. Findings and remarks](#5-findings-and-remarks)
- [6. Proofs](#6-proofs)
- [7. Not modelled](#7-not-modelled)

## 1. The system

The server runs one asyncio loop. Each connection's messages are handled one after the
other; several connections interleave at every `await`. Blocking work (every SQLite call)
is sent to threads with `asyncio.to_thread`, so two requests of two connections, and the
background tasks (job runner, expiry sweeper), really run in parallel on the same files.
The desktop daemon is a process of its own with one working thread and a signal handler.

| Component | State it keeps | Operations | Hard behaviour |
|---|---|---|---|
| **Scheduled jobs** `core/jobs` | rows, retained adapter inputs, append-only audit log: three SQLite files | schedule, list, pause, resume, cancel; runner: claim, execute, deliver, acknowledge, retry, quiet rescheduling, purge; start-up recovery | runner thread against request threads; three files without a common transaction; compensation after a failed audit; crash between any two transactions |
| **Phase 5 access** `core/phase5`, `core/policy_service.py` | sessions with a revision, helper grants | activate, transition, revoke, expire, authorize a use | snapshot and revision are read in two transactions; the revocation cascade against activations; a use reads session, grant and policy one after the other |
| **Productivity** `core/productivity` | proposals and inputs in memory, approvals in SQLite | prepare, confirm (approve, consume, execute, answer), cancel | a confirmation is six steps around three sends; standing approvals used again; lost clients; restart |
| **Pairing** `core/pairing` | challenges in memory, device sessions in SQLite, the server's maps | prepare, confirm, cancel, revoke, disconnect, sweep | two stores, then the maps: each in a step of its own |
| **Documents, task ledger** `core/tasks`, `core/document_service.py` | task records with a status, one-use grants, the action audit | prepare, confirm, retry, cancel, follow-up; the thread: read, provider calls, audit, verify, complete | threads that outlive their jobs; swaps on the status alone; recheck before egress |
| **Handoff, visual transfer, vision** | offers (SQLite), transfers and analyses (in memory), the OCR worker, the server's maps | offer, decide, begin, frame, prepare, analyse, cancel, status, sweep, disconnect | an analysis thread against its cancellation; decisions racing expiry; tables of two components kept in step |
| **Voice session** `core/voice_session` | state, active response, epoch, tasks, sentence queue, player | turn, generate, play, barge-in, finalize, shutdown | four finishers of one response, each over several awaits |
| **Daemon, voice streaming, wake gate** `services/hikari_daemon.py`, `core/voice_streaming`, `core/voice_capture/playback.py`, `core/voice_safety/wake_gate.py` | the daemon's state, the runtime's state machine, the player, the gate | listen, process, speak, be interrupted, fall asleep, shut down | three state machines told apart from one another; a signal between any two steps |
| **Agent loop, adapters** `core/phase6_*` | budgets, proposals, runs | preview, start, step, cancel | not reachable in production, see section 7 |
| **Memory** `core/brain_v2`, `core/neural_memory`, `core/time_sense` | SQLite graph and episodes | ingest, consolidate, retrieve | text heuristics, ranking |
| **Conversation sessions, grants, action policy/audit** | SQLite tables under one lock | single-transaction operations | little |
| **Routing, orchestration, agents, skills** | none to speak of | build prompts, call a model | language model |
| **Front end, native audio** | UI state, device handles | present, capture | platform code |

How they interact: the server calls every subsystem, keeps maps of its own per connection
(pairing, pending transfers, jobs) beside the subsystems' tables and brings them up to date
after each call; the sweeper expires offers, transfers, analyses, challenges and sessions
behind everybody's back; the runner executes what productivity approved; a handoff is the
ticket for a transfer, a transfer the image of an analysis.

What each has to guarantee, in a sentence: a job runs only as long as its owner wants it,
never more than its budget allows, and no fault leaves it stuck; an answered revocation
holds and a use is covered by what it was allowed on; an approval authorizes what was
approved as often as was approved; a pairing code yields at most one device and a revoked
device pairs nobody; a document is sent nowhere after its task was cancelled and nothing is
explained that is not audited; a handoff is decided once, a cancelled analysis stays
cancelled; an interrupted response neither speaks on nor ends its successor; the daemon acts
on no command it was not woken for.

The hazards of these components, at their lines, are listed in `PROJECT.json` with the
properties that cover them, or the reason none does.

## 2. Modules

| Module | What it is | Code |
|---|---|---|
| `JobContracts` | states, transition table, back-off, quiet window: pure operators | `core/jobs/contracts.py`, `quiet_hours.py`, helpers of `runner.py` |
| `ScheduledJobs` | the threads and the stores, one action per transaction | `core/jobs/*.py`, `core/server.py` |
| `JobLifecycle` | abstract specification: what a job is to its owner | (what the above promise) |
| `AccessSessions` | sessions, grants and the requests in hand | `core/phase5/*.py`, `core/policy_service.py`, `core/server.py` |
| `ProductivityApprovals` | proposals, inputs, approvals, confirmations | `core/productivity/*.py`, `core/server.py` |
| `DevicePairing` | challenges, devices, the server's maps | `core/pairing/*.py`, `core/server.py` |
| `PairingLedger` | abstract specification: what pairing is to the owner of the machine | (what the above promise) |
| `DocumentTasks` | the ledger, the threads of the workflow, cancellations | `core/tasks/*.py`, `core/document_service.py`, `core/server.py` |
| `VisualHandoff` | composition of handoffs, transfers, analyses, the server's maps and the sweeper | `core/handoff/*.py`, `core/visual_transfer/*.py`, `core/vision/*.py`, `core/server.py` |
| `VoiceTurns` | the tasks of a voice session | `core/voice_session/*.py` |
| `VoiceDaemon` | composition of daemon, runtime, player and wake gate | `services/hikari_daemon.py`, `core/voice_streaming/*.py`, `core/voice_capture/playback.py`, `core/voice_safety/wake_gate.py`, `core/voice_session/wake_admission.py` |
| `<Module>Properties` | what the module promises: type invariant, safety, action, refinement and liveness properties | |
| `MC<Module>` | what the TLC configurations run (symmetry) | |
| `ScheduledJobsProofs`, `AccessSessionsProofs`, `DevicePairingProofs`, `ProductivityApprovalsProofs`, `DocumentTasksProofs`, `VisualHandoffProofs`, `VoiceTurnsProofs`, `VoiceDaemonProofs` | TLAPS proofs | |

`ScheduledJobs` EXTENDS `JobContracts`; each `…Properties` EXTENDS its component, and
`ScheduledJobsProperties` and `DevicePairingProperties` also INSTANCE `JobLifecycle` and
`PairingLedger` with refinement mappings; the proof
and MC modules EXTEND the properties. Definitions named `Mut…` are deliberate bugs, each
next to the definition it corrupts; no run uses them as they stand, they document which
mistake in the code each property would notice.

The components were kept apart because they meet only through values: a scheduled job is
created from an approved proposal and from then on has its own copy of the input; a paired
connection is a name to every other component. Where two components keep tables about the
same thing they are one module (`VisualHandoff`, `VoiceDaemon`).

## 3. The models

A step of a model is what runs without interruption in the code: one SQLite transaction, one
use of a lock, the code between two `await`s, or one statement of the daemon's thread that a
signal handler may follow. Variables marked *history* in a module's header exist for the
properties only and never decide what happens next.

### 3.1 Scheduled jobs

#### State

| Variable | Code |
|---|---|
| `now` | the clock injected into every component |
| `row[j]` | the row of `scheduled_jobs`: `state`, `at` = `updated_at` (the compare-and-swap revision), `next` = `next_run_at` with `off`, the UTC offset it is written with, `att` = `attempt_count`, `fp` = `delivery_fingerprint`; `"none"` when there is no row |
| `envelope[j]` | `expires_at` of the row of `scheduled_action_inputs`, 0 if none |
| `run` | the one runner thread: program counter, rest of its batch `todo`, the snapshots it claimed `seen`, the row last read `held`, the instants it stamps with, the result it is delivering |
| `ctl[c]` | a thread serving a pause, resume or cancel request |
| `mk[j]` | the thread creating job `j` |
| `left` | requests, crashes and faults still allowed (bounds) |
| `sent[j]` | history: fingerprints put on the owner's socket |

The audit log is never read back by the other parts; it is modelled by whether an append
raises, because that is what decides the compensations.

#### Actions

Every SQLite transaction is one step, and between two of them any other thread may move.

- **run_once** (`runner.py`): `StartBatch` reads the clock, `ClaimDue` claims up to `Limit`
  due rows in order of the text of `next_run_at` (`NextText`), `TakeNext` appends the claim's audit event and takes
  the next job; an audit failure gives the rest of the batch back by two swaps per row
  (`Undo`, `Undo2`) and raises (`Raise`); `BatchDone` and `PurgeExpired` end the turn of
  the server's loop.
- **execution and delivery** (`coordinator.py`, `delivery.py`, `delivery_runtime.py`,
  `server.py`): `StartWork` loads the input and runs the adapter, `Classify` decides between
  quiet, duplicate and new result, `Send` puts it on the socket, `AckLoad`, `AckRecord`,
  `AckAudit`, `AckRevert` are `acknowledge_delivery` with its compensation, `RunStop` and
  `RunStopCas` the bounded attempts to cancel a row whose events cannot be written.
- **completion and retry** (`runner.py`, `bootstrap.py`): `Refresh`, `Complete`,
  `CompleteAudit`; `Clean` and `CleanDelete`, the terminal callback that looks for the input
  and deletes it (an error in it, or an input that is gone by then, raises and gives the rest
  of the batch back);
  `RetryInterrupt`, `RetryAudit`, `RetryNext`, `RetryAttempt`, `RetrySchedule`,
  `RetryScheduleAudit`, `RetryPause`; `Exhaust`, `ExhaustAudit`; `Suppressed` and `Quiet…`
  for a run that falls into quiet hours.
- **recover_startup**: `Recover…`, the two passes over what a crash left.
- **owner requests** (`lifecycle.py`, `service.py`, `runtime.py`): `Request`, `CancelReread`,
  `ControlCas`, `ControlAudit`, `Unresume`, `ControlStop`, `ControlStopCas`, `ControlRemove`.
- **creation** (`creation.py`, `coordinator.py`): `Schedule` retains the input, `AddRow` adds
  the row, `CreateAudit` appends the event; `Unadd`, `CreateStop`, `CreateStopCas`,
  `CreateCheck`, `CreateDelete`, `CreateUnput` take it all back.
- **environment**: `Tick`, `Restart` (the process ends: threads are lost where they stand,
  the files are as committed). `AuditFails` and `StoreFails` make an append or a store call
  raise at any step that makes one, within a budget.

#### Abstractions

- Ids, owner scopes, titles, encodings and validation are left out: every request is for a
  job of its own owner. Attempts to address another owner's job are refused before any write.
- `store.get` followed by reading the clock is one step; the service's pre-load and the
  life cycle's load are one read.
- The owner's clock reads later than the row's stamp by at least the microsecond the code's
  `updated_at` comparison needs; two writes of the same thread may carry the same stamp, as
  in the code, so two revisions of a row can be indistinguishable and the model has that.
- A send that times out may still have gone out: the result is put into `sent` when the
  runner gives up on it or before, never after.
- Listings of 64 rows (recovery, the owner's list) are not overrun.
- An instant is a number, in UTC. What is compared in the due query is text, and a text shows
  the wall clock of the zone it was written in: `NextText` adds the offset. The offsets are
  those of the clients (`ClientOffsets`), of the quiet-hours zone (`ZoneOffset`) and 0 for what
  the runner writes itself; `updated_at` and the clock are in UTC. They are constant: daylight
  saving is left out, and so is what a text compares like when two agree to the microsecond.
- A day has `Day` instants; rows with one text are claimed in any order.


#### Properties

- `TerminalIsFinal`: no stale claim, retry, resume, give-back or recovery revives a
  completed, failed or cancelled job.
- `PauseIsRespected`: a paused row is rewritten only by its owner's requests.
- `AttemptsWithinBudget`: the charged attempts stay below `max_attempts`, although the
  budget is read from the claimed snapshot and charged two transactions later.
- `RunningIsHeld` (while the stores work): a row is running only while the runner has it.
- `InputRetained`: a job that can still run has its input until that expires.
- `RefusedLeavesNothing`: a plainly refused creation leaves neither row nor input.
- `ImplementsLifecycle`: the machine of threads implements `JobLifecycle`, with the rows'
  state, attempts and fingerprint as the abstract variables. It says at once that every
  write follows the transition table, that claims take scheduled rows only, that a retry is
  charged within the budget and one at a time, that giving up takes the whole budget, that
  only unacknowledged results are shown and only shown ones acknowledged.
- `ClaimsAreSettled`, `DueIsClaimed`, `ExpiredInputsGo`: liveness of the runner loop. A job is
  claimed once its text is due, which is not when its instant is (section 5).

### 3.2 Access sessions

`grant[g]` and `sess[s]` are the rows of `capability_grants` and `phase5_sessions` (state,
expiry, the grant a session stands on, the revision a save is compared with). `req[c]` is the
request a connection has in hand and the copies it works from: the grant it read before an
activation, the session row, and the revision, which the code reads in a second transaction.

- **Activation** (`server.py`, `runtime_service.activate_session`): `RequestActivation` reads
  the grant and the clock, `Evaluate` is the state machine of `session_lifecycle.py`,
  `SaveActivated` the save with the revision of the row it replaces.
- **Transition** (lock, close, revoke): `RequestTransition`, `ReadSession`, `ReadRevision`,
  `Swap`. A lost swap is an error to the caller and, inside a revocation, to that one session.
- **Revocation of a grant**: `RequestRevocation` ends the grant, `ListDependents` lists its
  sessions once, `NextDependent` takes each through a transition, `AnswerRevocation` answers.
- **Use** (`runtime_guard.authorize`): `RequestUse`, `LoadSession`, `GuardUse`, `PolicyAllows`,
  `AnswerUse`; session, grant and owner policy are read one after the other.
- `IssueGrant`, `ExpireDue` (the sweep), `Tick`, `Restart`.

Abstractions: a session asks for capabilities its grant has; child policies, approvals,
consents and the audit are left out, so is the order of `created_at`; listings do not reach
100 rows; a use may be asked for through the service whether or not a handler does so.

Properties: `AnsweredRevocationHolds` (the cascade against activations, transitions and stale
revisions), `UseIsCovered` (the session an activation left behind a revoked grant is worth
nothing), `RevokedIsLeftByRequest` (violated, section 5).

### 3.3 Productivity approvals

`prop[p]` is the registry every connection shares, `input` the prepared inputs beside it,
`appr[a]` the table of approvals (scope, session, content, creation, expiry, used),
`conn[c]` the place of each connection's handler. A confirmation is `GrantConfirm` (answer
from a current approval, rebind a standing one, or issue), `BuildRequest`, `Evaluate` (which
approval covers it), `Take` (`consume_once`, or the check of another scope), `Withdraw` (a
grant that cannot be used is taken back), `StartAdapter`, `FinishAdapter`, `Answer`. `Shown`
stands for the sends in between, at which the client may be found gone. `Prepare`, `Cancel`,
`RefuseConfirm`, `Disconnect` (inputs are cleaned, the message in hand goes on), `Restart`
(memory is lost, the table stays), `Tick`.

Abstractions: coordinator and adapters are configured; the adapter succeeds or fails; a
proposal's content is a value, its digest the identity of that value; a connection is a
session and is not reopened.

Properties: `OnceRunsOnce`, `SucceedsOnce`, `OneStandingGrant`, `CancelledStaysCancelled`.
The second is the least obvious: an approval that is not for once may run again and again,
and only the deletion of the retained input keeps a proposal from being done twice.

### 3.4 Device pairing

`chal[k]` and `active[r]` are the challenge store's two tables, `dev[d]` is the table of
device sessions, `conn[c]` the server's maps (paired or not, challenge, device) and the
handler's place, `guess` the window of wrong codes of a source address. `Prepare` answers the
request's own challenge again or replaces it; `Confirm` counts a guess or consumes the
challenge; `Issue` writes the device in the other store; `Confirmed` brings the maps up to
date. `RevokeRead`, `RevokeSwap`, `Unpair` are the owner's revocation, `CancelChallenge`,
`LegacyPair` (a local connection with the machine's code), `Disconnect`, `StaleRead`,
`StaleSwap`, `DropChallenge` the clean-up of a connection, `ExpireChallenges`, `ExpireDevice`
the sweeper, `Restart`, `Tick`. `StaleFails` and `RevokeFails` are the device store failing:
the one is ignored, after the connection has forgotten its device; the other is an answer. The
history `left` has the devices no connection is left to park.

Abstractions: a code is right or wrong; all clients share one source address; reconnection
with a device's secret is not served by the code (nothing calls `restore`), so it is not an
action; the clock does not fail, so that the cancellation of a challenge, which is in memory,
succeeds.

Properties: `OneDevicePerChallenge`, `RevokedIsUnpaired`, `ActiveIsHeld` (a device is active only
while a connection holds it or cleans it up, but for the three ways to leave one behind: a
store that fails at the clean-up, a connection that pairs again, a stop), and `ImplementsLedger`, the refinement of `PairingLedger`. There a challenge is open, spent or
over, a device comes from a spent challenge, a connection is linked to a device, and each of
the owner's events (show, answer, enroll, link, leave, park, revoke, report, a stop of the
process) is one step; handlers between two stores, clocks, guesses, the index of active
challenges and lost swaps do not exist. The mapping (`OwnersView`, `Ledger`) forgets why a
challenge is over and reads the links from the server's maps. What it adds to the three
invariants are the relations between the parts: a request never has two open challenges
(the index `active` is replaced, swept and cleared by five actions), a device is linked once
in its life, and a clean-up parks it only when no connection is paired through it.

### 3.5 Document tasks

`task[t]` is the ledger's row (status, attempts, parent), `audit` and `readAudit` the latest
attempt's results in the action audit, `selected` the process-local selections,
`job[j]` a thread of the workflow with the copies it works from, and in `job[j].conn` whether
the server still holds the asyncio job around it; `req[c]` a cancellation being served.
A thread goes `Begin`, `Retry`, `Start`, `ReadDocument`, `Progress`, then per provider
`TryProvider`, `Grant`, `Recheck`, `Send`, or `Refuse` (denied, or cancelled since: the decision is
recorded before, its result may fail to be), or `GiveUp`, and `AuditResults`, `Verify`,
`Complete`, or `GiveBackRead`, `GiveBackSwap` on failure; `Answer` shows the explanation if
the job was not cancelled. Requests: `Prepare`, `Confirm`, `FollowUp`, `CancelRead`,
`CancelSwap`, `CancelAnswer`, `Disconnect`. Faults: `StoreError` at any call of a store (around a
provider the router takes it for a refusal and asks the next), `Crash`.

Abstractions: the providers of a task are fixed when it is selected, as in the code; the
document is readable or not; what providers answer is an answer or none; reminders, the
command line and coding tasks use the same ledger with other workflows and are left out.

Properties: `OwnAttempt` (the swaps compare the status alone), `EgressEnds`,
`CompletedIsAudited`, `CancelStands`, and the liveness property `StartedIsSettled`.

### 3.6 Handoffs, visual transfers, vision

One module, because the server keeps tables of its own beside three subsystems and the
property is that they agree. `offer[h]` is the table of handoffs; `desk[o]` and `req[g]` the
message each connection has in hand; `buffer[t]`, `pending[g]`, `binding[g]` the transfer
buffer and the server's two maps; `record[a]` the vision service's analyses; `job[a]` the
analysis threads; `worker` the one process of `BoundedTesseractRunner`.

- Handoffs: `OfferHandoff`, `Decide`, `AskPolicy`, `SwapOffer`, `WithdrawOffer`,
  `SwapWithdrawn`, `SweepOffers`.
- Transfers: `BeginTransfer` (the checks) and `InsertTransfer` (no lock in between, so that two
  begins at once may exceed the cap; then the clock may fail), `AttachTransfer`, which binds the
  analysis, and after the send `TrackTransfer`, which makes the transfer the pending one;
  `UndoBegin`, `CancelBound`, `CancelTransfer`, `ReceiveFrame`, `SweepTransfers`.
- Analyses: `PrepareAnalysis`, `StartAnalysis`; the thread `BeginAnalysis`, `CallWorker`,
  `WorkerEnds`, `Complete`, `Fail`, `DiscardResult`, `Deliver`; `CancelAnalysis` with
  `FindRecord`, `CancelRecord`, `KillWorker`, `DropRecord`; `AskStatus`, `SweepAnalyses`.
- The clean-up, in the code's order: `Disconnect` drops the guest's transfers, or
  `DisconnectFails`: the walk over the table may end in an error, which is swallowed, when
  another guest's thread or the sweeper changes the table meanwhile; `ForgetTransfers` clears
  the server's maps, `CancelNextJob` and `ReleaseJob` end each task still held, `ClearSession`
  drops the analyses. The history `lost` has the transfers that stay.

Abstractions: local OCR is the only mode; the bytes of a frame are right or wrong; preparing
an analysis twice with one request id is left out; `fail` and `discard` of one error path are
one step; the acceptance policy may answer anything; a connection ends between two messages or
where the binding of a transfer cannot be sent to it. Vision has a lock, the buffer none. What
can come between its statements is modelled for `begin` (two steps) and for the walk of a
clean-up (an outcome of its own); `receive`, `cancel` and `expire_due` are one step each although
nothing locks them. The first two look one entry up and change it, the sweeper takes the entries
of a copy of the table: an entry swept while a frame is put into it is left out.

Properties: `OneDecision`, `EndedStaysEnded`, `TrackedTransfers` (at every step between the two
maps), `GoneLeavesNothing`.

### 3.7 Voice turns

The tasks of one session on one event loop: `pc[t]` says where the caller of each turn, the
generator and the consumer of each response, the voice activity loop and the caller of
shutdown wait; `fin[t]` what a task that finalizes a response waits for, `tasks` is
`_response_tasks`, `cancelled` the tasks whose `cancel()` was called. `state`, `active`,
`utt`, `epoch`, `down` are the coordinator's fields, `queue` the sentence queue, in which a
sentence has the number of its response and the sentinel none, `player` the playback handle
and its process (`launching`, `running`, `paused`, `ending`, `exited`).

`StartTurn` to `LaunchTurn` are a turn; `StartGenerator`, `PutSentence`, `PutEnd`,
`AbandonStream`, `EndGenerator`, `FailGenerator` its generator; `ConsumerLoop`, `GetItem`,
`Rendered`, `FailRender`, `PlayRefused`, `Launched`, `LaunchFails`, `Played`,
`CompleteResponse` its consumer, which stops the playback there is when its response ended
while it played (`QuitConsumer`); `Finalize`, `Join`, `Stopped` the finalization, which any of
them or a barge-in may enter; `HearSpeech`, `PausePlayback`, `DoubtBargeIn`,
`TranscribeBargeIn`, `VerifyBargeIn`, `StopForBargeIn`, `PlaybackCut`, `SubmitBargeIn` a
barge-in; `LoseDuplex`; `StartShutdown`, `StopForShutdown`, `CancelAll`, `FinishShutdown` a
shutdown. Cancellation takes effect at the task's next await (`CancelGenerator`,
`CancelConsumer`, `Reaped`). `cut` and `late` are histories: the responses stopped for a
verified barge-in, and whether one was verified after the response it was heard under was
over.

Abstractions: transcription and verification may answer anything; the wire protocol is left
out. The daemon's production entry point builds no coordinator; the model is of the class and
its tests' use of it.

Properties: `InterruptedStaysSilent`, `StoppedIsSilent`, `AnswersAreNotCutShort` (as long as
full duplex is never lost and no barge-in is verified late; see section 5 for what happens
otherwise).

### 3.8 Voice daemon

The working thread is at `pc`; `rt[r]` is the state of each runtime object there has been,
`cur` the global `_streaming_runtime`, `mine` the one the running function holds, `ids` and
`keys` how many interruptions and utterances it remembers, `hikari` the daemon's own state,
`running`, `capture`, `player`, `voice` and `left` (speech processes waited for and not, and why
not: the waiting ended with a refused interruption, or the process survived being ended),
`stamp`, `ignoring`, `barge`, and `gate`, the local wake gate. `mode` is the configured
capture: SpeechRecognition (`utterance`), the CoreAudio stream (`frame`), or the same with the
local wake detector (`local`).

`LoopEnds`, `LoopTurns`, `ChooseCycle`, `Enter`, `EnterFrame` are the main loop; `Hear`,
`Silence`, `CaptureFails`, `IdleInCycle` what the capture returns; `HeardWake`, `HeardActive` what
the microphone cycle does with it, around `process_utterance` (`Decide`), which takes commands
from a session that is listening or thinking. A frame cycle asks the runtime whether it is asleep
before it transcribes (`LocalWakeRefused`, `LocalWakeAdmitted` in local mode, else `HeardFrame`)
and again afterwards (`HeardFrameAsleep` or `OwnerHeard`), and a signal may come in between; then
`AuthorizeCommand` asks the gate, and `HeardFrameAwake` the runtime. `Processed`,
`StartSpeaking`, `StartPlayback`, `PlaybackNotStarted`, `SpeechEnds`, `SpokenOut`, `Finish`,
`SpeakReturns`, `SpeakFails` are an answer; `HearOver`, `RequestInterruption`,
`RefuseInterruption`, `CancelPlayback`, `Interrupted`, `ConfirmInterruption` somebody speaking
over it, and `SpeechSurvives` an end of it in vain: cancelling may raise, or return with the
process alive, which the confirmation then refuses. `IgnoreEnds` is a clock, `RequestShutdown`
the signal handler, possible after every step, which takes the global objects away.

Abstractions: an utterance is one of seven kinds and from the owner or not; recognition and
speaker verification are outcomes; evidence ids, adaptors and the tray are left out; the
local wake detector is combined with the frame capture only, since with the utterance
capture the daemon is deaf by design.

Properties: `CommandNeedsWake`; `OneCommandPerWake`: one, while the daemon runs, and one more
after a signal, which puts the runtime to sleep or closes the stream under the cycle that is
under way; `HalfDuplex`, which excepts speech that survived; the liveness property `SignalEnds`,
and `GoodbyeIsKept` (violated, section 5).

## 4. Runs

| Run | Instance | States | Shows |
|---|---|---|---|
| `jobs_nominal` | 1 quiet job, its first run written in a zone ahead of UTC or behind, quiet hours in a zone ahead, 2 attempts, 2 requests of any kind, 1 crash, time 0..4 | 3 226 524 | the owner's view and the safety properties while the stores work |
| `jobs_faults` | 1 job, 1 request, 1 crash, 1 audit and 1 store fault anywhere, time 0..2 | 1 525 564 | every compensation, a clean-up that fails included, stays within the owner's view |
| `jobs_liveness` | 2 jobs, one with quiet hours in a zone behind UTC, first runs written in UTC or ahead of it, batches of 1, room for 1 input, 1 request, 1 crash, fairness | 318 658 | claims are settled, jobs whose text is due claimed, expired inputs deleted; the limits are reached and released |
| `access_sessions` | 2 callers, 2 sessions, 2 grants, life 1, time 0..2, 5 requests | 1 142 488 | an answered revocation holds, uses are covered |
| `access_lost_revocation` | 1 grant, 4 requests | | `RevokedIsLeftByRequest` is violated |
| `productivity_approvals` | 2 connections, 2 proposals of one content, 2 approvals, all scopes, time 0..1, restarts | 1 803 803 | nothing runs more often than approved |
| `device_pairing` | 2 connections, one local, 1 request, 2 challenges, 2 devices, 2 guesses, time 0..1, restarts, a device store that may fail at a clean-up or a revocation | 1 081 901 | the stores and maps implement the owner's view; one device per challenge, an answered revocation is complete, active devices are held |
| `document_tasks` | 1 document, 1 follow-up, 2 jobs, 2 providers, 2 attempts, 1 cancellation at a time, 1 fault, fairness | 1 258 242 | threads that outlive their jobs stay apart, egress ends, started tasks are settled |
| `visual_handoff` | 2 guests, 1 desktop, 2 handoffs, analyses and transfers, room for 1, time 0..1, 8 requests, clean-ups that may be disturbed | 2 103 384 | decisions agree, what ended stays ended, no table keeps what another gave up, unless its clean-up was disturbed |
| `voice_turns` | 2 turns of at most 1 sentence, queue of 2, 1 barge-in, 1 loss of duplex | 2 582 096 | interrupted and stopped sessions are silent, answers are whole |
| `voice_daemon` | all three captures, 2 remembered interruptions and utterances, 2 signals, speech that may survive being ended, fairness | 243 135 | commands need a wake, one each in local mode, half duplex, a signal ends the daemon |
| `daemon_goodbye` | microphone capture, 1 signal | | `GoodbyeIsKept` is violated |

**Bounds.** Every race modelled is between two parties over one object, with a third state of
the world (a clock, a fault, a crash) deciding the outcome; so two of everything that races,
and one of everything that only has to be there. In particular: two attempts of a job are a
retry and an exhaustion, two requests a pause with its resume or a cancel that overtakes one;
two sessions let the cascade of a revocation be half done; two approvals of one content are
what rebinding must not leave behind; two challenges are a replacement; two providers are the
second call that a cancellation must prevent; room for one transfer makes the second wait for
the first one's sweep; two turns are an answer and its successor, which a barge-in adds of
its own. Clocks run just far enough that everything with a life can end while a request about
it is in hand. Faults can hit at any of some fifty steps, so each run has one of a kind.
Zones are UTC, one instant ahead of it or one behind, which is as long as a quiet window:
enough for a text to be due before its instant, inside the window it should wait for, or after
it; a larger offset only lasts longer.
`MaxRequests` counts requests begun; a request in hand is always finished. A queue of two
holds a sentence and the sentinel, which is what a full queue needs to block a generator.

**Symmetry** is used over sets of identifiers that no definition distinguishes, and never in a
run with a liveness property; the refinement that `device_pairing` checks is a safety property,
and `PairingLedger` distinguishes no identifiers either.

**Deadlock** is checked in `jobs_nominal` and `jobs_liveness`, where the runner never stops.
The other runs say `CHECK_DEADLOCK FALSE`: a failed recovery leaves the server without a runner
(`server.py:334-336`); a server whose clients have made their last request has nothing to do;
a session that was shut down and a daemon that exited have ended.

**Fairness.** Safety runs assume none. `ScheduledJobs!FairSpec` has weak fairness of the runner
and of recovery, because `_scheduled_runner_loop` calls `run_once` again every second whatever
the last turn raised, of the clock, and of a creation once begun; nobody has to request
anything, and a cancel that has begun may be cut off by its client leaving, so requests have
none. `DocumentTasks!FairSpec` has weak fairness of each thread: a Python thread is scheduled,
SQLite calls end with a busy time-out and provider calls with theirs; jobs, connections and
requests have none. `VoiceDaemon!FairSpec` has weak fairness of the daemon's thread, whose
every wait is bounded (listening time-outs, frame deadlines, `communicate` time-outs), except
while it waits for the speech process, which ends by itself: weak fairness of `SpeechEnds`.

## 5. Findings and remarks

Two runs show the code doing what a comment or document of the repository excludes:

- **Lost revocation** (`access_lost_revocation`, `core/phase5/runtime_service.py:158`).
  `transition_session` reads the session, computes the next state, then reads the revision
  it compares with. A revocation committed in between is overwritten by a lock computed from
  the active copy. The repository calls the transition atomic. `UseIsCovered` and
  `AnsweredRevocationHolds` hold nevertheless, because an answered revocation has ended the
  grant first.
- **Goodbye that wakes** (`daemon_goodbye`, `services/hikari_daemon.py:1137`). "Hikari,
  goodbye" puts the runtime to sleep; the daemon takes every action but `ignore` for an
  activation. Nothing is heard of it: `speak("Yes?")` is refused by the sleeping runtime
  (`hikari_daemon.py:960-962`). But the daemon's own state is ACTIVE, so that the next cycle wakes
  the runtime (`1165-1166`) and listens for a command without a wake word.

What else reading the code for the models showed, by component. These are statements about
the code, not checked by a run:

- *Scheduled jobs.* A job cancelled while it waits in a claimed batch is still executed from
  the claimed snapshot; its delivery is refused (`runner.py:705`, against `runner.py:6-8`).
  When the audit of an acknowledgement fails, the row stays running until a restart
  (`lifecycle.py:460`). An unaudited resume can be claimed before its compensation
  (`lifecycle.py:305`). A delivery suppressed at the last moment of a quiet window is put off
  by a day (`runner.py:533`). Executions ended by a crash, by quiet hours or by a resume are
  not charged. A failed retry audit leaves the row `interrupted` until a restart or a resume.
  A turn of `run_once` that raises skips its purge; a terminal clean-up that fails raises, after
  the job was completed or failed and audited (`runner.py:208-215`), and the input stays until it
  expires. `updated_at` can repeat. The due query compares texts (`store.py:613-620`), and neither
  the client's `next_run_at` nor the end of a quiet window is converted to UTC
  (`store.py:97-100`, `runner.py:104-150`). A row written in a zone ahead of UTC is claimed late by
  the offset, one written in a zone behind is claimed early by it; a row put off by quiet hours
  in a zone behind UTC is due again at once, and is claimed and put off in every turn of the loop
  until its window is over.
- *Productivity.* Nothing in production calls `purge_expired_proposals` (`service.py:199`),
  so the registry only shrinks by use, against its comments (`service.py:44-47`). A consumed
  approval is reported as "completed" though its adapter failed (`runtime.py:34-39`). A second
  cancel of a proposal is answered from memory without revoking a durable approval issued
  since. A standing approval is revoked when an unrelated attempt with it fails. A confirmation
  past its check executes although another connection cancels.
- *Pairing.* A locked or expired challenge stays in `_phase4_challenges`, so another request
  id is refused as rate limited until the client reconnects (`server.py:830-844`). Pairing a
  connection again leaves its first device active. A restart leaves devices active. So does a device store
  that fails when a connection is cleaned up: the failure is ignored after the device id was
  dropped (`server.py:578-586`), and nobody tries again.
- *Documents.* Nothing in production calls `recover_incomplete` (`tasks/service.py:164`): a
  task that was running when the process ended stays running. A refused follow-up stays queued.
  A second thread of a task may run beside a cancelled job's, which the swaps keep apart. The
  result of a denied egress is audited after the decision, and a store error there leaves
  `document_service.py` as an exception the router takes for a refusal (`router.py:1022-1025`): the
  next provider may succeed, and the task is completed with an audit row that lacks its result.
- *Handoff, vision.* A cancellation answered between `begin_analysis` and the call of the
  adapter lets the worker start afterwards (its result is dropped). An offer's expiry is
  checked before the acceptance policy is asked (`handoff/service.py:237`). `handoff_status`
  is documented as read-only but expires offers. Cancelling one analysis kills the worker of
  whichever runs. Completed transfers are never swept (`expire_due` skips them). A swept pending transfer leaves its
  entry in `_phase4_pending_transfers` (`server.py:1012`). An offer is sent before it is
  remembered (`server.py:898`). The transfer buffer has no lock: two `begin` at once may exceed
  its cap, and the walk of `clear_session` (`buffer.py:331-336`) may meet a table that changes,
  whose error is swallowed (`visual_transfer/runtime.py:374-379`). What the guest had there then
  stays, against "deterministic cleanup" (`buffer.py:57`): a pending transfer until the sweeper
  ends it, a completed one as long as the server runs. A clock that fails after the insertion
  leaves a transfer no table of the server knows (`visual_transfer/runtime.py:188-190`).
- *Voice session.* The state is set to BARGE_IN_PENDING after the await of `pause()` without
  looking at the response again (`coordinator.py:551`, against `698-699`): the session can stay
  there. A player paused with SIGSTOP does not act on SIGTERM. After full duplex was lost, a
  new turn may start while the old generator lives, and its sentinel, which carries no
  identity, ends the new answer. The same comes of a late barge-in: `handle_barge_in_speech`
  does not look at the response again after transcribing (`coordinator.py:597-629`). If the
  response it was heard under is over by then and the next one is being answered, it advances
  the epoch, which makes that one stale, does not finalize it (it is not its own), and reports
  LISTENING, so that a third turn is accepted while a response is active, against
  `coordinator.py:709-710`; the left-over sentinel then ends the third answer. TLC finds this
  with three turns and the condition `~late` of `AnswersAreNotCutShort` removed; the attempt
  to prove the property without it is what showed it.
- *Daemon.* A signal that arrives before `speak()` makes the thread build a new runtime and
  reopen the capture, which nobody closes. After 64 accepted interruptions the microphone
  capture's set is full, an interruption is refused and the daemon listens while it speaks
  (the exception in `HalfDuplex`). A shutdown does not stop the speech process. In frame mode
  `hikari_daemon.py:1447` compares with an action the runtime never returns
  (`runtime.py:585`), so "Yes?" is not spoken. Every 101st utterance is refused as a duplicate
  and leaves the runtime thinking (`runtime.py:636-639`). In local mode a signal between the first
  look at the runtime (`hikari_daemon.py:1330`) and the second (`1416`), which the transcription
  separates, puts it to sleep under the cycle: "hikari" and a command then pass with neither
  gate nor admission, once, since the daemon ends. When `cancel()` fails or the speech process
  outlives it, `speak()` returns with the runtime INTERRUPTING (`1005-1008`). It cannot be put to
  sleep from there and takes every utterance for part of the interruption, so a frame daemon that
  was still awake hears nothing more; the microphone cycle comes out of it only by
  "that's wrong", which is answered without asking the runtime.

## 6. Proofs

All theorems are about `Spec`, for every value of the constants that satisfies the named
assumptions of the component's module.

**Scheduled jobs** (`ScheduledJobsProofs`; assumptions of `JobContracts` and `ScheduledJobs`: a day and a back-off of
at least one instant, offsets that are integers, finitely many jobs, at least one attempt, bounds that are numbers).

- `TypeOKHolds`: `Spec => []TypeOK`. `TypeOK` alone is not inductive:
  a step that rewrites `row[run.job]` needs `run.job` to be a job. `TypeInv` adds
  `JobAtHand`: a thread past the point where it takes a job has one (`RunOK`, `CtlOK`), and
  the runner has a result in hand where it delivers one. `TypeCorrect` is `Spec => []TypeInv`;
  it has a lemma per shape of step (swap, audit append, give-back, field update) and one per
  group of actions.
- `TerminalStays`: `Spec => TerminalIsFinal`. `RowMoves` classifies
  what a step may do to the table: it moves rows along `Successors`, or changes a row's other
  fields, or adds or removes the row of a job under creation; `NextMoves` shows every step is
  of this kind. Adding a row is the one move that could overwrite a terminal one, so the
  invariant `Fresh` (`FreshAlways`) says a job whose creation has not added its row has none.
- `BudgetHolds`: `Spec => []AttemptsWithinBudget`. The charge is
  decided on the claimed snapshot and written on the current row, so the invariant must tie
  the two: `SnapshotsHold` says a snapshot of the batch has at least the attempts of its row
  as long as the runner has not charged it, and that where the runner is about to charge the
  snapshot had budget. `BatchMoves` classifies what a step may do to the batch; `BudgetInv`
  is the conjunction.
- `Refines`: `Spec => ImplementsLifecycle`, the refinement of
  `JobLifecycle`. Most steps are `Plain`: they change nothing the owner sees, or move one row
  along the table; the others are a claim, a settlement, a charge or new run time, a delivery and
  an acknowledgement, with a lemma each (`ClaimRefines`, `SettleRefines`, `ReviseRefines`,
  `SendRefines`, `AckRefines`). The abstract guards are about the row and the code decides on
  copies, so `RefineInv` adds to `BudgetInv`: a snapshot of the batch has no more attempts
  than its row, so that giving up happens at the budget (`HeldInv`); the delivery in hand was
  sent before it is acknowledged and acknowledged before it is completed (`DeliveryOK`,
  `AcknowledgedWasShown`); a row that is gone leaves nothing behind (`Absent`).
- `InputIsRetained`, `RefusalIsClean`: `Spec => []InputRetained` and
  `Spec => []RefusedLeavesNothing`, from `InputInv`. The input is deleted by the runner, by a
  cancellation and by a creation that undoes itself, each after the row was decided:
  `DeletesEnded` says the row whose input is about to go has ended, and ended rows stay ended;
  `InputOf` follows a creation through its steps.
- `PauseHolds`: `Spec => PauseIsRespected`. A state swap names the
  state it expects, but the updates of the next run time, of the attempts and of the
  acknowledgement are guarded by the revision alone. `PauseInv` shows this is enough: the rows
  of the batch are running or ended until the runner settles them (`Ours`), a row it
  interrupted is as it left it or of a later revision (`Released`), and a request's stamp is
  later than the revision it read.

- `RunningHeld`: `Spec => [](Unfaulted => RunningIsHeld)`, where `Unfaulted` says that no
  audit append and no store call has failed yet. The condition is needed: a run that raises
  gives back the rest of its batch and leaves the job at hand running until a restart (section
  5). Up to there the runner never misses a running row, because it knows its revision:
  `ClaimsOK` says of every running row that it waits in the batch at the revision that was
  claimed (`Waiting`), or is at hand at the revision the next swap names (`AtWork`), so that a
  swap that misses finds a row that is not running any more. `FaultsFall` and
  `OthersClaimNothing` reduce a step to the runner's.

**Access sessions** (`AccessSessionsProofs`; assumptions `AccessNames`, `AccessBounds`).

- `TypeCorrect`: `Spec => []TypeOK`, by the inductive `TypeInv`, which adds that a
  request names a session or a grant where its next step uses one. (No run checks it again.)
- `RevocationHolds`, `UsesAreCovered`: both follow from the one inductive invariant `Inv`.
  The promises are about sessions, but what can break them are the copies in the requests.
  So `ReqOK` says for each request in hand what its copies are worth: `CopyOK`, an activation
  that goes on from a grant revoked since is among the recorded races; `AheadOK`, a revocation
  under way still has every session that stands on its grant ahead of it, in its list or in the
  transition in hand; `UseOK`, a use past a check holds what that check established.
  `AnsweredIsRevoked` and `AnsweredRevocationHolds` complete it. `KeptOK` reduces a step to
  what it changes in the tables (`Kept`), so that only the requests that do change them are
  argued one by one (`SendSafe`, `ServeSafe`, `OtherSafe`).

**Device pairing** (`DevicePairingProofs`; assumptions of `DevicePairing`).

- `TypeCorrect`: `Spec => []TypeOK`, with `Shaped`, which ids a handler has at hand.
- `OneDevice`, `RevocationHolds`: consequences of `Inv`. A handler brings the
  challenge store, the device store and the server's maps up to date one after the other, so
  that no promise is inductive alone. `HandlerOK` says what a handler between two of them
  relies on (the challenge it answered is spent, the device it works on exists, a device it is
  about to pair was told to nobody, a swap it lost was lost to a final state), and
  `ConfirmedApart` that no two handlers are about to pair the same device. `ChallengesKept`
  and `DevicesKept` say what the steps of all others preserve of that.
- `CleanUpHolds`: `Spec => []ActiveIsHeld`, inductive together with `Inv`: a step that takes a
  connection off an active device parks the device, or finds it ended, or records it in `left`,
  the history of the three ways to leave one behind.
- `Refines`: `Spec => ImplementsLedger`. `Inv` is not enough: that a device is parked only when
  nobody is paired through it needs `LinksOK` (a device pairs one connection, whose client was
  told of it; a connection in clean-up pairs nobody; a device nobody was told of is neither
  stale nor revoked; a revocation never reads an expired row), and that a request has one open
  challenge needs `OpenOK` (every open challenge is the one its request's index names, and the
  index names none of another request). `Seen` is what is shown of each action: both kept, and
  a step of the ledger or none. TLC checked both on the instance of the run before they were
  proved.

**Productivity approvals** (`ProductivityApprovalsProofs`; assumptions of
`ProductivityApprovals`).

- `RunsOnce`, `DoneOnce`, `StandingGrantHolds`, `CancellationHolds`: from one `Inv`. A
  confirmation works on an approval and a proposal it looked at several steps before. `Owned`
  says the proposal is its connection's own; `OnceOK` that an approval for once is used before
  it is executed, and executed by one handler; `DoneOK` that a proposal that was done has lost
  its input, or its handler is about to take it away; `CancelsOK` that nothing authorizes what
  was cancelled. `ProposalsKept` and `ApprovalsKept` are what every step preserves.

**Document tasks** (`DocumentTasksProofs`; assumptions of `DocumentTasks`).

- `AttemptsAreOwned`, `EgressIsBounded`, `KeptIsAudited`, `CancellationHolds`: from one `Inv`.
  Every swap of the ledger compares a status and no owner. It is enough because `Alone`, one
  thread is inside a task, and `AttemptOK`, the attempt it is inside of is its own unless it
  was cancelled, hold together: only the thread inside takes a task out of "running" and
  "verifying", and nobody takes it out of "cancelled" and "completed" (`TasksKept`). `AuditOK`
  follows the audit along the providers (`AuditSteps`), `KeptOK` says what a completed task's audit
  is, whatever failed, and `LateOK` says that once the one late call was
  made no thread is about to make another. `ThreadStep` reduces a step of a thread to its own
  row. `CompletedIsAudited` says more of a task no store failed for: that no decision lacks its
  result. This is a second layer, `DecidedInv`, proved above `Inv`: as long as there was no fault, a
  decision without a result is that of the provider being refused, or ends the attempt
  (`DecidedOK`).

**Handoffs, transfers and analyses** (`VisualHandoffProofs`; assumptions `VisualNames`,
`VisualBounds`).

- `DecisionsAgree`, `EndedIsNotShown`, `TransfersAreTracked`, `GoneIsClean`: from one `Inv`,
  whose parts share only the request in hand of each guest and the binding of an analysis to a
  transfer. `TrackedBy` says, of each guest, where a transfer that holds a place is known at
  every step of declaring, inserting, binding, tracking and undoing it, and that a guest that is
  leaving (`Parting`) has nothing left of what an earlier step of the clean-up dropped, but for
  the transfers in `lost`. `RecordsOK` says how far a thread may be for
  what its record says (a result on its way has a record that is completed or gone), `BoundOK`
  that what is bound has no thread yet and is bound once, and `CancellingOK` that a cancellation
  past its swap finds a record no result can come from. `Aged` and `WorkedOn` say how a step
  may move a record and a thread; `RecordsStep` and `BoundStep` conclude from them.

**Voice turns** (`VoiceTurnsProofs`; assumption `VoiceBounds`).

- `Invariant`: `Spec => []Inv`, the inductive invariant of a session; `InterruptedSilent`,
  `StoppedSilent` and `AnswersWhole` are its consequences. All three promises are about tasks
  that go on after the response they belong to is over, so most of `Inv` says which task may
  still be where. `TurnsOK`: a turn that has no response yet is named
  neither by the session nor by a barge-in, its workers exist only once it launched them, and
  no response has an epoch of the future. `PlayerOK`: a playback that sounds belongs to the
  consumer that launches, plays or reaps it. `SilentOK`: the response of a barge-in past its
  verification belongs to an earlier epoch, and its stop waits for its playback; so does every
  response that was cut. `WaitOK`: every worker that lives is in `_response_tasks` or some
  finalizer waits for it; only cancelled workers are waited for; and no set of workers waits
  in a circle (without which two finalizers could join each other and shutdown would wait for
  neither). `StopOK`: once shutdown has cancelled the workers, those left were launched by a
  turn answered meanwhile and end at their first step. `CalmOK`: with full duplex kept, no late
  barge-in and no shutdown (`Calm`), a turn that is submitting, an active response, one that is
  being finalized and the utterance of a barge-in exclude each other, and no turn is accepted
  meanwhile (`OneAtATime`); so only the active response has a running stream or a sentinel in
  the queue (`StreamsOK`). One lemma per part
  reduces a step to what it changes of the tasks, the player and the queue; `NextInv` puts
  them together.

**Voice daemon** (`VoiceDaemonProofs`; assumption `DaemonBounds`).

- `TypeCorrect`: `Spec => []TypeOK`; here the type invariant is inductive (`TypesStay`).
- `CommandsAreWoken`, `OneCommandPerWakeHolds`, `HalfDuplexHolds`: consequences of `Inv`.
  `CommandNeedsWake` relates a place of the thread to a history of the runtime, so `Inv` ties
  the three machines together at every place: `OneRuntime` (while the daemon runs there is one
  runtime, and it is speaking or being interrupted exactly where the thread says so),
  `AwakeIsWoken` (with a frame capture, a session that is awake, for the runtime or for the daemon,
  was granted a wake), `GateOK` (an authorization that is still open paid for no command yet, and
  none is open where a cycle that began before a signal may still process one),
  `VoiceIsWaitedFor` (a speech process is alive only where the thread waits for it, unless the
  microphone capture gave up on a full set or the process survived) and
  `CapturesApart` (the places of one capture are not reached in another). After a signal there
  is another runtime, or none; what a cycle under way has decided about the old one is what
  remains of `Inv`. `InvStays` has one
  step per action and under it one per conjunct.

**Only model-checked**: the liveness properties (`StartedIsSettled` of documents, `SignalEnds`
of the daemon and those of scheduled jobs), since fairness and ENABLED are outside the prover.
Every safety property a passing run checks is also a theorem.

## 7. Not modelled

- **Bounded agent loop (phase 6).** Its production path cannot start a run: the preview's
  nonce is never put into the frame the client has to send back
  (`core/phase6_transport.py:548-576`), so `start_agent_run` never matches; a model would check
  code nothing reaches. What reading it showed: `_active_runs` is never freed, a prepared run
  can overwrite another session's id, a cancellation is always answered "cancelled", and
  `_used_approval_ids` is checked and then added to by concurrent runs.
- **Memory, neural memory, time sense**: text heuristics and ranking over stored text; what
  they guarantee is numeric or linguistic, which a state machine over small sets does not say.
- **Routing, orchestration, agents, skills**: prompts around a language model, without state of
  their own. Of the router only the bounded call of a provider appears, as a step of a document
  task.
- **Conversation sessions and grants, the policy table**: single transactions under one lock;
  there is nothing to interleave.
- **Signal processing** (voice activity, echo, endpointing, calibration): thresholds over
  numbers.
- **Front end, native audio, adapters of phase 6**: presentation, platform code and external
  programs.
- **WebSocket server**: chat, memory, administration and voice-over-socket messages; what of it
  drives a modelled component is in that component's module.
- Inside the modelled components: ids, scopes of other owners, validation, encodings, wording,
  audit text, and listings beyond their limits; UTC offsets that change (daylight saving).
