---------------------------- MODULE ScheduledJobs ----------------------------
(***************************************************************************)
(* Scheduled read jobs (core/jobs and its wiring in core/server.py).       *)
(*                                                                         *)
(* Three SQLite files hold the state: the jobs (row), the retained adapter *)
(* inputs (envelope) and the append-only audit log, which nothing reads    *)
(* back and which is therefore modelled only by whether an append fails.   *)
(* Four kinds of thread work on them, and every transaction is a step of   *)
(* its own: the one runner thread (run), the owner's pause, resume and     *)
(* cancel requests (ctl), the creation of each job (mk) and, after a crash *)
(* or at start, the runner's recovery pass.  The compare-and-swap revision *)
(* of a row is its updated_at instant.  An instant is stored as text in    *)
(* the zone it came in, so the rows' next_run_at carries that zone's       *)
(* offset: the due query compares texts, not instants.                     *)
(***************************************************************************)
EXTENDS JobContracts

CONSTANTS
    Jobs,            \* job ids the id factory hands out, each used once
    QuietJobs,       \* the jobs created with a quiet window
    Controls,        \* threads serving the owner's requests
    Ops,             \* the requests the owner makes
    Fps,             \* fingerprints of read results
    NoJob, NoFp,     \* "none" for a job and for a fingerprint
    MaxAttempts,     \* max_attempts of every job
    Limit,           \* rows taken by one claim and one purge (8)
    MaxEnvelopes,    \* retained inputs per owner scope (64)
    ClientOffsets,   \* zones owners give first run times in, as offsets from UTC
    Grace,           \* an envelope outlives its job's first run time by this
    Lead,            \* bound: how far ahead a job is scheduled
    MaxTime,         \* bound: the clock stops here
    MaxRequests, MaxCrashes, MaxAuditFaults, MaxStoreFaults  \* bounds

ASSUME NamesAssumption == NoJob \notin Jobs /\ NoFp \notin Fps
ASSUME SubsetAssumption ==
    /\ QuietJobs \subseteq Jobs
    /\ Ops \subseteq {"pause", "resume", "cancel"}
    /\ IsFiniteSet(Jobs)
    /\ ClientOffsets \subseteq Int
ASSUME BoundsAssumption ==
    /\ MaxAttempts \in Nat \ {0}
    /\ Limit \in Nat \ {0} /\ MaxEnvelopes \in Nat \ {0}
    /\ Grace \in Nat \ {0} /\ Lead \in Nat \ {0} /\ MaxTime \in Nat
    /\ MaxRequests \in Nat /\ MaxCrashes \in Nat
    /\ MaxAuditFaults \in Nat /\ MaxStoreFaults \in Nat

VARIABLES
    now,        \* the clock every component reads
    row,        \* scheduled_jobs: the row of each job
    envelope,   \* scheduled_action_inputs: expires_at of each job, 0 if none
    run,        \* the runner thread
    ctl,        \* the owner's request threads
    mk,         \* the creation of each job
    left,       \* requests, crashes and faults still allowed (bounds)
    sent        \* history: fingerprints put on the owner's socket

vars == <<now, row, envelope, run, ctl, mk, left, sent>>

-----------------------------------------------------------------------------
(* The store.                                                              *)

NoRow == [state |-> "none", at |-> 0, next |-> 0, off |-> 0, att |-> 0, fp |-> NoFp]

\* Where the text of a next_run_at stands among texts in UTC: it shows the wall
\* clock of its zone, and the comparison never gets as far as the offset.
NextText(r) == r.next + r.off

Exists(j) == row[j].state # "none"

\* The rows a compare-and-swap may touch: `rev' is the revision its caller read.
At(j, rev) == Exists(j) /\ row[j].at = rev
Matches(j, s, rev) == At(j, rev) /\ row[j].state = s

\* transition: validated against the table; a same-state move writes nothing.
SetState(j, to, ts) ==
    /\ CanTransition(row[j].state, to)
    /\ row' = IF row[j].state = to THEN row
              ELSE [row EXCEPT ![j].state = to, ![j].at = ts]

\* Two fault kinds, each with a budget: an audit append or a store call raises.
AuditFails == left.audit > 0 /\ left' = [left EXCEPT !.audit = @ - 1]
StoreFails == left.store > 0 /\ left' = [left EXCEPT !.store = @ - 1]

Quiet(j, t) == j \in QuietJobs /\ InQuietWindow(t)

-----------------------------------------------------------------------------
(* Threads: a program counter, the job at hand, the revision of the row    *)
(* last read (held) and the instant its next writes are stamped with (ts). *)
(* The runner also has the rest of its batch (todo) with the revisions it  *)
(* claimed (seen), the claim instant and the result it is delivering.      *)

IdleRun ==
    [pc |-> "idle", todo |-> {}, job |-> NoJob, seen |-> [j \in Jobs |-> NoRow],
     held |-> NoRow, ts |-> 0, claimed |-> 0, cand |-> NoFp, tries |-> 0,
     failed |-> FALSE]

IdleCtl ==
    [pc |-> "idle", op |-> "pause", job |-> NoJob, held |-> NoRow,
     from |-> "none", ts |-> 0, tries |-> 0]

NewMk == [pc |-> "new", next |-> 0, off |-> 0, ts |-> 0, held |-> NoRow, tries |-> 0]
EndMk(p, outcome) == [NewMk EXCEPT !.pc = outcome, !.next = p.next]

\* _deactivate_if_active / _deactivate_after_failed_audit: read the row, leave
\* it if its state is one of `spared', else try to cancel that revision; three
\* tries in all.  `p' is the thread, `out' where it goes on.
LookAgain(p, j, spared, out) ==
    IF row[j].state \in spared \cup Terminal \cup {"none"}
    THEN [p EXCEPT !.pc = out]
    ELSE [p EXCEPT !.pc = "stopcas", !.held = row[j]]

TryAgain(p, out) ==
    IF p.tries < 2 THEN [p EXCEPT !.pc = "stop", !.tries = @ + 1]
                   ELSE [p EXCEPT !.pc = out]

-----------------------------------------------------------------------------
(* The runner thread: run_once, then purge_expired, then a pause.          *)

Goto(pc) == run' = [run EXCEPT !.pc = pc]

\* The failure path goes on with the revision and the instant of the claim.
ToFail ==
    run' = [run EXCEPT !.pc = "fail", !.held = run.seen[run.job], !.ts = run.claimed]

\* Done with the job at hand: on to the rest of the batch.
NextRun ==
    [run EXCEPT !.pc = "take", !.job = NoJob, !.held = NoRow, !.ts = 0,
                !.cand = NoFp, !.tries = 0,
                !.seen = [j \in Jobs |-> IF j = run.job THEN NoRow ELSE @[j]]]
Next1 == run' = NextRun

\* JobRunnerError: the rest of the batch is given back and run_once raises.
Abort1 == run' = [NextRun EXCEPT !.pc = "undo"]

\* Mutant: the write is not guarded by the state and revision it read.
MutRunCas(pc, from, to, ts, hit, miss) ==
    /\ run.pc = pc
    /\ row' = [row EXCEPT ![run.job].state = to, ![run.job].at = ts]
    /\ run' = [run EXCEPT !.pc = hit, !.held = row'[run.job]]
    /\ UNCHANGED <<now, envelope, ctl, mk, left, sent>>

\* One compare-and-swap of the job at hand, from the revision in `held'.
RunCas(pc, from, to, ts, hit, miss) ==
    /\ run.pc = pc
    /\ \/ /\ Matches(run.job, from, run.held.at)
          /\ SetState(run.job, to, ts)
          /\ run' = [run EXCEPT !.pc = hit, !.held = row'[run.job]]
          /\ UNCHANGED left
       \/ /\ ~Matches(run.job, from, run.held.at)
          /\ IF miss = "take" THEN Next1 ELSE Goto(miss)
          /\ UNCHANGED <<row, left>>
       \/ StoreFails /\ Abort1 /\ UNCHANGED row
    /\ UNCHANGED <<now, envelope, ctl, mk, sent>>

\* One audit append; without it the run is aborted, or goes to `fail'.
RunAudit(pc, ok, fail) ==
    /\ run.pc = pc
    /\ \/ /\ IF ok = "take" THEN Next1 ELSE Goto(ok)
          /\ UNCHANGED left
       \/ AuditFails /\ IF fail = "abort" THEN Abort1 ELSE Goto(fail)
    /\ UNCHANGED <<now, row, envelope, ctl, mk, sent>>

-----------------------------------------------------------------------------
(* Claiming and giving back.                                               *)

\* Mutant: the clock is read once, when the runner is made.
MutStartBatch ==
    /\ run.pc = "idle"
    /\ run' = [IdleRun EXCEPT !.pc = "claim"]
    /\ UNCHANGED <<now, row, envelope, ctl, mk, left, sent>>

\* run_once reads the clock first, then claims what was due at that instant.
StartBatch ==
    /\ run.pc = "idle"
    /\ run' = [IdleRun EXCEPT !.pc = "claim", !.claimed = now]
    /\ UNCHANGED <<now, row, envelope, ctl, mk, left, sent>>

Due == {j \in Jobs : row[j].state = "scheduled" /\ NextText(row[j]) <= run.claimed}

Before(i, j) ==
    \/ NextText(row[i]) < NextText(row[j])
    \/ NextText(row[i]) = NextText(row[j]) /\ row[i].at < row[j].at

\* The first `Limit' due rows: none left out comes before one taken.
FirstDue(D) ==
    /\ Cardinality(D) <= Limit
    /\ D = Due \/ Cardinality(D) = Limit
    /\ \A i \in Due \ D, j \in D : ~Before(i, j)

ClaimDue ==
    /\ run.pc = "claim"
    /\ \/ \E D \in SUBSET Due :
            /\ FirstDue(D)
            /\ row' = [j \in Jobs |->
                          IF j \in D
                          THEN [row[j] EXCEPT !.state = "running", !.at = run.claimed]
                          ELSE row[j]]
            /\ run' = [run EXCEPT !.pc = "take", !.todo = D,
                         !.seen = [j \in Jobs |-> IF j \in D THEN row'[j] ELSE NoRow]]
            /\ UNCHANGED left
       \/ StoreFails /\ run' = IdleRun /\ UNCHANGED row
    /\ UNCHANGED <<now, envelope, ctl, mk, sent>>

\* Next of the batch, in the order of the due query (rows with one text in
\* either order): audit its claim, or give all of the batch back.
TakeNext ==
    /\ run.pc = "take"
    /\ run.todo # {}
    /\ \E j \in run.todo :
         /\ \A i \in run.todo : NextText(run.seen[j]) <= NextText(run.seen[i])
         /\ \/ /\ run' = [run EXCEPT !.pc = "work", !.todo = @ \ {j}, !.job = j,
                                     !.held = run.seen[j], !.ts = run.claimed]
               /\ UNCHANGED left
            \/ AuditFails /\ Goto("undo")
    /\ UNCHANGED <<now, row, envelope, ctl, mk, sent>>

\* Mutant: the loop never purges.
MutBatchDoneNoPurge ==
    /\ run.pc = "take" /\ run.todo = {}
    /\ run' = IdleRun
    /\ UNCHANGED <<now, row, envelope, ctl, mk, left, sent>>

BatchDone ==
    /\ run.pc = "take" /\ run.todo = {}
    /\ run' = [IdleRun EXCEPT !.pc = "purge"]
    /\ UNCHANGED <<now, row, envelope, ctl, mk, left, sent>>

\* _compensate_claimed, first and second write, for each job of the rest.
GiveBack(from, to, pc, hit) ==
    /\ run.pc = pc
    /\ \E j \in run.todo :
         /\ run.pc = "undo" \/ run.job = j
         /\ \/ /\ Matches(j, from, run.claimed)
               /\ SetState(j, to, run.claimed)
               /\ run' = IF hit = "undo" THEN [run EXCEPT !.pc = "undo", !.todo = @ \ {j},
                                                          !.job = NoJob]
                         ELSE [run EXCEPT !.pc = hit, !.job = j]
               /\ UNCHANGED left
            \/ /\ run' = [run EXCEPT !.pc = "undo", !.todo = @ \ {j}, !.job = NoJob]
               /\ \/ ~Matches(j, from, run.claimed) /\ UNCHANGED left
                  \/ StoreFails
               /\ UNCHANGED row
    /\ UNCHANGED <<now, envelope, ctl, mk, sent>>

Undo  == GiveBack("running", "interrupted", "undo", "undo2")
Undo2 == GiveBack("interrupted", "scheduled", "undo2", "undo")

\* run_once raises: the loop swallows it and skips the purge.
Raise ==
    /\ run.pc = "undo" /\ run.todo = {}
    /\ run' = IdleRun
    /\ UNCHANGED <<now, row, envelope, ctl, mk, left, sent>>

\* Mutant: inputs go when their job is due, without the grace.
MutExpired == {j \in Jobs : envelope[j] # 0 /\ envelope[j] - Grace <= now}

Expired == {j \in Jobs : envelope[j] # 0 /\ envelope[j] <= now}

PurgeExpired ==
    /\ run.pc = "purge"
    /\ \/ /\ \E D \in SUBSET Expired :
               /\ Cardinality(D) <= Limit
               /\ D = Expired \/ Cardinality(D) = Limit
               /\ \A i \in Expired \ D, j \in D : envelope[j] <= envelope[i]
               /\ envelope' = [j \in Jobs |-> IF j \in D THEN 0 ELSE envelope[j]]
          /\ UNCHANGED left
       \/ StoreFails /\ UNCHANGED envelope
    /\ run' = IdleRun
    /\ UNCHANGED <<now, row, ctl, mk, sent>>

-----------------------------------------------------------------------------
(* Executing: retained input, adapter, delivery, acknowledgement.          *)

\* _process_claimed starts: quiet at the claim instant, or execute_claimed.
\* No usable envelope, a store error and a failing adapter all come back as
\* a failed execution.
StartWork ==
    /\ run.pc = "work"
    /\ IF Quiet(run.job, run.ts)
       THEN Goto("quiet") /\ UNCHANGED left
       ELSE \/ /\ envelope[run.job] > now
               /\ \/ \E f \in Fps : run' = [run EXCEPT !.pc = "classify", !.cand = f]
                  \/ ToFail
               /\ UNCHANGED left
            \/ /\ \/ envelope[run.job] <= now /\ UNCHANGED left
                  \/ StoreFails
               /\ ToFail
    /\ UNCHANGED <<now, row, envelope, ctl, mk, sent>>

\* classify_delivery of the row as it is now.
Delivery ==
    LET r == row[run.job] IN
    IF r.state \in Terminal \cup {"none"} THEN "terminal"
    ELSE IF Quiet(run.job, now) THEN "suppressed"
    ELSE IF r.fp = run.cand THEN "unchanged"
    ELSE "meaningful"

\* deliver_change, up to the send.
Classify ==
    /\ run.pc = "classify"
    /\ \/ /\ CASE Delivery = "meaningful" -> Goto("send")
               [] Delivery = "suppressed" -> Goto("suppressed")
               [] Delivery = "unchanged"  -> Goto("done")
               [] OTHER                   -> ToFail
          /\ UNCHANGED left
       \/ StoreFails /\ ToFail
    /\ UNCHANGED <<now, row, envelope, ctl, mk, sent>>

\* The result goes to the owner's socket.  After fifteen seconds the runner
\* stops waiting and counts a failure although the message may be out.
Send ==
    /\ run.pc = "send"
    /\ \/ /\ sent' = [sent EXCEPT ![run.job] = @ \cup {run.cand}]
          /\ Goto("ack") \/ ToFail
       \/ ToFail /\ UNCHANGED sent
    /\ UNCHANGED <<now, row, envelope, ctl, mk, left>>

\* acknowledge_delivery loads and classifies again, at a later instant.
AckLoad ==
    /\ run.pc = "ack"
    /\ \/ /\ IF Delivery = "meaningful"
             THEN run' = [run EXCEPT !.pc = "ackcas", !.held = row[run.job], !.ts = now]
             ELSE ToFail
          /\ UNCHANGED left
       \/ StoreFails /\ ToFail
    /\ UNCHANGED <<now, row, envelope, ctl, mk, sent>>

\* update_delivery_fingerprint: guarded by the revision alone.
SetFp(rev, fp) ==
    /\ At(run.job, rev)
    /\ row' = [row EXCEPT ![run.job].fp = fp, ![run.job].at = run.ts]

AckRecord ==
    /\ run.pc = "ackcas"
    /\ \/ SetFp(run.held.at, run.cand) /\ Goto("ackaudit") /\ UNCHANGED left
       \/ ~At(run.job, run.held.at) /\ ToFail /\ UNCHANGED <<row, left>>
       \/ StoreFails /\ ToFail /\ UNCHANGED row
    /\ UNCHANGED <<now, envelope, ctl, mk, sent>>

AckAudit == RunAudit("ackaudit", "done", "ackrevert")

\* An unaudited acknowledgement is taken back, at the revision it made.
AckRevert ==
    /\ run.pc = "ackrevert"
    /\ \/ SetFp(run.ts, run.held.fp) /\ ToFail /\ UNCHANGED left
       \/ ~At(run.job, run.ts) /\ Goto("stop") /\ UNCHANGED <<row, left>>
       \/ StoreFails /\ Goto("stop") /\ UNCHANGED row
    /\ UNCHANGED <<now, envelope, ctl, mk, sent>>

\* _deactivate_if_active, then the failure path.
RunStop ==
    /\ run.pc = "stop"
    /\ LET p == LookAgain(run, run.job, {"paused", "interrupted"}, "fail") IN
       \/ (IF p.pc = "fail" THEN ToFail ELSE run' = p) /\ UNCHANGED left
       \/ StoreFails /\ ToFail
    /\ UNCHANGED <<now, row, envelope, ctl, mk, sent>>

RunStopCas ==
    /\ run.pc = "stopcas"
    /\ \/ /\ Matches(run.job, run.held.state, run.held.at)
          /\ SetState(run.job, "cancelled", run.held.at)
          /\ ToFail /\ UNCHANGED left
       \/ /\ \/ ~Matches(run.job, run.held.state, run.held.at) /\ UNCHANGED left
             \/ StoreFails
          /\ IF run.tries < 2 THEN run' = TryAgain(run, "fail") ELSE ToFail
          /\ UNCHANGED row
    /\ UNCHANGED <<now, envelope, ctl, mk, sent>>

-----------------------------------------------------------------------------
(* Settling the claimed job: completed, retried, exhausted or suppressed.  *)

\* Mutant: completes from the revision that was claimed.
MutRefresh ==
    /\ run.pc = "done"
    /\ run' = [run EXCEPT !.pc = "complete", !.held = run.seen[run.job], !.ts = now]
    /\ UNCHANGED <<now, row, envelope, ctl, mk, left, sent>>

\* _refresh_running: the acknowledgement moved the revision.
Refresh ==
    /\ run.pc = "done"
    /\ \/ /\ row[run.job].state = "running"
          /\ run' = [run EXCEPT !.pc = "complete", !.held = row[run.job],
                        !.ts = IF now < row[run.job].at THEN row[run.job].at ELSE now]
          /\ UNCHANGED left
       \/ row[run.job].state # "running" /\ Next1 /\ UNCHANGED left
       \/ StoreFails /\ Next1
    /\ UNCHANGED <<now, row, envelope, ctl, mk, sent>>

Complete == RunCas("complete", "running", "completed", run.ts, "completeaudit", "take")
CompleteAudit == RunAudit("completeaudit", "clean", "abort")

\* The terminal callback looks the retained input up and deletes what it found.
\* An error, or a deletion that found nothing any more, ends the whole run.
Clean ==
    /\ run.pc = "clean"
    /\ \/ /\ IF envelope[run.job] = 0 THEN Next1 ELSE Goto("cleandel")
          /\ UNCHANGED left
       \/ StoreFails /\ Abort1
    /\ UNCHANGED <<now, row, envelope, ctl, mk, sent>>

CleanDelete ==
    /\ run.pc = "cleandel"
    /\ \/ /\ envelope' = [envelope EXCEPT ![run.job] = 0]
          /\ IF envelope[run.job] = 0 THEN Abort1 ELSE Next1
          /\ UNCHANGED left
       \/ StoreFails /\ Abort1 /\ UNCHANGED envelope
    /\ UNCHANGED <<now, row, ctl, mk, sent>>

\* Mutants: one attempt too many, one too few.
MutHasBudgetMore == run.seen[run.job].att < MaxAttempts
MutHasBudgetLess == run.seen[run.job].att < MaxAttempts - 2

HasBudget == run.seen[run.job].att < MaxAttempts - 1

RetryInterrupt ==
    RunCas("fail", "running", "interrupted", run.ts, "retryaudit", "take") /\ HasBudget
RetryAudit == RunAudit("retryaudit", "retrynext", "abort")

\* Mutant: not guarded by the revision.
MutRevise(pc, fields, hit) ==
    /\ run.pc = pc
    /\ row' = [row EXCEPT ![run.job] = fields]
    /\ run' = [run EXCEPT !.pc = hit, !.held = row'[run.job]]
    /\ UNCHANGED <<now, envelope, ctl, mk, left, sent>>

\* update_next_run and update_attempt: guarded by the revision alone, and
\* stamped with the instant the revision already has.
Revise(pc, fields, hit) ==
    /\ run.pc = pc
    /\ \/ /\ At(run.job, run.held.at)
          /\ row' = [row EXCEPT ![run.job] = fields]
          /\ run' = [run EXCEPT !.pc = hit, !.held = row'[run.job]]
          /\ UNCHANGED left
       \/ ~At(run.job, run.held.at) /\ Next1 /\ UNCHANGED <<row, left>>
       \/ StoreFails /\ Abort1 /\ UNCHANGED row
    /\ UNCHANGED <<now, envelope, ctl, mk, sent>>

RetryNext ==
    Revise("retrynext",
           [row[run.job] EXCEPT !.next = run.ts + Backoff(run.seen[run.job].att),
                                !.off = 0, !.at = run.ts],
           "retryatt")

RetryAttempt ==
    Revise("retryatt", [row[run.job] EXCEPT !.att = @ + 1, !.at = run.ts], "retrysched")
RetrySchedule ==
    RunCas("retrysched", "interrupted", "scheduled", run.ts, "retryschedaudit", "take")
RetryScheduleAudit == RunAudit("retryschedaudit", "take", "retrypause")

\* _pause_unaudited_schedule, best effort; run_once raises in any case.
RetryPause ==
    /\ run.pc = "retrypause"
    /\ \/ /\ Matches(run.job, "scheduled", run.held.at)
          /\ SetState(run.job, "paused", run.ts)
          /\ UNCHANGED left
       \/ /\ \/ ~Matches(run.job, "scheduled", run.held.at) /\ UNCHANGED left
             \/ StoreFails
          /\ UNCHANGED row
    /\ Abort1
    /\ UNCHANGED <<now, envelope, ctl, mk, sent>>

Exhaust ==
    RunCas("fail", "running", "failed", run.ts, "exhaustaudit", "take") /\ ~HasBudget
ExhaustAudit == RunAudit("exhaustaudit", "clean", "abort")

\* A suppressed delivery reads the clock afresh before it reschedules.
Suppressed ==
    /\ run.pc = "suppressed"
    /\ run' = [run EXCEPT !.pc = "quiet", !.ts = now]
    /\ UNCHANGED <<now, row, envelope, ctl, mk, left, sent>>

QuietInterrupt ==
    RunCas("quiet", "running", "interrupted", run.ts, "quietaudit", "take")
QuietAudit == RunAudit("quietaudit", "quietnext", "abort")
\* The end of the window is written in the window's own zone.
QuietNext ==
    Revise("quietnext",
           [row[run.job] EXCEPT !.next = NextQuietEnd(run.ts), !.off = ZoneOffset,
                                !.at = run.ts],
           "quietsched")
QuietSchedule ==
    RunCas("quietsched", "interrupted", "scheduled", run.ts, "quietschedaudit", "take")
QuietScheduleAudit == RunAudit("quietschedaudit", "take", "abort")

-----------------------------------------------------------------------------
(* Startup recovery: what a crash left running is interrupted, then all    *)
(* that is interrupted is scheduled, every write audited or paused.  If    *)
(* anything failed the server keeps no runner until it starts again.       *)

RecoverList ==
    /\ run.pc = "boot"
    /\ \/ LET R == {j \in Jobs : row[j].state = "running"} IN
          /\ run' = [IdleRun EXCEPT !.pc = "rint", !.todo = R, !.claimed = now,
                       !.seen = [j \in Jobs |-> IF j \in R THEN row[j] ELSE NoRow]]
          /\ UNCHANGED left
       \/ StoreFails /\ run' = [IdleRun EXCEPT !.pc = "off"]
    /\ UNCHANGED <<now, row, envelope, ctl, mk, sent>>

\* One write of the pass; a job whose revision moved is left alone.
RecoverCas(pc, from, to, hit) ==
    /\ run.pc = pc
    /\ \E j \in run.todo :
         \/ /\ Matches(j, from, run.seen[j].at)
            /\ SetState(j, to, run.claimed)
            /\ run' = [run EXCEPT !.pc = hit, !.job = j, !.todo = @ \ {j},
                                  !.seen[j] = row'[j]]
            /\ UNCHANGED left
         \/ /\ ~Matches(j, from, run.seen[j].at)
            /\ run' = [run EXCEPT !.todo = @ \ {j}, !.seen[j] = NoRow]
            /\ UNCHANGED <<row, left>>
         \/ StoreFails /\ run' = [IdleRun EXCEPT !.pc = "off"] /\ UNCHANGED row
    /\ UNCHANGED <<now, envelope, ctl, mk, sent>>

RecoverAudit(pc, ok, fail) ==
    /\ run.pc = pc
    /\ \/ run' = [run EXCEPT !.pc = ok, !.job = NoJob] /\ UNCHANGED left
       \/ AuditFails /\ run' = [run EXCEPT !.pc = fail, !.failed = TRUE]
    /\ UNCHANGED <<now, row, envelope, ctl, mk, sent>>

\* An unaudited write is followed by a best-effort pause.
RecoverPause(pc, from, out) ==
    /\ run.pc = pc
    /\ \/ /\ Matches(run.job, from, run.claimed)
          /\ SetState(run.job, "paused", run.claimed)
          /\ UNCHANGED left
       \/ /\ \/ ~Matches(run.job, from, run.claimed) /\ UNCHANGED left
             \/ StoreFails
          /\ UNCHANGED row
    /\ run' = [run EXCEPT !.pc = out, !.job = NoJob, !.seen[run.job] = NoRow]
    /\ UNCHANGED <<now, envelope, ctl, mk, sent>>

RecoverInterrupt      == RecoverCas("rint", "running", "interrupted", "rintaudit")
RecoverInterruptAudit == RecoverAudit("rintaudit", "rint", "rintpause")
RecoverInterruptPause == RecoverPause("rintpause", "interrupted", "rint")

\* Mutant: goes on with what it interrupted itself.
MutRecoverListAgain ==
    /\ run.pc = "rint" /\ run.todo = {}
    /\ run' = [run EXCEPT !.pc = "rsched", !.todo = {j \in Jobs : run.seen[j] # NoRow}]
    /\ UNCHANGED <<now, row, envelope, ctl, mk, left, sent>>

\* The second listing refreshes the snapshots of the rows it finds.
RecoverListAgain ==
    /\ run.pc = "rint" /\ run.todo = {}
    /\ \/ LET R == {j \in Jobs : row[j].state = "interrupted"} IN
          /\ run' = [run EXCEPT !.pc = "rsched",
                       !.todo = R \cup {j \in Jobs : run.seen[j] # NoRow},
                       !.seen = [j \in Jobs |-> IF j \in R THEN row[j] ELSE @[j]]]
          /\ UNCHANGED left
       \/ StoreFails /\ run' = [IdleRun EXCEPT !.pc = "off"]
    /\ UNCHANGED <<now, row, envelope, ctl, mk, sent>>

RecoverSchedule      == RecoverCas("rsched", "interrupted", "scheduled", "rschedaudit")
RecoverScheduleAudit == RecoverAudit("rschedaudit", "rsched", "rschedpause")
RecoverSchedulePause == RecoverPause("rschedpause", "scheduled", "rsched")

RecoverDone ==
    /\ run.pc = "rsched" /\ run.todo = {}
    /\ run' = IF run.failed THEN [IdleRun EXCEPT !.pc = "off"] ELSE IdleRun
    /\ UNCHANGED <<now, row, envelope, ctl, mk, left, sent>>

-----------------------------------------------------------------------------
(* The owner's requests.                                                   *)

CtlGoto(c, pc) ==
    ctl' = [ctl EXCEPT ![c] = IF pc = "idle" THEN IdleCtl ELSE [@ EXCEPT !.pc = pc]]

\* Where a request finds work to do; elsewhere it answers without a write.
Accepts(op) ==
    CASE op = "pause"  -> {"scheduled"}
      [] op = "resume" -> {"paused", "interrupted"}
      [] op = "cancel" -> {"scheduled", "paused", "running", "interrupted", "cancelled"}

\* The row is loaded and then the clock is read: at microseconds, later than the
\* stamp of the revision that was read.
Request(c, op, j) ==
    /\ ctl[c].pc = "idle"
    /\ row[j].at < now
    /\ left.requests > 0 /\ left' = [left EXCEPT !.requests = @ - 1]
    /\ row[j].state \in Accepts(op)
    /\ ctl' = [ctl EXCEPT ![c] =
                 [IdleCtl EXCEPT
                    !.pc = IF row[j].state = "cancelled" THEN "remove"
                           ELSE IF op = "cancel" THEN "reread" ELSE "cas",
                    !.op = op, !.job = j, !.held = row[j], !.ts = now,
                    !.from = IF op = "cancel" THEN "none" ELSE row[j].state]]
    /\ UNCHANGED <<now, row, envelope, run, mk, sent>>

\* store.cancel reads the state again and swaps from that one, still guarded by
\* the revision of the first read.
CancelReread(c) ==
    /\ ctl[c].pc = "reread"
    /\ IF row[ctl[c].job].state \in Terminal \cup {"none"}
       THEN CtlGoto(c, "idle")
       ELSE ctl' = [ctl EXCEPT ![c].pc = "cas", ![c].from = row[ctl[c].job].state]
    /\ UNCHANGED <<now, row, envelope, run, mk, left, sent>>

Target(op) == CASE op = "pause" -> "paused" [] op = "resume" -> "scheduled"
                [] op = "cancel" -> "cancelled"

\* One compare-and-swap of a request thread.
CtlCas(c, pc, from, rev, to, ts, hit, miss) ==
    /\ ctl[c].pc = pc
    /\ \/ /\ Matches(ctl[c].job, from, rev)
          /\ SetState(ctl[c].job, to, ts)
          /\ CtlGoto(c, hit)
          /\ UNCHANGED left
       \/ /\ \/ ~Matches(ctl[c].job, from, rev) /\ UNCHANGED left
             \/ StoreFails
          /\ CtlGoto(c, miss)
          /\ UNCHANGED row
    /\ UNCHANGED <<now, envelope, run, mk, sent>>

ControlCas(c) ==
    CtlCas(c, "cas", ctl[c].from, ctl[c].held.at, Target(ctl[c].op), ctl[c].ts,
           "audit", "idle")

\* A cancelled job's retained input is deleted once the answer is on the wire,
\* and not at all when the client is gone by then.
ControlAudit(c) ==
    /\ ctl[c].pc = "audit"
    /\ \/ /\ \/ CtlGoto(c, IF ctl[c].op = "cancel" THEN "remove" ELSE "idle")
             \/ ctl[c].op = "cancel" /\ CtlGoto(c, "idle")
          /\ UNCHANGED left
       \/ AuditFails /\ CtlGoto(c, IF ctl[c].op = "resume" THEN "unresume" ELSE "idle")
    /\ UNCHANGED <<now, row, envelope, run, mk, sent>>

\* An unaudited resume is paused again, or the job is stopped.
Unresume(c) ==
    CtlCas(c, "unresume", "scheduled", ctl[c].ts, "paused", ctl[c].ts, "idle", "stop")

ControlStop(c) ==
    /\ ctl[c].pc = "stop"
    /\ LET p == LookAgain(ctl[c], ctl[c].job, {"paused", "interrupted"}, "idle") IN
       \/ /\ IF p.pc = "idle" THEN CtlGoto(c, "idle") ELSE ctl' = [ctl EXCEPT ![c] = p]
          /\ UNCHANGED left
       \/ StoreFails /\ CtlGoto(c, "idle")
    /\ UNCHANGED <<now, row, envelope, run, mk, sent>>

ControlStopCas(c) ==
    /\ ctl[c].pc = "stopcas"
    /\ LET j == ctl[c].job  h == ctl[c].held IN
       \/ /\ Matches(j, h.state, h.at)
          /\ SetState(j, "cancelled", h.at)
          /\ CtlGoto(c, "idle") /\ UNCHANGED left
       \/ /\ \/ ~Matches(j, h.state, h.at) /\ UNCHANGED left
             \/ StoreFails
          /\ IF ctl[c].tries < 2
             THEN ctl' = [ctl EXCEPT ![c] = TryAgain(@, "idle")]
             ELSE CtlGoto(c, "idle")
          /\ UNCHANGED row
    /\ UNCHANGED <<now, envelope, run, mk, sent>>

ControlRemove(c) ==
    /\ ctl[c].pc = "remove"
    /\ \/ envelope' = [envelope EXCEPT ![ctl[c].job] = 0] /\ UNCHANGED left
       \/ StoreFails /\ UNCHANGED envelope
    /\ CtlGoto(c, "idle")
    /\ UNCHANGED <<now, row, run, mk, sent>>

Control(c) ==
    \/ \E op \in Ops, j \in Jobs : Request(c, op, j)
    \/ CancelReread(c) \/ ControlCas(c) \/ ControlAudit(c) \/ Unresume(c)
    \/ ControlStop(c) \/ ControlStopCas(c) \/ ControlRemove(c)

-----------------------------------------------------------------------------
(* Creation: the input is retained first, then the row is added, then the  *)
(* CREATED event; an audit failure takes the row and the input back.       *)

MkGoto(j, pc) == mk' = [mk EXCEPT ![j].pc = pc]

Schedule(j) ==
    /\ mk[j].pc = "new"
    /\ \E next \in now + 1 .. now + Lead, off \in ClientOffsets :
         \/ /\ Cardinality({i \in Jobs : envelope[i] # 0}) < MaxEnvelopes
            /\ envelope' = [envelope EXCEPT ![j] = next + Grace]
            /\ mk' = [mk EXCEPT ![j].pc = "put", ![j].next = next, ![j].off = off]
            /\ UNCHANGED left
         \/ /\ \/ /\ Cardinality({i \in Jobs : envelope[i] # 0}) >= MaxEnvelopes
                  /\ UNCHANGED left
               \/ StoreFails
            /\ mk' = [mk EXCEPT ![j] = EndMk(@, "refused")]
            /\ UNCHANGED envelope
    /\ UNCHANGED <<now, row, run, ctl, sent>>

\* The row's constructor refuses a first run time that has gone by meanwhile.
AddRow(j) ==
    /\ mk[j].pc = "put"
    /\ \/ /\ mk[j].next >= now
          /\ row' = [row EXCEPT ![j] = [NoRow EXCEPT !.state = "scheduled", !.at = now,
                                                     !.next = mk[j].next,
                                                     !.off = mk[j].off]]
          /\ mk' = [mk EXCEPT ![j].pc = "added", ![j].ts = now]
          /\ UNCHANGED left
       \/ /\ \/ mk[j].next < now /\ UNCHANGED left
             \/ StoreFails
          /\ MkGoto(j, "check")
          /\ UNCHANGED row
    /\ UNCHANGED <<now, envelope, run, ctl, sent>>

CreateAudit(j) ==
    /\ mk[j].pc = "added"
    /\ \/ mk' = [mk EXCEPT ![j] = EndMk(@, "made")] /\ UNCHANGED left
       \/ AuditFails /\ MkGoto(j, "unadd")
    /\ UNCHANGED <<now, row, envelope, run, ctl, sent>>

\* Mutant: deletes by job id alone.
MutRemoveRow(j, pc, rev, hit, miss) ==
    /\ mk[j].pc = pc
    /\ row' = [row EXCEPT ![j] = NoRow]
    /\ MkGoto(j, hit)
    /\ UNCHANGED <<now, envelope, run, ctl, left, sent>>

\* remove_if_unmodified of the revision `rev'.
RemoveRow(j, pc, rev, hit, miss) ==
    /\ mk[j].pc = pc
    /\ \/ /\ Matches(j, "scheduled", rev)
          /\ row' = [row EXCEPT ![j] = NoRow]
          /\ MkGoto(j, hit)
          /\ UNCHANGED left
       \/ /\ \/ ~Matches(j, "scheduled", rev) /\ UNCHANGED left
             \/ StoreFails
          /\ MkGoto(j, miss)
          /\ UNCHANGED row
    /\ UNCHANGED <<now, envelope, run, ctl, sent>>

Unadd(j) == RemoveRow(j, "unadd", mk[j].ts, "check", "stop")

CreateStop(j) ==
    /\ mk[j].pc = "stop"
    /\ \/ mk' = [mk EXCEPT ![j] = LookAgain(@, j, {}, "check")] /\ UNCHANGED left
       \/ StoreFails /\ MkGoto(j, "check")
    /\ UNCHANGED <<now, row, envelope, run, ctl, sent>>

CreateStopCas(j) ==
    /\ mk[j].pc = "stopcas"
    /\ LET h == mk[j].held IN
       \/ /\ Matches(j, h.state, h.at)
          /\ SetState(j, "cancelled", h.at)
          /\ MkGoto(j, "check") /\ UNCHANGED left
       \/ /\ \/ ~Matches(j, h.state, h.at) /\ UNCHANGED left
             \/ StoreFails
          /\ mk' = [mk EXCEPT ![j] = TryAgain(@, "check")]
          /\ UNCHANGED row
    /\ UNCHANGED <<now, envelope, run, ctl, sent>>

\* The coordinator then removes what it still finds, row first and, whatever came
\* of that, the input.  Only when both deletions succeeded is the answer a plain
\* refusal; otherwise it says the compensation is incomplete.
CreateCheck(j) ==
    /\ mk[j].pc = "check"
    /\ \/ /\ mk' = [mk EXCEPT ![j] = [EndMk(@, IF Exists(j) THEN "delete" ELSE "unput")
                                        EXCEPT !.ts = row[j].at]]
          /\ UNCHANGED left
       \/ StoreFails /\ MkGoto(j, "unput2")
    /\ UNCHANGED <<now, row, envelope, run, ctl, sent>>

CreateDelete(j) == RemoveRow(j, "delete", mk[j].ts, "unput", "unput2")

\* Mutant: every failure counts as a plain refusal.
MutCreateUnputPlain(j) ==
    /\ mk[j].pc \in {"unput", "unput2"}
    /\ envelope' = [envelope EXCEPT ![j] = 0]
    /\ mk' = [mk EXCEPT ![j] = EndMk(@, "refused")]
    /\ UNCHANGED <<now, row, run, ctl, left, sent>>

CreateUnput(j) ==
    /\ mk[j].pc \in {"unput", "unput2"}
    /\ \/ /\ envelope' = [envelope EXCEPT ![j] = 0]
          /\ mk' = [mk EXCEPT ![j] = EndMk(@, IF @.pc = "unput" /\ envelope[j] # 0
                                             THEN "refused" ELSE "incomplete")]
          /\ UNCHANGED left
       \/ StoreFails /\ mk' = [mk EXCEPT ![j] = EndMk(@, "incomplete")]
          /\ UNCHANGED envelope
    /\ UNCHANGED <<now, row, run, ctl, sent>>

Create(j) ==
    \/ AddRow(j) \/ CreateAudit(j) \/ Unadd(j) \/ CreateStop(j) \/ CreateStopCas(j)
    \/ CreateCheck(j) \/ CreateDelete(j) \/ CreateUnput(j)

-----------------------------------------------------------------------------
(* The clock, the process, and the whole.                                  *)

Tick ==
    /\ now < MaxTime
    /\ now' = now + 1
    /\ UNCHANGED <<row, envelope, run, ctl, mk, left, sent>>

\* The server process ends and is started again: threads are lost where they
\* stand, the three databases are as committed.
Restart ==
    /\ left.crashes > 0 /\ left' = [left EXCEPT !.crashes = @ - 1]
    /\ run' = [IdleRun EXCEPT !.pc = "boot"]
    /\ ctl' = [c \in Controls |-> IdleCtl]
    /\ mk' = [j \in Jobs |-> IF mk[j].pc \in {"new", "made", "refused", "incomplete"} THEN mk[j]
                             ELSE EndMk(mk[j], "lost")]
    /\ UNCHANGED <<now, row, envelope, sent>>

RunOnce ==
    \/ StartBatch \/ ClaimDue \/ TakeNext \/ BatchDone \/ Undo \/ Undo2 \/ Raise \/ PurgeExpired
    \/ StartWork \/ Classify \/ Send \/ AckLoad \/ AckRecord \/ AckAudit \/ AckRevert
    \/ RunStop \/ RunStopCas
    \/ Refresh \/ Complete \/ CompleteAudit \/ Clean \/ CleanDelete
    \/ RetryInterrupt \/ RetryAudit \/ RetryNext \/ RetryAttempt \/ RetrySchedule
    \/ RetryScheduleAudit \/ RetryPause \/ Exhaust \/ ExhaustAudit
    \/ Suppressed \/ QuietInterrupt \/ QuietAudit \/ QuietNext \/ QuietSchedule
    \/ QuietScheduleAudit

Recover ==
    \/ RecoverList \/ RecoverInterrupt \/ RecoverInterruptAudit \/ RecoverInterruptPause
    \/ RecoverListAgain \/ RecoverSchedule \/ RecoverScheduleAudit
    \/ RecoverSchedulePause \/ RecoverDone

Init ==
    /\ now = 0
    /\ row = [j \in Jobs |-> NoRow]
    /\ envelope = [j \in Jobs |-> 0]
    /\ run = [IdleRun EXCEPT !.pc = "boot"]
    /\ ctl = [c \in Controls |-> IdleCtl]
    /\ mk = [j \in Jobs |-> NewMk]
    /\ left = [requests |-> MaxRequests, crashes |-> MaxCrashes,
               audit |-> MaxAuditFaults, store |-> MaxStoreFaults]
    /\ sent = [j \in Jobs |-> {}]

Next ==
    \/ RunOnce \/ Recover
    \/ \E c \in Controls : Control(c)
    \/ \E j \in Jobs : Schedule(j) \/ Create(j)
    \/ Tick \/ Restart

Spec == Init /\ [][Next]_vars

\* The runner loop and every started request go on being scheduled, and time
\* passes; nobody has to schedule a job or ask for anything.
FairSpec ==
    /\ Spec
    /\ WF_vars(RunOnce) /\ WF_vars(Recover) /\ WF_vars(Tick)
    /\ \A j \in Jobs : WF_vars(Create(j))
=============================================================================
