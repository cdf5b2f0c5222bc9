----------------------- MODULE ScheduledJobsProperties -----------------------
(* What scheduled jobs promise: the properties the runs check and the      *)
(* proofs establish.                                                       *)
EXTENDS ScheduledJobs

RunPcs ==
    {"boot", "rint", "rintaudit", "rintpause", "rsched", "rschedaudit", "rschedpause",
     "off", "idle", "claim", "take", "undo", "undo2", "purge", "work", "classify", "send",
     "ack", "ackcas", "ackaudit", "ackrevert", "stop", "stopcas", "done", "complete",
     "completeaudit", "clean", "cleandel", "fail", "retryaudit", "retrynext", "retryatt",
     "retrysched", "retryschedaudit", "retrypause", "exhaustaudit", "suppressed",
     "quiet", "quietaudit", "quietnext", "quietsched", "quietschedaudit"}

CtlPcs == {"idle", "reread", "cas", "audit", "unresume", "stop", "stopcas", "remove"}

MkPcs == {"new", "put", "added", "unadd", "stop", "stopcas", "check", "delete",
          "unput", "unput2", "made", "refused", "incomplete", "lost"}

Offsets == ClientOffsets \cup {ZoneOffset, 0}

Rows == [state : States \cup {"none"}, at : Nat, next : Nat, off : Offsets, att : Nat,
         fp : Fps \cup {NoFp}]

RunThread ==
    [pc : RunPcs, todo : SUBSET Jobs, job : Jobs \cup {NoJob}, seen : [Jobs -> Rows],
     held : Rows, ts : Nat, claimed : Nat, cand : Fps \cup {NoFp}, tries : Nat,
     failed : BOOLEAN]

CtlThread ==
    [pc : CtlPcs, op : {"pause", "resume", "cancel"}, job : Jobs \cup {NoJob},
     held : Rows, from : States \cup {"none"}, ts : Nat, tries : Nat]

MkThread == [pc : MkPcs, next : Nat, off : Offsets, ts : Nat, held : Rows, tries : Nat]

\* Type correctness of every variable: every thread's program counter, row
\* snapshot and stamp is one the code can produce.
TypeOK ==
    /\ now \in Nat
    /\ row \in [Jobs -> Rows]
    /\ envelope \in [Jobs -> Nat]
    /\ run \in RunThread
    /\ ctl \in [Controls -> CtlThread]
    /\ mk \in [Jobs -> MkThread]
    /\ left \in [requests : Nat, crashes : Nat, audit : Nat, store : Nat]
    /\ sent \in [Jobs -> SUBSET Fps]

-----------------------------------------------------------------------------
(* Safety.                                                                 *)

\* Whatever the threads race to write, a job that was completed, failed or
\* cancelled stays so: no stale claim, retry, resume or recovery revives it.
TerminalIsFinal ==
    [][\A j \in Jobs : row[j].state \in Terminal => row'[j].state = row[j].state]_vars

\* The owner's pause holds: a paused row changes only through the owner's own
\* requests (or the stop of a creation that failed), never through the runner's
\* stale snapshots nor through recovery.
PauseIsRespected ==
    [][\A j \in Jobs : row[j].state = "paused" /\ row'[j] # row[j]
          => run' = run /\ (ctl' # ctl \/ mk' # mk)]_vars

\* The stored attempt count never reaches max_attempts, so the store's
\* RetryBudgetExhausted is never what stops a job.
AttemptsWithinBudget == \A j \in Jobs : row[j].att < MaxAttempts

\* A row is running only while the one runner thread holds its claim: once a
\* batch is over every row it claimed was settled, given back or stopped.
RunningIsHeld ==
    \A j \in Jobs : row[j].state = "running" =>
        run.pc \in {"boot", "rint", "off"} \/ j \in run.todo \/ run.job = j

\* The retained input of a job that can still run is there until it expires:
\* the two databases are written in an order that no interleaving of creation,
\* purge, cancel and completion turns into a job without its input.
InputRetained ==
    \A j \in Jobs : Exists(j) /\ row[j].state \notin Terminal /\ mk[j].pc \in {"made", "lost"}
        => envelope[j] # 0 \/ mk[j].next + Grace <= now

\* A creation answered as plainly refused left neither a row nor an input behind,
\* whoever claimed, paused or cancelled the row while it was being taken back.
RefusedLeavesNothing ==
    \A j \in Jobs : mk[j].pc = "refused" =>
        ~Exists(j) /\ envelope[j] = 0

\* The machine of threads and stores implements the owner's view of a job.
Lifecycle == INSTANCE JobLifecycle WITH
    state <- [j \in Jobs |-> row[j].state],
    att   <- [j \in Jobs |-> row[j].att],
    fp    <- [j \in Jobs |-> row[j].fp]

ImplementsLifecycle == Lifecycle!Spec

-----------------------------------------------------------------------------
(* Liveness, under the fairness of the runner loop and while stores work.  *)

\* A job that was claimed or interrupted does not stay so: over a crash and
\* over any race it is settled, given back or stopped.
ClaimsAreSettled ==
    \A j \in Jobs : row[j].state \in {"running", "interrupted"}
        ~> row[j].state \notin {"running", "interrupted"}

\* A due job is run, unless its owner stops it first, and whatever zones its run
\* time was written in meanwhile: it is due when the clock reaches the text of
\* that time, which is as much too late (or too early) as the zone is ahead of
\* UTC (or behind it), and never longer.
DueIsClaimed ==
    \A j \in Jobs : row[j].state = "scheduled" /\ NextText(row[j]) <= now
        ~> row[j].state # "scheduled" \/ NextText(row[j]) > now

\* Every retained input that expired is deleted, also the ones no job points to
\* after a crash during creation or a client that left during cancel.
ExpiredInputsGo ==
    \A j \in Jobs : envelope[j] # 0 /\ envelope[j] <= now ~> envelope[j] = 0
=============================================================================
