--------------------------- MODULE DocumentTasks ---------------------------
(***************************************************************************)
(* Document tasks: the ledger (core/tasks), the workflow that explains a   *)
(* selected document (core/document_service.py) and the handlers that run  *)
(* it (core/server.py).                                                    *)
(*                                                                         *)
(* A confirmed task is worked on by a thread that no request can stop; the *)
(* asyncio job around it only decides whether the answer is sent.  Threads *)
(* and requests meet in the ledger, whose every change is a swap from an   *)
(* expected status.                                                        *)
(***************************************************************************)
EXTENDS Naturals, FiniteSets

CONSTANTS
    Conns, Starters,         \* connections of the owner, and (a bound) those of them
                             \* that prepare, confirm and ask, not only cancel
    Roots, Children,         \* ids of document tasks and of follow-up tasks
    Jobs,                    \* jobs the server starts
    Providers,               \* the providers selected for every root
    NoConn, NoTask, NoProvider,
    MaxAttempts,             \* bound: starts of a task
    MaxCancels,              \* bound: cancellations served at a time
    MaxFaults                \* bound: crashes and store errors

Tasks == Roots \cup Children

ASSUME DocumentNames ==
    /\ Starters \subseteq Conns
    /\ Roots \cap Children = {} /\ NoTask \notin Tasks
    /\ NoConn \notin Conns /\ NoProvider \notin Providers
ASSUME DocumentBounds == MaxAttempts \in Nat /\ MaxCancels \in Nat /\ MaxFaults \in Nat

VARIABLES
    task,      \* task_intents: status, attempt_count, parent_task_id
    selected,  \* DocumentBridgeServer._document_selections
    job,       \* the threads; "conn" while _document_jobs holds the job, too
    req,       \* per connection: a document_cancel being served
    audit,     \* action_audit: provider.send_document of the latest attempt; "decided":
               \* its result is recorded at once, or never
    readAudit, \* action_audit: document.read of the latest attempt
    faults,    \* history: crashes and store errors so far
    late,      \* history: provider calls begun after the task was cancelled
    answered,  \* history: tasks whose cancellation was answered
    explained  \* history: tasks whose explanation was sent

documentVars == <<task, selected, job, req, audit, readAudit, faults, late, answered,
                  explained>>
ledger == <<task, audit, readAudit>>
history == <<late, answered, explained>>

NoRow == [status |-> "none", attempt |-> 0, parent |-> NoTask]
Queued(parent) == [status |-> "queued", attempt |-> 0, parent |-> parent]
NoJob == [pc |-> "new", conn |-> NoConn, task |-> NoTask, attempt |-> 0, seen |-> "none",
          prov |-> NoProvider, tried |-> {}, text |-> FALSE, unaudited |-> FALSE]
Ended == [NoJob EXCEPT !.pc = "done"]
NoReq == [pc |-> "idle", task |-> NoTask, seen |-> "none"]

Status(j) == task[job[j].task].status
Root(t) == IF task[t].parent = NoTask THEN t ELSE task[t].parent
Goto(j, pc) == job' = [job EXCEPT ![j].pc = pc]

\* A job is registered under its connection and the root of its task.
Registered(c, t) == \E j \in Jobs : job[j].conn = c /\ Root(job[j].task) = Root(t)

\* Mutant: the threads end with their jobs.
MutAbandon(cancelled) ==
    job' = [j \in Jobs |-> IF j \in cancelled THEN Ended ELSE job[j]]

\* job.cancel(): a thread that has started goes on, one still queued need not start.
Abandon(cancelled) ==
    \E unstarted \in SUBSET {j \in cancelled : job[j].pc = "begin"} :
        job' = [j \in Jobs |->
                  IF j \notin cancelled THEN job[j] ELSE IF j \in unstarted THEN Ended
                  ELSE [job[j] EXCEPT !.conn = NoConn]]

-----------------------------------------------------------------------------
(* Requests.                                                               *)

\* document_prepare: the selection is kept, nothing is opened.
Prepare(c, t) ==
    /\ req[c].pc = "idle"
    /\ t \in Roots /\ task[t].status = "none"
    /\ task' = [task EXCEPT ![t] = Queued(NoTask)]
    /\ selected' = selected \cup {t}
    /\ UNCHANGED <<job, req, audit, readAudit, faults, history>>

\* _start_document_job: one job of a connection for a root.
StartJob(c, t) ==
    IF Registered(c, t) THEN UNCHANGED job
    ELSE \E j \in Jobs : /\ job[j].pc = "new"
                         /\ job' = [job EXCEPT ![j].pc = "begin", ![j].conn = c,
                                               ![j].task = t]

\* document_confirm
Confirm(c, t) ==
    /\ req[c].pc = "idle"
    /\ t \in Roots \cap selected
    /\ StartJob(c, t)
    /\ UNCHANGED <<ledger, selected, req, faults, history>>

\* document_follow_up: the child is queued, and stays so if the job is refused.
FollowUp(c, r, t) ==
    /\ req[c].pc = "idle"
    /\ r \in Roots \cap selected /\ task[r].status = "completed"
    /\ t \in Children /\ task[t].status = "none"
    /\ task' = [task EXCEPT ![t] = Queued(r)]
    /\ IF \E j \in Jobs : job[j].conn = c /\ Root(job[j].task) = r THEN UNCHANGED job
       ELSE \E j \in Jobs : /\ job[j].pc = "new"
                            /\ job' = [job EXCEPT ![j].pc = "begin", ![j].conn = c,
                                                  ![j].task = t]
    /\ UNCHANGED <<selected, req, audit, readAudit, faults, history>>

\* document_cancel: cancel_task reads the row ...
CancelRead(c, t) ==
    /\ Cardinality({d \in Conns : req[d].pc # "idle"}) < MaxCancels
    /\ req[c].pc = "idle" /\ task[t].status \notin {"none", "completed"}
    /\ req' = [req EXCEPT ![c] = [pc |-> "cancel", task |-> t, seen |-> task[t].status]]
    /\ UNCHANGED <<ledger, selected, job, faults, history>>

\* ... and swaps from the status read; a second cancel is answered as the first.
CancelSwap(c) ==
    LET t == req[c].task
    IN  /\ req[c].pc = "cancel"
        /\ IF task[t].status = req[c].seen
           THEN /\ task' = [task EXCEPT ![t].status = "cancelled"]
                /\ req' = [req EXCEPT ![c].pc = "cancelled"]
           ELSE /\ req' = [req EXCEPT ![c] = NoReq]
                /\ UNCHANGED task
        /\ UNCHANGED <<selected, job, audit, readAudit, faults, history>>

\* The answer, and the end of the connection's job for the task: its thread goes on.
CancelAnswer(c) ==
    LET t == req[c].task
    IN  /\ req[c].pc = "cancelled"
        /\ answered' = answered \cup {t}
        /\ Abandon({j \in Jobs : job[j].conn = c /\ job[j].task = t})
        /\ req' = [req EXCEPT ![c] = NoReq]
        /\ UNCHANGED <<ledger, selected, faults, late, explained>>

\* A lost connection: its jobs are cancelled, their threads go on.
Disconnect(c) ==
    /\ req[c].pc = "idle" /\ \E j \in Jobs : job[j].conn = c
    /\ Abandon({j \in Jobs : job[j].conn = c})
    /\ UNCHANGED <<ledger, selected, req, faults, history>>

-----------------------------------------------------------------------------
(* A thread: confirm_and_explain, or execute_follow_up for a child.        *)

\* Mutant: a task that is running may be confirmed again.
MutRetryable == {"failed", "interrupted", "running"}

Retryable == {"failed", "interrupted"}

Begin(j) ==
    LET t == job[j].task
    IN  /\ job[j].pc = "begin"
        /\ job' = [job EXCEPT ![j].seen = Status(j),
              ![j].pc = IF Status(j) = "queued" THEN "start"
                        ELSE IF t \in Roots /\ Status(j) \in Retryable THEN "retry"
                        ELSE "answer"]
        /\ UNCHANGED <<ledger, selected, req, faults, history>>

\* retry_task, a swap from the status read.
Retry(j) ==
    LET same == Status(j) = job[j].seen
    IN  /\ job[j].pc = "retry"
        /\ task' = IF same THEN [task EXCEPT ![job[j].task].status = "queued"] ELSE task
        /\ Goto(j, IF same THEN "start" ELSE "answer")
        /\ UNCHANGED <<selected, req, audit, readAudit, faults, history>>

\* start_task; a cancelled child never gets further.
Start(j) ==
    LET t == job[j].task
    IN  /\ job[j].pc = "start"
        /\ IF Status(j) = "queued"
           THEN /\ task[t].attempt < MaxAttempts
                /\ task' = [task EXCEPT ![t].status = "running", ![t].attempt = @ + 1]
                /\ job' = [job EXCEPT ![j].pc = IF t \in Roots THEN "read" ELSE "provider",
                                      ![j].attempt = task[t].attempt + 1]
                /\ audit' = [audit EXCEPT ![t] = [p \in Providers |-> "none"]]
                /\ readAudit' = [readAudit EXCEPT ![t] = "none"]
           ELSE Goto(j, "answer") /\ UNCHANGED ledger
        /\ UNCHANGED <<selected, req, faults, history>>

\* Grant, decision, reader and result audit of document.read ("unread": no grant, or
\* the file cannot be read).
ReadDocument(j) ==
    LET t == job[j].task
    IN  /\ job[j].pc = "read"
        /\ \E outcome \in {"read", "unread", "unaudited", "denied"} :
              /\ readAudit' = [readAudit EXCEPT ![t] =
                    CASE outcome = "read" -> "success" [] outcome = "unaudited" -> "open"
                      [] OTHER -> "failed"]
              /\ Goto(j, CASE outcome = "read" -> "progress" [] outcome = "denied" -> "interrupt"
                           [] OTHER -> "fail")
        /\ UNCHANGED <<task, selected, req, audit, faults, history>>

\* Mutant: the task's status is not read again on the way to a provider.
MutStillRunning(j) == TRUE

StillRunning(j) == Status(j) = "running"

\* update_progress compares the stamp it read: nothing comes in between.
Progress(j) ==
    /\ job[j].pc = "progress"
    /\ Goto(j, IF Status(j) # "running" THEN "answer"
               ELSE IF job[j].text THEN "verify" ELSE "provider")
    /\ UNCHANGED <<ledger, selected, req, faults, history>>

\* generate_document: the next provider, unless the audit failed; authorize reads
\* the task before the grant is issued ...
TryProvider(j) ==
    /\ job[j].pc = "provider" /\ ~job[j].unaudited
    /\ \E p \in Providers \ job[j].tried :
          job' = [job EXCEPT ![j].tried = @ \cup {p}, ![j].prov = p,
                             ![j].pc = IF StillRunning(j) THEN "grant" ELSE "provider"]
    /\ UNCHANGED <<ledger, selected, req, faults, history>>

\* ... the grant is issued, consumed and the decision recorded: allowed, denied, or no
\* grant is issued ...
Grant(j) ==
    /\ job[j].pc = "grant"
    /\ \E outcome \in {"open", "decided", "none"} :
          /\ audit' = [audit EXCEPT ![job[j].task][job[j].prov] = outcome]
          /\ Goto(j, CASE outcome = "open" -> "recheck" [] outcome = "decided" -> "refuse"
                       [] OTHER -> "provider")
    /\ UNCHANGED <<task, selected, req, readAudit, faults, history>>

\* ... and the task is read again.
Recheck(j) ==
    /\ job[j].pc = "recheck"
    /\ IF StillRunning(j) THEN Goto(j, "send") /\ UNCHANGED audit
       ELSE /\ audit' = [audit EXCEPT ![job[j].task][job[j].prov] = "decided"]
            /\ Goto(j, "withdraw")
    /\ UNCHANGED <<task, selected, req, readAudit, faults, history>>

\* A provider that is not to be called: the result is recorded, or the audit has failed.
\* It is tried this once.
Refuse(j) ==
    /\ job[j].pc \in {"refuse", "withdraw"}
    /\ \E failed \in BOOLEAN :
          /\ audit' = [audit EXCEPT ![job[j].task][job[j].prov] =
                IF failed THEN @ ELSE IF job[j].pc = "refuse" THEN "failed" ELSE "cancelled"]
          /\ job' = [job EXCEPT ![j].pc = "provider", ![j].unaudited = failed]
    /\ UNCHANGED <<task, selected, req, readAudit, faults, history>>

\* The provider call.
Send(j) ==
    LET t == job[j].task
    IN  /\ job[j].pc = "send"
        /\ late' = [late EXCEPT ![t] = IF Status(j) = "cancelled" THEN @ + 1 ELSE @]
        /\ \E text \in BOOLEAN :
              job' = [job EXCEPT ![j].text = text, ![j].pc = IF text THEN "audit" ELSE "provider"]
        /\ UNCHANGED <<ledger, selected, req, faults, answered, explained>>

\* No provider is left to be tried (those not tried were unavailable).
GiveUp(j) ==
    /\ job[j].pc = "provider"
    /\ Goto(j, "audit")
    /\ UNCHANGED <<ledger, selected, req, faults, history>>

\* Mutant: what became of the audit does not matter.
MutAudited(j, failed) == TRUE

Audited(j, failed) == ~job[j].unaudited /\ failed = {}

\* The open audits are closed; then the task is read again.
AuditResults(j) ==
    LET t == job[j].task
        open == {p \in Providers : audit[t][p] = "open"}
    IN  /\ job[j].pc = "audit"
        /\ \E failed \in SUBSET open :
              /\ audit' = [audit EXCEPT ![t] = [p \in Providers |->
                    IF p \notin open \ failed THEN audit[t][p]
                    ELSE IF p = job[j].prov /\ job[j].text THEN "success" ELSE "failed"]]
              /\ job' = [job EXCEPT ![j].tried = {}, ![j].prov = NoProvider,
                    ![j].unaudited = FALSE,
                    ![j].pc = IF ~Audited(j, failed) THEN "interrupt"
                              ELSE IF Status(j) # "running" THEN "answer"
                              ELSE IF job[j].text THEN "progress" ELSE "interrupt"]
        /\ UNCHANGED <<task, selected, req, readAudit, faults, history>>

\* begin_verification
Verify(j) ==
    /\ job[j].pc = "verify"
    /\ task' = IF Status(j) = "running"
               THEN [task EXCEPT ![job[j].task].status = "verifying"] ELSE task
    /\ Goto(j, IF Status(j) = "running" THEN "complete" ELSE "answer")
    /\ UNCHANGED <<selected, req, audit, readAudit, faults, history>>

\* Mutant: the swap expects no status.
MutComplete(j) ==
    /\ job[j].pc = "complete"
    /\ task' = [task EXCEPT ![job[j].task].status = "completed"]
    /\ Goto(j, "explain")
    /\ UNCHANGED <<selected, req, audit, readAudit, faults, history>>

\* complete_task
Complete(j) ==
    /\ job[j].pc = "complete"
    /\ task' = IF Status(j) = "verifying"
               THEN [task EXCEPT ![job[j].task].status = "completed"] ELSE task
    /\ Goto(j, IF Status(j) = "verifying" THEN "explain" ELSE "answer")
    /\ UNCHANGED <<selected, req, audit, readAudit, faults, history>>

\* fail_task and interrupt_task: the row is read ...
GiveBackRead(j) ==
    /\ job[j].pc \in {"fail", "interrupt"}
    /\ job' = IF Status(j) \in {"running", "verifying"} \cup
                               (IF job[j].pc = "fail" THEN {"queued"} ELSE {})
              THEN [job EXCEPT ![j].pc = IF @ = "fail" THEN "failing" ELSE "interrupting",
                               ![j].seen = Status(j)]
              ELSE [job EXCEPT ![j].pc = "answer"]
    /\ UNCHANGED <<ledger, selected, req, faults, history>>

\* ... and swapped from the status read.
GiveBackSwap(j) ==
    /\ job[j].pc \in {"failing", "interrupting"}
    /\ task' = IF Status(j) = job[j].seen
               THEN [task EXCEPT ![job[j].task].status =
                        IF job[j].pc = "failing" THEN "failed" ELSE "interrupted"]
               ELSE task
    /\ Goto(j, "answer")
    /\ UNCHANGED <<selected, req, audit, readAudit, faults, history>>

\* Back on the event loop: the root is read, and the answer sent unless the root or
\* the job was cancelled or the connection lost.
Answer(j) ==
    LET t == job[j].task
    IN  /\ job[j].pc \in {"answer", "explain"}
        /\ explained' = IF /\ job[j].pc = "explain" /\ job[j].conn # NoConn
                           /\ task[Root(t)].status # "cancelled"
                        THEN explained \cup {t} ELSE explained
        /\ job' = [job EXCEPT ![j] = Ended]
        /\ UNCHANGED <<ledger, selected, req, faults, late, answered>>

-----------------------------------------------------------------------------
(* Faults.                                                                 *)

\* A store raises: the router takes it for a refused provider, and goes on to the next
\* one whatever was recorded of this; anywhere else it ends the thread and leaves the
\* task as it is.
StoreError(j) ==
    /\ faults < MaxFaults
    /\ job[j].pc \notin {"new", "provider", "send", "explain", "answer", "done"}
    /\ faults' = faults + 1
    /\ Goto(j, IF job[j].pc \in {"grant", "recheck", "refuse", "withdraw"} THEN "provider"
               ELSE "answer")
    /\ UNCHANGED <<ledger, selected, req, history>>

\* The process stops.  Nothing at start-up looks for unfinished tasks, and the
\* selections are gone.
Crash ==
    /\ faults < MaxFaults
    /\ faults' = faults + 1
    /\ selected' = {}
    /\ job' = [j \in Jobs |-> IF job[j].pc = "new" THEN job[j] ELSE Ended]
    /\ req' = [c \in Conns |-> NoReq]
    /\ UNCHANGED <<ledger, history>>

Init ==
    /\ task = [t \in Tasks |-> NoRow]
    /\ selected = {}
    /\ job = [j \in Jobs |-> NoJob]
    /\ req = [c \in Conns |-> NoReq]
    /\ audit = [t \in Tasks |-> [p \in Providers |-> "none"]]
    /\ readAudit = [t \in Tasks |-> "none"]
    /\ faults = 0
    /\ late = [t \in Tasks |-> 0]
    /\ answered = {} /\ explained = {}

Work(j) ==
    \/ Begin(j) \/ Retry(j) \/ Start(j) \/ ReadDocument(j) \/ Progress(j)
    \/ TryProvider(j) \/ Grant(j) \/ Recheck(j) \/ Refuse(j) \/ Send(j) \/ GiveUp(j)
    \/ AuditResults(j) \/ Verify(j) \/ Complete(j)
    \/ GiveBackRead(j) \/ GiveBackSwap(j) \/ Answer(j)

Serve(c) ==
    \/ /\ c \in Starters
       /\ \/ \E t \in Tasks : Prepare(c, t) \/ Confirm(c, t)
          \/ \E r \in Roots, t \in Children : FollowUp(c, r, t)
    \/ \E t \in Tasks : CancelRead(c, t)
    \/ CancelSwap(c) \/ CancelAnswer(c) \/ Disconnect(c)

Next ==
    \/ \E c \in Conns : Serve(c)
    \/ \E j \in Jobs : Work(j) \/ StoreError(j)
    \/ Crash

Spec == Init /\ [][Next]_documentVars

\* Threads run, and provider calls and stores answer within their time-outs.
FairSpec == Spec /\ \A j \in Jobs : WF_documentVars(Work(j))
=============================================================================
