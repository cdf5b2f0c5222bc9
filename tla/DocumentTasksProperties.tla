---------------------- MODULE DocumentTasksProperties ----------------------
(* What the document workflow promises. *)
EXTENDS DocumentTasks

\* The thread has started its task and not yet given it back.
Inside(j) ==
    job[j].pc \in {"read", "progress", "provider", "grant", "recheck", "refuse",
                   "withdraw", "send", "audit", "verify", "complete", "fail", "failing",
                   "interrupt", "interrupting"}

\* The ledger's swaps compare the status alone (update_progress apart), and threads
\* outlive their jobs, connections and retries: a thread that works on an attempt
\* finds it as it left it, or cancelled.  No second thread ever works on it.
OwnAttempt ==
    \A j \in Jobs : Inside(j) =>
        /\ Status(j) = "cancelled"
           \/ /\ Status(j) = (IF job[j].pc = "complete" THEN "verifying" ELSE "running")
              /\ task[job[j].task].attempt = job[j].attempt
        /\ \A k \in Jobs \ {j} : Inside(k) => job[k].task # job[j].task

\* docs/THREAT_MODEL.md: cancellation and task state are rechecked before egress.  A
\* cancelled task costs one provider call at most, the one already past its recheck,
\* whatever providers were still to be tried, and a task cancelled before it was
\* started costs none.
EgressEnds ==
    \A t \in Tasks : /\ late[t] <= 1
                     /\ late[t] = 1 => task[t].attempt > 0

\* WP-107: an explanation is kept only if its reading and every provider that may have
\* been sent the document have their result in the audit, exactly one of them a success.
\* Only a refusal may lack its result, and only after a store raised: the router takes
\* the exception for a refused provider, and the next one may succeed.
CompletedIsAudited ==
    \A t \in Tasks : task[t].status = "completed" =>
        /\ t \in Roots => readAudit[t] = "success"
        /\ \A p \in Providers : /\ audit[t][p] # "open"
                                /\ audit[t][p] = "decided" => faults # 0
        /\ \E p \in Providers : {q \in Providers : audit[t][q] = "success"} = {p}

\* A cancellation that was answered stands: no thread, retry or follow-up revives the
\* task, and its explanation was not and will not be shown.
CancelStands ==
    \A t \in answered : /\ task[t].status = "cancelled"
                        /\ t \notin explained

\* Without faults every started task is settled, be its connection lost, its job
\* cancelled or its providers silent: nothing else would ever end it.
StartedIsSettled ==
    \A t \in Tasks :
        [](faults = 0) => (task[t].status \in {"running", "verifying"}
                           ~> task[t].status \notin {"running", "verifying"})
=============================================================================
