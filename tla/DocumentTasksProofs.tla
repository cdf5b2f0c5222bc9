------------------------- MODULE DocumentTasksProofs -------------------------
(***************************************************************************)
(* Proofs about document tasks, for every number of connections, tasks,    *)
(* threads and providers and every bound: a thread works on the attempt it *)
(* started and works on it alone, a cancelled task costs one provider call *)
(* at most, what is kept is audited, and a cancellation stands.            *)
(*                                                                         *)
(* Every swap of the ledger expects a status.  What makes that enough is   *)
(* that "cancelled" and "completed" are never left, and that only the      *)
(* thread inside a task takes it out of "running" and "verifying".         *)
(***************************************************************************)
EXTENDS DocumentTasksProperties, TLAPS

Statuses == {"none", "queued", "running", "verifying", "completed", "failed",
             "interrupted", "cancelled"}
Working == {"read", "progress", "provider", "grant", "recheck", "refuse", "withdraw",
            "send", "audit", "verify", "complete", "fail", "failing", "interrupt",
            "interrupting"}

Rows == [status : Statuses, attempt : Nat, parent : Tasks \cup {NoTask}]
Threads == [pc : {"new", "begin", "retry", "start", "answer", "explain", "done"} \cup Working,
            conn : Conns \cup {NoConn}, task : Tasks \cup {NoTask}, attempt : Nat,
            seen : Statuses, prov : Providers \cup {NoProvider},
            tried : SUBSET Providers, text : BOOLEAN, unaudited : BOOLEAN]
Requests == [pc : {"idle", "cancel", "cancelled"}, task : Tasks \cup {NoTask},
             seen : Statuses]
Results == {"none", "open", "decided", "failed", "cancelled", "success"}

\* Types of the stores, the threads and the requests, and the tasks they are about.
TypeInv ==
    /\ task \in [Tasks -> Rows]
    /\ job \in [Jobs -> Threads] /\ req \in [Conns -> Requests]
    /\ \A j \in Jobs : job[j].pc \notin {"new", "done"} => job[j].task \in Tasks
    /\ \A c \in Conns : req[c].pc # "idle" => req[c].task \in Tasks
    /\ audit \in [Tasks -> [Providers -> Results]]
    /\ readAudit \in [Tasks -> {"none", "open", "failed", "success"}]
    /\ late \in [Tasks -> Nat]
    /\ answered \in SUBSET Tasks /\ explained \in SUBSET Tasks

\* The attempt a thread is inside of is its own.
AttemptOK(j) ==
    Inside(j) =>
       LET row == task[job[j].task]
       IN  /\ row.attempt > 0
           /\ row.status = "cancelled"
              \/ /\ row.status = IF job[j].pc = "complete" THEN "verifying" ELSE "running"
                 /\ row.attempt = job[j].attempt

\* What the audit holds of a kept explanation, whatever the stores do.
AuditsClosed(t) ==
    /\ t \in Roots => readAudit[t] = "success"
    /\ \A p \in Providers : audit[t][p] # "open"
    /\ \E p \in Providers : {q \in Providers : audit[t][q] = "success"} = {p}

\* What the audit holds while providers are tried, and once one has answered.
AuditOK(j) ==
    LET t == job[j].task
        pc == job[j].pc
        kept == pc \in {"verify", "complete"} \/ (pc = "progress" /\ job[j].text)
        tried == pc \in {"provider", "grant", "recheck", "refuse", "withdraw", "send", "audit"}
    IN  /\ pc \in {"new", "begin", "retry", "start", "read", "provider", "grant", "recheck",
                 "refuse", "withdraw", "send"} => ~job[j].text
        /\ pc \in {"grant", "recheck", "refuse", "withdraw", "send"} =>
              job[j].prov \in Providers
        /\ pc \in {"recheck", "send"} => audit[t][job[j].prov] = "open"
        /\ pc = "audit" /\ job[j].text => /\ job[j].prov \in Providers
                                          /\ audit[t][job[j].prov] = "open"
        /\ tried \/ pc = "read" \/ (pc = "progress" /\ ~job[j].text) =>
              \A p \in Providers : audit[t][p] # "success"
        /\ kept => AuditsClosed(t)
        /\ tried \/ kept \/ pc = "progress" => (t \in Roots => readAudit[t] = "success")

\* The status a thread compares with when it swaps.
SeenOK(j) ==
    /\ job[j].pc = "retry" => job[j].seen \in Retryable
    /\ job[j].pc \in {"failing", "interrupting"} => job[j].seen = "running"
    /\ job[j].pc = "explain" => Status(j) = "completed"

ThreadOK(j) == AttemptOK(j) /\ AuditOK(j) /\ SeenOK(j)

\* One thread inside a task.
Alone ==
    \A j, k \in Jobs : Inside(j) /\ Inside(k) /\ job[j].task = job[k].task => j = k

\* The one late call has been made: there is no thread about to make another.
LateOK ==
    \A t \in Tasks :
        /\ late[t] \in {0, 1}
        /\ late[t] = 1 =>
              /\ task[t].status = "cancelled" /\ task[t].attempt > 0
              /\ \A j \in Jobs : job[j].pc = "send" => job[j].task # t

KeptOK == \A t \in Tasks : task[t].status = "completed" => AuditsClosed(t)

CancelsOK ==
    /\ \A t \in answered : task[t].status = "cancelled"
    /\ \A t \in explained : task[t].status = "completed"
    /\ \A c \in Conns :
          /\ req[c].pc = "cancel" => req[c].seen \notin {"none", "completed"}
          /\ req[c].pc = "cancelled" => task[req[c].task].status = "cancelled"

Inv == /\ TypeInv /\ (\A j \in Jobs : ThreadOK(j)) /\ Alone /\ LateOK
       /\ KeptOK /\ CancelsOK

-----------------------------------------------------------------------------
(* What a step keeps.                                                      *)

\* "cancelled" and "completed" are never left, and attempts are not taken back.
TasksKept ==
    \A t \in Tasks :
        /\ task[t].status \in {"cancelled", "completed"} => task'[t].status = task[t].status
        /\ task'[t].attempt >= task[t].attempt

\* A step of the thread j, at most on the row and the audits of its own task.  One
\* that is not inside may only touch a task nobody is inside of.
LEMMA ThreadStep ==
  ASSUME Inv, NEW j \in Jobs, NEW h \in Threads, job' = [job EXCEPT ![j] = h],
         NEW t \in Tasks, job[j].task = t, h.task = t, TypeInv',
         \A u \in Tasks : u # t => /\ task'[u] = task[u] /\ audit'[u] = audit[u]
                                   /\ readAudit'[u] = readAudit[u],
         TasksKept,
         \/ Inside(j)
         \/ task[t].status \notin {"running", "verifying", "cancelled"}
         \/ UNCHANGED ledger /\ h.pc \notin Working,
         ThreadOK(j)',
         UNCHANGED ledger \/ (task'[t].status = "completed" => AuditsClosed(t)'),
         \/ late' = late /\ (h.pc = "send" => task'[t].status # "cancelled")
         \/ /\ late' = [late EXCEPT ![t] = late[t] + 1] /\ job[j].pc = "send"
            /\ task[t].status = "cancelled" /\ h.pc # "send",
         UNCHANGED <<req, answered, explained>>
  PROVE  Inv'
  <1>1. \A k \in Jobs : job'[k] = IF k = j THEN h ELSE job[k] BY DEF Inv, TypeInv
  <1>2. \A k \in Jobs : Inside(k) <=> job[k].pc \in Working BY DEF Inside, Working
  <1>3. \A k \in Jobs : Inside(k)' <=> job'[k].pc \in Working BY DEF Inside, Working
  <1>4. ASSUME NEW k \in Jobs, k # j, Inside(k), job[k].task = t
        PROVE  UNCHANGED ledger /\ h.pc \notin Working
    <2>1. ~Inside(j) BY <1>4 DEF Inv, Alone
    <2>2. task[t].status \in {"running", "verifying", "cancelled"}
      BY <1>4 DEF Inv, ThreadOK, AttemptOK
    <2> QED BY <2>1, <2>2
  <1>5. ASSUME NEW k \in Jobs, k # j PROVE ThreadOK(k)'
    <2> DEFINE u == job[k].task
    <2>0. job'[k] = job[k] /\ ThreadOK(k) BY <1>1, <1>5 DEF Inv
    <2>1. CASE job[k].pc \in {"new", "done"}
      BY <2>0, <2>1 DEF ThreadOK, AttemptOK, AuditOK, SeenOK, Inside
    <2>2. CASE /\ task'[u] = task[u] /\ audit'[u] = audit[u] /\ readAudit'[u] = readAudit[u]
      BY <2>0, <2>2
      DEF ThreadOK, AttemptOK, AuditOK, AuditsClosed, SeenOK, Inside, Status
    <2>3. CASE u = t /\ ~Inside(k)
      BY <2>0, <2>3 DEF ThreadOK, AttemptOK, AuditOK, SeenOK, Inside, Status, TasksKept
    <2>4. CASE u = t /\ Inside(k)
      <3>1. UNCHANGED ledger BY <1>4, <1>5, <2>4
      <3> QED BY <2>2, <3>1 DEF ledger
    <2>5. job[k].pc \in {"new", "done"} \/ u \in Tasks BY DEF Inv, TypeInv
    <2> QED BY <2>1, <2>2, <2>3, <2>4, <2>5
  <1>6. \A k \in Jobs : ThreadOK(k)' BY <1>5
  <1>7. Alone'
    <2> SUFFICES ASSUME NEW i \in Jobs, NEW k \in Jobs, Inside(i)', Inside(k)',
                        job'[i].task = job'[k].task, i # k
                 PROVE  FALSE
      BY DEF Alone
    <2>1. CASE i # j /\ k # j BY <1>1, <1>2, <1>3, <2>1 DEF Inv, Alone
    <2>2. CASE i = j BY <1>1, <1>2, <1>3, <1>4, <2>2
    <2>3. CASE k = j BY <1>1, <1>2, <1>3, <1>4, <2>3
    <2> QED BY <2>1, <2>2, <2>3
  <1>8. LateOK'
    <2> SUFFICES ASSUME NEW u \in Tasks
                 PROVE  /\ late'[u] \in {0, 1}
                        /\ late'[u] = 1 =>
                              /\ task'[u].status = "cancelled" /\ task'[u].attempt > 0
                              /\ \A k \in Jobs : job'[k].pc = "send" => job'[k].task # u
      BY DEF LateOK
    <2>0. late[u] \in {0, 1} /\ task[u].attempt \in Nat /\ task'[u].attempt \in Nat
      BY DEF Inv, LateOK, TypeInv, Rows
    <2>1. CASE late'[u] = late[u] /\ (u = t => h.pc # "send" \/ late[t] = 0)
      <3>1. late[u] = 1 => /\ task[u].status = "cancelled" /\ task[u].attempt > 0
                           /\ \A k \in Jobs : job[k].pc = "send" => job[k].task # u
        BY DEF Inv, LateOK
      <3> QED BY <1>1, <2>0, <2>1, <3>1 DEF TasksKept
    <2>2. CASE /\ late' = [late EXCEPT ![t] = late[t] + 1] /\ job[j].pc = "send"
               /\ task[t].status = "cancelled" /\ h.pc # "send" /\ u = t
      <3>1. late[t] = 0 BY <2>0, <2>2 DEF Inv, LateOK
      <3>2. late'[t] = 1 BY <2>2, <3>1 DEF Inv, TypeInv
      <3>3. Inside(j) BY <2>2 DEF Inside
      <3>4. task[t].attempt > 0 BY <3>3 DEF Inv, ThreadOK, AttemptOK
      <3>5. ASSUME NEW k \in Jobs, job'[k].pc = "send" PROVE job'[k].task # t
        <4>1. k # j /\ job[k].pc = "send" BY <1>1, <2>2, <3>5
        <4>2. Inside(k) BY <4>1 DEF Inside
        <4> QED BY <1>1, <3>3, <4>1, <4>2 DEF Inv, Alone
      <3> QED BY <2>0, <2>2, <3>2, <3>4, <3>5 DEF TasksKept
    <2>3. late' = late /\ h.pc = "send" => late[t] = 0
      <3>1. late[t] = 1 => task[t].status = "cancelled" BY DEF Inv, LateOK
      <3>2. late[t] \in {0, 1} BY DEF Inv, LateOK
      <3> QED BY <3>1, <3>2 DEF TasksKept
    <2>4. u # t => late'[u] = late[u] BY DEF Inv, TypeInv
    <2> QED BY <2>1, <2>2, <2>3, <2>4
  <1>9. KeptOK'
    <2> SUFFICES ASSUME NEW u \in Tasks, task'[u].status = "completed"
                 PROVE  AuditsClosed(u)'
      BY DEF KeptOK, AuditsClosed
    <2>1. CASE task'[u] = task[u] /\ audit'[u] = audit[u] /\ readAudit'[u] = readAudit[u]
      BY <2>1 DEF Inv, KeptOK, AuditsClosed
    <2>2. CASE u = t /\ ~UNCHANGED ledger
      BY <2>2
    <2> QED BY <2>1, <2>2 DEF ledger
  <1>10. CancelsOK'
    <2>1. (\A u \in answered' : task'[u].status = "cancelled")
      BY DEF Inv, CancelsOK, TasksKept, TypeInv
    <2>2. (\A u \in explained' : task'[u].status = "completed")
      BY DEF Inv, CancelsOK, TasksKept, TypeInv
    <2>3. ASSUME NEW c \in Conns
          PROVE  /\ req'[c].pc = "cancel" => req'[c].seen \notin {"none", "completed"}
                 /\ req'[c].pc = "cancelled" => task'[req'[c].task].status = "cancelled"
      <3>1. req'[c] = req[c] OBVIOUS
      <3>2. req[c].pc = "cancelled" =>
               req[c].task \in Tasks /\ task[req[c].task].status = "cancelled"
        BY DEF Inv, CancelsOK, TypeInv
      <3>3. req[c].pc = "cancel" => req[c].seen \notin {"none", "completed"}
        BY DEF Inv, CancelsOK
      <3> QED BY <3>1, <3>2, <3>3 DEF TasksKept
    <2> QED BY <2>1, <2>2, <2>3 DEF CancelsOK
  <1> QED BY <1>6, <1>7, <1>8, <1>9, <1>10 DEF Inv

\* A step that is no thread's own: requests, the end of threads, a crash.
LEMMA RequestStep ==
  ASSUME Inv, TypeInv', CancelsOK', UNCHANGED <<audit, readAudit, late>>,
         \A k \in Jobs :
            \/ job'[k].pc \in {"new", "begin", "done"} /\ ~job'[k].text
            \/ /\ job'[k].pc = job[k].pc /\ job'[k].task = job[k].task
               /\ job'[k].attempt = job[k].attempt /\ job'[k].seen = job[k].seen
               /\ job'[k].prov = job[k].prov /\ job'[k].text = job[k].text,
         \A u \in Tasks :
            \/ task'[u] = task[u]
            \/ /\ task'[u].status = "cancelled" /\ task[u].status # "completed"
               /\ task'[u].attempt = task[u].attempt
            \/ task[u].status = "none" /\ task'[u].status = "queued"
  PROVE  Inv'
  <1>1. ASSUME NEW k \in Jobs PROVE ThreadOK(k)'
    <2> DEFINE u == job[k].task
    <2>0. ThreadOK(k) BY DEF Inv
    <2>1. CASE job'[k].pc \in {"new", "begin", "done"} /\ ~job'[k].text
      BY <2>1 DEF ThreadOK, AttemptOK, AuditOK, SeenOK, Inside
    <2>2. CASE /\ job'[k].pc = job[k].pc /\ job'[k].task = job[k].task
               /\ job'[k].attempt = job[k].attempt /\ job'[k].seen = job[k].seen
               /\ job'[k].prov = job[k].prov /\ job'[k].text = job[k].text
      <3>1. u \in Tasks \/ job[k].pc \in {"new", "done"} BY DEF Inv, TypeInv
      <3>2. AttemptOK(k)' BY <2>0, <2>2, <3>1 DEF ThreadOK, AttemptOK, Inside
      <3>3. AuditOK(k)' BY <2>0, <2>2, <3>1 DEF ThreadOK, AuditOK, AuditsClosed
      <3>4. SeenOK(k)' BY <2>0, <2>2, <3>1 DEF ThreadOK, SeenOK, Status
      <3> QED BY <3>2, <3>3, <3>4 DEF ThreadOK
    <2> QED BY <2>1, <2>2
  <1>2. \A k \in Jobs : Inside(k)' => Inside(k) /\ job'[k].task = job[k].task
    BY DEF Inside
  <1>3. Alone' BY <1>2 DEF Inv, Alone
  <1>4. \A k \in Jobs : job'[k].pc = "send" => job[k].pc = "send" /\ job'[k].task = job[k].task
    OBVIOUS
  <1>5. LateOK' BY <1>4 DEF Inv, LateOK
  <1>6. KeptOK' BY DEF Inv, KeptOK, AuditsClosed
  <1> QED BY <1>1, <1>3, <1>5, <1>6 DEF Inv

\* A step of a thread that changes nothing but the thread.
LEMMA QuietStep ==
  ASSUME Inv, NEW j \in Jobs, NEW h \in Threads, job' = [job EXCEPT ![j] = h],
         job[j].pc \notin {"new", "done"}, h.task = job[j].task,
         UNCHANGED <<ledger, req, history>>, ThreadOK(j)',
         Inside(j) \/ h.pc \notin Working,
         h.pc = "send" => Status(j) # "cancelled"
  PROVE  Inv'
  <1>1. job[j].task \in Tasks BY DEF Inv, TypeInv
  <1>2. TypeInv'
    <2>1. \A k \in Jobs : job'[k] = IF k = j THEN h ELSE job[k] BY DEF Inv, TypeInv
    <2>2. job' \in [Jobs -> Threads] BY DEF Inv, TypeInv
    <2> QED BY <1>1, <2>1, <2>2 DEF Inv, TypeInv, ledger, history
  <1>3. TasksKept BY DEF TasksKept, ledger, Inv, TypeInv, Rows
  <1> QED BY <1>1, <1>2, <1>3, ThreadStep DEF ledger, history, Status

\* The thread with another program counter.
LEMMA Moved ==
  ASSUME TypeInv, NEW j \in Jobs, NEW pc,
         pc \in {"new", "begin", "retry", "start", "answer", "explain", "done"} \cup Working
  PROVE  LET h == [job[j] EXCEPT !.pc = pc]
         IN  /\ h \in Threads /\ h.pc = pc /\ h.task = job[j].task
             /\ h.attempt = job[j].attempt /\ h.seen = job[j].seen
             /\ h.prov = job[j].prov /\ h.text = job[j].text
  <1>1. job[j] \in Threads BY DEF TypeInv
  <1> QED BY <1>1 DEF Threads

-----------------------------------------------------------------------------
(* The steps of a thread.                                                  *)

\* Steps that only move the thread on.
LEMMA QuietSteps ==
  ASSUME Inv, NEW j \in Jobs,
         Begin(j) \/ Progress(j) \/ TryProvider(j) \/ GiveUp(j) \/ GiveBackRead(j) \/ StoreError(j)
  PROVE  Inv'
  <1> DEFINE t == job[j].task
  <1>0. /\ ThreadOK(j) /\ job[j] \in Threads /\ job \in [Jobs -> Threads]
        /\ (job[j].pc \in Working => Inside(j)) /\ TypeInv
    BY DEF Inv, TypeInv, Inside, Working
  <1>1. ASSUME Begin(j) PROVE Inv'
    <2> DEFINE pc == IF Status(j) = "queued" THEN "start"
                     ELSE IF t \in Roots /\ Status(j) \in Retryable THEN "retry"
                     ELSE "answer"
               h == [job[j] EXCEPT !.seen = Status(j), !.pc = pc]
    <2>1. job[j].pc = "begin" /\ job' = [job EXCEPT ![j] = h]
          /\ UNCHANGED <<ledger, selected, req, history>>
      BY <1>1 DEF Begin
    <2>2. Status(j) \in Statuses BY <2>1 DEF Inv, TypeInv, Status, Rows
    <2>3. h \in Threads /\ h.pc = pc /\ h.task = t /\ h.seen = Status(j) /\ ~h.text
      BY <1>0, <2>1, <2>2 DEF Threads, ThreadOK, AuditOK
    <2>4. pc \notin Working /\ pc # "send" BY DEF Working
    <2>5. pc = "retry" => Status(j) \in Retryable OBVIOUS
    <2>6. pc # "explain" /\ pc \notin {"failing", "interrupting"} OBVIOUS
    <2> HIDE DEF pc, h
    <2>7. job'[j] = h BY <1>0, <2>1
    <2>8. AttemptOK(j)' /\ AuditOK(j)' BY <2>3, <2>4, <2>7 DEF AttemptOK, AuditOK, Inside, Working
    <2>9. SeenOK(j)' BY <2>3, <2>5, <2>6, <2>7 DEF SeenOK
    <2> QED BY <2>1, <2>3, <2>4, <2>8, <2>9, QuietStep DEF ThreadOK
  <1>2. ASSUME NEW pc \in {"answer", "verify", "provider", "audit"},
               job' = [job EXCEPT ![j].pc = pc], job[j].pc \notin {"new", "done"},
               UNCHANGED <<ledger, req, history>>,
               pc = "verify" => job[j].pc = "progress" /\ job[j].text /\ Status(j) = "running",
               pc = "provider" => \/ job[j].pc = "progress" /\ ~job[j].text /\ Status(j) = "running"
                                  \/ job[j].pc \in {"grant", "recheck", "refuse", "withdraw"},
               pc = "audit" => job[j].pc = "provider"
        PROVE  Inv'
    <2> DEFINE h == [job[j] EXCEPT !.pc = pc]
    <2>1. /\ h \in Threads /\ h.pc = pc /\ h.task = t /\ h.attempt = job[j].attempt
          /\ h.prov = job[j].prov /\ h.text = job[j].text
      BY <1>0, Moved DEF Working
    <2>2. job' = [job EXCEPT ![j] = h] BY <1>2
    <2> HIDE DEF h
    <2>3. job'[j] = h BY <1>0, <2>2
    <2>4. Inside(j) \/ pc = "answer" BY <1>2 DEF Inside
    <2>5. AttemptOK(j)'
      BY <1>0, <1>2, <2>1, <2>3, <2>4 DEF ThreadOK, AttemptOK, Inside, ledger
    <2>6. AuditOK(j)'
      BY <1>0, <1>2, <2>1, <2>3 DEF ThreadOK, AuditOK, AuditsClosed, ledger
    <2>7. SeenOK(j)' BY <2>1, <2>3 DEF SeenOK
    <2>8. pc \notin Working \/ Inside(j) BY <2>4 DEF Working
    <2> QED BY <1>2, <2>1, <2>2, <2>5, <2>6, <2>7, <2>8, QuietStep DEF ThreadOK
  <1>3. ASSUME Progress(j) PROVE Inv'
    <2> DEFINE pc == IF Status(j) # "running" THEN "answer"
                     ELSE IF job[j].text THEN "verify" ELSE "provider"
    <2>1. job' = [job EXCEPT ![j].pc = pc] /\ job[j].pc = "progress"
          /\ UNCHANGED <<ledger, req, history>>
      BY <1>3 DEF Progress, Goto
    <2> QED BY <1>2, <2>1
  <1>4. ASSUME GiveUp(j) PROVE Inv' BY <1>2, <1>4 DEF GiveUp, Goto
  <1>5. ASSUME StoreError(j) PROVE Inv'
    <2> DEFINE pc == IF job[j].pc \in {"grant", "recheck", "refuse", "withdraw"}
                     THEN "provider" ELSE "answer"
    <2>1. job' = [job EXCEPT ![j].pc = pc] /\ job[j].pc \notin {"new", "done"}
          /\ UNCHANGED <<ledger, req, history>>
      BY <1>5 DEF StoreError, Goto
    <2> QED BY <1>2, <2>1
  <1>6. ASSUME TryProvider(j) PROVE Inv'
    <2>0. PICK p \in Providers :
             job' = [job EXCEPT ![j].tried = @ \cup {p}, ![j].prov = p,
                                ![j].pc = IF StillRunning(j) THEN "grant" ELSE "provider"]
      BY <1>6 DEF TryProvider
    <2> DEFINE pc == IF StillRunning(j) THEN "grant" ELSE "provider"
               h == [job[j] EXCEPT !.tried = @ \cup {p}, !.prov = p, !.pc = pc]
    <2>1. /\ job[j].pc = "provider" /\ job' = [job EXCEPT ![j] = h]
          /\ UNCHANGED <<ledger, req, history>>
      BY <1>6, <2>0 DEF TryProvider
    <2>2. /\ h \in Threads /\ h.pc = pc /\ h.task = t /\ h.attempt = job[j].attempt
          /\ h.prov = p /\ h.text = job[j].text
      BY <1>0 DEF Threads, Working
    <2>3. pc \in {"grant", "provider"} OBVIOUS
    <2> HIDE DEF h, pc
    <2>4. job'[j] = h BY <1>0, <2>1
    <2>5. Inside(j) BY <2>1 DEF Inside
    <2>6. AttemptOK(j)'
      BY <1>0, <2>1, <2>2, <2>3, <2>4, <2>5 DEF ThreadOK, AttemptOK, Inside, ledger
    <2>7. AuditOK(j)'
      BY <1>0, <2>1, <2>2, <2>3, <2>4 DEF ThreadOK, AuditOK, ledger
    <2>8. SeenOK(j)' BY <2>2, <2>3, <2>4 DEF SeenOK
    <2> QED BY <2>1, <2>2, <2>3, <2>5, <2>6, <2>7, <2>8, QuietStep DEF ThreadOK
  <1>7. ASSUME GiveBackRead(j) PROVE Inv'
    <2>1. CASE job' = [job EXCEPT ![j].pc = "answer"]
      BY <1>2, <1>7, <2>1 DEF GiveBackRead
    <2>2. CASE job' # [job EXCEPT ![j].pc = "answer"]
      <3> DEFINE pc == IF job[j].pc = "fail" THEN "failing" ELSE "interrupting"
                 h == [job[j] EXCEPT !.pc = pc, !.seen = Status(j)]
      <3>1. /\ job[j].pc \in {"fail", "interrupt"} /\ job' = [job EXCEPT ![j] = h]
            /\ Status(j) \in {"running", "verifying", "queued"}
            /\ UNCHANGED <<ledger, req, history>>
        BY <1>7, <2>2 DEF GiveBackRead
      <3>2. Inside(j) BY <3>1 DEF Inside
      <3>3. Status(j) = "running" BY <1>0, <3>1, <3>2 DEF ThreadOK, AttemptOK, Status
      <3>4. /\ h \in Threads /\ h.pc = pc /\ h.task = t /\ h.attempt = job[j].attempt
            /\ h.seen = "running"
        BY <1>0, <3>3 DEF Threads, Working, Statuses
      <3>5. pc \in {"failing", "interrupting"} OBVIOUS
      <3> HIDE DEF h, pc
      <3>6. job'[j] = h BY <1>0, <3>1
      <3>7. AttemptOK(j)'
        BY <1>0, <3>1, <3>2, <3>4, <3>5, <3>6 DEF ThreadOK, AttemptOK, Inside, ledger
      <3>8. AuditOK(j)' /\ SeenOK(j)' BY <3>4, <3>5, <3>6 DEF AuditOK, SeenOK
      <3> QED BY <3>1, <3>2, <3>4, <3>5, <3>7, <3>8, QuietStep DEF ThreadOK
    <2> QED BY <2>1, <2>2
  <1> QED BY <1>1, <1>3, <1>4, <1>5, <1>6, <1>7

-----------------------------------------------------------------------------
(* The steps of a thread that write to the ledger.                         *)

LEMMA ThreadTypes ==
  ASSUME TypeInv, NEW j \in Jobs, NEW h \in Threads, job' = [job EXCEPT ![j] = h],
         job[j].task \in Tasks, h.task = job[j].task,
         task' \in [Tasks -> Rows], audit' \in [Tasks -> [Providers -> Results]],
         readAudit' \in [Tasks -> {"none", "open", "failed", "success"}],
         late' \in [Tasks -> Nat], UNCHANGED <<req, answered, explained>>
  PROVE  TypeInv'
  <1>1. \A k \in Jobs : job'[k] = IF k = j THEN h ELSE job[k] BY DEF TypeInv
  <1>2. job' \in [Jobs -> Threads] BY DEF TypeInv
  <1> QED BY <1>1, <1>2 DEF TypeInv

\* The status of the thread's own task is swapped.
LEMMA SwapStep ==
  ASSUME Inv, NEW j \in Jobs, NEW h \in Threads, job' = [job EXCEPT ![j] = h],
         NEW t \in Tasks, job[j].task = t, h.task = t, NEW s \in Statuses,
         task' = [task EXCEPT ![t].status = s],
         task[t].status \notin {"cancelled", "completed"},
         Inside(j) \/ task[t].status \notin {"running", "verifying"},
         ThreadOK(j)', s = "completed" => AuditsClosed(t), h.pc # "send",
         UNCHANGED <<req, audit, readAudit, late, answered, explained>>
  PROVE  Inv'
  <1> DEFINE row == [task[t] EXCEPT !.status = s]
  <1>1. task \in [Tasks -> Rows] /\ task[t] \in Rows BY DEF Inv, TypeInv
  <1>2. row \in Rows /\ row.status = s /\ row.attempt = task[t].attempt BY <1>1 DEF Rows
  <1>3. task' = [task EXCEPT ![t] = row] OBVIOUS
  <1> HIDE DEF row
  <1>4. \A u \in Tasks : task'[u] = IF u = t THEN row ELSE task[u] BY <1>1, <1>3
  <1>5. TypeInv'
    <2>1. /\ audit' \in [Tasks -> [Providers -> Results]] /\ late' \in [Tasks -> Nat]
          /\ readAudit' \in [Tasks -> {"none", "open", "failed", "success"}] /\ TypeInv
      BY DEF Inv, TypeInv
    <2>2. task' \in [Tasks -> Rows] BY <1>1, <1>2, <1>3
    <2> QED BY <2>1, <2>2, ThreadTypes
  <1>6. TasksKept BY <1>1, <1>2, <1>4 DEF TasksKept, Rows
  <1>7. task'[t].status = "completed" => AuditsClosed(t)' BY <1>2, <1>4 DEF AuditsClosed
  <1> QED BY <1>4, <1>5, <1>6, <1>7, ThreadStep

\* A thread goes on from a swap that succeeded.
LEMMA SwapSteps ==
  ASSUME Inv, NEW j \in Jobs, Retry(j) \/ Verify(j) \/ Complete(j) \/ GiveBackSwap(j)
  PROVE  Inv'
  <1>0. PICK t \in Tasks : t = job[j].task
    BY DEF Retry, Verify, Complete, GiveBackSwap, Inv, TypeInv
  <1>1. TypeInv /\ ThreadOK(j) /\ job \in [Jobs -> Threads] /\ task \in [Tasks -> Rows]
    BY DEF Inv, TypeInv
  <1>2. ASSUME NEW pc \in {"start", "complete", "explain", "answer"}, NEW s \in Statuses,
               job' = [job EXCEPT ![j].pc = pc], task' = [task EXCEPT ![t].status = s],
               Status(j) \notin {"cancelled", "completed"},
               Inside(j) \/ Status(j) \notin {"running", "verifying"},
               pc = "complete" => job[j].pc = "verify" /\ Status(j) = "running" /\ s = "verifying",
               pc = "explain" => s = "completed", pc = "start" => job[j].pc = "retry",
               s = "completed" => AuditsClosed(t),
               UNCHANGED <<req, audit, readAudit, late, answered, explained>>
        PROVE  Inv'
    <2> DEFINE h == [job[j] EXCEPT !.pc = pc]
    <2>1. /\ h \in Threads /\ h.pc = pc /\ h.task = t /\ h.attempt = job[j].attempt
          /\ h.prov = job[j].prov /\ h.text = job[j].text
      BY <1>0, <1>1, Moved DEF Working
    <2>2. job' = [job EXCEPT ![j] = h] BY <1>2
    <2> HIDE DEF h
    <2>3. job'[j] = h BY <1>1, <2>2
    <2>4. task'[t].status = s /\ task'[t].attempt = task[t].attempt BY <1>1, <1>2 DEF Rows
    <2>5. AttemptOK(j)'
      BY <1>0, <1>1, <1>2, <2>1, <2>3, <2>4 DEF ThreadOK, AttemptOK, Inside, Status
    <2>6. AuditOK(j)'
      BY <1>0, <1>1, <1>2, <2>1, <2>3 DEF ThreadOK, AuditOK, AuditsClosed
    <2>7. SeenOK(j)' BY <1>2, <2>1, <2>3, <2>4 DEF SeenOK, Status
    <2> QED BY <1>0, <1>2, <2>1, <2>2, <2>5, <2>6, <2>7, SwapStep DEF ThreadOK, Status
  <1>3. ASSUME job' = [job EXCEPT ![j].pc = "answer"], job[j].pc \notin {"new", "done"},
               UNCHANGED <<ledger, req, history>>
        PROVE  Inv'
    <2> DEFINE h == [job[j] EXCEPT !.pc = "answer"]
    <2>1. h \in Threads /\ h.pc = "answer" /\ h.task = job[j].task BY <1>1, Moved
    <2>2. job' = [job EXCEPT ![j] = h] BY <1>3
    <2> HIDE DEF h
    <2>3. job'[j] = h BY <1>1, <2>2
    <2>4. ThreadOK(j)' BY <2>1, <2>3 DEF ThreadOK, AttemptOK, AuditOK, SeenOK, Inside
    <2> QED BY <1>3, <2>1, <2>2, <2>4, QuietStep DEF Working
  <1>4. ASSUME Retry(j) PROVE Inv'
    <2>1. CASE Status(j) = job[j].seen
      <3>1. Status(j) \in Retryable BY <1>1, <1>4, <2>1 DEF Retry, ThreadOK, SeenOK
      <3> QED BY <1>0, <1>2, <1>4, <2>1, <3>1
              DEF Retry, Goto, Retryable, Statuses, history
    <2>2. CASE Status(j) # job[j].seen
      BY <1>3, <1>4, <2>2 DEF Retry, Goto, ledger
    <2> QED BY <2>1, <2>2
  <1>5. ASSUME Verify(j) PROVE Inv'
    <2>1. Inside(j) BY <1>5 DEF Verify, Inside
    <2>2. CASE Status(j) = "running"
      BY <1>0, <1>2, <1>5, <2>1, <2>2 DEF Verify, Goto, Statuses, history
    <2>3. CASE Status(j) # "running"
      BY <1>3, <1>5, <2>3 DEF Verify, Goto, ledger
    <2> QED BY <2>2, <2>3
  <1>6. ASSUME Complete(j) PROVE Inv'
    <2>1. Inside(j) BY <1>6 DEF Complete, Inside
    <2>2. AuditsClosed(t) BY <1>0, <1>1, <1>6 DEF Complete, ThreadOK, AuditOK
    <2>3. CASE Status(j) = "verifying"
      BY <1>0, <1>2, <1>6, <2>1, <2>2, <2>3 DEF Complete, Goto, Statuses, history
    <2>4. CASE Status(j) # "verifying"
      BY <1>3, <1>6, <2>4 DEF Complete, Goto, ledger
    <2> QED BY <2>3, <2>4
  <1>7. ASSUME GiveBackSwap(j) PROVE Inv'
    <2>1. Inside(j) BY <1>7 DEF GiveBackSwap, Inside
    <2>2. CASE Status(j) = job[j].seen
      <3>1. Status(j) = "running" BY <1>1, <1>7, <2>2 DEF GiveBackSwap, ThreadOK, SeenOK
      <3> QED BY <1>0, <1>2, <1>7, <2>1, <2>2, <3>1
              DEF GiveBackSwap, Goto, Statuses, history
    <2>3. CASE Status(j) # job[j].seen
      BY <1>3, <1>7, <2>3 DEF GiveBackSwap, Goto, ledger
    <2> QED BY <2>2, <2>3
  <1> QED BY <1>4, <1>5, <1>6, <1>7

\* The audits of the thread's own task are written.
LEMMA AuditStep ==
  ASSUME Inv, NEW j \in Jobs, NEW h \in Threads, job' = [job EXCEPT ![j] = h],
         NEW t \in Tasks, job[j].task = t, h.task = t, Inside(j),
         NEW row \in [Providers -> Results], audit' = [audit EXCEPT ![t] = row],
         NEW r \in {"none", "open", "failed", "success"},
         readAudit' = [readAudit EXCEPT ![t] = r],
         ThreadOK(j)', h.pc = "send" => Status(j) = "running",
         UNCHANGED <<task, req, late, answered, explained>>
  PROVE  Inv'
  <1>1. TypeInv'
    <2>1. /\ audit' \in [Tasks -> [Providers -> Results]] /\ task' \in [Tasks -> Rows]
          /\ late' \in [Tasks -> Nat] /\ TypeInv
          /\ readAudit' \in [Tasks -> {"none", "open", "failed", "success"}]
      BY DEF Inv, TypeInv
    <2> QED BY <2>1, ThreadTypes
  <1>2. TasksKept BY DEF TasksKept, Inv, TypeInv, Rows
  <1>3. task'[t].status # "completed" BY DEF Inv, ThreadOK, AttemptOK
  <1>4. \A u \in Tasks : u # t => task'[u] = task[u] /\ audit'[u] = audit[u]
                                 /\ readAudit'[u] = readAudit[u]
    BY DEF Inv, TypeInv
  <1>5. h.pc = "send" => task'[t].status # "cancelled" BY DEF Status
  <1> QED BY <1>1, <1>2, <1>3, <1>4, <1>5, ThreadStep

LEMMA ReadStep ==
  ASSUME Inv, NEW j \in Jobs, ReadDocument(j)
  PROVE  Inv'
  <1>0. PICK t \in Tasks : t = job[j].task BY DEF ReadDocument, Inv, TypeInv
  <1>1. PICK outcome \in {"read", "unread", "unaudited", "denied"} :
          /\ readAudit' = [readAudit EXCEPT ![t] =
                CASE outcome = "read" -> "success" [] outcome = "unaudited" -> "open"
                  [] OTHER -> "failed"]
          /\ job' = [job EXCEPT ![j].pc =
                CASE outcome = "read" -> "progress" [] outcome = "denied" -> "interrupt"
                  [] OTHER -> "fail"]
    BY <1>0 DEF ReadDocument, Goto
  <1> DEFINE pc == CASE outcome = "read" -> "progress" [] outcome = "denied" -> "interrupt"
                     [] OTHER -> "fail"
             r == CASE outcome = "read" -> "success" [] outcome = "unaudited" -> "open"
                    [] OTHER -> "failed"
             h == [job[j] EXCEPT !.pc = pc]
  <1>2. /\ TypeInv /\ ThreadOK(j) /\ job \in [Jobs -> Threads]
        /\ readAudit \in [Tasks -> {"none", "open", "failed", "success"}]
        /\ audit \in [Tasks -> [Providers -> Results]]
    BY DEF Inv, TypeInv
  <1>3. /\ job[j].pc = "read" /\ UNCHANGED <<task, selected, req, audit, faults, history>>
        /\ job' = [job EXCEPT ![j] = h] /\ readAudit' = [readAudit EXCEPT ![t] = r]
    BY <1>1 DEF ReadDocument
  <1>4. /\ pc \in {"progress", "interrupt", "fail"} /\ (pc = "progress" => r = "success")
        /\ r \in {"none", "open", "failed", "success"}
    OBVIOUS
  <1>5. /\ h \in Threads /\ h.pc = pc /\ h.task = t /\ h.attempt = job[j].attempt
        /\ h.text = job[j].text
    BY <1>0, <1>2, <1>4, Moved DEF Working
  <1> HIDE DEF pc, r, h
  <1>6. job'[j] = h /\ readAudit'[t] = r BY <1>2, <1>3
  <1>7. Inside(j) BY <1>3 DEF Inside
  <1>8. AttemptOK(j)'
    BY <1>0, <1>2, <1>3, <1>4, <1>5, <1>6, <1>7 DEF ThreadOK, AttemptOK, Inside
  <1>9. AuditOK(j)'
    BY <1>0, <1>2, <1>3, <1>4, <1>5, <1>6 DEF ThreadOK, AuditOK
  <1>10. SeenOK(j)' BY <1>4, <1>5, <1>6 DEF SeenOK
  <1>11. audit' = [audit EXCEPT ![t] = audit[t]] BY <1>2, <1>3
  <1> QED BY <1>0, <1>2, <1>3, <1>4, <1>5, <1>7, <1>8, <1>9, <1>10, <1>11, AuditStep
          DEF ThreadOK, history

\* The audit of the provider the thread is about to call, or not to call, is written.
LEMMA AuditSteps ==
  ASSUME Inv, NEW j \in Jobs, Grant(j) \/ Recheck(j) \/ Refuse(j)
  PROVE  Inv'
  <1>0. PICK t \in Tasks : t = job[j].task BY DEF Grant, Recheck, Refuse, Inv, TypeInv
  <1> DEFINE p == job[j].prov
  <1>1. /\ TypeInv /\ ThreadOK(j) /\ job \in [Jobs -> Threads] /\ job[j] \in Threads
        /\ readAudit \in [Tasks -> {"none", "open", "failed", "success"}]
        /\ audit \in [Tasks -> [Providers -> Results]] /\ audit[t] \in [Providers -> Results]
    BY DEF Inv, TypeInv
  <1>2. /\ job[j].pc \in {"grant", "recheck", "refuse", "withdraw"}
        /\ UNCHANGED <<task, selected, req, readAudit, faults, history>>
    BY DEF Grant, Recheck, Refuse
  <1>3. Inside(j) BY <1>2 DEF Inside
  <1>4. p \in Providers BY <1>1, <1>2 DEF ThreadOK, AuditOK
  <1>5. readAudit' = [readAudit EXCEPT ![t] = readAudit[t]]
        /\ readAudit[t] \in {"none", "open", "failed", "success"}
    BY <1>1, <1>2
  <1>6. ASSUME NEW h \in Threads, job' = [job EXCEPT ![j] = h],
               h.pc \in {"recheck", "refuse", "withdraw", "send", "provider"},
               h.task = t, h.attempt = job[j].attempt, h.prov = p, h.text = job[j].text,
               NEW x \in Results, audit' = [audit EXCEPT ![t][p] = x],
               h.pc \in {"recheck", "send"} => x = "open",
               h.pc = "send" => Status(j) = "running",
               x # "success" \/ x = audit[t][p]
        PROVE  Inv'
    <2> DEFINE row == [audit[t] EXCEPT ![p] = x]
    <2>1. row \in [Providers -> Results] /\ audit' = [audit EXCEPT ![t] = row]
      BY <1>1, <1>6
    <2>2. \A q \in Providers : row[q] = IF q = p THEN x ELSE audit[t][q] BY <1>1, <1>4
    <2> HIDE DEF row, p
    <2>3. job'[j] = h /\ audit'[t] = row BY <1>1, <1>6, <2>1
    <2>4. AttemptOK(j)'
      BY <1>0, <1>1, <1>2, <1>3, <1>6, <2>3 DEF ThreadOK, AttemptOK, Inside
    <2>5. AuditOK(j)'
      BY <1>0, <1>1, <1>2, <1>4, <1>6, <2>2, <2>3 DEF ThreadOK, AuditOK
    <2>6. SeenOK(j)' BY <1>6, <2>3 DEF SeenOK
    <2> QED BY <1>0, <1>2, <1>3, <1>5, <1>6, <2>1, <2>4, <2>5, <2>6, AuditStep
            DEF ThreadOK, history
  <1>7. ASSUME NEW pc \in {"recheck", "refuse", "withdraw", "send", "provider"},
               job' = [job EXCEPT ![j].pc = pc],
               NEW x \in Results, audit' = [audit EXCEPT ![t][p] = x],
               pc \in {"recheck", "send"} => x = "open",
               pc = "send" => Status(j) = "running",
               x # "success" \/ x = audit[t][p]
        PROVE  Inv'
    <2> DEFINE h == [job[j] EXCEPT !.pc = pc]
    <2>0. pc \in Working BY DEF Working
    <2>1. /\ h \in Threads /\ h.pc = pc /\ h.task = t /\ h.attempt = job[j].attempt
          /\ h.prov = p /\ h.text = job[j].text
      BY <1>0, <1>1, <2>0, Moved
    <2>2. job' = [job EXCEPT ![j] = h] BY <1>7
    <2> HIDE DEF h, p
    <2> QED BY <1>6, <1>7, <2>1, <2>2
  <1>8. CASE Grant(j)
    <2>1. PICK x \in {"open", "decided", "none"} :
             /\ audit' = [audit EXCEPT ![t][p] = x]
             /\ job' = [job EXCEPT ![j].pc = CASE x = "open" -> "recheck"
                                               [] x = "decided" -> "refuse"
                                               [] OTHER -> "provider"]
      BY <1>0, <1>8 DEF Grant, Goto
    <2> HIDE DEF p
    <2> QED BY <1>7, <2>1 DEF Results
  <1>9. CASE Recheck(j)
    <2>1. CASE StillRunning(j)
      <3>1. job' = [job EXCEPT ![j].pc = "send"] /\ audit' = audit
        BY <1>9, <2>1 DEF Recheck, Goto
      <3>2. audit[t][p] = "open"
        <4>1. job[j].pc = "recheck" BY <1>9 DEF Recheck
        <4> QED BY <1>0, <1>1, <4>1 DEF ThreadOK, AuditOK
      <3>3. audit' = [audit EXCEPT ![t][p] = "open"] BY <1>1, <1>4, <3>1, <3>2
      <3> HIDE DEF p
      <3> QED BY <1>7, <2>1, <3>1, <3>3 DEF Results, StillRunning
    <2>2. CASE ~StillRunning(j)
      <3>1. /\ job' = [job EXCEPT ![j].pc = "withdraw"]
            /\ audit' = [audit EXCEPT ![t][p] = "decided"]
        BY <1>0, <1>9, <2>2 DEF Recheck, Goto
      <3> HIDE DEF p
      <3> QED BY <1>7, <3>1 DEF Results
    <2> QED BY <2>1, <2>2
  <1>10. CASE Refuse(j)
    <2>1. PICK failed \in BOOLEAN :
             /\ audit' = [audit EXCEPT ![job[j].task][job[j].prov] =
                   IF failed THEN @ ELSE IF job[j].pc = "refuse" THEN "failed" ELSE "cancelled"]
             /\ job' = [job EXCEPT ![j].pc = "provider", ![j].unaudited = failed]
      BY <1>10 DEF Refuse
    <2> DEFINE x == IF failed THEN audit[t][p]
                    ELSE IF job[j].pc = "refuse" THEN "failed" ELSE "cancelled"
               h == [job[j] EXCEPT !.pc = "provider", !.unaudited = failed]
    <2>2. /\ h \in Threads /\ h.pc = "provider" /\ h.task = t /\ h.attempt = job[j].attempt
          /\ h.prov = p /\ h.text = job[j].text
      BY <1>0, <1>1 DEF Threads, Working
    <2>3. job' = [job EXCEPT ![j] = h] /\ audit' = [audit EXCEPT ![t][p] = x]
      BY <1>0, <2>1
    <2>4. x \in Results /\ (x # "success" \/ x = audit[t][p]) BY <1>1, <1>4 DEF Results
    <2> HIDE DEF h, x, p
    <2> QED BY <1>6, <2>2, <2>3, <2>4
  <1> QED BY <1>8, <1>9, <1>10

LEMMA SendStep ==
  ASSUME Inv, NEW j \in Jobs, Send(j)
  PROVE  Inv'
  <1>0. PICK t \in Tasks : t = job[j].task BY DEF Send, Inv, TypeInv
  <1>1. PICK text \in BOOLEAN :
          job' = [job EXCEPT ![j].text = text, ![j].pc = IF text THEN "audit" ELSE "provider"]
    BY DEF Send
  <1> DEFINE pc == IF text THEN "audit" ELSE "provider"
             h == [job[j] EXCEPT !.text = text, !.pc = pc]
  <1>2. /\ TypeInv /\ ThreadOK(j) /\ job \in [Jobs -> Threads] /\ job[j] \in Threads
        /\ late \in [Tasks -> Nat] /\ task \in [Tasks -> Rows]
    BY DEF Inv, TypeInv
  <1>3. /\ job[j].pc = "send" /\ job' = [job EXCEPT ![j] = h]
        /\ UNCHANGED <<ledger, selected, req, faults, answered, explained>>
        /\ late' = [late EXCEPT ![t] = IF Status(j) = "cancelled" THEN late[t] + 1 ELSE late[t]]
    BY <1>0, <1>1 DEF Send
  <1>4. /\ h \in Threads /\ h.pc = pc /\ h.task = t /\ h.attempt = job[j].attempt
        /\ h.prov = job[j].prov /\ h.text = text
    BY <1>0, <1>2 DEF Threads, Working
  <1>5. pc \in {"audit", "provider"} /\ (pc = "provider" => ~text) OBVIOUS
  <1> HIDE DEF h, pc
  <1>6. job'[j] = h /\ Inside(j) BY <1>2, <1>3 DEF Inside
  <1>7. AttemptOK(j)'
    BY <1>0, <1>2, <1>3, <1>4, <1>5, <1>6 DEF ThreadOK, AttemptOK, Inside, ledger
  <1>8. AuditOK(j)'
    BY <1>0, <1>2, <1>3, <1>4, <1>5, <1>6 DEF ThreadOK, AuditOK, ledger
  <1>9. SeenOK(j)' BY <1>4, <1>5, <1>6 DEF SeenOK
  <1>10. late' \in [Tasks -> Nat]
    <2>1. late[t] + 1 \in Nat BY <1>2
    <2> QED BY <1>2, <1>3, <2>1
  <1>11. TypeInv'
    <2>1. /\ audit' \in [Tasks -> [Providers -> Results]] /\ task' \in [Tasks -> Rows]
          /\ readAudit' \in [Tasks -> {"none", "open", "failed", "success"}]
      BY <1>3 DEF Inv, TypeInv, ledger
    <2> QED BY <1>0, <1>2, <1>3, <1>4, <1>10, <2>1, ThreadTypes
  <1>12. TasksKept BY <1>2, <1>3 DEF TasksKept, ledger, Rows
  <1>13. \/ late' = late
         \/ task[t].status = "cancelled" /\ late' = [late EXCEPT ![t] = late[t] + 1]
    BY <1>0, <1>2, <1>3 DEF Status
  <1>14. h.pc # "send" BY <1>4, <1>5
  <1>15. \A u \in Tasks : u # t => /\ task'[u] = task[u] /\ audit'[u] = audit[u]
                                  /\ readAudit'[u] = readAudit[u]
    BY <1>3 DEF ledger
  <1>16. ThreadOK(j)' BY <1>7, <1>8, <1>9 DEF ThreadOK
  <1> QED BY <1>0, <1>3, <1>4, <1>6, <1>11, <1>12, <1>13, <1>14, <1>15, <1>16, ThreadStep

LEMMA AuditResultsStep ==
  ASSUME Inv, NEW j \in Jobs, AuditResults(j)
  PROVE  Inv'
  <1>0. PICK t \in Tasks : t = job[j].task BY DEF AuditResults, Inv, TypeInv
  <1> DEFINE open == {p \in Providers : audit[job[j].task][p] = "open"}
             after(failed, p) ==
                IF p \notin open \ failed THEN audit[job[j].task][p]
                ELSE IF p = job[j].prov /\ job[j].text THEN "success" ELSE "failed"
             next(failed) == IF ~Audited(j, failed) THEN "interrupt"
                             ELSE IF Status(j) # "running" THEN "answer"
                             ELSE IF job[j].text THEN "progress" ELSE "interrupt"
  <1>1. PICK failed \in SUBSET open :
          /\ audit' = [audit EXCEPT ![job[j].task] = [p \in Providers |-> after(failed, p)]]
          /\ job' = [job EXCEPT ![j].tried = {}, ![j].prov = NoProvider,
                                ![j].unaudited = FALSE, ![j].pc = next(failed)]
    BY DEF AuditResults
  <1> DEFINE row == [p \in Providers |-> after(failed, p)]
             pc == next(failed)
             h == [job[j] EXCEPT !.tried = {}, !.prov = NoProvider, !.unaudited = FALSE, !.pc = pc]
  <1>2. /\ TypeInv /\ ThreadOK(j) /\ job \in [Jobs -> Threads] /\ job[j] \in Threads
        /\ readAudit \in [Tasks -> {"none", "open", "failed", "success"}]
        /\ audit \in [Tasks -> [Providers -> Results]] /\ audit[t] \in [Providers -> Results]
    BY DEF Inv, TypeInv
  <1>3. /\ job[j].pc = "audit" /\ UNCHANGED <<task, selected, req, readAudit, faults, history>>
        /\ job' = [job EXCEPT ![j] = h] /\ audit' = [audit EXCEPT ![t] = row]
    <2>1. job' = [job EXCEPT ![j] = h] BY <1>1
    <2>2. audit' = [audit EXCEPT ![t] = row] BY <1>0, <1>1
    <2> QED BY <2>1, <2>2 DEF AuditResults
  <1>4. /\ pc \in {"interrupt", "answer", "progress"}
        /\ pc = "progress" => failed = {} /\ job[j].text
    BY DEF Audited
  <1>5. /\ h \in Threads /\ h.pc = pc /\ h.task = t /\ h.attempt = job[j].attempt
        /\ h.text = job[j].text
    <2> HIDE DEF pc
    <2> QED BY <1>0, <1>2, <1>4 DEF Threads, Working
  <1>6. /\ row \in [Providers -> Results]
        /\ \A p \in Providers : row[p] = after(failed, p)
    <2>1. \A p \in Providers : after(failed, p) \in Results BY <1>0, <1>2 DEF Results
    <2> QED BY <2>1
  <1>7. ASSUME pc = "progress"
        PROVE  /\ \A p \in Providers : row[p] # "open"
               /\ \E p \in Providers : {q \in Providers : row[q] = "success"} = {p}
               /\ t \in Roots => readAudit[t] = "success"
    <2>1. failed = {} /\ job[j].text BY <1>4, <1>7
    <2>2. /\ job[j].prov \in Providers /\ audit[t][job[j].prov] = "open"
          /\ \A p \in Providers : audit[t][p] # "success"
          /\ t \in Roots => readAudit[t] = "success"
      BY <1>0, <1>2, <1>3, <2>1 DEF ThreadOK, AuditOK
    <2>3. \A p \in Providers :
             row[p] = IF audit[t][p] # "open" THEN audit[t][p]
                      ELSE IF p = job[j].prov THEN "success" ELSE "failed"
      BY <1>0, <1>6, <2>1
    <2>4. {q \in Providers : row[q] = "success"} = {job[j].prov} BY <2>2, <2>3
    <2> QED BY <2>2, <2>3, <2>4
  <1> HIDE DEF row, pc, h
  <1>8. job'[j] = h /\ audit'[t] = row BY <1>2, <1>3
  <1>9. Inside(j) BY <1>3 DEF Inside
  <1>10. AttemptOK(j)'
    BY <1>0, <1>2, <1>3, <1>4, <1>5, <1>8, <1>9 DEF ThreadOK, AttemptOK, Inside
  <1>11. AuditOK(j)'
    BY <1>0, <1>2, <1>3, <1>4, <1>5, <1>7, <1>8 DEF ThreadOK, AuditOK, AuditsClosed
  <1>12. SeenOK(j)' BY <1>4, <1>5, <1>8 DEF SeenOK
  <1>13. readAudit' = [readAudit EXCEPT ![t] = readAudit[t]]
         /\ readAudit[t] \in {"none", "open", "failed", "success"}
    BY <1>2, <1>3
  <1>14. ThreadOK(j)' /\ h.pc # "send" BY <1>4, <1>5, <1>10, <1>11, <1>12 DEF ThreadOK
  <1>15. UNCHANGED <<task, req, late, answered, explained>> BY <1>3 DEF history
  <1>16. row \in [Providers -> Results] BY <1>6
  <1>17. job[j].task = t /\ h.task = t BY <1>0, <1>5
  <1>18. h \in Threads BY <1>5
  <1>19. job' = [job EXCEPT ![j] = h] /\ audit' = [audit EXCEPT ![t] = row] BY <1>3
  <1> QED BY <1>9, <1>13, <1>14, <1>15, <1>16, <1>17, <1>18, <1>19, AuditStep

LEMMA StartStep ==
  ASSUME Inv, NEW j \in Jobs, Start(j)
  PROVE  Inv'
  <1>0. PICK t \in Tasks : t = job[j].task BY DEF Start, Inv, TypeInv
  <1>1. /\ TypeInv /\ ThreadOK(j) /\ job \in [Jobs -> Threads] /\ job[j] \in Threads
        /\ readAudit \in [Tasks -> {"none", "open", "failed", "success"}]
        /\ audit \in [Tasks -> [Providers -> Results]] /\ task \in [Tasks -> Rows]
        /\ late \in [Tasks -> Nat] /\ task[t] \in Rows
    BY DEF Inv, TypeInv
  <1>2. job[j].pc = "start" /\ UNCHANGED <<selected, req, faults, history>> BY DEF Start
  <1>3. CASE Status(j) # "queued"
    <2> DEFINE h == [job[j] EXCEPT !.pc = "answer"]
    <2>1. h \in Threads /\ h.pc = "answer" /\ h.task = job[j].task BY <1>1, Moved
    <2>2. job' = [job EXCEPT ![j] = h] /\ UNCHANGED ledger BY <1>3 DEF Start, Goto
    <2> HIDE DEF h
    <2>3. job'[j] = h BY <1>1, <2>2
    <2>4. ThreadOK(j)' BY <2>1, <2>3 DEF ThreadOK, AttemptOK, AuditOK, SeenOK, Inside
    <2> QED BY <1>2, <2>1, <2>2, <2>4, QuietStep DEF Working
  <1>4. CASE Status(j) = "queued"
    <2> DEFINE n == task[t].attempt + 1
               pc == IF t \in Roots THEN "read" ELSE "provider"
               row == [task[t] EXCEPT !.status = "running", !.attempt = n]
               h == [job[j] EXCEPT !.pc = pc, !.attempt = n]
               none == [p \in Providers |-> "none"]
    <2>1. /\ task' = [task EXCEPT ![t] = row] /\ job' = [job EXCEPT ![j] = h]
          /\ audit' = [audit EXCEPT ![t] = none]
          /\ readAudit' = [readAudit EXCEPT ![t] = "none"]
      BY <1>0, <1>4 DEF Start
    <2>2. n \in Nat /\ n > 0 /\ n >= task[t].attempt BY <1>1 DEF Rows
    <2>3. pc \in {"read", "provider"} /\ (pc = "provider" => t \notin Roots) OBVIOUS
    <2> HIDE DEF n, pc
    <2>4. row \in Rows /\ row.status = "running" /\ row.attempt = n
      BY <1>1, <2>2 DEF Rows, Statuses
    <2>5. /\ h \in Threads /\ h.pc = pc /\ h.task = t /\ h.attempt = n /\ ~h.text
      BY <1>0, <1>1, <1>2, <2>2, <2>3 DEF Threads, Working, ThreadOK, AuditOK
    <2>6. none \in [Providers -> Results] /\ \A p \in Providers : none[p] # "success"
      BY DEF Results
    <2> HIDE DEF row, h, none
    <2>7. /\ job'[j] = h /\ audit'[t] = none /\ task'[t] = row
          /\ \A u \in Tasks : u # t => /\ task'[u] = task[u] /\ audit'[u] = audit[u]
                                      /\ readAudit'[u] = readAudit[u]
      BY <1>1, <2>1
    <2>8. ThreadOK(j)'
      BY <2>2, <2>3, <2>4, <2>5, <2>6, <2>7 DEF ThreadOK, AttemptOK, AuditOK, SeenOK, Inside
    <2>9. task[t].status = "queued" BY <1>0, <1>4 DEF Status
    <2>10. TasksKept BY <1>1, <2>2, <2>4, <2>7, <2>9 DEF TasksKept, Rows
    <2>11. TypeInv'
      <3>1. /\ audit' \in [Tasks -> [Providers -> Results]] /\ task' \in [Tasks -> Rows]
            /\ readAudit' \in [Tasks -> {"none", "open", "failed", "success"}]
            /\ late' \in [Tasks -> Nat]
        BY <1>1, <1>2, <2>1, <2>4, <2>6 DEF history
      <3> QED BY <1>0, <1>1, <1>2, <2>1, <2>5, <3>1, ThreadTypes DEF history
    <2> QED BY <1>0, <1>2, <2>1, <2>3, <2>4, <2>5, <2>7, <2>8, <2>9, <2>10, <2>11, ThreadStep
            DEF history
  <1> QED BY <1>3, <1>4

-----------------------------------------------------------------------------
(* Requests, answers and the process.                                      *)

\* Threads that go on without their connection, and those that end.
Ending(S) ==
    \A k \in Jobs : \/ job'[k] = job[k]
                    \/ k \in S /\ (job'[k] = Ended \/ job'[k] = [job[k] EXCEPT !.conn = NoConn])

LEMMA NewThreads ==
  /\ NoJob \in Threads /\ NoJob.pc = "new" /\ ~NoJob.text
  /\ Ended \in Threads /\ Ended.pc = "done" /\ ~Ended.text
  BY DEF NoJob, Ended, Threads, Statuses

\* Requests that only bring jobs to their end.
LEMMA EndingStep ==
  ASSUME Inv, CancelsOK', UNCHANGED <<ledger, late>>,
         answered' \in SUBSET Tasks, explained' \in SUBSET Tasks, req' \in [Conns -> Requests],
         \A c \in Conns : req'[c].pc # "idle" => req'[c].task \in Tasks,
         job' \in [Jobs -> Threads], Ending(Jobs)
  PROVE  Inv'
  <1>1. TypeInv BY DEF Inv
  <1>2. ASSUME NEW k \in Jobs
        PROVE  \/ job'[k].pc \in {"new", "begin", "done"} /\ ~job'[k].text
               \/ /\ job'[k].pc = job[k].pc /\ job'[k].task = job[k].task
                  /\ job'[k].attempt = job[k].attempt /\ job'[k].seen = job[k].seen
                  /\ job'[k].prov = job[k].prov /\ job'[k].text = job[k].text
    BY <1>1, NewThreads DEF Ending, TypeInv, Threads
  <1>3. ASSUME NEW k \in Jobs, job'[k].pc \notin {"new", "done"} PROVE job'[k].task \in Tasks
    BY <1>1, <1>3, NewThreads DEF Ending, TypeInv, Threads
  <1>4. TypeInv' BY <1>1, <1>3 DEF TypeInv, ledger
  <1> QED BY <1>2, <1>4, RequestStep DEF ledger

LEMMA AbandonEnds ==
  ASSUME TypeInv, NEW S \in SUBSET Jobs, Abandon(S)
  PROVE  Ending(Jobs) /\ job' \in [Jobs -> Threads]
  <1>1. PICK U \in SUBSET {j \in S : job[j].pc = "begin"} :
           job' = [j \in Jobs |->
                     IF j \notin S THEN job[j] ELSE IF j \in U THEN Ended
                     ELSE [job[j] EXCEPT !.conn = NoConn]]
    BY DEF Abandon
  <1>2. \A j \in Jobs : [job[j] EXCEPT !.conn = NoConn] \in Threads
    <2> SUFFICES ASSUME NEW j \in Jobs PROVE [job[j] EXCEPT !.conn = NoConn] \in Threads
      OBVIOUS
    <2>1. job[j] \in Threads BY DEF TypeInv
    <2> QED BY <2>1 DEF Threads
  <1>3. Ending(Jobs) BY <1>1 DEF Ending
  <1>4. job' \in [Jobs -> Threads] BY <1>1, <1>2, NewThreads DEF TypeInv
  <1> QED BY <1>3, <1>4

LEMMA AnswerStep ==
  ASSUME Inv, NEW j \in Jobs, Answer(j)
  PROVE  Inv'
  <1> DEFINE t == job[j].task
  <1>1. /\ job[j].pc \in {"answer", "explain"} /\ t \in Tasks /\ ThreadOK(j) /\ TypeInv
    BY DEF Answer, Inv, TypeInv
  <1>2. /\ explained' = explained \/ (job[j].pc = "explain" /\ explained' = explained \cup {t})
        /\ job' = [job EXCEPT ![j] = Ended]
        /\ UNCHANGED <<ledger, selected, req, faults, late, answered>>
    BY DEF Answer
  <1>3. explained' \in SUBSET Tasks BY <1>1, <1>2 DEF TypeInv
  <1>4. \A u \in explained' : task[u].status = "completed"
    BY <1>1, <1>2 DEF Inv, CancelsOK, ThreadOK, SeenOK, Status
  <1>5. CancelsOK' BY <1>2, <1>4 DEF Inv, CancelsOK, ledger
  <1>6. Ending(Jobs) /\ job' \in [Jobs -> Threads]
    BY <1>1, <1>2, NewThreads DEF Ending, TypeInv
  <1> QED BY <1>1, <1>2, <1>3, <1>5, <1>6, EndingStep DEF TypeInv

LEMMA CancelSteps ==
  ASSUME Inv, NEW c \in Conns,
         \/ \E t \in Tasks : CancelRead(c, t)
         \/ CancelAnswer(c) \/ Disconnect(c)
  PROVE  Inv'
  <1>0. TypeInv BY DEF Inv
  <1>1. ASSUME NEW t \in Tasks, CancelRead(c, t) PROVE Inv'
    <2> DEFINE r == [pc |-> "cancel", task |-> t, seen |-> task[t].status]
    <2>1. /\ task[t].status \notin {"none", "completed"} /\ req' = [req EXCEPT ![c] = r]
          /\ UNCHANGED <<ledger, selected, job, faults, history>>
      BY <1>1 DEF CancelRead
    <2>2. r \in Requests /\ r.pc = "cancel" /\ r.task = t /\ r.seen = task[t].status
      BY <1>0 DEF TypeInv, Rows, Requests
    <2> HIDE DEF r
    <2>3. \A d \in Conns : req'[d] = IF d = c THEN r ELSE req[d] BY <1>0, <2>1 DEF TypeInv
    <2>4. req' \in [Conns -> Requests] BY <1>0, <2>1, <2>2 DEF TypeInv
    <2>5. CancelsOK' BY <2>1, <2>2, <2>3 DEF Inv, CancelsOK, ledger, history
    <2>6. \A d \in Conns : req'[d].pc # "idle" => req'[d].task \in Tasks
      BY <1>0, <2>2, <2>3 DEF TypeInv
    <2> QED BY <1>0, <2>1, <2>4, <2>5, <2>6, EndingStep DEF TypeInv, Ending, history
  <1>2. ASSUME CancelAnswer(c) PROVE Inv'
    <2>1. PICK t \in Tasks : t = req[c].task BY <1>0, <1>2 DEF CancelAnswer, TypeInv
    <2>2. /\ req[c].pc = "cancelled" /\ answered' = answered \cup {t}
          /\ req' = [req EXCEPT ![c] = NoReq]
          /\ Abandon({j \in Jobs : job[j].conn = c /\ job[j].task = t})
          /\ UNCHANGED <<ledger, selected, faults, late, explained>>
      BY <1>2, <2>1 DEF CancelAnswer
    <2>3. task[t].status = "cancelled" BY <2>1, <2>2 DEF Inv, CancelsOK
    <2>4. NoReq \in Requests /\ NoReq.pc = "idle" BY DEF NoReq, Requests, Statuses
    <2>5. \A d \in Conns : req'[d] = IF d = c THEN NoReq ELSE req[d]
      BY <1>0, <2>2 DEF TypeInv
    <2>6. req' \in [Conns -> Requests] BY <1>0, <2>2, <2>4 DEF TypeInv
    <2>7. CancelsOK' BY <2>2, <2>3, <2>4, <2>5 DEF Inv, CancelsOK, ledger
    <2>8. \A d \in Conns : req'[d].pc # "idle" => req'[d].task \in Tasks
      BY <1>0, <2>4, <2>5 DEF TypeInv
    <2>9. Ending(Jobs) /\ job' \in [Jobs -> Threads] BY <1>0, <2>2, AbandonEnds
    <2>10. answered' \in SUBSET Tasks /\ explained' \in SUBSET Tasks BY <1>0, <2>2 DEF TypeInv
    <2> QED BY <2>2, <2>6, <2>7, <2>8, <2>9, <2>10, EndingStep
  <1>3. ASSUME Disconnect(c) PROVE Inv'
    <2>1. /\ Abandon({j \in Jobs : job[j].conn = c})
          /\ UNCHANGED <<ledger, selected, req, faults, history>>
      BY <1>3 DEF Disconnect
    <2>2. Ending(Jobs) /\ job' \in [Jobs -> Threads] BY <1>0, <2>1, AbandonEnds
    <2>3. CancelsOK' BY <2>1 DEF Inv, CancelsOK, ledger, history
    <2> QED BY <1>0, <2>1, <2>2, <2>3, EndingStep DEF TypeInv, history
  <1> QED BY <1>1, <1>2, <1>3

LEMMA CrashStep ==
  ASSUME Inv, Crash
  PROVE  Inv'
  <1>0. TypeInv BY DEF Inv
  <1>1. /\ job' = [j \in Jobs |-> IF job[j].pc = "new" THEN job[j] ELSE Ended]
        /\ req' = [d \in Conns |-> NoReq] /\ UNCHANGED <<ledger, history>>
    BY DEF Crash
  <1>2. NoReq \in Requests /\ NoReq.pc = "idle" BY DEF NoReq, Requests, Statuses
  <1>3. Ending(Jobs) /\ job' \in [Jobs -> Threads]
    BY <1>0, <1>1, NewThreads DEF Ending, TypeInv
  <1>4. CancelsOK' BY <1>1, <1>2 DEF Inv, CancelsOK, ledger, history
  <1> QED BY <1>0, <1>1, <1>2, <1>3, <1>4, EndingStep DEF TypeInv, history

\* A request that cancels or queues a task, and may start a job.
LEMMA TaskStep ==
  ASSUME Inv, NEW t \in Tasks, NEW row \in Rows, task' = [task EXCEPT ![t] = row],
         \/ row = task[t]
         \/ /\ row.status = "cancelled" /\ task[t].status # "completed"
            /\ row.attempt = task[t].attempt
         \/ task[t].status = "none" /\ row.status = "queued",
         \/ job' = job
         \/ \E j \in Jobs, c \in Conns, u \in Tasks :
               /\ job[j].pc = "new"
               /\ job' = [job EXCEPT ![j].pc = "begin", ![j].conn = c, ![j].task = u],
         req' \in [Conns -> Requests],
         \A c \in Conns : req'[c].pc # "idle" => req'[c].task \in Tasks,
         CancelsOK', UNCHANGED <<audit, readAudit, history>>
  PROVE  Inv'
  <1>0. TypeInv BY DEF Inv
  <1>1. \A u \in Tasks : task'[u] = IF u = t THEN row ELSE task[u] BY <1>0 DEF TypeInv
  <1>2. task' \in [Tasks -> Rows] BY <1>0 DEF TypeInv
  <1> DEFINE JobsOK ==
        /\ job' \in [Jobs -> Threads]
        /\ \A k \in Jobs : job'[k] = job[k]
                           \/ (job'[k].pc = "begin" /\ ~job'[k].text /\ job'[k].task \in Tasks)
  <1>3. JobsOK
    <2>1. CASE job' = job BY <1>0, <2>1 DEF TypeInv
    <2>2. ASSUME NEW j \in Jobs, NEW c \in Conns, NEW u \in Tasks, job[j].pc = "new",
                 job' = [job EXCEPT ![j].pc = "begin", ![j].conn = c, ![j].task = u]
          PROVE  JobsOK
      <3> DEFINE h == [job[j] EXCEPT !.pc = "begin", !.conn = c, !.task = u]
      <3>1. job[j] \in Threads /\ ~job[j].text
        BY <1>0, <2>2 DEF Inv, TypeInv, ThreadOK, AuditOK
      <3>2. h \in Threads /\ h.pc = "begin" /\ ~h.text /\ h.task = u
        BY <3>1 DEF Threads
      <3>3. job' = [job EXCEPT ![j] = h] BY <2>2
      <3> HIDE DEF h
      <3> QED BY <1>0, <3>2, <3>3 DEF TypeInv
    <2> QED BY <2>1, <2>2
  <1>4. TypeInv'
    <2>1. \A k \in Jobs : job'[k].pc \notin {"new", "done"} => job'[k].task \in Tasks
      BY <1>0, <1>3 DEF TypeInv
    <2> QED BY <1>0, <1>2, <1>3, <2>1 DEF TypeInv, history
  <1> QED BY <1>1, <1>3, <1>4, RequestStep DEF history

LEMMA TaskSteps ==
  ASSUME Inv, NEW c \in Conns,
         \/ \E t \in Tasks : Prepare(c, t) \/ Confirm(c, t)
         \/ \E r \in Roots, t \in Children : FollowUp(c, r, t)
         \/ CancelSwap(c)
  PROVE  Inv'
  <1>0. TypeInv /\ CancelsOK /\ task \in [Tasks -> Rows] /\ req \in [Conns -> Requests]
    BY DEF Inv, TypeInv
  <1> DEFINE Started ==
                  \/ job' = job
                  \/ \E j \in Jobs, d \in Conns, u \in Tasks :
                        /\ job[j].pc = "new"
                        /\ job' = [job EXCEPT ![j].pc = "begin", ![j].conn = d, ![j].task = u]
  <1>1. \A d \in Conns : req[d].pc # "idle" => req[d].task \in Tasks BY <1>0 DEF TypeInv
  <1>2. ASSUME NEW t \in Tasks, NEW parent \in Tasks \cup {NoTask}, task[t].status = "none",
               task' = [task EXCEPT ![t] = Queued(parent)],
               Started,
               UNCHANGED <<req, audit, readAudit, history>>
        PROVE  Inv'
    <2> DEFINE row == Queued(parent)
    <2>1. row \in Rows /\ row.status = "queued"
      BY DEF Queued, Rows, Statuses
    <2>2. task' = [task EXCEPT ![t] = row] BY <1>2
    <2> HIDE DEF row
    <2>3. CancelsOK'
      <3>1. \A u \in Tasks : task'[u] = IF u = t THEN row ELSE task[u] BY <1>0, <2>2
      <3>2. answered \subseteq Tasks /\ explained \subseteq Tasks BY <1>0 DEF TypeInv
      <3>3. UNCHANGED <<req, answered, explained>> BY <1>2 DEF history
      <3>4. \A d \in Conns : req[d].pc = "cancelled" =>
               req[d].task \in Tasks /\ task[req[d].task].status = "cancelled"
        BY <1>0, <1>1 DEF CancelsOK
      <3>5. \A u \in answered' : task'[u].status = "cancelled"
        BY <1>0, <1>2, <3>1, <3>2, <3>3 DEF CancelsOK
      <3>6. \A u \in explained' : task'[u].status = "completed"
        BY <1>0, <1>2, <3>1, <3>2, <3>3 DEF CancelsOK
      <3>7. \A d \in Conns :
               /\ req'[d].pc = "cancel" => req'[d].seen \notin {"none", "completed"}
               /\ req'[d].pc = "cancelled" => task'[req'[d].task].status = "cancelled"
        BY <1>0, <1>2, <3>1, <3>3, <3>4 DEF CancelsOK
      <3> QED BY <3>5, <3>6, <3>7 DEF CancelsOK
    <2> QED BY <1>0, <1>1, <1>2, <2>1, <2>2, <2>3, TaskStep
  <1>3. ASSUME NEW t \in Tasks, Prepare(c, t) PROVE Inv'
    BY <1>2, <1>3 DEF Prepare, history
  <1>4. ASSUME NEW t \in Tasks, Confirm(c, t) PROVE Inv'
    <2>1. UNCHANGED <<ledger, req, history>> BY <1>4 DEF Confirm
    <2>2. task' = [task EXCEPT ![t] = task[t]] /\ task[t] \in Rows
      BY <1>0, <2>1 DEF ledger
    <2>3. CancelsOK' BY <1>0, <2>1 DEF CancelsOK, ledger, history
    <2>4. Started BY <1>4 DEF Confirm, StartJob
    <2> HIDE DEF Started
    <2>5. UNCHANGED <<audit, readAudit, history, req>> BY <2>1 DEF ledger
    <2> QED BY <1>0, <1>1, <2>2, <2>3, <2>4, <2>5, TaskStep DEF Started
  <1>5. ASSUME NEW r \in Roots, NEW t \in Children, FollowUp(c, r, t) PROVE Inv'
    <2>1. t \in Tasks /\ r \in Tasks \cup {NoTask} BY DEF Tasks
    <2>2. /\ task[t].status = "none" /\ task' = [task EXCEPT ![t] = Queued(r)]
          /\ UNCHANGED <<req, audit, readAudit, history>>
      BY <1>5 DEF FollowUp
    <2>3. Started BY <1>5, <2>1 DEF FollowUp
    <2> HIDE DEF Started
    <2> QED BY <1>2, <2>1, <2>2, <2>3
  <1>6. ASSUME CancelSwap(c) PROVE Inv'
    <2>0. PICK t \in Tasks : t = req[c].task BY <1>1, <1>6 DEF CancelSwap
    <2>1. req[c].pc = "cancel" /\ UNCHANGED <<job, audit, readAudit, history>>
      BY <1>6 DEF CancelSwap
    <2>2. CASE task[t].status = req[c].seen
      <3> DEFINE row == [task[t] EXCEPT !.status = "cancelled"]
                 q == [req[c] EXCEPT !.pc = "cancelled"]
      <3>1. task' = [task EXCEPT ![t] = row] /\ req' = [req EXCEPT ![c] = q]
        BY <1>6, <2>0, <2>2 DEF CancelSwap
      <3>2. row \in Rows /\ row.status = "cancelled" /\ row.attempt = task[t].attempt
        BY <1>0 DEF Rows, Statuses
      <3>3. q \in Requests /\ q.pc = "cancelled" /\ q.task = t BY <1>0, <2>0 DEF Requests
      <3> HIDE DEF row, q
      <3>4. task[t].status # "completed" BY <1>0, <2>1, <2>2 DEF CancelsOK
      <3>5. /\ \A d \in Conns : req'[d] = IF d = c THEN q ELSE req[d]
            /\ \A u \in Tasks : task'[u] = IF u = t THEN row ELSE task[u]
            /\ req' \in [Conns -> Requests]
        BY <1>0, <3>1, <3>3
      <3>6. CancelsOK'
        <4>1. /\ answered' \subseteq Tasks /\ explained' \subseteq Tasks
              /\ UNCHANGED <<answered, explained>>
          BY <1>0, <2>1 DEF TypeInv, history
        <4>2. \A u \in answered' : task'[u].status = "cancelled"
          BY <1>0, <3>2, <3>5, <4>1 DEF CancelsOK
        <4>3. \A u \in explained' : task'[u].status = "completed"
          BY <1>0, <3>4, <3>5, <4>1 DEF CancelsOK
        <4>4. \A d \in Conns :
                 /\ req'[d].pc = "cancel" => req'[d].seen \notin {"none", "completed"}
                 /\ req'[d].pc = "cancelled" => task'[req'[d].task].status = "cancelled"
          BY <1>0, <1>1, <3>2, <3>3, <3>5 DEF CancelsOK
        <4> QED BY <4>2, <4>3, <4>4 DEF CancelsOK
      <3>7. \A d \in Conns : req'[d].pc # "idle" => req'[d].task \in Tasks
        BY <1>1, <3>3, <3>5
      <3> QED BY <2>1, <3>1, <3>2, <3>4, <3>5, <3>6, <3>7, TaskStep
    <2>3. CASE task[t].status # req[c].seen
      <3>1. req' = [req EXCEPT ![c] = NoReq] /\ task' = task
        BY <1>6, <2>0, <2>3 DEF CancelSwap
      <3>2. NoReq \in Requests /\ NoReq.pc = "idle" BY DEF NoReq, Requests, Statuses
      <3>3. /\ \A d \in Conns : req'[d] = IF d = c THEN NoReq ELSE req[d]
            /\ req' \in [Conns -> Requests]
        BY <1>0, <3>1, <3>2
      <3>4. CancelsOK' BY <1>0, <2>1, <3>1, <3>2, <3>3 DEF CancelsOK, history
      <3>5. \A d \in Conns : req'[d].pc # "idle" => req'[d].task \in Tasks
        BY <1>1, <3>2, <3>3
      <3>6. task' = [task EXCEPT ![t] = task[t]] /\ task[t] \in Rows BY <1>0, <3>1
      <3> QED BY <2>1, <3>3, <3>4, <3>5, <3>6, TaskStep
    <2> QED BY <2>2, <2>3
  <1> QED BY <1>3, <1>4, <1>5, <1>6

LEMMA InitInv == Init => Inv
  <1> SUFFICES ASSUME Init PROVE Inv
    OBVIOUS
  <1>1. NoRow \in Rows /\ NoRow.status = "none" BY DEF NoRow, Rows, Statuses
  <1>2. NoReq \in Requests /\ NoReq.pc = "idle" BY DEF NoReq, Requests, Statuses
  <1>3. TypeInv
    BY <1>1, <1>2, NewThreads DEF Init, TypeInv, Results
  <1>4. \A j \in Jobs : job[j].pc = "new" /\ ~job[j].text BY NewThreads DEF Init
  <1>5. \A j \in Jobs : ThreadOK(j)
    BY <1>4 DEF ThreadOK, AttemptOK, AuditOK, SeenOK, Inside
  <1>6. Alone BY <1>4 DEF Alone, Inside
  <1>7. LateOK /\ KeptOK /\ CancelsOK
    BY <1>1, <1>2 DEF Init, LateOK, KeptOK, CancelsOK
  <1> QED BY <1>3, <1>5, <1>6, <1>7 DEF Inv

LEMMA StutterInv == Inv /\ UNCHANGED documentVars => Inv'
  <1> SUFFICES ASSUME Inv, UNCHANGED documentVars PROVE Inv'
    OBVIOUS
  <1>1. CancelsOK' BY DEF documentVars, Inv, CancelsOK
  <1>2. Ending(Jobs) BY DEF documentVars, Ending
  <1> QED BY <1>1, <1>2, EndingStep DEF documentVars, ledger, Inv, TypeInv

LEMMA NextInv == Inv /\ [Next]_documentVars => Inv'
  <1> SUFFICES ASSUME Inv, Next PROVE Inv'
    BY StutterInv
  <1>1. ASSUME NEW c \in Conns, Serve(c) PROVE Inv'
    BY <1>1, TaskSteps, CancelSteps DEF Serve
  <1>2. ASSUME NEW j \in Jobs, Work(j) \/ StoreError(j) PROVE Inv'
    BY <1>2, QuietSteps, SwapSteps, ReadStep, AuditSteps, SendStep,
       AuditResultsStep, StartStep, AnswerStep DEF Work
  <1>3. ASSUME Crash PROVE Inv'
    BY <1>3, CrashStep
  <1> QED BY <1>1, <1>2, <1>3 DEF Next

LEMMA InvHolds == Spec => []Inv
  BY InitInv, NextInv, PTL DEF Spec

\* A thread finds the attempt it started as it left it, or cancelled, and no other
\* thread inside its task, whatever is cancelled, lost, retried or stopped meanwhile.
THEOREM AttemptsAreOwned == Spec => []OwnAttempt
  <1>1. Inv => OwnAttempt
    BY DEF Inv, ThreadOK, AttemptOK, Alone, OwnAttempt, Status
  <1> QED BY InvHolds, <1>1, PTL

\* A cancelled task costs one provider call at most, for every number of providers
\* and of threads.
THEOREM EgressIsBounded == Spec => []EgressEnds
  <1>1. Inv => EgressEnds BY DEF Inv, LateOK, EgressEnds
  <1> QED BY InvHolds, <1>1, PTL

-----------------------------------------------------------------------------
(* What is kept is audited.  As long as no store raised, a decision without a result *)
(* is that of the provider being refused, or ends the attempt.                       *)

DecidedOK(j) ==
    \A p \in Providers : audit[job[j].task][p] = "decided" =>
        /\ job[j].pc \notin {"read", "progress", "grant", "recheck", "send", "verify", "complete"}
        /\ job[j].pc \in {"refuse", "withdraw"} => p = job[j].prov
        /\ job[j].pc \in {"provider", "audit"} => job[j].unaudited

NoneDecided ==
    \A t \in Tasks : task[t].status = "completed" =>
        \A p \in Providers : audit[t][p] # "decided"

Decisions == NoneDecided /\ \A j \in Jobs : Inside(j) => DecidedOK(j)

\* The swaps of the ledger: a thread completes its own task without writing its audits,
\* and the audits of a task are written by the thread inside, or the one that starts it.
LEMMA DecidedStep ==
  ASSUME Inv, Decisions, NEW j \in Jobs, NEW h \in Threads, job' = [job EXCEPT ![j] = h],
         NEW t \in Tasks, job[j].task = t, h.task = t,
         \A u \in Tasks : u # t => task'[u] = task[u] /\ audit'[u] = audit[u],
         \/ Inside(j) \/ audit' = audit
         \/ task[t].status \notin {"running", "verifying", "cancelled", "completed"},
         Inside(j)' => DecidedOK(j)',
         task'[t].status = "completed" =>
            \/ task'[t] = task[t]
            \/ /\ audit' = audit /\ \A p \in Providers : audit[t][p] # "decided"
  PROVE  Decisions'
  <1>1. \A k \in Jobs : job'[k] = IF k = j THEN h ELSE job[k] BY DEF Inv, TypeInv
  <1>2. ASSUME NEW k \in Jobs, Inside(k)' PROVE DecidedOK(k)'
    <2>1. CASE k = j BY <1>2, <2>1
    <2>2. CASE k # j
      <3>1. job'[k] = job[k] /\ Inside(k) BY <1>1, <1>2, <2>2 DEF Inside
      <3>2. DecidedOK(k) /\ ThreadOK(k) BY <3>1 DEF Decisions, Inv
      <3>3. job[k].task \in Tasks BY <3>1 DEF Inv, TypeInv, Inside
      <3>4. audit'[job[k].task] = audit[job[k].task]
        <4>1. CASE job[k].task # t BY <3>3, <4>1
        <4>2. CASE job[k].task = t
          <5>1. ~Inside(j) BY <2>2, <3>1, <4>2 DEF Inv, Alone
          <5>2. task[t].status \in {"running", "verifying", "cancelled"}
            BY <3>1, <3>2, <4>2 DEF ThreadOK, AttemptOK
          <5> QED BY <5>1, <5>2
        <4> QED BY <4>1, <4>2
      <3> QED BY <3>1, <3>2, <3>4 DEF DecidedOK
    <2> QED BY <2>1, <2>2
  <1>3. NoneDecided'
    <2> SUFFICES ASSUME NEW u \in Tasks, task'[u].status = "completed"
                 PROVE  \A p \in Providers : audit'[u][p] # "decided"
      BY DEF NoneDecided
    <2>1. CASE u # t BY <2>1 DEF Decisions, NoneDecided
    <2>2. CASE u = t /\ task'[t] = task[t]
      <3>1. ~Inside(j) BY <2>2 DEF Inv, ThreadOK, AttemptOK
      <3> QED BY <2>2, <3>1 DEF Decisions, NoneDecided
    <2>3. CASE u = t /\ task'[t] # task[t] BY <2>3
    <2> QED BY <2>1, <2>2, <2>3
  <1> QED BY <1>2, <1>3 DEF Decisions

\* A step that leaves the audits alone, starts no thread inside and completes no task.
LEMMA DecidedKept ==
  ASSUME Inv, Decisions, UNCHANGED audit,
         \A t \in Tasks : task'[t].status = "completed" => task[t].status = "completed",
         \A k \in Jobs : Inside(k)' =>
            /\ job'[k].pc = job[k].pc /\ job'[k].task = job[k].task
            /\ job'[k].prov = job[k].prov /\ job'[k].unaudited = job[k].unaudited
  PROVE  Decisions'
  <1>1. ASSUME NEW k \in Jobs, Inside(k)' PROVE DecidedOK(k)'
    <2>1. Inside(k) BY <1>1 DEF Inside
    <2> QED BY <1>1, <2>1 DEF Decisions, DecidedOK
  <1> QED BY <1>1 DEF Decisions, NoneDecided

LEMMA DecidedThread ==
  ASSUME Inv, Decisions, NEW j \in Jobs, Work(j), ~Answer(j)
  PROVE  Decisions'
  <1>0. PICK t \in Tasks : t = job[j].task
    BY DEF Work, Begin, Retry, Start, ReadDocument, Progress, TryProvider, Grant, Recheck,
           Refuse, Send, GiveUp, AuditResults, Verify, Complete, GiveBackRead, GiveBackSwap,
           Inv, TypeInv
  <1>1. /\ TypeInv /\ ThreadOK(j) /\ job \in [Jobs -> Threads] /\ job[j] \in Threads
        /\ audit \in [Tasks -> [Providers -> Results]] /\ task \in [Tasks -> Rows]
        /\ (Inside(j) => DecidedOK(j))
    BY DEF Inv, TypeInv, Decisions
  <1>2. ASSUME NEW h \in Threads, job' = [job EXCEPT ![j] = h], h.task = t,
               UNCHANGED audit,
               task' = task \/ \E s \in Statuses \ {"completed"} :
                                  task' = [task EXCEPT ![t].status = s],
               Inside(j)' => DecidedOK(j)'
        PROVE  Decisions'
    <2>1. \A u \in Tasks : u # t => task'[u] = task[u] BY <1>1, <1>2
    <2>2. task'[t].status = "completed" => task'[t] = task[t] BY <1>1, <1>2 DEF Rows
    <2> QED BY <1>0, <1>2, <2>1, <2>2, DecidedStep
  <1>3. ASSUME NEW h \in Threads, job' = [job EXCEPT ![j] = h], h.task = t, Inside(j),
               NEW row, audit' = [audit EXCEPT ![t] = row], task' = task,
               \A p \in Providers : row[p] = "decided" =>
                  /\ h.pc \notin {"read", "progress", "grant", "recheck", "send", "verify",
                                  "complete"}
                  /\ h.pc \in {"refuse", "withdraw"} => p = h.prov
                  /\ h.pc \in {"provider", "audit"} => h.unaudited
        PROVE  Decisions'
    <2>1. job'[j] = h /\ audit'[t] = row BY <1>1, <1>3
    <2>2. DecidedOK(j)' BY <1>3, <2>1 DEF DecidedOK
    <2>3. \A u \in Tasks : u # t => audit'[u] = audit[u] BY <1>1, <1>3
    <2> QED BY <1>0, <1>3, <2>2, <2>3, DecidedStep
  <1>4. CASE Begin(j) \/ GiveBackRead(j)
    <2>1. PICK h \in Threads :
             /\ job' = [job EXCEPT ![j] = h] /\ h.task = t
             /\ h.pc \in {"start", "retry", "answer", "failing", "interrupting"}
      <3>1. Status(j) \in Statuses BY <1>0, <1>1 DEF Status, Rows
      <3>2. CASE Begin(j)
        <4> DEFINE pc == IF Status(j) = "queued" THEN "start"
                         ELSE IF t \in Roots /\ Status(j) \in Retryable THEN "retry"
                         ELSE "answer"
                   h == [job[j] EXCEPT !.seen = Status(j), !.pc = pc]
        <4>1. job' = [job EXCEPT ![j] = h] BY <1>0, <3>2 DEF Begin
        <4>2. pc \in {"start", "retry", "answer"} OBVIOUS
        <4> HIDE DEF pc
        <4>3. h \in Threads /\ h.task = t /\ h.pc = pc BY <1>0, <1>1, <3>1, <4>2 DEF Threads
        <4> QED BY <4>1, <4>2, <4>3
      <3>3. CASE GiveBackRead(j)
        <4>1. PICK pc \in {"failing", "interrupting", "answer"}, s \in Statuses :
                 job' = [job EXCEPT ![j].pc = pc, ![j].seen = s]
          <5>1. CASE job' = [job EXCEPT ![j].pc = "answer"]
            <6>1. job[j].seen \in Statuses BY <1>1 DEF Threads
            <6>2. job' = [job EXCEPT ![j].pc = "answer", ![j].seen = job[j].seen]
              BY <1>1, <5>1 DEF Threads
            <6> QED BY <6>1, <6>2
          <5>2. CASE job' # [job EXCEPT ![j].pc = "answer"]
            BY <3>1, <3>3, <5>2 DEF GiveBackRead
          <5> QED BY <5>1, <5>2
        <4> DEFINE h == [job[j] EXCEPT !.pc = pc, !.seen = s]
        <4>2. h \in Threads /\ h.task = t /\ h.pc = pc BY <1>0, <1>1 DEF Threads, Working
        <4> QED BY <4>1, <4>2
      <3> QED BY <1>4, <3>2, <3>3
    <2>2. UNCHANGED <<audit, task>> BY <1>4 DEF Begin, GiveBackRead, ledger
    <2>3. Inside(j)' => DecidedOK(j)'
      BY <1>1, <2>1 DEF Inside, DecidedOK
    <2> QED BY <1>2, <2>1, <2>2, <2>3
  <1>5. ASSUME NEW pc \in {"start", "answer", "progress", "interrupt", "fail", "provider",
                           "verify", "audit", "complete", "explain"},
               job' = [job EXCEPT ![j].pc = pc], UNCHANGED audit,
               \/ pc \in {"start", "answer", "interrupt", "fail", "explain"}
               \/ pc = "progress" /\ job[j].pc = "read"
               \/ pc \in {"provider", "verify"} /\ job[j].pc = "progress"
               \/ pc = "audit" /\ job[j].pc = "provider"
               \/ pc = "complete" /\ job[j].pc = "verify",
               task' = task \/ \E s \in Statuses \ {"completed"} :
                                  task' = [task EXCEPT ![t].status = s]
        PROVE  Decisions'
    <2> DEFINE h == [job[j] EXCEPT !.pc = pc]
    <2>1. /\ h \in Threads /\ h.pc = pc /\ h.task = t /\ h.unaudited = job[j].unaudited
      BY <1>0, <1>1 DEF Threads, Working
    <2>2. job' = [job EXCEPT ![j] = h] BY <1>5
    <2> HIDE DEF h
    <2>3. job'[j] = h BY <1>1, <2>2
    <2>4. Inside(j)' => DecidedOK(j)'
      BY <1>0, <1>1, <1>5, <2>1, <2>3 DEF Inside, DecidedOK
    <2> QED BY <1>2, <1>5, <2>1, <2>2, <2>4
  <1>6. CASE Retry(j) \/ Verify(j) \/ GiveBackSwap(j)
    BY <1>0, <1>1, <1>5, <1>6 DEF Retry, Verify, GiveBackSwap, Goto, Statuses
  <1>7. CASE ReadDocument(j) \/ Progress(j) \/ GiveUp(j)
    <2>1. CASE ReadDocument(j)
      <3>1. PICK pc \in {"progress", "interrupt", "fail"} : job' = [job EXCEPT ![j].pc = pc]
        BY <2>1 DEF ReadDocument, Goto
      <3> QED BY <1>5, <2>1, <3>1 DEF ReadDocument
    <2>2. CASE Progress(j) BY <1>5, <2>2 DEF Progress, Goto, ledger
    <2>3. CASE GiveUp(j) BY <1>5, <2>3 DEF GiveUp, Goto, ledger
    <2> QED BY <1>7, <2>1, <2>2, <2>3
  <1>8. CASE TryProvider(j)
    <2>0. PICK p \in Providers, pc \in {"grant", "provider"} :
             job' = [job EXCEPT ![j].tried = @ \cup {p}, ![j].prov = p, ![j].pc = pc]
      BY <1>8 DEF TryProvider
    <2> DEFINE h == [job[j] EXCEPT !.tried = @ \cup {p}, !.prov = p, !.pc = pc]
    <2>1. h \in Threads /\ h.pc = pc /\ h.task = t
      BY <1>0, <1>1 DEF Threads, Working
    <2>2. job' = [job EXCEPT ![j] = h] BY <2>0
    <2> HIDE DEF h
    <2>3. /\ job[j].pc = "provider" /\ ~job[j].unaudited /\ UNCHANGED <<task, audit>>
      BY <1>8 DEF TryProvider, ledger
    <2>4. \A q \in Providers : audit[t][q] # "decided"
      BY <1>0, <1>1, <2>3 DEF Inside, DecidedOK
    <2>5. DecidedOK(j)' BY <1>1, <2>1, <2>2, <2>3, <2>4 DEF DecidedOK
    <2> QED BY <1>2, <2>1, <2>2, <2>3, <2>5
  <1>9. CASE Send(j)
    <2>0. PICK text \in BOOLEAN, pc \in {"audit", "provider"} :
             job' = [job EXCEPT ![j].text = text, ![j].pc = pc]
      BY <1>9 DEF Send
    <2> DEFINE h == [job[j] EXCEPT !.text = text, !.pc = pc]
    <2>1. h \in Threads /\ h.pc = pc /\ h.task = t
      BY <1>0, <1>1 DEF Threads, Working
    <2>2. job' = [job EXCEPT ![j] = h] BY <2>0
    <2> HIDE DEF h
    <2>3. /\ job[j].pc = "send" /\ UNCHANGED <<task, audit>> BY <1>9 DEF Send, ledger
    <2>4. \A q \in Providers : audit[t][q] # "decided"
      BY <1>0, <1>1, <2>3 DEF Inside, DecidedOK
    <2>5. DecidedOK(j)' BY <1>1, <2>1, <2>2, <2>3, <2>4 DEF DecidedOK
    <2> QED BY <1>2, <2>1, <2>2, <2>3, <2>5
  <1>10. CASE Grant(j) \/ Recheck(j)
    <2>0. /\ job[j].pc \in {"grant", "recheck"} /\ task' = task
      BY <1>10 DEF Grant, Recheck
    <2>1. \A q \in Providers : audit[t][q] # "decided"
      BY <1>0, <1>1, <2>0 DEF Inside, DecidedOK
    <2> DEFINE p == job[j].prov
    <2>2. p \in Providers BY <1>1, <2>0 DEF ThreadOK, AuditOK
    <2>3. PICK x \in Results, pc \in {"recheck", "refuse", "provider", "send", "withdraw"} :
             /\ job' = [job EXCEPT ![j].pc = pc]
             /\ audit' = [audit EXCEPT ![t][p] = x]
             /\ x = "decided" => pc \in {"refuse", "withdraw"}
      <3>1. CASE Grant(j)
        BY <1>0, <3>1 DEF Grant, Goto, Results
      <3>2. CASE Recheck(j) /\ StillRunning(j)
        <4>1. /\ audit[t][p] \in Results /\ audit[t][p] # "decided"
              /\ audit' = [audit EXCEPT ![t][p] = audit[t][p]]
              /\ job' = [job EXCEPT ![j].pc = "send"]
          BY <1>1, <2>1, <2>2, <3>2 DEF Recheck, Goto
        <4> QED BY <4>1
      <3>3. CASE Recheck(j) /\ ~StillRunning(j)
        BY <1>0, <3>3 DEF Recheck, Goto, Results
      <3> QED BY <1>10, <3>1, <3>2, <3>3
    <2> DEFINE row == [audit[t] EXCEPT ![p] = x]
               h == [job[j] EXCEPT !.pc = pc]
    <2>4. h \in Threads /\ h.pc = pc /\ h.task = t /\ h.prov = p
      BY <1>0, <1>1 DEF Threads, Working
    <2>5. job' = [job EXCEPT ![j] = h] /\ audit' = [audit EXCEPT ![t] = row] BY <2>3
    <2>6. \A q \in Providers : row[q] = IF q = p THEN x ELSE audit[t][q]
      BY <1>1, <2>2
    <2> HIDE DEF row, h, p
    <2>7. \A q \in Providers : row[q] = "decided" => pc \in {"refuse", "withdraw"} /\ q = p
      BY <2>1, <2>3, <2>6
    <2>8. Inside(j) BY <2>0 DEF Inside
    <2>9. \A q \in Providers : row[q] = "decided" =>
             /\ h.pc \notin {"read", "progress", "grant", "recheck", "send", "verify", "complete"}
             /\ h.pc \in {"refuse", "withdraw"} => q = h.prov
             /\ h.pc \in {"provider", "audit"} => h.unaudited
      BY <2>4, <2>7
    <2> QED BY <1>3, <2>0, <2>4, <2>5, <2>8, <2>9
  <1>11. CASE Refuse(j)
    <2> DEFINE p == job[j].prov
    <2>0. /\ job[j].pc \in {"refuse", "withdraw"} /\ task' = task
      BY <1>11 DEF Refuse
    <2>1. \A q \in Providers : audit[t][q] = "decided" => q = p
      BY <1>0, <1>1, <2>0 DEF Inside, DecidedOK
    <2>2. PICK failed \in BOOLEAN :
             /\ audit' = [audit EXCEPT ![job[j].task][job[j].prov] =
                   IF failed THEN @ ELSE IF job[j].pc = "refuse" THEN "failed" ELSE "cancelled"]
             /\ job' = [job EXCEPT ![j].pc = "provider", ![j].unaudited = failed]
      BY <1>11 DEF Refuse
    <2>3. p \in Providers BY <1>1, <2>0 DEF ThreadOK, AuditOK
    <2> DEFINE x == IF failed THEN audit[t][p]
                    ELSE IF job[j].pc = "refuse" THEN "failed" ELSE "cancelled"
               row == [audit[t] EXCEPT ![p] = x]
               h == [job[j] EXCEPT !.pc = "provider", !.unaudited = failed]
    <2>4. h \in Threads /\ h.pc = "provider" /\ h.task = t /\ h.unaudited = failed
      BY <1>0, <1>1 DEF Threads, Working
    <2>5. job' = [job EXCEPT ![j] = h] /\ audit' = [audit EXCEPT ![t] = row]
      BY <1>0, <2>2
    <2>6. \A q \in Providers : row[q] = "decided" => failed
      BY <1>1, <2>1, <2>3
    <2> HIDE DEF row, h, p
    <2> QED BY <1>3, <2>0, <2>4, <2>5, <2>6 DEF Inside
  <1>12. CASE AuditResults(j)
    <2> DEFINE open == {p \in Providers : audit[job[j].task][p] = "open"}
               after(failed, p) ==
                  IF p \notin open \ failed THEN audit[job[j].task][p]
                  ELSE IF p = job[j].prov /\ job[j].text THEN "success" ELSE "failed"
    <2>0. /\ job[j].pc = "audit" /\ task' = task BY <1>12 DEF AuditResults
    <2>1. PICK failed \in SUBSET open, pc \in {"interrupt", "answer", "progress"} :
             /\ audit' = [audit EXCEPT ![job[j].task] = [p \in Providers |-> after(failed, p)]]
             /\ job' = [job EXCEPT ![j].tried = {}, ![j].prov = NoProvider,
                                   ![j].unaudited = FALSE, ![j].pc = pc]
             /\ pc = "progress" => ~job[j].unaudited
      BY <1>12 DEF AuditResults, Audited
    <2> DEFINE row == [p \in Providers |-> after(failed, p)]
               h == [job[j] EXCEPT !.tried = {}, !.prov = NoProvider, !.unaudited = FALSE,
                                   !.pc = pc]
    <2>2. h \in Threads /\ h.pc = pc /\ h.task = t
      BY <1>0, <1>1 DEF Threads, Working
    <2>3. job' = [job EXCEPT ![j] = h] /\ audit' = [audit EXCEPT ![t] = row]
      BY <1>0, <2>1
    <2>4. \A q \in Providers : audit[t][q] = "decided" => job[j].unaudited
      BY <1>0, <1>1, <2>0 DEF Inside, DecidedOK
    <2>5. \A q \in Providers : row[q] = "decided" => pc # "progress"
      BY <1>0, <2>1, <2>4
    <2> HIDE DEF row, h, open, after
    <2> QED BY <1>3, <2>0, <2>1, <2>2, <2>3, <2>5 DEF Inside
  <1>13. CASE Start(j)
    <2>1. CASE Status(j) # "queued"
      BY <1>5, <1>13, <2>1 DEF Start, Goto, ledger
    <2>2. CASE Status(j) = "queued"
      <3> DEFINE n == task[t].attempt + 1
                 pc == IF t \in Roots THEN "read" ELSE "provider"
                 row == [task[t] EXCEPT !.status = "running", !.attempt = n]
                 h == [job[j] EXCEPT !.pc = pc, !.attempt = n]
                 none == [p \in Providers |-> "none"]
      <3>1. /\ task' = [task EXCEPT ![t] = row] /\ job' = [job EXCEPT ![j] = h]
            /\ audit' = [audit EXCEPT ![t] = none] /\ task[t].status = "queued"
        BY <1>0, <1>13, <2>2 DEF Start, Status
      <3>2. n \in Nat /\ row.status = "running" BY <1>1 DEF Rows
      <3>3. h \in Threads /\ h.task = t BY <1>0, <1>1, <3>2 DEF Threads, Working
      <3>4. \A p \in Providers : none[p] # "decided" OBVIOUS
      <3> HIDE DEF h, row, none
      <3>5. /\ \A u \in Tasks : u # t => task'[u] = task[u] /\ audit'[u] = audit[u]
            /\ job'[j] = h /\ task'[t].status = "running" /\ audit'[t] = none
        BY <1>1, <3>1, <3>2
      <3>6. DecidedOK(j)' BY <3>3, <3>4, <3>5 DEF DecidedOK
      <3> QED BY <1>0, <3>1, <3>3, <3>5, <3>6, DecidedStep
    <2> QED BY <2>1, <2>2
  <1>14. CASE Complete(j)
    <2>1. CASE Status(j) # "verifying"
      BY <1>5, <1>14, <2>1 DEF Complete, Goto
    <2>2. CASE Status(j) = "verifying"
      <3> DEFINE h == [job[j] EXCEPT !.pc = "explain"]
      <3>1. /\ job' = [job EXCEPT ![j] = h] /\ audit' = audit /\ job[j].pc = "complete"
            /\ task' = [task EXCEPT ![t].status = "completed"]
        BY <1>0, <1>14, <2>2 DEF Complete, Goto
      <3>2. h \in Threads /\ h.task = t /\ h.pc = "explain" BY <1>0, <1>1 DEF Threads
      <3> HIDE DEF h
      <3>3. \A p \in Providers : audit[t][p] # "decided"
        BY <1>0, <1>1, <3>1 DEF Inside, DecidedOK
      <3>4. ~Inside(j)' BY <1>1, <3>1, <3>2 DEF Inside
      <3>5. \A u \in Tasks : u # t => task'[u] = task[u] BY <1>1, <3>1
      <3> QED BY <1>0, <3>1, <3>2, <3>3, <3>4, <3>5, DecidedStep
    <2> QED BY <2>1, <2>2
  <1> QED BY <1>4, <1>6, <1>7, <1>8, <1>9, <1>10, <1>11, <1>12, <1>13, <1>14 DEF Work

\* As long as there was no fault: a step that is one, ends that.
DecidedInv == faults \in Nat /\ (faults = 0 => Decisions)

LEMMA DecidedNext == Inv /\ DecidedInv /\ [Next]_documentVars => DecidedInv'
  <1> SUFFICES ASSUME Inv, DecidedInv, [Next]_documentVars PROVE DecidedInv'
    OBVIOUS
  <1>1. faults' = faults \/ faults' = faults + 1
    BY DEF Next, Serve, Work, Prepare, Confirm, FollowUp, CancelRead, CancelSwap, CancelAnswer,
           Disconnect, Begin, Retry, Start, ReadDocument, Progress, TryProvider, Grant, Recheck,
           Refuse, Send, GiveUp, AuditResults, Verify, Complete, GiveBackRead, GiveBackSwap,
           Answer, StoreError, Crash, documentVars
  <1>2. faults' \in Nat BY <1>1 DEF DecidedInv
  <1>3. ASSUME faults' = 0 PROVE Decisions'
    <2>1. faults = 0 /\ Decisions BY <1>1, <1>3 DEF DecidedInv
    <2>2. CASE UNCHANGED documentVars
      <3>1. Inv' /\ UNCHANGED <<task, job, audit>> BY <2>2, StutterInv DEF documentVars
      <3> QED BY <2>1, <3>1, DecidedKept
    <2>3. ASSUME NEW c \in Conns, Serve(c) PROVE Decisions'
      <3>1. UNCHANGED audit
        BY <2>3 DEF Serve, Prepare, Confirm, FollowUp, CancelRead, CancelSwap, CancelAnswer,
                    Disconnect, ledger
      <3>2. ASSUME NEW t \in Tasks, task'[t].status = "completed"
            PROVE  task[t].status = "completed"
        <4>1. \/ task' = task
              \/ \E u \in Tasks, parent \in Tasks \cup {NoTask} :
                    task' = [task EXCEPT ![u] = Queued(parent)]
              \/ \E u \in Tasks : task' = [task EXCEPT ![u].status = "cancelled"]
          <5>1. CASE \E u \in Tasks : Prepare(c, u) \/ Confirm(c, u)
            BY <5>1 DEF Prepare, Confirm, ledger
          <5>2. ASSUME NEW r \in Roots, NEW u \in Children, FollowUp(c, r, u)
                PROVE  \E v \in Tasks, parent \in Tasks \cup {NoTask} :
                          task' = [task EXCEPT ![v] = Queued(parent)]
            <6>1. u \in Tasks /\ r \in Tasks \cup {NoTask} BY DEF Tasks
            <6>2. task' = [task EXCEPT ![u] = Queued(r)] BY <5>2 DEF FollowUp
            <6> QED BY <6>1, <6>2
          <5>3. CASE CancelSwap(c)
            <6>1. req[c].task \in Tasks BY <5>3 DEF CancelSwap, Inv, TypeInv
            <6> QED BY <5>3, <6>1 DEF CancelSwap
          <5>4. CASE (\E u \in Tasks : CancelRead(c, u)) \/ CancelAnswer(c) \/ Disconnect(c)
            BY <5>4 DEF CancelRead, CancelAnswer, Disconnect, ledger
          <5> QED BY <2>3, <5>1, <5>2, <5>3, <5>4 DEF Serve
        <4>2. task \in [Tasks -> Rows] /\ task[t] \in Rows BY DEF Inv, TypeInv
        <4>3. ASSUME NEW u \in Tasks, NEW parent \in Tasks \cup {NoTask},
                     task' = [task EXCEPT ![u] = Queued(parent)]
              PROVE  task[t].status = "completed"
          <5>1. t # u BY <3>2, <4>2, <4>3 DEF Queued
          <5> QED BY <3>2, <4>2, <4>3, <5>1
        <4>4. ASSUME NEW u \in Tasks, task' = [task EXCEPT ![u].status = "cancelled"]
              PROVE  task[t].status = "completed"
          <5>1. t # u BY <3>2, <4>2, <4>4 DEF Rows
          <5> QED BY <3>2, <4>2, <4>4, <5>1
        <4> QED BY <3>2, <4>1, <4>3, <4>4
      <3>3. ASSUME NEW k \in Jobs, Inside(k)'
            PROVE  /\ job'[k].pc = job[k].pc /\ job'[k].task = job[k].task
                   /\ job'[k].prov = job[k].prov /\ job'[k].unaudited = job[k].unaudited
        <4>0. TypeInv /\ job \in [Jobs -> Threads] /\ job[k] \in Threads BY DEF Inv, TypeInv
        <4>1. \/ job' = job \/ Ending(Jobs)
              \/ \E j \in Jobs, d \in Conns, u \in Tasks :
                    job' = [job EXCEPT ![j].pc = "begin", ![j].conn = d, ![j].task = u]
          <5>1. CASE \E u \in Tasks : Prepare(c, u) \/ Confirm(c, u)
            BY <5>1 DEF Prepare, Confirm, StartJob
          <5>2. ASSUME NEW r \in Roots, NEW u \in Children, FollowUp(c, r, u)
                PROVE  job' = job \/ \E j \in Jobs, d \in Conns, v \in Tasks :
                          job' = [job EXCEPT ![j].pc = "begin", ![j].conn = d, ![j].task = v]
            <6>1. u \in Tasks BY DEF Tasks
            <6>2. job' = job \/ \E j \in Jobs :
                     job' = [job EXCEPT ![j].pc = "begin", ![j].conn = c, ![j].task = u]
              BY <5>2 DEF FollowUp
            <6> QED BY <6>1, <6>2
          <5>3. CASE CancelSwap(c) \/ \E u \in Tasks : CancelRead(c, u)
            BY <5>3 DEF CancelSwap, CancelRead
          <5>4. CASE CancelAnswer(c) \/ Disconnect(c)
            <6>1. \E S \in SUBSET Jobs : Abandon(S) BY <5>4 DEF CancelAnswer, Disconnect
            <6> QED BY <4>0, <6>1, AbandonEnds
          <5> QED BY <2>3, <5>1, <5>2, <5>3, <5>4 DEF Serve
        <4>2. CASE job' = job BY <4>2
        <4>3. CASE Ending(Jobs)
          <5>1. job'[k] # Ended BY <3>3, NewThreads DEF Inside
          <5>2. job'[k] = job[k] \/ job'[k] = [job[k] EXCEPT !.conn = NoConn]
            BY <4>3, <5>1 DEF Ending
          <5> QED BY <4>0, <5>2 DEF Threads
        <4>4. ASSUME NEW j \in Jobs, NEW d \in Conns, NEW u \in Tasks,
                     job' = [job EXCEPT ![j].pc = "begin", ![j].conn = d, ![j].task = u]
              PROVE  job'[k] = job[k]
          <5>1. job[j] \in Threads BY <4>0
          <5>2. k # j
            <6>1. job'[j].pc = "begin" BY <4>0, <4>4, <5>1 DEF Threads
            <6> QED BY <3>3, <6>1 DEF Inside
          <5> QED BY <4>0, <4>4, <5>2
        <4> QED BY <4>1, <4>2, <4>3, <4>4
      <3> QED BY <2>1, <3>1, <3>2, <3>3, DecidedKept
    <2>4. ASSUME NEW j \in Jobs, Work(j) PROVE Decisions'
      <3>1. CASE Answer(j)
        <4>1. job' = [job EXCEPT ![j] = Ended] /\ UNCHANGED <<task, audit>>
          BY <3>1 DEF Answer, ledger
        <4>2. \A k \in Jobs : Inside(k)' => job'[k] = job[k]
          BY <4>1, NewThreads DEF Inside, Inv, TypeInv
        <4> QED BY <2>1, <4>1, <4>2, DecidedKept
      <3>2. CASE ~Answer(j) BY <2>1, <2>4, <3>2, DecidedThread
      <3> QED BY <3>1, <3>2
    <2>5. \A j \in Jobs : ~StoreError(j) BY <1>3, <2>1 DEF StoreError
    <2>6. ~Crash BY <1>3, <2>1 DEF Crash
    <2> QED BY <2>2, <2>3, <2>4, <2>5, <2>6 DEF Next
  <1> QED BY <1>2, <1>3 DEF DecidedInv

\* What is kept has all of its audits closed, one of them a success, across store
\* errors and crashes; only a refusal that met a store error lacks its result (WP-107).
THEOREM KeptIsAudited == Spec => []CompletedIsAudited
  <1>1. Init => DecidedInv
    <2>1. Init => \A t \in Tasks, p \in Providers : audit[t][p] # "decided" BY DEF Init
    <2>2. Init => \A j \in Jobs : ~Inside(j) BY NewThreads DEF Init, Inside
    <2> QED BY <2>1, <2>2 DEF DecidedInv, Decisions, NoneDecided, Init
  <1>2. Inv /\ DecidedInv => CompletedIsAudited
    BY DEF Inv, KeptOK, AuditsClosed, DecidedInv, Decisions, NoneDecided, CompletedIsAudited
  <1> QED BY InvHolds, DecidedNext, <1>1, <1>2, PTL DEF Spec

\* A cancellation that was answered is final, and nothing of the task is shown.
THEOREM CancellationHolds == Spec => []CancelStands
  <1>1. Inv => CancelStands BY DEF Inv, CancelsOK, CancelStands
  <1> QED BY InvHolds, <1>1, PTL
=============================================================================
