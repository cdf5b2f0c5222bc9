------------------------- MODULE ScheduledJobsProofs -------------------------
(***************************************************************************)
(* What scheduled jobs promise, proved for any number of jobs and request  *)
(* threads and for every value of the bounds: types, the finality of       *)
(* terminal states, the retry budget, the refinement of JobLifecycle, the  *)
(* retained inputs, the owner's pause, and that no claim is lost.          *)
(*                                                                         *)
(* The type invariant is inductive once it also says which program         *)
(* counters have a job at hand: a compare-and-swap of "the job at hand"    *)
(* by a thread that has none would leave a snapshot that is not a row.     *)
(* All the rest builds on two classifications of a step: what it can make  *)
(* of a row (RowMoves) and of the runner's batch (BatchMoves).             *)
(***************************************************************************)
EXTENDS ScheduledJobsProperties, TLAPS

\* The program counters at which the runner has no job at hand.
JoblessPcs ==
    {"boot", "rint", "rsched", "off", "idle", "claim", "take", "undo", "purge"}

\* Those at which it has a result to deliver.
ResultPcs == {"classify", "send", "ack", "ackcas"}

OtherPcs == RunPcs \ ResultPcs

\* A runner thread as the code can produce it: with a job to work on whenever it is
\* past taking one.
RunOK(r) ==
    /\ r \in RunThread
    /\ r.pc \in JoblessPcs \/ r.job \in Jobs
    /\ r.pc \in ResultPcs => r.cand \in Fps

CtlOK(p) == p \in CtlThread /\ (p.pc = "idle" \/ p.job \in Jobs)

Left == [requests : Nat, crashes : Nat, audit : Nat, store : Nat]

Rest == <<now, envelope, ctl, mk, sent>>

JobAtHand == RunOK(run) /\ \A c \in Controls : CtlOK(ctl[c])

TypeInv == TypeOK /\ JobAtHand

-----------------------------------------------------------------------------
\* The absent row is a row record.
LEMMA NoRowType == NoRow \in Rows
  BY DEF Rows, NoRow, Offsets

\* The jobless program counters are program counters.
LEMMA PcType == JoblessPcs \subseteq RunPcs
  BY DEF JoblessPcs, RunPcs

\* At a jobless program counter there is no result to deliver.
LEMMA OtherType == OtherPcs \subseteq RunPcs /\ JoblessPcs \subseteq OtherPcs
  BY DEF JoblessPcs, ResultPcs, OtherPcs, RunPcs

\* A validated state write keeps the table well typed.
LEMMA SetStateType ==
  ASSUME row \in [Jobs -> Rows], NEW j \in Jobs, NEW to \in States, NEW ts \in Nat,
         SetState(j, to, ts)
  PROVE  row' \in [Jobs -> Rows]
  <1>1. CASE row[j].state = to
    BY <1>1 DEF SetState
  <1>2. CASE row[j].state # to
    <2>1. row' = [row EXCEPT ![j] = [row[j] EXCEPT !.state = to, !.at = ts]]
      BY <1>2 DEF SetState
    <2>2. [row[j] EXCEPT !.state = to, !.at = ts] \in Rows
      BY DEF Rows
    <2> QED BY <2>1, <2>2
  <1> QED BY <1>1, <1>2

\* A fault only spends its budget.
LEMMA FaultType ==
  ASSUME left \in Left, AuditFails \/ StoreFails
  PROVE  left' \in Left
  BY DEF Left, AuditFails, StoreFails

\* A runner thread that starts over is well formed.
LEMMA IdleRunType == \A pc \in JoblessPcs, t \in Nat : 
    RunOK(IdleRun) /\ RunOK([IdleRun EXCEPT !.pc = pc]) /\ RunOK([IdleRun EXCEPT !.pc = pc, !.claimed = t])
  <1> TAKE pc \in JoblessPcs, t \in Nat
  <1>1. pc \in RunPcs BY PcType
  <1>2. "idle" \in JoblessPcs /\ "idle" \in RunPcs BY DEF JoblessPcs, RunPcs
  <1>3. [j \in Jobs |-> NoRow] \in [Jobs -> Rows] BY NoRowType
  <1> QED BY <1>1, <1>2, <1>3, NoRowType, OtherType DEF RunOK, RunThread, IdleRun, OtherPcs

\* So is one that leaves the job at hand, to go on or to give the rest back.
LEMMA NextRunType ==
  ASSUME RunOK(run)
  PROVE  RunOK(NextRun) /\ RunOK([NextRun EXCEPT !.pc = "undo"])
  <1>1. [j \in Jobs |-> IF j = run.job THEN NoRow ELSE run.seen[j]] \in [Jobs -> Rows]
    BY NoRowType DEF RunOK, RunThread
  <1>2. {"take", "undo"} \subseteq RunPcs /\ {"take", "undo"} \subseteq JoblessPcs
        /\ "take" \notin ResultPcs /\ "undo" \notin ResultPcs
    BY DEF RunPcs, JoblessPcs, ResultPcs
  <1> QED BY <1>1, <1>2, NoRowType DEF RunOK, RunThread, NextRun

\* Moving on with the same job keeps the thread well formed.
LEMMA GotoType ==
  ASSUME RunOK(run), NEW pc \in RunPcs, run.job \in Jobs,
         pc \in OtherPcs \/ run.cand \in Fps
  PROVE  RunOK([run EXCEPT !.pc = pc])
  BY DEF RunOK, RunThread, OtherPcs

\* So does taking a newer snapshot and a new stamp.
LEMMA HeldType ==
  ASSUME RunOK(run), NEW pc \in RunPcs, NEW h \in Rows, NEW t \in Nat,
         run.job \in Jobs, pc \in OtherPcs \/ run.cand \in Fps
  PROVE  /\ RunOK([run EXCEPT !.pc = pc, !.held = h])
         /\ RunOK([run EXCEPT !.pc = pc, !.held = h, !.ts = t])
  BY DEF RunOK, RunThread, OtherPcs

\* So does entering the failure path.
LEMMA ToFailType ==
  ASSUME RunOK(run), run.job \in Jobs, ToFail
  PROVE  RunOK(run')
  <1>1. "fail" \in OtherPcs /\ "fail" \in RunPcs BY DEF OtherPcs, RunPcs, ResultPcs
  <1>2. run.seen[run.job] \in Rows /\ run.claimed \in Nat BY DEF RunOK, RunThread, OtherPcs
  <1> QED BY <1>1, <1>2, HeldType DEF ToFail

\* A step of the runner that writes at most the row and its own thread.
LEMMA RunnerStep ==
  ASSUME TypeInv, UNCHANGED Rest, row' \in [Jobs -> Rows], RunOK(run'), left' \in Left
  PROVE  TypeInv'
  BY DEF TypeInv, TypeOK, JobAtHand, Rest, RunOK, Left

\* Type preservation by a compare-and-swap of the runner (JobRunner._transition).
LEMMA RunCasType ==
  ASSUME TypeInv, NEW pc \in RunPcs \ JoblessPcs, NEW from, NEW to \in States,
         NEW ts \in Nat, NEW hit \in OtherPcs, NEW miss \in OtherPcs,
         RunCas(pc, from, to, ts, hit, miss)
  PROVE  TypeInv'
  <1>1. run.job \in Jobs /\ RunOK(run) /\ row \in [Jobs -> Rows] /\ left \in Left
    BY DEF TypeInv, TypeOK, JobAtHand, RunOK, RunCas, Left
  <1>2. UNCHANGED Rest BY DEF RunCas, Rest
  <1>3. CASE /\ SetState(run.job, to, ts)
             /\ run' = [run EXCEPT !.pc = hit, !.held = row'[run.job]]
             /\ UNCHANGED left
    <2>1. row' \in [Jobs -> Rows] BY <1>1, <1>3, SetStateType
    <2>2. RunOK(run') BY <1>1, <1>3, <2>1, HeldType, OtherType
    <2> QED BY <1>1, <1>2, <1>3, <2>1, <2>2, RunnerStep
  <1>4. CASE (Next1 \/ Goto(miss)) /\ UNCHANGED <<row, left>>
    <2>1. RunOK(run') BY <1>1, <1>4, NextRunType, GotoType, OtherType DEF Next1, Goto
    <2> QED BY <1>1, <1>2, <1>4, <2>1, RunnerStep
  <1>5. CASE StoreFails /\ Abort1 /\ UNCHANGED row
    <2>1. RunOK(run') BY <1>1, <1>5, NextRunType DEF Abort1
    <2> QED BY <1>1, <1>2, <1>5, <2>1, FaultType, RunnerStep
  <1> QED BY <1>3, <1>4, <1>5 DEF RunCas

\* Type preservation by an audit append of the runner.
LEMMA RunAuditType ==
  ASSUME TypeInv, NEW pc \in RunPcs \ JoblessPcs, NEW ok \in OtherPcs, NEW fail,
         fail = "abort" \/ fail \in OtherPcs, RunAudit(pc, ok, fail)
  PROVE  TypeInv'
  <1>1. run.job \in Jobs /\ RunOK(run) /\ row \in [Jobs -> Rows] /\ left \in Left
    BY DEF TypeInv, TypeOK, JobAtHand, RunOK, RunAudit, Left
  <1>2. UNCHANGED Rest /\ UNCHANGED row BY DEF RunAudit, Rest
  <1>3. CASE (Next1 \/ Goto(ok)) /\ UNCHANGED left
    <2>1. RunOK(run') BY <1>1, <1>3, NextRunType, GotoType, OtherType DEF Next1, Goto
    <2> QED BY <1>1, <1>2, <1>3, <2>1, RunnerStep
  <1>4. CASE AuditFails /\ IF fail = "abort" THEN Abort1 ELSE Goto(fail)
    <2>1. RunOK(run') BY <1>1, <1>4, NextRunType, GotoType, OtherType DEF Abort1, Goto
    <2> QED BY <1>1, <1>2, <1>4, <2>1, FaultType, RunnerStep
  <1> QED BY <1>3, <1>4 DEF RunAudit

\* Type preservation by a run-time or attempt update (_update_next, _bump_attempt).
LEMMA ReviseType ==
  ASSUME TypeInv, NEW pc \in RunPcs \ JoblessPcs, NEW fields, NEW hit \in OtherPcs,
         Revise(pc, fields, hit), run.job \in Jobs => fields \in Rows
  PROVE  TypeInv'
  <1>1. run.job \in Jobs /\ RunOK(run) /\ row \in [Jobs -> Rows] /\ left \in Left
    BY DEF TypeInv, TypeOK, JobAtHand, RunOK, Revise, Left
  <1>2. UNCHANGED Rest BY DEF Revise, Rest
  <1>3. CASE /\ row' = [row EXCEPT ![run.job] = fields]
             /\ run' = [run EXCEPT !.pc = hit, !.held = row'[run.job]]
             /\ UNCHANGED left
    <2>1. row' \in [Jobs -> Rows] /\ row'[run.job] \in Rows BY <1>1, <1>3
    <2>2. RunOK(run') BY <1>1, <1>3, <2>1, HeldType, OtherType
    <2> QED BY <1>1, <1>2, <1>3, <2>1, <2>2, RunnerStep
  <1>4. CASE Next1 /\ UNCHANGED <<row, left>>
    <2>1. RunOK(run') BY <1>1, <1>4, NextRunType DEF Next1
    <2> QED BY <1>1, <1>2, <1>4, <2>1, RunnerStep
  <1>5. CASE StoreFails /\ Abort1 /\ UNCHANGED row
    <2>1. RunOK(run') BY <1>1, <1>5, NextRunType DEF Abort1
    <2> QED BY <1>1, <1>2, <1>5, <2>1, FaultType, RunnerStep
  <1> QED BY <1>3, <1>4, <1>5 DEF Revise

\* Type preservation by the compensation of claimed rows.
LEMMA GiveBackType ==
  ASSUME TypeInv, NEW from, NEW to \in States, NEW pc, NEW hit \in {"undo", "undo2"},
         GiveBack(from, to, pc, hit)
  PROVE  TypeInv'
  <1>1. RunOK(run) /\ row \in [Jobs -> Rows] /\ left \in Left /\ run.claimed \in Nat
    BY DEF TypeInv, TypeOK, JobAtHand, RunOK, RunThread, Left
  <1>2. UNCHANGED Rest BY DEF GiveBack, Rest
  <1>3. PICK j \in run.todo :
          \/ /\ SetState(j, to, run.claimed)
             /\ \/ run' = [run EXCEPT !.pc = "undo", !.todo = @ \ {j}, !.job = NoJob]
                \/ run' = [run EXCEPT !.pc = hit, !.job = j]
             /\ UNCHANGED left
          \/ /\ run' = [run EXCEPT !.pc = "undo", !.todo = @ \ {j}, !.job = NoJob]
             /\ UNCHANGED left \/ StoreFails
             /\ UNCHANGED row
    BY DEF GiveBack
  <1>4. j \in Jobs BY <1>1 DEF RunOK, RunThread
  <1>5. row' \in [Jobs -> Rows] BY <1>1, <1>3, <1>4, SetStateType
  <1>6. RunOK([run EXCEPT !.pc = "undo", !.todo = @ \ {j}, !.job = NoJob])
    BY <1>1 DEF RunOK, RunThread, RunPcs, JoblessPcs, ResultPcs
  <1>7. RunOK([run EXCEPT !.pc = hit, !.job = j])
    BY <1>1, <1>4 DEF RunOK, RunThread, RunPcs, ResultPcs
  <1>8. RunOK(run') BY <1>3, <1>6, <1>7
  <1>9. left' \in Left BY <1>1, <1>3, FaultType
  <1> QED BY <1>2, <1>5, <1>8, <1>9, RunnerStep

-----------------------------------------------------------------------------
(* Batches: claim, take, end, give back, purge.                            *)

\* Type preservation by the steps around a batch: claim, take, give back, purge.
LEMMA BatchType ==
  ASSUME TypeInv, StartBatch \/ ClaimDue \/ TakeNext \/ BatchDone \/ Undo \/ Undo2
                  \/ Raise \/ PurgeExpired
  PROVE  TypeInv'
  <1>1. RunOK(run) /\ row \in [Jobs -> Rows] /\ left \in Left /\ now \in Nat
        /\ run.claimed \in Nat /\ run.todo \subseteq Jobs /\ run.seen \in [Jobs -> Rows]
    BY DEF TypeInv, TypeOK, JobAtHand, RunOK, RunThread, Left
  <1>2. {"claim", "take", "undo", "purge"} \subseteq JoblessPcs BY DEF JoblessPcs
  <1>3. CASE StartBatch
    BY <1>1, <1>2, <1>3, IdleRunType, RunnerStep DEF StartBatch, Rest
  <1>4. CASE ClaimDue
    <2>1. UNCHANGED Rest BY <1>4 DEF ClaimDue, Rest
    <2>2. CASE StoreFails /\ run' = IdleRun /\ UNCHANGED row
      BY <1>1, <2>1, <2>2, IdleRunType, FaultType, RunnerStep DEF JoblessPcs
    <2>3. ASSUME NEW D \in SUBSET Due,
                 row' = [j \in Jobs |->
                          IF j \in D
                          THEN [row[j] EXCEPT !.state = "running", !.at = run.claimed]
                          ELSE row[j]],
                 run' = [run EXCEPT !.pc = "take", !.todo = D,
                         !.seen = [j \in Jobs |-> IF j \in D THEN row'[j] ELSE NoRow]],
                 UNCHANGED left
          PROVE  TypeInv'
      <3>1. ASSUME NEW j \in Jobs
            PROVE  [row[j] EXCEPT !.state = "running", !.at = run.claimed] \in Rows
        BY <1>1 DEF Rows, States
      <3>2. row' \in [Jobs -> Rows] BY <1>1, <2>3, <3>1
      <3>3. [j \in Jobs |-> IF j \in D THEN row'[j] ELSE NoRow] \in [Jobs -> Rows]
        BY <3>2, NoRowType
      <3>4. D \subseteq Jobs BY DEF Due
      <3>5. RunOK(run')
        BY <1>1, <1>2, <2>3, <3>3, <3>4, PcType, OtherType DEF RunOK, RunThread, OtherPcs
      <3> QED BY <1>1, <2>1, <2>3, <3>2, <3>5, RunnerStep
    <2> QED BY <1>4, <2>2, <2>3 DEF ClaimDue
  <1>5. CASE TakeNext
    <2>1. UNCHANGED Rest /\ UNCHANGED row BY <1>5 DEF TakeNext, Rest
    <2>2. PICK j \in run.todo :
            \/ /\ run' = [run EXCEPT !.pc = "work", !.todo = @ \ {j}, !.job = j,
                                     !.held = run.seen[j], !.ts = run.claimed]
               /\ UNCHANGED left
            \/ AuditFails /\ Goto("undo")
      BY <1>5 DEF TakeNext
    <2>3. j \in Jobs /\ run.seen[j] \in Rows BY <1>1
    <2>4. RunOK([run EXCEPT !.pc = "work", !.todo = @ \ {j}, !.job = j,
                            !.held = run.seen[j], !.ts = run.claimed])
      <3>1. "work" \in RunPcs \ ResultPcs BY DEF RunPcs, ResultPcs
      <3>2. ASSUME NEW p \in RunThread, NEW h \in Rows
            PROVE  [p EXCEPT !.pc = "work", !.todo = @ \ {j}, !.job = j, !.held = h,
                             !.ts = p.claimed] \in RunThread
        BY <2>3, <3>1 DEF RunThread
      <3> QED BY <1>1, <2>3, <3>1, <3>2 DEF RunOK, RunThread
    <2>5. RunOK([run EXCEPT !.pc = "undo"])
      BY <1>1, <1>2, PcType, OtherType DEF RunOK, RunThread, OtherPcs
    <2> QED BY <1>1, <2>1, <2>2, <2>4, <2>5, FaultType, RunnerStep DEF Goto
  <1>6. CASE BatchDone
    BY <1>1, <1>2, <1>6, IdleRunType, RunnerStep DEF BatchDone, Rest
  <1>7. CASE Undo \/ Undo2
    BY <1>7, GiveBackType DEF Undo, Undo2, States
  <1>8. CASE Raise
    BY <1>1, <1>2, <1>8, IdleRunType, RunnerStep DEF Raise, Rest
  <1>9. CASE PurgeExpired
    <2>1. envelope' \in [Jobs -> Nat] BY <1>9 DEF PurgeExpired, TypeInv, TypeOK
    <2>2. RunOK(run') BY <1>1, <1>2, <1>9, IdleRunType DEF PurgeExpired
    <2>3. left' \in Left BY <1>1, <1>9, FaultType DEF PurgeExpired
    <2> QED BY <1>9, <2>1, <2>2, <2>3
            DEF PurgeExpired, TypeInv, TypeOK, JobAtHand, RunOK, Left
  <1> QED BY <1>3, <1>4, <1>5, <1>6, <1>7, <1>8, <1>9

-----------------------------------------------------------------------------
(* Execution, delivery and acknowledgement.                                *)

\* What every step with a job at hand starts from.
LEMMA AtHand ==
  ASSUME TypeInv, run.pc \notin JoblessPcs
  PROVE  /\ run.job \in Jobs /\ RunOK(run) /\ row \in [Jobs -> Rows]
         /\ row[run.job] \in Rows /\ left \in Left /\ now \in Nat
         /\ run.ts \in Nat /\ run.claimed \in Nat /\ run.held \in Rows
         /\ run.seen[run.job] \in Rows /\ run.cand \in Fps \cup {NoFp}
         /\ run.tries \in Nat
  BY DEF TypeInv, TypeOK, JobAtHand, RunOK, RunThread, Left

\* A fingerprint write keeps the table well typed.
LEMMA SetFpType ==
  ASSUME TypeInv, NEW rev, NEW f \in Fps \cup {NoFp}, SetFp(rev, f), run.job \in Jobs
  PROVE  row' \in [Jobs -> Rows]
  <1>1. row \in [Jobs -> Rows] /\ run.ts \in Nat
    BY DEF TypeInv, TypeOK, JobAtHand, RunOK, RunThread
  <1>2. row' = [row EXCEPT ![run.job] = [row[run.job] EXCEPT !.fp = f, !.at = run.ts]]
    BY DEF SetFp
  <1>3. [row[run.job] EXCEPT !.fp = f, !.at = run.ts] \in Rows BY <1>1 DEF Rows
  <1> QED BY <1>1, <1>2, <1>3

\* Type preservation by execution and delivery.
LEMMA ExecuteType ==
  ASSUME TypeInv, StartWork \/ Classify \/ Send \/ AckLoad
  PROVE  TypeInv'
  <1>1. run.pc \in {"work", "classify", "send", "ack"}
    BY DEF StartWork, Classify, Send, AckLoad
  <1>2. run.pc \notin JoblessPcs BY <1>1 DEF JoblessPcs
  <1>3. /\ RunOK([run EXCEPT !.pc = "quiet"])
        /\ RunOK([run EXCEPT !.pc = "suppressed"])
        /\ RunOK([run EXCEPT !.pc = "done"])
        /\ run.pc # "work" => RunOK([run EXCEPT !.pc = "send"]) /\ RunOK([run EXCEPT !.pc = "ack"])
    <2>1. run.pc # "work" => run.cand \in Fps
      BY <1>1, <1>2, AtHand DEF RunOK, ResultPcs
    <2> QED BY <1>2, <2>1, AtHand, GotoType DEF RunPcs, OtherPcs, ResultPcs
  <1>4. ToFail => RunOK(run') BY <1>2, AtHand, ToFailType
  <1>5. CASE StartWork
    <2>1. ASSUME NEW f \in Fps PROVE RunOK([run EXCEPT !.pc = "classify", !.cand = f])
      BY <1>2, AtHand DEF RunOK, RunThread, RunPcs, ResultPcs
    <2>2. RunOK(run') BY <1>3, <1>4, <1>5, <2>1 DEF StartWork, Goto
    <2>4. left' \in Left BY <1>2, <1>5, AtHand, FaultType DEF StartWork
    <2> QED BY <1>5, <2>2, <2>4 DEF StartWork, TypeInv, TypeOK, JobAtHand, RunOK, Left
  <1>6. CASE Classify
    <2>1. RunOK(run') BY <1>3, <1>4, <1>6 DEF Classify, Goto
    <2>2. left' \in Left BY <1>2, <1>6, AtHand, FaultType DEF Classify
    <2>3. UNCHANGED Rest /\ UNCHANGED row BY <1>6 DEF Classify, Rest
    <2> QED BY <1>2, <2>1, <2>2, <2>3, AtHand, RunnerStep
  <1>7. CASE Send
    <2>1. RunOK(run') BY <1>3, <1>4, <1>7 DEF Send, Goto
    <2>2. run.cand \in Fps => sent' \in [Jobs -> SUBSET Fps]
      BY <1>2, <1>7, AtHand DEF Send, TypeInv, TypeOK
    <2>3. run.cand \in Fps
      BY <1>2, <1>7, AtHand DEF Send, RunOK, ResultPcs
    <2> QED BY <1>7, <2>1, <2>2, <2>3 DEF Send, TypeInv, TypeOK, JobAtHand, RunOK, Left
  <1>8. CASE AckLoad
    <2>0. run.pc = "ack" BY <1>8 DEF AckLoad
    <2>1. RunOK([run EXCEPT !.pc = "ackcas", !.held = row[run.job], !.ts = now])
      BY <1>2, <2>0, AtHand, HeldType DEF RunPcs, RunOK, ResultPcs
    <2>2. RunOK(run') BY <1>4, <1>8, <2>1 DEF AckLoad
    <2>3. left' \in Left BY <1>2, <1>8, AtHand, FaultType DEF AckLoad
    <2>4. UNCHANGED Rest /\ UNCHANGED row BY <1>8 DEF AckLoad, Rest
    <2> QED BY <1>2, <2>2, <2>3, <2>4, AtHand, RunnerStep
  <1> QED BY <1>5, <1>6, <1>7, <1>8

\* Type preservation by acknowledge_delivery and its compensation.
LEMMA AcknowledgeType ==
  ASSUME TypeInv, AckRecord \/ AckAudit \/ AckRevert \/ RunStop \/ RunStopCas
  PROVE  TypeInv'
  <1>1. run.pc \in {"ackcas", "ackaudit", "ackrevert", "stop", "stopcas"}
    BY DEF AckRecord, AckAudit, RunAudit, AckRevert, RunStop, RunStopCas
  <1>2. run.pc \notin JoblessPcs BY <1>1 DEF JoblessPcs
  <1>3. \A pc \in {"ackaudit", "stop"} : RunOK([run EXCEPT !.pc = pc])
    BY <1>2, AtHand, GotoType DEF RunPcs, OtherPcs, ResultPcs
  <1>4. ToFail => RunOK(run') BY <1>2, AtHand, ToFailType
  <1>5. CASE AckRecord
    <2>1. UNCHANGED Rest BY <1>5 DEF AckRecord, Rest
    <2>2. row' \in [Jobs -> Rows] BY <1>2, <1>5, AtHand, SetFpType DEF AckRecord
    <2>3. RunOK(run') BY <1>3, <1>4, <1>5 DEF AckRecord, Goto
    <2>4. left' \in Left BY <1>2, <1>5, AtHand, FaultType DEF AckRecord
    <2> QED BY <2>1, <2>2, <2>3, <2>4, RunnerStep
  <1>6. CASE AckAudit
    BY <1>6, RunAuditType DEF AckAudit, RunPcs, JoblessPcs, ResultPcs, OtherPcs
  <1>7. CASE AckRevert
    <2>1. UNCHANGED Rest BY <1>7 DEF AckRevert, Rest
    <2>2. run.held.fp \in Fps \cup {NoFp} BY <1>2, AtHand DEF Rows
    <2>3. row' \in [Jobs -> Rows] BY <1>2, <1>7, <2>2, AtHand, SetFpType DEF AckRevert
    <2>4. RunOK(run') BY <1>3, <1>4, <1>7 DEF AckRevert, Goto
    <2>5. left' \in Left BY <1>2, <1>7, AtHand, FaultType DEF AckRevert
    <2> QED BY <2>1, <2>3, <2>4, <2>5, RunnerStep
  <1>8. CASE RunStop
    <2>1. UNCHANGED Rest /\ UNCHANGED row BY <1>8 DEF RunStop, Rest
    <2>2. RunOK([run EXCEPT !.pc = "stopcas", !.held = row[run.job]])
      BY <1>2, AtHand, HeldType DEF RunPcs, OtherPcs, ResultPcs
    <2>3. ToFail \/ run' = [run EXCEPT !.pc = "stopcas", !.held = row[run.job]]
      <3>1. "fail" # "stopcas" OBVIOUS
      <3>2. [run EXCEPT !.pc = "fail"].pc = "fail"
        BY <1>2, AtHand DEF RunOK, RunThread
      <3> QED BY <1>8, <3>1, <3>2 DEF RunStop, LookAgain
    <2>4. RunOK(run') BY <1>4, <2>2, <2>3
    <2>5. left' \in Left BY <1>2, <1>8, AtHand, FaultType DEF RunStop
    <2> QED BY <1>2, <2>1, <2>4, <2>5, AtHand, RunnerStep
  <1>9. CASE RunStopCas
    <2>1. UNCHANGED Rest BY <1>9 DEF RunStopCas, Rest
    <2>2. run.held.at \in Nat BY <1>2, AtHand DEF Rows
    <2>3. row' \in [Jobs -> Rows]
      BY <1>2, <1>9, <2>2, AtHand, SetStateType DEF RunStopCas, States
    <2>7. run.tries + 1 \in Nat BY <1>2, AtHand
    <2>4. RunOK([run EXCEPT !.pc = "stop", !.tries = run.tries + 1])
      BY <1>2, <2>7, AtHand DEF RunOK, RunThread, RunPcs, ResultPcs
    <2>5. RunOK(run') BY <1>4, <1>9, <2>4 DEF RunStopCas, TryAgain
    <2>6. left' \in Left BY <1>2, <1>9, AtHand, FaultType DEF RunStopCas
    <2> QED BY <2>1, <2>3, <2>5, <2>6, RunnerStep
  <1> QED BY <1>5, <1>6, <1>7, <1>8, <1>9

-----------------------------------------------------------------------------
(* Settling the job at hand.                                               *)

\* The retry back-off is an instant.
LEMMA BackoffType == \A n \in Nat : Backoff(n) \in Nat
  BY BackoffAssumption DEF Backoff

\* The end of a quiet window is an instant.
LEMMA QuietEndType == \A t \in Nat : NextQuietEnd(t) \in Nat
  <1> TAKE t \in Nat
  <1> DEFINE minute == (t + ZoneOffset) % Day
  <1>1. t + ZoneOffset \in Int /\ Day \in Nat \ {0} BY DayAssumption, ZoneAssumption
  <1>2. minute \in 0 .. Day - 1 BY <1>1
  <1>3. QuietTo \in Nat BY QuietAssumption
  <1> HIDE DEF minute
  <1> QED BY <1>1, <1>2, <1>3 DEF NextQuietEnd

\* Type preservation by the completion of the job at hand.
LEMMA CompleteType ==
  ASSUME TypeInv, Refresh \/ Complete \/ CompleteAudit \/ Clean \/ CleanDelete \/ Suppressed
  PROVE  TypeInv'
  <1>1. run.pc \in {"done", "complete", "completeaudit", "clean", "cleandel", "suppressed"}
    BY DEF Refresh, Complete, RunCas, CompleteAudit, RunAudit, Clean, CleanDelete, Suppressed
  <1>2. run.pc \notin JoblessPcs BY <1>1 DEF JoblessPcs
  <1>3. RunOK(NextRun) BY <1>2, AtHand, NextRunType
  <1>4. CASE Refresh
    <2>1. row[run.job].at \in Nat BY <1>2, AtHand DEF Rows
    <2>2. \A t \in Nat :
            RunOK([run EXCEPT !.pc = "complete", !.held = row[run.job], !.ts = t])
      BY <1>2, AtHand, HeldType DEF RunPcs, OtherPcs, ResultPcs
    <2>3. RunOK(run') BY <1>2, <1>3, <1>4, <2>1, <2>2, AtHand DEF Refresh, Next1
    <2>4. left' \in Left BY <1>2, <1>4, AtHand, FaultType DEF Refresh
    <2>5. UNCHANGED Rest /\ UNCHANGED row BY <1>4 DEF Refresh, Rest
    <2> QED BY <1>2, <2>3, <2>4, <2>5, AtHand, RunnerStep
  <1>5. CASE Complete
    BY <1>2, <1>5, AtHand, RunCasType
       DEF Complete, RunPcs, JoblessPcs, ResultPcs, OtherPcs, States
  <1>6. CASE CompleteAudit
    BY <1>6, RunAuditType DEF CompleteAudit, RunPcs, JoblessPcs, ResultPcs, OtherPcs
  <1>7. CASE Clean \/ CleanDelete
    <2>1. envelope' \in [Jobs -> Nat] BY <1>7 DEF Clean, CleanDelete, TypeInv, TypeOK
    <2>2. left' \in Left BY <1>2, <1>7, AtHand, FaultType DEF Clean, CleanDelete
    <2>3. RunOK(run')
      <3>1. CASE Next1 BY <1>3, <3>1 DEF Next1
      <3>2. CASE Abort1 BY <1>2, <3>2, AtHand, NextRunType DEF Abort1
      <3>3. CASE Goto("cleandel")
        BY <1>2, <3>3, AtHand, GotoType DEF Goto, RunPcs, OtherPcs, ResultPcs
      <3> QED BY <1>7, <3>1, <3>2, <3>3 DEF Clean, CleanDelete
    <2> QED BY <1>7, <2>1, <2>2, <2>3
            DEF Clean, CleanDelete, TypeInv, TypeOK, JobAtHand, RunOK, Left
  <1>8. CASE Suppressed
    <2>1. [run EXCEPT !.pc = "quiet", !.ts = now]
          = [run EXCEPT !.pc = "quiet", !.held = run.held, !.ts = now]
      BY <1>2, AtHand DEF RunOK, RunThread
    <2>2. RunOK(run')
      BY <1>2, <1>8, <2>1, AtHand, HeldType DEF Suppressed, RunPcs, OtherPcs, ResultPcs
    <2> QED BY <1>2, <1>8, <2>2, AtHand, RunnerStep DEF Suppressed, Rest
  <1> QED BY <1>1, <1>4, <1>5, <1>6, <1>7, <1>8

\* Type preservation by the failure path: retry or exhaust.
LEMMA RetryType ==
  ASSUME TypeInv, RetryInterrupt \/ RetryAudit \/ RetryNext \/ RetryAttempt \/ RetrySchedule
                  \/ RetryScheduleAudit \/ RetryPause \/ Exhaust \/ ExhaustAudit
  PROVE  TypeInv'
  <1>1. run.pc \in {"fail", "retryaudit", "retrynext", "retryatt", "retrysched",
                    "retryschedaudit", "retrypause", "exhaustaudit"}
    BY DEF RetryInterrupt, RetryAudit, RetryNext, RetryAttempt, RetrySchedule,
           RetryScheduleAudit, RetryPause, Exhaust, ExhaustAudit, RunCas, RunAudit, Revise
  <1>2. run.pc \notin JoblessPcs BY <1>1 DEF JoblessPcs
  <1> USE DEF RunPcs, JoblessPcs, ResultPcs, OtherPcs
  <1>3. CASE RetryInterrupt \/ RetrySchedule \/ Exhaust
    BY <1>2, <1>3, AtHand, RunCasType DEF RetryInterrupt, RetrySchedule, Exhaust, States
  <1>4. CASE RetryAudit \/ RetryScheduleAudit \/ ExhaustAudit
    BY <1>4, RunAuditType DEF RetryAudit, RetryScheduleAudit, ExhaustAudit
  <1>5. CASE RetryNext
    <2>1. Backoff(run.seen[run.job].att) \in Nat
      BY <1>2, AtHand, BackoffType DEF Rows
    <2>2. run.ts + Backoff(run.seen[run.job].att) \in Nat BY <1>2, <2>1, AtHand
    <2>3. [row[run.job] EXCEPT !.next = run.ts + Backoff(run.seen[run.job].att),
                               !.off = 0, !.at = run.ts] \in Rows
      BY <1>2, <2>2, AtHand DEF Rows, Offsets
    <2> QED BY <1>5, <2>3, ReviseType DEF RetryNext
  <1>6. CASE RetryAttempt
    <2>1. row[run.job].att + 1 \in Nat BY <1>2, AtHand DEF Rows
    <2>2. [row[run.job] EXCEPT !.att = @ + 1, !.at = run.ts] \in Rows
      BY <1>2, <2>1, AtHand DEF Rows
    <2> QED BY <1>6, <2>2, ReviseType DEF RetryAttempt
  <1>7. CASE RetryPause
    <2>1. row' \in [Jobs -> Rows]
      BY <1>2, <1>7, AtHand, SetStateType DEF RetryPause, States
    <2>2. RunOK(run') BY <1>2, <1>7, AtHand, NextRunType DEF RetryPause, Abort1
    <2>3. left' \in Left BY <1>2, <1>7, AtHand, FaultType DEF RetryPause
    <2>4. UNCHANGED Rest BY <1>7 DEF RetryPause, Rest
    <2> QED BY <2>1, <2>2, <2>3, <2>4, RunnerStep
  <1> QED BY <1>3, <1>4, <1>5, <1>6, <1>7

\* Type preservation by _quiet_reschedule.
LEMMA QuietType ==
  ASSUME TypeInv, QuietInterrupt \/ QuietAudit \/ QuietNext \/ QuietSchedule
                  \/ QuietScheduleAudit
  PROVE  TypeInv'
  <1>1. run.pc \in {"quiet", "quietaudit", "quietnext", "quietsched", "quietschedaudit"}
    BY DEF QuietInterrupt, QuietAudit, QuietNext, QuietSchedule, QuietScheduleAudit,
           RunCas, RunAudit, Revise
  <1>2. run.pc \notin JoblessPcs BY <1>1 DEF JoblessPcs
  <1> USE DEF RunPcs, JoblessPcs, ResultPcs, OtherPcs
  <1>3. CASE QuietInterrupt \/ QuietSchedule
    BY <1>2, <1>3, AtHand, RunCasType DEF QuietInterrupt, QuietSchedule, States
  <1>4. CASE QuietAudit \/ QuietScheduleAudit
    BY <1>4, RunAuditType DEF QuietAudit, QuietScheduleAudit
  <1>5. CASE QuietNext
    <2>1. NextQuietEnd(run.ts) \in Nat BY <1>2, AtHand, QuietEndType
    <2>2. [row[run.job] EXCEPT !.next = NextQuietEnd(run.ts), !.off = ZoneOffset,
                              !.at = run.ts] \in Rows
      BY <1>2, <2>1, AtHand DEF Rows, Offsets
    <2> QED BY <1>5, <2>2, ReviseType DEF QuietNext
  <1> QED BY <1>3, <1>4, <1>5

-----------------------------------------------------------------------------
(* Recovery.                                                               *)

\* The thread that a recovery listing leaves is well formed.
LEMMA ListedType ==
  ASSUME NEW R \in SUBSET Jobs, NEW S \in [Jobs -> Rows], NEW t \in Nat
  PROVE  RunOK([IdleRun EXCEPT !.pc = "rint", !.todo = R, !.claimed = t, !.seen = S])
  <1>1. "rint" \in RunPcs /\ "rint" \in JoblessPcs /\ "rint" \notin ResultPcs
    BY DEF RunPcs, JoblessPcs, ResultPcs
  <1> QED BY <1>1, NoRowType DEF RunOK, RunThread, IdleRun

\* Type preservation by recover_startup.
LEMMA RecoverType ==
  ASSUME TypeInv, Recover
  PROVE  TypeInv'
  <1>1. /\ RunOK(run) /\ row \in [Jobs -> Rows] /\ left \in Left /\ now \in Nat
        /\ run.claimed \in Nat /\ run.todo \subseteq Jobs /\ run.seen \in [Jobs -> Rows]
    BY DEF TypeInv, TypeOK, JobAtHand, RunOK, RunThread, Left
  <1>2. RunOK([IdleRun EXCEPT !.pc = "off"]) /\ RunOK(IdleRun)
    BY <1>1, IdleRunType DEF JoblessPcs
  <1> USE DEF RunPcs, JoblessPcs, ResultPcs
  <1>3. CASE RecoverList
    <2>1. ASSUME NEW R \in SUBSET Jobs
          PROVE  RunOK([IdleRun EXCEPT !.pc = "rint", !.todo = R, !.claimed = now,
                       !.seen = [j \in Jobs |-> IF j \in R THEN row[j] ELSE NoRow]])
      <3>1. [j \in Jobs |-> IF j \in R THEN row[j] ELSE NoRow] \in [Jobs -> Rows]
        BY <1>1, NoRowType
      <3> QED BY <1>1, <3>1, ListedType
    <2>2. RunOK(run') BY <1>2, <1>3, <2>1 DEF RecoverList
    <2>3. left' \in Left BY <1>1, <1>3, FaultType DEF RecoverList
    <2> QED BY <1>1, <1>3, <2>2, <2>3, RunnerStep DEF RecoverList, Rest
  <1>4. ASSUME NEW pc, NEW from, NEW to \in States, NEW hit \in {"rintaudit", "rschedaudit"},
               RecoverCas(pc, from, to, hit)
        PROVE  TypeInv'
    <2>1. PICK j \in run.todo :
            \/ /\ SetState(j, to, run.claimed)
               /\ run' = [run EXCEPT !.pc = hit, !.job = j, !.todo = @ \ {j},
                                     !.seen[j] = row'[j]]
               /\ UNCHANGED left
            \/ /\ run.pc = pc
               /\ run' = [run EXCEPT !.todo = @ \ {j}, !.seen[j] = NoRow]
               /\ UNCHANGED <<row, left>>
            \/ StoreFails /\ run' = [IdleRun EXCEPT !.pc = "off"] /\ UNCHANGED row
      BY <1>4 DEF RecoverCas
    <2>2. j \in Jobs BY <1>1
    <2>3. row' \in [Jobs -> Rows] BY <1>1, <2>1, <2>2, SetStateType
    <2>4. ASSUME NEW r \in Rows
          PROVE  /\ RunOK([run EXCEPT !.pc = hit, !.job = j, !.todo = @ \ {j}, !.seen[j] = r])
                 /\ RunOK([run EXCEPT !.todo = @ \ {j}, !.seen[j] = r])
      <3>1. [run.seen EXCEPT ![j] = r] \in [Jobs -> Rows] BY <1>1
      <3> QED BY <1>1, <2>2, <3>1 DEF RunOK, RunThread
    <2>5. RunOK(run') BY <1>2, <2>1, <2>2, <2>3, <2>4, NoRowType
    <2>6. left' \in Left BY <1>1, <2>1, FaultType
    <2> QED BY <1>4, <2>3, <2>5, <2>6, RunnerStep DEF RecoverCas, Rest
  <1>5. ASSUME NEW pc, NEW ok \in {"rint", "rsched"},
               NEW fail \in {"rintpause", "rschedpause"}, RecoverAudit(pc, ok, fail),
               pc \in {"rintaudit", "rschedaudit"}
        PROVE  TypeInv'
    <2>1. RunOK([run EXCEPT !.pc = ok, !.job = NoJob]) BY <1>1 DEF RunOK, RunThread
    <2>2. RunOK([run EXCEPT !.pc = fail, !.failed = TRUE])
      BY <1>1, <1>5 DEF RunOK, RunThread, RecoverAudit
    <2>3. RunOK(run') BY <1>5, <2>1, <2>2 DEF RecoverAudit
    <2>4. left' \in Left BY <1>1, <1>5, FaultType DEF RecoverAudit
    <2> QED BY <1>1, <1>5, <2>3, <2>4, RunnerStep DEF RecoverAudit, Rest
  <1>6. ASSUME NEW pc \in {"rintpause", "rschedpause"}, NEW from, NEW out \in {"rint", "rsched"},
               RecoverPause(pc, from, out)
        PROVE  TypeInv'
    <2>1. run.job \in Jobs BY <1>1, <1>6 DEF RecoverPause, RunOK
    <2>2. row' \in [Jobs -> Rows]
      BY <1>1, <1>6, <2>1, SetStateType DEF RecoverPause, States
    <2>3. [run.seen EXCEPT ![run.job] = NoRow] \in [Jobs -> Rows] BY <1>1, <2>1, NoRowType
    <2>4. RunOK(run') BY <1>1, <1>6, <2>3 DEF RunOK, RunThread, RecoverPause
    <2>5. left' \in Left BY <1>1, <1>6, FaultType DEF RecoverPause
    <2> QED BY <1>6, <2>2, <2>4, <2>5, RunnerStep DEF RecoverPause, Rest
  <1>7. CASE RecoverListAgain
    <2>1. ASSUME NEW R \in SUBSET Jobs
          PROVE  RunOK([run EXCEPT !.pc = "rsched",
                       !.todo = R \cup {j \in Jobs : run.seen[j] # NoRow},
                       !.seen = [j \in Jobs |-> IF j \in R THEN row[j] ELSE @[j]]])
      <3>1. [j \in Jobs |-> IF j \in R THEN row[j] ELSE run.seen[j]] \in [Jobs -> Rows]
        BY <1>1
      <3>2. R \cup {j \in Jobs : run.seen[j] # NoRow} \in SUBSET Jobs OBVIOUS
      <3>3. ASSUME NEW p \in RunThread, NEW T \in SUBSET Jobs, NEW f \in [Jobs -> Rows]
            PROVE  RunOK([p EXCEPT !.pc = "rsched", !.todo = T, !.seen = f])
        <4>1. "rsched" \in RunPcs \cap JoblessPcs /\ "rsched" \notin ResultPcs
          BY DEF RunPcs, JoblessPcs, ResultPcs
        <4>2. [p EXCEPT !.pc = "rsched", !.todo = T, !.seen = f] \in RunThread
          BY <4>1 DEF RunThread
        <4> QED BY <4>1, <4>2 DEF RunOK, RunThread
      <3>4. run \in RunThread BY <1>1 DEF RunOK
      <3> QED BY <3>1, <3>2, <3>3, <3>4
    <2>2. RunOK(run')
      <3>1. CASE run' = [IdleRun EXCEPT !.pc = "off"] BY <1>2, <3>1
      <3>2. {j \in Jobs : row[j].state = "interrupted"} \in SUBSET Jobs OBVIOUS
      <3> QED BY <1>7, <2>1, <3>1, <3>2 DEF RecoverListAgain
    <2>3. left' \in Left BY <1>1, <1>7, FaultType DEF RecoverListAgain
    <2> QED BY <1>1, <1>7, <2>2, <2>3, RunnerStep DEF RecoverListAgain, Rest
  <1>8. CASE RecoverDone
    BY <1>1, <1>2, <1>8, RunnerStep DEF RecoverDone, Rest
  <1>9. CASE RecoverInterrupt \/ RecoverSchedule
    BY <1>4, <1>9 DEF RecoverInterrupt, RecoverSchedule, States
  <1>10. CASE RecoverInterruptAudit \/ RecoverScheduleAudit
    BY <1>5, <1>10 DEF RecoverInterruptAudit, RecoverScheduleAudit
  <1>11. CASE RecoverInterruptPause \/ RecoverSchedulePause
    BY <1>6, <1>11 DEF RecoverInterruptPause, RecoverSchedulePause
  <1> QED BY <1>3, <1>7, <1>8, <1>9, <1>10, <1>11 DEF Recover

-----------------------------------------------------------------------------
(* The owner's requests.                                                   *)

\* What every step of an owner request starts from.
LEMMA CtlFacts ==
  ASSUME TypeInv, NEW c \in Controls
  PROVE  /\ CtlOK(ctl[c]) /\ ctl \in [Controls -> CtlThread] /\ ctl[c] \in CtlThread
         /\ row \in [Jobs -> Rows] /\ envelope \in [Jobs -> Nat] /\ left \in Left /\ now \in Nat
         /\ ctl[c].ts \in Nat /\ ctl[c].held \in Rows /\ ctl[c].tries \in Nat
         /\ ctl[c].op \in {"pause", "resume", "cancel"}
         /\ ctl[c].pc # "idle" => ctl[c].job \in Jobs
  BY DEF TypeInv, TypeOK, JobAtHand, CtlOK, CtlThread, Left

\* A step of a request that leaves its thread, the tables and the bounds well formed.
LEMMA ControlStep ==
  ASSUME TypeInv, NEW c \in Controls, NEW p, CtlOK(p), ctl' = [ctl EXCEPT ![c] = p],
         row' \in [Jobs -> Rows], envelope' \in [Jobs -> Nat], left' \in Left,
         UNCHANGED <<now, run, mk, sent>>
  PROVE  TypeInv'
  <1>1. ctl' \in [Controls -> CtlThread] BY DEF CtlOK, TypeInv, TypeOK
  <1>2. \A d \in Controls : CtlOK(ctl'[d]) BY DEF TypeInv, TypeOK, JobAtHand
  <1> QED BY <1>1, <1>2 DEF TypeInv, TypeOK, JobAtHand, RunOK, Left

\* The threads a request step can leave are well formed.
LEMMA CtlGotoType ==
  ASSUME TypeInv, NEW c \in Controls, NEW pc \in CtlPcs, ctl[c].pc # "idle"
  PROVE  /\ CtlOK(IdleCtl)
         /\ CtlOK([ctl[c] EXCEPT !.pc = pc])
         /\ \A h \in Rows, s \in States \cup {"none"}, n \in Nat :
              /\ CtlOK([ctl[c] EXCEPT !.pc = pc, !.held = h])
              /\ CtlOK([ctl[c] EXCEPT !.pc = pc, !.from = s])
              /\ CtlOK([ctl[c] EXCEPT !.pc = pc, !.tries = n])
  <1> DEFINE p == ctl[c]
  <1>1. p \in CtlThread /\ p.job \in Jobs BY CtlFacts
  <1> HIDE DEF p
  <1>2. CtlOK(IdleCtl) BY NoRowType DEF CtlOK, CtlThread, IdleCtl, CtlPcs
  <1>3. CtlOK([p EXCEPT !.pc = pc]) BY <1>1 DEF CtlOK, CtlThread
  <1>4. \A h \in Rows : CtlOK([p EXCEPT !.pc = pc, !.held = h])
    BY <1>1 DEF CtlOK, CtlThread
  <1>5. \A s \in States \cup {"none"} : CtlOK([p EXCEPT !.pc = pc, !.from = s])
    BY <1>1 DEF CtlOK, CtlThread
  <1>6. \A n \in Nat : CtlOK([p EXCEPT !.pc = pc, !.tries = n])
    BY <1>1 DEF CtlOK, CtlThread
  <1> QED BY <1>2, <1>3, <1>4, <1>5, <1>6 DEF p

\* Type preservation by a compare-and-swap of a request.
LEMMA CtlCasType ==
  ASSUME TypeInv, NEW c \in Controls, NEW pc, NEW from, NEW rev, NEW to \in States,
         NEW ts \in Nat, NEW hit \in CtlPcs, NEW miss \in CtlPcs,
         CtlCas(c, pc, from, rev, to, ts, hit, miss), pc # "idle"
  PROVE  TypeInv'
  <1>1. ctl[c].job \in Jobs /\ ctl[c].pc # "idle" BY CtlFacts DEF CtlCas
  <1>2. row' \in [Jobs -> Rows] BY <1>1, CtlFacts, SetStateType DEF CtlCas
  <1>3. PICK q \in {hit, miss} : CtlGoto(c, q) BY DEF CtlCas
  <1>4. PICK p : CtlOK(p) /\ ctl' = [ctl EXCEPT ![c] = p]
    BY <1>1, <1>3, CtlGotoType, CtlFacts DEF CtlGoto
  <1>5. left' \in Left BY CtlFacts, FaultType DEF CtlCas
  <1>6. envelope' \in [Jobs -> Nat] /\ UNCHANGED <<now, run, mk, sent>>
    BY CtlFacts DEF CtlCas
  <1> QED BY <1>2, <1>4, <1>5, <1>6, ControlStep

\* Type preservation by pause, resume and cancel.
LEMMA ControlType ==
  ASSUME TypeInv, NEW c \in Controls, Control(c)
  PROVE  TypeInv'
  <1>1. /\ row \in [Jobs -> Rows] /\ envelope \in [Jobs -> Nat] /\ left \in Left
        /\ ctl \in [Controls -> CtlThread]
    BY CtlFacts
  <1> USE DEF CtlPcs
  <1>2. ASSUME NEW op \in Ops, NEW j \in Jobs, Request(c, op, j)
        PROVE  TypeInv'
    <2>1. row[j] \in Rows /\ row[j].state \in States \cup {"none"} /\ now \in Nat
      BY CtlFacts DEF Rows
    <2>2. op \in {"pause", "resume", "cancel"} BY SubsetAssumption
    <2>3. ASSUME NEW pc \in CtlPcs, NEW s \in States \cup {"none"}
          PROVE  CtlOK([IdleCtl EXCEPT !.pc = pc, !.op = op, !.job = j, !.held = row[j],
                                       !.ts = now, !.from = s])
      BY <2>1, <2>2, <2>3 DEF CtlOK, CtlThread, IdleCtl
    <2>4. PICK p : CtlOK(p) /\ ctl' = [ctl EXCEPT ![c] = p]
      BY <1>2, <2>1, <2>3 DEF Request
    <2>5. left' \in Left BY <1>1, <1>2 DEF Request, Left
    <2> QED BY <1>1, <1>2, <2>4, <2>5, ControlStep DEF Request
  <1>3. CASE CancelReread(c)
    <2>1. ctl[c].pc # "idle" /\ ctl[c].job \in Jobs BY <1>3, CtlFacts DEF CancelReread
    <2>2. row[ctl[c].job].state \in States \cup {"none"} BY <1>1, <2>1 DEF Rows
    <2>3. [ctl EXCEPT ![c].pc = "cas", ![c].from = row[ctl[c].job].state]
          = [ctl EXCEPT ![c] = [ctl[c] EXCEPT !.pc = "cas", !.from = row[ctl[c].job].state]]
      BY <1>1
    <2>4. CtlOK([ctl[c] EXCEPT !.pc = "cas", !.from = row[ctl[c].job].state]) /\ CtlOK(IdleCtl)
      BY <2>1, <2>2, NoRowType, CtlGotoType
    <2>5. PICK p : CtlOK(p) /\ ctl' = [ctl EXCEPT ![c] = p]
      BY <1>3, <2>3, <2>4 DEF CancelReread, CtlGoto
    <2> QED BY <1>1, <1>3, <2>5, ControlStep DEF CancelReread
  <1>4. CASE ControlCas(c)
    <2>1. Target(ctl[c].op) \in States BY CtlFacts DEF Target, States
    <2> QED BY <1>4, <2>1, CtlFacts, CtlCasType DEF ControlCas
  <1>5. CASE ControlAudit(c)
    <2>1. ctl[c].pc # "idle" BY <1>5 DEF ControlAudit
    <2>2. PICK q \in CtlPcs : CtlGoto(c, q) BY <1>5 DEF ControlAudit
    <2>3. PICK p : CtlOK(p) /\ ctl' = [ctl EXCEPT ![c] = p]
      BY <2>1, <2>2, CtlGotoType DEF CtlGoto
    <2>4. left' \in Left BY <1>1, <1>5, FaultType DEF ControlAudit
    <2> QED BY <1>1, <1>5, <2>3, <2>4, ControlStep DEF ControlAudit
  <1>6. CASE Unresume(c)
    BY <1>6, CtlFacts, CtlCasType DEF Unresume, States
  <1>7. CASE ControlStop(c)
    <2>1. ctl[c].pc # "idle" /\ ctl[c].job \in Jobs BY <1>7, CtlFacts DEF ControlStop
    <2>2. row[ctl[c].job] \in Rows BY <1>1, <2>1
    <2>3. \/ CtlGoto(c, "idle")
          \/ ctl' = [ctl EXCEPT ![c] = LookAgain(ctl[c], ctl[c].job, {"paused", "interrupted"},
                                                 "idle")]
      BY <1>7 DEF ControlStop
    <2>4. CtlOK(LookAgain(ctl[c], ctl[c].job, {"paused", "interrupted"}, "idle"))
      BY <2>1, <2>2, CtlGotoType DEF LookAgain
    <2>5. PICK p : CtlOK(p) /\ ctl' = [ctl EXCEPT ![c] = p]
      BY <2>1, <2>3, <2>4, CtlGotoType DEF CtlGoto
    <2>6. left' \in Left BY <1>1, <1>7, FaultType DEF ControlStop
    <2> QED BY <1>1, <1>7, <2>5, <2>6, ControlStep DEF ControlStop
  <1>8. CASE ControlStopCas(c)
    <2>1. ctl[c].pc # "idle" /\ ctl[c].job \in Jobs BY <1>8, CtlFacts DEF ControlStopCas
    <2>2. row' \in [Jobs -> Rows]
      <3>1. ctl[c].held.at \in Nat BY CtlFacts DEF Rows
      <3> QED BY <1>1, <1>8, <2>1, <3>1, SetStateType DEF ControlStopCas, States
    <2>3. ctl[c].tries + 1 \in Nat BY CtlFacts
    <2>4. CtlOK(TryAgain(ctl[c], "idle"))
      <3>1. CtlOK([ctl[c] EXCEPT !.pc = "stop", !.tries = ctl[c].tries + 1])
        BY <2>1, <2>3, NoRowType, CtlGotoType
      <3>2. CtlOK([ctl[c] EXCEPT !.pc = "idle"]) BY <2>1, CtlGotoType
      <3> QED BY <3>1, <3>2 DEF TryAgain
    <2>5. CtlGoto(c, "idle") \/ ctl' = [ctl EXCEPT ![c] = TryAgain(ctl[c], "idle")]
      BY <1>1, <1>8 DEF ControlStopCas
    <2>6. PICK p : CtlOK(p) /\ ctl' = [ctl EXCEPT ![c] = p]
      BY <2>1, <2>4, <2>5, CtlGotoType DEF CtlGoto
    <2>7. left' \in Left BY <1>1, <1>8, FaultType DEF ControlStopCas
    <2> QED BY <1>1, <1>8, <2>2, <2>6, <2>7, ControlStep DEF ControlStopCas
  <1>9. CASE ControlRemove(c)
    <2>1. ctl[c].pc # "idle" BY <1>9 DEF ControlRemove
    <2>2. PICK p : CtlOK(p) /\ ctl' = [ctl EXCEPT ![c] = p]
      BY <1>9, <2>1, CtlGotoType DEF CtlGoto, ControlRemove
    <2>3. envelope' \in [Jobs -> Nat] BY <1>1, <1>9 DEF ControlRemove
    <2>4. left' \in Left BY <1>1, <1>9, FaultType DEF ControlRemove
    <2> QED BY <1>1, <1>9, <2>2, <2>3, <2>4, ControlStep DEF ControlRemove
  <1> QED BY <1>2, <1>3, <1>4, <1>5, <1>6, <1>7, <1>8, <1>9 DEF Control

-----------------------------------------------------------------------------
(* Creation.                                                               *)

\* What every step of a creation starts from.
LEMMA MkFacts ==
  ASSUME TypeInv, NEW j \in Jobs
  PROVE  /\ mk \in [Jobs -> MkThread] /\ mk[j] \in MkThread
         /\ row \in [Jobs -> Rows] /\ row[j] \in Rows /\ row[j].at \in Nat
         /\ envelope \in [Jobs -> Nat] /\ left \in Left /\ now \in Nat
         /\ mk[j].next \in Nat /\ mk[j].ts \in Nat /\ mk[j].tries \in Nat
         /\ mk[j].held \in Rows /\ mk[j].held.at \in Nat
  BY DEF TypeInv, TypeOK, MkThread, Rows, Left

\* A step of a creation that leaves its thread, the tables and the bounds well formed.
LEMMA CreateStep ==
  ASSUME TypeInv, NEW j \in Jobs, NEW p \in MkThread, mk' = [mk EXCEPT ![j] = p],
         row' \in [Jobs -> Rows], envelope' \in [Jobs -> Nat], left' \in Left,
         UNCHANGED <<now, run, ctl, sent>>
  PROVE  TypeInv'
  <1>1. mk' \in [Jobs -> MkThread] BY DEF TypeInv, TypeOK
  <1> QED BY <1>1 DEF TypeInv, TypeOK, JobAtHand, RunOK, CtlOK, Left

\* The threads a creation step can leave are well formed.
LEMMA MkGotoType ==
  ASSUME TypeInv, NEW j \in Jobs, NEW pc \in MkPcs
  PROVE  /\ [mk[j] EXCEPT !.pc = pc] \in MkThread
         /\ EndMk(mk[j], pc) \in MkThread
         /\ \A h \in Rows : [mk[j] EXCEPT !.pc = pc, !.held = h] \in MkThread
         /\ \A n \in Nat :
              /\ \A o \in Offsets : [mk[j] EXCEPT !.pc = pc, !.next = n, !.off = o] \in MkThread
              /\ [mk[j] EXCEPT !.pc = pc, !.ts = n] \in MkThread
              /\ [mk[j] EXCEPT !.pc = pc, !.tries = n] \in MkThread
              /\ [EndMk(mk[j], pc) EXCEPT !.ts = n] \in MkThread
  <1>1. 0 \in Offsets BY DEF Offsets
  <1> QED BY <1>1, MkFacts, NoRowType DEF MkThread, EndMk, NewMk

\* Type preservation by remove_if_unmodified.
LEMMA RemoveRowType ==
  ASSUME TypeInv, NEW j \in Jobs, NEW pc, NEW rev, NEW hit \in MkPcs, NEW miss \in MkPcs,
         RemoveRow(j, pc, rev, hit, miss)
  PROVE  TypeInv'
  <1>1. row' \in [Jobs -> Rows] BY MkFacts, NoRowType DEF RemoveRow
  <1>2. PICK p \in MkThread : mk' = [mk EXCEPT ![j] = p]
    BY MkFacts, MkGotoType DEF RemoveRow, MkGoto
  <1>3. left' \in Left BY MkFacts, FaultType DEF RemoveRow
  <1>4. envelope' \in [Jobs -> Nat] /\ UNCHANGED <<now, run, ctl, sent>>
    BY MkFacts DEF RemoveRow
  <1> QED BY <1>1, <1>2, <1>3, <1>4, CreateStep

\* Type preservation by the retention of the input.
LEMMA ScheduleType ==
  ASSUME TypeInv, NEW j \in Jobs, Schedule(j)
  PROVE  TypeInv'
  <1>1. PICK next \in now + 1 .. now + Lead, off \in ClientOffsets :
          \/ /\ envelope' = [envelope EXCEPT ![j] = next + Grace]
             /\ mk' = [mk EXCEPT ![j].pc = "put", ![j].next = next, ![j].off = off]
             /\ UNCHANGED left
          \/ /\ UNCHANGED left \/ StoreFails
             /\ mk' = [mk EXCEPT ![j] = EndMk(@, "refused")]
             /\ UNCHANGED envelope
    BY DEF Schedule
  <1>2. next \in Nat /\ next + Grace \in Nat BY MkFacts, BoundsAssumption
  <1>3. [mk EXCEPT ![j].pc = "put", ![j].next = next, ![j].off = off]
        = [mk EXCEPT ![j] = [mk[j] EXCEPT !.pc = "put", !.next = next, !.off = off]]
    BY MkFacts
  <1>4. {"put", "refused"} \subseteq MkPcs BY DEF MkPcs
  <1>10. off \in Offsets BY DEF Offsets
  <1>5. [mk[j] EXCEPT !.pc = "put", !.next = next, !.off = off] \in MkThread
        /\ EndMk(mk[j], "refused") \in MkThread
    BY <1>2, <1>4, <1>10, MkGotoType
  <1>6. PICK p \in MkThread : mk' = [mk EXCEPT ![j] = p] BY <1>1, <1>3, <1>5
  <1>7. envelope' \in [Jobs -> Nat] BY <1>1, <1>2, MkFacts
  <1>8. left' \in Left BY <1>1, MkFacts, FaultType
  <1>9. row' \in [Jobs -> Rows] /\ UNCHANGED <<now, run, ctl, sent>>
    BY MkFacts DEF Schedule
  <1> QED BY <1>6, <1>7, <1>8, <1>9, CreateStep

\* Type preservation by the rest of a creation.
LEMMA CreateType ==
  ASSUME TypeInv, NEW j \in Jobs, Create(j)
  PROVE  TypeInv'
  <1> USE DEF MkPcs
  <1>1. CASE AddRow(j)
    <2>1. [NoRow EXCEPT !.state = "scheduled", !.at = now, !.next = mk[j].next,
                        !.off = mk[j].off] \in Rows
      <3>1. mk[j].next \in Nat /\ mk[j].off \in Offsets BY MkFacts DEF MkThread
      <3> QED BY <3>1, MkFacts, NoRowType DEF Rows, States
    <2>2. row' \in [Jobs -> Rows] BY <1>1, <2>1, MkFacts DEF AddRow
    <2>3. [mk EXCEPT ![j].pc = "added", ![j].ts = now]
          = [mk EXCEPT ![j] = [mk[j] EXCEPT !.pc = "added", !.ts = now]]
      BY MkFacts
    <2>4. [mk[j] EXCEPT !.pc = "added", !.ts = now] \in MkThread
          /\ [mk[j] EXCEPT !.pc = "check"] \in MkThread
      BY MkFacts, MkGotoType
    <2>5. PICK p \in MkThread : mk' = [mk EXCEPT ![j] = p]
      <3>1. mk' = [mk EXCEPT ![j].pc = "added", ![j].ts = now]
            \/ mk' = [mk EXCEPT ![j] = [mk[j] EXCEPT !.pc = "check"]]
        BY <1>1, MkFacts DEF AddRow, MkGoto
      <3> QED BY <2>3, <2>4, <3>1
    <2>6. left' \in Left BY <1>1, MkFacts, FaultType DEF AddRow
    <2> QED BY <1>1, <2>2, <2>5, <2>6, MkFacts, CreateStep DEF AddRow
  <1>2. CASE CreateAudit(j)
    <2>1. PICK p \in MkThread : mk' = [mk EXCEPT ![j] = p]
      BY <1>2, MkFacts, MkGotoType DEF CreateAudit, MkGoto
    <2>2. left' \in Left BY <1>2, MkFacts, FaultType DEF CreateAudit
    <2> QED BY <1>2, <2>1, <2>2, MkFacts, CreateStep DEF CreateAudit
  <1>3. CASE Unadd(j) \/ CreateDelete(j)
    BY <1>3, RemoveRowType DEF Unadd, CreateDelete
  <1>4. CASE CreateStop(j)
    <2>1. LookAgain(mk[j], j, {}, "check") \in MkThread
      BY MkFacts, MkGotoType DEF LookAgain
    <2>2. PICK p \in MkThread : mk' = [mk EXCEPT ![j] = p]
      BY <1>4, <2>1, MkFacts, MkGotoType DEF CreateStop, MkGoto
    <2>3. left' \in Left BY <1>4, MkFacts, FaultType DEF CreateStop
    <2> QED BY <1>4, <2>2, <2>3, MkFacts, CreateStep DEF CreateStop
  <1>5. CASE CreateStopCas(j)
    <2>1. row' \in [Jobs -> Rows]
      BY <1>5, MkFacts, SetStateType DEF CreateStopCas, States
    <2>2. mk[j].tries + 1 \in Nat BY MkFacts
    <2>3. TryAgain(mk[j], "check") \in MkThread
      <3>1. [mk[j] EXCEPT !.pc = "stop", !.tries = mk[j].tries + 1] \in MkThread
        BY <2>2, MkGotoType
      <3>2. [mk[j] EXCEPT !.pc = "check"] \in MkThread BY MkGotoType
      <3> QED BY <3>1, <3>2 DEF TryAgain
    <2>4. PICK p \in MkThread : mk' = [mk EXCEPT ![j] = p]
      <3>1. mk' = [mk EXCEPT ![j].pc = "check"] \/ mk' = [mk EXCEPT ![j] = TryAgain(mk[j], "check")]
        BY <1>5, MkFacts DEF CreateStopCas, MkGoto
      <3>2. [mk[j] EXCEPT !.pc = "check"] \in MkThread BY MkGotoType
      <3> QED BY <2>3, <3>1, <3>2, MkFacts
    <2>5. left' \in Left BY <1>5, MkFacts, FaultType DEF CreateStopCas
    <2> QED BY <1>5, <2>1, <2>4, <2>5, MkFacts, CreateStep DEF CreateStopCas
  <1>6. CASE CreateCheck(j)
    <2>1. ASSUME NEW pc \in {"delete", "unput"}
          PROVE  [EndMk(mk[j], pc) EXCEPT !.ts = row[j].at] \in MkThread
      BY MkFacts, MkGotoType
    <2>2. PICK p \in MkThread : mk' = [mk EXCEPT ![j] = p]
      BY <1>6, <2>1, MkFacts, MkGotoType DEF CreateCheck, MkGoto
    <2>3. left' \in Left BY <1>6, MkFacts, FaultType DEF CreateCheck
    <2> QED BY <1>6, <2>2, <2>3, MkFacts, CreateStep DEF CreateCheck
  <1>7. CASE CreateUnput(j)
    <2>1. PICK p \in MkThread : mk' = [mk EXCEPT ![j] = p]
      BY <1>7, MkFacts, MkGotoType DEF CreateUnput
    <2>2. envelope' \in [Jobs -> Nat] BY <1>7, MkFacts DEF CreateUnput
    <2>3. left' \in Left BY <1>7, MkFacts, FaultType DEF CreateUnput
    <2> QED BY <1>7, <2>1, <2>2, <2>3, MkFacts, CreateStep DEF CreateUnput
  <1> QED BY <1>1, <1>2, <1>3, <1>4, <1>5, <1>6, <1>7 DEF Create

-----------------------------------------------------------------------------
(* The process and the whole.                                              *)

\* Type preservation by a crash and a new start.
LEMMA RestartType ==
  ASSUME TypeInv, Restart
  PROVE  TypeInv'
  <1>1. RunOK(run')
    <2>1. "boot" \in JoblessPcs BY DEF JoblessPcs
    <2> QED BY <2>1, IdleRunType DEF Restart, TypeInv, TypeOK
  <1>2. CtlOK(IdleCtl) BY NoRowType DEF CtlOK, CtlThread, IdleCtl, CtlPcs
  <1>3. ctl' \in [Controls -> CtlThread] /\ \A c \in Controls : CtlOK(ctl'[c])
    BY <1>2 DEF Restart, CtlOK
  <1>4. \A j \in Jobs : mk[j] \in MkThread /\ EndMk(mk[j], "lost") \in MkThread
    BY MkFacts, MkGotoType DEF MkPcs
  <1>5. mk' \in [Jobs -> MkThread] BY <1>4 DEF Restart
  <1>6. left' \in Left BY DEF Restart, TypeInv, TypeOK, Left
  <1> QED BY <1>1, <1>3, <1>5, <1>6 DEF Restart, TypeInv, TypeOK, JobAtHand, RunOK, Left

\* Type preservation by the clock.
LEMMA TickType ==
  ASSUME TypeInv, Tick
  PROVE  TypeInv'
  BY DEF TypeInv, TypeOK, JobAtHand, Tick

\* The first state is well typed.
LEMMA InitType == Init => TypeInv
  <1> SUFFICES ASSUME Init PROVE TypeInv OBVIOUS
  <1>1. RunOK(run)
    <2>1. "boot" \in JoblessPcs BY DEF JoblessPcs
    <2> QED BY <2>1, IdleRunType DEF Init
  <1>2. CtlOK(IdleCtl) BY NoRowType DEF CtlOK, CtlThread, IdleCtl, CtlPcs
  <1>3. NewMk \in MkThread BY NoRowType DEF MkThread, NewMk, MkPcs, Offsets
  <1>4. left \in Left BY BoundsAssumption DEF Init, Left
  <1> QED BY <1>1, <1>2, <1>3, <1>4, NoRowType
          DEF Init, TypeInv, TypeOK, JobAtHand, RunOK, CtlOK, Left

\* Type preservation by the runner loop.
LEMMA RunOnceType ==
  ASSUME TypeInv, RunOnce
  PROVE  TypeInv'
  BY BatchType, ExecuteType, AcknowledgeType, CompleteType, RetryType, QuietType DEF RunOnce

\* The type invariant is inductive.
LEMMA NextType == TypeInv /\ [Next]_vars => TypeInv'
  <1> SUFFICES ASSUME TypeInv, [Next]_vars PROVE TypeInv' OBVIOUS
  <1>1. CASE UNCHANGED vars
    BY <1>1 DEF vars, TypeInv, TypeOK, JobAtHand
  <1>2. CASE Next
    BY <1>2, RunOnceType, RecoverType, ControlType, ScheduleType, CreateType, TickType,
       RestartType DEF Next
  <1> QED BY <1>1, <1>2

\* Type correctness: whatever the threads, the owner, the clock, crashes and faults do,
\* every variable of the scheduled-job system has the type the code gives it, and a
\* thread that is past taking a job has one at hand.
THEOREM TypeCorrect == Spec => []TypeInv
  <1>1. Init => TypeInv BY InitType
  <1>2. TypeInv /\ [Next]_vars => TypeInv' BY NextType
  <1> QED BY <1>1, <1>2, PTL DEF Spec

\* The type invariant the runs check, alone.
THEOREM TypeOKHolds == Spec => []TypeOK
  <1>1. TypeInv => TypeOK BY DEF TypeInv
  <1> QED BY <1>1, TypeCorrect, PTL

-----------------------------------------------------------------------------
(* What one step can make of a row, whoever takes it.                      *)

Rewritten(j) ==
    /\ Exists(j)
    /\ row'[j].state \in Successors(row[j].state)
    /\ row'[j].att = row[j].att

Charged(j) ==
    /\ run.pc = "retryatt" /\ run.job = j /\ Exists(j)
    /\ row'[j].state = row[j].state
    /\ row'[j].att = row[j].att + 1
    /\ run'.pc = "retrysched"

Added(j) ==
    /\ mk[j].pc = "put" /\ mk'[j].pc = "added"
    /\ row'[j].state = "scheduled" /\ row'[j].att = 0

Removed(j) == row[j].state = "scheduled" /\ row'[j] = NoRow

RowMoves ==
    \A j \in Jobs :
        row'[j] = row[j] \/ Rewritten(j) \/ Charged(j) \/ Added(j) \/ Removed(j)

\* The table accepts a move of a state to itself.
LEMMA SameState == \A s \in States : s \in Successors(s)
  BY DEF States, Successors

\* A validated state write rewrites one row along the table.
LEMMA SetStateMoves ==
  ASSUME row \in [Jobs -> Rows], NEW j \in Jobs, NEW to, NEW ts, Exists(j),
         SetState(j, to, ts)
  PROVE  RowMoves
  <1>1. CASE row[j].state = to BY <1>1 DEF SetState, RowMoves
  <1>2. CASE row[j].state # to
    <2>1. row' = [row EXCEPT ![j] = [row[j] EXCEPT !.state = to, !.at = ts]]
      BY <1>2 DEF SetState
    <2>2. row'[j] = [row[j] EXCEPT !.state = to, !.at = ts] /\ row[j] \in Rows BY <2>1
    <2>3. row'[j].state = to /\ row'[j].att = row[j].att BY <2>2 DEF Rows
    <2>4. Rewritten(j) BY <2>3 DEF Rewritten, SetState, CanTransition
    <2> QED BY <2>1, <2>4 DEF RowMoves
  <1> QED BY <1>1, <1>2

\* A write that keeps the state and the attempts.
LEMMA FieldMoves ==
  ASSUME row \in [Jobs -> Rows], NEW j \in Jobs, Exists(j), NEW fields,
         fields.state = row[j].state, fields.att = row[j].att,
         row' = [row EXCEPT ![j] = fields]
  PROVE  RowMoves
  <1>1. row[j].state \in States BY DEF Exists, Rows
  <1>2. Rewritten(j) BY <1>1, SameState DEF Rewritten
  <1> QED BY <1>2 DEF RowMoves

\* A step that writes no row moves none.
LEMMA Unmoved == UNCHANGED row => RowMoves
  BY DEF RowMoves

\* claim_due rewrites scheduled rows only.
LEMMA ClaimMoves == ASSUME TypeInv, ClaimDue PROVE RowMoves
  <1>1. CASE UNCHANGED row BY <1>1, Unmoved
  <1>2. ASSUME NEW D \in SUBSET Due,
               row' = [j \in Jobs |->
                          IF j \in D
                          THEN [row[j] EXCEPT !.state = "running", !.at = run.claimed]
                          ELSE row[j]]
        PROVE  RowMoves
    <2>1. ASSUME NEW j \in D PROVE Rewritten(j)
      <3>1. j \in Jobs /\ row[j].state = "scheduled" BY DEF Due
      <3>2. row[j] \in Rows BY <3>1 DEF TypeInv, TypeOK
      <3>3. row'[j] = [row[j] EXCEPT !.state = "running", !.at = run.claimed]
        BY <1>2, <3>1
      <3>4. row'[j].state = "running" /\ row'[j].att = row[j].att BY <3>2, <3>3 DEF Rows
      <3> QED BY <3>1, <3>4 DEF Rewritten, Exists, Successors
    <2>2. ASSUME NEW j \in Jobs \ D PROVE row'[j] = row[j] BY <1>2
    <2> QED BY <2>1, <2>2 DEF RowMoves
  <1> QED BY <1>1, <1>2 DEF ClaimDue

\* What the runner loop makes of the rows.
LEMMA RunnerMoves ==
  ASSUME TypeInv, RunOnce
  PROVE  RowMoves
  <1>1. row \in [Jobs -> Rows] BY DEF TypeInv, TypeOK
  <1>2. \/ UNCHANGED row
        \/ ClaimDue
        \/ \E j \in Jobs : \E to, ts : Exists(j) /\ SetState(j, to, ts)
        \/ AckRecord \/ AckRevert \/ RetryNext \/ RetryAttempt \/ QuietNext
    <2>1. CASE StartBatch \/ TakeNext \/ BatchDone \/ Raise \/ PurgeExpired \/ StartWork
               \/ Classify \/ Send \/ AckLoad \/ AckAudit \/ RunStop \/ Refresh
               \/ CompleteAudit \/ Clean \/ CleanDelete \/ RetryAudit \/ RetryScheduleAudit \/ ExhaustAudit
               \/ Suppressed \/ QuietAudit \/ QuietScheduleAudit
      BY <2>1 DEF StartBatch, TakeNext, BatchDone, Raise, PurgeExpired, StartWork, Classify,
                  Send, AckLoad, AckAudit, RunStop, Refresh, CompleteAudit, Clean, CleanDelete,
                     RetryAudit,
                  RetryScheduleAudit, ExhaustAudit, Suppressed, QuietAudit,
                  QuietScheduleAudit, RunAudit
    <2>2. ASSUME NEW pc, NEW from, NEW to, NEW ts, NEW hit, NEW miss,
                 RunCas(pc, from, to, ts, hit, miss), pc \notin JoblessPcs
          PROVE  UNCHANGED row \/ \E j \in Jobs : \E t, s : Exists(j) /\ SetState(j, t, s)
      <3>1. run.job \in Jobs BY <2>2, AtHand DEF RunCas
      <3> QED BY <2>2, <3>1 DEF RunCas, Matches, At
    <2>3. CASE Complete \/ RetryInterrupt \/ RetrySchedule \/ Exhaust \/ QuietInterrupt
               \/ QuietSchedule
      BY <2>2, <2>3 DEF Complete, RetryInterrupt, RetrySchedule, Exhaust, QuietInterrupt,
                        QuietSchedule, JoblessPcs
    <2>4. CASE Undo \/ Undo2
      <3>1. run.todo \subseteq Jobs BY DEF TypeInv, TypeOK, RunThread
      <3> QED BY <2>4, <3>1 DEF Undo, Undo2, GiveBack, Matches, At
    <2>5. CASE RunStopCas \/ RetryPause
      <3>1. run.pc \notin JoblessPcs BY <2>5 DEF RunStopCas, RetryPause, JoblessPcs
      <3>2. run.job \in Jobs BY <3>1, AtHand
      <3> QED BY <2>5, <3>2 DEF RunStopCas, RetryPause, Matches, At
    <2> QED BY <2>1, <2>3, <2>4, <2>5 DEF RunOnce
  <1>3. CASE UNCHANGED row BY <1>3, Unmoved
  <1>4. CASE ClaimDue BY <1>4, ClaimMoves
  <1>5. CASE \E j \in Jobs : \E to, ts : Exists(j) /\ SetState(j, to, ts)
    BY <1>1, <1>5, SetStateMoves
  <1>6. CASE AckRecord \/ AckRevert
    <2>1. run.pc \notin JoblessPcs BY <1>6 DEF AckRecord, AckRevert, JoblessPcs
    <2>2. run.job \in Jobs /\ row[run.job] \in Rows BY <2>1, AtHand
    <2>3. ASSUME NEW rev, NEW f, SetFp(rev, f) PROVE RowMoves
      <3> DEFINE r == [row[run.job] EXCEPT !.fp = f, !.at = run.ts]
      <3>1. row' = [row EXCEPT ![run.job] = r] BY <2>3 DEF SetFp
      <3>2. r.state = row[run.job].state /\ r.att = row[run.job].att BY <2>2 DEF Rows
      <3>3. Exists(run.job) BY <2>3 DEF SetFp, At
      <3> QED BY <1>1, <2>2, <3>1, <3>2, <3>3, FieldMoves
    <2> QED BY <1>6, <2>3, Unmoved DEF AckRecord, AckRevert
  <1>7. CASE RetryNext \/ QuietNext
    <2>1. run.pc \notin JoblessPcs BY <1>7 DEF RetryNext, QuietNext, Revise, JoblessPcs
    <2>2. run.job \in Jobs /\ row[run.job] \in Rows BY <2>1, AtHand
    <2>3. ASSUME NEW n, NEW pc, NEW hit,
                 NEW o, Revise(pc, [row[run.job] EXCEPT !.next = n, !.off = o, !.at = run.ts], hit)
          PROVE  RowMoves
      <3> DEFINE r == [row[run.job] EXCEPT !.next = n, !.off = o, !.at = run.ts]
      <3>1. r.state = row[run.job].state /\ r.att = row[run.job].att BY <2>2 DEF Rows
      <3>2. CASE UNCHANGED row BY <3>2, Unmoved
      <3>3. CASE Exists(run.job) /\ row' = [row EXCEPT ![run.job] = r]
        BY <1>1, <2>2, <3>1, <3>3, FieldMoves
      <3> QED BY <2>3, <3>2, <3>3 DEF Revise, At
    <2> QED BY <1>7, <2>3 DEF RetryNext, QuietNext
  <1>8. CASE RetryAttempt
    <2>1. run.pc = "retryatt" BY <1>8 DEF RetryAttempt, Revise
    <2>2. run.job \in Jobs /\ row[run.job] \in Rows BY <2>1, AtHand DEF JoblessPcs
    <2>3. CASE UNCHANGED row BY <2>3, Unmoved
    <2>4. CASE /\ Exists(run.job)
               /\ row' = [row EXCEPT ![run.job] =
                              [row[run.job] EXCEPT !.att = @ + 1, !.at = run.ts]]
               /\ run' = [run EXCEPT !.pc = "retrysched", !.held = row'[run.job]]
      <3>1. run'.pc = "retrysched" BY <2>4 DEF TypeInv, TypeOK, RunThread
      <3>2. row'[run.job] = [row[run.job] EXCEPT !.att = @ + 1, !.at = run.ts]
        BY <1>1, <2>2, <2>4
      <3>3. row'[run.job].state = row[run.job].state
            /\ row'[run.job].att = row[run.job].att + 1
        BY <2>2, <3>2 DEF Rows
      <3>4. Charged(run.job) BY <2>1, <2>4, <3>1, <3>3 DEF Charged
      <3> QED BY <1>1, <2>2, <2>4, <3>4 DEF RowMoves
    <2> QED BY <1>8, <2>3, <2>4 DEF RetryAttempt, Revise, At
  <1> QED BY <1>2, <1>3, <1>4, <1>5, <1>6, <1>7, <1>8

\* What recovery makes of the rows.
LEMMA RecoverMoves ==
  ASSUME TypeInv, Recover
  PROVE  RowMoves
  <1>1. row \in [Jobs -> Rows] /\ run.todo \subseteq Jobs
        /\ (run.pc \notin JoblessPcs => run.job \in Jobs)
    BY AtHand DEF TypeInv, TypeOK, RunThread
  <1>2. UNCHANGED row \/ \E j \in Jobs : \E t, s : Exists(j) /\ SetState(j, t, s)
    <2>1. CASE RecoverList \/ RecoverInterruptAudit \/ RecoverListAgain
               \/ RecoverScheduleAudit \/ RecoverDone
      BY <2>1 DEF RecoverList, RecoverInterruptAudit, RecoverListAgain,
                  RecoverScheduleAudit, RecoverDone, RecoverAudit
    <2>2. CASE RecoverInterrupt \/ RecoverSchedule
      BY <1>1, <2>2 DEF RecoverInterrupt, RecoverSchedule, RecoverCas, Matches, At
    <2>3. CASE RecoverInterruptPause \/ RecoverSchedulePause
      BY <1>1, <2>3 DEF RecoverInterruptPause, RecoverSchedulePause, RecoverPause, Matches, At,
                        JoblessPcs
    <2> QED BY <2>1, <2>2, <2>3 DEF Recover
  <1> QED BY <1>1, <1>2, SetStateMoves, Unmoved

\* What a request makes of the rows.
LEMMA ControlMoves ==
  ASSUME TypeInv, NEW c \in Controls, Control(c)
  PROVE  RowMoves
  <1>1. row \in [Jobs -> Rows] /\ (ctl[c].pc # "idle" => ctl[c].job \in Jobs) BY CtlFacts
  <1>2. UNCHANGED row \/ \E j \in Jobs : \E t, s : Exists(j) /\ SetState(j, t, s)
    <2>1. CASE (\E op \in Ops, j \in Jobs : Request(c, op, j)) \/ CancelReread(c)
               \/ ControlAudit(c) \/ ControlStop(c) \/ ControlRemove(c)
      BY <2>1 DEF Request, CancelReread, ControlAudit, ControlStop, ControlRemove
    <2>2. CASE ControlCas(c) \/ Unresume(c)
      BY <1>1, <2>2 DEF ControlCas, Unresume, CtlCas, Matches, At
    <2>3. CASE ControlStopCas(c)
      BY <1>1, <2>3 DEF ControlStopCas, Matches, At
    <2> QED BY <2>1, <2>2, <2>3 DEF Control
  <1> QED BY <1>1, <1>2, SetStateMoves, Unmoved

\* What a creation makes of the rows.
LEMMA CreateMoves ==
  ASSUME TypeInv, NEW j \in Jobs, Schedule(j) \/ Create(j)
  PROVE  RowMoves
  <1>1. row \in [Jobs -> Rows] /\ mk \in [Jobs -> MkThread] BY MkFacts
  <1>2. CASE AddRow(j)
    <2>1. CASE UNCHANGED row BY <2>1, Unmoved
    <2>2. CASE /\ row' = [row EXCEPT ![j] = [NoRow EXCEPT !.state = "scheduled", !.at = now,
                                                         !.next = mk[j].next,
                                                         !.off = mk[j].off]]
               /\ mk' = [mk EXCEPT ![j].pc = "added", ![j].ts = now]
      <3>1. mk[j].pc = "put" /\ mk'[j].pc = "added"
        BY <1>1, <1>2, <2>2 DEF AddRow, MkThread
      <3>2. row'[j].state = "scheduled" /\ row'[j].att = 0 BY <1>1, <2>2 DEF NoRow
      <3>3. Added(j) BY <3>1, <3>2 DEF Added
      <3> QED BY <1>1, <2>2, <3>3 DEF RowMoves
    <2> QED BY <1>2, <2>1, <2>2 DEF AddRow
  <1>3. CASE Unadd(j) \/ CreateDelete(j)
    <2>1. CASE UNCHANGED row BY <2>1, Unmoved
    <2>2. CASE row[j].state = "scheduled" /\ row' = [row EXCEPT ![j] = NoRow]
      <3>1. Removed(j) BY <1>1, <2>2 DEF Removed
      <3> QED BY <1>1, <2>2, <3>1 DEF RowMoves
    <2> QED BY <1>3, <2>1, <2>2 DEF Unadd, CreateDelete, RemoveRow, Matches
  <1>4. CASE CreateStopCas(j)
    <2>1. UNCHANGED row \/ \E t, s : Exists(j) /\ SetState(j, t, s)
      BY <1>4 DEF CreateStopCas, Matches, At
    <2> QED BY <1>1, <2>1, SetStateMoves, Unmoved
  <1>5. CASE Schedule(j) \/ CreateAudit(j) \/ CreateStop(j) \/ CreateCheck(j) \/ CreateUnput(j)
    BY <1>5, Unmoved DEF Schedule, CreateAudit, CreateStop, CreateCheck, CreateUnput
  <1> QED BY <1>2, <1>3, <1>4, <1>5 DEF Create

\* What any step makes of the rows.
LEMMA NextMoves ==
  ASSUME TypeInv, [Next]_vars
  PROVE  RowMoves
  <1>1. CASE UNCHANGED vars \/ Tick \/ Restart
    BY <1>1, Unmoved DEF vars, Tick, Restart
  <1> QED BY <1>1, RunnerMoves, RecoverMoves, ControlMoves, CreateMoves DEF Next

-----------------------------------------------------------------------------
(* Creation adds a row only where there is none.                           *)

Fresh == \A j \in Jobs : mk[j].pc \in {"new", "put"} => row[j].state = "none"

\* A creation never goes back to before its row was added.
LEMMA CreationGoesOn ==
  ASSUME TypeInv, [Next]_vars, NEW j \in Jobs, mk'[j].pc \in {"new", "put"}
  PROVE  mk[j].pc \in {"new", "put"}
  <1>1. mk \in [Jobs -> MkThread] BY DEF TypeInv, TypeOK
  <1>2. CASE UNCHANGED mk BY <1>2
  <1>3. ASSUME NEW i \in Jobs, Schedule(i) \/ Create(i)
        PROVE  mk[j].pc \in {"new", "put"}
    <2>1. CASE i # j
      <3>1. mk'[j] = mk[j]
        BY <1>1, <1>3, <2>1
           DEF Schedule, Create, AddRow, CreateAudit, Unadd, CreateStop, CreateStopCas,
               CreateCheck, CreateDelete, CreateUnput, RemoveRow, MkGoto
      <3> QED BY <3>1
    <2>2. CASE i = j
      <3>1. CASE Schedule(j) BY <3>1 DEF Schedule
      <3>2. CASE AddRow(j) BY <3>2 DEF AddRow
      <3>3. CASE Create(j) /\ ~AddRow(j)
        <4> USE <1>1 DEF MkGoto, EndMk, NewMk, MkThread
        <4>1. CASE CreateAudit(j) \/ CreateCheck(j) \/ CreateUnput(j)
          BY <4>1 DEF CreateAudit, CreateCheck, CreateUnput
        <4>2. CASE Unadd(j) \/ CreateDelete(j)
          BY <4>2 DEF Unadd, CreateDelete, RemoveRow
        <4>3. CASE CreateStop(j)
          BY <4>3 DEF CreateStop, LookAgain
        <4>4. CASE CreateStopCas(j)
          BY <4>4 DEF CreateStopCas, TryAgain
        <4> QED BY <3>3, <4>1, <4>2, <4>3, <4>4 DEF Create
      <3> QED BY <1>3, <2>2, <3>1, <3>2, <3>3
    <2> QED BY <2>1, <2>2
  <1>4. CASE Restart
    <2>1. mk'[j] = mk[j] \/ mk'[j] = EndMk(mk[j], "lost") BY <1>4 DEF Restart
    <2>2. EndMk(mk[j], "lost").pc = "lost" BY DEF EndMk, NewMk
    <2> QED BY <2>1, <2>2
  <1>5. CASE Tick \/ UNCHANGED vars BY <1>2, <1>5 DEF Tick, vars
  <1>6. CASE RunOnce
    BY <1>2, <1>6
       DEF RunOnce, StartBatch, ClaimDue, TakeNext, BatchDone, Undo, Undo2, Raise,
           PurgeExpired, StartWork, Classify, Send, AckLoad, AckRecord, AckAudit, AckRevert,
           RunStop, RunStopCas, Refresh, Complete, CompleteAudit, Clean, CleanDelete,
              RetryInterrupt,
           RetryAudit, RetryNext, RetryAttempt, RetrySchedule, RetryScheduleAudit,
           RetryPause, Exhaust, ExhaustAudit, Suppressed, QuietInterrupt, QuietAudit,
           QuietNext, QuietSchedule, QuietScheduleAudit, RunCas, RunAudit, Revise, GiveBack
  <1>7. CASE Recover
    BY <1>2, <1>7
       DEF Recover, RecoverList, RecoverInterrupt, RecoverInterruptAudit,
           RecoverInterruptPause, RecoverListAgain, RecoverSchedule, RecoverScheduleAudit,
           RecoverSchedulePause, RecoverDone, RecoverCas, RecoverAudit, RecoverPause
  <1>8. CASE \E c \in Controls : Control(c)
    BY <1>2, <1>8
       DEF Control, Request, CancelReread, ControlCas, ControlAudit, Unresume, ControlStop,
           ControlStopCas, ControlRemove, CtlCas
  <1> QED BY <1>3, <1>4, <1>5, <1>6, <1>7, <1>8 DEF Next

\* Fresh is inductive.
LEMMA FreshNext ==
  ASSUME TypeInv, Fresh, [Next]_vars
  PROVE  Fresh'
  <1> SUFFICES ASSUME NEW j \in Jobs, mk'[j].pc \in {"new", "put"}
               PROVE  row'[j].state = "none"
    BY DEF Fresh
  <1>1. row[j].state = "none" BY CreationGoesOn DEF Fresh
  <1>2. row'[j] = row[j] BY <1>1, NextMoves DEF RowMoves, Rewritten, Charged, Added, Removed, Exists
  <1> QED BY <1>1, <1>2

\* A creation that has not added its row yet finds none.
LEMMA FreshAlways == Spec => [](TypeInv /\ Fresh)
  <1>1. Init => TypeInv /\ Fresh BY InitType DEF Init, Fresh, NoRow
  <1>2. TypeInv /\ Fresh /\ [Next]_vars => (TypeInv /\ Fresh)' BY NextType, FreshNext
  <1> QED BY <1>1, <1>2, PTL DEF Spec

\* No step revives a completed, failed or cancelled job: not a claim, a retry, a resume, a
\* recovery or a compensation that read the row before it ended.
THEOREM TerminalStays == Spec => TerminalIsFinal
  <1>1. ASSUME TypeInv, Fresh, [Next]_vars
        PROVE  [\A j \in Jobs : row[j].state \in Terminal => row'[j].state = row[j].state]_vars
    <2> SUFFICES ASSUME NEW j \in Jobs, row[j].state \in Terminal
                 PROVE  row'[j].state = row[j].state
      OBVIOUS
    <2>1. row[j].state # "scheduled" /\ row[j].state # "none"
          /\ Successors(row[j].state) = {row[j].state}
      BY DEF Terminal, Successors
    <2>2. ~Added(j) BY <1>1, <2>1 DEF Fresh, Added
    <2>3. ~Removed(j) BY <2>1 DEF Removed
    <2> QED BY <1>1, <2>1, <2>2, <2>3, NextMoves DEF RowMoves, Rewritten, Charged
  <1> QED BY <1>1, FreshAlways, PTL DEF Spec, TerminalIsFinal

-----------------------------------------------------------------------------
(* The retry budget.  The runner compares the budget with the snapshot it  *)
(* claimed and charges the row it finds later; the two agree because       *)
(* nobody else charges a row between the claim and the charge.             *)

RecoveryPcs ==
    {"rintaudit", "rintpause", "rschedaudit", "rschedpause"}

\* A claimed job is at hand; its attempt is not charged yet; it is about to be.
WorkPcs == RunPcs \ (JoblessPcs \cup RecoveryPcs \cup {"undo2"})
UnchargedPcs == WorkPcs \ {"retrysched", "retryschedaudit", "retrypause"}
ChargingPcs == {"retryaudit", "retrynext", "retryatt"}

SnapshotsHold ==
    /\ run.pc \in WorkPcs \cup {"take"} =>
          \A j \in run.todo : row[j].att <= run.seen[j].att
    /\ run.pc \in WorkPcs => run.job \notin run.todo
    /\ run.pc \in UnchargedPcs => row[run.job].att <= run.seen[run.job].att
    /\ run.pc \in ChargingPcs => run.seen[run.job].att < MaxAttempts - 1

BudgetInv == AttemptsWithinBudget /\ SnapshotsHold

\* What one step can make of the runner's batch.
Ended == run'.pc \notin WorkPcs \cup {"take"}
Passed == run.pc \in WorkPcs /\ run' = NextRun
Worked ==
    /\ run.pc \in WorkPcs
    /\ run'.job = run.job /\ run'.todo = run.todo /\ run'.seen = run.seen
    /\ run'.pc \in UnchargedPcs => run.pc \in UnchargedPcs
    /\ run'.pc \in ChargingPcs => run.pc \in ChargingPcs \/ HasBudget
Taken ==
    /\ run.pc = "take" /\ run'.pc = "work"
    /\ run'.job \in run.todo /\ run'.todo = run.todo \ {run'.job} /\ run'.seen = run.seen
Claimed ==
    /\ run'.pc = "take"
    /\ \A j \in run'.todo : run'.seen[j] = row'[j] /\ row'[j].state = "running"

BatchMoves == Ended \/ Passed \/ Worked \/ Taken \/ Claimed \/ run' = run

\* Moving on with the same job is work on it.
LEMMA GotoWorks ==
  ASSUME TypeInv, NEW pc, run' = [run EXCEPT !.pc = pc], run.pc \in WorkPcs,
         pc \in UnchargedPcs => run.pc \in UnchargedPcs,
         pc \in ChargingPcs => run.pc \in ChargingPcs \/ HasBudget
  PROVE  Worked
  BY DEF TypeInv, TypeOK, RunThread, Worked

\* So is taking a newer snapshot.
LEMMA HeldWorks ==
  ASSUME TypeInv, NEW pc, NEW h, NEW t, run.pc \in WorkPcs,
         \/ run' = [run EXCEPT !.pc = pc, !.held = h]
         \/ run' = [run EXCEPT !.pc = pc, !.held = h, !.ts = t],
         pc \in UnchargedPcs => run.pc \in UnchargedPcs,
         pc \in ChargingPcs => run.pc \in ChargingPcs \/ HasBudget
  PROVE  Worked
  BY DEF TypeInv, TypeOK, RunThread, Worked

\* An aborted run leaves its batch.
LEMMA AbortEnds ==
  ASSUME TypeInv, Abort1
  PROVE  Ended
  BY DEF Abort1, NextRun, Ended, WorkPcs, JoblessPcs

\* What a compare-and-swap makes of the runner's batch.
LEMMA RunCasMoves ==
  ASSUME TypeInv, NEW pc \in WorkPcs, NEW from, NEW to, NEW ts, NEW hit,
         RunCas(pc, from, to, ts, hit, "take"),
         hit \in UnchargedPcs => pc \in UnchargedPcs,
         hit \in ChargingPcs => pc \in ChargingPcs \/ HasBudget
  PROVE  BatchMoves
  <1>1. run.pc = pc BY DEF RunCas
  <1>2. CASE run' = [run EXCEPT !.pc = hit, !.held = row'[run.job]]
    BY <1>1, <1>2, HeldWorks DEF BatchMoves
  <1>3. CASE Next1 BY <1>1, <1>3 DEF Next1, Passed, BatchMoves
  <1>4. CASE Abort1 BY <1>4, AbortEnds DEF BatchMoves
  <1> QED BY <1>2, <1>3, <1>4 DEF RunCas

\* What an update of run time or attempts makes of it.
LEMMA ReviseMoves ==
  ASSUME TypeInv, NEW pc \in WorkPcs, NEW fields, NEW hit, Revise(pc, fields, hit),
         hit \in UnchargedPcs => pc \in UnchargedPcs,
         hit \in ChargingPcs => pc \in ChargingPcs
  PROVE  BatchMoves
  <1>1. run.pc = pc BY DEF Revise
  <1>2. CASE run' = [run EXCEPT !.pc = hit, !.held = row'[run.job]]
    BY <1>1, <1>2, HeldWorks DEF BatchMoves
  <1>3. CASE Next1 BY <1>1, <1>3 DEF Next1, Passed, BatchMoves
  <1>4. CASE Abort1 BY <1>4, AbortEnds DEF BatchMoves
  <1> QED BY <1>2, <1>3, <1>4 DEF Revise

\* What an audit append makes of it.
LEMMA RunAuditMoves ==
  ASSUME TypeInv, NEW pc \in WorkPcs, NEW ok, NEW fail, RunAudit(pc, ok, fail),
         ok \in UnchargedPcs \/ fail \in UnchargedPcs => pc \in UnchargedPcs,
         ok \in ChargingPcs => pc \in ChargingPcs, fail \notin ChargingPcs
  PROVE  BatchMoves
  <1>1. run.pc = pc BY DEF RunAudit
  <1>2. CASE Next1 BY <1>1, <1>2 DEF Next1, Passed, BatchMoves
  <1>3. CASE Abort1 BY <1>3, AbortEnds DEF BatchMoves
  <1>4. CASE Goto(ok) \/ Goto(fail)
    BY <1>1, <1>4, GotoWorks DEF Goto, BatchMoves
  <1> QED BY <1>2, <1>3, <1>4 DEF RunAudit

\* What the runner loop makes of its batch.
LEMMA RunnerBatch ==
  ASSUME TypeInv, RunOnce
  PROVE  BatchMoves
  <1> USE DEF BatchMoves
  <1>1. CASE StartBatch \/ BatchDone \/ Raise \/ PurgeExpired
    <2>1. run'.pc \in {"claim", "purge", "idle"}
      <3>1. IdleRun.pc = "idle" BY DEF IdleRun
      <3>2. [IdleRun EXCEPT !.pc = "purge"].pc = "purge" BY DEF IdleRun
      <3>3. [IdleRun EXCEPT !.pc = "claim", !.claimed = now].pc = "claim" BY DEF IdleRun
      <3> QED BY <1>1, <3>1, <3>2, <3>3 DEF StartBatch, BatchDone, Raise, PurgeExpired
    <2> QED BY <2>1 DEF Ended, WorkPcs, JoblessPcs
  <1>2. CASE ClaimDue
    <2>1. CASE run' = IdleRun BY <2>1 DEF IdleRun, Ended, WorkPcs, JoblessPcs
    <2>2. ASSUME NEW D \in SUBSET Due,
                 row' = [j \in Jobs |->
                            IF j \in D
                            THEN [row[j] EXCEPT !.state = "running", !.at = run.claimed]
                            ELSE row[j]],
                 run' = [run EXCEPT !.pc = "take", !.todo = D,
                         !.seen = [j \in Jobs |-> IF j \in D THEN row'[j] ELSE NoRow]]
          PROVE  Claimed
      <3>1. ASSUME NEW j \in D PROVE row'[j].state = "running"
        <4>1. j \in Jobs /\ row[j] \in Rows BY DEF Due, TypeInv, TypeOK
        <4>2. row'[j] = [row[j] EXCEPT !.state = "running", !.at = run.claimed] BY <2>2, <4>1
        <4> QED BY <4>1, <4>2 DEF Rows
      <3> QED BY <2>2, <3>1 DEF Claimed, TypeInv, TypeOK, RunThread, Due
    <2> QED BY <1>2, <2>1, <2>2 DEF ClaimDue
  <1>3. CASE TakeNext
    <2>1. CASE Goto("undo")
      BY <2>1 DEF Goto, Ended, WorkPcs, JoblessPcs, TypeInv, TypeOK, RunThread
    <2>2. ASSUME NEW j \in run.todo,
                 run' = [run EXCEPT !.pc = "work", !.todo = @ \ {j}, !.job = j,
                                     !.held = run.seen[j], !.ts = run.claimed]
          PROVE  Taken
      BY <1>3, <2>2 DEF TakeNext, Taken, TypeInv, TypeOK, RunThread
    <2> QED BY <1>3, <2>1, <2>2 DEF TakeNext
  <1>4. CASE Undo \/ Undo2
    <2>1. run'.pc \in {"undo", "undo2"}
      BY <1>4 DEF Undo, Undo2, GiveBack, TypeInv, TypeOK, RunThread
    <2> QED BY <2>1 DEF Ended, WorkPcs, JoblessPcs
  <1> USE DEF WorkPcs, UnchargedPcs, ChargingPcs, RecoveryPcs, RunPcs, JoblessPcs
  <1>5. ToFail /\ run.pc \in UnchargedPcs => BatchMoves
    BY DEF ToFail, TypeInv, TypeOK, RunThread, Worked
  <1>6. CASE StartWork
    <2>1. ASSUME NEW f, run' = [run EXCEPT !.pc = "classify", !.cand = f] PROVE Worked
      BY <1>6, <2>1 DEF StartWork, TypeInv, TypeOK, RunThread, Worked
    <2> QED BY <1>5, <1>6, <2>1, GotoWorks DEF StartWork, Goto
  <1>7. CASE Classify \/ Send
    BY <1>5, <1>7, GotoWorks DEF Classify, Send, Goto
  <1>8. CASE AckLoad
    <2>1. CASE run' = [run EXCEPT !.pc = "ackcas", !.held = row[run.job], !.ts = now]
      BY <1>8, <2>1 DEF AckLoad, TypeInv, TypeOK, RunThread, Worked
    <2> QED BY <1>5, <1>8, <2>1 DEF AckLoad
  <1>9. CASE AckRecord \/ AckRevert
    BY <1>5, <1>9, GotoWorks DEF AckRecord, AckRevert, Goto
  <1>10. CASE AckAudit
    BY <1>10, RunAuditMoves DEF AckAudit
  <1>11. CASE RunStop
    <2>1. ToFail \/ run' = [run EXCEPT !.pc = "stopcas", !.held = row[run.job]]
      <3>1. [run EXCEPT !.pc = "fail"].pc = "fail" BY DEF TypeInv, TypeOK, RunThread
      <3> QED BY <1>11, <3>1 DEF RunStop, LookAgain
    <2>2. CASE run' = [run EXCEPT !.pc = "stopcas", !.held = row[run.job]]
      BY <1>11, <2>2 DEF RunStop, TypeInv, TypeOK, RunThread, Worked
    <2> QED BY <1>5, <1>11, <2>1, <2>2 DEF RunStop
  <1>12. CASE RunStopCas
    <2>1. CASE run' = TryAgain(run, "fail") /\ run.tries < 2
      BY <1>12, <2>1 DEF RunStopCas, TryAgain, TypeInv, TypeOK, RunThread, Worked
    <2> QED BY <1>5, <1>12, <2>1 DEF RunStopCas
  <1>13. CASE Refresh
    <2>1. CASE Next1 BY <1>13, <2>1 DEF Refresh, Next1, Passed
    <2>2. ASSUME NEW t, run' = [run EXCEPT !.pc = "complete", !.held = row[run.job], !.ts = t]
          PROVE  Worked
      BY <1>13, <2>2 DEF Refresh, TypeInv, TypeOK, RunThread, Worked
    <2> QED BY <1>13, <2>1, <2>2 DEF Refresh
  <1>14. CASE Clean \/ CleanDelete
    <2>0. run.pc \in {"clean", "cleandel"} BY <1>14 DEF Clean, CleanDelete
    <2>1. CASE Next1 BY <1>14, <2>0, <2>1 DEF Next1, Passed
    <2>2. CASE Abort1 BY <2>2, AbortEnds
    <2>3. CASE Goto("cleandel")
      BY <1>14, <2>0, <2>3, GotoWorks DEF Goto
    <2> QED BY <1>14, <2>1, <2>2, <2>3 DEF Clean, CleanDelete
  <1>15. CASE RetryPause
    BY <1>15, AbortEnds DEF RetryPause
  <1>16. CASE Suppressed
    BY <1>16 DEF Suppressed, TypeInv, TypeOK, RunThread, Worked
  <1>17. CASE Complete \/ RetryInterrupt \/ RetrySchedule \/ Exhaust \/ QuietInterrupt
              \/ QuietSchedule
    BY <1>17, RunCasMoves DEF Complete, RetryInterrupt, RetrySchedule, Exhaust,
                              QuietInterrupt, QuietSchedule
  <1>18. CASE CompleteAudit \/ RetryAudit \/ RetryScheduleAudit \/ ExhaustAudit \/ QuietAudit
              \/ QuietScheduleAudit
    BY <1>18, RunAuditMoves DEF CompleteAudit, RetryAudit, RetryScheduleAudit, ExhaustAudit,
                                QuietAudit, QuietScheduleAudit
  <1>19. CASE RetryNext \/ RetryAttempt \/ QuietNext
    BY <1>19, ReviseMoves DEF RetryNext, RetryAttempt, QuietNext
  <1> QED BY <1>1, <1>2, <1>3, <1>4, <1>6, <1>7, <1>8, <1>9, <1>10, <1>11, <1>12, <1>13,
             <1>14, <1>15, <1>16, <1>17, <1>18, <1>19 DEF RunOnce

\* What recovery makes of it: it has none.
LEMMA RecoverBatch ==
  ASSUME TypeInv, Recover
  PROVE  BatchMoves
  <1>1. run'.pc \in {"rint", "rintaudit", "rintpause", "rsched", "rschedaudit",
                     "rschedpause", "off", "idle"}
    <2>1. run' = IdleRun \/ run' = [IdleRun EXCEPT !.pc = "off"] => run'.pc \in {"idle", "off"}
      BY DEF IdleRun
    <2>2. CASE RecoverList \/ RecoverListAgain \/ RecoverDone
      BY <2>1, <2>2 DEF RecoverList, RecoverListAgain, RecoverDone, IdleRun, TypeInv, TypeOK,
                        RunThread
    <2>3. CASE RecoverInterrupt \/ RecoverSchedule
      BY <2>1, <2>3 DEF RecoverInterrupt, RecoverSchedule, RecoverCas, TypeInv, TypeOK, RunThread
    <2>4. CASE RecoverInterruptAudit \/ RecoverScheduleAudit
      BY <2>4 DEF RecoverInterruptAudit, RecoverScheduleAudit, RecoverAudit, TypeInv, TypeOK,
                  RunThread
    <2>5. CASE RecoverInterruptPause \/ RecoverSchedulePause
      BY <2>5 DEF RecoverInterruptPause, RecoverSchedulePause, RecoverPause, TypeInv, TypeOK,
                  RunThread
    <2> QED BY <2>2, <2>3, <2>4, <2>5 DEF Recover
  <1> QED BY <1>1 DEF BatchMoves, Ended, WorkPcs, JoblessPcs, RecoveryPcs

\* What any step makes of the runner's batch.
LEMMA NextBatch ==
  ASSUME TypeInv, [Next]_vars
  PROVE  BatchMoves
  <1>1. CASE Tick \/ UNCHANGED vars BY <1>1 DEF Tick, vars, BatchMoves
  <1>2. CASE Restart
    BY <1>2 DEF Restart, IdleRun, BatchMoves, Ended, WorkPcs, JoblessPcs
  <1>3. CASE \E c \in Controls : Control(c)
    BY <1>3 DEF Control, Request, CancelReread, ControlCas, ControlAudit, Unresume, ControlStop,
                ControlStopCas, ControlRemove, CtlCas, BatchMoves
  <1>4. CASE \E j \in Jobs : Schedule(j) \/ Create(j)
    BY <1>4 DEF Schedule, Create, AddRow, CreateAudit, Unadd, CreateStop, CreateStopCas,
                CreateCheck, CreateDelete, CreateUnput, RemoveRow, BatchMoves
  <1> QED BY <1>1, <1>2, <1>3, <1>4, RunnerBatch, RecoverBatch DEF Next

\* A row is charged by at most one attempt, and only by the runner at its charge.
LEMMA AttemptMoves ==
  ASSUME TypeInv, RowMoves, NEW j \in Jobs
  PROVE  /\ row[j].att \in Nat
         /\ row'[j].att <= row[j].att \/ (Charged(j) /\ row'[j].att = row[j].att + 1)
  <1>1. row[j].att \in Nat BY DEF TypeInv, TypeOK, Rows
  <1>2. Removed(j) => row'[j].att = 0 BY DEF Removed, NoRow
  <1>3. Added(j) => row'[j].att = 0 BY DEF Added
  <1>4. Rewritten(j) => row'[j].att = row[j].att BY DEF Rewritten
  <1>5. Charged(j) => row'[j].att = row[j].att + 1 BY DEF Charged
  <1> QED BY <1>1, <1>2, <1>3, <1>4, <1>5 DEF RowMoves

\* The budget invariant is inductive.
LEMMA BudgetNext ==
  ASSUME TypeInv, BudgetInv, [Next]_vars
  PROVE  BudgetInv'
  <1>1. RowMoves /\ BatchMoves /\ TypeInv' BY NextMoves, NextBatch, NextType
  <1>2. ASSUME NEW j \in Jobs PROVE row'[j].att < MaxAttempts
    <2>1. row[j].att < MaxAttempts /\ row[j].att \in Nat
      BY <1>1, AttemptMoves DEF BudgetInv, AttemptsWithinBudget
    <2>2. CASE Charged(j)
      <3>1. run.pc \in ChargingPcs /\ run.pc \in UnchargedPcs /\ run.job = j
        BY <2>2 DEF Charged, ChargingPcs, UnchargedPcs, WorkPcs, RunPcs, JoblessPcs, RecoveryPcs
      <3>2. row[j].att <= run.seen[j].att /\ run.seen[j].att < MaxAttempts - 1
        BY <3>1 DEF BudgetInv, SnapshotsHold
      <3>3. run.seen[j].att \in Nat BY DEF TypeInv, TypeOK, RunThread, Rows
      <3>4. row'[j].att = row[j].att + 1 BY <2>2 DEF Charged
      <3> QED BY <2>1, <3>2, <3>3, <3>4, BoundsAssumption
    <2>3. CASE row'[j].att <= row[j].att
      <3>1. row'[j].att \in Nat BY <1>1 DEF TypeInv, TypeOK, Rows
      <3> QED BY <2>1, <2>3, <3>1, BoundsAssumption
    <2> QED BY <1>1, <2>2, <2>3, AttemptMoves
  <1>3. SnapshotsHold'
    <2>1. CASE Ended
      BY <2>1 DEF Ended, SnapshotsHold, UnchargedPcs, ChargingPcs, WorkPcs, RunPcs, JoblessPcs,
                  RecoveryPcs
    <2>2. ASSUME ~Ended, NEW j \in Jobs, Charged(j)
          PROVE  run.job = j /\ run.pc \in WorkPcs /\ run'.pc \notin UnchargedPcs \cup ChargingPcs
      BY <2>2 DEF Charged, UnchargedPcs, ChargingPcs, WorkPcs, RunPcs, JoblessPcs, RecoveryPcs
    <2>3. \A j \in Jobs : run.seen[j].att \in Nat /\ row[j].att \in Nat /\ row'[j].att \in Nat
      BY <1>1 DEF TypeInv, TypeOK, RunThread, Rows
    <2>4. ASSUME NEW j \in Jobs, ~Charged(j), row[j].att <= run.seen[j].att
          PROVE  row'[j].att <= run.seen[j].att
      <3>1. row'[j].att <= row[j].att BY <1>1, <2>4, AttemptMoves
      <3> QED BY <2>3, <2>4, <3>1
    <2>5. run.todo \subseteq Jobs /\ (run.pc \in WorkPcs => run.job \in Jobs)
      BY AtHand DEF TypeInv, TypeOK, RunThread, WorkPcs
    <2>6. CASE Worked
      <3>1. SnapshotsHold BY DEF BudgetInv
      <3>2. \A j \in run.todo : ~Charged(j) BY <2>6, <3>1 DEF Charged, SnapshotsHold, Worked
      <3>3. \A j \in run.todo : row'[j].att <= run.seen[j].att
        BY <2>4, <2>5, <2>6, <3>1, <3>2 DEF SnapshotsHold, Worked
      <3>4. run'.pc \in UnchargedPcs => row'[run.job].att <= run.seen[run.job].att
        <4> SUFFICES ASSUME run'.pc \in UnchargedPcs
                     PROVE  row'[run.job].att <= run.seen[run.job].att
          OBVIOUS
        <4>1. ~Charged(run.job)
          BY DEF Charged, UnchargedPcs
        <4> QED BY <2>4, <2>5, <2>6, <3>1, <4>1 DEF SnapshotsHold, Worked
      <3>5. run'.pc \in ChargingPcs => run.seen[run.job].att < MaxAttempts - 1
        BY <2>6, <3>1 DEF SnapshotsHold, Worked, HasBudget
      <3> QED BY <2>6, <3>1, <3>3, <3>4, <3>5 DEF SnapshotsHold, Worked
    <2>7. CASE Taken
      <3>1. SnapshotsHold BY DEF BudgetInv
      <3>2. \A j \in Jobs : ~Charged(j) BY <2>7 DEF Taken, Charged
      <3>3. \A j \in run.todo : row'[j].att <= run.seen[j].att
        BY <2>4, <2>5, <2>7, <3>1, <3>2 DEF SnapshotsHold, Taken
      <3>4. run'.pc \notin ChargingPcs BY <2>7 DEF Taken, ChargingPcs
      <3> QED BY <2>7, <3>3, <3>4 DEF SnapshotsHold, Taken
    <2>8. CASE Claimed
      <3>1. run'.pc \notin ChargingPcs \cup UnchargedPcs \cup WorkPcs
        BY <2>8 DEF Claimed, ChargingPcs, UnchargedPcs, WorkPcs, JoblessPcs
      <3>2. run'.todo \subseteq Jobs BY <1>1 DEF TypeInv, TypeOK, RunThread
      <3>3. \A j \in run'.todo : row'[j].att <= run'.seen[j].att
        BY <2>3, <2>8, <3>2 DEF Claimed
      <3> QED BY <3>1, <3>3 DEF SnapshotsHold
    <2>9. CASE Passed
      <3>1. SnapshotsHold BY DEF BudgetInv
      <3>2. run'.pc = "take" /\ run'.todo = run.todo
            /\ \A j \in Jobs \ {run.job} : run'.seen[j] = run.seen[j]
        BY <2>9 DEF Passed, NextRun, TypeInv, TypeOK, RunThread
      <3>3. run'.pc \notin ChargingPcs \cup UnchargedPcs \cup WorkPcs
        BY <3>2 DEF ChargingPcs, UnchargedPcs, WorkPcs, JoblessPcs
      <3>4. \A j \in run.todo : ~Charged(j) BY <3>2 DEF Charged
      <3>5. \A j \in run.todo : j # run.job /\ row'[j].att <= run.seen[j].att
        BY <2>4, <2>5, <2>9, <3>1, <3>4 DEF SnapshotsHold, Passed
      <3> QED BY <2>5, <3>2, <3>3, <3>5 DEF SnapshotsHold
    <2>10. CASE run' = run
      <3>1. SnapshotsHold BY DEF BudgetInv
      <3>2. \A j \in Jobs : ~Charged(j) BY <2>10 DEF Charged
      <3>3. run.pc \in UnchargedPcs => run.job \in Jobs BY <2>5 DEF UnchargedPcs
      <3> QED BY <2>4, <2>5, <2>10, <3>1, <3>2, <3>3 DEF SnapshotsHold
    <2> QED BY <1>1, <2>1, <2>6, <2>7, <2>8, <2>9, <2>10 DEF BatchMoves
  <1> QED BY <1>2, <1>3 DEF BudgetInv, AttemptsWithinBudget

\* The attempts charged to a job stay below max_attempts for every number of jobs, batches,
\* owners and crashes, although the runner reads the count when it claims and writes it
\* several transactions later.
THEOREM BudgetHolds == Spec => []AttemptsWithinBudget
  <1>1. Init => BudgetInv
    BY BoundsAssumption
       DEF Init, BudgetInv, AttemptsWithinBudget, SnapshotsHold, NoRow, IdleRun, WorkPcs,
           UnchargedPcs, ChargingPcs, JoblessPcs
  <1>2. TypeInv /\ BudgetInv /\ [Next]_vars => BudgetInv' BY BudgetNext
  <1>3. BudgetInv => AttemptsWithinBudget BY DEF BudgetInv
  <1> QED BY <1>1, <1>2, <1>3, TypeCorrect, PTL DEF Spec

-----------------------------------------------------------------------------
(* The refinement: what the threads do to the tables is, for the owner, a  *)
(* step of JobLifecycle or nothing.                                        *)

\* A row that is absent has nothing left of what it was.
Absent == \A j \in Jobs : row[j].state = "none" => row[j] = NoRow

\* Only what was shown is acknowledged.
AcknowledgedWasShown == \A j \in Jobs : row[j].fp \in sent[j] \cup {NoFp}

\* A snapshot of the batch has no more attempts than its row, which was added before.
SeenOf(j) ==
    /\ mk[j].pc \notin {"new", "put"}
    /\ Exists(j) => run.seen[j].att <= row[j].att

HeldInv ==
    /\ run.pc \in WorkPcs \cup {"take"} => \A j \in run.todo : SeenOf(j)
    /\ run.pc \in WorkPcs => mk[run.job].pc \notin {"new", "put"}
    /\ run.pc \in UnchargedPcs => SeenOf(run.job)

\* The delivery in hand: what is about to be sent is not acknowledged, what is about to
\* be acknowledged was sent, and what is about to be completed is acknowledged.
DeliveryPcs == {"send", "ack", "ackcas", "ackaudit", "ackrevert", "done", "complete"}

DeliveryOK ==
    /\ run.pc = "send" => row[run.job].fp # run.cand
    /\ run.pc \in {"ack", "ackcas"} => run.cand \in sent[run.job]
    /\ run.pc \in {"ackcas", "ackaudit", "ackrevert"} =>
          run.held.fp \in sent[run.job] \cup {NoFp}
    /\ run.pc \in {"ackaudit", "done", "complete"} /\ Exists(run.job) =>
          row[run.job].fp # NoFp

RefineInv == Fresh /\ BudgetInv /\ HeldInv /\ Absent /\ AcknowledgedWasShown /\ DeliveryOK

Refined == [Lifecycle!Next]_(Lifecycle!jobVars)

\* How a step may change what is acknowledged, but for the two that are about it.
FpKept ==
    \A j \in Jobs : \/ row'[j].fp = row[j].fp
                    \/ row'[j] = NoRow
                    \/ Added(j) /\ row'[j].fp = NoFp

Same(j) == /\ row'[j].state = row[j].state /\ row'[j].att = row[j].att
           /\ row'[j].fp = row[j].fp

\* A step that changes nothing the owner sees.
LEMMA SameRefines ==
  ASSUME \A j \in Jobs : Same(j), sent' = sent
  PROVE  Refined /\ FpKept
  <1>1. UNCHANGED Lifecycle!jobVars BY DEF Same, Lifecycle!jobVars
  <1> QED BY <1>1 DEF Same, FpKept, Refined

\* A step that moves the state of one job.
LEMMA MoveRefines ==
  ASSUME NEW j \in Jobs, NEW to, NEW from, row[j].state \in from,
         row'[j].state = to, row'[j].att = row[j].att, row'[j].fp = row[j].fp,
         \A k \in Jobs : k # j => Same(k), sent' = sent
  PROVE  Lifecycle!Move(j, from, to) /\ FpKept
  <1>1. \A k \in Jobs : /\ row'[k].state = IF k = j THEN to ELSE row[k].state
                        /\ row'[k].att = row[k].att /\ row'[k].fp = row[k].fp
    BY DEF Same
  <1>2. [k \in Jobs |-> row'[k].state] = [[k \in Jobs |-> row[k].state] EXCEPT ![j] = to]
    BY <1>1
  <1>3. /\ [k \in Jobs |-> row'[k].att] = [k \in Jobs |-> row[k].att]
        /\ [k \in Jobs |-> row'[k].fp] = [k \in Jobs |-> row[k].fp]
    BY <1>1
  <1>4. [k \in Jobs |-> row[k].state][j] = row[j].state OBVIOUS
  <1> QED BY <1>1, <1>2, <1>3, <1>4 DEF Lifecycle!Move, FpKept

\* A validated state write, to a state that needs nothing else.
LEMMA SetStateIs ==
  ASSUME row \in [Jobs -> Rows], NEW j \in Jobs, NEW to, NEW ts, SetState(j, to, ts)
  PROVE  /\ to \in Successors(row[j].state)
         /\ row'[j].state = to /\ row'[j].att = row[j].att /\ row'[j].fp = row[j].fp
         /\ \A k \in Jobs : k # j => Same(k)
  <1>1. CASE row[j].state = to BY <1>1 DEF SetState, CanTransition, Same
  <1>2. CASE row[j].state # to
    <2>1. row' = [row EXCEPT ![j] = [row[j] EXCEPT !.state = to, !.at = ts]]
      BY <1>2 DEF SetState
    <2>2. row'[j] = [row[j] EXCEPT !.state = to, !.at = ts] /\ row[j] \in Rows BY <2>1
    <2> QED BY <2>1, <2>2 DEF Rows, SetState, CanTransition, Same
  <1> QED BY <1>1, <1>2

\* To the owner it is a pause, a resume, a release, an interruption or a cancellation.
LEMMA SetStateRefines ==
  ASSUME row \in [Jobs -> Rows], NEW j \in Jobs, NEW to, NEW ts, Exists(j),
         SetState(j, to, ts), to \in {"scheduled", "paused", "interrupted", "cancelled"},
         sent' = sent
  PROVE  Refined /\ FpKept
  <1>1. /\ to \in Successors(row[j].state)
        /\ row'[j].state = to /\ row'[j].att = row[j].att /\ row'[j].fp = row[j].fp
        /\ \A k \in Jobs : k # j => Same(k)
    BY SetStateIs
  <1>2. CASE row[j].state = to
    <2>1. \A k \in Jobs : Same(k) BY <1>1, <1>2 DEF Same
    <2> QED BY <2>1, SameRefines
  <1>3. CASE row[j].state # to
    <2>1. row[j].state \in States BY DEF Exists, Rows
    <2>2. \/ to = "scheduled" /\ row[j].state \in {"paused", "interrupted"}
          \/ to = "paused" /\ row[j].state \in {"scheduled", "interrupted"}
          \/ to = "interrupted" /\ row[j].state = "running"
          \/ to = "cancelled"
             /\ row[j].state \in {"scheduled", "paused", "running", "interrupted"}
      BY <1>1, <1>3, <2>1 DEF Successors, States
    <2>3. FpKept BY <1>1, MoveRefines
    <2>4. \/ Lifecycle!Resume(j) \/ Lifecycle!Release(j) \/ Lifecycle!Pause(j)
          \/ Lifecycle!Interrupt(j) \/ Lifecycle!Cancel(j)
      BY <1>1, <2>2, MoveRefines DEF Lifecycle!Resume, Lifecycle!Release, Lifecycle!Pause,
                                     Lifecycle!Interrupt, Lifecycle!Cancel
    <2> QED BY <2>3, <2>4 DEF Refined, Lifecycle!Next
  <1> QED BY <1>2, <1>3

\* Most steps write a state like that, or no row at all.
Plain ==
    /\ \/ UNCHANGED row
       \/ \E j \in Jobs, to \in {"scheduled", "paused", "interrupted", "cancelled"} :
             \E ts : Exists(j) /\ SetState(j, to, ts)
    /\ sent' = sent

\* Plain steps are steps of the owner's view, or none.
LEMMA PlainRefines ==
  ASSUME row \in [Jobs -> Rows], Plain
  PROVE  Refined /\ FpKept
  <1>1. CASE UNCHANGED row
    <2>1. \A j \in Jobs : Same(j) BY <1>1 DEF Same
    <2> QED BY <2>1, SameRefines DEF Plain
  <1>2. ASSUME NEW j \in Jobs, NEW to \in {"scheduled", "paused", "interrupted", "cancelled"},
               NEW ts, Exists(j), SetState(j, to, ts)
        PROVE  Refined /\ FpKept
    BY <1>2, SetStateRefines DEF Plain
  <1> QED BY <1>1, <1>2 DEF Plain

\* The requests of the owner, the clock and a crash.
LEMMA ControlPlain ==
  ASSUME TypeInv, NEW c \in Controls, Control(c)
  PROVE  Plain
  <1>1. ctl[c].pc # "idle" => ctl[c].job \in Jobs BY CtlFacts
  <1>2. ctl[c].op \in {"pause", "resume", "cancel"} BY DEF TypeInv, TypeOK, CtlThread
  <1>3. Target(ctl[c].op) \in {"scheduled", "paused", "interrupted", "cancelled"}
    BY <1>2 DEF Target
  <1>4. CASE (\E op \in Ops, j \in Jobs : Request(c, op, j)) \/ CancelReread(c)
             \/ ControlAudit(c) \/ ControlStop(c) \/ ControlRemove(c)
    BY <1>4 DEF Request, CancelReread, ControlAudit, ControlStop, ControlRemove, Plain
  <1>5. CASE ControlCas(c) \/ Unresume(c)
    BY <1>1, <1>3, <1>5 DEF ControlCas, Unresume, CtlCas, Matches, At, Plain
  <1>6. CASE ControlStopCas(c)
    BY <1>1, <1>6 DEF ControlStopCas, Matches, At, Plain
  <1> QED BY <1>4, <1>5, <1>6 DEF Control

\* So are the writes of startup recovery.
LEMMA RecoverPlain ==
  ASSUME TypeInv, Recover
  PROVE  Plain
  <1>1. run.todo \subseteq Jobs /\ (run.pc \notin JoblessPcs => run.job \in Jobs)
    BY AtHand DEF TypeInv, TypeOK, RunThread
  <1>2. CASE RecoverList \/ RecoverInterruptAudit \/ RecoverListAgain
             \/ RecoverScheduleAudit \/ RecoverDone
    BY <1>2 DEF RecoverList, RecoverInterruptAudit, RecoverListAgain,
                RecoverScheduleAudit, RecoverDone, RecoverAudit, Plain
  <1>3. CASE RecoverInterrupt \/ RecoverSchedule
    BY <1>1, <1>3 DEF RecoverInterrupt, RecoverSchedule, RecoverCas, Matches, At, Plain
  <1>4. CASE RecoverInterruptPause \/ RecoverSchedulePause
    BY <1>1, <1>4 DEF RecoverInterruptPause, RecoverSchedulePause, RecoverPause, Matches, At,
                      JoblessPcs, Plain
  <1> QED BY <1>2, <1>3, <1>4 DEF Recover

\* A creation adds or removes one row.
LEMMA CreateRefines ==
  ASSUME TypeInv, Absent, Fresh, NEW j \in Jobs, Schedule(j) \/ Create(j)
  PROVE  Refined /\ FpKept
  <1>1. row \in [Jobs -> Rows] /\ mk \in [Jobs -> MkThread] BY MkFacts
  <1>2. sent' = sent
    BY DEF Schedule, Create, AddRow, CreateAudit, Unadd, CreateStop, CreateStopCas,
           CreateCheck, CreateDelete, CreateUnput, RemoveRow
  <1>3. CASE UNCHANGED row BY <1>1, <1>2, <1>3, PlainRefines DEF Plain
  <1>4. CASE AddRow(j)
    <2>1. CASE /\ row' = [row EXCEPT ![j] = [NoRow EXCEPT !.state = "scheduled", !.at = now,
                                                         !.next = mk[j].next,
                                                         !.off = mk[j].off]]
               /\ mk' = [mk EXCEPT ![j].pc = "added", ![j].ts = now]
      <3>1. row[j] = NoRow BY <1>4 DEF AddRow, Fresh, Absent
      <3>2. /\ row'[j].state = "scheduled" /\ row'[j].att = row[j].att
            /\ row'[j].fp = row[j].fp /\ row[j].state = "none"
        BY <1>1, <2>1, <3>1 DEF NoRow
      <3>3. \A k \in Jobs : k # j => Same(k) BY <1>1, <2>1 DEF Same
      <3>4. Lifecycle!Move(j, {"none"}, "scheduled") /\ FpKept BY <1>2, <3>2, <3>3, MoveRefines
      <3> QED BY <3>4 DEF Refined, Lifecycle!Next, Lifecycle!Accept
    <2> QED BY <1>3, <1>4, <2>1 DEF AddRow
  <1>5. CASE Unadd(j) \/ CreateDelete(j)
    <2>1. CASE row[j].state = "scheduled" /\ row' = [row EXCEPT ![j] = NoRow]
      <3>1. \A k \in Jobs : /\ row'[k].state = IF k = j THEN "none" ELSE row[k].state
                            /\ row'[k].att = IF k = j THEN 0 ELSE row[k].att
                            /\ row'[k].fp = IF k = j THEN NoFp ELSE row[k].fp
        BY <1>1, <2>1 DEF NoRow
      <3>2. /\ [k \in Jobs |-> row'[k].state] = [[k \in Jobs |-> row[k].state] EXCEPT ![j] = "none"]
            /\ [k \in Jobs |-> row'[k].att] = [[k \in Jobs |-> row[k].att] EXCEPT ![j] = 0]
            /\ [k \in Jobs |-> row'[k].fp] = [[k \in Jobs |-> row[k].fp] EXCEPT ![j] = NoFp]
            /\ [k \in Jobs |-> row[k].state][j] = "scheduled"
        BY <2>1, <3>1
      <3>3. Lifecycle!Withdraw(j) BY <1>2, <3>2 DEF Lifecycle!Withdraw
      <3>4. FpKept BY <1>1, <2>1 DEF FpKept
      <3> QED BY <3>3, <3>4 DEF Refined, Lifecycle!Next
    <2> QED BY <1>3, <1>5, <2>1 DEF Unadd, CreateDelete, RemoveRow, Matches
  <1>6. CASE CreateStopCas(j)
    <2>1. Plain BY <1>6 DEF CreateStopCas, Matches, At, Plain
    <2> QED BY <1>1, <2>1, PlainRefines
  <1>7. CASE Schedule(j) \/ CreateAudit(j) \/ CreateStop(j) \/ CreateCheck(j) \/ CreateUnput(j)
    <2>1. UNCHANGED row
      BY <1>7 DEF Schedule, CreateAudit, CreateStop, CreateCheck, CreateUnput
    <2> QED BY <1>3, <2>1
  <1> QED BY <1>4, <1>5, <1>6, <1>7 DEF Create

\* What the runner's own writes are to the owner.
LEMMA ClaimRefines ==
  ASSUME TypeInv, ClaimDue
  PROVE  Refined /\ FpKept
  <1>1. row \in [Jobs -> Rows] /\ sent' = sent BY DEF ClaimDue, TypeInv, TypeOK
  <1>2. CASE UNCHANGED row BY <1>1, <1>2, PlainRefines DEF Plain
  <1>3. ASSUME NEW D \in SUBSET Due,
               row' = [j \in Jobs |->
                          IF j \in D
                          THEN [row[j] EXCEPT !.state = "running", !.at = run.claimed]
                          ELSE row[j]]
        PROVE  Refined /\ FpKept
    <2>1. D \in SUBSET Jobs /\ \A j \in D : row[j].state = "scheduled" BY DEF Due
    <2>2. ASSUME NEW j \in Jobs
          PROVE  /\ row'[j].state = IF j \in D THEN "running" ELSE row[j].state
                 /\ row'[j].att = row[j].att /\ row'[j].fp = row[j].fp
      <3>1. row[j] \in Rows BY <1>1
      <3>2. row'[j] = IF j \in D THEN [row[j] EXCEPT !.state = "running", !.at = run.claimed]
                      ELSE row[j]
        BY <1>3
      <3> QED BY <3>1, <3>2 DEF Rows
    <2>3. /\ [j \in Jobs |-> row'[j].state]
               = [j \in Jobs |-> IF j \in D THEN "running" ELSE [k \in Jobs |-> row[k].state][j]]
          /\ [j \in Jobs |-> row'[j].att] = [j \in Jobs |-> row[j].att]
          /\ [j \in Jobs |-> row'[j].fp] = [j \in Jobs |-> row[j].fp]
          /\ \A j \in D : [k \in Jobs |-> row[k].state][j] = "scheduled"
      BY <2>1, <2>2
    <2>4. Lifecycle!Claim(D) BY <1>1, <2>3 DEF Lifecycle!Claim
    <2> QED BY <2>1, <2>2, <2>4 DEF Refined, Lifecycle!Next, FpKept
  <1> QED BY <1>2, <1>3 DEF ClaimDue

\* A step that settles the running job at hand.
LEMMA SettleIs ==
  ASSUME TypeInv, NEW pc, NEW to \in {"completed", "failed"}, NEW ts, NEW hit, NEW miss,
         pc \notin JoblessPcs, RunCas(pc, "running", to, ts, hit, miss)
  PROVE  \/ UNCHANGED row
         \/ \E j \in Jobs : /\ j = run.job /\ row[j].state = "running"
                            /\ Lifecycle!Move(j, {"running"}, to) /\ FpKept
  <1>1. run.job \in Jobs /\ row \in [Jobs -> Rows] BY AtHand DEF RunCas
  <1>2. sent' = sent BY DEF RunCas
  <1>3. PICK j \in Jobs : j = run.job BY <1>1
  <1>4. CASE row[j].state = "running" /\ SetState(j, to, ts)
    <2>1. row'[j].state = to /\ row'[j].att = row[j].att /\ row'[j].fp = row[j].fp
          /\ \A k \in Jobs : k # j => Same(k)
      BY <1>1, <1>4, SetStateIs
    <2>2. Lifecycle!Move(j, {"running"}, to) /\ FpKept BY <1>2, <1>4, <2>1, MoveRefines
    <2> QED BY <1>3, <1>4, <2>2
  <1> QED BY <1>1, <1>3, <1>4 DEF RunCas, Matches

\* A job completes only with an acknowledged result and fails only with its budget used up.
LEMMA SettleRefines ==
  ASSUME TypeInv, RefineInv, Complete \/ Exhaust
  PROVE  Refined /\ FpKept
  <1>1. row \in [Jobs -> Rows] BY DEF TypeInv, TypeOK
  <1>2. sent' = sent BY DEF Complete, Exhaust, RunCas
  <1>3. CASE UNCHANGED row BY <1>1, <1>2, <1>3, PlainRefines DEF Plain
  <1>4. CASE Complete /\ ~UNCHANGED row
    <2>1. PICK j \in Jobs : /\ j = run.job /\ row[j].state = "running"
                            /\ Lifecycle!Move(j, {"running"}, "completed") /\ FpKept
      BY <1>4, SettleIs DEF Complete, JoblessPcs
    <2>2. run.pc = "complete" BY <1>4 DEF Complete, RunCas
    <2>3. row[j].fp # NoFp BY <2>1, <2>2 DEF RefineInv, DeliveryOK, Exists
    <2>4. [k \in Jobs |-> row[k].fp][j] # NoFp BY <2>3
    <2>5. Lifecycle!Complete(j) BY <2>1, <2>4 DEF Lifecycle!Complete
    <2> QED BY <2>1, <2>5 DEF Refined, Lifecycle!Next
  <1>5. CASE Exhaust /\ ~UNCHANGED row
    <2>1. PICK j \in Jobs : /\ j = run.job /\ row[j].state = "running"
                            /\ Lifecycle!Move(j, {"running"}, "failed") /\ FpKept
      BY <1>5, SettleIs DEF Exhaust, JoblessPcs
    <2>2. run.pc = "fail" /\ ~HasBudget BY <1>5 DEF Exhaust, RunCas
    <2>3. run.pc \in UnchargedPcs
      BY <2>2 DEF UnchargedPcs, WorkPcs, RunPcs, JoblessPcs, RecoveryPcs
    <2>4. run.seen[j].att <= row[j].att
      BY <2>1, <2>3 DEF RefineInv, HeldInv, SeenOf, Exists
    <2>5. row[j].att < MaxAttempts BY DEF RefineInv, BudgetInv, AttemptsWithinBudget
    <2>6. run.seen[j].att \in Nat /\ row[j].att \in Nat
      BY DEF TypeInv, TypeOK, RunThread, Rows
    <2>7. row[j].att + 1 = MaxAttempts
      BY <2>1, <2>2, <2>4, <2>5, <2>6, BoundsAssumption DEF HasBudget
    <2>8. [k \in Jobs |-> row[k].att][j] + 1 = MaxAttempts BY <2>7
    <2>9. Lifecycle!GiveUp(j) BY <2>1, <2>8 DEF Lifecycle!GiveUp
    <2> QED BY <2>1, <2>9 DEF Refined, Lifecycle!Next
  <1> QED BY <1>3, <1>4, <1>5

\* Moving the run time is nothing to the owner; charging an attempt is.
LEMMA ReviseRefines ==
  ASSUME TypeInv, RefineInv, RetryNext \/ RetryAttempt \/ QuietNext
  PROVE  Refined /\ FpKept
  <1>1. run.job \in Jobs /\ row \in [Jobs -> Rows] /\ row[run.job] \in Rows
    BY AtHand DEF RetryNext, RetryAttempt, QuietNext, Revise, JoblessPcs
  <1>2. sent' = sent BY DEF RetryNext, RetryAttempt, QuietNext, Revise
  <1>3. CASE UNCHANGED row BY <1>1, <1>2, <1>3, PlainRefines DEF Plain
  <1>4. ASSUME NEW n, NEW o,
               row' = [row EXCEPT ![run.job] = [row[run.job] EXCEPT !.next = n, !.off = o,
                                                                    !.at = run.ts]]
        PROVE  Refined /\ FpKept
    <2>1. row'[run.job] = [row[run.job] EXCEPT !.next = n, !.off = o, !.at = run.ts]
      BY <1>1, <1>4
    <2>2. Same(run.job) BY <1>1, <2>1 DEF Same, Rows
    <2>3. \A j \in Jobs : Same(j) BY <1>1, <1>4, <2>2 DEF Same
    <2> QED BY <1>2, <2>3, SameRefines
  <1>5. CASE RetryAttempt /\ row' = [row EXCEPT ![run.job] =
                                        [row[run.job] EXCEPT !.att = @ + 1, !.at = run.ts]]
    <2>1. row'[run.job] = [row[run.job] EXCEPT !.att = @ + 1, !.at = run.ts] BY <1>1, <1>5
    <2>2. row'[run.job].state = row[run.job].state /\ row'[run.job].fp = row[run.job].fp
          /\ row'[run.job].att = row[run.job].att + 1
      BY <1>1, <2>1 DEF Rows
    <2>3. \A j \in Jobs : /\ row'[j].state = row[j].state /\ row'[j].fp = row[j].fp
                          /\ row'[j].att = IF j = run.job THEN row[j].att + 1 ELSE row[j].att
      BY <1>1, <1>5, <2>2
    <2>4. run.pc = "retryatt" BY <1>5 DEF RetryAttempt, Revise
    <2>5. run.pc \in UnchargedPcs /\ run.pc \in ChargingPcs
      BY <2>4 DEF ChargingPcs, UnchargedPcs, WorkPcs, RunPcs, JoblessPcs, RecoveryPcs
    <2>6. row[run.job].att <= run.seen[run.job].att /\ run.seen[run.job].att < MaxAttempts - 1
      BY <2>5 DEF RefineInv, BudgetInv, SnapshotsHold
    <2>7. run.seen[run.job].att \in Nat /\ row[run.job].att \in Nat
      BY <1>1 DEF TypeInv, TypeOK, RunThread, Rows
    <2>8. row[run.job].att + 1 < MaxAttempts BY <2>6, <2>7, BoundsAssumption
    <2>9. PICK j \in Jobs : j = run.job BY <1>1
    <2>10. /\ [k \in Jobs |-> row'[k].state] = [k \in Jobs |-> row[k].state]
           /\ [k \in Jobs |-> row'[k].fp] = [k \in Jobs |-> row[k].fp]
           /\ [k \in Jobs |-> row'[k].att] = [[k \in Jobs |-> row[k].att] EXCEPT ![j] = @ + 1]
           /\ [k \in Jobs |-> row[k].att][j] + 1 < MaxAttempts
      BY <2>3, <2>8, <2>9
    <2>11. Lifecycle!Charge(j) BY <1>2, <2>10 DEF Lifecycle!Charge
    <2> QED BY <2>3, <2>11 DEF Refined, Lifecycle!Next, FpKept
  <1>6. CASE RetryAttempt BY <1>3, <1>5, <1>6 DEF RetryAttempt, Revise
  <1>7. CASE RetryNext BY <1>3, <1>4, <1>7 DEF RetryNext, Revise
  <1>8. CASE QuietNext BY <1>3, <1>4, <1>8 DEF QuietNext, Revise
  <1> QED BY <1>6, <1>7, <1>8

\* The client is shown what it was not told yet.
LEMMA SendRefines ==
  ASSUME TypeInv, RefineInv, Send
  PROVE  Refined /\ FpKept
  <1>1. run.pc = "send" /\ UNCHANGED row BY DEF Send
  <1>2. run.job \in Jobs /\ run.cand \in Fps
    BY <1>1, AtHand DEF JoblessPcs, RunOK, ResultPcs
  <1>3. CASE UNCHANGED sent
    <2>1. \A j \in Jobs : Same(j) BY <1>1 DEF Same
    <2> QED BY <1>3, <2>1, SameRefines
  <1>4. CASE sent' = [sent EXCEPT ![run.job] = @ \cup {run.cand}]
    <2>1. [j \in Jobs |-> row[j].fp][run.job] # run.cand
      BY <1>1, <1>2 DEF RefineInv, DeliveryOK
    <2>2. Lifecycle!Show(run.job, run.cand) BY <1>1, <1>4, <2>1 DEF Lifecycle!Show
    <2> QED BY <1>1, <1>2, <2>2 DEF Refined, Lifecycle!Next, FpKept
  <1> QED BY <1>3, <1>4 DEF Send

\* What a fingerprint write makes of the rows.
LEMMA SetFpIs ==
  ASSUME TypeInv, run.job \in Jobs, NEW rev, NEW f, SetFp(rev, f)
  PROVE  /\ row'[run.job].state = row[run.job].state /\ row'[run.job].att = row[run.job].att
         /\ row'[run.job].fp = f
         /\ \A k \in Jobs : k # run.job => row'[k] = row[k]
  <1>1. row \in [Jobs -> Rows] /\ row[run.job] \in Rows BY DEF TypeInv, TypeOK
  <1>2. row' = [row EXCEPT ![run.job] = [row[run.job] EXCEPT !.fp = f, !.at = run.ts]]
    BY DEF SetFp
  <1>3. row'[run.job] = [row[run.job] EXCEPT !.fp = f, !.at = run.ts] BY <1>1, <1>2
  <1> QED BY <1>1, <1>2, <1>3 DEF Rows

\* What is acknowledged, or put back when that could not be audited, was shown.
LEMMA AckRefines ==
  ASSUME TypeInv, RefineInv, AckRecord \/ AckRevert
  PROVE  Refined
  <1>1. run.job \in Jobs /\ row \in [Jobs -> Rows] /\ run.held \in Rows
        /\ run.cand \in Fps \cup {NoFp}
    BY AtHand DEF AckRecord, AckRevert, JoblessPcs
  <1>2. sent' = sent BY DEF AckRecord, AckRevert
  <1>3. CASE UNCHANGED row BY <1>1, <1>2, <1>3, PlainRefines DEF Plain
  <1>4. ASSUME NEW rev, NEW f \in Fps \cup {NoFp}, SetFp(rev, f),
               f \in sent[run.job] \cup {NoFp}
        PROVE  Refined
    <2>1. \A j \in Jobs : /\ row'[j].state = row[j].state /\ row'[j].att = row[j].att
                          /\ row'[j].fp = IF j = run.job THEN f ELSE row[j].fp
      BY <1>1, <1>4, SetFpIs
    <2>2. /\ [j \in Jobs |-> row'[j].state] = [j \in Jobs |-> row[j].state]
          /\ [j \in Jobs |-> row'[j].att] = [j \in Jobs |-> row[j].att]
          /\ [j \in Jobs |-> row'[j].fp] = [[j \in Jobs |-> row[j].fp] EXCEPT ![run.job] = f]
      BY <1>1, <2>1
    <2>3. Lifecycle!Acknowledge(run.job, f) BY <1>2, <1>4, <2>2 DEF Lifecycle!Acknowledge
    <2> QED BY <1>1, <1>4, <2>3 DEF Refined, Lifecycle!Next
  <1>5. CASE AckRecord
    <2>1. run.cand \in sent[run.job] BY <1>5 DEF AckRecord, RefineInv, DeliveryOK
    <2> QED BY <1>1, <1>3, <1>4, <1>5, <2>1 DEF AckRecord
  <1>6. CASE AckRevert
    <2>1. run.held.fp \in sent[run.job] \cup {NoFp} /\ run.held.fp \in Fps \cup {NoFp}
      BY <1>1, <1>6 DEF AckRevert, RefineInv, DeliveryOK, Rows
    <2> QED BY <1>3, <1>4, <1>6, <2>1 DEF AckRevert
  <1> QED BY <1>5, <1>6

\* What any step of the runner loop is to the owner.
LEMMA RunnerRefines ==
  ASSUME TypeInv, RefineInv, RunOnce
  PROVE  Refined /\ (FpKept \/ AckRecord \/ AckRevert)
  <1>1. row \in [Jobs -> Rows] BY DEF TypeInv, TypeOK
  <1>2. CASE StartBatch \/ TakeNext \/ BatchDone \/ Raise \/ PurgeExpired \/ StartWork
             \/ Classify \/ AckLoad \/ AckAudit \/ RunStop \/ Refresh
             \/ CompleteAudit \/ Clean \/ CleanDelete \/ RetryAudit \/ RetryScheduleAudit \/ ExhaustAudit
             \/ Suppressed \/ QuietAudit \/ QuietScheduleAudit
    <2>1. Plain
      BY <1>2 DEF StartBatch, TakeNext, BatchDone, Raise, PurgeExpired, StartWork, Classify,
                  AckLoad, AckAudit, RunStop, Refresh, CompleteAudit, Clean, CleanDelete,
                     RetryAudit,
                  RetryScheduleAudit, ExhaustAudit, Suppressed, QuietAudit,
                  QuietScheduleAudit, RunAudit, Plain
    <2> QED BY <1>1, <2>1, PlainRefines
  <1>3. CASE RetryInterrupt \/ RetrySchedule \/ QuietInterrupt \/ QuietSchedule
    <2>1. ASSUME NEW pc, NEW from, NEW to \in {"scheduled", "interrupted"}, NEW ts, NEW hit,
                 NEW miss, RunCas(pc, from, to, ts, hit, miss), pc \notin JoblessPcs
          PROVE  Plain
      <3>1. run.job \in Jobs BY <2>1, AtHand DEF RunCas
      <3> QED BY <2>1, <3>1 DEF RunCas, Matches, At, Plain
    <2>2. Plain
      BY <1>3, <2>1 DEF RetryInterrupt, RetrySchedule, QuietInterrupt, QuietSchedule, JoblessPcs
    <2> QED BY <1>1, <2>2, PlainRefines
  <1>4. CASE Undo \/ Undo2
    <2>1. run.todo \subseteq Jobs BY DEF TypeInv, TypeOK, RunThread
    <2>2. Plain BY <1>4, <2>1 DEF Undo, Undo2, GiveBack, Matches, At, Plain
    <2> QED BY <1>1, <2>2, PlainRefines
  <1>5. CASE RunStopCas \/ RetryPause
    <2>1. run.job \in Jobs BY <1>5, AtHand DEF RunStopCas, RetryPause, JoblessPcs
    <2>2. Plain BY <1>5, <2>1 DEF RunStopCas, RetryPause, Matches, At, Plain
    <2> QED BY <1>1, <2>2, PlainRefines
  <1>6. CASE ClaimDue \/ Complete \/ Exhaust \/ RetryNext \/ RetryAttempt \/ QuietNext \/ Send
             \/ AckRecord \/ AckRevert
    BY <1>6, ClaimRefines, SettleRefines, ReviseRefines, SendRefines, AckRefines
  <1> QED BY <1>2, <1>3, <1>4, <1>5, <1>6 DEF RunOnce

\* What any step is to the owner.
LEMMA NextRefines ==
  ASSUME TypeInv, RefineInv, [Next]_vars
  PROVE  Refined /\ (FpKept \/ AckRecord \/ AckRevert)
  <1>1. row \in [Jobs -> Rows] BY DEF TypeInv, TypeOK
  <1>2. CASE UNCHANGED vars \/ Tick \/ Restart
    <2>1. Plain BY <1>2 DEF vars, Tick, Restart, Plain
    <2> QED BY <1>1, <2>1, PlainRefines
  <1>3. CASE RunOnce BY <1>3, RunnerRefines
  <1>4. CASE Recover BY <1>1, <1>4, RecoverPlain, PlainRefines
  <1>5. CASE \E c \in Controls : Control(c) BY <1>1, <1>5, ControlPlain, PlainRefines
  <1>6. CASE \E j \in Jobs : Schedule(j) \/ Create(j)
    BY <1>6, CreateRefines DEF RefineInv
  <1> QED BY <1>2, <1>3, <1>4, <1>5, <1>6 DEF Next

\* What was shown is not taken back.
LEMMA SentGrows ==
  ASSUME TypeInv, Refined, NEW j \in Jobs
  PROVE  sent[j] \subseteq sent'[j]
  <1>1. sent \in [Jobs -> SUBSET Fps] BY DEF TypeInv, TypeOK
  <1>2. CASE UNCHANGED sent BY <1>2
  <1>3. ASSUME NEW i \in Jobs, NEW f \in Fps, Lifecycle!Show(i, f)
        PROVE  sent[j] \subseteq sent'[j]
    BY <1>1, <1>3 DEF Lifecycle!Show
  <1>4. UNCHANGED sent \/ \E i \in Jobs, f \in Fps : Lifecycle!Show(i, f)
    BY DEF Refined, Lifecycle!Next, Lifecycle!jobVars, Lifecycle!Claim, Lifecycle!Accept,
           Lifecycle!Withdraw, Lifecycle!Interrupt, Lifecycle!Release, Lifecycle!Charge,
           Lifecycle!GiveUp, Lifecycle!Complete, Lifecycle!Pause, Lifecycle!Resume,
           Lifecycle!Cancel, Lifecycle!Acknowledge, Lifecycle!Move
  <1> QED BY <1>2, <1>3, <1>4

\* Rows that go leave nothing.
LEMMA AbsentNext ==
  ASSUME TypeInv, Absent, RowMoves
  PROVE  Absent'
  <1> SUFFICES ASSUME NEW j \in Jobs, row'[j].state = "none" PROVE row'[j] = NoRow
    BY DEF Absent
  <1>1. row[j].state \in States \cup {"none"} BY DEF TypeInv, TypeOK, Rows
  <1>2. ~Rewritten(j) BY <1>1 DEF Rewritten, Exists, Successors, States
  <1>3. ~Charged(j) /\ ~Added(j) BY DEF Charged, Added, Exists
  <1> QED BY <1>2, <1>3 DEF RowMoves, Removed, Absent

\* A snapshot of a row stays one while the batch keeps it.
LEMMA SeenStays ==
  ASSUME TypeInv, [Next]_vars, NEW j \in Jobs, SeenOf(j), run'.seen[j] = run.seen[j]
  PROVE  SeenOf(j)'
  <1>1. mk'[j].pc \notin {"new", "put"} BY CreationGoesOn DEF SeenOf
  <1>2. RowMoves BY NextMoves
  <1>3. row[j].att \in Nat /\ run.seen[j].att \in Nat BY DEF TypeInv, TypeOK, RunThread, Rows
  <1>4. ASSUME row'[j].state # "none" PROVE run'.seen[j].att <= row'[j].att
    <2>1. ~Added(j) BY DEF Added, SeenOf
    <2>2. ~Removed(j) BY <1>4 DEF Removed, NoRow
    <2>3. Exists(j) /\ (row'[j].att = row[j].att \/ row'[j].att = row[j].att + 1)
      BY <1>2, <1>4, <2>1, <2>2 DEF RowMoves, Rewritten, Charged, Exists
    <2> QED BY <1>3, <2>3 DEF SeenOf
  <1> QED BY <1>1, <1>4 DEF SeenOf, Exists

\* The batch keeps snapshots of rows that were added before it was claimed.
LEMMA HeldNext ==
  ASSUME TypeInv, Fresh, BudgetInv, HeldInv, [Next]_vars
  PROVE  HeldInv'
  <1>1. BatchMoves /\ TypeInv' /\ Fresh' BY NextBatch, NextType, FreshNext
  <1>2. run.todo \subseteq Jobs /\ run'.todo \subseteq Jobs
        /\ (run.pc \in WorkPcs => run.job \in Jobs)
    BY <1>1, AtHand DEF TypeInv, TypeOK, RunThread, WorkPcs
  <1>3. UnchargedPcs \subseteq WorkPcs BY DEF UnchargedPcs
  <1>4. CASE Ended BY <1>3, <1>4 DEF Ended, HeldInv
  <1>5. CASE Worked \/ (run' = run /\ run.pc \in WorkPcs)
    <2>1. /\ run.pc \in WorkPcs /\ run'.job = run.job /\ run'.todo = run.todo
          /\ run'.seen = run.seen /\ (run'.pc \in UnchargedPcs => run.pc \in UnchargedPcs)
      BY <1>5 DEF Worked
    <2>2. PICK j \in Jobs : j = run.job BY <1>2, <2>1
    <2>3. \A k \in run.todo : SeenOf(k)' BY <1>2, <2>1, SeenStays DEF HeldInv
    <2>4. mk'[j].pc \notin {"new", "put"} BY <2>1, <2>2, CreationGoesOn DEF HeldInv
    <2>5. run'.pc \in UnchargedPcs => SeenOf(j)'
      <3>1. run.pc \in UnchargedPcs => SeenOf(j) BY <2>2 DEF HeldInv, SeenOf, Exists
      <3> QED BY <2>1, <3>1, SeenStays
    <2>6. run'.job = j BY <2>1, <2>2
    <2>7. \A k \in run'.todo : SeenOf(k)' BY <2>1, <2>3
    <2>8. mk'[run'.job].pc \notin {"new", "put"} BY <2>4, <2>6
    <2>9. run'.pc \in UnchargedPcs => SeenOf(run.job)' BY <2>5, <2>6 DEF SeenOf, Exists
    <2> QED BY <2>7, <2>8, <2>9 DEF HeldInv
  <1>6. CASE Taken
    <2>1. /\ run.pc = "take" /\ run'.job \in run.todo /\ run'.todo \subseteq run.todo
          /\ run'.seen = run.seen
      BY <1>6 DEF Taken
    <2>2. \A k \in run.todo : SeenOf(k)' BY <1>2, <2>1, SeenStays DEF HeldInv
    <2>3. \A k \in run'.todo : SeenOf(k)' BY <2>1, <2>2
    <2>4. SeenOf(run.job)'
      <3>1. PICK j \in run.todo : j = run'.job BY <2>1
      <3> QED BY <2>2, <3>1 DEF SeenOf, Exists
    <2>5. mk'[run'.job].pc \notin {"new", "put"} BY <2>4 DEF SeenOf
    <2> QED BY <2>3, <2>4, <2>5 DEF HeldInv
  <1>7. CASE Claimed
    <2>1. run'.pc = "take" /\ run'.pc \notin WorkPcs
      BY <1>7 DEF Claimed, WorkPcs, JoblessPcs
    <2>2. ASSUME NEW j \in run'.todo PROVE SeenOf(j)'
      <3>1. j \in Jobs /\ run'.seen[j] = row'[j] /\ row'[j].state = "running"
        BY <1>2, <1>7 DEF Claimed
      <3>2. mk'[j].pc \notin {"new", "put"} BY <1>1, <3>1 DEF Fresh
      <3>3. row'[j].att \in Nat BY <1>1, <3>1 DEF TypeInv, TypeOK, Rows
      <3> QED BY <3>1, <3>2, <3>3 DEF SeenOf
    <2> QED BY <1>3, <2>1, <2>2 DEF HeldInv
  <1>8. CASE Passed
    <2>1. run.pc \in WorkPcs /\ run'.pc = "take" /\ run'.todo = run.todo
          /\ \A j \in Jobs \ {run.job} : run'.seen[j] = run.seen[j]
      BY <1>8 DEF Passed, NextRun, TypeInv, TypeOK, RunThread
    <2>2. run.job \notin run.todo BY <2>1 DEF BudgetInv, SnapshotsHold
    <2>3. \A k \in run.todo : SeenOf(k)' BY <1>2, <2>1, <2>2, SeenStays DEF HeldInv
    <2>4. run'.pc \notin WorkPcs BY <2>1 DEF WorkPcs, JoblessPcs
    <2> QED BY <1>3, <2>1, <2>3, <2>4 DEF HeldInv
  <1>9. CASE run' = run /\ run.pc \notin WorkPcs
    <2>1. CASE run.pc = "take"
      <3>1. \A k \in run.todo : SeenOf(k)' BY <1>2, <1>9, <2>1, SeenStays DEF HeldInv
      <3> QED BY <1>3, <1>9, <3>1 DEF HeldInv
    <2>2. CASE run.pc # "take" BY <1>3, <1>9, <2>2 DEF HeldInv
    <2> QED BY <2>1, <2>2
  <1> QED BY <1>1, <1>4, <1>5, <1>6, <1>7, <1>8, <1>9 DEF BatchMoves

\* The two steps about the acknowledgement.
LEMMA AckWrites ==
  ASSUME TypeInv, DeliveryOK, AckRecord \/ AckRevert
  PROVE  FpKept \/ \E f \in sent[run.job] \cup {NoFp} :
                      /\ row'[run.job].fp = f
                      /\ \A k \in Jobs : k # run.job => row'[k] = row[k]
  <1>1. run.job \in Jobs BY AtHand DEF AckRecord, AckRevert, JoblessPcs
  <1>2. CASE UNCHANGED row BY <1>2 DEF FpKept
  <1>3. CASE AckRecord /\ SetFp(run.held.at, run.cand)
    <2>1. run.cand \in sent[run.job] BY <1>3 DEF AckRecord, DeliveryOK
    <2> QED BY <1>1, <1>3, <2>1, SetFpIs
  <1>4. CASE AckRevert /\ SetFp(run.ts, run.held.fp)
    <2>1. run.held.fp \in sent[run.job] \cup {NoFp} BY <1>4 DEF AckRevert, DeliveryOK
    <2> QED BY <1>1, <1>4, <2>1, SetFpIs
  <1> QED BY <1>2, <1>3, <1>4 DEF AckRecord, AckRevert

\* No step acknowledges what was not shown.
LEMMA AcknowledgedNext ==
  ASSUME TypeInv, RefineInv, [Next]_vars
  PROVE  AcknowledgedWasShown'
  <1> SUFFICES ASSUME NEW j \in Jobs PROVE row'[j].fp \in sent'[j] \cup {NoFp}
    BY DEF AcknowledgedWasShown
  <1>1. Refined /\ (FpKept \/ AckRecord \/ AckRevert) BY NextRefines
  <1>2. sent[j] \subseteq sent'[j] BY <1>1, SentGrows
  <1>3. row[j].fp \in sent[j] \cup {NoFp} BY DEF RefineInv, AcknowledgedWasShown
  <1>4. CASE FpKept BY <1>2, <1>3, <1>4 DEF FpKept, NoRow
  <1>5. CASE AckRecord \/ AckRevert BY <1>2, <1>3, <1>4, <1>5, AckWrites DEF RefineInv
  <1> QED BY <1>1, <1>4, <1>5

-----------------------------------------------------------------------------
(* The delivery in hand.                                                   *)

\* Where the runner is after the steps it shares.
LEMMA PcAfter ==
  ASSUME TypeInv
  PROVE  /\ \A pc : Goto(pc) => run'.pc = pc
         /\ ToFail => run'.pc = "fail"
         /\ Next1 => run'.pc = "take"
         /\ Abort1 => run'.pc = "undo"
  BY DEF Goto, ToFail, Next1, Abort1, NextRun, TypeInv, TypeOK, RunThread

\* Where the runner has recorded the end of the job at hand.
EndPcs == {"completeaudit", "exhaustaudit", "clean", "cleandel"}

\* A delivery is entered and goes on only by its own steps, and so is the end of a job.
LEMMA RunnerGoes ==
  ASSUME TypeInv, RunOnce, run.pc \in WorkPcs
  PROVE  /\ run'.pc \in DeliveryPcs =>
               Classify \/ Send \/ AckLoad \/ AckRecord \/ AckAudit \/ Refresh
         /\ run'.pc \in EndPcs =>
               Complete \/ CompleteAudit \/ Exhaust \/ ExhaustAudit \/ Clean
  <1>1. run \in RunThread BY DEF TypeInv, TypeOK
  <1>2. ASSUME NEW pc, NEW from, NEW to, NEW ts, NEW hit, RunCas(pc, from, to, ts, hit, "take")
        PROVE  run'.pc \in {hit, "take", "undo"}
    BY <1>1, <1>2, PcAfter DEF RunCas, RunThread
  <1>3. ASSUME NEW pc, NEW ok, NEW fail, RunAudit(pc, ok, fail)
        PROVE  run'.pc \in {ok, fail, "take", "undo"}
    BY <1>3, PcAfter DEF RunAudit
  <1>4. ASSUME NEW pc, NEW fields, NEW hit, Revise(pc, fields, hit)
        PROVE  run'.pc \in {hit, "take", "undo"}
    BY <1>1, <1>4, PcAfter DEF Revise, RunThread
  <1> USE DEF DeliveryPcs, EndPcs
  <1>5. CASE StartBatch \/ ClaimDue \/ TakeNext \/ BatchDone \/ Undo \/ Undo2 \/ Raise
             \/ PurgeExpired
    BY <1>5 DEF StartBatch, ClaimDue, TakeNext, BatchDone, Undo, Undo2, GiveBack, Raise,
                PurgeExpired, WorkPcs, JoblessPcs
  <1>6. CASE StartWork
    <2>1. ASSUME NEW f, run' = [run EXCEPT !.pc = "classify", !.cand = f] PROVE run'.pc = "classify"
      BY <1>1, <2>1 DEF RunThread
    <2> QED BY <1>6, <2>1, PcAfter DEF StartWork
  <1>7. CASE AckRevert BY <1>7, PcAfter DEF AckRevert
  <1>8. CASE RunStop
    <2>1. run' = LookAgain(run, run.job, {"paused", "interrupted"}, "fail") \/ ToFail
      BY <1>8 DEF RunStop
    <2>2. LookAgain(run, run.job, {"paused", "interrupted"}, "fail").pc \in {"fail", "stopcas"}
      BY <1>1 DEF LookAgain, RunThread
    <2> QED BY <2>1, <2>2, PcAfter
  <1>9. CASE RunStopCas
    <2>1. TryAgain(run, "fail").pc \in {"stop", "fail"} BY <1>1 DEF TryAgain, RunThread
    <2> QED BY <1>9, <2>1, PcAfter DEF RunStopCas
  <1>10. CASE Complete \/ RetryInterrupt \/ RetrySchedule \/ Exhaust \/ QuietInterrupt
              \/ QuietSchedule
    BY <1>2, <1>10 DEF Complete, RetryInterrupt, RetrySchedule, Exhaust, QuietInterrupt,
                       QuietSchedule
  <1>11. CASE CompleteAudit \/ RetryAudit \/ RetryScheduleAudit \/ ExhaustAudit \/ QuietAudit
              \/ QuietScheduleAudit
    <2>1. ASSUME NEW pc, NEW ok, NEW fail, RunAudit(pc, ok, fail), fail = "abort"
          PROVE  run'.pc \in {ok, "take", "undo"}
      BY <2>1, PcAfter DEF RunAudit
    <2>2. CASE CompleteAudit \/ RetryAudit \/ ExhaustAudit \/ QuietAudit \/ QuietScheduleAudit
      BY <2>1, <2>2 DEF CompleteAudit, RetryAudit, ExhaustAudit, QuietAudit,
                        QuietScheduleAudit
    <2>3. CASE RetryScheduleAudit BY <1>3, <2>3 DEF RetryScheduleAudit
    <2> QED BY <1>11, <2>2, <2>3
  <1>12. CASE RetryNext \/ RetryAttempt \/ QuietNext
    BY <1>4, <1>12 DEF RetryNext, RetryAttempt, QuietNext
  <1>13. CASE Clean \/ CleanDelete \/ RetryPause
    BY <1>13, PcAfter DEF Clean, CleanDelete, RetryPause
  <1>14. CASE Suppressed BY <1>1, <1>14 DEF Suppressed, RunThread
  <1>15. CASE Classify \/ Send \/ AckRecord \/ AckAudit
    BY <1>15, PcAfter DEF Classify, Send, AckRecord, AckAudit, RunAudit
  <1>16. CASE AckLoad \/ Refresh
    <2>1. ASSUME NEW pc \in {"ackcas", "complete"}, NEW h, NEW t,
                 run' = [run EXCEPT !.pc = pc, !.held = h, !.ts = t]
          PROVE  run'.pc = pc
      BY <1>1, <2>1 DEF RunThread
    <2> QED BY <1>16, <2>1, PcAfter DEF AckLoad, Refresh
  <1> QED BY <1>5, <1>6, <1>7, <1>8, <1>9, <1>10, <1>11, <1>12, <1>13, <1>14, <1>15, <1>16
       DEF RunOnce

\* The delivery in hand survives what the others do meanwhile.
LEMMA DeliveryWaits ==
  ASSUME TypeInv, RefineInv, [Next]_vars, run' = run, FpKept
  PROVE  DeliveryOK'
  <1>1. CASE run.pc \notin DeliveryPcs BY <1>1 DEF DeliveryOK, DeliveryPcs
  <1>2. CASE run.pc \in DeliveryPcs
    <2>1. run.pc \in WorkPcs /\ run.pc \notin JoblessPcs
      BY <1>2 DEF DeliveryPcs, WorkPcs, RunPcs, JoblessPcs, RecoveryPcs
    <2>2. PICK j \in Jobs : j = run.job BY <2>1, AtHand
    <2>3. ~Added(j) BY <2>1, <2>2 DEF RefineInv, HeldInv, Added
    <2>4. row'[j].fp = row[j].fp \/ row'[j] = NoRow BY <2>3 DEF FpKept
    <2>5. row'[j].state # "none" => Exists(j) /\ row'[j] # NoRow
      BY <2>3, NextMoves DEF RowMoves, Rewritten, Charged, Removed, Exists, NoRow
    <2>6. sent[j] \subseteq sent'[j] BY NextRefines, SentGrows
    <2>7. run.pc = "send" => row'[j].fp # run.cand
      <3>1. run.pc = "send" => run.cand \in Fps BY <2>1, AtHand DEF RunOK, ResultPcs
      <3> QED BY <2>2, <2>4, <3>1, NamesAssumption DEF RefineInv, DeliveryOK, NoRow
    <2>8. run.pc \in {"ack", "ackcas"} => run.cand \in sent'[j]
      BY <2>2, <2>6 DEF RefineInv, DeliveryOK
    <2>9. run.pc \in {"ackcas", "ackaudit", "ackrevert"} => run.held.fp \in sent'[j] \cup {NoFp}
      BY <2>2, <2>6 DEF RefineInv, DeliveryOK
    <2>10. run.pc \in {"ackaudit", "done", "complete"} /\ row'[j].state # "none"
             => row'[j].fp # NoFp
      BY <2>2, <2>4, <2>5 DEF RefineInv, DeliveryOK, Exists
    <2> QED BY <2>2, <2>7, <2>8, <2>9, <2>10 DEF DeliveryOK, Exists
  <1> QED BY <1>1, <1>2

\* And its own steps keep it.
LEMMA DeliveryGoesOn ==
  ASSUME TypeInv, RefineInv, Classify \/ Send \/ AckLoad \/ AckRecord \/ AckAudit \/ Refresh
  PROVE  DeliveryOK'
  <1>1. run \in RunThread /\ run.job \in Jobs /\ RunOK(run) /\ row \in [Jobs -> Rows]
        /\ sent \in [Jobs -> SUBSET Fps]
    BY AtHand DEF Classify, Send, AckLoad, AckRecord, AckAudit, RunAudit, Refresh, JoblessPcs,
                  TypeInv, TypeOK
  <1>2. run.pc \in {"classify", "send", "ack", "ackcas"} => run.cand \in Fps
    BY <1>1 DEF RunOK, ResultPcs
  <1>3. ASSUME run'.pc \notin DeliveryPcs PROVE DeliveryOK'
    BY <1>3 DEF DeliveryOK, DeliveryPcs
  <1>4. ToFail \/ Next1 \/ Abort1 \/ Goto("stop") \/ Goto("suppressed") => run'.pc \notin DeliveryPcs
    BY PcAfter DEF DeliveryPcs
  <1>5. ASSUME NEW pc, Goto(pc)
        PROVE  run'.pc = pc /\ run'.job = run.job /\ run'.cand = run.cand /\ run'.held = run.held
    BY <1>1, <1>5 DEF Goto, RunThread
  <1>6. CASE Classify
    <2>1. run.pc = "classify" /\ row' = row /\ sent' = sent BY <1>6 DEF Classify
    <2>2. CASE Delivery = "meaningful" /\ Goto("send")
      <3>1. row[run.job].fp # run.cand BY <2>2 DEF Delivery
      <3> QED BY <1>5, <2>1, <2>2, <3>1 DEF DeliveryOK
    <2>3. CASE Delivery = "unchanged" /\ Goto("done")
      <3>1. row[run.job].fp = run.cand BY <2>3 DEF Delivery
      <3>2. row[run.job].fp # NoFp BY <1>2, <2>1, <3>1, NamesAssumption
      <3> QED BY <1>5, <2>1, <2>3, <3>2 DEF DeliveryOK
    <2> QED BY <1>3, <1>4, <1>6, <2>2, <2>3 DEF Classify
  <1>7. CASE Send
    <2>1. run.pc = "send" /\ row' = row BY <1>7 DEF Send
    <2>2. CASE sent' = [sent EXCEPT ![run.job] = @ \cup {run.cand}] /\ Goto("ack")
      <3>1. run.cand \in sent'[run.job] BY <1>1, <2>2
      <3> QED BY <1>5, <2>2, <3>1 DEF DeliveryOK
    <2> QED BY <1>3, <1>4, <1>7, <2>2 DEF Send
  <1>8. CASE AckLoad
    <2>1. run.pc = "ack" /\ row' = row /\ sent' = sent BY <1>8 DEF AckLoad
    <2>2. CASE run' = [run EXCEPT !.pc = "ackcas", !.held = row[run.job], !.ts = now]
      <3>1. run'.pc = "ackcas" /\ run'.job = run.job /\ run'.cand = run.cand
            /\ run'.held = row[run.job]
        BY <1>1, <2>2 DEF RunThread
      <3>2. run.cand \in sent[run.job] BY <2>1 DEF RefineInv, DeliveryOK
      <3>3. row[run.job].fp \in sent[run.job] \cup {NoFp}
        BY <1>1 DEF RefineInv, AcknowledgedWasShown
      <3> QED BY <2>1, <3>1, <3>2, <3>3 DEF DeliveryOK
    <2> QED BY <1>3, <1>4, <1>8, <2>2 DEF AckLoad
  <1>9. CASE AckRecord
    <2>1. run.pc = "ackcas" /\ sent' = sent BY <1>9 DEF AckRecord
    <2>2. CASE SetFp(run.held.at, run.cand) /\ Goto("ackaudit")
      <3>1. row'[run.job].fp = run.cand BY <1>1, <2>2, SetFpIs
      <3>2. run.cand # NoFp BY <1>2, <2>1, NamesAssumption
      <3>3. run.held.fp \in sent[run.job] \cup {NoFp} BY <2>1 DEF RefineInv, DeliveryOK
      <3> QED BY <1>5, <2>1, <2>2, <3>1, <3>2, <3>3 DEF DeliveryOK
    <2> QED BY <1>3, <1>4, <1>9, <2>2 DEF AckRecord
  <1>10. CASE AckAudit
    <2>1. run.pc = "ackaudit" /\ row' = row /\ sent' = sent BY <1>10 DEF AckAudit, RunAudit
    <2>2. Goto("done") \/ Goto("ackrevert") BY <1>10 DEF AckAudit, RunAudit
    <2>3. run.held.fp \in sent[run.job] \cup {NoFp} BY <2>1 DEF RefineInv, DeliveryOK
    <2>4. row[run.job].state # "none" => row[run.job].fp # NoFp
      BY <2>1 DEF RefineInv, DeliveryOK, Exists
    <2> QED BY <1>5, <2>1, <2>2, <2>3, <2>4 DEF DeliveryOK, Exists
  <1>11. CASE Refresh
    <2>1. run.pc = "done" /\ row' = row BY <1>11 DEF Refresh
    <2>2. row[run.job].state # "none" => row[run.job].fp # NoFp
      BY <2>1 DEF RefineInv, DeliveryOK, Exists
    <2>3. ASSUME NEW t, run' = [run EXCEPT !.pc = "complete", !.held = row[run.job], !.ts = t]
          PROVE  DeliveryOK'
      <3>1. run'.pc = "complete" /\ run'.job = run.job BY <1>1, <2>3 DEF RunThread
      <3> QED BY <2>1, <2>2, <3>1 DEF DeliveryOK, Exists
    <2> QED BY <1>3, <1>4, <1>11, <2>3 DEF Refresh
  <1> QED BY <1>6, <1>7, <1>8, <1>9, <1>10, <1>11

\* Nobody but the runner loop takes the runner from work to work.
LEMMA OnlyRunnerWorks ==
  ASSUME [Next]_vars, ~RunOnce, run' # run, run.pc \in WorkPcs \cup {"take"},
         run'.pc \in WorkPcs \cup {"take"}
  PROVE  FALSE
  <1>1. ~Recover
    BY DEF Recover, RecoverList, RecoverInterrupt, RecoverInterruptAudit,
           RecoverInterruptPause, RecoverListAgain, RecoverSchedule, RecoverScheduleAudit,
           RecoverSchedulePause, RecoverDone, RecoverCas, RecoverAudit, RecoverPause,
           WorkPcs, JoblessPcs, RecoveryPcs
  <1>2. ~Restart BY DEF Restart, IdleRun, WorkPcs, JoblessPcs
  <1>3. ~(UNCHANGED vars \/ Tick) BY DEF vars, Tick
  <1>4. ~(\E c \in Controls : Control(c))
    BY DEF Control, Request, CancelReread, ControlCas, ControlAudit, Unresume,
           ControlStop, ControlStopCas, ControlRemove, CtlCas
  <1>5. ~(\E i \in Jobs : Schedule(i) \/ Create(i))
    BY DEF Schedule, Create, AddRow, CreateAudit, Unadd, CreateStop, CreateStopCas,
           CreateCheck, CreateDelete, CreateUnput, RemoveRow
  <1> QED BY <1>1, <1>2, <1>3, <1>4, <1>5 DEF Next

\* The delivery in hand stays consistent with what was sent and acknowledged.
LEMMA DeliveryNext ==
  ASSUME TypeInv, RefineInv, [Next]_vars
  PROVE  DeliveryOK'
  <1>1. Refined /\ (FpKept \/ AckRecord \/ AckRevert) BY NextRefines
  <1>2. CASE run'.pc \notin DeliveryPcs BY <1>2 DEF DeliveryOK, DeliveryPcs
  <1>3. CASE run' = run /\ ~(AckRecord \/ AckRevert) BY <1>1, <1>3, DeliveryWaits
  <1>4. CASE run'.pc \in DeliveryPcs /\ (run' # run \/ AckRecord \/ AckRevert)
    <2>1. BatchMoves BY NextBatch
    <2>2. run'.pc \in WorkPcs /\ run'.pc \notin {"take", "work"}
      BY <1>4 DEF DeliveryPcs, WorkPcs, RunPcs, JoblessPcs, RecoveryPcs
    <2>3. CASE RunOnce
      <3>1. run.pc \in WorkPcs
        <4>1. CASE AckRecord \/ AckRevert
          BY <4>1 DEF AckRecord, AckRevert, WorkPcs, RunPcs, JoblessPcs, RecoveryPcs
        <4>2. CASE run' # run
          BY <2>1, <2>2, <4>2 DEF BatchMoves, Ended, Passed, Worked, Taken, Claimed
        <4> QED BY <1>4, <4>1, <4>2
      <3> QED BY <1>4, <2>3, <3>1, RunnerGoes, DeliveryGoesOn
    <2>4. CASE ~RunOnce
      <3>1. run' # run BY <1>4, <2>4 DEF RunOnce
      <3>2. run.pc \in WorkPcs
        BY <2>1, <2>2, <3>1 DEF BatchMoves, Ended, Passed, Worked, Taken, Claimed
      <3> QED BY <2>2, <2>4, <3>1, <3>2, OnlyRunnerWorks
    <2> QED BY <2>3, <2>4
  <1> QED BY <1>2, <1>3, <1>4

\* The invariant the refinement needs is inductive.
LEMMA RefineNext ==
  ASSUME TypeInv, RefineInv, [Next]_vars
  PROVE  RefineInv'
  <1>1. Fresh' /\ BudgetInv' /\ HeldInv' /\ Absent'
    BY FreshNext, BudgetNext, HeldNext, NextMoves, AbsentNext DEF RefineInv
  <1>2. AcknowledgedWasShown' /\ DeliveryOK' BY AcknowledgedNext, DeliveryNext
  <1> QED BY <1>1, <1>2 DEF RefineInv

\* It holds at the start, where the owner has no job.
LEMMA RefineInit ==
  ASSUME Init
  PROVE  RefineInv /\ Lifecycle!Init
  <1>1. row = [j \in Jobs |-> NoRow] /\ run.pc = "boot" /\ run.todo = {}
    BY DEF Init, IdleRun
  <1>2. Fresh /\ Absent /\ AcknowledgedWasShown BY <1>1 DEF Fresh, Absent, AcknowledgedWasShown, NoRow
  <1>3. BudgetInv
    BY <1>1, BoundsAssumption
       DEF BudgetInv, AttemptsWithinBudget, SnapshotsHold, NoRow, WorkPcs, UnchargedPcs,
           ChargingPcs, JoblessPcs
  <1>4. HeldInv BY <1>1 DEF HeldInv, WorkPcs, UnchargedPcs, JoblessPcs
  <1>5. DeliveryOK BY <1>1 DEF DeliveryOK
  <1>6. Lifecycle!Init BY <1>1 DEF Init, Lifecycle!Init, NoRow
  <1> QED BY <1>2, <1>3, <1>4, <1>5, <1>6 DEF RefineInv

\* Whatever the runner, recovery, the owner's requests, creation and a crash do to the
\* tables is, to the owner, a step of JobLifecycle or no step: jobs move along the one
\* transition table, an attempt is charged while there is budget and a job fails only when
\* it is used up, an acknowledged result was shown and is not shown again, and a job is
\* completed only with an acknowledged result.
THEOREM Refines == Spec => ImplementsLifecycle
  <1>1. Init => RefineInv /\ Lifecycle!Init BY RefineInit
  <1>2. TypeInv /\ RefineInv /\ [Next]_vars => RefineInv' BY RefineNext
  <1>3. TypeInv /\ RefineInv /\ [Next]_vars => [Lifecycle!Next]_(Lifecycle!jobVars)
    BY NextRefines DEF Refined
  <1> QED BY <1>1, <1>2, <1>3, TypeCorrect, PTL DEF Spec, ImplementsLifecycle, Lifecycle!Spec

-----------------------------------------------------------------------------
(* The retained inputs.  Row and input live in two databases and no        *)
(* transaction spans them; what keeps them together is the order in which  *)
(* creation, completion, cancel and purge write them.                      *)

\* The input of a job that was put is there, unless nothing will ask for it: it expired, or
\* the job ended, or its row is not there and will not be.
Kept(j) ==
    \/ envelope[j] = mk[j].next + Grace
    \/ mk[j].next + Grace <= now
    \/ row[j].state \in Terminal
    \/ row[j].state = "none" /\ mk[j].pc # "put"

InputOf(j) ==
    /\ mk[j].pc = "new" => envelope[j] = 0
    /\ mk[j].pc \in {"unput", "refused"} => row[j].state = "none"
    /\ mk[j].pc = "refused" => envelope[j] = 0
    /\ mk[j].pc \notin {"new", "refused", "incomplete"} => Kept(j)

\* Who is about to delete the input of a job has seen it end.
DeletesEnded ==
    /\ run.pc \in {"completeaudit", "exhaustaudit", "clean", "cleandel"} =>
          row[run.job].state \in Terminal
    /\ \A c \in Controls :
          ctl[c].pc = "remove" \/ (ctl[c].pc = "audit" /\ ctl[c].op = "cancel") =>
              row[ctl[c].job].state \in Terminal

InputInv == Fresh /\ DeletesEnded /\ \A j \in Jobs : InputOf(j)

\* An ended job stays ended, and a row that is gone does not come back.
LEMMA EndedStays ==
  ASSUME TypeInv, Fresh, [Next]_vars, NEW j \in Jobs
  PROVE  /\ row[j].state \in Terminal => row'[j].state \in Terminal
         /\ row[j].state = "none" /\ mk[j].pc # "put" => row'[j].state = "none"
  <1>1. RowMoves BY NextMoves
  <1>2. CASE row[j].state \in Terminal
    <2>1. row[j].state # "scheduled" /\ row[j].state # "none"
          /\ Successors(row[j].state) = {row[j].state}
      BY <1>2 DEF Terminal, Successors
    <2>2. ~Added(j) /\ ~Removed(j) BY <2>1 DEF Fresh, Added, Removed
    <2> QED BY <1>1, <1>2, <2>1, <2>2 DEF RowMoves, Rewritten, Charged
  <1>3. CASE row[j].state = "none"
    BY <1>1, <1>3 DEF RowMoves, Rewritten, Charged, Added, Removed, Exists, Terminal
  <1> QED BY <1>2, <1>3

\* What one step can make of a retained input.
InputMoves(j) ==
    \/ envelope'[j] = envelope[j]
    \/ envelope'[j] = 0 /\ envelope[j] <= now
    \/ envelope'[j] = 0 /\ row[j].state \in Terminal
    \/ envelope'[j] = 0 /\ mk'[j].pc \in {"refused", "incomplete"}
    \/ mk[j].pc = "new" /\ mk'[j].pc = "put" /\ envelope'[j] = mk'[j].next + Grace

\* And of a creation.
Begun(j) ==
    /\ mk[j].pc = "new" /\ row' = row
    /\ \/ mk'[j].pc = "put" /\ envelope'[j] = mk'[j].next + Grace
       \/ mk'[j].pc = "refused" /\ envelope'[j] = envelope[j]
Went(j) ==
    /\ mk[j].pc \notin {"new", "refused", "incomplete"}
    /\ mk'[j].next = mk[j].next /\ mk'[j].pc \notin {"new", "put"}
    /\ mk'[j].pc = "unput" => row'[j].state = "none"
    /\ mk'[j].pc = "refused" => mk[j].pc = "unput" /\ row' = row /\ envelope'[j] = 0
CreationMoves(j) == mk'[j] = mk[j] \/ Begun(j) \/ Went(j)

\* What creation makes of them.
LEMMA CreateInput ==
  ASSUME TypeInv, NEW i \in Jobs, Schedule(i) \/ Create(i), NEW j \in Jobs
  PROVE  InputMoves(j) /\ CreationMoves(j)
  <1>1. /\ mk \in [Jobs -> MkThread] /\ mk[i] \in MkThread /\ row \in [Jobs -> Rows]
        /\ envelope \in [Jobs -> Nat]
    BY MkFacts
  <1> USE DEF InputMoves, CreationMoves
  <1>2. CASE i # j
    <2>1. mk'[j] = mk[j] /\ envelope'[j] = envelope[j]
      BY <1>1, <1>2
         DEF Schedule, Create, AddRow, CreateAudit, Unadd, CreateStop, CreateStopCas,
             CreateCheck, CreateDelete, CreateUnput, RemoveRow, MkGoto
    <2> QED BY <2>1
  <1>3. CASE i = j
    <2>1. \A out : EndMk(mk[j], out).pc = out /\ EndMk(mk[j], out).next = mk[j].next
      BY DEF EndMk, NewMk
    <2>2. CASE Schedule(j)
      <3>1. CASE mk' = [mk EXCEPT ![j] = EndMk(@, "refused")] /\ UNCHANGED envelope
        BY <1>1, <2>1, <2>2, <3>1 DEF Schedule, Begun
      <3>2. ASSUME NEW n \in Nat, NEW o,
                   mk' = [mk EXCEPT ![j].pc = "put", ![j].next = n, ![j].off = o],
                   envelope' = [envelope EXCEPT ![j] = n + Grace]
            PROVE  Begun(j)
        <4>1. mk' = [mk EXCEPT ![j] = [mk[j] EXCEPT !.pc = "put", !.next = n, !.off = o]]
          BY <3>2
        <4>2. mk'[j] = [mk[j] EXCEPT !.pc = "put", !.next = n, !.off = o] BY <1>1, <4>1
        <4>3. mk'[j].pc = "put" /\ mk'[j].next = n BY <1>1, <1>3, <4>2 DEF MkThread
        <4> QED BY <1>1, <2>2, <3>2, <4>3 DEF Schedule, Begun
      <3>3. now \in Nat /\ \A n \in now + 1 .. now + Lead : n \in Nat
        BY MkFacts, BoundsAssumption
      <3> QED BY <1>3, <2>2, <3>1, <3>2, <3>3 DEF Schedule, Begun
    <2>3. CASE AddRow(j) \/ CreateAudit(j) \/ Unadd(j) \/ CreateStop(j) \/ CreateStopCas(j)
               \/ CreateDelete(j)
      <3>1. UNCHANGED envelope
        BY <2>3 DEF AddRow, CreateAudit, Unadd, CreateStop, CreateStopCas, CreateDelete, RemoveRow
      <3>2. ASSUME NEW pc, MkGoto(j, pc) PROVE mk'[j].pc = pc /\ mk'[j].next = mk[j].next
        BY <1>1, <1>3, <3>2 DEF MkGoto, MkThread
      <3>3. CASE AddRow(j) \/ CreateAudit(j)
        <4>1. mk'[j].pc \in {"added", "check", "made", "unadd"} /\ mk'[j].next = mk[j].next
          BY <1>1, <1>3, <2>1, <3>2, <3>3 DEF AddRow, CreateAudit, MkThread
        <4> QED BY <3>1, <3>3, <4>1 DEF AddRow, CreateAudit, Went
      <3>4. CASE Unadd(j)
        <4>1. mk'[j].pc \in {"check", "stop"} /\ mk'[j].next = mk[j].next
          BY <3>2, <3>4 DEF Unadd, RemoveRow
        <4> QED BY <3>1, <3>4, <4>1 DEF Unadd, RemoveRow, Went
      <3>5. CASE CreateStop(j) \/ CreateStopCas(j)
        <4>1. LookAgain(mk[j], j, {}, "check").pc \in {"check", "stopcas"}
              /\ LookAgain(mk[j], j, {}, "check").next = mk[j].next
          BY <1>1, <1>3 DEF LookAgain, MkThread
        <4>2. TryAgain(mk[j], "check").pc \in {"check", "stop"}
              /\ TryAgain(mk[j], "check").next = mk[j].next
          BY <1>1, <1>3 DEF TryAgain, MkThread
        <4>3. \/ MkGoto(j, "check") \/ mk'[j] = LookAgain(mk[j], j, {}, "check")
              \/ mk'[j] = TryAgain(mk[j], "check")
          BY <1>1, <1>3, <3>5 DEF CreateStop, CreateStopCas
        <4>4. mk'[j].pc \in {"stop", "stopcas", "check"} /\ mk'[j].next = mk[j].next
          BY <3>2, <4>1, <4>2, <4>3
        <4> QED BY <3>1, <3>5, <4>4 DEF CreateStop, CreateStopCas, Went
      <3>6. CASE CreateDelete(j)
        <4>1. mk[j].pc = "delete" BY <3>6 DEF CreateDelete, RemoveRow
        <4>2. CASE row' = [row EXCEPT ![j] = NoRow] /\ MkGoto(j, "unput")
          <5>1. row'[j].state = "none" BY <1>1, <4>2 DEF NoRow
          <5> QED BY <3>1, <3>2, <4>1, <4>2, <5>1 DEF Went
        <4>3. CASE MkGoto(j, "unput2") BY <3>1, <3>2, <4>1, <4>3 DEF Went
        <4> QED BY <3>6, <4>2, <4>3 DEF CreateDelete, RemoveRow
      <3> QED BY <2>3, <3>3, <3>4, <3>5, <3>6
    <2>4. CASE CreateCheck(j)
      <3>1. mk[j].pc = "check" /\ UNCHANGED <<row, envelope>> BY <2>4 DEF CreateCheck
      <3>2. CASE mk' = [mk EXCEPT ![j] = [EndMk(@, IF Exists(j) THEN "delete" ELSE "unput")
                                            EXCEPT !.ts = row[j].at]]
        <4>1. mk'[j] = [EndMk(mk[j], IF Exists(j) THEN "delete" ELSE "unput")
                          EXCEPT !.ts = row[j].at]
          BY <1>1, <3>2
        <4>2. mk'[j].pc = (IF Exists(j) THEN "delete" ELSE "unput") /\ mk'[j].next = mk[j].next
          BY <4>1 DEF EndMk, NewMk
        <4> QED BY <3>1, <4>2 DEF Went, Exists
      <3>3. CASE MkGoto(j, "unput2")
        <4>1. mk'[j].pc = "unput2" /\ mk'[j].next = mk[j].next
          BY <1>1, <1>3, <3>3 DEF MkGoto, MkThread
        <4> QED BY <3>1, <4>1 DEF Went
      <3> QED BY <2>4, <3>2, <3>3 DEF CreateCheck
    <2>5. CASE CreateUnput(j)
      <3>1. mk[j].pc \in {"unput", "unput2"} /\ row' = row BY <2>5 DEF CreateUnput
      <3>2. CASE /\ envelope' = [envelope EXCEPT ![j] = 0]
                 /\ mk' = [mk EXCEPT ![j] = EndMk(@, IF @.pc = "unput" /\ envelope[j] # 0
                                                     THEN "refused" ELSE "incomplete")]
        <4>1. mk'[j] = EndMk(mk[j], IF mk[j].pc = "unput" /\ envelope[j] # 0
                                    THEN "refused" ELSE "incomplete") /\ envelope'[j] = 0
          BY <1>1, <3>2
        <4> QED BY <2>1, <3>1, <4>1 DEF Went
      <3>3. CASE mk' = [mk EXCEPT ![j] = EndMk(@, "incomplete")] /\ UNCHANGED envelope
        <4>1. mk'[j] = EndMk(mk[j], "incomplete") BY <1>1, <3>3
        <4> QED BY <2>1, <3>1, <3>3, <4>1 DEF Went
      <3> QED BY <2>5, <3>2, <3>3 DEF CreateUnput
    <2> QED BY <1>3, <2>2, <2>3, <2>4, <2>5 DEF Create
  <1> QED BY <1>2, <1>3

\* What any step makes of them.
LEMMA NextInput ==
  ASSUME TypeInv, DeletesEnded, [Next]_vars, NEW j \in Jobs
  PROVE  InputMoves(j) /\ CreationMoves(j)
  <1>1. envelope \in [Jobs -> Nat] BY DEF TypeInv, TypeOK
  <1>2. CASE UNCHANGED <<envelope, mk>> BY <1>2 DEF InputMoves, CreationMoves
  <1>3. CASE \E i \in Jobs : Schedule(i) \/ Create(i) BY <1>3, CreateInput
  <1>4. CASE Restart
    <2>1. \A out : EndMk(mk[j], out).pc = out /\ EndMk(mk[j], out).next = mk[j].next
      BY DEF EndMk, NewMk
    <2>2. mk'[j] = mk[j] \/ (mk[j].pc \notin {"new", "refused", "incomplete"}
                             /\ mk'[j] = EndMk(mk[j], "lost"))
      BY <1>4 DEF Restart
    <2>3. UNCHANGED envelope BY <1>4 DEF Restart
    <2> QED BY <2>1, <2>2, <2>3 DEF InputMoves, CreationMoves, Went
  <1>5. CASE PurgeExpired
    <2>1. UNCHANGED mk BY <1>5 DEF PurgeExpired
    <2>2. envelope'[j] = envelope[j] \/ (envelope'[j] = 0 /\ envelope[j] <= now)
      BY <1>5 DEF PurgeExpired, Expired
    <2> QED BY <2>1, <2>2 DEF InputMoves, CreationMoves
  <1>6. CASE CleanDelete
    <2>1. UNCHANGED mk /\ run.pc = "cleandel" BY <1>6 DEF CleanDelete
    <2>2. row[run.job].state \in Terminal BY <2>1 DEF DeletesEnded
    <2>3. envelope'[j] = envelope[j] \/ (envelope'[j] = 0 /\ j = run.job)
      BY <1>1, <1>6 DEF CleanDelete
    <2> QED BY <2>1, <2>2, <2>3 DEF InputMoves, CreationMoves
  <1>7. ASSUME NEW c \in Controls, ControlRemove(c)
        PROVE  InputMoves(j) /\ CreationMoves(j)
    <2>1. UNCHANGED mk /\ ctl[c].pc = "remove" BY <1>7 DEF ControlRemove
    <2>2. row[ctl[c].job].state \in Terminal BY <2>1 DEF DeletesEnded
    <2>3. envelope'[j] = envelope[j] \/ (envelope'[j] = 0 /\ j = ctl[c].job)
      BY <1>1, <1>7 DEF ControlRemove
    <2> QED BY <2>1, <2>2, <2>3 DEF InputMoves, CreationMoves
  <1>8. CASE Tick \/ UNCHANGED vars BY <1>2, <1>8 DEF Tick, vars
  <1>9. CASE RunOnce
    BY <1>2, <1>5, <1>6, <1>9
       DEF RunOnce, StartBatch, ClaimDue, TakeNext, BatchDone, Undo, Undo2, Raise,
           StartWork, Classify, Send, AckLoad, AckRecord, AckAudit, AckRevert,
           RunStop, RunStopCas, Refresh, Complete, CompleteAudit, Clean, RetryInterrupt,
           RetryAudit, RetryNext, RetryAttempt, RetrySchedule, RetryScheduleAudit,
           RetryPause, Exhaust, ExhaustAudit, Suppressed, QuietInterrupt, QuietAudit,
           QuietNext, QuietSchedule, QuietScheduleAudit, RunCas, RunAudit, Revise, GiveBack
  <1>10. CASE Recover
    BY <1>2, <1>10
       DEF Recover, RecoverList, RecoverInterrupt, RecoverInterruptAudit,
           RecoverInterruptPause, RecoverListAgain, RecoverSchedule, RecoverScheduleAudit,
           RecoverSchedulePause, RecoverDone, RecoverCas, RecoverAudit, RecoverPause
  <1>11. CASE \E c \in Controls : Control(c)
    BY <1>2, <1>7, <1>11
       DEF Control, Request, CancelReread, ControlCas, ControlAudit, Unresume, ControlStop,
           ControlStopCas, CtlCas
  <1> QED BY <1>3, <1>4, <1>8, <1>9, <1>10, <1>11 DEF Next

\* One step keeps what is known of one input.
LEMMA InputNext ==
  ASSUME TypeInv, InputInv, [Next]_vars, NEW j \in Jobs
  PROVE  InputOf(j)'
  <1>1. InputMoves(j) /\ CreationMoves(j) BY NextInput DEF InputInv
  <1>2. InputOf(j) /\ Fresh /\ DeletesEnded BY DEF InputInv
  <1>3. /\ row[j].state \in Terminal => row'[j].state \in Terminal
        /\ row[j].state = "none" /\ mk[j].pc # "put" => row'[j].state = "none"
        /\ mk'[j].pc \in {"new", "put"} => mk[j].pc \in {"new", "put"}
    BY <1>2, EndedStays, CreationGoesOn
  <1>4. /\ now \in Nat /\ now' \in Nat /\ now <= now'
        /\ mk[j].next \in Nat /\ envelope[j] \in Nat /\ Grace \in Nat \ {0}
    <2>1. now \in Nat BY DEF TypeInv, TypeOK
    <2>2. now' = now \/ Tick
      BY DEF Next, vars, RunOnce, StartBatch, ClaimDue, TakeNext, BatchDone, Undo, Undo2, Raise,
           PurgeExpired, StartWork, Classify, Send, AckLoad, AckRecord, AckAudit, AckRevert,
           RunStop, RunStopCas, Refresh, Complete, CompleteAudit, Clean, CleanDelete,
              RetryInterrupt,
           RetryAudit, RetryNext, RetryAttempt, RetrySchedule, RetryScheduleAudit,
           RetryPause, Exhaust, ExhaustAudit, Suppressed, QuietInterrupt, QuietAudit,
           QuietNext, QuietSchedule, QuietScheduleAudit, RunCas, RunAudit, Revise, GiveBack,
           Recover, RecoverList, RecoverInterrupt, RecoverInterruptAudit,
           RecoverInterruptPause, RecoverListAgain, RecoverSchedule, RecoverScheduleAudit,
           RecoverSchedulePause, RecoverDone, RecoverCas, RecoverAudit, RecoverPause,
           Control, Request, CancelReread, ControlCas, ControlAudit, Unresume, ControlStop,
           ControlStopCas, ControlRemove, CtlCas, Schedule, Create, AddRow, CreateAudit, Unadd,
           CreateStop, CreateStopCas, CreateCheck, CreateDelete, CreateUnput, RemoveRow, Restart
    <2>3. now' \in Nat /\ now <= now' BY <2>1, <2>2 DEF Tick
    <2> QED BY <2>1, <2>3, BoundsAssumption DEF TypeInv, TypeOK, MkThread
  <1>5. CASE Begun(j)
    <2>1. CASE mk'[j].pc = "put" /\ envelope'[j] = mk'[j].next + Grace
      BY <2>1 DEF InputOf, Kept
    <2>2. CASE mk'[j].pc = "refused" /\ envelope'[j] = envelope[j]
      BY <1>2, <1>5, <2>2 DEF InputOf, Begun, Fresh
    <2> QED BY <1>5, <2>1, <2>2 DEF Begun
  <1>6. CASE Went(j)
    <2>1. Kept(j) BY <1>2, <1>6 DEF InputOf, Went
    <2>2. mk'[j].pc \notin {"refused", "incomplete"} => Kept(j)'
      <3> SUFFICES ASSUME mk'[j].pc \notin {"refused", "incomplete"} PROVE Kept(j)'
        OBVIOUS
      <3>1. mk'[j].next = mk[j].next /\ mk'[j].pc \notin {"new", "put"} /\ mk[j].pc # "new"
        BY <1>6 DEF Went
      <3>2. CASE row[j].state \in Terminal \/ (row[j].state = "none" /\ mk[j].pc # "put")
        BY <1>3, <3>1, <3>2 DEF Kept
      <3>3. CASE mk[j].next + Grace <= now BY <1>4, <3>1, <3>3 DEF Kept
      <3>4. CASE envelope[j] = mk[j].next + Grace
        BY <1>1, <1>3, <1>4, <3>1, <3>4 DEF InputMoves, Kept
      <3> QED BY <2>1, <3>2, <3>3, <3>4 DEF Kept
    <2>3. mk'[j].pc \notin {"new", "put"} BY <1>6 DEF Went
    <2>4. mk'[j].pc \in {"unput", "refused"} => row'[j].state = "none"
      BY <1>2, <1>6 DEF Went, InputOf
    <2>5. mk'[j].pc = "refused" => envelope'[j] = 0 BY <1>6 DEF Went
    <2> QED BY <2>2, <2>3, <2>4, <2>5 DEF InputOf
  <1>7. CASE mk'[j] = mk[j]
    <2>1. mk[j].pc = "new" => envelope'[j] = 0
      BY <1>1, <1>2, <1>7 DEF InputMoves, InputOf
    <2>2. mk[j].pc \in {"unput", "refused"} => row'[j].state = "none"
      BY <1>2, <1>3 DEF InputOf
    <2>3. mk[j].pc = "refused" => envelope'[j] = 0
      BY <1>1, <1>2, <1>7 DEF InputMoves, InputOf
    <2>4. mk[j].pc \notin {"new", "refused", "incomplete"} => Kept(j)'
      <3> SUFFICES ASSUME mk[j].pc \notin {"new", "refused", "incomplete"} PROVE Kept(j)'
        OBVIOUS
      <3>1. Kept(j) BY <1>2 DEF InputOf
      <3>2. CASE row[j].state \in Terminal \/ (row[j].state = "none" /\ mk[j].pc # "put")
        BY <1>3, <1>7, <3>2 DEF Kept
      <3>3. CASE mk[j].next + Grace <= now BY <1>4, <1>7, <3>3 DEF Kept
      <3>4. CASE envelope[j] = mk[j].next + Grace
        BY <1>1, <1>3, <1>4, <1>7, <3>4 DEF InputMoves, Kept
      <3> QED BY <3>1, <3>2, <3>3, <3>4 DEF Kept
    <2> QED BY <1>7, <2>1, <2>2, <2>3, <2>4 DEF InputOf
  <1> QED BY <1>1, <1>5, <1>6, <1>7 DEF CreationMoves

\* The runner deletes the input of a job only after it recorded its end.
LEMMA RunnerDeletesEnded ==
  ASSUME TypeInv, Fresh, DeletesEnded, [Next]_vars, run'.pc \in EndPcs
  PROVE  row'[run'.job].state \in Terminal
  <1>1. BatchMoves BY NextBatch
  <1>2. run'.pc \in WorkPcs /\ run'.pc \notin {"take", "work"}
    BY DEF EndPcs, WorkPcs, RunPcs, JoblessPcs, RecoveryPcs
  <1>3. run.pc \in WorkPcs /\ run'.job = run.job
    <2>1. ~Passed BY <1>2, PcAfter DEF Passed, Next1
    <2> QED BY <1>1, <1>2, <2>1 DEF BatchMoves, Ended, Worked, Taken, Claimed
  <1>4. PICK j \in Jobs : j = run.job BY <1>3, AtHand DEF WorkPcs
  <1>5. CASE run.pc \in EndPcs
    BY <1>3, <1>4, <1>5, EndedStays DEF DeletesEnded, EndPcs
  <1>6. CASE RunOnce /\ run.pc \notin EndPcs
    <2>1. Complete \/ Exhaust
      BY <1>3, <1>6, RunnerGoes DEF CompleteAudit, ExhaustAudit, RunAudit, Clean, EndPcs
    <2>2. ASSUME NEW pc, NEW to \in {"completed", "failed"}, NEW hit, NEW ts,
                 RunCas(pc, "running", to, ts, hit, "take")
          PROVE  row'[j].state \in Terminal
      <3>1. Next1 \/ Abort1 => run'.pc \notin EndPcs BY PcAfter DEF EndPcs
      <3>2. SetState(j, to, ts) BY <1>4, <2>2, <3>1 DEF RunCas
      <3>3. row'[j].state = to BY <3>2, SetStateIs DEF TypeInv, TypeOK
      <3> QED BY <3>3 DEF Terminal
    <2> QED BY <1>3, <1>4, <2>1, <2>2 DEF Complete, Exhaust
  <1>7. CASE ~RunOnce /\ run.pc \notin EndPcs
    <2>1. run' # run BY <1>7
    <2> QED BY <1>2, <1>3, <1>7, <2>1, OnlyRunnerWorks
  <1> QED BY <1>5, <1>6, <1>7

\* Nobody but a request's own thread and a crash changes it.
LEMMA ThreadsAreTheirOwn ==
  ASSUME TypeInv, [Next]_vars, NEW c \in Controls, ~Control(c), ~Restart
  PROVE  ctl'[c] = ctl[c]
  <1>1. ctl \in [Controls -> CtlThread] BY CtlFacts
  <1>2. ASSUME NEW d \in Controls, d # c, Control(d) PROVE ctl'[c] = ctl[c]
    BY <1>1, <1>2 DEF Control, Request, CancelReread, ControlCas, ControlAudit, Unresume,
              ControlStop, ControlStopCas, ControlRemove, CtlCas, CtlGoto
  <1>3. CASE UNCHANGED ctl BY <1>3
  <1>4. CASE RunOnce
    BY <1>3, <1>4
       DEF RunOnce, StartBatch, ClaimDue, TakeNext, BatchDone, Undo, Undo2, Raise,
           PurgeExpired, StartWork, Classify, Send, AckLoad, AckRecord, AckAudit, AckRevert,
           RunStop, RunStopCas, Refresh, Complete, CompleteAudit, Clean, CleanDelete,
              RetryInterrupt,
           RetryAudit, RetryNext, RetryAttempt, RetrySchedule, RetryScheduleAudit,
           RetryPause, Exhaust, ExhaustAudit, Suppressed, QuietInterrupt, QuietAudit,
           QuietNext, QuietSchedule, QuietScheduleAudit, RunCas, RunAudit, Revise, GiveBack
  <1>5. CASE Recover
    BY <1>3, <1>5
       DEF Recover, RecoverList, RecoverInterrupt, RecoverInterruptAudit,
           RecoverInterruptPause, RecoverListAgain, RecoverSchedule, RecoverScheduleAudit,
           RecoverSchedulePause, RecoverDone, RecoverCas, RecoverAudit, RecoverPause
  <1>6. CASE \E j \in Jobs : Schedule(j) \/ Create(j)
    BY <1>3, <1>6
       DEF Schedule, Create, AddRow, CreateAudit, Unadd, CreateStop, CreateStopCas,
           CreateCheck, CreateDelete, CreateUnput, RemoveRow
  <1>7. CASE Tick \/ UNCHANGED vars BY <1>3, <1>7 DEF Tick, vars
  <1> QED BY <1>2, <1>4, <1>5, <1>6, <1>7 DEF Next

\* An owner's cancel deletes the input only after the job was stopped.
LEMMA OwnerDeletesEnded ==
  ASSUME TypeInv, Fresh, DeletesEnded, [Next]_vars, NEW c \in Controls,
         ctl'[c].pc = "remove" \/ (ctl'[c].pc = "audit" /\ ctl'[c].op = "cancel")
  PROVE  row'[ctl'[c].job].state \in Terminal
  <1>1. /\ ctl \in [Controls -> CtlThread] /\ ctl[c] \in CtlThread /\ row \in [Jobs -> Rows]
        /\ (ctl[c].pc # "idle" => ctl[c].job \in Jobs)
    BY CtlFacts
  <1>2. ASSUME ctl[c].pc = "remove" \/ (ctl[c].pc = "audit" /\ ctl[c].op = "cancel"),
               ctl'[c].job = ctl[c].job
        PROVE  row'[ctl'[c].job].state \in Terminal
    <2>1. PICK j \in Jobs : j = ctl[c].job BY <1>1, <1>2
    <2>2. row[j].state \in Terminal BY <1>2, <2>1 DEF DeletesEnded
    <2> QED BY <1>2, <2>1, <2>2, EndedStays
  <1>3. CASE ctl'[c] = ctl[c] BY <1>2, <1>3
  <1>4. CASE Control(c)
    <2>1. ASSUME NEW pc, CtlGoto(c, pc)
          PROVE  /\ pc # "idle" /\ ctl'[c].pc = pc
                 /\ ctl'[c].job = ctl[c].job /\ ctl'[c].op = ctl[c].op
      BY <1>1, <2>1 DEF CtlGoto, CtlThread, IdleCtl
    <2>2. CASE \E op \in Ops, j \in Jobs : Request(c, op, j)
      <3>1. PICK op \in Ops, j \in Jobs : Request(c, op, j) BY <2>2
      <3>2. row' = row /\ ctl'[c] =
                 [IdleCtl EXCEPT
                    !.pc = IF row[j].state = "cancelled" THEN "remove"
                           ELSE IF op = "cancel" THEN "reread" ELSE "cas",
                    !.op = op, !.job = j, !.held = row[j], !.ts = now,
                    !.from = IF op = "cancel" THEN "none" ELSE row[j].state]
        BY <1>1, <3>1 DEF Request
      <3>3. ctl'[c].job = j /\ ctl'[c].pc = (IF row[j].state = "cancelled" THEN "remove"
                           ELSE IF op = "cancel" THEN "reread" ELSE "cas")
        BY <3>2 DEF IdleCtl
      <3> QED BY <3>2, <3>3 DEF Terminal
    <2>3. CASE CancelReread(c)
      <3>1. CASE CtlGoto(c, "idle") BY <2>1, <3>1
      <3>2. ASSUME NEW s, ctl' = [ctl EXCEPT ![c].pc = "cas", ![c].from = s] PROVE FALSE
        <4>1. ctl'[c].pc = "cas" BY <1>1, <3>2 DEF CtlThread
        <4> QED BY <4>1
      <3> QED BY <2>3, <3>1, <3>2 DEF CancelReread
    <2>4. CASE ControlCas(c)
      <3>1. CASE CtlGoto(c, "idle") BY <2>1, <3>1
      <3>2. CASE CtlGoto(c, "audit")
                 /\ SetState(ctl[c].job, Target(ctl[c].op), ctl[c].ts)
        <4>1. ctl[c].pc # "idle" /\ ctl[c].op = "cancel"
          BY <2>1, <2>4, <3>2 DEF ControlCas, CtlCas
        <4>2. PICK j \in Jobs : j = ctl[c].job BY <1>1, <4>1
        <4>3. row'[j].state = "cancelled" BY <1>1, <3>2, <4>1, <4>2, SetStateIs DEF Target
        <4> QED BY <2>1, <3>2, <4>2, <4>3 DEF Terminal
      <3> QED BY <2>4, <3>1, <3>2 DEF ControlCas, CtlCas
    <2>5. CASE ControlAudit(c)
      <3>1. ctl[c].pc = "audit" BY <2>5 DEF ControlAudit
      <3>2. CtlGoto(c, "remove") /\ ctl[c].op = "cancel"
        BY <2>1, <2>5 DEF ControlAudit
      <3> QED BY <1>2, <2>1, <3>1, <3>2
    <2>6. CASE Unresume(c) BY <2>1, <2>6 DEF Unresume, CtlCas
    <2>7. CASE ControlStop(c)
      <3>1. CASE CtlGoto(c, "idle") BY <2>1, <3>1
      <3>2. CASE /\ ctl' = [ctl EXCEPT ![c] =
                               LookAgain(ctl[c], ctl[c].job, {"paused", "interrupted"}, "idle")]
                 /\ LookAgain(ctl[c], ctl[c].job, {"paused", "interrupted"}, "idle").pc # "idle"
        <4>1. ctl'[c].pc = "stopcas" BY <1>1, <3>2 DEF LookAgain, CtlThread
        <4> QED BY <4>1
      <3> QED BY <2>7, <3>1, <3>2 DEF ControlStop
    <2>8. CASE ControlStopCas(c)
      <3>1. CASE CtlGoto(c, "idle") BY <2>1, <3>1
      <3>2. CASE ctl[c].tries < 2 /\ ctl' = [ctl EXCEPT ![c] = TryAgain(@, "idle")]
        <4>1. ctl'[c].pc = "stop" BY <1>1, <3>2 DEF TryAgain, CtlThread
        <4> QED BY <4>1
      <3> QED BY <2>8, <3>1, <3>2 DEF ControlStopCas
    <2>9. CASE ControlRemove(c) BY <2>1, <2>9 DEF ControlRemove
    <2> QED BY <1>4, <2>2, <2>3, <2>4, <2>5, <2>6, <2>7, <2>8, <2>9 DEF Control
  <1>5. CASE Restart BY <1>5 DEF Restart, IdleCtl
  <1>6. CASE ~Control(c) /\ ~Restart BY <1>3, <1>6, ThreadsAreTheirOwn
  <1> QED BY <1>4, <1>5, <1>6

\* The invariant of rows and inputs is inductive.
LEMMA InputInvNext ==
  ASSUME TypeInv, InputInv, [Next]_vars
  PROVE  InputInv'
  <1>1. Fresh /\ DeletesEnded BY DEF InputInv
  <1>2. Fresh' BY <1>1, FreshNext
  <1>3. \A j \in Jobs : InputOf(j)' BY InputNext
  <1>4. run'.pc \in {"completeaudit", "exhaustaudit", "clean", "cleandel"} => row'[run'.job].state \in Terminal
    BY <1>1, RunnerDeletesEnded DEF EndPcs
  <1>5. \A c \in Controls :
           ctl'[c].pc = "remove" \/ (ctl'[c].pc = "audit" /\ ctl'[c].op = "cancel") =>
               row'[ctl'[c].job].state \in Terminal
    BY <1>1, OwnerDeletesEnded
  <1>6. DeletesEnded' BY <1>4, <1>5 DEF DeletesEnded
  <1> QED BY <1>2, <1>3, <1>6 DEF InputInv

\* So it holds always.
LEMMA InputInvAlways == Spec => [](TypeInv /\ InputInv)
  <1>1. Init => TypeInv /\ InputInv
    <2> SUFFICES ASSUME Init PROVE TypeInv /\ InputInv
      OBVIOUS
    <2>1. TypeInv BY InitType
    <2>2. Fresh /\ \A j \in Jobs : InputOf(j)
      BY DEF Init, Fresh, InputOf, NewMk, NoRow
    <2>3. run.pc = "boot" /\ \A c \in Controls : ctl[c].pc = "idle"
      BY DEF Init, IdleRun, IdleCtl
    <2>4. DeletesEnded BY <2>3 DEF DeletesEnded
    <2> QED BY <2>1, <2>2, <2>4 DEF InputInv
  <1>2. TypeInv /\ InputInv /\ [Next]_vars => (TypeInv /\ InputInv)'
    BY NextType, InputInvNext
  <1> QED BY <1>1, <1>2, PTL DEF Spec

\* A job that can still run finds its input until the input expires, although row and input
\* are in two databases and a purge, a completion and a cancel each delete inputs.
THEOREM InputIsRetained == Spec => []InputRetained
  <1>1. TypeInv /\ InputInv => InputRetained
    <2> SUFFICES ASSUME TypeInv, InputInv, NEW j \in Jobs, Exists(j),
                        row[j].state \notin Terminal, mk[j].pc \in {"made", "lost"}
                 PROVE  envelope[j] # 0 \/ mk[j].next + Grace <= now
      BY DEF InputRetained
    <2>1. Kept(j) BY DEF InputInv, InputOf
    <2>2. mk[j].next \in Nat /\ Grace \in Nat \ {0}
      BY BoundsAssumption DEF TypeInv, TypeOK, MkThread
    <2> QED BY <2>1, <2>2 DEF Kept, Exists
  <1> QED BY <1>1, InputInvAlways, PTL

\* A creation that answers with a plain refusal has left neither a row nor an input,
\* whichever of its steps failed and whoever touched the row in between.
THEOREM RefusalIsClean == Spec => []RefusedLeavesNothing
  <1>1. InputInv => RefusedLeavesNothing
    BY DEF InputInv, InputOf, RefusedLeavesNothing, Exists
  <1> QED BY <1>1, InputInvAlways, PTL

-----------------------------------------------------------------------------
(* The owner's pause.  Two of the runner's writes, the fingerprint and the *)
(* run time, are guarded by the revision alone and would overwrite a       *)
(* paused row of that revision; there is none, because a claimed row can   *)
(* only be cancelled and the owner's writes come with later instants.      *)

\* The runner works on a claim, before and after it interrupted the row for a retry.
ClaimedPcs == {"work", "classify", "send", "ack", "ackcas", "ackaudit", "ackrevert", "stop",
               "stopcas", "done", "complete", "fail", "suppressed", "quiet"}
ReleasingPcs == {"retryaudit", "retrynext", "retryatt", "quietaudit", "quietnext"}

Ours(j) == row[j].state \in {"running"} \cup Terminal

\* The interrupted row is as the runner left it, or of a later revision, or done with.
Released(j) ==
    \/ row[j].state \in Terminal \cup {"none"}
    \/ run.held.at < row[j].at
    \/ run.held.at = row[j].at /\ row[j].state = "interrupted"

PauseInv ==
    /\ Fresh /\ BudgetInv /\ HeldInv
    /\ run.pc \in WorkPcs \cup {"take"} => \A j \in run.todo : Ours(j)
    /\ run.pc \in ClaimedPcs => Ours(run.job)
    /\ run.pc \in ReleasingPcs => Released(run.job)
    /\ \A c \in Controls : ctl[c].pc \in {"cas", "reread"} => ctl[c].held.at < ctl[c].ts

\* What the owner, a creation, the clock and a crash can make of a row.
OthersMove(j) ==
    \/ row'[j] = row[j]
    \/ row'[j].state = "cancelled"
    \/ row[j].state = "scheduled" /\ row'[j].state = "none"
    \/ row[j].state = "none" /\ mk[j].pc = "put"
    \/ /\ row[j].state \notin {"running", "none"} \cup Terminal
       /\ \/ row[j].at < row'[j].at
          \/ row[j].at = row'[j].at /\ row[j].state = "scheduled"

\* A state write with its stamp.
LEMMA StampIs ==
  ASSUME row \in [Jobs -> Rows], NEW j \in Jobs, NEW to, NEW ts, SetState(j, to, ts)
  PROVE  /\ row'[j] = row[j] \/ (row'[j].state = to /\ row'[j].at = ts)
         /\ \A k \in Jobs : k # j => row'[k] = row[k]
  <1>1. CASE row[j].state = to BY <1>1 DEF SetState
  <1>2. CASE row[j].state # to
    <2>1. row' = [row EXCEPT ![j] = [row[j] EXCEPT !.state = to, !.at = ts]]
      BY <1>2 DEF SetState
    <2>2. row'[j] = [row[j] EXCEPT !.state = to, !.at = ts] /\ row[j] \in Rows BY <2>1
    <2> QED BY <2>1, <2>2 DEF Rows
  <1> QED BY <1>1, <1>2

\* What a request of the owner can make of one.
LEMMA ControlOthers ==
  ASSUME TypeInv, PauseInv, NEW c \in Controls, Control(c), NEW j \in Jobs
  PROVE  OthersMove(j)
  <1>1. /\ row \in [Jobs -> Rows] /\ (ctl[c].pc # "idle" => ctl[c].job \in Jobs)
        /\ ctl[c].ts \in Nat /\ ctl[c].held \in Rows /\ ctl[c].op \in {"pause", "resume", "cancel"}
        /\ row[j].at \in Nat /\ row[j].state \in States \cup {"none"}
    BY CtlFacts DEF Rows
  <1> USE DEF OthersMove
  <1>2. CASE UNCHANGED row BY <1>2
  <1>3. ASSUME NEW to, NEW ts, NEW i \in Jobs, i # j, SetState(i, to, ts) PROVE OthersMove(j)
    BY <1>1, <1>3, StampIs
  <1>4. CASE ControlCas(c) /\ Matches(ctl[c].job, ctl[c].from, ctl[c].held.at)
             /\ SetState(ctl[c].job, Target(ctl[c].op), ctl[c].ts) /\ ctl[c].job = j
    <2>1. /\ row[j].at = ctl[c].held.at /\ ctl[c].held.at < ctl[c].ts
          /\ row[j].state # "none"
      BY <1>4 DEF ControlCas, CtlCas, Matches, At, Exists, PauseInv
    <2>2. CASE row'[j] # row[j]
      <3>1. row'[j].state = Target(ctl[c].op) /\ row'[j].at = ctl[c].ts
        BY <1>1, <1>4, <2>2, StampIs
      <3>2. CASE ctl[c].op = "cancel" BY <3>1, <3>2 DEF Target
      <3>3. CASE ctl[c].op \in {"pause", "resume"}
        <4>1. Target(ctl[c].op) \in {"paused", "scheduled"} BY <3>3 DEF Target
        <4>2. Target(ctl[c].op) \in Successors(row[j].state) BY <1>4 DEF SetState, CanTransition
        <4>3. row[j].state \notin {"running"} \cup Terminal
          BY <1>1, <4>1, <4>2 DEF Successors, Terminal, States
        <4> QED BY <2>1, <3>1, <4>3
      <3> QED BY <1>1, <3>2, <3>3
    <2> QED BY <2>2
  <1>5. CASE Unresume(c) /\ Matches(ctl[c].job, "scheduled", ctl[c].ts)
             /\ SetState(ctl[c].job, "paused", ctl[c].ts) /\ ctl[c].job = j
    <2>1. row[j].at = ctl[c].ts /\ row[j].state = "scheduled" BY <1>5 DEF Matches, At
    <2>2. row'[j] = row[j] \/ row'[j].at = ctl[c].ts BY <1>1, <1>5, StampIs
    <2> QED BY <2>1, <2>2 DEF Terminal
  <1>6. CASE ControlStopCas(c) /\ SetState(ctl[c].job, "cancelled", ctl[c].held.at)
             /\ ctl[c].job = j
    BY <1>1, <1>6, StampIs
  <1>7. CASE ControlCas(c)
    BY <1>1, <1>2, <1>3, <1>4, <1>7 DEF ControlCas, CtlCas
  <1>8. CASE Unresume(c)
    BY <1>1, <1>2, <1>3, <1>5, <1>8 DEF Unresume, CtlCas
  <1>9. CASE ControlStopCas(c)
    BY <1>1, <1>2, <1>3, <1>6, <1>9 DEF ControlStopCas
  <1>10. CASE (\E op \in Ops, i \in Jobs : Request(c, op, i)) \/ CancelReread(c)
             \/ ControlAudit(c) \/ ControlStop(c) \/ ControlRemove(c)
    BY <1>2, <1>10 DEF Request, CancelReread, ControlAudit, ControlStop, ControlRemove
  <1> QED BY <1>7, <1>8, <1>9, <1>10 DEF Control

\* And what a creation can.
LEMMA CreateOthers ==
  ASSUME TypeInv, Fresh, NEW i \in Jobs, Schedule(i) \/ Create(i), NEW j \in Jobs
  PROVE  OthersMove(j)
  <1>1. row \in [Jobs -> Rows] BY MkFacts
  <1> USE DEF OthersMove
  <1>2. CASE UNCHANGED row BY <1>2
  <1>3. CASE AddRow(i)
    <2>1. row[i].state = "none" /\ mk[i].pc = "put" BY <1>3 DEF AddRow, Fresh
    <2>2. i # j => row'[j] = row[j] BY <1>1, <1>3 DEF AddRow
    <2> QED BY <2>1, <2>2
  <1>4. CASE Unadd(i) \/ CreateDelete(i)
    <2>1. \/ UNCHANGED row
          \/ row[i].state = "scheduled" /\ row' = [row EXCEPT ![i] = NoRow]
      BY <1>4 DEF Unadd, CreateDelete, RemoveRow, Matches
    <2>2. row'[j] = row[j] \/ (row[j].state = "scheduled" /\ row'[j] = NoRow) BY <1>1, <2>1
    <2> QED BY <2>2 DEF NoRow
  <1>5. CASE CreateStopCas(i)
    <2>1. UNCHANGED row \/ SetState(i, "cancelled", mk[i].held.at) BY <1>5 DEF CreateStopCas
    <2> QED BY <1>1, <1>2, <2>1, StampIs
  <1>6. CASE Schedule(i) \/ CreateAudit(i) \/ CreateStop(i) \/ CreateCheck(i) \/ CreateUnput(i)
    BY <1>2, <1>6 DEF Schedule, CreateAudit, CreateStop, CreateCheck, CreateUnput
  <1> QED BY <1>3, <1>4, <1>5, <1>6 DEF Create

\* What they leave of the runner's claim.
LEMMA OthersKeep ==
  ASSUME TypeInv, TypeInv', NEW j \in Jobs, OthersMove(j)
  PROVE  /\ Ours(j) => Ours(j)'
         /\ run' = run /\ mk[j].pc # "put" /\ Released(j) => Released(j)'
  <1>1. /\ row[j].at \in Nat /\ row'[j].at \in Nat /\ run.held.at \in Nat
    BY DEF TypeInv, TypeOK, RunThread, Rows
  <1>2. ASSUME Ours(j) PROVE Ours(j)'
    BY <1>2 DEF Ours, OthersMove, Terminal
  <1>3. ASSUME Released(j), run' = run, mk[j].pc # "put" PROVE Released(j)'
    <2>1. CASE row'[j] = row[j] BY <1>3, <2>1 DEF Released
    <2>2. CASE row'[j].state \in {"cancelled", "none"} BY <2>2 DEF Released, Terminal
    <2>3. CASE /\ row[j].state \notin {"running", "none"} \cup Terminal
               /\ \/ row[j].at < row'[j].at
                  \/ row[j].at = row'[j].at /\ row[j].state = "scheduled"
      <3>1. run.held.at < row'[j].at BY <1>1, <1>3, <2>3 DEF Released
      <3> QED BY <1>3, <3>1 DEF Released
    <2> QED BY <1>3, <2>1, <2>2, <2>3 DEF OthersMove
  <1> QED BY <1>2, <1>3

\* What the runner makes of its claim: it writes no row but the one at hand, keeps that one
\* claimed until it settles or interrupts it, and knows the revision it interrupted.
LEMMA RunnerAtWork ==
  ASSUME TypeInv, PauseInv, RunOnce, run.pc \in WorkPcs, NEW j \in Jobs, j = run.job
  PROVE  /\ \A k \in Jobs : k # j => row'[k] = row[k]
         /\ run'.pc \in ClaimedPcs => Ours(j)'
         /\ run'.pc \in ReleasingPcs => Released(j)'
  <1>1. /\ run \in RunThread /\ row \in [Jobs -> Rows] /\ row[j] \in Rows /\ row[j].at \in Nat
        /\ run.held.at \in Nat
    BY DEF TypeInv, TypeOK, RunThread, Rows
  <1>2. /\ run.pc \in ClaimedPcs => Ours(j)
        /\ run.pc \in ReleasingPcs => Released(j)
    BY DEF PauseInv
  <1>3. \A pc : Goto(pc) => run'.pc = pc /\ run'.held = run.held
    BY <1>1 DEF Goto, RunThread
  <1> USE PcAfter DEF ClaimedPcs, ReleasingPcs
  <1>4. CASE StartBatch \/ ClaimDue \/ TakeNext \/ BatchDone \/ Undo \/ Undo2 \/ Raise
             \/ PurgeExpired
    BY <1>4 DEF StartBatch, ClaimDue, TakeNext, BatchDone, Undo, Undo2, GiveBack, Raise,
                PurgeExpired, WorkPcs, JoblessPcs
  <1>5. CASE StartWork \/ Classify \/ Send \/ AckLoad \/ AckAudit \/ RunStop \/ Refresh
             \/ Suppressed
    <2>1. row' = row /\ run.pc \in ClaimedPcs
      BY <1>5 DEF StartWork, Classify, Send, AckLoad, AckAudit, RunAudit, RunStop, Refresh,
                  Suppressed
    <2>2. Ours(j)' BY <1>2, <2>1 DEF Ours
    <2>3. run'.pc \notin ReleasingPcs
      <3>1. ASSUME NEW f, run' = [run EXCEPT !.pc = "classify", !.cand = f]
            PROVE  run'.pc = "classify"
        BY <1>1, <3>1 DEF RunThread
      <3>2. ASSUME NEW pc \in {"ackcas", "complete"}, NEW h, NEW t,
                   run' = [run EXCEPT !.pc = pc, !.held = h, !.ts = t]
            PROVE  run'.pc = pc
        BY <1>1, <3>2 DEF RunThread
      <3>3. LookAgain(run, run.job, {"paused", "interrupted"}, "fail").pc \in {"fail", "stopcas"}
        BY <1>1 DEF LookAgain, RunThread
      <3>4. CASE StartWork \/ Classify \/ Send \/ AckAudit
        BY <3>1, <3>4 DEF StartWork, Classify, Send, AckAudit, RunAudit
      <3>5. CASE AckLoad \/ Refresh BY <3>2, <3>5 DEF AckLoad, Refresh
      <3>6. CASE RunStop
        <4>1. run' = LookAgain(run, run.job, {"paused", "interrupted"}, "fail") \/ ToFail
          BY <3>6 DEF RunStop
        <4> QED BY <3>3, <4>1
      <3>7. CASE Suppressed BY <1>1, <3>7 DEF Suppressed, RunThread
      <3> QED BY <1>5, <3>4, <3>5, <3>6, <3>7
    <2> QED BY <2>1, <2>2, <2>3
  <1>6. CASE CompleteAudit \/ Clean \/ CleanDelete \/ RetryAudit \/ RetryScheduleAudit \/ ExhaustAudit
             \/ QuietAudit \/ QuietScheduleAudit
    <2>1. row' = row
      BY <1>6 DEF CompleteAudit, Clean, CleanDelete, RetryAudit, RetryScheduleAudit,
                  ExhaustAudit, QuietAudit,
                  QuietScheduleAudit, RunAudit
    <2>2. CASE CompleteAudit \/ ExhaustAudit \/ QuietScheduleAudit \/ RetryScheduleAudit \/ Clean \/ CleanDelete
      <3>1. run'.pc \in {"clean", "cleandel", "take", "undo", "retrypause"}
        BY <2>2 DEF CompleteAudit, ExhaustAudit, QuietScheduleAudit, RetryScheduleAudit, Clean,
                    CleanDelete,
                    RunAudit
      <3> QED BY <2>1, <3>1
    <2>3. CASE RetryAudit \/ QuietAudit
      <3>1. run.pc \in ReleasingPcs BY <2>3 DEF RetryAudit, QuietAudit, RunAudit
      <3>2. \/ run'.pc = "undo"
            \/ run'.pc \in {"retrynext", "quietnext"} /\ run'.held = run.held
        BY <1>3, <2>3 DEF RetryAudit, QuietAudit, RunAudit
      <3> QED BY <1>2, <2>1, <3>1, <3>2 DEF Released
    <2> QED BY <1>6, <2>2, <2>3
  <1>7. CASE AckRecord \/ AckRevert
    <2>1. run'.pc \in {"ackaudit", "fail", "stop"} /\ run.pc \in ClaimedPcs
      BY <1>7 DEF AckRecord, AckRevert
    <2>2. UNCHANGED row \/ \E rev, f : SetFp(rev, f) BY <1>7 DEF AckRecord, AckRevert
    <2>3. row'[j].state = row[j].state /\ \A k \in Jobs : k # j => row'[k] = row[k]
      BY <2>2, SetFpIs
    <2> QED BY <1>2, <2>1, <2>3 DEF Ours
  <1>8. CASE RunStopCas
    <2>1. run.pc \in ClaimedPcs BY <1>8 DEF RunStopCas
    <2>2. TryAgain(run, "fail").pc \in {"stop", "fail"} BY <1>1 DEF TryAgain, RunThread
    <2>3. run'.pc \notin ReleasingPcs BY <1>8, <2>2 DEF RunStopCas
    <2>4. row' = row \/ SetState(j, "cancelled", run.held.at) BY <1>8 DEF RunStopCas
    <2>5. (row'[j] = row[j] \/ row'[j].state = "cancelled")
          /\ \A k \in Jobs : k # j => row'[k] = row[k]
      BY <1>1, <2>4, StampIs
    <2> QED BY <1>2, <2>1, <2>3, <2>5 DEF Ours, Terminal
  <1>9. ASSUME NEW pc, NEW from, NEW to, NEW ts, NEW hit, from # to,
               RunCas(pc, from, to, ts, hit, "take")
        PROVE  /\ \A k \in Jobs : k # j => row'[k] = row[k]
               /\ \/ run'.pc \in {"take", "undo"}
                  \/ run'.pc = hit /\ row'[j].state = to /\ run'.held = row'[j]
    <2>1. row' = row \/ SetState(j, to, ts) BY <1>9 DEF RunCas
    <2>2. CASE Matches(j, from, run.held.at) /\ SetState(j, to, ts)
               /\ run' = [run EXCEPT !.pc = hit, !.held = row'[j]]
      <3>1. row'[j].state = to BY <1>1, <2>2, SetStateIs
      <3>2. run'.pc = hit /\ run'.held = row'[j] BY <1>1, <2>2 DEF RunThread
      <3> QED BY <1>1, <2>2, <3>1, <3>2, StampIs
    <2>3. CASE Next1 \/ Abort1 BY <1>1, <2>1, <2>3, StampIs
    <2> QED BY <1>9, <2>2, <2>3 DEF RunCas
  <1>10. CASE Complete \/ Exhaust \/ RetrySchedule \/ QuietSchedule
    <2>1. /\ \A k \in Jobs : k # j => row'[k] = row[k]
          /\ run'.pc \in {"take", "undo", "completeaudit", "exhaustaudit", "retryschedaudit",
                          "quietschedaudit"}
      BY <1>9, <1>10 DEF Complete, Exhaust, RetrySchedule, QuietSchedule
    <2> QED BY <2>1
  <1>11. CASE RetryInterrupt \/ QuietInterrupt
    <2>1. /\ \A k \in Jobs : k # j => row'[k] = row[k]
          /\ \/ run'.pc \in {"take", "undo"}
             \/ run'.pc \in {"retryaudit", "quietaudit"} /\ row'[j].state = "interrupted"
                /\ run'.held = row'[j]
      BY <1>9, <1>11 DEF RetryInterrupt, QuietInterrupt
    <2> QED BY <2>1 DEF Released
  <1>12. ASSUME NEW pc \in ReleasingPcs, NEW fields, NEW hit, Revise(pc, fields, hit),
                fields.state = row[j].state,
                hit \in {"retryatt", "retrysched", "quietsched"}
         PROVE  /\ \A k \in Jobs : k # j => row'[k] = row[k]
                /\ run'.pc \notin ClaimedPcs
                /\ run'.pc \in ReleasingPcs => Released(j)'
    <2>1. CASE Next1 \/ Abort1 BY <1>1, <1>12, <2>1 DEF Revise
    <2>2. CASE /\ At(j, run.held.at) /\ row' = [row EXCEPT ![j] = fields]
               /\ run' = [run EXCEPT !.pc = hit, !.held = row'[j]]
      <3>1. run'.pc = hit /\ run'.held = row'[j] /\ row'[j] = fields
        BY <1>1, <2>2 DEF RunThread
      <3>2. Released(j) BY <1>2, <1>12 DEF Revise
      <3>3. row[j].state \in {"interrupted"} \cup Terminal
        BY <1>1, <2>2, <3>2 DEF Released, At, Exists
      <3> QED BY <1>1, <1>12, <2>2, <3>1, <3>3 DEF Released
    <2> QED BY <1>12, <2>1, <2>2 DEF Revise
  <1>13. CASE RetryNext \/ QuietNext \/ RetryAttempt
    <2>1. ASSUME NEW n, NEW o
          PROVE  [row[run.job] EXCEPT !.next = n, !.off = o, !.at = run.ts].state = row[j].state
      BY <1>1 DEF Rows
    <2>2. [row[run.job] EXCEPT !.att = @ + 1, !.at = run.ts].state = row[j].state
      BY <1>1 DEF Rows
    <2> QED BY <1>12, <1>13, <2>1, <2>2 DEF RetryNext, QuietNext, RetryAttempt
  <1>14. CASE RetryPause
    <2>1. run'.pc = "undo" BY <1>14 DEF RetryPause
    <2>2. row' = row \/ SetState(j, "paused", run.ts) BY <1>14 DEF RetryPause
    <2> QED BY <1>1, <2>1, <2>2, StampIs
  <1> QED BY <1>4, <1>5, <1>6, <1>7, <1>8, <1>10, <1>11, <1>13, <1>14 DEF RunOnce

\* A request's stamp is later than the revision it read.
LEMMA StampsNext ==
  ASSUME TypeInv, PauseInv, [Next]_vars, NEW c \in Controls, ctl'[c].pc \in {"cas", "reread"}
  PROVE  ctl'[c].held.at < ctl'[c].ts
  <1>1. ctl \in [Controls -> CtlThread] /\ ctl[c] \in CtlThread BY CtlFacts
  <1>2. ctl[c].pc \in {"cas", "reread"} => ctl[c].held.at < ctl[c].ts BY DEF PauseInv
  <1>3. CASE ctl'[c] = ctl[c] BY <1>2, <1>3
  <1>4. CASE Control(c)
    <2>1. ASSUME NEW pc, pc \notin {"cas", "reread"}, CtlGoto(c, pc) PROVE FALSE
      BY <1>1, <2>1 DEF CtlGoto, CtlThread, IdleCtl
    <2>2. CASE \E op \in Ops, j \in Jobs : Request(c, op, j)
      <3>1. PICK op \in Ops, j \in Jobs : Request(c, op, j) BY <2>2
      <3>2. /\ row[j].at < now
            /\ ctl'[c] =
                 [IdleCtl EXCEPT
                    !.pc = IF row[j].state = "cancelled" THEN "remove"
                           ELSE IF op = "cancel" THEN "reread" ELSE "cas",
                    !.op = op, !.job = j, !.held = row[j], !.ts = now,
                    !.from = IF op = "cancel" THEN "none" ELSE row[j].state]
        BY <1>1, <3>1 DEF Request
      <3>3. ctl'[c].held = row[j] /\ ctl'[c].ts = now BY <3>2 DEF IdleCtl
      <3> QED BY <3>2, <3>3
    <2>3. CASE CancelReread(c)
      <3>1. ctl[c].pc = "reread" BY <2>3 DEF CancelReread
      <3>2. PICK s : ctl' = [ctl EXCEPT ![c].pc = "cas", ![c].from = s]
        BY <2>1, <2>3 DEF CancelReread
      <3>3. ctl' = [ctl EXCEPT ![c] = [ctl[c] EXCEPT !.pc = "cas", !.from = s]] BY <3>2
      <3>4. ctl'[c] = [ctl[c] EXCEPT !.pc = "cas", !.from = s] BY <1>1, <3>3
      <3>5. ctl'[c].held = ctl[c].held /\ ctl'[c].ts = ctl[c].ts BY <1>1, <3>4 DEF CtlThread
      <3> QED BY <1>2, <3>1, <3>5
    <2>4. CASE ControlCas(c) \/ Unresume(c)
      BY <2>1, <2>4 DEF ControlCas, Unresume, CtlCas
    <2>5. CASE ControlAudit(c) \/ ControlRemove(c)
      BY <2>1, <2>5 DEF ControlAudit, ControlRemove
    <2>6. CASE ControlStop(c)
      <3>1. CASE CtlGoto(c, "idle") BY <2>1, <3>1
      <3>2. CASE ctl' = [ctl EXCEPT ![c] =
                           LookAgain(ctl[c], ctl[c].job, {"paused", "interrupted"}, "idle")]
        <4>1. ctl'[c].pc \in {"idle", "stopcas"} BY <1>1, <3>2 DEF LookAgain, CtlThread
        <4> QED BY <4>1
      <3> QED BY <2>6, <3>1, <3>2 DEF ControlStop
    <2>7. CASE ControlStopCas(c)
      <3>1. CASE CtlGoto(c, "idle") BY <2>1, <3>1
      <3>2. CASE ctl' = [ctl EXCEPT ![c] = TryAgain(@, "idle")]
        <4>1. ctl'[c].pc \in {"idle", "stop"} BY <1>1, <3>2 DEF TryAgain, CtlThread
        <4> QED BY <4>1
      <3> QED BY <2>7, <3>1, <3>2 DEF ControlStopCas
    <2> QED BY <1>4, <2>2, <2>3, <2>4, <2>5, <2>6, <2>7 DEF Control
  <1>5. CASE ~Control(c) /\ ctl'[c] # ctl[c] /\ ~Restart BY <1>5, ThreadsAreTheirOwn
  <1>6. CASE Restart BY <1>6 DEF Restart, IdleCtl
  <1> QED BY <1>3, <1>4, <1>5, <1>6

\* Taking the next job of the batch is the one way from there to work.
LEMMA TakingSteps ==
  ASSUME TypeInv, RunOnce, run.pc = "take", run'.pc \in WorkPcs \cup {"take"}
  PROVE  TakeNext
  <1>1. ~BatchDone BY DEF BatchDone, IdleRun, WorkPcs, JoblessPcs
  <1> QED BY <1>1
       DEF RunOnce, StartBatch, ClaimDue, Undo, Undo2, Raise,
           PurgeExpired, StartWork, Classify, Send, AckLoad, AckRecord, AckAudit, AckRevert,
           RunStop, RunStopCas, Refresh, Complete, CompleteAudit, Clean, CleanDelete,
              RetryInterrupt,
           RetryAudit, RetryNext, RetryAttempt, RetrySchedule, RetryScheduleAudit,
           RetryPause, Exhaust, ExhaustAudit, Suppressed, QuietInterrupt, QuietAudit,
           QuietNext, QuietSchedule, QuietScheduleAudit, RunCas, RunAudit, Revise, GiveBack

\* What is not the runner's step while it has a batch is a move of the others.
LEMMA OthersAre ==
  ASSUME TypeInv, PauseInv, [Next]_vars, ~RunOnce, run.pc \in WorkPcs \cup {"take"},
         NEW j \in Jobs
  PROVE  OthersMove(j)
  <1>1. CASE UNCHANGED row BY <1>1 DEF OthersMove
  <1>2. ~Recover
    BY DEF Recover, RecoverList, RecoverInterrupt, RecoverInterruptAudit,
           RecoverInterruptPause, RecoverListAgain, RecoverSchedule, RecoverScheduleAudit,
           RecoverSchedulePause, RecoverDone, RecoverCas, RecoverAudit, RecoverPause,
           WorkPcs, JoblessPcs, RecoveryPcs
  <1>3. CASE \E c \in Controls : Control(c) BY <1>3, ControlOthers
  <1>4. CASE \E i \in Jobs : Schedule(i) \/ Create(i) BY <1>4, CreateOthers DEF PauseInv
  <1>5. CASE Tick \/ Restart \/ UNCHANGED vars BY <1>1, <1>5 DEF Tick, Restart, vars
  <1> QED BY <1>2, <1>3, <1>4, <1>5 DEF Next

\* The batch's claims outlive every step.
LEMMA PauseNext ==
  ASSUME TypeInv, PauseInv, [Next]_vars
  PROVE  PauseInv'
  <1>1. Fresh' /\ BudgetInv' /\ HeldInv' /\ TypeInv' /\ BatchMoves
    BY FreshNext, BudgetNext, HeldNext, NextType, NextBatch DEF PauseInv
  <1>2. run.todo \subseteq Jobs /\ run'.todo \subseteq Jobs
        /\ (run.pc \in WorkPcs => run.job \in Jobs)
    BY <1>1, AtHand DEF TypeInv, TypeOK, RunThread, WorkPcs
  <1>3. ClaimedPcs \cup ReleasingPcs \subseteq WorkPcs /\ "take" \notin WorkPcs
        /\ "work" \notin ReleasingPcs
    BY DEF ClaimedPcs, ReleasingPcs, WorkPcs, RunPcs, JoblessPcs, RecoveryPcs
  <1>4. ASSUME NEW c \in Controls, ctl'[c].pc \in {"cas", "reread"}
        PROVE  ctl'[c].held.at < ctl'[c].ts
    BY <1>4, StampsNext
  <1>5. CASE run'.pc \notin WorkPcs \cup {"take"}
    BY <1>1, <1>3, <1>4, <1>5 DEF PauseInv
  <1>6. CASE RunOnce /\ run.pc \in WorkPcs /\ run'.pc \in WorkPcs \cup {"take"} /\ ~Claimed
    <2>1. PICK j \in Jobs : j = run.job BY <1>2, <1>6
    <2>2. /\ \A k \in Jobs : k # j => row'[k] = row[k]
          /\ run'.pc \in ClaimedPcs => Ours(j)'
          /\ run'.pc \in ReleasingPcs => Released(j)'
      BY <1>6, <2>1, RunnerAtWork
    <2>3. /\ run'.todo = run.todo
          /\ run'.pc \in WorkPcs => run'.job = run.job
      <3>1. ~Taken BY <1>3, <1>6 DEF Taken
      <3>2. Passed => run'.todo = run.todo /\ run'.pc = "take"
        BY DEF Passed, NextRun, TypeInv, TypeOK, RunThread
      <3> QED BY <1>1, <1>3, <1>6, <3>1, <3>2 DEF BatchMoves, Ended, Worked
    <2>4. run.job \notin run.todo BY <1>6 DEF PauseInv, BudgetInv, SnapshotsHold
    <2>5. \A k \in run'.todo : Ours(k)'
      BY <1>2, <1>6, <2>1, <2>2, <2>3, <2>4 DEF PauseInv, Ours
    <2>6. run'.pc \in ClaimedPcs => Ours(run.job)'
      BY <1>3, <2>1, <2>2, <2>3 DEF Ours
    <2>7. run'.pc \in ReleasingPcs => Released(run.job)'
      BY <1>3, <2>1, <2>2, <2>3 DEF Released
    <2> QED BY <1>1, <1>4, <2>5, <2>6, <2>7 DEF PauseInv
  <1>7. CASE RunOnce /\ run.pc = "take" /\ run'.pc \in WorkPcs \cup {"take"}
    <2>1. TakeNext
      BY <1>3, <1>7, TakingSteps
    <2>2. row' = row BY <2>1 DEF TakeNext
    <2>3. Taken
      <3>1. ~Goto("undo") BY <1>7, PcAfter DEF WorkPcs, JoblessPcs
      <3>2. ASSUME NEW j \in run.todo,
                   run' = [run EXCEPT !.pc = "work", !.todo = @ \ {j}, !.job = j,
                                       !.held = run.seen[j], !.ts = run.claimed]
            PROVE  Taken
        BY <1>7, <3>2 DEF Taken, TypeInv, TypeOK, RunThread
      <3> QED BY <2>1, <3>1, <3>2 DEF TakeNext
    <2>4. \A k \in run.todo : Ours(k)' BY <1>7, <2>2 DEF PauseInv, Ours
    <2>5. (\A k \in run'.todo : Ours(k)') /\ Ours(run.job)'
      <3>1. PICK j \in run.todo : j = run'.job BY <2>3 DEF Taken
      <3>2. run'.todo \subseteq run.todo BY <2>3 DEF Taken
      <3> QED BY <2>4, <3>1, <3>2 DEF Ours
    <2>6. run'.pc \notin ReleasingPcs BY <1>3, <2>3 DEF Taken
    <2> QED BY <1>1, <1>4, <2>5, <2>6 DEF PauseInv
  <1>8. CASE Claimed
    <2>2. \A j \in run'.todo : Ours(j)' BY <1>8 DEF Claimed, Ours
    <2>3. run'.pc \notin ClaimedPcs \cup ReleasingPcs BY <1>3, <1>8 DEF Claimed
    <2> QED BY <1>1, <1>4, <2>2, <2>3 DEF PauseInv
  <1>9. CASE run' = run /\ run.pc \in WorkPcs \cup {"take"} /\ ~RunOnce
    <2>1. ASSUME NEW j \in Jobs PROVE OthersMove(j) BY <1>9, <2>1, OthersAre
    <2>2. \A k \in run.todo : Ours(k)' BY <1>1, <1>2, <1>9, <2>1, OthersKeep DEF PauseInv
    <2>3. run.pc \in ClaimedPcs \cup ReleasingPcs
            => \E j \in Jobs : j = run.job /\ mk[j].pc # "put"
      BY <1>2, <1>3 DEF PauseInv, HeldInv
    <2>4. run.pc \in ClaimedPcs => Ours(run.job)'
      <3> SUFFICES ASSUME run.pc \in ClaimedPcs PROVE Ours(run.job)' OBVIOUS
      <3>1. PICK j \in Jobs : j = run.job BY <2>3
      <3>2. Ours(j) BY <3>1 DEF PauseInv
      <3>3. Ours(j)' BY <1>1, <2>1, <3>2, OthersKeep
      <3> QED BY <1>9, <3>1, <3>3 DEF Ours
    <2>5. run.pc \in ReleasingPcs => Released(run.job)'
      <3> SUFFICES ASSUME run.pc \in ReleasingPcs PROVE Released(run.job)' OBVIOUS
      <3>1. PICK j \in Jobs : j = run.job /\ mk[j].pc # "put" BY <2>3
      <3>2. Released(j) BY <3>1 DEF PauseInv, Released
      <3>3. Released(j)' BY <1>1, <1>9, <2>1, <3>1, <3>2, OthersKeep
      <3> QED BY <1>9, <3>1, <3>3 DEF Released
    <2> QED BY <1>1, <1>4, <1>9, <2>2, <2>4, <2>5 DEF PauseInv
  <1>10. CASE ~RunOnce /\ run' # run
    <2>1. run.pc \notin WorkPcs \cup {"take"} \/ run'.pc \notin WorkPcs \cup {"take"}
      BY <1>10, OnlyRunnerWorks
    <2> QED BY <1>1, <1>3, <1>5, <1>8, <2>1 DEF BatchMoves, Ended, Passed, Worked, Taken
  <1>11. CASE run.pc \notin WorkPcs \cup {"take"}
    BY <1>1, <1>3, <1>5, <1>8, <1>11 DEF BatchMoves, Ended, Passed, Worked, Taken
  <1> QED BY <1>5, <1>6, <1>7, <1>8, <1>9, <1>10, <1>11

\* No write of the runner or of recovery finds a paused row.
LEMMA RunnerSparesPaused ==
  ASSUME TypeInv, PauseInv, RunOnce \/ Recover, NEW j \in Jobs, row[j].state = "paused"
  PROVE  row'[j] = row[j]
  <1>1. row \in [Jobs -> Rows] /\ run.todo \subseteq Jobs
        /\ (run.pc \notin JoblessPcs => run.job \in Jobs)
    BY AtHand DEF TypeInv, TypeOK, RunThread
  <1>2. CASE UNCHANGED row BY <1>2
  <1>3. ASSUME NEW i \in Jobs, NEW to, NEW ts, SetState(i, to, ts), row[i].state # "paused"
        PROVE  row'[j] = row[j]
    BY <1>1, <1>3, StampIs
  <1>4. CASE ClaimDue
    <2>1. ASSUME NEW D \in SUBSET Due,
                 row' = [k \in Jobs |->
                            IF k \in D
                            THEN [row[k] EXCEPT !.state = "running", !.at = run.claimed]
                            ELSE row[k]]
          PROVE  row'[j] = row[j]
      BY <2>1 DEF Due
    <2> QED BY <1>4, <2>1 DEF ClaimDue
  <1>5. CASE Undo \/ Undo2
    BY <1>1, <1>3, <1>5 DEF Undo, Undo2, GiveBack, Matches
  <1>6. CASE RunOnce /\ run.pc \in WorkPcs
    <2>1. CASE j # run.job
      <3>1. PICK i \in Jobs : i = run.job BY <1>1, <1>6 DEF WorkPcs
      <3> QED BY <1>6, <2>1, <3>1, RunnerAtWork
    <2>2. CASE j = run.job
      <3>1. run.pc \notin ClaimedPcs BY <2>2 DEF PauseInv, Ours, Terminal
      <3>2. run.pc \in ReleasingPcs => run.held.at < row[j].at
        BY <2>2 DEF PauseInv, Released, Terminal
      <3>3. run.held.at \in Nat /\ row[j].at \in Nat BY DEF TypeInv, TypeOK, RunThread, Rows
      <3>4. run.pc \in ReleasingPcs => ~At(j, run.held.at) BY <3>2, <3>3 DEF At
      <3>5. ASSUME NEW pc, NEW from, NEW to, NEW ts, NEW hit, NEW miss,
                   RunCas(pc, from, to, ts, hit, miss), from # "paused"
            PROVE  row'[j] = row[j]
        BY <2>2, <3>5 DEF RunCas, Matches
      <3>6. CASE RetrySchedule \/ QuietSchedule
        BY <3>5, <3>6 DEF RetrySchedule, QuietSchedule
      <3>7. CASE RetryNext \/ RetryAttempt \/ QuietNext
        BY <2>2, <3>4, <3>7 DEF RetryNext, RetryAttempt, QuietNext, Revise, ReleasingPcs
      <3>8. CASE RetryPause BY <2>2, <3>8 DEF RetryPause, Matches
      <3>9. CASE CompleteAudit \/ Clean \/ CleanDelete \/ RetryAudit \/ RetryScheduleAudit \/ ExhaustAudit
                 \/ QuietAudit \/ QuietScheduleAudit
        BY <3>9 DEF CompleteAudit, Clean, CleanDelete, RetryAudit, RetryScheduleAudit, ExhaustAudit,
                    QuietAudit, QuietScheduleAudit, RunAudit
      <3>10. RetrySchedule \/ QuietSchedule \/ RetryNext \/ RetryAttempt \/ QuietNext
             \/ RetryPause \/ CompleteAudit \/ Clean \/ CleanDelete \/ RetryAudit \/ RetryScheduleAudit
             \/ ExhaustAudit \/ QuietAudit \/ QuietScheduleAudit
        BY <1>6, <3>1
           DEF RunOnce, StartBatch, ClaimDue, TakeNext, BatchDone, Undo, Undo2, Raise,
               PurgeExpired, StartWork, Classify, Send, AckLoad, AckRecord, AckAudit, AckRevert,
               RunStop, RunStopCas, Refresh, Complete, RetryInterrupt, Exhaust, Suppressed,
               QuietInterrupt, RunCas, RunAudit, GiveBack, ClaimedPcs, WorkPcs, JoblessPcs
      <3> QED BY <3>6, <3>7, <3>8, <3>9, <3>10
    <2> QED BY <2>1, <2>2
  <1>7. CASE RunOnce /\ run.pc \notin WorkPcs
    <2>1. StartBatch \/ ClaimDue \/ TakeNext \/ BatchDone \/ Undo \/ Undo2 \/ Raise
          \/ PurgeExpired
      BY <1>7
         DEF RunOnce, StartWork, Classify, Send, AckLoad, AckRecord, AckAudit, AckRevert,
             RunStop, RunStopCas, Refresh, Complete, CompleteAudit, Clean, CleanDelete,
                RetryInterrupt,
             RetryAudit, RetryNext, RetryAttempt, RetrySchedule, RetryScheduleAudit,
             RetryPause, Exhaust, ExhaustAudit, Suppressed, QuietInterrupt, QuietAudit,
             QuietNext, QuietSchedule, QuietScheduleAudit, RunCas, RunAudit, Revise,
             WorkPcs, RunPcs, JoblessPcs, RecoveryPcs
    <2>2. CASE StartBatch \/ TakeNext \/ BatchDone \/ Raise \/ PurgeExpired
      BY <1>2, <2>2 DEF StartBatch, TakeNext, BatchDone, Raise, PurgeExpired
    <2> QED BY <1>4, <1>5, <2>1, <2>2
  <1>8. CASE RecoverList \/ RecoverInterruptAudit \/ RecoverListAgain
             \/ RecoverScheduleAudit \/ RecoverDone
    BY <1>2, <1>8 DEF RecoverList, RecoverInterruptAudit, RecoverListAgain,
                      RecoverScheduleAudit, RecoverDone, RecoverAudit
  <1>9. CASE RecoverInterrupt \/ RecoverSchedule
    BY <1>1, <1>2, <1>3, <1>9 DEF RecoverInterrupt, RecoverSchedule, RecoverCas, Matches
  <1>10. CASE RecoverInterruptPause \/ RecoverSchedulePause
    BY <1>1, <1>2, <1>3, <1>10 DEF RecoverInterruptPause, RecoverSchedulePause, RecoverPause,
                                  Matches, JoblessPcs
  <1> QED BY <1>6, <1>7, <1>8, <1>9, <1>10 DEF Recover

\* The invariant of the pause holds always.
LEMMA PauseInvAlways == Spec => [](TypeInv /\ PauseInv)
  <1>1. Init => TypeInv /\ PauseInv
    <2> SUFFICES ASSUME Init PROVE TypeInv /\ PauseInv
      OBVIOUS
    <2>1. TypeInv /\ Fresh /\ BudgetInv /\ HeldInv BY InitType, RefineInit DEF RefineInv
    <2>2. run.pc = "boot" /\ \A c \in Controls : ctl[c].pc = "idle"
      BY DEF Init, IdleRun, IdleCtl
    <2> QED BY <2>1, <2>2 DEF PauseInv, WorkPcs, JoblessPcs, ClaimedPcs, ReleasingPcs
  <1>2. TypeInv /\ PauseInv /\ [Next]_vars => (TypeInv /\ PauseInv)' BY NextType, PauseNext
  <1> QED BY <1>1, <1>2, PTL DEF Spec

\* A paused job is left alone by the runner and by recovery, whatever they read before the
\* pause: only the owner's requests, or the stop of a creation that failed, change it.
THEOREM PauseHolds == Spec => PauseIsRespected
  <1>1. ASSUME TypeInv, PauseInv, [Next]_vars
        PROVE  [\A j \in Jobs : row[j].state = "paused" /\ row'[j] # row[j]
                   => run' = run /\ (ctl' # ctl \/ mk' # mk)]_vars
    <2> SUFFICES ASSUME NEW j \in Jobs, row[j].state = "paused", row'[j] # row[j]
                 PROVE  run' = run /\ (ctl' # ctl \/ mk' # mk)
      OBVIOUS
    <2>1. ~RunOnce /\ ~Recover BY <1>1, RunnerSparesPaused
    <2>2. ~(UNCHANGED vars \/ Tick \/ Restart) BY DEF vars, Tick, Restart
    <2>3. ASSUME NEW c \in Controls, Control(c) PROVE run' = run /\ ctl' # ctl
      <3>1. /\ ctl \in [Controls -> CtlThread] /\ ctl[c] \in CtlThread BY <1>1, CtlFacts
      <3>2. PICK pc, qc : ctl[c].pc = pc /\ pc # qc /\ CtlGoto(c, qc)
        BY <2>3 DEF Control, Request, CancelReread, ControlCas, ControlAudit, Unresume,
                    ControlStop, ControlStopCas, ControlRemove, CtlCas
      <3>3. ctl'[c].pc = qc BY <3>1, <3>2 DEF CtlGoto, CtlThread, IdleCtl
      <3>4. run' = run
        BY <2>3 DEF Control, Request, CancelReread, ControlCas, ControlAudit, Unresume,
                    ControlStop, ControlStopCas, ControlRemove, CtlCas
      <3> QED BY <3>2, <3>3, <3>4
    <2>4. ASSUME NEW i \in Jobs, Schedule(i) \/ Create(i) PROVE run' = run /\ mk' # mk
      <3>1. mk \in [Jobs -> MkThread] BY <1>1, MkFacts
      <3>2. run' = run
        BY <2>4 DEF Schedule, Create, AddRow, CreateAudit, Unadd, CreateStop, CreateStopCas,
                    CreateCheck, CreateDelete, CreateUnput, RemoveRow
      <3>3. ASSUME NEW pc, pc # mk[i].pc, MkGoto(i, pc) PROVE mk' # mk
        <4>1. mk'[i].pc = pc BY <3>1, <3>3 DEF MkGoto, MkThread
        <4> QED BY <3>3, <4>1
      <3>4. CASE AddRow(i)
        <4>1. CASE MkGoto(i, "check") BY <3>2, <3>4, <3>3, <4>1 DEF AddRow
        <4>2. CASE mk' = [mk EXCEPT ![i].pc = "added", ![i].ts = now]
          <5>1. mk'[i].pc = "added" BY <3>1, <4>2 DEF MkThread
          <5> QED BY <3>4, <5>1 DEF AddRow
        <4> QED BY <3>4, <4>1, <4>2 DEF AddRow
      <3>5. CASE Unadd(i) \/ CreateDelete(i)
        <4>1. \E pc : pc # mk[i].pc /\ MkGoto(i, pc)
          BY <3>5 DEF Unadd, CreateDelete, RemoveRow
        <4> QED BY <3>2, <3>3, <4>1
      <3>6. CASE CreateStopCas(i)
        <4>1. row' # row OBVIOUS
        <4>2. mk[i].pc = "stopcas" /\ MkGoto(i, "check") BY <3>6, <4>1 DEF CreateStopCas
        <4> QED BY <3>2, <3>3, <4>2
      <3>7. ~(Schedule(i) \/ CreateAudit(i) \/ CreateStop(i) \/ CreateCheck(i)
              \/ CreateUnput(i))
        BY DEF Schedule, CreateAudit, CreateStop, CreateCheck, CreateUnput
      <3> QED BY <2>4, <3>2, <3>4, <3>5, <3>6, <3>7 DEF Create
    <2> QED BY <1>1, <2>1, <2>2, <2>3, <2>4 DEF Next
  <1> QED BY <1>1, PauseInvAlways, PTL DEF Spec, PauseIsRespected

-----------------------------------------------------------------------------
(* Claims are not lost.  A row is made running by a claim alone, and as    *)
(* long as no append and no store call failed the runner settles what it   *)
(* claimed: it knows the revision each row of its batch still has, so that *)
(* a miss of its swap means that the row was cancelled.                    *)

\* Where only a fault leads.
FaultPcs ==
    {"ackrevert", "stop", "stopcas", "retrypause", "rintpause",
     "rschedpause", "off"}

\* The claimed row has not been acknowledged: it is as it was claimed.
AsClaimedPcs == {"work", "classify", "send", "ack", "ackcas", "fail", "suppressed", "quiet"}

Waiting(j) ==
    /\ run.pc \in {"rint", "rintaudit", "take", "undo", "undo2"} \cup WorkPcs
    /\ j \in run.todo /\ row[j].at = run.seen[j].at
    /\ run.pc \notin {"rint", "rintaudit"} => row[j].at = run.claimed

AtWork(j) ==
    /\ j = run.job
    /\ \/ run.pc \in AsClaimedPcs /\ row[j].at = run.seen[j].at /\ row[j].at = run.held.at
       \/ run.pc = "complete" /\ row[j].at = run.held.at
       \/ run.pc \in {"ackaudit", "done"}

ClaimsOK ==
    /\ run.pc \notin FaultPcs /\ ~run.failed
    /\ run.pc = "undo2" => row[run.job].state # "running"
    /\ \A j \in Jobs : row[j].state = "running" => run.pc = "boot" \/ Waiting(j) \/ AtWork(j)

Unfaulted == left.audit = MaxAuditFaults /\ left.store = MaxStoreFaults

ClaimInv ==
    /\ left.audit <= MaxAuditFaults /\ left.store <= MaxStoreFaults
    /\ Unfaulted => ClaimsOK

\* Faults are only used up, and a step that uses none up meets none.
LEMMA FaultsFall ==
  ASSUME TypeInv, [Next]_vars
  PROVE  /\ left'.audit <= left.audit /\ left'.store <= left.store
         /\ left'.audit = left.audit => ~AuditFails
         /\ left'.store = left.store => ~StoreFails
  <1>1. left \in Left BY DEF TypeInv, TypeOK, Left
  <1>2. AuditFails => left'.audit = left.audit - 1 /\ left'.store = left.store
    BY <1>1 DEF AuditFails, Left
  <1>3. StoreFails => left'.store = left.store - 1 /\ left'.audit = left.audit
    BY <1>1 DEF StoreFails, Left
  <1>4. \/ left' = left \/ AuditFails \/ StoreFails
        \/ left' = [left EXCEPT !.requests = @ - 1]
        \/ left' = [left EXCEPT !.crashes = @ - 1]
    <2>1. CASE UNCHANGED vars \/ Tick \/ Restart BY <2>1 DEF vars, Tick, Restart
    <2>2. CASE RunOnce
      BY <2>2
         DEF RunOnce, StartBatch, ClaimDue, TakeNext, BatchDone, Undo, Undo2, Raise,
             PurgeExpired, StartWork, Classify, Send, AckLoad, AckRecord, AckAudit, AckRevert,
             RunStop, RunStopCas, Refresh, Complete, CompleteAudit, Clean, CleanDelete,
                RetryInterrupt,
             RetryAudit, RetryNext, RetryAttempt, RetrySchedule, RetryScheduleAudit,
             RetryPause, Exhaust, ExhaustAudit, Suppressed, QuietInterrupt, QuietAudit,
             QuietNext, QuietSchedule, QuietScheduleAudit, RunCas, RunAudit, Revise, GiveBack
    <2>3. CASE Recover
      BY <2>3
         DEF Recover, RecoverList, RecoverInterrupt, RecoverInterruptAudit,
             RecoverInterruptPause, RecoverListAgain, RecoverSchedule, RecoverScheduleAudit,
             RecoverSchedulePause, RecoverDone, RecoverCas, RecoverAudit, RecoverPause
    <2>4. ASSUME NEW c \in Controls, Control(c)
          PROVE  left' = left \/ AuditFails \/ StoreFails
                   \/ left' = [left EXCEPT !.requests = @ - 1]
      BY <2>4 DEF Control, Request, CancelReread, ControlCas, ControlAudit, Unresume,
                  ControlStop, ControlStopCas, ControlRemove, CtlCas
    <2>5. ASSUME NEW i \in Jobs, Schedule(i) \/ Create(i)
          PROVE  left' = left \/ AuditFails \/ StoreFails
      BY <2>5 DEF Schedule, Create, AddRow, CreateAudit, Unadd, CreateStop, CreateStopCas,
                  CreateCheck, CreateDelete, CreateUnput, RemoveRow
    <2> QED BY <2>1, <2>2, <2>3, <2>4, <2>5 DEF Next
  <1>5. left.audit \in Nat /\ left.store \in Nat BY <1>1 DEF Left
  <1>6. [left EXCEPT !.requests = @ - 1].audit = left.audit
        /\ [left EXCEPT !.requests = @ - 1].store = left.store
        /\ [left EXCEPT !.crashes = @ - 1].audit = left.audit
        /\ [left EXCEPT !.crashes = @ - 1].store = left.store
    BY <1>1 DEF Left
  <1>7. CASE left' = left BY <1>2, <1>3, <1>5, <1>7
  <1>8. CASE AuditFails BY <1>2, <1>3, <1>5, <1>8
  <1>9. CASE StoreFails BY <1>2, <1>3, <1>5, <1>9
  <1>10. CASE \/ left' = [left EXCEPT !.requests = @ - 1]
              \/ left' = [left EXCEPT !.crashes = @ - 1]
    <2>1. left'.audit = left.audit /\ left'.store = left.store BY <1>6, <1>10
    <2> QED BY <1>2, <1>3, <1>5, <2>1
  <1> QED BY <1>4, <1>7, <1>8, <1>9, <1>10

\* Neither the owner nor a creation makes a row running, or writes one that stays so.
LEMMA OthersClaimNothing ==
  ASSUME TypeInv, NEW j \in Jobs, row'[j].state = "running",
         \/ \E c \in Controls : Control(c)
         \/ \E i \in Jobs : Schedule(i) \/ Create(i)
  PROVE  row'[j] = row[j]
  <1>1. row \in [Jobs -> Rows] BY DEF TypeInv, TypeOK
  <1>2. ASSUME NEW i \in Jobs, NEW to, NEW ts, to # "running", SetState(i, to, ts)
        PROVE  row'[j] = row[j]
    BY <1>1, <1>2, StampIs
  <1>3. ASSUME NEW c \in Controls, Control(c) PROVE row'[j] = row[j]
    <2>1. /\ ctl[c].pc # "idle" => ctl[c].job \in Jobs
          /\ ctl[c].op \in {"pause", "resume", "cancel"}
      BY CtlFacts
    <2>2. Target(ctl[c].op) # "running" BY <2>1 DEF Target
    <2>3. CASE UNCHANGED row BY <2>3
    <2>4. CASE ControlCas(c)
      BY <1>2, <2>1, <2>2, <2>4 DEF ControlCas, CtlCas
    <2>5. CASE Unresume(c) BY <1>2, <2>1, <2>5 DEF Unresume, CtlCas
    <2>6. CASE ControlStopCas(c) BY <1>2, <2>1, <2>6 DEF ControlStopCas
    <2>7. CASE (\E op \in Ops, i \in Jobs : Request(c, op, i)) \/ CancelReread(c)
               \/ ControlAudit(c) \/ ControlStop(c) \/ ControlRemove(c)
      BY <2>3, <2>7 DEF Request, CancelReread, ControlAudit, ControlStop, ControlRemove
    <2> QED BY <1>3, <2>4, <2>5, <2>6, <2>7 DEF Control
  <1>4. ASSUME NEW i \in Jobs, Schedule(i) \/ Create(i) PROVE row'[j] = row[j]
    <2>1. CASE UNCHANGED row BY <2>1
    <2>2. CASE AddRow(i)
      <3>1. UNCHANGED row \/ row' = [row EXCEPT ![i] = [NoRow EXCEPT !.state = "scheduled",
                                             !.at = now, !.next = mk[i].next,
                                             !.off = mk[i].off]]
        BY <2>2 DEF AddRow
      <3>2. [NoRow EXCEPT !.state = "scheduled", !.at = now, !.next = mk[i].next,
                         !.off = mk[i].off].state
              = "scheduled"
        BY DEF NoRow
      <3> QED BY <1>1, <3>1, <3>2
    <2>3. CASE Unadd(i) \/ CreateDelete(i)
      <3>1. UNCHANGED row \/ row' = [row EXCEPT ![i] = NoRow]
        BY <2>3 DEF Unadd, CreateDelete, RemoveRow
      <3>2. NoRow.state = "none" BY DEF NoRow
      <3> QED BY <1>1, <3>1, <3>2
    <2>4. CASE CreateStopCas(i) BY <1>2, <2>4 DEF CreateStopCas
    <2>5. CASE Schedule(i) \/ CreateAudit(i) \/ CreateStop(i) \/ CreateCheck(i) \/ CreateUnput(i)
      BY <2>1, <2>5 DEF Schedule, CreateAudit, CreateStop, CreateCheck, CreateUnput
    <2> QED BY <1>4, <2>2, <2>3, <2>4, <2>5 DEF Create
  <1> QED BY <1>3, <1>4

\* Done with a job whose row is not running any more.
LEMMA PassingHolds ==
  ASSUME TypeInv, PauseInv, ClaimsOK, run.pc \in WorkPcs, Next1 \/ Abort1,
         row'[run.job].state # "running",
         \A k \in Jobs : k # run.job => row'[k] = row[k]
  PROVE  ClaimsOK'
  <1>1. /\ run'.pc \in {"take", "undo"} /\ run'.todo = run.todo /\ run'.failed = run.failed
        /\ run'.claimed = run.claimed
        /\ \A k \in Jobs : k # run.job => run'.seen[k] = run.seen[k]
    <2>1. run \in RunThread BY DEF TypeInv, TypeOK
    <2>2. CASE Next1 BY <2>1, <2>2 DEF Next1, NextRun, RunThread
    <2>3. CASE Abort1 BY <2>1, <2>3 DEF Abort1, NextRun, RunThread
    <2> QED BY <2>2, <2>3
  <1>2. ASSUME NEW k \in Jobs, row'[k].state = "running" PROVE Waiting(k)'
    <2>1. k # run.job /\ row'[k] = row[k] BY <1>2
    <2>2. ~AtWork(k) /\ run.pc # "boot" BY <2>1 DEF AtWork, WorkPcs, JoblessPcs
    <2>3. Waiting(k) BY <1>2, <2>1, <2>2 DEF ClaimsOK
    <2>4. run.pc \notin {"rint", "rintaudit"} BY DEF WorkPcs, JoblessPcs, RecoveryPcs
    <2> QED BY <1>1, <2>1, <2>3, <2>4 DEF Waiting
  <1> QED BY <1>1, <1>2 DEF ClaimsOK, FaultPcs

\* Working on with the same job.
LEMMA WorkingHolds ==
  ASSUME TypeInv, PauseInv, ClaimsOK, run.pc \in WorkPcs, run'.pc \in WorkPcs \ FaultPcs,
         run'.job = run.job, run'.todo = run.todo, run'.seen = run.seen /\ run'.claimed = run.claimed,
         run'.failed = run.failed,
         \A k \in Jobs : k # run.job => row'[k] = row[k],
         row'[run.job].state = "running" => AtWork(run.job)'
  PROVE  ClaimsOK'
  <1>1. ASSUME NEW k \in Jobs, row'[k].state = "running", k # run.job PROVE Waiting(k)'
    <2>1. row'[k] = row[k] BY <1>1
    <2>2. ~AtWork(k) /\ run.pc # "boot" BY <1>1 DEF AtWork, WorkPcs, JoblessPcs
    <2>3. Waiting(k) BY <1>1, <2>1, <2>2 DEF ClaimsOK
    <2>4. run.pc \notin {"rint", "rintaudit"} BY DEF WorkPcs, JoblessPcs, RecoveryPcs
    <2> QED BY <2>1, <2>3, <2>4 DEF Waiting
  <1>2. row'[run.job].state = "running" => run.job = run'.job /\ AtWork(run.job)' OBVIOUS
  <1>3. run'.pc # "undo2" BY DEF WorkPcs
  <1> QED BY <1>1, <1>2, <1>3 DEF ClaimsOK, AtWork

\* A swap of the job at hand that is over its claim, or whose revision is the row's.
LEMMA CasHolds ==
  ASSUME TypeInv, PauseInv, ClaimsOK, ~StoreFails, run.pc \in WorkPcs,
         NEW from, NEW to, NEW ts, NEW hit, from # to, to # "running",
         hit \in WorkPcs \ FaultPcs,
         RunCas(run.pc, from, to, ts, hit, "take"),
         row[run.job].state = "running" =>
             from = "running" /\ row[run.job].at = run.held.at
  PROVE  ClaimsOK'
  <1>1. run \in RunThread /\ row \in [Jobs -> Rows] /\ run.job \in Jobs
    BY AtHand DEF TypeInv, TypeOK, WorkPcs
  <1>2. CASE Matches(run.job, from, run.held.at) /\ SetState(run.job, to, ts)
             /\ run' = [run EXCEPT !.pc = hit, !.held = row'[run.job]]
    <2>1. row'[run.job].state = to
      BY <1>1, <1>2, SetStateIs
    <2>2. \A k \in Jobs : k # run.job => row'[k] = row[k] BY <1>1, <1>2, StampIs
    <2>3. /\ run'.pc = hit /\ run'.job = run.job /\ run'.todo = run.todo
          /\ run'.seen = run.seen /\ run'.claimed = run.claimed /\ run'.failed = run.failed
      BY <1>1, <1>2 DEF RunThread
    <2> QED BY <2>1, <2>2, <2>3, WorkingHolds
  <1>3. CASE ~Matches(run.job, from, run.held.at) /\ Next1 /\ UNCHANGED row
    <2>1. row[run.job].state # "running" BY <1>3 DEF Matches, At, Exists
    <2> QED BY <1>3, <2>1, PassingHolds
  <1> QED BY <1>2, <1>3 DEF RunCas

\* An audit append after the row was settled or released.
LEMMA AppendHolds ==
  ASSUME TypeInv, PauseInv, ClaimsOK, ~AuditFails, run.pc \in WorkPcs,
         NEW ok \in (WorkPcs \ FaultPcs) \cup {"take"}, NEW fail,
         RunAudit(run.pc, ok, fail),
         row[run.job].state # "running"
  PROVE  ClaimsOK'
  <1>1. run \in RunThread BY DEF TypeInv, TypeOK
  <1>2. row' = row /\ (IF ok = "take" THEN Next1 ELSE Goto(ok)) BY DEF RunAudit
  <1>3. CASE ok = "take" BY <1>2, <1>3, PassingHolds
  <1>4. CASE ok # "take"
    <2>1. /\ run'.pc = ok /\ run'.job = run.job /\ run'.todo = run.todo
          /\ run'.seen = run.seen /\ run'.claimed = run.claimed /\ run'.failed = run.failed
      BY <1>1, <1>2, <1>4 DEF RunThread, Goto
    <2> QED BY <1>2, <1>4, <2>1, WorkingHolds
  <1> QED BY <1>3, <1>4

\* An update of run time or attempts of a row that was released.
LEMMA ReviseHolds ==
  ASSUME TypeInv, PauseInv, ClaimsOK, ~StoreFails, run.pc \in WorkPcs,
         NEW fields, NEW hit \in WorkPcs \ FaultPcs, Revise(run.pc, fields, hit),
         fields.state = row[run.job].state, row[run.job].state # "running"
  PROVE  ClaimsOK'
  <1>1. run \in RunThread /\ row \in [Jobs -> Rows] /\ run.job \in Jobs
    BY AtHand DEF TypeInv, TypeOK, WorkPcs
  <1>2. CASE Next1 /\ UNCHANGED row BY <1>2, PassingHolds
  <1>3. CASE /\ row' = [row EXCEPT ![run.job] = fields]
             /\ run' = [run EXCEPT !.pc = hit, !.held = row'[run.job]]
    <2>1. row'[run.job] = fields /\ \A k \in Jobs : k # run.job => row'[k] = row[k]
      BY <1>1, <1>3
    <2>2. /\ run'.pc = hit /\ run'.job = run.job /\ run'.todo = run.todo
          /\ run'.seen = run.seen /\ run'.claimed = run.claimed /\ run'.failed = run.failed
      BY <1>1, <1>3 DEF RunThread
    <2> QED BY <2>1, <2>2, WorkingHolds
  <1> QED BY <1>2, <1>3 DEF Revise

\* The runner at work on its claim.
LEMMA WorkHolds ==
  ASSUME TypeInv, PauseInv, ClaimsOK, ~AuditFails, ~StoreFails, RunOnce, run.pc \in WorkPcs
  PROVE  ClaimsOK'
  <1>1. /\ run \in RunThread /\ row \in [Jobs -> Rows] /\ run.job \in Jobs
        /\ row[run.job] \in Rows
    BY AtHand DEF TypeInv, TypeOK, WorkPcs
  <1>2. run.job \notin run.todo BY DEF PauseInv, BudgetInv, SnapshotsHold
  <1>3. /\ row[run.job].state = "running" => AtWork(run.job)
        /\ run.pc \notin FaultPcs
    BY <1>1, <1>2 DEF ClaimsOK, Waiting, WorkPcs, JoblessPcs
  <1>4. \A pc : Goto(pc) => /\ run'.pc = pc /\ run'.job = run.job /\ run'.todo = run.todo
                            /\ run'.seen = run.seen /\ run'.claimed = run.claimed /\ run'.failed = run.failed
                            /\ run'.held = run.held
    BY <1>1 DEF Goto, RunThread
  <1>5. ToFail => /\ run'.pc = "fail" /\ run'.job = run.job /\ run'.todo = run.todo
                  /\ run'.seen = run.seen /\ run'.claimed = run.claimed /\ run'.failed = run.failed
                  /\ run'.held = run.seen[run.job]
    BY <1>1 DEF ToFail, RunThread
  <1>6. ASSUME NEW pc, NEW t, run' = [run EXCEPT !.pc = pc, !.held = row[run.job], !.ts = t]
        PROVE  /\ run'.pc = pc /\ run'.job = run.job /\ run'.todo = run.todo
               /\ run'.seen = run.seen /\ run'.claimed = run.claimed /\ run'.failed = run.failed
               /\ run'.held = row[run.job]
    BY <1>1, <1>6 DEF RunThread
  <1>7. AsClaimedPcs \cup {"ackaudit", "done", "complete"} \subseteq WorkPcs \ FaultPcs
    BY DEF AsClaimedPcs, WorkPcs, FaultPcs, RunPcs, JoblessPcs, RecoveryPcs
  <1>8. CASE StartWork \/ Classify \/ Send \/ Suppressed
    <2>1. row' = row /\ run.pc \in AsClaimedPcs \ {"fail", "quiet", "ack", "ackcas"}
      BY <1>8 DEF StartWork, Classify, Send, Suppressed, AsClaimedPcs
    <2>2. /\ run'.pc \in AsClaimedPcs \cup {"done"} /\ run'.job = run.job
          /\ run'.todo = run.todo /\ run'.seen = run.seen /\ run'.claimed = run.claimed /\ run'.failed = run.failed
          /\ run'.held \in {run.held, run.seen[run.job]}
      <3>1. \A f : run' = [run EXCEPT !.pc = "classify", !.cand = f]
               => /\ run'.pc = "classify" /\ run'.job = run.job /\ run'.todo = run.todo
                  /\ run'.seen = run.seen /\ run'.claimed = run.claimed /\ run'.failed = run.failed
                  /\ run'.held = run.held
        BY <1>1 DEF RunThread
      <3>2. CASE StartWork
        BY <1>4, <1>5, <3>1, <3>2 DEF StartWork, AsClaimedPcs
      <3>3. CASE Classify BY <1>4, <1>5, <3>3 DEF Classify, AsClaimedPcs
      <3>4. CASE Send BY <1>4, <1>5, <3>4 DEF Send, AsClaimedPcs
      <3>5. CASE Suppressed BY <1>1, <3>5 DEF Suppressed, RunThread, AsClaimedPcs
      <3> QED BY <1>8, <3>2, <3>3, <3>4, <3>5
    <2>3. row[run.job].state = "running" => AtWork(run.job)'
      BY <1>3, <2>1, <2>2 DEF AtWork, AsClaimedPcs
    <2> QED BY <1>7, <2>1, <2>2, <2>3, WorkingHolds
  <1>9. CASE AckLoad
    <2>1. row' = row /\ run.pc = "ack" BY <1>9 DEF AckLoad
    <2>2. /\ \/ run'.pc = "ackcas" /\ run'.held = row[run.job]
             \/ run'.pc = "fail" /\ run'.held = run.seen[run.job]
          /\ run'.job = run.job /\ run'.todo = run.todo /\ run'.seen = run.seen /\ run'.claimed = run.claimed
          /\ run'.failed = run.failed
      <3>1. CASE ToFail BY <1>5, <3>1
      <3>2. CASE run' = [run EXCEPT !.pc = "ackcas", !.held = row[run.job], !.ts = now]
        BY <1>6, <3>2
      <3> QED BY <1>9, <3>1, <3>2 DEF AckLoad
    <2>4. row[run.job].state = "running" => AtWork(run.job)'
      BY <1>3, <2>1, <2>2 DEF AtWork, AsClaimedPcs
    <2> QED BY <1>7, <2>1, <2>2, <2>4, WorkingHolds DEF AsClaimedPcs
  <1>10. CASE AckRecord
    <2>1. run.pc = "ackcas" BY <1>10 DEF AckRecord
    <2>2. CASE SetFp(run.held.at, run.cand) /\ Goto("ackaudit")
      <3>1. \A k \in Jobs : k # run.job => row'[k] = row[k]
        BY <1>1, <2>2 DEF SetFp
      <3> QED BY <1>4, <1>7, <2>2, <3>1, WorkingHolds DEF AtWork
    <2>3. CASE ~At(run.job, run.held.at) /\ ToFail /\ row' = row
      <3>1. row[run.job].state # "running"
        BY <1>3, <2>1, <2>3 DEF At, Exists, AtWork, AsClaimedPcs
      <3> QED BY <1>5, <1>7, <2>3, <3>1, WorkingHolds DEF AsClaimedPcs
    <2> QED BY <1>10, <2>2, <2>3 DEF AckRecord
  <1>11. CASE AckAudit
    <2>1. row' = row /\ Goto("done") BY <1>11 DEF AckAudit, RunAudit
    <2> QED BY <1>4, <1>7, <2>1, WorkingHolds DEF AtWork
  <1>12. CASE Refresh
    <2>1. CASE row[run.job].state # "running" /\ Next1
      BY <1>12, <2>1, PassingHolds DEF Refresh
    <2>2. CASE \E t : run' = [run EXCEPT !.pc = "complete", !.held = row[run.job], !.ts = t]
      <3>1. row' = row /\ run'.pc = "complete" /\ run'.held = row[run.job]
            /\ run'.job = run.job /\ run'.todo = run.todo /\ run'.seen = run.seen /\ run'.claimed = run.claimed
            /\ run'.failed = run.failed
        <4>1. row' = row BY <1>12 DEF Refresh
        <4> QED BY <1>6, <2>2, <4>1
      <3>2. AtWork(run.job)' BY <3>1 DEF AtWork
      <3>3. run'.pc \in WorkPcs \ FaultPcs BY <1>7, <3>1
      <3>4. \A k \in Jobs : row'[k] = row[k] BY <3>1
      <3> QED BY <3>1, <3>2, <3>3, <3>4, WorkingHolds
    <2> QED BY <1>12, <2>1, <2>2 DEF Refresh
  <1>13. CASE Complete \/ RetryInterrupt \/ Exhaust \/ QuietInterrupt
    <2>1. run.pc \in {"complete", "fail", "quiet"}
      BY <1>13 DEF Complete, RetryInterrupt, Exhaust, QuietInterrupt, RunCas
    <2>2. row[run.job].state = "running" => row[run.job].at = run.held.at
      BY <1>3, <2>1 DEF AtWork, AsClaimedPcs
    <2>3. {"completeaudit", "retryaudit", "exhaustaudit", "quietaudit"}
            \subseteq WorkPcs \ FaultPcs
      BY DEF WorkPcs, FaultPcs, RunPcs, JoblessPcs, RecoveryPcs
    <2>4. \E to \in {"completed", "interrupted", "failed"},
             hit \in {"completeaudit", "retryaudit", "exhaustaudit", "quietaudit"} :
                RunCas(run.pc, "running", to, run.ts, hit, "take")
      BY <1>13 DEF Complete, RetryInterrupt, Exhaust, QuietInterrupt, RunCas
    <2> QED BY <2>2, <2>3, <2>4, CasHolds
  <1>14. CASE RetrySchedule \/ QuietSchedule
    <2>1. run.pc \in {"retrysched", "quietsched"}
      BY <1>14 DEF RetrySchedule, QuietSchedule, RunCas
    <2>2. row[run.job].state # "running" BY <1>3, <2>1 DEF AtWork, AsClaimedPcs
    <2>3. {"retryschedaudit", "quietschedaudit"} \subseteq WorkPcs \ FaultPcs
      BY DEF WorkPcs, FaultPcs, RunPcs, JoblessPcs, RecoveryPcs
    <2>4. \E hit \in {"retryschedaudit", "quietschedaudit"} :
                RunCas(run.pc, "interrupted", "scheduled", run.ts, hit, "take")
      BY <1>14 DEF RetrySchedule, QuietSchedule, RunCas
    <2> QED BY <2>2, <2>3, <2>4, CasHolds
  <1>15. CASE CompleteAudit \/ RetryAudit \/ RetryScheduleAudit \/ ExhaustAudit
              \/ QuietAudit \/ QuietScheduleAudit
    <2>1. run.pc \in {"completeaudit", "retryaudit", "retryschedaudit", "exhaustaudit",
                      "quietaudit", "quietschedaudit"}
      BY <1>15 DEF CompleteAudit, RetryAudit, RetryScheduleAudit, ExhaustAudit, QuietAudit,
                   QuietScheduleAudit, RunAudit
    <2>2. row[run.job].state # "running" BY <1>3, <2>1 DEF AtWork, AsClaimedPcs
    <2>3. {"clean", "retrynext", "quietnext"} \subseteq WorkPcs \ FaultPcs
      BY DEF WorkPcs, FaultPcs, RunPcs, JoblessPcs, RecoveryPcs
    <2>4. \E ok \in {"clean", "retrynext", "quietnext", "take"} : \E fail :
                RunAudit(run.pc, ok, fail)
      BY <1>15 DEF CompleteAudit, RetryAudit, RetryScheduleAudit, ExhaustAudit, QuietAudit,
                   QuietScheduleAudit, RunAudit
    <2> QED BY <2>2, <2>3, <2>4, AppendHolds
  <1>16. CASE RetryNext \/ RetryAttempt \/ QuietNext
    <2>1. run.pc \in {"retrynext", "retryatt", "quietnext"}
      BY <1>16 DEF RetryNext, RetryAttempt, QuietNext, Revise
    <2>2. row[run.job].state # "running" BY <1>3, <2>1 DEF AtWork, AsClaimedPcs
    <2>3. {"retryatt", "retrysched", "quietsched"} \subseteq WorkPcs \ FaultPcs
      BY DEF WorkPcs, FaultPcs, RunPcs, JoblessPcs, RecoveryPcs
    <2>4. ASSUME NEW n, NEW o PROVE
          [row[run.job] EXCEPT !.next = n, !.off = o, !.at = run.ts].state = row[run.job].state
      BY <1>1 DEF Rows
    <2>5. [row[run.job] EXCEPT !.att = @ + 1, !.at = run.ts].state = row[run.job].state
      BY <1>1 DEF Rows
    <2>6. CASE RetryNext
      <3> DEFINE f == [row[run.job] EXCEPT !.next = run.ts + Backoff(run.seen[run.job].att),
                                           !.off = 0, !.at = run.ts]
      <3>1. Revise("retrynext", f, "retryatt") /\ run.pc = "retrynext"
        BY <2>6 DEF RetryNext, Revise
      <3>2. f.state = row[run.job].state BY <2>4
      <3> HIDE DEF f
      <3> QED BY <2>2, <2>3, <3>1, <3>2, ReviseHolds
    <2>7. CASE RetryAttempt
      BY <2>2, <2>3, <2>5, <2>7, ReviseHolds DEF RetryAttempt, Revise
    <2>8. CASE QuietNext
      <3> DEFINE f == [row[run.job] EXCEPT !.next = NextQuietEnd(run.ts), !.off = ZoneOffset,
                                           !.at = run.ts]
      <3>1. Revise("quietnext", f, "quietsched") /\ run.pc = "quietnext"
        BY <2>8 DEF QuietNext, Revise
      <3>2. f.state = row[run.job].state BY <2>4
      <3> HIDE DEF f
      <3> QED BY <2>2, <2>3, <3>1, <3>2, ReviseHolds
    <2> QED BY <1>16, <2>6, <2>7, <2>8
  <1>17. CASE Clean \/ CleanDelete
    <2>1. row' = row /\ run.pc \in {"clean", "cleandel"} BY <1>17 DEF Clean, CleanDelete
    <2>2. row[run.job].state # "running" BY <1>3, <2>1 DEF AtWork, AsClaimedPcs
    <2>3. CASE Next1 \/ Abort1 BY <2>1, <2>2, <2>3, PassingHolds
    <2>4. CASE Goto("cleandel")
      <3>1. "cleandel" \in WorkPcs \ FaultPcs
        BY DEF WorkPcs, FaultPcs, RunPcs, JoblessPcs, RecoveryPcs
      <3> QED BY <1>4, <2>1, <2>2, <2>4, <3>1, WorkingHolds
    <2> QED BY <1>17, <2>3, <2>4 DEF Clean, CleanDelete
  <1>18. CASE AckRevert \/ RunStop \/ RunStopCas \/ RetryPause
    BY <1>3, <1>18 DEF AckRevert, RunStop, RunStopCas, RetryPause, FaultPcs
  <1>19. CASE StartBatch \/ ClaimDue \/ TakeNext \/ BatchDone \/ Undo \/ Undo2 \/ Raise
             \/ PurgeExpired
    BY <1>19 DEF StartBatch, ClaimDue, TakeNext, BatchDone, Undo, Undo2, GiveBack, Raise,
                PurgeExpired, WorkPcs, JoblessPcs
  <1> QED BY <1>8, <1>9, <1>10, <1>11, <1>12, <1>13, <1>14, <1>15, <1>16, <1>17, <1>18, <1>19
          DEF RunOnce

\* The runner between two jobs: it claims, takes and ends its batch.
LEMMA BatchHolds ==
  ASSUME TypeInv, PauseInv, ClaimsOK, ~AuditFails, ~StoreFails, RunOnce, run.pc \notin WorkPcs
  PROVE  ClaimsOK'
  <1>1. run \in RunThread /\ row \in [Jobs -> Rows] /\ run.todo \subseteq Jobs
    BY DEF TypeInv, TypeOK, RunThread
  <1>2. StartBatch \/ ClaimDue \/ TakeNext \/ BatchDone \/ Undo \/ Undo2 \/ Raise
        \/ PurgeExpired
    BY DEF RunOnce, StartWork, Classify, Send, AckLoad, AckRecord, AckAudit, AckRevert,
           RunStop, RunStopCas, Refresh, Complete, CompleteAudit, Clean, CleanDelete,
              RetryInterrupt,
           RetryAudit, RetryNext, RetryAttempt, RetrySchedule, RetryScheduleAudit,
           RetryPause, Exhaust, ExhaustAudit, Suppressed, QuietInterrupt, QuietAudit,
           QuietNext, QuietSchedule, QuietScheduleAudit, RunCas, RunAudit, Revise,
           WorkPcs, RunPcs, JoblessPcs, RecoveryPcs
  <1>3. CASE Raise
    <2>1. row' = row /\ run.pc = "undo" /\ run.todo = {} /\ run' = IdleRun
      BY <1>3 DEF Raise
    <2>2. run'.pc = "idle" /\ ~run'.failed BY <2>1 DEF IdleRun
    <2>3. \A j \in Jobs : row[j].state # "running"
      BY <2>1 DEF ClaimsOK, Waiting, AtWork, AsClaimedPcs
    <2> QED BY <2>1, <2>2, <2>3 DEF ClaimsOK, FaultPcs
  <1>7. CASE Undo \/ Undo2
    <2>0. \/ GiveBack("running", "interrupted", "undo", "undo2")
          \/ GiveBack("interrupted", "scheduled", "undo2", "undo")
      BY <1>7 DEF Undo, Undo2
    <2>1. PICK j \in run.todo :
            \E from \in {"running", "interrupted"}, to \in {"interrupted", "scheduled"},
               hit \in {"undo", "undo2"} :
            /\ \/ run.pc = "undo" /\ from = "running" /\ hit = "undo2"
               \/ run.pc = "undo2" /\ run.job = j /\ hit = "undo"
            /\ \/ /\ SetState(j, to, run.claimed)
                  /\ run' = IF hit = "undo" THEN [run EXCEPT !.pc = "undo", !.todo = @ \ {j},
                                                             !.job = NoJob]
                            ELSE [run EXCEPT !.pc = hit, !.job = j]
               \/ /\ run' = [run EXCEPT !.pc = "undo", !.todo = @ \ {j}, !.job = NoJob]
                  /\ ~Matches(j, from, run.claimed) /\ row' = row
      <3>1. CASE GiveBack("running", "interrupted", "undo", "undo2") BY <3>1 DEF GiveBack
      <3>2. CASE GiveBack("interrupted", "scheduled", "undo2", "undo") BY <3>2 DEF GiveBack
      <3> QED BY <2>0, <3>1, <3>2
    <2>9. PICK from \in {"running", "interrupted"}, to \in {"interrupted", "scheduled"},
               hit \in {"undo", "undo2"} :
            /\ \/ run.pc = "undo" /\ from = "running" /\ hit = "undo2"
               \/ run.pc = "undo2" /\ run.job = j /\ hit = "undo"
            /\ \/ /\ SetState(j, to, run.claimed)
                  /\ run' = IF hit = "undo" THEN [run EXCEPT !.pc = "undo", !.todo = @ \ {j},
                                                             !.job = NoJob]
                            ELSE [run EXCEPT !.pc = hit, !.job = j]
               \/ /\ run' = [run EXCEPT !.pc = "undo", !.todo = @ \ {j}, !.job = NoJob]
                  /\ ~Matches(j, from, run.claimed) /\ row' = row
      BY <2>1
    <2>2. /\ run'.pc \in {"undo", "undo2"} /\ run'.failed = run.failed
          /\ run'.seen = run.seen /\ run'.claimed = run.claimed
          /\ run.todo \ {j} \subseteq run'.todo
          /\ run'.pc = "undo2" => run'.job = j
      BY <1>1, <2>9 DEF RunThread
    <2>3. \A k \in Jobs : k # j => row'[k] = row[k] BY <1>1, <2>9, StampIs
    <2>4. ASSUME NEW k \in Jobs, row[k].state = "running"
          PROVE  k \in run.todo /\ row[k].at = run.seen[k].at /\ row[k].at = run.claimed
      BY <2>9, <2>4 DEF ClaimsOK, Waiting, AtWork, AsClaimedPcs
    <2>5. row'[j].state # "running"
      <3>1. CASE SetState(j, to, run.claimed) BY <1>1, <2>9, <3>1, SetStateIs
      <3>2. CASE ~Matches(j, from, run.claimed) /\ row' = row
        BY <1>1, <2>9, <2>4, <3>2 DEF Matches, At, Exists, ClaimsOK
      <3> QED BY <2>9, <3>1, <3>2
    <2>6. ASSUME NEW k \in Jobs, row'[k].state = "running" PROVE Waiting(k)'
      BY <2>2, <2>3, <2>4, <2>5, <2>6 DEF Waiting
    <2> QED BY <2>2, <2>5, <2>6 DEF ClaimsOK, FaultPcs
  <1>4. CASE StartBatch \/ BatchDone \/ PurgeExpired
    <2>1. row' = row /\ run.pc \in {"idle", "take", "purge"}
          /\ (run.pc = "take" => run.todo = {})
      BY <1>4 DEF StartBatch, BatchDone, PurgeExpired
    <2>2. run'.pc \in {"claim", "purge", "idle"} /\ ~run'.failed
      <3>1. CASE StartBatch BY <3>1 DEF StartBatch, IdleRun
      <3>2. CASE BatchDone BY <3>2 DEF BatchDone, IdleRun
      <3>3. CASE PurgeExpired BY <3>3 DEF PurgeExpired, IdleRun
      <3> QED BY <1>4, <3>1, <3>2, <3>3
    <2>3. \A j \in Jobs : row[j].state # "running"
      BY <2>1 DEF ClaimsOK, Waiting, AtWork, AsClaimedPcs, WorkPcs, JoblessPcs
    <2> QED BY <2>1, <2>2, <2>3 DEF ClaimsOK, FaultPcs
  <1>5. CASE ClaimDue
    <2>1. PICK D \in SUBSET Due :
             /\ row' = [j \in Jobs |->
                           IF j \in D
                           THEN [row[j] EXCEPT !.state = "running", !.at = run.claimed]
                           ELSE row[j]]
             /\ run' = [run EXCEPT !.pc = "take", !.todo = D,
                         !.seen = [j \in Jobs |-> IF j \in D THEN row'[j] ELSE NoRow]]
      BY <1>5 DEF ClaimDue
    <2>2. /\ run'.pc = "take" /\ run'.todo = D /\ run'.failed = run.failed
          /\ run'.claimed = run.claimed
          /\ \A j \in D : run'.seen[j] = row'[j] /\ row'[j].at = run.claimed
      BY <1>1, <2>1 DEF RunThread, Rows, Due
    <2>3. \A j \in Jobs : row[j].state # "running"
      BY <1>5 DEF ClaimDue, ClaimsOK, Waiting, AtWork, AsClaimedPcs, WorkPcs, JoblessPcs
    <2>4. \A j \in Jobs : row'[j].state = "running" => j \in D BY <2>1, <2>3
    <2> QED BY <2>2, <2>4 DEF ClaimsOK, FaultPcs, Waiting
  <1>6. CASE TakeNext
    <2>1. PICK j \in run.todo :
             run' = [run EXCEPT !.pc = "work", !.todo = @ \ {j}, !.job = j,
                                !.held = run.seen[j], !.ts = run.claimed]
      BY <1>6 DEF TakeNext
    <2>2. /\ run'.pc = "work" /\ run'.todo = run.todo \ {j} /\ run'.job = j
          /\ run'.claimed = run.claimed
          /\ run'.held = run.seen[j] /\ run'.seen = run.seen /\ run'.failed = run.failed
      BY <1>1, <2>1 DEF RunThread
    <2>3. row' = row /\ run.pc = "take" BY <1>6 DEF TakeNext
    <2>4. ASSUME NEW k \in Jobs, row[k].state = "running"
          PROVE  k \in run.todo /\ row[k].at = run.seen[k].at /\ row[k].at = run.claimed
      BY <2>3, <2>4 DEF ClaimsOK, Waiting, AtWork, AsClaimedPcs
    <2>5. "work" \in WorkPcs \cap AsClaimedPcs /\ "work" \notin FaultPcs
      BY DEF WorkPcs, RunPcs, JoblessPcs, RecoveryPcs, AsClaimedPcs, FaultPcs
    <2> QED BY <2>2, <2>3, <2>4, <2>5 DEF ClaimsOK, Waiting, AtWork
  <1> QED BY <1>2, <1>3, <1>4, <1>5, <1>6, <1>7

\* Recovery: what a crash left running is in its list until it was interrupted.
LEMMA RecoveryHolds ==
  ASSUME TypeInv, ClaimsOK, ~AuditFails, ~StoreFails, Recover
  PROVE  ClaimsOK'
  <1>1. run \in RunThread /\ row \in [Jobs -> Rows] /\ run.todo \subseteq Jobs
    BY DEF TypeInv, TypeOK, RunThread
  <1>2. \A j \in Jobs : row[j].state = "running" /\ run.pc \in {"rint", "rintaudit"} =>
           j \in run.todo /\ row[j].at = run.seen[j].at
    BY DEF ClaimsOK, Waiting, AtWork, AsClaimedPcs
  <1>3. \A j \in Jobs : run.pc \in {"rsched", "rschedaudit"} => row[j].state # "running"
    BY DEF ClaimsOK, Waiting, AtWork, AsClaimedPcs, WorkPcs, JoblessPcs, RecoveryPcs
  <1>4. CASE RecoverList
    <2>1. run' = [IdleRun EXCEPT !.pc = "rint", !.todo = {j \in Jobs : row[j].state = "running"},
                    !.claimed = now,
                    !.seen = [j \in Jobs |-> IF j \in {i \in Jobs : row[i].state = "running"}
                                             THEN row[j] ELSE NoRow]]
          /\ row' = row
      BY <1>4 DEF RecoverList
    <2>2. /\ run'.pc = "rint" /\ run'.todo = {j \in Jobs : row[j].state = "running"}
          /\ ~run'.failed
          /\ \A j \in Jobs : row[j].state = "running" => run'.seen[j] = row[j]
      BY <2>1 DEF IdleRun
    <2> QED BY <2>1, <2>2 DEF ClaimsOK, FaultPcs, Waiting
  <1>5. CASE RecoverInterrupt
    <2>1. run.pc = "rint" BY <1>5 DEF RecoverInterrupt, RecoverCas
    <2>2. PICK j \in run.todo :
            \/ /\ SetState(j, "interrupted", run.claimed)
               /\ run' = [run EXCEPT !.pc = "rintaudit", !.job = j, !.todo = @ \ {j},
                                     !.seen[j] = row'[j]]
            \/ /\ ~Matches(j, "running", run.seen[j].at)
               /\ run' = [run EXCEPT !.todo = @ \ {j}, !.seen[j] = NoRow]
               /\ row' = row
      BY <1>5 DEF RecoverInterrupt, RecoverCas
    <2>3. /\ run'.pc \in {"rint", "rintaudit"} /\ run'.todo = run.todo \ {j}
          /\ run'.failed = run.failed
          /\ \A k \in Jobs : k # j => run'.seen[k] = run.seen[k]
      <3>1. run.seen \in [Jobs -> Rows] BY <1>1 DEF RunThread
      <3>2. ASSUME NEW r, run' = [run EXCEPT !.todo = @ \ {j}, !.seen[j] = r] PROVE <2>3
        BY <1>1, <2>1, <3>1, <3>2 DEF RunThread
      <3>3. ASSUME NEW r, run' = [run EXCEPT !.pc = "rintaudit", !.job = j, !.todo = @ \ {j},
                                            !.seen[j] = r]
            PROVE  <2>3
        BY <1>1, <2>1, <3>1, <3>3 DEF RunThread
      <3> QED BY <2>2, <3>2, <3>3
    <2>4. /\ row'[j].state # "running"
          /\ \A k \in Jobs : k # j => row'[k] = row[k]
      <3>1. j \in Jobs BY <1>1
      <3>2. CASE SetState(j, "interrupted", run.claimed)
        BY <1>1, <3>1, <3>2, SetStateIs, StampIs
      <3>3. CASE ~Matches(j, "running", run.seen[j].at) /\ row' = row
        BY <1>2, <2>1, <3>1, <3>3 DEF Matches, At, Exists
      <3> QED BY <2>2, <3>2, <3>3
    <2>5. ASSUME NEW k \in Jobs, row'[k].state = "running" PROVE Waiting(k)'
      <3>1. k # j /\ row'[k] = row[k] BY <2>4, <2>5
      <3>2. k \in run.todo /\ row[k].at = run.seen[k].at BY <1>2, <2>1, <2>5, <3>1
      <3> QED BY <2>3, <3>1, <3>2 DEF Waiting
    <2> QED BY <2>3, <2>5 DEF ClaimsOK, FaultPcs
  <1>6. CASE RecoverInterruptAudit
    <2>1. row' = row /\ run.pc = "rintaudit" /\ run' = [run EXCEPT !.pc = "rint", !.job = NoJob]
      BY <1>6 DEF RecoverInterruptAudit, RecoverAudit
    <2>2. /\ run'.pc = "rint" /\ run'.todo = run.todo /\ run'.failed = run.failed
          /\ run'.seen = run.seen
      BY <1>1, <2>1 DEF RunThread
    <2> QED BY <1>2, <2>1, <2>2 DEF ClaimsOK, FaultPcs, Waiting
  <1>7. CASE RecoverListAgain
    <2>1. row' = row /\ run.pc = "rint" /\ run.todo = {} BY <1>7 DEF RecoverListAgain
    <2>2. run'.pc = "rsched" /\ run'.failed = run.failed
      BY <1>1, <1>7 DEF RecoverListAgain, RunThread
    <2>3. \A j \in Jobs : row[j].state # "running" BY <1>2, <2>1
    <2> QED BY <2>1, <2>2, <2>3 DEF ClaimsOK, FaultPcs
  <1>8. CASE RecoverSchedule
    <2>1. run.pc = "rsched" BY <1>8 DEF RecoverSchedule, RecoverCas
    <2>2. PICK j \in run.todo :
            \/ /\ SetState(j, "scheduled", run.claimed)
               /\ run' = [run EXCEPT !.pc = "rschedaudit", !.job = j, !.todo = @ \ {j},
                                     !.seen[j] = row'[j]]
            \/ /\ run' = [run EXCEPT !.todo = @ \ {j}, !.seen[j] = NoRow]
               /\ row' = row
      BY <1>8 DEF RecoverSchedule, RecoverCas
    <2>3. run'.pc \in {"rsched", "rschedaudit"} /\ run'.failed = run.failed
      BY <1>1, <2>1, <2>2 DEF RunThread
    <2>4. j \in Jobs BY <1>1
    <2>5. \A k \in Jobs : row'[k].state # "running" BY <1>1, <1>3, <2>1, <2>2, <2>4, StampIs
    <2> QED BY <2>3, <2>5 DEF ClaimsOK, FaultPcs
  <1>9. CASE RecoverScheduleAudit \/ RecoverDone
    <2>1. row' = row /\ run.pc \in {"rsched", "rschedaudit"}
      BY <1>9 DEF RecoverScheduleAudit, RecoverAudit, RecoverDone
    <2>2. run'.pc \in {"rsched", "idle"} /\ ~run'.failed
      <3>1. CASE RecoverScheduleAudit
        BY <1>1, <3>1 DEF RecoverScheduleAudit, RecoverAudit, ClaimsOK, RunThread
      <3>2. CASE RecoverDone BY <3>2 DEF RecoverDone, ClaimsOK, IdleRun
      <3> QED BY <1>9, <3>1, <3>2
    <2> QED BY <1>3, <2>1, <2>2 DEF ClaimsOK, FaultPcs
  <1>10. CASE RecoverInterruptPause \/ RecoverSchedulePause
    BY <1>10 DEF RecoverInterruptPause, RecoverSchedulePause, RecoverPause, ClaimsOK, FaultPcs
  <1> QED BY <1>4, <1>5, <1>6, <1>7, <1>8, <1>9, <1>10 DEF Recover

\* No step without a fault loses a claim.
LEMMA ClaimsHold ==
  ASSUME TypeInv, PauseInv, ClaimsOK, [Next]_vars, ~AuditFails, ~StoreFails
  PROVE  ClaimsOK'
  <1>1. CASE RunOnce BY <1>1, WorkHolds, BatchHolds
  <1>2. CASE Recover BY <1>2, RecoveryHolds
  <1>3. ASSUME run' = run, \A j \in Jobs : row'[j].state = "running" => row'[j] = row[j]
        PROVE  ClaimsOK'
    <2>1. run.pc = "undo2" => run.job \in Jobs BY DEF TypeInv, JobAtHand, RunOK, JoblessPcs
    <2> QED BY <1>3, <2>1 DEF ClaimsOK, Waiting, AtWork
  <1>4. CASE \E c \in Controls : Control(c)
    <2>1. run' = run
      BY <1>4 DEF Control, Request, CancelReread, ControlCas, ControlAudit, Unresume,
                  ControlStop, ControlStopCas, ControlRemove, CtlCas
    <2> QED BY <1>3, <1>4, <2>1, OthersClaimNothing
  <1>5. CASE \E i \in Jobs : Schedule(i) \/ Create(i)
    <2>1. run' = run
      BY <1>5 DEF Schedule, Create, AddRow, CreateAudit, Unadd, CreateStop, CreateStopCas,
                  CreateCheck, CreateDelete, CreateUnput, RemoveRow
    <2> QED BY <1>3, <1>5, <2>1, OthersClaimNothing
  <1>6. CASE Tick \/ UNCHANGED vars BY <1>3, <1>6 DEF Tick, vars
  <1>7. CASE Restart
    <2>1. run'.pc = "boot" /\ ~run'.failed BY <1>7 DEF Restart, IdleRun
    <2> QED BY <2>1 DEF ClaimsOK, FaultPcs
  <1> QED BY <1>1, <1>2, <1>4, <1>5, <1>6, <1>7 DEF Next

\* The claims are kept in every state before the first fault.
LEMMA ClaimInvAlways == Spec => [](TypeInv /\ PauseInv /\ ClaimInv)
  <1>1. Init => ClaimInv
    <2> SUFFICES ASSUME Init PROVE ClaimInv OBVIOUS
    <2>1. left.audit = MaxAuditFaults /\ left.store = MaxStoreFaults BY DEF Init
    <2>2. run.pc = "boot" /\ ~run.failed BY DEF Init, IdleRun
    <2> QED BY <2>1, <2>2, BoundsAssumption DEF ClaimInv, ClaimsOK, FaultPcs
  <1>2. ASSUME TypeInv, PauseInv, ClaimInv, [Next]_vars PROVE ClaimInv'
    <2>1. /\ left.audit \in Nat /\ left.store \in Nat
          /\ left'.audit \in Nat /\ left'.store \in Nat
      BY <1>2, NextType DEF TypeInv, TypeOK
    <2>2. left'.audit <= MaxAuditFaults /\ left'.store <= MaxStoreFaults
      BY <1>2, <2>1, FaultsFall, BoundsAssumption DEF ClaimInv
    <2>3. ASSUME Unfaulted' PROVE ClaimsOK'
      <3>1. left'.audit = left.audit /\ left'.store = left.store
        BY <1>2, <2>1, <2>3, FaultsFall, BoundsAssumption DEF ClaimInv, Unfaulted
      <3>2. Unfaulted BY <2>3, <3>1 DEF Unfaulted
      <3> QED BY <1>2, <3>1, <3>2, FaultsFall, ClaimsHold DEF ClaimInv
    <2> QED BY <2>2, <2>3 DEF ClaimInv
  <1> QED BY <1>1, <1>2, PauseInvAlways, PTL DEF Spec

\* Until the first audit append or store call fails, a running row is held: by the batch
\* it was claimed in, by the job at hand, or by the recovery that a restart begins with.
\* No race with cancel, no acknowledgement that moves the revision, no retry, quiet
\* window or crash leaves a row running that nothing will settle.
THEOREM RunningHeld == Spec => [](Unfaulted => RunningIsHeld)
  <1>1. ClaimInv /\ Unfaulted => RunningIsHeld
    BY DEF ClaimInv, ClaimsOK, Waiting, AtWork, RunningIsHeld
  <1> QED BY <1>1, ClaimInvAlways, PTL
=============================================================================
