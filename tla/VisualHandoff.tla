---------------------------- MODULE VisualHandoff ----------------------------
(***************************************************************************)
(* Task handoffs, image transfers and their analysis (core/handoff,        *)
(* core/visual_transfer, core/vision and their handlers in core/server.py).*)
(*                                                                         *)
(* A guest offers a handoff, the owner's desktop decides about it; the     *)
(* guest may then declare an image, send it as one binary frame and have   *)
(* it analysed.  A connection's messages are handled one after another;    *)
(* their blocking parts run in threads, and so does each analysis, so that *)
(* what happens between two transactions or two uses of a lock is a step.  *)
(***************************************************************************)
EXTENDS Naturals, FiniteSets

CONSTANTS
    Guests,       \* paired connections, each with a session of its own
    Desks,        \* connections of the owner
    Handoffs, Analyses, Transfers,                 \* generated identifiers
    NoGuest, NoHandoff, NoAnalysis, NoTransfer,
    Capacity,     \* transfers that fit the aggregate cap
    Life,         \* time to live of offers, transfers and analyses
    MaxTime, MaxRequests   \* bounds

ASSUME VisualNames ==
    /\ NoGuest \notin Guests /\ NoHandoff \notin Handoffs
    /\ NoAnalysis \notin Analyses /\ NoTransfer \notin Transfers
ASSUME VisualBounds ==
    /\ Capacity \in Nat /\ Life \in Nat \ {0} /\ MaxTime \in Nat /\ MaxRequests \in Nat

VARIABLES
    now,
    offer,      \* handoffs
    desk,       \* the request in hand of each owner's connection
    req,        \* the message in hand of each guest's connection
    buffer,     \* VisualTransferBuffer._transfers
    pending,    \* _phase4_pending_transfers
    binding,    \* _phase4_transfer_analyses
    record,     \* VisionService._by_id
    job,        \* the threads of analyze, and whether _vision_jobs holds them
    worker,     \* BoundedTesseractRunner._active_process
    left,       \* requests still allowed (bound)
    told,       \* history: final states answered with success, per handoff
    lost,       \* history: transfers whose guest was never told of them, or that its
                \* clean-up left behind
    ended,      \* history: analyses answered "cancelled" or "expired"
    seen        \* history: analyses whose observation was sent

visualVars == <<now, offer, desk, req, buffer, pending, binding, record, job, worker,
                left, told, lost, ended, seen>>
handoffVars == <<offer, desk, told>>
transferVars == <<buffer, pending, binding, lost>>
visionVars == <<record, job, worker, ended, seen>>

NoOffer == [by |-> NoGuest, st |-> "none", exp |-> 0]
NoBuffer == [by |-> NoGuest, h |-> NoHandoff, st |-> "none", exp |-> 0]
NoRecord == [by |-> NoGuest, h |-> NoHandoff, t |-> NoTransfer, st |-> "none", exp |-> 0]
NoBinding == [a |-> NoAnalysis, t |-> NoTransfer]
NoJob == [by |-> NoGuest, pc |-> "none", held |-> FALSE]
NoWorker == [a |-> NoAnalysis, killed |-> FALSE]
IdleDesk == [pc |-> "idle", h |-> NoHandoff, to |-> "none"]
IdleReq == [pc |-> "idle", h |-> NoHandoff, a |-> NoAnalysis, t |-> NoTransfer,
            ok |-> FALSE, was |-> "none", leaving |-> FALSE]
Leaving == [IdleReq EXCEPT !.leaving = TRUE]

Use == left > 0 /\ left' = left - 1

\* A message ends; a cancellation of a clean-up goes on with its job.
Answer(g) ==
    req' = [req EXCEPT ![g] = IF req[g].leaving
                              THEN [Leaving EXCEPT !.pc = "release", !.a = req[g].a]
                              ELSE IdleReq]
Accepted(g, h) == offer[h].st = "accepted" /\ offer[h].by = g

-----------------------------------------------------------------------------
(* Handoffs: service.py over store.py.                                     *)

\* prepare: the index allows one offered handoff of a guest's task.
OfferHandoff(g, h) ==
    /\ req[g].pc = "idle" /\ Use
    /\ offer[h].st = "none"
    /\ ~\E k \in Handoffs : offer[k].by = g /\ offer[k].st = "offered"
    /\ offer' = [offer EXCEPT ![h] = [by |-> g, st |-> "offered", exp |-> now + Life]]
    /\ UNCHANGED <<now, desk, req, told>> /\ UNCHANGED transferVars /\ UNCHANGED visionVars

\* accept, reject and cancel of the owner: the row is read first.
Decide(o, h, to) ==
    /\ desk[o].pc = "idle" /\ Use
    /\ \/ /\ offer[h].st = "offered" /\ now < offer[h].exp
          /\ desk' = [desk EXCEPT ![o] = [pc |-> IF to = "accepted" THEN "policy" ELSE "swap",
                                          h |-> h, to |-> to]]
          /\ UNCHANGED <<offer, told>>
       \/ /\ offer[h].st = "offered" /\ now >= offer[h].exp
          /\ offer' = [offer EXCEPT ![h].st = "expired"]
          /\ UNCHANGED <<desk, told>>
       \/ /\ offer[h].st = to /\ to # "accepted"
          /\ told' = [told EXCEPT ![h] = @ \cup {to}]
          /\ UNCHANGED <<offer, desk>>
    /\ UNCHANGED <<now, req>> /\ UNCHANGED transferVars /\ UNCHANGED visionVars

AskPolicy(o) ==
    /\ desk[o].pc = "policy"
    /\ \/ desk' = [desk EXCEPT ![o].pc = "swap"]
       \/ desk' = [desk EXCEPT ![o] = IdleDesk]
    /\ UNCHANGED <<now, offer, req, left, told>> /\ UNCHANGED transferVars
    /\ UNCHANGED visionVars

\* Mutant: the row is written whatever became of it since it was read.
MutMove(h, to) ==
    /\ offer' = [offer EXCEPT ![h].st = to]
    /\ told' = [told EXCEPT ![h] = @ \cup {to}]

\* The compare-and-swap, which leaves a row alone that is there already; the
\* expiry is not looked at again.
Move(h, to) ==
    IF offer[h].st \in {"offered", to}
    THEN /\ offer' = [offer EXCEPT ![h].st = to]
         /\ told' = [told EXCEPT ![h] = @ \cup {to}]
    ELSE UNCHANGED <<offer, told>>

SwapOffer(o) ==
    /\ desk[o].pc = "swap"
    /\ Move(desk[o].h, desk[o].to)
    /\ desk' = [desk EXCEPT ![o] = IdleDesk]
    /\ UNCHANGED <<now, req, left>> /\ UNCHANGED transferVars /\ UNCHANGED visionVars

\* cancel by the guest that offered.
WithdrawOffer(g, h) ==
    /\ req[g].pc = "idle" /\ Use /\ offer[h].by = g
    /\ \/ /\ offer[h].st = "offered" /\ now < offer[h].exp
          /\ req' = [req EXCEPT ![g] = [IdleReq EXCEPT !.pc = "withdraw", !.h = h]]
          /\ UNCHANGED <<offer, told>>
       \/ /\ offer[h].st = "offered" /\ now >= offer[h].exp
          /\ offer' = [offer EXCEPT ![h].st = "expired"]
          /\ UNCHANGED <<req, told>>
       \/ /\ offer[h].st = "cancelled"
          /\ told' = [told EXCEPT ![h] = @ \cup {"cancelled"}]
          /\ UNCHANGED <<offer, req>>
    /\ UNCHANGED <<now, desk>> /\ UNCHANGED transferVars /\ UNCHANGED visionVars

SwapWithdrawn(g) ==
    /\ req[g].pc = "withdraw"
    /\ Move(req[g].h, "cancelled")
    /\ Answer(g)
    /\ UNCHANGED <<now, desk, left>> /\ UNCHANGED transferVars /\ UNCHANGED visionVars

-----------------------------------------------------------------------------
(* Transfers.                                                              *)

\* visual_transfer_begin: not while one is pending; the handoff has to be accepted,
\* have no other transfer under way, and the declared bytes have to fit.
BeginTransfer(g, h, a) ==
    /\ req[g].pc = "idle" /\ Use
    /\ pending[g] = NoTransfer /\ Accepted(g, h)
    /\ ~\E u \in Transfers : buffer[u].h = h /\ buffer[u].st = "pending"
    /\ Cardinality({u \in Transfers : buffer[u].st = "pending"}) < Capacity
    /\ req' = [req EXCEPT ![g] = [IdleReq EXCEPT !.pc = "begin", !.h = h, !.a = a]]
    /\ UNCHANGED now /\ UNCHANGED handoffVars /\ UNCHANGED transferVars /\ UNCHANGED visionVars

\* The thread holds no lock between these checks and the insertion.  When the clock
\* fails after it, the guest is told of an error and the transfer stays.
InsertTransfer(g, t) ==
    /\ req[g].pc = "begin" /\ buffer[t].st = "none"
    /\ buffer' = [buffer EXCEPT ![t] = [by |-> g, h |-> req[g].h, st |-> "pending",
                                       exp |-> now + Life]]
    /\ \/ /\ req' = [req EXCEPT ![g].pc = IF req[g].a = NoAnalysis THEN "track" ELSE "attach",
                                ![g].t = t]
          /\ UNCHANGED lost
       \/ req' = [req EXCEPT ![g] = IdleReq] /\ lost' = lost \cup {t}
    /\ UNCHANGED <<now, left, pending, binding>> /\ UNCHANGED handoffVars
    /\ UNCHANGED visionVars

\* The state of an analysis as every operation of the service first sees it.
Ended == {"completed", "cancelled", "failed", "expired"}
Current(a) == IF record[a].st \in {"awaiting", "analyzing"} /\ now >= record[a].exp
              THEN "expired" ELSE record[a].st
Set(a, st) == record' = [record EXCEPT ![a].st = st]
Discard(a) == record' = [record EXCEPT ![a] = [NoRecord EXCEPT !.st = "gone"]]

\* attach_transfer and the table of bindings; or the transfer is dropped.
AttachTransfer(g) ==
    LET r == req[g]
    IN  /\ r.pc = "attach"
        /\ IF /\ record[r.a].by = g /\ Current(r.a) = "awaiting"
              /\ record[r.a].h = r.h /\ record[r.a].t = NoTransfer
           THEN /\ record' = [record EXCEPT ![r.a].t = r.t]
                /\ binding' = [binding EXCEPT ![g] = [a |-> r.a, t |-> r.t]]
                /\ req' = [req EXCEPT ![g].pc = "track"]
           ELSE /\ req' = [req EXCEPT ![g].pc = "undo"]
                /\ UNCHANGED <<record, binding>>
        /\ UNCHANGED <<now, left, buffer, pending, lost, job, worker, ended, seen>>
        /\ UNCHANGED handoffVars

\* The table of pending transfers, after the binding was announced to the guest.
TrackTransfer(g) ==
    /\ req[g].pc = "track"
    /\ pending' = [pending EXCEPT ![g] = req[g].t]
    /\ Answer(g)
    /\ UNCHANGED <<now, left, buffer, binding, lost>> /\ UNCHANGED handoffVars
    /\ UNCHANGED visionVars

Dropped(t) == [buffer EXCEPT ![t] = IF @.st = "pending" THEN [NoBuffer EXCEPT !.st = "gone"] ELSE @]

\* Mutant: a transfer whose analysis could not be bound is forgotten.
MutUndoBegin(g) ==
    /\ req[g].pc = "undo"
    /\ Answer(g)
    /\ UNCHANGED <<buffer, now, pending, binding, lost, left>>
    /\ UNCHANGED handoffVars /\ UNCHANGED visionVars

UndoBegin(g) ==
    /\ req[g].pc = "undo"
    /\ buffer' = Dropped(req[g].t)
    /\ Answer(g)
    /\ UNCHANGED <<now, pending, binding, lost, left>>
    /\ UNCHANGED handoffVars /\ UNCHANGED visionVars

\* A bound analysis is cancelled when its transfer ends without an image.
Unbind(g) ==
    /\ pending' = [pending EXCEPT ![g] = NoTransfer]
    /\ binding' = [binding EXCEPT ![g] = NoBinding]

CancelBound(g, a) ==
    req' = [req EXCEPT ![g] = IF a = NoAnalysis THEN IdleReq
                              ELSE [IdleReq EXCEPT !.pc = "find", !.a = a]]

\* visual_transfer_cancel of a transfer the guest was told of: one that is gone or
\* completed changes nothing.
CancelTransfer(g, t) ==
    /\ req[g].pc = "idle" /\ Use
    /\ buffer[t].by = g /\ buffer[t].st = "pending" /\ t \notin lost
    /\ buffer' = Dropped(t)
    /\ Unbind(g)
    /\ CancelBound(g, binding[g].a)
    /\ UNCHANGED <<now, lost>> /\ UNCHANGED handoffVars /\ UNCHANGED visionVars

\* The binary frame, for the pending transfer: missing, expired, not what was
\* declared, or complete.
ReceiveFrame(g) ==
    LET t == pending[g]
    IN  /\ req[g].pc = "idle" /\ Use /\ t # NoTransfer
        /\ \/ /\ buffer[t].st = "pending" /\ now < buffer[t].exp
              /\ buffer' = [buffer EXCEPT ![t].st = "completed"]
              /\ req' = [req EXCEPT ![g] = [IdleReq EXCEPT !.pc = "received", !.ok = TRUE]]
           \/ /\ buffer' = Dropped(t)
              /\ req' = [req EXCEPT ![g] = [IdleReq EXCEPT !.pc = "received"]]
        /\ UNCHANGED <<now, pending, binding, lost>>
        /\ UNCHANGED handoffVars /\ UNCHANGED visionVars

\* Then the tables are cleared, and the analysis starts as a task of its own.
StartAnalysis(g) ==
    LET b == binding[g]
    IN  /\ req[g].pc = "received"
        /\ Unbind(g)
        /\ IF req[g].ok /\ b # NoBinding
           THEN /\ job' = [job EXCEPT ![b.a] = [by |-> g, pc |-> "begin", held |-> TRUE]]
                /\ Answer(g)
           ELSE CancelBound(g, b.a) /\ UNCHANGED job
        /\ UNCHANGED <<now, buffer, lost, record, worker, left, ended, seen>>
        /\ UNCHANGED handoffVars

-----------------------------------------------------------------------------
(* Analyses: the thread of analyze.                                        *)

PrepareAnalysis(g, a, h) ==
    /\ req[g].pc = "idle" /\ Use
    /\ Accepted(g, h) /\ record[a].st = "none"
    /\ record' = [record EXCEPT ![a] = [by |-> g, h |-> h, t |-> NoTransfer,
                                        st |-> "awaiting", exp |-> now + Life]]
    /\ UNCHANGED <<now, req, job, worker, ended, seen>>
    /\ UNCHANGED handoffVars /\ UNCHANGED transferVars

JobAt(a, from, to) ==
    /\ job[a].pc = from
    /\ job' = [job EXCEPT ![a].pc = to]
    /\ UNCHANGED <<now, req, left, ended>> /\ UNCHANGED handoffVars /\ UNCHANGED transferVars

\* begin_analysis.
BeginAnalysis(a) ==
    \/ /\ Current(a) = "awaiting" /\ Set(a, "analyzing")
       /\ JobAt(a, "begin", "call") /\ UNCHANGED <<worker, seen>>
    \/ /\ Current(a) # "awaiting" /\ Set(a, Current(a))
       /\ JobAt(a, "begin", "done") /\ UNCHANGED <<worker, seen>>

\* The local worker serves one analysis at a time.
CallWorker(a) ==
    \/ /\ worker = NoWorker /\ worker' = [a |-> a, killed |-> FALSE]
       /\ JobAt(a, "call", "work") /\ UNCHANGED <<record, seen>>
    \/ /\ worker # NoWorker
       /\ JobAt(a, "call", "fail") /\ UNCHANGED <<record, worker, seen>>

WorkerEnds(a) ==
    /\ worker.a = a /\ worker' = NoWorker
    /\ \/ ~worker.killed /\ JobAt(a, "work", "complete")
       \/ JobAt(a, "work", "fail")
    /\ UNCHANGED <<record, seen>>

\* Mutant: the result is taken whatever became of the analysis.
MutComplete(a) ==
    /\ Set(a, "completed") /\ JobAt(a, "complete", "discard") /\ UNCHANGED <<worker, seen>>

\* complete: only an analysis that is still being analysed.
Complete(a) ==
    \/ /\ Current(a) = "analyzing" /\ Set(a, "completed")
       /\ JobAt(a, "complete", "discard") /\ UNCHANGED <<worker, seen>>
    \/ /\ Current(a) # "analyzing" /\ Set(a, Current(a))
       /\ JobAt(a, "complete", "fail") /\ UNCHANGED <<worker, seen>>

Fail(a) == JobAt(a, "fail", "done") /\ Discard(a) /\ UNCHANGED <<worker, seen>>

DiscardResult(a) == JobAt(a, "discard", "deliver") /\ Discard(a) /\ UNCHANGED <<worker, seen>>

\* The task sends the result, unless it was cancelled while its thread ran.
Deliver(a) ==
    /\ JobAt(a, "deliver", "done")
    /\ seen' = IF job[a].held THEN seen \cup {a} ELSE seen
    /\ UNCHANGED <<record, worker>>

AnalysisStep(a) ==
    \/ BeginAnalysis(a) \/ CallWorker(a) \/ WorkerEnds(a) \/ Complete(a) \/ Fail(a)
    \/ DiscardResult(a) \/ Deliver(a)

-----------------------------------------------------------------------------
(* Cancelling an analysis, and asking after it.                            *)

\* vision_analysis_cancel takes the task out of _vision_jobs and cancels it first.
CancelAnalysis(g, a) ==
    /\ req[g].pc = "idle" /\ Use /\ record[a].by = g
    /\ job' = [job EXCEPT ![a].held = FALSE]
    /\ req' = [req EXCEPT ![g] = [IdleReq EXCEPT !.pc = "find", !.a = a]]
    /\ UNCHANGED <<now, record, worker, ended, seen>>
    /\ UNCHANGED handoffVars /\ UNCHANGED transferVars

\* runtime.cancel: the record as it is now ...
FindRecord(g) ==
    LET a == req[g].a
    IN  /\ req[g].pc = "find"
        /\ IF record[a].by = g
           THEN /\ Set(a, Current(a))
                /\ req' = [req EXCEPT ![g].pc = "cancel", ![g].was = Current(a)]
           ELSE Answer(g) /\ UNCHANGED record
        /\ UNCHANGED <<now, left, job, worker, ended, seen>>
        /\ UNCHANGED handoffVars /\ UNCHANGED transferVars

\* ... service.cancel, later ...
CancelRecord(g) ==
    LET a == req[g].a
    IN  /\ req[g].pc = "cancel"
        /\ IF record[a].by = g /\ Current(a) \notin Ended \ {"cancelled"}
           THEN Set(a, "cancelled") /\ req' = [req EXCEPT ![g].pc = "kill"]
           ELSE Answer(g) /\ UNCHANGED record
        /\ UNCHANGED <<now, left, job, worker, ended, seen>>
        /\ UNCHANGED handoffVars /\ UNCHANGED transferVars

\* ... the worker, if the record first read was being analysed: whatever process is
\* active is killed ...
KillWorker(g) ==
    /\ req[g].pc = "kill"
    /\ worker' = IF req[g].was = "analyzing" /\ worker # NoWorker
                 THEN [worker EXCEPT !.killed = TRUE] ELSE worker
    /\ req' = [req EXCEPT ![g].pc = "drop"]
    /\ UNCHANGED <<now, left, record, job, ended, seen>>
    /\ UNCHANGED handoffVars /\ UNCHANGED transferVars

\* ... and the record is discarded and "cancelled" answered.
DropRecord(g) ==
    /\ req[g].pc = "drop"
    /\ Discard(req[g].a)
    /\ ended' = ended \cup {req[g].a}
    /\ Answer(g)
    /\ UNCHANGED <<now, left, job, worker, seen>>
    /\ UNCHANGED handoffVars /\ UNCHANGED transferVars

\* vision_analysis_status: an expired analysis is discarded and said to be so.
AskStatus(g, a) ==
    /\ req[g].pc = "idle" /\ Use
    /\ record[a].by = g /\ Current(a) = "expired"
    /\ Discard(a)
    /\ ended' = ended \cup {a}
    /\ UNCHANGED <<now, req, job, worker, seen>>
    /\ UNCHANGED handoffVars /\ UNCHANGED transferVars

-----------------------------------------------------------------------------
(* Disconnection, between two messages or when one cannot be sent.         *)

\* The client is lost.
Disconnected(g) ==
    /\ \/ req[g].pc \in {"idle", "received"}
       \/ req[g].pc = "track" /\ req[g].a # NoAnalysis
    /\ req' = [req EXCEPT ![g] = [Leaving EXCEPT !.pc = "forget"]]
    /\ UNCHANGED <<now, left, pending, binding>> /\ UNCHANGED handoffVars
    /\ UNCHANGED visionVars

\* clear_session walks over the table of transfers and drops the guest's.
Disconnect(g) ==
    /\ buffer' = [t \in Transfers |-> IF buffer[t].by = g THEN [NoBuffer EXCEPT !.st = "gone"]
                                      ELSE buffer[t]]
    /\ UNCHANGED lost
    /\ Disconnected(g)

\* The table has no lock: when the thread of another guest's message, or the sweeper,
\* changes it meanwhile, the walk may end in an error nobody is told of.
DisconnectFails(g) ==
    /\ \/ \E e \in Guests \ {g} : req[e].pc = "begin"
       \/ \E t \in Transfers : /\ buffer[t].st = "pending"
                             /\ (buffer[t].by # g \/ buffer[t].exp <= now)
    /\ lost' = lost \cup {t \in Transfers : buffer[t].by = g}
    /\ UNCHANGED buffer
    /\ Disconnected(g)

\* What the server knows of them goes later.
ForgetTransfers(g) ==
    /\ req[g].pc = "forget"
    /\ Unbind(g)
    /\ req' = [req EXCEPT ![g] = [Leaving EXCEPT !.pc = "jobs"]]
    /\ UNCHANGED <<now, left, buffer, lost>> /\ UNCHANGED handoffVars /\ UNCHANGED visionVars

\* Each task still held: cancel_bound, then the task is cancelled.
Held(g) == {a \in Analyses : job[a].held /\ job[a].by = g /\ job[a].pc # "done"}

CancelNextJob(g) ==
    /\ req[g].pc = "jobs"
    /\ \E a \in Held(g) : req' = [req EXCEPT ![g] = [Leaving EXCEPT !.pc = "find", !.a = a]]
    /\ UNCHANGED <<now, left>> /\ UNCHANGED handoffVars /\ UNCHANGED transferVars
    /\ UNCHANGED visionVars

ReleaseJob(g) ==
    /\ req[g].pc = "release"
    /\ job' = [job EXCEPT ![req[g].a].held = FALSE]
    /\ req' = [req EXCEPT ![g] = [Leaving EXCEPT !.pc = "jobs"]]
    /\ UNCHANGED <<now, left, record, worker, ended, seen>>
    /\ UNCHANGED handoffVars /\ UNCHANGED transferVars

\* Mutant: only the analyses with a running task are cleaned up.
MutClearSession(g) ==
    /\ req[g].pc = "jobs" /\ Held(g) = {}
    /\ req' = [req EXCEPT ![g].pc = "gone"]
    /\ UNCHANGED <<record, now, left, job, worker, ended, seen>>
    /\ UNCHANGED handoffVars /\ UNCHANGED transferVars

ClearSession(g) ==
    /\ req[g].pc = "jobs" /\ Held(g) = {}
    /\ record' = [a \in Analyses |-> IF record[a].by = g THEN [NoRecord EXCEPT !.st = "gone"]
                                     ELSE record[a]]
    /\ req' = [req EXCEPT ![g].pc = "gone"]
    /\ UNCHANGED <<now, left, job, worker, ended, seen>>
    /\ UNCHANGED handoffVars /\ UNCHANGED transferVars

-----------------------------------------------------------------------------
Tick ==
    /\ now < MaxTime
    /\ now' = now + 1
    /\ UNCHANGED <<req, left>>
    /\ UNCHANGED handoffVars /\ UNCHANGED transferVars /\ UNCHANGED visionVars

\* _expire_phase4_state: one subsystem after the other.
SweepOffers ==
    LET due == {h \in Handoffs : offer[h].st = "offered" /\ offer[h].exp <= now}
    IN  /\ due # {}
        /\ offer' = [h \in Handoffs |-> IF h \in due THEN [offer[h] EXCEPT !.st = "expired"]
                                        ELSE offer[h]]
        /\ UNCHANGED <<now, req, left, desk, told>>
        /\ UNCHANGED transferVars /\ UNCHANGED visionVars

SweepTransfers ==
    LET due == {t \in Transfers : buffer[t].st = "pending" /\ buffer[t].exp <= now}
    IN  /\ due # {}
        /\ buffer' = [t \in Transfers |-> IF t \in due THEN [NoBuffer EXCEPT !.st = "gone"]
                                          ELSE buffer[t]]
        /\ UNCHANGED <<now, req, left, pending, binding, lost>>
        /\ UNCHANGED handoffVars /\ UNCHANGED visionVars

SweepAnalyses ==
    /\ \E a \in Analyses : Current(a) # record[a].st
    /\ record' = [a \in Analyses |-> [record[a] EXCEPT !.st = Current(a)]]
    /\ UNCHANGED <<now, req, left, job, worker, ended, seen>>
    /\ UNCHANGED handoffVars /\ UNCHANGED transferVars

Init ==
    /\ now = 0 /\ left = MaxRequests
    /\ offer = [h \in Handoffs |-> NoOffer] /\ desk = [o \in Desks |-> IdleDesk]
    /\ req = [g \in Guests |-> IdleReq]
    /\ buffer = [t \in Transfers |-> NoBuffer]
    /\ pending = [g \in Guests |-> NoTransfer] /\ binding = [g \in Guests |-> NoBinding]
    /\ record = [a \in Analyses |-> NoRecord] /\ job = [a \in Analyses |-> NoJob]
    /\ worker = NoWorker
    /\ told = [h \in Handoffs |-> {}] /\ lost = {} /\ ended = {} /\ seen = {}

Message(g) ==
    \/ \E h \in Handoffs :
          \/ OfferHandoff(g, h) \/ WithdrawOffer(g, h)
          \/ \E a \in Analyses : PrepareAnalysis(g, a, h)
          \/ \E a \in Analyses \cup {NoAnalysis} : BeginTransfer(g, h, a)
    \/ \E t \in Transfers : CancelTransfer(g, t)
    \/ \E a \in Analyses : CancelAnalysis(g, a) \/ AskStatus(g, a)
    \/ ReceiveFrame(g) \/ Disconnect(g) \/ DisconnectFails(g)

Handle(g) ==
    \/ SwapWithdrawn(g) \/ \E t \in Transfers : InsertTransfer(g, t)
    \/ AttachTransfer(g) \/ TrackTransfer(g) \/ UndoBegin(g) \/ StartAnalysis(g)
    \/ FindRecord(g) \/ CancelRecord(g) \/ KillWorker(g) \/ DropRecord(g)
    \/ ForgetTransfers(g) \/ CancelNextJob(g) \/ ReleaseJob(g)
    \/ ClearSession(g)

OwnerStep(o) ==
    \/ \E h \in Handoffs, to \in {"accepted", "rejected", "cancelled"} : Decide(o, h, to)
    \/ AskPolicy(o) \/ SwapOffer(o)

Next ==
    \/ \E g \in Guests : Message(g) \/ Handle(g)
    \/ \E o \in Desks : OwnerStep(o)
    \/ \E a \in Analyses : AnalysisStep(a)
    \/ Tick \/ SweepOffers \/ SweepTransfers \/ SweepAnalyses

Spec == Init /\ [][Next]_visualVars
=============================================================================
