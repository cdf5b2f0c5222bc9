------------------------- MODULE VisualHandoffProofs -------------------------
(***************************************************************************)
(* Proofs about handoffs, transfers and analyses, for every number of      *)
(* guests, desktops and identifiers and every bound: decisions about a     *)
(* handoff agree, what was said to be ended is not shown, a transfer that  *)
(* holds a place is tracked, and a guest that is gone leaves nothing.      *)
(*                                                                         *)
(* Handoffs, transfers and analyses share only the request in hand of each *)
(* guest and the binding of an analysis to a transfer, so that the         *)
(* invariant has a part for each and a step disturbs few of them.          *)
(***************************************************************************)
EXTENDS VisualHandoffProperties, TLAPS

Decisions == {"accepted", "rejected", "cancelled"}
Offers == [by : Guests \cup {NoGuest}, exp : Nat,
           st : {"none", "offered", "expired"} \cup Decisions]
DeskReqs == [pc : {"idle", "policy", "swap"}, h : Handoffs \cup {NoHandoff},
             to : Decisions \cup {"none"}]
Buffers == [by : Guests \cup {NoGuest}, h : Handoffs \cup {NoHandoff}, exp : Nat,
            st : {"none", "pending", "completed", "gone"}]
States == {"none", "awaiting", "analyzing", "completed", "cancelled", "failed", "expired",
           "gone"}
Records == [by : Guests \cup {NoGuest}, h : Handoffs \cup {NoHandoff},
            t : Transfers \cup {NoTransfer}, st : States, exp : Nat]
Bindings == [a : Analyses \cup {NoAnalysis}, t : Transfers \cup {NoTransfer}]
JobSteps == {"none", "begin", "call", "work", "complete", "discard", "deliver", "fail", "done"}
Jobs == [by : Guests \cup {NoGuest}, pc : JobSteps, held : BOOLEAN]
Cancelling == {"find", "cancel", "kill", "drop"}
Parting == {"forget", "jobs", "release", "gone"}
Requests == [pc : {"idle", "withdraw", "begin", "attach", "track", "undo", "received"}
                  \cup Parting \cup Cancelling,
             h : Handoffs \cup {NoHandoff}, a : Analyses \cup {NoAnalysis},
             t : Transfers \cup {NoTransfer}, ok : BOOLEAN, was : States, leaving : BOOLEAN]

\* What a request in hand is about.
RequestOK(r) ==
    /\ r.pc = "withdraw" => r.h \in Handoffs
    /\ r.pc \in {"attach", "track", "undo"} => r.t \in Transfers
    /\ r.pc \in {"attach", "release"} \cup Cancelling => r.a \in Analyses
    /\ r.pc \in Parting => r.leaving
    /\ r.leaving => r.pc \in Parting \cup Cancelling

Requesting ==
    /\ now \in Nat /\ req \in [Guests -> Requests]
    /\ \A g \in Guests : RequestOK(req[g])

\* Handoffs: a decision that was told is the one that was made.
OffersOK ==
    /\ offer \in [Handoffs -> Offers] /\ desk \in [Desks -> DeskReqs]
    /\ told \in [Handoffs -> SUBSET Decisions]
    /\ \A o \in Desks : desk[o].pc # "idle" => desk[o].h \in Handoffs /\ desk[o].to \in Decisions
    /\ OneDecision

\* Transfers: a place in the buffer is tracked, until its guest is leaving.
TransferTypes ==
    /\ buffer \in [Transfers -> Buffers] /\ pending \in [Guests -> Transfers \cup {NoTransfer}]
    /\ binding \in [Guests -> Bindings] /\ lost \subseteq Transfers

\* Steps of a message at which the tables do not say all of a transfer.
Declaring == {"begin", "attach", "track", "undo"}

TrackedBy(g) ==
    /\ \A t \in Transfers \ lost : buffer[t].st = "pending" /\ buffer[t].by = g =>
          pending[g] = t \/ InHand(g, t)
    /\ binding[g] # NoBinding =>
          /\ binding[g].a \in Analyses /\ binding[g].t \in Transfers
          /\ \/ pending[g] = binding[g].t
             \/ req[g].pc = "track" /\ req[g].t = binding[g].t
             \/ req[g].pc = "forget"
    /\ req[g].pc \in Declaring => pending[g] = NoTransfer
    /\ req[g].pc = "received" =>
          \A t \in Transfers \ lost : buffer[t].by = g => buffer[t].st # "pending"
    /\ req[g].leaving => /\ req[g].pc = "forget" \/ pending[g] = NoTransfer
                         /\ \A t \in Transfers \ lost : buffer[t].by # g

TransfersOK ==
    /\ TransferTypes
    /\ \A t \in Transfers : buffer[t].st = "pending" => buffer[t].by \in Guests
    /\ \A g \in Guests : TrackedBy(g)

\* Analyses: what a record, its thread and its binding say of each other.
VisionTypes ==
    /\ record \in [Analyses -> Records]
    /\ job \in [Analyses -> Jobs]
    /\ ended \in SUBSET Analyses /\ seen \in SUBSET Analyses

RecordsOK ==
    \A a \in Analyses :
        /\ record[a].st \in {"none", "gone"} => record[a].by = NoGuest
        /\ job[a].pc # "none" =>
              /\ record[a].st # "none"
              /\ record[a].st = "awaiting" => record[a].t # NoTransfer
        /\ job[a].pc = "discard" => record[a].st \in {"completed", "gone"}
        /\ job[a].pc = "deliver" => record[a].st = "gone"
        /\ a \in seen => job[a].pc = "done" /\ record[a].st = "gone"
        /\ a \in ended => /\ record[a].st = "gone" /\ a \notin seen
                          /\ job[a].pc \notin {"discard", "deliver"}

BoundOK ==
    \A g \in Guests : binding[g] # NoBinding =>
        LET a == binding[g].a
        IN  /\ job[a].pc = "none" /\ record[a].st # "none"
            /\ record[a].st = "awaiting" => record[a].t # NoTransfer
            /\ \A e \in Guests : binding[e].a = a => e = g

HeldBy(g, a) == job[a].held /\ job[a].by = g /\ job[a].pc # "done"

CancellingOK ==
    \A g \in Guests :
        /\ req[g].pc \in {"kill", "drop"} =>
              LET a == req[g].a
              IN  /\ record[a].st \in {"cancelled", "gone"} /\ a \notin seen
                  /\ job[a].pc \notin {"discard", "deliver"}
        /\ req[g].pc = "gone" => \A a \in Analyses : record[a].by # g /\ ~HeldBy(g, a)

VisionOK == VisionTypes /\ RecordsOK /\ BoundOK /\ CancellingOK

Inv == Requesting /\ OffersOK /\ TransfersOK /\ VisionOK

-----------------------------------------------------------------------------
(* Requests, and the parts a step leaves alone.                            *)

LEMMA RequestMoves ==
  ASSUME Requesting, NEW g \in Guests, NEW r \in Requests, RequestOK(r),
         req' = [req EXCEPT ![g] = r], now' = now
  PROVE  /\ Requesting' /\ req'[g] = r
         /\ \A e \in Guests : e # g => req'[e] = req[e]
  <1>1. \A e \in Guests : req'[e] = IF e = g THEN r ELSE req[e] BY DEF Requesting
  <1>2. req' \in [Guests -> Requests] BY DEF Requesting
  <1>3. \A e \in Guests : RequestOK(req'[e]) BY <1>1 DEF Requesting
  <1> QED BY <1>1, <1>2, <1>3 DEF Requesting

\* A new request, or the end of one.
LEMMA IdleTypes ==
  /\ IdleReq \in Requests /\ IdleReq.pc = "idle" /\ ~IdleReq.leaving /\ RequestOK(IdleReq)
  BY DEF IdleReq, Requests, RequestOK, Parting, Cancelling, States

\* A guest that is leaving.
LEMMA LeavingTypes ==
  ASSUME NEW pc \in Parting \cup Cancelling, NEW a \in Analyses \cup {NoAnalysis},
         pc \in {"release"} \cup Cancelling => a \in Analyses
  PROVE  LET r == [Leaving EXCEPT !.pc = pc, !.a = a]
         IN  r \in Requests /\ r.pc = pc /\ r.a = a /\ r.leaving /\ RequestOK(r)
  BY DEF Leaving, IdleReq, Requests, RequestOK, Parting, Cancelling, States

LEMMA PartingTypes ==
  ASSUME NEW pc \in {"forget", "jobs"}
  PROVE  LET r == [Leaving EXCEPT !.pc = pc]
         IN  r \in Requests /\ r.pc = pc /\ r.leaving /\ RequestOK(r)
  BY DEF Leaving, IdleReq, Requests, RequestOK, Parting, Cancelling, States

LEMMA Answered ==
  ASSUME Requesting, NEW g \in Guests, Answer(g),
         req[g].pc \in Cancelling \/ ~req[g].leaving
  PROVE  \E r \in Requests :
            /\ RequestOK(r) /\ req' = [req EXCEPT ![g] = r] /\ r.leaving = req[g].leaving
            /\ r.pc = IF req[g].leaving THEN "release" ELSE "idle"
  <1>1. req[g].leaving \in BOOLEAN /\ RequestOK(req[g]) BY DEF Requesting, Requests
  <1>2. CASE req[g].leaving
    <2>1. PICK a \in Analyses : a = req[g].a BY <1>1, <1>2 DEF RequestOK
    <2> DEFINE r == [Leaving EXCEPT !.pc = "release", !.a = a]
    <2>2. "release" \in Parting BY DEF Parting
    <2>3. r \in Requests /\ r.pc = "release" /\ r.leaving /\ RequestOK(r)
      BY <2>2, LeavingTypes
    <2>4. req' = [req EXCEPT ![g] = r] BY <1>2, <2>1 DEF Answer
    <2> HIDE DEF r
    <2> QED BY <1>1, <1>2, <2>3, <2>4
  <1>3. CASE ~req[g].leaving
    BY <1>1, <1>3, IdleTypes DEF Answer, IdleReq
  <1> QED BY <1>1, <1>2, <1>3

LEMMA OffersStay ==
  ASSUME OffersOK, UNCHANGED handoffVars
  PROVE  OffersOK'
  BY DEF OffersOK, OneDecision, handoffVars

LEMMA TransfersStay ==
  ASSUME TransfersOK, UNCHANGED transferVars, NEW g \in Guests,
         \A e \in Guests : e # g => req'[e] = req[e],
         req'[g] = req[g] \/ /\ req[g].pc \notin Declaring \cup {"forget"}
                             /\ req'[g].pc \notin Declaring \cup {"received", "forget"}
                             /\ req'[g].leaving => req[g].leaving
  PROVE  TransfersOK'
  <1>1. TransferTypes' BY DEF TransfersOK, TransferTypes, transferVars
  <1>2. ASSUME NEW e \in Guests PROVE TrackedBy(e)'
    <2>1. TrackedBy(e) BY DEF TransfersOK
    <2> QED BY <2>1 DEF TrackedBy, InHand, Declaring, transferVars
  <1> QED BY <1>1, <1>2 DEF TransfersOK, transferVars

\* How a record may change: what has ended does not begin again.
Aged(a) ==
    LET was == record[a]
        is == record'[a]
    IN  /\ is.by = was.by \/ is.by = NoGuest \/ req'[is.by].pc # "gone"
        /\ is.st \in {"none", "gone"} => is.by = NoGuest
        /\ is.st = "none" => was.st = "none"
        /\ is.st = "awaiting" => \/ was.st = "none"
                                 \/ was.st = "awaiting" /\ (is.t = was.t \/ is.t # NoTransfer)
        /\ was.st = "gone" => is.st = "gone"
        /\ was.st = "completed" => is.st \in {"completed", "gone"}
        /\ was.st = "cancelled" => is.st \in {"cancelled", "gone"}

\* How a thread may go on, or start with what was bound.
WorkedOn(a) ==
    /\ \/ job'[a].pc = job[a].pc
       \/ /\ job[a].pc \notin {"none", "done"} /\ job'[a].pc # "none"
          /\ job'[a].pc = "discard" => /\ record[a].st \notin {"cancelled", "gone"}
                                       /\ record'[a].st = "completed"
          /\ job'[a].pc = "deliver" => job[a].pc = "discard" /\ record'[a].st = "gone"
       \/ /\ job[a].pc = "none" /\ job'[a].pc = "begin" /\ record'[a] = record[a]
          /\ \E g \in Guests : binding[g] # NoBinding /\ binding[g].a = a /\ binding'[g] = NoBinding
    /\ \A g \in Guests : HeldBy(g, a)' => HeldBy(g, a) \/ req'[g].pc # "gone"

\* Neither cancelled nor said to be ended while its result may still be shown.
NotShown(a) == a \notin seen /\ job[a].pc \notin {"discard", "deliver"}

LEMMA RecordsStep ==
  ASSUME VisionOK, VisionTypes', \A a \in Analyses : Aged(a) /\ WorkedOn(a),
         \A a \in seen' : a \in seen \/ (job[a].pc = "deliver" /\ job'[a].pc = "done"),
         \A a \in ended' : a \in ended \/ (record'[a].st = "gone" /\ NotShown(a)'),
         \A g \in Guests : req'[g].pc \in {"kill", "drop"} =>
            \E a \in Analyses :
               /\ a = req'[g].a
               /\ \/ req[g].pc \in {"kill", "drop"} /\ a = req[g].a
                  \/ record'[a].st = "cancelled" /\ NotShown(a)',
         \A g \in Guests : req'[g].pc = "gone" =>
            req[g].pc = "gone" \/ (\A a \in Analyses : record'[a].by # g /\ ~HeldBy(g, a)')
  PROVE  RecordsOK' /\ CancellingOK'
  <1>0. NoGuest \notin Guests BY VisualNames
  <1>1. ASSUME NEW a \in Analyses
        PROVE  /\ record'[a].st \in {"none", "gone"} => record'[a].by = NoGuest
               /\ job'[a].pc # "none" =>
                     /\ record'[a].st # "none"
                     /\ record'[a].st = "awaiting" => record'[a].t # NoTransfer
               /\ job'[a].pc = "discard" => record'[a].st \in {"completed", "gone"}
               /\ job'[a].pc = "deliver" => record'[a].st = "gone"
               /\ a \in seen' => job'[a].pc = "done" /\ record'[a].st = "gone"
               /\ a \in ended' => /\ record'[a].st = "gone" /\ a \notin seen'
                                  /\ job'[a].pc \notin {"discard", "deliver"}
    <2>1. Aged(a) /\ WorkedOn(a) OBVIOUS
    <2>2. CASE job[a].pc = "none" /\ job'[a].pc = "begin" /\ record'[a] = record[a]
               /\ \E g \in Guests : binding[g] # NoBinding /\ binding[g].a = a
      <3>1. record[a].st # "none" /\ (record[a].st = "awaiting" => record[a].t # NoTransfer)
        BY <2>2 DEF VisionOK, BoundOK
      <3> QED BY <2>1, <2>2, <3>1 DEF VisionOK, RecordsOK, Aged, NotShown
    <2>3. CASE \/ job'[a].pc = job[a].pc
               \/ /\ job[a].pc \notin {"none", "done"} /\ job'[a].pc # "none"
                  /\ job'[a].pc = "discard" => /\ record[a].st \notin {"cancelled", "gone"}
                                               /\ record'[a].st = "completed"
                  /\ job'[a].pc = "deliver" => job[a].pc = "discard" /\ record'[a].st = "gone"
      BY <2>1, <2>3 DEF VisionOK, RecordsOK, Aged, NotShown
    <2> QED BY <2>1, <2>2, <2>3 DEF WorkedOn
  <1>2. RecordsOK' BY <1>1 DEF RecordsOK
  <1>3. ASSUME NEW g \in Guests, req'[g].pc \in {"kill", "drop"}
        PROVE  LET a == req'[g].a
               IN  /\ record'[a].st \in {"cancelled", "gone"} /\ a \notin seen'
                   /\ job'[a].pc \notin {"discard", "deliver"}
    <2>1. PICK a \in Analyses :
            /\ a = req'[g].a
            /\ \/ req[g].pc \in {"kill", "drop"} /\ a = req[g].a
               \/ record'[a].st = "cancelled" /\ NotShown(a)'
      BY <1>3
    <2>2. CASE req[g].pc \in {"kill", "drop"} /\ a = req[g].a
      <3>1. record[a].st \in {"cancelled", "gone"} /\ NotShown(a)
        BY <2>2 DEF VisionOK, CancellingOK, NotShown
      <3> QED BY <2>1, <3>1 DEF Aged, WorkedOn, NotShown
    <2>3. CASE record'[a].st = "cancelled" /\ NotShown(a)'
      BY <2>1, <2>3 DEF NotShown
    <2> QED BY <2>1, <2>2, <2>3
  <1>4. ASSUME NEW g \in Guests, req'[g].pc = "gone", NEW a \in Analyses
        PROVE  record'[a].by # g /\ ~HeldBy(g, a)'
    BY <1>0, <1>4 DEF VisionOK, CancellingOK, Aged, WorkedOn
  <1>5. CancellingOK' BY <1>3, <1>4 DEF CancellingOK
  <1> QED BY <1>2, <1>5

\* A binding that remains says what it said.
LEMMA BoundStep ==
  ASSUME VisionOK, \A a \in Analyses : Aged(a) /\ WorkedOn(a),
         \A g \in Guests : binding'[g] \in {binding[g], NoBinding},
         \A g \in Guests : binding[g] # NoBinding => binding[g].a \in Analyses
  PROVE  BoundOK'
  <1> SUFFICES ASSUME NEW g \in Guests, binding'[g] # NoBinding
               PROVE  LET a == binding[g].a
                      IN  /\ job'[a].pc = "none" /\ record'[a].st # "none"
                          /\ record'[a].st = "awaiting" => record'[a].t # NoTransfer
                          /\ \A e \in Guests : binding'[e].a = a => e = g
    BY DEF BoundOK
  <1>1. /\ binding'[g] = binding[g] /\ binding[g] # NoBinding /\ binding[g].a \in Analyses
        /\ NoBinding.a = NoAnalysis /\ NoAnalysis \notin Analyses
    BY VisualNames DEF NoBinding
  <1>2. \A e \in Guests : binding[e].a = binding[g].a => e = g
    BY <1>1 DEF VisionOK, BoundOK
  <1> QED BY <1>1, <1>2 DEF VisionOK, BoundOK, Aged, WorkedOn

\* Analyses are left alone; a request may go on.
LEMMA VisionStays ==
  ASSUME Inv, UNCHANGED visionVars, NEW g \in Guests,
         \A e \in Guests : e # g => req'[e] = req[e],
         req'[g] = req[g] \/ req'[g].pc \notin {"kill", "drop", "gone"},
         \A e \in Guests : binding'[e] \in {binding[e], NoBinding}
  PROVE  VisionOK'
  <1>1. VisionOK BY DEF Inv
  <1>2. VisionTypes' BY <1>1 DEF VisionOK, VisionTypes, visionVars
  <1>3. \A a \in Analyses : Aged(a) /\ WorkedOn(a)
    BY <1>1 DEF Aged, WorkedOn, HeldBy, visionVars, VisionOK, RecordsOK
  <1>4. \A e \in Guests : binding[e] # NoBinding => binding[e].a \in Analyses
    BY DEF Inv, TransfersOK, TrackedBy
  <1>5. \A e \in Guests : req[e].pc \in {"kill", "drop"} => req[e].a \in Analyses
    BY DEF Inv, Requesting, RequestOK, Parting, Cancelling
  <1>6. RecordsOK' /\ CancellingOK' BY <1>1, <1>2, <1>3, <1>5, RecordsStep DEF visionVars
  <1>7. BoundOK' BY <1>1, <1>3, <1>4, BoundStep
  <1> QED BY <1>2, <1>6, <1>7 DEF VisionOK

-----------------------------------------------------------------------------
(* Handoffs.                                                               *)

\* One row is written; whoever is told is told what it is then, and a decision that
\* was made is not changed.
LEMMA OfferStep ==
  ASSUME OffersOK, NEW h \in Handoffs, NEW row \in Offers, offer' = [offer EXCEPT ![h] = row],
         desk' \in [Desks -> DeskReqs],
         \A o \in Desks : desk'[o].pc # "idle" => desk'[o].h \in Handoffs /\ desk'[o].to \in Decisions,
         row.st = offer[h].st \/ offer[h].st \notin Decisions,
         \/ told' = told
         \/ row.st \in Decisions /\ told' = [told EXCEPT ![h] = told[h] \cup {row.st}]
  PROVE  OffersOK'
  <1>1. /\ offer \in [Handoffs -> Offers] /\ told \in [Handoffs -> SUBSET Decisions]
        /\ \A k \in Handoffs : told[k] \subseteq {offer[k].st}
    BY DEF OffersOK, OneDecision
  <1>2. \A k \in Handoffs : offer'[k] = IF k = h THEN row ELSE offer[k] BY <1>1
  <1>3. offer' \in [Handoffs -> Offers] /\ told' \in [Handoffs -> SUBSET Decisions] BY <1>1
  <1>4. \A k \in Handoffs : k # h => told'[k] = told[k] BY <1>1
  <1>5. told'[h] \subseteq {row.st}
    <2>1. told[h] \subseteq {row.st} BY <1>1
    <2> QED BY <1>1, <2>1
  <1>6. OneDecision' BY <1>1, <1>2, <1>4, <1>5 DEF OneDecision
  <1> QED BY <1>3, <1>6 DEF OffersOK

\* The row with another state, and the compare-and-swap.
LEMMA Decided ==
  ASSUME OffersOK, NEW h \in Handoffs, NEW st, st \in Decisions \cup {"expired"}
  PROVE  LET row == [offer[h] EXCEPT !.st = st] IN row \in Offers /\ row.st = st
  <1>1. offer[h] \in Offers BY DEF OffersOK
  <1> QED BY <1>1 DEF Offers

LEMMA MoveStep ==
  ASSUME OffersOK, NEW h \in Handoffs, NEW to \in Decisions, Move(h, to),
         desk' \in [Desks -> DeskReqs],
         \A o \in Desks : desk'[o].pc # "idle" => desk'[o].h \in Handoffs /\ desk'[o].to \in Decisions
  PROVE  OffersOK'
  <1>1. CASE offer[h].st \in {"offered", to}
    <2> DEFINE row == [offer[h] EXCEPT !.st = to]
    <2>1. row \in Offers /\ row.st = to BY Decided
    <2>2. offer' = [offer EXCEPT ![h] = row] /\ told' = [told EXCEPT ![h] = told[h] \cup {to}]
      BY <1>1 DEF Move
    <2> HIDE DEF row
    <2>3. row.st = offer[h].st \/ offer[h].st \notin Decisions BY <1>1, <2>1 DEF Decisions
    <2> QED BY <2>1, <2>2, <2>3, OfferStep
  <1>2. CASE offer[h].st \notin {"offered", to}
    BY <1>2 DEF Move, OffersOK, OneDecision
  <1> QED BY <1>1, <1>2

\* An offer that is looked at when its time is over expires.
LEMMA ExpireStep ==
  ASSUME OffersOK, NEW h \in Handoffs, offer[h].st = "offered",
         offer' = [offer EXCEPT ![h].st = "expired"], UNCHANGED <<desk, told>>
  PROVE  OffersOK'
  <1> DEFINE row == [offer[h] EXCEPT !.st = "expired"]
  <1>1. row \in Offers /\ row.st = "expired" BY Decided
  <1>2. offer' = [offer EXCEPT ![h] = row] OBVIOUS
  <1> HIDE DEF row
  <1>3. offer[h].st \notin Decisions BY DEF Decisions
  <1> QED BY <1>1, <1>2, <1>3, OfferStep DEF OffersOK

LEMMA ToldAgain ==
  ASSUME OffersOK, NEW h \in Handoffs, offer[h].st \in Decisions,
         told' = [told EXCEPT ![h] = told[h] \cup {offer[h].st}], UNCHANGED <<desk, offer>>
  PROVE  OffersOK'
  <1>1. offer[h] \in Offers /\ offer' = [offer EXCEPT ![h] = offer[h]] BY DEF OffersOK
  <1> QED BY <1>1, OfferStep DEF OffersOK

\* Steps of the owner's desktops touch nothing else.
LEMMA OwnerSteps ==
  ASSUME Inv, NEW o \in Desks, OwnerStep(o)
  PROVE  Inv'
  <1>0. OffersOK /\ Requesting /\ TransfersOK /\ VisionOK BY DEF Inv
  <1>1. ASSUME NEW h \in Handoffs, NEW to \in {"accepted", "rejected", "cancelled"},
               Decide(o, h, to)
        PROVE  OffersOK'
    <2>0. to \in Decisions BY DEF Decisions
    <2>1. ASSUME desk' = [desk EXCEPT ![o] = [pc |-> IF to = "accepted" THEN "policy" ELSE "swap",
                                              h |-> h, to |-> to]],
                 UNCHANGED <<offer, told>>
          PROVE  OffersOK'
      BY <1>0, <2>0, <2>1 DEF OffersOK, OneDecision, DeskReqs
    <2>2. ASSUME offer[h].st = to, told' = [told EXCEPT ![h] = @ \cup {to}],
                 UNCHANGED <<offer, desk>>
          PROVE  OffersOK'
      BY <1>0, <2>0, <2>2, ToldAgain
    <2> QED BY <1>0, <1>1, <2>1, <2>2, ExpireStep DEF Decide
  <1>2. ASSUME AskPolicy(o) PROVE OffersOK'
    BY <1>0, <1>2 DEF AskPolicy, OffersOK, OneDecision, DeskReqs, IdleDesk
  <1>3. ASSUME SwapOffer(o) PROVE OffersOK'
    <2>1. /\ desk[o].h \in Handoffs /\ desk[o].to \in Decisions
          /\ desk' = [desk EXCEPT ![o] = IdleDesk]
      BY <1>0, <1>3 DEF SwapOffer, OffersOK
    <2>2. IdleDesk \in DeskReqs /\ IdleDesk.pc = "idle" BY DEF IdleDesk, DeskReqs
    <2>3. /\ desk' \in [Desks -> DeskReqs]
          /\ \A e \in Desks : desk'[e].pc # "idle" => desk'[e].h \in Handoffs /\ desk'[e].to \in Decisions
      BY <1>0, <2>1, <2>2 DEF OffersOK
    <2>4. Move(desk[o].h, desk[o].to) BY <1>3 DEF SwapOffer
    <2> QED BY <1>0, <2>1, <2>3, <2>4, MoveStep
  <1>4. OffersOK' BY <1>1, <1>2, <1>3 DEF OwnerStep
  <1>5. UNCHANGED <<now, req>> /\ UNCHANGED transferVars /\ UNCHANGED visionVars
    BY DEF OwnerStep, Decide, AskPolicy, SwapOffer
  <1>6. Requesting' BY <1>0, <1>5 DEF Requesting
  <1>7. TransfersOK'
    BY <1>0, <1>5 DEF TransfersOK, TransferTypes, TrackedBy, InHand, transferVars
  <1>8. VisionOK'
    BY <1>0, <1>5
    DEF VisionOK, VisionTypes, RecordsOK, BoundOK, CancellingOK, HeldBy, transferVars, visionVars
  <1> QED BY <1>4, <1>6, <1>7, <1>8 DEF Inv

\* A guest's request goes on without touching transfers or analyses.
LEMMA RequestGoesOn ==
  ASSUME Inv, NEW g \in Guests, NEW r \in Requests, RequestOK(r), req' = [req EXCEPT ![g] = r],
         now' = now, OffersOK', UNCHANGED transferVars, UNCHANGED visionVars,
         req[g].pc \notin Declaring \cup {"forget"},
         r.pc \notin Declaring \cup {"received", "forget", "kill", "drop", "gone"},
         r.leaving => req[g].leaving
  PROVE  Inv'
  <1>1. /\ Requesting' /\ req'[g] = r /\ \A e \in Guests : e # g => req'[e] = req[e]
    BY RequestMoves DEF Inv
  <1>2. TransfersOK' BY <1>1, TransfersStay DEF Inv
  <1>3. VisionOK' BY <1>1, VisionStays DEF transferVars
  <1> QED BY <1>1, <1>2, <1>3 DEF Inv

LEMMA GuestOfferSteps ==
  ASSUME Inv, NEW g \in Guests,
         \/ \E h \in Handoffs : OfferHandoff(g, h) \/ WithdrawOffer(g, h)
         \/ SwapWithdrawn(g)
  PROVE  Inv'
  <1>0. OffersOK /\ Requesting /\ req[g] \in Requests /\ RequestOK(req[g])
        /\ req = [req EXCEPT ![g] = req[g]]
    BY DEF Inv, Requesting
  <1>1. ASSUME NEW h \in Handoffs, OfferHandoff(g, h) PROVE Inv'
    <2> DEFINE row == [by |-> g, st |-> "offered", exp |-> now + Life]
    <2>1. row \in Offers /\ row.st = "offered"
      <3>1. now + Life \in Nat BY <1>0, VisualBounds DEF Requesting
      <3> QED BY <3>1 DEF Offers
    <2>2. /\ req[g].pc = "idle" /\ offer[h].st = "none" /\ offer' = [offer EXCEPT ![h] = row]
          /\ UNCHANGED <<now, desk, req, told>>
          /\ UNCHANGED transferVars /\ UNCHANGED visionVars
      BY <1>1 DEF OfferHandoff
    <2> HIDE DEF row
    <2>3. offer[h].st \notin Decisions BY <2>2 DEF Decisions
    <2>4. OffersOK' BY <1>0, <2>1, <2>2, <2>3, OfferStep DEF OffersOK
    <2> QED BY <1>0, <2>2, <2>4, RequestGoesOn DEF Declaring
  <1>2. ASSUME NEW h \in Handoffs, WithdrawOffer(g, h) PROVE Inv'
    <2>1. /\ req[g].pc = "idle" /\ UNCHANGED <<now, desk>>
          /\ UNCHANGED transferVars /\ UNCHANGED visionVars
      BY <1>2 DEF WithdrawOffer
    <2>2. CASE /\ req' = [req EXCEPT ![g] = [IdleReq EXCEPT !.pc = "withdraw", !.h = h]]
               /\ UNCHANGED <<offer, told>>
      <3> DEFINE r == [IdleReq EXCEPT !.pc = "withdraw", !.h = h]
      <3>1. r \in Requests /\ RequestOK(r) /\ r.pc = "withdraw" /\ ~r.leaving
        BY DEF IdleReq, Requests, RequestOK, Parting, Cancelling, States
      <3>2. OffersOK' BY <1>0, <2>1, <2>2, OffersStay DEF handoffVars
      <3> HIDE DEF r
      <3> QED BY <2>1, <2>2, <3>1, <3>2, RequestGoesOn DEF r, Declaring
    <2>3. CASE offer[h].st = "offered" /\ offer' = [offer EXCEPT ![h].st = "expired"]
               /\ UNCHANGED <<req, told>>
      <3>1. OffersOK' BY <1>0, <2>1, <2>3, ExpireStep
      <3> QED BY <1>0, <2>1, <2>3, <3>1, RequestGoesOn DEF Declaring
    <2>4. CASE /\ offer[h].st = "cancelled" /\ UNCHANGED <<offer, req>>
               /\ told' = [told EXCEPT ![h] = @ \cup {"cancelled"}]
      <3>1. OffersOK' BY <1>0, <2>1, <2>4, ToldAgain DEF Decisions
      <3> QED BY <1>0, <2>1, <2>4, <3>1, RequestGoesOn DEF Declaring
    <2> QED BY <1>2, <2>2, <2>3, <2>4 DEF WithdrawOffer
  <1>3. ASSUME SwapWithdrawn(g) PROVE Inv'
    <2>1. /\ req[g].pc = "withdraw" /\ Move(req[g].h, "cancelled") /\ Answer(g)
          /\ UNCHANGED <<now, desk>> /\ UNCHANGED transferVars /\ UNCHANGED visionVars
      BY <1>3 DEF SwapWithdrawn
    <2>2. ~req[g].leaving BY <1>0, <2>1 DEF RequestOK, Parting, Cancelling
    <2>3. PICK r \in Requests :
             /\ RequestOK(r) /\ req' = [req EXCEPT ![g] = r] /\ ~r.leaving /\ r.pc = "idle"
      BY <1>0, <2>1, <2>2, Answered
    <2>4. req[g].h \in Handoffs BY <1>0, <2>1 DEF RequestOK
    <2>5. OffersOK' BY <1>0, <2>1, <2>4, MoveStep DEF OffersOK, Decisions
    <2> QED BY <2>1, <2>3, <2>5, RequestGoesOn DEF Declaring
  <1> QED BY <1>1, <1>2, <1>3

LEMMA SweepOffersStep ==
  ASSUME Inv, SweepOffers
  PROVE  Inv'
  <1> DEFINE due == {h \in Handoffs : offer[h].st = "offered" /\ offer[h].exp <= now}
  <1>1. /\ offer' = [h \in Handoffs |-> IF h \in due THEN [offer[h] EXCEPT !.st = "expired"]
                                         ELSE offer[h]]
        /\ UNCHANGED <<now, req, desk, told>>
        /\ UNCHANGED transferVars /\ UNCHANGED visionVars
    BY DEF SweepOffers
  <1>2. OffersOK'
    <2>1. \A h \in Handoffs :
             /\ [offer[h] EXCEPT !.st = "expired"] \in Offers
             /\ [offer[h] EXCEPT !.st = "expired"].st = "expired"
      BY Decided DEF Inv
    <2>2. \A h \in due : told[h] = {}
      BY DEF Inv, OffersOK, OneDecision, Decisions
    <2>3. offer' \in [Handoffs -> Offers] BY <1>1, <2>1 DEF Inv, OffersOK
    <2>4. OneDecision' BY <1>1, <2>1, <2>2 DEF Inv, OffersOK, OneDecision
    <2> QED BY <1>1, <2>3, <2>4 DEF Inv, OffersOK
  <1>3. Requesting' BY <1>1 DEF Inv, Requesting
  <1>4. TransfersOK'
    BY <1>1 DEF Inv, TransfersOK, TransferTypes, TrackedBy, InHand, transferVars
  <1>5. VisionOK'
    BY <1>1
    DEF Inv, VisionOK, VisionTypes, RecordsOK, BoundOK, CancellingOK, HeldBy, transferVars,
        visionVars
  <1> QED BY <1>2, <1>3, <1>4, <1>5 DEF Inv

-----------------------------------------------------------------------------
(* Transfers.                                                              *)

\* A step of one guest: transfers of the others are left alone or end.
LEMMA TransferStep ==
  ASSUME TransfersOK, TransferTypes', NEW g \in Guests, TrackedBy(g)',
         \A e \in Guests : e # g => /\ req'[e] = req[e] /\ pending'[e] = pending[e]
                                    /\ binding'[e] = binding[e],
         lost \subseteq lost',
         \A t \in Transfers : \/ buffer'[t] = buffer[t] \/ buffer'[t].by = g
                              \/ buffer'[t].st # "pending" /\ buffer'[t].by \in {buffer[t].by, NoGuest}
  PROVE  TransfersOK'
  <1>0. NoGuest \notin Guests BY VisualNames
  <1>1. \A t \in Transfers : buffer'[t].st = "pending" => buffer'[t].by \in Guests
    BY DEF TransfersOK
  <1>2. ASSUME NEW e \in Guests, e # g PROVE TrackedBy(e)'
    <2>1. TrackedBy(e) BY DEF TransfersOK
    <2>2. /\ req'[e] = req[e] /\ pending'[e] = pending[e] /\ binding'[e] = binding[e]
          /\ \A t \in Transfers \ lost' :
                /\ t \in Transfers \ lost
                /\ buffer'[t].by = e => buffer[t].by = e
                /\ buffer'[t].by = e /\ buffer'[t].st = "pending" => buffer[t].st = "pending"
      BY <1>0, <1>2
    <2> QED BY <2>1, <2>2 DEF TrackedBy, InHand
  <1>3. \A e \in Guests : TrackedBy(e)' BY <1>2
  <1> QED BY <1>1, <1>3 DEF TransfersOK

LEMMA DroppedBuffer ==
  ASSUME TransferTypes, NEW t, buffer' = Dropped(t)
  PROVE  /\ buffer' \in [Transfers -> Buffers]
         /\ \A u \in Transfers : u # t => buffer'[u] = buffer[u]
         /\ t \in Transfers => buffer'[t].st # "pending"
         /\ \A u \in Transfers : \/ buffer'[u] = buffer[u]
                                 \/ buffer'[u].st # "pending" /\ buffer'[u].by = NoGuest
  <1> DEFINE gone == [NoBuffer EXCEPT !.st = "gone"]
  <1>1. gone \in Buffers /\ gone.st = "gone" /\ gone.by = NoGuest BY DEF NoBuffer, Buffers
  <1>2. buffer' = [buffer EXCEPT ![t] = IF buffer[t].st = "pending" THEN gone ELSE buffer[t]]
    BY DEF Dropped
  <1> HIDE DEF gone
  <1> QED BY <1>1, <1>2 DEF TransferTypes

\* The binding and the pending transfer of a guest are taken off the tables.
LEMMA UnbindTypes ==
  ASSUME TransferTypes, NEW g \in Guests, Unbind(g), buffer' \in [Transfers -> Buffers],
         lost' \subseteq Transfers
  PROVE  /\ TransferTypes' /\ pending'[g] = NoTransfer /\ binding'[g] = NoBinding
         /\ \A e \in Guests : e # g => pending'[e] = pending[e] /\ binding'[e] = binding[e]
  <1>1. NoBinding \in Bindings BY DEF NoBinding, Bindings
  <1> QED BY <1>1 DEF TransferTypes, Unbind

\* The request that cancels what was bound, if anything was.
LEMMA CancelBoundMoves ==
  ASSUME Inv, NEW g \in Guests, CancelBound(g, binding[g].a)
  PROVE  \E r \in Requests : /\ RequestOK(r) /\ req' = [req EXCEPT ![g] = r] /\ ~r.leaving
                             /\ r.pc \in {"idle", "find"}
  <1>1. binding[g].a \in Analyses \cup {NoAnalysis}
    BY DEF Inv, TransfersOK, TransferTypes, Bindings
  <1>2. CASE binding[g].a = NoAnalysis BY <1>2, IdleTypes DEF CancelBound
  <1>3. CASE binding[g].a # NoAnalysis
    <2> DEFINE r == [IdleReq EXCEPT !.pc = "find", !.a = binding[g].a]
    <2>1. r \in Requests /\ RequestOK(r) /\ ~r.leaving /\ r.pc = "find"
      BY <1>1, <1>3 DEF IdleReq, Requests, RequestOK, Parting, Cancelling, States
    <2>2. req' = [req EXCEPT ![g] = r] BY <1>3 DEF CancelBound
    <2> QED BY <2>1, <2>2
  <1> QED BY <1>2, <1>3

LEMMA BeginStep ==
  ASSUME Inv, NEW g \in Guests, NEW h \in Handoffs, NEW a \in Analyses \cup {NoAnalysis},
         BeginTransfer(g, h, a)
  PROVE  Inv'
  <1> DEFINE r == [IdleReq EXCEPT !.pc = "begin", !.h = h, !.a = a]
  <1>0. /\ OffersOK /\ Requesting /\ TransfersOK /\ TransferTypes /\ TrackedBy(g)
    BY DEF Inv, Requesting, TransfersOK
  <1>1. /\ req[g].pc = "idle" /\ pending[g] = NoTransfer /\ now' = now
        /\ req' = [req EXCEPT ![g] = r]
        /\ UNCHANGED handoffVars /\ UNCHANGED transferVars /\ UNCHANGED visionVars
    BY DEF BeginTransfer
  <1>2. r \in Requests /\ RequestOK(r) /\ r.pc = "begin" /\ ~r.leaving
    BY DEF IdleReq, Requests, RequestOK, Parting, Cancelling, States
  <1> HIDE DEF r
  <1>3. /\ Requesting' /\ req'[g] = r /\ \A e \in Guests : e # g => req'[e] = req[e]
    BY <1>0, <1>1, <1>2, RequestMoves
  <1>4. TransferTypes' BY <1>0, <1>1 DEF TransferTypes, transferVars
  <1>5. TrackedBy(g)'
    BY <1>0, <1>1, <1>2, <1>3 DEF TrackedBy, InHand, Declaring, transferVars
  <1>6. TransfersOK' BY <1>0, <1>1, <1>3, <1>4, <1>5, TransferStep DEF transferVars
  <1>7. OffersOK' BY <1>0, <1>1, OffersStay
  <1>8. VisionOK' BY <1>1, <1>2, <1>3, VisionStays DEF transferVars
  <1> QED BY <1>3, <1>6, <1>7, <1>8 DEF Inv

\* The transfer takes its place: its message goes on with it, or it is lost.
LEMMA InsertStep ==
  ASSUME Inv, NEW g \in Guests, NEW t \in Transfers, InsertTransfer(g, t)
  PROVE  Inv'
  <1> DEFINE row == [by |-> g, h |-> req[g].h, st |-> "pending", exp |-> now + Life]
             on == [req[g] EXCEPT !.pc = IF req[g].a = NoAnalysis THEN "track" ELSE "attach",
                                  !.t = t]
  <1>0. /\ OffersOK /\ Requesting /\ TransfersOK /\ TransferTypes /\ TrackedBy(g)
        /\ req[g] \in Requests /\ RequestOK(req[g])
    BY DEF Inv, Requesting, TransfersOK
  <1>1. /\ req[g].pc = "begin" /\ buffer' = [buffer EXCEPT ![t] = row]
        /\ UNCHANGED <<now, pending, binding>>
        /\ UNCHANGED handoffVars /\ UNCHANGED visionVars
    BY DEF InsertTransfer
  <1>2. row \in Buffers /\ row.by = g
    <2>1. now + Life \in Nat BY VisualBounds, <1>0 DEF Requesting
    <2> QED BY <1>0, <2>1 DEF Buffers, Requests
  <1>3. ~req[g].leaving BY <1>0, <1>1 DEF RequestOK, Parting, Cancelling
  <1>4. /\ on \in Requests /\ RequestOK(on) /\ on.pc \in {"track", "attach"}
        /\ ~on.leaving /\ on.t = t
    BY <1>0, <1>3 DEF Requests, RequestOK, Parting, Cancelling
  <1>5. \/ req' = [req EXCEPT ![g] = on] /\ lost' = lost
        \/ req' = [req EXCEPT ![g] = IdleReq] /\ lost' = lost \cup {t}
    BY DEF InsertTransfer
  <1> HIDE DEF row, on
  <1>6. PICK r \in Requests :
           /\ RequestOK(r) /\ req' = [req EXCEPT ![g] = r] /\ ~r.leaving
           /\ \/ r.pc \in {"track", "attach"} /\ r.t = t /\ lost' = lost
              \/ r.pc = "idle" /\ lost' = lost \cup {t}
    BY <1>4, <1>5, IdleTypes
  <1>7. /\ Requesting' /\ req'[g] = r /\ \A e \in Guests : e # g => req'[e] = req[e]
    BY <1>0, <1>1, <1>6, RequestMoves
  <1>8. /\ buffer' \in [Transfers -> Buffers]
        /\ \A u \in Transfers : buffer'[u] = IF u = t THEN row ELSE buffer[u]
    BY <1>0, <1>1, <1>2 DEF TransferTypes
  <1>9. TransferTypes' BY <1>0, <1>1, <1>6, <1>8 DEF TransferTypes
  <1>10. NoTransfer \notin Transfers BY VisualNames
  <1>11. /\ pending[g] = NoTransfer /\ binding[g] = NoBinding
         /\ \A u \in Transfers \ lost : ~(buffer[u].st = "pending" /\ buffer[u].by = g)
    BY <1>0, <1>1, <1>10 DEF TrackedBy, InHand, Declaring
  <1>12. TrackedBy(g)'
    BY <1>1, <1>6, <1>7, <1>8, <1>11 DEF TrackedBy, InHand, Declaring
  <1>13. TransfersOK' BY <1>0, <1>1, <1>2, <1>6, <1>7, <1>8, <1>9, <1>12, TransferStep
  <1>14. OffersOK' BY <1>0, <1>1, OffersStay
  <1>15. VisionOK' BY <1>1, <1>6, <1>7, VisionStays
  <1> QED BY <1>7, <1>13, <1>14, <1>15 DEF Inv

LEMMA TrackStep ==
  ASSUME Inv, NEW g \in Guests, TrackTransfer(g)
  PROVE  Inv'
  <1>0. /\ OffersOK /\ Requesting /\ TransfersOK /\ TransferTypes /\ TrackedBy(g)
        /\ RequestOK(req[g])
    BY DEF Inv, Requesting, TransfersOK
  <1>1. /\ req[g].pc = "track" /\ pending' = [pending EXCEPT ![g] = req[g].t] /\ Answer(g)
        /\ UNCHANGED <<now, buffer, binding, lost>>
        /\ UNCHANGED handoffVars /\ UNCHANGED visionVars
    BY DEF TrackTransfer
  <1>2. PICK t \in Transfers : t = req[g].t BY <1>0, <1>1 DEF RequestOK
  <1>3. ~req[g].leaving BY <1>0, <1>1 DEF RequestOK, Parting, Cancelling
  <1>4. PICK r \in Requests :
           /\ RequestOK(r) /\ req' = [req EXCEPT ![g] = r] /\ ~r.leaving /\ r.pc = "idle"
    BY <1>0, <1>1, <1>3, Answered
  <1>5. /\ Requesting' /\ req'[g] = r /\ \A e \in Guests : e # g => req'[e] = req[e]
    BY <1>0, <1>1, <1>4, RequestMoves
  <1>6. /\ TransferTypes' /\ pending'[g] = t
        /\ \A e \in Guests : e # g => pending'[e] = pending[e]
    BY <1>0, <1>1, <1>2 DEF TransferTypes
  <1>7. NoTransfer \notin Transfers BY VisualNames
  <1>8. TrackedBy(g)'
    BY <1>0, <1>1, <1>2, <1>4, <1>5, <1>6, <1>7 DEF TrackedBy, InHand, Declaring
  <1>9. TransfersOK' BY <1>0, <1>1, <1>5, <1>6, <1>8, TransferStep
  <1>10. OffersOK' BY <1>0, <1>1, OffersStay
  <1>11. VisionOK' BY <1>1, <1>4, <1>5, VisionStays
  <1> QED BY <1>5, <1>9, <1>10, <1>11 DEF Inv

LEMMA UndoStep ==
  ASSUME Inv, NEW g \in Guests, UndoBegin(g)
  PROVE  Inv'
  <1>0. /\ OffersOK /\ Requesting /\ TransfersOK /\ TransferTypes /\ TrackedBy(g)
        /\ req[g] \in Requests /\ RequestOK(req[g])
    BY DEF Inv, Requesting, TransfersOK
  <1>1. /\ req[g].pc = "undo" /\ buffer' = Dropped(req[g].t) /\ Answer(g)
        /\ UNCHANGED <<now, pending, binding, lost>>
        /\ UNCHANGED handoffVars /\ UNCHANGED visionVars
    BY DEF UndoBegin
  <1>2. ~req[g].leaving BY <1>0, <1>1 DEF RequestOK, Parting, Cancelling
  <1>3. PICK r \in Requests :
           /\ RequestOK(r) /\ req' = [req EXCEPT ![g] = r] /\ ~r.leaving /\ r.pc = "idle"
    BY <1>0, <1>1, <1>2, Answered
  <1>4. /\ Requesting' /\ req'[g] = r /\ \A e \in Guests : e # g => req'[e] = req[e]
    BY <1>0, <1>1, <1>3, RequestMoves
  <1>5. PICK t \in Transfers : t = req[g].t BY <1>0, <1>1 DEF RequestOK
  <1>6. /\ buffer' \in [Transfers -> Buffers]
        /\ \A u \in Transfers : u # t => buffer'[u] = buffer[u]
        /\ buffer'[t].st # "pending"
        /\ \A u \in Transfers : \/ buffer'[u] = buffer[u]
                                \/ buffer'[u].st # "pending" /\ buffer'[u].by = NoGuest
    BY <1>0, <1>1, <1>5, DroppedBuffer
  <1>7. TransferTypes' BY <1>0, <1>1, <1>6 DEF TransferTypes
  <1>8. TrackedBy(g)' BY <1>0, <1>1, <1>3, <1>4, <1>5, <1>6, <1>2 DEF TrackedBy, InHand, Declaring
  <1>9. TransfersOK' BY <1>0, <1>1, <1>4, <1>6, <1>7, <1>8, TransferStep
  <1>10. OffersOK' BY <1>0, <1>1, OffersStay
  <1>11. VisionOK' BY <1>1, <1>3, <1>4, VisionStays
  <1> QED BY <1>4, <1>9, <1>10, <1>11 DEF Inv

LEMMA CancelTransferStep ==
  ASSUME Inv, NEW g \in Guests, NEW t \in Transfers, CancelTransfer(g, t)
  PROVE  Inv'
  <1>0. /\ OffersOK /\ Requesting /\ TransfersOK /\ TransferTypes /\ TrackedBy(g)
        /\ RequestOK(req[g])
    BY DEF Inv, Requesting, TransfersOK
  <1>1. /\ req[g].pc = "idle" /\ buffer[t].by = g /\ buffer[t].st = "pending" /\ t \notin lost
        /\ buffer' = Dropped(t) /\ Unbind(g) /\ CancelBound(g, binding[g].a)
        /\ UNCHANGED <<now, lost>> /\ UNCHANGED handoffVars /\ UNCHANGED visionVars
    BY DEF CancelTransfer
  <1>2. PICK r \in Requests : /\ RequestOK(r) /\ req' = [req EXCEPT ![g] = r] /\ ~r.leaving
                              /\ r.pc \in {"idle", "find"}
    BY <1>1, CancelBoundMoves
  <1>3. /\ Requesting' /\ req'[g] = r /\ \A e \in Guests : e # g => req'[e] = req[e]
    BY <1>0, <1>1, <1>2, RequestMoves
  <1>4. /\ buffer' \in [Transfers -> Buffers]
        /\ \A u \in Transfers : u # t => buffer'[u] = buffer[u]
        /\ buffer'[t].st # "pending"
        /\ \A u \in Transfers : \/ buffer'[u] = buffer[u]
                                \/ buffer'[u].st # "pending" /\ buffer'[u].by = NoGuest
    BY <1>0, <1>1, DroppedBuffer
  <1>5. /\ TransferTypes' /\ pending'[g] = NoTransfer /\ binding'[g] = NoBinding
        /\ \A e \in Guests : e # g => pending'[e] = pending[e] /\ binding'[e] = binding[e]
    BY <1>0, <1>1, <1>4, UnbindTypes DEF TransferTypes
  <1>6. \A u \in Transfers \ lost : ~(buffer'[u].st = "pending" /\ buffer'[u].by = g)
    BY <1>0, <1>1, <1>4 DEF TrackedBy, InHand
  <1>7. TrackedBy(g)' BY <1>1, <1>2, <1>3, <1>5, <1>6 DEF TrackedBy, Declaring
  <1>8. TransfersOK' BY <1>0, <1>1, <1>3, <1>4, <1>5, <1>7, TransferStep
  <1>9. OffersOK' BY <1>0, <1>1, OffersStay
  <1>10. \A e \in Guests : binding'[e] \in {binding[e], NoBinding} BY <1>5
  <1>11. VisionOK' BY <1>1, <1>2, <1>3, <1>10, VisionStays
  <1> QED BY <1>3, <1>8, <1>9, <1>11 DEF Inv

LEMMA ReceiveStep ==
  ASSUME Inv, NEW g \in Guests, ReceiveFrame(g)
  PROVE  Inv'
  <1>0. /\ OffersOK /\ Requesting /\ TransfersOK /\ TransferTypes /\ TrackedBy(g)
        /\ RequestOK(req[g])
    BY DEF Inv, Requesting, TransfersOK
  <1>1. /\ req[g].pc = "idle" /\ pending[g] # NoTransfer /\ UNCHANGED <<now, pending, binding, lost>>
        /\ UNCHANGED handoffVars /\ UNCHANGED visionVars
    BY DEF ReceiveFrame
  <1>2. PICK t \in Transfers : t = pending[g] BY <1>0, <1>1 DEF TransferTypes
  <1>3. PICK r \in Requests : /\ RequestOK(r) /\ req' = [req EXCEPT ![g] = r] /\ ~r.leaving
                              /\ r.pc = "received"
    <2>1. ASSUME NEW r, r \in {[IdleReq EXCEPT !.pc = "received"],
                               [IdleReq EXCEPT !.pc = "received", !.ok = TRUE]}
          PROVE  r \in Requests /\ RequestOK(r) /\ ~r.leaving /\ r.pc = "received"
      BY <2>1 DEF IdleReq, Requests, RequestOK, Parting, Cancelling, States
    <2>2. \/ req' = [req EXCEPT ![g] = [IdleReq EXCEPT !.pc = "received"]]
          \/ req' = [req EXCEPT ![g] = [IdleReq EXCEPT !.pc = "received", !.ok = TRUE]]
      BY DEF ReceiveFrame
    <2> QED BY <2>1, <2>2
  <1>4. /\ Requesting' /\ req'[g] = r /\ \A e \in Guests : e # g => req'[e] = req[e]
    BY <1>0, <1>1, <1>3, RequestMoves
  <1>5. /\ buffer' \in [Transfers -> Buffers]
        /\ \A u \in Transfers : u # t => buffer'[u] = buffer[u]
        /\ buffer'[t].st # "pending" /\ buffer'[t].by \in {buffer[t].by, NoGuest}
    <2>1. CASE buffer' = Dropped(t) BY <1>0, <2>1, DroppedBuffer
    <2>2. CASE buffer' = [buffer EXCEPT ![t].st = "completed"]
      <3> DEFINE row == [buffer[t] EXCEPT !.st = "completed"]
      <3>1. buffer[t] \in Buffers BY <1>0 DEF TransferTypes
      <3>2. row \in Buffers /\ row.st = "completed" /\ row.by = buffer[t].by
        BY <3>1 DEF Buffers
      <3>3. buffer' = [buffer EXCEPT ![t] = row] BY <2>2
      <3> HIDE DEF row
      <3> QED BY <1>0, <3>2, <3>3 DEF TransferTypes
    <2> QED BY <1>2, <2>1, <2>2 DEF ReceiveFrame
  <1>6. TransferTypes' BY <1>0, <1>1, <1>5 DEF TransferTypes
  <1>7. \A u \in Transfers \ lost : ~(buffer'[u].st = "pending" /\ buffer'[u].by = g)
    BY <1>0, <1>1, <1>2, <1>5 DEF TrackedBy, InHand
  <1>8. TrackedBy(g)' BY <1>0, <1>1, <1>3, <1>4, <1>7 DEF TrackedBy, Declaring
  <1>9. TransfersOK' BY <1>0, <1>1, <1>4, <1>5, <1>6, <1>8, TransferStep
  <1>10. OffersOK' BY <1>0, <1>1, OffersStay
  <1>11. VisionOK' BY <1>1, <1>3, <1>4, VisionStays
  <1> QED BY <1>4, <1>9, <1>10, <1>11 DEF Inv

\* A guest leaves: of its transfers only lost ones remain.
LEMMA DisconnectedStep ==
  ASSUME Inv, NEW g \in Guests, Disconnected(g), buffer' \in [Transfers -> Buffers],
         lost' \subseteq Transfers, lost \subseteq lost',
         \A t \in Transfers \ lost' : buffer'[t].by # g,
         \A t \in Transfers :
            \/ buffer'[t] = buffer[t]
            \/ buffer'[t].st # "pending" /\ buffer'[t].by \in {buffer[t].by, NoGuest}
  PROVE  Inv'
  <1> DEFINE r == [Leaving EXCEPT !.pc = "forget"]
  <1>0. /\ OffersOK /\ Requesting /\ TransfersOK /\ TransferTypes /\ TrackedBy(g)
    BY DEF Inv, Requesting, TransfersOK
  <1>1. /\ req' = [req EXCEPT ![g] = r] /\ UNCHANGED <<now, pending, binding>>
        /\ UNCHANGED handoffVars /\ UNCHANGED visionVars
    BY DEF Disconnected
  <1>2. r \in Requests /\ RequestOK(r) /\ r.pc = "forget" /\ r.leaving BY PartingTypes
  <1> HIDE DEF r
  <1>3. /\ Requesting' /\ req'[g] = r /\ \A e \in Guests : e # g => req'[e] = req[e]
    BY <1>0, <1>1, <1>2, RequestMoves
  <1>4. TransferTypes' BY <1>0, <1>1 DEF TransferTypes
  <1>5. TrackedBy(g)' BY <1>0, <1>1, <1>2, <1>3 DEF TrackedBy, InHand, Declaring
  <1>6. TransfersOK' BY <1>0, <1>1, <1>3, <1>4, <1>5, TransferStep
  <1>7. OffersOK' BY <1>0, <1>1, OffersStay
  <1>8. VisionOK' BY <1>1, <1>2, <1>3, VisionStays
  <1> QED BY <1>3, <1>6, <1>7, <1>8 DEF Inv

LEMMA DisconnectStep ==
  ASSUME Inv, NEW g \in Guests, Disconnect(g) \/ DisconnectFails(g)
  PROVE  Inv'
  <1>0. TransferTypes /\ NoGuest \notin Guests BY VisualNames DEF Inv, TransfersOK
  <1>1. CASE Disconnect(g)
    <2> DEFINE gone == [NoBuffer EXCEPT !.st = "gone"]
    <2>1. /\ buffer' = [t \in Transfers |-> IF buffer[t].by = g THEN gone ELSE buffer[t]]
          /\ lost' = lost /\ Disconnected(g)
      BY <1>1 DEF Disconnect
    <2>2. gone \in Buffers /\ gone.st = "gone" /\ gone.by = NoGuest BY DEF NoBuffer, Buffers
    <2> HIDE DEF gone
    <2>3. buffer' \in [Transfers -> Buffers] BY <1>0, <2>1, <2>2 DEF TransferTypes
    <2>4. \A t \in Transfers : buffer'[t] = IF buffer[t].by = g THEN gone ELSE buffer[t]
      BY <2>1
    <2> QED BY <1>0, <2>1, <2>2, <2>3, <2>4, DisconnectedStep DEF TransferTypes
  <1>2. CASE DisconnectFails(g)
    <2>1. /\ lost' = lost \cup {t \in Transfers : buffer[t].by = g} /\ buffer' = buffer
          /\ Disconnected(g)
      BY <1>2 DEF DisconnectFails
    <2> QED BY <1>0, <2>1, DisconnectedStep DEF TransferTypes
  <1> QED BY <1>1, <1>2

LEMMA ForgetStep ==
  ASSUME Inv, NEW g \in Guests, ForgetTransfers(g)
  PROVE  Inv'
  <1> DEFINE r == [Leaving EXCEPT !.pc = "jobs"]
  <1>0. /\ OffersOK /\ Requesting /\ TransfersOK /\ TransferTypes /\ TrackedBy(g)
        /\ RequestOK(req[g])
    BY DEF Inv, Requesting, TransfersOK
  <1>1. /\ req[g].pc = "forget" /\ Unbind(g) /\ req' = [req EXCEPT ![g] = r]
        /\ UNCHANGED <<now, buffer, lost>> /\ UNCHANGED handoffVars /\ UNCHANGED visionVars
    BY DEF ForgetTransfers
  <1>2. r \in Requests /\ RequestOK(r) /\ r.pc = "jobs" /\ r.leaving BY PartingTypes
  <1> HIDE DEF r
  <1>3. /\ Requesting' /\ req'[g] = r /\ \A e \in Guests : e # g => req'[e] = req[e]
    BY <1>0, <1>1, <1>2, RequestMoves
  <1>4. /\ TransferTypes' /\ pending'[g] = NoTransfer /\ binding'[g] = NoBinding
        /\ \A e \in Guests : e # g => pending'[e] = pending[e] /\ binding'[e] = binding[e]
    BY <1>0, <1>1, UnbindTypes DEF TransferTypes
  <1>5. req[g].leaving BY <1>0, <1>1 DEF RequestOK, Parting
  <1>6. TrackedBy(g)' BY <1>0, <1>1, <1>2, <1>3, <1>4, <1>5 DEF TrackedBy, Declaring
  <1>7. TransfersOK' BY <1>0, <1>1, <1>3, <1>4, <1>6, TransferStep
  <1>8. OffersOK' BY <1>0, <1>1, OffersStay
  <1>9. \A e \in Guests : binding'[e] \in {binding[e], NoBinding} BY <1>4
  <1>10. VisionOK' BY <1>1, <1>2, <1>3, <1>9, VisionStays
  <1> QED BY <1>3, <1>7, <1>8, <1>10 DEF Inv

LEMMA SweepTransfersStep ==
  ASSUME Inv, SweepTransfers
  PROVE  Inv'
  <1> DEFINE due == {t \in Transfers : buffer[t].st = "pending" /\ buffer[t].exp <= now}
             gone == [NoBuffer EXCEPT !.st = "gone"]
  <1>1. /\ buffer' = [t \in Transfers |-> IF t \in due THEN gone ELSE buffer[t]]
        /\ UNCHANGED <<now, req, pending, binding, lost>>
        /\ UNCHANGED handoffVars /\ UNCHANGED visionVars
    BY DEF SweepTransfers
  <1>2. gone \in Buffers /\ gone.st = "gone" /\ gone.by = NoGuest BY DEF NoBuffer, Buffers
  <1> HIDE DEF due, gone
  <1>3. TransferTypes' BY <1>1, <1>2 DEF Inv, TransfersOK, TransferTypes
  <1>4. \A t \in Transfers : buffer'[t] = buffer[t] \/ buffer'[t] = gone BY <1>1
  <1>5. ASSUME NEW e \in Guests PROVE TrackedBy(e)'
    <2>1. TrackedBy(e) /\ NoGuest \notin Guests BY VisualNames DEF Inv, TransfersOK
    <2> QED BY <1>1, <1>2, <1>4, <2>1 DEF TrackedBy, InHand
  <1>6. TransfersOK' BY <1>2, <1>3, <1>4, <1>5 DEF Inv, TransfersOK
  <1>7. OffersOK' /\ Requesting' BY <1>1, OffersStay DEF Inv, Requesting
  <1>8. VisionOK'
    BY <1>1 DEF Inv, VisionOK, VisionTypes, RecordsOK, BoundOK, CancellingOK, HeldBy, visionVars
  <1> QED BY <1>6, <1>7, <1>8 DEF Inv

-----------------------------------------------------------------------------
(* Analyses.                                                               *)

\* The table of records with one row written.
LEMMA RecordMoves ==
  ASSUME VisionTypes, NEW a \in Analyses, NEW row \in Records,
         record' = [record EXCEPT ![a] = row]
  PROVE  /\ record' \in [Analyses -> Records] /\ record'[a] = row
         /\ \A b \in Analyses : b # a => record'[b] = record[b]
  BY DEF VisionTypes

LEMMA SetMoves ==
  ASSUME VisionTypes, NEW a \in Analyses, NEW st \in States, Set(a, st)
  PROVE  /\ record' \in [Analyses -> Records] /\ record'[a].st = st
         /\ record'[a].by = record[a].by /\ record'[a].t = record[a].t
         /\ \A b \in Analyses : b # a => record'[b] = record[b]
  <1> DEFINE row == [record[a] EXCEPT !.st = st]
  <1>1. record[a] \in Records BY DEF VisionTypes
  <1>2. row \in Records /\ row.st = st /\ row.by = record[a].by /\ row.t = record[a].t
    BY <1>1 DEF Records
  <1>3. record' = [record EXCEPT ![a] = row] BY DEF Set
  <1> HIDE DEF row
  <1> QED BY <1>2, <1>3, RecordMoves

\* A record that moves on has not ended yet; one that is dropped is gone.
LEMMA SetAged ==
  ASSUME VisionOK, NEW a \in Analyses, NEW st \in States, Set(a, st),
         \/ st = record[a].st
         \/ record[a].st \in {"awaiting", "analyzing"} /\ st \notin {"none", "gone", "awaiting"}
  PROVE  \A b \in Analyses : Aged(b)
  <1>1. /\ record'[a].st = st /\ record'[a].by = record[a].by /\ record'[a].t = record[a].t
        /\ \A b \in Analyses : b # a => record'[b] = record[b]
    BY SetMoves DEF VisionOK
  <1> QED BY <1>1 DEF Aged, VisionOK, RecordsOK

LEMMA DiscardAged ==
  ASSUME VisionOK, NEW a \in Analyses, Discard(a)
  PROVE  /\ record' \in [Analyses -> Records] /\ record'[a].st = "gone"
         /\ \A b \in Analyses : b # a => record'[b] = record[b]
         /\ \A b \in Analyses : Aged(b)
  <1> DEFINE row == [NoRecord EXCEPT !.st = "gone"]
  <1>1. row \in Records /\ row.st = "gone" /\ row.by = NoGuest
    BY DEF NoRecord, Records, States
  <1>2. record' = [record EXCEPT ![a] = row] BY DEF Discard
  <1> HIDE DEF row
  <1>3. /\ record' \in [Analyses -> Records] /\ record'[a] = row
        /\ \A b \in Analyses : b # a => record'[b] = record[b]
    BY <1>1, <1>2, RecordMoves DEF VisionOK
  <1> QED BY <1>1, <1>3 DEF Aged, VisionOK, RecordsOK

LEMMA CurrentIs ==
  ASSUME VisionTypes, NEW a \in Analyses
  PROVE  /\ Current(a) \in States
         /\ \/ Current(a) = record[a].st
            \/ record[a].st \in {"awaiting", "analyzing"} /\ Current(a) = "expired"
  <1>1. record[a] \in Records BY DEF VisionTypes
  <1> QED BY <1>1 DEF Current, Records, States

\* A thread takes a step of its own.
LEMMA JobMoves ==
  ASSUME VisionTypes, NEW a \in Analyses, NEW from \in JobSteps \ {"done"}, NEW to \in JobSteps,
         JobAt(a, from, to)
  PROVE  /\ job' \in [Analyses -> Jobs] /\ job[a].pc = from /\ job'[a].pc = to
         /\ \A b \in Analyses : b # a => job'[b] = job[b]
         /\ \A b \in Analyses, g \in Guests : HeldBy(g, b)' => HeldBy(g, b)
         /\ UNCHANGED <<now, req, ended>> /\ UNCHANGED handoffVars /\ UNCHANGED transferVars
  <1> DEFINE row == [job[a] EXCEPT !.pc = to]
  <1>1. job[a] \in Jobs BY DEF VisionTypes
  <1>2. row \in Jobs /\ row.pc = to /\ row.by = job[a].by /\ row.held = job[a].held
    BY <1>1 DEF Jobs
  <1>3. job' = [job EXCEPT ![a] = row] /\ job[a].pc = from BY DEF JobAt
  <1> HIDE DEF row
  <1>4. /\ job' \in [Analyses -> Jobs] /\ job'[a] = row
        /\ \A b \in Analyses : b # a => job'[b] = job[b]
    BY <1>2, <1>3 DEF VisionTypes
  <1>5. \A b \in Analyses, g \in Guests : HeldBy(g, b)' => HeldBy(g, b)
    BY <1>2, <1>3, <1>4 DEF HeldBy
  <1> QED BY <1>2, <1>3, <1>4, <1>5 DEF JobAt

LEMMA AnalysisKeeps ==
  ASSUME Inv, VisionTypes', \A a \in Analyses : Aged(a) /\ WorkedOn(a),
         UNCHANGED <<now, req, ended>>, UNCHANGED handoffVars, UNCHANGED transferVars,
         \A a \in seen' : a \in seen \/ (job[a].pc = "deliver" /\ job'[a].pc = "done")
  PROVE  Inv'
  <1>1. OffersOK' BY OffersStay DEF Inv
  <1>2. Requesting' BY DEF Inv, Requesting
  <1>3. TransfersOK' BY DEF Inv, TransfersOK, TransferTypes, TrackedBy, InHand, transferVars
  <1>4. VisionOK BY DEF Inv
  <1>5. \A e \in Guests : binding[e] # NoBinding => binding[e].a \in Analyses
    BY DEF Inv, TransfersOK, TrackedBy
  <1>6. \A e \in Guests : req[e].pc \in {"kill", "drop"} => req[e].a \in Analyses
    BY DEF Inv, Requesting, RequestOK, Parting, Cancelling
  <1>7. RecordsOK' /\ CancellingOK' BY <1>4, <1>6, RecordsStep
  <1>8. BoundOK' BY <1>4, <1>5, BoundStep DEF transferVars
  <1> QED BY <1>1, <1>2, <1>3, <1>7, <1>8 DEF Inv, VisionOK

\* The thread of an analysis takes a step, and its record may be written.
LEMMA ThreadStep ==
  ASSUME Inv, NEW a \in Analyses, NEW from \in JobSteps, NEW to \in JobSteps,
         JobAt(a, from, to), from \notin {"none", "done"}, to # "none",
         record' \in [Analyses -> Records], \A b \in Analyses : Aged(b),
         to = "discard" => record[a].st \notin {"cancelled", "gone"} /\ record'[a].st = "completed",
         to = "deliver" => from = "discard" /\ record'[a].st = "gone",
         seen' \in {seen, seen \cup {a}}, seen' = seen \/ (from = "deliver" /\ to = "done")
  PROVE  Inv'
  <1>1. /\ VisionTypes /\ job' \in [Analyses -> Jobs]
        /\ job[a].pc = from /\ job'[a].pc = to
        /\ \A b \in Analyses : b # a => job'[b] = job[b]
        /\ \A b \in Analyses, g \in Guests : HeldBy(g, b)' => HeldBy(g, b)
        /\ UNCHANGED <<now, req, ended>> /\ UNCHANGED handoffVars /\ UNCHANGED transferVars
    BY JobMoves DEF Inv, VisionOK
  <1>2. VisionTypes' BY <1>1 DEF VisionTypes
  <1>3. \A b \in Analyses : WorkedOn(b) BY <1>1 DEF WorkedOn
  <1> QED BY <1>1, <1>2, <1>3, AnalysisKeeps

LEMMA AnalysisSteps ==
  ASSUME Inv, NEW a \in Analyses, AnalysisStep(a)
  PROVE  Inv'
  <1>0. /\ VisionOK /\ VisionTypes /\ Current(a) \in States
        /\ \/ Current(a) = record[a].st
           \/ record[a].st \in {"awaiting", "analyzing"} /\ Current(a) = "expired"
    BY CurrentIs DEF Inv, VisionOK
  <1>1. {"none", "begin", "call", "work", "complete", "discard", "deliver", "fail", "done"}
           \subseteq JobSteps
    BY DEF JobSteps
  <1>2. ASSUME UNCHANGED record
        PROVE  record' \in [Analyses -> Records] /\ \A b \in Analyses : Aged(b)
    BY <1>0, <1>2 DEF VisionTypes, Aged, VisionOK, RecordsOK
  <1>3. CASE BeginAnalysis(a)
    <2>1. CASE Current(a) = "awaiting" /\ Set(a, "analyzing") /\ JobAt(a, "begin", "call")
               /\ UNCHANGED seen
      <3>1. "analyzing" \in States BY DEF States
      <3>2. record' \in [Analyses -> Records] /\ \A b \in Analyses : Aged(b)
        BY <1>0, <2>1, <3>1, SetMoves, SetAged
      <3> QED BY <1>1, <2>1, <3>2, ThreadStep
    <2>2. CASE Set(a, Current(a)) /\ JobAt(a, "begin", "done") /\ UNCHANGED seen
      <3>1. PICK st \in States : st = Current(a) BY <1>0
      <3>2. Set(a, st) BY <2>2, <3>1
      <3>3. record' \in [Analyses -> Records] /\ \A b \in Analyses : Aged(b)
        BY <1>0, <3>1, <3>2, SetMoves, SetAged
      <3> QED BY <1>1, <2>2, <3>3, ThreadStep
    <2> QED BY <1>3, <2>1, <2>2 DEF BeginAnalysis
  <1>4. CASE CallWorker(a)
    <2>1. /\ UNCHANGED <<record, seen>>
          /\ JobAt(a, "call", "work") \/ JobAt(a, "call", "fail")
      BY <1>4 DEF CallWorker
    <2> QED BY <1>1, <1>2, <2>1, ThreadStep
  <1>5. CASE WorkerEnds(a)
    <2>1. /\ UNCHANGED <<record, seen>>
          /\ JobAt(a, "work", "complete") \/ JobAt(a, "work", "fail")
      BY <1>5 DEF WorkerEnds
    <2> QED BY <1>1, <1>2, <2>1, ThreadStep
  <1>6. CASE Complete(a)
    <2>1. CASE /\ Current(a) = "analyzing" /\ Set(a, "completed")
               /\ JobAt(a, "complete", "discard") /\ UNCHANGED seen
      <3>1. "completed" \in States BY DEF States
      <3>2. record[a].st = "analyzing" BY <1>0, <2>1
      <3>3. /\ record' \in [Analyses -> Records] /\ record'[a].st = "completed"
            /\ \A b \in Analyses : Aged(b)
        BY <1>0, <2>1, <3>1, <3>2, SetMoves, SetAged
      <3> QED BY <1>1, <2>1, <3>2, <3>3, ThreadStep
    <2>2. CASE Set(a, Current(a)) /\ JobAt(a, "complete", "fail") /\ UNCHANGED seen
      <3>1. PICK st \in States : st = Current(a) BY <1>0
      <3>2. Set(a, st) BY <2>2, <3>1
      <3>3. record' \in [Analyses -> Records] /\ \A b \in Analyses : Aged(b)
        BY <1>0, <3>1, <3>2, SetMoves, SetAged
      <3> QED BY <1>1, <2>2, <3>3, ThreadStep
    <2> QED BY <1>6, <2>1, <2>2 DEF Complete
  <1>7. CASE Fail(a)
    <2>1. JobAt(a, "fail", "done") /\ Discard(a) /\ UNCHANGED seen BY <1>7 DEF Fail
    <2>2. record' \in [Analyses -> Records] /\ \A b \in Analyses : Aged(b)
      BY <1>0, <2>1, DiscardAged
    <2> QED BY <1>1, <2>1, <2>2, ThreadStep
  <1>8. CASE DiscardResult(a)
    <2>1. JobAt(a, "discard", "deliver") /\ Discard(a) /\ UNCHANGED seen
      BY <1>8 DEF DiscardResult
    <2>2. /\ record' \in [Analyses -> Records] /\ record'[a].st = "gone"
          /\ \A b \in Analyses : Aged(b)
      BY <1>0, <2>1, DiscardAged
    <2> QED BY <1>1, <2>1, <2>2, ThreadStep
  <1>9. CASE Deliver(a)
    <2>1. /\ JobAt(a, "deliver", "done") /\ UNCHANGED record /\ seen' \in {seen, seen \cup {a}}
      BY <1>9 DEF Deliver
    <2> QED BY <1>1, <1>2, <2>1, ThreadStep
  <1> QED BY <1>3, <1>4, <1>5, <1>6, <1>7, <1>8, <1>9 DEF AnalysisStep

-----------------------------------------------------------------------------
(* Cancelling an analysis, asking after it, and leaving.                   *)

\* A guest's request goes on, and analyses with it.
LEMMA RequestKeeps ==
  ASSUME Inv, NEW g \in Guests, NEW r \in Requests, RequestOK(r), req' = [req EXCEPT ![g] = r],
         now' = now, UNCHANGED handoffVars, UNCHANGED transferVars,
         req[g].pc \notin Declaring \cup {"forget"},
         r.pc \notin Declaring \cup {"received", "forget"},
         r.leaving => req[g].leaving,
         VisionTypes', \A a \in Analyses : Aged(a) /\ WorkedOn(a), seen' = seen,
         \A a \in ended' : a \in ended \/ (record'[a].st = "gone" /\ NotShown(a)'),
         r.pc \in {"kill", "drop"} =>
            \E a \in Analyses : /\ a = r.a
                                /\ \/ req[g].pc \in {"kill", "drop"} /\ a = req[g].a
                                   \/ record'[a].st = "cancelled" /\ NotShown(a)',
         r.pc = "gone" => \A a \in Analyses : record'[a].by # g /\ ~HeldBy(g, a)'
  PROVE  Inv'
  <1>1. /\ Requesting' /\ req'[g] = r /\ \A e \in Guests : e # g => req'[e] = req[e]
    BY RequestMoves DEF Inv
  <1>2. TransfersOK' BY <1>1, TransfersStay DEF Inv
  <1>3. OffersOK' BY OffersStay DEF Inv
  <1>4. VisionOK BY DEF Inv
  <1>5. \A e \in Guests : binding[e] # NoBinding => binding[e].a \in Analyses
    BY DEF Inv, TransfersOK, TrackedBy
  <1>6. \A e \in Guests : req[e].pc \in {"kill", "drop"} => req[e].a \in Analyses
    BY DEF Inv, Requesting, RequestOK, Parting, Cancelling
  <1>7. \A e \in Guests : req'[e].pc \in {"kill", "drop"} =>
            \E a \in Analyses :
               /\ a = req'[e].a
               /\ \/ req[e].pc \in {"kill", "drop"} /\ a = req[e].a
                  \/ record'[a].st = "cancelled" /\ NotShown(a)'
    BY <1>1, <1>6
  <1>8. \A e \in Guests : req'[e].pc = "gone" =>
            req[e].pc = "gone" \/ (\A a \in Analyses : record'[a].by # e /\ ~HeldBy(e, a)')
    BY <1>1
  <1>9. RecordsOK' /\ CancellingOK' BY <1>4, <1>7, <1>8, RecordsStep
  <1>10. BoundOK' BY <1>4, <1>5, BoundStep DEF transferVars
  <1> QED BY <1>1, <1>2, <1>3, <1>9, <1>10 DEF Inv, VisionOK

\* What a step of analyses leaves alone.
LEMMA RecordsStay ==
  ASSUME VisionOK, UNCHANGED record
  PROVE  record' \in [Analyses -> Records] /\ \A a \in Analyses : Aged(a)
  BY DEF VisionOK, VisionTypes, RecordsOK, Aged

LEMMA JobsStay ==
  ASSUME VisionOK, UNCHANGED job
  PROVE  /\ job' \in [Analyses -> Jobs]
         /\ \A a \in Analyses : WorkedOn(a)
  BY DEF VisionOK, VisionTypes, WorkedOn, HeldBy

\* A task is taken out of _vision_jobs; its thread goes on.
LEMMA JobLetGo ==
  ASSUME VisionOK, NEW a \in Analyses, job' = [job EXCEPT ![a].held = FALSE]
  PROVE  /\ job' \in [Analyses -> Jobs]
         /\ \A b \in Analyses : WorkedOn(b)
  <1> DEFINE row == [job[a] EXCEPT !.held = FALSE]
  <1>1. job[a] \in Jobs BY DEF VisionOK, VisionTypes
  <1>2. row \in Jobs /\ row.pc = job[a].pc /\ ~row.held BY <1>1 DEF Jobs
  <1>3. job' = [job EXCEPT ![a] = row] OBVIOUS
  <1> HIDE DEF row
  <1>4. /\ job' \in [Analyses -> Jobs] /\ job'[a] = row
        /\ \A b \in Analyses : b # a => job'[b] = job[b]
    BY <1>2, <1>3 DEF VisionOK, VisionTypes
  <1> QED BY <1>2, <1>4 DEF WorkedOn, HeldBy

LEMMA PrepareStep ==
  ASSUME Inv, NEW g \in Guests, NEW a \in Analyses, NEW h \in Handoffs, PrepareAnalysis(g, a, h)
  PROVE  Inv'
  <1> DEFINE row == [by |-> g, h |-> h, t |-> NoTransfer, st |-> "awaiting", exp |-> now + Life]
  <1>0. VisionOK /\ Requesting /\ req[g] \in Requests /\ RequestOK(req[g])
        /\ req = [req EXCEPT ![g] = req[g]]
    BY DEF Inv, Requesting
  <1>1. /\ req[g].pc = "idle" /\ record[a].st = "none" /\ record' = [record EXCEPT ![a] = row]
        /\ UNCHANGED <<now, req, job, ended, seen>>
        /\ UNCHANGED handoffVars /\ UNCHANGED transferVars
    BY DEF PrepareAnalysis
  <1>2. row \in Records /\ row.st = "awaiting" /\ row.by = g
    <2>1. now + Life \in Nat BY <1>0, VisualBounds DEF Requesting
    <2> QED BY <2>1 DEF Records, States
  <1> HIDE DEF row
  <1>3. /\ record' \in [Analyses -> Records] /\ record'[a] = row
        /\ \A b \in Analyses : b # a => record'[b] = record[b]
    BY <1>0, <1>1, <1>2, RecordMoves DEF VisionOK
  <1>4. \A b \in Analyses : Aged(b)
    BY <1>0, <1>1, <1>2, <1>3 DEF Aged, VisionOK, RecordsOK
  <1>5. /\ job' \in [Analyses -> Jobs]
        /\ \A b \in Analyses : WorkedOn(b)
    BY <1>0, <1>1, JobsStay
  <1>6. VisionTypes' BY <1>0, <1>1, <1>3, <1>5 DEF VisionOK, VisionTypes
  <1> QED BY <1>1, <1>4, <1>5, <1>6, AnalysisKeeps

LEMMA CancelAnalysisStep ==
  ASSUME Inv, NEW g \in Guests, NEW a \in Analyses, CancelAnalysis(g, a)
  PROVE  Inv'
  <1> DEFINE r == [IdleReq EXCEPT !.pc = "find", !.a = a]
  <1>0. VisionOK BY DEF Inv
  <1>1. /\ req[g].pc = "idle" /\ job' = [job EXCEPT ![a].held = FALSE]
        /\ req' = [req EXCEPT ![g] = r]
        /\ UNCHANGED <<now, record, ended, seen>>
        /\ UNCHANGED handoffVars /\ UNCHANGED transferVars
    BY DEF CancelAnalysis
  <1>2. r \in Requests /\ RequestOK(r) /\ r.pc = "find" /\ ~r.leaving
    BY DEF IdleReq, Requests, RequestOK, Parting, Cancelling, States
  <1> HIDE DEF r
  <1>3. record' \in [Analyses -> Records] /\ \A b \in Analyses : Aged(b)
    BY <1>0, <1>1, RecordsStay
  <1>4. /\ job' \in [Analyses -> Jobs]
        /\ \A b \in Analyses : WorkedOn(b)
    BY <1>0, <1>1, JobLetGo
  <1>5. VisionTypes' BY <1>0, <1>1, <1>3, <1>4 DEF VisionOK, VisionTypes
  <1> QED BY <1>1, <1>2, <1>3, <1>4, <1>5, RequestKeeps DEF Declaring

\* What a cancelling request of a guest is about, and how it ends.
LEMMA CancellingIs ==
  ASSUME Inv, NEW g \in Guests, req[g].pc \in Cancelling
  PROVE  /\ VisionOK /\ VisionTypes /\ Requesting /\ req[g] \in Requests /\ RequestOK(req[g])
         /\ \E a \in Analyses : a = req[g].a
         /\ req[g].pc \notin Declaring \cup {"forget"}
  BY DEF Inv, VisionOK, Requesting, RequestOK, Parting, Cancelling, Declaring

LEMMA AnsweredKeeps ==
  ASSUME Inv, NEW g \in Guests, req[g].pc \in Cancelling, Answer(g), now' = now,
         UNCHANGED handoffVars, UNCHANGED transferVars,
         VisionTypes', \A a \in Analyses : Aged(a) /\ WorkedOn(a), seen' = seen,
         \A a \in ended' : a \in ended \/ (record'[a].st = "gone" /\ NotShown(a)')
  PROVE  Inv'
  <1>1. PICK r \in Requests :
           /\ RequestOK(r) /\ req' = [req EXCEPT ![g] = r] /\ r.leaving = req[g].leaving
           /\ r.pc = IF req[g].leaving THEN "release" ELSE "idle"
    BY Answered DEF Inv
  <1>2. r.pc \notin Declaring \cup {"received", "forget", "kill", "drop", "gone"}
    BY <1>1 DEF Declaring
  <1>3. req[g].pc \notin Declaring \cup {"forget"} BY CancellingIs
  <1> QED BY <1>1, <1>2, <1>3, RequestKeeps

LEMMA FindStep ==
  ASSUME Inv, NEW g \in Guests, FindRecord(g)
  PROVE  Inv'
  <1>0. req[g].pc = "find" /\ req[g].pc \in Cancelling BY DEF FindRecord, Cancelling
  <1>1. /\ VisionOK /\ VisionTypes /\ Requesting /\ req[g] \in Requests /\ RequestOK(req[g])
        /\ req[g].pc \notin Declaring \cup {"forget"}
    BY <1>0, CancellingIs
  <1>2. PICK a \in Analyses : a = req[g].a BY <1>0, CancellingIs
  <1>3. UNCHANGED <<now, job, ended, seen>> /\ UNCHANGED handoffVars /\ UNCHANGED transferVars
    BY DEF FindRecord
  <1>4. /\ job' \in [Analyses -> Jobs]
        /\ \A b \in Analyses : WorkedOn(b)
    BY <1>1, <1>3, JobsStay
  <1>5. CASE Answer(g) /\ UNCHANGED record
    <2>1. record' \in [Analyses -> Records] /\ \A b \in Analyses : Aged(b)
      BY <1>1, <1>5, RecordsStay
    <2>2. VisionTypes' BY <1>1, <1>3, <1>4, <2>1 DEF VisionTypes
    <2> QED BY <1>1, <1>3, <1>4, <1>5, <2>1, <2>2, <1>0, AnsweredKeeps
  <1>6. CASE /\ Set(a, Current(a))
             /\ req' = [req EXCEPT ![g].pc = "cancel", ![g].was = Current(a)]
    <2>1. PICK st \in States : /\ st = Current(a)
                               /\ \/ st = record[a].st
                                  \/ record[a].st \in {"awaiting", "analyzing"} /\ st = "expired"
      BY <1>1, CurrentIs
    <2>2. Set(a, st) BY <1>6, <2>1
    <2>3. record' \in [Analyses -> Records] /\ \A b \in Analyses : Aged(b)
      BY <1>1, <2>1, <2>2, SetMoves, SetAged
    <2>4. VisionTypes' BY <1>1, <1>3, <1>4, <2>3 DEF VisionTypes
    <2> DEFINE r == [req[g] EXCEPT !.pc = "cancel", !.was = st]
    <2>5. r \in Requests /\ RequestOK(r) /\ r.pc = "cancel" /\ r.leaving = req[g].leaving
      BY <1>0, <1>1, <1>2 DEF Requests, RequestOK, Parting, Cancelling
    <2>6. req' = [req EXCEPT ![g] = r] BY <1>6, <2>1
    <2> HIDE DEF r
    <2> QED BY <1>1, <1>3, <1>4, <2>3, <2>4, <2>5, <2>6, RequestKeeps DEF Declaring
  <1> QED BY <1>2, <1>5, <1>6 DEF FindRecord

LEMMA CancelRecordStep ==
  ASSUME Inv, NEW g \in Guests, CancelRecord(g)
  PROVE  Inv'
  <1>0. req[g].pc = "cancel" /\ req[g].pc \in Cancelling BY DEF CancelRecord, Cancelling
  <1>1. /\ VisionOK /\ VisionTypes /\ Requesting /\ req[g] \in Requests /\ RequestOK(req[g])
        /\ req[g].pc \notin Declaring \cup {"forget"}
    BY <1>0, CancellingIs
  <1>2. PICK a \in Analyses : a = req[g].a BY <1>0, CancellingIs
  <1>3. UNCHANGED <<now, job, ended, seen>> /\ UNCHANGED handoffVars /\ UNCHANGED transferVars
    BY DEF CancelRecord
  <1>4. /\ job' \in [Analyses -> Jobs]
        /\ \A b \in Analyses : WorkedOn(b)
    BY <1>1, <1>3, JobsStay
  <1>5. CASE Answer(g) /\ UNCHANGED record
    <2>1. record' \in [Analyses -> Records] /\ \A b \in Analyses : Aged(b)
      BY <1>1, <1>5, RecordsStay
    <2>2. VisionTypes' BY <1>1, <1>3, <1>4, <2>1 DEF VisionTypes
    <2> QED BY <1>1, <1>3, <1>4, <1>5, <2>1, <2>2, <1>0, AnsweredKeeps
  <1>6. CASE /\ record[a].by = g /\ Current(a) \notin Ended \ {"cancelled"}
             /\ Set(a, "cancelled") /\ req' = [req EXCEPT ![g].pc = "kill"]
    <2>1. record[a].st \in {"awaiting", "analyzing", "cancelled"}
      <3>1. record[a].st \in States /\ record[a].st \notin {"none", "gone"}
        <4>1. record[a] \in Records /\ NoGuest \notin Guests BY <1>1, VisualNames DEF VisionTypes
        <4> QED BY <1>1, <1>6, <4>1 DEF VisionOK, RecordsOK, Records
      <3>2. /\ Current(a) \notin {"completed", "failed", "expired"}
            /\ Current(a) = record[a].st \/ record[a].st \in {"awaiting", "analyzing"}
        BY <1>1, <1>6, CurrentIs DEF Ended
      <3> QED BY <3>1, <3>2 DEF States
    <2>2. "cancelled" \in States BY DEF States
    <2>3. /\ record' \in [Analyses -> Records] /\ record'[a].st = "cancelled"
          /\ \A b \in Analyses : Aged(b)
      BY <1>1, <1>6, <2>1, <2>2, SetMoves, SetAged
    <2>4. VisionTypes' BY <1>1, <1>3, <1>4, <2>3 DEF VisionTypes
    <2>5. NotShown(a)' BY <1>1, <1>3, <2>1 DEF NotShown, VisionOK, RecordsOK
    <2> DEFINE r == [req[g] EXCEPT !.pc = "kill"]
    <2>6. r \in Requests /\ RequestOK(r) /\ r.pc = "kill" /\ r.leaving = req[g].leaving /\ r.a = a
      BY <1>0, <1>1, <1>2 DEF Requests, RequestOK, Parting, Cancelling
    <2>7. req' = [req EXCEPT ![g] = r] BY <1>6
    <2> HIDE DEF r
    <2> QED BY <1>1, <1>3, <1>4, <2>3, <2>4, <2>5, <2>6, <2>7, RequestKeeps DEF Declaring
  <1> QED BY <1>2, <1>5, <1>6 DEF CancelRecord

LEMMA KillStep ==
  ASSUME Inv, NEW g \in Guests, KillWorker(g)
  PROVE  Inv'
  <1>0. req[g].pc = "kill" /\ req[g].pc \in Cancelling BY DEF KillWorker, Cancelling
  <1>1. /\ VisionOK /\ VisionTypes /\ Requesting /\ req[g] \in Requests /\ RequestOK(req[g])
        /\ req[g].pc \notin Declaring \cup {"forget"}
    BY <1>0, CancellingIs
  <1>2. PICK a \in Analyses : a = req[g].a BY <1>0, CancellingIs
  <1>3. /\ UNCHANGED <<now, record, job, ended, seen>> /\ UNCHANGED handoffVars
        /\ UNCHANGED transferVars
    BY DEF KillWorker
  <1>4. /\ job' \in [Analyses -> Jobs]
        /\ \A b \in Analyses : WorkedOn(b)
    BY <1>1, <1>3, JobsStay
  <1>5. record' \in [Analyses -> Records] /\ \A b \in Analyses : Aged(b)
    BY <1>1, <1>3, RecordsStay
  <1>6. VisionTypes' BY <1>1, <1>3, <1>4, <1>5 DEF VisionTypes
  <1> DEFINE r == [req[g] EXCEPT !.pc = "drop"]
  <1>7. r \in Requests /\ RequestOK(r) /\ r.pc = "drop" /\ r.leaving = req[g].leaving /\ r.a = a
    BY <1>0, <1>1, <1>2 DEF Requests, RequestOK, Parting, Cancelling
  <1>8. req' = [req EXCEPT ![g] = r] BY DEF KillWorker
  <1> HIDE DEF r
  <1> QED BY <1>0, <1>1, <1>2, <1>3, <1>4, <1>5, <1>6, <1>7, <1>8, RequestKeeps DEF Declaring

\* What is dropped was cancelled, and its result is not on its way.
LEMMA DropStep ==
  ASSUME Inv, NEW g \in Guests, DropRecord(g)
  PROVE  Inv'
  <1>0. req[g].pc = "drop" /\ req[g].pc \in Cancelling BY DEF DropRecord, Cancelling
  <1>1. VisionOK /\ VisionTypes /\ req[g].pc \notin Declaring \cup {"forget"} BY <1>0, CancellingIs
  <1>2. PICK a \in Analyses : a = req[g].a BY <1>0, CancellingIs
  <1>3. /\ UNCHANGED <<now, job, seen>> /\ UNCHANGED handoffVars /\ UNCHANGED transferVars
        /\ Discard(a) /\ ended' = ended \cup {a} /\ Answer(g)
    BY <1>2 DEF DropRecord
  <1>4. /\ job' \in [Analyses -> Jobs]
        /\ \A b \in Analyses : WorkedOn(b)
    BY <1>1, <1>3, JobsStay
  <1>5. /\ record' \in [Analyses -> Records] /\ record'[a].st = "gone"
        /\ \A b \in Analyses : Aged(b)
    BY <1>1, <1>3, DiscardAged
  <1>6. VisionTypes' BY <1>1, <1>3, <1>4, <1>5 DEF VisionTypes
  <1>7. NotShown(a)' BY <1>0, <1>1, <1>2, <1>3 DEF NotShown, VisionOK, CancellingOK
  <1> QED BY <1>0, <1>1, <1>3, <1>4, <1>5, <1>6, <1>7, AnsweredKeeps

LEMMA AskStep ==
  ASSUME Inv, NEW g \in Guests, NEW a \in Analyses, AskStatus(g, a)
  PROVE  Inv'
  <1>0. VisionOK /\ VisionTypes /\ Requesting /\ req[g] \in Requests /\ RequestOK(req[g])
        /\ req = [req EXCEPT ![g] = req[g]]
    BY DEF Inv, VisionOK, Requesting
  <1>1. /\ req[g].pc = "idle" /\ record[a].by = g /\ Current(a) = "expired"
        /\ Discard(a) /\ ended' = ended \cup {a}
        /\ UNCHANGED <<now, req, job, seen>> /\ UNCHANGED handoffVars /\ UNCHANGED transferVars
    BY DEF AskStatus
  <1>2. /\ job' \in [Analyses -> Jobs]
        /\ \A b \in Analyses : WorkedOn(b)
    BY <1>0, <1>1, JobsStay
  <1>3. /\ record' \in [Analyses -> Records] /\ record'[a].st = "gone"
        /\ \A b \in Analyses : Aged(b)
    BY <1>0, <1>1, DiscardAged
  <1>4. VisionTypes' BY <1>0, <1>1, <1>2, <1>3 DEF VisionTypes
  <1>5. record[a].st \in {"awaiting", "analyzing", "expired"} BY <1>0, <1>1, CurrentIs
  <1>6. NotShown(a)' BY <1>0, <1>1, <1>5 DEF NotShown, VisionOK, RecordsOK
  <1> QED BY <1>0, <1>1, <1>2, <1>3, <1>4, <1>6, RequestKeeps DEF Declaring

LEMMA NextJobStep ==
  ASSUME Inv, NEW g \in Guests, CancelNextJob(g)
  PROVE  Inv'
  <1>1. PICK a \in Analyses : req' = [req EXCEPT ![g] = [Leaving EXCEPT !.pc = "find", !.a = a]]
    BY DEF CancelNextJob, Held
  <1>2. /\ req[g].pc = "jobs" /\ now' = now
        /\ UNCHANGED handoffVars /\ UNCHANGED transferVars /\ UNCHANGED visionVars
    BY DEF CancelNextJob
  <1> DEFINE r == [Leaving EXCEPT !.pc = "find", !.a = a]
  <1>3. "find" \in Cancelling BY DEF Cancelling
  <1>4. r \in Requests /\ RequestOK(r) /\ r.pc = "find" /\ r.leaving BY <1>3, LeavingTypes
  <1>5. req[g].leaving BY <1>2 DEF Inv, Requesting, RequestOK, Parting
  <1>6. OffersOK' BY <1>2, OffersStay DEF Inv
  <1>7. req' = [req EXCEPT ![g] = r] BY <1>1
  <1> HIDE DEF r
  <1> QED BY <1>2, <1>4, <1>5, <1>6, <1>7, RequestGoesOn DEF Declaring

LEMMA ReleaseStep ==
  ASSUME Inv, NEW g \in Guests, ReleaseJob(g)
  PROVE  Inv'
  <1> DEFINE r == [Leaving EXCEPT !.pc = "jobs"]
  <1>0. VisionOK /\ RequestOK(req[g]) BY DEF Inv, Requesting
  <1>1. /\ req[g].pc = "release" /\ UNCHANGED <<now, record, ended, seen>>
        /\ job' = [job EXCEPT ![req[g].a].held = FALSE] /\ req' = [req EXCEPT ![g] = r]
        /\ UNCHANGED handoffVars /\ UNCHANGED transferVars
    BY DEF ReleaseJob
  <1>2. r \in Requests /\ RequestOK(r) /\ r.pc = "jobs" /\ r.leaving BY PartingTypes
  <1> HIDE DEF r
  <1>3. PICK a \in Analyses : a = req[g].a BY <1>0, <1>1 DEF RequestOK
  <1>4. record' \in [Analyses -> Records] /\ \A b \in Analyses : Aged(b)
    BY <1>0, <1>1, RecordsStay
  <1>5. job' \in [Analyses -> Jobs] /\ \A b \in Analyses : WorkedOn(b)
    BY <1>0, <1>1, <1>3, JobLetGo
  <1>6. VisionTypes' BY <1>0, <1>1, <1>4, <1>5 DEF VisionOK, VisionTypes
  <1>7. req[g].leaving BY <1>0, <1>1 DEF RequestOK, Parting
  <1> QED BY <1>1, <1>2, <1>4, <1>5, <1>6, <1>7, RequestKeeps DEF Declaring

LEMMA ClearStep ==
  ASSUME Inv, NEW g \in Guests, ClearSession(g)
  PROVE  Inv'
  <1> DEFINE gone == [NoRecord EXCEPT !.st = "gone"]
  <1>0. /\ VisionOK /\ VisionTypes /\ req[g] \in Requests /\ RequestOK(req[g])
        /\ NoGuest \notin Guests
    BY VisualNames DEF Inv, VisionOK, Requesting
  <1>1. /\ req[g].pc = "jobs" /\ Held(g) = {} /\ UNCHANGED <<now, job, ended, seen>>
        /\ record' = [a \in Analyses |-> IF record[a].by = g THEN gone ELSE record[a]]
        /\ req' = [req EXCEPT ![g].pc = "gone"]
        /\ UNCHANGED handoffVars /\ UNCHANGED transferVars
    BY DEF ClearSession
  <1>2. gone \in Records /\ gone.st = "gone" /\ gone.by = NoGuest BY DEF NoRecord, Records, States
  <1> HIDE DEF gone
  <1>3. /\ record' \in [Analyses -> Records]
        /\ \A a \in Analyses : record'[a] = IF record[a].by = g THEN gone ELSE record[a]
    BY <1>0, <1>1, <1>2 DEF VisionTypes
  <1>4. \A a \in Analyses : Aged(a) BY <1>0, <1>2, <1>3 DEF Aged, VisionOK, RecordsOK
  <1>5. /\ job' \in [Analyses -> Jobs]
        /\ \A b \in Analyses : WorkedOn(b)
    BY <1>0, <1>1, JobsStay
  <1>6. VisionTypes' BY <1>0, <1>1, <1>3, <1>5 DEF VisionTypes
  <1> DEFINE r == [req[g] EXCEPT !.pc = "gone"]
  <1>7. r \in Requests /\ RequestOK(r) /\ r.pc = "gone" /\ r.leaving = req[g].leaving
    BY <1>0, <1>1 DEF Requests, RequestOK, Parting, Cancelling
  <1>8. req' = [req EXCEPT ![g] = r] BY <1>1
  <1>9. \A a \in Analyses : record'[a].by # g /\ ~HeldBy(g, a)'
    BY <1>0, <1>1, <1>2, <1>3 DEF Held, HeldBy
  <1> HIDE DEF r
  <1> QED BY <1>1, <1>4, <1>5, <1>6, <1>7, <1>8, <1>9, RequestKeeps DEF Declaring

LEMMA SweepAnalysesStep ==
  ASSUME Inv, SweepAnalyses
  PROVE  Inv'
  <1>0. VisionOK /\ VisionTypes BY DEF Inv, VisionOK
  <1>1. /\ record' = [a \in Analyses |-> [record[a] EXCEPT !.st = Current(a)]]
        /\ UNCHANGED <<now, req, job, ended, seen>>
        /\ UNCHANGED handoffVars /\ UNCHANGED transferVars
    BY DEF SweepAnalyses
  <1>2. ASSUME NEW a \in Analyses
        PROVE  /\ record'[a] \in Records /\ record'[a].by = record[a].by
               /\ record'[a].t = record[a].t
               /\ \/ record'[a].st = record[a].st
                  \/ record[a].st \in {"awaiting", "analyzing"} /\ record'[a].st = "expired"
    <2>1. PICK st \in States : /\ st = Current(a)
                               /\ \/ st = record[a].st
                                  \/ record[a].st \in {"awaiting", "analyzing"} /\ st = "expired"
      BY <1>0, CurrentIs
    <2>2. record'[a] = [record[a] EXCEPT !.st = st] BY <1>1, <2>1
    <2>3. record[a] \in Records BY <1>0 DEF VisionTypes
    <2> QED BY <2>1, <2>2, <2>3 DEF Records
  <1>3. record' \in [Analyses -> Records] BY <1>1, <1>2
  <1>4. \A a \in Analyses : Aged(a) BY <1>0, <1>2 DEF Aged, VisionOK, RecordsOK
  <1>5. /\ job' \in [Analyses -> Jobs]
        /\ \A b \in Analyses : WorkedOn(b)
    BY <1>0, <1>1, JobsStay
  <1>6. VisionTypes' BY <1>0, <1>1, <1>3, <1>5 DEF VisionTypes
  <1> QED BY <1>1, <1>4, <1>5, <1>6, AnalysisKeeps

-----------------------------------------------------------------------------
(* An analysis is bound to a transfer, and starts when its image is there. *)

LEMMA AttachStep ==
  ASSUME Inv, NEW g \in Guests, AttachTransfer(g)
  PROVE  Inv'
  <1>0. /\ OffersOK /\ Requesting /\ TransfersOK /\ TransferTypes /\ TrackedBy(g)
        /\ VisionOK /\ VisionTypes /\ req[g] \in Requests /\ RequestOK(req[g])
    BY DEF Inv, Requesting, TransfersOK, VisionOK
  <1>1. /\ req[g].pc = "attach" /\ UNCHANGED <<now, buffer, pending, lost, job, ended, seen>>
        /\ UNCHANGED handoffVars
    BY DEF AttachTransfer
  <1>2. PICK a \in Analyses : a = req[g].a BY <1>0, <1>1 DEF RequestOK
  <1>3. PICK t \in Transfers : t = req[g].t BY <1>0, <1>1 DEF RequestOK
  <1>4. ~req[g].leaving BY <1>0, <1>1 DEF RequestOK, Parting, Cancelling
  <1>5. OffersOK' BY <1>0, <1>1, OffersStay
  <1>6. CASE /\ req' = [req EXCEPT ![g].pc = "undo"]
             /\ UNCHANGED <<record, binding>>
    <2> DEFINE r == [req[g] EXCEPT !.pc = "undo"]
    <2>1. r \in Requests /\ RequestOK(r) /\ r.pc = "undo" /\ r.t = t /\ ~r.leaving
      BY <1>0, <1>1, <1>3, <1>4 DEF Requests, RequestOK, Parting, Cancelling
    <2>2. req' = [req EXCEPT ![g] = r] BY <1>6
    <2> HIDE DEF r
    <2>3. /\ Requesting' /\ req'[g] = r /\ \A e \in Guests : e # g => req'[e] = req[e]
      BY <1>0, <1>1, <2>1, <2>2, RequestMoves
    <2>4. TransferTypes' BY <1>0, <1>1, <1>6 DEF TransferTypes
    <2>5. TrackedBy(g)'
      BY <1>0, <1>1, <1>3, <1>6, <2>1, <2>3 DEF TrackedBy, InHand, Declaring
    <2>6. TransfersOK' BY <1>0, <1>1, <1>6, <2>3, <2>4, <2>5, TransferStep
    <2>7. UNCHANGED record /\ UNCHANGED job BY <1>1, <1>6
    <2>8. /\ record' \in [Analyses -> Records] /\ \A b \in Analyses : Aged(b)
          /\ job' \in [Analyses -> Jobs]
          /\ \A b \in Analyses : WorkedOn(b)
      BY <1>0, <2>7, RecordsStay, JobsStay
    <2>9. VisionTypes' BY <1>0, <1>1, <2>8 DEF VisionTypes
    <2>10. \A e \in Guests : req[e].pc \in {"kill", "drop"} => req[e].a \in Analyses
      BY <1>0 DEF Requesting, RequestOK, Parting, Cancelling
    <2>11. RecordsOK' /\ CancellingOK'
      BY <1>0, <1>1, <2>1, <2>3, <2>8, <2>9, <2>10, RecordsStep
    <2>12. \A e \in Guests : binding[e] # NoBinding => binding[e].a \in Analyses
      BY <1>0 DEF TransfersOK, TrackedBy
    <2>13. BoundOK' BY <1>0, <1>6, <2>8, <2>12, BoundStep
    <2> QED BY <1>5, <2>3, <2>6, <2>9, <2>11, <2>13 DEF Inv, VisionOK
  <1>7. CASE /\ record[a].by = g /\ Current(a) = "awaiting" /\ record[a].t = NoTransfer
             /\ record' = [record EXCEPT ![a].t = t]
             /\ binding' = [binding EXCEPT ![g] = [a |-> a, t |-> t]]
             /\ req' = [req EXCEPT ![g].pc = "track"]
    <2>0. NoTransfer \notin Transfers /\ NoAnalysis \notin Analyses /\ NoBinding.a = NoAnalysis
      BY VisualNames DEF NoBinding
    <2>1. record[a].st = "awaiting" BY <1>0, <1>7, CurrentIs
    <2>2. job[a].pc = "none" BY <1>0, <1>7, <2>1 DEF VisionOK, RecordsOK
    <2>3. \A e \in Guests : binding[e].a # a
      <3>1. ASSUME NEW e \in Guests, binding[e].a = a PROVE FALSE
        <4>1. binding[e] # NoBinding BY <2>0, <3>1
        <4> QED BY <1>0, <1>7, <2>1, <3>1, <4>1 DEF VisionOK, BoundOK
      <3> QED BY <3>1
    <2> DEFINE row == [record[a] EXCEPT !.t = t]
               b == [a |-> a, t |-> t]
    <2>4. row \in Records /\ row.st = "awaiting" /\ row.by = g /\ row.t = t
      <3>1. record[a] \in Records BY <1>0 DEF VisionTypes
      <3> QED BY <1>7, <2>1, <3>1 DEF Records
    <2>5. b \in Bindings /\ b.a = a /\ b.t = t BY DEF Bindings
    <2>6. record' = [record EXCEPT ![a] = row] /\ binding' = [binding EXCEPT ![g] = b] BY <1>7
    <2> HIDE DEF row, b
    <2>7. /\ record' \in [Analyses -> Records] /\ record'[a] = row
          /\ \A c \in Analyses : c # a => record'[c] = record[c]
      BY <1>0, <2>4, <2>6, RecordMoves
    <2>8. /\ binding' \in [Guests -> Bindings] /\ binding'[g] = b
          /\ \A e \in Guests : e # g => binding'[e] = binding[e]
      BY <1>0, <1>7, <2>5, <2>6 DEF TransferTypes
    <2>9. PICK r \in Requests :
             /\ RequestOK(r) /\ req' = [req EXCEPT ![g] = r] /\ ~r.leaving /\ r.pc = "track"
             /\ r.t = t
      <3> DEFINE q == [req[g] EXCEPT !.pc = "track"]
      <3>1. q \in Requests /\ RequestOK(q) /\ q.pc = "track" /\ q.t = t /\ ~q.leaving
        BY <1>0, <1>1, <1>3, <1>4 DEF Requests, RequestOK, Parting, Cancelling
      <3>2. req' = [req EXCEPT ![g] = q] BY <1>7
      <3> QED BY <3>1, <3>2
    <2>10. /\ Requesting' /\ req'[g] = r /\ \A e \in Guests : e # g => req'[e] = req[e]
      BY <1>0, <1>1, <2>9, RequestMoves
    <2>11. TransferTypes' BY <1>0, <1>1, <2>8 DEF TransferTypes
    <2>12. pending[g] = NoTransfer BY <1>0, <1>1 DEF TrackedBy, Declaring
    <2>13. TrackedBy(g)'
      BY <1>0, <1>1, <1>3, <2>0, <2>5, <2>8, <2>9, <2>10, <2>12
      DEF TrackedBy, InHand, Declaring
    <2>14. TransfersOK' BY <1>0, <1>1, <2>8, <2>10, <2>11, <2>13, TransferStep
    <2>15. \A c \in Analyses : Aged(c)
      BY <1>0, <1>7, <2>0, <2>1, <2>4, <2>7 DEF Aged, VisionOK, RecordsOK
    <2>16. UNCHANGED job BY <1>1
    <2>17. /\ job' \in [Analyses -> Jobs]
           /\ \A c \in Analyses : WorkedOn(c)
      BY <1>0, <2>16, JobsStay
    <2>18. VisionTypes' BY <1>0, <1>1, <2>7, <2>17 DEF VisionTypes
    <2>19. \A e \in Guests : req[e].pc \in {"kill", "drop"} => req[e].a \in Analyses
      BY <1>0 DEF Requesting, RequestOK, Parting, Cancelling
    <2>20. RecordsOK' /\ CancellingOK'
      BY <1>0, <1>1, <2>9, <2>10, <2>15, <2>17, <2>18, <2>19, RecordsStep
    <2>21. BoundOK'
      <3> SUFFICES ASSUME NEW e \in Guests, binding'[e] # NoBinding
                   PROVE  LET c == binding'[e].a
                          IN  /\ job'[c].pc = "none" /\ record'[c].st # "none"
                              /\ record'[c].st = "awaiting" => record'[c].t # NoTransfer
                              /\ \A f \in Guests : binding'[f].a = c => f = e
        BY DEF BoundOK
      <3>1. CASE e = g
        BY <1>1, <2>0, <2>2, <2>3, <2>4, <2>5, <2>7, <2>8, <3>1
      <3>2. CASE e # g
        <4>1. binding'[e] = binding[e] /\ binding[e].a # a /\ binding[e].a \in Analyses
          BY <1>0, <2>3, <2>8, <3>2 DEF TransfersOK, TrackedBy
        <4>2. record'[binding[e].a] = record[binding[e].a] BY <2>7, <4>1
        <4>3. \A f \in Guests : binding'[f].a = binding[e].a => f = e
          BY <1>0, <2>5, <2>8, <4>1 DEF VisionOK, BoundOK
        <4> QED BY <1>0, <1>1, <4>1, <4>2, <4>3 DEF VisionOK, BoundOK
      <3> QED BY <3>1, <3>2
    <2> QED BY <1>5, <2>10, <2>14, <2>18, <2>20, <2>21 DEF Inv, VisionOK
  <1> QED BY <1>2, <1>3, <1>6, <1>7 DEF AttachTransfer

LEMMA StartStep ==
  ASSUME Inv, NEW g \in Guests, StartAnalysis(g)
  PROVE  Inv'
  <1>0. /\ OffersOK /\ Requesting /\ TransfersOK /\ TransferTypes /\ TrackedBy(g)
        /\ VisionOK /\ VisionTypes /\ req[g] \in Requests /\ RequestOK(req[g])
    BY DEF Inv, Requesting, TransfersOK, VisionOK
  <1>1. /\ req[g].pc = "received" /\ Unbind(g)
        /\ UNCHANGED <<now, buffer, lost, record, ended, seen>> /\ UNCHANGED handoffVars
    BY DEF StartAnalysis
  <1>2. ~req[g].leaving BY <1>0, <1>1 DEF RequestOK, Parting, Cancelling
  <1>3. OffersOK' BY <1>0, <1>1, OffersStay
  <1>4. buffer' \in [Transfers -> Buffers] BY <1>0, <1>1 DEF TransferTypes
  <1>5. /\ TransferTypes' /\ pending'[g] = NoTransfer /\ binding'[g] = NoBinding
        /\ \A e \in Guests : e # g => pending'[e] = pending[e] /\ binding'[e] = binding[e]
    BY <1>0, <1>1, <1>4, UnbindTypes DEF TransferTypes
  <1>6. record' \in [Analyses -> Records] /\ \A b \in Analyses : Aged(b)
    BY <1>0, <1>1, RecordsStay
  <1>7. \A e \in Guests : req[e].pc \in {"kill", "drop"} => req[e].a \in Analyses
    BY <1>0 DEF Requesting, RequestOK, Parting, Cancelling
  <1>8. \A e \in Guests : binding[e] # NoBinding => binding[e].a \in Analyses
    BY <1>0 DEF TransfersOK, TrackedBy
  <1>9. ASSUME NEW r \in Requests, RequestOK(r), req' = [req EXCEPT ![g] = r], ~r.leaving,
               r.pc \in {"idle", "find"},
               job' \in [Analyses -> Jobs],
               \A b \in Analyses : WorkedOn(b)
        PROVE  Inv'
    <2>1. /\ Requesting' /\ req'[g] = r /\ \A e \in Guests : e # g => req'[e] = req[e]
      BY <1>0, <1>1, <1>9, RequestMoves
    <2>2. TrackedBy(g)' BY <1>0, <1>1, <1>5, <1>9, <2>1 DEF TrackedBy, Declaring
    <2>3. TransfersOK' BY <1>0, <1>1, <1>5, <2>1, <2>2, TransferStep
    <2>4. VisionTypes' BY <1>0, <1>1, <1>6, <1>9 DEF VisionTypes
    <2>5. RecordsOK' /\ CancellingOK'
      BY <1>0, <1>1, <1>6, <1>7, <1>9, <2>1, <2>4, RecordsStep
    <2>6. \A e \in Guests : binding'[e] \in {binding[e], NoBinding} BY <1>5
    <2>7. BoundOK' BY <1>0, <1>6, <1>8, <1>9, <2>6, BoundStep
    <2> QED BY <1>3, <2>1, <2>3, <2>4, <2>5, <2>7 DEF Inv, VisionOK
  <1>10. CASE /\ binding[g] # NoBinding /\ Answer(g)
              /\ job' = [job EXCEPT ![binding[g].a] = [by |-> g, pc |-> "begin", held |-> TRUE]]
    <2>1. PICK a \in Analyses : a = binding[g].a BY <1>8, <1>10
    <2> DEFINE j == [by |-> g, pc |-> "begin", held |-> TRUE]
    <2>2. j \in Jobs /\ j.pc = "begin" /\ j.by = g BY DEF Jobs, JobSteps
    <2>3. job' = [job EXCEPT ![a] = j] BY <1>10, <2>1
    <2> HIDE DEF j
    <2>4. /\ job' \in [Analyses -> Jobs] /\ job'[a] = j
          /\ \A b \in Analyses : b # a => job'[b] = job[b]
      BY <1>0, <2>2, <2>3 DEF VisionTypes
    <2>5. job[a].pc = "none" BY <1>0, <1>10, <2>1 DEF VisionOK, BoundOK
    <2>6. PICK r \in Requests :
             /\ RequestOK(r) /\ req' = [req EXCEPT ![g] = r] /\ ~r.leaving /\ r.pc = "idle"
      BY <1>0, <1>2, <1>10, Answered
    <2>7. req'[g] = r BY <1>0, <1>1, <2>6, RequestMoves
    <2>8. \A b \in Analyses : WorkedOn(b)
      BY <1>1, <1>5, <1>10, <2>1, <2>2, <2>4, <2>5, <2>6, <2>7 DEF WorkedOn, HeldBy
    <2> QED BY <1>9, <2>4, <2>6, <2>8
  <1>11. CASE CancelBound(g, binding[g].a) /\ UNCHANGED job
    <2>1. PICK r \in Requests : /\ RequestOK(r) /\ req' = [req EXCEPT ![g] = r] /\ ~r.leaving
                                /\ r.pc \in {"idle", "find"}
      BY <1>11, CancelBoundMoves
    <2>2. /\ job' \in [Analyses -> Jobs]
          /\ \A b \in Analyses : WorkedOn(b)
      BY <1>0, <1>11, JobsStay
    <2> QED BY <1>9, <2>1, <2>2
  <1> QED BY <1>10, <1>11 DEF StartAnalysis

-----------------------------------------------------------------------------
(* Every step, and what follows.                                           *)

LEMMA TickStep ==
  ASSUME Inv, now' \in Nat, req' = req, UNCHANGED handoffVars, UNCHANGED transferVars,
         UNCHANGED visionVars
  PROVE  Inv'
  <1>1. OffersOK' BY OffersStay DEF Inv
  <1>2. Requesting' BY DEF Inv, Requesting
  <1>3. TransfersOK' BY DEF Inv, TransfersOK, TransferTypes, TrackedBy, InHand, transferVars
  <1>4. VisionOK'
    BY DEF Inv, VisionOK, VisionTypes, RecordsOK, BoundOK, CancellingOK, HeldBy, transferVars,
           visionVars
  <1> QED BY <1>1, <1>2, <1>3, <1>4 DEF Inv

LEMMA InitInv == Init => Inv
  <1> SUFFICES ASSUME Init PROVE Inv
    OBVIOUS
  <1>1. Requesting BY IdleTypes DEF Init, Requesting
  <1>2. OffersOK
    <2>1. NoOffer \in Offers /\ IdleDesk \in DeskReqs /\ IdleDesk.pc = "idle"
      BY DEF NoOffer, Offers, IdleDesk, DeskReqs
    <2> QED BY <2>1 DEF Init, OffersOK, OneDecision
  <1>3. TransfersOK
    <2>1. NoBuffer \in Buffers /\ NoBuffer.st = "none" /\ NoBinding \in Bindings
      BY DEF NoBuffer, Buffers, NoBinding, Bindings
    <2>2. TransferTypes BY <2>1 DEF Init, TransferTypes
    <2>3. \A g \in Guests : TrackedBy(g) BY <2>1, IdleTypes DEF Init, TrackedBy, Declaring
    <2> QED BY <2>1, <2>2, <2>3 DEF Init, TransfersOK
  <1>4. VisionOK
    <2>1. /\ NoRecord \in Records /\ NoRecord.st = "none" /\ NoRecord.by = NoGuest
          /\ NoJob \in Jobs /\ NoJob.pc = "none"
      BY DEF NoRecord, Records, States, NoJob, Jobs, JobSteps
    <2>2. VisionTypes BY <2>1 DEF Init, VisionTypes
    <2>3. RecordsOK BY <2>1 DEF Init, RecordsOK
    <2>4. BoundOK BY DEF Init, BoundOK
    <2>5. CancellingOK BY <2>1, IdleTypes DEF Init, CancellingOK
    <2> QED BY <2>2, <2>3, <2>4, <2>5 DEF VisionOK
  <1> QED BY <1>1, <1>2, <1>3, <1>4 DEF Inv

LEMMA NextInv == Inv /\ [Next]_visualVars => Inv'
  <1> SUFFICES ASSUME Inv, [Next]_visualVars PROVE Inv'
    OBVIOUS
  <1>1. ASSUME NEW g \in Guests, Message(g) PROVE Inv'
    BY <1>1, GuestOfferSteps, PrepareStep, BeginStep, CancelTransferStep, CancelAnalysisStep,
       AskStep, ReceiveStep, DisconnectStep DEF Message
  <1>2. ASSUME NEW g \in Guests, Handle(g) PROVE Inv'
    BY <1>2, GuestOfferSteps, InsertStep, AttachStep, TrackStep, UndoStep, StartStep, FindStep,
       CancelRecordStep, KillStep, DropStep, ForgetStep, NextJobStep, ReleaseStep, ClearStep
    DEF Handle
  <1>3. CASE Tick
    <2>1. now' \in Nat BY <1>3 DEF Tick, Inv, Requesting
    <2> QED BY <1>3, <2>1, TickStep DEF Tick
  <1>4. CASE UNCHANGED visualVars
    <2>1. now' \in Nat BY <1>4 DEF visualVars, Inv, Requesting
    <2> QED BY <1>4, <2>1, TickStep DEF visualVars, handoffVars, transferVars, visionVars
  <1> QED BY <1>1, <1>2, <1>3, <1>4, OwnerSteps, AnalysisSteps, SweepOffersStep,
             SweepTransfersStep, SweepAnalysesStep DEF Next

LEMMA InvHolds == Spec => []Inv
  BY InitInv, NextInv, PTL DEF Spec

\* Everyone who is told that a decision about a handoff succeeded is told the one
\* that stands, for every number of desktops and guests deciding at the same time.
THEOREM DecisionsAgree == Spec => []OneDecision
  <1>1. Inv => OneDecision BY DEF Inv, OffersOK
  <1> QED BY InvHolds, <1>1, PTL

\* No observation of an analysis is sent after it was said to be cancelled or
\* expired, whichever threads and sweeps run meanwhile.
THEOREM EndedIsNotShown == Spec => []EndedStaysEnded
  <1>1. Inv => EndedStaysEnded
    BY DEF Inv, VisionOK, VisionTypes, RecordsOK, EndedStaysEnded
  <1> QED BY InvHolds, <1>1, PTL

\* Every transfer that holds a place in the buffer, and was not lost, is known to the
\* connection that declared it or in the hands of the message that declares it; every
\* binding is to a transfer that is pending, or about to be.
THEOREM TransfersAreTracked == Spec => []TrackedTransfers
  <1>1. ASSUME Inv PROVE TrackedTransfers
    <2>1. ASSUME NEW t \in Transfers \ lost, buffer[t].st = "pending"
          PROVE  LET g == buffer[t].by IN pending[g] = t \/ InHand(g, t)
      <3>1. PICK g \in Guests : g = buffer[t].by BY <1>1, <2>1 DEF Inv, TransfersOK
      <3> QED BY <1>1, <2>1, <3>1 DEF Inv, TransfersOK, TrackedBy
    <2>2. ASSUME NEW g \in Guests, binding[g] # NoBinding
          PROVE  \/ pending[g] = binding[g].t
                 \/ req[g].pc = "track" /\ req[g].t = binding[g].t
                 \/ req[g].pc = "forget"
      BY <1>1, <2>2 DEF Inv, TransfersOK, TrackedBy
    <2> QED BY <2>1, <2>2 DEF TrackedTransfers
  <1> QED BY InvHolds, <1>1, PTL

\* A guest whose disconnection was handled has no task, no analysis and no transfer left
\* (apart from those a disturbed clean-up lost), and gets none back from the threads
\* that still run.
THEOREM GoneIsClean == Spec => []GoneLeavesNothing
  <1>1. ASSUME Inv PROVE GoneLeavesNothing
    <2>1. ASSUME NEW g \in Guests, req[g].pc = "gone"
          PROVE  /\ pending[g] = NoTransfer /\ binding[g] = NoBinding
                 /\ \A t \in Transfers \ lost : buffer[t].by # g
                 /\ Held(g) = {} /\ \A a \in Analyses : record[a].by # g
      <3>1. req[g].leaving BY <1>1, <2>1 DEF Inv, Requesting, RequestOK, Parting
      <3>2. TrackedBy(g) /\ NoTransfer \notin Transfers
        BY <1>1, VisualNames DEF Inv, TransfersOK
      <3>3. /\ pending[g] = NoTransfer /\ binding[g] = NoBinding
            /\ \A t \in Transfers \ lost : buffer[t].by # g
        BY <2>1, <3>1, <3>2 DEF TrackedBy
      <3>4. \A a \in Analyses : record[a].by # g /\ ~HeldBy(g, a)
        BY <1>1, <2>1 DEF Inv, VisionOK, CancellingOK
      <3> QED BY <3>3, <3>4 DEF Held, HeldBy
    <2> QED BY <2>1 DEF GoneLeavesNothing
  <1> QED BY InvHolds, <1>1, PTL
=============================================================================
