------------------------ MODULE DevicePairingProofs ------------------------
(***************************************************************************)
(* Proofs about device pairing, for every number of connections,           *)
(* challenges and devices and every value of the bounds: types, that a     *)
(* challenge yields one device, that an answered revocation holds, that    *)
(* a device is active only while it is held, and that the      *)
(* handlers implement PairingLedger, the owner's view.                     *)
(*                                                                         *)
(* The promises relate two stores and the server's maps, which a handler   *)
(* brings up to date one after the other.  HandlerOK says what a handler   *)
(* that is between two of them still relies on; ChallengesKept and         *)
(* DevicesKept say what the steps of all others preserve of it.            *)
(***************************************************************************)
EXTENDS DevicePairingProperties, TLAPS

Handlers == [pc : ConnPcs, paired : BOOLEAN,
             chal : Challenges \cup {NoChallenge}, dev : Devices \cup {NoDevice},
             k : Challenges \cup {NoChallenge}, d : Devices \cup {NoDevice},
             seen : DeviceStates]
ChallengeRows == [state : {"none", "pending", "consumed", "locked", "cancelled",
                           "expired", "lost"},
                  req : Requests \cup {NoRequest}, tries : 0 .. MaxTries,
                  exp : Nat, at : Nat]
DeviceRows == [state : DeviceStates, from : Challenges \cup {NoChallenge}, exp : Nat]

\* Which ids a handler has at hand.
Shaped(h) ==
    /\ h.pc = "issue" => h.k \in Challenges
    /\ h.pc \in {"confirmed", "revoke", "revoked", "stale"} => h.d \in Devices
    /\ h.pc \in {"new", "open"} => h.seen = "none"

\* A challenge was answered, or can still be, within its guesses and its time.
GuessesLeft(k) ==
    /\ chal[k].state \in {"pending", "consumed"} => chal[k].tries < MaxTries
    /\ chal[k].state = "consumed" => chal[k].at < chal[k].exp

TypeInv ==
    /\ TypeOK
    /\ \A c \in Conns : Shaped(conn[c])
    /\ \A k \in Challenges : GuessesLeft(k)

\* What a handler relies on: the challenge it answered is spent, the device it
\* works on exists, and a device it is about to pair is known to nobody.
HandlerOK(h, C, D, T) ==
    /\ h.pc = "issue" => C[h.k].state = "consumed"
    /\ h.pc \in {"confirmed", "revoke", "revoked", "stale"} => D[h.d].state # "none"
    /\ h.pc = "confirmed" => h.d \notin T
    /\ h.pc \in {"revoke", "revoked"} => h.d \in T
    /\ h.pc = "revoked" \/ (h.pc = "revoke" /\ h.seen = "revoked")
          => D[h.d].state = "revoked"
    /\ h.pc = "stale" /\ h.seen \notin {"none", "active"} => D[h.d].state # "active"
    /\ h.dev # NoDevice => D[h.dev].state # "none"

HandlersOK == \A c \in Conns : HandlerOK(conn[c], chal, dev, told)

\* No two handlers are about to pair the same device.
ConfirmedApart ==
    \A c, e \in Conns :
        conn[c].pc = "confirmed" /\ conn[e].pc = "confirmed" /\ conn[c].d = conn[e].d => c = e

\* A device has a challenge of its own, which is spent.
DevicesOK ==
    \A d \in Devices : dev[d].state # "none" =>
        /\ dev[d].from \in Challenges /\ chal[dev[d].from].state = "consumed"
        /\ \A e \in Devices : dev[e].from = dev[d].from => e = d

\* What was told and answered was so of devices there are.
HistoryOK ==
    /\ \A d \in told : dev[d].state # "none"
    /\ answered \subseteq told

Inv == /\ TypeInv /\ HandlersOK /\ ConfirmedApart /\ DevicesOK /\ HistoryOK
       /\ RevokedIsUnpaired

\* What every step preserves of the two stores.
ChallengesKept(C, C2) == \A k \in Challenges : C[k].state = "consumed" => C2[k] = C[k]

DevicesKept(D, D2) ==
    \A d \in Devices : D[d].state # "none" =>
        /\ D2[d].state # "none" /\ D2[d].from = D[d].from
        /\ D2[d].state = "active" => D[d].state = "active"
        /\ D[d].state = "revoked" => D2[d].state = "revoked"

-----------------------------------------------------------------------------
(* Types.                                                                  *)

\* The parts of the type invariant that a step may use.
LEMMA Parts ==
  ASSUME TypeInv
  PROVE  /\ now \in Nat
         /\ conn \in [Conns -> Handlers] /\ chal \in [Challenges -> ChallengeRows]
         /\ active \in [Requests -> Challenges \cup {NoChallenge}]
         /\ dev \in [Devices -> DeviceRows]
         /\ guess \in [n : 0 .. MaxTries, since : Nat]
         /\ told \in SUBSET Devices /\ answered \in SUBSET Devices /\ left \in SUBSET Devices
         /\ \A c \in Conns : Shaped(conn[c])
         /\ \A k \in Challenges : GuessesLeft(k)
  BY DEF TypeInv, TypeOK, Handlers, ChallengeRows, DeviceRows

\* A step whose handler and stores are well typed.
LEMMA TypeStep ==
  ASSUME TypeInv, NEW c \in Conns, NEW h \in Handlers, Shaped(h),
         conn' = [conn EXCEPT ![c] = h],
         now' \in Nat, chal' \in [Challenges -> ChallengeRows],
         \A k \in Challenges : GuessesLeft(k)',
         active' \in [Requests -> Challenges \cup {NoChallenge}],
         dev' \in [Devices -> DeviceRows], guess' \in [n : 0 .. MaxTries, since : Nat],
         told' \in SUBSET Devices, answered' \in SUBSET Devices, left' \in SUBSET Devices
  PROVE  TypeInv'
  <1> USE Parts
  <1>1. conn' \in [Conns -> Handlers] OBVIOUS
  <1>2. TypeOK' BY <1>1 DEF TypeOK, Handlers, ChallengeRows, DeviceRows
  <1>3. \A e \in Conns : Shaped(conn'[e]) BY DEF Shaped
  <1> QED BY <1>2, <1>3 DEF TypeInv, Shaped

\* The handler that is back at its loop.
Idle(h) == [h EXCEPT !.pc = "open", !.k = NoChallenge, !.d = NoDevice, !.seen = "none"]

LEMMA BackIsIdle ==
  ASSUME TypeInv, NEW c \in Conns
  PROVE  /\ Back(c) = [conn EXCEPT ![c] = Idle(conn[c])]
         /\ Idle(conn[c]) \in Handlers /\ Shaped(Idle(conn[c]))
  <1>1. conn \in [Conns -> Handlers] BY Parts
  <1>2. Idle(conn[c]) \in Handlers BY <1>1 DEF Idle, Handlers, ConnPcs, DeviceStates
  <1> QED BY <1>1, <1>2 DEF Back, Idle, Shaped, Handlers

\* Expiring a challenge or withdrawing it keeps the stores well typed, and spent
\* challenges spent.
ChallengesOK == /\ chal' \in [Challenges -> ChallengeRows]
                /\ \A k \in Challenges : GuessesLeft(k)'
                /\ ChallengesKept(chal, chal')

LEMMA Lapses ==
  ASSUME TypeInv, NEW k \in Challenges, Lapse(k) PROVE ChallengesOK
  <1> USE Parts
  <1>1. chal' \in [Challenges -> ChallengeRows] BY DEF Lapse, ChallengeRows
  <1> QED BY <1>1 DEF ChallengesOK, Lapse, GuessesLeft, ChallengesKept, ChallengeRows

LEMMA Withdraws ==
  ASSUME TypeInv, NEW k \in Challenges, Withdraw(k)
  PROVE  ChallengesOK /\ active' \in [Requests -> Challenges \cup {NoChallenge}]
  <1> USE Parts
  <1>1. CASE Answerable(k)
    <2>1. chal' = [chal EXCEPT ![k].state = "cancelled"]
          /\ active' = [active EXCEPT ![chal[k].req] = NoChallenge]
      BY <1>1 DEF Withdraw
    <2>2. chal' \in [Challenges -> ChallengeRows] BY <2>1 DEF ChallengeRows
    <2> QED
      BY <1>1, <2>1, <2>2
      DEF ChallengesOK, Answerable, GuessesLeft, ChallengesKept, ChallengeRows
  <1>2. CASE ~Answerable(k) BY <1>2, Lapses DEF Withdraw
  <1> QED BY <1>1, <1>2

\* A new challenge is put into the table, or an answer is taken.
LEMMA Prepares ==
  ASSUME TypeInv, NEW c \in Conns, NEW r \in Requests, Prepare(c, r)
  PROVE  ChallengesOK /\ active' \in [Requests -> Challenges \cup {NoChallenge}]
         /\ \E k \in Challenges \cup {NoChallenge} :
               conn' = [conn EXCEPT ![c] = [conn[c] EXCEPT !.chal = k]]
  <1> USE Parts
  <1>1. CASE Has(r) /\ conn' = [conn EXCEPT ![c].chal = active[r]] /\ UNCHANGED <<chal, active>>
    BY <1>1 DEF ChallengesOK, GuessesLeft, ChallengesKept
  <1>2. CASE ~Has(r)
    <2>1. PICK k \in Challenges, shown \in BOOLEAN :
             /\ chal[k].state = "none"
             /\ chal' = [j \in Challenges |->
                   IF j = k THEN [state |-> IF shown THEN "pending" ELSE "cancelled",
                                  req |-> r, tries |-> 0, exp |-> now + ChallengeTTL, at |-> 0]
                   ELSE IF j = active[r] /\ chal[j].state = "pending" /\ now >= chal[j].exp
                   THEN [chal[j] EXCEPT !.state = "expired"] ELSE chal[j]]
             /\ active' = [active EXCEPT ![r] = IF shown THEN k ELSE NoChallenge]
             /\ conn' = IF shown THEN [conn EXCEPT ![c].chal = k] ELSE conn
      BY <1>2 DEF Prepare
    <2> DEFINE row == [state |-> IF shown THEN "pending" ELSE "cancelled", req |-> r,
                       tries |-> 0, exp |-> now + ChallengeTTL, at |-> 0]
    <2>2. row \in ChallengeRows BY PairingBounds DEF ChallengeRows, PairingBounds
    <2>3. \A j \in Challenges : [chal[j] EXCEPT !.state = "expired"] \in ChallengeRows
      BY DEF ChallengeRows
    <2>4. chal' \in [Challenges -> ChallengeRows] BY <2>1, <2>2, <2>3
    <2>5. \A j \in Challenges : GuessesLeft(j)'
      BY <2>1, PairingBounds DEF GuessesLeft, ChallengeRows, PairingBounds
    <2>6. ChallengesKept(chal, chal') BY <2>1 DEF ChallengesKept
    <2>7. \E j \in Challenges \cup {NoChallenge} :
             conn' = [conn EXCEPT ![c] = [conn[c] EXCEPT !.chal = j]]
      <3>1. CASE shown BY <2>1, <3>1
      <3>2. CASE ~shown
        <4>1. conn[c] = [conn[c] EXCEPT !.chal = conn[c].chal] BY DEF Handlers
        <4>2. conn' = [conn EXCEPT ![c] = [conn[c] EXCEPT !.chal = conn[c].chal]]
          BY <2>1, <3>2, <4>1
        <4> QED BY <4>2 DEF Handlers
      <3> QED BY <3>1, <3>2
    <2> QED BY <2>1, <2>4, <2>5, <2>6, <2>7 DEF ChallengesOK
  <1> QED BY <1>1, <1>2 DEF Prepare

LEMMA Confirms ==
  ASSUME TypeInv, NEW c \in Conns, NEW k \in Challenges, NEW right \in BOOLEAN,
         Confirm(c, k, right)
  PROVE  /\ ChallengesOK /\ active' \in [Requests -> Challenges \cup {NoChallenge}]
         /\ \/ conn' = conn
            \/ /\ conn' = [conn EXCEPT ![c] = [conn[c] EXCEPT !.pc = "issue", !.k = k]]
               /\ chal'[k].state = "consumed"
  <1> USE Parts
  <1>1. CASE Answerable(k) /\ right
    <2>1. /\ chal' = [chal EXCEPT ![k].state = "consumed", ![k].at = now]
          /\ active' = [active EXCEPT ![chal[k].req] = NoChallenge]
          /\ conn' = [conn EXCEPT ![c].pc = "issue", ![c].k = k]
      BY <1>1 DEF Confirm
    <2>2. chal' = [chal EXCEPT ![k] = [chal[k] EXCEPT !.state = "consumed", !.at = now]]
      BY <2>1
    <2>3. [chal[k] EXCEPT !.state = "consumed", !.at = now] \in ChallengeRows
      BY DEF ChallengeRows
    <2>4. chal' \in [Challenges -> ChallengeRows] BY <2>2, <2>3
    <2>5. \A j \in Challenges : GuessesLeft(j)'
      BY <1>1, <2>2 DEF GuessesLeft, Answerable, ChallengeRows
    <2>6. ChallengesKept(chal, chal') BY <1>1, <2>2 DEF ChallengesKept, Answerable
    <2> QED BY <2>1, <2>2, <2>4, <2>5, <2>6 DEF ChallengesOK, ChallengeRows
  <1>2. CASE Answerable(k) /\ ~right
    <2> DEFINE locks == chal[k].tries + 1 >= MaxTries
               row == [chal[k] EXCEPT !.tries = @ + 1, !.state = IF locks THEN "locked" ELSE @]
    <2>1. /\ chal' = [chal EXCEPT ![k] = row]
          /\ active' = IF locks THEN [active EXCEPT ![chal[k].req] = NoChallenge] ELSE active
          /\ conn' = conn
      BY <1>2 DEF Confirm
    <2>2. chal[k].tries < MaxTries BY <1>2 DEF GuessesLeft, Answerable
    <2>3. row \in ChallengeRows
      <3>1. chal[k].tries + 1 \in 0 .. MaxTries
        BY <2>2, PairingBounds DEF ChallengeRows, PairingBounds
      <3>2. row = [chal[k] EXCEPT !.tries = chal[k].tries + 1,
                                  !.state = IF locks THEN "locked" ELSE chal[k].state]
        BY DEF ChallengeRows
      <3>3. chal[k] \in ChallengeRows OBVIOUS
      <3> DEFINE state == IF locks THEN "locked" ELSE chal[k].state
      <3>4. state \in {"none", "pending", "consumed", "locked", "cancelled", "expired", "lost"}
        BY <3>3 DEF ChallengeRows
      <3> HIDE DEF locks, state
      <3>5. [chal[k] EXCEPT !.tries = chal[k].tries + 1, !.state = state] \in ChallengeRows
        BY <3>1, <3>3, <3>4 DEF ChallengeRows
      <3> QED BY <3>2, <3>5 DEF state
    <2>4. chal' \in [Challenges -> ChallengeRows] BY <2>1, <2>3
    <2>5. \A j \in Challenges : GuessesLeft(j)'
      BY <1>2, <2>1, <2>2, PairingBounds
      DEF GuessesLeft, Answerable, ChallengeRows, PairingBounds
    <2>6. ChallengesKept(chal, chal') BY <1>2, <2>1 DEF ChallengesKept, Answerable
    <2> QED BY <2>1, <2>4, <2>5, <2>6 DEF ChallengesOK
  <1>3. CASE ~Answerable(k) BY <1>3, Lapses DEF Confirm
  <1> QED BY <1>1, <1>2, <1>3 DEF Confirm

-----------------------------------------------------------------------------
(* Safety.                                                                 *)

\* A handler that a step leaves alone still has what it relies on.
LEMMA OthersKeep ==
  ASSUME Inv, ChallengesKept(chal, chal'), DevicesKept(dev, dev'), told \subseteq told',
         NEW e \in Conns, conn[e].pc = "confirmed" => conn[e].d \notin told'
  PROVE  HandlerOK(conn[e], chal', dev', told')
  <1>1. conn[e] \in Handlers /\ Shaped(conn[e]) /\ HandlerOK(conn[e], chal, dev, told)
    BY Parts DEF Inv, HandlersOK
  <1> QED BY <1>1 DEF HandlerOK, Handlers, Shaped, ChallengesKept, DevicesKept

\* Devices stay with their challenges as long as none is issued.
LEMMA NoneIssued ==
  ASSUME Inv, ChallengesKept(chal, chal'), DevicesKept(dev, dev'),
         \A d \in Devices : dev'[d].state # "none" => dev[d].state # "none",
         \A d \in Devices : dev'[d].from = dev[d].from
  PROVE  DevicesOK'
  <1> USE Parts
  <1> QED BY DEF Inv, DevicesOK, ChallengesKept, DevicesKept

\* What is known of devices stays so.
LEMMA HistoryStays ==
  ASSUME Inv, DevicesKept(dev, dev'), UNCHANGED <<told, answered>>,
         \A e \in Conns : conn'[e].dev \in {conn[e].dev, NoDevice}
  PROVE  HistoryOK' /\ RevokedIsUnpaired'
  <1>1. HistoryOK' BY Parts DEF Inv, HistoryOK, DevicesKept
  <1>2. RevokedIsUnpaired'
    BY Parts, PairingNames DEF Inv, RevokedIsUnpaired, DevicesKept, PairingNames
  <1> QED BY <1>1, <1>2

\* A step of one handler, which leaves the histories alone.
LEMMA HandlerStep ==
  ASSUME Inv, NEW c \in Conns, NEW h \in Handlers, Shaped(h), conn' = [conn EXCEPT ![c] = h],
         now' \in Nat, ChallengesOK, active' \in [Requests -> Challenges \cup {NoChallenge}],
         dev' \in [Devices -> DeviceRows], DevicesKept(dev, dev'), DevicesOK',
         guess' \in [n : 0 .. MaxTries, since : Nat], UNCHANGED <<told, answered>>,
         left' \in SUBSET Devices,
         HandlerOK(h, chal', dev', told), h.dev \in {conn[c].dev, NoDevice},
         h.pc = "confirmed" =>
            \A e \in Conns \ {c} : conn[e].pc = "confirmed" => conn[e].d # h.d
  PROVE  Inv'
  <1> USE Parts
  <1>0. TypeInv BY DEF Inv
  <1>1. \A e \in Conns : conn'[e] = IF e = c THEN h ELSE conn[e] BY <1>0
  <1>2. TypeInv' BY <1>0, TypeStep DEF ChallengesOK
  <1>3. HandlersOK'
    <2>1. \A e \in Conns : conn[e].pc = "confirmed" => conn[e].d \notin told
      BY DEF Inv, HandlersOK, HandlerOK
    <2>2. \A e \in Conns : HandlerOK(conn[e], chal', dev', told')
      BY <2>1, OthersKeep DEF ChallengesOK
    <2> QED BY <1>1, <2>1, <2>2 DEF HandlersOK
  <1>4. ConfirmedApart' BY <1>1 DEF Inv, ConfirmedApart
  <1>5. HistoryOK' /\ RevokedIsUnpaired' BY <1>1, HistoryStays
  <1> QED BY <1>2, <1>3, <1>4, <1>5 DEF Inv

\* The same, when the device store is left alone too.
LEMMA StoreQuiet ==
  ASSUME Inv, NEW c \in Conns, NEW h \in Handlers, Shaped(h), conn' = [conn EXCEPT ![c] = h],
         now' \in Nat, ChallengesOK, active' \in [Requests -> Challenges \cup {NoChallenge}],
         guess' \in [n : 0 .. MaxTries, since : Nat], UNCHANGED <<dev, told, answered>>,
         left' \in SUBSET Devices,
         HandlerOK(h, chal', dev, told), h.dev \in {conn[c].dev, NoDevice},
         h.pc # "confirmed"
  PROVE  Inv'
  <1>1. TypeInv BY DEF Inv
  <1>2. DevicesKept(dev, dev') BY DEF DevicesKept
  <1>3. DevicesOK' BY <1>2, NoneIssued DEF ChallengesOK
  <1> QED BY <1>1, <1>2, <1>3, Parts, HandlerStep

\* Spent challenges stay spent where the table is left alone.
LEMMA ChallengesQuiet ==
  ASSUME TypeInv, UNCHANGED chal PROVE ChallengesOK
  BY Parts DEF ChallengesOK, ChallengesKept, GuessesLeft

\* The handler that is back at its loop relies on nothing but its device.
LEMMA IdleOK ==
  ASSUME Inv, NEW c \in Conns, ChallengesKept(chal, chal'), DevicesKept(dev, dev')
  PROVE  HandlerOK(Idle(conn[c]), chal', dev', told) /\ Idle(conn[c]).dev = conn[c].dev
         /\ Idle(conn[c]).pc = "open"
  <1>1. conn[c] \in Handlers /\ HandlerOK(conn[c], chal, dev, told)
    BY Parts DEF Inv, HandlersOK
  <1>2. /\ Idle(conn[c]).pc = "open" /\ Idle(conn[c]).dev = conn[c].dev
    BY <1>1 DEF Idle, Handlers
  <1> QED BY <1>1, <1>2 DEF HandlerOK, DevicesKept, Handlers

-----------------------------------------------------------------------------
(* The steps.                                                              *)

\* Challenges: prepared, answered, withdrawn.
LEMMA ChallengeSteps ==
  ASSUME Inv, NEW c \in Conns,
         \/ Connect(c) \/ \E r \in Requests : Prepare(c, r)
         \/ \E k \in Challenges : CancelChallenge(c, k) \/ \E ok \in BOOLEAN : Confirm(c, k, ok)
  PROVE  Inv'
  <1> DEFINE h == conn[c]
  <1>0. /\ TypeInv /\ h \in Handlers /\ Shaped(h) /\ HandlerOK(h, chal, dev, told)
        /\ DevicesKept(dev, dev)
    BY Parts DEF Inv, HandlersOK, DevicesKept
  <1> HIDE DEF h
  <1>1. ASSUME Connect(c) PROVE Inv'
    <2> DEFINE g == [h EXCEPT !.pc = "open"]
    <2>1. g \in Handlers /\ Shaped(g) /\ g.pc = "open" /\ g.dev = h.dev
      BY <1>0, <1>1 DEF Connect, Shaped, Handlers, ConnPcs, h
    <2>2. conn' = [conn EXCEPT ![c] = g] BY <1>1 DEF Connect, Go, h
    <2>3. HandlerOK(g, chal, dev, told) BY <1>0, <2>1 DEF HandlerOK
    <2> HIDE DEF g
    <2> QED BY <1>0, <1>1, <2>1, <2>2, <2>3, ChallengesQuiet, Parts, StoreQuiet DEF Connect, h
  <1>2. ASSUME NEW r \in Requests, Prepare(c, r) PROVE Inv'
    <2>1. PICK k \in Challenges \cup {NoChallenge} :
             conn' = [conn EXCEPT ![c] = [conn[c] EXCEPT !.chal = k]]
      BY <1>0, <1>2, Prepares
    <2> DEFINE g == [h EXCEPT !.chal = k]
    <2>2. g \in Handlers /\ Shaped(g) /\ g.pc = "open" /\ g.dev = h.dev
      BY <1>0, <1>2 DEF Prepare, Open, Shaped, Handlers, h
    <2>3. HandlerOK(g, chal', dev, told) BY <1>0, <2>2 DEF HandlerOK
    <2>4. conn' = [conn EXCEPT ![c] = g] BY <2>1 DEF h
    <2>5. ChallengesOK /\ active' \in [Requests -> Challenges \cup {NoChallenge}]
      BY <1>0, <1>2, Prepares
    <2> HIDE DEF g
    <2> QED BY <1>0, <1>2, <2>2, <2>3, <2>4, <2>5, Parts, StoreQuiet DEF Prepare, h
  <1>3. ASSUME NEW k \in Challenges, NEW ok \in BOOLEAN, Confirm(c, k, ok) PROVE Inv'
    <2>1. ChallengesOK /\ active' \in [Requests -> Challenges \cup {NoChallenge}]
      BY <1>0, <1>3, Confirms
    <2>2. CASE conn' = conn
      <3>1. conn' = [conn EXCEPT ![c] = h] BY <1>0, <2>2, Parts DEF h
      <3>2. HandlerOK(h, chal', dev, told) /\ h.pc # "confirmed"
        BY <1>0, <1>3 DEF Confirm, Open, HandlerOK, h
      <3> QED BY <1>0, <1>3, <2>1, <3>1, <3>2, Parts, StoreQuiet DEF Confirm, h
    <2>3. CASE /\ conn' = [conn EXCEPT ![c] = [conn[c] EXCEPT !.pc = "issue", !.k = k]]
               /\ chal'[k].state = "consumed"
      <3> DEFINE g == [h EXCEPT !.pc = "issue", !.k = k]
      <3>1. g \in Handlers /\ Shaped(g) /\ g.pc = "issue" /\ g.dev = h.dev /\ g.k = k
        BY <1>0, <1>3 DEF Confirm, Open, Shaped, Handlers, ConnPcs, h
      <3>2. HandlerOK(g, chal', dev, told) BY <1>0, <2>3, <3>1 DEF HandlerOK
      <3>3. conn' = [conn EXCEPT ![c] = g] BY <2>3 DEF h
      <3> HIDE DEF g
      <3> QED BY <1>0, <1>3, <2>1, <3>1, <3>2, <3>3, Parts, StoreQuiet DEF Confirm, h
    <2> QED BY <1>0, <1>3, <2>2, <2>3, Confirms
  <1>4. ASSUME NEW k \in Challenges, CancelChallenge(c, k) PROVE Inv'
    <2>1. ChallengesOK /\ active' \in [Requests -> Challenges \cup {NoChallenge}]
      BY <1>0, <1>4, Withdraws DEF CancelChallenge
    <2>2. PICK j \in Challenges \cup {NoChallenge} :
             conn' = [conn EXCEPT ![c] = [h EXCEPT !.chal = j]]
      <3>1. conn = [conn EXCEPT ![c] = [h EXCEPT !.chal = h.chal]]
        <4>1. h = [h EXCEPT !.chal = h.chal] BY <1>0 DEF Handlers
        <4>2. conn = [conn EXCEPT ![c] = h] BY <1>0, Parts DEF h
        <4> QED BY <4>1, <4>2
      <3>2. h.chal \in Challenges \cup {NoChallenge} BY <1>0 DEF Handlers
      <3> QED BY <1>4, <3>1, <3>2 DEF CancelChallenge, h
    <2> DEFINE g == [h EXCEPT !.chal = j]
    <2>3. g \in Handlers /\ Shaped(g) /\ g.pc = "open" /\ g.dev = h.dev
      BY <1>0, <1>4 DEF CancelChallenge, Open, Shaped, Handlers, h
    <2>4. HandlerOK(g, chal', dev, told) BY <1>0, <2>3 DEF HandlerOK
    <2> HIDE DEF g
    <2> QED BY <1>0, <1>4, <2>1, <2>2, <2>3, <2>4, Parts, StoreQuiet DEF CancelChallenge, h, g
  <1> QED BY <1>1, <1>2, <1>3, <1>4

\* A device is issued for the challenge at hand, or the challenge is spent for nothing.
LEMMA IssueStep ==
  ASSUME Inv, NEW c \in Conns, Issue(c) PROVE Inv'
  <1> DEFINE h == conn[c]
  <1>0. /\ TypeInv /\ h \in Handlers /\ Shaped(h) /\ HandlerOK(h, chal, dev, told)
        /\ h.pc = "issue" /\ h.k \in Challenges /\ ChallengesOK
    BY Parts, ChallengesQuiet DEF Inv, HandlersOK, Issue, Shaped
  <1> HIDE DEF h
  <1>1. ASSUME NEW d \in Devices, dev[d].state = "none",
               \A e \in Devices : dev[e].from # h.k,
               dev' = [dev EXCEPT ![d] = [state |-> "active", from |-> h.k,
                                          exp |-> now + DeviceTTL]],
               conn' = [conn EXCEPT ![c].pc = "confirmed", ![c].d = d]
        PROVE  Inv'
    <2> DEFINE g == [h EXCEPT !.pc = "confirmed", !.d = d]
               row == [state |-> "active", from |-> h.k, exp |-> now + DeviceTTL]
    <2>1. row \in DeviceRows
      BY <1>0, Parts, PairingBounds DEF DeviceRows, DeviceStates, PairingBounds
    <2>2. /\ dev' \in [Devices -> DeviceRows]
          /\ \A e \in Devices : dev'[e] = IF e = d THEN row ELSE dev[e]
      BY <1>0, <1>1, <2>1, Parts
    <2> HIDE DEF row
    <2>3. row.state = "active" /\ row.from = h.k BY DEF row
    <2>4. DevicesKept(dev, dev') BY <1>1, <2>2 DEF DevicesKept
    <2>5. h.k \in Challenges /\ chal[h.k].state = "consumed" /\ chal' = chal
      BY <1>0 DEF HandlerOK, Issue
    <2>6. DevicesOK' BY <1>1, <2>2, <2>3, <2>5 DEF Inv, DevicesOK
    <2>7. g \in Handlers /\ Shaped(g) /\ g.pc = "confirmed" /\ g.dev = h.dev /\ g.d = d
      BY <1>0 DEF Shaped, Handlers, ConnPcs
    <2>8. conn' = [conn EXCEPT ![c] = g] BY <1>1 DEF h
    <2> HIDE DEF g
    <2>9. d \notin told BY <1>1 DEF Inv, HistoryOK
    <2>10. HandlerOK(g, chal', dev', told)
      BY <1>0, <2>2, <2>3, <2>7, <2>9 DEF HandlerOK, Handlers
    <2>11. \A e \in Conns \ {c} : conn[e].pc = "confirmed" => conn[e].d # d
      BY <1>1 DEF Inv, HandlersOK, HandlerOK
    <2> QED BY <1>0, <2>2, <2>4, <2>6, <2>7, <2>8, <2>10, <2>11, Parts, HandlerStep DEF Issue, h
  <1>2. ASSUME conn' = Back(c), dev' = dev PROVE Inv'
    <2>1. /\ HandlerOK(Idle(h), chal', dev, told) /\ Idle(h).dev = h.dev
          /\ Idle(h).pc = "open"
      BY <1>0, <1>2, IdleOK DEF ChallengesOK, DevicesKept, Issue, h
    <2>2. conn' = [conn EXCEPT ![c] = Idle(h)] /\ Idle(h) \in Handlers /\ Shaped(Idle(h))
      BY <1>0, <1>2, BackIsIdle DEF h
    <2> QED BY <1>0, <1>2, <2>1, <2>2, Parts, StoreQuiet DEF Issue, h
  <1> QED BY <1>1, <1>2 DEF Issue, h

\* The connection is paired through its device, which everybody may know from now on.
LEMMA ConfirmedStep ==
  ASSUME Inv, NEW c \in Conns, Confirmed(c) PROVE Inv'
  <1> USE Parts
  <1> DEFINE h == conn[c]
             g == [Idle(h) EXCEPT !.paired = TRUE, !.dev = h.d, !.chal = NoChallenge]
  <1>0. /\ TypeInv /\ h \in Handlers /\ HandlerOK(h, chal, dev, told) /\ ChallengesOK
        /\ h.pc = "confirmed" /\ h.d \in Devices /\ DevicesKept(dev, dev')
    BY ChallengesQuiet DEF Inv, HandlersOK, Confirmed, Shaped, DevicesKept
  <1>1. Back(c) = [conn EXCEPT ![c] = Idle(h)] /\ Idle(h) \in Handlers BY <1>0, BackIsIdle
  <1>2. g \in Handlers /\ Shaped(g) /\ g.pc = "open" /\ g.dev = h.d
    BY <1>0, <1>1 DEF Shaped, Handlers, Idle
  <1>3. conn' = [conn EXCEPT ![c] = g]
    <2>1. conn' = [[conn EXCEPT ![c] = Idle(h)] EXCEPT ![c].paired = TRUE, ![c].dev = h.d,
                                                       ![c].chal = NoChallenge]
      BY <1>1 DEF Confirmed
    <2> QED BY <1>0, <2>1
  <1>4. told' = told \cup {h.d} BY DEF Confirmed
  <1>5. UNCHANGED <<now, chal, active, dev, guess, answered>> /\ left' \in SUBSET Devices
    BY <1>0 DEF Confirmed, Handlers, h
  <1> HIDE DEF h, g
  <1>6. TypeInv' BY <1>0, <1>2, <1>3, <1>4, <1>5, TypeStep DEF ChallengesOK
  <1>7. \A e \in Conns : conn'[e] = IF e = c THEN g ELSE conn[e] BY <1>0, <1>3
  <1>8. \A e \in Conns \ {c} : conn[e].pc = "confirmed" => conn[e].d \notin told'
    BY <1>0, <1>4 DEF Inv, HandlersOK, HandlerOK, ConfirmedApart, h
  <1>9. HandlersOK'
    <2>1. HandlerOK(g, chal', dev', told') BY <1>0, <1>2, <1>5 DEF HandlerOK
    <2>2. \A e \in Conns \ {c} : HandlerOK(conn[e], chal', dev', told')
      BY <1>0, <1>4, <1>8, OthersKeep DEF ChallengesOK
    <2> QED BY <1>7, <2>1, <2>2 DEF HandlersOK
  <1>10. ConfirmedApart' BY <1>2, <1>7 DEF Inv, ConfirmedApart
  <1>11. DevicesOK' BY <1>0, <1>5, NoneIssued DEF ChallengesOK
  <1>12. HistoryOK' BY <1>0, <1>4, <1>5 DEF Inv, HistoryOK, HandlerOK
  <1>13. RevokedIsUnpaired'
    <2>1. h.d \notin answered BY <1>0 DEF Inv, HistoryOK, HandlerOK
    <2> QED BY <1>2, <1>5, <1>7, <2>1 DEF Inv, RevokedIsUnpaired
  <1> QED BY <1>6, <1>9, <1>10, <1>11, <1>12, <1>13 DEF Inv

\* The owner's revocation: the row is read, swapped, ...
LEMMA RevokeSteps ==
  ASSUME Inv, NEW c \in Conns,
         RevokeSwap(c) \/ RevokeFails(c) \/ \E d \in Devices : RevokeRead(c, d)
  PROVE  Inv'
  <1> USE Parts
  <1> DEFINE h == conn[c]
  <1>0. TypeInv /\ h \in Handlers /\ Shaped(h) /\ HandlerOK(h, chal, dev, told)
    BY DEF Inv, HandlersOK
  <1> HIDE DEF h
  <1>1. ASSUME NEW d \in Devices, RevokeRead(c, d) PROVE Inv'
    <2> DEFINE g == [h EXCEPT !.pc = "revoke", !.d = d, !.seen = dev[d].state]
    <2>1. dev[d].state \in DeviceStates BY <1>0 DEF DeviceRows
    <2>2. /\ g \in Handlers /\ Shaped(g) /\ g.pc = "revoke" /\ g.dev = h.dev /\ g.d = d
          /\ g.seen = dev[d].state
      BY <1>0, <2>1 DEF Shaped, Handlers, ConnPcs
    <2>3. conn' = [conn EXCEPT ![c] = g] BY <1>1 DEF RevokeRead, h
    <2> HIDE DEF g
    <2>4. d \in told /\ dev[d].state # "none" BY <1>1 DEF RevokeRead, Inv, HistoryOK
    <2>5. UNCHANGED <<now, chal, active, dev, guess, told, answered, left>>
      BY <1>1 DEF RevokeRead
    <2>6. HandlerOK(g, chal', dev, told) BY <1>0, <2>2, <2>4, <2>5 DEF HandlerOK
    <2> QED BY <1>0, <2>2, <2>3, <2>5, <2>6, ChallengesQuiet, StoreQuiet DEF h
  <1>2. ASSUME RevokeSwap(c) PROVE Inv'
    <2> DEFINE d == h.d
               g == [h EXCEPT !.pc = "revoked"]
    <2>1. h.pc = "revoke" /\ d \in Devices /\ dev[d].state # "none"
      BY <1>0, <1>2 DEF RevokeSwap, Shaped, HandlerOK, h
    <2>2. /\ dev' \in [Devices -> DeviceRows] /\ DevicesKept(dev, dev')
          /\ \A e \in Devices : dev'[e].from = dev[e].from
          /\ \A e \in Devices : dev'[e].state # "none" => dev[e].state # "none"
      <3>1. CASE dev[d].state = h.seen
        <4>1. dev' = [dev EXCEPT ![d] = [dev[d] EXCEPT !.state = "revoked"]]
          BY <1>2, <3>1 DEF RevokeSwap, h
        <4>2. [dev[d] EXCEPT !.state = "revoked"] \in DeviceRows
          BY <1>0, <2>1 DEF DeviceRows, DeviceStates
        <4> QED BY <1>0, <2>1, <4>1, <4>2 DEF DevicesKept, DeviceRows
      <3>2. CASE dev[d].state # h.seen
        BY <1>0, <1>2, <3>2 DEF RevokeSwap, DevicesKept, h
      <3> QED BY <3>1, <3>2
    <2>3. UNCHANGED <<now, chal, active, guess, told, answered, left>>
      BY <1>2 DEF RevokeSwap
    <2>4. ChallengesOK /\ DevicesOK'
      BY <1>0, <2>2, <2>3, ChallengesQuiet, NoneIssued DEF ChallengesOK
    <2>5. CASE conn' = [conn EXCEPT ![c].pc = "revoked"]
               /\ (dev[d].state = h.seen \/ h.seen = "revoked")
      <3>1. /\ g \in Handlers /\ Shaped(g) /\ g.pc = "revoked" /\ g.dev = h.dev /\ g.d = d
        BY <1>0, <2>1 DEF Shaped, Handlers, ConnPcs
      <3>2. conn' = [conn EXCEPT ![c] = g] BY <2>5 DEF h
      <3>3. dev'[d].state = "revoked"
        <4>1. CASE dev[d].state = h.seen
          BY <1>0, <1>2, <2>1, <4>1 DEF RevokeSwap, DeviceRows, h
        <4>2. CASE h.seen = "revoked"
          BY <1>0, <2>1, <2>2, <4>2 DEF HandlerOK, DevicesKept
        <4> QED BY <2>5, <4>1, <4>2
      <3> HIDE DEF g
      <3>4. HandlerOK(g, chal', dev', told)
        BY <1>0, <2>1, <2>2, <3>1, <3>3 DEF HandlerOK, DevicesKept, Handlers
      <3> QED BY <1>0, <2>2, <2>3, <2>4, <3>1, <3>2, <3>4, HandlerStep DEF h
    <2>6. CASE conn' = Back(c)
      <3>1. /\ HandlerOK(Idle(h), chal', dev', told) /\ Idle(h).dev = h.dev
            /\ Idle(h).pc = "open"
        BY <2>2, <2>3, <2>4, IdleOK DEF ChallengesOK, h
      <3>2. conn' = [conn EXCEPT ![c] = Idle(h)] /\ Idle(h) \in Handlers /\ Shaped(Idle(h))
        BY <1>0, <2>6, BackIsIdle DEF h
      <3> QED BY <1>0, <2>2, <2>3, <2>4, <3>1, <3>2, HandlerStep DEF h
    <2> QED BY <1>2, <2>5, <2>6 DEF RevokeSwap, h
  <1>3. ASSUME RevokeFails(c) PROVE Inv'
    <2>1. UNCHANGED <<now, chal, active, dev, guess, told, answered, left>>
      BY <1>3 DEF RevokeFails
    <2>2. ChallengesOK BY <1>0, <2>1, ChallengesQuiet
    <2>3. /\ HandlerOK(Idle(h), chal', dev, told) /\ Idle(h).dev = h.dev
          /\ Idle(h).pc = "open"
      BY <2>1, <2>2, IdleOK DEF ChallengesOK, DevicesKept, h
    <2>4. conn' = [conn EXCEPT ![c] = Idle(h)] /\ Idle(h) \in Handlers /\ Shaped(Idle(h))
      BY <1>0, <1>3, BackIsIdle DEF RevokeFails, h
    <2> QED BY <1>0, <2>1, <2>2, <2>3, <2>4, StoreQuiet DEF h
  <1> QED BY <1>1, <1>2, <1>3

\* ... and answered, when every connection is unpaired.
LEMMA UnpairStep ==
  ASSUME Inv, NEW c \in Conns, Unpair(c) PROVE Inv'
  <1> USE Parts
  <1> DEFINE h == conn[c]
             base(e) == IF e = c THEN Idle(h) ELSE conn[e]
  <1>0. /\ TypeInv /\ h \in Handlers /\ HandlerOK(h, chal, dev, told)
        /\ h.pc = "revoked" /\ h.d \in Devices /\ h.d \in told /\ dev[h.d].state = "revoked"
    BY DEF Inv, HandlersOK, Unpair, Shaped, HandlerOK
  <1>1. UNCHANGED <<now, chal, active, dev, guess, told, left>>
        /\ answered' = answered \cup {h.d}
    BY DEF Unpair
  <1>2. ChallengesKept(chal, chal') /\ DevicesKept(dev, dev')
    BY <1>1 DEF ChallengesKept, DevicesKept
  <1>3. \A e \in Conns : Back(c)[e] = base(e) BY <1>0, BackIsIdle
  <1>4. \A e \in Conns : base(e) \in Handlers /\ Shaped(base(e))
                         /\ HandlerOK(base(e), chal, dev, told)
    BY <1>0, <1>1, <1>2, BackIsIdle, IdleOK DEF Inv, HandlersOK
  <1>5. \A e \in Conns : base(e).dev = conn[e].dev
                         /\ (base(e).pc = "confirmed" => base(e) = conn[e])
    BY <1>0, <1>2, IdleOK
  <1> HIDE DEF base
  <1>6. conn' = [e \in Conns |-> IF conn[e].dev = h.d
                   THEN [base(e) EXCEPT !.paired = FALSE, !.dev = NoDevice] ELSE base(e)]
    BY <1>3 DEF Unpair
  <1> HIDE DEF h
  <1>7. \A e \in Conns : conn'[e] \in Handlers /\ conn'[e].pc = base(e).pc
                         /\ conn'[e].d = base(e).d /\ conn'[e].dev # h.d
                         /\ conn'[e].dev \in {conn[e].dev, NoDevice}
                         /\ Shaped(conn'[e]) /\ HandlerOK(conn'[e], chal, dev, told)
    <2> SUFFICES ASSUME NEW e \in Conns
                 PROVE  conn'[e] \in Handlers /\ conn'[e].pc = base(e).pc
                         /\ conn'[e].d = base(e).d /\ conn'[e].dev # h.d
                         /\ conn'[e].dev \in {conn[e].dev, NoDevice}
                         /\ Shaped(conn'[e]) /\ HandlerOK(conn'[e], chal, dev, told)
      OBVIOUS
    <2>0. NoDevice # h.d BY <1>0, PairingNames DEF PairingNames
    <2>1. CASE conn[e].dev = h.d
      <3> DEFINE g == [base(e) EXCEPT !.paired = FALSE, !.dev = NoDevice]
      <3>1. conn'[e] = g BY <1>6, <2>1
      <3>2. /\ g \in Handlers /\ g.dev = NoDevice /\ g.pc = base(e).pc /\ g.d = base(e).d
            /\ g.k = base(e).k /\ g.seen = base(e).seen
        BY <1>4 DEF Handlers
      <3> HIDE DEF g
      <3> QED BY <1>4, <2>0, <3>1, <3>2 DEF HandlerOK, Shaped
    <2>2. CASE conn[e].dev # h.d BY <1>4, <1>5, <1>6, <2>2
    <2> QED BY <2>1, <2>2
  <1>8. TypeInv'
    <2>1. conn' \in [Conns -> Handlers] BY <1>6, <1>7
    <2>2. TypeOK'
      BY <1>0, <1>1, <2>1 DEF TypeOK, Handlers, ChallengeRows, DeviceRows
    <2> QED BY <1>0, <1>1, <1>7, <2>2 DEF TypeInv, GuessesLeft, Shaped
  <1>9. HandlersOK' BY <1>1, <1>7 DEF HandlersOK
  <1>10. ConfirmedApart' BY <1>5, <1>7 DEF Inv, ConfirmedApart
  <1>11. DevicesOK' BY <1>1, <1>2, NoneIssued
  <1>12. HistoryOK' BY <1>0, <1>1 DEF Inv, HistoryOK
  <1>13. RevokedIsUnpaired'
    BY <1>0, <1>1, <1>7, PairingNames DEF Inv, RevokedIsUnpaired, PairingNames
  <1> QED BY <1>8, <1>9, <1>10, <1>11, <1>12, <1>13 DEF Inv

\* A connection is paired by the older message, or lost; its device goes stale.
LEMMA ConnectionSteps ==
  ASSUME Inv, NEW c \in Conns,
         \/ \E ok \in BOOLEAN : LegacyPair(c, ok)
         \/ Disconnect(c) \/ StaleRead(c) \/ StaleSwap(c) \/ StaleFails(c)
  PROVE  Inv'
  <1> USE Parts
  <1> DEFINE h == conn[c]
  <1>0. TypeInv /\ h \in Handlers /\ Shaped(h) /\ HandlerOK(h, chal, dev, told)
    BY DEF Inv, HandlersOK
  <1> HIDE DEF h
  <1>1. ASSUME NEW ok \in BOOLEAN, LegacyPair(c, ok) PROVE Inv'
    <2> DEFINE g == IF ok THEN [h EXCEPT !.paired = TRUE] ELSE h
    <2>1. g \in Handlers /\ Shaped(g) /\ g.pc = "open" /\ g.dev = h.dev
      BY <1>0, <1>1 DEF LegacyPair, Open, Shaped, Handlers, h
    <2>2. conn' = [conn EXCEPT ![c] = g] BY <1>0, <1>1 DEF LegacyPair, h
    <2>3. guess' \in [n : 0 .. MaxTries, since : Nat]
      BY <1>0, <1>1, PairingBounds DEF LegacyPair, PairingBounds
    <2>4. HandlerOK(g, chal, dev, told) BY <1>0, <2>1 DEF HandlerOK
    <2> HIDE DEF g
    <2> QED BY <1>0, <1>1, <2>1, <2>2, <2>3, <2>4, ChallengesQuiet, StoreQuiet DEF LegacyPair, h
  <1>2. ASSUME Disconnect(c) PROVE Inv'
    <2> DEFINE g == [h EXCEPT !.paired = FALSE, !.d = h.dev, !.dev = NoDevice,
                              !.pc = IF h.dev = NoDevice THEN "drop" ELSE "stale"]
    <2>1. /\ g \in Handlers /\ Shaped(g) /\ g.dev = NoDevice /\ g.d = h.dev
          /\ g.pc = (IF h.dev = NoDevice THEN "drop" ELSE "stale") /\ g.seen = "none"
      BY <1>0, <1>2 DEF Disconnect, Open, Shaped, Handlers, ConnPcs, h
    <2>2. conn' = [conn EXCEPT ![c] = g] BY <1>2 DEF Disconnect, h
    <2> HIDE DEF g
    <2>3. HandlerOK(g, chal, dev, told) BY <1>0, <2>1 DEF HandlerOK
    <2> QED BY <1>0, <1>2, <2>1, <2>2, <2>3, ChallengesQuiet, StoreQuiet DEF Disconnect, h
  <1>3. ASSUME StaleRead(c) PROVE Inv'
    <2> DEFINE g == [h EXCEPT !.seen = dev[h.d].state]
    <2>1. h.pc = "stale" /\ h.d \in Devices BY <1>0, <1>3 DEF StaleRead, Shaped, h
    <2>2. dev[h.d].state \in DeviceStates BY <1>0, <2>1 DEF DeviceRows
    <2>3. /\ g \in Handlers /\ Shaped(g) /\ g.pc = "stale" /\ g.dev = h.dev /\ g.d = h.d
          /\ g.seen = dev[h.d].state
      BY <1>0, <2>1, <2>2 DEF Shaped, Handlers
    <2>4. conn' = [conn EXCEPT ![c] = g] BY <1>3 DEF StaleRead, h
    <2> HIDE DEF g
    <2>5. HandlerOK(g, chal, dev, told) BY <1>0, <2>1, <2>3 DEF HandlerOK
    <2> QED BY <1>0, <1>3, <2>3, <2>4, <2>5, ChallengesQuiet, StoreQuiet DEF StaleRead, h
  <1>4. ASSUME StaleSwap(c) PROVE Inv'
    <2> DEFINE d == h.d
               g == [h EXCEPT !.pc = "drop"]
    <2>1. h.pc = "stale" /\ h.seen # "none" /\ d \in Devices /\ dev[d].state # "none"
      BY <1>0, <1>4 DEF StaleSwap, Shaped, HandlerOK, h
    <2>2. UNCHANGED <<now, chal, active, guess, told, answered, left>> BY <1>4 DEF StaleSwap
    <2>3. /\ dev' \in [Devices -> DeviceRows] /\ DevicesKept(dev, dev')
          /\ \A e \in Devices : dev'[e].from = dev[e].from
          /\ \A e \in Devices : dev'[e].state # "none" => dev[e].state # "none"
      <3>1. CASE h.seen = "active" /\ dev[d].state = "active"
        <4>1. dev' = [dev EXCEPT ![d] = [dev[d] EXCEPT !.state = "stale"]]
          BY <1>4, <3>1 DEF StaleSwap, h
        <4>2. [dev[d] EXCEPT !.state = "stale"] \in DeviceRows
          BY <1>0, <2>1 DEF DeviceRows, DeviceStates
        <4> QED BY <1>0, <2>1, <3>1, <4>1, <4>2 DEF DevicesKept, DeviceRows
      <3>2. CASE ~(h.seen = "active" /\ dev[d].state = "active")
        BY <1>0, <1>4, <2>1, <3>2 DEF StaleSwap, DevicesKept, HandlerOK, h
      <3> QED BY <3>1, <3>2
    <2>4. ChallengesOK /\ DevicesOK'
      BY <1>0, <2>2, <2>3, ChallengesQuiet, NoneIssued DEF ChallengesOK
    <2>5. g \in Handlers /\ Shaped(g) /\ g.pc = "drop" /\ g.dev = h.dev /\ g.d = d
      BY <1>0 DEF Shaped, Handlers, ConnPcs
    <2>6. conn' = [conn EXCEPT ![c] = g] BY <1>4 DEF StaleSwap, Go, h
    <2> HIDE DEF g
    <2>7. HandlerOK(g, chal', dev', told)
      BY <1>0, <2>1, <2>3, <2>5 DEF HandlerOK, DevicesKept, Handlers
    <2> QED BY <1>0, <2>2, <2>3, <2>4, <2>5, <2>6, <2>7, HandlerStep DEF h
  <1>5. ASSUME StaleFails(c) PROVE Inv'
    <2> DEFINE g == [h EXCEPT !.pc = "drop"]
    <2>1. UNCHANGED <<now, chal, active, dev, guess, told, answered>>
          /\ left' = left \cup {h.d} /\ h.pc = "stale"
      BY <1>5 DEF StaleFails, h
    <2>2. left' \in SUBSET Devices BY <1>0, <2>1 DEF Shaped
    <2>3. g \in Handlers /\ Shaped(g) /\ g.pc = "drop" /\ g.dev = h.dev
      BY <1>0 DEF Shaped, Handlers, ConnPcs
    <2>4. conn' = [conn EXCEPT ![c] = g] BY <1>5 DEF StaleFails, Go, h
    <2> HIDE DEF g
    <2>5. HandlerOK(g, chal', dev, told) BY <1>0, <2>1, <2>3 DEF HandlerOK
    <2> QED BY <1>0, <2>1, <2>2, <2>3, <2>4, <2>5, ChallengesQuiet, StoreQuiet DEF h
  <1> QED BY <1>1, <1>2, <1>3, <1>4, <1>5

\* The end of the clean-up.
LEMMA DropStep ==
  ASSUME Inv, NEW c \in Conns, DropChallenge(c) PROVE Inv'
  <1> USE Parts
  <1> DEFINE h == conn[c]
  <1>0. TypeInv /\ h \in Handlers /\ HandlerOK(h, chal, dev, told) /\ h.pc = "drop"
    BY DEF Inv, HandlersOK, DropChallenge
  <1>1. conn' = [conn EXCEPT ![c] = Closed] /\ UNCHANGED <<now, dev, guess, told, answered, left>>
    BY DEF DropChallenge
  <1>3. ChallengesOK /\ active' \in [Requests -> Challenges \cup {NoChallenge}]
    <2>1. CASE h.chal # NoChallenge
      BY <1>0, <2>1, Withdraws DEF DropChallenge, Handlers
    <2>2. CASE h.chal = NoChallenge
      BY <1>0, <2>2, ChallengesQuiet DEF DropChallenge
    <2> QED BY <2>1, <2>2
  <1> HIDE DEF h
  <1>4. /\ Closed \in Handlers /\ Shaped(Closed) /\ Closed.pc = "closed"
        /\ Closed.dev = NoDevice
    BY DEF Closed, Handlers, Shaped, ConnPcs, DeviceStates
  <1>5. HandlerOK(Closed, chal', dev', told') BY <1>4 DEF HandlerOK
  <1>6. \A e \in Conns : conn'[e] = IF e = c THEN Closed ELSE conn[e] BY <1>0, <1>1
  <1>7. DevicesKept(dev, dev') BY <1>1 DEF DevicesKept
  <1>9. TypeInv' BY <1>0, <1>1, <1>3, <1>4, TypeStep DEF ChallengesOK
  <1>10. \A e \in Conns : HandlerOK(conn[e], chal', dev', told')
    BY <1>1, <1>3, <1>7, OthersKeep DEF Inv, HandlersOK, HandlerOK, ChallengesOK
  <1>11. HandlersOK' BY <1>5, <1>6, <1>10 DEF HandlersOK
  <1>12. ConfirmedApart' BY <1>4, <1>6 DEF Inv, ConfirmedApart
  <1>13. DevicesOK' BY <1>1, <1>3, <1>7, NoneIssued DEF ChallengesOK
  <1>14. HistoryOK' BY <1>1 DEF Inv, HistoryOK
  <1>15. RevokedIsUnpaired'
    BY <1>0, <1>1, <1>4, <1>6, PairingNames DEF Inv, RevokedIsUnpaired, PairingNames
  <1> QED BY <1>9, <1>11, <1>12, <1>13, <1>14, <1>15 DEF Inv

\* Steps of no connection: the clock and the sweeper.
LEMMA SweepSteps ==
  ASSUME Inv, Tick \/ ExpireChallenges \/ \E d \in Devices : ExpireDevice(d) PROVE Inv'
  <1> USE Parts
  <1>0. TypeInv BY DEF Inv
  <1>1. ASSUME now' \in Nat, UNCHANGED <<conn, guess, told, answered, left>>, ChallengesOK,
               active' \in [Requests -> Challenges \cup {NoChallenge}],
               dev' \in [Devices -> DeviceRows], DevicesKept(dev, dev'),
               \A e \in Devices : dev'[e].from = dev[e].from,
               \A e \in Devices : dev'[e].state # "none" => dev[e].state # "none"
        PROVE  Inv'
    <2>1. TypeOK'
      BY <1>0, <1>1 DEF TypeOK, Handlers, ChallengeRows, DeviceRows, ChallengesOK
    <2>2. TypeInv' BY <1>0, <1>1, <2>1 DEF TypeInv, ChallengesOK, Shaped
    <2>3. \A e \in Conns : HandlerOK(conn[e], chal', dev', told')
      BY <1>1, OthersKeep DEF Inv, HandlersOK, HandlerOK, ChallengesOK
    <2>4. HandlersOK' BY <1>1, <2>3 DEF HandlersOK
    <2>5. ConfirmedApart' BY <1>1 DEF Inv, ConfirmedApart
    <2>6. DevicesOK' BY <1>1, NoneIssued DEF ChallengesOK
    <2>7. HistoryOK' /\ RevokedIsUnpaired' BY <1>1, HistoryStays
    <2> QED BY <2>2, <2>4, <2>5, <2>6, <2>7 DEF Inv
  <1>2. CASE Tick
    BY <1>0, <1>1, <1>2, ChallengesQuiet DEF Tick, DevicesKept
  <1>3. CASE ExpireChallenges
    <2>1. \A k \in Challenges : [chal[k] EXCEPT !.state = "expired"] \in ChallengeRows
      BY <1>0 DEF ChallengeRows
    <2>2. chal' \in [Challenges -> ChallengeRows] BY <1>0, <1>3, <2>1 DEF ExpireChallenges
    <2>3. \A k \in Challenges : GuessesLeft(k)'
      BY <1>0, <1>3 DEF ExpireChallenges, GuessesLeft, ChallengeRows
    <2>4. ChallengesKept(chal, chal') BY <1>0, <1>3 DEF ExpireChallenges, ChallengesKept
    <2>5. active' \in [Requests -> Challenges \cup {NoChallenge}]
      BY <1>0, <1>3 DEF ExpireChallenges
    <2>6. UNCHANGED <<now, conn, dev, guess, told, answered, left>>
      BY <1>3 DEF ExpireChallenges
    <2> QED BY <1>0, <1>1, <2>2, <2>3, <2>4, <2>5, <2>6 DEF ChallengesOK, DevicesKept
  <1>4. ASSUME NEW d \in Devices, ExpireDevice(d) PROVE Inv'
    <2>1. dev' = [dev EXCEPT ![d] = [dev[d] EXCEPT !.state = "expired"]]
      BY <1>4 DEF ExpireDevice
    <2>2. [dev[d] EXCEPT !.state = "expired"] \in DeviceRows
      BY <1>0 DEF DeviceRows, DeviceStates
    <2>3. /\ dev' \in [Devices -> DeviceRows] /\ DevicesKept(dev, dev')
          /\ \A e \in Devices : dev'[e].from = dev[e].from
          /\ \A e \in Devices : dev'[e].state # "none" => dev[e].state # "none"
      BY <1>0, <1>4, <2>1, <2>2 DEF ExpireDevice, DevicesKept, DeviceRows
    <2> QED BY <1>0, <1>1, <1>4, <2>3, ChallengesQuiet DEF ExpireDevice
  <1> QED BY <1>2, <1>3, <1>4

\* The process ends: only the device store stays.
LEMMA RestartStep ==
  ASSUME Inv, Restart PROVE Inv'
  <1> USE Parts
  <1>0. TypeInv /\ UNCHANGED <<now, dev, told, answered>> /\ left' = told BY DEF Inv, Restart
  <1>1. /\ Closed \in Handlers /\ Shaped(Closed) /\ Closed.pc = "closed"
        /\ Closed.dev = NoDevice
    BY DEF Closed, Handlers, Shaped, ConnPcs, DeviceStates
  <1>2. \A c \in Conns : conn'[c] = IF conn[c].pc = "new" THEN conn[c] ELSE Closed
    BY DEF Restart
  <1>3. conn' \in [Conns -> Handlers] BY <1>0, <1>1 DEF Restart
  <1>4. \A k \in Challenges : [chal[k] EXCEPT !.state = IF @ = "pending" THEN "lost" ELSE @]
                              \in ChallengeRows
    BY <1>0 DEF ChallengeRows
  <1>5. chal' \in [Challenges -> ChallengeRows] BY <1>0, <1>4 DEF Restart
  <1>6. ChallengesKept(chal, chal')
    BY <1>0 DEF Restart, ChallengesKept, ChallengeRows
  <1>7. \A k \in Challenges : GuessesLeft(k)'
    BY <1>0 DEF Restart, GuessesLeft, ChallengeRows
  <1>8. active' \in [Requests -> Challenges \cup {NoChallenge}]
        /\ guess' \in [n : 0 .. MaxTries, since : Nat]
    BY PairingBounds DEF Restart, PairingBounds
  <1>9. TypeInv'
    <2>1. TypeOK' BY <1>0, <1>3, <1>5, <1>8 DEF TypeOK, Handlers, ChallengeRows, DeviceRows
    <2>2. \A c \in Conns : Shaped(conn'[c]) BY <1>0, <1>1, <1>2
    <2> QED BY <1>7, <2>1, <2>2 DEF TypeInv, Shaped
  <1>10. DevicesKept(dev, dev') BY <1>0 DEF DevicesKept
  <1>11. HandlersOK'
    <2>1. \A c \in Conns : HandlerOK(conn[c], chal', dev', told')
      BY <1>0, <1>6, <1>10, OthersKeep DEF Inv, HandlersOK, HandlerOK
    <2>2. HandlerOK(Closed, chal', dev', told') BY <1>1 DEF HandlerOK
    <2> QED BY <1>2, <2>1, <2>2 DEF HandlersOK
  <1>12. ConfirmedApart' BY <1>1, <1>2 DEF Inv, ConfirmedApart
  <1>13. DevicesOK' BY <1>0, <1>6, <1>10, NoneIssued
  <1>14. HistoryOK' /\ RevokedIsUnpaired' BY <1>0, <1>1, <1>2, <1>10, HistoryStays
  <1> QED BY <1>9, <1>11, <1>12, <1>13, <1>14 DEF Inv

-----------------------------------------------------------------------------
\* Nothing is known of anything at the start.
LEMMA InitInv == Init => Inv
  <1> SUFFICES ASSUME Init PROVE Inv
    OBVIOUS
  <1>1. /\ Unconnected \in Handlers /\ Shaped(Unconnected) /\ Unconnected.pc = "new"
        /\ Unconnected.dev = NoDevice
    BY DEF Unconnected, Closed, Handlers, Shaped, ConnPcs, DeviceStates
  <1>2. /\ NoChallengeRow \in ChallengeRows /\ NoChallengeRow.state = "none"
        /\ NoDeviceRow \in DeviceRows /\ NoDeviceRow.state = "none"
    BY PairingBounds
    DEF NoChallengeRow, ChallengeRows, NoDeviceRow, DeviceRows, DeviceStates, PairingBounds
  <1>3. TypeOK
    BY <1>1, <1>2, PairingBounds
    DEF Init, TypeOK, Handlers, ChallengeRows, DeviceRows, PairingBounds
  <1>4. TypeInv BY <1>1, <1>2, <1>3 DEF Init, TypeInv, GuessesLeft
  <1>5. HandlersOK BY <1>1 DEF Init, HandlersOK, HandlerOK
  <1>6. ConfirmedApart BY <1>1 DEF Init, ConfirmedApart
  <1>7. DevicesOK /\ HistoryOK /\ RevokedIsUnpaired
    BY <1>2 DEF Init, DevicesOK, HistoryOK, RevokedIsUnpaired
  <1> QED BY <1>4, <1>5, <1>6, <1>7 DEF Inv

LEMMA NextInv == Inv /\ [Next]_pairingVars => Inv'
  <1> SUFFICES ASSUME Inv, [Next]_pairingVars PROVE Inv'
    OBVIOUS
  <1>1. CASE UNCHANGED pairingVars
    BY <1>1
    DEF pairingVars, Inv, TypeInv, TypeOK, Shaped, GuessesLeft, HandlersOK, HandlerOK,
        ConfirmedApart, DevicesOK, HistoryOK, RevokedIsUnpaired
  <1>2. ASSUME NEW c \in Conns, Serve(c) PROVE Inv'
    BY <1>2, ChallengeSteps, IssueStep, ConfirmedStep, RevokeSteps, UnpairStep,
       ConnectionSteps, DropStep DEF Serve
  <1> QED BY <1>1, <1>2, SweepSteps, RestartStep DEF Next

LEMMA InvHolds == Spec => []Inv
  BY InitInv, NextInv, PTL DEF Spec

\* The stores and the server's maps keep their types, for every number of
\* connections, challenges and devices (TypeOK).
THEOREM TypeCorrect == Spec => []TypeOK
  <1>1. Inv => TypeOK BY DEF Inv, TypeInv
  <1> QED BY InvHolds, <1>1, PTL

\* However many clients answer, cancel or leave, and wherever the process stops
\* between the two stores, a challenge yields one device at most, and only one that
\* was answered in time and within its guesses.
THEOREM OneDevice == Spec => []OneDevicePerChallenge
  <1>1. Inv => OneDevicePerChallenge
    BY DEF Inv, TypeInv, GuessesLeft, DevicesOK, OneDevicePerChallenge
  <1> QED BY InvHolds, <1>1, PTL

\* Once a device's revocation was answered it stays revoked and pairs nobody.
THEOREM RevocationHolds == Spec => []RevokedIsUnpaired
  <1>1. Inv => RevokedIsUnpaired BY DEF Inv
  <1> QED BY InvHolds, <1>1, PTL

-----------------------------------------------------------------------------
(* The owner's view.  A step of the handlers is one of PairingLedger, or    *)
(* none: what a handler holds in its own locals, and what it has yet to     *)
(* bring up to date, is not seen.                                          *)

\* A device pairs one connection, whose client was told of it; once that connection is
\* being cleaned up it pairs nobody, and nobody acts on one that was not told.
LinksOK ==
    /\ \A c \in Conns :
          /\ conn[c].pc \in {"new", "stale", "drop", "closed"} => conn[c].dev = NoDevice
          /\ conn[c].dev # NoDevice => conn[c].dev \in told
          /\ conn[c].pc = "stale" => conn[c].d \in told
          /\ conn[c].pc = "revoke" => conn[c].seen # "expired"
    /\ \A c, e \in Conns :
          /\ conn[c].dev = conn[e].dev /\ conn[c].dev # NoDevice => c = e
          /\ conn[c].pc = "stale" => conn[e].dev # conn[c].d
    /\ \A d \in Devices : dev[d].state \in {"stale", "revoked"} => d \in told

\* The index names challenges of the request, and every one that can be answered.
OpenOK ==
    /\ \A r \in Requests : active[r] # NoChallenge => chal[active[r]].req = r
    /\ \A k \in Challenges :
          /\ chal[k].state = "none" => chal[k].req = NoRequest
          /\ chal[k].state = "pending" => chal[k].req \in Requests /\ active[chal[k].req] = k

\* What a step leaves alone of the owner's view.
ChallengesSeen == \A k \in Challenges : OwnersView(chal'[k].state) = OwnersView(chal[k].state)
                                        /\ chal'[k].req = chal[k].req
DevicesSeen == \A d \in Devices : dev'[d].state = dev[d].state /\ dev'[d].from = dev[d].from
LinksSeen == \A c \in Conns : conn'[c].dev = conn[c].dev

\* The links after a step of one handler that pairs its connection with nothing new.
LEMMA LinksStay ==
  ASSUME TypeInv, LinksOK, NEW c \in Conns, NEW h \in Handlers,
         conn' = [conn EXCEPT ![c] = h], told' = told,
         h.dev \in {conn[c].dev, NoDevice},
         h.pc \in {"new", "stale", "drop", "closed"} => h.dev = NoDevice,
         h.pc = "revoke" => h.seen # "expired",
         h.pc = "stale" => /\ h.d \in told /\ h.d # NoDevice
                           /\ \A e \in Conns : e # c => conn[e].dev # h.d,
         \A d \in Devices : dev'[d].state \in {"stale", "revoked"} => d \in told
  PROVE  LinksOK' /\ (h.dev = conn[c].dev => LinksSeen)
  <1>1. \A e \in Conns : conn'[e] = IF e = c THEN h ELSE conn[e] BY Parts
  <1>2. \A e \in Conns : conn[e].pc = "stale" => conn[e].d # NoDevice
    BY Parts, PairingNames DEF Shaped, PairingNames
  <1>3. LinksOK' BY <1>1, <1>2 DEF LinksOK
  <1> QED BY <1>1, <1>3 DEF LinksSeen

\* Steps that the owner does not see.
LEMMA Unseen ==
  ASSUME ChallengesSeen, DevicesSeen, LinksSeen, UNCHANGED <<told, answered>>
  PROVE  UNCHANGED Ledger!ledgerVars
  BY DEF ChallengesSeen, DevicesSeen, LinksSeen, Ledger!ledgerVars, Ledger!pairing,
         Ledger!sessions

\* Challenges that are over, for whatever reason; there may be none.
ClosesOnly ==
    \E S \in SUBSET Challenges :
        /\ \A k \in S : chal[k].state = "pending"
        /\ \A k \in Challenges :
              /\ chal'[k].req = chal[k].req
              /\ OwnersView(chal'[k].state) =
                    IF k \in S THEN "over" ELSE OwnersView(chal[k].state)

LEMMA Closes ==
  ASSUME ClosesOnly, DevicesSeen, LinksSeen, UNCHANGED <<told, answered>>
  PROVE  Ledger!Next
  <1>1. PICK S \in SUBSET Challenges :
          /\ \A k \in S : chal[k].state = "pending"
          /\ \A k \in Challenges :
                /\ chal'[k].req = chal[k].req
                /\ OwnersView(chal'[k].state) =
                      IF k \in S THEN "over" ELSE OwnersView(chal[k].state)
    BY DEF ClosesOnly
  <1>2. Ledger!Close(S)
    BY <1>1 DEF Ledger!Close, Ledger!sessions, OwnersView, DevicesSeen, LinksSeen
  <1> QED BY <1>2 DEF Ledger!Next

LEMMA LapseSeen ==
  ASSUME TypeInv, OpenOK, NEW k \in Challenges, Lapse(k), active' = active
  PROVE  OpenOK' /\ ClosesOnly
  <1> USE Parts
  <1> DEFINE S == IF chal[k].state = "pending" /\ now >= chal[k].exp THEN {k} ELSE {}
  <1>1. \A j \in Challenges :
           chal'[j] = IF j \in S THEN [chal[j] EXCEPT !.state = "expired"] ELSE chal[j]
    BY DEF Lapse, ChallengeRows
  <1>2. \A j \in S : j \in Challenges /\ chal[j].state = "pending" OBVIOUS
  <1> HIDE DEF S
  <1>3. \A j \in Challenges : chal'[j].req = chal[j].req
                              /\ chal'[j].state = IF j \in S THEN "expired" ELSE chal[j].state
    BY <1>1 DEF ChallengeRows
  <1>4. OpenOK' BY <1>3 DEF OpenOK
  <1>5. \A j \in Challenges :
           OwnersView(chal'[j].state) = IF j \in S THEN "over" ELSE OwnersView(chal[j].state)
    BY <1>3 DEF OwnersView
  <1>6. S \in SUBSET Challenges BY <1>2
  <1>7. ClosesOnly BY <1>2, <1>3, <1>5, <1>6 DEF ClosesOnly
  <1> QED BY <1>4, <1>7

LEMMA WithdrawSeen ==
  ASSUME TypeInv, OpenOK, NEW k \in Challenges, Withdraw(k)
  PROVE  OpenOK' /\ ClosesOnly
  <1> USE Parts
  <1>1. CASE Answerable(k)
    <2>1. /\ chal' = [chal EXCEPT ![k].state = "cancelled"] /\ chal[k].state = "pending"
          /\ active' = [active EXCEPT ![chal[k].req] = NoChallenge]
      BY <1>1 DEF Withdraw, Answerable
    <2>2. \A j \in Challenges : chal'[j].req = chal[j].req
                              /\ chal'[j].state = IF j = k THEN "cancelled" ELSE chal[j].state
      BY <2>1 DEF ChallengeRows
    <2>3. OpenOK' BY <2>1, <2>2, PairingNames DEF OpenOK, PairingNames
    <2>4. ClosesOnly
      <3>1. /\ {k} \in SUBSET Challenges /\ \A j \in {k} : chal[j].state = "pending"
            /\ \A j \in Challenges : OwnersView(chal'[j].state) =
                  IF j \in {k} THEN "over" ELSE OwnersView(chal[j].state)
        BY <2>1, <2>2 DEF OwnersView
      <3> QED BY <2>2, <3>1 DEF ClosesOnly
    <2> QED BY <2>3, <2>4
  <1>2. CASE ~Answerable(k) BY <1>2, LapseSeen DEF Withdraw
  <1> QED BY <1>1, <1>2

\* The challenges are left alone.
LEMMA NoneClosed ==
  ASSUME UNCHANGED chal PROVE ClosesOnly /\ ChallengesSeen
  <1>1. /\ {} \in SUBSET Challenges /\ \A j \in {} : chal[j].state = "pending"
        /\ \A j \in Challenges : /\ chal'[j].req = chal[j].req
                                 /\ OwnersView(chal'[j].state) =
                                       IF j \in {} THEN "over" ELSE OwnersView(chal[j].state)
    OBVIOUS
  <1> QED BY <1>1 DEF ClosesOnly, ChallengesSeen

\* What there is to show of a step.
Seen == LinksOK' /\ OpenOK' /\ [Ledger!Next]_(Ledger!ledgerVars)

\* A step of one handler that leaves the devices and the links alone.
LEMMA HandlerSeen ==
  ASSUME TypeInv, LinksOK, OpenOK', ClosesOnly, NEW c \in Conns, NEW h \in Handlers,
         conn' = [conn EXCEPT ![c] = h], h.dev = conn[c].dev,
         h.pc \notin {"new", "stale", "drop", "closed"},
         h.pc = "revoke" => h.seen # "expired", UNCHANGED <<dev, told, answered>>
  PROVE  Seen
  <1>1. DevicesSeen BY DEF DevicesSeen
  <1>2. LinksOK' /\ LinksSeen BY LinksStay DEF LinksOK
  <1> QED BY <1>1, <1>2, Closes DEF Seen

\* A challenge of its own for a request.
LEMMA PrepareSeen ==
  ASSUME Inv, LinksOK, OpenOK, NEW c \in Conns, NEW r \in Requests, Prepare(c, r)
  PROVE  Seen
  <1> USE Parts
  <1> DEFINE h == conn[c]
  <1>0. TypeInv /\ h \in Handlers /\ h.pc = "open" /\ UNCHANGED <<dev, told, answered>>
    BY DEF Inv, Prepare, Open
  <1>1. PICK j \in Challenges \cup {NoChallenge} : conn' = [conn EXCEPT ![c] = [h EXCEPT !.chal = j]]
    BY <1>0, Prepares
  <1> DEFINE g == [h EXCEPT !.chal = j]
  <1>2. g \in Handlers /\ g.pc = "open" /\ g.dev = h.dev BY <1>0 DEF Handlers
  <1>3. LinksOK' /\ LinksSeen /\ DevicesSeen
    <2>1. \A d \in Devices : dev'[d].state \in {"stale", "revoked"} => d \in told
      BY <1>0 DEF LinksOK
    <2> HIDE DEF g, h
    <2> QED BY <1>0, <1>1, <1>2, <2>1, LinksStay DEF DevicesSeen, g, h
  <1>4. CASE Has(r) /\ UNCHANGED <<chal, active>>
    <2>1. OpenOK' BY <1>4 DEF OpenOK
    <2> QED BY <1>0, <1>3, <1>4, <2>1, NoneClosed, Closes DEF Seen
  <1>5. CASE ~Has(r)
    <2>1. PICK k \in Challenges, shown \in BOOLEAN :
             /\ chal[k].state = "none"
             /\ chal' = [i \in Challenges |->
                   IF i = k THEN [state |-> IF shown THEN "pending" ELSE "cancelled",
                                  req |-> r, tries |-> 0, exp |-> now + ChallengeTTL, at |-> 0]
                   ELSE IF i = active[r] /\ chal[i].state = "pending" /\ now >= chal[i].exp
                   THEN [chal[i] EXCEPT !.state = "expired"] ELSE chal[i]]
             /\ active' = [active EXCEPT ![r] = IF shown THEN k ELSE NoChallenge]
      BY <1>5 DEF Prepare
    <2> DEFINE outcome == IF shown THEN "open" ELSE "over"
               open == {i \in Challenges : chal[i].state = "pending" /\ chal[i].req = r}
    <2>2. \A i \in open : i = active[r] /\ now >= chal[i].exp
      BY <1>0, <1>5, PairingNames DEF OpenOK, Has, Answerable, ChallengeRows, PairingNames
    <2>3. \A i \in Challenges :
             /\ chal'[i].req = (IF i = k THEN r ELSE chal[i].req)
             /\ chal'[i].state = IF i = k THEN IF shown THEN "pending" ELSE "cancelled"
                                 ELSE IF i \in open THEN "expired" ELSE chal[i].state
      <3> TAKE i \in Challenges
      <3>1. CASE i = k BY <2>1, <3>1
      <3>2. CASE i # k /\ i \in open
        <4>1. chal[i].state = "pending" /\ i = active[r] /\ now >= chal[i].exp BY <2>2, <3>2
        <4>2. chal'[i] = [chal[i] EXCEPT !.state = "expired"] BY <2>1, <3>2, <4>1
        <4>3. chal[i] \in ChallengeRows BY <1>0
        <4> QED BY <3>2, <4>2, <4>3 DEF ChallengeRows
      <3>3. CASE i # k /\ i \notin open
        <4>1. ~(i = active[r] /\ chal[i].state = "pending")
          BY <3>3, PairingNames DEF OpenOK, PairingNames
        <4> QED BY <2>1, <3>3, <4>1
      <3> QED BY <3>1, <3>2, <3>3
    <2>4. k \notin open BY <2>1
    <2>5. OpenOK'
      <3>1. \A q \in Requests : active'[q] # NoChallenge => chal'[active'[q]].req = q
        <4> TAKE q \in Requests
        <4>1. CASE q = r
          <5>1. active'[r] = IF shown THEN k ELSE NoChallenge BY <1>0, <2>1
          <5>2. chal'[k].req = r BY <2>3
          <5> QED BY <4>1, <5>1, <5>2
        <4>2. CASE q # r
          <5>1. active'[q] = active[q] BY <1>0, <2>1, <4>2
          <5>2. active[q] # k
            BY <2>1, PairingNames DEF OpenOK, PairingNames
          <5> QED BY <1>0, <2>3, <5>1, <5>2 DEF OpenOK
        <4> QED BY <4>1, <4>2
      <3>2. \A i \in Challenges :
               /\ chal'[i].state = "none" => chal'[i].req = NoRequest
               /\ chal'[i].state = "pending" =>
                     chal'[i].req \in Requests /\ active'[chal'[i].req] = i
        BY <1>0, <2>1, <2>3, <2>4 DEF OpenOK
      <3> QED BY <3>1, <3>2 DEF OpenOK
    <2>6. Ledger!Show(k, r, outcome)
      <3>1. Ledger!OpenFor(r) = open BY DEF Ledger!OpenFor, OwnersView
      <3>2. \A i \in Challenges : OwnersView(chal'[i].state) =
               IF i = k THEN outcome ELSE IF i \in open THEN "over" ELSE OwnersView(chal[i].state)
        BY <2>3 DEF OwnersView
      <3>3. OwnersView(chal[k].state) = "none" BY <2>1 DEF OwnersView
      <3>4. \A i \in Challenges : chal'[i].req = IF i = k THEN r ELSE chal[i].req BY <2>3
      <3> HIDE DEF open, outcome
      <3>5. [i \in Challenges |-> OwnersView(chal'[i].state)] =
               [i \in Challenges |-> IF i = k THEN outcome ELSE IF i \in Ledger!OpenFor(r)
                  THEN "over" ELSE [m \in Challenges |-> OwnersView(chal[m].state)][i]]
        BY <3>1, <3>2
      <3>6. [i \in Challenges |-> chal'[i].req] =
               [[i \in Challenges |-> chal[i].req] EXCEPT ![k] = r]
        BY <3>4
      <3>7. [i \in Challenges |-> OwnersView(chal[i].state)][k] = "none" BY <3>3
      <3>8. /\ [d \in Devices |-> dev'[d].state] = [d \in Devices |-> dev[d].state]
            /\ [d \in Devices |-> dev'[d].from] = [d \in Devices |-> dev[d].from]
            /\ [e \in Conns |-> conn'[e].dev] = [e \in Conns |-> conn[e].dev]
        BY <1>3 DEF DevicesSeen, LinksSeen
      <3> QED BY <1>0, <3>5, <3>6, <3>7, <3>8 DEF Ledger!Show, Ledger!sessions
    <2>7. outcome \in {"open", "over"} OBVIOUS
    <2> QED BY <1>3, <2>5, <2>6, <2>7 DEF Seen, Ledger!Next
  <1> QED BY <1>4, <1>5 DEF Prepare

\* An answer: taken, wrong, or too late.
LEMMA ConfirmSeen ==
  ASSUME Inv, LinksOK, OpenOK, NEW c \in Conns, NEW k \in Challenges, NEW ok \in BOOLEAN,
         Confirm(c, k, ok)
  PROVE  Seen
  <1> USE Parts
  <1> DEFINE h == conn[c]
  <1>0. TypeInv /\ h \in Handlers /\ h.pc = "open" /\ UNCHANGED <<dev, told, answered>>
    BY DEF Inv, Confirm, Open
  <1>1. \E g \in Handlers : /\ conn' = [conn EXCEPT ![c] = g] /\ g.dev = h.dev
                            /\ g.pc \in {"open", "issue"}
    <2>1. CASE Answerable(k) /\ ok
      <3> DEFINE g == [h EXCEPT !.pc = "issue", !.k = k]
      <3>1. conn' = [conn EXCEPT ![c] = g] BY <2>1 DEF Confirm
      <3>2. g \in Handlers /\ g.dev = h.dev /\ g.pc = "issue" BY <1>0 DEF Handlers, ConnPcs
      <3> QED BY <3>1, <3>2
    <2>2. CASE ~(Answerable(k) /\ ok)
      <3>1. conn' = conn BY <2>2 DEF Confirm
      <3> QED BY <1>0, <3>1
    <2> QED BY <2>1, <2>2
  <1>2. PICK g \in Handlers : /\ conn' = [conn EXCEPT ![c] = g] /\ g.dev = h.dev
                              /\ g.pc \in {"open", "issue"}
    BY <1>1
  <1>3. LinksOK' /\ LinksSeen /\ DevicesSeen
    <2>1. \A d \in Devices : dev'[d].state \in {"stale", "revoked"} => d \in told
      BY <1>0 DEF LinksOK
    <2> QED BY <1>0, <1>2, <2>1, LinksStay DEF DevicesSeen
  <1> HIDE DEF h
  <1>4. CASE Answerable(k) /\ ok
    <2>1. /\ chal[k].state = "pending"
          /\ chal' = [chal EXCEPT ![k].state = "consumed", ![k].at = now]
          /\ active' = [active EXCEPT ![chal[k].req] = NoChallenge]
      BY <1>4 DEF Confirm, Answerable
    <2>2. \A j \in Challenges : chal'[j].req = chal[j].req
                              /\ chal'[j].state = IF j = k THEN "consumed" ELSE chal[j].state
      BY <1>0, <2>1 DEF ChallengeRows
    <2>3. OpenOK' BY <1>0, <2>1, <2>2 DEF OpenOK
    <2>4. Ledger!Answer(k)
      <3>0. chal[k].state = "pending" BY <2>1
      <3>1. /\ OwnersView(chal[k].state) = "open"
            /\ \A j \in Challenges : OwnersView(chal'[j].state) =
                  IF j = k THEN "spent" ELSE OwnersView(chal[j].state)
        BY <2>2, <3>0 DEF OwnersView
      <3>2. [j \in Challenges |-> OwnersView(chal'[j].state)] =
               [[j \in Challenges |-> OwnersView(chal[j].state)] EXCEPT ![k] = "spent"]
        BY <3>1
      <3>3. [j \in Challenges |-> OwnersView(chal[j].state)][k] = "open" BY <3>1
      <3>4. /\ [d \in Devices |-> dev'[d].state] = [d \in Devices |-> dev[d].state]
            /\ [d \in Devices |-> dev'[d].from] = [d \in Devices |-> dev[d].from]
            /\ [e \in Conns |-> conn'[e].dev] = [e \in Conns |-> conn[e].dev]
            /\ [j \in Challenges |-> chal'[j].req] = [j \in Challenges |-> chal[j].req]
        BY <1>3, <2>2 DEF DevicesSeen, LinksSeen
      <3> QED BY <1>0, <3>2, <3>3, <3>4 DEF Ledger!Answer, Ledger!sessions
    <2> QED BY <1>3, <2>3, <2>4 DEF Seen, Ledger!Next
  <1>5. CASE Answerable(k) /\ ~ok
    <2> DEFINE locks == chal[k].tries + 1 >= MaxTries
               S == IF locks THEN {k} ELSE {}
    <2>1. /\ chal[k].state = "pending"
          /\ chal' = [chal EXCEPT ![k].tries = @ + 1,
                                  ![k].state = IF locks THEN "locked" ELSE @]
          /\ active' = IF locks THEN [active EXCEPT ![chal[k].req] = NoChallenge] ELSE active
      BY <1>5 DEF Confirm, Answerable
    <2> HIDE DEF locks
    <2>2. \A j \in Challenges : chal'[j].req = chal[j].req
                              /\ chal'[j].state = IF j \in S THEN "locked" ELSE chal[j].state
      BY <1>0, <2>1 DEF ChallengeRows
    <2>3. OpenOK' BY <1>0, <2>1, <2>2 DEF OpenOK
    <2>4. S \in SUBSET Challenges /\ \A j \in S : chal[j].state = "pending" BY <2>1
    <2> HIDE DEF S
    <2>5. \A j \in Challenges : OwnersView(chal'[j].state) =
             IF j \in S THEN "over" ELSE OwnersView(chal[j].state)
      BY <2>2 DEF OwnersView
    <2>6. ClosesOnly BY <2>2, <2>4, <2>5 DEF ClosesOnly
    <2> QED BY <1>0, <1>3, <2>3, <2>6, Closes DEF Seen
  <1>6. CASE ~Answerable(k)
    BY <1>0, <1>3, <1>6, LapseSeen, Closes DEF Confirm, Seen
  <1> QED BY <1>4, <1>5, <1>6 DEF Confirm

\* The other steps of a connection with its challenge, and the older message.
LEMMA RequestsSeen ==
  ASSUME Inv, LinksOK, OpenOK, NEW c \in Conns,
         \/ Connect(c) \/ \E k \in Challenges : CancelChallenge(c, k)
         \/ \E ok \in BOOLEAN : LegacyPair(c, ok)
         \/ \E d \in Devices : RevokeRead(c, d)
  PROVE  Seen
  <1> USE Parts
  <1> DEFINE h == conn[c]
  <1>0. TypeInv /\ h \in Handlers BY DEF Inv
  <1> HIDE DEF h
  <1>1. CASE Connect(c)
    <2> DEFINE g == [h EXCEPT !.pc = "open"]
    <2>1. g \in Handlers /\ g.dev = h.dev /\ g.pc = "open" BY <1>0 DEF Handlers, ConnPcs
    <2>2. conn' = [conn EXCEPT ![c] = g] BY <1>1 DEF Connect, Go, h
    <2>3. OpenOK' /\ ClosesOnly /\ UNCHANGED <<dev, told, answered>>
      BY <1>1, NoneClosed DEF Connect, OpenOK
    <2> HIDE DEF g
    <2> QED BY <1>0, <2>1, <2>2, <2>3, HandlerSeen DEF h
  <1>2. ASSUME NEW k \in Challenges, CancelChallenge(c, k) PROVE Seen
    <2> DEFINE j == IF chal'[k].state = "cancelled" THEN NoChallenge ELSE h.chal
               g == [h EXCEPT !.chal = j]
    <2>1. g \in Handlers /\ g.dev = h.dev /\ g.pc = "open"
      BY <1>0, <1>2 DEF CancelChallenge, Open, Handlers, h
    <2>2. conn' = [conn EXCEPT ![c] = g]
      <3>1. CASE chal'[k].state = "cancelled" BY <1>2, <3>1 DEF CancelChallenge, h
      <3>2. CASE chal'[k].state # "cancelled"
        <4>1. g = h BY <1>0, <3>2 DEF Handlers
        <4>2. conn' = conn BY <1>2, <3>2 DEF CancelChallenge
        <4> HIDE DEF g
        <4> QED BY <1>0, <4>1, <4>2 DEF h
      <3> QED BY <3>1, <3>2
    <2>3. OpenOK' /\ ClosesOnly /\ UNCHANGED <<dev, told, answered>>
      BY <1>0, <1>2, WithdrawSeen DEF CancelChallenge
    <2> HIDE DEF g
    <2> QED BY <1>0, <2>1, <2>2, <2>3, HandlerSeen DEF h
  <1>3. ASSUME NEW ok \in BOOLEAN, LegacyPair(c, ok) PROVE Seen
    <2> DEFINE g == IF ok THEN [h EXCEPT !.paired = TRUE] ELSE h
    <2>1. g \in Handlers /\ g.dev = h.dev /\ g.pc = "open"
      BY <1>0, <1>3 DEF LegacyPair, Open, Handlers, h
    <2>2. conn' = [conn EXCEPT ![c] = g] BY <1>0, <1>3 DEF LegacyPair, h
    <2>3. OpenOK' /\ ClosesOnly /\ UNCHANGED <<dev, told, answered>>
      BY <1>3, NoneClosed DEF LegacyPair, OpenOK
    <2> HIDE DEF g
    <2> QED BY <1>0, <2>1, <2>2, <2>3, HandlerSeen DEF h
  <1>4. ASSUME NEW d \in Devices, RevokeRead(c, d) PROVE Seen
    <2> DEFINE g == [h EXCEPT !.pc = "revoke", !.d = d, !.seen = dev[d].state]
    <2>0. dev[d].state \in DeviceStates BY <1>0 DEF DeviceRows
    <2>1. g \in Handlers /\ g.dev = h.dev /\ g.pc = "revoke" /\ g.seen # "expired"
      BY <1>0, <1>4, <2>0 DEF Handlers, ConnPcs, RevokeRead
    <2>2. conn' = [conn EXCEPT ![c] = g] BY <1>4 DEF RevokeRead, h
    <2>3. OpenOK' /\ ClosesOnly /\ UNCHANGED <<dev, told, answered>>
      BY <1>4, NoneClosed DEF RevokeRead, OpenOK
    <2> HIDE DEF g
    <2> QED BY <1>0, <2>1, <2>2, <2>3, HandlerSeen DEF h
  <1> QED BY <1>1, <1>2, <1>3, <1>4

\* What of the owner's view is left alone.
LEMMA Views ==
  /\ ChallengesSeen => UNCHANGED Ledger!pairing
  /\ DevicesSeen => UNCHANGED Ledger!sessions
  /\ LinksSeen => [c \in Conns |-> conn'[c].dev] = [c \in Conns |-> conn[c].dev]
  BY DEF ChallengesSeen, DevicesSeen, LinksSeen, Ledger!pairing, Ledger!sessions

\* A device moves on.
LEMMA DeviceMoves ==
  ASSUME NEW d \in Devices, NEW from, NEW to, dev[d].state \in from,
         \A e \in Devices : /\ dev'[e].from = dev[e].from
                            /\ dev'[e].state = IF e = d THEN to ELSE dev[e].state,
         UNCHANGED <<chal, told, answered>>, LinksSeen
  PROVE  Ledger!Move(d, from, to)
  <1>1. [e \in Devices |-> dev'[e].state] = [[e \in Devices |-> dev[e].state] EXCEPT ![d] = to]
        /\ [e \in Devices |-> dev'[e].from] = [e \in Devices |-> dev[e].from]
    OBVIOUS
  <1>2. UNCHANGED Ledger!pairing BY Views, NoneClosed
  <1>3. [c \in Conns |-> conn'[c].dev] = [c \in Conns |-> conn[c].dev] BY Views
  <1>4. [e \in Devices |-> dev[e].state][d] \in from OBVIOUS
  <1> QED BY <1>1, <1>2, <1>3, <1>4 DEF Ledger!Move

\* A device is enrolled for the answered challenge, or none is.
LEMMA IssueSeen ==
  ASSUME Inv, LinksOK, OpenOK, NEW c \in Conns, Issue(c) PROVE Seen
  <1> USE Parts
  <1> DEFINE h == conn[c]
  <1>0. /\ TypeInv /\ h \in Handlers /\ Shaped(h) /\ HandlerOK(h, chal, dev, told)
        /\ h.pc = "issue" /\ UNCHANGED <<chal, active, told, answered>>
    BY DEF Inv, HandlersOK, Issue
  <1>1. OpenOK' BY <1>0 DEF OpenOK
  <1> HIDE DEF h
  <1>2. ASSUME NEW d \in Devices, dev[d].state = "none",
               \A e \in Devices : dev[e].from # h.k,
               dev' = [dev EXCEPT ![d] = [state |-> "active", from |-> h.k,
                                          exp |-> now + DeviceTTL]],
               conn' = [conn EXCEPT ![c].pc = "confirmed", ![c].d = d]
        PROVE  Seen
    <2> DEFINE g == [h EXCEPT !.pc = "confirmed", !.d = d]
    <2>1. g \in Handlers /\ g.dev = h.dev /\ g.pc = "confirmed" BY <1>0 DEF Handlers, ConnPcs
    <2>2. conn' = [conn EXCEPT ![c] = g] BY <1>2 DEF h
    <2> HIDE DEF g
    <2>3. \A e \in Devices : /\ dev'[e].state = (IF e = d THEN "active" ELSE dev[e].state)
                             /\ dev'[e].from = (IF e = d THEN h.k ELSE dev[e].from)
      BY <1>0, <1>2
    <2>4. \A e \in Devices : dev'[e].state \in {"stale", "revoked"} => e \in told
      BY <2>3 DEF LinksOK
    <2>5. LinksOK' /\ LinksSeen BY <1>0, <2>1, <2>2, <2>4, LinksStay DEF h
    <2>6. PICK k \in Challenges : k = h.k /\ chal[k].state = "consumed"
      BY <1>0 DEF HandlerOK, Shaped
    <2>7. Ledger!Enroll(d, k)
      <3>1. /\ [e \in Devices |-> dev'[e].state] =
                  [[e \in Devices |-> dev[e].state] EXCEPT ![d] = "active"]
            /\ [e \in Devices |-> dev'[e].from] =
                  [[e \in Devices |-> dev[e].from] EXCEPT ![d] = k]
        BY <2>3, <2>6
      <3>2. /\ [e \in Devices |-> dev[e].state][d] = "none"
            /\ \A e \in Devices : [b \in Devices |-> dev[b].from][e] # k
        BY <1>2, <2>6
      <3>3. [i \in Challenges |-> OwnersView(chal[i].state)][k] = "spent"
        BY <2>6 DEF OwnersView
      <3>4. UNCHANGED Ledger!pairing BY <1>0, Views, NoneClosed
      <3>5. [e \in Conns |-> conn'[e].dev] = [e \in Conns |-> conn[e].dev] BY <2>5, Views
      <3> QED BY <1>0, <3>1, <3>2, <3>3, <3>4, <3>5 DEF Ledger!Enroll
    <2>8. Ledger!Next BY <2>7 DEF Ledger!Next
    <2> QED BY <1>1, <2>5, <2>8 DEF Seen
  <1>3. ASSUME conn' = Back(c), dev' = dev PROVE Seen
    <2>1. conn' = [conn EXCEPT ![c] = Idle(h)] /\ Idle(h) \in Handlers
      BY <1>0, <1>3, BackIsIdle DEF h
    <2>2. Idle(h).dev = h.dev /\ Idle(h).pc = "open" BY <1>0 DEF Idle, Handlers
    <2> QED BY <1>0, <1>1, <1>3, <2>1, <2>2, NoneClosed, HandlerSeen DEF h
  <1> QED BY <1>2, <1>3 DEF Issue, h

\* The connection is linked to its device, which nobody was told of.
LEMMA ConfirmedSeen ==
  ASSUME Inv, LinksOK, OpenOK, NEW c \in Conns, Confirmed(c) PROVE Seen
  <1> USE Parts
  <1> DEFINE h == conn[c]
             g == [Idle(h) EXCEPT !.paired = TRUE, !.dev = h.d, !.chal = NoChallenge]
  <1>0. /\ TypeInv /\ h \in Handlers /\ HandlerOK(h, chal, dev, told)
        /\ h.pc = "confirmed" /\ h.d \in Devices
        /\ UNCHANGED <<chal, active, dev, answered>> /\ told' = told \cup {h.d}
    BY DEF Inv, HandlersOK, Confirmed, Shaped
  <1>1. Back(c) = [conn EXCEPT ![c] = Idle(h)] /\ Idle(h) \in Handlers BY <1>0, BackIsIdle
  <1>2. g \in Handlers /\ g.pc = "open" /\ g.dev = h.d BY <1>0, <1>1 DEF Handlers, Idle
  <1>3. conn' = [conn EXCEPT ![c] = g]
    <2>1. conn' = [[conn EXCEPT ![c] = Idle(h)] EXCEPT ![c].paired = TRUE, ![c].dev = h.d,
                                                       ![c].chal = NoChallenge]
      BY <1>1 DEF Confirmed
    <2> QED BY <1>0, <2>1
  <1>4. /\ h.d \notin told /\ dev[h.d].state \notin {"none", "stale", "revoked"}
        /\ dev[h.d].state \in DeviceStates
    BY <1>0 DEF HandlerOK, LinksOK, DeviceRows
  <1> HIDE DEF h, g
  <1>5. \A e \in Conns : conn'[e] = IF e = c THEN g ELSE conn[e] BY <1>0, <1>3
  <1>6. LinksOK' BY <1>0, <1>2, <1>4, <1>5 DEF LinksOK
  <1>7. OpenOK' BY <1>0 DEF OpenOK
  <1>8. PICK d \in Devices : d = h.d BY <1>0
  <1>9. Ledger!Link(c, d)
    <2>1. [e \in Conns |-> conn'[e].dev] = [[e \in Conns |-> conn[e].dev] EXCEPT ![c] = d]
      BY <1>2, <1>5, <1>8
    <2>2. [e \in Devices |-> dev[e].state][d] \in {"active", "expired"}
      BY <1>4, <1>8 DEF DeviceStates
    <2>3. UNCHANGED Ledger!pairing /\ UNCHANGED Ledger!sessions
      BY <1>0, Views, NoneClosed DEF DevicesSeen
    <2>4. d \notin told /\ told' = told \cup {d} /\ answered' = answered
      BY <1>0, <1>4, <1>8
    <2> QED BY <2>1, <2>2, <2>3, <2>4, Zenon DEF Ledger!Link
  <1>10. Ledger!Next BY <1>9 DEF Ledger!Next
  <1> QED BY <1>6, <1>7, <1>10 DEF Seen

\* A device is revoked, or its row has moved on.
LEMMA RevokeSeen ==
  ASSUME Inv, LinksOK, OpenOK, NEW c \in Conns, RevokeSwap(c) \/ RevokeFails(c) PROVE Seen
  <1> USE Parts
  <1> DEFINE h == conn[c]
  <1>0. /\ TypeInv /\ h \in Handlers /\ HandlerOK(h, chal, dev, told)
        /\ h.pc = "revoke" /\ h.d \in Devices /\ h.d \in told
        /\ UNCHANGED <<chal, active, told, answered>>
    BY DEF Inv, HandlersOK, RevokeSwap, RevokeFails, Shaped, HandlerOK
  <1> PICK d \in Devices : d = h.d BY <1>0
  <1>1. \E g \in Handlers : /\ conn' = [conn EXCEPT ![c] = g] /\ g.dev = h.dev
                            /\ g.pc \in {"open", "revoked"}
    <2>1. CASE conn' = Back(c)
      <3>1. conn' = [conn EXCEPT ![c] = Idle(h)] /\ Idle(h) \in Handlers
        BY <1>0, <2>1, BackIsIdle
      <3>2. Idle(h).dev = h.dev /\ Idle(h).pc = "open" BY <1>0 DEF Idle, Handlers
      <3> QED BY <3>1, <3>2
    <2>2. CASE conn' = [conn EXCEPT ![c].pc = "revoked"]
      <3> DEFINE g == [h EXCEPT !.pc = "revoked"]
      <3>1. g \in Handlers /\ g.dev = h.dev /\ g.pc = "revoked" BY <1>0 DEF Handlers, ConnPcs
      <3>2. conn' = [conn EXCEPT ![c] = g] BY <2>2
      <3> QED BY <3>1, <3>2
    <2> QED BY <2>1, <2>2 DEF RevokeSwap, RevokeFails
  <1>2. PICK g \in Handlers : /\ conn' = [conn EXCEPT ![c] = g] /\ g.dev = h.dev
                              /\ g.pc \in {"open", "revoked"}
    BY <1>1
  <1>3. OpenOK' BY <1>0 DEF OpenOK
  <1>4. CASE dev' = dev
    BY <1>0, <1>2, <1>3, <1>4, NoneClosed, HandlerSeen
  <1>5. CASE /\ dev[d].state = h.seen /\ dev[d].state # "revoked"
             /\ dev' = [dev EXCEPT ![d].state = "revoked"]
    <2>1. \A e \in Devices : /\ dev'[e].from = dev[e].from
                             /\ dev'[e].state = IF e = d THEN "revoked" ELSE dev[e].state
      BY <1>0, <1>5 DEF DeviceRows
    <2>2. LinksOK' /\ LinksSeen
      <3>1. \A e \in Devices : dev'[e].state \in {"stale", "revoked"} => e \in told
        BY <1>0, <2>1 DEF LinksOK
      <3> HIDE DEF h
      <3> QED BY <1>0, <1>2, <3>1, LinksStay DEF h
    <2>3. dev[d].state \in {"active", "stale"}
      <3>1. dev[d].state \in DeviceStates BY <1>0 DEF DeviceRows
      <3>2. dev[d].state \notin {"none", "expired"} BY <1>0, <1>5 DEF HandlerOK, LinksOK
      <3> QED BY <1>5, <3>1, <3>2 DEF DeviceStates
    <2>4. Ledger!Move(d, {"active", "stale"}, "revoked")
      BY <1>0, <2>1, <2>2, <2>3, DeviceMoves
    <2>5. Ledger!Revoke(d) BY <1>0, <2>4 DEF Ledger!Revoke
    <2>6. Ledger!Next BY <2>5 DEF Ledger!Next
    <2> QED BY <1>3, <2>2, <2>6 DEF Seen
  <1>6. CASE dev[d].state = "revoked" /\ dev' = [dev EXCEPT ![d].state = "revoked"]
    <2>1. dev[d] = [dev[d] EXCEPT !.state = "revoked"] BY <1>0, <1>6 DEF DeviceRows
    <2>2. dev' = dev BY <1>0, <1>6, <2>1
    <2> QED BY <1>4, <2>2
  <1> QED BY <1>4, <1>5, <1>6 DEF RevokeSwap, RevokeFails

\* The revocation is reported when nobody is linked to the device.
LEMMA UnpairSeen ==
  ASSUME Inv, LinksOK, OpenOK, NEW c \in Conns, Unpair(c) PROVE Seen
  <1> USE Parts
  <1> DEFINE h == conn[c]
  <1>0. /\ TypeInv /\ h \in Handlers /\ HandlerOK(h, chal, dev, told) /\ h.pc = "revoked"
        /\ UNCHANGED <<chal, active, dev, told>> /\ answered' = answered \cup {h.d}
    BY DEF Inv, HandlersOK, Unpair
  <1>1. PICK d \in Devices : d = h.d /\ dev[d].state = "revoked"
    BY <1>0 DEF Shaped, HandlerOK
  <1>2. \A e \in Conns : Back(c)[e] = IF e = c THEN Idle(h) ELSE conn[e] BY <1>0, BackIsIdle
  <1>3. /\ \A e \in Conns : conn[e] \in Handlers
        /\ Idle(h) \in Handlers /\ Idle(h).dev = h.dev /\ Idle(h).pc = "open"
    BY <1>0, BackIsIdle DEF Idle, Handlers
  <1>4. \A e \in Conns : conn'[e] = IF conn[e].dev = d
                            THEN [Back(c)[e] EXCEPT !.paired = FALSE, !.dev = NoDevice]
                            ELSE Back(c)[e]
    BY <1>1 DEF Unpair
  <1>5. \A e \in Conns :
           /\ conn'[e].dev = (IF conn[e].dev = d THEN NoDevice ELSE conn[e].dev)
           /\ conn'[e].pc = (IF e = c THEN "open" ELSE conn[e].pc)
           /\ e # c => conn'[e].d = conn[e].d /\ conn'[e].seen = conn[e].seen
    <2> TAKE e \in Conns
    <2> DEFINE b == IF e = c THEN Idle(h) ELSE conn[e]
    <2>1. /\ b \in Handlers /\ b.dev = conn[e].dev
          /\ b.pc = (IF e = c THEN "open" ELSE conn[e].pc)
          /\ e # c => b.d = conn[e].d /\ b.seen = conn[e].seen
      BY <1>3
    <2>2. conn'[e] = IF conn[e].dev = d THEN [b EXCEPT !.paired = FALSE, !.dev = NoDevice]
                     ELSE b
      BY <1>2, <1>4
    <2> HIDE DEF b, h
    <2> QED BY <2>1, <2>2 DEF Handlers
  <1> HIDE DEF h
  <1>6. \A e \in Conns : conn[e].pc = "stale" => conn[e].d \in Devices BY <1>0 DEF Shaped
  <1>7. LinksOK' BY <1>0, <1>5, <1>6, PairingNames DEF LinksOK, PairingNames
  <1>8. OpenOK' BY <1>0 DEF OpenOK
  <1>9. Ledger!Report(d)
    <2>1. [e \in Conns |-> conn'[e].dev] =
             [e \in Conns |-> IF [a \in Conns |-> conn[a].dev][e] = d THEN NoDevice
                              ELSE [a \in Conns |-> conn[a].dev][e]]
      BY <1>5
    <2>2. [e \in Devices |-> dev[e].state][d] = "revoked" BY <1>1
    <2>3. UNCHANGED Ledger!pairing /\ UNCHANGED Ledger!sessions
      BY <1>0, Views, NoneClosed DEF DevicesSeen
    <2>4. told' = told /\ answered' = answered \cup {d} BY <1>0, <1>1
    <2> QED BY <2>1, <2>2, <2>3, <2>4, Zenon DEF Ledger!Report
  <1>10. Ledger!Next BY <1>9 DEF Ledger!Next
  <1> QED BY <1>7, <1>8, <1>10 DEF Seen

\* A connection is lost: its link goes at once, its device afterwards.
LEMMA DisconnectSeen ==
  ASSUME Inv, LinksOK, OpenOK, NEW c \in Conns, Disconnect(c) PROVE Seen
  <1> USE Parts
  <1> DEFINE h == conn[c]
             g == [h EXCEPT !.paired = FALSE, !.d = h.dev, !.dev = NoDevice,
                            !.pc = IF h.dev = NoDevice THEN "drop" ELSE "stale"]
  <1>0. /\ TypeInv /\ h \in Handlers /\ UNCHANGED <<chal, active, dev, told, answered>>
    BY DEF Inv, Disconnect
  <1>1. /\ g \in Handlers /\ g.dev = NoDevice /\ g.d = h.dev
        /\ g.pc = IF h.dev = NoDevice THEN "drop" ELSE "stale"
    BY <1>0 DEF Handlers, ConnPcs
  <1>2. conn' = [conn EXCEPT ![c] = g] BY DEF Disconnect
  <1> HIDE DEF g
  <1>3. LinksOK'
    <2>1. \A d \in Devices : dev'[d].state \in {"stale", "revoked"} => d \in told
      BY <1>0 DEF LinksOK
    <2>2. h.dev # NoDevice =>
             h.dev \in told /\ \A e \in Conns : e # c => conn[e].dev # h.dev
      BY DEF LinksOK
    <2> HIDE DEF h
    <2> QED BY <1>0, <1>1, <1>2, <2>1, <2>2, LinksStay DEF h
  <1>4. OpenOK' BY <1>0 DEF OpenOK
  <1>5. Ledger!Leave(c)
    <2>1. \A e \in Conns : conn'[e] = IF e = c THEN g ELSE conn[e] BY <1>0, <1>2
    <2>2. [e \in Conns |-> conn'[e].dev] = [[e \in Conns |-> conn[e].dev] EXCEPT ![c] = NoDevice]
      BY <1>1, <2>1
    <2>3. UNCHANGED Ledger!pairing /\ UNCHANGED Ledger!sessions
      BY <1>0, Views, NoneClosed DEF DevicesSeen
    <2>4. told' = told /\ answered' = answered BY <1>0
    <2> QED BY <2>2, <2>3, <2>4, Zenon DEF Ledger!Leave
  <1>6. Ledger!Next BY <1>5 DEF Ledger!Next
  <1> QED BY <1>3, <1>4, <1>6 DEF Seen

\* Its device is looked up, and parked if nothing else happened to it.
LEMMA StaleSeen ==
  ASSUME Inv, LinksOK, OpenOK, NEW c \in Conns,
         StaleRead(c) \/ StaleSwap(c) \/ StaleFails(c)
  PROVE  Seen
  <1> USE Parts
  <1> DEFINE h == conn[c]
  <1>0. /\ TypeInv /\ h \in Handlers /\ Shaped(h) /\ h.pc = "stale" /\ h.dev = NoDevice
        /\ h.d \in told /\ \A e \in Conns : conn[e].dev # h.d
        /\ UNCHANGED <<chal, active, told, answered>>
    BY DEF Inv, StaleRead, StaleSwap, StaleFails, LinksOK
  <1>1. PICK d \in Devices : d = h.d BY <1>0 DEF Shaped
  <1>2. OpenOK' BY <1>0 DEF OpenOK
  <1>3. d # NoDevice BY PairingNames DEF PairingNames
  <1>4. CASE StaleRead(c)
    <2> DEFINE g == [h EXCEPT !.seen = dev[d].state]
    <2>1. dev[d].state \in DeviceStates BY <1>0 DEF DeviceRows
    <2>2. g \in Handlers /\ g.dev = h.dev /\ g.pc = "stale" /\ g.d = d
      BY <1>0, <1>1, <2>1 DEF Handlers
    <2>3. conn' = [conn EXCEPT ![c] = g] /\ dev' = dev BY <1>1, <1>4 DEF StaleRead
    <2>4. \A e \in Devices : dev'[e].state \in {"stale", "revoked"} => e \in told
      BY <2>3 DEF LinksOK
    <2> HIDE DEF g, h
    <2>5. LinksOK' /\ LinksSeen BY <1>0, <1>1, <1>3, <2>2, <2>3, <2>4, LinksStay DEF h
    <2> QED BY <1>0, <1>2, <2>3, <2>5, NoneClosed, Unseen DEF Seen, DevicesSeen
  <1>5. CASE StaleSwap(c) \/ StaleFails(c)
    <2> DEFINE g == [h EXCEPT !.pc = "drop"]
    <2>1. g \in Handlers /\ g.dev = h.dev /\ g.pc = "drop" BY <1>0 DEF Handlers, ConnPcs
    <2>2. conn' = [conn EXCEPT ![c] = g] BY <1>5 DEF StaleSwap, StaleFails, Go
    <2>3. CASE dev' = dev
      <3>1. \A e \in Devices : dev'[e].state \in {"stale", "revoked"} => e \in told
        BY <2>3 DEF LinksOK
      <3> HIDE DEF g, h
      <3>2. LinksOK' /\ LinksSeen BY <1>0, <2>1, <2>2, <3>1, LinksStay DEF h
      <3> QED BY <1>0, <1>2, <2>3, <3>2, NoneClosed, Unseen DEF Seen, DevicesSeen
    <2>4. CASE dev[d].state = "active" /\ dev' = [dev EXCEPT ![d].state = "stale"]
      <3>1. \A e \in Devices : /\ dev'[e].from = dev[e].from
                               /\ dev'[e].state = IF e = d THEN "stale" ELSE dev[e].state
        BY <1>0, <2>4 DEF DeviceRows
      <3>2. \A e \in Devices : dev'[e].state \in {"stale", "revoked"} => e \in told
        BY <1>0, <1>1, <3>1 DEF LinksOK
      <3> HIDE DEF g, h
      <3>3. LinksOK' /\ LinksSeen BY <1>0, <2>1, <2>2, <3>2, LinksStay DEF h
      <3>4. Ledger!Move(d, {"active"}, "stale") BY <1>0, <2>4, <3>1, <3>3, DeviceMoves
      <3>5. Ledger!Park(d)
        <4>1. \A e \in Conns : [a \in Conns |-> conn[a].dev][e] # d BY <1>0, <1>1
        <4> QED BY <3>4, <4>1 DEF Ledger!Park
      <3>6. Ledger!Next BY <3>5 DEF Ledger!Next
      <3> QED BY <1>2, <3>3, <3>6 DEF Seen
    <2> QED BY <1>1, <1>5, <2>3, <2>4 DEF StaleSwap, StaleFails
  <1> QED BY <1>4, <1>5

\* The end of the clean-up: the challenge of the connection is withdrawn.
LEMMA DropSeen ==
  ASSUME Inv, LinksOK, OpenOK, NEW c \in Conns, DropChallenge(c) PROVE Seen
  <1> USE Parts
  <1> DEFINE h == conn[c]
  <1>0. /\ TypeInv /\ h \in Handlers /\ h.dev = NoDevice /\ UNCHANGED <<dev, told, answered>>
        /\ conn' = [conn EXCEPT ![c] = Closed]
    BY DEF Inv, DropChallenge, LinksOK
  <1>1. OpenOK' /\ ClosesOnly
    <2>1. CASE h.chal # NoChallenge
      BY <1>0, <2>1, WithdrawSeen DEF DropChallenge, Handlers
    <2>2. CASE h.chal = NoChallenge
      BY <2>2, NoneClosed DEF DropChallenge, OpenOK
    <2> QED BY <2>1, <2>2
  <1>2. Closed \in Handlers /\ Closed.pc = "closed" /\ Closed.dev = NoDevice
    BY DEF Closed, Handlers, ConnPcs, DeviceStates
  <1>3. LinksOK' /\ LinksSeen
    <2>1. \A d \in Devices : dev'[d].state \in {"stale", "revoked"} => d \in told
      BY <1>0 DEF LinksOK
    <2> QED BY <1>0, <1>2, <2>1, LinksStay
  <1> QED BY <1>0, <1>1, <1>3, Closes DEF Seen, DevicesSeen

\* The clock and the sweeper.
LEMMA SweepSeen ==
  ASSUME Inv, LinksOK, OpenOK, Tick \/ ExpireChallenges \/ \E d \in Devices : ExpireDevice(d)
  PROVE  Seen
  <1> USE Parts
  <1>0. TypeInv /\ UNCHANGED <<conn, told, answered>> /\ LinksSeen
    BY DEF Inv, Tick, ExpireChallenges, ExpireDevice, LinksSeen
  <1>1. CASE Tick
    BY <1>0, <1>1, NoneClosed, Unseen DEF Tick, Seen, LinksOK, OpenOK, DevicesSeen
  <1>2. CASE ExpireChallenges
    <2> DEFINE due == {k \in Challenges : chal[k].state = "pending" /\ now >= chal[k].exp}
    <2>1. /\ dev' = dev
          /\ chal' = [k \in Challenges |-> IF k \in due
                        THEN [chal[k] EXCEPT !.state = "expired"] ELSE chal[k]]
          /\ active' = [r \in Requests |-> IF active[r] \in due THEN NoChallenge ELSE active[r]]
      BY <1>2 DEF ExpireChallenges
    <2>2. due \in SUBSET Challenges /\ \A k \in due : chal[k].state = "pending" OBVIOUS
    <2> HIDE DEF due
    <2>3. \A k \in Challenges : /\ chal'[k].req = chal[k].req
                                /\ chal'[k].state = IF k \in due THEN "expired" ELSE chal[k].state
      BY <1>0, <2>1 DEF ChallengeRows
    <2>4. OpenOK' BY <1>0, <2>1, <2>3 DEF OpenOK
    <2>5. \A k \in Challenges : OwnersView(chal'[k].state) =
             IF k \in due THEN "over" ELSE OwnersView(chal[k].state)
      BY <2>3 DEF OwnersView
    <2>6. ClosesOnly BY <2>2, <2>3, <2>5 DEF ClosesOnly
    <2> QED BY <1>0, <2>1, <2>4, <2>6, Closes DEF Seen, LinksOK, DevicesSeen
  <1>3. ASSUME NEW d \in Devices, ExpireDevice(d) PROVE Seen
    <2>1. \A e \in Devices : /\ dev'[e].from = dev[e].from
                             /\ dev'[e].state = IF e = d THEN "expired" ELSE dev[e].state
      BY <1>0, <1>3 DEF ExpireDevice, DeviceRows
    <2>2. dev[d].state \in {"active", "stale"} /\ UNCHANGED <<chal, active>>
      BY <1>3 DEF ExpireDevice
    <2>3. Ledger!Move(d, {"active", "stale"}, "expired") BY <1>0, <2>1, <2>2, DeviceMoves
    <2>4. Ledger!Expire(d) BY <2>3 DEF Ledger!Expire
    <2>5. Ledger!Next BY <2>4 DEF Ledger!Next
    <2>6. LinksOK' /\ OpenOK' BY <1>0, <2>1, <2>2 DEF LinksOK, OpenOK
    <2> QED BY <2>5, <2>6 DEF Seen
  <1> QED BY <1>1, <1>2, <1>3

\* The process ends.
LEMMA RestartSeen ==
  ASSUME Inv, LinksOK, OpenOK, Restart PROVE Seen
  <1> USE Parts
  <1>0. TypeInv /\ UNCHANGED <<dev, told, answered>> BY DEF Inv, Restart
  <1>1. Closed.pc = "closed" /\ Closed.dev = NoDevice BY DEF Closed
  <1>2. \A c \in Conns : conn'[c] = IF conn[c].pc = "new" THEN conn[c] ELSE Closed
    BY DEF Restart
  <1>3. \A c \in Conns : conn'[c].dev = NoDevice /\ conn'[c].pc \in {"new", "closed"}
    BY <1>1, <1>2 DEF LinksOK
  <1>4. LinksOK' BY <1>0, <1>3, PairingNames DEF LinksOK, PairingNames
  <1>5. \A k \in Challenges : /\ chal'[k].req = chal[k].req
                              /\ chal'[k].state = IF chal[k].state = "pending" THEN "lost"
                                                  ELSE chal[k].state
    BY <1>0 DEF Restart, ChallengeRows
  <1>6. OpenOK' BY <1>0, <1>5, PairingNames DEF Restart, OpenOK, PairingNames
  <1>7. Ledger!Stop
    <2>1. \A k \in Challenges : OwnersView(chal'[k].state) =
             IF OwnersView(chal[k].state) = "open" THEN "over" ELSE OwnersView(chal[k].state)
      BY <1>5 DEF OwnersView
    <2>2. [k \in Challenges |-> OwnersView(chal'[k].state)] =
             [k \in Challenges |-> IF [i \in Challenges |-> OwnersView(chal[i].state)][k] = "open"
                THEN "over" ELSE [i \in Challenges |-> OwnersView(chal[i].state)][k]]
      BY <2>1
    <2>3. [k \in Challenges |-> chal'[k].req] = [k \in Challenges |-> chal[k].req] BY <1>5
    <2>4. [c \in Conns |-> conn'[c].dev] = [c \in Conns |-> NoDevice] BY <1>3
    <2>5. UNCHANGED Ledger!sessions BY <1>0, Views DEF DevicesSeen
    <2> QED BY <1>0, <2>2, <2>3, <2>4, <2>5, Zenon DEF Ledger!Stop
  <1>8. Ledger!Next BY <1>7 DEF Ledger!Next
  <1> QED BY <1>4, <1>6, <1>8 DEF Seen

LEMMA InitSeen ==
  ASSUME Init PROVE LinksOK /\ OpenOK /\ Ledger!Init
  <1>1. /\ \A c \in Conns : conn[c].pc = "new" /\ conn[c].dev = NoDevice
        /\ \A k \in Challenges : chal[k].state = "none" /\ chal[k].req = NoRequest
        /\ \A d \in Devices : dev[d].state = "none" /\ dev[d].from = NoChallenge
        /\ \A r \in Requests : active[r] = NoChallenge
        /\ told = {} /\ answered = {}
    BY DEF Init, Unconnected, Closed, NoChallengeRow, NoDeviceRow
  <1>2. LinksOK BY <1>1 DEF LinksOK
  <1>3. OpenOK BY <1>1 DEF OpenOK
  <1>4. Ledger!Init BY <1>1 DEF Ledger!Init, OwnersView
  <1> QED BY <1>2, <1>3, <1>4

LEMMA NextSeen ==
  ASSUME Inv, LinksOK, OpenOK, [Next]_pairingVars PROVE Seen
  <1>1. CASE UNCHANGED pairingVars
    <2>1. LinksOK' /\ OpenOK' BY <1>1 DEF pairingVars, LinksOK, OpenOK
    <2>2. UNCHANGED Ledger!ledgerVars
      BY <1>1, NoneClosed, Unseen DEF pairingVars, DevicesSeen, LinksSeen
    <2> QED BY <2>1, <2>2 DEF Seen
  <1>2. ASSUME NEW c \in Conns, Serve(c) PROVE Seen
    BY <1>2, PrepareSeen, ConfirmSeen, RequestsSeen, IssueSeen, ConfirmedSeen, RevokeSeen,
       UnpairSeen, DisconnectSeen, StaleSeen, DropSeen DEF Serve
  <1> QED BY <1>1, <1>2, SweepSeen, RestartSeen DEF Next

\* Whatever clients, the owner, clean-ups, the sweeper and a stop of the process do to the
\* two stores and the server's maps, in whatever order, is to the owner a step of
\* PairingLedger or none: a request has one open challenge, an answered challenge yields
\* one device, a device is linked to one connection once and becomes stale only when
\* nobody is paired through it, and a revocation is reported when nobody is.
THEOREM Refines == Spec => ImplementsLedger
  <1>1. Init => LinksOK /\ OpenOK /\ Ledger!Init BY InitSeen
  <1>2. Inv /\ LinksOK /\ OpenOK /\ [Next]_pairingVars =>
           LinksOK' /\ OpenOK' /\ [Ledger!Next]_(Ledger!ledgerVars)
    BY NextSeen DEF Seen
  <1> QED BY <1>1, <1>2, InvHolds, PTL DEF Spec, ImplementsLedger, Ledger!Spec

-----------------------------------------------------------------------------
(* What is active is held.                                                 *)

\* Every connection that holds an active device still does so, or the device is left.
LEMMA HeldStays ==
  ASSUME Inv, ActiveIsHeld, told' \ left' \subseteq told \ left,
         \A d \in told : dev'[d].state = "active" => dev[d].state = "active",
         \A c \in Conns : \A d \in told' \ left' :
            dev'[d].state = "active" /\ Holds(conn[c], d) => Holds(conn'[c], d)
  PROVE  ActiveIsHeld'
  <1> SUFFICES ASSUME NEW d \in told' \ left', dev'[d].state = "active"
               PROVE  \E c \in Conns : Holds(conn'[c], d)
    BY DEF ActiveIsHeld, Holds
  <1>1. d \in told \ left /\ dev[d].state = "active" OBVIOUS
  <1>2. PICK c \in Conns : Holds(conn[c], d) BY <1>1 DEF ActiveIsHeld
  <1> QED BY <1>2

\* A step that leaves clean-ups and the devices of the connections alone.
LEMMA HeldByOthers ==
  ASSUME Inv, ActiveIsHeld, UNCHANGED <<told, left>>,
         \A e \in Conns : /\ conn'[e].dev = conn[e].dev
                          /\ conn[e].pc = "stale" => conn'[e] = conn[e],
         \A d \in told : dev'[d].state = "active" => dev[d].state = "active"
  PROVE  ActiveIsHeld'
  <1>1. \A e \in Conns : \A d \in told : Holds(conn[e], d) => Holds(conn'[e], d) BY DEF Holds
  <1> QED BY <1>1, HeldStays

\* Requests and revocations do.
LEMMA HeldByRequests ==
  ASSUME Inv, ActiveIsHeld, NEW c \in Conns,
         \/ Connect(c) \/ \E r \in Requests : Prepare(c, r)
         \/ \E k \in Challenges : CancelChallenge(c, k) \/ \E ok \in BOOLEAN : Confirm(c, k, ok)
         \/ \E ok \in BOOLEAN : LegacyPair(c, ok)
         \/ \E d \in Devices : RevokeRead(c, d)
         \/ Issue(c) \/ RevokeSwap(c) \/ RevokeFails(c)
  PROVE  ActiveIsHeld'
  <1> USE Parts
  <1>0. conn \in [Conns -> Handlers] /\ TypeInv /\ dev \in [Devices -> DeviceRows]
        /\ told \subseteq Devices
    BY DEF Inv
  <1>1. ASSUME UNCHANGED <<told, left>>, conn[c].pc # "stale",
               \E h \in Handlers : conn' = [conn EXCEPT ![c] = h] /\ h.dev = conn[c].dev,
               \A d \in told : dev'[d].state = "active" => dev[d].state = "active"
        PROVE  ActiveIsHeld'
    BY <1>0, <1>1, HeldByOthers
  <1>2. Back(c) = [conn EXCEPT ![c] = Idle(conn[c])] /\ Idle(conn[c]) \in Handlers
        /\ Idle(conn[c]).dev = conn[c].dev
    BY <1>0, BackIsIdle DEF Idle, Handlers
  <1>3. CASE Connect(c)
    <2>1. [conn[c] EXCEPT !.pc = "open"] \in Handlers BY <1>0 DEF Handlers, ConnPcs
    <2> QED BY <1>0, <1>1, <1>3, <2>1 DEF Connect, Go, Handlers
  <1>4. ASSUME NEW r \in Requests, Prepare(c, r) PROVE ActiveIsHeld'
    <2>1. PICK k \in Challenges \cup {NoChallenge} :
             conn' = [conn EXCEPT ![c] = [conn[c] EXCEPT !.chal = k]]
      BY <1>0, <1>4, Prepares
    <2>2. [conn[c] EXCEPT !.chal = k] \in Handlers BY <1>0 DEF Handlers
    <2> QED BY <1>0, <1>1, <1>4, <2>1, <2>2 DEF Prepare, Open, Handlers
  <1>5. ASSUME NEW k \in Challenges, CancelChallenge(c, k) PROVE ActiveIsHeld'
    <2>1. \A e \in Conns : conn'[e].dev = conn[e].dev
                           /\ (conn[e].pc = "stale" => conn'[e] = conn[e])
      BY <1>0, <1>5 DEF CancelChallenge, Open, Handlers
    <2> QED BY <1>5, <2>1, HeldByOthers DEF CancelChallenge
  <1>6. ASSUME NEW k \in Challenges, NEW ok \in BOOLEAN, Confirm(c, k, ok)
        PROVE  ActiveIsHeld'
    <2>1. conn[c].pc = "open" /\ UNCHANGED <<dev, told, left>> BY <1>6 DEF Confirm, Open
    <2>2. \A e \in Conns : conn'[e].dev = conn[e].dev
                           /\ (conn[e].pc = "stale" => conn'[e] = conn[e])
      <3>1. \/ conn' = conn
            \/ conn' = [conn EXCEPT ![c] = [conn[c] EXCEPT !.pc = "issue", !.k = k]]
        BY <1>0, <1>6, Confirms
      <3>2. CASE conn' = conn BY <3>2
      <3>3. CASE conn' = [conn EXCEPT ![c] = [conn[c] EXCEPT !.pc = "issue", !.k = k]]
        <4>1. [conn[c] EXCEPT !.pc = "issue", !.k = k].dev = conn[c].dev BY <1>0 DEF Handlers
        <4> QED BY <1>0, <2>1, <3>3, <4>1
      <3> QED BY <3>1, <3>2, <3>3
    <2> QED BY <2>1, <2>2, HeldByOthers
  <1>7. ASSUME NEW ok \in BOOLEAN, LegacyPair(c, ok) PROVE ActiveIsHeld'
    <2>1. conn[c].pc = "open" /\ UNCHANGED <<dev, told, left>> BY <1>7 DEF LegacyPair, Open
    <2>2. \A e \in Conns : conn'[e].dev = conn[e].dev
                           /\ (conn[e].pc = "stale" => conn'[e] = conn[e])
      BY <1>0, <1>7, <2>1 DEF LegacyPair, Handlers
    <2> QED BY <2>1, <2>2, HeldByOthers
  <1>8. ASSUME NEW d \in Devices, RevokeRead(c, d) PROVE ActiveIsHeld'
    <2>1. conn[c].pc = "open" /\ UNCHANGED <<dev, told, left>> BY <1>8 DEF RevokeRead, Open
    <2>2. \A e \in Conns : conn'[e].dev = conn[e].dev
                           /\ (conn[e].pc = "stale" => conn'[e] = conn[e])
      BY <1>0, <1>8, <2>1 DEF RevokeRead, Handlers
    <2> QED BY <2>1, <2>2, HeldByOthers
  <1>9. CASE Issue(c)
    <2>1. UNCHANGED <<told, left>> /\ conn[c].pc = "issue" BY <1>9 DEF Issue
    <2>2. \A d \in told : dev'[d].state = "active" => dev[d].state = "active"
      BY <1>0, <1>9 DEF Issue, Inv, HistoryOK
    <2>3. \A e \in Conns : conn'[e].dev = conn[e].dev
                           /\ (conn[e].pc = "stale" => conn'[e] = conn[e])
      <3>1. CASE conn' = Back(c) BY <1>0, <1>2, <2>1, <3>1
      <3>2. CASE \E d \in Devices : conn' = [conn EXCEPT ![c].pc = "confirmed", ![c].d = d]
        BY <1>0, <2>1, <3>2 DEF Handlers
      <3> QED BY <1>9, <3>1, <3>2 DEF Issue
    <2> QED BY <2>1, <2>2, <2>3, HeldByOthers
  <1>10. CASE RevokeSwap(c) \/ RevokeFails(c)
    <2>1. UNCHANGED <<told, left>> /\ conn[c].pc = "revoke"
      BY <1>10 DEF RevokeSwap, RevokeFails
    <2>2. \A d \in told : dev'[d].state = "active" => dev[d].state = "active"
      BY <1>0, <1>10 DEF RevokeSwap, RevokeFails, DeviceRows
    <2>3. \A e \in Conns : conn'[e].dev = conn[e].dev
                           /\ (conn[e].pc = "stale" => conn'[e] = conn[e])
      <3>1. CASE conn' = Back(c) BY <1>0, <1>2, <2>1, <3>1
      <3>2. CASE conn' = [conn EXCEPT ![c].pc = "revoked"]
        BY <1>0, <2>1, <3>2 DEF Handlers
      <3> QED BY <1>10, <3>1, <3>2 DEF RevokeSwap, RevokeFails
    <2> QED BY <2>1, <2>2, <2>3, HeldByOthers
  <1> QED BY <1>3, <1>4, <1>5, <1>6, <1>7, <1>8, <1>9, <1>10

\* A device gets its connection, or loses it to a revocation or to the clean-up, which
\* parks it, finds it not active or leaves it.
LEMMA HeldByLinks ==
  ASSUME Inv, LinksOK, ActiveIsHeld, NEW c \in Conns,
         \/ Confirmed(c) \/ Unpair(c) \/ Disconnect(c) \/ StaleRead(c) \/ StaleSwap(c)
         \/ StaleFails(c) \/ DropChallenge(c)
  PROVE  ActiveIsHeld'
  <1> USE Parts
  <1> DEFINE h == conn[c]
  <1>0. /\ conn \in [Conns -> Handlers] /\ TypeInv /\ dev \in [Devices -> DeviceRows]
        /\ told \subseteq Devices /\ HandlerOK(h, chal, dev, told) /\ Shaped(h)
        /\ NoDevice \notin told
    BY PairingNames DEF Inv, HandlersOK, PairingNames
  <1>1. CASE Confirmed(c)
    <2>1. /\ UNCHANGED dev /\ told' = told \cup {h.d} /\ h.pc = "confirmed"
          /\ left' = left \cup ({h.dev} \ {NoDevice})
      BY <1>1 DEF Confirmed
    <2>2. \A e \in Conns : conn'[e].dev = IF e = c THEN h.d ELSE conn[e].dev
      BY <1>0, <1>1, BackIsIdle DEF Confirmed, Idle, Handlers
    <2>3. \A e \in Conns : conn[e].pc = "stale" => conn'[e].pc = "stale" /\ conn'[e].d = conn[e].d
      BY <1>0, <1>1, <2>1, BackIsIdle DEF Confirmed, Handlers
    <2> HIDE DEF h
    <2> SUFFICES ASSUME NEW d \in told' \ left', dev'[d].state = "active"
                 PROVE  \E e \in Conns : Holds(conn'[e], d)
      BY DEF ActiveIsHeld, Holds
    <2>4. CASE d = h.d BY <2>2, <2>4 DEF Holds
    <2>5. CASE d # h.d
      <3>1. d \in told \ left /\ dev[d].state = "active" /\ d # h.dev
        BY <1>0, <2>1, <2>5
      <3>2. PICK e \in Conns : Holds(conn[e], d) BY <3>1 DEF ActiveIsHeld
      <3>3. Holds(conn'[e], d) BY <2>1, <2>2, <2>3, <3>1, <3>2 DEF Holds, h
      <3> QED BY <3>3
    <2> QED BY <2>4, <2>5
  <1>2. CASE Unpair(c)
    <2>1. UNCHANGED <<dev, told, left>> /\ h.pc = "revoked" /\ dev[h.d].state = "revoked"
      BY <1>0, <1>2 DEF Unpair, HandlerOK
    <2> DEFINE base(e) == IF e = c THEN Idle(h) ELSE conn[e]
    <2>2. \A e \in Conns : /\ Back(c)[e] = base(e) /\ base(e) \in Handlers
                           /\ base(e).dev = conn[e].dev
                           /\ conn[e].pc = "stale" => base(e) = conn[e]
      <3>1. Back(c) = [conn EXCEPT ![c] = Idle(h)] /\ Idle(h) \in Handlers
        BY <1>0, BackIsIdle
      <3>2. Idle(h).dev = h.dev BY <1>0 DEF Idle, Handlers
      <3> QED BY <1>0, <2>1, <3>1, <3>2
    <2> HIDE DEF base
    <2>3. \A e \in Conns :
             /\ conn[e].dev # h.d => conn'[e].dev = conn[e].dev
             /\ conn[e].pc = "stale" => conn'[e].pc = "stale" /\ conn'[e].d = conn[e].d
      <3> SUFFICES ASSUME NEW e \in Conns
                   PROVE  /\ conn[e].dev # h.d => conn'[e].dev = conn[e].dev
                          /\ conn[e].pc = "stale" => conn'[e].pc = "stale"
                                                     /\ conn'[e].d = conn[e].d
        OBVIOUS
      <3>1. conn'[e] = IF conn[e].dev = h.d
                       THEN [base(e) EXCEPT !.paired = FALSE, !.dev = NoDevice] ELSE base(e)
        BY <1>2, <2>2 DEF Unpair
      <3> QED BY <2>2, <3>1 DEF Handlers
    <2> HIDE DEF h
    <2>4. \A e \in Conns : \A d \in told :
             dev[d].state = "active" /\ Holds(conn[e], d) => Holds(conn'[e], d)
      BY <2>1, <2>3 DEF Holds
    <2> QED BY <2>1, <2>4, HeldStays
  <1>3. CASE Disconnect(c)
    <2> DEFINE g == [h EXCEPT !.paired = FALSE, !.d = h.dev, !.dev = NoDevice,
                              !.pc = IF h.dev = NoDevice THEN "drop" ELSE "stale"]
    <2>1. UNCHANGED <<dev, told, left>> /\ conn' = [conn EXCEPT ![c] = g] /\ h.pc = "open"
      BY <1>3 DEF Disconnect, Open
    <2>2. g.d = h.dev /\ (h.dev # NoDevice => g.pc = "stale") BY <1>0 DEF Handlers
    <2>3. \A e \in Conns : conn'[e] = IF e = c THEN g ELSE conn[e] BY <1>0, <2>1
    <2> HIDE DEF g
    <2>4. \A e \in Conns : \A d \in told : Holds(conn[e], d) => Holds(conn'[e], d)
      BY <1>0, <2>1, <2>2, <2>3 DEF Holds
    <2> QED BY <2>1, <2>4, HeldStays
  <1>4. CASE StaleRead(c)
    <2>1. /\ UNCHANGED <<dev, told, left>>
          /\ conn' = [conn EXCEPT ![c] = [h EXCEPT !.seen = dev[h.d].state]]
      BY <1>4 DEF StaleRead
    <2>2. \A e \in Conns : /\ conn'[e].dev = conn[e].dev /\ conn'[e].pc = conn[e].pc
                           /\ conn'[e].d = conn[e].d
      BY <1>0, <2>1 DEF Handlers
    <2>3. \A e \in Conns : \A d \in told : Holds(conn[e], d) => Holds(conn'[e], d)
      BY <2>2 DEF Holds
    <2> QED BY <2>1, <2>3, HeldStays
  <1>5. CASE StaleSwap(c) \/ StaleFails(c)
    <2>1. /\ told' = told /\ left \subseteq left' /\ h.pc = "stale" /\ h.d \in Devices
          /\ conn' = [conn EXCEPT ![c] = [h EXCEPT !.pc = "drop"]]
      BY <1>0, <1>5 DEF StaleSwap, StaleFails, Go, Shaped
    <2>2. \A e \in Conns : /\ conn'[e].dev = conn[e].dev
                           /\ e # c => conn'[e] = conn[e]
      BY <1>0, <2>1 DEF Handlers
    <2>3. \A d \in told : dev'[d].state = "active" => dev[d].state = "active"
      BY <1>0, <1>5 DEF StaleSwap, StaleFails, DeviceRows
    <2>4. h.d \in left' \/ dev'[h.d].state # "active"
      <3>1. CASE StaleFails(c) BY <3>1 DEF StaleFails
      <3>2. CASE StaleSwap(c)
        <4>1. CASE h.seen = "active" /\ dev[h.d].state = "active"
          BY <1>0, <2>1, <3>2, <4>1 DEF StaleSwap, DeviceRows
        <4>2. CASE ~(h.seen = "active" /\ dev[h.d].state = "active")
          BY <1>0, <2>1, <3>2, <4>2 DEF StaleSwap, HandlerOK
        <4> QED BY <4>1, <4>2
      <3> QED BY <1>5, <3>1, <3>2
    <2>5. \A e \in Conns : \A d \in told' \ left' :
             dev'[d].state = "active" /\ Holds(conn[e], d) => Holds(conn'[e], d)
      BY <2>2, <2>4 DEF Holds
    <2> QED BY <2>1, <2>3, <2>5, HeldStays
  <1>6. CASE DropChallenge(c)
    <2>1. /\ UNCHANGED <<dev, told, left>> /\ h.pc = "drop" /\ h.dev = NoDevice
          /\ conn' = [conn EXCEPT ![c] = Closed]
      BY <1>6 DEF DropChallenge, LinksOK
    <2>2. \A e \in Conns : e # c => conn'[e] = conn[e] BY <1>0, <2>1
    <2>3. \A e \in Conns : \A d \in told : Holds(conn[e], d) => Holds(conn'[e], d)
      BY <1>0, <2>1, <2>2 DEF Holds
    <2> QED BY <2>1, <2>3, HeldStays
  <1> QED BY <1>1, <1>2, <1>3, <1>4, <1>5, <1>6

LEMMA HeldNext ==
  ASSUME Inv, LinksOK, ActiveIsHeld, [Next]_pairingVars PROVE ActiveIsHeld'
  <1> USE Parts
  <1>0. dev \in [Devices -> DeviceRows] /\ told \subseteq Devices BY DEF Inv
  <1>1. CASE UNCHANGED pairingVars BY <1>1 DEF pairingVars, ActiveIsHeld, Holds
  <1>2. ASSUME NEW c \in Conns, Serve(c) PROVE ActiveIsHeld'
    BY <1>2, HeldByRequests, HeldByLinks DEF Serve
  <1>3. CASE Tick \/ ExpireChallenges \/ \E d \in Devices : ExpireDevice(d)
    <2>1. UNCHANGED <<conn, told, left>> BY <1>3 DEF Tick, ExpireChallenges, ExpireDevice
    <2>2. \A d \in told : dev'[d].state = "active" => dev[d].state = "active"
      BY <1>0, <1>3 DEF Tick, ExpireChallenges, ExpireDevice, DeviceRows
    <2> QED BY <2>1, <2>2, HeldByOthers
  <1>4. CASE Restart BY <1>4 DEF Restart, ActiveIsHeld
  <1> QED BY <1>1, <1>2, <1>3, <1>4 DEF Next

\* A device whose client knows it is active only while a connection is paired through it
\* or is being cleaned up, unless it was left by a failing store, a second pairing or a
\* stop of the process (ActiveIsHeld): no swap the clean-up loses leaves one active.
THEOREM CleanUpHolds == Spec => []ActiveIsHeld
  <1>1. Init => LinksOK /\ OpenOK BY InitSeen
  <1>2. Init => ActiveIsHeld BY DEF Init, ActiveIsHeld
  <1>3. Inv /\ LinksOK /\ OpenOK /\ ActiveIsHeld /\ [Next]_pairingVars =>
           (LinksOK /\ OpenOK /\ ActiveIsHeld)'
    BY NextSeen, HeldNext DEF Seen
  <1> QED BY <1>1, <1>2, <1>3, InvHolds, PTL DEF Spec
=============================================================================
