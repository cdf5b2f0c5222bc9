--------------------------- MODULE DevicePairing ---------------------------
(***************************************************************************)
(* Pairing of a device with a connection (core/pairing and its handlers in *)
(* core/server.py).                                                        *)
(*                                                                         *)
(* Challenges live in memory under a lock, device sessions in SQLite, and  *)
(* what a connection is paired through in maps of the server.  A handler   *)
(* calls the stores in a thread and then brings the maps up to date; other *)
(* connections, their clean-up and the sweeper run in between.             *)
(***************************************************************************)
EXTENDS Naturals, FiniteSets

CONSTANTS
    Conns, Local,            \* connections, and those from the machine itself
    Requests,                \* request ids, chosen by the clients
    Challenges, Devices,     \* generated ids
    NoChallenge, NoDevice, NoRequest,
    MaxTries,                \* MAX_CONFIRMATION_ATTEMPTS, MAX_PAIRING_ATTEMPTS
    ChallengeTTL, DeviceTTL, Window,
    MaxTime                  \* bound: the clock

ASSUME PairingNames ==
    /\ Local \subseteq Conns
    /\ NoChallenge \notin Challenges /\ NoDevice \notin Devices /\ NoRequest \notin Requests
ASSUME PairingBounds ==
    /\ MaxTries \in Nat \ {0} /\ ChallengeTTL \in Nat /\ DeviceTTL \in Nat
    /\ Window \in Nat /\ MaxTime \in Nat

VARIABLES
    now,
    conn,      \* per connection: the server's maps and the handler's place
    chal,      \* PairingChallengeStore._by_challenge_id; "at": history, when it was answered
    active,    \* PairingChallengeStore._active_request_id
    dev,       \* device_sessions
    guess,     \* _pair_attempts of the one source address
    told,      \* history: devices whose confirmation was sent
    answered,  \* history: devices whose revocation was answered with success
    left       \* history: devices left without a connection that could park them: its
               \* clean-up met a failing store, it paired again, or the process stopped

pairingVars == <<now, conn, chal, active, dev, guess, told, answered, left>>

Closed == [pc |-> "closed", paired |-> FALSE, chal |-> NoChallenge, dev |-> NoDevice,
           k |-> NoChallenge, d |-> NoDevice, seen |-> "none"]
Unconnected == [Closed EXCEPT !.pc = "new"]
NoChallengeRow == [state |-> "none", req |-> NoRequest, tries |-> 0, exp |-> 0, at |-> 0]
NoDeviceRow == [state |-> "none", from |-> NoChallenge, exp |-> 0]

Open(c) == conn[c].pc = "open"
Go(c, pc) == conn' = [conn EXCEPT ![c].pc = pc]
Back(c) == [conn EXCEPT ![c].pc = "open", ![c].k = NoChallenge, ![c].d = NoDevice,
                        ![c].seen = "none"]

-----------------------------------------------------------------------------
(* Challenges.                                                             *)

\* Mutant: a challenge is answered until it is used.
MutAnswerable(k) == chal[k].state \notin {"none", "consumed"}

Answerable(k) == chal[k].state = "pending" /\ now < chal[k].exp

\* _expire_if_due_locked
Lapse(k) == chal' = [chal EXCEPT ![k].state =
                        IF @ = "pending" /\ now >= chal[k].exp THEN "expired" ELSE @]

Connect(c) ==
    /\ conn[c].pc = "new"
    /\ Go(c, "open")
    /\ UNCHANGED <<now, chal, active, dev, guess, told, answered, left>>

\* Mutant: a challenge that was guessed at is not shown again.
MutHas(r) ==
    active[r] # NoChallenge /\ Answerable(active[r]) /\ chal[active[r]].tries = 0

Has(r) == active[r] # NoChallenge /\ Answerable(active[r])

\* pairing_prepare: a connection keeps to the request of its challenge.  The
\* request's own challenge is answered again; a new one is shown on the machine,
\* and withdrawn if it cannot be.
Prepare(c, r) ==
    /\ Open(c)
    /\ conn[c].chal # NoChallenge => chal[conn[c].chal].req = r
    /\ \/ /\ Has(r)
          /\ conn' = [conn EXCEPT ![c].chal = active[r]]
          /\ UNCHANGED <<chal, active>>
       \/ /\ ~Has(r)
          /\ \E k \in Challenges, shown \in BOOLEAN :
                /\ chal[k].state = "none"
                /\ chal' = [j \in Challenges |->
                      IF j = k THEN [state |-> IF shown THEN "pending" ELSE "cancelled",
                                     req |-> r, tries |-> 0, exp |-> now + ChallengeTTL, at |-> 0]
                      ELSE IF j = active[r] /\ chal[j].state = "pending" /\ now >= chal[j].exp
                      THEN [chal[j] EXCEPT !.state = "expired"] ELSE chal[j]]
                /\ active' = [active EXCEPT ![r] = IF shown THEN k ELSE NoChallenge]
                /\ conn' = IF shown THEN [conn EXCEPT ![c].chal = k] ELSE conn
    /\ UNCHANGED <<now, dev, guess, told, answered, left>>

\* pairing_confirm in the challenge store: whoever knows the ids may answer.
Confirm(c, k, right) ==
    LET locks == chal[k].tries + 1 >= MaxTries
    IN  /\ Open(c) /\ chal[k].state \notin {"none", "lost"}
        /\ \/ /\ Answerable(k) /\ right
              /\ chal' = [chal EXCEPT ![k].state = "consumed", ![k].at = now]
              /\ active' = [active EXCEPT ![chal[k].req] = NoChallenge]
              /\ conn' = [conn EXCEPT ![c].pc = "issue", ![c].k = k]
           \/ /\ Answerable(k) /\ ~right
              /\ chal' = [chal EXCEPT ![k].tries = @ + 1,
                                      ![k].state = IF locks THEN "locked" ELSE @]
              /\ active' = IF locks THEN [active EXCEPT ![chal[k].req] = NoChallenge]
                           ELSE active
              /\ UNCHANGED conn
           \/ /\ ~Answerable(k)
              /\ Lapse(k)
              /\ UNCHANGED <<active, conn>>
        /\ UNCHANGED <<now, dev, guess, told, answered, left>>

\* device_store.issue: one device for a challenge; when the insertion fails the
\* challenge is spent all the same.
Issue(c) ==
    /\ conn[c].pc = "issue"
    /\ \/ \E d \in Devices :
             /\ dev[d].state = "none"
             /\ \A e \in Devices : dev[e].from # conn[c].k
             /\ dev' = [dev EXCEPT ![d] = [state |-> "active", from |-> conn[c].k,
                                           exp |-> now + DeviceTTL]]
             /\ conn' = [conn EXCEPT ![c].pc = "confirmed", ![c].d = d]
       \/ /\ conn' = Back(c)
          /\ UNCHANGED dev
    /\ UNCHANGED <<now, chal, active, guess, told, answered, left>>

\* Back on the event loop: the connection is paired through the device, and one that
\* was paired before forgets its first device.
Confirmed(c) ==
    /\ conn[c].pc = "confirmed"
    /\ conn' = [Back(c) EXCEPT ![c].paired = TRUE, ![c].dev = conn[c].d,
                               ![c].chal = NoChallenge]
    /\ told' = told \cup {conn[c].d}
    /\ left' = left \cup ({conn[c].dev} \ {NoDevice})
    /\ UNCHANGED <<now, chal, active, dev, guess, answered>>

\* PairingChallengeStore.cancel
Withdraw(k) ==
    IF Answerable(k)
    THEN /\ chal' = [chal EXCEPT ![k].state = "cancelled"]
         /\ active' = [active EXCEPT ![chal[k].req] = NoChallenge]
    ELSE Lapse(k) /\ UNCHANGED active

\* pairing_cancel: the connection forgets its challenge only on success.
CancelChallenge(c, k) ==
    /\ Open(c) /\ chal[k].state \notin {"none", "lost"}
    /\ Withdraw(k)
    /\ conn' = IF chal'[k].state = "cancelled" THEN [conn EXCEPT ![c].chal = NoChallenge]
               ELSE conn
    /\ UNCHANGED <<now, dev, guess, told, answered, left>>

-----------------------------------------------------------------------------
(* Device sessions.                                                        *)

\* pairing_revoke by the owner: the row is read ...
RevokeRead(c, d) ==
    /\ Open(c) /\ c \in Local /\ conn[c].paired /\ d \in told
    /\ dev[d].state # "expired"        \* device_not_found
    /\ conn' = [conn EXCEPT ![c].pc = "revoke", ![c].d = d, ![c].seen = dev[d].state]
    /\ UNCHANGED <<now, chal, active, dev, guess, told, answered, left>>

\* ... and swapped from the state read; one that has moved on is an error.
RevokeSwap(c) ==
    LET d == conn[c].d
        same == dev[d].state = conn[c].seen
    IN  /\ conn[c].pc = "revoke"
        /\ dev' = IF same THEN [dev EXCEPT ![d].state = "revoked"] ELSE dev
        /\ conn' = IF same \/ conn[c].seen = "revoked"
                   THEN [conn EXCEPT ![c].pc = "revoked"] ELSE Back(c)
        /\ UNCHANGED <<now, chal, active, guess, told, answered, left>>

\* The store fails at either: the owner is told of an error.
RevokeFails(c) ==
    /\ conn[c].pc = "revoke"
    /\ conn' = Back(c)
    /\ UNCHANGED <<now, chal, active, dev, guess, told, answered, left>>

\* Mutant: only the connection that asked is looked at.
MutUnpair(c) ==
    /\ conn[c].pc = "revoked"
    /\ conn' = IF conn[c].dev = conn[c].d
               THEN [Back(c) EXCEPT ![c].paired = FALSE, ![c].dev = NoDevice] ELSE Back(c)
    /\ answered' = answered \cup {conn[c].d}
    /\ UNCHANGED <<now, chal, active, dev, guess, told, left>>

\* Back on the event loop: every connection paired through it is unpaired.
Unpair(c) ==
    /\ conn[c].pc = "revoked"
    /\ conn' = [e \in Conns |-> IF conn[e].dev = conn[c].d
                   THEN [Back(c)[e] EXCEPT !.paired = FALSE, !.dev = NoDevice]
                   ELSE Back(c)[e]]
    /\ answered' = answered \cup {conn[c].d}
    /\ UNCHANGED <<now, chal, active, dev, guess, told, left>>

\* Mutant: one guess too many.
MutLegacyPair(c, right) ==
    LET tries == IF now - guess.since < Window THEN guess.n ELSE 0
    IN  /\ Open(c) /\ tries <= MaxTries
        /\ conn' = IF right THEN [conn EXCEPT ![c].paired = TRUE] ELSE conn
        /\ guess' = IF right THEN [n |-> 0, since |-> 0]
                    ELSE [n |-> tries + 1, since |-> IF tries = 0 THEN now ELSE guess.since]
        /\ UNCHANGED <<now, chal, active, dev, told, answered, left>>

\* The older "pair" message: a code, and guesses counted per source address.
LegacyPair(c, right) ==
    LET tries == IF now - guess.since < Window THEN guess.n ELSE 0
    IN  /\ Open(c) /\ tries < MaxTries
        /\ conn' = IF right THEN [conn EXCEPT ![c].paired = TRUE] ELSE conn
        /\ guess' = IF right THEN [n |-> 0, since |-> 0]
                    ELSE [n |-> tries + 1, since |-> IF tries = 0 THEN now ELSE guess.since]
        /\ UNCHANGED <<now, chal, active, dev, told, answered, left>>

-----------------------------------------------------------------------------
(* Clean-up of a lost connection: mark_stale and the challenge's cancellation. *)

\* Mutant: a connection without a challenge needs no clean-up.
MutDisconnect(c) ==
    /\ Open(c)
    /\ conn' = [conn EXCEPT ![c].paired = FALSE, ![c].d = conn[c].dev, ![c].dev = NoDevice,
                   ![c].pc = "drop"]
    /\ UNCHANGED <<now, chal, active, dev, guess, told, answered, left>>

Disconnect(c) ==
    /\ Open(c)
    /\ conn' = [conn EXCEPT ![c].paired = FALSE, ![c].d = conn[c].dev, ![c].dev = NoDevice,
                   ![c].pc = IF conn[c].dev = NoDevice THEN "drop" ELSE "stale"]
    /\ UNCHANGED <<now, chal, active, dev, guess, told, answered, left>>

\* One row read, then swapped if it was ACTIVE and still is; a lost swap is ignored.
StaleRead(c) ==
    /\ conn[c].pc = "stale" /\ conn[c].seen = "none"
    /\ conn' = [conn EXCEPT ![c].seen = dev[conn[c].d].state]
    /\ UNCHANGED <<now, chal, active, dev, guess, told, answered, left>>

StaleSwap(c) ==
    LET d == conn[c].d
    IN  /\ conn[c].pc = "stale" /\ conn[c].seen # "none"
        /\ dev' = IF conn[c].seen = "active" /\ dev[d].state = "active"
                  THEN [dev EXCEPT ![d].state = "stale"] ELSE dev
        /\ Go(c, "drop")
        /\ UNCHANGED <<now, chal, active, guess, told, answered, left>>

\* The store fails at either.  So is this ignored, and the connection has forgotten its
\* device: nobody tries again.
StaleFails(c) ==
    /\ conn[c].pc = "stale"
    /\ left' = left \cup {conn[c].d}
    /\ Go(c, "drop")
    /\ UNCHANGED <<now, chal, active, dev, guess, told, answered>>

DropChallenge(c) ==
    /\ conn[c].pc = "drop"
    /\ IF conn[c].chal # NoChallenge THEN Withdraw(conn[c].chal)
       ELSE UNCHANGED <<chal, active>>
    /\ conn' = [conn EXCEPT ![c] = Closed]
    /\ UNCHANGED <<now, dev, guess, told, answered, left>>

-----------------------------------------------------------------------------
Tick ==
    /\ now < MaxTime
    /\ now' = now + 1
    /\ UNCHANGED <<conn, chal, active, dev, guess, told, answered, left>>

\* The sweeper.
ExpireChallenges ==
    LET due == {k \in Challenges : chal[k].state = "pending" /\ now >= chal[k].exp}
    IN  /\ due # {}
        /\ chal' = [k \in Challenges |-> IF k \in due
                       THEN [chal[k] EXCEPT !.state = "expired"] ELSE chal[k]]
        /\ active' = [r \in Requests |-> IF active[r] \in due THEN NoChallenge ELSE active[r]]
        /\ UNCHANGED <<now, conn, dev, guess, told, answered, left>>

ExpireDevice(d) ==
    /\ dev[d].state \in {"active", "stale"} /\ dev[d].exp <= now
    /\ dev' = [dev EXCEPT ![d].state = "expired"]
    /\ UNCHANGED <<now, conn, chal, active, guess, told, answered, left>>

\* The process stops: device sessions are all that stays.
Restart ==
    /\ \E c \in Conns : conn[c].pc \notin {"new", "closed"}
    /\ conn' = [c \in Conns |-> IF conn[c].pc = "new" THEN conn[c] ELSE Closed]
    /\ chal' = [k \in Challenges |-> IF chal[k].state = "none" THEN chal[k]
                   ELSE [chal[k] EXCEPT !.state = IF @ = "pending" THEN "lost" ELSE @]]
    /\ active' = [r \in Requests |-> NoChallenge]
    /\ guess' = [n |-> 0, since |-> 0]
    /\ left' = told
    /\ UNCHANGED <<now, dev, told, answered>>

Init ==
    /\ now = 0
    /\ conn = [c \in Conns |-> Unconnected]
    /\ chal = [k \in Challenges |-> NoChallengeRow]
    /\ active = [r \in Requests |-> NoChallenge]
    /\ dev = [d \in Devices |-> NoDeviceRow]
    /\ guess = [n |-> 0, since |-> 0]
    /\ told = {} /\ answered = {} /\ left = {}

Serve(c) ==
    \/ Connect(c)
    \/ \E r \in Requests : Prepare(c, r)
    \/ \E k \in Challenges : CancelChallenge(c, k) \/ \E ok \in BOOLEAN : Confirm(c, k, ok)
    \/ \E ok \in BOOLEAN : LegacyPair(c, ok)
    \/ \E d \in Devices : RevokeRead(c, d)
    \/ Issue(c) \/ Confirmed(c) \/ RevokeSwap(c) \/ RevokeFails(c) \/ Unpair(c)
    \/ Disconnect(c) \/ StaleRead(c) \/ StaleSwap(c) \/ StaleFails(c) \/ DropChallenge(c)

Next ==
    \/ \E c \in Conns : Serve(c)
    \/ \E d \in Devices : ExpireDevice(d)
    \/ Tick \/ ExpireChallenges \/ Restart

Spec == Init /\ [][Next]_pairingVars
=============================================================================
