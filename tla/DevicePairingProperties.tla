---------------------- MODULE DevicePairingProperties ----------------------
(* What device pairing promises. *)
EXTENDS DevicePairing

ConnPcs == {"new", "open", "issue", "confirmed", "revoke", "revoked", "stale", "drop",
            "closed"}
DeviceStates == {"none", "active", "stale", "revoked", "expired"}

\* Type correctness of the stores and of the server's maps.
TypeOK ==
    /\ now \in Nat
    /\ conn \in [Conns -> [pc : ConnPcs, paired : BOOLEAN,
                           chal : Challenges \cup {NoChallenge}, dev : Devices \cup {NoDevice},
                           k : Challenges \cup {NoChallenge}, d : Devices \cup {NoDevice},
                           seen : DeviceStates]]
    /\ chal \in [Challenges -> [state : {"none", "pending", "consumed", "locked", "cancelled",
                                         "expired", "lost"},
                                req : Requests \cup {NoRequest}, tries : 0 .. MaxTries,
                                exp : Nat, at : Nat]]
    /\ active \in [Requests -> Challenges \cup {NoChallenge}]
    /\ dev \in [Devices -> [state : DeviceStates, from : Challenges \cup {NoChallenge},
                            exp : Nat]]
    /\ guess \in [n : 0 .. MaxTries, since : Nat]
    /\ told \in SUBSET Devices /\ answered \in SUBSET Devices /\ left \in SUBSET Devices

\* docs/PHASE_4_COMPLETION.md: challenges are short-lived and used once.  A device
\* comes from a challenge that was answered in time and within its guesses, and no
\* two devices come from the same one, whoever else was answering, cancelling or
\* leaving (confirm, then issue in another store).
OneDevicePerChallenge ==
    \A d \in Devices : dev[d].state # "none" =>
        /\ chal[dev[d].from].state = "consumed"
        /\ chal[dev[d].from].tries < MaxTries /\ chal[dev[d].from].at < chal[dev[d].from].exp
        /\ \A e \in Devices : dev[e].from = dev[d].from => e = d

\* Once a revocation was answered, no connection is paired through the device, be
\* it the owner's own, and the device stays revoked.
RevokedIsUnpaired ==
    \A d \in answered : /\ dev[d].state = "revoked"
                        /\ \A c \in Conns : conn[c].dev # d

\* A session is parked when its connection goes, and a connection may go at any time.
\* So a device whose client knows it is ACTIVE only while a connection is paired through
\* it or is being cleaned up: whatever swap the clean-up loses was lost to a revocation
\* or an expiry.  The exceptions are the three ways to leave one behind, where only its
\* expiry or the owner ends it: the store failed at the clean-up, which is ignored, the
\* connection paired again, or the process stopped.
Holds(h, d) == h.dev = d \/ (h.pc = "stale" /\ h.d = d)

ActiveIsHeld ==
    \A d \in told \ left :
        dev[d].state = "active" => \E c \in Conns : Holds(conn[c], d)

\* A challenge as the owner sees it: how it came to be over is not told.
OwnersView(state) ==
    CASE state = "none" -> "none" [] state = "pending" -> "open"
      [] state = "consumed" -> "spent" [] OTHER -> "over"

Ledger == INSTANCE PairingLedger WITH
    challenge <- [k \in Challenges |-> OwnersView(chal[k].state)],
    asks      <- [k \in Challenges |-> chal[k].req],
    device    <- [d \in Devices |-> dev[d].state],
    source    <- [d \in Devices |-> dev[d].from],
    link      <- [c \in Conns |-> conn[c].dev],
    known     <- told,
    reported  <- answered

\* docs/PHASE_4_COMPLETION.md (challenges are used once; one device for each).  The
\* handlers, which bring two stores and the server's maps up to date one after the
\* other, implement the owner's view of pairing: one open challenge per request, a
\* device linked to one connection once, and stale only when nobody is paired through it.
ImplementsLedger == Ledger!Spec

=============================================================================
