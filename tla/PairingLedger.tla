---------------------------- MODULE PairingLedger ---------------------------
(***************************************************************************)
(* What pairing is to the owner of the machine, without handlers, clocks,  *)
(* guesses and the places its state is kept in: challenges that are shown  *)
(* and answered, devices that come from them, and which connection is      *)
(* paired through which device.                                            *)
(***************************************************************************)
CONSTANTS Conns, Requests, Challenges, Devices, NoRequest, NoChallenge, NoDevice

VARIABLES
    challenge, asks,    \* per challenge: its state, and the request it is for
    device, source,     \* per device: its state, and the challenge it comes from
    link,               \* per connection: the device it is paired through
    known,              \* devices their client was told of
    reported            \* devices whose revocation was answered

pairing == <<challenge, asks>>
sessions == <<device, source>>
ledgerVars == <<pairing, sessions, link, known, reported>>

Init ==
    /\ challenge = [k \in Challenges |-> "none"]
    /\ asks = [k \in Challenges |-> NoRequest]
    /\ device = [d \in Devices |-> "none"]
    /\ source = [d \in Devices |-> NoChallenge]
    /\ link = [c \in Conns |-> NoDevice]
    /\ known = {} /\ reported = {}

OpenFor(r) == {k \in Challenges : challenge[k] = "open" /\ asks[k] = r}

\* A challenge of its own for a request: any other one of that request is over.  The
\* new one is over at once if it cannot be shown.
Show(k, r, outcome) ==
    /\ challenge[k] = "none"
    /\ challenge' = [j \in Challenges |-> IF j = k THEN outcome
                        ELSE IF j \in OpenFor(r) THEN "over" ELSE challenge[j]]
    /\ asks' = [asks EXCEPT ![k] = r]
    /\ UNCHANGED <<sessions, link, known, reported>>

Answer(k) ==
    /\ challenge[k] = "open"
    /\ challenge' = [challenge EXCEPT ![k] = "spent"]
    /\ UNCHANGED <<asks, sessions, link, known, reported>>

\* Challenges that can no longer be answered.
Close(S) ==
    /\ \A k \in S : challenge[k] = "open"
    /\ challenge' = [k \in Challenges |-> IF k \in S THEN "over" ELSE challenge[k]]
    /\ UNCHANGED <<asks, sessions, link, known, reported>>

\* One device for a challenge that was answered.
Enroll(d, k) ==
    /\ device[d] = "none"
    /\ challenge[k] = "spent" /\ \A e \in Devices : source[e] # k
    /\ device' = [device EXCEPT ![d] = "active"]
    /\ source' = [source EXCEPT ![d] = k]
    /\ UNCHANGED <<pairing, link, known, reported>>

\* One connection for a device, once.
Link(c, d) ==
    /\ d \notin known /\ device[d] \in {"active", "expired"}
    /\ link' = [link EXCEPT ![c] = d]
    /\ known' = known \cup {d}
    /\ UNCHANGED <<pairing, sessions, reported>>

Leave(c) ==
    /\ link' = [link EXCEPT ![c] = NoDevice]
    /\ UNCHANGED <<pairing, sessions, known, reported>>

Move(d, from, to) ==
    /\ device[d] \in from
    /\ device' = [device EXCEPT ![d] = to]
    /\ UNCHANGED <<pairing, source, link, known, reported>>

\* A device becomes stale only when nobody is paired through it.
Park(d)   == (\A c \in Conns : link[c] # d) /\ Move(d, {"active"}, "stale")
Revoke(d) == d \in known /\ Move(d, {"active", "stale"}, "revoked")
Expire(d) == Move(d, {"active", "stale"}, "expired")

\* The owner is told of a revocation when nobody is paired through the device.
Report(d) ==
    /\ device[d] = "revoked"
    /\ link' = [c \in Conns |-> IF link[c] = d THEN NoDevice ELSE link[c]]
    /\ reported' = reported \cup {d}
    /\ UNCHANGED <<pairing, sessions, known>>

\* Connections and challenges do not outlive the process.
Stop ==
    /\ challenge' = [k \in Challenges |-> IF challenge[k] = "open" THEN "over"
                                          ELSE challenge[k]]
    /\ link' = [c \in Conns |-> NoDevice]
    /\ UNCHANGED <<asks, sessions, known, reported>>

Next ==
    \/ \E k \in Challenges, r \in Requests, outcome \in {"open", "over"} : Show(k, r, outcome)
    \/ \E k \in Challenges : Answer(k)
    \/ \E S \in SUBSET Challenges : Close(S)
    \/ \E d \in Devices, k \in Challenges : Enroll(d, k)
    \/ \E c \in Conns, d \in Devices : Link(c, d)
    \/ \E c \in Conns : Leave(c)
    \/ \E d \in Devices : Park(d) \/ Revoke(d) \/ Expire(d) \/ Report(d)
    \/ Stop

Spec == Init /\ [][Next]_ledgerVars
=============================================================================
