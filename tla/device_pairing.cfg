SPECIFICATION Spec
CONSTANTS
    c1 = c1
    c2 = c2
    r1 = r1
    k1 = k1
    k2 = k2
    d1 = d1
    d2 = d2
    Conns = {c1, c2}
    Local = {c1}
    Requests = {r1}
    Challenges = {k1, k2}
    Devices = {d1, d2}
    NoChallenge = NoChallenge
    NoDevice = NoDevice
    NoRequest = NoRequest
    MaxTries = 2
    ChallengeTTL = 1
    DeviceTTL = 1
    Window = 1
    MaxTime = 1
INVARIANTS TypeOK OneDevicePerChallenge RevokedIsUnpaired ActiveIsHeld
PROPERTY ImplementsLedger
SYMMETRY PairingSymmetry
CHECK_DEADLOCK FALSE
