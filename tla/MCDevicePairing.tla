-------------------------- MODULE MCDevicePairing --------------------------
(* Small instances of device pairing for TLC. *)
EXTENDS DevicePairingProperties, TLC

PairingSymmetry ==
    Permutations(Requests) \cup Permutations(Challenges) \cup Permutations(Devices)
=============================================================================
