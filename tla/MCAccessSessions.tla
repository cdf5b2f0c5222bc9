-------------------------- MODULE MCAccessSessions --------------------------
(* Small instances of access sessions for TLC. *)
EXTENDS AccessSessionsProperties, TLC

AccessSymmetry == 
    Permutations(Callers) \cup Permutations(Sessions) \cup Permutations(Grants)
=============================================================================
