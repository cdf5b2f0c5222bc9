-------------------------- MODULE MCVisualHandoff --------------------------
(* Small instances of handoffs, transfers and analyses for TLC. *)
EXTENDS VisualHandoffProperties, TLC

VisualSymmetry ==
    Permutations(Guests) \cup Permutations(Handoffs)
    \cup Permutations(Analyses) \cup Permutations(Transfers)
=============================================================================
