---------------------- MODULE MCProductivityApprovals ----------------------
(* Small instances of productivity approvals for TLC. *)
EXTENDS ProductivityApprovalsProperties, TLC

ApprovalSymmetry ==
    Permutations(Conns) \cup Permutations(Proposals) \cup Permutations(Approvals)
=============================================================================
