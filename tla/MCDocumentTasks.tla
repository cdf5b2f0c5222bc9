-------------------------- MODULE MCDocumentTasks --------------------------
(* Small instances of the document workflow for TLC. *)
EXTENDS DocumentTasksProperties, TLC

DocumentSymmetry == Permutations(Conns) \cup Permutations(Jobs) \cup Permutations(Providers)
=============================================================================
