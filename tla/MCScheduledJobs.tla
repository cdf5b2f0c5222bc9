--------------------------- MODULE MCScheduledJobs ---------------------------
(* Small instances of scheduled jobs for TLC. *)
EXTENDS ScheduledJobsProperties, TLC

\* Zones behind UTC: their texts are due early, those of zones ahead late.
Behind == -1
BehindAndAhead == {-1, 1}

JobSymmetry == Permutations(Jobs)
=============================================================================
