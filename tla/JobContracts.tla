---------------------------- MODULE JobContracts ----------------------------
(***************************************************************************)
(* The value objects of core/jobs: the states of a scheduled job, the      *)
(* transition table every write is validated against, and the pure rules   *)
(* the runner computes with (retry back-off, daily quiet window).          *)
(*                                                                         *)
(* Instants are natural numbers, in UTC.  A quiet window repeats every Day *)
(* instants of its own zone, which is ZoneOffset ahead of UTC, from        *)
(* QuietFrom (inclusive) to QuietTo (exclusive), and may wrap around the   *)
(* end of the day; QuietFrom = QuietTo disables it.                        *)
(***************************************************************************)
EXTENDS Integers, FiniteSets

CONSTANTS
    Day, QuietFrom, QuietTo,    \* the daily quiet window
    ZoneOffset,                 \* how far its zone is ahead of UTC
    BaseBackoff, MaxBackoff     \* retry back-off, first and largest step

ASSUME DayAssumption == Day \in Nat \ {0}
ASSUME QuietAssumption == QuietFrom \in 0 .. Day - 1 /\ QuietTo \in 0 .. Day - 1
ASSUME ZoneAssumption == ZoneOffset \in Int
ASSUME BackoffAssumption ==
    /\ BaseBackoff \in Nat \ {0}
    /\ MaxBackoff \in Nat \ {0}
    /\ BaseBackoff <= MaxBackoff

-----------------------------------------------------------------------------
States == {"scheduled", "paused", "running", "interrupted",
           "completed", "failed", "cancelled"}

Terminal == {"completed", "failed", "cancelled"}

\* transition_table: the states a job may be moved to.  A same-state move is
\* accepted by the table and writes nothing.
Successors(s) ==
    CASE s = "scheduled"   -> {"scheduled", "paused", "running", "cancelled"}
      [] s = "paused"      -> {"paused", "scheduled", "cancelled"}
      [] s = "running"     -> {"running", "interrupted", "completed",
                               "failed", "cancelled"}
      [] s = "interrupted" -> {"interrupted", "paused", "scheduled",
                               "failed", "cancelled"}
      [] OTHER             -> {s}

CanTransition(s, t) == t \in Successors(s)

-----------------------------------------------------------------------------
(* The wait before the retry that follows `attempts' earlier attempts.     *)
Backoff(attempts) ==
    LET shift == IF attempts > 30 THEN 30 ELSE attempts
        value == BaseBackoff * 2 ^ shift
    IN  IF value \in 0 .. MaxBackoff THEN value ELSE MaxBackoff

(* is_quiet: the window holds the start of its first minute, not its end.  *)
InQuietWindow(t) ==
    LET minute == (t + ZoneOffset) % Day IN
    IF QuietFrom <= QuietTo
    THEN QuietFrom <= minute /\ minute < QuietTo
    ELSE QuietFrom <= minute \/ minute < QuietTo

\* Mutant: the end of the window before t.
MutNextQuietEnd(t) ==
    LET today == t - ((t + ZoneOffset) % Day) + QuietTo IN IF today > t THEN today - Day ELSE today

(* _next_eligible_after_quiet: the first end of the window after t, strictly. *)
NextQuietEnd(t) ==
    LET today == t - ((t + ZoneOffset) % Day) + QuietTo
    IN  IF today > t THEN today ELSE today + Day
=============================================================================
