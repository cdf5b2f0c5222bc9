---------------------------- MODULE JobLifecycle ----------------------------
(***************************************************************************)
(* What a scheduled job is to its owner, without threads, revisions,       *)
(* envelopes or audit events: a state that moves along the transition      *)
(* table, a count of the attempts charged to it, the fingerprint of the    *)
(* result last acknowledged, and the results its client was shown.         *)
(***************************************************************************)
EXTENDS Naturals

CONSTANTS Jobs, Fps, NoFp, MaxAttempts

VARIABLES state, att, fp, sent

jobVars == <<state, att, fp, sent>>

Init ==
    /\ state = [j \in Jobs |-> "none"]
    /\ att = [j \in Jobs |-> 0]
    /\ fp = [j \in Jobs |-> NoFp]
    /\ sent = [j \in Jobs |-> {}]

Move(j, from, to) ==
    /\ state[j] \in from
    /\ state' = [state EXCEPT ![j] = to]
    /\ UNCHANGED <<att, fp, sent>>

Accept(j) == Move(j, {"none"}, "scheduled")

\* A creation that could not be audited is taken back before anything else
\* has touched the job.
Withdraw(j) ==
    /\ state[j] = "scheduled"
    /\ state' = [state EXCEPT ![j] = "none"]
    /\ att' = [att EXCEPT ![j] = 0]
    /\ fp' = [fp EXCEPT ![j] = NoFp]
    /\ UNCHANGED sent

\* Only scheduled jobs are taken for execution, several at once.
Claim(S) ==
    /\ \A j \in S : state[j] = "scheduled"
    /\ state' = [j \in Jobs |-> IF j \in S THEN "running" ELSE state[j]]
    /\ UNCHANGED <<att, fp, sent>>

Interrupt(j) == Move(j, {"running"}, "interrupted")
Release(j)   == Move(j, {"interrupted"}, "scheduled")

\* A retry is charged while there is budget for it; failing takes all of it.
Charge(j) ==
    /\ att[j] + 1 < MaxAttempts
    /\ att' = [att EXCEPT ![j] = @ + 1]
    /\ UNCHANGED <<state, fp, sent>>

GiveUp(j) == att[j] + 1 = MaxAttempts /\ Move(j, {"running"}, "failed")

\* The client is shown a result unless that very result is the acknowledged one;
\* only shown results are acknowledged, and an acknowledgement may be undone.
Show(j, f) ==
    /\ fp[j] # f
    /\ sent' = [sent EXCEPT ![j] = @ \cup {f}]
    /\ UNCHANGED <<state, att, fp>>

Acknowledge(j, f) ==
    /\ f \in sent[j] \cup {NoFp}
    /\ fp' = [fp EXCEPT ![j] = f]
    /\ UNCHANGED <<state, att, sent>>

Complete(j) == fp[j] # NoFp /\ Move(j, {"running"}, "completed")

Pause(j)  == Move(j, {"scheduled", "interrupted"}, "paused")
Resume(j) == Move(j, {"paused"}, "scheduled")
Cancel(j) == Move(j, {"scheduled", "paused", "running", "interrupted"}, "cancelled")

Next ==
    \/ \E S \in SUBSET Jobs : Claim(S)
    \/ \E j \in Jobs :
         \/ Accept(j) \/ Withdraw(j) \/ Interrupt(j) \/ Release(j) \/ Charge(j)
         \/ GiveUp(j) \/ Complete(j) \/ Pause(j) \/ Resume(j) \/ Cancel(j)
         \/ \E f \in Fps : Show(j, f) \/ Acknowledge(j, f)
         \/ Acknowledge(j, NoFp)

Spec == Init /\ [][Next]_jobVars
=============================================================================
