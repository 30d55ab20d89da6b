---------------------------- MODULE RunLifecycle ----------------------------
(***************************************************************************)
(* What the ReviewRun aggregate promises, seen from outside: a run waits,  *)
(* is worked on and ends; an ended run changes only by going back to the   *)
(* queue under a new attempt number, a completed one not at all; findings  *)
(* appear together with the completion and never change afterwards.        *)
(***************************************************************************)
EXTENDS Integers

CONSTANT Pairs
VARIABLES status, attempt, findings

vars == <<status, attempt, findings>>

Init == status = "queued" /\ attempt = 1 /\ findings = {}

Start ==
    /\ status = "queued"
    /\ status' = "running"
    /\ UNCHANGED <<attempt, findings>>

Complete ==
    /\ status \in {"queued", "running"}
    /\ status' = "completed"
    /\ findings' \in SUBSET Pairs
    /\ UNCHANGED attempt

Stop ==
    /\ status \in {"queued", "running"}
    /\ status' \in {"failed", "cancelled"}
    /\ UNCHANGED <<attempt, findings>>

ReturnToQueue ==
    /\ status \in {"failed", "cancelled"}
    /\ status' = "queued"
    /\ attempt' = attempt + 1
    /\ UNCHANGED findings

Delete ==
    /\ status # "gone"
    /\ status' = "gone"
    /\ UNCHANGED <<attempt, findings>>

Next == Start \/ Complete \/ Stop \/ ReturnToQueue \/ Delete

Spec == Init /\ [][Next]_vars
=============================================================================
