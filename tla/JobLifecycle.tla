---------------------------- MODULE JobLifecycle ----------------------------
(***************************************************************************)
(* What the durable job queue promises to whoever schedules a job: it is   *)
(* attempted at most MaxAttempts times, an attempt is over before the next *)
(* one begins, it fails for good only when the attempts are used up, and a *)
(* job that succeeded or was cancelled is left alone.  JobQueue implements *)
(* this specification.                                                     *)
(***************************************************************************)
EXTENDS Naturals

CONSTANTS Jobs, MaxAttempts

VARIABLES
    phase,      \* the phase of every job
    tries       \* how many attempts at it were begun

vars == <<phase, tries>>

Phase == {"none", "queued", "running", "succeeded", "failed", "cancelled"}

Init == phase = [j \in Jobs |-> "none"] /\ tries = [j \in Jobs |-> 0]

Move(j, from, to) ==
    /\ phase[j] = from
    /\ phase' = [phase EXCEPT ![j] = to]
    /\ UNCHANGED tries

Submit(j) == Move(j, "none", "queued")

\* A worker begins an attempt at each job of a batch.
Begin(batch) ==
    /\ \A j \in batch : phase[j] = "queued" /\ tries[j] < MaxAttempts
    /\ phase' = [j \in Jobs |-> IF j \in batch THEN "running" ELSE phase[j]]
    /\ tries' = [j \in Jobs |-> IF j \in batch THEN tries[j] + 1 ELSE tries[j]]

Succeed(j) == Move(j, "running", "succeeded")
Retry(j)   == tries[j] < MaxAttempts /\ Move(j, "running", "queued")
Exhaust(j) == tries[j] = MaxAttempts /\ Move(j, "running", "failed")
Cancel(j)  == Move(j, "queued", "cancelled") \/ Move(j, "failed", "cancelled")

Next ==
    \/ \E j \in Jobs : Submit(j) \/ Succeed(j) \/ Retry(j) \/ Exhaust(j) \/ Cancel(j)
    \/ \E batch \in SUBSET Jobs : Begin(batch)

Spec == Init /\ [][Next]_vars
=============================================================================
