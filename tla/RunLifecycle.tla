---------------------------- MODULE RunLifecycle ----------------------------
(***************************************************************************)
(* What the durable record of an agent run promises to whoever reads it    *)
(* (the /agent commands, the run analytics): a run is started once, it may *)
(* be asked to stop while it runs, it ends once, and a run that was asked  *)
(* to stop ends as "canceled" and as nothing else.  AgentRun implements    *)
(* this specification; see Lifecycle there for the refinement mapping.     *)
(***************************************************************************)

CONSTANT Runs

VARIABLE phase      \* the phase of every run, as its agent_runs row shows it

vars == phase

\* The statuses a run that was never asked to stop can end with.
Outcome == {"succeeded", "failed", "denied", "dry_run", "confirmation_required"}

Phase == {"none", "running", "cancelling", "canceled"} \cup Outcome

Init == phase = [r \in Runs |-> "none"]

Move(r, from, to) ==
    /\ phase[r] = from
    /\ phase' = [phase EXCEPT ![r] = to]

Start(r)         == Move(r, "none", "running")
RequestCancel(r) == Move(r, "running", "cancelling")
End(r)           == \E s \in Outcome : Move(r, "running", s)
EndCanceled(r)   == Move(r, "cancelling", "canceled")

Next == \E r \in Runs : Start(r) \/ RequestCancel(r) \/ End(r) \/ EndCanceled(r)

Spec == Init /\ [][Next]_vars
=============================================================================
