---------------------------- MODULE MCGigiProcess ----------------------------
(***************************************************************************)
(* Instances of JobQueue and GigiProcess for TLC, with their fairness: the *)
(* queue with two jobs and any stop or death of the pool Own, and one job  *)
(* with the stops and deaths that the process of that pool really has.     *)
(***************************************************************************)
EXTENDS GigiProcess

\* The table the queue is written for.
MCDurable == <<DurableTable>>

CONSTANT j1

VARIABLE part

MCInit == ProcessInit /\ part \in {"queue", "process"}

MCNext ==
  /\ \/ part = "queue" /\ Next /\ UNCHANGED lifeVars
     \/ part = "process" /\ ProcessNext /\ \A j \in Jobs \ {j1} : answer'[j] = "none"
  /\ UNCHANGED part

MCFairSpec ==
  /\ MCInit /\ [][MCNext]_<<processVars, part>>
  /\ QueueFairness
  /\ part = "process" => ProcessFairness
=============================================================================
