----------------------------- MODULE GigiProcess -----------------------------
(***************************************************************************)
(* A Gigi process and its worker pool: AppLifecycle composed with the pool *)
(* Own of JobQueue.  App.Run starts the pool with the context the signal   *)
(* cancels; Shutdown, and every other way out of Run, waits in             *)
(* WorkerPool.Stop until the poll loop and all goroutines are done.  The   *)
(* other pools are those of other processes on the same database.          *)
(***************************************************************************)
EXTENDS JobQueue, AppLifecycle

CONSTANT Own

ASSUME OwnAssumption == Own \in Stoppable \cap Mortal

processVars == <<vars, lifeVars>>

ProcessInit == Init /\ LifeInit

\* Where main is in WorkerPool.Stop.
StopSteps == {"start_failed", "down_jobs", "down_discord", "fail_discord"}

\* The pool's context is derived from that of the signal, and Stop cancels it.
\* (Deriving it is one step with the signal; here it may lag behind.)
CancelPool ==
  /\ signalled \/ main \in StopSteps
  /\ Stop(Own)
  /\ UNCHANGED lifeVars

\* Mutant: the WaitGroup counts the poll loop only.
Waited_Bug == main \in StopSteps => loop[Own] = "ended"

\* The steps that return from WorkerPool.Stop wait for the pool.
Waited == main \in StopSteps => Stopped(Own)

ProcessStep ==
  \/ StartJobs /\ Start(Own)
  \/ MainStep /\ main # "jobs" /\ Waited /\ UNCHANGED vars

\* The process dies, or a handler panics: nothing of it is left.
Crash ==
  /\ ~Exited
  /\ Die(Own)
  /\ main' = "exit1"
  /\ UNCHANGED <<signalled, expired, started, session, closer, db, server, jobs>>

World == (Signal \/ Deadline \/ ServerFails \/ SessionCloses) /\ UNCHANGED vars

\* The steps of JobQueue, but those main decides about.
QueueStep ==
  /\ \/ \E j \in Jobs : Enqueue(j) \/ Cancel(j)
     \/ \E p \in Pools : LoopStep(p)
     \/ \E p \in Pools \ {Own} : Start(p) \/ Stop(p) \/ Die(p)
     \/ \E g \in work : WorkStep(g)
     \/ Tick
  /\ UNCHANGED lifeVars

ProcessNext == ProcessStep \/ CancelPool \/ Crash \/ World \/ QueueStep

ProcessSpec == ProcessInit /\ [][ProcessNext]_processVars

\* Main runs whenever it can, and contexts are cancelled and run out; nothing
\* else is assumed, so session.Close may hang for ever.
ProcessFairness ==
  /\ WF_processVars(ProcessStep)
  /\ WF_processVars(CancelPool)
  /\ WF_processVars(Deadline /\ UNCHANGED vars)

FairProcess == ProcessSpec /\ QueueFairness /\ ProcessFairness

-----------------------------------------------------------------------------
(* Properties.                                                             *)

PoolIsGone == loop[Own] \in {"ended", "dead"} /\ \A g \in work : g.pool # Own

\* The database is closed, and the process left, only when nothing of its pool
\* is at work any more: no goroutine of a job reports over a closed handle, by
\* whichever of the ways out of Run and Shutdown main goes.
WorkersEndFirst == db = "closed" \/ Exited => PoolIsGone
=============================================================================
