------------------------------ MODULE JobQueue ------------------------------
(***************************************************************************)
(* The durable job queue: the jobs table with the statements of SQLQueue,  *)
(* the worker pools that poll it, each in a process of its own, and the    *)
(* agent tools that schedule and cancel jobs.                              *)
(*                                                                         *)
(* One action is one SQL statement, one critical section of WorkerPool.mu  *)
(* or one step of a goroutine between two of these.  A statement whose     *)
(* context is cancelled, and any statement when the database is not        *)
(* reliable, may fail, and may have been applied all the same.             *)
(***************************************************************************)
EXTENDS Integers, Sequences, FiniteSets

CONSTANTS
    Jobs,           \* the jobs that are scheduled, named by their id
    Handled,        \* those whose kind has a registered handler
    Pools,          \* the worker pools; one that stopped is not started again
    MaxWorkers,     \* WorkerOptions.MaxWorkers
    MaxAttempts,    \* Job.MaxAttempts
    Delays,         \* the delays jobs may be scheduled with, in ticks
    Migrations,     \* the definitions of the jobs table, in migration order
    StoreFaults,    \* whether a SQL statement may fail
    Overlap,        \* whether a claim may meet rows another statement has locked
    Stoppable,      \* the pools that may be stopped
    Mortal,         \* the pools whose process may die
    MaxTime         \* bound: the last tick of the clock, where everything is due

NoOne == "nobody"

ASSUME QueueAssumption ==
    /\ IsFiniteSet(Jobs)
    /\ Handled \subseteq Jobs /\ Stoppable \subseteq Pools /\ Mortal \subseteq Pools
    /\ MaxWorkers \in Nat \ {0} /\ MaxAttempts \in Nat \ {0}
    /\ Delays \subseteq Nat /\ MaxTime \in Nat
    /\ StoreFaults \in BOOLEAN /\ Overlap \in BOOLEAN
    /\ NoOne \notin Pools

VARIABLES
    \* the jobs table, by job id
    status, attempts, runAfter, lockedBy,
    \* the pools, by pool
    loop,           \* where the poll loop is
    cancelled,      \* whether p.ctx is cancelled
    limit,          \* the number of jobs it is about to claim
    claimed,        \* the jobs it has claimed and not yet dispatched
    active,         \* WorkerPool.active
    \* the rest
    work,           \* the goroutines that process a job
    ran,            \* history: how often the handler of a job was called
    answer,         \* what the agent tool said to who scheduled a job
    now             \* the clock, in ticks of five seconds

table == <<status, attempts, runAfter, lockedBy>>
pool == <<loop, cancelled, limit, claimed, active>>
vars == <<table, pool, work, ran, answer, now>>

-----------------------------------------------------------------------------
(* The table.                                                              *)

\* The time a number of ticks from now, as far as the clock goes.
After(ticks) == IF now + ticks < MaxTime THEN now + ticks ELSE MaxTime

\* The two definitions of the table in db/migrations.
InitialTable == [maxAttempts |-> FALSE,
                 statuses |-> {"queued", "running", "succeeded", "failed"}]
DurableTable == [maxAttempts |-> TRUE,
                 statuses |-> {"queued", "running", "succeeded", "failed", "cancelled"}]

\* Each migration creates the table if it does not exist: the first one wins.
Table == Head(Migrations)

\* Whether a statement of pool p may fail; one that names max_attempts has to when
\* the column is missing.
Fails(p) == StoreFaults \/ cancelled[p] \/ ~Table.maxAttempts

\* SQLQueue.Enqueue, from JobsScheduleTool, which picks a fresh id.
Enqueue(j) ==
    /\ status[j] = "none" /\ answer[j] = "none"
    /\ \E delay \in Delays, applied \in BOOLEAN, failed \in BOOLEAN :
         /\ ~failed => applied
         /\ failed => StoreFaults \/ ~Table.maxAttempts
         /\ applied => Table.maxAttempts
         /\ answer' = [answer EXCEPT ![j] = IF failed THEN "failed" ELSE "scheduled"]
         /\ IF applied
            THEN /\ status' = [status EXCEPT ![j] = "queued"]
                 /\ runAfter' = [runAfter EXCEPT ![j] = After(delay)]
            ELSE UNCHANGED <<status, runAfter>>
    /\ UNCHANGED <<attempts, lockedBy, pool, work, ran, now>>

\* A job that is running can be cancelled too.
Cancellable_Bug(j) == status[j] \in {"queued", "running", "failed"}

Cancellable(j) == status[j] \in {"queued", "failed"}

\* The status is spelled the way agent runs spell it.
Cancel_Bug(j) ==
    /\ Cancellable(j)
    /\ status' = [status EXCEPT ![j] = "canceled"]
    /\ UNCHANGED <<attempts, runAfter, lockedBy, pool, work, ran, answer, now>>

\* SQLQueue.Cancel, or the statement of JobsCancelTool, which is the same.
Cancel(j) ==
    /\ Cancellable(j)
    /\ "cancelled" \in Table.statuses
    /\ status' = [status EXCEPT ![j] = "cancelled"]
    /\ lockedBy' = [lockedBy EXCEPT ![j] = NoOne]
    /\ UNCHANGED <<attempts, runAfter, pool, work, ran, answer, now>>

\* The where clause of the claim: the status is not looked at.
Ready_Bug == {j \in Jobs : /\ status[j] \in {"queued", "running"} /\ runAfter[j] <= now
                           /\ attempts[j] < MaxAttempts}

Ready == {j \in Jobs : /\ status[j] = "queued" /\ runAfter[j] <= now
                       /\ attempts[j] < MaxAttempts}

\* What "for update skip locked" passes over.
Skipped == IF Overlap THEN SUBSET Ready ELSE {{}}

\* The batches "order by run_after limit n" can pick from the given rows.
Batches(rows, n) ==
    {batch \in SUBSET rows :
       /\ Cardinality(batch) <= n
       /\ Cardinality(batch) < n => batch = rows
       /\ \A j \in batch, k \in rows \ batch : runAfter[j] <= runAfter[k]}

\* The update of the claim.
Take(p, batch) ==
    /\ status' = [j \in Jobs |-> IF j \in batch THEN "running" ELSE status[j]]
    /\ attempts' = [j \in Jobs |-> IF j \in batch THEN attempts[j] + 1 ELSE attempts[j]]
    /\ lockedBy' = [j \in Jobs |-> IF j \in batch THEN p ELSE lockedBy[j]]
    /\ UNCHANGED runAfter

\* least(300, 5 * attempts) seconds.
Backoff(n) == IF n < 60 THEN n ELSE 60

\* SQLQueue.Complete: the job is found by its id alone.
CompleteJob(j) ==
    /\ status' = [status EXCEPT ![j] = "succeeded"]
    /\ lockedBy' = [lockedBy EXCEPT ![j] = NoOne]
    /\ UNCHANGED <<attempts, runAfter>>

\* The last attempt is given away.
MayRetry_Bug(j) == attempts[j] + 1 < MaxAttempts

\* One attempt too many.
MayRetry_Bug2(j) == attempts[j] <= MaxAttempts

MayRetry(j) == attempts[j] < MaxAttempts

\* SQLQueue.Fail: the job is found by its id alone, and queued again with a
\* growing delay as long as it has attempts left.
FailJob(j) ==
    /\ status' = [status EXCEPT ![j] = IF MayRetry(j) THEN "queued" ELSE "failed"]
    /\ runAfter' = [runAfter EXCEPT ![j] = IF MayRetry(j) THEN After(Backoff(attempts[j]))
                                           ELSE @]
    /\ lockedBy' = [lockedBy EXCEPT ![j] = NoOne]
    /\ UNCHANGED attempts

-----------------------------------------------------------------------------
(* WorkerPool.                                                             *)

\* Start: the poll loop begins.
Start(p) ==
    /\ loop[p] = "new"
    /\ loop' = [loop EXCEPT ![p] = "waiting"]
    /\ UNCHANGED <<table, cancelled, limit, claimed, active, work, ran, answer, now>>

\* The jobs being processed are not counted.
Available_Bug(p) == MaxWorkers

Available(p) == MaxWorkers - active[p]

\* The ticker fires, which select may prefer to a context that is done, and
\* pollAndDispatch looks for a free worker.
Poll(p) ==
    /\ loop[p] = "waiting" /\ Available(p) > 0
    /\ loop' = [loop EXCEPT ![p] = "claiming"]
    /\ limit' = [limit EXCEPT ![p] = Available(p)]
    /\ UNCHANGED <<table, cancelled, claimed, active, work, ran, answer, now>>

\* The claim comes back with a batch, perhaps an empty one.
Claim(p) ==
    /\ loop[p] = "claiming" /\ ~cancelled[p] /\ Table.maxAttempts
    /\ \E skipped \in Skipped : \E batch \in Batches(Ready \ skipped, limit[p]) :
         /\ Take(p, batch)
         /\ claimed' = [claimed EXCEPT ![p] = batch]
         /\ loop' = [loop EXCEPT ![p] = IF batch = {} THEN "waiting" ELSE "dispatching"]
    /\ UNCHANGED <<cancelled, limit, active, work, ran, answer, now>>

\* A failed claim is tried again at once.
ClaimFails_Bug(p) ==
    /\ loop[p] = "claiming" /\ Fails(p)
    /\ UNCHANGED vars

\* The claim fails: it was not executed, or its result was lost.
ClaimFails(p) ==
    /\ loop[p] = "claiming"
    /\ Fails(p)
    /\ \/ UNCHANGED table
       \/ /\ Table.maxAttempts
          /\ \E skipped \in Skipped :
               \E batch \in Batches(Ready \ skipped, limit[p]) : Take(p, batch)
    /\ loop' = [loop EXCEPT ![p] = "waiting"]
    /\ UNCHANGED <<cancelled, limit, claimed, active, work, ran, answer, now>>

\* A goroutine is started for one of the claimed jobs.
Dispatch(p) ==
    /\ loop[p] = "dispatching"
    /\ \E j \in claimed[p] :
         /\ work' = work \cup {[pool |-> p, job |-> j, attempt |-> attempts[j],
                                pc |-> "start"]}
         /\ claimed' = [claimed EXCEPT ![p] = @ \ {j}]
         /\ loop' = [loop EXCEPT ![p] = IF claimed[p] = {j} THEN "waiting" ELSE @]
    /\ active' = [active EXCEPT ![p] = @ + 1]
    /\ UNCHANGED <<table, cancelled, limit, ran, answer, now>>

\* The goroutine g goes to pc.
Becomes(g, pc) == work' = (work \ {g}) \cup {[g EXCEPT !.pc = pc]}

\* A job of an unknown kind is dropped.
Process_Bug(g) ==
    /\ g.pc = "start"
    /\ Becomes(g, IF g.job \in Handled THEN "handler" ELSE "leave")
    /\ UNCHANGED <<table, pool, ran, answer, now>>

\* processJob looks up the handler and calls it.
Process(g) ==
    /\ g.pc = "start"
    /\ \/ g.job \in Handled /\ Becomes(g, "handler")
          /\ ran' = [ran EXCEPT ![g.job] = @ + 1]
       \/ g.job \notin Handled /\ Becomes(g, "fail") /\ UNCHANGED ran
    /\ UNCHANGED <<table, pool, answer, now>>

\* The handler returns: done, failed, or given up after five minutes.
Return(g) ==
    /\ g.pc = "handler"
    /\ Becomes(g, "complete") \/ Becomes(g, "fail")
    /\ UNCHANGED <<table, pool, ran, answer, now>>

\* Complete or Fail; an error is logged and nothing more.
Settle(g) ==
    /\ g.pc \in {"complete", "fail"}
    /\ \/ /\ ~cancelled[g.pool]
          /\ IF g.pc = "complete" THEN CompleteJob(g.job) ELSE FailJob(g.job)
       \/ Fails(g.pool) /\ UNCHANGED table
    /\ Becomes(g, "leave")
    /\ UNCHANGED <<pool, ran, answer, now>>

\* The deferred functions of the goroutine.
Leave(g) ==
    /\ g.pc = "leave"
    /\ active' = [active EXCEPT ![g.pool] = @ - 1]
    /\ work' = work \ {g}
    /\ UNCHANGED <<table, loop, cancelled, limit, claimed, ran, answer, now>>

\* Stop cancels the context, or the context Start was given is cancelled.
Stop(p) ==
    /\ p \in Stoppable /\ loop[p] \notin {"new", "dead"} /\ ~cancelled[p]
    /\ cancelled' = [cancelled EXCEPT ![p] = TRUE]
    /\ UNCHANGED <<table, loop, limit, claimed, active, work, ran, answer, now>>

\* The poll loop sees it.
EndLoop(p) ==
    /\ loop[p] = "waiting" /\ cancelled[p]
    /\ loop' = [loop EXCEPT ![p] = "ended"]
    /\ UNCHANGED <<table, cancelled, limit, claimed, active, work, ran, answer, now>>

\* The WaitGroup is at zero: Stop returns.
Stopped(p) == loop[p] = "ended" /\ \A g \in work : g.pool # p

\* The process dies, or a handler panics, which nothing recovers from.
Die(p) ==
    /\ p \in Mortal /\ loop[p] \notin {"new", "dead"}
    /\ loop' = [loop EXCEPT ![p] = "dead"]
    /\ claimed' = [claimed EXCEPT ![p] = {}]
    /\ work' = {g \in work : g.pool # p}
    /\ active' = [active EXCEPT ![p] = 0]
    /\ UNCHANGED <<table, cancelled, limit, ran, answer, now>>

Tick ==
    /\ now < MaxTime
    /\ now' = now + 1
    /\ UNCHANGED <<table, pool, work, ran, answer>>

-----------------------------------------------------------------------------
Init ==
    /\ status = [j \in Jobs |-> "none"]
    /\ attempts = [j \in Jobs |-> 0]
    /\ runAfter = [j \in Jobs |-> 0]
    /\ lockedBy = [j \in Jobs |-> NoOne]
    /\ loop = [p \in Pools |-> "new"]
    /\ cancelled = [p \in Pools |-> FALSE]
    /\ limit = [p \in Pools |-> 0]
    /\ claimed = [p \in Pools |-> {}]
    /\ active = [p \in Pools |-> 0]
    /\ work = {}
    /\ ran = [j \in Jobs |-> 0]
    /\ answer = [j \in Jobs |-> "none"]
    /\ now = 0

LoopStep(p) == Poll(p) \/ Claim(p) \/ ClaimFails(p) \/ Dispatch(p) \/ EndLoop(p)

WorkStep(g) == Process(g) \/ Return(g) \/ Settle(g) \/ Leave(g)

Next ==
    \/ \E j \in Jobs : Enqueue(j) \/ Cancel(j)
    \/ \E p \in Pools : Start(p) \/ LoopStep(p) \/ Stop(p) \/ Die(p)
    \/ \E g \in work : WorkStep(g)
    \/ Tick

Spec == Init /\ [][Next]_vars

\* The poll loops and the goroutines of the pools keep running, the statements and
\* the handlers return, a select that may take a branch again and again takes it
\* some time, and the clock goes on.  Nobody has to schedule, cancel or stop.
QueueFairness ==
    /\ \A p \in Pools : /\ WF_vars(Start(p)) /\ WF_vars(LoopStep(p))
                        /\ SF_vars(EndLoop(p))
    /\ \A g \in [pool : Pools, job : Jobs, attempt : 1..MaxAttempts,
               pc : {"start", "handler", "complete", "fail", "leave"}] :
         WF_vars(g \in work /\ WorkStep(g))
    /\ WF_vars(Tick)

FairSpec == Spec /\ QueueFairness

-----------------------------------------------------------------------------
Status == {"none", "queued", "running", "succeeded", "failed", "cancelled"}

WorkType == [pool : Pools, job : Jobs, attempt : Nat,
             pc : {"start", "handler", "complete", "fail", "leave"}]

\* The values of the variables; the table takes every status that is written to it.
TypeOK ==
    /\ status \in [Jobs -> Status] /\ attempts \in [Jobs -> Nat]
    /\ runAfter \in [Jobs -> Nat] /\ lockedBy \in [Jobs -> Pools \cup {NoOne}]
    /\ loop \in [Pools -> {"new", "waiting", "claiming", "dispatching", "ended", "dead"}]
    /\ cancelled \in [Pools -> BOOLEAN] /\ limit \in [Pools -> Nat]
    /\ claimed \in [Pools -> SUBSET Jobs] /\ active \in [Pools -> Int]
    /\ work \in SUBSET WorkType
    /\ ran \in [Jobs -> Nat] /\ answer \in [Jobs -> {"none", "scheduled", "failed"}]
    /\ now \in Nat

-----------------------------------------------------------------------------
(* Properties.                                                             *)

\* The goroutines that have not yet reported how their job went.
Unsettled == {g \in work : g.pc # "leave"}

\* Whoever is to report on a job still holds it: Complete and Fail, which do not
\* look at the lock, find the row as the claim left it.
HoldersOwnTheirJob ==
    /\ \A g \in Unsettled :
         /\ status[g.job] = "running" /\ lockedBy[g.job] = g.pool
         /\ attempts[g.job] = g.attempt
    /\ \A p \in Pools : \A j \in claimed[p] : status[j] = "running" /\ lockedBy[j] = p

\* No job is in the hands of two goroutines, or of a goroutine and a claim.
OneHolder ==
    /\ \A g, h \in Unsettled : g.job = h.job => g = h
    /\ \A g \in Unsettled, p \in Pools : g.job \notin claimed[p]
    /\ \A p, q \in Pools : p # q => claimed[p] \cap claimed[q] = {}

\* A pool never works on more than MaxWorkers jobs: active is looked at in one
\* critical section and counted up in others, with a claim in between.
WorkersAreBounded ==
    \A p \in Pools :
      LET mine == {g \in work : g.pool = p}
      IN  /\ active[p] = Cardinality(mine)
          /\ active[p] + Cardinality(claimed[p]) <= MaxWorkers
          /\ loop[p] = "claiming" => active[p] + limit[p] <= MaxWorkers

\* A handler is called at most once for an attempt, and a job fails for good only
\* after its last one.
AttemptsAreUsed ==
    \A j \in Jobs :
      /\ ran[j] <= attempts[j] /\ attempts[j] <= MaxAttempts
      /\ status[j] = "failed" => attempts[j] = MaxAttempts
      /\ status[j] \in {"none", "queued"} => attempts[j] < MaxAttempts

\* A handler that is yet to be called for the current attempt was not called for it.
NotYetRan ==
    /\ \A g \in work : g.pc = "start" => ran[g.job] < attempts[g.job]
    /\ \A p \in Pools : \A j \in claimed[p] : ran[j] < attempts[j]

\* What makes the four above and RefinesLifecycle inductive: the unguarded updates of
\* Complete and Fail only ever meet the row of the attempt they are about.
QueueInv == HoldersOwnTheirJob /\ OneHolder /\ AttemptsAreUsed /\ NotYetRan

\* A job is left running with nobody at work on it only where a statement failed
\* or its pool was stopped or died.  Nothing takes such a job up again.
LostJobsHaveACause ==
    \A j \in Jobs : status[j] = "running" =>
      \/ \E g \in Unsettled : g.job = j
      \/ \E p \in Pools : j \in claimed[p]
      \/ StoreFaults
      \/ lockedBy[j] \in Pools /\ (cancelled[lockedBy[j]] \/ loop[lockedBy[j]] = "dead")

\* A job that succeeded or was cancelled is not touched any more.
EndedIsFinal ==
    [][\A j \in Jobs : status[j] \in {"succeeded", "cancelled"}
          => UNCHANGED <<status[j], attempts[j], lockedBy[j], ran[j]>>]_vars

\* Each job goes through the life cycle of JobLifecycle.
Lifecycle == INSTANCE JobLifecycle WITH phase <- status, tries <- attempts

RefinesLifecycle == Lifecycle!Spec

\* On a database that works every scheduled job ends, unless the pool that works on
\* it is stopped or dies.
JobsEnd ==
    \A j \in Jobs : status[j] = "queued" ~>
      \/ status[j] \in {"succeeded", "failed", "cancelled"}
      \/ lockedBy[j] \in Pools /\ (cancelled[lockedBy[j]] \/ loop[lockedBy[j]] = "dead")

\* Stop returns, although the statements of a pool that is stopped may fail, unless
\* the process dies first.
StopReturns == \A p \in Pools : cancelled[p] ~> Stopped(p) \/ loop[p] = "dead"

\* The agent tool schedules jobs as long as the database works.
JobsCanBeScheduled == \A j \in Jobs : answer[j] # "failed"
=============================================================================
