--------------------------- MODULE JobQueueProofs ---------------------------
(***************************************************************************)
(* Proofs about JobQueue, for every number of jobs, pools, workers and     *)
(* attempts: its types, QueueInv, the properties in it, the refinement of  *)
(* JobLifecycle, the bound on the workers of a pool, and what a job that is *)
(* left running is due to.                                                 *)
(***************************************************************************)
EXTENDS GigiProcess, AppLifecycleProofs, FiniteSetTheorems, TLAPS

\* The clock never runs past its bound.
LEMMA AfterIsNat ==
  ASSUME TypeOK, NEW n \in Nat
  PROVE  After(n) \in Nat
<1>1. now \in Nat
  BY DEF TypeOK
<1>2. MaxTime \in Nat
  BY QueueAssumption
<1> QED
  BY <1>1, <1>2 DEF After

\* The back-off is a number of ticks.
LEMMA BackoffIsNat == \A n \in Nat : Backoff(n) \in Nat
BY DEF Backoff

\* A goroutine that moves on keeps its pool, its job and its attempt.
LEMMA BecomesFacts ==
  ASSUME TypeOK, NEW g \in work,
         NEW pc \in {"start", "handler", "complete", "fail", "leave"}, Becomes(g, pc)
  PROVE  \E h \in WorkType :
           /\ work' = (work \ {g}) \cup {h} /\ h.pc = pc
           /\ h.pool = g.pool /\ h.job = g.job /\ h.attempt = g.attempt
<1> DEFINE h == [g EXCEPT !.pc = pc]
<1>1. g \in WorkType
  BY DEF TypeOK
<1>2. /\ h \in WorkType /\ h.pc = pc
      /\ h.pool = g.pool /\ h.job = g.job /\ h.attempt = g.attempt
  BY <1>1 DEF WorkType
<1>3. work' = (work \ {g}) \cup {h}
  BY DEF Becomes
<1> HIDE DEF h
<1> QED
  BY <1>2, <1>3

\* A claim keeps the types of the table.
LEMMA TakeTypes ==
  ASSUME TypeOK, NEW p \in Pools, NEW batch \in SUBSET Jobs, Take(p, batch)
  PROVE  /\ status' \in [Jobs -> Status] /\ attempts' \in [Jobs -> Nat]
         /\ runAfter' \in [Jobs -> Nat] /\ lockedBy' \in [Jobs -> Pools \cup {NoOne}]
BY DEF TypeOK, Take, Status

\* A claim only gets jobs that are ready.
LEMMA BatchesAreReady ==
  ASSUME NEW skipped \in Skipped, NEW n, NEW batch \in Batches(Ready \ skipped, n)
  PROVE  batch \in SUBSET Ready /\ batch \in SUBSET Jobs
BY DEF Batches, Ready

\* The types hold initially.
LEMMA InitTypeOK == Init => TypeOK
BY DEF Init, TypeOK, Status

\* Every step keeps the types.
LEMMA NextTypeOK == TypeOK /\ [Next]_vars => TypeOK'
<1> SUFFICES ASSUME TypeOK, [Next]_vars
             PROVE  TypeOK'
  OBVIOUS
<1> USE DEF table, pool
<1>1. ASSUME NEW j \in Jobs, Enqueue(j)
      PROVE  TypeOK'
  <2>1. \A delay \in Delays : After(delay) \in Nat
    BY AfterIsNat, QueueAssumption
  <2> QED
    BY <1>1, <2>1 DEF Enqueue, TypeOK, Status
<1>2. ASSUME NEW j \in Jobs, Cancel(j)
      PROVE  TypeOK'
  BY <1>2 DEF Cancel, TypeOK, Status
<1>3. ASSUME NEW p \in Pools, Start(p) \/ EndLoop(p) \/ Stop(p)
      PROVE  TypeOK'
  BY <1>3 DEF Start, EndLoop, Stop, TypeOK
<1>4. ASSUME NEW p \in Pools, Poll(p)
      PROVE  TypeOK'
  BY <1>4, QueueAssumption DEF Poll, Available, TypeOK
<1>5. ASSUME NEW p \in Pools, Claim(p)
      PROVE  TypeOK'
  <2>1. PICK skipped \in Skipped : \E batch \in Batches(Ready \ skipped, limit[p]) :
          /\ Take(p, batch)
          /\ claimed' = [claimed EXCEPT ![p] = batch]
          /\ loop' = [loop EXCEPT ![p] = IF batch = {} THEN "waiting" ELSE "dispatching"]
    BY <1>5 DEF Claim
  <2>2. PICK batch \in Batches(Ready \ skipped, limit[p]) :
          /\ Take(p, batch)
          /\ claimed' = [claimed EXCEPT ![p] = batch]
          /\ loop' = [loop EXCEPT ![p] = IF batch = {} THEN "waiting" ELSE "dispatching"]
    BY <2>1
  <2>3. batch \in SUBSET Jobs
    BY BatchesAreReady
  <2> QED
    BY <1>5, <2>2, <2>3, TakeTypes DEF Claim, TypeOK
<1>6. ASSUME NEW p \in Pools, ClaimFails(p)
      PROVE  TypeOK'
  <2>1. \/ UNCHANGED table
        \/ \E batch \in SUBSET Jobs : Take(p, batch)
    BY <1>6, BatchesAreReady DEF ClaimFails
  <2>2. /\ status' \in [Jobs -> Status] /\ attempts' \in [Jobs -> Nat]
        /\ runAfter' \in [Jobs -> Nat] /\ lockedBy' \in [Jobs -> Pools \cup {NoOne}]
    BY <2>1, TakeTypes DEF TypeOK
  <2> QED
    BY <1>6, <2>2 DEF ClaimFails, TypeOK
<1>7. ASSUME NEW p \in Pools, Dispatch(p)
      PROVE  TypeOK'
  <2>1. PICK j \in claimed[p] :
          /\ work' = work \cup {[pool |-> p, job |-> j, attempt |-> attempts[j],
                                 pc |-> "start"]}
          /\ claimed' = [claimed EXCEPT ![p] = @ \ {j}]
          /\ loop' = [loop EXCEPT ![p] = IF claimed[p] = {j} THEN "waiting" ELSE @]
    BY <1>7 DEF Dispatch
  <2>2. j \in Jobs /\ attempts[j] \in Nat
    BY DEF TypeOK
  <2>3. [pool |-> p, job |-> j, attempt |-> attempts[j], pc |-> "start"] \in WorkType
    BY <2>2 DEF WorkType
  <2> QED
    BY <1>7, <2>1, <2>3 DEF Dispatch, TypeOK
<1>8. ASSUME NEW p \in Pools, Die(p)
      PROVE  TypeOK'
  BY <1>8 DEF Die, TypeOK
<1>9. ASSUME NEW g \in work, WorkStep(g)
      PROVE  TypeOK'
  <2>1. g \in WorkType /\ g.job \in Jobs /\ g.pool \in Pools
    BY DEF TypeOK, WorkType
  <2>2. CASE Process(g)
    <3>1. work' \in SUBSET WorkType
      BY <2>2, BecomesFacts DEF Process, TypeOK
    <3> QED
      BY <2>1, <2>2, <3>1 DEF Process, TypeOK
  <2>3. CASE Return(g)
    <3>1. work' \in SUBSET WorkType
      BY <2>3, BecomesFacts DEF Return, TypeOK
    <3> QED
      BY <2>1, <2>3, <3>1 DEF Return, TypeOK
  <2>4. CASE Settle(g)
    <3>1. work' \in SUBSET WorkType
      BY <2>4, BecomesFacts DEF Settle, TypeOK
    <3>2. CASE CompleteJob(g.job)
      BY <2>1, <2>4, <3>1, <3>2 DEF Settle, CompleteJob, TypeOK, Status
    <3>3. CASE FailJob(g.job)
      <4>1. After(Backoff(attempts[g.job])) \in Nat
        BY <2>1, AfterIsNat, BackoffIsNat DEF TypeOK
      <4> QED
        BY <2>1, <2>4, <3>1, <3>3, <4>1 DEF Settle, FailJob, TypeOK, Status
    <3>4. CASE UNCHANGED table
      BY <2>1, <2>4, <3>1, <3>4 DEF Settle, TypeOK
    <3> QED
      BY <2>4, <3>2, <3>3, <3>4 DEF Settle
  <2>5. CASE Leave(g)
    BY <2>1, <2>5 DEF Leave, TypeOK
  <2> QED
    BY <1>9, <2>2, <2>3, <2>4, <2>5 DEF WorkStep
<1>10. CASE Tick
  BY <1>10 DEF Tick, TypeOK
<1>11. CASE UNCHANGED vars
  BY <1>11 DEF vars, TypeOK
<1> QED
  BY <1>1, <1>2, <1>3, <1>4, <1>5, <1>6, <1>7, <1>8, <1>9, <1>10, <1>11
  DEF Next, LoopStep

\* Every variable keeps its type: the table is only given statuses it knows.
THEOREM TypeCorrect == Spec => []TypeOK
BY InitTypeOK, NextTypeOK, PTL DEF Spec

-----------------------------------------------------------------------------
(* QueueInv.                                                               *)

\* The invariant of the queue holds initially.
LEMMA InitQueueInv == Init => QueueInv
BY QueueAssumption
DEF Init, QueueInv, HoldersOwnTheirJob, OneHolder, AttemptsAreUsed, NotYetRan, Unsettled

\* The rows the holders hold are running.
LEMMA HeldRuns ==
  ASSUME QueueInv
  PROVE  /\ \A g \in Unsettled : status[g.job] = "running"
         /\ \A p \in Pools : \A j \in claimed[p] : status[j] = "running"
BY DEF QueueInv, HoldersOwnTheirJob

\* Whatever is done to the row of a job nobody holds, the holders stay owners.
LEMMA OthersRow ==
  ASSUME QueueInv, NEW j \in Jobs, status[j] # "running", UNCHANGED <<work, claimed>>,
         \A k \in Jobs : k # j => /\ status'[k] = status[k] /\ attempts'[k] = attempts[k]
                                 /\ lockedBy'[k] = lockedBy[k],
         TypeOK
  PROVE  HoldersOwnTheirJob' /\ OneHolder'
<1>1. \A g \in Unsettled : g.job \in Jobs /\ g.job # j
  BY HeldRuns DEF Unsettled, TypeOK, WorkType
<1>2. \A p \in Pools : \A k \in claimed[p] : k \in Jobs /\ k # j
  BY HeldRuns DEF TypeOK
<1>3. Unsettled' = Unsettled
  BY DEF Unsettled
<1>4. HoldersOwnTheirJob /\ OneHolder
  BY DEF QueueInv
<1>5. HoldersOwnTheirJob'
  BY <1>1, <1>2, <1>3, <1>4 DEF HoldersOwnTheirJob
<1>6. OneHolder'
  BY <1>3, <1>4 DEF OneHolder
<1> QED
  BY <1>5, <1>6

\* Nobody holds a job that is only now scheduled.
LEMMA EnqueueKeeps ==
  ASSUME TypeOK, QueueInv, NEW j \in Jobs, Enqueue(j)
  PROVE  QueueInv'
<1>1. /\ UNCHANGED <<attempts, lockedBy, work, claimed, ran>>
      /\ status[j] = "none"
      /\ status' = status \/ status' = [status EXCEPT ![j] = "queued"]
  BY DEF Enqueue, pool
<1>2. /\ \A k \in Jobs : k # j => status'[k] = status[k]
      /\ status'[j] \in {"none", "queued"}
  BY <1>1 DEF TypeOK
<1>3. HoldersOwnTheirJob' /\ OneHolder'
  BY <1>1, <1>2, OthersRow
<1>4. AttemptsAreUsed'
  BY <1>1, <1>2 DEF QueueInv, AttemptsAreUsed
<1>5. NotYetRan'
  BY <1>1 DEF QueueInv, NotYetRan
<1> QED
  BY <1>3, <1>4, <1>5 DEF QueueInv

\* Nobody holds a job that can be cancelled.
LEMMA CancelKeeps ==
  ASSUME TypeOK, QueueInv, NEW j \in Jobs, Cancel(j)
  PROVE  QueueInv'
<1>1. /\ UNCHANGED <<attempts, work, claimed, ran>>
      /\ status[j] \in {"queued", "failed"} /\ status'[j] = "cancelled"
      /\ \A k \in Jobs : k # j => /\ status'[k] = status[k] /\ lockedBy'[k] = lockedBy[k]
  BY DEF Cancel, Cancellable, pool, TypeOK
<1>2. HoldersOwnTheirJob' /\ OneHolder'
  BY <1>1, OthersRow
<1>3. AttemptsAreUsed'
  BY <1>1 DEF QueueInv, AttemptsAreUsed
<1>4. NotYetRan'
  BY <1>1 DEF QueueInv, NotYetRan
<1> QED
  BY <1>2, <1>3, <1>4 DEF QueueInv

\* The update of a claim, whether or not its result arrives.
LEMMA TakeKeeps ==
  ASSUME TypeOK, QueueInv, NEW p \in Pools, NEW batch \in SUBSET Ready, Take(p, batch),
         UNCHANGED <<work, ran>>,
         \/ claimed' = [claimed EXCEPT ![p] = batch]
         \/ claimed' = claimed
  PROVE  QueueInv'
<1>1. \A j \in batch : /\ j \in Jobs /\ status[j] = "queued" /\ attempts[j] < MaxAttempts
                       /\ status'[j] = "running" /\ lockedBy'[j] = p
                       /\ attempts'[j] = attempts[j] + 1
  BY DEF Ready, Take
<1>2. \A j \in Jobs \ batch : /\ status'[j] = status[j] /\ lockedBy'[j] = lockedBy[j]
                              /\ attempts'[j] = attempts[j]
  BY DEF Take
<1>3. \A j \in Jobs : attempts[j] \in Nat /\ ran[j] \in Nat
  BY DEF TypeOK
<1>4. \A g \in Unsettled : g.job \in Jobs \ batch
  BY <1>1, HeldRuns DEF Unsettled, TypeOK, WorkType
<1>5. \A q \in Pools : \A j \in claimed[q] : j \in Jobs \ batch
  BY <1>1, HeldRuns DEF TypeOK
<1>6. \A q \in Pools : claimed'[q] = claimed[q] \/ (q = p /\ claimed'[q] = batch)
  BY DEF TypeOK
<1>7. Unsettled' = Unsettled
  BY DEF Unsettled
<1>8. HoldersOwnTheirJob'
  BY <1>1, <1>2, <1>4, <1>5, <1>6, <1>7 DEF QueueInv, HoldersOwnTheirJob
<1>9. OneHolder'
  BY <1>4, <1>5, <1>6, <1>7 DEF QueueInv, OneHolder
<1>10. AttemptsAreUsed'
  <2>1. ASSUME NEW j \in batch
        PROVE  ran[j] <= attempts[j] + 1 /\ attempts[j] + 1 <= MaxAttempts
    BY <1>1, <1>3, QueueAssumption DEF QueueInv, AttemptsAreUsed
  <2> QED
    BY <1>1, <1>2, <2>1 DEF QueueInv, AttemptsAreUsed
<1>11. NotYetRan'
  <2>1. \A j \in batch : ran[j] < attempts[j] + 1
    BY <1>1, <1>3 DEF QueueInv, AttemptsAreUsed
  <2>2. \A g \in work : g.pc = "start" => g.job \in Jobs \ batch
    BY <1>4 DEF Unsettled
  <2> QED
    BY <1>1, <1>2, <1>5, <1>6, <2>1, <2>2 DEF QueueInv, NotYetRan
<1> QED
  BY <1>8, <1>9, <1>10, <1>11 DEF QueueInv

\* Dispatch hands a job from the claim to one goroutine.
LEMMA DispatchKeeps ==
  ASSUME TypeOK, QueueInv, NEW p \in Pools, Dispatch(p)
  PROVE  QueueInv'
<1>1. PICK j \in claimed[p] :
        /\ work' = work \cup {[pool |-> p, job |-> j, attempt |-> attempts[j],
                               pc |-> "start"]}
        /\ claimed' = [claimed EXCEPT ![p] = @ \ {j}]
  BY DEF Dispatch
<1> DEFINE h == [pool |-> p, job |-> j, attempt |-> attempts[j], pc |-> "start"]
<1>2. /\ UNCHANGED <<status, attempts, lockedBy, ran>>
      /\ work' = work \cup {h}
      /\ h.pool = p /\ h.job = j /\ h.attempt = attempts[j] /\ h.pc = "start"
  BY <1>1 DEF Dispatch, table
<1> HIDE DEF h
<1>3. claimed'[p] = claimed[p] \ {j} /\ \A q \in Pools : q # p => claimed'[q] = claimed[q]
  BY <1>1 DEF TypeOK
<1>4. Unsettled' = Unsettled \cup {h}
  BY <1>2 DEF Unsettled
<1>5. HoldersOwnTheirJob'
  BY <1>2, <1>3, <1>4 DEF QueueInv, HoldersOwnTheirJob
<1>6. OneHolder'
  BY <1>2, <1>3, <1>4 DEF QueueInv, OneHolder
<1>7. AttemptsAreUsed' /\ NotYetRan'
  BY <1>2, <1>3 DEF QueueInv, AttemptsAreUsed, NotYetRan
<1> QED
  BY <1>5, <1>6, <1>7 DEF QueueInv

\* The handler is called once by the goroutine that holds the job.
LEMMA ProcessKeeps ==
  ASSUME TypeOK, QueueInv, NEW g \in work, Process(g) \/ Return(g)
  PROVE  QueueInv'
<1>1. g \in Unsettled /\ g.job \in Jobs
  BY DEF Process, Return, Unsettled, TypeOK, WorkType
<1>2. PICK h \in WorkType :
        /\ work' = (work \ {g}) \cup {h} /\ h.pc \in {"handler", "complete", "fail"}
        /\ h.pool = g.pool /\ h.job = g.job /\ h.attempt = g.attempt
  BY BecomesFacts DEF Process, Return
<1>3. UNCHANGED <<status, attempts, lockedBy, claimed>>
  BY DEF Process, Return, table, pool
<1>4. Unsettled' = (Unsettled \ {g}) \cup {h}
  BY <1>2 DEF Unsettled
<1>5. HoldersOwnTheirJob'
  BY <1>1, <1>2, <1>3, <1>4 DEF QueueInv, HoldersOwnTheirJob
<1>6. OneHolder'
  BY <1>1, <1>2, <1>3, <1>4 DEF QueueInv, OneHolder
<1>7. \/ UNCHANGED ran
      \/ g.pc = "start" /\ ran' = [ran EXCEPT ![g.job] = @ + 1]
  BY DEF Process, Return
<1>8. \A k \in Jobs : ran[k] \in Nat /\ attempts[k] \in Nat
  BY DEF TypeOK
<1>9. \A k \in Jobs : ran'[k] = ran[k] \/ (k = g.job /\ g.pc = "start" /\ ran'[k] = ran[k] + 1)
  BY <1>7 DEF TypeOK
<1>10. AttemptsAreUsed'
  <2>1. g.pc = "start" => ran[g.job] + 1 <= attempts[g.job]
    BY <1>1, <1>8 DEF QueueInv, NotYetRan
  <2> QED
    BY <1>3, <1>9, <2>1 DEF QueueInv, AttemptsAreUsed
<1>11. NotYetRan'
  <2>1. ASSUME NEW k \in work', k.pc = "start"
        PROVE  ran'[k.job] < attempts[k.job]
    <3>1. k \in work /\ k # g /\ k \in Unsettled /\ k.job \in Jobs
      BY <1>2, <2>1 DEF Unsettled, TypeOK, WorkType
    <3>2. k.job # g.job
      BY <1>1, <3>1 DEF QueueInv, OneHolder
    <3> QED
      BY <1>9, <2>1, <3>1, <3>2 DEF QueueInv, NotYetRan
  <2>2. ASSUME NEW q \in Pools, NEW k \in claimed[q]
        PROVE  ran'[k] < attempts[k]
    <3>1. k # g.job /\ k \in Jobs
      BY <1>1 DEF QueueInv, OneHolder, TypeOK
    <3> QED
      BY <1>9, <3>1 DEF QueueInv, NotYetRan
  <2> QED
    BY <1>3, <2>1, <2>2 DEF NotYetRan
<1> QED
  BY <1>5, <1>6, <1>10, <1>11 DEF QueueInv

\* A report on a job reaches the row of the attempt it is about.
LEMMA SettleKeeps ==
  ASSUME TypeOK, QueueInv, NEW g \in work, Settle(g)
  PROVE  QueueInv'
<1>1. g \in Unsettled /\ g.job \in Jobs
  BY DEF Settle, Unsettled, TypeOK, WorkType
<1>2. PICK h \in WorkType : work' = (work \ {g}) \cup {h} /\ h.pc = "leave"
  BY BecomesFacts DEF Settle
<1>3. /\ UNCHANGED <<attempts, claimed, ran>>
      /\ \A k \in Jobs : k # g.job => status'[k] = status[k] /\ lockedBy'[k] = lockedBy[k]
      /\ \/ status'[g.job] \in {"succeeded", "running"}
         \/ status'[g.job] = "queued" /\ attempts[g.job] < MaxAttempts
         \/ status'[g.job] = "failed" /\ ~(attempts[g.job] < MaxAttempts)
  <2>1. status[g.job] = "running"
    BY <1>1, HeldRuns
  <2> QED
    BY <1>1, <2>1 DEF Settle, CompleteJob, FailJob, MayRetry, table, pool, TypeOK
<1>4. Unsettled' = Unsettled \ {g}
  BY <1>2 DEF Unsettled
<1>5. \A k \in Unsettled' : k \in Unsettled /\ k.job \in Jobs /\ k.job # g.job
  BY <1>1, <1>4 DEF QueueInv, OneHolder, Unsettled, TypeOK, WorkType
<1>6. \A q \in Pools : \A k \in claimed[q] : k # g.job /\ k \in Jobs
  BY <1>1 DEF QueueInv, OneHolder, TypeOK
<1>7. HoldersOwnTheirJob'
  BY <1>3, <1>5, <1>6 DEF QueueInv, HoldersOwnTheirJob
<1>8. OneHolder'
  BY <1>3, <1>4 DEF QueueInv, OneHolder
<1>9. AttemptsAreUsed'
  <2>1. attempts[g.job] \in Nat /\ attempts[g.job] <= MaxAttempts /\ MaxAttempts \in Nat
    BY <1>1, QueueAssumption DEF QueueInv, AttemptsAreUsed, TypeOK
  <2>2. ~(attempts[g.job] < MaxAttempts) => attempts[g.job] = MaxAttempts
    BY <2>1
  <2> QED
    BY <1>3, <2>2 DEF QueueInv, AttemptsAreUsed
<1>10. NotYetRan'
  BY <1>2, <1>3 DEF QueueInv, NotYetRan
<1> QED
  BY <1>7, <1>8, <1>9, <1>10 DEF QueueInv

\* Every step keeps the invariant of the queue.
LEMMA NextQueueInv == TypeOK /\ QueueInv /\ [Next]_vars => QueueInv'
<1> SUFFICES ASSUME TypeOK, QueueInv, [Next]_vars
             PROVE  QueueInv'
  OBVIOUS
<1>1. CASE /\ UNCHANGED <<table, ran>>
           /\ work' \subseteq work
           /\ \A p \in Pools : claimed'[p] \subseteq claimed[p]
  <2>1. Unsettled' \subseteq Unsettled
    BY <1>1 DEF Unsettled
  <2> QED
    BY <1>1, <2>1 DEF table, QueueInv, HoldersOwnTheirJob, OneHolder, AttemptsAreUsed, NotYetRan
<1>2. ASSUME NEW p \in Pools, Start(p) \/ Poll(p) \/ EndLoop(p) \/ Stop(p) \/ Die(p)
      PROVE  QueueInv'
  <2>1. \A q \in Pools : claimed'[q] \subseteq claimed[q]
    BY <1>2 DEF Start, Poll, EndLoop, Stop, Die, TypeOK
  <2> QED
    BY <1>1, <1>2, <2>1 DEF Start, Poll, EndLoop, Stop, Die
<1>3. ASSUME NEW p \in Pools, Claim(p)
      PROVE  QueueInv'
  <2>1. PICK skipped \in Skipped : \E batch \in Batches(Ready \ skipped, limit[p]) :
          Take(p, batch) /\ claimed' = [claimed EXCEPT ![p] = batch]
    BY <1>3 DEF Claim
  <2>2. PICK batch \in Batches(Ready \ skipped, limit[p]) :
          Take(p, batch) /\ claimed' = [claimed EXCEPT ![p] = batch]
    BY <2>1
  <2>3. batch \in SUBSET Ready /\ UNCHANGED <<work, ran>>
    BY <1>3, BatchesAreReady DEF Claim
  <2> QED
    BY <2>2, <2>3, TakeKeeps
<1>4. ASSUME NEW p \in Pools, ClaimFails(p)
      PROVE  QueueInv'
  <2>1. UNCHANGED <<work, ran, claimed>>
    BY <1>4 DEF ClaimFails
  <2>2. CASE UNCHANGED table
    BY <1>1, <2>1, <2>2
  <2>3. CASE \E batch \in SUBSET Ready : Take(p, batch)
    BY <2>1, <2>3, TakeKeeps
  <2> QED
    BY <1>4, <2>2, <2>3, BatchesAreReady DEF ClaimFails
<1>5. ASSUME NEW g \in work, Leave(g)
      PROVE  QueueInv'
  BY <1>1, <1>5 DEF Leave
<1>6. CASE Tick \/ UNCHANGED vars
  BY <1>1, <1>6 DEF Tick, vars, pool
<1> QED
  BY <1>2, <1>3, <1>4, <1>5, <1>6, EnqueueKeeps, CancelKeeps, DispatchKeeps, ProcessKeeps,
     SettleKeeps DEF Next, LoopStep, WorkStep

\* The invariant of the queue: reports on a job only ever come from the one
\* goroutine that holds it.
THEOREM QueueCorrect == Spec => []QueueInv
<1>1. Init => TypeOK /\ QueueInv
  BY InitTypeOK, InitQueueInv
<1>2. TypeOK /\ QueueInv /\ [Next]_vars => (TypeOK /\ QueueInv)'
  BY NextTypeOK, NextQueueInv
<1> QED
  BY <1>1, <1>2, PTL DEF Spec

-----------------------------------------------------------------------------
(* What follows from the invariant.                                        *)

\* Complete and Fail only ever meet the row as the claim of the job left it,
\* although their where clause does not look at the lock.
THEOREM HoldersAlwaysOwn == Spec => []HoldersOwnTheirJob
BY QueueCorrect, PTL DEF QueueInv

\* No two goroutines, of one pool or of two, have a job in their hands.
THEOREM OneHolderAlways == Spec => []OneHolder
BY QueueCorrect, PTL DEF QueueInv

\* At most MaxAttempts handler calls for a job, and no fewer attempts before it
\* fails for good.
THEOREM AttemptsAlwaysUsed == Spec => []AttemptsAreUsed
BY QueueCorrect, PTL DEF QueueInv

\* The steps of the pools that leave the status and the attempts of a job, and the
\* calls of its handler, alone.
LEMMA QuietSteps ==
  ASSUME \/ \E p \in Pools : Start(p) \/ Poll(p) \/ EndLoop(p) \/ Stop(p) \/ Die(p) \/ Dispatch(p)
         \/ \E g \in work : Return(g) \/ Leave(g)
         \/ Tick
         \/ UNCHANGED vars
  PROVE  UNCHANGED <<table, ran>>
BY DEF Start, Poll, EndLoop, Stop, Die, Dispatch, Return, Leave, Tick, vars, pool, table

\* What a statement of the claim does to the table, whether its answer is lost or not.
LEMMA ClaimTakes ==
  ASSUME NEW p \in Pools, Claim(p) \/ ClaimFails(p)
  PROVE  UNCHANGED ran /\ (UNCHANGED table \/ \E batch \in SUBSET Ready : Take(p, batch))
<1>1. ASSUME NEW skipped \in Skipped,
             \E batch \in Batches(Ready \ skipped, limit[p]) : Take(p, batch)
      PROVE  \E batch \in SUBSET Ready : Take(p, batch)
  BY <1>1, BatchesAreReady
<1> QED
  BY <1>1 DEF Claim, ClaimFails

\* A job that ended is in nobody's hands, so no report and no call of its handler
\* can reach it any more.
LEMMA EndedStep ==
  ASSUME TypeOK, QueueInv, [Next]_vars, NEW j \in Jobs,
         status[j] \in {"succeeded", "cancelled"}
  PROVE  UNCHANGED <<status[j], attempts[j], lockedBy[j], ran[j]>>
<1>1. CASE UNCHANGED <<table, ran>>
  BY <1>1 DEF table
<1>2. ASSUME NEW k \in Jobs, Enqueue(k) \/ Cancel(k)
      PROVE  UNCHANGED <<status[j], attempts[j], lockedBy[j], ran[j]>>
  BY <1>2 DEF Enqueue, Cancel, Cancellable, TypeOK
<1>3. ASSUME NEW p \in Pools, Claim(p) \/ ClaimFails(p)
      PROVE  UNCHANGED <<status[j], attempts[j], lockedBy[j], ran[j]>>
  <2>1. ASSUME NEW batch \in SUBSET Ready, Take(p, batch), UNCHANGED ran
        PROVE  UNCHANGED <<status[j], attempts[j], lockedBy[j], ran[j]>>
    <3>1. j \notin batch
      BY DEF Ready
    <3> QED
      BY <2>1, <3>1 DEF Take
  <2> QED
    BY <1>1, <1>3, <2>1, ClaimTakes
<1>4. ASSUME NEW g \in work, Process(g) \/ Settle(g)
      PROVE  UNCHANGED <<status[j], attempts[j], lockedBy[j], ran[j]>>
  <2>1. g \in Unsettled /\ g.job \in Jobs
    BY <1>4 DEF Process, Settle, Unsettled, TypeOK, WorkType
  <2>2. g.job # j
    BY <2>1 DEF QueueInv, HoldersOwnTheirJob
  <2> QED
    BY <1>4, <2>1, <2>2 DEF Process, Settle, CompleteJob, FailJob, table, TypeOK
<1> QED
  BY <1>1, <1>2, <1>3, <1>4, QuietSteps DEF Next, LoopStep, WorkStep

\* A job that succeeded or was cancelled is not touched any more: no report that
\* comes late, and no claim.
THEOREM EndedStaysFinal == Spec => EndedIsFinal
<1>1. TypeOK /\ QueueInv /\ [Next]_vars
        => [\A j \in Jobs : status[j] \in {"succeeded", "cancelled"}
              => UNCHANGED <<status[j], attempts[j], lockedBy[j], ran[j]>>]_vars
  BY EndedStep
<1> QED
  BY <1>1, TypeCorrect, QueueCorrect, PTL DEF Spec, EndedIsFinal

-----------------------------------------------------------------------------
(* The refinement of JobLifecycle.                                         *)

\* A report on a job ends its attempt.
LEMMA SettleEndsAttempt ==
  ASSUME TypeOK, QueueInv, NEW g \in work, Settle(g)
  PROVE  Lifecycle!Next \/ UNCHANGED <<status, attempts>>
<1>1. g \in Unsettled /\ g.job \in Jobs
  BY DEF Settle, Unsettled, TypeOK, WorkType
<1>2. status[g.job] = "running" /\ attempts[g.job] \in Nat /\ attempts[g.job] <= MaxAttempts
  BY <1>1 DEF QueueInv, HoldersOwnTheirJob, AttemptsAreUsed, TypeOK
<1>3. MaxAttempts \in Nat
  BY QueueAssumption
<1>4. CASE CompleteJob(g.job)
  <2>1. Lifecycle!Succeed(g.job)
    BY <1>2, <1>4 DEF CompleteJob, Lifecycle!Succeed, Lifecycle!Move
  <2> QED
    BY <1>1, <2>1 DEF Lifecycle!Next
<1>5. CASE FailJob(g.job) /\ MayRetry(g.job)
  <2>1. Lifecycle!Retry(g.job)
    BY <1>2, <1>5 DEF FailJob, MayRetry, Lifecycle!Retry, Lifecycle!Move
  <2> QED
    BY <1>1, <2>1 DEF Lifecycle!Next
<1>6. CASE FailJob(g.job) /\ ~MayRetry(g.job)
  <2>1. attempts[g.job] = MaxAttempts
    BY <1>2, <1>3, <1>6 DEF MayRetry
  <2>2. Lifecycle!Exhaust(g.job)
    BY <1>2, <1>6, <2>1 DEF FailJob, Lifecycle!Exhaust, Lifecycle!Move
  <2> QED
    BY <1>1, <2>2 DEF Lifecycle!Next
<1> QED
  BY <1>4, <1>5, <1>6 DEF Settle, table

\* A claim begins an attempt at each job of its batch.
LEMMA TakeBegins ==
  ASSUME TypeOK, NEW p \in Pools, NEW batch \in SUBSET Ready, Take(p, batch)
  PROVE  Lifecycle!Next
<1>1. batch \in SUBSET Jobs /\ \A j \in batch : status[j] = "queued" /\ attempts[j] < MaxAttempts
  BY DEF Ready
<1>2. Lifecycle!Begin(batch)
  BY <1>1 DEF Take, Lifecycle!Begin
<1> QED
  BY <1>1, <1>2 DEF Lifecycle!Next

\* The rows of the jobs table go through the life cycle JobLifecycle describes, with
\* two processes polling, lost answers, stops and crashes.
THEOREM RefinementHolds == Spec => RefinesLifecycle
<1>1. Init => Lifecycle!Init
  BY DEF Init, Lifecycle!Init
<1>2. TypeOK /\ QueueInv /\ [Next]_vars => [Lifecycle!Next]_(Lifecycle!vars)
  <2> SUFFICES ASSUME TypeOK, QueueInv, [Next]_vars
               PROVE  Lifecycle!Next \/ UNCHANGED <<status, attempts>>
    BY DEF Lifecycle!vars
  <2>1. CASE UNCHANGED <<table, ran>>
    BY <2>1 DEF table
  <2>2. ASSUME NEW j \in Jobs, Enqueue(j)
        PROVE  Lifecycle!Next \/ UNCHANGED <<status, attempts>>
    <3>1. Lifecycle!Submit(j) \/ UNCHANGED <<status, attempts>>
      BY <2>2 DEF Enqueue, Lifecycle!Submit, Lifecycle!Move
    <3> QED
      BY <3>1 DEF Lifecycle!Next
  <2>3. ASSUME NEW j \in Jobs, Cancel(j)
        PROVE  Lifecycle!Next
    <3>1. Lifecycle!Cancel(j)
      BY <2>3 DEF Cancel, Cancellable, Lifecycle!Cancel, Lifecycle!Move
    <3> QED
      BY <3>1 DEF Lifecycle!Next
  <2>4. ASSUME NEW p \in Pools, Claim(p) \/ ClaimFails(p)
        PROVE  Lifecycle!Next \/ UNCHANGED <<status, attempts>>
    BY <2>4, ClaimTakes, TakeBegins DEF table
  <2>5. ASSUME NEW g \in work, Process(g)
        PROVE  UNCHANGED <<status, attempts>>
    BY <2>5 DEF Process, table
  <2> QED
    BY <2>1, <2>2, <2>3, <2>4, <2>5, QuietSteps, SettleEndsAttempt
       DEF Next, LoopStep, WorkStep
<1> QED
  BY <1>1, <1>2, TypeCorrect, QueueCorrect, PTL DEF Spec, RefinesLifecycle, Lifecycle!Spec

-----------------------------------------------------------------------------
(* The workers of a pool.                                                  *)

Mine(p) == {g \in work : g.pool = p}

\* The counter of a pool against its goroutines, and what it may still start.
PoolOK(p) ==
    /\ IsFiniteSet(Mine(p)) /\ active[p] = Cardinality(Mine(p))
    /\ active[p] + Cardinality(claimed[p]) <= MaxWorkers
    /\ loop[p] = "claiming" => active[p] + limit[p] <= MaxWorkers

PoolInv == \A p \in Pools : PoolOK(p)

Held(j) == (\E g \in Unsettled : g.job = j) \/ (\E p \in Pools : j \in claimed[p])

\* A goroutine that has reported is about an earlier attempt than whoever holds
\* its job now: so no goroutine ever turns into one that is already there.
LeftInv ==
    \A g \in work : g.pc = "leave" =>
      /\ g.attempt <= attempts[g.job]
      /\ Held(g.job) => g.attempt < attempts[g.job]

\* What is claimed can be counted.
LEMMA ClaimedIsFinite ==
  ASSUME TypeOK, NEW p \in Pools
  PROVE  IsFiniteSet(claimed[p]) /\ Cardinality(claimed[p]) \in Nat
<1>1. IsFiniteSet(Jobs) /\ claimed[p] \in SUBSET Jobs
  BY QueueAssumption DEF TypeOK
<1>2. IsFiniteSet(claimed[p])
  BY <1>1, FS_Subset
<1> QED
  BY <1>2, FS_CardinalityType

\* The same after a step that keeps the types.
LEMMA ClaimedAfter ==
  ASSUME TypeOK', NEW p \in Pools
  PROVE  Cardinality(claimed'[p]) \in Nat
<1>1. IsFiniteSet(Jobs) /\ claimed'[p] \in SUBSET Jobs
  BY QueueAssumption DEF TypeOK
<1>2. IsFiniteSet(claimed'[p])
  BY <1>1, FS_Subset
<1> QED
  BY <1>2, FS_CardinalityType

\* The step of a goroutine that still has its job.
LEMMA WorkMoves ==
  ASSUME TypeOK, QueueInv, LeftInv, NEW g \in work, Process(g) \/ Return(g) \/ Settle(g)
  PROVE  \E h \in WorkType :
           /\ work' = (work \ {g}) \cup {h} /\ h \notin work \ {g}
           /\ h.pool = g.pool /\ h.job = g.job /\ h.attempt = g.attempt
           /\ g \in Unsettled /\ (h.pc = "leave" <=> Settle(g))
           /\ attempts' = attempts /\ UNCHANGED pool
<1>1. g \in Unsettled /\ g.job \in Jobs
  BY DEF Process, Return, Settle, Unsettled, TypeOK, WorkType
<1>2. PICK h \in WorkType :
        /\ work' = (work \ {g}) \cup {h} /\ h.pc # g.pc
        /\ h.pool = g.pool /\ h.job = g.job /\ h.attempt = g.attempt
        /\ h.pc = "leave" <=> Settle(g)
  <2>1. CASE Process(g)
    BY <2>1, BecomesFacts DEF Process, Settle
  <2>2. CASE Return(g)
    BY <2>2, BecomesFacts DEF Return, Settle
  <2>3. CASE Settle(g)
    BY <2>3, BecomesFacts DEF Settle
  <2> QED
    BY <2>1, <2>2, <2>3
<1>3. ASSUME h \in work \ {g}
      PROVE  FALSE
  <2>1. CASE h.pc = "leave"
    <3>1. h.attempt < attempts[g.job] /\ g.attempt = attempts[g.job] /\ attempts[g.job] \in Nat
      BY <1>1, <1>2, <1>3, <2>1 DEF LeftInv, Held, QueueInv, HoldersOwnTheirJob, TypeOK
    <3> QED
      BY <1>2, <3>1
  <2>2. CASE h.pc # "leave"
    BY <1>1, <1>2, <1>3, <2>2 DEF Unsettled, QueueInv, OneHolder
  <2> QED
    BY <2>1, <2>2
<1>4. attempts' = attempts /\ UNCHANGED pool
  BY DEF Process, Return, Settle, CompleteJob, FailJob, table
<1> QED
  BY <1>1, <1>2, <1>3, <1>4

\* A claim, whether or not its result arrives, is a new attempt.
LEMMA TakeLeft ==
  ASSUME TypeOK, QueueInv, LeftInv, NEW p \in Pools, NEW batch \in SUBSET Ready,
         Take(p, batch), UNCHANGED work,
         \/ claimed' = [claimed EXCEPT ![p] = batch]
         \/ claimed' = claimed
  PROVE  LeftInv'
<1> SUFFICES ASSUME NEW g \in work, g.pc = "leave"
             PROVE  /\ g.attempt <= attempts'[g.job]
                    /\ Held(g.job)' => g.attempt < attempts'[g.job]
  BY DEF LeftInv
<1>1. g.job \in Jobs /\ g.attempt \in Nat /\ attempts[g.job] \in Nat
  BY DEF TypeOK, WorkType
<1>2. attempts'[g.job] = IF g.job \in batch THEN attempts[g.job] + 1 ELSE attempts[g.job]
  BY <1>1 DEF Take
<1>3. Held(g.job)' => Held(g.job) \/ g.job \in batch
  BY DEF Held, Unsettled, TypeOK
<1> QED
  BY <1>1, <1>2, <1>3 DEF LeftInv

\* Every step keeps LeftInv.
LEMMA NextLeft ==
  ASSUME TypeOK, QueueInv, LeftInv, [Next]_vars
  PROVE  LeftInv'
<1>1. CASE /\ UNCHANGED attempts /\ work' \subseteq work
           /\ \A p \in Pools : claimed'[p] \subseteq claimed[p]
  <2>1. \A j : Held(j)' => Held(j)
    BY <1>1 DEF Held, Unsettled
  <2> QED
    BY <1>1, <2>1 DEF LeftInv
<1>2. ASSUME NEW j \in Jobs, Enqueue(j) \/ Cancel(j)
      PROVE  LeftInv'
  BY <1>1, <1>2 DEF Enqueue, Cancel, pool
<1>3. ASSUME NEW p \in Pools, Start(p) \/ Poll(p) \/ EndLoop(p) \/ Stop(p) \/ Die(p)
      PROVE  LeftInv'
  <2>1. \A q \in Pools : claimed'[q] \subseteq claimed[q]
    BY <1>3 DEF Start, Poll, EndLoop, Stop, Die, TypeOK
  <2> QED
    BY <1>1, <1>3, <2>1 DEF Start, Poll, EndLoop, Stop, Die, table
<1>4. ASSUME NEW p \in Pools, Claim(p)
      PROVE  LeftInv'
  <2>1. PICK skipped \in Skipped : \E batch \in Batches(Ready \ skipped, limit[p]) :
          Take(p, batch) /\ claimed' = [claimed EXCEPT ![p] = batch]
    BY <1>4 DEF Claim
  <2>2. PICK batch \in Batches(Ready \ skipped, limit[p]) :
          Take(p, batch) /\ claimed' = [claimed EXCEPT ![p] = batch]
    BY <2>1
  <2>3. batch \in SUBSET Ready /\ UNCHANGED work
    BY <1>4, BatchesAreReady DEF Claim
  <2> QED
    BY <2>2, <2>3, TakeLeft
<1>5. ASSUME NEW p \in Pools, ClaimFails(p)
      PROVE  LeftInv'
  <2>1. UNCHANGED <<work, claimed>>
    BY <1>5 DEF ClaimFails
  <2>2. CASE UNCHANGED table
    BY <1>1, <2>1, <2>2 DEF table
  <2>3. CASE \E batch \in SUBSET Ready : Take(p, batch)
    BY <2>1, <2>3, TakeLeft
  <2> QED
    BY <1>5, <2>2, <2>3, BatchesAreReady DEF ClaimFails
<1>6. ASSUME NEW p \in Pools, Dispatch(p)
      PROVE  LeftInv'
  <2>1. PICK j \in claimed[p] :
          /\ work' = work \cup {[pool |-> p, job |-> j, attempt |-> attempts[j],
                                 pc |-> "start"]}
          /\ claimed' = [claimed EXCEPT ![p] = @ \ {j}]
    BY <1>6 DEF Dispatch
  <2> DEFINE h == [pool |-> p, job |-> j, attempt |-> attempts[j], pc |-> "start"]
  <2>2. work' = work \cup {h} /\ h.job = j /\ h.pc = "start" /\ attempts' = attempts
    BY <1>6, <2>1 DEF Dispatch, table
  <2> HIDE DEF h
  <2>3. \A i : Held(i)' => Held(i)
    BY <2>1, <2>2 DEF Held, Unsettled, TypeOK
  <2> QED
    BY <2>2, <2>3 DEF LeftInv
<1>7. ASSUME NEW g \in work, Process(g) \/ Return(g) \/ Settle(g)
      PROVE  LeftInv'
  <2>1. PICK h \in WorkType :
           /\ work' = (work \ {g}) \cup {h}
           /\ h.job = g.job /\ h.attempt = g.attempt
           /\ g \in Unsettled /\ (h.pc = "leave" <=> Settle(g))
           /\ attempts' = attempts /\ UNCHANGED pool
    BY <1>7, WorkMoves
  <2>2. \A i : Held(i)' => Held(i)
    BY <2>1 DEF Held, Unsettled, pool
  <2>3. h.pc = "leave" => h.attempt <= attempts[h.job] /\ ~Held(h.job)'
    <3>1. h.attempt = attempts[h.job] /\ attempts[h.job] \in Nat
      BY <2>1 DEF QueueInv, HoldersOwnTheirJob, TypeOK, WorkType
    <3>2. h.pc = "leave" => ~Held(h.job)'
      BY <2>1 DEF Held, Unsettled, QueueInv, OneHolder, pool
    <3> QED
      BY <3>1, <3>2
  <2>4. \A k \in work' : k = h \/ k \in work
    BY <2>1
  <2> QED
    BY <2>1, <2>2, <2>3, <2>4 DEF LeftInv
<1>8. ASSUME NEW g \in work, Leave(g)
      PROVE  LeftInv'
  BY <1>1, <1>8 DEF Leave, table
<1>9. CASE Tick \/ UNCHANGED vars
  BY <1>1, <1>9 DEF Tick, vars, pool, table
<1> QED
  BY <1>2, <1>3, <1>4, <1>5, <1>6, <1>7, <1>8, <1>9 DEF Next, LoopStep, WorkStep

\* A step of a goroutine that keeps its job leaves the number of goroutines.
LEMMA WorkPool ==
  ASSUME TypeOK, QueueInv, LeftInv, PoolInv,
         NEW g \in work, Process(g) \/ Return(g) \/ Settle(g), NEW q \in Pools
  PROVE  PoolOK(q)'
<1>1. PICK h \in WorkType :
         /\ work' = (work \ {g}) \cup {h} /\ h \notin work \ {g}
         /\ h.pool = g.pool /\ UNCHANGED pool
  BY WorkMoves
<1>2. PoolOK(q) /\ UNCHANGED <<active[q], claimed[q], loop[q], limit[q]>>
  BY <1>1 DEF PoolInv, pool
<1>3. IsFiniteSet(Mine(q)') /\ Cardinality(Mine(q)') = Cardinality(Mine(q))
  <2>1. CASE q = g.pool
    <3>1. Mine(q)' = (Mine(q) \ {g}) \cup {h} /\ h \notin Mine(q) \ {g} /\ g \in Mine(q)
      BY <1>1, <2>1 DEF Mine
    <3>2. IsFiniteSet(Mine(q))
      BY <1>2 DEF PoolOK
    <3>3. /\ IsFiniteSet(Mine(q) \ {g})
          /\ Cardinality(Mine(q) \ {g}) = Cardinality(Mine(q)) - 1
          /\ Cardinality(Mine(q)) \in Nat
      BY <3>1, <3>2, FS_RemoveElement, FS_CardinalityType
    <3>4. /\ IsFiniteSet((Mine(q) \ {g}) \cup {h})
          /\ Cardinality((Mine(q) \ {g}) \cup {h}) = Cardinality(Mine(q) \ {g}) + 1
      BY <3>1, <3>3, FS_AddElement
    <3> QED
      BY <3>1, <3>3, <3>4
  <2>2. CASE q # g.pool
    <3>1. Mine(q)' = Mine(q)
      BY <1>1, <2>2 DEF Mine
    <3> QED
      BY <1>2, <3>1 DEF PoolOK
  <2> QED
    BY <2>1, <2>2
<1> QED
  BY <1>2, <1>3 DEF PoolOK

\* The goroutine that leaves counts the counter down.
LEMMA LeavePool ==
  ASSUME TypeOK, PoolInv, NEW g \in work, Leave(g), NEW q \in Pools
  PROVE  PoolOK(q)'
<1>1. /\ UNCHANGED <<claimed, loop, limit>> /\ g.pool \in Pools
      /\ work' = work \ {g} /\ active' = [active EXCEPT ![g.pool] = @ - 1]
  BY DEF Leave, TypeOK, WorkType
<1>2. PoolOK(q) /\ IsFiniteSet(Mine(q)) /\ Cardinality(claimed[q]) \in Nat
  BY ClaimedIsFinite DEF PoolInv, PoolOK
<1>3. CASE q = g.pool
  <2>1. Mine(q)' = Mine(q) \ {g} /\ g \in Mine(q)
    BY <1>1, <1>3 DEF Mine
  <2>2. /\ IsFiniteSet(Mine(q) \ {g}) /\ Cardinality(Mine(q)) \in Nat
        /\ Cardinality(Mine(q) \ {g}) = Cardinality(Mine(q)) - 1
    BY <1>2, <2>1, FS_RemoveElement, FS_CardinalityType
  <2>3. active'[q] = active[q] - 1 /\ limit[q] \in Nat /\ MaxWorkers \in Nat
    BY <1>1, <1>3, QueueAssumption DEF TypeOK
  <2>4. IsFiniteSet(Mine(q)') /\ active'[q] = Cardinality(Mine(q)')
    BY <1>2, <2>1, <2>2, <2>3 DEF PoolOK
  <2> QED
    BY <1>1, <1>2, <2>2, <2>3, <2>4 DEF PoolOK
<1>4. CASE q # g.pool
  <2>1. Mine(q)' = Mine(q) /\ active'[q] = active[q]
    BY <1>1, <1>4 DEF Mine, TypeOK
  <2> QED
    BY <1>1, <1>2, <2>1 DEF PoolOK
<1> QED
  BY <1>3, <1>4

\* Dispatch counts the counter up, and the goroutine it starts is a new one.
LEMMA DispatchPool ==
  ASSUME TypeOK, QueueInv, PoolInv, NEW p \in Pools, Dispatch(p), NEW q \in Pools
  PROVE  PoolOK(q)'
<1>1. PICK j \in claimed[p] :
        /\ work' = work \cup {[pool |-> p, job |-> j, attempt |-> attempts[j],
                               pc |-> "start"]}
        /\ claimed' = [claimed EXCEPT ![p] = @ \ {j}]
        /\ loop' = [loop EXCEPT ![p] = IF claimed[p] = {j} THEN "waiting" ELSE @]
  BY DEF Dispatch
<1> DEFINE h == [pool |-> p, job |-> j, attempt |-> attempts[j], pc |-> "start"]
<1>2. /\ work' = work \cup {h} /\ h.pool = p /\ h.job = j /\ h.pc = "start"
      /\ active' = [active EXCEPT ![p] = @ + 1] /\ limit' = limit
      /\ loop[p] = "dispatching"
  BY <1>1 DEF Dispatch
<1> HIDE DEF h
<1>3. PoolOK(q) /\ IsFiniteSet(Mine(q)) /\ IsFiniteSet(claimed[q])
      /\ Cardinality(claimed[q]) \in Nat
  BY ClaimedIsFinite DEF PoolInv, PoolOK
<1>4. h \notin work
  BY <1>2 DEF QueueInv, OneHolder, Unsettled
<1>5. CASE q = p
  <2>1. Mine(q)' = Mine(q) \cup {h} /\ h \notin Mine(q)
    BY <1>2, <1>4, <1>5 DEF Mine
  <2>2. /\ IsFiniteSet(Mine(q) \cup {h}) /\ Cardinality(Mine(q)) \in Nat
        /\ Cardinality(Mine(q) \cup {h}) = Cardinality(Mine(q)) + 1
    BY <1>3, <2>1, FS_AddElement, FS_CardinalityType
  <2>3. claimed'[q] = claimed[q] \ {j} /\ active'[q] = active[q] + 1 /\ loop'[q] # "claiming"
    BY <1>1, <1>2, <1>5 DEF TypeOK
  <2>4. Cardinality(claimed[q] \ {j}) = Cardinality(claimed[q]) - 1
    BY <1>1, <1>3, <1>5, FS_RemoveElement
  <2>5. IsFiniteSet(Mine(q)') /\ active'[q] = Cardinality(Mine(q)')
    BY <1>3, <2>1, <2>2, <2>3 DEF PoolOK
  <2>6. active'[q] + Cardinality(claimed'[q]) <= MaxWorkers
    <3>1. active[q] + Cardinality(claimed[q]) <= MaxWorkers /\ active[q] \in Nat
      BY <1>3, <2>2 DEF PoolOK
    <3> QED
      BY <1>3, <2>3, <2>4, <3>1, QueueAssumption
  <2> QED
    BY <2>3, <2>5, <2>6 DEF PoolOK
<1>6. CASE q # p
  <2>1. Mine(q)' = Mine(q)
    BY <1>2, <1>6 DEF Mine
  <2>2. UNCHANGED <<active[q], claimed[q], loop[q], limit[q]>>
    BY <1>1, <1>2, <1>6 DEF TypeOK
  <2> QED
    BY <1>3, <2>1, <2>2 DEF PoolOK
<1> QED
  BY <1>5, <1>6

\* The critical section that decides how many jobs to claim, and the claim.
LEMMA ClaimPool ==
  ASSUME TypeOK, PoolInv, NEW p \in Pools, Poll(p) \/ Claim(p) \/ ClaimFails(p), NEW q \in Pools
  PROVE  PoolOK(q)'
<1>1. work' = work /\ active' = active
  BY DEF Poll, Claim, ClaimFails
<1>2. Mine(q)' = Mine(q)
  BY <1>1 DEF Mine
<1>3. PoolOK(q) /\ Cardinality(claimed[q]) \in Nat /\ active[q] \in Int
  BY ClaimedIsFinite DEF PoolInv, TypeOK
<1>4. CASE q # p
  <2>1. UNCHANGED <<claimed[q], loop[q], limit[q]>>
    BY <1>4 DEF Poll, Claim, ClaimFails, TypeOK
  <2> QED
    BY <1>1, <1>2, <1>3, <2>1 DEF PoolOK
<1>5. CASE q = p /\ Poll(p)
  <2>1. limit'[q] = MaxWorkers - active[q] /\ claimed' = claimed
    BY <1>5 DEF Poll, Available, TypeOK
  <2>2. active[q] + limit'[q] <= MaxWorkers
    BY <1>3, <2>1, QueueAssumption
  <2> QED
    BY <1>1, <1>2, <1>3, <2>1, <2>2 DEF PoolOK
<1>6. CASE q = p /\ Claim(p)
  <2>1. \E batch : /\ Cardinality(batch) <= limit[q]
                   /\ claimed'[q] = batch /\ loop'[q] # "claiming"
    BY <1>6 DEF Claim, Batches, TypeOK
  <2>2. active[q] + limit[q] <= MaxWorkers /\ limit[q] \in Nat
    BY <1>3, <1>6 DEF Claim, PoolOK, TypeOK
  <2>3. TypeOK'
    BY <1>6, NextTypeOK DEF Next, LoopStep
  <2>4. Cardinality(claimed'[q]) \in Nat
    BY <2>3, ClaimedAfter
  <2>5. active[q] + Cardinality(claimed'[q]) <= MaxWorkers
    BY <1>3, <2>1, <2>2, <2>4, QueueAssumption
  <2> QED
    BY <1>1, <1>2, <1>3, <2>1, <2>5 DEF PoolOK
<1>7. CASE q = p /\ ClaimFails(p)
  <2>1. claimed' = claimed /\ loop'[q] # "claiming"
    BY <1>7 DEF ClaimFails, TypeOK
  <2> QED
    BY <1>1, <1>2, <1>3, <2>1 DEF PoolOK
<1> QED
  BY <1>4, <1>5, <1>6, <1>7

\* The other steps of a pool; a process that dies takes its goroutines with it.
LEMMA EndPool ==
  ASSUME TypeOK, PoolInv, NEW p \in Pools, Start(p) \/ EndLoop(p) \/ Stop(p) \/ Die(p),
         NEW q \in Pools
  PROVE  PoolOK(q)'
<1>1. PoolOK(q) /\ MaxWorkers \in Nat
  BY QueueAssumption DEF PoolInv
<1>2. CASE q = p /\ Die(p)
  <2>1. Mine(q)' = {} /\ claimed'[q] = {} /\ active'[q] = 0 /\ loop'[q] # "claiming"
    BY <1>2 DEF Die, Mine, TypeOK
  <2>2. IsFiniteSet(Mine(q)') /\ active'[q] = Cardinality(Mine(q)')
    BY <2>1, FS_EmptySet
  <2>3. active'[q] + Cardinality(claimed'[q]) <= MaxWorkers
    BY <1>1, <2>1, FS_EmptySet
  <2> QED
    BY <2>1, <2>2, <2>3 DEF PoolOK
<1>3. CASE q # p /\ Die(p)
  <2>1. Mine(q)' = Mine(q)
    BY <1>3 DEF Die, Mine
  <2>2. UNCHANGED <<active[q], claimed[q], loop[q], limit[q]>>
    BY <1>3 DEF Die, TypeOK
  <2> QED
    BY <1>1, <2>1, <2>2 DEF PoolOK
<1>4. CASE Start(p) \/ EndLoop(p) \/ Stop(p)
  <2>1. Mine(q)' = Mine(q)
    BY <1>4 DEF Start, EndLoop, Stop, Mine
  <2>2. UNCHANGED <<active[q], claimed[q], limit[q]>> /\ loop'[q] \in {loop[q], "waiting", "ended"}
    BY <1>4 DEF Start, EndLoop, Stop, TypeOK
  <2> QED
    BY <1>1, <2>1, <2>2 DEF PoolOK
<1> QED
  BY <1>2, <1>3, <1>4

LEMMA NextPool ==
  ASSUME TypeOK, QueueInv, LeftInv, PoolInv, [Next]_vars
  PROVE  PoolInv'
<1> SUFFICES ASSUME NEW q \in Pools
             PROVE  PoolOK(q)'
  BY DEF PoolInv
<1>1. CASE UNCHANGED <<pool, work>>
  <2>1. Mine(q)' = Mine(q)
    BY <1>1 DEF Mine
  <2> QED
    BY <1>1, <2>1 DEF PoolInv, PoolOK, pool
<1>2. ASSUME NEW j \in Jobs, Enqueue(j) \/ Cancel(j)
      PROVE  PoolOK(q)'
  BY <1>1, <1>2 DEF Enqueue, Cancel
<1>3. CASE Tick \/ UNCHANGED vars
  BY <1>1, <1>3 DEF Tick, vars
<1> QED
  BY <1>2, <1>3, WorkPool, LeavePool, DispatchPool, ClaimPool, EndPool
  DEF Next, LoopStep, WorkStep

\* No interleaving of the poll loop with the goroutines it starts has a pool work
\* on more than MaxWorkers jobs, although the number of free workers is looked up
\* before the claim (WorkerPool.pollAndDispatch).
THEOREM WorkersAlwaysBounded == Spec => []WorkersAreBounded
<1>1. Init => LeftInv /\ PoolInv
  <2> SUFFICES ASSUME Init, NEW p \in Pools
               PROVE  LeftInv /\ PoolOK(p)
    BY DEF PoolInv, LeftInv, Init
  <2>1. Mine(p) = {} /\ claimed[p] = {} /\ active[p] = 0 /\ loop[p] = "new"
    BY DEF Init, Mine
  <2>2. IsFiniteSet({}) /\ Cardinality({}) = 0 /\ MaxWorkers \in Nat
    BY FS_EmptySet, QueueAssumption
  <2> QED
    BY <2>1, <2>2 DEF PoolOK, LeftInv, Init
<1>2. TypeOK /\ QueueInv /\ LeftInv /\ PoolInv /\ [Next]_vars => (LeftInv /\ PoolInv)'
  BY NextLeft, NextPool
<1>3. PoolInv => WorkersAreBounded
  BY DEF PoolInv, PoolOK, WorkersAreBounded, Mine
<1> QED
  BY <1>1, <1>2, <1>3, TypeCorrect, QueueCorrect, PTL DEF Spec

-----------------------------------------------------------------------------
(* The jobs nobody works on.                                               *)

\* What a job left running may be due to.
Caused(j) ==
    \/ StoreFaults
    \/ lockedBy[j] \in Pools /\ (cancelled[lockedBy[j]] \/ loop[lockedBy[j]] = "dead")

LostInv ==
    \A j \in Jobs : status[j] = "running" => Table.maxAttempts /\ (Held(j) \/ Caused(j))

\* A pool that was stopped stays stopped, and one that died stays dead.
LEMMA CausesStay ==
  ASSUME TypeOK, [Next]_vars, NEW p \in Pools
  PROVE  /\ cancelled[p] => cancelled'[p]
         /\ loop[p] = "dead" => loop'[p] = "dead"
<1>1. CASE UNCHANGED pool
  BY <1>1 DEF pool
<1>2. ASSUME NEW q \in Pools, Start(q) \/ LoopStep(q) \/ Stop(q) \/ Die(q)
      PROVE  /\ cancelled[p] => cancelled'[p]
             /\ loop[p] = "dead" => loop'[p] = "dead"
  BY <1>2 DEF Start, LoopStep, Poll, Claim, ClaimFails, Dispatch, EndLoop, Stop, Die, TypeOK
<1>3. ASSUME NEW g \in work, WorkStep(g)
      PROVE  UNCHANGED <<loop, cancelled>>
  BY <1>3 DEF WorkStep, Process, Return, Settle, Leave, pool
<1> QED
  BY <1>1, <1>2, <1>3 DEF Next, Enqueue, Cancel, Tick, vars

\* Where the row of a running job stays as it is, only its holder may be gone.
LEMMA RowStays ==
  ASSUME TypeOK, [Next]_vars, LostInv, NEW j \in Jobs, status'[j] = "running",
         status[j] = "running", lockedBy'[j] = lockedBy[j], Held(j) => Held(j)' \/ Caused(j)'
  PROVE  Table.maxAttempts /\ (Held(j)' \/ Caused(j)')
<1>1. Caused(j) => Caused(j)'
  BY CausesStay DEF Caused
<1> QED
  BY <1>1 DEF LostInv

\* The update of a claim: its batch is held, or the pool has a reason to lose it.
LEMMA TakeLost ==
  ASSUME TypeOK, QueueInv, [Next]_vars, LostInv, NEW p \in Pools, NEW batch \in SUBSET Ready,
         Take(p, batch), Table.maxAttempts, UNCHANGED <<work, cancelled>>,
         \/ claimed' = [claimed EXCEPT ![p] = batch] /\ claimed[p] = {}
         \/ claimed' = claimed /\ (StoreFaults \/ cancelled[p])
  PROVE  LostInv'
<1> SUFFICES ASSUME NEW j \in Jobs, status'[j] = "running"
             PROVE  Table.maxAttempts /\ (Held(j)' \/ Caused(j)')
  BY DEF LostInv
<1>1. CASE j \in batch
  <2>1. lockedBy'[j] = p
    BY <1>1 DEF Take
  <2>2. claimed'[p] = batch \/ StoreFaults \/ cancelled'[p]
    BY DEF TypeOK
  <2> QED
    BY <1>1, <2>1, <2>2 DEF Held, Caused
<1>2. CASE j \notin batch
  <2>1. status[j] = "running" /\ lockedBy'[j] = lockedBy[j]
    BY <1>2 DEF Take
  <2>2. \A k \in batch : status[k] # "running"
    BY DEF Ready
  <2>3. \A q \in Pools : j \in claimed[q] => j \in claimed'[q] \/ q = p
    BY DEF TypeOK
  <2>4. Held(j) => Held(j)'
    <3>1. claimed' = claimed => (Held(j) => Held(j)')
      BY DEF Held, Unsettled
    <3>2. claimed' = [claimed EXCEPT ![p] = batch] /\ claimed[p] = {} => (Held(j) => Held(j)')
      BY <2>3 DEF Held, Unsettled
    <3> QED
      BY <3>1, <3>2
  <2> QED
    BY <2>1, <2>4, RowStays
<1> QED
  BY <1>1, <1>2

\* The report on a job, which the update of a pool that is stopped may not follow.
LEMMA SettleLost ==
  ASSUME TypeOK, QueueInv, [Next]_vars, LostInv, NEW g \in work, Settle(g)
  PROVE  LostInv'
<1> SUFFICES ASSUME NEW j \in Jobs, status'[j] = "running"
             PROVE  Table.maxAttempts /\ (Held(j)' \/ Caused(j)')
  BY DEF LostInv
<1>1. g \in Unsettled /\ g.job \in Jobs /\ g.pool \in Pools
  BY DEF Settle, Unsettled, TypeOK, WorkType
<1>2. /\ status[g.job] = "running" /\ lockedBy[g.job] = g.pool
      /\ Table.maxAttempts
  BY <1>1 DEF QueueInv, HoldersOwnTheirJob, LostInv
<1>3. UNCHANGED <<loop, cancelled, claimed>> /\ Becomes(g, "leave")
  BY DEF Settle, pool
<1>4. CASE j = g.job
  <2>1. UNCHANGED table /\ (StoreFaults \/ cancelled[g.pool])
    <3>1. ~CompleteJob(j) /\ ~FailJob(j)
      BY <1>4 DEF CompleteJob, FailJob, TypeOK
    <3> QED
      BY <1>2, <1>4, <3>1 DEF Settle, Fails
  <2> QED
    BY <1>1, <1>2, <1>3, <1>4, <2>1 DEF Caused, table
<1>5. CASE j # g.job
  <2>1. status'[j] = status[j] /\ lockedBy'[j] = lockedBy[j]
    BY <1>5 DEF Settle, CompleteJob, FailJob, TypeOK, table
  <2>2. Held(j) => Held(j)'
    <3>1. ASSUME NEW h \in Unsettled, h.job = j
          PROVE  h \in Unsettled'
      BY <1>3, <1>5, <3>1 DEF Becomes, Unsettled
    <3> QED
      BY <1>3, <3>1 DEF Held
  <2> QED
    BY <2>1, <2>2, RowStays
<1> QED
  BY <1>4, <1>5

\* A pool only has jobs in hand while it dispatches them.
Dispatching == \A p \in Pools : claimed[p] # {} => loop[p] = "dispatching"

LEMMA NextDispatching == TypeOK /\ Dispatching /\ [Next]_vars => Dispatching'
<1> SUFFICES ASSUME TypeOK, Dispatching, [Next]_vars, NEW p \in Pools, claimed'[p] # {}
             PROVE  loop'[p] = "dispatching"
  BY DEF Dispatching
<1>1. CASE UNCHANGED <<claimed, loop>>
  BY <1>1 DEF Dispatching
<1>2. ASSUME NEW q \in Pools, Start(q) \/ Poll(q) \/ ClaimFails(q) \/ EndLoop(q) \/ Stop(q)
      PROVE  loop'[p] = "dispatching"
  BY <1>2 DEF Dispatching, Start, Poll, ClaimFails, EndLoop, Stop, TypeOK
<1>3. ASSUME NEW q \in Pools, Claim(q) \/ Dispatch(q) \/ Die(q)
      PROVE  loop'[p] = "dispatching"
  <2>1. CASE p # q
    <3>1. claimed'[p] = claimed[p] /\ loop'[p] = loop[p]
      BY <1>3, <2>1 DEF Claim, Dispatch, Die, TypeOK
    <3> QED
      BY <3>1 DEF Dispatching
  <2>2. CASE p = q /\ Claim(q)
    <3>1. \E batch : /\ claimed'[p] = batch
                     /\ loop'[p] = IF batch = {} THEN "waiting" ELSE "dispatching"
      BY <2>2 DEF Claim, TypeOK
    <3> QED
      BY <3>1
  <2>3. CASE p = q /\ Dispatch(q)
    <3>1. PICK j \in claimed[p] :
            /\ claimed' = [claimed EXCEPT ![p] = @ \ {j}]
            /\ loop' = [loop EXCEPT ![p] = IF claimed[p] = {j} THEN "waiting" ELSE @]
      BY <2>3 DEF Dispatch
    <3>2. claimed[p] # {j} /\ loop[p] = "dispatching"
      BY <2>3, <3>1 DEF Dispatch, TypeOK
    <3> QED
      BY <3>1, <3>2 DEF TypeOK
  <2>4. CASE p = q /\ Die(q)
    BY <2>4 DEF Die, TypeOK
  <2> QED
    BY <1>3, <2>1, <2>2, <2>3, <2>4
<1>4. ASSUME NEW g \in work, WorkStep(g)
      PROVE  UNCHANGED <<claimed, loop>>
  BY <1>4 DEF WorkStep, Process, Return, Settle, Leave, pool
<1> QED
  BY <1>1, <1>2, <1>3, <1>4 DEF Next, LoopStep, Enqueue, Cancel, Tick, vars, pool

\* Every step keeps LostInv.
LEMMA NextLost ==
  ASSUME TypeOK, QueueInv, LeftInv, Dispatching, LostInv, [Next]_vars
  PROVE  LostInv'
<1>1. CASE /\ UNCHANGED <<status, lockedBy>>
           /\ \A j \in Jobs : status[j] = "running" /\ Held(j) => Held(j)' \/ Caused(j)'
  BY <1>1, RowStays DEF LostInv
<1>2. ASSUME NEW j \in Jobs, Enqueue(j) \/ Cancel(j)
      PROVE  LostInv'
  <2>1. status'[j] # "running" /\ UNCHANGED pool
        /\ \A k \in Jobs : k # j => status'[k] = status[k] /\ lockedBy'[k] = lockedBy[k]
    BY <1>2 DEF Enqueue, Cancel, Cancellable, TypeOK
  <2>2. \A k : Held(k)' <=> Held(k)
    BY <1>2 DEF Enqueue, Cancel, pool, Held, Unsettled
  <2> QED
    BY <2>1, <2>2, RowStays DEF LostInv
<1>3. ASSUME NEW p \in Pools, Start(p) \/ Poll(p) \/ EndLoop(p) \/ Stop(p)
      PROVE  LostInv'
  <2>1. \A j : Held(j)' <=> Held(j)
    BY <1>3 DEF Start, Poll, EndLoop, Stop, Held, Unsettled
  <2> QED
    BY <1>1, <1>3, <2>1 DEF Start, Poll, EndLoop, Stop, table
<1>4. ASSUME NEW p \in Pools, Die(p)
      PROVE  LostInv'
  <2>1. loop'[p] = "dead" /\ UNCHANGED <<status, lockedBy>>
    BY <1>4 DEF Die, table, TypeOK
  <2>2. ASSUME NEW j \in Jobs, Held(j), ~Held(j)'
        PROVE  lockedBy[j] = p
    <3>1. \A g \in Unsettled : g.pool # p => g \in Unsettled'
      BY <1>4 DEF Die, Unsettled
    <3>2. \A q \in Pools : q # p => claimed'[q] = claimed[q]
      BY <1>4 DEF Die, TypeOK
    <3> QED
      BY <2>2, <3>1, <3>2 DEF Held, QueueInv, HoldersOwnTheirJob
  <2> QED
    BY <1>1, <2>1, <2>2 DEF Caused
<1>5. ASSUME NEW p \in Pools, Claim(p)
      PROVE  LostInv'
  <2>1. PICK skipped \in Skipped : \E batch \in Batches(Ready \ skipped, limit[p]) :
          Take(p, batch) /\ claimed' = [claimed EXCEPT ![p] = batch]
    BY <1>5 DEF Claim
  <2>2. PICK batch \in Batches(Ready \ skipped, limit[p]) :
          Take(p, batch) /\ claimed' = [claimed EXCEPT ![p] = batch]
    BY <2>1
  <2>3. /\ batch \in SUBSET Ready /\ UNCHANGED <<work, cancelled>>
        /\ Table.maxAttempts /\ claimed[p] = {}
    BY <1>5, BatchesAreReady DEF Claim, Dispatching
  <2> QED
    BY <2>2, <2>3, TakeLost
<1>6. ASSUME NEW p \in Pools, ClaimFails(p)
      PROVE  LostInv'
  <2>1. UNCHANGED <<work, claimed, cancelled, loop>> \/ UNCHANGED <<work, claimed, cancelled>>
    BY <1>6 DEF ClaimFails
  <2>2. CASE UNCHANGED table
    <3>1. \A j : Held(j)' <=> Held(j)
      BY <2>1 DEF Held, Unsettled
    <3> QED
      BY <1>1, <2>2, <3>1 DEF table
  <2>3. CASE Table.maxAttempts /\ \E batch \in SUBSET Ready : Take(p, batch)
    <3>1. StoreFaults \/ cancelled[p]
      BY <1>6, <2>3 DEF ClaimFails, Fails
    <3> QED
      BY <2>1, <2>3, <3>1, TakeLost
  <2> QED
    BY <1>6, <2>2, <2>3, BatchesAreReady DEF ClaimFails
<1>7. ASSUME NEW p \in Pools, Dispatch(p)
      PROVE  LostInv'
  <2>1. PICK j \in claimed[p] :
          /\ work' = work \cup {[pool |-> p, job |-> j, attempt |-> attempts[j],
                                 pc |-> "start"]}
          /\ claimed' = [claimed EXCEPT ![p] = @ \ {j}]
    BY <1>7 DEF Dispatch
  <2> DEFINE h == [pool |-> p, job |-> j, attempt |-> attempts[j], pc |-> "start"]
  <2>2. work' = work \cup {h} /\ h.job = j /\ h.pc = "start"
    BY <2>1
  <2> HIDE DEF h
  <2>3. h \in Unsettled' /\ \A g \in Unsettled : g \in Unsettled'
    BY <2>2 DEF Unsettled
  <2>4. \A q \in Pools : \A k \in claimed[q] : k = j \/ k \in claimed'[q]
    BY <2>1 DEF TypeOK
  <2>5. \A k : Held(k) => Held(k)'
    BY <2>2, <2>3, <2>4 DEF Held
  <2> QED
    BY <1>1, <1>7, <2>5 DEF Dispatch, table
<1>8. ASSUME NEW g \in work, Process(g) \/ Return(g)
      PROVE  LostInv'
  <2>1. PICK h \in WorkType :
           /\ work' = (work \ {g}) \cup {h} /\ h.job = g.job
           /\ (h.pc = "leave" <=> Settle(g)) /\ UNCHANGED pool
    BY <1>8, WorkMoves
  <2>2. ~Settle(g) /\ UNCHANGED table
    BY <1>8 DEF Process, Return, Settle
  <2>3. \A k : Held(k) => Held(k)'
    BY <2>1, <2>2 DEF Held, Unsettled, pool
  <2> QED
    BY <1>1, <2>2, <2>3 DEF table
<1>9. ASSUME NEW g \in work, Leave(g)
      PROVE  LostInv'
  <2>1. Unsettled' = Unsettled
    BY <1>9 DEF Leave, Unsettled
  <2> QED
    BY <1>1, <1>9, <2>1 DEF Leave, Held, table
<1>10. CASE Tick \/ UNCHANGED vars
  BY <1>1, <1>10 DEF Tick, vars, pool, table, Held, Unsettled
<1> QED
  BY <1>2, <1>3, <1>4, <1>5, <1>6, <1>7, <1>8, <1>9, <1>10, SettleLost
  DEF Next, LoopStep, WorkStep

\* A job that is running with nobody at work on it is only ever due to a failed
\* statement, or to the stop or death of the pool that claimed it (Claim, Settle).
THEOREM LostAlwaysHaveACause == Spec => []LostJobsHaveACause
<1>1. Init => LeftInv /\ Dispatching /\ LostInv
  BY DEF Init, LeftInv, Dispatching, LostInv
<1>2. TypeOK /\ QueueInv /\ LeftInv /\ Dispatching /\ LostInv /\ [Next]_vars
        => (LeftInv /\ Dispatching /\ LostInv)'
  BY NextLeft, NextDispatching, NextLost
<1>3. LostInv => LostJobsHaveACause
  BY DEF LostInv, LostJobsHaveACause, Held, Caused
<1> QED
  BY <1>1, <1>2, <1>3, TypeCorrect, QueueCorrect, PTL DEF Spec

-----------------------------------------------------------------------------
(* A process with its pool.                                                *)

\* Whatever main does to the pool Own is a step of the queue, or none.
LEMMA ProcessSteps == [ProcessNext]_processVars => [Next]_vars
<1> SUFFICES ASSUME [ProcessNext]_processVars
             PROVE  [Next]_vars
  OBVIOUS
<1>1. Own \in Pools
  BY OwnAssumption, QueueAssumption
<1>2. CASE ProcessStep
  BY <1>1, <1>2 DEF ProcessStep, Next
<1>3. CASE CancelPool
  BY <1>1, <1>3 DEF CancelPool, Next
<1>4. CASE Crash
  BY <1>1, <1>4 DEF Crash, Next
<1>5. CASE World
  BY <1>5 DEF World
<1>6. CASE QueueStep
  BY <1>6 DEF QueueStep, Next
<1>7. CASE UNCHANGED processVars
  BY <1>7 DEF processVars
<1> QED
  BY <1>2, <1>3, <1>4, <1>5, <1>6, <1>7 DEF ProcessNext

\* The pool of a process behaves as one of JobQueue: what is proved of the queue
\* holds while main starts, stops and takes down the pool Own.
THEOREM ProcessRunsTheQueue == ProcessSpec => Spec
<1>1. ProcessInit => Init
  BY DEF ProcessInit
<1> QED
  BY <1>1, ProcessSteps, PTL DEF ProcessSpec, Spec

\* A crash leaves the resources as they are and main nowhere.
LEMMA CrashKeeps ==
  ASSUME LifeTypeOK, LifeInv, Crash
  PROVE  LifeTypeOK' /\ LifeInv'
BY DEF Crash, LifeTypeOK, LifeInv, MainSteps, WorkersDone, GatewayDone, Exited

LEMMA ProcessLife ==
  LifeTypeOK /\ LifeInv /\ [ProcessNext]_processVars => LifeTypeOK' /\ LifeInv'
<1> SUFFICES ASSUME LifeTypeOK, LifeInv, [ProcessNext]_processVars
             PROVE  LifeTypeOK' /\ LifeInv'
  OBVIOUS
<1>1. CASE Crash
  BY <1>1, CrashKeeps
<1>2. CASE ~Crash
  <2>1. [LifeNext]_lifeVars
    BY <1>2 DEF ProcessNext, ProcessStep, CancelPool, World, QueueStep, processVars,
       LifeNext, MainStep
  <2> QED
    BY <2>1, LifeKeeps
<1> QED
  BY <1>1, <1>2

\* Main is past a call of WorkerPool.Stop.
PastStop == {"down_wait", "down_db", "down_server", "fail_wait", "fail_db", "exit0", "exit1"}

\* The loop is new until main starts it, and gone where main has stopped it.
StopInv ==
  /\ loop[Own] = "new" => main = "jobs"
  /\ main \in PastStop => PoolIsGone

\* Nothing of a pool comes back once its loop has ended and its goroutines have.
LEMMA GoneStaysGone ==
  ASSUME TypeOK, PoolIsGone, [Next]_vars
  PROVE  PoolIsGone'
<1>1. Own \in Pools
  BY OwnAssumption, QueueAssumption
<1>2. ASSUME NEW j \in Jobs, Enqueue(j) \/ Cancel(j)
      PROVE  PoolIsGone'
  BY <1>2 DEF PoolIsGone, Enqueue, Cancel, pool
<1>3. ASSUME NEW p \in Pools, Start(p) \/ Stop(p) \/ Die(p)
      PROVE  PoolIsGone'
  BY <1>1, <1>3 DEF PoolIsGone, Start, Stop, Die, TypeOK
<1>4. ASSUME NEW p \in Pools, Poll(p) \/ Claim(p) \/ ClaimFails(p) \/ EndLoop(p)
      PROVE  PoolIsGone'
  <2>1. UNCHANGED work /\ loop[p] \in {"waiting", "claiming"}
    BY <1>4 DEF Poll, Claim, ClaimFails, EndLoop
  <2>2. \A q \in Pools : q # p => loop'[q] = loop[q]
    BY <1>4 DEF Poll, Claim, ClaimFails, EndLoop, TypeOK
  <2> QED
    BY <1>1, <2>1, <2>2 DEF PoolIsGone
<1>5. ASSUME NEW p \in Pools, Dispatch(p)
      PROVE  PoolIsGone'
  <2>1. p # Own
    BY <1>5 DEF Dispatch, PoolIsGone
  <2>2. loop'[Own] = loop[Own]
    BY <1>1, <1>5, <2>1 DEF Dispatch, TypeOK
  <2>3. \A g \in work' : g \in work \/ g.pool = p
    BY <1>5 DEF Dispatch
  <2> QED
    BY <2>1, <2>2, <2>3 DEF PoolIsGone
<1>6. ASSUME NEW g \in work, WorkStep(g)
      PROVE  PoolIsGone'
  <2>1. UNCHANGED loop
    BY <1>6 DEF WorkStep, Process, Return, Settle, Leave, pool
  <2>2. CASE Leave(g)
    BY <2>1, <2>2 DEF PoolIsGone, Leave
  <2>3. CASE ~Leave(g)
    <3>1. \E pc \in {"start", "handler", "complete", "fail", "leave"} : Becomes(g, pc)
      BY <1>6, <2>3 DEF WorkStep, Process, Return, Settle
    <3>2. \A h \in work' : h \in work \/ h.pool = g.pool
      BY <3>1, BecomesFacts
    <3> QED
      BY <2>1, <3>2 DEF PoolIsGone
  <2> QED
    BY <2>2, <2>3
<1>7. CASE Tick \/ UNCHANGED vars
  BY <1>7 DEF PoolIsGone, Tick, vars, pool
<1> QED
  BY <1>2, <1>3, <1>4, <1>5, <1>6, <1>7 DEF Next, LoopStep

LEMMA NextStopInv ==
  ASSUME TypeOK, LifeTypeOK, StopInv, [ProcessNext]_processVars
  PROVE  StopInv'
<1>1. Own \in Pools
  BY OwnAssumption, QueueAssumption
<1>2. CASE ProcessStep
  <2>1. CASE StartJobs /\ Start(Own)
    BY <1>1, <2>1 DEF StartJobs, Start, StopInv, PastStop, TypeOK
  <2>2. CASE MainStep /\ main # "jobs" /\ Waited /\ UNCHANGED vars
    <3>1. main' \in PastStop => main \in PastStop \cup StopSteps
      BY <2>2 DEF MainStep, StartJobs, OpenGateway, SyncCommands, StartFailed, Serve,
         RunReturns, BeginClose, CloseAnswered, CloseGivesUp, StopJobs, CloseDatabase,
         StopServer, PastStop, StopSteps, CloseSteps, CloseWait, AfterClose, AfterCloseError
    <3>2. loop' = loop /\ work' = work
      BY <2>2 DEF vars, pool
    <3>3. main \in StopSteps => PoolIsGone
      BY <2>2 DEF Waited, Stopped, PoolIsGone
    <3> QED
      BY <2>2, <3>1, <3>2, <3>3 DEF StopInv, PoolIsGone
  <2> QED
    BY <1>2, <2>1, <2>2 DEF ProcessStep
<1>3. CASE Crash
  <2>1. PoolIsGone'
    BY <1>1, <1>3 DEF Crash, Die, PoolIsGone, TypeOK
  <2> QED
    BY <1>1, <2>1 DEF StopInv, PoolIsGone
<1>4. CASE World
  BY <1>4 DEF World, Signal, Deadline, ServerFails, SessionCloses, StopInv, PoolIsGone,
     vars, pool
<1>5. CASE CancelPool \/ QueueStep \/ UNCHANGED processVars
  <2>1. main' = main
    BY <1>5 DEF CancelPool, QueueStep, lifeVars, processVars
  <2>2. loop'[Own] = "new" => loop[Own] = "new"
    BY <1>1, <1>5 DEF CancelPool, QueueStep, processVars, vars, pool, Enqueue, Cancel,
       LoopStep, Poll, Claim, ClaimFails, Dispatch, EndLoop, Start, Stop, Die, WorkStep,
       Process, Return, Settle, Leave, Tick, TypeOK
  <2>3. [Next]_vars
    BY ProcessSteps
  <2> QED
    BY <2>1, <2>2, <2>3, GoneStaysGone DEF StopInv
<1> QED
  BY <1>2, <1>3, <1>4, <1>5 DEF ProcessNext

\* Shutdown and the failure paths of Run close the database, and leave, only after
\* the pool's loop and goroutines are gone, however a crash, a signal, a failing
\* server and jobs under way fall together; and ShutdownReleases holds, with its
\* exception of a failed server.
THEOREM WorkersAlwaysEndFirst == ProcessSpec => [](WorkersEndFirst /\ ShutdownReleases)
<1>1. ProcessInit => LifeTypeOK /\ LifeInv /\ StopInv
  BY LifeStarts DEF ProcessInit, LifeInit, StopInv, PastStop
<1>2. LifeInv /\ StopInv => WorkersEndFirst /\ ShutdownReleases
  BY DEF LifeInv, StopInv, PastStop, WorkersEndFirst, Exited, ShutdownReleases,
     WorkersDone, GatewayDone
<1>3. LifeTypeOK /\ LifeInv /\ [ProcessNext]_processVars => (LifeTypeOK /\ LifeInv)'
  BY ProcessLife
<1>4. TypeOK /\ LifeTypeOK /\ StopInv /\ [ProcessNext]_processVars => StopInv'
  BY NextStopInv
<1> QED
  BY <1>1, <1>2, <1>3, <1>4, ProcessRunsTheQueue, TypeCorrect, PTL DEF ProcessSpec

\* A job the pool of a process leaves running is due to a failed statement, or to
\* the stop or crash of a process (Crash, CancelPool).
THEOREM ProcessJobsHaveACause == ProcessSpec => []LostJobsHaveACause
BY ProcessRunsTheQueue, LostAlwaysHaveACause, PTL
=============================================================================
