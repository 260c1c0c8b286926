------------------------ MODULE AgentExecutorProofs ------------------------
(***************************************************************************)
(* Proofs about what AgentRun executes, saves and answers: the order of    *)
(* the tools of a plan against confirmations, snapshots and responses.     *)
(*                                                                         *)
(* The invariant ExecOK says, for each place a runner can be at, how far   *)
(* the plan was executed.  Every step of a runner is one of the few moves  *)
(* below, and each move keeps it.                                          *)
(***************************************************************************)
EXTENDS AgentRunProofs, FiniteSetTheorems

\* Before the executor has a plan, and while it works on one.
Early == {"idle", "start", "check", "route", "context", "plan"}

Executing == {"tool", "write", "confirm", "read", "answer"}

\* The parts of WritesWait, SnapshotIsComplete and HintHasConfirmation for one
\* run, and what each place of the runner adds to them.
ExecOK(r) ==
    LET plan == runner[r].plan
        next == runner[r].next
        pc   == runner[r].pc
        none == conf[r].status = "absent"
    IN  /\ \E k \in 0..Len(plan) : executed[r] = 1..k /\ (~none => conf[r].step = k + 1)
        /\ \A i \in executed[r] : plan[i] \in {"free", "guarded"}
        /\ ~none => conf[r].step \in 1..Len(plan) /\ plan[conf[r].step] = "write"
        /\ r \in snapshots => executed[r] = 1..Len(plan)
        /\ runner[r].hint => ~none
        /\ pc \in Early => plan = <<>> /\ next = 1 /\ executed[r] = {} /\ none
        /\ pc \in Executing => executed[r] = 1..(next - 1) /\ next - 1 <= Len(plan) /\ none
        /\ pc \in {"write", "confirm", "read"} => next <= Len(plan)
        /\ pc \in {"write", "confirm"} => plan[next] = "write"
        /\ pc = "read" => plan[next] \in {"free", "guarded"}
        /\ pc = "answer" => next = Len(plan) + 1
        /\ pc \in Early \cup Executing => r \notin snapshots
        /\ ~none /\ pc \in {"complete", "done"} =>
              \/ runner[r].status = "confirmation_required"
              \/ StoreFaults /\ runner[r].status = "failed"

ExecInv == \A r \in Runs : ExecOK(r)

-----------------------------------------------------------------------------
(* The moves.                                                              *)

\* The locals of the executor stay as they are.
Frame(r) == /\ runner'[r].plan = runner[r].plan
            /\ runner'[r].next = runner[r].next
            /\ runner'[r].hint = runner[r].hint

\* Nothing is executed, confirmed or saved for this run.
Nothing(r) == /\ executed'[r] = executed[r]
              /\ conf'[r] = conf[r]
              /\ r \in snapshots' <=> r \in snapshots

\* Finish changes where the runner is, and its answer.
LEMMA FinishFrame ==
  ASSUME TypeOK, NEW r \in Runs, NEW h, NEW s, NEW t, Finish(r, h, s, t)
  PROVE  /\ Frame(r) /\ runner'[r].pc = "complete"
         /\ runner'[r].status = s /\ runner'[r].reason = t
         /\ runner'[r].offset = runner[r].offset
<1> DEFINE new == [runner[r] EXCEPT !.pc = "complete", !.handled = h,
                                    !.status = s, !.reason = t]
<1>1. runner' = [runner EXCEPT ![r] = new] /\ runner \in [Runs -> RunnerType]
  BY DEF Finish, TypeOK
<1>2. ASSUME NEW old \in RunnerType
      PROVE  LET rec == [old EXCEPT !.pc = "complete", !.handled = h, !.status = s, !.reason = t]
             IN  /\ rec.pc = "complete" /\ rec.status = s /\ rec.reason = t
                 /\ rec.plan = old.plan /\ rec.next = old.next /\ rec.hint = old.hint
                 /\ rec.offset = old.offset
  BY DEF RunnerType
<1>3. runner[r] \in RunnerType
  BY <1>1
<1>4. /\ new.pc = "complete" /\ new.status = s /\ new.reason = t
      /\ new.plan = runner[r].plan /\ new.next = runner[r].next /\ new.hint = runner[r].hint
      /\ new.offset = runner[r].offset
  BY <1>2, <1>3
<1> HIDE DEF new
<1> QED
  BY <1>1, <1>4 DEF Frame

\* Goto changes where the runner is.
LEMMA GotoFrame ==
  ASSUME TypeOK, NEW r \in Runs, NEW pc, Goto(r, pc)
  PROVE  /\ Frame(r) /\ runner'[r].pc = pc
         /\ runner'[r].status = runner[r].status /\ runner'[r].reason = runner[r].reason
         /\ runner'[r].offset = runner[r].offset
  BY DEF RunnerType, Goto, TypeOK, Frame

\* PlanWith sets the offset of the tool steps.
LEMMA PlanWithFrame ==
  ASSUME TypeOK, NEW r \in Runs, NEW pack, PlanWith(r, pack)
  PROVE  /\ Frame(r) /\ runner'[r].pc = "plan" /\ runner'[r].offset = 1
         /\ runner'[r].status = runner[r].status /\ runner'[r].reason = runner[r].reason
<1> DEFINE new == [runner[r] EXCEPT !.pc = "plan", !.pack = pack, !.offset = 1]
<1>1. runner' = [runner EXCEPT ![r] = new] /\ runner \in [Runs -> RunnerType]
  BY DEF PlanWith, TypeOK
<1>2. ASSUME NEW old \in RunnerType
      PROVE  LET rec == [old EXCEPT !.pc = "plan", !.pack = pack, !.offset = 1]
             IN  /\ rec.pc = "plan" /\ rec.status = old.status /\ rec.reason = old.reason
                 /\ rec.plan = old.plan /\ rec.next = old.next /\ rec.hint = old.hint
                 /\ rec.offset = 1
  BY DEF RunnerType
<1>3. runner[r] \in RunnerType
  BY <1>1
<1>4. /\ new.pc = "plan" /\ new.status = runner[r].status /\ new.reason = runner[r].reason
      /\ new.plan = runner[r].plan /\ new.next = runner[r].next /\ new.hint = runner[r].hint
      /\ new.offset = 1
  BY <1>2, <1>3
<1> HIDE DEF new
<1> QED
  BY <1>1, <1>4 DEF Frame

\* Announce ends the run with the hint to its confirmation.
LEMMA AnnounceFrame ==
  ASSUME TypeOK, NEW r \in Runs, Announce(r)
  PROVE  /\ runner'[r].plan = runner[r].plan /\ runner'[r].next = runner[r].next
         /\ runner'[r].pc = "complete" /\ runner'[r].status = "confirmation_required"
         /\ runner'[r].reason = "confirmation_required"
         /\ runner'[r].offset = runner[r].offset
<1> DEFINE new == [runner[r] EXCEPT !.pc = "complete", !.handled = TRUE, !.hint = TRUE,
                                    !.status = "confirmation_required",
                                    !.reason = "confirmation_required"]
<1>1. runner' = [runner EXCEPT ![r] = new] /\ runner \in [Runs -> RunnerType]
  BY DEF Announce, TypeOK
<1>2. ASSUME NEW old \in RunnerType
      PROVE  LET rec == [old EXCEPT !.pc = "complete", !.handled = TRUE, !.hint = TRUE,
                                    !.status = "confirmation_required",
                                    !.reason = "confirmation_required"]
             IN  /\ rec.pc = "complete" /\ rec.status = "confirmation_required"
                 /\ rec.reason = "confirmation_required" /\ rec.offset = old.offset
                 /\ rec.plan = old.plan /\ rec.next = old.next
  BY DEF RunnerType
<1>3. runner[r] \in RunnerType
  BY <1>1
<1>4. /\ new.pc = "complete" /\ new.status = "confirmation_required"
      /\ new.reason = "confirmation_required" /\ new.offset = runner[r].offset
      /\ new.plan = runner[r].plan /\ new.next = runner[r].next
  BY <1>2, <1>3
<1> HIDE DEF new
<1> QED
  BY <1>1, <1>4

\* NextTool goes on to the next tool of the plan.
LEMMA NextToolFrame ==
  ASSUME TypeOK, NEW r \in Runs, NextTool(r)
  PROVE  /\ runner'[r].plan = runner[r].plan /\ runner'[r].next = runner[r].next + 1
         /\ runner'[r].hint = runner[r].hint /\ runner'[r].pc = "tool"
         /\ runner'[r].status = runner[r].status /\ runner'[r].reason = runner[r].reason
         /\ runner'[r].offset = runner[r].offset
<1> DEFINE new == [runner[r] EXCEPT !.pc = "tool", !.next = runner[r].next + 1]
<1>1. runner' = [runner EXCEPT ![r] = new] /\ runner \in [Runs -> RunnerType]
  BY DEF NextTool, TypeOK
<1>2. ASSUME NEW old \in RunnerType, NEW n
      PROVE  LET rec == [old EXCEPT !.pc = "tool", !.next = n]
             IN  /\ rec.pc = "tool" /\ rec.status = old.status /\ rec.reason = old.reason
                 /\ rec.plan = old.plan /\ rec.next = n /\ rec.hint = old.hint
                 /\ rec.offset = old.offset
  BY DEF RunnerType
<1>3. runner[r] \in RunnerType
  BY <1>1
<1>4. /\ new.pc = "tool" /\ new.status = runner[r].status /\ new.reason = runner[r].reason
      /\ new.plan = runner[r].plan /\ new.next = runner[r].next + 1
      /\ new.hint = runner[r].hint /\ new.offset = runner[r].offset
  BY <1>2, <1>3
<1> HIDE DEF new
<1> QED
  BY <1>1, <1>4

\* The runner takes the plan it was given.
LEMMA TakePlanFrame ==
  ASSUME TypeOK, NEW r \in Runs, NEW plan,
         runner' = [runner EXCEPT ![r] = [runner[r] EXCEPT !.pc = "tool", !.plan = plan]]
  PROVE  /\ runner'[r].plan = plan /\ runner'[r].next = runner[r].next
         /\ runner'[r].hint = runner[r].hint /\ runner'[r].pc = "tool"
         /\ runner'[r].status = runner[r].status /\ runner'[r].reason = runner[r].reason
         /\ runner'[r].offset = runner[r].offset
<1> DEFINE new == [runner[r] EXCEPT !.pc = "tool", !.plan = plan]
<1>1. runner' = [runner EXCEPT ![r] = new] /\ runner \in [Runs -> RunnerType]
  BY DEF TypeOK
<1>2. ASSUME NEW old \in RunnerType
      PROVE  LET rec == [old EXCEPT !.pc = "tool", !.plan = plan]
             IN  /\ rec.pc = "tool" /\ rec.status = old.status /\ rec.reason = old.reason
                 /\ rec.plan = plan /\ rec.next = old.next /\ rec.hint = old.hint
                 /\ rec.offset = old.offset
  BY DEF RunnerType
<1>3. runner[r] \in RunnerType
  BY <1>1
<1>4. /\ new.pc = "tool" /\ new.status = runner[r].status /\ new.reason = runner[r].reason
      /\ new.plan = plan /\ new.next = runner[r].next
      /\ new.hint = runner[r].hint /\ new.offset = runner[r].offset
  BY <1>2, <1>3
<1> HIDE DEF new
<1> QED
  BY <1>1, <1>4

\* The length of a plan is a number, and so is the place in it.
LEMMA PlanFacts ==
  ASSUME TypeOK, NEW r \in Runs
  PROVE  Len(runner[r].plan) \in Nat /\ runner[r].next \in Nat \ {0}
<1>1. runner[r] \in RunnerType
  BY DEF TypeOK
<1>2. runner[r].plan \in Plans /\ runner[r].next \in Nat \ {0}
  BY <1>1 DEF RunnerType
<1>3. PICK n \in 0..MaxPlan : runner[r].plan \in [1..n -> ToolKinds]
  BY <1>2 DEF Plans
<1>4. n \in Nat
  OBVIOUS
<1>5. runner[r].plan \in Seq(ToolKinds)
  <2> HIDE DEF ToolKinds
  <2> QED
    BY <1>3, <1>4
<1> QED
  BY <1>2, <1>5

\* Before there is a plan the runner goes on, or ends the run.
LEMMA EarlyMove ==
  ASSUME TypeOK, TypeOK', NEW r \in Runs, ExecOK(r), Frame(r), Nothing(r),
         runner[r].pc \in Early, runner'[r].pc \in Early \cup {"complete", "done"}
  PROVE  ExecOK(r)'
BY PlanFacts DEF ExecOK, Frame, Nothing, Early, Executing

\* The executor, or completeRun, ends without doing any more for the plan.
LEMMA LateMove ==
  ASSUME TypeOK, TypeOK', NEW r \in Runs, ExecOK(r), Frame(r), Nothing(r),
         \/ runner[r].pc \in Executing /\ runner'[r].pc = "complete"
         \/ /\ runner[r].pc = "complete" /\ runner'[r].pc = "done"
            /\ runner'[r].status = runner[r].status
  PROVE  ExecOK(r)'
BY PlanFacts DEF ExecOK, Frame, Nothing, Early, Executing

\* The executor goes on to the next of its places.
LEMMA GoingMove ==
  ASSUME TypeOK, TypeOK', NEW r \in Runs, ExecOK(r), Frame(r), Nothing(r),
         \/ /\ runner[r].pc = "tool" /\ runner[r].next <= Len(runner[r].plan)
            /\ \/ runner'[r].pc = "write" /\ runner[r].plan[runner[r].next] = "write"
               \/ runner'[r].pc = "read" /\ runner[r].plan[runner[r].next] \in {"free", "guarded"}
         \/ runner[r].pc = "write" /\ runner'[r].pc = "confirm"
         \/ /\ runner[r].pc = "tool" /\ ~(runner[r].next <= Len(runner[r].plan))
            /\ runner'[r].pc = "answer"
  PROVE  ExecOK(r)'
BY PlanFacts DEF ExecOK, Frame, Nothing, Early, Executing

\* Receive, StartRun and Route change where the runner is and what it knows of
\* its request.
LEMMA RequestFrame ==
  ASSUME TypeOK, NEW r \in Runs,
         \/ \E pc, scope, prior :
              runner' = [runner EXCEPT ![r] = [runner[r] EXCEPT !.pc = pc, !.scope = scope,
                                                               !.prior = prior]]
         \/ \E pc, handled :
              runner' = [runner EXCEPT ![r] = [runner[r] EXCEPT !.pc = pc, !.handled = handled]]
         \/ \E pc, dry :
              runner' = [runner EXCEPT ![r] = [runner[r] EXCEPT !.pc = pc, !.dry = dry]]
  PROVE  /\ Frame(r) /\ runner'[r].offset = runner[r].offset
         /\ runner'[r].status = runner[r].status /\ runner'[r].reason = runner[r].reason
<1>1. runner \in [Runs -> RunnerType] /\ runner[r] \in RunnerType
  BY DEF TypeOK
<1> DEFINE SameLocals(new) ==
      /\ runner' = [runner EXCEPT ![r] = new]
      /\ new.plan = runner[r].plan /\ new.next = runner[r].next
      /\ new.hint = runner[r].hint /\ new.offset = runner[r].offset
      /\ new.status = runner[r].status /\ new.reason = runner[r].reason
<1>2. ASSUME NEW pc, NEW scope, NEW prior,
             runner' = [runner EXCEPT ![r] = [runner[r] EXCEPT !.pc = pc, !.scope = scope,
                                                              !.prior = prior]]
      PROVE  \E new : SameLocals(new)
  <2>1. SameLocals([runner[r] EXCEPT !.pc = pc, !.scope = scope, !.prior = prior])
    BY <1>1, <1>2 DEF RunnerType
  <2> QED
    BY <2>1
<1>3. ASSUME NEW pc, NEW handled,
             runner' = [runner EXCEPT ![r] = [runner[r] EXCEPT !.pc = pc, !.handled = handled]]
      PROVE  \E new : SameLocals(new)
  <2>1. SameLocals([runner[r] EXCEPT !.pc = pc, !.handled = handled])
    BY <1>1, <1>3 DEF RunnerType
  <2> QED
    BY <2>1
<1>4. ASSUME NEW pc, NEW dry,
             runner' = [runner EXCEPT ![r] = [runner[r] EXCEPT !.pc = pc, !.dry = dry]]
      PROVE  \E new : SameLocals(new)
  <2>1. SameLocals([runner[r] EXCEPT !.pc = pc, !.dry = dry])
    BY <1>1, <1>4 DEF RunnerType
  <2> QED
    BY <2>1
<1>5. PICK new : SameLocals(new)
  BY <1>2, <1>3, <1>4
<1> QED
  BY <1>1, <1>5 DEF Frame

\* The steps up to a plan that needs no executor.
LEMMA EarlySteps ==
  ASSUME TypeOK, TypeOK', NEW r \in Runs, ExecOK(r),
         Receive(r) \/ StartRun(r) \/ CheckStarted(r) \/ Route(r) \/ FetchContext(r)
  PROVE  ExecOK(r)'
<1>1. Nothing(r) /\ runner[r].pc \in Early
  BY DEF Receive, StartRun, CheckStarted, Route, FetchContext, Nothing, At, Early
<1>2. Frame(r)
  <2>1. CASE Receive(r)
    <3>1. PICK scope, guild, prior :
            runner' = [runner EXCEPT ![r] =
              [runner[r] EXCEPT !.pc = IF guild /\ scope # "none" THEN "start" ELSE "done",
                                !.scope = scope, !.prior = prior]]
      BY <2>1, Zenon DEF Receive
    <3> QED
      BY <3>1, RequestFrame
  <2>2. CASE StartRun(r)
    BY <2>2, RequestFrame DEF StartRun
  <2>3. CASE CheckStarted(r)
    BY <2>3, FinishFrame, GotoFrame DEF CheckStarted
  <2>4. CASE Route(r)
    BY <2>4, RequestFrame, FinishFrame DEF Route
  <2>5. CASE FetchContext(r)
    BY <2>5, FinishFrame, GotoFrame, PlanWithFrame DEF FetchContext
  <2> QED
    BY <2>1, <2>2, <2>3, <2>4, <2>5
<1>3. runner'[r].pc \in Early \cup {"complete", "done"}
  <2>1. CASE Receive(r)
    BY <2>1, ReceiveTypes DEF Early, GoesOn
  <2>2. CASE StartRun(r)
    BY <2>2, StartRunTypes DEF Early
  <2>3. CASE CheckStarted(r)
    BY <2>3, FinishFrame, GotoFrame DEF CheckStarted, Early
  <2>4. CASE Route(r)
    BY <2>4, RouteTypes DEF Early, GoesOn, EndsWith
  <2>5. CASE FetchContext(r)
    BY <2>5, FetchContextTypes DEF Early, GoesOn, EndsWith
  <2> QED
    BY <2>1, <2>2, <2>3, <2>4, <2>5
<1> QED
  BY <1>1, <1>2, <1>3, EarlyMove

\* The planner's answer ends the run, or is what the executor starts with.
LEMMA PlanStep ==
  ASSUME TypeOK, TypeOK', NEW r \in Runs, ExecOK(r), MakePlan(r)
  PROVE  ExecOK(r)'
<1>1. Nothing(r) /\ runner[r].pc = "plan"
  BY DEF MakePlan, Nothing, At
<1>2. CASE \E h, s, t : Finish(r, h, s, t)
  BY <1>1, <1>2, FinishFrame, EarlyMove DEF Early
<1>3. ASSUME NEW plan \in Plans,
             runner' = [runner EXCEPT ![r] = [runner[r] EXCEPT !.pc = "tool", !.plan = plan]]
      PROVE  ExecOK(r)'
  <2>1. /\ runner'[r].next = 1 /\ executed'[r] = {} /\ conf'[r].status = "absent"
        /\ r \notin snapshots' /\ ~runner'[r].hint /\ runner'[r].pc = "tool"
    BY <1>1, <1>3, TakePlanFrame DEF ExecOK, Nothing, Early
  <2>2. Len(runner'[r].plan) \in Nat
    BY PlanFacts
  <2> QED
    BY <2>1, <2>2 DEF ExecOK, Early, Executing
<1> QED
  BY <1>2, <1>3 DEF MakePlan, PlanWithoutTools, PlanWithTools

\* The checks of the executor, and its ends without an effect.
LEMMA CheckSteps ==
  ASSUME TypeOK, TypeOK', NEW r \in Runs, ExecOK(r),
         CheckTool(r) \/ DeferWrite(r) \/ RefuseTool(r) \/ CheckAnswer(r) \/ Complete(r)
  PROVE  ExecOK(r)'
<1>1. Nothing(r)
  BY DEF CheckTool, DeferWrite, RefuseTool, CheckAnswer, Complete, Nothing
<1>2. CASE \E h, s, t : Finish(r, h, s, t) /\ runner[r].pc \in {"tool", "read"}
  BY <1>1, <1>2, FinishFrame, LateMove DEF Executing
<1>3. CASE CheckTool(r) /\ \E pc : Goto(r, pc)
  <2>1. Len(runner[r].plan) \in Nat /\ runner[r].next \in Nat \ {0}
    BY PlanFacts
  <2>2. Tool(r) \in ToolKinds
    <3>1. runner[r].plan \in Plans
      BY DEF TypeOK, RunnerType
    <3>2. PICK n \in 0..MaxPlan : runner[r].plan \in [1..n -> ToolKinds]
      BY <3>1 DEF Plans
    <3>3. n \in Nat
      OBVIOUS
    <3>4. Len(runner[r].plan) = n
      <4> HIDE DEF ToolKinds
      <4> QED
        BY <3>2, <3>3
    <3> QED
      BY <1>3, <2>1, <3>2, <3>4 DEF CheckTool, MoreTools, Tool
  <2>3. PICK pc : Goto(r, pc)
    BY <1>3
  <2>4. Frame(r) /\ runner'[r].pc = pc /\ runner[r].pc = "tool"
    BY <1>3, <2>3, GotoFrame DEF CheckTool, At
  <2>5. \/ runner'[r].pc = "complete"
        \/ Tool(r) # "unknown" /\ Goto(r, IF NeedsConfirmation(r) THEN "write" ELSE "read")
    BY <1>3, FinishFrame DEF CheckTool
  <2>6. CASE runner'[r].pc = "complete"
    BY <1>1, <2>4, <2>6, LateMove DEF Executing
  <2>7. CASE Tool(r) # "unknown" /\ Goto(r, IF NeedsConfirmation(r) THEN "write" ELSE "read")
    <3>1. \/ runner'[r].pc = "write" /\ Tool(r) = "write"
          \/ runner'[r].pc = "read" /\ Tool(r) \in {"free", "guarded"}
      BY <2>2, <2>7, GotoFrame DEF NeedsConfirmation, ToolKinds
    <3> QED
      BY <1>1, <1>3, <2>4, <3>1, GoingMove DEF CheckTool, MoreTools, Tool
  <2> QED
    BY <2>5, <2>6, <2>7
<1>4. CASE CheckAnswer(r) /\ \E pc : Goto(r, pc)
  <2>1. runner'[r].pc \in {"complete", "answer"} /\ Frame(r) /\ runner[r].pc = "tool"
    BY <1>4, FinishFrame, GotoFrame DEF CheckAnswer, At
  <2> QED
    BY <1>1, <1>4, <2>1, GoingMove, LateMove DEF CheckAnswer, MoreTools, Executing
<1>5. CASE DeferWrite(r)
  BY <1>1, <1>5, GotoFrame, GoingMove DEF DeferWrite, At
<1>6. CASE Complete(r)
  BY <1>1, <1>6, GotoFrame, LateMove DEF Complete, At
<1> QED
  BY <1>2, <1>3, <1>4, <1>5, <1>6 DEF CheckTool, RefuseTool, CheckAnswer, At

\* The confirmation is of the tool the executor stopped at.
LEMMA ConfirmStep ==
  ASSUME TypeOK, TypeOK', NEW r \in Runs, ExecOK(r), CreateConfirmation(r)
  PROVE  ExecOK(r)'
<1>1. PICK failed \in MayFail, applied \in BOOLEAN :
        /\ ~failed => applied
        /\ conf' = IF applied THEN [conf EXCEPT ![r] = PendingConf(r)] ELSE conf
        /\ IF failed
           THEN /\ Finish(r, TRUE, "failed", "executor_failed")
                /\ Record(r, ToolStep(r), "tool")
           ELSE Announce(r) /\ UNCHANGED <<row, steps>>
  BY DEF CreateConfirmation
<1>2. /\ runner[r].pc = "confirm" /\ executed'[r] = executed[r] /\ snapshots' = snapshots
      /\ Len(runner[r].plan) \in Nat /\ runner[r].next \in Nat \ {0}
      /\ conf \in [Runs -> ConfType]
  BY PlanFacts DEF CreateConfirmation, At, TypeOK
<1>3. CASE failed
  <2>1. /\ Frame(r) /\ runner'[r].pc = "complete" /\ runner'[r].status = "failed"
    BY <1>1, <1>3, FinishFrame
  <2>2. StoreFaults
    BY <1>1, <1>3 DEF MayFail
  <2>3. CASE ~applied
    BY <1>1, <1>2, <2>1, <2>3, LateMove DEF Nothing, Executing
  <2>4. CASE applied
    <3>1. conf'[r].status = "pending" /\ conf'[r].step = runner[r].next
      BY <1>1, <1>2, <2>4 DEF PendingConf
    <3> QED
      BY <1>2, <2>1, <2>2, <3>1 DEF ExecOK, Frame, Early, Executing
  <2> QED
    BY <2>3, <2>4
<1>4. CASE ~failed
  <2>1. /\ runner'[r].pc = "complete" /\ runner'[r].status = "confirmation_required"
        /\ runner'[r].plan = runner[r].plan /\ runner'[r].next = runner[r].next
    BY <1>1, <1>4, AnnounceFrame
  <2>2. conf'[r].status = "pending" /\ conf'[r].step = runner[r].next
    BY <1>1, <1>2, <1>4 DEF PendingConf
  <2> QED
    BY <1>2, <2>1, <2>2 DEF ExecOK, Early, Executing
<1> QED
  BY <1>3, <1>4

\* A read tool is executed as the next one of the plan.
LEMMA ToolStepKeeps ==
  ASSUME TypeOK, TypeOK', NEW r \in Runs, ExecOK(r), ExecuteTool(r)
  PROVE  ExecOK(r)'
<1>1. /\ runner[r].pc = "read" /\ conf'[r] = conf[r] /\ snapshots' = snapshots
      /\ executed'[r] = executed[r] \cup {runner[r].next}
      /\ Len(runner[r].plan) \in Nat /\ runner[r].next \in Nat \ {0}
  BY PlanFacts DEF ExecuteTool, At, TypeOK
<1>2. /\ executed[r] = 1..(runner[r].next - 1) /\ runner[r].next <= Len(runner[r].plan)
      /\ conf[r].status = "absent" /\ r \notin snapshots /\ ~runner[r].hint
      /\ runner[r].plan[runner[r].next] \in {"free", "guarded"}
      /\ \A i \in executed[r] : runner[r].plan[i] \in {"free", "guarded"}
  BY <1>1 DEF ExecOK, Executing
<1>3. executed'[r] = 1..runner[r].next
  BY <1>1, <1>2
<1>4. CASE Finish(r, TRUE, "failed", "executor_failed")
  <2>1. /\ runner'[r].plan = runner[r].plan /\ runner'[r].hint = runner[r].hint
        /\ runner'[r].pc = "complete"
    BY <1>4, FinishFrame DEF Frame
  <2>2. runner[r].next \in 0..Len(runner'[r].plan)
    BY <1>1, <1>2, <2>1
  <2>3. \A i \in executed'[r] : runner[r].plan[i] \in {"free", "guarded"}
    BY <1>1, <1>2
  <2> QED
    BY <1>1, <1>2, <1>3, <2>1, <2>2, <2>3 DEF ExecOK, Early, Executing
<1>5. CASE NextTool(r)
  <2>1. /\ runner'[r].plan = runner[r].plan /\ runner'[r].next = runner[r].next + 1
        /\ runner'[r].hint = runner[r].hint /\ runner'[r].pc = "tool"
    BY <1>5, NextToolFrame
  <2>2. /\ runner'[r].next - 1 = runner[r].next
        /\ runner'[r].next - 1 <= Len(runner'[r].plan)
        /\ runner[r].next \in 0..Len(runner'[r].plan)
    BY <1>1, <1>2, <2>1
  <2>3. \A i \in executed'[r] : runner[r].plan[i] \in {"free", "guarded"}
    BY <1>1, <1>2
  <2> QED
    BY <1>1, <1>2, <1>3, <2>1, <2>2, <2>3 DEF ExecOK, Early, Executing
<1> QED
  BY <1>4, <1>5 DEF ExecuteTool

\* A snapshot is saved once the whole plan is executed.
LEMMA AnswerStep ==
  ASSUME TypeOK, TypeOK', NEW r \in Runs, ExecOK(r), Answer(r)
  PROVE  ExecOK(r)'
<1>1. /\ runner[r].pc = "answer" /\ conf'[r] = conf[r] /\ executed'[r] = executed[r]
      /\ Len(runner[r].plan) \in Nat /\ runner[r].next \in Nat \ {0}
  BY PlanFacts DEF Answer, At
<1>2. Frame(r) /\ runner'[r].pc = "complete"
  BY FinishFrame DEF Answer
<1>3. executed[r] = 1..Len(runner[r].plan)
  BY <1>1 DEF ExecOK, Executing
<1> QED
  BY <1>1, <1>2, <1>3 DEF ExecOK, Frame, Early, Executing

\* Every step of a runner keeps ExecOK of its run, and touches no other.
LEMMA RunnerExec ==
  ASSUME TypeOK, TypeOK', ExecInv, NEW r \in Runs, Receive(r) \/ RunStep(r)
  PROVE  ExecInv'
<1>1. ExecOK(r)'
  BY EarlySteps, PlanStep, CheckSteps, ConfirmStep, ToolStepKeeps, AnswerStep
  DEF ExecInv, RunStep
<1>2. ASSUME NEW q \in Runs, q # r
      PROVE  runner'[q] = runner[q] /\ Nothing(q)
  <2>1. runner'[q] = runner[q]
    BY <1>2, ReceiveTypes, StartRunTypes, CheckStartedTypes, RouteTypes, FetchContextTypes,
       MakePlanTypes, CheckToolTypes, DeferWriteTypes, CreateConfirmationTypes,
       RefuseToolTypes, ExecuteToolTypes, CheckAnswerTypes, AnswerTypes, CompleteTypes
    DEF RunStep, OthersKept
  <2>2. Nothing(q)
    BY <1>2 DEF Nothing, TypeOK, RunStep, Receive, StartRun, CheckStarted, Route, FetchContext,
       MakePlan, CheckTool, DeferWrite, CreateConfirmation, RefuseTool, ExecuteTool,
       CheckAnswer, Answer, Complete
  <2> QED
    BY <2>1, <2>2
<1>3. ASSUME NEW q \in Runs, q # r
      PROVE  ExecOK(q)'
  <2>1. runner'[q] = runner[q] /\ Nothing(q) /\ ExecOK(q)
    BY <1>2, <1>3 DEF ExecInv
  <2> QED
    BY <2>1 DEF ExecOK, Nothing
<1> QED
  BY <1>1, <1>3 DEF ExecInv

\* A resolution changes a pending confirmation only, and neither its step nor
\* that it is there; who is told of it is the one it is stored for.
LEMMA ResolveFacts ==
  ASSUME TypeOK, NEW c \in Cmds, cmd[c].run \in Runs, Resolve(c)
  PROVE  LET r == cmd[c].run
         IN  /\ cmd'[c].run = r /\ cmd'[c].user = cmd[c].user
             /\ \A q \in Runs : q # r => conf'[q] = conf[q]
             /\ \/ conf' = conf /\ cmd'[c].reply \notin {"confirmed", "canceled"}
                \/ /\ conf[r].status = "pending" /\ conf'[r].step = conf[r].step
                   /\ conf'[r].status \in {"confirmed", "canceled"}
                   /\ cmd'[c].reply \in {"confirmed", "canceled"} =>
                        conf'[r].status = cmd'[c].reply /\ conf'[r].by = cmd'[c].user
<1> DEFINE r == cmd[c].run
           verdict == Verdict(cmd[c].verb)
           stored == [conf[r] EXCEPT !.status = verdict, !.by = cmd[c].user]
           told(text) == [cmd[c] EXCEPT !.pc = "done", !.reply = text]
<1>1. /\ conf \in [Runs -> ConfType] /\ cmd \in [Cmds -> CmdType]
      /\ conf[r] \in ConfType /\ cmd[c] \in CmdType
  BY DEF TypeOK
<1>2. /\ stored.status = verdict /\ stored.by = cmd[c].user /\ stored.step = conf[r].step
      /\ verdict \in {"confirmed", "canceled"}
  BY <1>1 DEF ConfType, Verdict
<1>3. ASSUME NEW text
      PROVE  /\ told(text).reply = text /\ told(text).run = r
             /\ told(text).user = cmd[c].user
  BY <1>1 DEF CmdType
<1>4. \E text : /\ cmd' = [cmd EXCEPT ![c] = told(text)]
                /\ \/ conf' = conf /\ text \notin {"confirmed", "canceled"}
                   \/ /\ conf' = [conf EXCEPT ![r] = stored] /\ conf[r].status = "pending"
                      /\ text = verdict \/ text = "failed"
  <2>1. \/ /\ conf' = [conf EXCEPT ![r] = stored] /\ conf[r].status = "pending"
           /\ Reply(c, verdict) \/ Reply(c, "failed")
        \/ conf' = conf /\ (Reply(c, "not_active") \/ Reply(c, "failed"))
    BY DEF Resolve, Resolvable
  <2>2. \A text : Reply(c, text) => cmd' = [cmd EXCEPT ![c] = told(text)]
    BY DEF Reply
  <2>3. {"not_active", "failed"} \cap {"confirmed", "canceled"} = {}
    OBVIOUS
  <2> HIDE DEF told, stored
  <2> QED
    BY <2>1, <2>2, <2>3
<1> HIDE DEF stored, told, verdict
<1>5. PICK text : /\ cmd' = [cmd EXCEPT ![c] = told(text)]
                  /\ \/ conf' = conf /\ text \notin {"confirmed", "canceled"}
                     \/ /\ conf' = [conf EXCEPT ![r] = stored] /\ conf[r].status = "pending"
                        /\ text = verdict \/ text = "failed"
  BY <1>4
<1>6. cmd'[c] = told(text)
  BY <1>1, <1>5
<1>7. /\ cmd'[c].reply = text /\ cmd'[c].run = r /\ cmd'[c].user = cmd[c].user
  BY <1>3, <1>6
<1>8. CASE conf' = conf /\ text \notin {"confirmed", "canceled"}
  BY <1>7, <1>8
<1>9. CASE /\ conf' = [conf EXCEPT ![r] = stored] /\ conf[r].status = "pending"
           /\ text = verdict \/ text = "failed"
  <2>1. conf'[r] = stored /\ \A q \in Runs : q # r => conf'[q] = conf[q]
    BY <1>1, <1>9
  <2> QED
    BY <1>2, <1>7, <1>9, <2>1
<1> QED
  BY <1>5, <1>8, <1>9

\* The commands keep ExecInv.
LEMMA CommandExec ==
  ASSUME TypeOK, CmdHasRun, ExecInv, NEW c \in Cmds, LoadRun(c) \/ CmdStep(c)
  PROVE  ExecInv'
<1>1. UNCHANGED <<runner, executed, snapshots>>
  BY DEF LoadRun, CmdStep, RequestCancel, LoadPending, Resolve
<1>2. \A q \in Runs : \/ conf'[q] = conf[q]
                      \/ /\ conf'[q].step = conf[q].step
                         /\ conf[q].status # "absent" /\ conf'[q].status # "absent"
  <2>1. CASE Resolve(c)
    <3>1. cmd[c].run \in Runs
      BY <2>1 DEF CmdHasRun, Resolve
    <3> QED
      BY <2>1, <3>1, ResolveFacts
  <2>2. CASE LoadRun(c) \/ RequestCancel(c) \/ LoadPending(c)
    BY <2>2 DEF LoadRun, RequestCancel, LoadPending
  <2> QED
    BY <2>1, <2>2 DEF CmdStep
<1>3. ASSUME NEW q \in Runs
      PROVE  ExecOK(q)'
  <2>1. ExecOK(q) /\ runner'[q] = runner[q] /\ executed'[q] = executed[q]
    BY <1>1 DEF ExecInv
  <2>2. CASE conf'[q] = conf[q]
    BY <1>1, <2>1, <2>2 DEF ExecOK
  <2>3. CASE /\ conf'[q].step = conf[q].step
             /\ conf[q].status # "absent" /\ conf'[q].status # "absent"
    BY <1>1, <2>1, <2>3 DEF ExecOK
  <2> QED
    BY <1>2, <2>2, <2>3
<1> QED
  BY <1>3 DEF ExecInv

\* A crash leaves a runner as it is, or dead with the plan it had.
LEMMA CrashFrame ==
  ASSUME TypeOK, Crash, NEW r \in Runs
  PROVE  \/ runner'[r] = runner[r]
         \/ /\ runner'[r].pc = "dead" /\ Frame(r)
            /\ runner'[r].status = runner[r].status /\ runner'[r].reason = runner[r].reason
            /\ runner'[r].offset = runner[r].offset
<1>1. runner[r] \in RunnerType
  BY DEF TypeOK
<1>2. runner'[r] = runner[r] \/ runner'[r] = [runner[r] EXCEPT !.pc = "dead"]
  BY DEF Crash
<1> QED
  BY <1>1, <1>2 DEF RunnerType, Frame

\* The death of the process keeps ExecInv: the snapshots die with it.
LEMMA CrashExec ==
  ASSUME TypeOK, ExecInv, Crash
  PROVE  ExecInv'
<1>1. snapshots' = {} /\ UNCHANGED <<executed, conf>>
  BY DEF Crash
<1>2. ASSUME NEW r \in Runs
      PROVE  ExecOK(r)'
  <2>1. ExecOK(r)
    BY DEF ExecInv
  <2>2. CASE runner'[r] = runner[r]
    BY <1>1, <2>1, <2>2 DEF ExecOK
  <2>3. CASE runner'[r].pc = "dead" /\ Frame(r)
    BY <1>1, <2>1, <2>3 DEF ExecOK, Frame, Early, Executing
  <2> QED
    BY <2>2, <2>3, CrashFrame
<1> QED
  BY <1>2 DEF ExecInv

LEMMA InitExec == Init => ExecInv
<1> SUFFICES ASSUME Init, NEW r \in Runs
             PROVE  ExecOK(r)
  BY DEF ExecInv
<1>1. /\ runner[r] = IdleRunner /\ conf[r] = NoConf /\ executed[r] = {} /\ snapshots = {}
  BY DEF Init
<1>2. /\ runner[r].pc = "idle" /\ runner[r].plan = <<>> /\ runner[r].next = 1
      /\ ~runner[r].hint /\ conf[r].status = "absent"
  <2>1. /\ IdleRunner.pc = "idle" /\ IdleRunner.plan = <<>> /\ IdleRunner.next = 1
        /\ ~IdleRunner.hint
    BY DEF IdleRunner
  <2> QED
    BY <1>1, <2>1 DEF NoConf
<1>3. executed[r] = 1..0 /\ Len(runner[r].plan) = 0
  BY <1>1, <1>2
<1> QED
  BY <1>1, <1>2, <1>3 DEF ExecOK, Early, Executing

LEMMA NextExec ==
  ASSUME TypeOK, TypeOK', CmdHasRun, ExecInv, [Next]_vars
  PROVE  ExecInv'
<1>1. CASE UNCHANGED vars
  BY <1>1 DEF vars, ExecInv, ExecOK
<1> QED
  BY <1>1, RunnerExec, CommandExec, CrashExec DEF Next

\* The invariant of the executor, together with those it rests on.
LEMMA ExecInvariant == Spec => []ExecInv
<1>1. TypeOK /\ TypeOK' /\ CmdHasRun /\ ExecInv /\ [Next]_vars => ExecInv'
  BY NextExec
<1> QED
  BY <1>1, InitExec, Invariants, PTL DEF Spec

-----------------------------------------------------------------------------
(* What follows of the order of the tools.                                 *)

\* Whatever plan the planner returns, its tools run in order up to the first
\* write, no write runs, and a confirmation is of that write (Executor.Execute).
THEOREM WritesAlwaysWait == Spec => []WritesWait
<1>1. ExecInv => WritesWait
  BY DEF ExecInv, ExecOK, WritesWait
<1> QED
  BY <1>1, ExecInvariant, PTL

\* What a follow-up question finds is the result of a whole plan
\* (Executor.saveFollowUp comes after the last tool).
THEOREM SnapshotsAreComplete == Spec => []SnapshotIsComplete
<1>1. TypeOK /\ ExecInv => SnapshotIsComplete
  BY DEF TypeOK, ExecInv, ExecOK, SnapshotIsComplete
<1> QED
  BY <1>1, ExecInvariant, TypeCorrect, PTL

-----------------------------------------------------------------------------
(* What the user is told, and what the row says.                           *)

\* ResponseIsTruthful for one run, whether or not its runner lived to answer.
ToldOK(r) ==
    row[r].completed =>
        \/ row[r].status = runner[r].status /\ row[r].reason = runner[r].reason
        \/ row[r].status = "canceled" /\ row[r].cancelReq

ToldInv == \A r \in Runs : ToldOK(r)

\* CompleteRun stores what the response says, unless the run was cancelled.
LEMMA CompletedIsTold ==
  ASSUME NEW old \in RowType, old.status # "canceled", NEW status, NEW reason
  PROVE  LET new == Completed(old, status, reason)
         IN  \/ new.status = status /\ new.reason = reason
             \/ new.status = "canceled" /\ new.cancelReq
<1> DEFINE ended(s, t) == [old EXCEPT !.status = s, !.reason = t, !.completed = TRUE]
<1>1. ASSUME NEW s, NEW t
      PROVE  /\ ended(s, t).status = s /\ ended(s, t).reason = t
             /\ ended(s, t).cancelReq = old.cancelReq
  BY DEF RowType
<1>2. /\ old.cancelReq => Completed(old, status, reason) = ended("canceled", "canceled")
      /\ ~old.cancelReq => Completed(old, status, reason) = ended(status, reason)
  BY DEF Completed
<1> HIDE DEF ended
<1>3. old.cancelReq \in BOOLEAN
  BY DEF RowType
<1> QED
  BY <1>1, <1>2, <1>3

\* A runner completes its row in CompleteRun only.
LEMMA RunnerTold ==
  ASSUME TypeOK, LifecycleInv, NEW r \in Runs, Receive(r) \/ RunStep(r), ~row[r].completed
  PROVE  ToldOK(r)'
<1>1. CASE Receive(r) \/ CheckStarted(r)
  BY <1>1 DEF ToldOK, Receive, CheckStarted
<1>2. CASE StartRun(r)
  <2>1. row[r] \in RowType /\ row[r].status = "absent"
    BY <1>2 DEF TypeOK, StartRun, LifecycleInv, RunConsistent, At
  <2>2. row'[r] = row[r] \/ row'[r] = Started(row[r])
    BY <1>2, StartRunTypes
  <2> QED
    BY <2>1, <2>2, StartedFacts DEF ToldOK
<1>3. CASE Complete(r)
  <2>1. row[r] \in RowType /\ runner[r] \in RunnerType /\ row \in [Runs -> RowType]
    BY DEF TypeOK
  <2>2. row[r].status = "running"
    BY <1>3 DEF Complete, At, LifecycleInv, RunConsistent, Underway
  <2> DEFINE new == Completed(row[r], runner[r].status, runner[r].reason)
  <2>3. \/ new.status = runner[r].status /\ new.reason = runner[r].reason
        \/ new.status = "canceled" /\ new.cancelReq
    BY <2>1, <2>2, CompletedIsTold
  <2>4. row' = [row EXCEPT ![r] = new] \/ row' = row
    BY <1>3, CompleteTypes
  <2>5. runner'[r].status = runner[r].status /\ runner'[r].reason = runner[r].reason
    BY <1>3, GotoFrame DEF Complete
  <2> HIDE DEF new
  <2> QED
    BY <2>1, <2>3, <2>4, <2>5 DEF ToldOK
<1>4. CASE /\ ~Receive(r) /\ ~CheckStarted(r) /\ ~StartRun(r) /\ ~Complete(r)
  <2>1. RowsKept
    BY <1>4, RouteTypes, FetchContextTypes, MakePlanTypes, CheckToolTypes, DeferWriteTypes,
       CreateConfirmationTypes, RefuseToolTypes, ExecuteToolTypes, CheckAnswerTypes, AnswerTypes
    DEF RunStep
  <2> QED
    BY <2>1 DEF RowsKept, ToldOK
<1> QED
  BY <1>1, <1>2, <1>3, <1>4

\* A runner that is done stays so.
LEMMA DoneStays ==
  ASSUME TypeOK, [Next]_vars, NEW r \in Runs, runner[r].pc = "done"
  PROVE  runner'[r] = runner[r]
<1>1. ASSUME NEW q \in Runs, Receive(q) \/ RunStep(q)
      PROVE  runner'[r] = runner[r]
  <2>1. q # r
    BY <1>1 DEF At, Receive, RunStep, StartRun, CheckStarted, Route,
       FetchContext, MakePlan, CheckTool, DeferWrite, CreateConfirmation, RefuseTool,
       ExecuteTool, CheckAnswer, Answer, Complete
  <2> QED
    BY <1>1, <2>1, ReceiveTypes, StartRunTypes, CheckStartedTypes, RouteTypes,
       FetchContextTypes, MakePlanTypes, CheckToolTypes, DeferWriteTypes,
       CreateConfirmationTypes, RefuseToolTypes, ExecuteToolTypes, CheckAnswerTypes,
       AnswerTypes, CompleteTypes
    DEF RunStep, OthersKept
<1>2. ASSUME NEW c \in Cmds, LoadRun(c) \/ CmdStep(c)
      PROVE  runner'[r] = runner[r]
  BY <1>2 DEF LoadRun, CmdStep, RequestCancel, LoadPending, Resolve
<1>3. CASE Crash
  BY <1>3 DEF Crash
<1>4. CASE UNCHANGED vars
  BY <1>4 DEF vars
<1> QED
  BY <1>1, <1>2, <1>3, <1>4 DEF Next

LEMMA NextTold ==
  ASSUME TypeOK, CmdHasRun, LifecycleInv, ToldInv, [Next]_vars
  PROVE  ToldInv'
<1> SUFFICES ASSUME NEW r \in Runs
             PROVE  ToldOK(r)'
  BY DEF ToldInv
<1>1. CASE row[r].completed
  <2>1. row'[r] = row[r]
    BY <1>1, FinishedStep
  <2>2. runner[r].pc = "done"
    BY <1>1 DEF LifecycleInv, RunConsistent, At
  <2>3. runner'[r] = runner[r]
    BY <2>2, DoneStays
  <2> QED
    BY <2>1, <2>3 DEF ToldInv, ToldOK
<1>2. ASSUME ~row[r].completed, row'[r].completed
      PROVE  ToldOK(r)'
  <2>1. ASSUME NEW q \in Runs, Receive(q) \/ RunStep(q)
        PROVE  ToldOK(r)'
    <3>1. q = r
      BY <1>2, <2>1, OtherRows
    <3> QED
      BY <1>2, <2>1, <3>1, RunnerTold
  <2>2. ASSUME NEW c \in Cmds, LoadRun(c) \/ CmdStep(c)
        PROVE  FALSE
    BY <1>2, <2>2, CommandRows
  <2>3. ~Crash /\ ~UNCHANGED vars
    BY <1>2 DEF Crash, vars
  <2> QED
    BY <2>1, <2>2, <2>3 DEF Next
<1> QED
  BY <1>1, <1>2 DEF ToldOK

LEMMA ToldInvariant == Spec => []ToldInv
<1>1. Init => ToldInv
  <2>1. ~NoRow.completed
    BY DEF NoRow
  <2> QED
    BY <2>1 DEF Init, ToldInv, ToldOK
<1>2. TypeOK /\ CmdHasRun /\ LifecycleInv /\ ToldInv /\ [Next]_vars => ToldInv'
  BY NextTold
<1> QED
  BY <1>1, <1>2, Invariants, PTL DEF Spec

\* The response and the row agree, or the row is canceled because somebody asked,
\* whatever fails and however late the cancellation came.
THEOREM ResponsesAreTruthful == Spec => []ResponseIsTruthful
<1>1. ToldInv => ResponseIsTruthful
  BY DEF ToldInv, ToldOK, ResponseIsTruthful
<1> QED
  BY <1>1, ToldInvariant, PTL

\* No response points to a confirmation that is not there, and no run with a
\* confirmation is stored as done.
THEOREM HintsHaveConfirmations == Spec => []HintHasConfirmation
<1>1. ASSUME LifecycleInv, ExecInv, ToldInv
      PROVE  HintHasConfirmation
  <2> SUFFICES ASSUME NEW r \in Runs
               PROVE  /\ runner[r].hint => conf[r].status # "absent"
                      /\ conf[r].status # "absent" /\ row[r].completed =>
                           \/ row[r].status \in {"confirmation_required", "canceled"}
                           \/ StoreFaults /\ row[r].status = "failed"
    BY DEF HintHasConfirmation
  <2>1. row[r].completed => runner[r].pc = "done"
    BY <1>1 DEF LifecycleInv, RunConsistent, At
  <2> QED
    BY <1>1, <2>1 DEF ExecInv, ExecOK, ToldInv, ToldOK
<1> QED
  BY <1>1, Invariants, ExecInvariant, ToldInvariant, PTL

-----------------------------------------------------------------------------
(* Confirming and rejecting.                                               *)

Won(c) == cmd[c].reply \in {"confirmed", "canceled"}

\* A winner is the only one of its run, and its verdict is stored.
WonInv ==
    \A c \in Cmds : Won(c) =>
      /\ cmd[c].run \in Runs
      /\ conf[cmd[c].run].status = cmd[c].reply /\ conf[cmd[c].run].by = cmd[c].user
      /\ \A d \in Cmds : Won(d) /\ cmd[d].run = cmd[c].run => d = c

\* Of the commands, Resolve alone makes a winner.
LEMMA LosingReplies ==
  ASSUME TypeOK, NEW c \in Cmds, LoadRun(c) \/ RequestCancel(c) \/ LoadPending(c)
  PROVE  /\ \A d \in Cmds : d # c => cmd'[d] = cmd[d]
         /\ ~Won(c)' \/ (cmd'[c].reply = cmd[c].reply /\ cmd'[c].run = cmd[c].run
                          /\ cmd'[c].user = cmd[c].user)
<1>1. cmd \in [Cmds -> CmdType] /\ cmd[c] \in CmdType
  BY DEF TypeOK
<1>2. ASSUME NEW text, Reply(c, text), text \notin {"confirmed", "canceled"}
      PROVE  ~Won(c)'
  <2> DEFINE new == [cmd[c] EXCEPT !.pc = "done", !.reply = text]
  <2>1. new.reply = text
    BY <1>1 DEF CmdType
  <2>2. cmd' = [cmd EXCEPT ![c] = new]
    BY <1>2 DEF Reply
  <2> HIDE DEF new
  <2> QED
    BY <1>1, <1>2, <2>1, <2>2 DEF Won
<1>3. CASE LoadRun(c)
  <2>1. \A d \in Cmds : d # c => cmd'[d] = cmd[d]
    BY <1>3, LoadRunTypes
  <2> DEFINE on(u, r, verb, pc, text) == [pc |-> pc, verb |-> verb, user |-> u,
                                          run |-> r, reply |-> text]
  <2>2. PICK u \in Users, r \in Runs, verb \in Verbs \cup {"cancel", "pending"},
             failed \in MayFail, home \in BOOLEAN :
          LET To(pc, text) == cmd' = [cmd EXCEPT ![c] = on(u, r, verb, pc, text)]
          IN  IF failed THEN To("done", "failed")
              ELSE IF row[r].status = "absent" \/ ~home THEN To("done", "not_active")
              ELSE IF ~CanManage(u, r) THEN To("done", "forbidden")
              ELSE IF verb # "cancel" THEN To("pending", "")
              ELSE IF row[r].status = "running" THEN To("cancel", "")
              ELSE To("done", "already_ended")
    BY <1>3 DEF LoadRun
  <2>3. \A pc, text : on(u, r, verb, pc, text).reply = text
    OBVIOUS
  <2> HIDE DEF on
  <2>4. \E pc \in {"done", "pending", "cancel"},
           text \in {"failed", "not_active", "forbidden", "", "already_ended"} :
          cmd' = [cmd EXCEPT ![c] = on(u, r, verb, pc, text)]
    BY <2>2
  <2>5. PICK pc \in {"done", "pending", "cancel"},
             text \in {"failed", "not_active", "forbidden", "", "already_ended"} :
          cmd' = [cmd EXCEPT ![c] = on(u, r, verb, pc, text)]
    BY <2>4
  <2>6. text \notin {"confirmed", "canceled"}
    OBVIOUS
  <2>7. cmd'[c].reply = text
    BY <1>1, <2>3, <2>5
  <2> QED
    BY <2>1, <2>6, <2>7 DEF Won
<1>4. CASE RequestCancel(c)
  <2>1. \E text \in {"cancel_requested", "not_active", "failed"} : Reply(c, text)
    BY <1>4 DEF RequestCancel
  <2>2. \A d \in Cmds : d # c => cmd'[d] = cmd[d]
    BY <1>1, <2>1 DEF Reply
  <2> QED
    BY <1>2, <2>1, <2>2
<1>5. CASE LoadPending(c)
  <2>1. \A d \in Cmds : d # c => cmd'[d] = cmd[d]
    BY <1>5, LoadPendingTypes
  <2>2. CASE \E text \in {"failed", "no_pending", "shown"} : Reply(c, text)
    BY <1>2, <2>1, <2>2
  <2>3. CASE cmd' = [cmd EXCEPT ![c].pc = "resolve"]
    BY <1>1, <2>1, <2>3 DEF CmdType
  <2> QED
    BY <1>5, <2>2, <2>3 DEF LoadPending
<1> QED
  BY <1>3, <1>4, <1>5

\* Resolve makes one of a pending confirmation only, and then there was none.
LEMMA ResolveWon ==
  ASSUME TypeOK, CmdHasRun, WonInv, NEW c \in Cmds, Resolve(c)
  PROVE  WonInv'
<1> DEFINE r == cmd[c].run
<1>1. r \in Runs
  BY DEF CmdHasRun, Resolve
<1>2. \A d \in Cmds : d # c => cmd'[d] = cmd[d]
  BY <1>1, ResolveTypes
<1>3. /\ cmd'[c].run = r /\ cmd'[c].user = cmd[c].user
      /\ \A q \in Runs : q # r => conf'[q] = conf[q]
      /\ \/ conf' = conf /\ cmd'[c].reply \notin {"confirmed", "canceled"}
         \/ /\ conf[r].status = "pending"
            /\ cmd'[c].reply \in {"confirmed", "canceled"} =>
                 conf'[r].status = cmd'[c].reply /\ conf'[r].by = cmd'[c].user
  BY <1>1, ResolveFacts
<1>4. CASE conf' = conf /\ ~Won(c)'
  BY <1>2, <1>4 DEF WonInv, Won
<1>5. CASE /\ conf[r].status = "pending"
           /\ Won(c)' => conf'[r].status = cmd'[c].reply /\ conf'[r].by = cmd'[c].user
  <2>1. \A d \in Cmds : d # c /\ Won(d)' => Won(d) /\ cmd'[d].run # r
    BY <1>2, <1>5 DEF WonInv, Won
  <2> SUFFICES ASSUME NEW d \in Cmds, Won(d)'
               PROVE  /\ cmd'[d].run \in Runs
                      /\ conf'[cmd'[d].run].status = cmd'[d].reply
                      /\ conf'[cmd'[d].run].by = cmd'[d].user
                      /\ \A e \in Cmds : Won(e)' /\ cmd'[e].run = cmd'[d].run => e = d
    BY DEF WonInv
  <2>2. CASE d = c
    BY <1>1, <1>3, <1>5, <2>1, <2>2
  <2>3. CASE d # c
    BY <1>2, <1>3, <2>1, <2>3 DEF WonInv
  <2> QED
    BY <2>2, <2>3
<1> QED
  BY <1>3, <1>4, <1>5 DEF Won

\* A runner does not touch a confirmation that was resolved.
LEMMA RunnerKeepsResolved ==
  ASSUME TypeOK, ExecInv, NEW r \in Runs, Receive(r) \/ RunStep(r),
         NEW q \in Runs, conf[q].status # "absent"
  PROVE  conf'[q] = conf[q]
<1>1. CASE CreateConfirmation(r)
  <2>1. conf[r].status = "absent"
    BY <1>1 DEF ExecInv, ExecOK, Executing, CreateConfirmation, At
  <2> QED
    BY <1>1, <2>1 DEF CreateConfirmation, TypeOK
<1>2. CASE ~CreateConfirmation(r)
  BY <1>2 DEF RunStep, Receive, StartRun, CheckStarted, Route, FetchContext, MakePlan,
     CheckTool, DeferWrite, RefuseTool, ExecuteTool, CheckAnswer, Answer, Complete
<1> QED
  BY <1>1, <1>2

LEMMA NextWon ==
  ASSUME TypeOK, CmdHasRun, ExecInv, WonInv, [Next]_vars
  PROVE  WonInv'
<1>1. CASE \E r \in Runs : Receive(r) \/ RunStep(r)
  <2>1. PICK r \in Runs : Receive(r) \/ RunStep(r)
    BY <1>1
  <2>2. cmd' = cmd
    BY <2>1 DEF RunStep, Receive, StartRun, CheckStarted, Route, FetchContext, MakePlan,
       CheckTool, DeferWrite, CreateConfirmation, RefuseTool, ExecuteTool, CheckAnswer,
       Answer, Complete
  <2>3. \A c \in Cmds : Won(c) => conf'[cmd[c].run] = conf[cmd[c].run]
    BY <2>1, RunnerKeepsResolved DEF WonInv, Won
  <2> QED
    BY <2>2, <2>3 DEF WonInv, Won
<1>2. ASSUME NEW c \in Cmds, Resolve(c)
      PROVE  WonInv'
  BY <1>2, ResolveWon
<1>3. ASSUME NEW c \in Cmds, LoadRun(c) \/ RequestCancel(c) \/ LoadPending(c)
      PROVE  WonInv'
  <2>1. conf' = conf
    BY <1>3 DEF LoadRun, RequestCancel, LoadPending
  <2>2. /\ \A d \in Cmds : d # c => cmd'[d] = cmd[d]
        /\ ~Won(c)' \/ (cmd'[c].reply = cmd[c].reply /\ cmd'[c].run = cmd[c].run
                         /\ cmd'[c].user = cmd[c].user)
    BY <1>3, LosingReplies
  <2> QED
    BY <2>1, <2>2 DEF WonInv, Won
<1>4. CASE Crash
  <2>1. conf' = conf
    BY <1>4 DEF Crash
  <2>2. ASSUME NEW c \in Cmds
        PROVE  cmd'[c].reply = cmd[c].reply /\ cmd'[c].run = cmd[c].run
               /\ cmd'[c].user = cmd[c].user
    <3>1. cmd[c] \in CmdType
      BY DEF TypeOK
    <3>2. cmd'[c] = cmd[c] \/ cmd'[c] = [cmd[c] EXCEPT !.pc = "dead"]
      BY <1>4 DEF Crash
    <3> QED
      BY <3>1, <3>2 DEF CmdType
  <2> QED
    BY <2>1, <2>2 DEF WonInv, Won
<1>5. CASE UNCHANGED vars
  BY <1>5 DEF vars, WonInv, Won
<1> QED
  BY <1>1, <1>2, <1>3, <1>4, <1>5 DEF Next, CmdStep

LEMMA InitWon == Init => WonInv
<1>1. IdleCmd.reply \notin {"confirmed", "canceled"}
  BY DEF IdleCmd
<1>2. Init => \A c \in Cmds : cmd[c] = IdleCmd
  BY DEF Init
<1> QED
  BY <1>1, <1>2 DEF WonInv, Won

\* However the commands of the owner and of administrators interleave, one of
\* them is told that it resolved the confirmation of a run, and the confirmation
\* says what that one asked for (ResolveConfirmation).
THEOREM OneResolutionAlways == Spec => []OneResolution
<1>1. WonInv => OneResolution
  <2> SUFFICES ASSUME WonInv, NEW r \in Runs
               PROVE  LET winners == {c \in Cmds : cmd[c].run = r
                                        /\ cmd[c].reply \in {"confirmed", "canceled"}}
                      IN  /\ Cardinality(winners) <= 1
                          /\ \A c \in winners : /\ conf[r].status = cmd[c].reply
                                                /\ conf[r].by = cmd[c].user
    BY DEF OneResolution
  <2> DEFINE winners == {c \in Cmds : cmd[c].run = r /\ Won(c)}
  <2>1. \A c \in winners : conf[r].status = cmd[c].reply /\ conf[r].by = cmd[c].user
    BY DEF WonInv
  <2>2. winners = {} \/ \E c \in winners : winners = {c}
    BY DEF WonInv
  <2>3. Cardinality(winners) <= 1
    <3> HIDE DEF winners
    <3>1. CASE winners = {}
      BY <3>1, FS_EmptySet
    <3>2. CASE \E c \in winners : winners = {c}
      <4>1. PICK c \in winners : winners = {c}
        BY <3>2
      <4>2. Cardinality(winners) = 1
        BY <4>1, FS_Singleton
      <4> QED
        BY <4>2
    <3> QED
      BY <2>2, <3>1, <3>2
  <2> QED
    BY <2>1, <2>3 DEF Won
<1>2. TypeOK /\ CmdHasRun /\ ExecInv /\ WonInv /\ [Next]_vars => WonInv'
  BY NextWon
<1> QED
  BY <1>1, <1>2, InitWon, Invariants, ExecInvariant, PTL DEF Spec

\* Of the steps of the commands, Resolve alone touches a confirmation, and only
\* a pending one.
LEMMA ResolvedStep ==
  ASSUME TypeOK, CmdHasRun, ExecInv, [Next]_vars,
         NEW q \in Runs, conf[q].status \in {"confirmed", "canceled"}
  PROVE  conf'[q] = conf[q]
<1>1. CASE \E r \in Runs : Receive(r) \/ RunStep(r)
  BY <1>1, RunnerKeepsResolved
<1>2. ASSUME NEW c \in Cmds, Resolve(c)
      PROVE  conf'[q] = conf[q]
  <2>1. cmd[c].run \in Runs
    BY <1>2 DEF CmdHasRun, Resolve
  <2> QED
    BY <1>2, <2>1, ResolveFacts
<1>3. ASSUME NEW c \in Cmds, LoadRun(c) \/ RequestCancel(c) \/ LoadPending(c)
      PROVE  conf'[q] = conf[q]
  <2>1. conf' = conf
    BY <1>3 DEF LoadRun, RequestCancel, LoadPending
  <2> QED
    BY <2>1
<1>4. CASE Crash \/ UNCHANGED vars
  BY <1>4 DEF Crash, vars
<1> QED
  BY <1>1, <1>2, <1>3, <1>4 DEF Next, CmdStep

\* What a user decided about a confirmation is never overwritten: neither by
\* another command that saw it pending (ResolveConfirmation), nor by a runner,
\* nor by a crash.
THEOREM ResolutionStaysFinal == Spec => ResolutionIsFinal
<1>1. TypeOK /\ CmdHasRun /\ ExecInv /\ [Next]_vars
        => [\A r \in Runs : conf[r].status \in {"confirmed", "canceled"}
                              => conf'[r] = conf[r]]_vars
  BY ResolvedStep
<1> QED
  BY <1>1, Invariants, ExecInvariant, PTL DEF Spec, ResolutionIsFinal
-----------------------------------------------------------------------------
(* What a run is charged.                                                  *)

Kinds == {"plan", "context", "tool", "answer"}

ToolsOf(set) == {s \in set : s.kind = "tool"}

StepRow(i, kind) == [index |-> i, kind |-> kind]

\* The counters in the row of a run count its steps.
Counted(r) ==
    /\ IsFiniteSet(steps[r])
    /\ row[r].steps = Cardinality(steps[r])
    /\ row[r].tools = Cardinality(ToolsOf(steps[r]))

\* Nothing is recorded, or the step of this index is.
NotCharged(r) == /\ steps'[r] = steps[r]
                 /\ row'[r].steps = row[r].steps /\ row'[r].tools = row[r].tools

ChargedFor(r, i, kind) ==
    /\ ~StepTaken(r, i)
    /\ steps'[r] = steps[r] \cup {StepRow(i, kind)}
    /\ row'[r].steps = row[r].steps + 1
    /\ row'[r].tools = row[r].tools + (IF kind = "tool" THEN 1 ELSE 0)

\* A step more than there are.
LEMMA AddStep ==
  ASSUME NEW S, IsFiniteSet(S), NEW i, NEW kind, \A s \in S : s.index # i
  PROVE  LET T == S \cup {StepRow(i, kind)}
         IN  /\ IsFiniteSet(T) /\ Cardinality(T) = Cardinality(S) + 1
             /\ Cardinality(ToolsOf(T)) = Cardinality(ToolsOf(S)) + (IF kind = "tool" THEN 1 ELSE 0)
<1> DEFINE x == StepRow(i, kind)
           T == S \cup {x}
<1>1. x \notin S /\ x.kind = kind
  BY DEF StepRow
<1>2. IsFiniteSet(T) /\ Cardinality(T) = Cardinality(S) + 1
  BY <1>1, FS_AddElement
<1>3. IsFiniteSet(ToolsOf(S))
  BY FS_Subset DEF ToolsOf
<1>4. CASE kind = "tool"
  <2>1. ToolsOf(T) = ToolsOf(S) \cup {x} /\ x \notin ToolsOf(S)
    BY <1>1, <1>4 DEF ToolsOf
  <2> HIDE DEF T, x
  <2>2. Cardinality(ToolsOf(S) \cup {x}) = Cardinality(ToolsOf(S)) + 1
    BY <1>3, <2>1, FS_AddElement
  <2> QED
    BY <1>2, <1>4, <2>1, <2>2 DEF T, x
<1>5. CASE kind # "tool"
  <2>1. ToolsOf(T) = ToolsOf(S)
    BY <1>1, <1>5 DEF ToolsOf
  <2>2. Cardinality(ToolsOf(S)) \in Nat
    BY <1>3, FS_CardinalityType
  <2> QED
    BY <1>2, <1>5, <2>1, <2>2
<1> QED
  BY <1>4, <1>5

\* RecordStep: a step and its charge go in together or not at all.
LEMMA RecordCounts ==
  ASSUME TypeOK, NEW r \in Runs, Counted(r), NEW i \in Nat, NEW kind \in Kinds,
         Record(r, i, kind)
  PROVE  /\ Counted(r)'
         /\ \/ NotCharged(r) /\ (StepFaults \/ StepTaken(r, i))
            \/ ChargedFor(r, i, kind)
<1>1. row \in [Runs -> RowType] /\ steps \in [Runs -> SUBSET StepType]
  BY DEF TypeOK
<1>2. CASE UNCHANGED <<steps, row>> /\ (StepFaults \/ StepTaken(r, i))
  BY <1>2 DEF Counted, NotCharged
<1>3. CASE /\ ~StepTaken(r, i)
           /\ steps' = [steps EXCEPT ![r] = @ \cup {[index |-> i, kind |-> kind]}]
           /\ row' = [row EXCEPT ![r] = Charged(@, kind)]
  <2>1. ASSUME NEW old \in RowType
        PROVE  /\ Charged(old, kind).steps = old.steps + 1
               /\ Charged(old, kind).tools = old.tools + (IF kind = "tool" THEN 1 ELSE 0)
    BY DEF Charged, RowType
  <2>2. row'[r] = Charged(row[r], kind) /\ steps'[r] = steps[r] \cup {StepRow(i, kind)}
    BY <1>1, <1>3 DEF StepRow
  <2>3. /\ row'[r].steps = row[r].steps + 1
        /\ row'[r].tools = row[r].tools + (IF kind = "tool" THEN 1 ELSE 0)
    BY <1>1, <2>1, <2>2
  <2>4. \A s \in steps[r] : s.index # i
    BY <1>3 DEF StepTaken
  <2>5. LET T == steps[r] \cup {StepRow(i, kind)}
        IN  /\ IsFiniteSet(T) /\ Cardinality(T) = Cardinality(steps[r]) + 1
            /\ Cardinality(ToolsOf(T))
                 = Cardinality(ToolsOf(steps[r])) + (IF kind = "tool" THEN 1 ELSE 0)
    BY <2>4, AddStep DEF Counted
  <2>6. Counted(r)'
    BY <2>2, <2>3, <2>5 DEF Counted
  <2> QED
    BY <1>3, <2>2, <2>3, <2>6 DEF ChargedFor
<1> QED
  BY <1>2, <1>3 DEF Record

\* Whether the step of the current tool is recorded while the executor is still at it:
\* the denied step of a write, before its confirmation.
Ahead(r) == IF At(r, "confirm") /\ StepTaken(r, ToolStep(r)) THEN 1 ELSE 0

Below(r, n) == \A s \in steps[r] : s.index < n

\* While the executor works no index from the current one on is taken, what is charged
\* is what was done, and the rest of the plan fits the limits.
Within(r) ==
    LET plan   == runner[r].plan
        offset == runner[r].offset
        next   == runner[r].next
    IN  /\ row[r].tools <= next - 1 + Ahead(r)
        /\ row[r].steps <= offset + next + Ahead(r)
        /\ Below(r, offset + next + Ahead(r))
        /\ Len(plan) <= MaxToolCalls
        /\ MaxSteps > 0 => 2 + Len(plan) + offset <= MaxSteps

Limited(r) ==
    /\ row[r].tools <= MaxToolCalls
    /\ MaxSteps > 0 /\ executed[r] # {} => row[r].steps <= MaxSteps

Kept(r) == ~StepFaults =>
    /\ \A i \in executed[r] : StepRow(runner[r].offset + i, "tool") \in steps[r]
    /\ runner[r].reason = "completed" =>
         StepRow(runner[r].offset + Len(runner[r].plan) + 1, "answer") \in steps[r]

\* UsageIsAccurate and StepsAreKept for one run, and what each place of its runner adds.
StepOK(r) ==
    /\ Counted(r)
    /\ runner[r].pc \in Early \cup Executing => runner[r].reason = ""
    /\ runner[r].pc \in Early \ {"plan"} => steps[r] = {}
    /\ runner[r].pc = "plan" => /\ row[r].tools = 0 /\ row[r].steps <= runner[r].offset
                               /\ Below(r, runner[r].offset + 1)
    /\ runner[r].pc \in Executing => Within(r)
    /\ Limited(r)
    /\ Kept(r)

StepInv == \A r \in Runs : StepOK(r)

\* The numbers the invariant compares.
LEMMA StepNumbers ==
  ASSUME TypeOK, NEW r \in Runs
  PROVE  /\ runner[r].offset \in {0, 1} /\ runner[r].next \in Nat \ {0}
         /\ Len(runner[r].plan) \in Nat
         /\ row[r].steps \in Nat /\ row[r].tools \in Nat
         /\ \A s \in steps[r] : s.index \in Nat
         /\ \A i \in executed[r] : i \in Nat \ {0}
         /\ MaxSteps \in Nat /\ MaxToolCalls \in Nat \ {0}
<1>1. runner[r] \in RunnerType /\ row[r] \in RowType /\ steps[r] \in SUBSET StepType
      /\ executed[r] \in SUBSET (Nat \ {0})
  BY DEF TypeOK
<1>2. runner[r].offset \in {0, 1} /\ row[r].steps \in Nat /\ row[r].tools \in Nat
  BY <1>1 DEF RunnerType, RowType
<1>3. \A s \in steps[r] : s.index \in Nat
  BY <1>1 DEF StepType
<1> QED
  BY <1>1, <1>2, <1>3, PlanFacts, RunAssumption

\* The same after a step.
LEMMA NewNumbers ==
  ASSUME TypeOK', NEW r \in Runs
  PROVE  /\ row'[r].steps \in Nat /\ row'[r].tools \in Nat
         /\ \A s \in steps'[r] : s.index \in Nat
<1>1. row'[r] \in RowType /\ steps'[r] \in SUBSET StepType
  BY DEF TypeOK
<1> QED
  BY <1>1 DEF RowType, StepType

\* Nothing recorded is nothing charged.
LEMMA NoSteps ==
  ASSUME NEW r \in Runs, Counted(r), steps[r] = {}
  PROVE  row[r].steps = 0 /\ row[r].tools = 0
<1>1. ToolsOf(steps[r]) = {}
  BY DEF ToolsOf
<1> QED
  BY <1>1, FS_EmptySet DEF Counted

\* The plan, the place in it and the offset of its steps stay as they are.
SamePlan(r) == /\ runner'[r].plan = runner[r].plan
               /\ runner'[r].next = runner[r].next
               /\ runner'[r].offset = runner[r].offset

\* The run ends before its plan is executed: what it is charged for is not a tool.
LEMMA EarlyEnd ==
  ASSUME TypeOK, TypeOK', NEW r \in Runs, StepOK(r), ExecOK(r), Counted(r)',
         runner[r].pc \in Early, runner'[r].pc \in {"complete", "done"},
         runner'[r].reason # "completed", executed'[r] = executed[r],
         NotCharged(r) \/ \E i, kind : kind # "tool" /\ ChargedFor(r, i, kind)
  PROVE  StepOK(r)'
<1>1. row[r].tools = 0
  BY NoSteps DEF StepOK
<1>2. executed'[r] = {}
  BY DEF ExecOK
<1>3. row'[r].tools = 0
  BY <1>1 DEF NotCharged, ChargedFor
<1>4. runner'[r].pc \notin Early \cup Executing /\ runner'[r].pc # "plan"
  BY DEF Early, Executing
<1>5. Limited(r)'
  <2>1. MaxToolCalls \in Nat
    BY StepNumbers
  <2> QED
    BY <1>2, <1>3, <2>1 DEF Limited
<1>6. Kept(r)'
  BY <1>2 DEF Kept
<1> QED
  BY <1>4, <1>5, <1>6 DEF StepOK

\* The run ends while its plan is executed: one more step fits its limits.
LEMMA LateEnd ==
  ASSUME TypeOK, TypeOK', NEW r \in Runs, StepOK(r), ExecOK(r), Counted(r)', SamePlan(r),
         runner[r].pc \in Executing, runner'[r].pc = "complete",
         \/ NotCharged(r)
         \/ \E kind : /\ ChargedFor(r, ToolStep(r), kind)
                      /\ kind = "tool" => runner[r].next <= Len(runner[r].plan),
         \A i \in executed'[r] : \/ i \in executed[r]
                                 \/ /\ i = runner[r].next
                                    /\ ~StepFaults => StepRow(ToolStep(r), "tool") \in steps'[r],
         runner'[r].reason = "completed" /\ ~StepFaults =>
           StepRow(runner[r].offset + Len(runner[r].plan) + 1, "answer") \in steps'[r]
  PROVE  StepOK(r)'
<1> DEFINE off == runner[r].offset
           next == runner[r].next
           len == Len(runner[r].plan)
<1>1. /\ off \in {0, 1} /\ next \in Nat \ {0} /\ len \in Nat
      /\ row[r].steps \in Nat /\ row[r].tools \in Nat
      /\ MaxSteps \in Nat /\ MaxToolCalls \in Nat \ {0}
  BY StepNumbers
<1>2. Within(r)
  BY DEF StepOK
<1>3. /\ row[r].tools <= next - 1 + Ahead(r)
      /\ row[r].steps <= off + next + Ahead(r)
      /\ len <= MaxToolCalls
      /\ MaxSteps > 0 => 2 + len + off <= MaxSteps
  BY <1>2 DEF Within
<1>4. next - 1 <= len
  BY DEF ExecOK
<1>5. \/ Ahead(r) = 0
      \/ Ahead(r) = 1 /\ next <= len /\ StepTaken(r, ToolStep(r))
  BY DEF Ahead, At, ExecOK
<1>6. \/ row'[r].steps = row[r].steps /\ row'[r].tools = row[r].tools
      \/ /\ ~StepTaken(r, ToolStep(r)) /\ row'[r].steps = row[r].steps + 1
         /\ \/ row'[r].tools = row[r].tools
            \/ row'[r].tools = row[r].tools + 1 /\ next <= len
  BY <1>1 DEF NotCharged, ChargedFor
<1>7. steps[r] \subseteq steps'[r]
  BY DEF NotCharged, ChargedFor
<1>8. Kept(r)'
  BY <1>7 DEF StepOK, Kept, SamePlan, ToolStep
<1> HIDE DEF off, next, len
<1>9. row'[r].tools <= len /\ row'[r].steps <= off + len + 2
  <2>1. CASE Ahead(r) = 0
    <3>1. row[r].tools <= next - 1 /\ row[r].steps <= off + next
      BY <1>1, <1>3, <2>1
    <3> QED
      BY <1>1, <1>4, <1>6, <3>1
  <2>2. CASE Ahead(r) = 1 /\ next <= len /\ StepTaken(r, ToolStep(r))
    <3>1. row[r].tools <= next /\ row[r].steps <= off + next + 1
      BY <1>1, <1>3, <2>2
    <3>2. row'[r].steps = row[r].steps /\ row'[r].tools = row[r].tools
      BY <1>6, <2>2
    <3> QED
      BY <1>1, <2>2, <3>1, <3>2
  <2> QED
    BY <1>5, <2>1, <2>2
<1>10. Limited(r)'
  <2>1. row'[r].tools \in Nat /\ row'[r].steps \in Nat
    BY NewNumbers
  <2>2. row'[r].tools <= MaxToolCalls
    BY <1>1, <1>3, <1>9, <2>1
  <2>3. MaxSteps > 0 => row'[r].steps <= MaxSteps
    BY <1>1, <1>3, <1>9, <2>1
  <2> QED
    BY <2>2, <2>3 DEF Limited
<1>11. runner'[r].pc \notin Early \cup Executing /\ runner'[r].pc # "plan"
  BY DEF Early, Executing
<1> QED
  BY <1>8, <1>10, <1>11 DEF StepOK

\* The executor goes on within its plan without a record.
LEMMA UnchargedMove ==
  ASSUME TypeOK, TypeOK', NEW r \in Runs, StepOK(r), SamePlan(r), NotCharged(r),
         Counted(r)', executed'[r] = executed[r], runner'[r].reason = runner[r].reason,
         runner[r].pc = "tool", runner'[r].pc \in {"write", "read", "answer"}
  PROVE  StepOK(r)'
<1>1. Ahead(r) = 0 /\ Ahead(r)' = 0
  BY DEF Ahead, At
<1>2. runner[r].pc \in Executing /\ runner'[r].pc \in Executing
      /\ runner'[r].pc \notin Early /\ runner'[r].pc # "plan"
  BY DEF Executing, Early
<1>3. Within(r)'
  BY <1>1, <1>2 DEF StepOK, Within, SamePlan, NotCharged, Below
<1>4. Limited(r)' /\ Kept(r)'
  BY DEF StepOK, Limited, Kept, SamePlan, NotCharged
<1> QED
  BY <1>2, <1>3, <1>4 DEF StepOK

\* What the executor records of a tool it has not recorded yet.
LEMMA ToolCharge ==
  ASSUME TypeOK, TypeOK', NEW r \in Runs, StepOK(r), ExecOK(r),
         runner[r].pc \in {"write", "read"}, Record(r, ToolStep(r), "tool")
  PROVE  LET off  == runner[r].offset
             next == runner[r].next
         IN  /\ Counted(r)'
             /\ Below(r, off + next)
             /\ \/ NotCharged(r) /\ StepFaults
                \/ ChargedFor(r, ToolStep(r), "tool")
             /\ row'[r].tools <= next /\ row'[r].steps <= off + next + 1
             /\ NotCharged(r) => row'[r].tools <= next - 1 /\ row'[r].steps <= off + next
             /\ \A s \in steps'[r] : s.index < off + next + 1
             /\ row'[r].tools <= MaxToolCalls
             /\ MaxSteps > 0 => row'[r].steps <= MaxSteps
             /\ Len(runner[r].plan) <= MaxToolCalls
             /\ MaxSteps > 0 => 2 + Len(runner[r].plan) + off <= MaxSteps
<1> DEFINE off == runner[r].offset
           next == runner[r].next
           len == Len(runner[r].plan)
<1>1. /\ off \in {0, 1} /\ next \in Nat \ {0} /\ len \in Nat
      /\ row[r].steps \in Nat /\ row[r].tools \in Nat
      /\ MaxSteps \in Nat /\ MaxToolCalls \in Nat \ {0}
      /\ \A s \in steps[r] : s.index \in Nat
  BY StepNumbers
<1>2. ToolStep(r) = off + next /\ ToolStep(r) \in Nat
  BY <1>1 DEF ToolStep
<1>3. /\ Counted(r)'
      /\ \/ NotCharged(r) /\ (StepFaults \/ StepTaken(r, ToolStep(r)))
         \/ ChargedFor(r, ToolStep(r), "tool")
  <2>1. Counted(r)
    BY DEF StepOK
  <2> QED
    BY <1>2, <2>1, RecordCounts DEF Kinds
<1>4. Ahead(r) = 0 /\ Within(r) /\ next <= len
  BY DEF Ahead, At, StepOK, ExecOK, Executing
<1>5. /\ row[r].tools <= next - 1 /\ row[r].steps <= off + next
      /\ Below(r, off + next)
      /\ len <= MaxToolCalls
      /\ MaxSteps > 0 => 2 + len + off <= MaxSteps
  BY <1>1, <1>4 DEF Within
<1>6. ~StepTaken(r, ToolStep(r))
  BY <1>1, <1>2, <1>5 DEF StepTaken, Below
<1>7. StepRow(ToolStep(r), "tool").index = off + next
  BY <1>2 DEF StepRow
<1>8. \A s \in steps'[r] : s.index < off + next + 1
  BY <1>1, <1>3, <1>5, <1>7 DEF Below, NotCharged, ChargedFor
<1>9. /\ row'[r].tools <= next /\ row'[r].steps <= off + next + 1
      /\ NotCharged(r) => row'[r].tools <= next - 1 /\ row'[r].steps <= off + next
  BY <1>1, <1>3, <1>5, SMTT(30) DEF NotCharged, ChargedFor
<1>10. row'[r].tools \in Nat /\ row'[r].steps \in Nat
  BY NewNumbers
<1> HIDE DEF off, next, len
<1>11. /\ row'[r].tools <= MaxToolCalls
       /\ MaxSteps > 0 => row'[r].steps <= MaxSteps
  BY <1>1, <1>4, <1>5, <1>9, <1>10
<1> QED
  BY <1>3, <1>5, <1>6, <1>8, <1>9, <1>11 DEF off, next, len

\* The denied step of a write is recorded under its index.
LEMMA DeferStep ==
  ASSUME TypeOK, TypeOK', NEW r \in Runs, StepOK(r), ExecOK(r), DeferWrite(r)
  PROVE  StepOK(r)'
<1> DEFINE off == runner[r].offset
           next == runner[r].next
<1>1. /\ SamePlan(r) /\ runner'[r].reason = runner[r].reason /\ executed'[r] = executed[r]
      /\ runner[r].pc = "write" /\ runner'[r].pc = "confirm"
  BY GotoFrame DEF DeferWrite, At, Frame, SamePlan
<1>2. /\ runner[r].pc \in Executing /\ runner'[r].pc \in Executing
      /\ runner'[r].pc \notin Early /\ runner'[r].pc # "plan"
  BY <1>1 DEF Executing, Early
<1>3. off \in {0, 1} /\ next \in Nat \ {0} /\ \A s \in steps[r] : s.index \in Nat
  BY StepNumbers
<1>4. /\ Counted(r)' /\ Below(r, off + next)
      /\ \/ NotCharged(r) /\ StepFaults
         \/ ChargedFor(r, ToolStep(r), "tool")
      /\ row'[r].tools <= next /\ row'[r].steps <= off + next + 1
      /\ NotCharged(r) => row'[r].tools <= next - 1 /\ row'[r].steps <= off + next
      /\ \A s \in steps'[r] : s.index < off + next + 1
      /\ row'[r].tools <= MaxToolCalls
      /\ MaxSteps > 0 => row'[r].steps <= MaxSteps
      /\ Len(runner[r].plan) <= MaxToolCalls
      /\ MaxSteps > 0 => 2 + Len(runner[r].plan) + off <= MaxSteps
  BY <1>1, ToolCharge DEF DeferWrite
<1>5. ToolStep(r)' = off + next /\ ToolStep(r) = off + next
  BY <1>1 DEF ToolStep, SamePlan
<1>6. Within(r)'
  <2>1. CASE NotCharged(r)
    <3>1. ~StepTaken(r, ToolStep(r))'
      BY <1>3, <1>4, <1>5, <2>1 DEF StepTaken, Below, NotCharged
    <3>2. Ahead(r)' = 0
      BY <3>1 DEF Ahead
    <3>3. Below(r, off + next)'
      BY <1>1, <1>4, <2>1 DEF Below, NotCharged, SamePlan
    <3> QED
      BY <1>1, <1>3, <1>4, <2>1, <3>2, <3>3 DEF Within, SamePlan
  <2>2. CASE ChargedFor(r, ToolStep(r), "tool")
    <3>1. StepRow(off + next, "tool").index = off + next
      BY DEF StepRow
    <3>2. Ahead(r)' = 1
      BY <1>1, <1>5, <2>2, <3>1 DEF Ahead, At, StepTaken, ChargedFor
    <3>3. next - 1 + 1 = next
      BY <1>3
    <3>4. Below(r, off + next + 1)'
      BY <1>1, <1>4 DEF Below, SamePlan
    <3> QED
      BY <1>1, <1>4, <3>2, <3>3, <3>4 DEF Within, SamePlan
  <2> QED
    BY <1>4, <2>1, <2>2
<1>7. Limited(r)'
  BY <1>4 DEF Limited
<1>8. Kept(r)'
  BY <1>1, <1>2, <1>4 DEF StepOK, Kept, SamePlan, NotCharged, ChargedFor
<1> QED
  BY <1>1, <1>2, <1>4, <1>6, <1>7, <1>8 DEF StepOK

\* A tool is executed and recorded, and the executor goes on to the next one.
LEMMA NextToolStep ==
  ASSUME TypeOK, TypeOK', NEW r \in Runs, StepOK(r), ExecOK(r), runner[r].pc = "read",
         executed' = [executed EXCEPT ![r] = @ \cup {runner[r].next}], NextTool(r),
         Record(r, ToolStep(r), "tool")
  PROVE  StepOK(r)'
<1> DEFINE off == runner[r].offset
           next == runner[r].next
<1>1. /\ runner'[r].plan = runner[r].plan /\ runner'[r].next = next + 1
      /\ runner'[r].pc = "tool" /\ runner'[r].reason = runner[r].reason
      /\ runner'[r].offset = off
  BY NextToolFrame
<1>2. /\ runner[r].pc \in Executing /\ runner'[r].pc \in Executing
      /\ runner'[r].pc \notin Early /\ runner'[r].pc # "plan"
  BY <1>1 DEF Executing, Early
<1>3. off \in {0, 1} /\ next \in Nat \ {0}
  BY StepNumbers
<1>4. /\ Counted(r)' /\ Below(r, off + next)
      /\ \/ NotCharged(r) /\ StepFaults
         \/ ChargedFor(r, ToolStep(r), "tool")
      /\ row'[r].tools <= next /\ row'[r].steps <= off + next + 1
      /\ \A s \in steps'[r] : s.index < off + next + 1
      /\ row'[r].tools <= MaxToolCalls
      /\ MaxSteps > 0 => row'[r].steps <= MaxSteps
      /\ Len(runner[r].plan) <= MaxToolCalls
      /\ MaxSteps > 0 => 2 + Len(runner[r].plan) + off <= MaxSteps
  BY ToolCharge
<1>5. Ahead(r)' = 0
  BY <1>1 DEF Ahead, At
<1>6. Within(r)'
  <2>1. (next + 1) - 1 + 0 = next /\ off + (next + 1) + 0 = off + next + 1
    BY <1>3
  <2>2. \A s \in steps'[r] : s.index < off + (next + 1) + 0
    BY <1>4, <2>1
  <2>3. row'[r].tools <= (next + 1) - 1 + 0 /\ row'[r].steps <= off + (next + 1) + 0
    BY <1>4, <2>1
  <2> HIDE DEF off, next
  <2> QED
    BY <1>1, <1>4, <1>5, <2>2, <2>3 DEF Within, Below
<1>7. Limited(r)'
  BY <1>4 DEF Limited
<1>8. Kept(r)'
  <2>1. executed'[r] = executed[r] \cup {next}
    BY DEF TypeOK
  <2>2. runner'[r].reason = ""
    BY <1>1, <1>2 DEF StepOK
  <2> QED
    BY <1>1, <1>4, <2>1, <2>2 DEF StepOK, Kept, NotCharged, ChargedFor, ToolStep
<1> QED
  BY <1>1, <1>2, <1>4, <1>6, <1>7, <1>8 DEF StepOK

\* The run has not recorded anything yet, and goes on.
LEMMA EarlyStay ==
  ASSUME TypeOK, NEW r \in Runs, StepOK(r), ExecOK(r), Counted(r)', steps'[r] = {},
         runner[r].pc \in Early, runner'[r].pc \in (Early \ {"plan"}) \cup {"done"},
         runner'[r].reason = runner[r].reason, executed'[r] = executed[r]
  PROVE  StepOK(r)'
<1>1. row'[r].tools = 0
  <2>1. ToolsOf(steps'[r]) = {}
    BY DEF ToolsOf
  <2> QED
    BY <2>1, FS_EmptySet DEF Counted
<1>2. executed'[r] = {} /\ MaxToolCalls \in Nat
  BY StepNumbers DEF ExecOK
<1>3. Limited(r)'
  BY <1>1, <1>2 DEF Limited
<1>4. runner'[r].reason = "" /\ Kept(r)'
  <2>1. runner'[r].reason = ""
    BY DEF StepOK
  <2> QED
    BY <1>2, <2>1 DEF Kept
<1>5. runner'[r].pc \notin Executing /\ runner'[r].pc # "plan"
  BY DEF Early, Executing
<1> QED
  BY <1>3, <1>4, <1>5 DEF StepOK

\* The runner starts planning, with the context step or without.
LEMMA StartPlanning ==
  ASSUME TypeOK, TypeOK', NEW r \in Runs, StepOK(r), ExecOK(r), Counted(r)',
         runner[r].pc = "context", runner'[r].pc = "plan",
         runner'[r].reason = runner[r].reason, executed'[r] = executed[r],
         \/ NotCharged(r)
         \/ ChargedFor(r, 1, "context") /\ runner'[r].offset = 1
  PROVE  StepOK(r)'
<1>1. steps[r] = {} /\ runner[r].reason = "" /\ Counted(r)
  BY DEF StepOK, Early
<1>2. row[r].steps = 0 /\ row[r].tools = 0
  BY <1>1, NoSteps
<1>3. executed'[r] = {} /\ MaxToolCalls \in Nat
  BY StepNumbers DEF ExecOK, Early
<1>4. runner'[r].offset \in {0, 1}
  <2>1. runner'[r] \in RunnerType
    BY DEF TypeOK
  <2> QED
    BY <2>1 DEF RunnerType
<1>5. StepRow(1, "context").index = 1
  BY DEF StepRow
<1>6. /\ row'[r].tools = 0 /\ row'[r].steps <= runner'[r].offset
      /\ \A s \in steps'[r] : s.index < runner'[r].offset + 1
  <2>1. CASE NotCharged(r)
    <3>1. steps'[r] = {} /\ row'[r].steps = 0 /\ row'[r].tools = 0
      BY <1>1, <1>2, <2>1 DEF NotCharged
    <3>2. 0 <= runner'[r].offset
      BY <1>4
    <3> QED
      BY <3>1, <3>2
  <2>2. CASE ChargedFor(r, 1, "context") /\ runner'[r].offset = 1
    <3>1. /\ steps'[r] = steps[r] \cup {StepRow(1, "context")}
          /\ row'[r].steps = row[r].steps + 1 /\ row'[r].tools = row[r].tools + 0
      BY <2>2 DEF ChargedFor
    <3>2. \A s \in steps'[r] : s.index = 1
      BY <1>1, <1>5, <3>1
    <3> QED
      BY <1>2, <2>2, <3>1, <3>2
  <2> QED
    BY <2>1, <2>2
<1>7. Below(r, runner[r].offset + 1)'
  BY <1>6 DEF Below
<1>8. Limited(r)'
  BY <1>3, <1>6 DEF Limited
<1>9. runner'[r].pc \notin Executing /\ runner'[r].reason = ""
  BY <1>1 DEF Executing
<1>10. Kept(r)'
  BY <1>3, <1>9 DEF Kept
<1> QED
  BY <1>6, <1>7, <1>8, <1>9, <1>10 DEF StepOK

\* The row StartRun leaves has counted nothing yet.
LEMMA StartedCounts ==
  ASSUME TypeOK, LifecycleInv, NEW r \in Runs, Counted(r), runner[r].pc = "start",
         steps[r] = {}, steps'[r] = {}, row'[r] = row[r] \/ row'[r] = Started(row[r])
  PROVE  Counted(r)'
<1>1. row[r].status = "absent"
  BY DEF LifecycleInv, RunConsistent
<1>2. NoRow.steps = 0 /\ NoRow.tools = 0
  BY DEF NoRow
<1>3. Started(row[r]) = [NoRow EXCEPT !.status = "running"]
  BY <1>1 DEF Started
<1>4. Started(row[r]).steps = 0 /\ Started(row[r]).tools = 0
  BY <1>3 DEF NoRow
<1>5. row[r].steps = 0 /\ row[r].tools = 0
  BY NoSteps
<1>6. row'[r].steps = 0 /\ row'[r].tools = 0
  BY <1>4, <1>5
<1>7. ToolsOf(steps'[r]) = {}
  BY DEF ToolsOf
<1> QED
  BY <1>6, <1>7, FS_EmptySet DEF Counted

\* What the runner does before it has a plan.
LEMMA EarlyCounts ==
  ASSUME TypeOK, TypeOK', LifecycleInv, NEW r \in Runs, StepOK(r), ExecOK(r),
         Receive(r) \/ StartRun(r) \/ CheckStarted(r) \/ Route(r) \/ FetchContext(r)
  PROVE  StepOK(r)'
<1>1. /\ executed'[r] = executed[r] /\ Counted(r)
      /\ runner[r].pc \in Early \ {"plan"} /\ steps[r] = {}
  BY DEF Receive, StartRun, CheckStarted, Route, FetchContext, At, Early, StepOK
<1>2. CASE Receive(r)
  <2>1. PICK scope, guild, prior :
          runner' = [runner EXCEPT ![r] =
            [runner[r] EXCEPT !.pc = IF guild /\ scope # "none" THEN "start" ELSE "done",
                              !.scope = scope, !.prior = prior]]
    BY <1>2, Zenon DEF Receive
  <2>2. runner'[r].reason = runner[r].reason
    BY <2>1, RequestFrame
  <2>3. runner'[r].pc \in {"start", "done"}
    BY <1>2, ReceiveTypes DEF GoesOn
  <2>4. steps'[r] = {} /\ Counted(r)'
    BY <1>1, <1>2 DEF Receive, Counted
  <2> QED
    BY <1>1, <2>2, <2>3, <2>4, EarlyStay DEF Early
<1>3. CASE StartRun(r)
  <2>1. runner'[r].reason = runner[r].reason /\ runner'[r].pc \in {"check", "done"}
        /\ (row'[r] = row[r] \/ row'[r] = Started(row[r]))
    <3>1. \E pc, handled :
            runner' = [runner EXCEPT ![r] = [runner[r] EXCEPT !.pc = pc, !.handled = handled]]
      BY <1>3, Zenon DEF StartRun
    <3>2. runner'[r].reason = runner[r].reason
      BY <3>1, RequestFrame
    <3> QED
      BY <1>3, <3>2, StartRunTypes
  <2>2. steps'[r] = {} /\ runner[r].pc = "start"
    BY <1>1, <1>3 DEF StartRun, At
  <2>3. Counted(r)'
    BY <1>1, <2>1, <2>2, StartedCounts
  <2> QED
    BY <1>1, <2>1, <2>2, <2>3, EarlyStay DEF Early
<1>4. CASE CheckStarted(r)
  <2>1. NotCharged(r) /\ Counted(r)' /\ steps'[r] = {}
    BY <1>1, <1>4 DEF CheckStarted, NotCharged, Counted
  <2>2. CASE \E h, s : Finish(r, h, s, "canceled")
    <3>1. runner'[r].pc = "complete" /\ runner'[r].reason = "canceled"
      BY <2>2, FinishFrame
    <3> QED
      BY <1>1, <2>1, <3>1, EarlyEnd
  <2>3. CASE Goto(r, "route")
    <3>1. runner'[r].pc = "route" /\ runner'[r].reason = runner[r].reason
      BY <2>3, GotoFrame
    <3> QED
      BY <1>1, <2>1, <3>1, EarlyStay DEF Early
  <2> QED
    BY <1>4, <2>2, <2>3 DEF CheckStarted
<1>5. CASE Route(r)
  <2>1. CASE Finish(r, FALSE, "succeeded", "routing_off") /\ UNCHANGED <<row, steps>>
    <3>1. NotCharged(r) /\ Counted(r)'
      BY <1>1, <2>1 DEF NotCharged, Counted
    <3>2. runner'[r].pc = "complete" /\ runner'[r].reason = "routing_off"
      BY <2>1, FinishFrame, ZenonT(40)
    <3> QED
      BY <1>1, <3>1, <3>2, EarlyEnd
  <2>2. ASSUME NEW dry, UNCHANGED <<row, steps>>,
               runner' = [runner EXCEPT ![r] = [runner[r] EXCEPT !.pc = "context", !.dry = dry]]
        PROVE  StepOK(r)'
    <3>1. steps'[r] = {} /\ Counted(r)'
      BY <1>1, <2>2 DEF Counted
    <3>2. runner'[r].reason = runner[r].reason
      BY <2>2, RequestFrame
    <3>3. runner'[r].pc = "context"
      BY <2>2 DEF TypeOK, RunnerType
    <3> QED
      BY <1>1, <3>1, <3>2, <3>3, EarlyStay DEF Early
  <2>3. ASSUME NEW s, NEW t \in {"routing_policy_failed", "permission_check_failed",
                                 "permission_denied"},
               Finish(r, TRUE, s, t), Record(r, 0, "plan")
        PROVE  StepOK(r)'
    <3>1. Counted(r)' /\ (NotCharged(r) \/ ChargedFor(r, 0, "plan"))
      BY <1>1, <2>3, RecordCounts DEF Kinds
    <3>2. runner'[r].pc = "complete" /\ runner'[r].reason # "completed"
      BY <2>3, FinishFrame, ZenonT(40)
    <3>3. NotCharged(r) \/ \E i, kind : kind # "tool" /\ ChargedFor(r, i, kind)
      BY <3>1
    <3> QED
      BY <1>1, <3>1, <3>2, <3>3, EarlyEnd
  <2> QED
    BY <1>5, <2>1, <2>2, <2>3 DEF Route
<1>6. CASE FetchContext(r)
  <2>1. runner[r].pc = "context"
    BY <1>6 DEF FetchContext, At
  <2>2. CASE Goto(r, "plan") /\ UNCHANGED <<row, steps>>
    <3>1. NotCharged(r) /\ Counted(r)'
      BY <1>1, <2>2 DEF NotCharged, Counted
    <3>2. runner'[r].pc = "plan" /\ runner'[r].reason = runner[r].reason
      BY <2>2, GotoFrame
    <3> QED
      BY <1>1, <2>1, <3>1, <3>2, StartPlanning
  <2>3. CASE Record(r, 1, "context")
    <3>1. Counted(r)' /\ (NotCharged(r) \/ ChargedFor(r, 1, "context"))
      BY <1>1, <2>3, RecordCounts DEF Kinds
    <3>2. ASSUME NEW pack, PlanWith(r, pack)
          PROVE  StepOK(r)'
      <4>1. runner'[r].pc = "plan" /\ runner'[r].reason = runner[r].reason
            /\ runner'[r].offset = 1
        BY <3>2, PlanWithFrame
      <4> QED
        BY <1>1, <2>1, <3>1, <4>1, StartPlanning
    <3>3. ASSUME NEW s, NEW t \in {"permission_denied", "executor_failed"},
                 Finish(r, TRUE, s, t)
          PROVE  StepOK(r)'
      <4>1. runner'[r].pc = "complete" /\ runner'[r].reason # "completed"
        BY <3>3, FinishFrame, ZenonT(40)
      <4>2. NotCharged(r) \/ \E i, kind : kind # "tool" /\ ChargedFor(r, i, kind)
        BY <3>1
      <4> QED
        BY <1>1, <3>1, <4>1, <4>2, EarlyEnd
    <3>4. \/ \E pack : PlanWith(r, pack)
          \/ \E s : \E t \in {"permission_denied", "executor_failed"} : Finish(r, TRUE, s, t)
          \/ Goto(r, "plan") /\ UNCHANGED <<row, steps>>
      BY <1>6 DEF FetchContext
    <3> QED
      BY <2>2, <3>2, <3>3, <3>4
  <2> QED
    BY <1>6, <2>2, <2>3 DEF FetchContext
<1> QED
  BY <1>2, <1>3, <1>4, <1>5, <1>6

LEMMA PlanLength ==
  ASSUME NEW plan \in Plans
  PROVE  Len(plan) \in Nat
<1>1. PICK n \in 0..MaxPlan : plan \in [1..n -> ToolKinds]
  BY DEF Plans
<1>2. n \in Nat
  OBVIOUS
<1> HIDE DEF ToolKinds
<1> QED
  BY <1>1, <1>2

\* The plan is turned down, or taken because it fits the limits.
LEMMA PlanCounts ==
  ASSUME TypeOK, TypeOK', NEW r \in Runs, StepOK(r), ExecOK(r), MakePlan(r)
  PROVE  StepOK(r)'
<1>1. /\ executed'[r] = executed[r] /\ runner[r].pc = "plan" /\ runner[r].pc \in Early
      /\ Counted(r) /\ Record(r, 0, "plan") /\ runner[r].reason = ""
  BY DEF MakePlan, At, Early, StepOK
<1>2. Counted(r)' /\ (NotCharged(r) \/ ChargedFor(r, 0, "plan"))
  BY <1>1, RecordCounts DEF Kinds
<1>3. ASSUME NEW h, NEW s, NEW t \in Reason \ {"completed"}, Finish(r, h, s, t)
      PROVE  StepOK(r)'
  <2>1. runner'[r].pc = "complete" /\ runner'[r].reason # "completed"
    BY <1>3, FinishFrame
  <2>2. NotCharged(r) \/ \E i, kind : kind # "tool" /\ ChargedFor(r, i, kind)
    BY <1>2
  <2> QED
    BY <1>1, <1>2, <2>1, <2>2, EarlyEnd
<1>4. ASSUME NEW plan \in Plans, ~OverSteps(r, plan), ~OverTools(plan),
             runner' = [runner EXCEPT ![r] = [runner[r] EXCEPT !.pc = "tool", !.plan = plan]]
      PROVE  StepOK(r)'
  <2> DEFINE off == runner[r].offset
  <2>1. /\ runner'[r].plan = plan /\ runner'[r].next = 1 /\ runner'[r].pc = "tool"
        /\ runner'[r].offset = off /\ runner'[r].reason = ""
        /\ executed'[r] = {}
    <3>1. /\ runner'[r].plan = plan /\ runner'[r].next = runner[r].next
          /\ runner'[r].pc = "tool" /\ runner'[r].offset = off
          /\ runner'[r].reason = runner[r].reason
      BY <1>4, TakePlanFrame
    <3>2. runner[r].next = 1 /\ executed[r] = {}
      BY <1>1 DEF ExecOK
    <3> QED
      BY <1>1, <3>1, <3>2
  <2>2. /\ off \in {0, 1} /\ row[r].steps \in Nat /\ row[r].tools \in Nat
        /\ \A s \in steps[r] : s.index \in Nat
        /\ MaxSteps \in Nat /\ MaxToolCalls \in Nat
    BY StepNumbers
  <2>3. Len(plan) \in Nat
    BY PlanLength
  <2>4. row[r].tools = 0 /\ row[r].steps <= off /\ \A s \in steps[r] : s.index < off + 1
    BY <1>1 DEF StepOK, Below
  <2>5. StepRow(0, "plan").index = 0
    BY DEF StepRow
  <2>6. row'[r].tools = 0 /\ row'[r].steps <= off + 1
    BY <1>2, <2>2, <2>4 DEF NotCharged, ChargedFor
  <2>7. \A s \in steps'[r] : s.index < off + 1
    <3>1. \A s \in steps'[r] : s \in steps[r] \/ s.index = 0
      BY <1>2, <2>5 DEF NotCharged, ChargedFor
    <3> QED
      BY <2>2, <2>4, <3>1
  <2>8. Len(plan) <= MaxToolCalls /\ (MaxSteps > 0 => 2 + Len(plan) + off <= MaxSteps)
    BY <1>4, <2>2, <2>3 DEF OverSteps, OverTools
  <2>9. Ahead(r)' = 0
    BY <2>1 DEF Ahead, At
  <2> HIDE DEF off
  <2>10. Within(r)'
    <3>1. /\ row'[r].tools <= 1 - 1 + 0 /\ row'[r].steps <= off + 1 + 0
          /\ off + 1 + 0 = off + 1
      BY <2>2, <2>6
    <3>2. \A s \in steps'[r] : s.index < off + 1 + 0
      BY <2>7, <3>1
    <3> QED
      BY <2>1, <2>8, <2>9, <3>1, <3>2 DEF Within, Below
  <2>11. Limited(r)'
    <3>1. 0 <= MaxToolCalls
      BY <2>2
    <3> QED
      BY <2>1, <2>6, <3>1 DEF Limited
  <2>12. Kept(r)'
    BY <2>1 DEF Kept
  <2>13. runner'[r].pc \notin Early /\ runner'[r].pc # "plan"
    BY <2>1 DEF Early
  <2> QED
    BY <1>2, <2>1, <2>10, <2>11, <2>12, <2>13 DEF StepOK
<1>5. CASE \E h, s : \E t \in Reason \ {"completed"} : Finish(r, h, s, t)
  BY <1>3, <1>5
<1>6. CASE \E plan \in Plans :
             /\ ~OverSteps(r, plan) /\ ~OverTools(plan)
             /\ runner' = [runner EXCEPT ![r] = [runner[r] EXCEPT !.pc = "tool", !.plan = plan]]
  BY <1>4, <1>6
<1>7. {"planner_failed", "ignored", "clarify", "confirmation_required", "dry_run",
       "step_budget_exceeded", "tool_budget_exceeded"} \subseteq Reason \ {"completed"}
  BY DEF Reason
<1>8. CASE PlanWithoutTools(r)
  BY <1>5, <1>7, <1>8 DEF PlanWithoutTools
<1>9. ASSUME NEW plan \in Plans, NEW chat \in BOOLEAN, PlanWithTools(r, plan, chat)
      PROVE  StepOK(r)'
  BY <1>5, <1>6, <1>7, <1>9 DEF PlanWithTools
<1> QED
  BY <1>8, <1>9 DEF MakePlan

\* The run ends at one of the places of the executor, with a step or without.
LEMMA ExecutorEnds ==
  ASSUME TypeOK, TypeOK', NEW r \in Runs, StepOK(r), ExecOK(r),
         NEW h, NEW s, NEW t, t # "completed", Finish(r, h, s, t),
         runner[r].pc \in Executing, executed'[r] = executed[r],
         \/ UNCHANGED <<row, steps>>
         \/ Record(r, ToolStep(r), "answer")
         \/ Record(r, ToolStep(r), "tool") /\ runner[r].next <= Len(runner[r].plan)
  PROVE  StepOK(r)'
<1>1. /\ SamePlan(r) /\ runner'[r].pc = "complete" /\ runner'[r].reason # "completed"
  BY FinishFrame DEF Frame, SamePlan
<1>2. Counted(r) /\ ToolStep(r) \in Nat
  <2>1. Counted(r)
    BY DEF StepOK
  <2>2. runner[r].offset \in {0, 1} /\ runner[r].next \in Nat
    BY StepNumbers
  <2> QED
    BY <2>1, <2>2 DEF ToolStep
<1>3. /\ Counted(r)'
      /\ \/ NotCharged(r)
         \/ \E kind : /\ ChargedFor(r, ToolStep(r), kind)
                      /\ kind = "tool" => runner[r].next <= Len(runner[r].plan)
  <2>1. CASE UNCHANGED <<row, steps>>
    BY <1>2, <2>1 DEF NotCharged, Counted
  <2>2. CASE Record(r, ToolStep(r), "answer")
    <3>1. Counted(r)' /\ (NotCharged(r) \/ ChargedFor(r, ToolStep(r), "answer"))
      BY <1>2, <2>2, RecordCounts DEF Kinds
    <3> QED
      BY <3>1
  <2>3. CASE Record(r, ToolStep(r), "tool") /\ runner[r].next <= Len(runner[r].plan)
    <3>1. Counted(r)' /\ (NotCharged(r) \/ ChargedFor(r, ToolStep(r), "tool"))
      BY <1>2, <2>3, RecordCounts DEF Kinds
    <3> QED
      BY <2>3, <3>1
  <2> QED
    BY <2>1, <2>2, <2>3
<1> QED
  BY <1>1, <1>3, LateEnd

\* The answer of a plan that was executed to its end is recorded.
LEMMA AnswerCounts ==
  ASSUME TypeOK, TypeOK', NEW r \in Runs, StepOK(r), ExecOK(r), Answer(r)
  PROVE  StepOK(r)'
<1>1. /\ runner[r].pc = "answer" /\ executed'[r] = executed[r]
      /\ runner[r].pc \in Executing /\ Record(r, ToolStep(r), "answer")
  BY DEF Answer, At, Executing
<1>2. /\ SamePlan(r) /\ runner'[r].pc = "complete"
  BY FinishFrame DEF Answer, Frame, SamePlan
<1>3. /\ Counted(r) /\ ToolStep(r) \in Nat /\ runner[r].offset \in {0, 1}
      /\ Len(runner[r].plan) \in Nat
      /\ \A s \in steps[r] : s.index \in Nat
  <2>1. Counted(r)
    BY DEF StepOK
  <2>2. /\ runner[r].offset \in {0, 1} /\ runner[r].next \in Nat
        /\ Len(runner[r].plan) \in Nat /\ \A s \in steps[r] : s.index \in Nat
    BY StepNumbers
  <2> QED
    BY <2>1, <2>2 DEF ToolStep
<1>4. /\ Counted(r)'
      /\ \/ NotCharged(r) /\ (StepFaults \/ StepTaken(r, ToolStep(r)))
         \/ ChargedFor(r, ToolStep(r), "answer")
  BY <1>1, <1>3, RecordCounts DEF Kinds
<1>5. ToolStep(r) = runner[r].offset + Len(runner[r].plan) + 1
  BY <1>1, <1>3 DEF ExecOK, ToolStep
<1>6. ~StepTaken(r, ToolStep(r))
  <2>1. Below(r, runner[r].offset + runner[r].next + Ahead(r)) /\ Ahead(r) = 0
    BY <1>1 DEF StepOK, Within, Ahead, At
  <2>2. runner[r].next \in Nat
    BY StepNumbers
  <2>3. \A s \in steps[r] : s.index < ToolStep(r)
    BY <1>3, <2>1, <2>2 DEF Below, ToolStep
  <2> QED
    BY <1>3, <2>3 DEF StepTaken
<1>7. ~StepFaults => StepRow(runner[r].offset + Len(runner[r].plan) + 1, "answer") \in steps'[r]
  BY <1>4, <1>5, <1>6 DEF ChargedFor
<1>8. \/ NotCharged(r)
      \/ \E kind : /\ ChargedFor(r, ToolStep(r), kind)
                   /\ kind = "tool" => runner[r].next <= Len(runner[r].plan)
  BY <1>4
<1> QED
  BY <1>1, <1>2, <1>4, <1>7, <1>8, LateEnd

\* The other steps of the executor.
LEMMA ExecutorCounts ==
  ASSUME TypeOK, TypeOK', NEW r \in Runs, StepOK(r), ExecOK(r),
         CheckTool(r) \/ CreateConfirmation(r) \/ RefuseTool(r) \/ ExecuteTool(r)
           \/ CheckAnswer(r)
  PROVE  StepOK(r)'
<1>1. CASE CheckTool(r)
  <2>1. /\ runner[r].pc = "tool" /\ runner[r].pc \in Executing
        /\ runner[r].next <= Len(runner[r].plan) /\ executed'[r] = executed[r]
    BY <1>1 DEF CheckTool, At, MoreTools, Executing
  <2>2. CASE \E s : \E t \in {"executor_failed", "canceled"} :
               /\ Finish(r, TRUE, s, t)
               /\ UNCHANGED <<row, steps>> \/ Record(r, ToolStep(r), "tool")
    BY <2>1, <2>2, ExecutorEnds
  <2>3. CASE /\ \E pc \in {"write", "read"} : Goto(r, pc)
             /\ UNCHANGED <<row, steps>>
    <3>1. SamePlan(r) /\ runner'[r].reason = runner[r].reason
          /\ runner'[r].pc \in {"write", "read", "answer"}
      BY <2>3, GotoFrame DEF Frame, SamePlan
    <3>2. NotCharged(r) /\ Counted(r)'
      BY <2>3 DEF NotCharged, StepOK, Counted
    <3> QED
      BY <2>1, <3>1, <3>2, UnchargedMove
  <2> QED
    BY <1>1, <2>2, <2>3 DEF CheckTool
<1>2. CASE CreateConfirmation(r)
  <2>1. /\ runner[r].pc = "confirm" /\ runner[r].pc \in Executing
        /\ runner[r].next <= Len(runner[r].plan) /\ executed'[r] = executed[r]
    BY <1>2 DEF CreateConfirmation, At, Executing, ExecOK
  <2>2. CASE /\ Finish(r, TRUE, "failed", "executor_failed")
             /\ Record(r, ToolStep(r), "tool")
    BY <2>1, <2>2, ExecutorEnds
  <2>3. CASE Announce(r) /\ UNCHANGED <<row, steps>>
    <3>1. SamePlan(r) /\ runner'[r].reason # "completed" /\ runner'[r].pc = "complete"
      BY <2>3, AnnounceFrame DEF SamePlan
    <3>2. NotCharged(r) /\ Counted(r)'
      BY <2>3 DEF NotCharged, StepOK, Counted
    <3> QED
      BY <2>1, <3>1, <3>2, LateEnd
  <2> QED
    BY <1>2, <2>2, <2>3 DEF CreateConfirmation
<1>3. CASE RefuseTool(r)
  <2>1. /\ runner[r].pc = "read" /\ runner[r].pc \in Executing
        /\ runner[r].next <= Len(runner[r].plan) /\ executed'[r] = executed[r]
    BY <1>3 DEF RefuseTool, At, Executing, ExecOK
  <2>2. \E s : \E t \in {"permission_check_failed", "permission_denied"} :
          Finish(r, TRUE, s, t) /\ Record(r, ToolStep(r), "tool")
    BY <1>3 DEF RefuseTool
  <2> QED
    BY <2>1, <2>2, ExecutorEnds
<1>4. CASE ExecuteTool(r)
  <2>1. /\ runner[r].pc = "read" /\ runner[r].pc \in Executing
        /\ runner[r].next <= Len(runner[r].plan)
        /\ executed' = [executed EXCEPT ![r] = @ \cup {runner[r].next}]
        /\ Record(r, ToolStep(r), "tool")
    BY <1>4 DEF ExecuteTool, At, Executing, ExecOK
  <2>2. CASE NextTool(r)
    BY <2>1, <2>2, NextToolStep
  <2>3. CASE Finish(r, TRUE, "failed", "executor_failed")
    <3>1. SamePlan(r) /\ runner'[r].reason # "completed" /\ runner'[r].pc = "complete"
      <4>1. /\ Frame(r) /\ runner'[r].pc = "complete" /\ runner'[r].reason = "executor_failed"
            /\ runner'[r].offset = runner[r].offset
        BY <2>3, FinishFrame
      <4> QED
        BY <4>1 DEF Frame, SamePlan
    <3>2. Counted(r)'
          /\ ((NotCharged(r) /\ StepFaults) \/ ChargedFor(r, ToolStep(r), "tool"))
      BY <2>1, ToolCharge
    <3>3. executed'[r] = executed[r] \cup {runner[r].next}
      BY <2>1 DEF TypeOK
    <3>4. ~StepFaults => StepRow(ToolStep(r), "tool") \in steps'[r]
      BY <3>2 DEF ChargedFor
    <3>5. \A i \in executed'[r] : \/ i \in executed[r]
                                  \/ /\ i = runner[r].next
                                     /\ ~StepFaults => StepRow(ToolStep(r), "tool") \in steps'[r]
      BY <3>3, <3>4
    <3>6. \/ NotCharged(r)
          \/ \E kind : /\ ChargedFor(r, ToolStep(r), kind)
                       /\ kind = "tool" => runner[r].next <= Len(runner[r].plan)
      BY <2>1, <3>2
    <3> QED
      BY <2>1, <3>1, <3>2, <3>5, <3>6, LateEnd
  <2> QED
    BY <1>4, <2>2, <2>3 DEF ExecuteTool
<1>5. CASE CheckAnswer(r)
  <2>1. runner[r].pc = "tool" /\ runner[r].pc \in Executing /\ executed'[r] = executed[r]
    BY <1>5 DEF CheckAnswer, At, Executing
  <2>2. CASE \E s : \E t \in {"executor_failed", "canceled"} :
               /\ Finish(r, TRUE, s, t)
               /\ UNCHANGED <<row, steps>> \/ Record(r, ToolStep(r), "answer")
    BY <2>1, <2>2, ExecutorEnds
  <2>3. CASE Goto(r, "answer") /\ UNCHANGED <<row, steps>>
    <3>1. SamePlan(r) /\ runner'[r].reason = runner[r].reason
          /\ runner'[r].pc \in {"write", "read", "answer"}
      BY <2>3, GotoFrame DEF Frame, SamePlan
    <3>2. NotCharged(r) /\ Counted(r)'
      BY <2>3 DEF NotCharged, StepOK, Counted
    <3> QED
      BY <2>1, <3>1, <3>2, UnchargedMove
  <2> QED
    BY <1>5, <2>2, <2>3 DEF CheckAnswer
<1> QED
  BY <1>1, <1>2, <1>3, <1>4, <1>5

\* CompleteRun stores the end of a run without counting a step.
LEMMA CompleteCounts ==
  ASSUME TypeOK, NEW r \in Runs, StepOK(r), Complete(r)
  PROVE  StepOK(r)'
<1>1. /\ runner[r].pc = "complete" /\ steps'[r] = steps[r] /\ executed'[r] = executed[r]
      /\ runner'[r].pc = "done" /\ SamePlan(r) /\ runner'[r].reason = runner[r].reason
  BY GotoFrame DEF Complete, At, Frame, SamePlan
<1>2. row'[r].steps = row[r].steps /\ row'[r].tools = row[r].tools
  <2>1. row[r] \in RowType /\ row \in [Runs -> RowType]
    BY DEF TypeOK
  <2>2. ASSUME NEW status, NEW reason
        PROVE  LET new == Completed(row[r], status, reason)
               IN  new.steps = row[r].steps /\ new.tools = row[r].tools
    BY <2>1 DEF Completed, RowType
  <2>3. row'[r] = row[r] \/ row'[r] = Completed(row[r], runner[r].status, runner[r].reason)
    BY <2>1 DEF Complete
  <2> QED
    BY <2>2, <2>3
<1>3. Counted(r)' /\ Limited(r)' /\ Kept(r)'
  BY <1>1, <1>2 DEF StepOK, Counted, Limited, Kept, SamePlan
<1>4. runner'[r].pc \notin Early \cup Executing /\ runner'[r].pc # "plan"
  BY <1>1 DEF Early, Executing
<1> QED
  BY <1>3, <1>4 DEF StepOK

\* Nothing a run is charged for is touched.
LEMMA SameCounts ==
  ASSUME NEW r \in Runs, StepOK(r), executed'[r] = executed[r], steps'[r] = steps[r],
         row'[r].steps = row[r].steps, row'[r].tools = row[r].tools,
         \/ runner'[r] = runner[r]
         \/ /\ runner'[r].pc = "dead" /\ SamePlan(r)
            /\ runner'[r].reason = runner[r].reason
  PROVE  StepOK(r)'
<1>1. Counted(r)' /\ Limited(r)'
  BY DEF StepOK, Counted, Limited
<1>2. Kept(r)'
  BY DEF StepOK, Kept, SamePlan
<1>3. CASE runner'[r] = runner[r]
  <2>1. Ahead(r)' = Ahead(r)
    BY <1>3 DEF Ahead, At, StepTaken, ToolStep
  <2>2. Within(r) => Within(r)'
    BY <1>3, <2>1 DEF Within, Below
  <2>3. \A n : Below(r, n) = (\A s \in steps'[r] : s.index < n)
    BY DEF Below
  <2>4. runner[r].pc = "plan" => Below(r, runner[r].offset + 1)'
    BY <1>3 DEF StepOK, Below
  <2> QED
    BY <1>1, <1>2, <1>3, <2>2, <2>4 DEF StepOK
<1>4. CASE runner'[r].pc = "dead"
  <2>1. runner'[r].pc \notin Early \cup Executing /\ runner'[r].pc # "plan"
    BY <1>4 DEF Early, Executing
  <2> QED
    BY <1>1, <1>2, <2>1 DEF StepOK
<1> QED
  BY <1>3, <1>4

\* Every step of a runner keeps StepOK of its run, and touches no other.
LEMMA RunnerCounts ==
  ASSUME TypeOK, TypeOK', LifecycleInv, ExecInv, StepInv, NEW r \in Runs,
         Receive(r) \/ RunStep(r)
  PROVE  StepInv'
<1>1. StepOK(r)'
  BY EarlyCounts, PlanCounts, ExecutorCounts, DeferStep, AnswerCounts, CompleteCounts
  DEF StepInv, ExecInv, RunStep
<1>2. ASSUME NEW q \in Runs, q # r
      PROVE  StepOK(q)'
  <2>1. runner'[q] = runner[q]
    BY <1>2, ReceiveTypes, StartRunTypes, CheckStartedTypes, RouteTypes, FetchContextTypes,
       MakePlanTypes, CheckToolTypes, DeferWriteTypes, CreateConfirmationTypes,
       RefuseToolTypes, ExecuteToolTypes, CheckAnswerTypes, AnswerTypes, CompleteTypes
    DEF RunStep, OthersKept
  <2>2. steps'[q] = steps[q] /\ row'[q] = row[q] /\ executed'[q] = executed[q]
    BY <1>2 DEF TypeOK, RunStep, Receive, StartRun, CheckStarted, Route, FetchContext,
       MakePlan, CheckTool, DeferWrite, CreateConfirmation, RefuseTool, ExecuteTool,
       CheckAnswer, Answer, Complete, Record
  <2> QED
    BY <2>1, <2>2, SameCounts DEF StepInv
<1> QED
  BY <1>1, <1>2 DEF StepInv

\* The commands record no steps.
LEMMA CommandCounts ==
  ASSUME TypeOK, CmdHasRun, StepInv, NEW c \in Cmds, LoadRun(c) \/ CmdStep(c)
  PROVE  StepInv'
<1>1. UNCHANGED <<runner, executed, steps>>
  BY DEF LoadRun, CmdStep, RequestCancel, LoadPending, Resolve
<1>2. ASSUME NEW q \in Runs
      PROVE  row'[q].steps = row[q].steps /\ row'[q].tools = row[q].tools
  <2>1. row' = row \/ row' = [row EXCEPT ![cmd[c].run].cancelReq = TRUE]
    BY DEF LoadRun, CmdStep, RequestCancel, LoadPending, Resolve
  <2>2. row \in [Runs -> RowType] /\ row[q] \in RowType
    BY DEF TypeOK
  <2>3. row'[q] = row[q] \/ row'[q] = [row[q] EXCEPT !.cancelReq = TRUE]
    BY <2>1, <2>2
  <2> QED
    BY <2>2, <2>3 DEF RowType
<1> QED
  BY <1>1, <1>2, SameCounts DEF StepInv

LEMMA InitCounts == Init => StepInv
<1> SUFFICES ASSUME Init, NEW r \in Runs
             PROVE  StepOK(r)
  BY DEF StepInv
<1>1. steps[r] = {} /\ executed[r] = {} /\ runner[r] = IdleRunner /\ row[r] = NoRow
  BY DEF Init
<1>2. runner[r].pc = "idle" /\ runner[r].reason = ""
  <2>1. IdleRunner.pc = "idle" /\ IdleRunner.reason = ""
    BY DEF IdleRunner
  <2> QED
    BY <1>1, <2>1
<1>3. row[r].steps = 0 /\ row[r].tools = 0
  <2>1. NoRow.steps = 0 /\ NoRow.tools = 0
    BY DEF NoRow
  <2> QED
    BY <1>1, <2>1
<1>4. ToolsOf(steps[r]) = {}
  BY <1>1 DEF ToolsOf
<1>5. Counted(r)
  BY <1>1, <1>3, <1>4, FS_EmptySet DEF Counted
<1>6. 0 <= MaxToolCalls
  <2>1. MaxToolCalls \in Nat
    BY RunAssumption
  <2> QED
    BY <2>1
<1>7. Limited(r) /\ Kept(r)
  BY <1>1, <1>2, <1>3, <1>6 DEF Limited, Kept
<1> QED
  BY <1>1, <1>2, <1>5, <1>7 DEF StepOK, Early, Executing

LEMMA NextCounts ==
  ASSUME TypeOK, TypeOK', CmdHasRun, LifecycleInv, ExecInv, StepInv, [Next]_vars
  PROVE  StepInv'
<1>1. CASE UNCHANGED vars
  <2>1. \A r \in Runs : /\ executed'[r] = executed[r] /\ steps'[r] = steps[r]
                        /\ row'[r] = row[r] /\ runner'[r] = runner[r]
    BY <1>1 DEF vars
  <2> QED
    BY <2>1, SameCounts DEF StepInv
<1>2. CASE Crash
  <2>1. ASSUME NEW r \in Runs
        PROVE  /\ executed'[r] = executed[r] /\ steps'[r] = steps[r] /\ row'[r] = row[r]
               /\ \/ runner'[r] = runner[r]
                  \/ /\ runner'[r].pc = "dead" /\ SamePlan(r)
                     /\ runner'[r].reason = runner[r].reason
    BY <1>2, CrashFrame DEF Crash, Frame, SamePlan
  <2> QED
    BY <2>1, SameCounts DEF StepInv
<1> QED
  BY <1>1, <1>2, RunnerCounts, CommandCounts DEF Next

\* The invariant of the steps, together with those it rests on.
LEMMA StepInvariant == Spec => []StepInv
<1>1. TypeOK /\ TypeOK' /\ CmdHasRun /\ LifecycleInv /\ ExecInv /\ StepInv /\ [Next]_vars
        => StepInv'
  BY NextCounts
<1> QED
  BY <1>1, InitCounts, Invariants, ExecInvariant, PTL DEF Spec

\* Whatever fails and whoever cancels, the usage counters of a run are the number of
\* its steps and of its tool steps, no run is charged more tools than its limit, and
\* none that executed a tool more steps; its LLM calls are not bounded (RecordStep,
\* Policy.CheckPlan).
THEOREM UsageIsAlwaysAccurate == Spec => []UsageIsAccurate
<1>1. StepInv => UsageIsAccurate
  BY DEF StepInv, StepOK, Counted, Limited, ToolsOf, UsageIsAccurate
<1> QED
  BY <1>1, StepInvariant, PTL

\* The indexes the runner and the executor give their steps never meet, so that the
\* unique index of agent_run_steps refuses none: every executed tool and the answer
\* of every completed run are on record unless their own statement failed.
THEOREM StepsAreAlwaysKept == Spec => []StepsAreKept
<1>1. StepInv => StepsAreKept
  BY DEF StepInv, StepOK, Kept, StepRow, StepsAreKept
<1> QED
  BY <1>1, StepInvariant, PTL

=============================================================================
