------------------------------ MODULE AgentRun ------------------------------
(***************************************************************************)
(* Agent runs: the runner and its executor, the rows they keep in          *)
(* agent_runs, agent_run_steps and agent_run_confirmations, and the /agent *)
(* commands that cancel a run or resolve its confirmation meanwhile.       *)
(*                                                                         *)
(* One action is one call out of the runner (a SQL statement, the planner, *)
(* a tool, the answerer) with the code up to the next one.  The runner of  *)
(* a run, the commands and a crash of the process interleave freely.  A    *)
(* SQL statement may fail, and a failed one may have been applied.  The    *)
(* trace record of a call goes with the call: it charges counters that     *)
(* nothing else writes and no guard reads.                                 *)
(***************************************************************************)
EXTENDS Integers, Sequences, FiniteSets

CONSTANTS
    Runs,           \* the requests the process receives, named by their run id
    Cmds,           \* the /agent interactions it receives
    Users, Admins,  \* Discord users, and those with the administrator flag
    Owner,          \* the user each request comes from
    Scopes,         \* the context scopes the requests may carry
    MaxPlan,        \* bound: the longest plan the planner returns
    MaxSteps,       \* Limits.MaxSteps, 0 for no limit
    MaxToolCalls,   \* the effective tool call limit
    MaxLLMCalls,    \* Limits.Budget.MaxLLMCalls, 0 for no limit
    HasAnswerer,    \* whether the executor has an answerer
    StoreFaults,    \* whether SQL statements may fail
    StepFaults,     \* whether those that record a step may fail
    MaxCrashes      \* bound: how often the process dies

ASSUME RunAssumption ==
    /\ Admins \subseteq Users
    /\ Owner \in [Runs -> Users]
    /\ Scopes \subseteq {"", "none", "channel", "channel-auto"}
    /\ MaxPlan \in Nat /\ MaxCrashes \in Nat
    /\ MaxSteps \in Nat /\ MaxToolCalls \in Nat \ {0} /\ MaxLLMCalls \in Nat
    /\ HasAnswerer \in BOOLEAN /\ StoreFaults \in BOOLEAN
    /\ StepFaults \in BOOLEAN

VARIABLES
    row,        \* agent_runs, by run id
    steps,      \* agent_run_steps, by run id
    conf,       \* agent_run_confirmations: a run creates at most one
    runner,     \* Runner.Run and Executor.Execute: where each one is, and its locals
    cmd,        \* executeAgentCommand: where each interaction is, and its answer
    snapshots,  \* the runs saved in the in-memory follow-up store
    crashes,    \* how often the process died
    executed,   \* history: the plan indexes whose tool was executed
    late        \* history: effects that happened after the cancel request

vars == <<row, steps, conf, runner, cmd, snapshots, crashes, executed, late>>

-----------------------------------------------------------------------------
Status == {"running", "succeeded", "failed", "denied", "dry_run",
           "confirmation_required", "canceled"}

\* The termination reasons, "" for none.
Reason == {"", "completed", "dry_run", "canceled", "ignored", "routing_policy_failed",
           "routing_off", "permission_denied", "permission_check_failed",
           "planner_failed", "clarify", "confirmation_required",
           "step_budget_exceeded", "tool_budget_exceeded", "executor_failed",
           "llm_budget_exceeded"}

\* "guarded" is a read tool whose spec names a capability, "unknown" a name
\* the registry does not hold.
ToolKinds == {"free", "guarded", "write", "unknown"}

Plans == UNION {[1..n -> ToolKinds] : n \in 0..MaxPlan}

Verbs == {"confirm", "reject"}

NoRow == [status |-> "absent", reason |-> "", cancelReq |-> FALSE,
          completed |-> FALSE, steps |-> 0, tools |-> 0, llm |-> 0]

NoConf == [status |-> "absent", step |-> 0, by |-> "nobody"]

IdleRunner == [pc |-> "idle", scope |-> "none", prior |-> FALSE, dry |-> FALSE,
               pack |-> FALSE, offset |-> 0, plan |-> <<>>, next |-> 1,
               status |-> "running", reason |-> "", handled |-> FALSE, hint |-> FALSE]

IdleCmd == [pc |-> "idle", verb |-> "pending", user |-> "nobody", run |-> "none",
            reply |-> ""]

\* Whether a SQL read or a SQL write succeeds.
MayFail == IF StoreFaults THEN BOOLEAN ELSE {FALSE}

-----------------------------------------------------------------------------
(* The statements of SQLRunStore.                                          *)

(* A definition named X_Bug is X as a plausible bug in the code would have  *)
(* it.  Nothing uses it: it is there to see that the properties notice.     *)

\* Only the final status is looked at.
IsCanceled_Bug(r) == row[r].status = "canceled"

\* IsRunCanceled, when the query succeeds.
IsCanceled(r) == row[r].status = "canceled" \/ row[r].cancelReq

\* The row StartRun's upsert leaves.
Started(old) ==
    IF old.status = "absent" THEN [NoRow EXCEPT !.status = "running"]
    ELSE IF old.status = "canceled" \/ old.cancelReq THEN old
    ELSE [old EXCEPT !.status = "running", !.reason = "", !.completed = FALSE]

\* The case expressions are dropped: last writer wins.
Completed_Bug(old, status, reason) ==
    [old EXCEPT !.status = status, !.reason = reason, !.completed = TRUE]

\* The reason is left out of the update.
Completed_Bug2(old, status, reason) ==
    [old EXCEPT !.status = IF old.cancelReq THEN "canceled" ELSE status,
                !.completed = TRUE]

\* The row CompleteRun's update leaves.
Completed(old, status, reason) ==
    LET canceled == old.status = "canceled" \/ old.cancelReq
    IN  [old EXCEPT !.status = IF canceled THEN "canceled" ELSE status,
                    !.reason = IF canceled THEN "canceled" ELSE reason,
                    !.completed = TRUE]

\* The run may be over already.
Cancellable_Bug(old) == old.status # "absent" /\ ~old.cancelReq

\* The rows RequestCancelRun's update matches.
Cancellable(old) == old.status = "running" /\ ~old.completed /\ ~old.cancelReq

\* The usage counters RecordStep bumps when its insert went in.
Charged(old, kind) ==
    [old EXCEPT !.steps = @ + 1,
                !.tools = @ + (IF kind = "tool" THEN 1 ELSE 0),
                !.llm = @ + (IF kind \in {"plan", "answer"} THEN 1 ELSE 0)]

StepTaken(r, i) == \E s \in steps[r] : s.index = i

\* Trace.Record: one RecordStep statement whose error the caller drops.  The
\* unique index on (run_id, step_index) refuses a second row for a step.
Record(r, i, kind) ==
    \/ /\ ~StepTaken(r, i)
       /\ steps' = [steps EXCEPT ![r] = @ \cup {[index |-> i, kind |-> kind]}]
       /\ row' = [row EXCEPT ![r] = Charged(@, kind)]
    \/ /\ StepFaults \/ StepTaken(r, i)
       /\ UNCHANGED <<steps, row>>

-----------------------------------------------------------------------------
(* Runner.Run.                                                             *)

At(r, pc) == runner[r].pc = pc

Goto(r, pc) == runner' = [runner EXCEPT ![r].pc = pc]

\* return r.completeRun(status, reason, handled): the update is Complete(r).
Finish(r, handled, status, reason) ==
    runner' = [runner EXCEPT ![r] = [@ EXCEPT !.pc = "complete", !.handled = handled,
                                              !.status = status, !.reason = reason]]

\* An effect outside the run store; it is late once a cancellation was accepted.
Effect(r) == late' = [late EXCEPT ![r] = @ + (IF row[r].cancelReq THEN 1 ELSE 0)]

\* PlanningHandler loads the follow-up snapshot of the conversation, if there
\* is one that has not expired, and Runner.Run turns down what is not its own:
\* a request outside a guild, or one that asked for no context.
Receive(r) ==
    /\ At(r, "idle")
    /\ \E scope \in Scopes, guild \in BOOLEAN,
          prior \in IF \E q \in snapshots : Owner[q] = Owner[r] THEN BOOLEAN ELSE {FALSE} :
         LET pc == IF guild /\ scope # "none" THEN "start" ELSE "done"
         IN  runner' = [runner EXCEPT ![r] = [@ EXCEPT !.pc = pc, !.scope = scope,
                                                       !.prior = prior]]
    /\ UNCHANGED <<row, steps, conf, cmd, snapshots, crashes, executed, late>>

StartRun(r) ==
    /\ At(r, "start")
    /\ \E failed \in MayFail, applied \in BOOLEAN :
         /\ ~failed => applied
         /\ row' = IF applied THEN [row EXCEPT ![r] = Started(@)] ELSE row
         /\ LET pc == IF failed THEN "done" ELSE "check"
            IN  runner' = [runner EXCEPT ![r] = [@ EXCEPT !.pc = pc, !.handled = failed]]
    /\ UNCHANGED <<steps, conf, cmd, snapshots, crashes, executed, late>>

\* The cancellation check right after StartRun.
CheckStarted(r) ==
    /\ At(r, "check")
    /\ \/ StoreFaults /\ Finish(r, TRUE, "failed", "canceled")
       \/ IsCanceled(r) /\ Finish(r, TRUE, "canceled", "canceled")
       \/ ~IsCanceled(r) /\ Goto(r, "route")
    /\ UNCHANGED <<row, steps, conf, cmd, snapshots, crashes, executed, late>>

\* Policy.Mode and Policy.CheckBeforePlan.
Route(r) ==
    /\ At(r, "route")
    /\ \/ /\ Finish(r, FALSE, "succeeded", "routing_off")
          /\ UNCHANGED <<row, steps>>
       \/ /\ \E dry \in BOOLEAN :
               runner' = [runner EXCEPT ![r] = [@ EXCEPT !.pc = "context", !.dry = dry]]
          /\ UNCHANGED <<row, steps>>
       \/ /\ \/ Finish(r, TRUE, "failed", "routing_policy_failed")
             \/ Finish(r, TRUE, "failed", "permission_check_failed")
             \/ Finish(r, TRUE, "denied", "permission_denied")
          /\ Record(r, 0, "plan")
    /\ UNCHANGED <<conf, cmd, snapshots, crashes, executed, late>>

\* Planning goes on, with or without the context pack that was asked for.
PlanWith(r, pack) ==
    runner' = [runner EXCEPT ![r] = [@ EXCEPT !.pc = "plan", !.pack = pack, !.offset = 1]]

\* ContextFetcher.FetchContext, for the scopes that ask for the channel.
FetchContext(r) ==
    /\ At(r, "context")
    /\ IF runner[r].scope \in {"channel", "channel-auto"}
       THEN /\ Record(r, 1, "context")
            /\ \/ PlanWith(r, TRUE)
               \/ runner[r].scope = "channel-auto" /\ PlanWith(r, FALSE)
               \/ /\ runner[r].scope # "channel-auto"
                  /\ \/ Finish(r, TRUE, "denied", "permission_denied")
                     \/ Finish(r, TRUE, "failed", "executor_failed")
       ELSE Goto(r, "plan") /\ UNCHANGED <<row, steps>>
    /\ UNCHANGED <<conf, cmd, snapshots, crashes, executed, late>>

\* A plan without tools that the runner leaves to the next handler.
FallsThrough(r, plan, chat) ==
    /\ plan = <<>> /\ ~runner[r].prior
    /\ runner[r].pack => runner[r].scope = "channel-auto" /\ chat

\* The context step is not counted.
OverSteps_Bug(r, plan) == MaxSteps > 0 /\ 2 + Len(plan) > MaxSteps

OverSteps(r, plan) == MaxSteps > 0 /\ 2 + Len(plan) + runner[r].offset > MaxSteps

OverTools(plan) == Len(plan) > MaxToolCalls

\* Planner.Plan returns no plan to act on: it failed, it had none, or the plan
\* is a question or asks for a confirmation as a whole.
PlanWithoutTools(r) ==
    \/ Finish(r, TRUE, "failed", "planner_failed")
    \/ Finish(r, FALSE, "succeeded", "ignored")
    \/ Finish(r, TRUE, "succeeded", "clarify")
    \/ Finish(r, TRUE, "confirmation_required", "confirmation_required")

\* Planner.Plan returns a plan, and the runner takes it or turns it down.
PlanWithTools(r, plan, chat) ==
    IF FallsThrough(r, plan, chat) THEN Finish(r, FALSE, "succeeded", "ignored")
    ELSE IF runner[r].dry THEN Finish(r, TRUE, "dry_run", "dry_run")
    ELSE IF OverSteps(r, plan) THEN Finish(r, TRUE, "failed", "step_budget_exceeded")
    ELSE IF OverTools(plan) THEN Finish(r, TRUE, "failed", "tool_budget_exceeded")
    ELSE runner' = [runner EXCEPT ![r] = [@ EXCEPT !.pc = "tool", !.plan = plan]]

MakePlan(r) ==
    /\ At(r, "plan")
    /\ \/ PlanWithoutTools(r)
       \/ \E plan \in Plans, chat \in BOOLEAN : PlanWithTools(r, plan, chat)
    /\ Record(r, 0, "plan")
    /\ UNCHANGED <<conf, cmd, snapshots, crashes, executed, late>>

-----------------------------------------------------------------------------
(* Executor.Execute.  The step of plan index i is traced as offset + i.    *)

\* The context step is not counted.
ToolStep_Bug(r) == runner[r].next

ToolStep(r) == runner[r].offset + runner[r].next

\* Off by one.
MoreTools_Bug(r) == runner[r].next < Len(runner[r].plan)

MoreTools(r) == runner[r].next <= Len(runner[r].plan)

Tool(r) == runner[r].plan[runner[r].next]

NeedsConfirmation_Bug(r) == FALSE

NeedsConfirmation(r) == Tool(r) = "write"

\* The loop variable does not advance.
NextTool_Bug(r) == Goto(r, "tool")

NextTool(r) ==
    runner' = [runner EXCEPT ![r] = [@ EXCEPT !.pc = "tool",
                                              !.next = runner[r].next + 1]]

\* The registry lookup and the cancellation check before a tool.
CheckTool(r) ==
    /\ At(r, "tool") /\ MoreTools(r)
    /\ \/ /\ Tool(r) = "unknown"
          /\ Finish(r, TRUE, "failed", "executor_failed")
          /\ Record(r, ToolStep(r), "tool")
       \/ /\ Tool(r) # "unknown" /\ StoreFaults
          /\ Finish(r, TRUE, "failed", "executor_failed")
          /\ Record(r, ToolStep(r), "tool")
       \/ /\ Tool(r) # "unknown" /\ IsCanceled(r)
          /\ Finish(r, TRUE, "canceled", "canceled")
          /\ UNCHANGED <<row, steps>>
       \/ /\ Tool(r) # "unknown" /\ ~IsCanceled(r)
          /\ Goto(r, IF NeedsConfirmation(r) THEN "write" ELSE "read")
          /\ UNCHANGED <<row, steps>>
    /\ UNCHANGED <<conf, cmd, snapshots, crashes, executed, late>>

\* The response that carries a confirmation id, and the hint to /agent confirm.
Announce(r) ==
    runner' = [runner EXCEPT ![r] = [@ EXCEPT !.pc = "complete", !.handled = TRUE,
                                              !.hint = TRUE,
                                              !.status = "confirmation_required",
                                              !.reason = "confirmation_required"]]

\* The run ends without the confirmation it announces.
DeferWrite_Bug(r) ==
    /\ At(r, "write")
    /\ Record(r, ToolStep(r), "tool")
    /\ Announce(r)
    /\ UNCHANGED <<conf, cmd, snapshots, crashes, executed, late>>

\* A write tool is not executed: its step is traced as denied ...
DeferWrite(r) ==
    /\ At(r, "write")
    /\ Record(r, ToolStep(r), "tool")
    /\ Goto(r, "confirm")
    /\ UNCHANGED <<conf, cmd, snapshots, crashes, executed, late>>

\* The row CreateConfirmation inserts.
PendingConf(r) == [status |-> "pending", by |-> "nobody", step |-> runner[r].next]

\* ... and a confirmation is created for it, with the index of the tool in the
\* plan as its step.
CreateConfirmation(r) ==
    /\ At(r, "confirm")
    /\ \E failed \in MayFail, applied \in BOOLEAN :
         /\ ~failed => applied
         /\ conf' = IF applied THEN [conf EXCEPT ![r] = PendingConf(r)] ELSE conf
         /\ IF failed
            THEN /\ Finish(r, TRUE, "failed", "executor_failed")
                 /\ Record(r, ToolStep(r), "tool")
            ELSE Announce(r) /\ UNCHANGED <<row, steps>>
    /\ Effect(r)
    /\ UNCHANGED <<cmd, snapshots, crashes, executed>>

\* The capability check of a guarded tool refuses it or fails.
RefuseTool(r) ==
    /\ At(r, "read") /\ Tool(r) = "guarded"
    /\ \/ Finish(r, TRUE, "failed", "permission_check_failed")
       \/ Finish(r, TRUE, "denied", "permission_denied")
    /\ Record(r, ToolStep(r), "tool")
    /\ UNCHANGED <<conf, cmd, snapshots, crashes, executed, late>>

\* A read tool that is public or allowed is executed, and may fail.
ExecuteTool(r) ==
    /\ At(r, "read")
    /\ executed' = [executed EXCEPT ![r] = @ \cup {runner[r].next}]
    /\ Finish(r, TRUE, "failed", "executor_failed") \/ NextTool(r)
    /\ Record(r, ToolStep(r), "tool")
    /\ Effect(r)
    /\ UNCHANGED <<conf, cmd, snapshots, crashes>>

\* The cancellation check after the last tool.
CheckAnswer(r) ==
    /\ At(r, "tool") /\ ~MoreTools(r)
    /\ \/ /\ StoreFaults
          /\ Finish(r, TRUE, "failed", "executor_failed")
          /\ Record(r, ToolStep(r), "answer")
       \/ /\ IsCanceled(r)
          /\ Finish(r, TRUE, "canceled", "canceled")
          /\ UNCHANGED <<row, steps>>
       \/ /\ ~IsCanceled(r)
          /\ Goto(r, "answer")
          /\ UNCHANGED <<row, steps>>
    /\ UNCHANGED <<conf, cmd, snapshots, crashes, executed, late>>

\* The runner sets SkipAnswerReason when the budget has no second LLM call.
SkipsAnswer == HasAnswerer /\ MaxLLMCalls = 1

\* The answer is skipped, composed, or fails; the first two save the follow-up
\* snapshot of the run.
Answer(r) ==
    /\ At(r, "answer")
    /\ \/ /\ snapshots' = snapshots \cup {r}
          /\ IF SkipsAnswer THEN Finish(r, TRUE, "failed", "llm_budget_exceeded")
             ELSE Finish(r, TRUE, "succeeded", "completed")
       \/ /\ HasAnswerer /\ ~SkipsAnswer
          /\ Finish(r, TRUE, "failed", "executor_failed")
          /\ UNCHANGED snapshots
    /\ Record(r, ToolStep(r), "answer")
    /\ Effect(r)
    /\ UNCHANGED <<conf, cmd, crashes, executed>>

\* completeRun: the statement, whose error is dropped, and the response.
Complete(r) ==
    /\ At(r, "complete")
    /\ \/ row' = [row EXCEPT ![r] = Completed(@, runner[r].status, runner[r].reason)]
       \/ StoreFaults /\ UNCHANGED row
    /\ Goto(r, "done")
    /\ UNCHANGED <<steps, conf, cmd, snapshots, crashes, executed, late>>

RunStep(r) ==
    \/ StartRun(r) \/ CheckStarted(r) \/ Route(r) \/ FetchContext(r) \/ MakePlan(r)
    \/ CheckTool(r) \/ DeferWrite(r) \/ CreateConfirmation(r) \/ RefuseTool(r)
    \/ ExecuteTool(r) \/ CheckAnswer(r) \/ Answer(r) \/ Complete(r)

-----------------------------------------------------------------------------
(* The /agent commands: executeAgentCommand.                               *)

\* canManageAgentRun.  The owner of a confirmation is the owner of its run.
CanManage(u, r) == u \in Admins \/ u = Owner[r]

Reply(c, text) == cmd' = [cmd EXCEPT ![c] = [@ EXCEPT !.pc = "done", !.reply = text]]

\* LoadRun, the guild and owner checks, and what the loaded row decides.  "home"
\* is whether the command comes from the guild of the run.
LoadRun(c) ==
    /\ cmd[c].pc = "idle"
    /\ \E u \in Users, r \in Runs, verb \in Verbs \cup {"cancel", "pending"},
          failed \in MayFail, home \in BOOLEAN :
         LET On(pc, text) == cmd' = [cmd EXCEPT ![c] = [pc |-> pc, verb |-> verb,
                                        user |-> u, run |-> r, reply |-> text]]
         IN  IF failed THEN On("done", "failed")
             ELSE IF row[r].status = "absent" \/ ~home THEN On("done", "not_active")
             ELSE IF ~CanManage(u, r) THEN On("done", "forbidden")
             ELSE IF verb # "cancel" THEN On("pending", "")
             ELSE IF row[r].status = "running" THEN On("cancel", "")
             ELSE On("done", "already_ended")
    /\ UNCHANGED <<row, steps, conf, runner, snapshots, crashes, executed, late>>

\* RequestCancelRun.
RequestCancel(c) ==
    LET r == cmd[c].run
        Apply == row' = [row EXCEPT ![r].cancelReq = TRUE]
    IN  /\ cmd[c].pc = "cancel"
        /\ \/ Cancellable(row[r]) /\ Apply /\ Reply(c, "cancel_requested")
           \/ ~Cancellable(row[r]) /\ Reply(c, "not_active") /\ UNCHANGED row
           \/ /\ StoreFaults /\ Reply(c, "failed")
              /\ (Cancellable(row[r]) /\ Apply) \/ UNCHANGED row
        /\ UNCHANGED <<steps, conf, runner, snapshots, crashes, executed, late>>

\* PendingConfirmation, for the commands that show or resolve one.
LoadPending(c) ==
    /\ cmd[c].pc = "pending"
    /\ \/ StoreFaults /\ Reply(c, "failed")
       \/ conf[cmd[c].run].status # "pending" /\ Reply(c, "no_pending")
       \/ /\ conf[cmd[c].run].status = "pending"
          /\ IF cmd[c].verb = "pending" THEN Reply(c, "shown")
             ELSE cmd' = [cmd EXCEPT ![c].pc = "resolve"]
    /\ UNCHANGED <<row, steps, conf, runner, snapshots, crashes, executed, late>>

Verdict(verb) == IF verb = "reject" THEN "canceled" ELSE "confirmed"

\* The status is not in the where clause.
Resolvable_Bug(r) == conf[r].status # "absent"

Resolvable(r) == conf[r].status = "pending"

\* ResolveConfirmation: the update matches a pending confirmation only.
Resolve(c) ==
    LET r == cmd[c].run
        pending == Resolvable(r)
        Apply == conf' = [conf EXCEPT ![r] = [@ EXCEPT !.status = Verdict(cmd[c].verb),
                                                       !.by = cmd[c].user]]
    IN  /\ cmd[c].pc = "resolve"
        /\ \/ pending /\ Apply /\ Reply(c, Verdict(cmd[c].verb))
           \/ ~pending /\ Reply(c, "not_active") /\ UNCHANGED conf
           \/ StoreFaults /\ Reply(c, "failed") /\ ((pending /\ Apply) \/ UNCHANGED conf)
        /\ UNCHANGED <<row, steps, runner, snapshots, crashes, executed, late>>

CmdStep(c) == RequestCancel(c) \/ LoadPending(c) \/ Resolve(c)

-----------------------------------------------------------------------------
\* The process dies and is started again: what was in flight is lost, and
\* nothing takes up the runs that were not complete.
Crash ==
    /\ crashes < MaxCrashes
    /\ crashes' = crashes + 1
    /\ runner' = [r \in Runs |-> IF runner[r].pc \in {"idle", "done"} THEN runner[r]
                                 ELSE [runner[r] EXCEPT !.pc = "dead"]]
    /\ cmd' = [c \in Cmds |-> IF cmd[c].pc \in {"idle", "done"} THEN cmd[c]
                              ELSE [cmd[c] EXCEPT !.pc = "dead"]]
    /\ snapshots' = {}
    /\ UNCHANGED <<row, steps, conf, executed, late>>

Init ==
    /\ row = [r \in Runs |-> NoRow]
    /\ steps = [r \in Runs |-> {}]
    /\ conf = [r \in Runs |-> NoConf]
    /\ runner = [r \in Runs |-> IdleRunner]
    /\ cmd = [c \in Cmds |-> IdleCmd]
    /\ snapshots = {}
    /\ crashes = 0
    /\ executed = [r \in Runs |-> {}]
    /\ late = [r \in Runs |-> 0]

Next ==
    \/ \E r \in Runs : Receive(r) \/ RunStep(r)
    \/ \E c \in Cmds : LoadRun(c) \/ CmdStep(c)
    \/ Crash

Spec == Init /\ [][Next]_vars

\* A goroutine that has started keeps running until it returns: its calls come
\* back, with an answer or an error.  Nobody has to send a message or a command.
FairSpec ==
    /\ Spec
    /\ \A r \in Runs : WF_vars(RunStep(r))
    /\ \A c \in Cmds : WF_vars(CmdStep(c))

-----------------------------------------------------------------------------
RowType == [status : Status \cup {"absent"}, reason : Reason,
            cancelReq : BOOLEAN, completed : BOOLEAN,
            steps : Nat, tools : Nat, llm : Nat]

StepType == [index : Nat, kind : {"plan", "context", "tool", "answer"}]

ConfType == [status : {"absent", "pending", "confirmed", "canceled"},
             step : Nat, by : Users \cup {"nobody"}]

\* Where a runner is once it has been received and until it is done.
Underway == {"start", "check", "route", "context", "plan", "tool", "write", "confirm",
             "read", "answer", "complete"}

RunnerType == [pc : Underway \cup {"idle", "done", "dead"},
               scope : Scopes \cup {"none"}, prior : BOOLEAN, dry : BOOLEAN,
               pack : BOOLEAN, offset : {0, 1}, plan : Plans, next : Nat \ {0},
               status : Status, reason : Reason, handled : BOOLEAN, hint : BOOLEAN]

Replies == {"", "failed", "not_active", "forbidden", "already_ended",
            "cancel_requested", "no_pending", "shown", "confirmed", "canceled"}

CmdType == [pc : {"idle", "cancel", "pending", "resolve", "done", "dead"},
            verb : Verbs \cup {"cancel", "pending"}, user : Users \cup {"nobody"},
            run : Runs \cup {"none"}, reply : Replies]

\* The values of the variables; a confirmation is stored with a known status.
TypeOK ==
    /\ row \in [Runs -> RowType]
    /\ steps \in [Runs -> SUBSET StepType]
    /\ conf \in [Runs -> ConfType]
    /\ runner \in [Runs -> RunnerType]
    /\ cmd \in [Cmds -> CmdType]
    /\ snapshots \in SUBSET Runs
    /\ crashes \in Nat
    /\ executed \in [Runs -> SUBSET (Nat \ {0})]
    /\ late \in [Runs -> Nat]

-----------------------------------------------------------------------------
(* Properties.                                                             *)

\* A cancellation the user was told was requested is what the run ends with,
\* however far the runner had got (RequestCancelRun against CompleteRun).
CancelWins ==
    \A c \in Cmds : cmd[c].reply = "cancel_requested" /\ row[cmd[c].run].completed
                       => row[cmd[c].run].status = "canceled"

\* After a cancellation is accepted the executor lets at most the one effect
\* happen that had already passed its check: a tool, an answer, a confirmation.
AtMostOneLateEffect == \A r \in Runs : late[r] <= 1

\* The response the user gets tells the status the run is stored with, unless
\* a cancellation was accepted between the last check and CompleteRun.
ResponseIsTruthful ==
    \A r \in Runs : At(r, "done") /\ row[r].completed =>
        \/ row[r].status = runner[r].status /\ row[r].reason = runner[r].reason
        \/ row[r].status = "canceled" /\ row[r].cancelReq

\* Tools run in the order of the plan, only read tools run, and a confirmation
\* stands for the first tool that did not: a write the executor stopped at.
WritesWait ==
    \A r \in Runs :
      /\ \E k \in 0..Len(runner[r].plan) :
           /\ executed[r] = 1..k
           /\ conf[r].status # "absent" => conf[r].step = k + 1
      /\ \A i \in executed[r] : runner[r].plan[i] \in {"free", "guarded"}
      /\ conf[r].status # "absent" => /\ conf[r].step \in 1..Len(runner[r].plan)
                                      /\ runner[r].plan[conf[r].step] = "write"

\* A response that points to /agent confirm has a confirmation behind it, and a
\* run that ended with one did not end as if its work was done.
HintHasConfirmation ==
    \A r \in Runs :
      /\ runner[r].hint => conf[r].status # "absent"
      /\ conf[r].status # "absent" /\ row[r].completed =>
            \/ row[r].status \in {"confirmation_required", "canceled"}
            \/ StoreFaults /\ row[r].status = "failed"

\* Owner and administrators may race to confirm and reject: one of them is told
\* it succeeded, and the confirmation is resolved the way that one asked for.
OneResolution ==
    \A r \in Runs :
      LET winners == {c \in Cmds : cmd[c].run = r
                                   /\ cmd[c].reply \in {"confirmed", "canceled"}}
      IN  /\ Cardinality(winners) <= 1
          /\ \A c \in winners : /\ conf[r].status = cmd[c].reply
                                /\ conf[r].by = cmd[c].user

\* The counters of a run count its recorded steps and its tool steps, its tools
\* stay within their limit and, once a tool ran, its steps within theirs.  Of the
\* counter of LLM calls nothing is said: it does exceed MaxLLMCalls.
UsageIsAccurate ==
    \A r \in Runs :
      /\ row[r].steps = Cardinality(steps[r])
      /\ row[r].tools = Cardinality({s \in steps[r] : s.kind = "tool"})
      /\ row[r].tools <= MaxToolCalls
      /\ MaxSteps > 0 /\ executed[r] # {} => row[r].steps <= MaxSteps

\* Unless its statement fails no step is lost, none is refused by the step index:
\* every tool that was executed has its row, and so has the answer of a run that
\* succeeded.
StepsAreKept ==
    \A r \in Runs : ~StepFaults =>
      /\ \A i \in executed[r] :
           i < runner[r].next \/ runner[r].pc \in {"complete", "done"} =>
             [index |-> runner[r].offset + i, kind |-> "tool"] \in steps[r]
      /\ runner[r].reason = "completed" =>
           [index |-> runner[r].offset + Len(runner[r].plan) + 1, kind |-> "answer"]
              \in steps[r]

\* A follow-up snapshot holds the results of the whole plan.
SnapshotIsComplete ==
    \A r \in snapshots : executed[r] = 1..Len(runner[r].plan)

\* How the row of a run, its runner and the late effects hang together.  This is
\* what makes CancelWins, AtMostOneLateEffect, FinishedIsFinal and
\* RefinesLifecycle inductive: the row is complete only when the runner is done,
\* it is "canceled" only because someone asked, and the executor has no late
\* effect behind it when it is past its cancellation check.
RunConsistent(r) ==
    /\ row[r].status = "absent" => ~row[r].cancelReq /\ ~row[r].completed
    /\ ~row[r].completed => row[r].status \in {"absent", "running"}
    /\ row[r].completed =>
          /\ row[r].status \notin {"absent", "running"}
          /\ row[r].cancelReq <=> (row[r].status = "canceled")
          /\ At(r, "done")
    /\ runner[r].pc \in {"idle", "start"} => row[r].status = "absent"
    /\ runner[r].pc \in Underway \ {"start"} => row[r].status = "running"
    /\ At(r, "complete") => runner[r].status # "running"
    /\ runner[r].status = "canceled" => row[r].cancelReq
    /\ late[r] <= 1
    /\ late[r] > 0 =>
          row[r].cancelReq /\ runner[r].pc \notin {"write", "confirm", "read", "answer"}

\* TypeOK and RunConsistent, and: a user is only told that a cancellation was
\* requested when the row says so.
LifecycleInv ==
    /\ TypeOK
    /\ \A r \in Runs : RunConsistent(r)
    /\ \A c \in Cmds : cmd[c].reply = "cancel_requested" =>
          cmd[c].run \in Runs /\ row[cmd[c].run].cancelReq

\* Once a run is complete its row never changes again: it is not reopened, not
\* cancelled, and charged no further step.
FinishedIsFinal ==
    [][\A r \in Runs : row[r].completed => row'[r] = row[r]]_vars

\* A confirmation is resolved once and by one user.
ResolutionIsFinal ==
    [][\A r \in Runs : conf[r].status \in {"confirmed", "canceled"}
                          => conf'[r] = conf[r]]_vars

\* What the row of a run tells its readers.
PhaseOf(r) ==
    IF row[r].status = "absent" THEN "none"
    ELSE IF row[r].completed THEN row[r].status
    ELSE IF row[r].cancelReq THEN "cancelling" ELSE "running"

Lifecycle == INSTANCE RunLifecycle WITH phase <- [r \in Runs |-> PhaseOf(r)]

\* The agent_runs rows go through the life cycle of RunLifecycle.
RefinesLifecycle == Lifecycle!Spec

\* Every request that gets to the run store is answered, also when the database
\* fails meanwhile, as long as the process lives.
EveryRunReturns == \A r \in Runs : At(r, "start") ~> At(r, "done")

\* An accepted cancellation comes to an end as long as the process lives: the
\* runner returns, and the run is stored as canceled if its last update went in.
CancelTakesEffect ==
    \A r \in Runs : row[r].cancelReq ~>
        At(r, "done") /\ (row[r].completed => row[r].status = "canceled")

\* A run that ends with confirmation_required has left a confirmation, and its
\* response points to /agent pending, confirm and reject (completeRun after the
\* plan against CreateConfirmation).
ConfirmationCanBeGiven ==
    \A r \in Runs :
      At(r, "done") /\ row[r].status = "confirmation_required" =>
        runner[r].hint /\ conf[r].status # "absent"
=============================================================================
