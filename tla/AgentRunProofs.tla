--------------------------- MODULE AgentRunProofs ---------------------------
(***************************************************************************)
(* Proofs about AgentRun, for every number of runs and commands, every     *)
(* plan length and every limit.                                            *)
(*                                                                         *)
(* The first part says of each update of a record what it returns, the     *)
(* second what each action does to the types and to the fields the life    *)
(* cycle depends on, the third shows LifecycleInv inductive, the fourth    *)
(* derives the properties and the refinement of RunLifecycle from it.  The *)
(* last part is about ModelAnswers: the plans the runner is given and the  *)
(* texts it shows, for every set of tools and every output of a model.     *)
(***************************************************************************)
EXTENDS AgentRun, ModelAnswers, TLAPS

\* What the updates of the records return.
LEMMA FinishFacts ==
  ASSUME runner \in [Runs -> RunnerType], NEW r \in Runs, NEW h \in BOOLEAN,
         NEW s \in Status, NEW t \in Reason, Finish(r, h, s, t)
  PROVE  /\ runner' \in [Runs -> RunnerType]
         /\ runner'[r].pc = "complete" /\ runner'[r].status = s
         /\ \A q \in Runs : q # r => runner'[q] = runner[q]
<1>1. ASSUME NEW old \in RunnerType, NEW pc \in Underway \cup {"idle", "done", "dead"}
      PROVE  LET new == [old EXCEPT !.pc = pc, !.handled = h, !.status = s, !.reason = t]
             IN  new \in RunnerType /\ new.pc = pc /\ new.status = s
  BY DEF RunnerType
<1>2. "complete" \in Underway \cup {"idle", "done", "dead"}
  BY DEF Underway
<1> DEFINE new == [runner[r] EXCEPT !.pc = "complete", !.handled = h,
                                    !.status = s, !.reason = t]
<1>3. new \in RunnerType /\ new.pc = "complete" /\ new.status = s
  BY <1>1, <1>2
<1>4. runner' = [runner EXCEPT ![r] = new]
  BY DEF Finish
<1> HIDE DEF new
<1> QED
  BY <1>3, <1>4

\* Goto changes where the runner of the run is, and nothing else.
LEMMA GotoFacts ==
  ASSUME runner \in [Runs -> RunnerType], NEW r \in Runs,
         NEW pc \in Underway \cup {"idle", "done", "dead"}, Goto(r, pc)
  PROVE  /\ runner' \in [Runs -> RunnerType]
         /\ runner'[r].pc = pc /\ runner'[r].status = runner[r].status
         /\ \A q \in Runs : q # r => runner'[q] = runner[q]
  BY DEF RunnerType, Goto

\* RecordStep charges the counters only: what its readers look at is kept.
LEMMA ChargedFacts ==
  ASSUME NEW old \in RowType, NEW kind
  PROVE  /\ Charged(old, kind) \in RowType
         /\ Charged(old, kind).status = old.status
         /\ Charged(old, kind).reason = old.reason
         /\ Charged(old, kind).cancelReq = old.cancelReq
         /\ Charged(old, kind).completed = old.completed
<1>1. PICK a, b, c \in Nat :
        Charged(old, kind) = [old EXCEPT !.steps = a, !.tools = b, !.llm = c]
  <2> /\ old.steps + 1 \in Nat
      /\ old.tools + (IF kind = "tool" THEN 1 ELSE 0) \in Nat
      /\ old.llm + (IF kind \in {"plan", "answer"} THEN 1 ELSE 0) \in Nat
    BY DEF RowType
  <2>2. WITNESS old.steps + 1 \in Nat,
                old.tools + (IF kind = "tool" THEN 1 ELSE 0) \in Nat,
                old.llm + (IF kind \in {"plan", "answer"} THEN 1 ELSE 0) \in Nat
  <2> QED
    BY DEF Charged
<1> DEFINE new == [old EXCEPT !.steps = a, !.tools = b, !.llm = c]
<1>2. /\ new \in RowType /\ new.status = old.status /\ new.reason = old.reason
      /\ new.cancelReq = old.cancelReq /\ new.completed = old.completed
  BY DEF RowType
<1>3. Charged(old, kind) = new
  BY <1>1
<1> HIDE DEF new
<1> QED
  BY <1>2, <1>3

\* A recorded step leaves the status of every run, and its cancel request, alone.
LEMMA RecordFacts ==
  ASSUME row \in [Runs -> RowType], steps \in [Runs -> SUBSET StepType],
         NEW r \in Runs, NEW i \in Nat, NEW kind \in {"plan", "context", "tool", "answer"},
         Record(r, i, kind)
  PROVE  /\ row' \in [Runs -> RowType]
         /\ steps' \in [Runs -> SUBSET StepType]
         /\ \A q \in Runs : /\ row'[q].status = row[q].status
                            /\ row'[q].reason = row[q].reason
                            /\ row'[q].cancelReq = row[q].cancelReq
                            /\ row'[q].completed = row[q].completed
<1> DEFINE new == Charged(row[r], kind)
           step == [index |-> i, kind |-> kind]
<1>1. CASE UNCHANGED <<steps, row>>
  BY <1>1
<1>2. CASE /\ steps' = [steps EXCEPT ![r] = @ \cup {step}]
           /\ row' = [row EXCEPT ![r] = new]
  <2>1. step \in StepType
    BY DEF StepType
  <2>2. steps' \in [Runs -> SUBSET StepType]
    BY <1>2, <2>1
  <2>3. /\ new \in RowType /\ new.status = row[r].status /\ new.reason = row[r].reason
        /\ new.cancelReq = row[r].cancelReq /\ new.completed = row[r].completed
    BY ChargedFacts
  <2> HIDE DEF new
  <2> QED
    BY <1>2, <2>2, <2>3
<1> QED
  BY <1>1, <1>2 DEF Record

\* FetchContext sends the runner on to the planner.
LEMMA PlanWithFacts ==
  ASSUME runner \in [Runs -> RunnerType], NEW r \in Runs, NEW pack \in BOOLEAN,
         PlanWith(r, pack)
  PROVE  /\ runner' \in [Runs -> RunnerType]
         /\ runner'[r].pc = "plan" /\ runner'[r].status = runner[r].status
         /\ \A q \in Runs : q # r => runner'[q] = runner[q]
<1>1. ASSUME NEW old \in RunnerType, NEW pc \in Underway \cup {"idle", "done", "dead"},
             NEW offset \in {0, 1}
      PROVE  LET new == [old EXCEPT !.pc = pc, !.pack = pack, !.offset = offset]
             IN  new \in RunnerType /\ new.pc = pc /\ new.status = old.status
  BY DEF RunnerType
<1>2. "plan" \in Underway \cup {"idle", "done", "dead"} /\ 1 \in {0, 1}
  BY DEF Underway
<1> DEFINE new == [runner[r] EXCEPT !.pc = "plan", !.pack = pack, !.offset = 1]
<1>3. new \in RunnerType /\ new.pc = "plan" /\ new.status = runner[r].status
  BY <1>1, <1>2
<1>4. runner' = [runner EXCEPT ![r] = new]
  BY DEF PlanWith
<1> HIDE DEF new
<1> QED
  BY <1>3, <1>4

\* The announcement of a confirmation ends the run as one that waits for it.
LEMMA AnnounceFacts ==
  ASSUME runner \in [Runs -> RunnerType], NEW r \in Runs, Announce(r)
  PROVE  /\ runner' \in [Runs -> RunnerType]
         /\ runner'[r].pc = "complete"
         /\ runner'[r].status = "confirmation_required"
         /\ \A q \in Runs : q # r => runner'[q] = runner[q]
<1>1. /\ "complete" \in Underway \cup {"idle", "done", "dead"}
      /\ "confirmation_required" \in Status /\ "confirmation_required" \in Reason
  BY DEF Underway, Status, Reason
<1>2. runner[r] \in RunnerType
  OBVIOUS
<1> DEFINE new == [runner[r] EXCEPT !.pc = "complete", !.handled = TRUE, !.hint = TRUE,
                                    !.status = "confirmation_required",
                                    !.reason = "confirmation_required"]
<1>3. new \in RunnerType
  BY <1>1, <1>2 DEF RunnerType
<1>4. new.pc = "complete" /\ new.status = "confirmation_required"
  BY <1>2 DEF RunnerType
<1>5. runner' = [runner EXCEPT ![r] = new]
  BY DEF Announce
<1> HIDE DEF new
<1> QED
  BY <1>3, <1>5, <1>4

\* The executor moves on to the next tool of the plan.
LEMMA NextToolFacts ==
  ASSUME runner \in [Runs -> RunnerType], NEW r \in Runs, NextTool(r)
  PROVE  /\ runner' \in [Runs -> RunnerType]
         /\ runner'[r].pc = "tool" /\ runner'[r].status = runner[r].status
         /\ \A q \in Runs : q # r => runner'[q] = runner[q]
<1>1. "tool" \in Underway \cup {"idle", "done", "dead"}
  BY DEF Underway
<1>2. runner[r] \in RunnerType /\ runner[r].next + 1 \in Nat \ {0}
  BY DEF RunnerType
<1> DEFINE new == [runner[r] EXCEPT !.pc = "tool", !.next = runner[r].next + 1]
<1>3. new \in RunnerType /\ new.pc = "tool" /\ new.status = runner[r].status
  BY <1>1, <1>2 DEF RunnerType
<1>4. runner' = [runner EXCEPT ![r] = new]
  BY DEF NextTool
<1> HIDE DEF new
<1> QED
  BY <1>3, <1>4

\* The upsert of StartRun keeps a cancel request and makes a fresh row running.
LEMMA StartedFacts ==
  ASSUME NEW old \in RowType
  PROVE  /\ Started(old) \in RowType
         /\ old.status = "absent" => /\ Started(old).status = "running"
                                     /\ ~Started(old).cancelReq
                                     /\ ~Started(old).completed
<1>1. "running" \in Status \cup {"absent"} /\ "absent" \in Status \cup {"absent"}
      /\ "" \in Reason
  BY DEF Status, Reason
<1>2. NoRow \in RowType /\ ~NoRow.cancelReq /\ ~NoRow.completed
  BY <1>1 DEF NoRow, RowType
<1>3. ASSUME NEW o \in RowType, NEW s \in Status \cup {"absent"}, NEW t \in Reason
      PROVE  [o EXCEPT !.status = s, !.reason = t, !.completed = FALSE] \in RowType
  BY DEF RowType
<1>4. ASSUME NEW o \in RowType, NEW s \in Status \cup {"absent"}
      PROVE  LET new == [o EXCEPT !.status = s]
             IN  /\ new \in RowType /\ new.status = s
                 /\ new.cancelReq = o.cancelReq /\ new.completed = o.completed
  BY DEF RowType
<1> QED
  BY <1>1, <1>2, <1>3, <1>4 DEF Started

\* The update of CompleteRun completes the row, as canceled when that was asked.
LEMMA CompletedFacts ==
  ASSUME NEW old \in RowType, NEW status \in Status, NEW reason \in Reason
  PROVE  LET new == Completed(old, status, reason)
             canceled == old.status = "canceled" \/ old.cancelReq
         IN  /\ new \in RowType /\ new.completed /\ new.cancelReq = old.cancelReq
             /\ canceled => new.status = "canceled"
             /\ ~canceled => new.status = status
<1>1. "canceled" \in Status \cup {"absent"} /\ "canceled" \in Reason
      /\ status \in Status \cup {"absent"}
  BY DEF Status, Reason
<1> DEFINE Ended(s, t) == [old EXCEPT !.status = s, !.reason = t, !.completed = TRUE]
           canceled == old.status = "canceled" \/ old.cancelReq
           new == Completed(old, status, reason)
<1>2. ASSUME NEW s \in Status \cup {"absent"}, NEW t \in Reason
      PROVE  /\ Ended(s, t) \in RowType /\ Ended(s, t).completed
             /\ Ended(s, t).cancelReq = old.cancelReq /\ Ended(s, t).status = s
  BY DEF RowType
<1>3. /\ canceled => new = Ended("canceled", "canceled")
      /\ ~canceled => new = Ended(status, reason)
  BY DEF Completed
<1> HIDE DEF Ended, new
<1>4. /\ new \in RowType /\ new.completed /\ new.cancelReq = old.cancelReq
      /\ canceled => new.status = "canceled"
      /\ ~canceled => new.status = status
  BY <1>1, <1>2, <1>3
<1> QED
  BY <1>4 DEF new

\* A reply ends its command and changes no other.
LEMMA ReplyFacts ==
  ASSUME cmd \in [Cmds -> CmdType], NEW c \in Cmds, NEW text \in Replies, Reply(c, text)
  PROVE  /\ cmd' \in [Cmds -> CmdType]
         /\ cmd'[c].reply = text /\ cmd'[c].run = cmd[c].run /\ cmd'[c].pc = "done"
         /\ \A d \in Cmds : d # c => cmd'[d] = cmd[d]
<1>1. ASSUME NEW old \in CmdType,
             NEW pc \in {"idle", "cancel", "pending", "resolve", "done", "dead"}
      PROVE  LET new == [old EXCEPT !.pc = pc, !.reply = text]
             IN  new \in CmdType /\ new.pc = pc /\ new.reply = text /\ new.run = old.run
  BY DEF CmdType
<1> DEFINE new == [cmd[c] EXCEPT !.pc = "done", !.reply = text]
<1>2. /\ new \in CmdType /\ new.pc = "done" /\ new.reply = text
      /\ new.run = cmd[c].run
  BY <1>1
<1>3. cmd' = [cmd EXCEPT ![c] = new]
  BY DEF Reply
<1> HIDE DEF new
<1> QED
  BY <1>2, <1>3

-----------------------------------------------------------------------------
(* What a step does to the types, and to what the life cycle depends on.   *)

\* The runner moves its row's counters at most.
RowsKept == \A q \in Runs : /\ row'[q].status = row[q].status
                            /\ row'[q].cancelReq = row[q].cancelReq
                            /\ row'[q].completed = row[q].completed

OthersKept(r) == \A q \in Runs : q # r => runner'[q] = runner[q]

Typed == /\ row' \in [Runs -> RowType]
         /\ steps' \in [Runs -> SUBSET StepType]
         /\ runner' \in [Runs -> RunnerType]

\* The runner goes to pc, or it goes to the end of the run with a status of S.
GoesOn(r, pc) == runner'[r].pc = pc /\ runner'[r].status = runner[r].status

EndsWith(r, S) == runner'[r].pc = "complete" /\ runner'[r].status \in S

\* Receive only starts the runner, or turns the request down.
LEMMA ReceiveTypes ==
  ASSUME TypeOK, NEW r \in Runs, Receive(r)
  PROVE  /\ runner' \in [Runs -> RunnerType]
         /\ GoesOn(r, "start") \/ GoesOn(r, "done")
         /\ OthersKept(r)
<1> USE DEF OthersKept, GoesOn
<1>1. PICK pc \in {"start", "done"}, scope \in Scopes, prior \in BOOLEAN :
        runner' = [runner EXCEPT ![r] = [runner[r] EXCEPT !.pc = pc, !.scope = scope,
                                                          !.prior = prior]]
  BY DEF Receive
<1>2. runner[r] \in RunnerType /\ runner \in [Runs -> RunnerType]
  BY DEF TypeOK
<1>3. pc \in Underway \cup {"idle", "done", "dead"}
  BY DEF Underway
<1> DEFINE new == [runner[r] EXCEPT !.pc = pc, !.scope = scope, !.prior = prior]
<1>4. new \in RunnerType /\ new.pc = pc /\ new.status = runner[r].status
  BY <1>2, <1>3 DEF RunnerType
<1>5. runner' = [runner EXCEPT ![r] = new]
  BY <1>1
<1> HIDE DEF new
<1> QED
  BY <1>2, <1>4, <1>5

\* StartRun changes the row by its upsert, whether its answer comes back or not.
LEMMA StartRunTypes ==
  ASSUME TypeOK, NEW r \in Runs, StartRun(r)
  PROVE  /\ row' \in [Runs -> RowType]
         /\ runner' \in [Runs -> RunnerType]
         /\ \/ runner'[r].pc = "done" /\ row'[r] = row[r]
            \/ runner'[r].pc \in {"check", "done"} /\ row'[r] = Started(row[r])
         /\ runner'[r].status = runner[r].status
         /\ \A q \in Runs : q # r => runner'[q] = runner[q] /\ row'[q] = row[q]
<1> USE DEF TypeOK
<1>1. PICK failed \in BOOLEAN, applied \in BOOLEAN :
        /\ ~failed => applied
        /\ row' = IF applied THEN [row EXCEPT ![r] = Started(row[r])] ELSE row
        /\ LET pc == IF failed THEN "done" ELSE "check"
           IN  runner' = [runner EXCEPT ![r] = [runner[r] EXCEPT !.pc = pc,
                                                                 !.handled = failed]]
  BY DEF StartRun, MayFail
<1>2. row' \in [Runs -> RowType]
  BY <1>1, StartedFacts
<1> DEFINE pc == IF failed THEN "done" ELSE "check"
           new == [runner[r] EXCEPT !.pc = pc, !.handled = failed]
<1>3. runner[r] \in RunnerType /\ pc \in Underway \cup {"idle", "done", "dead"}
  BY DEF Underway
<1>4. new \in RunnerType /\ new.pc = pc /\ new.status = runner[r].status
  BY <1>3 DEF RunnerType
<1>5. runner' = [runner EXCEPT ![r] = new]
  BY <1>1
<1> HIDE DEF new
<1> QED
  BY <1>1, <1>2, <1>4, <1>5

\* Route goes on to the context, or ends the run without canceling it.
LEMMA RouteTypes ==
  ASSUME TypeOK, NEW r \in Runs, Route(r)
  PROVE  /\ Typed
         /\ GoesOn(r, "context") \/ EndsWith(r, {"succeeded", "failed", "denied"})
         /\ RowsKept /\ OthersKept(r)
<1> USE DEF TypeOK, Typed, RowsKept, OthersKept, GoesOn, EndsWith
<1>1. CASE /\ Finish(r, FALSE, "succeeded", "routing_off")
           /\ UNCHANGED <<row, steps>>
  <2>1. "succeeded" \in Status /\ "routing_off" \in Reason
    BY DEF Status, Reason
  <2> QED
    BY <1>1, <2>1, FinishFacts
<1>2. CASE /\ \E dry \in BOOLEAN :
                runner' = [runner EXCEPT ![r] = [runner[r] EXCEPT !.pc = "context",
                                                                  !.dry = dry]]
           /\ UNCHANGED <<row, steps>>
  <2>1. PICK dry \in BOOLEAN :
          runner' = [runner EXCEPT ![r] = [runner[r] EXCEPT !.pc = "context", !.dry = dry]]
    BY <1>2
  <2>2. runner[r] \in RunnerType /\ "context" \in Underway \cup {"idle", "done", "dead"}
    BY DEF Underway
  <2> DEFINE new == [runner[r] EXCEPT !.pc = "context", !.dry = dry]
  <2>3. new \in RunnerType /\ new.pc = "context" /\ new.status = runner[r].status
    BY <2>2 DEF RunnerType
  <2>4. runner' = [runner EXCEPT ![r] = new]
    BY <2>1
  <2> HIDE DEF new
  <2> QED
    BY <1>2, <2>3, <2>4
<1>3. CASE /\ \/ Finish(r, TRUE, "failed", "routing_policy_failed")
              \/ Finish(r, TRUE, "failed", "permission_check_failed")
              \/ Finish(r, TRUE, "denied", "permission_denied")
           /\ Record(r, 0, "plan")
  <2>1. /\ "failed" \in Status /\ "denied" \in Status
        /\ "routing_policy_failed" \in Reason /\ "permission_check_failed" \in Reason
        /\ "permission_denied" \in Reason
    BY DEF Status, Reason
  <2>2. /\ runner' \in [Runs -> RunnerType]
        /\ runner'[r].pc = "complete" /\ runner'[r].status \in {"failed", "denied"}
        /\ \A q \in Runs : q # r => runner'[q] = runner[q]
    BY <1>3, <2>1, FinishFacts
  <2> QED
    BY <1>3, <2>2, RecordFacts
<1> QED
  BY <1>1, <1>2, <1>3 DEF Route

\* The statuses a runner gives up with.
GivesUp == {"failed", "denied"}

\* Finish ends the runner with the status it is given.
LEMMA Ends ==
  ASSUME TypeOK, NEW r \in Runs, NEW h \in BOOLEAN, NEW s \in Status, NEW t \in Reason,
         Finish(r, h, s, t)
  PROVE  runner' \in [Runs -> RunnerType] /\ OthersKept(r) /\ EndsWith(r, {s})
BY FinishFacts DEF TypeOK, OthersKept, EndsWith

\* Goto sends the runner to where it is told.
LEMMA Goes ==
  ASSUME TypeOK, NEW r \in Runs, NEW pc \in Underway, Goto(r, pc)
  PROVE  runner' \in [Runs -> RunnerType] /\ OthersKept(r) /\ GoesOn(r, pc)
BY GotoFacts DEF TypeOK, OthersKept, GoesOn

\* Record keeps the types of the two tables, and every status.
LEMMA Records ==
  ASSUME TypeOK, NEW r \in Runs, NEW i \in Nat,
         NEW kind \in {"plan", "context", "tool", "answer"}, Record(r, i, kind)
  PROVE  /\ row' \in [Runs -> RowType] /\ steps' \in [Runs -> SUBSET StepType]
         /\ RowsKept
BY RecordFacts DEF TypeOK, RowsKept

\* The statuses, reasons and places the actions name are known ones.
LEMMA Names ==
  /\ Status = {"running", "succeeded", "failed", "denied", "dry_run",
               "confirmation_required", "canceled"}
  /\ {"completed", "dry_run", "canceled", "ignored", "permission_denied", "clarify",
      "permission_check_failed", "planner_failed", "confirmation_required",
      "step_budget_exceeded", "tool_budget_exceeded", "executor_failed",
      "llm_budget_exceeded"} \subseteq Reason
  /\ {"plan", "tool", "write", "confirm", "read", "answer", "complete"} \subseteq Underway
BY DEF Status, Reason, Underway

\* FetchContext goes on to the planner, or ends the run without canceling it.
LEMMA FetchContextTypes ==
  ASSUME TypeOK, NEW r \in Runs, FetchContext(r)
  PROVE  /\ Typed
         /\ GoesOn(r, "plan") \/ EndsWith(r, GivesUp)
         /\ RowsKept /\ OthersKept(r)
<1> USE DEF Typed, GivesUp
<1>1. CASE /\ Record(r, 1, "context")
           /\ \E pack \in BOOLEAN : PlanWith(r, pack)
  BY <1>1, Records, PlanWithFacts DEF TypeOK, OthersKept, GoesOn
<1>2. CASE /\ Record(r, 1, "context")
           /\ \/ Finish(r, TRUE, "denied", "permission_denied")
              \/ Finish(r, TRUE, "failed", "executor_failed")
  <2>1. "denied" \in Status /\ "failed" \in Status
        /\ "permission_denied" \in Reason /\ "executor_failed" \in Reason
    BY Names
  <2> QED
    BY <1>2, <2>1, Records, Ends DEF EndsWith
<1>3. CASE Goto(r, "plan") /\ UNCHANGED <<row, steps>>
  BY <1>3, Goes, Names DEF TypeOK, RowsKept
<1> QED
  BY <1>1, <1>2, <1>3 DEF FetchContext

\* MakePlan goes on to the tools, or ends the run without canceling it.
LEMMA MakePlanTypes ==
  ASSUME TypeOK, NEW r \in Runs, MakePlan(r)
  PROVE  /\ Typed
         /\ GoesOn(r, "tool")
            \/ EndsWith(r, {"failed", "succeeded", "confirmation_required", "dry_run"})
         /\ RowsKept /\ OthersKept(r)
<1> USE DEF Typed
<1>1. row' \in [Runs -> RowType] /\ steps' \in [Runs -> SUBSET StepType] /\ RowsKept
  BY Records DEF MakePlan
<1>2. CASE PlanWithoutTools(r)
  <2>1. /\ {"failed", "succeeded", "confirmation_required"} \subseteq Status
        /\ {"planner_failed", "ignored", "clarify", "confirmation_required"} \subseteq Reason
    BY Names
  <2> QED
    BY <1>1, <1>2, <2>1, Ends DEF PlanWithoutTools, EndsWith
<1>3. ASSUME NEW plan \in Plans, NEW chat \in BOOLEAN, PlanWithTools(r, plan, chat)
      PROVE  /\ Typed
             /\ GoesOn(r, "tool") \/ EndsWith(r, {"failed", "succeeded", "dry_run"})
             /\ OthersKept(r)
  <2>1. /\ {"failed", "succeeded", "dry_run"} \subseteq Status
        /\ {"ignored", "dry_run", "step_budget_exceeded", "tool_budget_exceeded"}
              \subseteq Reason
    BY Names
  <2>2. CASE \/ Finish(r, FALSE, "succeeded", "ignored")
             \/ Finish(r, TRUE, "dry_run", "dry_run")
             \/ Finish(r, TRUE, "failed", "step_budget_exceeded")
             \/ Finish(r, TRUE, "failed", "tool_budget_exceeded")
    BY <1>1, <2>1, <2>2, Ends DEF EndsWith
  <2>3. CASE runner' = [runner EXCEPT ![r] = [runner[r] EXCEPT !.pc = "tool",
                                                               !.plan = plan]]
    <3>1. runner[r] \in RunnerType /\ "tool" \in Underway
      BY Names DEF TypeOK
    <3> DEFINE new == [runner[r] EXCEPT !.pc = "tool", !.plan = plan]
    <3>2. new \in RunnerType /\ new.pc = "tool" /\ new.status = runner[r].status
      BY <3>1 DEF RunnerType
    <3>3. runner' = [runner EXCEPT ![r] = new] /\ runner \in [Runs -> RunnerType]
      BY <2>3 DEF TypeOK
    <3> HIDE DEF new
    <3> QED
      BY <1>1, <3>2, <3>3 DEF OthersKept, GoesOn
  <2> QED
    BY <1>3, <2>2, <2>3 DEF PlanWithTools
<1> QED
  BY <1>1, <1>2, <1>3 DEF MakePlan, EndsWith

\* The step index of a tool is a number.
LEMMA ToolStepIsNat ==
  ASSUME TypeOK, NEW r \in Runs
  PROVE  ToolStep(r) \in Nat
<1>1. runner[r] \in RunnerType
  BY DEF TypeOK
<1>2. runner[r].offset \in {0, 1} /\ runner[r].next \in Nat
  BY <1>1 DEF RunnerType
<1> QED
  BY <1>2 DEF ToolStep

\* CheckTool lets a tool go on only if it found no cancellation, and ends the run as
\* canceled only if it found one.
LEMMA CheckToolTypes ==
  ASSUME TypeOK, NEW r \in Runs, CheckTool(r)
  PROVE  /\ Typed
         /\ \/ (GoesOn(r, "write") \/ GoesOn(r, "read")) /\ ~IsCanceled(r)
            \/ EndsWith(r, {"failed"})
            \/ EndsWith(r, {"canceled"}) /\ IsCanceled(r)
         /\ RowsKept /\ OthersKept(r)
<1> USE DEF Typed
<1>1. /\ {"failed", "canceled"} \subseteq Status
      /\ {"executor_failed", "canceled"} \subseteq Reason
      /\ {"write", "read"} \subseteq Underway
  BY Names
<1>2. CASE /\ Finish(r, TRUE, "failed", "executor_failed")
           /\ Record(r, ToolStep(r), "tool")
  BY <1>1, <1>2, Ends, Records, ToolStepIsNat
<1>3. CASE /\ IsCanceled(r) /\ UNCHANGED <<row, steps>>
           /\ Finish(r, TRUE, "canceled", "canceled")
  BY <1>1, <1>3, Ends DEF TypeOK, RowsKept
<1>4. CASE /\ ~IsCanceled(r) /\ UNCHANGED <<row, steps>>
           /\ Goto(r, IF NeedsConfirmation(r) THEN "write" ELSE "read")
  BY <1>1, <1>4, Goes DEF TypeOK, RowsKept
<1> QED
  BY <1>2, <1>3, <1>4 DEF CheckTool

\* DeferWrite goes on to the confirmation.
LEMMA DeferWriteTypes ==
  ASSUME TypeOK, NEW r \in Runs, DeferWrite(r)
  PROVE  Typed /\ GoesOn(r, "confirm") /\ RowsKept /\ OthersKept(r)
<1>1. "confirm" \in Underway
  BY Names
<1> QED
  BY <1>1, Goes, Records, ToolStepIsNat DEF DeferWrite, Typed

\* CreateConfirmation ends the run without canceling it.
LEMMA CreateConfirmationTypes ==
  ASSUME TypeOK, NEW r \in Runs, CreateConfirmation(r)
  PROVE  /\ Typed /\ conf' \in [Runs -> ConfType]
         /\ EndsWith(r, {"failed", "confirmation_required"})
         /\ RowsKept /\ OthersKept(r)
<1> USE DEF Typed
<1>1. PICK failed \in BOOLEAN, applied \in BOOLEAN :
        /\ conf' = IF applied THEN [conf EXCEPT ![r] = PendingConf(r)] ELSE conf
        /\ IF failed
           THEN /\ Finish(r, TRUE, "failed", "executor_failed")
                /\ Record(r, ToolStep(r), "tool")
           ELSE Announce(r) /\ UNCHANGED <<row, steps>>
  BY DEF CreateConfirmation, MayFail
<1>2. conf' \in [Runs -> ConfType]
  <2>1. runner[r] \in RunnerType /\ conf \in [Runs -> ConfType]
    BY DEF TypeOK
  <2>2. runner[r].next \in Nat
    BY <2>1 DEF RunnerType
  <2>3. PendingConf(r) \in ConfType
    BY <2>2 DEF PendingConf, ConfType
  <2>4. conf' = conf \/ conf' = [conf EXCEPT ![r] = PendingConf(r)]
    BY <1>1
  <2> QED
    BY <2>1, <2>3, <2>4
<1>3. CASE /\ Finish(r, TRUE, "failed", "executor_failed")
           /\ Record(r, ToolStep(r), "tool")
  <2>1. "failed" \in Status /\ "executor_failed" \in Reason
    BY Names
  <2> QED
    BY <1>2, <1>3, <2>1, Ends, Records, ToolStepIsNat DEF EndsWith
<1>4. CASE Announce(r) /\ UNCHANGED <<row, steps>>
  BY <1>2, <1>4, AnnounceFacts DEF TypeOK, RowsKept, OthersKept, EndsWith
<1> QED
  BY <1>1, <1>3, <1>4

\* RefuseTool ends the run without canceling it.
LEMMA RefuseToolTypes ==
  ASSUME TypeOK, NEW r \in Runs, RefuseTool(r)
  PROVE  Typed /\ EndsWith(r, GivesUp) /\ RowsKept /\ OthersKept(r)
<1>1. /\ {"failed", "denied"} \subseteq Status
      /\ {"permission_check_failed", "permission_denied"} \subseteq Reason
  BY Names
<1>2. runner' \in [Runs -> RunnerType] /\ EndsWith(r, GivesUp) /\ OthersKept(r)
  BY <1>1, Ends DEF RefuseTool, EndsWith, GivesUp
<1> QED
  BY <1>2, Records, ToolStepIsNat DEF RefuseTool, Typed

\* ExecuteTool goes on to the next tool, or ends the run as failed.
LEMMA ExecuteToolTypes ==
  ASSUME TypeOK, NEW r \in Runs, ExecuteTool(r)
  PROVE  /\ Typed /\ executed' \in [Runs -> SUBSET (Nat \ {0})]
         /\ GoesOn(r, "tool") \/ EndsWith(r, GivesUp)
         /\ RowsKept /\ OthersKept(r)
<1>1. "failed" \in Status /\ "executor_failed" \in Reason
  BY Names
<1>2. /\ runner' \in [Runs -> RunnerType] /\ OthersKept(r)
      /\ GoesOn(r, "tool") \/ EndsWith(r, GivesUp)
  BY <1>1, Ends, NextToolFacts DEF ExecuteTool, EndsWith, GoesOn, GivesUp, OthersKept, TypeOK
<1>3. executed' \in [Runs -> SUBSET (Nat \ {0})]
  <2>1. runner[r] \in RunnerType /\ executed \in [Runs -> SUBSET (Nat \ {0})]
    BY DEF TypeOK
  <2>2. PICK n \in Nat \ {0} : n = runner[r].next
    BY <2>1 DEF RunnerType
  <2>3. executed' = [executed EXCEPT ![r] = executed[r] \cup {n}]
    BY <2>2 DEF ExecuteTool
  <2> QED
    BY <2>1, <2>3
<1> QED
  BY <1>2, <1>3, Records, ToolStepIsNat DEF ExecuteTool, Typed

\* CheckAnswer is for the answer what CheckTool is for a tool.
LEMMA CheckAnswerTypes ==
  ASSUME TypeOK, NEW r \in Runs, CheckAnswer(r)
  PROVE  /\ Typed
         /\ \/ GoesOn(r, "answer") /\ ~IsCanceled(r)
            \/ EndsWith(r, {"failed"})
            \/ EndsWith(r, {"canceled"}) /\ IsCanceled(r)
         /\ RowsKept /\ OthersKept(r)
<1> USE DEF Typed
<1>1. /\ {"failed", "canceled"} \subseteq Status
      /\ {"executor_failed", "canceled"} \subseteq Reason
      /\ "answer" \in Underway
  BY Names
<1>2. CASE /\ Finish(r, TRUE, "failed", "executor_failed")
           /\ Record(r, ToolStep(r), "answer")
  BY <1>1, <1>2, Ends, Records, ToolStepIsNat
<1>3. CASE /\ IsCanceled(r) /\ UNCHANGED <<row, steps>>
           /\ Finish(r, TRUE, "canceled", "canceled")
  BY <1>1, <1>3, Ends DEF TypeOK, RowsKept
<1>4. CASE ~IsCanceled(r) /\ UNCHANGED <<row, steps>> /\ Goto(r, "answer")
  BY <1>1, <1>4, Goes DEF TypeOK, RowsKept
<1> QED
  BY <1>2, <1>3, <1>4 DEF CheckAnswer

\* Answer ends the run without canceling it.
LEMMA AnswerTypes ==
  ASSUME TypeOK, NEW r \in Runs, Answer(r)
  PROVE  /\ Typed /\ snapshots' \in SUBSET Runs
         /\ EndsWith(r, {"succeeded", "failed"}) /\ RowsKept /\ OthersKept(r)
<1>1. /\ {"failed", "succeeded"} \subseteq Status
      /\ {"executor_failed", "llm_budget_exceeded", "completed"} \subseteq Reason
  BY Names
<1>2. /\ runner' \in [Runs -> RunnerType] /\ OthersKept(r)
      /\ EndsWith(r, {"succeeded", "failed"})
  BY <1>1, Ends DEF Answer, EndsWith
<1>3. snapshots' \in SUBSET Runs
  BY DEF Answer, TypeOK
<1> QED
  BY <1>2, <1>3, Records, ToolStepIsNat DEF Answer, Typed

\* Complete changes the row of its run by the update of CompleteRun, or not at all.
LEMMA CompleteTypes ==
  ASSUME TypeOK, NEW r \in Runs, Complete(r)
  PROVE  /\ Typed
         /\ \/ row' = [row EXCEPT ![r] = Completed(row[r], runner[r].status,
                                                   runner[r].reason)]
            \/ row' = row
         /\ GoesOn(r, "done") /\ OthersKept(r)
<1>1. runner[r] \in RunnerType /\ row \in [Runs -> RowType]
  BY DEF TypeOK
<1>2. runner[r].status \in Status /\ runner[r].reason \in Reason
  BY <1>1 DEF RunnerType
<1>3. row' \in [Runs -> RowType]
  BY <1>1, <1>2, CompletedFacts DEF Complete
<1>4. runner' \in [Runs -> RunnerType] /\ GoesOn(r, "done") /\ OthersKept(r)
  BY GotoFacts DEF Complete, TypeOK, GoesOn, OthersKept
<1> QED
  BY <1>3, <1>4 DEF Complete, Typed, TypeOK

\* An effect is counted as late exactly when a cancellation was accepted before.
LEMMA EffectFacts ==
  ASSUME TypeOK, NEW r \in Runs, Effect(r)
  PROVE  /\ late' \in [Runs -> Nat]
         /\ late'[r] = late[r] + (IF row[r].cancelReq THEN 1 ELSE 0)
         /\ \A q \in Runs : q # r => late'[q] = late[q]
BY DEF Effect, TypeOK

\* CheckStarted ends the run as canceled only if it found a cancellation.
LEMMA CheckStartedTypes ==
  ASSUME TypeOK, NEW r \in Runs, CheckStarted(r)
  PROVE  /\ Typed
         /\ \/ GoesOn(r, "route") \/ EndsWith(r, {"failed"})
            \/ EndsWith(r, {"canceled"}) /\ IsCanceled(r)
         /\ RowsKept /\ OthersKept(r)
<1>1. {"failed", "canceled"} \subseteq Status /\ "canceled" \in Reason
  BY Names
<1>2. "route" \in Underway
  BY DEF Underway
<1>3. /\ runner' \in [Runs -> RunnerType] /\ OthersKept(r)
      /\ \/ GoesOn(r, "route") \/ EndsWith(r, {"failed"})
         \/ EndsWith(r, {"canceled"}) /\ IsCanceled(r)
  BY <1>1, <1>2, Ends, Goes DEF CheckStarted
<1> QED
  BY <1>3 DEF CheckStarted, Typed, RowsKept, TypeOK

\* LoadRun gives the command a run and never tells that a cancellation was requested.
LEMMA LoadRunTypes ==
  ASSUME TypeOK, NEW c \in Cmds, LoadRun(c)
  PROVE  /\ cmd' \in [Cmds -> CmdType]
         /\ cmd'[c].run \in Runs /\ cmd'[c].reply # "cancel_requested"
         /\ \A d \in Cmds : d # c => cmd'[d] = cmd[d]
<1> DEFINE On(u, r, verb, pc, text) == [pc |-> pc, verb |-> verb, user |-> u,
                                        run |-> r, reply |-> text]
<1>0. PICK u \in Users, r \in Runs, verb \in Verbs \cup {"cancel", "pending"} :
        \E pc \in {"done", "pending", "cancel"},
           text \in {"failed", "not_active", "forbidden", "", "already_ended"} :
          cmd' = [cmd EXCEPT ![c] = On(u, r, verb, pc, text)]
  <2>1. PICK u \in Users, r \in Runs, verb \in Verbs \cup {"cancel", "pending"},
             failed \in MayFail, home \in BOOLEAN :
          LET To(pc, text) == cmd' = [cmd EXCEPT ![c] = On(u, r, verb, pc, text)]
          IN  IF failed THEN To("done", "failed")
              ELSE IF row[r].status = "absent" \/ ~home THEN To("done", "not_active")
              ELSE IF ~CanManage(u, r) THEN To("done", "forbidden")
              ELSE IF verb # "cancel" THEN To("pending", "")
              ELSE IF row[r].status = "running" THEN To("cancel", "")
              ELSE To("done", "already_ended")
    BY DEF LoadRun
  <2> HIDE DEF On
  <2>2. \E pc \in {"done", "pending", "cancel"},
           text \in {"failed", "not_active", "forbidden", "", "already_ended"} :
          cmd' = [cmd EXCEPT ![c] = On(u, r, verb, pc, text)]
    BY <2>1
  <2> QED
    BY <2>2
<1>1. PICK pc \in {"done", "pending", "cancel"},
           text \in {"failed", "not_active", "forbidden", "", "already_ended"} :
        cmd' = [cmd EXCEPT ![c] = On(u, r, verb, pc, text)]
  BY <1>0
<1> DEFINE new == On(u, r, verb, pc, text)
<1>2. text \in Replies /\ text # "cancel_requested"
  BY DEF Replies
<1>3. new \in CmdType /\ new.run \in Runs /\ new.reply # "cancel_requested"
  BY <1>2 DEF CmdType
<1>4. cmd' = [cmd EXCEPT ![c] = new] /\ cmd \in [Cmds -> CmdType]
  BY <1>1 DEF TypeOK
<1> HIDE DEF new
<1> QED
  BY <1>3, <1>4

\* RequestCancel marks a run that is still running, and tells so only if it did.
LEMMA RequestCancelTypes ==
  ASSUME TypeOK, NEW c \in Cmds, cmd[c].run \in Runs, RequestCancel(c)
  PROVE  LET r == cmd[c].run IN
         /\ row' \in [Runs -> RowType] /\ cmd' \in [Cmds -> CmdType]
         /\ \/ row' = row /\ cmd'[c].reply # "cancel_requested"
            \/ /\ row[r].status = "running" /\ ~row[r].completed /\ ~row[r].cancelReq
               /\ row'[r].status = row[r].status /\ row'[r].completed = row[r].completed
               /\ row'[r].cancelReq
         /\ \A q \in Runs : q # r => row'[q] = row[q]
         /\ cmd'[c].run = r
         /\ \A d \in Cmds : d # c => cmd'[d] = cmd[d]
<1> DEFINE r == cmd[c].run
           Apply == row' = [row EXCEPT ![r].cancelReq = TRUE]
<1>1. /\ row \in [Runs -> RowType] /\ cmd \in [Cmds -> CmdType]
  BY DEF TypeOK
<1>2. PICK text \in {"cancel_requested", "not_active", "failed"} :
        /\ Reply(c, text)
        /\ text = "cancel_requested" => Cancellable(row[r]) /\ Apply
        /\ UNCHANGED row \/ (Cancellable(row[r]) /\ Apply)
  BY DEF RequestCancel
<1>3. /\ cmd' \in [Cmds -> CmdType] /\ cmd'[c].run = r /\ cmd'[c].reply = text
      /\ \A d \in Cmds : d # c => cmd'[d] = cmd[d]
  <2>1. text \in Replies
    BY DEF Replies
  <2> QED
    BY <1>1, <1>2, <2>1, ReplyFacts
<1>4. CASE UNCHANGED row /\ text # "cancel_requested"
  BY <1>1, <1>3, <1>4
<1>5. CASE Cancellable(row[r]) /\ Apply
  <2> DEFINE new == [row[r] EXCEPT !.cancelReq = TRUE]
  <2>1. /\ new \in RowType /\ new.status = row[r].status
        /\ new.completed = row[r].completed /\ new.cancelReq
    BY <1>1 DEF RowType
  <2>2. row' = [row EXCEPT ![r] = new]
    BY <1>1, <1>5
  <2> HIDE DEF new
  <2> QED
    BY <1>1, <1>3, <1>5, <2>1, <2>2 DEF Cancellable
<1> QED
  BY <1>2, <1>4, <1>5

\* LoadPending keeps the types of the commands.
LEMMA LoadPendingTypes ==
  ASSUME TypeOK, NEW c \in Cmds, LoadPending(c)
  PROVE  /\ cmd' \in [Cmds -> CmdType] /\ cmd'[c].run = cmd[c].run
         /\ cmd'[c].reply # "cancel_requested" \/ cmd'[c].reply = cmd[c].reply
         /\ \A d \in Cmds : d # c => cmd'[d] = cmd[d]
<1>1. CASE \E text \in {"failed", "no_pending", "shown"} : Reply(c, text)
  <2>1. {"failed", "no_pending", "shown"} \subseteq Replies
    BY DEF Replies
  <2> QED
    BY <1>1, <2>1, ReplyFacts DEF TypeOK
<1>2. CASE cmd' = [cmd EXCEPT ![c].pc = "resolve"]
  BY <1>2 DEF TypeOK, CmdType
<1> QED
  BY <1>1, <1>2 DEF LoadPending

\* Resolve keeps the types of the confirmations and the commands.
LEMMA ResolveTypes ==
  ASSUME TypeOK, NEW c \in Cmds, cmd[c].run \in Runs, Resolve(c)
  PROVE  /\ conf' \in [Runs -> ConfType] /\ cmd' \in [Cmds -> CmdType]
         /\ cmd'[c].run = cmd[c].run /\ cmd'[c].reply # "cancel_requested"
         /\ \A d \in Cmds : d # c => cmd'[d] = cmd[d]
<1> DEFINE r == cmd[c].run
           Apply == conf' = [conf EXCEPT ![r] = [@ EXCEPT !.status = Verdict(cmd[c].verb),
                                                          !.by = cmd[c].user]]
<1>1. conf \in [Runs -> ConfType] /\ cmd \in [Cmds -> CmdType]
  BY DEF TypeOK
<1>2. PICK text \in {"confirmed", "canceled", "not_active", "failed"} :
        Reply(c, text) /\ (UNCHANGED conf \/ Apply)
  BY DEF Resolve, Verdict
<1>3. text \in Replies /\ text # "cancel_requested"
  BY DEF Replies
<1>4. CASE Apply
  <2>1. Verdict(cmd[c].verb) \in {"confirmed", "canceled"}
    BY DEF Verdict
  <2>2. cmd[c].user \in Users \cup {"nobody"} /\ conf[r] \in ConfType
    BY <1>1 DEF CmdType
  <2> DEFINE new == [conf[r] EXCEPT !.status = Verdict(cmd[c].verb), !.by = cmd[c].user]
  <2>3. new \in ConfType
    BY <2>1, <2>2 DEF ConfType
  <2>4. conf' = [conf EXCEPT ![r] = new]
    BY <1>4
  <2> HIDE DEF new
  <2> QED
    BY <1>1, <1>2, <1>3, <2>3, <2>4, ReplyFacts
<1>5. CASE UNCHANGED conf
  BY <1>1, <1>2, <1>3, <1>5, ReplyFacts
<1> QED
  BY <1>2, <1>4, <1>5

\* A crash takes the runners and the commands that were under way, and no row.
LEMMA CrashTypes ==
  ASSUME TypeOK, Crash
  PROVE  /\ runner' \in [Runs -> RunnerType] /\ cmd' \in [Cmds -> CmdType]
         /\ crashes' \in Nat
         /\ \A r \in Runs :
              \/ runner'[r] = runner[r] /\ runner[r].pc \in {"idle", "done"}
              \/ GoesOn(r, "dead")
         /\ \A c \in Cmds : cmd'[c].run = cmd[c].run /\ cmd'[c].reply = cmd[c].reply
<1>1. ASSUME NEW r \in Runs
      PROVE  LET new == [runner[r] EXCEPT !.pc = "dead"]
             IN  new \in RunnerType /\ new.pc = "dead" /\ new.status = runner[r].status
  <2>1. runner[r] \in RunnerType
    BY DEF TypeOK
  <2> QED
    BY <2>1 DEF RunnerType
<1>2. ASSUME NEW c \in Cmds
      PROVE  LET new == [cmd[c] EXCEPT !.pc = "dead"]
             IN  new \in CmdType /\ new.run = cmd[c].run /\ new.reply = cmd[c].reply
  <2>1. cmd[c] \in CmdType
    BY DEF TypeOK
  <2> QED
    BY <2>1 DEF CmdType
<1>3. crashes' \in Nat
  BY DEF Crash, TypeOK
<1>4. runner \in [Runs -> RunnerType] /\ cmd \in [Cmds -> CmdType]
  BY DEF TypeOK
<1>5. /\ runner' \in [Runs -> RunnerType]
      /\ \A r \in Runs : \/ runner'[r] = runner[r] /\ runner[r].pc \in {"idle", "done"}
                         \/ GoesOn(r, "dead")
  BY <1>1, <1>4 DEF Crash, GoesOn
<1>6. /\ cmd' \in [Cmds -> CmdType]
      /\ \A c \in Cmds : cmd'[c].run = cmd[c].run /\ cmd'[c].reply = cmd[c].reply
  BY <1>2, <1>4 DEF Crash
<1> QED
  BY <1>3, <1>5, <1>6

-----------------------------------------------------------------------------

\* The types hold initially.
LEMMA InitTypeOK == Init => TypeOK
<1> SUFFICES ASSUME Init
             PROVE  TypeOK
  OBVIOUS
<1>1. {"running", "absent"} \subseteq Status \cup {"absent"} /\ "" \in Reason
      /\ "running" \in Status
  BY DEF Status, Reason
<1>2. NoRow \in RowType
  BY <1>1 DEF NoRow, RowType
<1>3. NoConf \in ConfType
  BY DEF NoConf, ConfType
<1>4. "" \in Replies
  BY DEF Replies
<1>5. IdleCmd \in CmdType
  BY <1>4 DEF IdleCmd, CmdType
<1>6. <<>> \in Plans
  <2>1. <<>> \in [1..0 -> ToolKinds]
    OBVIOUS
  <2>2. 0 \in 0..MaxPlan
    <3>1. MaxPlan \in Nat
      BY RunAssumption
    <3> QED
      BY <3>1
  <2> QED
    BY <2>1, <2>2 DEF Plans
<1>7. IdleRunner \in RunnerType
  <2>1. ASSUME NEW plan \in Plans, NEW s \in Status, NEW t \in Reason
        PROVE  [pc |-> "idle", scope |-> "none", prior |-> FALSE, dry |-> FALSE,
                pack |-> FALSE, offset |-> 0, plan |-> plan, next |-> 1, status |-> s,
                reason |-> t, handled |-> FALSE, hint |-> FALSE] \in RunnerType
    BY DEF RunnerType
  <2> QED
    BY <1>1, <1>6, <2>1 DEF IdleRunner
<1> QED
  BY <1>2, <1>3, <1>5, <1>7 DEF Init, TypeOK

\* A command that is past LoadRun is about one of the runs.
CmdHasRun == \A c \in Cmds : cmd[c].pc \in {"cancel", "pending", "resolve"}
                                => cmd[c].run \in Runs

\* Every step keeps the types.
LEMMA NextTypeOK == TypeOK /\ CmdHasRun /\ [Next]_vars => TypeOK'
<1> SUFFICES ASSUME TypeOK, CmdHasRun, [Next]_vars
             PROVE  TypeOK'
  OBVIOUS
<1> USE DEF Typed
<1>1. ASSUME NEW r \in Runs, Receive(r)
      PROVE  TypeOK'
  BY <1>1, ReceiveTypes DEF Receive, TypeOK
<1>2. ASSUME NEW r \in Runs, StartRun(r)
      PROVE  TypeOK'
  BY <1>2, StartRunTypes DEF StartRun, TypeOK
<1>3. ASSUME NEW r \in Runs, CheckStarted(r)
      PROVE  TypeOK'
  BY <1>3, CheckStartedTypes DEF CheckStarted, TypeOK
<1>4. ASSUME NEW r \in Runs, Route(r)
      PROVE  TypeOK'
  BY <1>4, RouteTypes DEF Route, TypeOK
<1>5. ASSUME NEW r \in Runs, FetchContext(r)
      PROVE  TypeOK'
  BY <1>5, FetchContextTypes DEF FetchContext, TypeOK
<1>6. ASSUME NEW r \in Runs, MakePlan(r)
      PROVE  TypeOK'
  BY <1>6, MakePlanTypes DEF MakePlan, TypeOK
<1>7. ASSUME NEW r \in Runs, CheckTool(r)
      PROVE  TypeOK'
  BY <1>7, CheckToolTypes DEF CheckTool, TypeOK
<1>8. ASSUME NEW r \in Runs, DeferWrite(r)
      PROVE  TypeOK'
  BY <1>8, DeferWriteTypes DEF DeferWrite, TypeOK
<1>9. ASSUME NEW r \in Runs, CreateConfirmation(r)
      PROVE  TypeOK'
  BY <1>9, CreateConfirmationTypes, EffectFacts DEF CreateConfirmation, TypeOK
<1>10. ASSUME NEW r \in Runs, RefuseTool(r)
       PROVE  TypeOK'
  BY <1>10, RefuseToolTypes DEF RefuseTool, TypeOK
<1>11. ASSUME NEW r \in Runs, ExecuteTool(r)
       PROVE  TypeOK'
  BY <1>11, ExecuteToolTypes, EffectFacts DEF ExecuteTool, TypeOK
<1>12. ASSUME NEW r \in Runs, CheckAnswer(r)
       PROVE  TypeOK'
  BY <1>12, CheckAnswerTypes DEF CheckAnswer, TypeOK
<1>13. ASSUME NEW r \in Runs, Answer(r)
       PROVE  TypeOK'
  BY <1>13, AnswerTypes, EffectFacts DEF Answer, TypeOK
<1>14. ASSUME NEW r \in Runs, Complete(r)
       PROVE  TypeOK'
  BY <1>14, CompleteTypes DEF Complete, TypeOK
<1>15. ASSUME NEW c \in Cmds, LoadRun(c)
       PROVE  TypeOK'
  BY <1>15, LoadRunTypes DEF LoadRun, TypeOK
<1>16. CASE Crash
  BY <1>16, CrashTypes DEF Crash, TypeOK
<1>17. ASSUME NEW c \in Cmds, LoadPending(c)
       PROVE  TypeOK'
  BY <1>17, LoadPendingTypes DEF LoadPending, TypeOK
<1>18. ASSUME NEW c \in Cmds, RequestCancel(c)
       PROVE  TypeOK'
  <2>1. cmd[c].run \in Runs
    BY <1>18 DEF CmdHasRun, RequestCancel
  <2> QED
    BY <1>18, <2>1, RequestCancelTypes DEF RequestCancel, TypeOK
<1>19. ASSUME NEW c \in Cmds, Resolve(c)
       PROVE  TypeOK'
  <2>1. cmd[c].run \in Runs
    BY <1>19 DEF CmdHasRun, Resolve
  <2> QED
    BY <1>19, <2>1, ResolveTypes DEF Resolve, TypeOK
<1>20. CASE UNCHANGED vars
  BY <1>20 DEF vars, TypeOK
<1> QED
  BY <1>1, <1>2, <1>3, <1>4, <1>5, <1>6, <1>7, <1>8, <1>9, <1>10, <1>11, <1>12, <1>13,
     <1>14, <1>15, <1>16, <1>17, <1>18, <1>19, <1>20 DEF Next, RunStep, CmdStep

\* Every step keeps CmdHasRun: a command gets its run from LoadRun.
LEMMA NextCmdHasRun == TypeOK /\ CmdHasRun /\ [Next]_vars => CmdHasRun'
<1> SUFFICES ASSUME TypeOK, CmdHasRun, [Next]_vars
             PROVE  CmdHasRun'
  OBVIOUS
<1> USE DEF CmdHasRun
<1>1. CASE UNCHANGED cmd
  BY <1>1
<1>2. ASSUME NEW c \in Cmds, LoadRun(c)
      PROVE  CmdHasRun'
  BY <1>2, LoadRunTypes
<1>3. ASSUME NEW c \in Cmds, CmdStep(c)
      PROVE  CmdHasRun'
  <2>1. cmd[c].run \in Runs
    BY <1>3 DEF CmdStep, RequestCancel, LoadPending, Resolve
  <2>2. /\ cmd'[c].run = cmd[c].run
        /\ \A d \in Cmds : d # c => cmd'[d] = cmd[d]
    BY <1>3, <2>1, RequestCancelTypes, LoadPendingTypes, ResolveTypes DEF CmdStep
  <2> QED
    BY <2>1, <2>2
<1>4. CASE Crash
  <2>1. \A c \in Cmds : cmd'[c].pc \in {"cancel", "pending", "resolve"} => cmd'[c] = cmd[c]
    BY <1>4 DEF Crash, TypeOK, CmdType
  <2> QED
    BY <2>1
<1>5. ASSUME NEW r \in Runs, Receive(r) \/ RunStep(r)
      PROVE  UNCHANGED cmd
  BY <1>5 DEF Receive, RunStep, StartRun, CheckStarted, Route, FetchContext, MakePlan,
              CheckTool, DeferWrite, CreateConfirmation, RefuseTool, ExecuteTool,
              CheckAnswer, Answer, Complete
<1>6. CASE UNCHANGED vars
  BY <1>6 DEF vars
<1> QED
  BY <1>1, <1>2, <1>3, <1>4, <1>5, <1>6 DEF Next

\* Every variable keeps its type, so that no statement writes a status, a reason
\* or a confirmation outcome the readers of the tables do not know.
THEOREM TypeCorrect == Spec => []TypeOK
<1>1. Init => TypeOK /\ CmdHasRun
  <2>1. Init => CmdHasRun
    <3>1. IdleCmd.pc = "idle"
      BY DEF IdleCmd
    <3> QED
      BY <3>1 DEF Init, CmdHasRun
  <2> QED
    BY <2>1, InitTypeOK
<1>2. TypeOK /\ CmdHasRun /\ [Next]_vars => (TypeOK /\ CmdHasRun)'
  BY NextTypeOK, NextCmdHasRun
<1> QED
  BY <1>1, <1>2, PTL DEF Spec

-----------------------------------------------------------------------------
(* The life cycle invariant.                                               *)

\* A step of runner r leaves what RunConsistent reads of the other runs alone.
RestKept(r) ==
    \A q \in Runs : q # r =>
        /\ row'[q].status = row[q].status
        /\ row'[q].cancelReq = row[q].cancelReq
        /\ row'[q].completed = row[q].completed
        /\ runner'[q] = runner[q] /\ late'[q] = late[q]

\* What a step of runner r has to be shown to do.
KeepsRun(r) == RunConsistent(r)' /\ RestKept(r) /\ (row[r].cancelReq => row'[r].cancelReq)

\* The invariant of the life cycle holds initially.
LEMMA InitLifecycle == Init => LifecycleInv
<1> SUFFICES ASSUME Init
             PROVE  LifecycleInv
  OBVIOUS
<1>1. /\ NoRow.status = "absent" /\ ~NoRow.cancelReq /\ ~NoRow.completed
      /\ IdleRunner.pc = "idle" /\ IdleRunner.status = "running" /\ IdleCmd.reply = ""
  BY DEF NoRow, IdleRunner, IdleCmd
<1>2. ASSUME NEW r \in Runs
      PROVE  RunConsistent(r)
  <2>1. row[r] = NoRow /\ runner[r] = IdleRunner /\ late[r] = 0
    BY DEF Init
  <2>2. /\ row[r].status = "absent" /\ ~row[r].cancelReq /\ ~row[r].completed
        /\ runner[r].pc = "idle" /\ runner[r].status = "running"
    BY <1>1, <2>1
  <2>3. "idle" \notin Underway
    BY DEF Underway
  <2> QED
    BY <2>1, <2>2, <2>3 DEF RunConsistent, At
<1>3. \A c \in Cmds : cmd[c].reply # "cancel_requested"
  BY <1>1 DEF Init
<1> QED
  BY <1>2, <1>3, InitTypeOK DEF LifecycleInv

\* A step that only moves the runner on, or to the end of the run.
LEMMA Moves ==
  ASSUME TypeOK, TypeOK', LifecycleInv, NEW r \in Runs, OthersKept(r), RowsKept,
         runner[r].pc \in Underway \ {"start"}, UNCHANGED late,
         \/ \E pc \in Underway \ {"start", "complete", "write", "confirm", "read", "answer"} :
              GoesOn(r, pc)
         \/ /\ \E pc \in {"write", "confirm", "read", "answer"} : GoesOn(r, pc)
            /\ ~IsCanceled(r) \/ runner[r].pc = "write"
         \/ EndsWith(r, Status \ {"running", "canceled"})
         \/ EndsWith(r, {"canceled"}) /\ IsCanceled(r)
  PROVE  KeepsRun(r)
<1>1. RunConsistent(r) /\ late[r] \in Nat
  BY DEF LifecycleInv, TypeOK
<1>2. /\ row'[r].status = row[r].status /\ row'[r].cancelReq = row[r].cancelReq
      /\ row'[r].completed = row[r].completed /\ late'[r] = late[r]
  BY DEF RowsKept
<1>3. RestKept(r)
  BY DEF RestKept, RowsKept, OthersKept
<1>4. row[r].status = "running" /\ ~row[r].completed
  <2>1. runner[r].pc \in Underway \ {"start"}
    BY DEF Underway
  <2>2. row[r].status = "running"
    BY <1>1, <2>1 DEF RunConsistent
  <2>3. row[r].completed => row[r].status \notin {"absent", "running"}
    BY <1>1 DEF RunConsistent
  <2> QED
    BY <2>2, <2>3
<1>5. RunConsistent(r)'
  <2>1. CASE EndsWith(r, Status \ {"running", "canceled"})
    BY <1>1, <1>2, <1>4, <2>1 DEF RunConsistent, At, EndsWith
  <2>2. CASE EndsWith(r, {"canceled"}) /\ IsCanceled(r)
    BY <1>1, <1>2, <1>4, <2>2 DEF RunConsistent, At, EndsWith, IsCanceled
  <2>3. CASE \E pc \in Underway \ {"start", "complete", "write", "confirm", "read", "answer"} :
               GoesOn(r, pc)
    BY <1>1, <1>2, <1>4, <2>3 DEF RunConsistent, At, GoesOn, Underway
  <2>4. CASE /\ \E pc \in {"write", "confirm", "read", "answer"} : GoesOn(r, pc)
             /\ ~IsCanceled(r) \/ runner[r].pc = "write"
    <3>1. late[r] = 0
      BY <1>1, <2>4 DEF RunConsistent, IsCanceled
    <3> QED
      BY <1>1, <1>2, <1>4, <2>4, <3>1 DEF RunConsistent, At, GoesOn, Underway
  <2> QED
    BY <2>1, <2>2, <2>3, <2>4
<1> QED
  BY <1>2, <1>3, <1>5 DEF KeepsRun

\* A step with an effect: it is late at most once, because the runner is past
\* the check that found no cancellation.
LEMMA Effects ==
  ASSUME TypeOK, TypeOK', LifecycleInv, NEW r \in Runs, OthersKept(r), RowsKept,
         runner[r].pc \in {"confirm", "read", "answer"}, Effect(r),
         \/ GoesOn(r, "tool")
         \/ EndsWith(r, Status \ {"running", "canceled"})
  PROVE  KeepsRun(r)
<1>1. RunConsistent(r)
  BY DEF LifecycleInv
<1>2. /\ row'[r].status = row[r].status /\ row'[r].cancelReq = row[r].cancelReq
      /\ row'[r].completed = row[r].completed
  BY DEF RowsKept
<1>3. RestKept(r)
  BY EffectFacts DEF RestKept, RowsKept, OthersKept
<1>4. row[r].status = "running" /\ ~row[r].completed
  <2>1. runner[r].pc \in Underway \ {"start"}
    BY DEF Underway
  <2>2. row[r].status = "running"
    BY <1>1, <2>1 DEF RunConsistent
  <2>3. row[r].completed => row[r].status \notin {"absent", "running"}
    BY <1>1 DEF RunConsistent
  <2> QED
    BY <2>2, <2>3
<1>5. late[r] = 0
  <2>1. late[r] \in Nat /\ ~(late[r] > 0)
    BY <1>1 DEF RunConsistent, TypeOK
  <2> QED
    BY <2>1
<1>6. late'[r] = IF row[r].cancelReq THEN 1 ELSE 0
  BY <1>5, EffectFacts
<1>7. RunConsistent(r)'
  <2>1. CASE EndsWith(r, Status \ {"running", "canceled"})
    BY <1>1, <1>2, <1>4, <1>6, <2>1 DEF RunConsistent, At, EndsWith
  <2>2. CASE GoesOn(r, "tool")
    BY <1>1, <1>2, <1>4, <1>6, <2>2 DEF RunConsistent, At, GoesOn, Underway
  <2> QED
    BY <2>1, <2>2
<1> QED
  BY <1>2, <1>3, <1>7 DEF KeepsRun

\* Every step of a runner keeps its run consistent.
LEMMA RunnerStepKeeps ==
  ASSUME TypeOK, TypeOK', LifecycleInv, NEW r \in Runs, Receive(r) \/ RunStep(r)
  PROVE  KeepsRun(r)
<1> DEFINE Ok == Status \ {"running", "canceled"}
<1>1. /\ {"failed", "denied", "succeeded", "dry_run", "confirmation_required"} \subseteq Ok
      /\ GivesUp \subseteq Ok
      /\ {"route", "context", "plan", "tool"} \subseteq
           Underway \ {"start", "complete", "write", "confirm", "read", "answer"}
      /\ {"check", "route", "context", "plan", "tool", "write", "confirm", "read",
          "answer", "complete"} \subseteq Underway \ {"start"}
  BY DEF Status, GivesUp, Underway
<1>2. \A S \in SUBSET Ok : EndsWith(r, S) => EndsWith(r, Ok)
  BY DEF EndsWith
<1> HIDE DEF Ok
<1>3. CASE CheckStarted(r)
  BY <1>1, <1>2, <1>3, CheckStartedTypes, Moves DEF CheckStarted, At, Ok
<1>4. CASE Route(r)
  BY <1>1, <1>2, <1>4, RouteTypes, Moves DEF Route, At, Ok
<1>5. CASE FetchContext(r)
  BY <1>1, <1>2, <1>5, FetchContextTypes, Moves DEF FetchContext, At, Ok
<1>6. CASE MakePlan(r)
  BY <1>1, <1>2, <1>6, MakePlanTypes, Moves DEF MakePlan, At, Ok
<1>7. CASE CheckTool(r)
  BY <1>1, <1>2, <1>7, CheckToolTypes, Moves DEF CheckTool, At, Ok
<1>8. CASE DeferWrite(r)
  BY <1>1, <1>8, DeferWriteTypes, Moves DEF DeferWrite, At, Ok
<1>9. CASE RefuseTool(r)
  BY <1>1, <1>2, <1>9, RefuseToolTypes, Moves DEF RefuseTool, At, Ok
<1>10. CASE CheckAnswer(r)
  BY <1>1, <1>2, <1>10, CheckAnswerTypes, Moves DEF CheckAnswer, At, Ok
<1>11. CASE CreateConfirmation(r)
  BY <1>1, <1>2, <1>11, CreateConfirmationTypes, Effects DEF CreateConfirmation, At, Ok
<1>12. CASE ExecuteTool(r)
  BY <1>1, <1>2, <1>12, ExecuteToolTypes, Effects DEF ExecuteTool, At, Ok
<1>13. CASE Answer(r)
  BY <1>1, <1>2, <1>13, AnswerTypes, Effects DEF Answer, At, Ok
<1>14. RunConsistent(r) /\ row[r] \in RowType /\ runner[r] \in RunnerType
  BY DEF LifecycleInv, TypeOK
<1>15. CASE Receive(r)
  <2>1. /\ row[r].status = "absent" /\ UNCHANGED <<row, late>>
        /\ GoesOn(r, "start") \/ GoesOn(r, "done")
        /\ OthersKept(r)
    BY <1>14, <1>15, ReceiveTypes DEF Receive, RunConsistent, At
  <2>2. "done" \notin Underway
    BY DEF Underway
  <2>3. RunConsistent(r)'
    BY <1>14, <2>1, <2>2 DEF RunConsistent, At, GoesOn
  <2> QED
    BY <2>1, <2>3 DEF KeepsRun, RestKept, OthersKept
<1>16. CASE StartRun(r)
  <2>1. /\ row[r].status = "absent" /\ UNCHANGED late
        /\ ~row[r].cancelReq /\ ~row[r].completed
    BY <1>14, <1>16 DEF StartRun, RunConsistent, At
  <2>2. /\ Started(row[r]).status = "running"
        /\ ~Started(row[r]).cancelReq /\ ~Started(row[r]).completed
    BY <1>14, <2>1, StartedFacts
  <2>3. /\ \/ runner'[r].pc = "done" /\ row'[r] = row[r]
           \/ runner'[r].pc \in {"check", "done"} /\ row'[r] = Started(row[r])
        /\ runner'[r].status = runner[r].status
        /\ \A q \in Runs : q # r => runner'[q] = runner[q] /\ row'[q] = row[q]
    BY <1>16, StartRunTypes
  <2>4. "done" \notin Underway
    BY DEF Underway
  <2>5. RunConsistent(r)'
    BY <1>14, <2>1, <2>2, <2>3, <2>4 DEF RunConsistent, At
  <2> QED
    BY <2>1, <2>3, <2>5 DEF KeepsRun, RestKept
<1>17. CASE Complete(r)
  <2>1. /\ row[r].status = "running" /\ ~row[r].completed /\ UNCHANGED late
        /\ runner[r].status # "running"
    BY <1>1, <1>14, <1>17 DEF Complete, RunConsistent, At
  <2>2. runner[r].status \in Status /\ runner[r].reason \in Reason
    BY <1>14 DEF RunnerType
  <2> DEFINE new == Completed(row[r], runner[r].status, runner[r].reason)
  <2>3. /\ new.completed /\ new.cancelReq = row[r].cancelReq
        /\ row[r].cancelReq => new.status = "canceled"
        /\ ~row[r].cancelReq => new.status = runner[r].status
    BY <1>14, <2>1, <2>2, CompletedFacts
  <2>4. /\ row' = [row EXCEPT ![r] = new] \/ row' = row
        /\ GoesOn(r, "done") /\ OthersKept(r)
    BY <1>17, CompleteTypes
  <2>5. row \in [Runs -> RowType]
    BY DEF TypeOK
  <2> HIDE DEF new
  <2>6. /\ row'[r] = new \/ row'[r] = row[r]
        /\ \A q \in Runs : q # r => row'[q] = row[q]
    BY <2>4, <2>5
  <2>7. "done" \notin Underway /\ "absent" \notin Status
    BY DEF Underway, Status
  <2>8. RunConsistent(r)'
    BY <1>14, <2>1, <2>2, <2>3, <2>4, <2>6, <2>7 DEF RunConsistent, At, GoesOn
  <2> QED
    BY <2>1, <2>3, <2>4, <2>6, <2>8 DEF KeepsRun, RestKept, OthersKept
<1> QED
  BY <1>3, <1>4, <1>5, <1>6, <1>7, <1>8, <1>9, <1>10, <1>11, <1>12, <1>13, <1>15, <1>16,
     <1>17 DEF RunStep

\* Every step keeps the invariant of the life cycle.
LEMMA NextLifecycle ==
  ASSUME TypeOK, TypeOK', CmdHasRun, LifecycleInv, [Next]_vars
  PROVE  LifecycleInv'
<1>1. ASSUME NEW r \in Runs, Receive(r) \/ RunStep(r)
      PROVE  LifecycleInv'
  <2>1. KeepsRun(r)
    BY <1>1, RunnerStepKeeps
  <2>2. UNCHANGED cmd
    BY <1>1 DEF Receive, RunStep, StartRun, CheckStarted, Route, FetchContext, MakePlan,
                CheckTool, DeferWrite, CreateConfirmation, RefuseTool, ExecuteTool,
                CheckAnswer, Answer, Complete
  <2>3. ASSUME NEW q \in Runs, q # r
        PROVE  RunConsistent(q)' /\ row'[q].cancelReq = row[q].cancelReq
    BY <2>1, <2>3 DEF KeepsRun, RestKept, LifecycleInv, RunConsistent, At
  <2> QED
    BY <2>1, <2>2, <2>3 DEF KeepsRun, LifecycleInv
<1>2. ASSUME NEW c \in Cmds, RequestCancel(c)
      PROVE  LifecycleInv'
  <2>1. cmd[c].run \in Runs
    BY <1>2 DEF CmdHasRun, RequestCancel
  <2> DEFINE r == cmd[c].run
  <2>2. /\ \/ row' = row /\ cmd'[c].reply # "cancel_requested"
           \/ /\ row[r].status = "running" /\ ~row[r].completed /\ ~row[r].cancelReq
              /\ row'[r].status = row[r].status /\ row'[r].completed = row[r].completed
              /\ row'[r].cancelReq
        /\ \A q \in Runs : q # r => row'[q] = row[q]
        /\ cmd'[c].run = r
        /\ \A d \in Cmds : d # c => cmd'[d] = cmd[d]
    BY <1>2, <2>1, RequestCancelTypes
  <2>3. UNCHANGED <<runner, late>>
    BY <1>2 DEF RequestCancel
  <2> HIDE DEF r
  <2>4. ASSUME NEW q \in Runs
        PROVE  RunConsistent(q)'
    BY <2>2, <2>3 DEF LifecycleInv, RunConsistent, At
  <2>5. r \in Runs
    BY <2>1 DEF r
  <2>6. \A q \in Runs : row[q].cancelReq => row'[q].cancelReq
    BY <2>2
  <2>7. ASSUME NEW d \in Cmds, cmd'[d].reply = "cancel_requested"
        PROVE  cmd'[d].run \in Runs /\ row'[cmd'[d].run].cancelReq
    <3>1. CASE d = c
      BY <2>2, <2>5, <2>7, <3>1
    <3>2. CASE d # c
      <4>1. cmd'[d] = cmd[d]
        BY <2>2, <3>2
      <4>2. cmd[d].run \in Runs /\ row[cmd[d].run].cancelReq
        BY <2>7, <4>1 DEF LifecycleInv
      <4> QED
        BY <2>6, <4>1, <4>2
    <3> QED
      BY <3>1, <3>2
  <2> QED
    BY <2>4, <2>7 DEF LifecycleInv
<1>3. ASSUME NEW c \in Cmds, LoadRun(c) \/ LoadPending(c) \/ Resolve(c)
      PROVE  LifecycleInv'
  <2>1. /\ UNCHANGED <<row, runner, late>>
        /\ \A q \in Runs : RunConsistent(q)' <=> RunConsistent(q)
    BY <1>3 DEF LoadRun, LoadPending, Resolve, RunConsistent, At
  <2>2. /\ \A d \in Cmds : d # c => cmd'[d] = cmd[d]
        /\ cmd'[c].reply = "cancel_requested" =>
             cmd'[c].reply = cmd[c].reply /\ cmd'[c].run = cmd[c].run
    <3>1. CASE LoadRun(c)
      BY <3>1, LoadRunTypes
    <3>2. CASE LoadPending(c)
      BY <3>2, LoadPendingTypes
    <3>3. CASE Resolve(c)
      BY <3>3, ResolveTypes DEF CmdHasRun, Resolve
    <3> QED
      BY <1>3, <3>1, <3>2, <3>3
  <2> QED
    BY <2>1, <2>2 DEF LifecycleInv
<1>4. CASE Crash
  <2>1. UNCHANGED <<row, late>>
    BY <1>4 DEF Crash
  <2>2. "dead" \notin Underway
    BY DEF Underway
  <2>3. ASSUME NEW r \in Runs
        PROVE  RunConsistent(r)'
    <3>1. RunConsistent(r)
      BY DEF LifecycleInv
    <3>2. CASE runner'[r] = runner[r]
      BY <2>1, <3>1, <3>2 DEF RunConsistent, At
    <3>3. CASE GoesOn(r, "dead") /\ runner[r].pc # "done"
      BY <2>1, <2>2, <3>1, <3>3 DEF RunConsistent, At, GoesOn
    <3>4. runner'[r] = runner[r] \/ (GoesOn(r, "dead") /\ runner[r].pc # "done")
      BY <1>4, CrashTypes DEF Crash
    <3> QED
      BY <3>2, <3>3, <3>4
  <2> QED
    BY <1>4, <2>1, <2>3, CrashTypes DEF LifecycleInv
<1>5. CASE UNCHANGED vars
  BY <1>5 DEF vars, LifecycleInv, RunConsistent, At
<1> QED
  BY <1>1, <1>2, <1>3, <1>4, <1>5 DEF Next, CmdStep

\* The three inductive invariants, together.
LEMMA Invariants == Spec => [](TypeOK /\ CmdHasRun /\ LifecycleInv)
<1>1. Init => TypeOK /\ CmdHasRun /\ LifecycleInv
  <2>1. Init => CmdHasRun
    <3>1. IdleCmd.pc = "idle"
      BY DEF IdleCmd
    <3> QED
      BY <3>1 DEF Init, CmdHasRun
  <2> QED
    BY <2>1, InitTypeOK, InitLifecycle
<1>2. TypeOK /\ CmdHasRun /\ LifecycleInv /\ [Next]_vars
        => (TypeOK /\ CmdHasRun /\ LifecycleInv)'
  BY NextTypeOK, NextCmdHasRun, NextLifecycle
<1> QED
  BY <1>1, <1>2, PTL DEF Spec

\* The row of a run, its runner and its late effects stay consistent: the
\* inductive invariant behind the theorems that follow.
THEOREM LifecycleCorrect == Spec => []LifecycleInv
BY Invariants, PTL

\* A cancellation RequestCancelRun accepted is not overwritten by CompleteRun,
\* whatever the runner does meanwhile, on however many runs and commands.
THEOREM CancelWinsAlways == Spec => []CancelWins
<1>1. LifecycleInv => CancelWins
  BY DEF LifecycleInv, RunConsistent, CancelWins
<1> QED
  BY <1>1, LifecycleCorrect, PTL

\* The executor's cancellation checks let at most one effect through after a
\* cancellation was accepted, for plans of any length.
THEOREM LateEffectsBounded == Spec => []AtMostOneLateEffect
<1>1. LifecycleInv => AtMostOneLateEffect
  BY DEF LifecycleInv, RunConsistent, AtMostOneLateEffect
<1> QED
  BY <1>1, LifecycleCorrect, PTL

-----------------------------------------------------------------------------
(* The rows as their readers see them change.                              *)

\* A runner never changes the row of another run.
LEMMA OtherRows ==
  ASSUME TypeOK, NEW r \in Runs, Receive(r) \/ RunStep(r)
  PROVE  \A q \in Runs : q # r => row'[q] = row[q]
<1>1. ASSUME NEW i, NEW kind, Record(r, i, kind)
      PROVE  \A q \in Runs : q # r => row'[q] = row[q]
  BY <1>1 DEF Record, TypeOK
<1>2. CASE StartRun(r)
  BY <1>2, StartRunTypes
<1>3. CASE Complete(r)
  BY <1>3 DEF Complete, TypeOK
<1>4. CASE Receive(r) \/ CheckStarted(r)
  BY <1>4 DEF Receive, CheckStarted
<1>5. CASE Route(r) \/ FetchContext(r) \/ MakePlan(r)
  BY <1>1, <1>5 DEF Route, FetchContext, MakePlan
<1>6. CASE CheckTool(r) \/ DeferWrite(r) \/ CreateConfirmation(r) \/ RefuseTool(r)
  BY <1>1, <1>6 DEF CheckTool, DeferWrite, CreateConfirmation, RefuseTool
<1>7. CASE ExecuteTool(r) \/ CheckAnswer(r) \/ Answer(r)
  BY <1>1, <1>7 DEF ExecuteTool, CheckAnswer, Answer
<1> QED
  BY <1>2, <1>3, <1>4, <1>5, <1>6, <1>7 DEF RunStep

\* A command changes at most one row, of a run that is still running, and only asks it
\* to stop.
LEMMA CommandRows ==
  ASSUME TypeOK, CmdHasRun, NEW c \in Cmds, LoadRun(c) \/ CmdStep(c)
  PROVE  \/ row' = row
         \/ \E r \in Runs :
              /\ row[r].status = "running" /\ ~row[r].completed /\ ~row[r].cancelReq
              /\ row'[r].status = row[r].status /\ row'[r].completed = row[r].completed
              /\ row'[r].cancelReq
              /\ \A q \in Runs : q # r => row'[q] = row[q]
<1>1. CASE LoadRun(c) \/ LoadPending(c) \/ Resolve(c)
  BY <1>1 DEF LoadRun, LoadPending, Resolve
<1>2. CASE RequestCancel(c)
  <2>1. cmd[c].run \in Runs
    BY <1>2 DEF CmdHasRun, RequestCancel
  <2> QED
    BY <1>2, <2>1, RequestCancelTypes
<1> QED
  BY <1>1, <1>2 DEF CmdStep

\* No step changes a row that is complete.
LEMMA FinishedStep ==
  ASSUME TypeOK, CmdHasRun, LifecycleInv, [Next]_vars, NEW r \in Runs, row[r].completed
  PROVE  row'[r] = row[r]
<1>1. ASSUME NEW q \in Runs, Receive(q) \/ RunStep(q)
      PROVE  row'[r] = row[r]
  <2>1. CASE q # r
    BY <1>1, <2>1, OtherRows
  <2>2. CASE q = r
    <3>1. runner[r].pc = "done"
      BY DEF LifecycleInv, RunConsistent, At
    <3> QED
      BY <1>1, <2>2, <3>1 DEF At, Receive, RunStep, StartRun, CheckStarted, Route,
           FetchContext, MakePlan, CheckTool, DeferWrite, CreateConfirmation, RefuseTool,
           ExecuteTool, CheckAnswer, Answer, Complete
  <2> QED
    BY <2>1, <2>2
<1>2. ASSUME NEW c \in Cmds, LoadRun(c) \/ CmdStep(c)
      PROVE  row'[r] = row[r]
  BY <1>2, CommandRows
<1>3. CASE Crash
  BY <1>3 DEF Crash
<1>4. CASE UNCHANGED vars
  BY <1>4 DEF vars
<1> QED
  BY <1>1, <1>2, <1>3, <1>4 DEF Next

\* Nothing reopens, cancels or charges a run that is complete.
THEOREM FinishedStaysFinal == Spec => FinishedIsFinal
<1>1. TypeOK /\ CmdHasRun /\ LifecycleInv /\ [Next]_vars
        => [\A r \in Runs : row[r].completed => row'[r] = row[r]]_vars
  BY FinishedStep
<1> QED
  BY <1>1, Invariants, PTL DEF Spec, FinishedIsFinal

-----------------------------------------------------------------------------
(* The refinement of RunLifecycle.                                         *)

\* A change of one phase is a move of the abstract life cycle.
LEMMA PhaseMove ==
  ASSUME NEW r \in Runs, NEW from, NEW to,
         PhaseOf(r) = from, PhaseOf(r)' = to,
         \A q \in Runs : q # r => PhaseOf(q)' = PhaseOf(q)
  PROVE  Lifecycle!Move(r, from, to)
BY DEF Lifecycle!Move

\* A step that changes no phase is a stutter of it.
LEMMA PhaseStays ==
  ASSUME \A q \in Runs : PhaseOf(q)' = PhaseOf(q)
  PROVE  UNCHANGED Lifecycle!vars
BY DEF Lifecycle!vars

\* Every step of a runner is a step of the abstract life cycle, or a stutter.
LEMMA RunnerPhase ==
  ASSUME TypeOK, TypeOK', LifecycleInv, LifecycleInv', NEW r \in Runs,
         Receive(r) \/ RunStep(r)
  PROVE  [Lifecycle!Next]_(Lifecycle!vars)
<1>1. \A q \in Runs : q # r => PhaseOf(q)' = PhaseOf(q)
  BY OtherRows DEF PhaseOf
<1>2. RunConsistent(r) /\ RunConsistent(r)'
  BY DEF LifecycleInv
<1>3. CASE RowsKept
  <2>1. PhaseOf(r)' = PhaseOf(r)
    BY <1>3 DEF RowsKept, PhaseOf
  <2> QED
    BY <1>1, <2>1, PhaseStays
<1>4. CASE Receive(r)
  BY <1>3, <1>4 DEF Receive, RowsKept
<1>5. CASE StartRun(r)
  <2>1. /\ row[r].status = "absent" /\ row[r] \in RowType
        /\ ~row[r].cancelReq /\ ~row[r].completed
    BY <1>2, <1>5 DEF StartRun, RunConsistent, At, TypeOK
  <2>2. \/ row'[r] = row[r]
        \/ /\ row'[r].status = "running"
           /\ ~row'[r].cancelReq /\ ~row'[r].completed
    BY <1>5, <2>1, StartRunTypes, StartedFacts
  <2>3. CASE row'[r] = row[r]
    BY <1>1, <2>3, PhaseStays DEF PhaseOf
  <2>4. CASE row'[r].status = "running" /\ ~row'[r].cancelReq /\ ~row'[r].completed
    <3>1. PhaseOf(r) = "none" /\ PhaseOf(r)' = "running"
      BY <2>1, <2>4 DEF PhaseOf
    <3> QED
      BY <1>1, <3>1, PhaseMove DEF Lifecycle!Next, Lifecycle!Start
  <2> QED
    BY <2>2, <2>3, <2>4
<1>6. CASE Complete(r)
  <2>1. /\ row[r].status = "running" /\ ~row[r].completed
        /\ row[r] \in RowType /\ runner[r] \in RunnerType
    BY <1>2, <1>6 DEF Complete, RunConsistent, At, Underway, TypeOK
  <2>2. runner[r].status \in Status /\ runner[r].reason \in Reason
    BY <2>1 DEF RunnerType
  <2> DEFINE new == Completed(row[r], runner[r].status, runner[r].reason)
  <2>3. new.completed /\ new.cancelReq = row[r].cancelReq
    BY <2>1, <2>2, CompletedFacts
  <2>4. row'[r] = new \/ row' = row
    BY <1>6 DEF Complete, TypeOK
  <2> HIDE DEF new
  <2>5. CASE row' = row
    BY <1>1, <2>5, PhaseStays DEF PhaseOf
  <2>6. CASE row'[r] = new
    <3>1. /\ row'[r].completed /\ row'[r].status \notin {"absent", "running"}
          /\ row[r].cancelReq <=> (row'[r].status = "canceled")
      BY <1>2, <2>3, <2>6 DEF RunConsistent
    <3>2. row'[r].status \in Status
      BY <3>1 DEF TypeOK, RowType
    <3>3. CASE row[r].cancelReq
      <4>1. PhaseOf(r) = "cancelling" /\ PhaseOf(r)' = "canceled"
        BY <2>1, <3>1, <3>3 DEF PhaseOf
      <4> QED
        BY <1>1, <4>1, PhaseMove DEF Lifecycle!Next, Lifecycle!EndCanceled
    <3>4. CASE ~row[r].cancelReq
      <4>1. PhaseOf(r) = "running" /\ PhaseOf(r)' = row'[r].status
        BY <2>1, <3>1, <3>4 DEF PhaseOf
      <4>2. row'[r].status \in Lifecycle!Outcome
        BY <3>1, <3>2, <3>4 DEF Lifecycle!Outcome, Status
      <4> QED
        BY <1>1, <4>1, <4>2, PhaseMove DEF Lifecycle!Next, Lifecycle!End
    <3> QED
      BY <3>3, <3>4
  <2> QED
    BY <2>4, <2>5, <2>6
<1>7. CASE CheckStarted(r) \/ Route(r) \/ FetchContext(r) \/ MakePlan(r)
  BY <1>3, <1>7, CheckStartedTypes, RouteTypes, FetchContextTypes, MakePlanTypes
<1>8. CASE CheckTool(r) \/ DeferWrite(r) \/ CreateConfirmation(r) \/ RefuseTool(r)
  BY <1>3, <1>8, CheckToolTypes, DeferWriteTypes, CreateConfirmationTypes, RefuseToolTypes
<1>9. CASE ExecuteTool(r) \/ CheckAnswer(r) \/ Answer(r)
  BY <1>3, <1>9, ExecuteToolTypes, CheckAnswerTypes, AnswerTypes
<1> QED
  BY <1>3, <1>4, <1>5, <1>6, <1>7, <1>8, <1>9 DEF RunStep

\* So is every step of a command.
LEMMA CommandPhase ==
  ASSUME TypeOK, CmdHasRun, NEW c \in Cmds, LoadRun(c) \/ CmdStep(c)
  PROVE  [Lifecycle!Next]_(Lifecycle!vars)
<1>1. CASE row' = row
  BY <1>1, PhaseStays DEF PhaseOf
<1>2. CASE \E r \in Runs :
             /\ row[r].status = "running" /\ ~row[r].completed /\ ~row[r].cancelReq
             /\ row'[r].status = row[r].status /\ row'[r].completed = row[r].completed
             /\ row'[r].cancelReq
             /\ \A q \in Runs : q # r => row'[q] = row[q]
  <2>1. PICK r \in Runs :
             /\ row[r].status = "running" /\ ~row[r].completed /\ ~row[r].cancelReq
             /\ row'[r].status = row[r].status /\ row'[r].completed = row[r].completed
             /\ row'[r].cancelReq
             /\ \A q \in Runs : q # r => row'[q] = row[q]
    BY <1>2
  <2>2. PhaseOf(r) = "running" /\ PhaseOf(r)' = "cancelling"
    BY <2>1 DEF PhaseOf
  <2>3. \A q \in Runs : q # r => PhaseOf(q)' = PhaseOf(q)
    BY <2>1 DEF PhaseOf
  <2> QED
    BY <2>2, <2>3, PhaseMove DEF Lifecycle!Next, Lifecycle!RequestCancel
<1> QED
  BY <1>1, <1>2, CommandRows

\* The agent_runs rows implement the life cycle of RunLifecycle: a run is started
\* once, ends once, and ends as "canceled" exactly when it was asked to.
THEOREM RefinementHolds == Spec => RefinesLifecycle
<1>1. Init => Lifecycle!Init
  <2>1. NoRow.status = "absent"
    BY DEF NoRow
  <2> QED
    BY <2>1 DEF Init, Lifecycle!Init, PhaseOf
<1>2. TypeOK /\ TypeOK' /\ CmdHasRun /\ LifecycleInv /\ LifecycleInv' /\ [Next]_vars
        => [Lifecycle!Next]_(Lifecycle!vars)
  <2> SUFFICES ASSUME TypeOK, TypeOK', CmdHasRun, LifecycleInv, LifecycleInv', [Next]_vars
               PROVE  [Lifecycle!Next]_(Lifecycle!vars)
    OBVIOUS
  <2>1. CASE Crash \/ UNCHANGED vars
    BY <2>1, PhaseStays DEF Crash, vars, PhaseOf
  <2> QED
    BY <2>1, RunnerPhase, CommandPhase DEF Next
<1> QED
  BY <1>1, <1>2, Invariants, PTL DEF Spec, RefinesLifecycle, Lifecycle!Spec

-----------------------------------------------------------------------------
(* Every plan of the deployed planners is safe, for any tools and outputs.  *)

\* The calls of a memory plan are one call of a memory tool.
LEMMA MemoryCallShape ==
  ASSUME NEW request, NEW p
  PROVE  LET calls == MemoryCall(request, p)
         IN  \/ calls = <<>>
             \/ Len(calls) = 1 /\ DOMAIN calls = {1} /\ calls[1].tool \in MemoryTools
  BY DEF MemoryCall, MemoryTools

\* parseLLMPlan returns safe plans only.
LEMMA ParsedIsSafe ==
  ASSUME NEW output, ParsePlan(output).is = "plan",
         NEW Calls, output.proposal.calls \in Seq(Calls)
  PROVE  PlanIsSafe(ParsePlan(output).plan)
<1> DEFINE p == output.proposal
           calls == Considered(p.calls)
           plan == ParsePlan(output).plan
<1>1. calls \in Seq(Calls) /\ Len(calls) <= MaxPlanned
  BY ToolAssumption DEF Considered
<1>2. calls = <<>> => p.calls = <<>>
  <2> DEFINE n == IF Len(p.calls) < MaxPlanned THEN Len(p.calls) ELSE MaxPlanned
  <2>1. n \in Nat /\ n <= Len(p.calls) /\ (Len(p.calls) # 0 => n # 0)
    BY ToolAssumption
  <2>2. Len(SubSeq(p.calls, 1, n)) = n
    BY <2>1
  <2>3. calls = SubSeq(p.calls, 1, n)
    BY DEF Considered
  <2>4. Len(<<>>) = 0
    OBVIOUS
  <2>5. calls = <<>> => Len(p.calls) = 0
    BY <2>1, <2>2, <2>3, <2>4
  <2> QED BY <2>5
<1>3. ~Rejected(p) /\ Known(calls)
  BY DEF ParsePlan, NoPlan, Planned
<1>4. /\ plan.calls = calls
      /\ plan.question = DirectResponse(p)
      /\ plan.confirm = (p.confirm \/ HasWrite(calls))
      /\ calls = <<>> => plan.intent = p.intent
  BY <1>3 DEF ParsePlan, NoPlan, Planned
<1>5. ASSUME NEW i \in DOMAIN plan.calls
      PROVE  /\ plan.calls[i].tool \in DOMAIN Tools
             /\ Tools[plan.calls[i].tool] = "write" => plan.confirm
  BY <1>3, <1>4, <1>5 DEF Known, HasWrite
<1>6. plan.calls = <<>> /\ plan.question = None => AllowsNoTools(plan.intent)
  BY <1>2, <1>3, <1>4 DEF Rejected
<1> QED BY <1>1, <1>4, <1>5, <1>6 DEF PlanIsSafe

\* Of whatever the models return, the deployed planners (guildMentionPlanner)
\* make safe plans only: registered tools, those of the memory planner aside, no
\* more than the limit, and no write tool gets past Runner.Run's question for a
\* confirmation.
THEOREM DeployedPlansAreSafe ==
  ASSUME NEW request, NEW first, NEW second, NEW memory, NEW Calls,
         \A output \in {first, second} : output.is = "json" => output.proposal.calls \in Seq(Calls),
         DeployedPlan(request, first, second, memory).is = "plan"
  PROVE  PlanIsSafe(DeployedPlan(request, first, second, memory).plan)
<1> DEFINE llm == LLMPlan(request, first, second)
<1>1. CASE llm.is = "plan"
  <2>1. PICK output \in {first, second} : llm = ParsePlan(output)
    BY <1>1 DEF LLMPlan, ValidPlan, NoPlan, Failed
  <2>2. output.is = "json"
    BY <1>1, <2>1 DEF ParsePlan, NoPlan
  <2>3. PlanIsSafe(llm.plan)
    BY <1>1, <2>1, <2>2, ParsedIsSafe
  <2> QED BY <1>1, <2>3 DEF DeployedPlan
<1>2. CASE llm.is # "plan"
  <2> DEFINE calls == MemoryCall(request, memory.proposal)
             plan == DeployedPlan(request, first, second, memory).plan
  <2>1. DeployedPlan(request, first, second, memory) = MemoryPlan(request, memory)
    BY <1>2 DEF DeployedPlan
  <2>2. /\ calls # <<>>
        /\ plan.calls = calls /\ plan.question = None
    BY <2>1 DEF MemoryPlan, NoPlan, Failed, Planned
  <2>3. Len(calls) = 1 /\ DOMAIN calls = {1} /\ calls[1].tool \in MemoryTools
    BY <2>2, MemoryCallShape
  <2> QED BY <2>2, <2>3, ToolAssumption DEF PlanIsSafe
<1> QED BY <1>1, <1>2
=============================================================================
