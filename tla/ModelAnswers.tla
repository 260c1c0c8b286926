---------------------------- MODULE ModelAnswers ----------------------------
(***************************************************************************)
(* What the deployed planners and the answerer of internal/agent make of   *)
(* the texts a language model returns.  Pure operators; module AgentRun    *)
(* takes any plan and any answer, this module says which ones there are.   *)
(*                                                                         *)
(* A model's output is [is |-> "error"], a text without a JSON object in   *)
(* it, [is |-> "text"], or [is |-> "json", proposal |-> ...], with None in *)
(* the fields the object leaves empty.  An outcome of a planner is a plan, *)
(* none, or an error.  Tools maps the names of the registered tools to     *)
(* their kind.                                                             *)
(***************************************************************************)
EXTENDS Integers, Sequences

CONSTANTS
  Tools,        \* Registry.Specs: tool -> "read" or "write"
  Spellings,    \* of an intent: what strings.EqualFold takes for it
  MaxPlanned    \* LLMPlanner.MaxToolCalls, or its default of 3

None == "none"
MemoryTools == {"memory.count", "memory.search"}

\* The tools app.New registers: those for the memory are read tools.
ASSUME ToolAssumption ==
  /\ \A tool \in MemoryTools : tool \in DOMAIN Tools => Tools[tool] = "read"
  /\ MaxPlanned \in Nat \ {0}

NoPlan == [is |-> "none"]
Failed == [is |-> "error"]
Planned(plan) == [is |-> "plan", plan |-> plan]

EqualFold(intent, word) == intent \in Spellings[word]

-----------------------------------------------------------------------------
(* LLMPlanner.                                                             *)

\* allowsResponseAlias: only the inventory of tools may be answered directly.
AllowsResponse(intent) == EqualFold(intent, "tool_inventory")
AllowsNoTools(intent) == intent \in {"answer_from_prior", "chat", "tool_inventory"}

\* plannerDirectResponse
DirectResponse(p) ==
  IF p.question # None THEN p.question
  ELSE IF AllowsResponse(p.intent) THEN p.response ELSE None

\* The loop over the proposed calls ends at the limit: what is beyond it is not
\* looked at, not even whether there is such a tool.
Considered(calls) == SubSeq(calls, 1, IF Len(calls) < MaxPlanned THEN Len(calls) ELSE MaxPlanned)

Known(calls) == \A i \in DOMAIN calls : calls[i].tool \in DOMAIN Tools
HasWrite(calls) == \E i \in DOMAIN calls : Tools[calls[i].tool] = "write"

\* What parseLLMPlan turns down before it looks at the calls.
Rejected(p) ==
  \/ p.response # None /\ p.question = None /\ ~AllowsResponse(p.intent)
  \/ p.calls = <<>> /\ DirectResponse(p) = None /\ ~AllowsNoTools(p.intent)

\* parseLLMPlan: one unknown tool and there is no plan; one write tool and the
\* plan as a whole asks for a confirmation.
ParsePlan(output) ==
  IF output.is # "json" THEN NoPlan
  ELSE LET p     == output.proposal
           calls == Considered(p.calls)
       IN  IF Rejected(p) \/ ~Known(calls) THEN NoPlan
           ELSE Planned([intent   |-> IF p.intent = None /\ calls # <<>> THEN calls[1].tool ELSE p.intent,
                         question |-> DirectResponse(p),
                         confirm  |-> p.confirm \/ HasWrite(calls),
                         calls    |-> calls])

\* parseValidPlan: answer_from_prior needs a prior run.
ValidPlan(request, output) ==
  LET parsed == ParsePlan(output)
  IN  IF parsed.is = "plan" /\ parsed.plan.intent = "answer_from_prior" /\ ~request.prior
      THEN NoPlan ELSE parsed

\* shouldRepairEmptyToolPlan: chat without tools gets a second chance.
IsIdle(plan) == plan.calls = <<>> /\ plan.question = None /\ EqualFold(plan.intent, "chat")

Addressed(request) == request.mention /\ request.guild /\ request.text # None

\* LLMPlanner.Plan: "second" is the model's output for the repair prompt, which
\* counts alone if it is asked for.
LLMPlan(request, first, second) ==
  LET plan == ValidPlan(request, first)
  IN  IF ~Addressed(request) \/ DOMAIN Tools = {} THEN NoPlan
      ELSE IF first.is = "error" THEN Failed
      ELSE IF plan.is = "plan" /\ ~IsIdle(plan.plan) THEN plan
      ELSE IF second.is = "error" THEN Failed
      ELSE ValidPlan(request, second)

-----------------------------------------------------------------------------
(* The planner for the memory, which is asked when there is no plan.       *)

Clamped(limit) ==
  IF limit = 0 THEN 5 ELSE IF limit < 1 THEN 1 ELSE IF limit > 25 THEN 25 ELSE limit

\* validMentionedTarget: a member the message mentions, or else everybody.
Target(request, user) == IF user \in request.mentions THEN user ELSE None

\* parseSemanticMemoryPlanForInput
MemoryCall(request, p) ==
  IF p.scope \notin {None, "this-channel"} THEN <<>>
  ELSE IF p.intent = "count" /\ p.text # None
  THEN <<[tool |-> "memory.count",
          args |-> [target |-> Target(request, p.target), text |-> p.text]]>>
  ELSE IF p.intent = "search" /\ p.query # None
  THEN <<[tool |-> "memory.search", args |-> [query |-> p.query, limit |-> Clamped(p.limit)]]>>
  ELSE <<>>

\* SemanticMemoryPlanner.Plan and its adapter, which does not ask whether the
\* tool is registered.
MemoryPlan(request, output) ==
  IF ~(request.guild /\ request.channel /\ request.actor) \/ request.text = None THEN NoPlan
  ELSE IF output.is = "error" THEN Failed
  ELSE IF output.is = "text" THEN NoPlan
  ELSE LET calls == MemoryCall(request, output.proposal)
       IN  IF calls = <<>> THEN NoPlan
           ELSE Planned([intent |-> calls[1].tool, question |-> None, confirm |-> FALSE, calls |-> calls])

\* MultiPlanner, as guildMentionPlanner builds it.
DeployedPlan(request, first, second, memory) ==
  LET plan == LLMPlan(request, first, second)
  IN  IF plan.is = "none" THEN MemoryPlan(request, memory) ELSE plan

-----------------------------------------------------------------------------
(* LLMAnswerer.  A generated text has labels, the [S1]-like marks in it,   *)
(* and words, whether anything is left without them.  A result is the name *)
(* of its tool and the citation labels in its data.                        *)

EvidenceTools == {"memory.search", "memory.recent"}
WebTools == {"web.search", "web.fetch"}

\* requiresEvidenceCitation: the results outrank the fetched context.
NeedsCitation(pack, results) ==
  \/ \E result \in results : result.tool \in EvidenceTools /\ result.labels # {}
  \/ pack # {} /\ \A result \in results : result.tool \notin WebTools

\* validEvidenceCitations
ValidLabels(pack, results) ==
  pack \cup UNION {result.labels : result \in {r \in results : r.tool \in EvidenceTools}}

\* LLMAnswerer.Answer: the model's text, or the results as the tools put them.
AnswerWith(pack, results, generated) ==
  IF generated.is = "error" THEN Failed
  ELSE IF \/ ~generated.words
          \/ /\ NeedsCitation(pack, results)
             /\ generated.labels \cap ValidLabels(pack, results) = {}
  THEN [is |-> "results"]
  ELSE [is |-> "model"]

-----------------------------------------------------------------------------
(* Properties                                                              *)

\* Whatever a model returns, a plan has known tools only - apart from those of
\* the memory planner - and as many as the limit allows; and one with a write
\* tool asks for a confirmation, so that Runner.Run never executes it.
PlanIsSafe(plan) ==
  /\ Len(plan.calls) <= MaxPlanned
  /\ \A i \in DOMAIN plan.calls :
       LET tool == plan.calls[i].tool
       IN  /\ tool \in DOMAIN Tools \cup MemoryTools
           /\ tool \in DOMAIN Tools /\ Tools[tool] = "write" => plan.confirm
  /\ plan.calls = <<>> /\ plan.question = None => AllowsNoTools(plan.intent)
=============================================================================
