----------------------------- MODULE MCAgentRun -----------------------------
(***************************************************************************)
(* Instances of AgentRun for TLC: one owner and one administrator.  All    *)
(* runs have the same owner, so runs (and commands) can be exchanged.  And *)
(* the planners' outputs, for the outputs of a model that the assumption   *)
(* PlansAreSafe enumerates.                                                *)
(***************************************************************************)
EXTENDS AgentRun, ModelAnswers, TLC

CONSTANTS alice, root

MCUsers == {alice, root}
MCAdmins == {root}
MCOwner == [r \in Runs |-> alice]
Symmetric == Permutations(Runs) \cup Permutations(Cmds)

MCTools == "memory.count" :> "read" @@ "web.fetch" :> "read" @@ "jobs.cancel" :> "write"
MCSpellings == [chat |-> {"chat", "Chat"}, tool_inventory |-> {"tool_inventory", "Tool_Inventory"}]

\* A call of a registered read or write tool, and of one a model made up.
MCCalls == {[tool |-> tool, args |-> <<>>] : tool \in {"web.fetch", "jobs.cancel", "made.up"}}

MCOutputs ==
  {[is |-> "error"], [is |-> "text"]} \cup
  {[is |-> "json", proposal |-> p] : p \in
     [intent : {None, "chat", "Chat", "answer_from_prior", "tool_inventory", "other"},
      question : {None, "asked"}, response : {None, "said"}, confirm : BOOLEAN,
      calls : UNION {[1..n -> MCCalls] : n \in 0..2}]}

MCSecond == {output \in MCOutputs : output.is = "json" => Len(output.proposal.calls) = 1 /\ output.proposal.response = None}

MCMemory ==
  {[is |-> "text"]} \cup
  {[is |-> "json", proposal |-> p] : p \in
     [intent : {"count", "search"}, target : {None, "bob"}, text : {None, "x"}, query : {None, "x"},
      scope : {None, "this-channel", "server"}, limit : {0, 26}]}

MCRequest(prior) ==
  [mention |-> TRUE, guild |-> TRUE, channel |-> TRUE, actor |-> TRUE, text |-> "x",
   prior |-> prior, mentions |-> {"ann"}]

\* A target of a count is a member the message mentions.
MemoryPlanIsOwn(outcome) ==
  outcome.is = "plan" => /\ PlanIsSafe(outcome.plan)
                         /\ outcome.plan.intent = "memory.count" =>
                              outcome.plan.calls[1].args.target \in {None, "ann"}

ASSUME PlansAreSafe ==
  /\ \A first \in MCOutputs, second \in MCSecond, prior \in BOOLEAN :
       LET outcome == LLMPlan(MCRequest(prior), first, second)
       IN  outcome.is = "plan" => PlanIsSafe(outcome.plan)
  /\ \A memory \in MCMemory : MemoryPlanIsOwn(MemoryPlan(MCRequest(FALSE), memory))

\* What the calls of a plan of the memory planner may bring: only a search has
\* labels, numbered like those of the fetched context.
MCResults(calls) ==
  LET Found(tool) == IF tool = "memory.search" THEN SUBSET {"S1", "S2"} ELSE {{}}
  IN  {{[tool |-> calls[i].tool, labels |-> labels[i]] : i \in DOMAIN calls} :
         labels \in {f \in [DOMAIN calls -> SUBSET {"S1", "S2"}] :
                        \A i \in DOMAIN calls : f[i] \in Found(calls[i].tool)}}

MCGenerated == [is : {"text"}, labels : SUBSET {"S1", "S2", "S3"}, words : BOOLEAN]

\* From the planner's output to the text shown: if a plan of the memory planner
\* or the fetched context brought any message, the text of a model is shown only
\* if it names one of them.
ASSUME MemoryAnswersAreCited ==
  \A memory \in MCMemory, pack \in SUBSET {"S1", "S3"} :
    LET outcome == MemoryPlan(MCRequest(FALSE), memory)
    IN  outcome.is = "plan" =>
          \A results \in MCResults(outcome.plan.calls), generated \in MCGenerated :
            LET messages == pack \cup UNION {result.labels : result \in results}
            IN  messages # {} /\ AnswerWith(pack, results, generated).is = "model" =>
                  generated.labels \cap messages # {}
=============================================================================
