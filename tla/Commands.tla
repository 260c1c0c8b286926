------------------------------ MODULE Commands ------------------------------
(***************************************************************************)
(* The slash commands of Gigi (internal/discord, internal/capability):     *)
(* what is registered at Discord, the capability each command needs, which *)
(* options its parser accepts, and what an accepted one asks for.  Pure    *)
(* operators.                                                              *)
(*                                                                         *)
(* An interaction is a record: kind is the command's name, group and act   *)
(* its path (group is "none" where the command has none), options maps the *)
(* names of the options given to their values.  An option of blanks counts *)
(* as not given, as optionByName has it.                                   *)
(***************************************************************************)
EXTENDS Manifests, TLC

CONSTANTS
  UnusableLabels,  \* credential labels that look like a secret or are too long
  UnusableModels,  \* model ids too long or with control characters
  LongNames        \* role names of more than 100 bytes

-----------------------------------------------------------------------------
(* Capabilities and presets.                                               *)

KnownCapabilities ==
  {"capability.manage", "plugin.install", "job.admin", "job.read", "job.schedule", "job.write",
   "web.search", "web.fetch", "agent.analytics", "agent.reply_latency.manage",
   "memory.read.guild", "memory.manage.guild", "relay.dispatch", "relay.receive",
   "llm.provider.write", "llm.provider.test", "llm.provider.select"}

\* capability.Normalize accepts any name in form, known or not.
ASSUME CapabilityAssumption == KnownCapabilities \subseteq WellNamed

KnownPresets ==
     "gigi-admin"     :> KnownCapabilities \ {"relay.dispatch", "relay.receive"}
  @@ "plugin-manager" :> {"plugin.install"}
  @@ "job-operator"   :> {"job.read", "job.schedule", "job.write"}
  @@ "web-reader"     :> {"web.search", "web.fetch"}
  @@ "memory-manager" :> {"memory.read.guild", "memory.manage.guild"}
  @@ "llm-manager"    :> {"llm.provider.write", "llm.provider.test", "llm.provider.select"}
  @@ "memory-reader"  :> {"memory.read.guild"}
  @@ "relay-user"     :> {"relay.dispatch", "relay.receive"}

-----------------------------------------------------------------------------
(* What is registered: for each command and path the options Discord asks   *)
(* for.  It sends no interaction without them, nor one with another choice. *)

RegisteredPermissions ==
     <<"role", "create">>        :> {"name", "preset"}
  @@ <<"role", "assign">>        :> {"role", "user"}
  @@ <<"role", "unassign">>      :> {"role", "user"}
  @@ <<"role", "grant">>         :> {"role", "capability"}
  @@ <<"role", "revoke">>        :> {"role", "capability"}
  @@ <<"role", "grant-preset">>  :> {"role", "preset"}
  @@ <<"role", "revoke-preset">> :> {"role", "preset"}
  @@ <<"user", "grant">>         :> {"user", "capability"}
  @@ <<"user", "revoke">>        :> {"user", "capability"}

RegisteredPlugins ==
     <<"none", "list">>            :> {}
  @@ <<"none", "import-manifest">> :> {"url"}
  @@ <<"none", "import-file">>     :> {"attachment"}
  @@ <<"none", "enable">>          :> {"plugin", "version"}
  @@ <<"none", "disable">>         :> {"plugin"}
  @@ <<"none", "enabled">>         :> {}
  @@ <<"none", "dry-run">>         :> {"text"}

RegisteredLLM ==
     <<"provider", "list">>   :> {}
  @@ <<"provider", "add">>    :> {"provider", "label"}
  @@ <<"provider", "test">>   :> {"label"}
  @@ <<"provider", "rotate">> :> {"label"}
  @@ <<"provider", "delete">> :> {"label", "confirm"}
  @@ <<"model", "show">>      :> {"purpose"}
  @@ <<"model", "set">>       :> {"purpose", "label"}
  @@ <<"usage", "guild">>     :> {}
  @@ <<"routing", "show">>    :> {}
  @@ <<"routing", "set">>     :> {"mode"}

RegisteredMemory ==
     <<"none", "status">>   :> {}
  @@ <<"none", "count">>    :> {"text"}
  @@ <<"none", "search">>   :> {"query"}
  @@ <<"settings", "show">> :> {}
  @@ <<"settings", "set">>  :> {"channel", "mode"}

\* The commands on runs (cancel, pending, confirm, reject) are in AgentRun.
RegisteredAgent ==
     <<"trace", "last">>  :> {}
  @@ <<"trace", "live">>  :> {"prompt"}
  @@ <<"trace", "mode">>  :> {"state"}
  @@ <<"stats", "guild">> :> {}

Registered ==
  [permissions |-> RegisteredPermissions, plugins |-> RegisteredPlugins, llm |-> RegisteredLLM,
   memory |-> RegisteredMemory, agent |-> RegisteredAgent,
   ask |-> <<"none", "none">> :> {"question"}, ping |-> <<"none", "none">> :> {}]

Providers == {"openai", "anthropic", "gemini", "custom"}
Purposes == {"chat", "reasoning", "embedding", "routing"}
ToolRoutingModes == {"off", "dry-run", "enabled"}
MemoryModes == {"off", "metadata", "full"}

\* defaultModels: the purposes a provider has a default model for.
DefaultPurposes ==
  [openai |-> Purposes, gemini |-> Purposes, anthropic |-> Purposes \ {"embedding"}, custom |-> {}]

-----------------------------------------------------------------------------
(* The parsers.  One that does not accept answers what is wrong with the    *)
(* options and does nothing else.                                           *)

Path(i) == <<i.group, i.act>>
Given(i, names) == names \subseteq DOMAIN i.options
Optional(i, name, accepted(_)) == Given(i, {name}) => accepted(i.options[name])

\* parseCapability and parsePreset.
AcceptsCapability(i) == Given(i, {"capability"}) /\ i.options.capability \in WellNamed
AcceptsPreset(i) == Given(i, {"preset"}) /\ i.options.preset \in DOMAIN KnownPresets

AcceptsRole(i) ==
  CASE i.act = "create" -> Given(i, {"name"}) /\ i.options.name \notin LongNames /\ AcceptsPreset(i)
    [] i.act \in {"assign", "unassign"}             -> Given(i, {"role", "user"})
    [] i.act \in {"grant", "revoke"}                -> Given(i, {"role"}) /\ AcceptsCapability(i)
    [] i.act \in {"grant-preset", "revoke-preset"}  -> Given(i, {"role"}) /\ AcceptsPreset(i)
    [] OTHER -> FALSE

AcceptsUser(i) == i.act \in {"grant", "revoke"} /\ Given(i, {"user"}) /\ AcceptsCapability(i)

AcceptsPermissions(i) ==
  \/ i.group = "role" /\ AcceptsRole(i)
  \/ i.group = "user" /\ AcceptsUser(i)

AcceptsPlugins(i) ==
  CASE i.act \in {"list", "enabled"}  -> TRUE
    [] i.act = "dry-run"              -> Given(i, {"text"})
    [] i.act = "import-manifest"      -> Given(i, {"url"})
    [] i.act = "import-file"          -> Given(i, {"attachment"})
    [] i.act = "enable"               -> Given(i, {"plugin", "version"})
    [] i.act = "disable"              -> Given(i, {"plugin"})
    [] OTHER -> FALSE

\* looksSensitive, and ValidateModelID.
UsableLabel(label) == label \notin UnusableLabels
UsableModel(model) == model \notin UnusableModels

AcceptsLabel(i) == Given(i, {"label"}) /\ UsableLabel(i.options.label)

AcceptsProvider(i) ==
  CASE i.act = "list"                -> TRUE
    [] i.act = "add"                 -> Given(i, {"provider"}) /\ i.options.provider \in Providers /\ AcceptsLabel(i)
    [] i.act \in {"test", "rotate"}  -> AcceptsLabel(i)
    [] i.act = "delete"              -> AcceptsLabel(i) /\ Given(i, {"confirm"}) /\ i.options.confirm
    [] OTHER -> FALSE

\* Without a model, or with "auto", the provider's default is meant.
AutoModel(i) == Given(i, {"model"}) => i.options.model = "auto"

AcceptsModel(i) ==
  /\ Given(i, {"purpose"}) /\ i.options.purpose \in Purposes
  /\ \/ i.act = "show"
     \/ i.act = "set" /\ AcceptsLabel(i) /\ Optional(i, "model", UsableModel)

AcceptsRouting(i) ==
  \/ i.act = "show"
  \/ i.act = "set" /\ Given(i, {"mode"}) /\ i.options.mode \in ToolRoutingModes

AcceptsLLM(i) ==
  CASE i.group = "provider" -> AcceptsProvider(i)
    [] i.group = "model"    -> AcceptsModel(i)
    [] i.group = "usage"    -> i.act = "guild"
    [] i.group = "routing"  -> AcceptsRouting(i)
    [] OTHER -> FALSE

AcceptsCount(i) ==
  /\ Given(i, {"text"})
  /\ Optional(i, "scope", LAMBDA scope : scope \in {"this-channel", "server"})

AcceptsSearch(i) ==
  /\ Given(i, {"query"})
  /\ Optional(i, "limit", LAMBDA limit : limit \in 1 .. 25)

AcceptsSettings(i) ==
  /\ Given(i, {"channel", "mode"})
  /\ i.options.mode \in MemoryModes
  /\ Optional(i, "retention-days", LAMBDA days : days \in 1 .. 365)

AcceptsMemory(i) ==
  CASE Path(i) = <<"none", "status">>   -> TRUE
    [] Path(i) = <<"none", "count">>    -> AcceptsCount(i)
    [] Path(i) = <<"none", "search">>   -> AcceptsSearch(i)
    [] Path(i) = <<"settings", "show">> -> TRUE
    [] Path(i) = <<"settings", "set">>  -> AcceptsSettings(i)
    [] OTHER -> FALSE

AcceptsStats(i) ==
  /\ Optional(i, "period", LAMBDA period : period \in {"24h", "7d", "30d", "all"})
  /\ Optional(i, "reply-latency", LAMBDA mode : mode \in {"off", "on"})

\* /agent stats guild with reply-latency sets it instead of reading.
SetsLatency(i) == Path(i) = <<"stats", "guild">> /\ Given(i, {"reply-latency"})

AcceptsAgent(i) ==
  CASE Path(i) = <<"stats", "guild">> -> i.guild /\ AcceptsStats(i)
    [] Path(i) = <<"trace", "mode">>  -> Given(i, {"state"}) /\ i.options.state \in {"on", "off"}
    [] Path(i) = <<"trace", "live">>  -> Given(i, {"prompt"})
    [] OTHER -> Path(i) = <<"trace", "last">>

\* Only in a guild, but for /ask, /ping and /agent trace.
Accepts(i) ==
  CASE i.kind = "permissions" -> i.guild /\ AcceptsPermissions(i)
    [] i.kind = "plugins"     -> i.guild /\ AcceptsPlugins(i)
    [] i.kind = "llm"         -> i.guild /\ AcceptsLLM(i)
    [] i.kind = "memory"      -> i.guild /\ AcceptsMemory(i)
    [] i.kind = "agent"       -> AcceptsAgent(i)
    [] i.kind = "ask"         -> Given(i, {"question"})
    [] OTHER -> i.kind \in {"ping", "submit"}

-----------------------------------------------------------------------------
(* What an accepted command of /permissions asks for: whose rows of the     *)
(* grants change, and which.                                                *)

Holder(i) == IF i.group = "user" THEN i.options.user
             ELSE IF i.act = "create" THEN i.options.name ELSE i.options.role

RequestedCapabilities(i) ==
  IF Given(i, {"preset"}) THEN KnownPresets[i.options.preset] ELSE {i.options.capability}

\* import-file names an attachment, import-manifest a URL.
ManifestSource(i) == IF i.act = "import-file" THEN i.options.attachment ELSE i.options.url
AllowsPublicDispatch(i) == Given(i, {"allow-public-dispatch"}) /\ i.options["allow-public-dispatch"]

-----------------------------------------------------------------------------
(* The capabilities a command needs, at most one: checked by the router     *)
(* before the handler, or, for /agent stats, by the handler with the same   *)
(* authorizer once it has parsed the options.                               *)

\* llmRequiredCapability
LLMNeeds(i) ==
  IF \/ i.group = "provider" /\ i.act # "test"
     \/ Path(i) = <<"routing", "set">>
  THEN "llm.provider.write"
  ELSE IF i.group = "provider" THEN "llm.provider.test" ELSE "llm.provider.select"

\* memoryRequiredCapability
MemoryNeeds(i) == IF i.group = "settings" THEN "memory.manage.guild" ELSE "memory.read.guild"

StatsNeeds(i) ==
  IF Path(i) = <<"stats", "guild">> /\ AcceptsAgent(i)
  THEN IF SetsLatency(i) THEN <<"agent.reply_latency.manage">> ELSE <<"agent.analytics">>
  ELSE <<>>

\* A modal's submission is routed by the prefix of its token to /llm.
SubmitNeeds == "llm.provider.write"

CommandNeeds(i) ==
  CASE i.kind = "permissions" -> <<"capability.manage">>
    [] i.kind = "plugins"     -> <<"plugin.install">>
    [] i.kind = "llm"         -> <<LLMNeeds(i)>>
    [] i.kind = "submit"      -> <<SubmitNeeds>>
    [] i.kind = "memory"      -> <<MemoryNeeds(i)>>
    [] i.kind = "agent"       -> StatsNeeds(i)
    [] OTHER -> <<>>

-----------------------------------------------------------------------------
(* The changes whose audit row the answer waits for: all of /permissions    *)
(* but for its refusals, all submissions, and what shouldAuditPluginAction, *)
(* shouldAuditLLMAction and shouldAuditMemoryAction name.                   *)

AuditedPlugins == {"import-manifest", "import-file", "enable", "disable"}
AuditedLLM == {<<"provider", "delete">>, <<"provider", "test">>, <<"model", "set">>, <<"routing", "set">>}
AuditedMemory == {<<"settings", "set">>}

Audited(i) ==
  \/ i.kind \in {"permissions", "submit"}
  \/ i.kind = "plugins" /\ i.act \in AuditedPlugins
  \/ i.kind = "llm" /\ Path(i) \in AuditedLLM
  \/ i.kind = "memory" /\ Path(i) \in AuditedMemory
=============================================================================
