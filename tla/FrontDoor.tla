------------------------------ MODULE FrontDoor ------------------------------
(***************************************************************************)
(* What Discord sends to Gigi and what comes back: the slash commands that *)
(* change permissions, plugins, credentials and settings, and the messages *)
(* that mention the bot (internal/discord, capability, plugins,            *)
(* assistant).  Each event is served by a goroutine of its own, so the     *)
(* steps of several requests, and of the shutdown of AppLifecycle,         *)
(* interleave; nobody waits for them.                                      *)
(*                                                                         *)
(* One guild.  A step is one statement of the database, one call of        *)
(* Discord or of a model, or the code between two of them.  Any statement  *)
(* may fail, and every one fails once the database is closed.  Audit rows  *)
(* whose own failure the code ignores (those of refused and failed         *)
(* requests) are left out, and so is the wording of a reply.               *)
(***************************************************************************)
EXTENDS AppLifecycle, Commands

CONSTANTS
  Requests,   \* handler goroutines
  Users,
  Admins,     \* users whose events carry the administrator permission
  Roles,
  Events,     \* what Discord may send
  Tokens,     \* the custom ids of credential modals, each drawn only once
  Proposals   \* what the routing model may answer: plugin, command, arguments

VARIABLES
  grants,       \* user_capability_grants and role_capability_grants
  guildRoles,   \* roles that exist in Discord
  memberRoles,  \* Discord's roles of each user
  catalog,      \* plugin_versions: version -> manifest, with its consent
  enabled,      \* guild_plugin_installs: versions enabled in the guild
  routing,      \* llm_guild_policies.tool_routing_mode
  latency,      \* discord_guild_settings.reply_latency_enabled
  debug,        \* users whose live debug mode is on (in memory)
  modals,       \* llmCredentialModalStore.pending: token -> who, expired (in memory)
  req,          \* the handlers under way
  installed,    \* history: the last of enable and disable was an enable
  consented,    \* history: manifests imported with allow-public-dispatch
  opened,       \* history: every modal opened: token -> who, credentials saved from it
  seen          \* history: what held at some moment of each handler

storeVars == <<grants, guildRoles, memberRoles, catalog, enabled, routing, latency, debug, modals>>
historyVars == <<installed, consented, opened>>
frontVars == <<storeVars, req, historyVars, seen>>
vars == <<lifeVars, frontVars>>

DefaultRouting == "off"

\* The submission of a modal is an interaction of its own.
IsCommand(event) == event.kind \in DOMAIN Registered \cup {"submit"}

\* Anything else is a message, and what is imported decodes to a manifest.
ASSUME EventAssumption ==
  \A event \in Events :
    /\ IsCommand(event) \/ event.kind = "message"
    /\ event.kind = "plugins" /\ event.act \in {"import-manifest", "import-file"} /\ Accepts(event) =>
         IsManifest(ManifestSource(event).manifest)

\* MessageRouter.route: messages of people, in a guild only those that mention
\* the bot, whatever stands around the mention.
Routed(event) == ~event.bot /\ (event.guild => event.mentions)

\* A message that memoryQuestionHandler takes, not its fallback: it asks how
\* often a member mentioned a text.
IsCountQuestion(event) == event.kind = "message" /\ event.guild /\ event.counts

IsChat(event) == event.kind = "message" /\ ~IsCountQuestion(event)

NeedOf(event) ==
  IF IsCommand(event) THEN CommandNeeds(event)
  ELSE IF IsCountQuestion(event) THEN <<"memory.read.guild">> ELSE <<>>

\* Only a mention in a guild may get a live debug card.
FirstStep(event) ==
  IF IsCommand(event) THEN IF NeedOf(event) = <<>> THEN "handle" ELSE "check_user"
  ELSE IF event.guild THEN "card" ELSE "agent"

Init ==
  /\ LifeInit
  /\ grants = {}
  /\ guildRoles \in SUBSET Roles
  /\ memberRoles \in [Users -> SUBSET guildRoles]
  /\ catalog = << >>
  /\ enabled = {}
  /\ routing = DefaultRouting
  /\ latency = FALSE
  /\ debug = {}
  /\ modals = << >>
  /\ req = << >>
  /\ installed = FALSE
  /\ consented = {}
  /\ opened = << >>
  /\ seen = << >>

-----------------------------------------------------------------------------
(* Requests: they arrive while the gateway is open, each with the roles    *)
(* the member has at that moment.                                          *)

Set(r, new) == req' = [req EXCEPT ![r] = new]

Arrive(r, event) ==
  /\ session = "open"
  /\ r \notin DOMAIN req
  /\ event.kind = "message" => Routed(event)
  /\ req' = [q \in DOMAIN req \cup {r} |->
               IF q # r THEN req[q]
               ELSE [pc |-> FirstStep(event), event |-> event,
                     roles |-> memberRoles[event.actor], need |-> NeedOf(event),
                     decision |-> "none", plan |-> {}, rows |-> << >>, via |-> "direct",
                     changed |-> FALSE, trail |-> {}, card |-> "none", reply |-> "none"]]
  /\ UNCHANGED <<storeVars, historyVars>>

At(r, pc) == r \in DOMAIN req /\ req[r].pc = pc

\* Messages first pass the end of MessageRouter.HandleMessage.
Answered(q, reply) ==
  [q EXCEPT !.reply = reply, !.pc = IF IsCommand(q.event) THEN "send" ELSE "finish"]

Reply(r, reply) == Set(r, Answered(req[r], reply)) /\ UNCHANGED <<storeVars, historyVars>>

\* A statement that only this request sees the result of.
Works == db = "open"

-----------------------------------------------------------------------------
(* Evaluator.Check, for each capability in turn: the grants of the user,   *)
(* then those of the roles the event carried, in two statements.           *)

Decided(q, decision) == [q EXCEPT !.decision = decision, !.pc = "decided"]

Granted(q) ==
  IF Len(q.need) > 1
  THEN [q EXCEPT !.need = Tail(q.need), !.pc = "check_user"]
  ELSE Decided([q EXCEPT !.need = <<>>], "allowed")

\* identity.Resolver: the subject of a check has a guild.
Identified(event) == event.guild

\* The rows of user_capability_grants.
UserHolds(actor, cap) == <<actor, cap>> \in grants

CheckUser(r) ==
  /\ At(r, "check_user")
  /\ LET q == req[r]
         outcomes ==
           IF ~Identified(q.event) THEN {Decided(q, "error")}
           ELSE IF q.event.actor \in Admins THEN {Granted(q)}
           ELSE {Decided(q, "error")} \cup
                (IF ~Works THEN {}
                 ELSE IF UserHolds(q.event.actor, Head(q.need)) THEN {Granted(q)}
                 ELSE {[q EXCEPT !.pc = "check_role"]})
     IN  \E new \in outcomes : Set(r, new)
  /\ UNCHANGED <<storeVars, historyVars>>

\* Mutant: the statement lacks its condition on the role.
RolesHold_Bug(q, cap) == \E role \in Roles : <<role, cap>> \in grants

\* The rows of role_capability_grants for the roles of the event.
RolesHold(q, cap) == \E role \in q.roles : <<role, cap>> \in grants

\* Without roles there is no statement to fail.
CheckRole(r) ==
  /\ At(r, "check_role")
  /\ LET q == req[r]
         outcomes ==
           IF q.roles = {} THEN {Decided(q, "denied")}
           ELSE {Decided(q, "error")} \cup
                (IF ~Works THEN {}
                 ELSE IF RolesHold(q, Head(q.need)) THEN {Granted(q)}
                 ELSE {Decided(q, "denied")})
     IN  \E new \in outcomes : Set(r, new)
  /\ UNCHANGED <<storeVars, historyVars>>

\* CapabilityAuthorizer audits every decision; if it cannot, the command is
\* refused whatever the decision was.
RecordCheck(r) ==
  /\ At(r, "decided")
  /\ IsCommand(req[r].event)
  /\ \/ /\ Works
        /\ req[r].decision = "allowed"
        /\ Set(r, [req[r] EXCEPT !.pc = "handle", !.trail = @ \cup {"check"}])
        /\ UNCHANGED <<storeVars, historyVars>>
     \/ req[r].decision = "denied" /\ Reply(r, "denied")
     \/ Reply(r, "failed")

\* The message handlers ask the evaluator itself.
UseDecision(r) ==
  /\ At(r, "decided")
  /\ ~IsCommand(req[r].event)
  /\ CASE req[r].decision = "denied" -> Reply(r, "denied")
       [] req[r].decision = "error"  -> Reply(r, "failed")
       [] OTHER ->
            /\ Set(r, [req[r] EXCEPT !.pc = IF IsCountQuestion(req[r].event) THEN "count" ELSE "outcome"])
            /\ UNCHANGED <<storeVars, historyVars>>

-----------------------------------------------------------------------------
(* Slash commands, once they are allowed.                                  *)

Handling(r, kind, acts) ==
  At(r, "handle") /\ req[r].event.kind = kind /\ req[r].event.act \in acts /\ Accepts(req[r].event)

\* What is wrong with the options is all a refused command is told.
RefuseOptions(r) ==
  /\ At(r, "handle")
  /\ ~Accepts(req[r].event)
  /\ Reply(r, "refused")

\* The change is in the store; its own audit row comes next.
Changed(r) == Set(r, [req[r] EXCEPT !.changed = TRUE, !.pc = "record_change"])

\* Any failure of a handler is reported and changes nothing.
HandlerFails(r) ==
  /\ At(r, "handle")
  /\ req[r].event.kind \notin {"ping", "submit"}
  /\ Accepts(req[r].event)
  /\ Reply(r, "failed")

\* The rows of one transaction: a capability of a role or a user, or all those
\* of a preset.
GrantRows(event) == {Holder(event)} \X RequestedCapabilities(event)

Granting == {"grant", "grant-preset"}
Revoking == {"revoke", "revoke-preset"}

ChangeGrants(r) ==
  /\ Handling(r, "permissions", Granting \cup Revoking)
  /\ Works
  /\ grants' = IF req[r].event.act \in Granting THEN grants \cup GrantRows(req[r].event)
                                                ELSE grants \ GrantRows(req[r].event)
  /\ Changed(r)
  /\ UNCHANGED <<guildRoles, memberRoles, catalog, enabled, routing, latency, debug, modals, historyVars>>

\* role create: the role in Discord first, then its preset in the database.
CreateRole(r) ==
  /\ Handling(r, "permissions", {"create"})
  /\ Holder(req[r].event) \notin guildRoles
  /\ guildRoles' = guildRoles \cup {Holder(req[r].event)}
  /\ Set(r, [req[r] EXCEPT !.pc = "grant_created"])
  /\ UNCHANGED <<grants, memberRoles, catalog, enabled, routing, latency, debug, modals, historyVars>>

\* If the grant fails the role stays, without any capability.
GrantCreated(r) ==
  /\ At(r, "grant_created")
  /\ \/ /\ Works
        /\ grants' = grants \cup GrantRows(req[r].event)
        /\ Changed(r)
        /\ UNCHANGED <<guildRoles, memberRoles, catalog, enabled, routing, latency, debug, modals, historyVars>>
     \/ Reply(r, "failed")

\* role assign and unassign only tell Discord.
ChangeMember(r) ==
  /\ Handling(r, "permissions", {"assign", "unassign"})
  /\ LET role == req[r].event.options.role
     IN  /\ role \in guildRoles
         /\ memberRoles' = [memberRoles EXCEPT ![req[r].event.options.user] =
                              IF req[r].event.act = "assign" THEN @ \cup {role} ELSE @ \ {role}]
  /\ Changed(r)
  /\ UNCHANGED <<grants, guildRoles, catalog, enabled, routing, latency, debug, modals, historyVars>>

\* What DecodeManifestFromURL and DecodeManifestFromAttachment make of a source;
\* the document cannot give its own consent.
Decoded(source) ==
  [source.manifest EXCEPT !.sourceKind = IF source.attachment THEN "uploaded_file" ELSE "manifest_url",
                          !.publicDispatchAllowed = FALSE]

\* requirePublicDispatchConsent
Consents(manifest, allow) == HasPublicSendMessageAction(manifest) => allow

\* UpsertApprovedManifest: a version already there gets the new manifest and
\* the new consent, wherever it is enabled.
Upserted(manifest, allow) ==
  [v \in DOMAIN catalog \cup {manifest.version} |->
     IF v # manifest.version THEN catalog[v]
     ELSE [manifest EXCEPT !.publicDispatchAllowed = allow /\ HasPublicSendMessageAction(manifest)]]

\* import-manifest and import-file.
ImportManifest(r) ==
  /\ Handling(r, "plugins", {"import-manifest", "import-file"})
  /\ Works
  /\ LET source   == ManifestSource(req[r].event)
         manifest == Decoded(source)
         allow    == AllowsPublicDispatch(req[r].event)
     IN  /\ Fetched(source)
         /\ Valid(manifest)
         /\ Consents(manifest, allow)
         /\ catalog' = Upserted(manifest, allow)
         /\ consented' = IF allow THEN consented \cup {manifest} ELSE consented
  /\ Changed(r)
  /\ UNCHANGED <<grants, guildRoles, memberRoles, enabled, routing, latency, debug, modals, installed, opened>>

\* EnableForGuild: an approved version; the other versions stay as they are.
EnablePlugin(r) ==
  /\ Handling(r, "plugins", {"enable"})
  /\ Works
  /\ req[r].event.options.version \in DOMAIN catalog
  /\ enabled' = enabled \cup {req[r].event.options.version}
  /\ installed' = TRUE
  /\ Changed(r)
  /\ UNCHANGED <<grants, guildRoles, memberRoles, catalog, routing, latency, debug, modals, consented, opened>>

\* The rows DisableForGuild updates: every enabled version of the plugin.
DisabledRows == enabled

DisablePlugin(r) ==
  /\ Handling(r, "plugins", {"disable"})
  /\ Works
  /\ enabled # {}
  /\ enabled' = enabled \ DisabledRows
  /\ installed' = FALSE
  /\ Changed(r)
  /\ UNCHANGED <<grants, guildRoles, memberRoles, catalog, routing, latency, debug, modals, consented, opened>>

\* What only reads the database: one statement, and no audit row whose failure
\* matters.  A count of the whole server answers that there is none yet.
Reads(event) ==
  CASE event.kind = "plugins" -> event.act \notin AuditedPlugins
    [] event.kind = "llm"     -> ~Audited(event) /\ event.act \notin {"add", "rotate"}
    [] event.kind = "memory"  -> ~Audited(event)
    [] event.kind = "agent"   -> event.group = "stats" /\ ~SetsLatency(event)
    [] OTHER -> FALSE

WholeServer(event) == event.act = "count" /\ Given(event, {"scope"}) /\ event.options.scope = "server"

ReadOnly(r) ==
  /\ At(r, "handle")
  /\ Accepts(req[r].event)
  /\ Reads(req[r].event)
  /\ Works \/ WholeServer(req[r].event)
  /\ Reply(r, "ok")

\* /llm provider delete and test, model set, and /memory settings set: the
\* change is one of modules CredentialStore and MemoryIngest.
ChangesElsewhere(event) ==
  \/ event.kind = "llm" /\ Path(event) \in AuditedLLM \ {<<"routing", "set">>}
  \/ event.kind = "memory" /\ Audited(event)

ChangeElsewhere(r) ==
  /\ At(r, "handle")
  /\ Accepts(req[r].event)
  /\ ChangesElsewhere(req[r].event)
  /\ Works
  /\ Changed(r)
  /\ UNCHANGED <<storeVars, historyVars>>

\* model set with "auto", for a credential of a provider without a default
\* model: nothing is selected, but the command is audited as a success.
NoDefaultModel(r) ==
  /\ Handling(r, "llm", {"set"})
  /\ req[r].event.group = "model" /\ AutoModel(req[r].event)
  /\ \E provider \in Providers : req[r].event.options.purpose \notin DefaultPurposes[provider]
  /\ Works
  /\ Set(r, [req[r] EXCEPT !.pc = "record_change"])
  /\ UNCHANGED <<storeVars, historyVars>>

With(f, x, value) == [y \in DOMAIN f \cup {x} |-> IF y = x THEN value ELSE f[y]]

\* What create keeps of a modal: who opened it.
Pending(actor) == [actor |-> actor, expired |-> FALSE]

\* /llm provider add and rotate answer with a modal; rotate reads the
\* credentials first.
OpenModal(r) ==
  /\ Handling(r, "llm", {"add", "rotate"})
  /\ req[r].event.act = "rotate" => Works
  /\ \E t \in Tokens \ DOMAIN opened :
       /\ modals' = With(modals, t, Pending(req[r].event.actor))
       /\ opened' = With(opened, t, [actor |-> req[r].event.actor, saves |-> 0])
  /\ Set(r, Answered(req[r], "modal"))
  /\ UNCHANGED <<grants, guildRoles, memberRoles, catalog, enabled, routing, latency, debug,
                 installed, consented>>

\* Ten minutes after it was opened; the entry stays.
ModalExpires(t) ==
  /\ t \in DOMAIN modals
  /\ ~modals[t].expired
  /\ modals' = [modals EXCEPT ![t].expired = TRUE]
  /\ UNCHANGED <<grants, guildRoles, memberRoles, catalog, enabled, routing, latency, debug,
                 req, historyVars>>

\* Mutant: the token is left in the store.
Consumed_Bug(t) == modals

\* consume: the first submission uses the token up, whoever's it is.
Consumed(t) == [u \in DOMAIN modals \ {t} |-> modals[u]]

ConsumeModal(r) ==
  /\ At(r, "handle")
  /\ req[r].event.kind = "submit"
  /\ LET t == req[r].event.token
     IN  /\ modals' = Consumed(t)
         /\ Set(r, IF t \in DOMAIN modals /\ modals[t] = Pending(req[r].event.actor)
                   THEN [req[r] EXCEPT !.pc = "save"]
                   ELSE Answered(req[r], "failed"))
  /\ UNCHANGED <<grants, guildRoles, memberRoles, catalog, enabled, routing, latency, debug,
                 historyVars>>

\* AddCredential or RotateCredential with what was typed.
SaveSecret(r) ==
  /\ At(r, "save")
  /\ \/ /\ Works
        /\ opened' = [opened EXCEPT ![req[r].event.token].saves = @ + 1]
        /\ Changed(r)
        /\ UNCHANGED <<storeVars, installed, consented>>
     \/ Reply(r, "failed")

\* /llm routing set.
SetRouting(r) ==
  /\ Handling(r, "llm", {"set"})
  /\ req[r].event.group = "routing"
  /\ Works
  /\ routing' = req[r].event.options.mode
  /\ Changed(r)
  /\ UNCHANGED <<grants, guildRoles, memberRoles, catalog, enabled, latency, debug, modals, historyVars>>

\* /agent stats reply-latency: it does not wait for an audit row.
SetLatency(r) ==
  /\ Handling(r, "agent", {"guild"})
  /\ SetsLatency(req[r].event)
  /\ Works
  /\ latency' = (req[r].event.options["reply-latency"] = "on")
  /\ Set(r, [Answered(req[r], "ok") EXCEPT !.changed = TRUE])
  /\ UNCHANGED <<grants, guildRoles, memberRoles, catalog, enabled, routing, debug, modals, historyVars>>

\* /agent trace mode, for the caller only and in memory.
SetLiveDebug(r) ==
  /\ Handling(r, "agent", {"mode"})
  /\ debug' = IF req[r].event.options.state = "on" THEN debug \cup {req[r].event.actor} ELSE debug \ {req[r].event.actor}
  /\ Set(r, Answered(req[r], "ok"))
  /\ UNCHANGED <<grants, guildRoles, memberRoles, catalog, enabled, routing, latency, modals, historyVars>>

\* /ping, and /agent trace last and live, which answer at once; the run that
\* live starts is not waited for.
AnswerAtOnce(r) ==
  /\ \/ Handling(r, "ping", {"none"})
     \/ Handling(r, "agent", {"last", "live"})
  /\ Reply(r, "ok")

\* /ask runs the agent like a mention does.
Ask(r) ==
  /\ Handling(r, "ask", {"none"})
  /\ Set(r, [req[r] EXCEPT !.pc = "agent"])
  /\ UNCHANGED <<storeVars, historyVars>>

\* Mutant: the error of the success row is dropped, as that of the failure row is.
RecordChange_Bug(r) ==
  /\ At(r, "record_change")
  /\ \E row \in SUBSET (IF Works THEN {"change"} ELSE {}) :
       Set(r, [Answered(req[r], IF req[r].changed THEN "ok" ELSE "no_default")
                 EXCEPT !.trail = @ \cup row])
  /\ UNCHANGED <<storeVars, historyVars>>

\* The success row of a change: without it the reply is "Command failed.",
\* though the change is committed.
RecordChange(r) ==
  /\ At(r, "record_change")
  /\ \/ /\ Works
        /\ Set(r, [Answered(req[r], IF req[r].changed THEN "ok" ELSE "no_default")
                     EXCEPT !.trail = @ \cup {"change"}])
        /\ UNCHANGED <<storeVars, historyVars>>
     \/ Reply(r, "failed")

-----------------------------------------------------------------------------
(* Messages: MemoryQuestionHandler, ExternalAppDryRunHandler and the agent, *)
(* between the two halves of MessageRouter.HandleMessage.                   *)

WantsCard(actor) == actor \in debug

\* startLiveDebug: the card is posted if the author wants one and Discord
\* takes it.
StartCard(r) ==
  /\ At(r, "card")
  /\ \E card \in IF WantsCard(req[r].event.actor) THEN {"none", "running"} ELSE {"none"} :
       Set(r, [req[r] EXCEPT !.card = card,
                 !.pc = IF IsCountQuestion(req[r].event) THEN "check_user" ELSE "lookup"])
  /\ UNCHANGED <<storeVars, historyVars>>

\* CountMentions, then the audit row without which there is no answer.
CountMentions(r) ==
  /\ At(r, "count")
  /\ \/ Works /\ Set(r, [req[r] EXCEPT !.pc = "record_count"]) /\ UNCHANGED <<storeVars, historyVars>>
     \/ Reply(r, "failed")

RecordCount(r) ==
  /\ At(r, "record_count")
  /\ \/ /\ Works
        /\ Set(r, [Answered(req[r], "count") EXCEPT !.trail = @ \cup {"count"}])
        /\ UNCHANGED <<storeVars, historyVars>>
     \/ Reply(r, "error")

\* EnabledForGuild: the approved versions enabled in the guild, in order.
Rows == [v \in enabled |-> catalog[v]]

\* A plan is authorized when its action asks for nothing or all is granted.
Planned(q, plans) ==
  LET plan == CHOOSE p \in plans : TRUE
  IN  [q EXCEPT !.plan = {plan}, !.rows = << >>, !.need = plan.required,
                !.decision = IF plan.required = <<>> THEN "allowed" ELSE "none",
                !.pc = IF plan.required = <<>> THEN "outcome" ELSE "check_user"]

LookUpPlugins(r) ==
  /\ At(r, "lookup")
  /\ \/ /\ Works
        /\ LET plans == PlanCommand(Rows, "guild_text", req[r].event.text)
           IN  Set(r, IF plans # {} THEN Planned(req[r], plans)
                      ELSE [req[r] EXCEPT !.rows = Rows, !.pc = "routing"])
        /\ UNCHANGED <<storeVars, historyVars>>
     \/ Reply(r, "failed")

\* handleSemantic keeps the mode it reads for the rest of the request.
ReadRouting(r) ==
  /\ At(r, "routing")
  /\ \/ /\ Works
        /\ Set(r, IF routing = "off" THEN [req[r] EXCEPT !.rows = << >>, !.pc = "agent"]
                  ELSE [req[r] EXCEPT !.via = routing, !.pc = "semantic"])
        /\ UNCHANGED <<storeVars, historyVars>>
     \/ Reply(r, "failed")

\* The plan of the first of some texts that has one.
FirstOf(texts, rows) ==
  LET matching == {i \in DOMAIN texts : PlanCommand(rows, "guild_text", texts[i]) # {}}
  IN  IF matching = {} THEN {}
      ELSE PlanCommand(rows, "guild_text",
                       texts[CHOOSE i \in matching : \A j \in matching : i <= j])

\* What parseSemanticPluginProposal takes from the model's answer: a command of
\* a plugin, whole.
Usable(proposal) ==
  proposal.intent = "plugin_command" /\ proposal.id # Unset /\ proposal.command.word # Unset

\* SemanticPluginPlanner.Plan: the texts without their polite opening, or
\* else a trigger the model proposes, if an enabled manifest has it.
PlanSemantically(r) ==
  /\ At(r, "semantic")
  /\ LET q        == req[r]
         plans    == FirstOf(SemanticTextCandidates(q.event.text), q.rows)
         proposed == {{}} \cup {PlanCommandFromTrigger(q.rows, "guild_text", p.id, p.command, p.args)
                                  : p \in {proposal \in Proposals : Usable(proposal)}}
         Resumed(found) == IF found # {} THEN Planned(q, found)
                        ELSE [q EXCEPT !.rows = << >>, !.pc = "agent"]
     IN  IF DOMAIN q.rows = {} \/ plans # {}
         THEN Set(r, Resumed(plans)) /\ UNCHANGED <<storeVars, historyVars>>
         ELSE \/ \E found \in proposed : Set(r, Resumed(found)) /\ UNCHANGED <<storeVars, historyVars>>
              \/ Reply(r, "failed")

\* What an authorized plan comes to.  Only a plan found without the model, or
\* with the routing mode on, is dispatched; every other one is shown only.
ThePlan(q) == CHOOSE plan \in q.plan : TRUE

Dispatches(q) ==
  /\ q.via \in {"direct", "enabled"}
  /\ ShouldDispatch(ThePlan(q), ThePlan(q).manifest.publicDispatchAllowed)

\* The audit row comes first: without it nothing is sent for the plan.
RecordOutcome(r) ==
  /\ At(r, "outcome")
  /\ LET outcome == IF Dispatches(req[r]) THEN "dispatch" ELSE "dry_run"
     IN  \/ /\ Works
            /\ Set(r, [Answered(req[r], outcome) EXCEPT !.trail = @ \cup {outcome}])
            /\ UNCHANGED <<storeVars, historyVars>>
         \/ Reply(r, "error")

Failure(q) == IF IsCommand(q.event) THEN "failed" ELSE "error"

\* agent.Runtime: a run of tools (module AgentRun) answers, or its text is
\* empty and the next handler has the message.
RunAgent(r) ==
  /\ At(r, "agent")
  /\ \/ req[r].event.guild /\ Reply(r, "agent")
     \/ Reply(r, Failure(req[r]))
     \/ /\ Set(r, [req[r] EXCEPT !.pc = "chat"])
        /\ UNCHANGED <<storeVars, historyVars>>

\* assistant.Handler has a fixed text for direct messages, for an empty question
\* and for an empty answer; any other answer waits for its two rows in
\* assistant_conversation_turns.
Chat(r) ==
  /\ At(r, "chat")
  /\ \/ Reply(r, "fixed")
     \/ req[r].event.guild /\ Reply(r, Failure(req[r]))
     \/ /\ req[r].event.guild
        /\ Set(r, [req[r] EXCEPT !.pc = "turn_user"])
        /\ UNCHANGED <<storeVars, historyVars>>

\* RecordTurn, first for the question, then for the answer.
RecordTurn(r) ==
  /\ \/ At(r, "turn_user")
     \/ At(r, "turn_assistant")
  /\ LET q   == req[r]
         new == [q EXCEPT !.trail = @ \cup {q.pc}]
     IN  \/ /\ Works
            /\ Set(r, IF q.pc = "turn_user" THEN [new EXCEPT !.pc = "turn_assistant"]
                                            ELSE Answered(new, "chat"))
            /\ UNCHANGED <<storeVars, historyVars>>
         \/ Reply(r, Failure(q))

\* The end of MessageRouter.HandleMessage: the latency setting decides about a
\* suffix (wording), and a card that was posted is edited to show the answer,
\* whatever it is. Whether Discord takes the edit is not looked at.
FinishCard(r) ==
  /\ At(r, "finish")
  /\ \E card \in {req[r].card} \cup (IF req[r].card = "running" THEN {"finished"} ELSE {}) :
       Set(r, [req[r] EXCEPT !.pc = "send", !.card = card])
  /\ UNCHANGED <<storeVars, historyVars>>

\* Whether or not Discord takes the reply, the handler is done.
Send(r) ==
  /\ At(r, "send")
  /\ req' = [q \in DOMAIN req \ {r} |-> req[q]]
  /\ UNCHANGED <<storeVars, historyVars>>

-----------------------------------------------------------------------------
Handle(r) ==
  \/ RefuseOptions(r) \/ HandlerFails(r) \/ ChangeGrants(r) \/ CreateRole(r) \/ GrantCreated(r) \/ ChangeMember(r)
  \/ ImportManifest(r) \/ EnablePlugin(r) \/ DisablePlugin(r) \/ ReadOnly(r)
  \/ ChangeElsewhere(r) \/ NoDefaultModel(r) \/ OpenModal(r) \/ ConsumeModal(r) \/ SaveSecret(r)
  \/ SetRouting(r) \/ SetLatency(r) \/ SetLiveDebug(r) \/ AnswerAtOnce(r) \/ Ask(r) \/ RecordChange(r)

Converse(r) ==
  \/ StartCard(r) \/ CountMentions(r) \/ RecordCount(r)
  \/ LookUpPlugins(r) \/ ReadRouting(r) \/ PlanSemantically(r) \/ RecordOutcome(r)
  \/ RunAgent(r) \/ Chat(r) \/ RecordTurn(r) \/ FinishCard(r)

Authorize(r) == CheckUser(r) \/ CheckRole(r) \/ RecordCheck(r) \/ UseDecision(r)

Advance(r) == Authorize(r) \/ Handle(r) \/ Converse(r) \/ Send(r)

\* History, never read by a guard: of the capabilities a request may need those
\* the author and the roles of the event held, and for a mention the manifests
\* the guild offered and its routing modes, for a submission the modals that
\* could be submitted, at some moment since the request arrived.
HeldBy(rows, actor, roles) == {row[2] : row \in {x \in rows : x[1] \in {actor} \cup roles}}
Needable(event) == IF IsCommand(event) THEN Elements(NeedOf(event)) ELSE WellNamed
Offers(versions, on, inGuild) == IF inGuild THEN {versions[v] : v \in on} ELSE {}
Submittable(pending) == {t \in DOMAIN pending : ~pending[t].expired}

Nothing == [caps |-> {}, offers |-> {}, modes |-> {}, fresh |-> {}]

Observe ==
  seen' = [r \in DOMAIN req' |->
    LET before == IF r \in DOMAIN seen THEN seen[r] ELSE Nothing
        event  == req'[r].event
        If(condition, S) == IF condition THEN S ELSE {}
    IN  [caps   |-> before.caps \cup (HeldBy(grants', event.actor, req'[r].roles) \cap Needable(event)),
         offers |-> before.offers \cup If(IsChat(event), Offers(catalog', enabled', installed')),
         modes  |-> before.modes \cup If(IsChat(event), {routing'}),
         fresh  |-> before.fresh \cup If(event.kind = "submit", Submittable(modals') \cap {event.token})]]

FrontStep ==
  \/ \E r \in Requests : (\E event \in Events : Arrive(r, event)) \/ Advance(r)
  \/ \E t \in Tokens : ModalExpires(t)

Next ==
  \/ ~Exited /\ FrontStep /\ Observe /\ UNCHANGED lifeVars
  \/ LifeNext /\ UNCHANGED frontVars

Spec == Init /\ [][Next]_vars

-----------------------------------------------------------------------------
(* Properties                                                               *)

Permitted(r, cap) == req[r].event.actor \in Admins \/ cap \in seen[r].caps

\* Nothing privileged happens without its permission: for every change made,
\* every count answered and every plan carried out, each capability it needs
\* was granted to the author, or to a role the event carried, at some moment
\* between the arrival and the effect, or the author is an administrator - with grants and roles changing
\* meanwhile, and two statements per check.
EffectsWerePermitted ==
  \A r \in DOMAIN req :
    LET q == req[r]
    IN  /\ (q.changed \/ q.pc = "grant_created" \/ "count" \in q.trail) =>
             \A cap \in Elements(NeedOf(q.event)) : Permitted(r, cap)
        /\ q.trail \cap {"dispatch", "dry_run"} # {} =>
             \A plan \in q.plan : \A cap \in Elements(plan.action.permissions) : Permitted(r, cap)
        /\ q.changed => q.event.guild

\* A command is sent to an external app only for a public action of a manifest
\* that the guild had enabled, and not disabled since, at some moment of the
\* request, of which this very content was imported with consent; and, for a
\* plan of the routing model, while the guild's routing was on.
DispatchIsConsented ==
  \A r \in DOMAIN req :
    req[r].reply = "dispatch" =>
      /\ \A plan \in req[r].plan :
           /\ plan.manifest \in seen[r].offers
           /\ [plan.manifest EXCEPT !.publicDispatchAllowed = FALSE] \in consented
           /\ plan.action.permissions = <<>>
           /\ plan.action.safety = "public"
      /\ req[r].via # "direct" => "enabled" \in seen[r].modes

\* What a reply claims is on record: a change was checked, committed and
\* audited before it is confirmed; a dispatch, a plan shown and a count were
\* audited; a chat answer has both its turns.
TrailIsComplete ==
  \A r \in DOMAIN req :
    LET q == req[r]
    IN  /\ q.changed => "check" \in q.trail
        /\ q.reply = "ok" /\ IsCommand(q.event) /\ Audited(q.event) =>
             q.changed /\ "change" \in q.trail
        /\ q.reply \in {"dispatch", "dry_run", "count"} => q.reply \in q.trail
        /\ q.reply = "chat" => {"turn_user", "turn_assistant"} \subseteq q.trail

\* The token of a credential modal is good for one credential, saved for the
\* member who opened it and only from a submission that arrived before it
\* expired - though several may submit it at once, and the check of the
\* capability lies between the arrival and the lookup of the token.
ModalIsItsOwn ==
  /\ \A t \in DOMAIN opened : opened[t].saves <= 1
  /\ \A r \in DOMAIN req :
       req[r].event.kind = "submit" /\ (req[r].pc = "save" \/ req[r].changed) =>
         LET t == req[r].event.token
         IN  /\ t \in DOMAIN opened
             /\ opened[t].actor = req[r].event.actor
             /\ t \in seen[r].fresh
=============================================================================
