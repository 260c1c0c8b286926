----------------------------- MODULE MCFrontDoor -----------------------------
(***************************************************************************)
(* FrontDoor on a small guild, and RecentRuns, in parts that are explored  *)
(* one at a time.  Each part of FrontDoor has its own events and, but for  *)
(* the part "stop", keeps the process in service.                          *)
(***************************************************************************)
EXTENDS FrontDoor, RecentRuns

CONSTANTS admin, mod, r1, r2, h1, h2, t1

MCUsers == {admin, mod}
MCAdmins == {admin}
MCRoles == {r1, r2}
MCRequests == {h1, h2}
MCTokens == {t1}
MCSymmetry == Permutations(MCRequests)
MCWellNamed == KnownCapabilities \cup {"music.play"}

-----------------------------------------------------------------------------
(* One plugin: a public action that sends, a restricted one, and a legacy   *)
(* manifest of triggers only.                                               *)

Command(mark, word) == [mark |-> mark, word |-> word]
Trigger(word) == [kind |-> "prefix", command |-> Command("!", word), aliases |-> {}]

ActionOf(word, permissions, safety) ==
  [wellFormed |-> TRUE, trigger |-> Trigger(word), surfaces |-> {}, permissions |-> permissions,
   safety |-> safety, dispatch |-> "send_message", adapter |-> Unset]

ManifestOf(version, actions, triggers, permissions, dispatch) ==
  [id |-> "music", version |-> version, wellFormed |-> TRUE, sourceKind |-> Unset,
   capabilities |-> {"music.play"}, triggers |-> triggers, actions |-> actions,
   surfaces |-> {"guild_text"}, permissions |-> permissions, dispatch |-> dispatch,
   publicDispatchAllowed |-> FALSE]

PublicOne == ManifestOf(1, <<ActionOf("play", <<>>, "public"),
                             ActionOf("skip", <<"music.play">>, "restricted")>>, <<>>, <<>>, Unset)
RestrictedOne == ManifestOf(1, <<ActionOf("play", <<"music.play">>, "restricted")>>, <<>>, <<>>, Unset)
LegacyTwo == ManifestOf(2, <<>>, <<Trigger("play")>>, <<>>, "send_message")
NotValid == ManifestOf(2, <<ActionOf("play", <<"music.play">>, "public")>>, <<>>, <<>>, Unset)

Hop(connectsTo) == [https |-> TRUE, user |-> FALSE, query |-> FALSE, fragment |-> FALSE,
                    host |-> "name", connectsTo |-> connectsTo]
Source(manifest, attachment, hops) ==
  [manifest |-> manifest, attachment |-> attachment, declared |-> TRUE, hops |-> hops,
   ok |-> TRUE, json |-> TRUE, size |-> 1, limit |-> 1]
Good == <<Hop("public_address")>>

-----------------------------------------------------------------------------
(* The events of each part.                                                 *)

Text(polite, word) == [polite |-> polite, command |-> Command("!", word), args |-> "song"]

Slash(actor, kind, group, act, options) ==
  [kind |-> kind, guild |-> TRUE, actor |-> actor, group |-> group, act |-> act, options |-> options]
OnRole(actor, act, name, value) == Slash(actor, "permissions", "role", act, "role" :> r2 @@ name :> value)
OnUser(actor, act, cap) == Slash(actor, "permissions", "user", act, [user |-> mod, capability |-> cap])
Import(actor, manifest, allow) ==
  LET attached == manifest.version = 2
      source   == Source(manifest, attached, Good)
  IN  Slash(actor, "plugins", "none", IF attached THEN "import-file" ELSE "import-manifest",
            (IF attached THEN "attachment" ELSE "url") :> source @@ "allow-public-dispatch" :> allow)
Plugin(actor, act, version) ==
  Slash(actor, "plugins", "none", act, [plugin |-> "music", version |-> version])
LLM(actor, group, act, options) == Slash(actor, "llm", group, act, options)
Memory(actor, group, act, options) == Slash(actor, "memory", group, act, options)
Agent(actor, group, act, options) == Slash(actor, "agent", group, act, options)
Submit(actor, token) == [kind |-> "submit", guild |-> TRUE, actor |-> actor, token |-> token]
Said(actor, polite, word) ==
  [kind |-> "message", guild |-> TRUE, actor |-> actor, bot |-> FALSE, mentions |-> TRUE,
   counts |-> FALSE, text |-> Text(polite, word)]
Count == [Said(mod, FALSE, "how") EXCEPT !.counts = TRUE]

PermissionEvents ==
  {Slash(admin, "permissions", "role", "create", [name |-> r2, preset |-> "gigi-admin"]),
   OnRole(admin, "assign", "user", mod), OnRole(mod, "unassign", "user", mod),
   OnUser(admin, "grant", "capability.manage"),
   OnRole(mod, "revoke", "capability", "capability.manage"), Count}

PluginEvents ==
  {Import(admin, PublicOne, TRUE), Import(admin, RestrictedOne, FALSE), Import(admin, LegacyTwo, TRUE),
   Plugin(admin, "enable", 1), Plugin(admin, "enable", 2), Plugin(admin, "disable", 1),
   Said(mod, FALSE, "play"), Said(admin, FALSE, "skip")}

RoutingEvents ==
  {Import(admin, PublicOne, TRUE), Plugin(admin, "enable", 1),
   Said(mod, TRUE, "play"), Said(mod, FALSE, "hello")}
  \cup {LLM(admin, "routing", "set", [mode |-> mode]) : mode \in {"dry-run", "enabled"}}

ModalEvents ==
  {LLM(admin, "provider", "add", [provider |-> "openai", label |-> "main"]),
   LLM(mod, "provider", "rotate", [label |-> "main"]), Submit(admin, t1), Submit(mod, t1),
   OnUser(admin, "grant", "llm.provider.write"), OnUser(admin, "revoke", "llm.provider.write")}

Settings ==
  {Agent(actor, "stats", "guild", "reply-latency" :> mode) : actor \in MCUsers, mode \in {"on", "off"}}
  \cup {Agent(mod, "trace", "mode", [state |-> state]) : state \in {"on", "off"}}
  \cup {Agent(mod, "stats", "guild", << >>), Agent(mod, "trace", "last", << >>),
        Plugin(admin, "list", 1), LLM(admin, "provider", "test", [label |-> "main"]),
        LLM(admin, "model", "set", [purpose |-> "embedding", label |-> "main"]),
        Memory(admin, "none", "count", [text |-> "song", scope |-> "server"]),
        Memory(admin, "settings", "set", [channel |-> "general", mode |-> "full"]),
        Slash(mod, "ping", "none", "none", << >>), Slash(mod, "ask", "none", "none", [question |-> "why"]),
        Said(mod, FALSE, "hello"), [Said(mod, FALSE, "hello") EXCEPT !.guild = FALSE]}

\* Never served, or refused: said by a bot, not said to Gigi, no consent, no
\* valid manifest, an address that is not public, options out of range, no guild.
Refused ==
  {[Said(mod, FALSE, "play") EXCEPT !.bot = TRUE], [Said(mod, FALSE, "play") EXCEPT !.mentions = FALSE],
   Import(admin, PublicOne, FALSE), Import(admin, NotValid, TRUE),
   [Import(admin, PublicOne, TRUE) EXCEPT !.options.url.hops = <<Hop("private_address")>>],
   Memory(admin, "settings", "set", "retention-days" :> 366 @@ [channel |-> "general", mode |-> "full"]),
   Agent(mod, "stats", "guild", [period |-> "1y"]),
   LLM(admin, "provider", "delete", [label |-> "main", confirm |-> FALSE]),
   [OnUser(mod, "grant", "capability.manage") EXCEPT !.guild = FALSE]}

SettingEvents == Settings \cup Refused

StopEvents == {OnUser(admin, "grant", "memory.read.guild"), Count}

PartEvents == [permissions |-> PermissionEvents, plugins |-> PluginEvents,
               routing |-> RoutingEvents, modals |-> ModalEvents, settings |-> SettingEvents, stop |-> StopEvents]

RecentParts == {"followups", "traces"}

MCEvents == UNION {PartEvents[p] : p \in DOMAIN PartEvents}
Proposal(intent, word) == [intent |-> intent, id |-> "music", command |-> Command("!", word), args |-> "song"]
MCProposals == {Proposal("plugin_command", "play"), Proposal("plugin_command", "stop"), Proposal("chat", "play")}

-----------------------------------------------------------------------------
(* What is registered at Discord and what the parsers and the router know   *)
(* are written down in three places of the code: they fit together.  Each   *)
(* registered command is accepted with just the options Discord asks for,   *)
(* not without one of them, and what it needs is a capability of a preset.  *)

Sample ==
  [name |-> "dj", preset |-> "memory-reader", role |-> "dj", user |-> "mod", capability |-> "job.read",
   url |-> "manifest", attachment |-> "manifest", plugin |-> "music", version |-> "1", text |-> "song",
   provider |-> "openai", label |-> "main", confirm |-> TRUE, purpose |-> "chat", mode |-> "off",
   query |-> "song", channel |-> "general", prompt |-> "why", state |-> "on", question |-> "why"]

Filled(kind, path, names) ==
  Slash(admin, kind, path[1], path[2], [name \in names |-> Sample[name]])

ASSUME CommandsFitTogether ==
  \A kind \in DOMAIN Registered : \A path \in DOMAIN Registered[kind] :
    LET asked == Registered[kind][path]
        whole == Filled(kind, path, asked)
    IN  /\ Accepts(whole)
        /\ \A name \in asked : ~Accepts(Filled(kind, path, asked \ {name}))
        /\ Elements(CommandNeeds(whole)) \subseteq KnownPresets["gigi-admin"]
        /\ Audited(whole) => CommandNeeds(whole) # <<>>

VARIABLE part

MCInit ==
  /\ Init
  /\ guildRoles = {r1}
  /\ memberRoles = [u \in Users |-> IF u = mod THEN {r1} ELSE {}]
  /\ RecentInit
  /\ part \in DOMAIN PartEvents \cup RecentParts

\* Outside the part "stop" nothing stops the process.
InService ==
  main' \in {"jobs", "open", "sync", "serve", "serving"} /\ server' # "failed" /\ ~signalled'

\* Two handlers; in the parts about plugins and routing they are one command,
\* whose effect is a single statement, and one mention, which changes nothing
\* that another request reads.
OneOfEach ==
  \A r, q \in DOMAIN req' : IsCommand(req'[r].event) = IsCommand(req'[q].event) => r = q

MCNext ==
  /\ \/ /\ part \in DOMAIN PartEvents
        /\ Next
        /\ \A r \in DOMAIN req' : req'[r].event \in PartEvents[part]
        /\ part # "stop" => InService
        /\ part \in {"plugins", "routing"} => OneOfEach
        /\ UNCHANGED recentVars
     \/ part = "followups" /\ FollowUpNext /\ UNCHANGED vars
     \/ part = "traces" /\ TraceNext /\ UNCHANGED vars
  /\ UNCHANGED part

MCSpec == MCInit /\ [][MCNext]_<<vars, recentVars, part>>
=============================================================================
