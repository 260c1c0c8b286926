------------------------------ MODULE Manifests ------------------------------
(***************************************************************************)
(* External app manifests: which are valid, which actions they offer, and  *)
(* which plan a text gets (internal/plugins).  Pure operators.             *)
(*                                                                         *)
(* A manifest is a record.  Its identifiers, names, schemas, audit events  *)
(* and attribution are told apart only by being in form (wellFormed); a    *)
(* field a JSON document may leave out is Unset.  A command is a mark ("!" *)
(* or "none") and a word.  A text is a command, its arguments, and whether *)
(* a polite opening ("please ", "can you ") precedes it.                   *)
(***************************************************************************)
EXTENDS Integers, Sequences

CONSTANT WellNamed  \* the strings capability.Normalize accepts

Unset == "unset"

SourceKinds == {"known", "manifest_url", "uploaded_file"}
DispatchModes == {"dry_run", "send_message"}
SafetyClasses == {"public", "restricted"}

Elements(s) == {s[i] : i \in DOMAIN s}

\* The parts of an action and of a manifest.
IsAction(action) ==
  /\ DOMAIN action = {"wellFormed", "trigger", "surfaces", "permissions", "safety", "dispatch", "adapter"}
  /\ action.permissions \in Seq(STRING)

IsManifest(m) ==
  /\ DOMAIN m = {"id", "version", "wellFormed", "sourceKind", "capabilities", "triggers", "actions",
                 "surfaces", "permissions", "dispatch", "publicDispatchAllowed"}
  /\ m.permissions \in Seq(STRING)
  /\ \A action \in Elements(m.actions) : IsAction(action)

-----------------------------------------------------------------------------
(* Manifest.Validate                                                       *)

\* Blank stands for a string of spaces.
Blank == "blank"

ValidTrigger(trigger) ==
  /\ trigger.kind # Blank
  /\ trigger.command.word # Blank
  /\ \A alias \in trigger.aliases : alias.word # Blank

ValidSurfaces(surfaces) == Blank \notin surfaces
ValidPermissions(permissions) == Elements(permissions) \subseteq WellNamed
ValidDispatch(mode) == mode \in DispatchModes \cup {Unset}

\* The surfaces of an action are its own, or else the manifest's.
SurfacesOf(m, action) == IF action.surfaces = {} THEN m.surfaces ELSE action.surfaces

ValidAction(m, action) ==
  /\ action.wellFormed
  /\ ValidTrigger(action.trigger)
  /\ SurfacesOf(m, action) # {}
  /\ ValidSurfaces(SurfacesOf(m, action))
  /\ ValidPermissions(action.permissions)
  /\ action.safety \in SafetyClasses
  /\ action.safety = "public" <=> action.permissions = <<>>
  /\ ValidDispatch(action.dispatch)
  /\ action.adapter \in {Unset, "prefix_command"}

Valid(m) ==
  /\ m.wellFormed
  /\ m.sourceKind \in SourceKinds
  /\ m.capabilities # {} /\ m.capabilities \subseteq WellNamed
  /\ m.triggers # <<>> \/ m.actions # <<>>
  /\ \A trigger \in Elements(m.triggers) : ValidTrigger(trigger)
  /\ m.surfaces # {} \/ m.actions # <<>>
  /\ ValidSurfaces(m.surfaces)
  /\ ValidPermissions(m.permissions)
  /\ ValidDispatch(m.dispatch)
  /\ \A action \in Elements(m.actions) : ValidAction(m, action)

-----------------------------------------------------------------------------
(* NormalizedActions: the actions of a manifest, or else one for each of   *)
(* its triggers, with what they leave out filled in.                       *)

SafetyFor(permissions) == IF permissions = <<>> THEN "public" ELSE "restricted"
OrElse(value, default) == IF value = Unset THEN default ELSE value
NormalizedMode(mode) == OrElse(mode, "dry_run")

\* Surfaces and dispatch mode are inherited, permissions are not.
NormalizedAction(m, action) ==
  [action EXCEPT !.surfaces = SurfacesOf(m, action),
                 !.safety   = OrElse(action.safety, SafetyFor(action.permissions)),
                 !.dispatch = NormalizedMode(OrElse(action.dispatch, m.dispatch)),
                 !.adapter  = OrElse(action.adapter, "prefix_command")]

LegacyAction(m, trigger) ==
  [wellFormed |-> TRUE, trigger |-> trigger, surfaces |-> m.surfaces,
   permissions |-> m.permissions, safety |-> SafetyFor(m.permissions),
   dispatch |-> NormalizedMode(m.dispatch), adapter |-> "prefix_command"]

NormalizedActions(m) ==
  IF m.actions # <<>>
  THEN [i \in DOMAIN m.actions |-> NormalizedAction(m, m.actions[i])]
  ELSE [i \in DOMAIN m.triggers |-> LegacyAction(m, m.triggers[i])]

PublicSend(action) ==
  action.dispatch = "send_message" /\ action.safety = "public" /\ action.permissions = <<>>

HasPublicSendMessageAction(m) == \E action \in Elements(NormalizedActions(m)) : PublicSend(action)

-----------------------------------------------------------------------------
(* PlanCommand and PlanCommandFromTrigger.  The manifests are the rows of  *)
(* a query: a function on positions, in their order.  A plan is returned   *)
(* as a set with at most one element; the empty set is "no plan".          *)

Bare(command) == [mark |-> "none", word |-> command.word]

\* matchPrefixTrigger: the value, the value without its mark, an alias.
Answers(trigger, text) ==
  /\ ~text.polite
  /\ text.command \in {trigger.command, Bare(trigger.command)} \cup trigger.aliases

\* requiredActionCapabilities drops what Normalize refuses: nothing, of a valid
\* action.
NormalizedOnly(permissions) == SelectSeq(permissions, LAMBDA p : p \in WellNamed)

RequiredCapabilities(action) ==
  IF ValidPermissions(action.permissions) THEN action.permissions ELSE NormalizedOnly(action.permissions)

PlanOf(m, action, args) ==
  [manifest |-> m, action |-> action, args |-> args, required |-> RequiredCapabilities(action)]

ActionAt(rows, hit) == NormalizedActions(rows[hit[1]])[hit[2]]

\* The prefix actions for a surface, as positions of a row and of an action.
Offered(rows, surface) ==
  {hit \in UNION {{r} \X DOMAIN NormalizedActions(rows[r]) : r \in DOMAIN rows} :
     surface \in ActionAt(rows, hit).surfaces /\ ActionAt(rows, hit).trigger.kind = "prefix"}

Before(hit, other) == hit[1] < other[1] \/ (hit[1] = other[1] /\ hit[2] <= other[2])

\* The plan of the first of some actions.
FirstPlan(rows, hits, args) ==
  {PlanOf(rows[hit[1]], ActionAt(rows, hit), args) :
     hit \in {h \in hits : \A other \in hits : Before(h, other)}}

PlanCommand(rows, surface, text) ==
  FirstPlan(rows, {hit \in Offered(rows, surface) : Answers(ActionAt(rows, hit).trigger, text)},
            text.args)

PlanCommandFromTrigger(rows, surface, id, command, args) ==
  FirstPlan(rows, {hit \in Offered(rows, surface) :
                     rows[hit[1]].id = id /\ ActionAt(rows, hit).trigger.command = command}, args)

PlanDispatchMode(plan) == OrElse(plan.action.dispatch, NormalizedMode(plan.manifest.dispatch))

PublicAction(plan) == plan.action.safety = "public" /\ plan.required = <<>>

\* Mutant: consent to a public action covers the restricted ones.
ShouldDispatch_Bug(plan, consent) == PlanDispatchMode(plan) = "send_message" /\ consent

\* shouldDispatch of the Discord handler; consent is what the catalog stores
\* with the version (Manifest.PublicDispatchAllowed).
ShouldDispatch(plan, consent) ==
  PlanDispatchMode(plan) = "send_message" /\ consent /\ PublicAction(plan)

\* The text itself and, after a polite opening, the rest of it.
SemanticTextCandidates(text) ==
  IF text.polite THEN <<text, [text EXCEPT !.polite = FALSE]>> ELSE <<text>>

-----------------------------------------------------------------------------
(* HTTPManifestFetcher: what it takes for a manifest to be fetched.        *)
(* A source is the chain of URLs a request goes through (hops), each with  *)
(* the kind of host it names and of address it connects to, and what the   *)
(* last one answers.                                                       *)

SafeHost(url) == url.host \notin {"localhost", "unsafe_address"}
ManifestURL(url) == url.https /\ ~url.user /\ ~url.query /\ ~url.fragment /\ SafeHost(url)
AttachmentURL(url) == url.https /\ ~url.user /\ ~url.fragment /\ SafeHost(url)

MaxRedirects == 9

\* Redirects are held to the same rules; every connection must be to a public
\* address; an attachment's declared type, size and name are looked at first.
Fetched(source) ==
  LET hops == source.hops
      allowed(url) == IF source.attachment THEN AttachmentURL(url) ELSE ManifestURL(url)
  IN  /\ IF source.attachment
         THEN hops[1].https /\ ~hops[1].user /\ source.declared
         ELSE ManifestURL(hops[1])
      /\ Len(hops) - 1 <= MaxRedirects
      /\ \A i \in 2 .. Len(hops) : allowed(hops[i])
      /\ \A i \in DOMAIN hops : hops[i].connectsTo = "public_address"
      /\ source.ok
      /\ source.attachment \/ source.json
      /\ source.size <= source.limit
=============================================================================
