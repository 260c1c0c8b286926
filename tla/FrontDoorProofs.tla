--------------------------- MODULE FrontDoorProofs ---------------------------
(***************************************************************************)
(* Proofs about the handlers of Discord's events: what they did was        *)
(* permitted, what they sent to an external app was consented to, what     *)
(* they answered is on record, and a credential modal is good for one      *)
(* credential; and that the shutdown of AppLifecycle, which runs beside    *)
(* them, keeps its order.                                                  *)
(*                                                                         *)
(* FrontInv is the invariant.  Its argument is about one handler at a      *)
(* time: Move lists what a step of a handler makes of its record, with     *)
(* what the guards, the stores and the invariant say of it at that moment; *)
(* every action is shown to be one of these moves, and every move to keep  *)
(* what the invariant says of a record.  The steps of the other handlers,  *)
(* and the stores they change, reach a record only through what it has     *)
(* seen, and that only grows.                                              *)
(***************************************************************************)
EXTENDS FrontDoor, AppLifecycleProofs

-----------------------------------------------------------------------------
(* What holds of a handler by itself.                                      *)

ReqFields == {"pc", "event", "roles", "need", "decision", "plan", "rows", "via",
              "changed", "trail", "card", "reply"}

CommandSteps == {"handle", "grant_created", "save", "record_change"}
MessageSteps == {"card", "count", "record_count", "lookup", "routing", "semantic", "outcome", "finish"}
Checking == {"check_user", "check_role", "decided"}

ReqOK(q) ==
  /\ DOMAIN q = ReqFields /\ q.event \in Events /\ q.need \in Seq(WellNamed) /\ q.changed \in BOOLEAN
  /\ q.pc \in CommandSteps => IsCommand(q.event)
  /\ q.pc \in MessageSteps => ~IsCommand(q.event)
  /\ q.pc = "grant_created" => q.event.kind = "permissions"
  /\ q.pc = "save" => q.event.kind = "submit"
  /\ q.pc = "decided" => q.decision \in {"allowed", "denied", "error"}
  /\ IsCommand(q.event) => q.card = "none"

\* Which requests have a plan, and when.
PlanKept(q) ==
  /\ q.plan = {} \/ \E plan : q.plan = {plan}
  /\ q.plan # {} => ~IsCommand(q.event) /\ ~IsCountQuestion(q.event)
  /\ q.pc = "card" => q.plan = {} /\ q.need = NeedOf(q.event)
  /\ q.pc \in {"lookup", "routing", "semantic"} => q.plan = {} /\ ~IsCountQuestion(q.event)
  /\ q.pc \in {"count", "record_count"} => IsCountQuestion(q.event)
  /\ q.pc \in Checking /\ ~IsCommand(q.event) /\ ~IsCountQuestion(q.event) => q.plan # {}
  /\ q.pc = "outcome" => q.plan # {}
  /\ q.trail \cap {"dispatch", "dry_run"} # {} => q.pc \in {"finish", "send"}
  /\ "count" \in q.trail => IsCountQuestion(q.event)

\* What has been written down before a reply, and in which order.
Recorded(q) ==
  /\ q.pc \in {"handle", "grant_created", "save"} /\ NeedOf(q.event) # <<>> => "check" \in q.trail
  /\ q.changed => IsCommand(q.event) /\ "check" \in q.trail
  /\ q.pc = "check_role" => q.event.guild
  /\ q.pc = "decided" /\ q.decision = "allowed" => q.event.guild
  /\ "check" \in q.trail => q.event.guild
  /\ q.reply = "ok" /\ IsCommand(q.event) /\ Audited(q.event) => q.changed /\ "change" \in q.trail
  /\ q.reply \in {"dispatch", "dry_run", "count"} => q.reply \in q.trail
  /\ q.pc = "turn_assistant" => "turn_user" \in q.trail
  /\ q.reply = "chat" => {"turn_user", "turn_assistant"} \subseteq q.trail

-----------------------------------------------------------------------------
(* What holds of a handler and of what it has seen (s), when the manifests *)
(* in c were imported with consent.                                        *)

\* The capabilities a handler needs for what it is about to do.
Wanted(q) ==
  IF q.plan = {} THEN Elements(NeedOf(q.event))
  ELSE UNION {Elements(plan.action.permissions) : plan \in q.plan}

May(q, s, cap) == q.event.actor \in Admins \/ cap \in s.caps
MayAll(q, s) == \A cap \in Wanted(q) : May(q, s, cap)

\* The checks leave no capability out, and nothing is done before the last.
Checked(q, s) ==
  /\ q.pc \in {"check_user", "check_role"} =>
       /\ q.need # <<>> /\ Elements(q.need) \subseteq Needable(q.event)
       /\ \A cap \in Wanted(q) : May(q, s, cap) \/ cap \in Elements(q.need)
  /\ q.pc = "decided" /\ q.decision = "allowed" => MayAll(q, s)
  /\ q.pc \in {"handle", "grant_created", "save", "count", "record_count", "outcome"} => MayAll(q, s)
  /\ q.changed => MayAll(q, s)
  /\ q.trail \cap {"count", "dispatch", "dry_run"} # {} => MayAll(q, s)

\* A manifest of the catalog: its actions ask for capabilities in form, and it
\* has its public dispatch from an import of the same content with consent.
Sound(m, c) ==
  /\ \A action \in Elements(NormalizedActions(m)) : action.permissions \in Seq(WellNamed)
  /\ m.publicDispatchAllowed => [m EXCEPT !.publicDispatchAllowed = FALSE] \in c

\* A plan made of a manifest that the guild offered.
Fits(plan, s, c) ==
  /\ Sound(plan.manifest, c) /\ plan.manifest \in s.offers
  /\ plan.action \in Elements(NormalizedActions(plan.manifest))
  /\ plan.required = RequiredCapabilities(plan.action)

RowsFit(rows, s, c) == \A v \in DOMAIN rows : Sound(rows[v], c) /\ rows[v] \in s.offers

\* The rows a handler looked up, the plan it made of them, and its routing mode
\* were the guild's while it ran.
PlanOK(q, s, c) ==
  /\ RowsFit(q.rows, s, c)
  /\ \A plan \in q.plan : Fits(plan, s, c)
  /\ q.via = "direct" \/ q.via \in s.modes
  /\ q.reply = "dispatch" => Dispatches(q)

\* All of it.
Alone(q) == ReqOK(q) /\ PlanKept(q) /\ Recorded(q)
Seeing(q, s, c) == Checked(q, s) /\ PlanOK(q, s, c)

-----------------------------------------------------------------------------
(* What relates the handlers to the stores.                                *)

\* seen[r] is never behind the stores.
Current(r) ==
  LET event == req[r].event
  IN  /\ HeldBy(grants, event.actor, req[r].roles) \cap Needable(event) \subseteq seen[r].caps
      /\ IsChat(event) => Offers(catalog, enabled, installed) \subseteq seen[r].offers
      /\ IsChat(event) => routing \in seen[r].modes
      /\ event.kind = "submit" => Submittable(modals) \cap {event.token} \subseteq seen[r].fresh

HandlersOK ==
  /\ DOMAIN seen = DOMAIN req
  /\ \A r \in DOMAIN req : Alone(req[r]) /\ Current(r) /\ Seeing(req[r], seen[r], consented)

CatalogOK ==
  /\ enabled \subseteq DOMAIN catalog /\ (enabled # {} => installed)
  /\ \A v \in DOMAIN catalog : Sound(catalog[v], consented)

Saves(r, t) == req[r].pc = "save" /\ req[r].event.token = t
Owned(r, t) == t \in DOMAIN opened /\ opened[t].actor = req[r].event.actor /\ t \in seen[r].fresh

\* A token is with the store, with the one handler that saves, or used up.
ModalOK ==
  /\ DOMAIN modals \subseteq DOMAIN opened
  /\ \A t \in DOMAIN opened : DOMAIN opened[t] = {"actor", "saves"} /\ opened[t].saves \in {0, 1}
  /\ \A t \in DOMAIN modals :
       /\ modals[t] = [actor |-> opened[t].actor, expired |-> modals[t].expired]
       /\ opened[t].saves = 0
       /\ \A r \in DOMAIN req : ~Saves(r, t)
  /\ \A r \in DOMAIN req :
       /\ req[r].pc = "save" => opened[req[r].event.token].saves = 0
       /\ req[r].event.kind = "submit" /\ (req[r].pc = "save" \/ req[r].changed) =>
            Owned(r, req[r].event.token)
       /\ req[r].pc = "save" => \A q \in DOMAIN req : Saves(q, req[r].event.token) => q = r

FrontInv == HandlersOK /\ CatalogOK /\ ModalOK

-----------------------------------------------------------------------------
(* The moves: what a step makes of the record of its handler.              *)

\* A failure, a refusal, or an answer that claims nothing.
MAnswer(q, new) ==
  /\ q.pc \notin {"finish", "send"}
  /\ \E reply : /\ new = Answered(q, reply)
                /\ reply \notin {"dispatch", "dry_run", "count", "chat"}
                /\ reply = "ok" => ~Audited(q.event)

MRefuse(q, new) ==
  /\ q.pc \in {"check_user", "check_role"}
  /\ new \in {Decided(q, "error"), Decided(q, "denied")}

MGrant(q, s, new) ==
  /\ q.pc \in {"check_user", "check_role"}
  /\ q.event.guild /\ May(q, s, Head(q.need))
  /\ new = Granted(q)

MTryRoles(q, new) == q.pc = "check_user" /\ q.event.guild /\ new = [q EXCEPT !.pc = "check_role"]

MEnter(q, new) ==
  /\ q.pc = "decided" /\ q.decision = "allowed"
  /\ \/ IsCommand(q.event) /\ new = [q EXCEPT !.pc = "handle", !.trail = @ \cup {"check"}]
     \/ /\ ~IsCommand(q.event)
        /\ new = [q EXCEPT !.pc = IF IsCountQuestion(q.event) THEN "count" ELSE "outcome"]

\* Slash commands.
MChange(q, new) ==
  /\ q.pc \in {"handle", "grant_created", "save"} /\ NeedOf(q.event) # <<>>
  /\ new = [q EXCEPT !.changed = TRUE, !.pc = "record_change"]

MCreate(q, new) ==
  q.pc = "handle" /\ q.event.kind = "permissions" /\ new = [q EXCEPT !.pc = "grant_created"]

MConsume(q, new) == q.pc = "handle" /\ q.event.kind = "submit" /\ new = [q EXCEPT !.pc = "save"]

MNoDefault(q, new) == q.pc = "handle" /\ new = [q EXCEPT !.pc = "record_change"]

MLatency(q, new) ==
  /\ q.pc = "handle" /\ NeedOf(q.event) # <<>> /\ ~Audited(q.event)
  /\ new = [Answered(q, "ok") EXCEPT !.changed = TRUE]

MAsk(q, new) == q.pc = "handle" /\ new = [q EXCEPT !.pc = "agent"]

MConfirm(q, new) ==
  /\ q.pc = "record_change"
  /\ new = [Answered(q, IF q.changed THEN "ok" ELSE "no_default") EXCEPT !.trail = @ \cup {"change"}]

MCommand(q, new) ==
  \/ MChange(q, new) \/ MCreate(q, new) \/ MConsume(q, new) \/ MNoDefault(q, new)
  \/ MLatency(q, new) \/ MAsk(q, new) \/ MConfirm(q, new)

\* Messages.
MCard(q, new) ==
  /\ q.pc = "card"
  /\ \E card : new = [q EXCEPT !.card = card,
                        !.pc = IF IsCountQuestion(q.event) THEN "check_user" ELSE "lookup"]

MCount(q, new) ==
  \/ q.pc = "count" /\ new = [q EXCEPT !.pc = "record_count"]
  \/ q.pc = "record_count" /\ new = [Answered(q, "count") EXCEPT !.trail = @ \cup {"count"}]

MPlan(q, s, c, new) ==
  /\ q.pc \in {"lookup", "semantic"}
  /\ \E plans : plans # {} /\ (\A plan \in plans : Fits(plan, s, c)) /\ new = Planned(q, plans)

MLook(q, s, c, new) ==
  /\ q.pc = "lookup"
  /\ \E rows : RowsFit(rows, s, c) /\ new = [q EXCEPT !.rows = rows, !.pc = "routing"]

MRoute(q, s, new) ==
  q.pc = "routing" /\ \E mode \in s.modes : new = [q EXCEPT !.via = mode, !.pc = "semantic"]

MNoPlan(q, new) == q.pc \in {"routing", "semantic"} /\ new = [q EXCEPT !.rows = << >>, !.pc = "agent"]

MOutcome(q, new) ==
  /\ q.pc = "outcome"
  /\ LET outcome == IF Dispatches(q) THEN "dispatch" ELSE "dry_run"
     IN  new = [Answered(q, outcome) EXCEPT !.trail = @ \cup {outcome}]

MChat(q, new) ==
  \/ q.pc = "agent" /\ new = [q EXCEPT !.pc = "chat"]
  \/ q.pc = "chat" /\ new = [q EXCEPT !.pc = "turn_user"]

MTurn(q, new) ==
  \/ q.pc = "turn_user" /\ new = [q EXCEPT !.trail = @ \cup {"turn_user"}, !.pc = "turn_assistant"]
  \/ /\ q.pc = "turn_assistant"
     /\ new = Answered([q EXCEPT !.trail = @ \cup {"turn_assistant"}], "chat")

MFinish(q, new) ==
  q.pc = "finish" /\ \E card : new = [q EXCEPT !.pc = "send", !.card = card]

MTalk(q, new) == MCard(q, new) \/ MCount(q, new) \/ MChat(q, new) \/ MTurn(q, new) \/ MFinish(q, new)

MPlugin(q, s, c, new) ==
  \/ MPlan(q, s, c, new) \/ MLook(q, s, c, new) \/ MRoute(q, s, new) \/ MNoPlan(q, new)
  \/ MOutcome(q, new)

MAuthorize(q, s, new) == MRefuse(q, new) \/ MGrant(q, s, new) \/ MTryRoles(q, new) \/ MEnter(q, new)

Move(q, s, c, new) ==
  MAnswer(q, new) \/ MAuthorize(q, s, new) \/ MCommand(q, new) \/ MTalk(q, new) \/ MPlugin(q, s, c, new)

-----------------------------------------------------------------------------
(* Events, and the capabilities they need.                                 *)

\* Whatever is not a command is a message.
LEMMA MessagesOnly ==
  ASSUME NEW event \in Events
  PROVE  /\ ~IsCommand(event) <=> event.kind = "message"
         /\ ~IsCommand(event) /\ ~IsCountQuestion(event) <=> IsChat(event)
<1>1. event.kind = "message" => ~IsCommand(event)
  BY DEF IsCommand, Registered
<1>2. ~IsCommand(event) => event.kind = "message"
  BY EventAssumption
<1> QED
  BY <1>1, <1>2 DEF IsChat, IsCountQuestion

\* Lists of one capability, and of none.
LEMMA ShortLists == (\A x \in WellNamed : <<x>> \in Seq(WellNamed)) /\ <<>> \in Seq(WellNamed)
<1>1. ASSUME NEW x \in WellNamed PROVE <<x>> \in Seq(WellNamed)
  BY <1>1
<1>2. <<>> \in Seq(WellNamed)
  OBVIOUS
<1> QED
  BY <1>1, <1>2

\* What an event needs is a list of capabilities in form.
LEMMA NeedsInForm ==
  ASSUME NEW event
  PROVE  NeedOf(event) \in Seq(WellNamed)
<1>1. LLMNeeds(event) \in WellNamed /\ MemoryNeeds(event) \in WellNamed
  BY CapabilityAssumption DEF LLMNeeds, MemoryNeeds, KnownCapabilities
<1>2. StatsNeeds(event) \in Seq(WellNamed)
  BY ShortLists, CapabilityAssumption DEF StatsNeeds, KnownCapabilities
<1>3. CommandNeeds(event) \in Seq(WellNamed)
  BY <1>1, <1>2, ShortLists, CapabilityAssumption DEF CommandNeeds, SubmitNeeds, KnownCapabilities
<1> QED
  BY <1>3, ShortLists, CapabilityAssumption DEF NeedOf, KnownCapabilities

\* A message needs capabilities in form.
LEMMA NeedsAreKnown ==
  ASSUME NEW event
  PROVE  Elements(NeedOf(event)) \subseteq Needable(event)
<1>1. CASE IsCommand(event)
  BY <1>1 DEF Needable
<1>2. CASE ~IsCommand(event)
  <2>1. Elements(<<"memory.read.guild">>) = {"memory.read.guild"} /\ Elements(<<>>) = {}
    BY DEF Elements
  <2> QED
    BY <1>2, <2>1, CapabilityAssumption DEF Needable, NeedOf, KnownCapabilities
<1> QED
  BY <1>1, <1>2

-----------------------------------------------------------------------------
(* The moves keep what holds of a handler by itself.                       *)

\* The parts of an answered handler.
LEMMA AnswerParts ==
  ASSUME NEW q, NEW reply, ReqOK(q)
  PROVE  LET new == Answered(q, reply)
         IN  /\ DOMAIN new = ReqFields
             /\ new.reply = reply
             /\ new.pc = IF IsCommand(q.event) THEN "send" ELSE "finish"
             /\ new.event = q.event /\ new.need = q.need /\ new.decision = q.decision
             /\ new.plan = q.plan /\ new.rows = q.rows /\ new.via = q.via /\ new.roles = q.roles
             /\ new.changed = q.changed /\ new.trail = q.trail /\ new.card = q.card
BY DEF ReqOK, ReqFields, Answered

\* The list of what is still to be checked.
LEMMA RestOfNeed ==
  ASSUME NEW need \in Seq(WellNamed), need # <<>>
  PROVE  /\ Len(need) \in Nat /\ Len(need) >= 1
         /\ Head(need) \in Elements(need)
         /\ Len(need) > 1 =>
              /\ Tail(need) \in Seq(WellNamed) /\ Tail(need) # <<>>
              /\ Elements(Tail(need)) \subseteq Elements(need)
              /\ \A cap \in Elements(need) : cap = Head(need) \/ cap \in Elements(Tail(need))
         /\ ~(Len(need) > 1) => \A cap \in Elements(need) : cap = Head(need)
<1>1. Len(need) \in Nat /\ Len(need) >= 1 /\ DOMAIN need = 1 .. Len(need) /\ Head(need) = need[1]
  OBVIOUS
<1>2. Head(need) \in Elements(need)
  BY <1>1 DEF Elements
<1>3. ASSUME Len(need) > 1
      PROVE  /\ Tail(need) \in Seq(WellNamed) /\ Tail(need) # <<>>
             /\ Len(Tail(need)) = Len(need) - 1
             /\ \A i \in 1 .. Len(need) - 1 : Tail(need)[i] = need[i + 1]
  BY <1>1, <1>3
<1>4. ASSUME Len(need) > 1 PROVE Elements(Tail(need)) \subseteq Elements(need)
  <2>1. ASSUME NEW i \in DOMAIN Tail(need) PROVE Tail(need)[i] \in Elements(need)
    BY <1>1, <1>3, <1>4, <2>1 DEF Elements
  <2> QED
    BY <2>1 DEF Elements
<1>5. ASSUME Len(need) > 1, NEW i \in 1 .. Len(need), i # 1 PROVE need[i] \in Elements(Tail(need))
  <2>1. i - 1 \in 1 .. Len(need) - 1 /\ i - 1 \in DOMAIN Tail(need) /\ Tail(need)[i - 1] = need[i]
    BY <1>1, <1>3, <1>5
  <2> QED
    BY <2>1 DEF Elements
<1>6. ASSUME Len(need) > 1, NEW cap \in Elements(need)
      PROVE  cap = Head(need) \/ cap \in Elements(Tail(need))
  BY <1>1, <1>5, <1>6 DEF Elements
<1>7. ASSUME ~(Len(need) > 1), NEW cap \in Elements(need) PROVE cap = Head(need)
  BY <1>1, <1>7 DEF Elements
<1> QED
  BY <1>1, <1>2, <1>3, <1>4, <1>6, <1>7

\* The parts of a handler after a check that succeeded.
LEMMA GrantParts ==
  ASSUME NEW q, ReqOK(q), q.need # <<>>
  PROVE  LET new == Granted(q)
         IN  /\ DOMAIN new = ReqFields
             /\ new.event = q.event /\ new.plan = q.plan /\ new.rows = q.rows /\ new.via = q.via
             /\ new.changed = q.changed /\ new.trail = q.trail /\ new.card = q.card
             /\ new.reply = q.reply /\ new.roles = q.roles
             /\ Len(q.need) > 1 => new.pc = "check_user" /\ new.need = Tail(q.need)
             /\ ~(Len(q.need) > 1) => new.pc = "decided" /\ new.need = <<>> /\ new.decision = "allowed"
BY DEF ReqOK, ReqFields, Granted, Decided

\* What a plan needs is what its action asks for.
LEMMA PlanNeeds ==
  ASSUME NEW plan, NEW s, NEW c, Fits(plan, s, c)
  PROVE  /\ plan.required = plan.action.permissions
         /\ plan.required \in Seq(WellNamed)
         /\ Elements(plan.required) \subseteq WellNamed
<1>1. plan.action.permissions \in Seq(WellNamed)
  BY DEF Fits, Sound
<1>2. Elements(plan.action.permissions) \subseteq WellNamed
  BY <1>1 DEF Elements
<1> QED
  BY <1>1, <1>2 DEF Fits, RequiredCapabilities, ValidPermissions

\* The checks of a capability.
LEMMA AuthorizeKeepsAlone ==
  ASSUME NEW q, NEW s, NEW new, Alone(q), Checked(q, s), MAuthorize(q, s, new)
  PROVE  Alone(new)
<1> USE DEF Alone, ReqOK, ReqFields, PlanKept, Recorded, Checking, CommandSteps, MessageSteps
<1>1. CASE MRefuse(q, new)
  <2>1. PICK decision \in {"error", "denied"} : new = [q EXCEPT !.decision = decision, !.pc = "decided"]
    BY <1>1 DEF MRefuse, Decided
  <2>2. q.pc \in {"check_user", "check_role"}
    BY <1>1 DEF MRefuse
  <2>3. ReqOK(new) /\ PlanKept(new)
    BY <2>1, <2>2
  <2>4. Recorded(new)
    BY <2>1, <2>2
  <2> QED
    BY <2>3, <2>4
<1>2. CASE MGrant(q, s, new)
  <2>1. /\ q.pc \in {"check_user", "check_role"} /\ q.event.guild /\ new = Granted(q)
        /\ q.need # <<>> /\ q.need \in Seq(WellNamed)
    BY <1>2 DEF MGrant, Checked
  <2>2. new.need \in Seq(WellNamed) /\ new.pc \in {"check_user", "decided"}
    <3>1. Len(q.need) > 1 => Tail(q.need) \in Seq(WellNamed)
      BY <2>1, RestOfNeed
    <3>2. /\ Len(q.need) > 1 => new.pc = "check_user" /\ new.need = Tail(q.need)
          /\ ~(Len(q.need) > 1) => new.pc = "decided" /\ new.need = <<>>
      BY <2>1, GrantParts
    <3> QED
      BY <3>1, <3>2, ShortLists
  <2>3. /\ DOMAIN new = ReqFields /\ new.event = q.event /\ new.plan = q.plan /\ new.changed = q.changed
        /\ new.trail = q.trail /\ new.card = q.card /\ new.reply = q.reply
        /\ new.pc = "decided" => new.decision = "allowed"
    BY <2>1, <2>2, GrantParts
  <2>4. ReqOK(new) /\ PlanKept(new)
    BY <2>1, <2>2, <2>3
  <2>5. Recorded(new)
    BY <2>1, <2>2, <2>3
  <2> QED
    BY <2>4, <2>5
<1>3. CASE MTryRoles(q, new)
  BY <1>3 DEF MTryRoles
<1>4. CASE MEnter(q, new) /\ IsCommand(q.event)
  <2>1. q.pc = "decided" /\ q.decision = "allowed" /\ new = [q EXCEPT !.pc = "handle", !.trail = @ \cup {"check"}]
    BY <1>4 DEF MEnter
  <2>2. q.trail \cap {"dispatch", "dry_run"} = {} /\ new.trail = q.trail \cup {"check"}
    BY <2>1
  <2>3. ReqOK(new) /\ PlanKept(new)
    BY <1>4, <2>1, <2>2
  <2>4. Recorded(new)
    BY <1>4, <2>1, <2>2
  <2> QED
    BY <2>3, <2>4
<1>5. CASE MEnter(q, new) /\ ~IsCommand(q.event)
  BY <1>5 DEF MEnter
<1> QED
  BY <1>1, <1>2, <1>3, <1>4, <1>5 DEF MAuthorize

\* The answers, and the steps of slash commands.
LEMMA CommandKeepsAlone ==
  ASSUME NEW q, NEW new, Alone(q), MAnswer(q, new) \/ MCommand(q, new)
  PROVE  Alone(new)
<1> USE DEF Alone, ReqOK, ReqFields, PlanKept, Recorded, Checking, CommandSteps, MessageSteps
<1>1. CASE MAnswer(q, new)
  <2>1. PICK reply : /\ new = Answered(q, reply)
                     /\ reply \notin {"dispatch", "dry_run", "count", "chat"}
                     /\ reply = "ok" => ~Audited(q.event)
    BY <1>1 DEF MAnswer
  <2>2. q.pc \notin {"finish", "send"}
    BY <1>1 DEF MAnswer
  <2>3. ReqOK(new)
    BY <2>1, <2>2, AnswerParts
  <2>4. PlanKept(new)
    <3>1. /\ new.plan = q.plan /\ new.event = q.event /\ new.trail = q.trail
          /\ new.pc \in {"finish", "send"}
      BY <2>1, <2>2, AnswerParts
    <3> QED
      BY <3>1
  <2>5. Recorded(new)
    BY <2>1, <2>2, AnswerParts
  <2> QED
    BY <2>3, <2>4, <2>5
<1>2. CASE MChange(q, new)
  BY <1>2 DEF MChange
<1>3. CASE MCreate(q, new)
  BY <1>3 DEF MCreate
<1>4. CASE MConsume(q, new)
  BY <1>4 DEF MConsume
<1>5. CASE MNoDefault(q, new)
  BY <1>5 DEF MNoDefault
<1>6. CASE MLatency(q, new)
  BY <1>6 DEF MLatency, Answered
<1>7. CASE MAsk(q, new)
  BY <1>7 DEF MAsk
<1>8. CASE MConfirm(q, new)
  BY <1>8 DEF MConfirm, Answered
<1> QED
  BY <1>1, <1>2, <1>3, <1>4, <1>5, <1>6, <1>7, <1>8 DEF MCommand

\* Messages up to the agent, and what the agent and the chat answer.
LEMMA TalkKeepsAlone ==
  ASSUME NEW q, NEW new, Alone(q), MTalk(q, new)
  PROVE  Alone(new)
<1> USE DEF Alone, ReqOK, ReqFields, PlanKept, Recorded, Checking, CommandSteps, MessageSteps
<1>1. CASE MCard(q, new)
  BY <1>1 DEF MCard
<1>2. CASE MCount(q, new)
  <2>1. CASE q.pc = "count"
    BY <1>2, <2>1 DEF MCount
  <2>2. CASE q.pc = "record_count"
    <3>1. new = [Answered(q, "count") EXCEPT !.trail = @ \cup {"count"}]
      BY <1>2, <2>2 DEF MCount
    <3>2. q.trail \cap {"dispatch", "dry_run"} = {} /\ ~IsCommand(q.event)
      BY <2>2
    <3>3. ReqOK(new) /\ PlanKept(new)
      BY <2>2, <3>1, <3>2 DEF Answered
    <3>4. Recorded(new)
      BY <2>2, <3>1, <3>2 DEF Answered
    <3> QED
      BY <3>3, <3>4
  <2> QED
    BY <1>2, <2>1, <2>2 DEF MCount
<1>3. CASE MChat(q, new)
  <2>1. /\ q.pc \in {"agent", "chat"} /\ new.pc \in {"chat", "turn_user"}
        /\ DOMAIN new = DOMAIN q /\ \A part \in DOMAIN q \ {"pc"} : new[part] = q[part]
    BY <1>3 DEF MChat
  <2>2. ReqOK(new) /\ PlanKept(new)
    BY <2>1
  <2>3. Recorded(new)
    BY <2>1
  <2> QED
    BY <2>2, <2>3
<1>4. CASE MTurn(q, new)
  <2>1. CASE q.pc = "turn_user"
    <3>1. new = [q EXCEPT !.trail = @ \cup {"turn_user"}, !.pc = "turn_assistant"]
      BY <1>4, <2>1 DEF MTurn
    <3>2. ReqOK(new) /\ PlanKept(new)
      BY <2>1, <3>1
    <3>3. Recorded(new)
      BY <2>1, <3>1
    <3> QED
      BY <3>2, <3>3
  <2>2. CASE q.pc = "turn_assistant"
    <3>1. new = Answered([q EXCEPT !.trail = @ \cup {"turn_assistant"}], "chat")
      BY <1>4, <2>2 DEF MTurn
    <3>2. ReqOK(new) /\ PlanKept(new)
      BY <2>2, <3>1 DEF Answered
    <3>3. Recorded(new)
      BY <2>2, <3>1 DEF Answered
    <3> QED
      BY <3>2, <3>3
  <2> QED
    BY <1>4, <2>1, <2>2 DEF MTurn
<1>5. CASE MFinish(q, new)
  BY <1>5 DEF MFinish
<1> QED
  BY <1>1, <1>2, <1>3, <1>4, <1>5 DEF MTalk

\* The planning of a plugin's command.
LEMMA PluginKeepsAlone ==
  ASSUME NEW q, NEW s, NEW c, NEW new, Alone(q), MPlugin(q, s, c, new)
  PROVE  Alone(new)
<1> USE DEF Alone, ReqOK, ReqFields, PlanKept, Recorded, Checking, CommandSteps, MessageSteps
<1>1. CASE MPlan(q, s, c, new)
  <2>1. PICK plans : plans # {} /\ (\A plan \in plans : Fits(plan, s, c)) /\ new = Planned(q, plans)
    BY <1>1 DEF MPlan
  <2>2. PICK plan \in plans : plan = CHOOSE p \in plans : TRUE
    BY <2>1
  <2>3. plan.required \in Seq(WellNamed)
    BY <2>1, PlanNeeds
  <2>4. new = [q EXCEPT !.plan = {plan}, !.rows = << >>, !.need = plan.required,
                 !.decision = IF plan.required = <<>> THEN "allowed" ELSE "none",
                 !.pc = IF plan.required = <<>> THEN "outcome" ELSE "check_user"]
    BY <2>1, <2>2 DEF Planned
  <2>5. ~IsCommand(q.event) /\ ~IsCountQuestion(q.event)
    BY <1>1 DEF MPlan
  <2>6. ReqOK(new)
    BY <2>3, <2>4, <2>5
  <2>7. PlanKept(new)
    BY <1>1, <2>4, <2>5 DEF MPlan
  <2>8. Recorded(new)
    BY <1>1, <2>4, <2>5 DEF MPlan
  <2> QED
    BY <2>6, <2>7, <2>8
<1>2. CASE MLook(q, s, c, new)
  BY <1>2 DEF MLook
<1>3. CASE MRoute(q, s, new)
  BY <1>3 DEF MRoute
<1>4. CASE MNoPlan(q, new)
  BY <1>4 DEF MNoPlan
<1>5. CASE MOutcome(q, new)
  BY <1>5 DEF MOutcome, Answered
<1> QED
  BY <1>1, <1>2, <1>3, <1>4, <1>5 DEF MPlugin

-----------------------------------------------------------------------------
(* The moves keep what holds of a handler and of what it has seen.         *)

\* The checks of a capability leave none out.
LEMMA AuthorizeKeepsChecks ==
  ASSUME NEW q, NEW s, NEW new, Alone(q), Checked(q, s), MAuthorize(q, s, new)
  PROVE  Checked(new, s)
<1> USE DEF Alone, ReqOK, ReqFields, Checked, MayAll, May, Wanted
<1>1. CASE MRefuse(q, new)
  BY <1>1 DEF MRefuse, Decided
<1>2. CASE MGrant(q, s, new)
  <2>1. /\ q.pc \in {"check_user", "check_role"} /\ May(q, s, Head(q.need)) /\ new = Granted(q)
        /\ q.need # <<>> /\ q.need \in Seq(WellNamed) /\ Elements(q.need) \subseteq Needable(q.event)
        /\ \A cap \in Wanted(q) : May(q, s, cap) \/ cap \in Elements(q.need)
    BY <1>2 DEF MGrant
  <2>2. /\ new.event = q.event /\ new.plan = q.plan /\ new.changed = q.changed /\ new.trail = q.trail
        /\ \A cap : May(new, s, cap) <=> May(q, s, cap)
        /\ Wanted(new) = Wanted(q)
    BY <2>1, GrantParts
  <2>3. CASE Len(q.need) > 1
    <3>1. new.pc = "check_user" /\ new.need = Tail(q.need)
      BY <2>1, <2>3, GrantParts
    <3>2. /\ Tail(q.need) # <<>> /\ Elements(Tail(q.need)) \subseteq Elements(q.need)
          /\ \A cap \in Elements(q.need) : cap = Head(q.need) \/ cap \in Elements(Tail(q.need))
      BY <2>1, <2>3, RestOfNeed
    <3> HIDE DEF Wanted, May
    <3> QED
      BY <2>1, <2>2, <3>1, <3>2
  <2>4. CASE ~(Len(q.need) > 1)
    <3>1. new.pc = "decided" /\ new.decision = "allowed"
      BY <2>1, <2>4, GrantParts
    <3>2. \A cap \in Elements(q.need) : cap = Head(q.need)
      BY <2>1, <2>4, RestOfNeed
    <3> HIDE DEF Wanted, May
    <3> QED
      BY <2>1, <2>2, <3>1, <3>2
  <2> QED
    BY <2>3, <2>4
<1>3. CASE MTryRoles(q, new)
  BY <1>3 DEF MTryRoles
<1>4. CASE MEnter(q, new) /\ IsCommand(q.event)
  BY <1>4 DEF MEnter
<1>5. CASE MEnter(q, new) /\ ~IsCommand(q.event)
  BY <1>5 DEF MEnter
<1> QED
  BY <1>1, <1>2, <1>3, <1>4, <1>5 DEF MAuthorize

\* The answers, and the steps of slash commands.
LEMMA CommandKeepsChecks ==
  ASSUME NEW q, NEW s, NEW new, Alone(q), Checked(q, s), MAnswer(q, new) \/ MCommand(q, new)
  PROVE  Checked(new, s)
<1> USE DEF Alone, ReqOK, ReqFields, Checked, MayAll, May, Wanted
<1>1. CASE MAnswer(q, new)
  BY <1>1 DEF MAnswer, Answered
<1>2. CASE MChange(q, new)
  BY <1>2 DEF MChange
<1>3. CASE MCreate(q, new)
  BY <1>3 DEF MCreate
<1>4. CASE MConsume(q, new)
  BY <1>4 DEF MConsume
<1>5. CASE MNoDefault(q, new)
  BY <1>5 DEF MNoDefault
<1>6. CASE MLatency(q, new)
  BY <1>6 DEF MLatency, Answered
<1>7. CASE MAsk(q, new)
  BY <1>7 DEF MAsk
<1>8. CASE MConfirm(q, new)
  BY <1>8 DEF MConfirm, Answered
<1> QED
  BY <1>1, <1>2, <1>3, <1>4, <1>5, <1>6, <1>7, <1>8 DEF MCommand

\* Messages up to the agent, and what the agent and the chat answer.
LEMMA TalkKeepsChecks ==
  ASSUME NEW q, NEW s, NEW new, Alone(q), Checked(q, s), MTalk(q, new)
  PROVE  Checked(new, s)
<1> USE DEF Alone, ReqOK, ReqFields, Checked, MayAll, May, Wanted
<1>1. CASE MCard(q, new)
  <2>1. q.pc = "card" /\ q.plan = {} /\ q.need = NeedOf(q.event)
    BY <1>1 DEF MCard, PlanKept
  <2>2. IsCountQuestion(q.event) => NeedOf(q.event) # <<>>
    BY <2>1, ShortLists DEF NeedOf, MessageSteps
  <2>3. Elements(NeedOf(q.event)) \subseteq Needable(q.event)
    BY NeedsAreKnown
  <2> QED
    BY <1>1, <2>1, <2>2, <2>3 DEF MCard
<1>2. CASE MCount(q, new)
  BY <1>2 DEF MCount, Answered
<1>3. CASE MChat(q, new)
  BY <1>3 DEF MChat
<1>4. CASE MTurn(q, new)
  <2>1. /\ q.pc \in {"turn_user", "turn_assistant"} /\ new.pc \in {"turn_assistant", "send", "finish"}
        /\ new.event = q.event /\ new.plan = q.plan /\ new.changed = q.changed /\ new.need = q.need
        /\ new.trail = q.trail \cup {q.pc}
    BY <1>4 DEF MTurn, Answered
  <2> QED
    BY <2>1
<1>5. CASE MFinish(q, new)
  BY <1>5 DEF MFinish
<1> QED
  BY <1>1, <1>2, <1>3, <1>4, <1>5 DEF MTalk

\* The planning of a plugin's command: a new plan asks for new capabilities,
\* and nothing has been done before.
LEMMA PluginKeepsChecks ==
  ASSUME NEW q, NEW s, NEW c, NEW new, Alone(q), Checked(q, s), MPlugin(q, s, c, new)
  PROVE  Checked(new, s)
<1> USE DEF Alone, ReqOK, ReqFields, Checked, MayAll, May, Wanted
<1>1. CASE MPlan(q, s, c, new)
  <2>1. PICK plans : plans # {} /\ (\A plan \in plans : Fits(plan, s, c)) /\ new = Planned(q, plans)
    BY <1>1 DEF MPlan
  <2>2. PICK plan \in plans : plan = CHOOSE p \in plans : TRUE
    BY <2>1
  <2>3. /\ plan.required = plan.action.permissions
        /\ Elements(plan.required) \subseteq WellNamed
    BY <2>1, PlanNeeds
  <2>4. new = [q EXCEPT !.plan = {plan}, !.rows = << >>, !.need = plan.required,
                 !.decision = IF plan.required = <<>> THEN "allowed" ELSE "none",
                 !.pc = IF plan.required = <<>> THEN "outcome" ELSE "check_user"]
    BY <2>1, <2>2 DEF Planned
  <2>5. ~IsCommand(q.event) /\ q.event = new.event /\ Needable(q.event) = WellNamed
    BY <1>1, <2>4 DEF MPlan, MessageSteps, Needable
  <2>6. Wanted(new) = Elements(plan.required)
    <3>1. new.plan = {plan}
      BY <2>4
    <3>2. UNION {Elements(p.action.permissions) : p \in {plan}} = Elements(plan.action.permissions)
      OBVIOUS
    <3> QED
      BY <2>3, <3>1, <3>2
  <2>7. plan.required = <<>> => Wanted(new) = {}
    <3>1. Elements(<<>>) = {}
      BY DEF Elements
    <3> QED
      BY <2>6, <3>1
  <2>8. ~new.changed /\ new.trail \cap {"count", "dispatch", "dry_run"} = {}
    BY <1>1, <2>4 DEF MPlan, PlanKept, Recorded, MessageSteps
  <2> HIDE DEF Wanted
  <2> QED
    BY <2>3, <2>4, <2>5, <2>6, <2>7, <2>8
<1>2. CASE MLook(q, s, c, new)
  BY <1>2 DEF MLook
<1>3. CASE MRoute(q, s, new)
  BY <1>3 DEF MRoute
<1>4. CASE MNoPlan(q, new)
  BY <1>4 DEF MNoPlan
<1>5. CASE MOutcome(q, new)
  BY <1>5 DEF MOutcome, Answered
<1> QED
  BY <1>1, <1>2, <1>3, <1>4, <1>5 DEF MPlugin

\* A step that leaves rows, plan and mode alone, and dispatches nothing new.
LEMMA SamePlan ==
  ASSUME NEW q, NEW s, NEW c, NEW new, PlanOK(q, s, c),
         new.rows = q.rows, new.plan = q.plan, new.via = q.via,
         new.reply = q.reply \/ new.reply # "dispatch"
  PROVE  PlanOK(new, s, c)
BY DEF PlanOK, Dispatches, ThePlan

\* Most moves are such steps.
LEMMA PlainKeepsPlan ==
  ASSUME NEW q, NEW s, NEW c, NEW new, Alone(q), PlanOK(q, s, c), q.need # <<>> \/ ~MGrant(q, s, new),
         MAnswer(q, new) \/ MAuthorize(q, s, new) \/ MCommand(q, new) \/ MTalk(q, new)
  PROVE  PlanOK(new, s, c)
<1>0. DOMAIN q = ReqFields
  BY DEF Alone, ReqOK
<1>1. CASE MGrant(q, s, new)
  BY <1>1, GrantParts, SamePlan DEF MGrant, Alone
<1>2. CASE MAnswer(q, new)
  <2>1. PICK reply : new = Answered(q, reply) /\ reply # "dispatch"
    BY <1>2 DEF MAnswer
  <2> QED
    BY <2>1, AnswerParts, SamePlan DEF Alone
<1>3. CASE MRefuse(q, new) \/ MTryRoles(q, new) \/ MEnter(q, new)
  <2>1. new.rows = q.rows /\ new.plan = q.plan /\ new.via = q.via /\ new.reply = q.reply
    BY <1>0, <1>3 DEF ReqFields, MRefuse, MTryRoles, MEnter, Decided
  <2> QED
    BY <2>1, SamePlan
<1>4. CASE MCommand(q, new)
  <2>1. /\ new.rows = q.rows /\ new.plan = q.plan /\ new.via = q.via
        /\ new.reply \in {q.reply, "ok", "no_default"}
    BY <1>0, <1>4 DEF ReqFields, MCommand, MChange, MCreate, MConsume, MNoDefault, MLatency, MAsk, MConfirm, Answered
  <2> QED
    BY <2>1, SamePlan
<1>5. CASE MTalk(q, new)
  <2>1. /\ new.rows = q.rows /\ new.plan = q.plan /\ new.via = q.via
        /\ new.reply \in {q.reply, "count", "chat"}
    BY <1>0, <1>5 DEF ReqFields, MTalk, MCard, MCount, MChat, MTurn, MFinish, Answered
  <2> QED
    BY <2>1, SamePlan
<1> QED
  BY <1>1, <1>2, <1>3, <1>4, <1>5 DEF MAuthorize

\* The planning: a plan is made of what the guild offered, and dispatched only
\* if it may be.
LEMMA PluginKeepsPlan ==
  ASSUME NEW q, NEW s, NEW c, NEW new, Alone(q), PlanOK(q, s, c), MPlugin(q, s, c, new)
  PROVE  PlanOK(new, s, c)
<1> USE DEF Alone, ReqOK, ReqFields
<1>0. q.pc \notin {"finish", "send"} => q.reply # "dispatch"
  BY DEF PlanKept, Recorded
<1>1. CASE MPlan(q, s, c, new)
  <2>1. PICK plans : plans # {} /\ (\A plan \in plans : Fits(plan, s, c)) /\ new = Planned(q, plans)
    BY <1>1 DEF MPlan
  <2>2. PICK plan \in plans : plan = CHOOSE p \in plans : TRUE
    BY <2>1
  <2>3. new = [q EXCEPT !.plan = {plan}, !.rows = << >>, !.need = plan.required,
                 !.decision = IF plan.required = <<>> THEN "allowed" ELSE "none",
                 !.pc = IF plan.required = <<>> THEN "outcome" ELSE "check_user"]
    BY <2>1, <2>2 DEF Planned
  <2>4. /\ new.plan = {plan} /\ new.rows = << >> /\ new.via = q.via /\ new.reply = q.reply
        /\ q.reply # "dispatch"
    BY <1>0, <1>1, <2>3 DEF MPlan
  <2>5. Fits(plan, s, c)
    BY <2>1
  <2> QED
    BY <2>4, <2>5 DEF PlanOK, RowsFit
<1>2. CASE MLook(q, s, c, new)
  <2>1. PICK rows : RowsFit(rows, s, c) /\ new = [q EXCEPT !.rows = rows, !.pc = "routing"]
    BY <1>2 DEF MLook
  <2>2. new.plan = q.plan /\ new.rows = rows /\ new.via = q.via /\ new.reply = q.reply /\ q.reply # "dispatch"
    BY <1>0, <1>2, <2>1 DEF MLook
  <2> QED
    BY <2>1, <2>2 DEF PlanOK
<1>3. CASE MRoute(q, s, new)
  <2>1. PICK mode \in s.modes : new = [q EXCEPT !.via = mode, !.pc = "semantic"]
    BY <1>3 DEF MRoute
  <2>2. new.plan = q.plan /\ new.rows = q.rows /\ new.via = mode /\ new.reply = q.reply /\ q.reply # "dispatch"
    BY <1>0, <1>3, <2>1 DEF MRoute
  <2> QED
    BY <2>1, <2>2 DEF PlanOK
<1>4. CASE MNoPlan(q, new)
  <2>1. new.plan = q.plan /\ new.rows = << >> /\ new.via = q.via /\ new.reply = q.reply /\ q.reply # "dispatch"
    BY <1>0, <1>4 DEF MNoPlan
  <2> QED
    BY <2>1 DEF PlanOK, RowsFit
<1>5. CASE MOutcome(q, new)
  <2>1. /\ new.plan = q.plan /\ new.rows = q.rows /\ new.via = q.via
        /\ new.reply = IF Dispatches(q) THEN "dispatch" ELSE "dry_run"
    BY <1>5 DEF MOutcome, Answered
  <2> QED
    BY <2>1 DEF PlanOK, Dispatches, ThePlan
<1> QED
  BY <1>1, <1>2, <1>3, <1>4, <1>5 DEF MPlugin

\* Every move keeps what holds of a handler.
LEMMA MovesKeep ==
  ASSUME NEW q, NEW s, NEW c, NEW new, Alone(q), Seeing(q, s, c), Move(q, s, c, new)
  PROVE  Alone(new) /\ Seeing(new, s, c)
<1>1. Checked(q, s) /\ PlanOK(q, s, c)
  BY DEF Seeing
<1>2. q.need # <<>> \/ ~MGrant(q, s, new)
  BY <1>1 DEF Checked, MGrant
<1>3. Alone(new)
  BY <1>1, AuthorizeKeepsAlone, CommandKeepsAlone, TalkKeepsAlone, PluginKeepsAlone DEF Move
<1>4. Checked(new, s)
  BY <1>1, AuthorizeKeepsChecks, CommandKeepsChecks, TalkKeepsChecks, PluginKeepsChecks DEF Move
<1>5. PlanOK(new, s, c)
  BY <1>1, <1>2, PlainKeepsPlan, PluginKeepsPlan DEF Move
<1> QED
  BY <1>3, <1>4, <1>5 DEF Seeing

\* What a handler has seen, and the consent given, only grow.
LEMMA SeeingGrows ==
  ASSUME NEW q, NEW s, NEW c, NEW more, NEW consents, Seeing(q, s, c),
         s.caps \subseteq more.caps, s.offers \subseteq more.offers, s.modes \subseteq more.modes,
         c \subseteq consents
  PROVE  Seeing(q, more, consents)
<1>1. \A cap : May(q, s, cap) => May(q, more, cap)
  BY DEF May
<1>2. Checked(q, more)
  BY <1>1 DEF Seeing, Checked, MayAll
<1>3. \A m : Sound(m, c) => Sound(m, consents)
  BY DEF Sound
<1>4. PlanOK(q, more, consents)
  BY <1>3 DEF Seeing, PlanOK, RowsFit, Fits
<1> QED
  BY <1>2, <1>4 DEF Seeing

-----------------------------------------------------------------------------
(* The plugins: what is planned, what is imported, what is offered.        *)

\* The plans made of some rows.
LEMMA FirstPlansFit ==
  ASSUME NEW rows, NEW s, NEW c, NEW surface, NEW hits, NEW args, RowsFit(rows, s, c),
         hits \subseteq Offered(rows, surface)
  PROVE  \A plan \in FirstPlan(rows, hits, args) : Fits(plan, s, c)
<1> TAKE plan \in FirstPlan(rows, hits, args)
<1>1. PICK hit \in hits : plan = PlanOf(rows[hit[1]], ActionAt(rows, hit), args)
  BY DEF FirstPlan
<1>2. hit[1] \in DOMAIN rows /\ hit[2] \in DOMAIN NormalizedActions(rows[hit[1]])
  BY <1>1 DEF Offered
<1>3. /\ plan.manifest = rows[hit[1]] /\ plan.action = NormalizedActions(rows[hit[1]])[hit[2]]
      /\ plan.required = RequiredCapabilities(plan.action)
  BY <1>1 DEF PlanOf, ActionAt
<1> QED
  BY <1>2, <1>3 DEF Fits, RowsFit, Elements

\* So for a command, for a trigger the model proposes, and for several texts.
LEMMA PlansFit ==
  ASSUME NEW rows, NEW s, NEW c, RowsFit(rows, s, c)
  PROVE  /\ \A text : \A plan \in PlanCommand(rows, "guild_text", text) : Fits(plan, s, c)
         /\ \A p : \A plan \in PlanCommandFromTrigger(rows, "guild_text", p.id, p.command, p.args) :
              Fits(plan, s, c)
         /\ \A texts : \A plan \in FirstOf(texts, rows) : Fits(plan, s, c)
<1>1. ASSUME NEW text, NEW plan \in PlanCommand(rows, "guild_text", text) PROVE Fits(plan, s, c)
  <2>1. PICK hits : /\ hits = {hit \in Offered(rows, "guild_text") : Answers(ActionAt(rows, hit).trigger, text)}
                    /\ plan \in FirstPlan(rows, hits, text.args)
    BY <1>1 DEF PlanCommand
  <2>2. hits \subseteq Offered(rows, "guild_text")
    BY <2>1
  <2> QED
    BY <2>1, <2>2, FirstPlansFit
<1>2. ASSUME NEW p, NEW plan \in PlanCommandFromTrigger(rows, "guild_text", p.id, p.command, p.args)
      PROVE  Fits(plan, s, c)
  <2>1. PICK hits : /\ hits = {hit \in Offered(rows, "guild_text") :
                                 rows[hit[1]].id = p.id /\ ActionAt(rows, hit).trigger.command = p.command}
                    /\ plan \in FirstPlan(rows, hits, p.args)
    BY <1>2 DEF PlanCommandFromTrigger
  <2>2. hits \subseteq Offered(rows, "guild_text")
    BY <2>1
  <2> QED
    BY <2>1, <2>2, FirstPlansFit
<1>3. ASSUME NEW texts, NEW plan \in FirstOf(texts, rows) PROVE Fits(plan, s, c)
  BY <1>1, <1>3 DEF FirstOf
<1> QED
  BY <1>1, <1>2, <1>3

\* What is imported: a manifest in form without its own consent, and its actions
\* ask for capabilities in form, whether it declares them or has triggers only.
LEMMA DecodedIsSound ==
  ASSUME NEW source, IsManifest(source.manifest), Valid(Decoded(source))
  PROVE  /\ IsManifest(Decoded(source))
         /\ \A action \in Elements(NormalizedActions(Decoded(source))) : action.permissions \in Seq(WellNamed)
         /\ [Decoded(source) EXCEPT !.publicDispatchAllowed = FALSE] = Decoded(source)
<1> DEFINE m == Decoded(source)
<1>1. /\ DOMAIN m = DOMAIN source.manifest /\ m.actions = source.manifest.actions
      /\ m.permissions = source.manifest.permissions /\ m.publicDispatchAllowed = FALSE
  BY DEF Decoded, IsManifest
<1>2. [m EXCEPT !.publicDispatchAllowed = FALSE] = m
  BY <1>1 DEF Decoded, IsManifest
<1>3. ASSUME NEW permissions \in Seq(STRING), ValidPermissions(permissions)
      PROVE  permissions \in Seq(WellNamed)
  BY <1>3 DEF ValidPermissions, Elements
<1>4. ASSUME m.actions # <<>>, NEW i \in DOMAIN m.actions
      PROVE  NormalizedActions(m)[i].permissions \in Seq(WellNamed)
  <2>1. PICK action : action = m.actions[i]
    OBVIOUS
  <2>2. action \in Elements(m.actions)
    BY <1>4, <2>1 DEF Elements
  <2>3. IsAction(action)
    BY <1>1, <2>2 DEF IsManifest
  <2>4. ValidPermissions(action.permissions)
    BY <2>2 DEF Valid, ValidAction
  <2>5. NormalizedAction(m, action).permissions = action.permissions
    BY <2>3 DEF NormalizedAction, IsAction
  <2>6. NormalizedActions(m)[i] = NormalizedAction(m, action)
    BY <1>4, <2>1 DEF NormalizedActions
  <2> QED
    BY <1>3, <2>3, <2>4, <2>5, <2>6 DEF IsAction
<1>5. ASSUME m.actions = <<>>, NEW i \in DOMAIN m.triggers
      PROVE  NormalizedActions(m)[i].permissions \in Seq(WellNamed)
  <2>1. m.permissions \in Seq(WellNamed)
    BY <1>1, <1>3 DEF IsManifest, Valid
  <2>2. NormalizedActions(m)[i] = LegacyAction(m, m.triggers[i])
    BY <1>5 DEF NormalizedActions
  <2> QED
    BY <2>1, <2>2 DEF LegacyAction
<1>6. DOMAIN NormalizedActions(m) = IF m.actions # <<>> THEN DOMAIN m.actions ELSE DOMAIN m.triggers
  BY DEF NormalizedActions
<1>7. \A action \in Elements(NormalizedActions(m)) : action.permissions \in Seq(WellNamed)
  BY <1>4, <1>5, <1>6 DEF Elements
<1>8. IsManifest(m)
  BY <1>1 DEF IsManifest
<1> QED
  BY <1>2, <1>7, <1>8

\* Whether a version may be dispatched publicly is no part of its actions.
LEMMA ConsentIsAside ==
  ASSUME NEW m, IsManifest(m), NEW allow
  PROVE  /\ NormalizedActions([m EXCEPT !.publicDispatchAllowed = allow]) = NormalizedActions(m)
         /\ [m EXCEPT !.publicDispatchAllowed = allow].publicDispatchAllowed = allow
<1>1. PICK n : n = [m EXCEPT !.publicDispatchAllowed = allow]
  OBVIOUS
<1>2. /\ n.actions = m.actions /\ n.triggers = m.triggers /\ n.surfaces = m.surfaces
      /\ n.permissions = m.permissions /\ n.dispatch = m.dispatch /\ n.publicDispatchAllowed = allow
  BY <1>1 DEF IsManifest
<1>3. /\ \A action : NormalizedAction(n, action) = NormalizedAction(m, action)
      /\ \A trigger : LegacyAction(n, trigger) = LegacyAction(m, trigger)
  BY <1>2 DEF NormalizedAction, LegacyAction, SurfacesOf
<1>4. NormalizedActions(n) = NormalizedActions(m)
  BY <1>2, <1>3 DEF NormalizedActions
<1> QED
  BY <1>1, <1>2, <1>4

\* A version keeps its manifest and its consent, unless it is imported again;
\* consent is never taken back from what was imported with it.
LEMMA ImportKeepsCatalog ==
  ASSUME CatalogOK, NEW r, req[r].event \in Events, ImportManifest(r)
  PROVE  CatalogOK' /\ consented \subseteq consented'
<1>1. PICK event \in Events : event = req[r].event
  OBVIOUS
<1>2. IsManifest(ManifestSource(event).manifest)
  BY <1>1, EventAssumption DEF ImportManifest, Handling
<1>3. PICK source, allow : source = ManifestSource(event) /\ allow = AllowsPublicDispatch(event)
  OBVIOUS
<1>4. PICK m : m = Decoded(source)
  OBVIOUS
<1>5. /\ Valid(m) /\ catalog' = Upserted(m, allow)
      /\ consented' = (IF allow THEN consented \cup {m} ELSE consented)
      /\ enabled' = enabled /\ installed' = installed
  BY <1>1, <1>3, <1>4 DEF ImportManifest
<1>6. /\ IsManifest(m) /\ [m EXCEPT !.publicDispatchAllowed = FALSE] = m
      /\ \A action \in Elements(NormalizedActions(m)) : action.permissions \in Seq(WellNamed)
  BY <1>2, <1>3, <1>4, <1>5, DecodedIsSound
<1>7. PICK consent : consent = (allow /\ HasPublicSendMessageAction(m))
  OBVIOUS
<1>8. PICK stored : stored = [m EXCEPT !.publicDispatchAllowed = consent]
  OBVIOUS
<1>9. Sound(stored, consented')
  <2>1. NormalizedActions(stored) = NormalizedActions(m) /\ stored.publicDispatchAllowed = consent
    BY <1>6, <1>8, ConsentIsAside
  <2>2. [stored EXCEPT !.publicDispatchAllowed = FALSE] = m
    BY <1>6, <1>8 DEF IsManifest
  <2>3. consent => m \in consented'
    BY <1>5, <1>7
  <2> QED
    BY <1>6, <2>1, <2>2, <2>3 DEF Sound
<1>10. consented \subseteq consented'
  BY <1>5
<1>11. \A v \in DOMAIN catalog : Sound(catalog[v], consented')
  BY <1>10 DEF CatalogOK, Sound
<1>12. /\ DOMAIN catalog' = DOMAIN catalog \cup {m.version}
       /\ \A v \in DOMAIN catalog' : catalog'[v] = IF v # m.version THEN catalog[v] ELSE stored
  BY <1>5, <1>7, <1>8 DEF Upserted
<1>13. \A v \in DOMAIN catalog' : Sound(catalog'[v], consented')
  BY <1>9, <1>11, <1>12
<1> QED
  BY <1>5, <1>10, <1>12, <1>13 DEF CatalogOK

\* The other steps of a handler only enable and disable versions.
LEMMA AdvanceKeepsCatalog ==
  ASSUME CatalogOK, NEW r, req[r].event \in Events, Advance(r)
  PROVE  CatalogOK' /\ consented \subseteq consented'
<1>1. CASE ImportManifest(r)
  BY <1>1, ImportKeepsCatalog
<1>2. CASE EnablePlugin(r)
  BY <1>2 DEF EnablePlugin, CatalogOK
<1>3. CASE DisablePlugin(r)
  BY <1>3 DEF DisablePlugin, DisabledRows, CatalogOK
<1>4. CASE UNCHANGED <<catalog, enabled, installed, consented>>
  BY <1>4 DEF CatalogOK
<1>5. ~ImportManifest(r) /\ ~EnablePlugin(r) /\ ~DisablePlugin(r) => UNCHANGED <<catalog, enabled, installed, consented>>
  <2> USE DEF storeVars, historyVars, Reply
  <2>1. CASE Authorize(r)
    BY <2>1 DEF Authorize, CheckUser, CheckRole, RecordCheck, UseDecision
  <2>2. CASE Converse(r)
    BY <2>2 DEF Converse, StartCard, CountMentions, RecordCount, LookUpPlugins, ReadRouting, PlanSemantically,
                RecordOutcome, RunAgent, Chat, RecordTurn, FinishCard
  <2>3. CASE Send(r)
    BY <2>3 DEF Send
  <2>4. ASSUME Handle(r), ~ImportManifest(r), ~EnablePlugin(r), ~DisablePlugin(r)
        PROVE  UNCHANGED <<catalog, enabled, installed, consented>>
    BY <2>4 DEF Handle, RefuseOptions, HandlerFails, ChangeGrants, CreateRole, GrantCreated, ChangeMember, ReadOnly,
                ChangeElsewhere, NoDefaultModel, OpenModal, ConsumeModal, SaveSecret, SetRouting, SetLatency,
                SetLiveDebug, AnswerAtOnce, Ask, RecordChange
  <2> QED
    BY <2>1, <2>2, <2>3, <2>4 DEF Advance
<1> QED
  BY <1>1, <1>2, <1>3, <1>4, <1>5

-----------------------------------------------------------------------------
(* The actions are moves.                                                  *)

\* Only the submission of a modal saves, and only saving changes anything for it.
Aside(q, new) == new.pc # "save" /\ (new.changed /\ q.event.kind = "submit" => q.changed)

Moves(r) ==
  \E new : Set(r, new) /\ Move(req[r], seen[r], consented, new) /\ Aside(req[r], new)

\* An answer that claims nothing is a move.
LEMMA RepliesMove ==
  ASSUME NEW r, ReqOK(req[r]), NEW reply, Set(r, Answered(req[r], reply)), req[r].pc \notin {"finish", "send"},
         reply \notin {"dispatch", "dry_run", "count", "chat"}, reply = "ok" => ~Audited(req[r].event)
  PROVE  Moves(r)
<1>1. PICK new : new = Answered(req[r], reply)
  OBVIOUS
<1>2. MAnswer(req[r], new)
  BY <1>1 DEF MAnswer
<1>3. Aside(req[r], new)
  BY <1>1, AnswerParts DEF Aside
<1> QED
  BY <1>1, <1>2, <1>3 DEF Moves, Move

\* A command that changes something needs a capability.
LEMMA ChangesNeed ==
  ASSUME NEW event
  PROVE  /\ event.kind \in {"permissions", "plugins", "llm", "memory", "submit"} => NeedOf(event) # <<>>
         /\ event.kind = "agent" /\ SetsLatency(event) /\ Accepts(event) => NeedOf(event) # <<>>
<1>1. \A x : <<x>> # <<>>
  OBVIOUS
<1>2. ASSUME event.kind \in {"permissions", "plugins", "llm", "memory", "submit"} PROVE NeedOf(event) # <<>>
  <2>1. IsCommand(event)
    BY <1>2 DEF IsCommand, Registered
  <2> QED
    BY <1>1, <1>2, <2>1 DEF NeedOf, CommandNeeds
<1>3. ASSUME event.kind = "agent", SetsLatency(event), Accepts(event) PROVE NeedOf(event) # <<>>
  <2>1. IsCommand(event)
    BY <1>3 DEF IsCommand, Registered
  <2>2. AcceptsAgent(event)
    BY <1>3 DEF Accepts
  <2> QED
    BY <1>1, <1>3, <2>1, <2>2 DEF NeedOf, CommandNeeds, StatsNeeds, SetsLatency
<1> QED
  BY <1>2, <1>3

\* What the author, or a role of the event, holds has been seen.
LEMMA HeldIsSeen ==
  ASSUME HandlersOK, NEW r \in DOMAIN req, NEW cap, cap \in Needable(req[r].event),
         UserHolds(req[r].event.actor, cap) \/ RolesHold(req[r], cap)
  PROVE  May(req[r], seen[r], cap)
<1>1. PICK row \in grants : row[1] \in {req[r].event.actor} \cup req[r].roles /\ row[2] = cap
  BY DEF UserHolds, RolesHold
<1>2. cap \in HeldBy(grants, req[r].event.actor, req[r].roles)
  BY <1>1 DEF HeldBy
<1>3. Current(r)
  BY DEF HandlersOK
<1> QED
  BY <1>2, <1>3 DEF Current, May

\* The steps of the evaluator and of those who ask it.
LEMMA AuthorizeMoves ==
  ASSUME HandlersOK, NEW r, Authorize(r)
  PROVE  r \in DOMAIN req /\ Moves(r)
<1>1. r \in DOMAIN req
  BY DEF Authorize, CheckUser, CheckRole, RecordCheck, UseDecision, At
<1>2. PICK q : q = req[r]
  OBVIOUS
<1>3. ReqOK(q) /\ Checked(q, seen[r])
  BY <1>1, <1>2 DEF HandlersOK, Alone, Seeing
<1>4. ASSUME q.pc \in {"check_user", "check_role"}
      PROVE  Head(q.need) \in Needable(q.event) /\ q.need # <<>>
  BY <1>3, <1>4, RestOfNeed DEF Checked, ReqOK
<1>5. ASSUME NEW new, MAuthorize(q, seen[r], new), Set(r, new), new.pc # "save", new.changed = q.changed PROVE Moves(r)
  BY <1>2, <1>5 DEF Moves, Move, Aside
<1>6. ASSUME NEW decision \in {"error", "denied"}, q.pc \in {"check_user", "check_role"}, Set(r, Decided(q, decision))
      PROVE  Moves(r)
  <2>1. PICK new : new = Decided(q, decision)
    OBVIOUS
  <2>2. MRefuse(q, new) /\ new.pc = "decided" /\ new.changed = q.changed
    BY <1>3, <1>6, <2>1 DEF MRefuse, Decided, ReqOK, ReqFields
  <2> QED
    BY <1>5, <1>6, <2>1, <2>2 DEF MAuthorize
<1>7. ASSUME q.pc \in {"check_user", "check_role"}, q.event.guild, May(q, seen[r], Head(q.need)), Set(r, Granted(q))
      PROVE  Moves(r)
  <2>1. PICK new : new = Granted(q)
    OBVIOUS
  <2>2. MGrant(q, seen[r], new) /\ new.pc \in {"check_user", "decided"} /\ new.changed = q.changed
    BY <1>3, <1>4, <1>7, <2>1, GrantParts DEF MGrant
  <2> QED
    BY <1>5, <1>7, <2>1, <2>2 DEF MAuthorize
<1>8. CASE CheckUser(r)
  <2>1. q.pc = "check_user"
    BY <1>2, <1>8 DEF CheckUser, At
  <2>2. \/ Set(r, Decided(q, "error"))
        \/ q.event.guild /\ q.event.actor \in Admins /\ Set(r, Granted(q))
        \/ q.event.guild /\ UserHolds(q.event.actor, Head(q.need)) /\ Set(r, Granted(q))
        \/ q.event.guild /\ Set(r, [q EXCEPT !.pc = "check_role"])
    BY <1>2, <1>8 DEF CheckUser, Identified
  <2>3. ASSUME q.event.guild, Set(r, [q EXCEPT !.pc = "check_role"]) PROVE Moves(r)
    <3>1. PICK new : new = [q EXCEPT !.pc = "check_role"]
      OBVIOUS
    <3>2. MTryRoles(q, new) /\ new.pc = "check_role" /\ new.changed = q.changed
      BY <1>3, <2>1, <2>3, <3>1 DEF MTryRoles, ReqOK, ReqFields
    <3> QED
      BY <1>5, <2>3, <3>1, <3>2 DEF MAuthorize
  <2>4. q.event.actor \in Admins => May(q, seen[r], Head(q.need))
    BY DEF May
  <2>5. UserHolds(q.event.actor, Head(q.need)) => May(q, seen[r], Head(q.need))
    BY <1>1, <1>2, <1>4, <2>1, HeldIsSeen
  <2> QED
    BY <1>1, <1>6, <1>7, <2>1, <2>2, <2>3, <2>4, <2>5
<1>9. CASE CheckRole(r)
  <2>1. q.pc = "check_role" /\ q.event.guild
    BY <1>1, <1>2, <1>9 DEF CheckRole, At, HandlersOK, Alone, Recorded
  <2>2. \/ \E decision \in {"error", "denied"} : Set(r, Decided(q, decision))
        \/ RolesHold(q, Head(q.need)) /\ Set(r, Granted(q))
    BY <1>2, <1>9 DEF CheckRole
  <2>3. RolesHold(q, Head(q.need)) => May(q, seen[r], Head(q.need))
    BY <1>1, <1>2, <1>4, <2>1, HeldIsSeen
  <2> QED
    BY <1>1, <1>6, <1>7, <2>1, <2>2, <2>3
<1>10. ASSUME NEW reply \in {"denied", "failed"}, q.pc = "decided", Reply(r, reply) PROVE Moves(r)
  BY <1>2, <1>3, <1>10, RepliesMove DEF Reply
<1>11. CASE RecordCheck(r)
  <2>1. q.pc = "decided" /\ IsCommand(q.event)
    BY <1>2, <1>11 DEF RecordCheck, At
  <2>2. \/ q.decision = "allowed" /\ Set(r, [q EXCEPT !.pc = "handle", !.trail = @ \cup {"check"}])
        \/ \E reply \in {"denied", "failed"} : Reply(r, reply)
    BY <1>2, <1>11 DEF RecordCheck
  <2>3. ASSUME q.decision = "allowed", Set(r, [q EXCEPT !.pc = "handle", !.trail = @ \cup {"check"}]) PROVE Moves(r)
    <3>1. PICK new : new = [q EXCEPT !.pc = "handle", !.trail = @ \cup {"check"}]
      OBVIOUS
    <3>2. MEnter(q, new)
      BY <2>1, <2>3, <3>1 DEF MEnter
    <3>3. new.pc = "handle" /\ new.changed = q.changed
      BY <1>3, <3>1 DEF ReqOK, ReqFields
    <3> QED
      BY <1>5, <2>3, <3>1, <3>2, <3>3 DEF MAuthorize
  <2> QED
    BY <1>1, <1>10, <2>1, <2>2, <2>3
<1>12. CASE UseDecision(r)
  <2>1. q.pc = "decided" /\ ~IsCommand(q.event)
    BY <1>2, <1>12 DEF UseDecision, At
  <2>2. \/ /\ q.decision = "allowed"
           /\ Set(r, [q EXCEPT !.pc = IF IsCountQuestion(q.event) THEN "count" ELSE "outcome"])
        \/ \E reply \in {"denied", "failed"} : Reply(r, reply)
    BY <1>2, <1>3, <1>12, <2>1 DEF UseDecision, ReqOK
  <2>3. ASSUME q.decision = "allowed", Set(r, [q EXCEPT !.pc = IF IsCountQuestion(q.event) THEN "count" ELSE "outcome"])
        PROVE  Moves(r)
    <3>1. PICK new : new = [q EXCEPT !.pc = IF IsCountQuestion(q.event) THEN "count" ELSE "outcome"]
      OBVIOUS
    <3>2. MEnter(q, new)
      BY <2>1, <2>3, <3>1 DEF MEnter
    <3>3. new.pc # "save" /\ new.changed = q.changed
      BY <1>3, <3>1 DEF ReqOK, ReqFields
    <3> QED
      BY <1>5, <2>3, <3>1, <3>2, <3>3 DEF MAuthorize
  <2> QED
    BY <1>1, <1>10, <2>1, <2>2, <2>3
<1> QED
  BY <1>1, <1>8, <1>9, <1>11, <1>12 DEF Authorize

\* The steps of slash commands, but for the two ends of a modal.
LEMMA HandleMoves ==
  ASSUME HandlersOK, NEW r, Handle(r), ~ConsumeModal(r), ~SaveSecret(r)
  PROVE  r \in DOMAIN req /\ Moves(r)
<1>1. r \in DOMAIN req
  BY DEF Handle, RefuseOptions, HandlerFails, ChangeGrants, CreateRole, GrantCreated, ChangeMember,
         ImportManifest, EnablePlugin, DisablePlugin, ReadOnly, ChangeElsewhere, NoDefaultModel, OpenModal,
         SetRouting, SetLatency, SetLiveDebug, AnswerAtOnce, Ask, RecordChange, Handling, At
<1>2. PICK q : q = req[r]
  OBVIOUS
<1>3. ReqOK(q)
  BY <1>1, <1>2 DEF HandlersOK, Alone
<1>4. ASSUME NEW new, MCommand(q, new), Set(r, new), new.pc # "save",
             new.changed = q.changed \/ q.event.kind # "submit"
      PROVE  Moves(r)
  <2>1. Aside(req[r], new)
    BY <1>2, <1>4 DEF Aside
  <2> QED
    BY <1>2, <1>4, <2>1 DEF Moves, Move
<1>5. ASSUME NEW reply \in {"refused", "failed", "modal", "ok"}, Set(r, Answered(q, reply)),
             q.pc \in {"handle", "grant_created", "record_change"}, reply = "ok" => ~Audited(q.event)
      PROVE  Moves(r)
  BY <1>2, <1>3, <1>5, RepliesMove
<1>6. ASSUME Changed(r), q.pc \in {"handle", "grant_created"},
             q.event.kind \in {"permissions", "plugins", "llm", "memory"}
      PROVE  Moves(r)
  <2>1. PICK new : new = [q EXCEPT !.changed = TRUE, !.pc = "record_change"]
    OBVIOUS
  <2>2. MChange(q, new)
    BY <1>6, <2>1, ChangesNeed DEF MChange
  <2>3. new.pc # "save"
    BY <1>3, <2>1 DEF ReqOK, ReqFields
  <2> QED
    BY <1>2, <1>4, <1>6, <2>1, <2>2, <2>3 DEF MCommand, Changed
<1>7. CASE RefuseOptions(r) \/ HandlerFails(r)
  BY <1>2, <1>5, <1>7 DEF RefuseOptions, HandlerFails, At, Reply
<1>8. CASE ChangeGrants(r) \/ ChangeMember(r) \/ ImportManifest(r) \/ EnablePlugin(r) \/ DisablePlugin(r) \/ SetRouting(r)
  BY <1>2, <1>6, <1>8 DEF ChangeGrants, ChangeMember, ImportManifest, EnablePlugin, DisablePlugin, SetRouting, Handling, At
<1>9. CASE CreateRole(r)
  <2>1. PICK new : new = [q EXCEPT !.pc = "grant_created"]
    OBVIOUS
  <2>2. MCreate(q, new)
    BY <1>2, <1>9, <2>1 DEF MCreate, CreateRole, Handling, At
  <2>3. new.pc = "grant_created" /\ new.changed = q.changed /\ Set(r, new)
    BY <1>2, <1>3, <1>9, <2>1 DEF ReqOK, ReqFields, CreateRole
  <2> QED
    BY <1>1, <1>4, <2>2, <2>3 DEF MCommand
<1>10. CASE GrantCreated(r)
  <2>1. q.pc = "grant_created" /\ q.event.kind = "permissions"
    BY <1>2, <1>3, <1>10 DEF GrantCreated, At, ReqOK
  <2> QED
    BY <1>1, <1>2, <1>5, <1>6, <1>10, <2>1 DEF GrantCreated, Reply
<1>11. CASE ReadOnly(r)
  <2>1. ~Audited(q.event)
    BY <1>2, <1>11 DEF ReadOnly, Reads, Audited, AuditedPlugins
  <2> QED
    BY <1>2, <1>5, <1>11, <2>1 DEF ReadOnly, At, Reply
<1>12. CASE ChangeElsewhere(r)
  BY <1>2, <1>6, <1>12 DEF ChangeElsewhere, ChangesElsewhere, At
<1>13. CASE NoDefaultModel(r)
  <2>1. PICK new : new = [q EXCEPT !.pc = "record_change"]
    OBVIOUS
  <2>2. MNoDefault(q, new)
    BY <1>2, <1>13, <2>1 DEF MNoDefault, NoDefaultModel, Handling, At
  <2>3. new.pc = "record_change" /\ new.changed = q.changed /\ Set(r, new)
    BY <1>2, <1>3, <1>13, <2>1 DEF ReqOK, ReqFields, NoDefaultModel
  <2> QED
    BY <1>1, <1>4, <2>2, <2>3 DEF MCommand
<1>14. CASE OpenModal(r)
  BY <1>2, <1>5, <1>14 DEF OpenModal, Handling, At
<1>15. CASE SetLatency(r)
  <2>1. PICK new : new = [Answered(q, "ok") EXCEPT !.changed = TRUE]
    OBVIOUS
  <2>2. q.event.kind = "agent" /\ SetsLatency(q.event) /\ Accepts(q.event) /\ q.pc = "handle" /\ Set(r, new)
    BY <1>2, <1>15, <2>1 DEF SetLatency, Handling, At
  <2>3. MLatency(q, new)
    BY <2>1, <2>2, ChangesNeed DEF MLatency, Audited
  <2>4. new.pc # "save"
    BY <1>3, <2>1 DEF ReqOK, ReqFields, Answered
  <2> QED
    BY <1>1, <1>4, <2>2, <2>3, <2>4 DEF MCommand
<1>16. CASE SetLiveDebug(r) \/ AnswerAtOnce(r)
  <2>1. q.event.kind \in {"agent", "ping"} /\ q.pc = "handle" /\ Set(r, Answered(q, "ok"))
    BY <1>2, <1>16 DEF SetLiveDebug, AnswerAtOnce, Handling, At, Reply
  <2>2. ~Audited(q.event)
    BY <2>1 DEF Audited
  <2> QED
    BY <1>1, <1>5, <2>1, <2>2
<1>17. CASE Ask(r)
  <2>1. PICK new : new = [q EXCEPT !.pc = "agent"]
    OBVIOUS
  <2>2. MAsk(q, new)
    BY <1>2, <1>17, <2>1 DEF MAsk, Ask, Handling, At
  <2>3. new.pc = "agent" /\ new.changed = q.changed /\ Set(r, new)
    BY <1>2, <1>3, <1>17, <2>1 DEF ReqOK, ReqFields, Ask
  <2> QED
    BY <1>1, <1>4, <2>2, <2>3 DEF MCommand
<1>18. CASE RecordChange(r)
  <2>1. PICK new : new = [Answered(q, IF q.changed THEN "ok" ELSE "no_default") EXCEPT !.trail = @ \cup {"change"}]
    OBVIOUS
  <2>2. q.pc = "record_change"
    BY <1>2, <1>18 DEF RecordChange, At
  <2>3. MConfirm(q, new)
    BY <2>1, <2>2 DEF MConfirm
  <2>4. new.pc # "save" /\ new.changed = q.changed
    BY <1>3, <2>1 DEF ReqOK, ReqFields, Answered
  <2>5. Set(r, new) \/ Set(r, Answered(q, "failed"))
    BY <1>2, <1>18, <2>1 DEF RecordChange, Reply
  <2> QED
    BY <1>1, <1>4, <1>5, <2>2, <2>3, <2>4, <2>5 DEF MCommand
<1> QED
  BY <1>1, <1>7, <1>8, <1>9, <1>10, <1>11, <1>12, <1>13, <1>14, <1>15, <1>16, <1>17, <1>18 DEF Handle

\* The submission of a modal is looked up, and saves.
LEMMA ModalMoves ==
  ASSUME HandlersOK, NEW r, ConsumeModal(r) \/ SaveSecret(r)
  PROVE  /\ r \in DOMAIN req /\ req[r].event.kind = "submit"
         /\ \E new : Set(r, new) /\ Move(req[r], seen[r], consented, new)
<1>1. r \in DOMAIN req
  BY DEF ConsumeModal, SaveSecret, At
<1>2. PICK q : q = req[r]
  OBVIOUS
<1>3. ReqOK(q)
  BY <1>1, <1>2 DEF HandlersOK, Alone
<1>4. q.event.kind = "submit" /\ q.pc \in {"handle", "save"}
  BY <1>2, <1>3 DEF ConsumeModal, SaveSecret, At, ReqOK
<1>5. ASSUME Set(r, Answered(q, "failed")) PROVE Moves(r)
  BY <1>2, <1>3, <1>4, <1>5, RepliesMove
<1>6. ASSUME NEW new, MCommand(q, new), Set(r, new)
      PROVE  \E n : Set(r, n) /\ Move(req[r], seen[r], consented, n)
  BY <1>2, <1>6 DEF Move
<1>7. CASE ConsumeModal(r)
  <2>1. q.pc = "handle" /\ (Set(r, [q EXCEPT !.pc = "save"]) \/ Set(r, Answered(q, "failed")))
    BY <1>2, <1>7 DEF ConsumeModal, At
  <2>2. MConsume(q, [q EXCEPT !.pc = "save"])
    BY <1>4, <2>1 DEF MConsume
  <2> QED
    BY <1>1, <1>2, <1>4, <1>5, <1>6, <2>1, <2>2 DEF MCommand, Moves
<1>8. CASE SaveSecret(r)
  <2>1. q.pc = "save" /\ (Changed(r) \/ Set(r, Answered(q, "failed")))
    BY <1>2, <1>8 DEF SaveSecret, At, Reply
  <2>2. MChange(q, [q EXCEPT !.changed = TRUE, !.pc = "record_change"])
    BY <1>4, <2>1, ChangesNeed DEF MChange
  <2> QED
    BY <1>1, <1>2, <1>4, <1>5, <1>6, <2>1, <2>2 DEF MCommand, Moves, Changed
<1> QED
  BY <1>7, <1>8

\* The rows a handler looks up are what the guild offers.
LEMMA RowsAreOffered ==
  ASSUME HandlersOK, CatalogOK, NEW r \in DOMAIN req, IsChat(req[r].event)
  PROVE  RowsFit(Rows, seen[r], consented)
<1>1. ASSUME NEW v \in enabled
      PROVE  Sound(catalog[v], consented) /\ catalog[v] \in Offers(catalog, enabled, installed)
  BY <1>1 DEF CatalogOK, Offers
<1>2. Offers(catalog, enabled, installed) \subseteq seen[r].offers
  BY DEF HandlersOK, Current
<1> QED
  BY <1>1, <1>2 DEF Rows, RowsFit

\* Looking up a plan, and asking the model for one.
LEMMA PlanningMoves ==
  ASSUME HandlersOK, CatalogOK, NEW r, LookUpPlugins(r) \/ ReadRouting(r) \/ PlanSemantically(r) \/ RecordOutcome(r)
  PROVE  r \in DOMAIN req /\ Moves(r)
<1>1. r \in DOMAIN req /\ req[r].pc \in {"lookup", "routing", "semantic", "outcome"}
  BY DEF LookUpPlugins, ReadRouting, PlanSemantically, RecordOutcome, At
<1>2. PICK q, s, c : q = req[r] /\ s = seen[r] /\ c = consented
  OBVIOUS
<1>3. Alone(q) /\ PlanOK(q, s, c) /\ q.event \in Events /\ ReqOK(q) /\ Current(r)
  BY <1>1, <1>2 DEF HandlersOK, Alone, Seeing, ReqOK
<1>4. ASSUME NEW new, MPlugin(q, s, c, new), Set(r, new), new.pc # "save", new.changed = q.changed
      PROVE  Moves(r)
  BY <1>2, <1>4 DEF Moves, Move, Aside
<1>5. ASSUME NEW reply \in {"failed", "error"}, Reply(r, reply) PROVE Moves(r)
  BY <1>1, <1>2, <1>3, <1>5, RepliesMove DEF Reply
<1>6. ASSUME NEW plans, plans # {}, \A plan \in plans : Fits(plan, s, c), q.pc \in {"lookup", "semantic"},
             Set(r, Planned(q, plans))
      PROVE  Moves(r)
  <2>1. PICK new : new = Planned(q, plans)
    OBVIOUS
  <2>2. MPlan(q, s, c, new)
    BY <1>6, <2>1 DEF MPlan
  <2>3. new.pc # "save" /\ new.changed = q.changed
    BY <1>3, <2>1 DEF Planned, ReqOK, ReqFields
  <2> QED
    BY <1>4, <1>6, <2>1, <2>2, <2>3 DEF MPlugin
<1>7. ASSUME q.pc \in {"routing", "semantic"}, Set(r, [q EXCEPT !.rows = << >>, !.pc = "agent"]) PROVE Moves(r)
  <2>1. PICK new : new = [q EXCEPT !.rows = << >>, !.pc = "agent"]
    OBVIOUS
  <2>2. MNoPlan(q, new)
    BY <1>7, <2>1 DEF MNoPlan
  <2>3. new.pc # "save" /\ new.changed = q.changed
    BY <1>3, <2>1 DEF ReqOK, ReqFields
  <2> QED
    BY <1>4, <1>7, <2>1, <2>2, <2>3 DEF MPlugin
<1>8. q.pc \in {"lookup", "routing", "semantic"} => IsChat(q.event)
  BY <1>3, MessagesOnly DEF Alone, ReqOK, PlanKept, MessageSteps
<1>9. CASE LookUpPlugins(r)
  <2>1. q.pc = "lookup"
    BY <1>2, <1>9 DEF LookUpPlugins, At
  <2>2. PICK rows : rows = Rows
    OBVIOUS
  <2>3. RowsFit(rows, s, c)
    BY <1>1, <1>2, <1>8, <2>1, <2>2, RowsAreOffered
  <2>4. PICK plans : plans = PlanCommand(rows, "guild_text", q.event.text)
    OBVIOUS
  <2>5. \A plan \in plans : Fits(plan, s, c)
    BY <2>3, <2>4, PlansFit
  <2>6. \/ plans # {} /\ Set(r, Planned(q, plans))
        \/ Set(r, [q EXCEPT !.rows = rows, !.pc = "routing"])
        \/ Reply(r, "failed")
    BY <1>2, <1>9, <2>2, <2>4 DEF LookUpPlugins
  <2>7. ASSUME Set(r, [q EXCEPT !.rows = rows, !.pc = "routing"]) PROVE Moves(r)
    <3>1. PICK new : new = [q EXCEPT !.rows = rows, !.pc = "routing"]
      OBVIOUS
    <3>2. MLook(q, s, c, new)
      BY <2>1, <2>3, <3>1 DEF MLook
    <3>3. new.pc # "save" /\ new.changed = q.changed
      BY <1>3, <3>1 DEF ReqOK, ReqFields
    <3> QED
      BY <1>4, <2>7, <3>1, <3>2, <3>3 DEF MPlugin
  <2> QED
    BY <1>1, <1>5, <1>6, <2>1, <2>5, <2>6, <2>7
<1>10. CASE ReadRouting(r)
  <2>1. q.pc = "routing"
    BY <1>2, <1>10 DEF ReadRouting, At
  <2>2. routing \in s.modes
    BY <1>2, <1>3, <1>8, <2>1 DEF Current
  <2>3. \/ Set(r, [q EXCEPT !.rows = << >>, !.pc = "agent"])
        \/ Set(r, [q EXCEPT !.via = routing, !.pc = "semantic"])
        \/ Reply(r, "failed")
    BY <1>2, <1>10 DEF ReadRouting
  <2>4. ASSUME Set(r, [q EXCEPT !.via = routing, !.pc = "semantic"]) PROVE Moves(r)
    <3>1. PICK new : new = [q EXCEPT !.via = routing, !.pc = "semantic"]
      OBVIOUS
    <3>2. MRoute(q, s, new)
      BY <2>1, <2>2, <3>1 DEF MRoute
    <3>3. new.pc # "save" /\ new.changed = q.changed
      BY <1>3, <3>1 DEF ReqOK, ReqFields
    <3> QED
      BY <1>4, <2>4, <3>1, <3>2, <3>3 DEF MPlugin
  <2> QED
    BY <1>1, <1>5, <1>7, <2>1, <2>3, <2>4
<1>11. CASE PlanSemantically(r)
  <2>1. q.pc = "semantic" /\ RowsFit(q.rows, s, c)
    BY <1>2, <1>3, <1>11 DEF PlanSemantically, At, PlanOK
  <2>2. \/ \E texts : LET plans == FirstOf(texts, q.rows)
                      IN  Set(r, IF plans # {} THEN Planned(q, plans) ELSE [q EXCEPT !.rows = << >>, !.pc = "agent"])
        \/ \E p : LET plans == PlanCommandFromTrigger(q.rows, "guild_text", p.id, p.command, p.args)
                  IN  Set(r, IF plans # {} THEN Planned(q, plans) ELSE [q EXCEPT !.rows = << >>, !.pc = "agent"])
        \/ Set(r, [q EXCEPT !.rows = << >>, !.pc = "agent"])
        \/ Reply(r, "failed")
    BY <1>2, <1>11 DEF PlanSemantically
  <2>3. \/ \E plans : plans # {} /\ (\A plan \in plans : Fits(plan, s, c)) /\ Set(r, Planned(q, plans))
        \/ Set(r, [q EXCEPT !.rows = << >>, !.pc = "agent"])
        \/ Reply(r, "failed")
    BY <2>1, <2>2, PlansFit
  <2> QED
    BY <1>1, <1>5, <1>6, <1>7, <2>1, <2>3
<1>12. CASE RecordOutcome(r)
  <2>1. PICK outcome : outcome = IF Dispatches(q) THEN "dispatch" ELSE "dry_run"
    OBVIOUS
  <2>2. PICK new : new = [Answered(q, outcome) EXCEPT !.trail = @ \cup {outcome}]
    OBVIOUS
  <2>3. q.pc = "outcome" /\ (Set(r, new) \/ Reply(r, "error"))
    BY <1>2, <1>12, <2>1, <2>2 DEF RecordOutcome, At
  <2>4. MOutcome(q, new)
    BY <2>1, <2>2, <2>3 DEF MOutcome
  <2>5. new.pc # "save" /\ new.changed = q.changed
    BY <1>3, <2>2 DEF Answered, ReqOK, ReqFields
  <2> QED
    BY <1>1, <1>4, <1>5, <2>3, <2>4, <2>5 DEF MPlugin
<1> QED
  BY <1>9, <1>10, <1>11, <1>12

\* The other steps of a message.
LEMMA TalkMoves ==
  ASSUME HandlersOK, NEW r,
         StartCard(r) \/ CountMentions(r) \/ RecordCount(r) \/ RunAgent(r) \/ Chat(r) \/ RecordTurn(r) \/ FinishCard(r)
  PROVE  r \in DOMAIN req /\ Moves(r)
<1>1. r \in DOMAIN req
  BY DEF StartCard, CountMentions, RecordCount, RunAgent, Chat, RecordTurn, FinishCard, At
<1>2. PICK q : q = req[r]
  OBVIOUS
<1>3. ReqOK(q)
  BY <1>1, <1>2 DEF HandlersOK, Alone
<1>4. ASSUME NEW new, MTalk(q, new), Set(r, new), new.pc # "save", new.changed = q.changed
      PROVE  Moves(r)
  BY <1>2, <1>4 DEF Moves, Move, Aside
<1>5. ASSUME NEW reply \in {"failed", "error", "agent", "fixed"}, Reply(r, reply),
             q.pc \in {"count", "record_count", "agent", "chat", "turn_user", "turn_assistant"}
      PROVE  Moves(r)
  BY <1>2, <1>3, <1>5, RepliesMove DEF Reply
<1>6. Failure(q) \in {"failed", "error"}
  BY DEF Failure
<1>7. CASE StartCard(r)
  <2>1. PICK card : Set(r, [q EXCEPT !.card = card, !.pc = IF IsCountQuestion(q.event) THEN "check_user" ELSE "lookup"])
    BY <1>2, <1>7 DEF StartCard
  <2>2. PICK new : new = [q EXCEPT !.card = card, !.pc = IF IsCountQuestion(q.event) THEN "check_user" ELSE "lookup"]
    OBVIOUS
  <2>3. MCard(q, new)
    BY <1>2, <1>7, <2>2 DEF MCard, StartCard, At
  <2>4. new.pc # "save" /\ new.changed = q.changed
    BY <1>3, <2>2 DEF ReqOK, ReqFields
  <2> QED
    BY <1>1, <1>4, <2>1, <2>2, <2>3, <2>4 DEF MTalk
<1>8. CASE CountMentions(r)
  <2>1. PICK new : new = [q EXCEPT !.pc = "record_count"]
    OBVIOUS
  <2>2. q.pc = "count" /\ (Set(r, new) \/ Reply(r, "failed"))
    BY <1>2, <1>8, <2>1 DEF CountMentions, At
  <2>3. MCount(q, new) /\ new.pc # "save" /\ new.changed = q.changed
    BY <1>3, <2>1, <2>2 DEF MCount, ReqOK, ReqFields
  <2> QED
    BY <1>1, <1>4, <1>5, <2>2, <2>3 DEF MTalk
<1>9. CASE RecordCount(r)
  <2>1. PICK new : new = [Answered(q, "count") EXCEPT !.trail = @ \cup {"count"}]
    OBVIOUS
  <2>2. q.pc = "record_count" /\ (Set(r, new) \/ Reply(r, "error"))
    BY <1>2, <1>9, <2>1 DEF RecordCount, At
  <2>3. MCount(q, new)
    BY <2>1, <2>2 DEF MCount
  <2>4. new.pc # "save" /\ new.changed = q.changed
    BY <1>3, <2>1 DEF Answered, ReqOK, ReqFields
  <2> QED
    BY <1>1, <1>4, <1>5, <2>2, <2>3, <2>4 DEF MTalk
<1>10. CASE RunAgent(r) \/ Chat(r)
  <2>1. PICK next : next = IF q.pc = "agent" THEN "chat" ELSE "turn_user"
    OBVIOUS
  <2>2. PICK new : new = [q EXCEPT !.pc = next]
    OBVIOUS
  <2>3. /\ q.pc \in {"agent", "chat"}
        /\ Set(r, new) \/ \E reply \in {"failed", "error", "agent", "fixed"} : Reply(r, reply)
    BY <1>2, <1>6, <1>10, <2>1, <2>2 DEF RunAgent, Chat, At
  <2>4. MChat(q, new)
    BY <2>1, <2>2, <2>3 DEF MChat
  <2>5. new.pc # "save" /\ new.changed = q.changed
    BY <1>3, <2>1, <2>2 DEF ReqOK, ReqFields
  <2> QED
    BY <1>1, <1>4, <1>5, <2>3, <2>4, <2>5 DEF MTalk
<1>11. CASE RecordTurn(r)
  <2>1. PICK more : more = [q EXCEPT !.trail = @ \cup {q.pc}]
    OBVIOUS
  <2>2. PICK new : new = IF q.pc = "turn_user" THEN [more EXCEPT !.pc = "turn_assistant"] ELSE Answered(more, "chat")
    OBVIOUS
  <2>3. /\ q.pc \in {"turn_user", "turn_assistant"}
        /\ Set(r, new) \/ \E reply \in {"failed", "error"} : Reply(r, reply)
    BY <1>2, <1>6, <1>11, <2>1, <2>2 DEF RecordTurn, At
  <2>4. q.pc = "turn_user" => new = [q EXCEPT !.trail = @ \cup {"turn_user"}, !.pc = "turn_assistant"]
    BY <1>3, <2>1, <2>2 DEF ReqOK, ReqFields
  <2>5. MTurn(q, new)
    BY <2>1, <2>2, <2>3, <2>4 DEF MTurn
  <2>6. new.pc # "save" /\ new.changed = q.changed
    BY <1>3, <2>1, <2>2 DEF Answered, ReqOK, ReqFields
  <2> QED
    BY <1>1, <1>4, <1>5, <2>3, <2>5, <2>6 DEF MTalk
<1>12. CASE FinishCard(r)
  <2>1. PICK card : Set(r, [q EXCEPT !.pc = "send", !.card = card])
    BY <1>2, <1>12 DEF FinishCard
  <2>2. PICK new : new = [q EXCEPT !.pc = "send", !.card = card]
    OBVIOUS
  <2>3. q.pc = "finish" /\ Set(r, new)
    BY <1>2, <1>12, <2>1, <2>2 DEF FinishCard, At
  <2>4. MFinish(q, new) /\ new.pc # "save" /\ new.changed = q.changed
    BY <1>3, <2>2, <2>3 DEF MFinish, ReqOK, ReqFields
  <2> QED
    BY <1>1, <1>4, <2>3, <2>4 DEF MTalk
<1> QED
  BY <1>7, <1>8, <1>9, <1>10, <1>11, <1>12

\* So is every step of a handler but its end.
LEMMA AdvanceMoves ==
  ASSUME HandlersOK, CatalogOK, NEW r, Advance(r), ~Send(r)
  PROVE  /\ r \in DOMAIN req
         /\ \E new : Set(r, new) /\ Move(req[r], seen[r], consented, new)
         /\ ~ConsumeModal(r) /\ ~SaveSecret(r) => Moves(r)
BY AuthorizeMoves, HandleMoves, ModalMoves, PlanningMoves, TalkMoves DEF Advance, Converse, Moves

-----------------------------------------------------------------------------
(* The handlers in the process.                                            *)

\* A handler starts in order.
LEMMA ArrivalsStart ==
  ASSUME NEW q, NEW event \in Events, NEW roles, NEW s, NEW c,
         q = [pc |-> FirstStep(event), event |-> event, roles |-> roles, need |-> NeedOf(event),
              decision |-> "none", plan |-> {}, rows |-> << >>, via |-> "direct",
              changed |-> FALSE, trail |-> {}, card |-> "none", reply |-> "none"]
  PROVE  Alone(q) /\ Seeing(q, s, c)
<1>1. /\ q.pc = FirstStep(event) /\ q.event = event /\ q.need = NeedOf(event) /\ q.plan = {} /\ q.rows = << >>
      /\ q.via = "direct" /\ q.changed = FALSE /\ q.trail = {} /\ q.card = "none" /\ q.reply = "none"
      /\ DOMAIN q = ReqFields
  BY DEF ReqFields
<1>2. /\ NeedOf(event) \in Seq(WellNamed)
      /\ Elements(NeedOf(event)) \subseteq Needable(event)
  BY NeedsInForm, NeedsAreKnown
<1>3. /\ IsCommand(event) => FirstStep(event) = IF NeedOf(event) = <<>> THEN "handle" ELSE "check_user"
      /\ ~IsCommand(event) => FirstStep(event) \in {"card", "agent"}
  BY DEF FirstStep
<1>4. Alone(q)
  BY <1>1, <1>2, <1>3 DEF Alone, ReqOK, PlanKept, Recorded, Checking, CommandSteps, MessageSteps
<1>5. Checked(q, s)
  <2>1. NeedOf(event) = <<>> => Wanted(q) = {}
    BY <1>1 DEF Wanted, Elements
  <2>2. Wanted(q) = Elements(q.need)
    BY <1>1 DEF Wanted
  <2> QED
    BY <1>1, <1>2, <1>3, <2>1, <2>2 DEF Checked, MayAll
<1>6. PlanOK(q, s, c)
  BY <1>1 DEF PlanOK, RowsFit
<1> QED
  BY <1>4, <1>5, <1>6 DEF Seeing

\* What is looked at after a step is what holds then, and nothing is forgotten.
LEMMA ObserveSees ==
  ASSUME Observe
  PROVE  /\ DOMAIN seen' = DOMAIN req'
         /\ \A r \in DOMAIN req' : Current(r)'
         /\ \A r \in DOMAIN req' \cap DOMAIN seen :
              /\ seen[r].caps \subseteq seen'[r].caps /\ seen[r].offers \subseteq seen'[r].offers
              /\ seen[r].modes \subseteq seen'[r].modes /\ seen[r].fresh \subseteq seen'[r].fresh
<1>1. DOMAIN seen' = DOMAIN req'
  BY DEF Observe
<1>2. ASSUME NEW r \in DOMAIN req' PROVE Current(r)'
  BY <1>2 DEF Observe, Current
<1>3. ASSUME NEW r \in DOMAIN req', r \in DOMAIN seen
      PROVE  /\ seen[r].caps \subseteq seen'[r].caps /\ seen[r].offers \subseteq seen'[r].offers
             /\ seen[r].modes \subseteq seen'[r].modes /\ seen[r].fresh \subseteq seen'[r].fresh
  BY <1>3 DEF Observe
<1> QED
  BY <1>1, <1>2, <1>3

\* Which handlers there are after a step.
LEMMA WhoIsThere ==
  ASSUME HandlersOK, CatalogOK, FrontStep
  PROVE  /\ \A r \in DOMAIN req' :
              \/ r \in DOMAIN req /\ req'[r] = req[r]
              \/ r \in DOMAIN req /\ Move(req[r], seen[r], consented, req'[r])
              \/ /\ r \notin DOMAIN req /\ req'[r].pc # "save" /\ ~req'[r].changed
                 /\ \A s, c : Alone(req'[r]) /\ Seeing(req'[r], s, c)
         /\ consented \subseteq consented' /\ CatalogOK'
<1>1. CASE \E r \in Requests : \E event \in Events : Arrive(r, event)
  <2>1. PICK r \in Requests, event \in Events : Arrive(r, event)
    BY <1>1
  <2>2. consented \subseteq consented' /\ CatalogOK'
    BY <2>1 DEF Arrive, storeVars, historyVars, CatalogOK
  <2>3. ASSUME NEW q \in DOMAIN req', q # r PROVE q \in DOMAIN req /\ req'[q] = req[q]
    BY <2>1, <2>3 DEF Arrive
  <2>4. PICK q : q = [pc |-> FirstStep(event), event |-> event,
                      roles |-> memberRoles[event.actor], need |-> NeedOf(event),
                      decision |-> "none", plan |-> {}, rows |-> << >>, via |-> "direct",
                      changed |-> FALSE, trail |-> {}, card |-> "none", reply |-> "none"]
    OBVIOUS
  <2>5. r \notin DOMAIN req /\ r \in DOMAIN req' /\ req'[r] = q
    BY <2>1, <2>4 DEF Arrive
  <2>6. \A s, c : Alone(q) /\ Seeing(q, s, c)
    BY <2>4, ArrivalsStart
  <2>7. q.pc # "save" /\ ~q.changed
    BY <2>4 DEF FirstStep
  <2> QED
    BY <2>2, <2>3, <2>5, <2>6, <2>7
<1>2. CASE \E r \in Requests : Advance(r)
  <2>1. PICK r \in Requests : Advance(r)
    BY <1>2
  <2>2. CASE Send(r)
    BY <2>2 DEF Send, storeVars, historyVars, CatalogOK
  <2>3. CASE ~Send(r)
    <3>1. PICK new : r \in DOMAIN req /\ Set(r, new) /\ Move(req[r], seen[r], consented, new)
      BY <2>1, <2>3, AdvanceMoves
    <3>2. req[r].event \in Events
      BY <3>1 DEF HandlersOK, Alone, ReqOK
    <3>3. consented \subseteq consented' /\ CatalogOK'
      BY <2>1, <3>2, AdvanceKeepsCatalog
    <3>4. \A q \in DOMAIN req' : q \in DOMAIN req /\ req'[q] = IF q = r THEN new ELSE req[q]
      BY <3>1 DEF Set
    <3> QED
      BY <3>1, <3>3, <3>4
  <2> QED
    BY <2>2, <2>3
<1>3. CASE \E t \in Tokens : ModalExpires(t)
  BY <1>3 DEF ModalExpires, historyVars, CatalogOK
<1> QED
  BY <1>1, <1>2, <1>3 DEF FrontStep

\* A step keeps what holds of every handler.
LEMMA HandlersKept ==
  ASSUME HandlersOK, CatalogOK, FrontStep, Observe
  PROVE  HandlersOK' /\ CatalogOK'
<1>1. DOMAIN seen' = DOMAIN req' /\ DOMAIN seen = DOMAIN req /\ consented \subseteq consented' /\ CatalogOK'
  BY ObserveSees, WhoIsThere DEF HandlersOK
<1>2. ASSUME NEW r \in DOMAIN req'
      PROVE  Alone(req'[r]) /\ Seeing(req'[r], seen'[r], consented')
  <2>1. PICK q, s, c, new, more, consents : /\ q = req[r] /\ s = seen[r] /\ c = consented
                                            /\ new = req'[r] /\ more = seen'[r] /\ consents = consented'
    OBVIOUS
  <2>2. CASE r \in DOMAIN req
    <3>1. Alone(q) /\ Seeing(q, s, c)
      BY <2>1, <2>2 DEF HandlersOK
    <3>2. Alone(new) /\ Seeing(new, s, c)
      BY <1>2, <2>1, <2>2, <3>1, WhoIsThere, MovesKeep
    <3>3. /\ s.caps \subseteq more.caps /\ s.offers \subseteq more.offers /\ s.modes \subseteq more.modes
          /\ c \subseteq consents
      BY <1>1, <1>2, <2>1, <2>2, ObserveSees
    <3> QED
      BY <2>1, <3>2, <3>3, SeeingGrows
  <2>3. CASE r \notin DOMAIN req
    BY <1>2, <2>3, WhoIsThere
  <2> QED
    BY <2>2, <2>3
<1>3. \A r \in DOMAIN req' : Current(r)'
  BY ObserveSees
<1> QED
  BY <1>1, <1>2, <1>3 DEF HandlersOK

-----------------------------------------------------------------------------
(* The modals.                                                             *)

\* A step after which no handler saves, or has saved, that did not before.
Quiet ==
  \A r \in DOMAIN req' :
    \/ /\ r \in DOMAIN req /\ req'[r].event = req[r].event /\ seen[r].fresh \subseteq seen'[r].fresh
       /\ req'[r].pc = "save" => req[r].pc = "save"
       /\ req'[r].event.kind = "submit" /\ req'[r].changed => req[r].changed
    \/ req'[r].pc # "save" /\ ~req'[r].changed

\* A handler keeps its event.
LEMMA MovesStay ==
  ASSUME NEW q, NEW s, NEW c, NEW new, Alone(q), Checked(q, s), Move(q, s, c, new)
  PROVE  new.event = q.event
<1>0. DOMAIN q = ReqFields /\ ReqOK(q)
  BY DEF Alone, ReqOK
<1>1. CASE MAnswer(q, new)
  BY <1>0, <1>1, AnswerParts DEF MAnswer
<1>2. CASE MAuthorize(q, s, new)
  <2>1. CASE MGrant(q, s, new)
    BY <1>0, <2>1, GrantParts DEF MGrant, Checked
  <2>2. CASE MRefuse(q, new) \/ MTryRoles(q, new) \/ MEnter(q, new)
    BY <1>0, <2>2 DEF ReqFields, MRefuse, MTryRoles, MEnter, Decided
  <2> QED
    BY <1>2, <2>1, <2>2 DEF MAuthorize
<1>3. CASE MCommand(q, new)
  BY <1>0, <1>3 DEF ReqFields, MCommand, MChange, MCreate, MConsume, MNoDefault, MLatency, MAsk, MConfirm, Answered
<1>4. CASE MTalk(q, new)
  BY <1>0, <1>4 DEF ReqFields, MTalk, MCard, MCount, MChat, MTurn, MFinish, Answered
<1>5. CASE MPlugin(q, s, c, new)
  BY <1>0, <1>5 DEF ReqFields, MPlugin, MPlan, MLook, MRoute, MNoPlan, MOutcome, Planned, Answered
<1> QED
  BY <1>1, <1>2, <1>3, <1>4, <1>5 DEF Move

\* Only the two ends of a modal are not quiet.
LEMMA OthersAreQuiet ==
  ASSUME HandlersOK, CatalogOK, FrontStep, Observe,
         \A r : ~ConsumeModal(r) /\ ~SaveSecret(r)
  PROVE  Quiet
<1>1. ASSUME NEW r \in DOMAIN req' \cap DOMAIN req PROVE seen[r].fresh \subseteq seen'[r].fresh
  BY <1>1, ObserveSees DEF HandlersOK
<1>2. CASE \E r \in Requests : Advance(r) /\ ~Send(r)
  <2>1. PICK r \in Requests : Advance(r) /\ ~Send(r)
    BY <1>2
  <2>2. PICK new : r \in DOMAIN req /\ Set(r, new) /\ Move(req[r], seen[r], consented, new) /\ Aside(req[r], new)
    BY <2>1, AdvanceMoves DEF Moves
  <2>3. new.event = req[r].event
    BY <2>2, MovesStay DEF HandlersOK, Seeing
  <2>4. \A q \in DOMAIN req' : q \in DOMAIN req /\ req'[q] = IF q = r THEN new ELSE req[q]
    BY <2>2 DEF Set
  <2> QED
    BY <1>1, <2>2, <2>3, <2>4 DEF Quiet, Aside
<1>3. CASE \E r \in Requests : Send(r)
  BY <1>1, <1>3 DEF Send, Quiet
<1>4. CASE \E r \in Requests : \E event \in Events : Arrive(r, event)
  <2>1. PICK r \in Requests, event \in Events : Arrive(r, event)
    BY <1>4
  <2>2. ASSUME NEW q \in DOMAIN req', q # r PROVE q \in DOMAIN req /\ req'[q] = req[q]
    BY <2>1, <2>2 DEF Arrive
  <2>3. r \in DOMAIN req' => req'[r].pc # "save" /\ ~req'[r].changed
    BY <2>1 DEF Arrive, FirstStep
  <2> QED
    BY <1>1, <2>2, <2>3 DEF Quiet
<1>5. CASE \E t \in Tokens : ModalExpires(t)
  BY <1>1, <1>5 DEF ModalExpires, Quiet
<1> QED
  BY <1>2, <1>3, <1>4, <1>5 DEF FrontStep

\* What a quiet step leaves: who saves saved before, and what is owned stays so.
LEMMA QuietKeeps ==
  ASSUME ModalOK, Quiet
  PROVE  /\ \A r \in DOMAIN req' : \A t : Saves(r, t)' => r \in DOMAIN req /\ Saves(r, t)
         /\ \A r \in DOMAIN req' :
              req'[r].event.kind = "submit" /\ (req'[r].pc = "save" \/ req'[r].changed) =>
                LET t == req'[r].event.token
                IN  t \in DOMAIN opened /\ opened[t].actor = req'[r].event.actor /\ t \in seen'[r].fresh
<1>1. ASSUME NEW r \in DOMAIN req', NEW t, Saves(r, t)' PROVE r \in DOMAIN req /\ Saves(r, t)
  BY <1>1 DEF Quiet, Saves
<1>2. ASSUME NEW r \in DOMAIN req', req'[r].event.kind = "submit", req'[r].pc = "save" \/ req'[r].changed
      PROVE  LET t == req'[r].event.token
             IN  t \in DOMAIN opened /\ opened[t].actor = req'[r].event.actor /\ t \in seen'[r].fresh
  <2>1. /\ r \in DOMAIN req /\ req'[r].event = req[r].event /\ seen[r].fresh \subseteq seen'[r].fresh
        /\ req[r].pc = "save" \/ req[r].changed
    BY <1>2 DEF Quiet
  <2>2. Owned(r, req[r].event.token)
    BY <1>2, <2>1 DEF ModalOK
  <2> QED
    BY <2>1, <2>2 DEF Owned
<1> QED
  BY <1>1, <1>2

\* Who saves is at the submission of a modal, and owns it.
LEMMA SavingOwns ==
  ASSUME HandlersOK, ModalOK, NEW r \in DOMAIN req, req[r].pc = "save"
  PROVE  req[r].event.kind = "submit" /\ Owned(r, req[r].event.token)
<1>1. req[r].event.kind = "submit"
  BY DEF HandlersOK, Alone, ReqOK
<1> QED
  BY <1>1 DEF ModalOK

\* Quiet steps that open nothing: a modal may expire, and one may be used up.
LEMMA QuietKeepsModals ==
  ASSUME ModalOK, Quiet, UNCHANGED opened, DOMAIN modals' \subseteq DOMAIN modals,
         \A t \in DOMAIN modals' : modals'[t] = [actor |-> modals[t].actor, expired |-> modals'[t].expired]
  PROVE  ModalOK'
<1>1. DOMAIN modals' \subseteq DOMAIN opened'
  BY DEF ModalOK
<1>2. \A t \in DOMAIN opened' : DOMAIN opened'[t] = {"actor", "saves"} /\ opened'[t].saves \in {0, 1}
  BY DEF ModalOK
<1>3. ASSUME NEW t \in DOMAIN modals'
      PROVE  /\ modals'[t] = [actor |-> opened'[t].actor, expired |-> modals'[t].expired]
             /\ opened'[t].saves = 0
             /\ \A r \in DOMAIN req' : ~Saves(r, t)'
  <2>1. modals[t].actor = opened[t].actor /\ opened[t].saves = 0 /\ \A r \in DOMAIN req : ~Saves(r, t)
    BY <1>3 DEF ModalOK
  <2> QED
    BY <1>3, <2>1, QuietKeeps
<1>4. ASSUME NEW r \in DOMAIN req', req'[r].pc = "save"
      PROVE  /\ opened'[req'[r].event.token].saves = 0
             /\ \A q \in DOMAIN req' : Saves(q, req[r].event.token)' => q = r
  <2>1. PICK t : t = req'[r].event.token
    OBVIOUS
  <2>2. r \in DOMAIN req /\ Saves(r, t)
    BY <1>4, <2>1, QuietKeeps DEF Saves
  <2>3. opened[t].saves = 0 /\ \A q \in DOMAIN req : Saves(q, t) => q = r
    BY <2>2 DEF ModalOK, Saves
  <2> QED
    BY <2>1, <2>3, QuietKeeps DEF Saves
<1>5. ASSUME NEW r \in DOMAIN req', req'[r].event.kind = "submit", req'[r].pc = "save" \/ req'[r].changed
      PROVE  Owned(r, req[r].event.token)'
  BY <1>5, QuietKeeps DEF Owned
<1> QED
  BY <1>1, <1>2, <1>3, <1>4, <1>5 DEF ModalOK

\* A modal is opened under a token that was never drawn.
LEMMA OpeningKeepsModals ==
  ASSUME HandlersOK, ModalOK, Quiet, NEW t, t \notin DOMAIN opened, NEW actor,
         modals' = With(modals, t, Pending(actor)),
         opened' = With(opened, t, [actor |-> actor, saves |-> 0])
  PROVE  ModalOK'
<1>1. /\ DOMAIN modals' = DOMAIN modals \cup {t} /\ DOMAIN opened' = DOMAIN opened \cup {t}
      /\ modals'[t] = [actor |-> actor, expired |-> FALSE] /\ opened'[t] = [actor |-> actor, saves |-> 0]
      /\ \A u \in DOMAIN modals : u # t => modals'[u] = modals[u]
      /\ \A u \in DOMAIN opened : u # t => opened'[u] = opened[u]
      /\ DOMAIN modals \subseteq DOMAIN opened
  BY DEF With, Pending, ModalOK
<1>2. \A u \in DOMAIN opened' : DOMAIN opened'[u] = {"actor", "saves"} /\ opened'[u].saves \in {0, 1}
  BY <1>1 DEF ModalOK
<1>3. ASSUME NEW r \in DOMAIN req', req'[r].pc = "save"
      PROVE  /\ r \in DOMAIN req /\ Saves(r, req'[r].event.token) /\ req'[r].event.token \in DOMAIN opened
             /\ req'[r].event.token # t
  <2>1. r \in DOMAIN req /\ Saves(r, req'[r].event.token)
    BY <1>3, QuietKeeps DEF Saves
  <2>2. req'[r].event = req[r].event /\ req[r].pc = "save"
    BY <1>3, <2>1 DEF Quiet
  <2>3. req'[r].event.token \in DOMAIN opened
    BY <2>1, <2>2, SavingOwns DEF Owned
  <2> QED
    BY <2>1, <2>3
<1>4. ASSUME NEW u \in DOMAIN modals'
      PROVE  /\ modals'[u] = [actor |-> opened'[u].actor, expired |-> modals'[u].expired]
             /\ opened'[u].saves = 0
             /\ \A r \in DOMAIN req' : ~Saves(r, u)'
  <2>1. CASE u = t
    BY <1>1, <1>3, <2>1 DEF Saves
  <2>2. CASE u # t
    <3>1. u \in DOMAIN modals /\ u \in DOMAIN opened
      BY <1>1, <1>4, <2>2
    <3>2. /\ modals[u] = [actor |-> opened[u].actor, expired |-> modals[u].expired]
          /\ opened[u].saves = 0 /\ \A r \in DOMAIN req : ~Saves(r, u)
      BY <3>1 DEF ModalOK
    <3> QED
      BY <1>1, <2>2, <3>1, <3>2, QuietKeeps
  <2> QED
    BY <2>1, <2>2
<1>5. ASSUME NEW r \in DOMAIN req', req'[r].pc = "save"
      PROVE  /\ opened'[req'[r].event.token].saves = 0
             /\ \A q \in DOMAIN req' : Saves(q, req[r].event.token)' => q = r
  <2>1. PICK u : u = req'[r].event.token
    OBVIOUS
  <2>2. r \in DOMAIN req /\ Saves(r, u) /\ u \in DOMAIN opened /\ u # t
    BY <1>3, <1>5, <2>1
  <2>3. opened[u].saves = 0 /\ \A q \in DOMAIN req : Saves(q, u) => q = r
    BY <2>2 DEF ModalOK, Saves
  <2> QED
    BY <1>1, <2>1, <2>2, <2>3, QuietKeeps DEF Saves
<1>6. ASSUME NEW r \in DOMAIN req', req'[r].event.kind = "submit", req'[r].pc = "save" \/ req'[r].changed
      PROVE  Owned(r, req[r].event.token)'
  BY <1>1, <1>6, QuietKeeps DEF Owned
<1> QED
  BY <1>1, <1>2, <1>4, <1>5, <1>6 DEF ModalOK

\* The first submission of a token gets it, if it is the member's own and the
\* modal is not too old; nobody gets it after that.
LEMMA ConsumingKeepsModals ==
  ASSUME HandlersOK, ModalOK, Observe, NEW r, ConsumeModal(r)
  PROVE  ModalOK'
<1>1. PICK t, actor, n : t = req[r].event.token /\ actor = req[r].event.actor /\ n = [req[r] EXCEPT !.pc = "save"]
  OBVIOUS
<1>2. /\ r \in DOMAIN req /\ req[r].pc = "handle" /\ req[r].event.kind = "submit"
      /\ modals' = Consumed(t) /\ opened' = opened
      /\ req' = [req EXCEPT ![r] = IF t \in DOMAIN modals /\ modals[t] = Pending(actor)
                                   THEN n ELSE Answered(req[r], "failed")]
  BY <1>1 DEF ConsumeModal, At, Set, historyVars
<1>3. ReqOK(req[r])
  BY <1>2 DEF HandlersOK, Alone
<1>4. DOMAIN req' = DOMAIN req /\ DOMAIN seen = DOMAIN req /\ \A q \in DOMAIN req : q # r => req'[q] = req[q]
  BY <1>2 DEF HandlersOK
<1>5. \A q \in DOMAIN req : seen[q].fresh \subseteq seen'[q].fresh
  BY <1>4, ObserveSees
<1>6. DOMAIN modals' = DOMAIN modals \ {t} /\ \A u \in DOMAIN modals' : modals'[u] = modals[u]
  BY <1>2 DEF Consumed
<1>7. CASE t \in DOMAIN modals /\ modals[t] = Pending(actor)
  <2>1. req'[r] = n /\ n.pc = "save" /\ n.event = req[r].event /\ n.changed = req[r].changed
    BY <1>1, <1>2, <1>3, <1>7 DEF ReqOK, ReqFields
  <2>2. /\ t \in DOMAIN opened /\ opened[t].actor = actor /\ opened[t].saves = 0
        /\ \A q \in DOMAIN req : ~Saves(q, t)
    BY <1>7 DEF ModalOK, Pending
  <2>3. t \in seen[r].fresh
    <3>1. t \in Submittable(modals)
      BY <1>7 DEF Submittable, Pending
    <3> QED
      BY <1>1, <1>2, <3>1 DEF HandlersOK, Current
  <2>4. ASSUME NEW q \in DOMAIN req', NEW u, Saves(q, u)'
        PROVE  \/ q = r /\ u = t
               \/ q # r /\ Saves(q, u) /\ u # t
    BY <1>1, <1>4, <2>1, <2>2, <2>4 DEF Saves
  <2>5. ASSUME NEW u \in DOMAIN modals'
        PROVE  /\ modals'[u] = [actor |-> opened'[u].actor, expired |-> modals'[u].expired]
               /\ opened'[u].saves = 0
               /\ \A q \in DOMAIN req' : ~Saves(q, u)'
    <3>1. /\ modals[u] = [actor |-> opened[u].actor, expired |-> modals[u].expired]
          /\ opened[u].saves = 0 /\ u # t /\ \A q \in DOMAIN req : ~Saves(q, u)
      BY <1>6, <2>5 DEF ModalOK
    <3> QED
      BY <1>2, <1>4, <1>6, <2>4, <2>5, <3>1
  <2>6. ASSUME NEW p \in DOMAIN req', req'[p].pc = "save"
        PROVE  /\ opened'[req'[p].event.token].saves = 0
               /\ \A q \in DOMAIN req' : Saves(q, req[p].event.token)' => q = p
    <3>1. PICK u : u = req'[p].event.token
      OBVIOUS
    <3>2. CASE p = r
      BY <1>1, <1>2, <2>1, <2>2, <2>4, <3>2
    <3>3. CASE p # r
      <4>1. Saves(p, u) /\ u # t /\ p \in DOMAIN req
        BY <1>4, <2>4, <2>6, <3>1, <3>3 DEF Saves
      <4>2. opened[u].saves = 0 /\ \A q \in DOMAIN req : Saves(q, u) => q = p
        BY <4>1 DEF ModalOK, Saves
      <4> QED
        BY <1>2, <1>4, <2>4, <3>1, <4>1, <4>2
    <3> QED
      BY <3>2, <3>3
  <2>7. ASSUME NEW q \in DOMAIN req', req'[q].event.kind = "submit", req'[q].pc = "save" \/ req'[q].changed
        PROVE  Owned(q, req[q].event.token)'
    <3>1. CASE q = r
      <4>1. req'[q].event.token = t /\ req'[q].event.actor = actor
        BY <1>1, <2>1, <3>1
      <4>2. t \in seen'[q].fresh
        BY <1>2, <1>5, <2>3, <3>1
      <4> QED
        BY <1>2, <2>2, <4>1, <4>2 DEF Owned
    <3>2. CASE q # r
      <4>1. Owned(q, req[q].event.token)
        BY <1>4, <2>7, <3>2 DEF ModalOK
      <4> QED
        BY <1>2, <1>4, <1>5, <2>7, <3>2, <4>1 DEF Owned
    <3> QED
      BY <3>1, <3>2
  <2>8. DOMAIN modals' \subseteq DOMAIN opened'
    BY <1>2, <1>6 DEF ModalOK
  <2>9. \A u \in DOMAIN opened' : DOMAIN opened'[u] = {"actor", "saves"} /\ opened'[u].saves \in {0, 1}
    BY <1>2 DEF ModalOK
  <2> QED
    BY <2>5, <2>6, <2>7, <2>8, <2>9 DEF ModalOK
<1>8. CASE ~(t \in DOMAIN modals /\ modals[t] = Pending(actor))
  <2>1. PICK new : new = Answered(req[r], "failed")
    OBVIOUS
  <2>2. req'[r] = new /\ new.pc # "save" /\ new.event = req[r].event /\ new.changed = req[r].changed
    BY <1>2, <1>3, <1>8, <2>1, AnswerParts
  <2>3. Quiet
    BY <1>4, <1>5, <2>2 DEF Quiet
  <2>4. \A u \in DOMAIN modals' : modals'[u] = [actor |-> modals[u].actor, expired |-> modals'[u].expired]
    BY <1>6 DEF ModalOK
  <2> QED
    BY <1>2, <1>6, <2>3, <2>4, QuietKeepsModals
<1> QED
  BY <1>7, <1>8

\* The handler that has the token saves once.
LEMMA SavingKeepsModals ==
  ASSUME HandlersOK, ModalOK, Observe, NEW r, SaveSecret(r)
  PROVE  ModalOK'
<1>1. PICK t, q : t = req[r].event.token /\ q = req[r]
  OBVIOUS
<1>2. r \in DOMAIN req /\ q.pc = "save" /\ ReqOK(q) /\ q.event.kind = "submit" /\ modals' = modals
  BY <1>1 DEF SaveSecret, At, HandlersOK, Alone, ReqOK, storeVars, Reply
<1>3. \/ /\ opened' = [opened EXCEPT ![t].saves = @ + 1]
         /\ req' = [req EXCEPT ![r] = [q EXCEPT !.changed = TRUE, !.pc = "record_change"]]
      \/ opened' = opened /\ req' = [req EXCEPT ![r] = Answered(q, "failed")]
  BY <1>1 DEF SaveSecret, Changed, Set, Reply, historyVars
<1>4. DOMAIN req' = DOMAIN req /\ DOMAIN seen = DOMAIN req /\ \A p \in DOMAIN req : p # r => req'[p] = req[p]
  BY <1>3 DEF HandlersOK
<1>5. \A p \in DOMAIN req : seen[p].fresh \subseteq seen'[p].fresh
  BY <1>4, ObserveSees
<1>6. CASE opened' = opened /\ req' = [req EXCEPT ![r] = Answered(q, "failed")]
  <2>1. PICK new : new = Answered(q, "failed")
    OBVIOUS
  <2>2. req'[r] = new /\ new.pc # "save" /\ new.event = q.event /\ new.changed = q.changed
    BY <1>2, <1>6, <2>1, AnswerParts
  <2>3. Quiet
    BY <1>1, <1>4, <1>5, <2>2 DEF Quiet
  <2>4. \A u \in DOMAIN modals' : modals'[u] = [actor |-> modals[u].actor, expired |-> modals'[u].expired]
    BY <1>2 DEF ModalOK
  <2> QED
    BY <1>2, <1>6, <2>3, <2>4, QuietKeepsModals
<1>7. CASE /\ opened' = [opened EXCEPT ![t].saves = @ + 1]
           /\ req' = [req EXCEPT ![r] = [q EXCEPT !.changed = TRUE, !.pc = "record_change"]]
  <2>1. req'[r].pc = "record_change" /\ req'[r].event = q.event /\ req'[r].changed
    BY <1>2, <1>7 DEF ReqOK, ReqFields
  <2>2. /\ opened[t].saves = 0 /\ Owned(r, t) /\ \A p \in DOMAIN req : Saves(p, t) => p = r
        /\ Saves(r, t)
    BY <1>1, <1>2 DEF ModalOK, Saves
  <2>3. t \in DOMAIN opened /\ opened[t].actor = q.event.actor /\ t \in seen[r].fresh
    BY <1>1, <2>2 DEF Owned
  <2>4. DOMAIN opened[t] = {"actor", "saves"}
    BY <2>3 DEF ModalOK
  <2>5. /\ DOMAIN opened' = DOMAIN opened
        /\ DOMAIN opened'[t] = {"actor", "saves"} /\ opened'[t].saves = 1 /\ opened'[t].actor = opened[t].actor
        /\ \A u \in DOMAIN opened : u # t => opened'[u] = opened[u]
    BY <1>7, <2>2, <2>3, <2>4
  <2>6. t \notin DOMAIN modals
    BY <1>2, <2>2 DEF ModalOK
  <2>7. ASSUME NEW p \in DOMAIN req', NEW u, Saves(p, u)' PROVE p # r /\ Saves(p, u) /\ u # t /\ req'[p] = req[p]
    BY <1>4, <2>1, <2>2, <2>7 DEF Saves
  <2>8. ASSUME NEW u \in DOMAIN modals'
        PROVE  /\ modals'[u] = [actor |-> opened'[u].actor, expired |-> modals'[u].expired]
               /\ opened'[u].saves = 0
               /\ \A p \in DOMAIN req' : ~Saves(p, u)'
    <3>1. /\ modals[u] = [actor |-> opened[u].actor, expired |-> modals[u].expired]
          /\ opened[u].saves = 0 /\ u # t /\ u \in DOMAIN opened /\ \A p \in DOMAIN req : ~Saves(p, u)
      BY <1>2, <2>6, <2>8 DEF ModalOK
    <3> QED
      BY <1>2, <1>4, <2>5, <2>7, <3>1
  <2>9. ASSUME NEW p \in DOMAIN req', req'[p].pc = "save"
        PROVE  /\ opened'[req'[p].event.token].saves = 0
               /\ \A o \in DOMAIN req' : Saves(o, req[p].event.token)' => o = p
    <3>1. PICK u : u = req'[p].event.token
      OBVIOUS
    <3>2. p \in DOMAIN req /\ Saves(p, u) /\ u # t /\ req'[p] = req[p]
      BY <1>4, <2>7, <2>9, <3>1 DEF Saves
    <3>3. opened[u].saves = 0 /\ (\A o \in DOMAIN req : Saves(o, u) => o = p) /\ Owned(p, u)
      BY <3>1, <3>2 DEF ModalOK, Saves, HandlersOK, Alone, ReqOK
    <3> QED
      BY <1>4, <2>5, <2>7, <3>1, <3>2, <3>3 DEF Owned
  <2>10. ASSUME NEW p \in DOMAIN req', req'[p].event.kind = "submit", req'[p].pc = "save" \/ req'[p].changed
         PROVE  Owned(p, req[p].event.token)'
    <3>1. CASE p = r
      BY <1>1, <1>2, <1>5, <2>1, <2>3, <2>5, <3>1 DEF Owned
    <3>2. CASE p # r
      <4>1. Owned(p, req[p].event.token) /\ p \in DOMAIN req
        BY <1>4, <2>10, <3>2 DEF ModalOK
      <4> QED
        BY <1>4, <1>5, <2>5, <2>10, <3>2, <4>1 DEF Owned
    <3> QED
      BY <3>1, <3>2
  <2>11. DOMAIN modals' \subseteq DOMAIN opened'
    BY <1>2, <2>5 DEF ModalOK
  <2>12. \A u \in DOMAIN opened' : DOMAIN opened'[u] = {"actor", "saves"} /\ opened'[u].saves \in {0, 1}
    BY <2>5 DEF ModalOK
  <2> QED
    BY <2>8, <2>9, <2>10, <2>11, <2>12 DEF ModalOK
<1> QED
  BY <1>3, <1>6, <1>7

\* A step keeps what holds of the modals.
LEMMA ModalsKept ==
  ASSUME HandlersOK, CatalogOK, ModalOK, FrontStep, Observe
  PROVE  ModalOK'
<1>1. CASE \E r : ConsumeModal(r)
  BY <1>1, ConsumingKeepsModals
<1>2. CASE \E r : SaveSecret(r)
  BY <1>2, SavingKeepsModals
<1>3. ASSUME \A r : ~ConsumeModal(r) /\ ~SaveSecret(r) PROVE ModalOK'
  <2>1. Quiet
    BY <1>3, OthersAreQuiet
  <2>2. CASE \E r : OpenModal(r)
    <3>1. PICK r : OpenModal(r)
      BY <2>2
    <3>2. PICK actor : actor = req[r].event.actor
      OBVIOUS
    <3>3. PICK t \in Tokens \ DOMAIN opened :
            /\ modals' = With(modals, t, Pending(actor))
            /\ opened' = With(opened, t, [actor |-> actor, saves |-> 0])
      BY <3>1, <3>2 DEF OpenModal
    <3> QED
      BY <2>1, <3>3, OpeningKeepsModals
  <2>3. CASE \E t \in Tokens : ModalExpires(t)
    <3>1. PICK t \in Tokens : ModalExpires(t)
      BY <2>3
    <3>2. /\ UNCHANGED opened /\ DOMAIN modals' = DOMAIN modals /\ t \in DOMAIN modals
          /\ modals' = [modals EXCEPT ![t].expired = TRUE]
      BY <3>1 DEF ModalExpires, historyVars
    <3>3. \A u \in DOMAIN modals : modals[u] = [actor |-> modals[u].actor, expired |-> modals[u].expired]
      BY DEF ModalOK
    <3>4. ASSUME NEW u \in DOMAIN modals'
          PROVE  modals'[u] = [actor |-> modals[u].actor, expired |-> modals'[u].expired]
      <4>1. modals'[u] = IF u = t THEN [modals[u] EXCEPT !.expired = TRUE] ELSE modals[u]
        BY <3>2, <3>4
      <4> QED
        BY <3>2, <3>3, <3>4, <4>1
    <3> QED
      BY <2>1, <3>2, <3>4, QuietKeepsModals
  <2>4. ASSUME ~(\E r : OpenModal(r)), ~(\E t \in Tokens : ModalExpires(t)) PROVE UNCHANGED <<modals, opened>>
    <3> USE DEF storeVars, historyVars, Reply
    <3>1. PICK r \in Requests : (\E event \in Events : Arrive(r, event)) \/ Advance(r)
      BY <2>4 DEF FrontStep
    <3>2. CASE \E event \in Events : Arrive(r, event)
      BY <3>2 DEF Arrive
    <3>3. CASE Authorize(r)
      BY <3>3 DEF Authorize, CheckUser, CheckRole, RecordCheck, UseDecision
    <3>4. CASE Converse(r)
      BY <3>4 DEF Converse, StartCard, CountMentions, RecordCount, LookUpPlugins, ReadRouting, PlanSemantically,
                  RecordOutcome, RunAgent, Chat, RecordTurn, FinishCard
    <3>5. CASE Send(r)
      BY <3>5 DEF Send
    <3>6. CASE Handle(r)
      BY <1>3, <2>4, <3>6
         DEF Handle, RefuseOptions, HandlerFails, ChangeGrants, CreateRole, GrantCreated, ChangeMember, ImportManifest,
             EnablePlugin, DisablePlugin, ReadOnly, ChangeElsewhere, NoDefaultModel, SetRouting, SetLatency,
             SetLiveDebug, AnswerAtOnce, Ask, RecordChange
    <3> QED
      BY <3>1, <3>2, <3>3, <3>4, <3>5, <3>6 DEF Advance
  <2>5. CASE UNCHANGED <<modals, opened>>
    <3>1. \A t \in DOMAIN modals' : modals'[t] = [actor |-> modals[t].actor, expired |-> modals'[t].expired]
      BY <2>5 DEF ModalOK
    <3> QED
      BY <2>1, <2>5, <3>1, QuietKeepsModals
  <2> QED
    BY <2>2, <2>3, <2>4, <2>5
<1> QED
  BY <1>1, <1>2, <1>3

-----------------------------------------------------------------------------
(* The invariant, and what follows.                                        *)

\* Nobody is there at the start.
LEMMA FrontStarts == Init => FrontInv
BY DEF Init, FrontInv, HandlersOK, CatalogOK, ModalOK

\* A step of the front keeps it; one of main touches nothing of it.
LEMMA FrontKept == FrontInv /\ [Next]_vars => FrontInv'
<1> SUFFICES ASSUME FrontInv, [Next]_vars PROVE FrontInv'
  OBVIOUS
<1>1. CASE FrontStep /\ Observe
  BY <1>1, HandlersKept, ModalsKept DEF FrontInv
<1>2. CASE UNCHANGED frontVars
  <2>1. UNCHANGED <<grants, catalog, enabled, routing, modals, req, installed, consented, opened, seen>>
    BY <1>2 DEF frontVars, storeVars, historyVars
  <2>2. HandlersOK'
    BY <2>1 DEF FrontInv, HandlersOK, Current
  <2>3. CatalogOK'
    BY <2>1 DEF FrontInv, CatalogOK
  <2>4. ModalOK'
    BY <2>1 DEF FrontInv, ModalOK, Saves, Owned
  <2> QED
    BY <2>2, <2>3, <2>4 DEF FrontInv
<1> QED
  BY <1>1, <1>2 DEF Next, vars

\* In every state, what the guards, the database and the reads of a handler
\* said when it acted still fits what the handler has done.
THEOREM FrontInvariant == Spec => []FrontInv
<1> QED
  BY FrontStarts, FrontKept, PTL DEF Spec

\* What was done was checked before, capability by capability.
LEMMA EffectsWithPermission == FrontInv => EffectsWerePermitted
<1> SUFFICES ASSUME FrontInv, NEW r \in DOMAIN req
             PROVE  LET q == req[r]
                    IN  /\ (q.changed \/ q.pc = "grant_created" \/ "count" \in q.trail) =>
                             \A cap \in Elements(NeedOf(q.event)) : Permitted(r, cap)
                        /\ q.trail \cap {"dispatch", "dry_run"} # {} =>
                             \A plan \in q.plan : \A cap \in Elements(plan.action.permissions) : Permitted(r, cap)
                        /\ q.changed => q.event.guild
  BY DEF EffectsWerePermitted
<1>1. PICK q, s : q = req[r] /\ s = seen[r]
  OBVIOUS
<1>2. ReqOK(q) /\ PlanKept(q) /\ Recorded(q) /\ Checked(q, s)
  BY <1>1 DEF FrontInv, HandlersOK, Alone, Seeing
<1>3. \A cap : May(q, s, cap) => Permitted(r, cap)
  BY <1>1 DEF May, Permitted
<1>4. ASSUME q.changed \/ q.pc = "grant_created" \/ "count" \in q.trail
      PROVE  \A cap \in Elements(NeedOf(q.event)) : Permitted(r, cap)
  <2>1. IsCommand(q.event) \/ IsCountQuestion(q.event)
    BY <1>2, <1>4 DEF ReqOK, PlanKept, Recorded, CommandSteps
  <2>2. Wanted(q) = Elements(NeedOf(q.event))
    BY <1>2, <2>1 DEF PlanKept, Wanted
  <2>3. MayAll(q, s)
    BY <1>2, <1>4 DEF Checked
  <2> QED
    BY <1>3, <2>2, <2>3 DEF MayAll
<1>5. ASSUME q.trail \cap {"dispatch", "dry_run"} # {}, NEW plan \in q.plan, NEW cap \in Elements(plan.action.permissions)
      PROVE  Permitted(r, cap)
  <2>1. cap \in Wanted(q)
    BY <1>5 DEF Wanted
  <2>2. MayAll(q, s)
    BY <1>2, <1>5 DEF Checked
  <2> QED
    BY <1>3, <2>1, <2>2 DEF MayAll
<1>6. q.changed => q.event.guild
  BY <1>2 DEF Recorded
<1> QED
  BY <1>1, <1>4, <1>5, <1>6

\* Nothing privileged happens without its permission, which administrators hold
\* without a grant, however the grants, the
\* roles and the plugins change between the checks (Evaluator.Check,
\* CapabilityAuthorizer and the message handlers).
THEOREM EffectsAlwaysPermitted == Spec => []EffectsWerePermitted
<1> QED
  BY FrontInvariant, EffectsWithPermission, PTL

\* A dispatched plan fits a manifest of the guild, and asks for nothing.
LEMMA DispatchWithConsent == FrontInv => DispatchIsConsented
<1> SUFFICES ASSUME FrontInv, NEW r \in DOMAIN req, req[r].reply = "dispatch"
             PROVE  /\ \A plan \in req[r].plan :
                         /\ plan.manifest \in seen[r].offers
                         /\ [plan.manifest EXCEPT !.publicDispatchAllowed = FALSE] \in consented
                         /\ plan.action.permissions = <<>>
                         /\ plan.action.safety = "public"
                    /\ req[r].via # "direct" => "enabled" \in seen[r].modes
  BY DEF DispatchIsConsented
<1>1. PICK q, s : q = req[r] /\ s = seen[r]
  OBVIOUS
<1>2. PlanKept(q) /\ PlanOK(q, s, consented) /\ Dispatches(q)
  BY <1>1 DEF FrontInv, HandlersOK, Alone, Seeing, PlanOK
<1>3. ASSUME NEW plan \in q.plan
      PROVE  /\ plan.manifest \in s.offers
             /\ [plan.manifest EXCEPT !.publicDispatchAllowed = FALSE] \in consented
             /\ plan.action.permissions = <<>>
             /\ plan.action.safety = "public"
  <2>1. ThePlan(q) = plan
    BY <1>2, <1>3 DEF PlanKept, ThePlan
  <2>2. plan.manifest.publicDispatchAllowed /\ plan.action.safety = "public" /\ plan.required = <<>>
    BY <1>2, <2>1 DEF Dispatches, ShouldDispatch, PublicAction
  <2>3. Fits(plan, s, consented)
    BY <1>2, <1>3 DEF PlanOK
  <2>4. plan.required = plan.action.permissions
    BY <2>3, PlanNeeds
  <2> QED
    BY <2>2, <2>3, <2>4 DEF Fits, Sound
<1>4. q.via # "direct" => "enabled" \in s.modes
  BY <1>2 DEF Dispatches, PlanOK
<1> QED
  BY <1>1, <1>3, <1>4

\* What is sent to an external app is a public action of a manifest the guild
\* offered, imported with consent, and not of a plan that the routing mode only
\* shows (requirePublicDispatchConsent, UpsertApprovedManifest, shouldDispatch).
THEOREM DispatchAlwaysConsented == Spec => []DispatchIsConsented
<1> QED
  BY FrontInvariant, DispatchWithConsent, PTL

\* What is recorded of each handler is all the property asks for.
LEMMA TrailFromRecords == FrontInv => TrailIsComplete
BY DEF FrontInv, HandlersOK, Alone, Recorded, TrailIsComplete

\* What a reply claims is on record, whichever statement fails
\* (CapabilityAuthorizer, the audit rows of the commands and dispatches,
\* RecordTurn).
THEOREM TrailAlwaysComplete == Spec => []TrailIsComplete
<1> QED
  BY FrontInvariant, TrailFromRecords, PTL

\* Who saves owns the token, and the token saves once.
LEMMA ModalsAreOwn == FrontInv => ModalIsItsOwn
BY DEF FrontInv, ModalOK, Owned, ModalIsItsOwn

\* The token of a credential modal is good for one credential of the member who
\* opened it (llmCredentialModalStore), however many submit it at once.
THEOREM ModalsAlwaysOwn == Spec => []ModalIsItsOwn
<1> QED
  BY FrontInvariant, ModalsAreOwn, PTL

\* Beside the handlers, main takes the steps of AppLifecycle.
LEMMA FrontLives == Spec => LifeSpec
<1>1. Init => LifeInit
  BY DEF Init
<1>2. [Next]_vars => [LifeNext]_lifeVars
  BY DEF Next, vars
<1> QED
  BY <1>1, <1>2, PTL DEF Spec, LifeSpec

\* Whatever handlers are under way, main releases worker pool, gateway, database
\* and server in its order; it does not wait for the handlers.
THEOREM FrontReleases == Spec => []ShutdownReleases
<1> QED
  BY FrontLives, ReleaseOrder, PTL

=============================================================================
