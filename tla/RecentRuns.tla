----------------------------- MODULE RecentRuns -----------------------------
(***************************************************************************)
(* The two stores of recent runs the agent keeps in memory: the snapshot a *)
(* follow-up question starts from (MemoryFollowUpStore), and the trace     *)
(* that /agent trace last shows (MemoryTraceStore).  Both are bounded and  *)
(* shared by all conversations; each operation holds the store's mutex, so *)
(* it is one step.  A conversation is a guild, a channel and a user; runs  *)
(* outside a guild are not kept.                                           *)
(***************************************************************************)
EXTENDS Integers, Sequences, FiniteSets

CONSTANTS
  Conversations,
  Runs,
  MaxEntries,  \* MemoryFollowUpStore.maxEntries
  TTL,         \* MemoryFollowUpStore.ttl, in ticks
  MaxRuns,     \* MemoryTraceStore.maxRuns
  MaxTime,     \* bound: the last tick
  MaxSaves,    \* bound: snapshots saved
  MaxEvents    \* bound: trace events recorded

ASSUME RecentAssumption ==
  /\ MaxEntries \in Nat \ {0} /\ MaxRuns \in Nat \ {0}
  /\ TTL \in Nat /\ MaxTime \in Nat /\ MaxSaves \in Nat /\ MaxEvents \in Nat

VARIABLES
  clock,
  items,     \* followUps.items: conversation -> snapshot, time, sequence
  sequence,  \* followUps.sequence
  runs,      \* traces.runs: run -> its conversation and recorded events
  keys,      \* traces.keys: conversation -> run
  order,     \* traces.order
  saves,     \* history: the conversation and time of every Save
  events     \* history: the conversation and run of every trace event

followUpVars == <<items, sequence, saves>>
traceVars == <<runs, keys, order, events>>
recentVars == <<clock, followUpVars, traceVars>>

RecentInit ==
  /\ clock = 0
  /\ items = << >> /\ sequence = 0 /\ saves = << >>
  /\ runs = << >> /\ keys = << >> /\ order = << >> /\ events = << >>

Put(f, x, value) == [y \in DOMAIN f \cup {x} |-> IF y = x THEN value ELSE f[y]]
Without(f, S) == [y \in DOMAIN f \ S |-> f[y]]

-----------------------------------------------------------------------------
(* MemoryFollowUpStore.  A snapshot is told by the Save that stored it.    *)

Expired(entry) == clock - entry.savedAt > TTL
Purged(entries) == Without(entries, {c \in DOMAIN entries : Expired(entries[c])})

\* Mutant: the newest entry goes, which is the one just saved.
Oldest_Bug(entries) ==
  CHOOSE c \in DOMAIN entries : \A d \in DOMAIN entries : entries[d].sequence <= entries[c].sequence

Oldest(entries) ==
  CHOOSE c \in DOMAIN entries : \A d \in DOMAIN entries : entries[c].sequence <= entries[d].sequence

\* A Save adds at most one entry, so trimLocked drops at most one.
Trimmed(entries) ==
  IF Cardinality(DOMAIN entries) > MaxEntries THEN Without(entries, {Oldest(entries)}) ELSE entries

Save(c) ==
  /\ Len(saves) < MaxSaves
  /\ sequence' = sequence + 1
  /\ items' = Trimmed(Purged(Put(items, c, [snapshot |-> Len(saves) + 1, savedAt |-> clock,
                                            sequence |-> sequence + 1])))
  /\ saves' = Append(saves, [conversation |-> c, at |-> clock])
  /\ UNCHANGED <<clock, traceVars>>

\* Load forgets an entry it finds expired.
Load(c) ==
  /\ c \in DOMAIN items
  /\ Expired(items[c])
  /\ items' = Without(items, {c})
  /\ UNCHANGED <<clock, sequence, saves, traceVars>>

\* What Load returns: a set with at most one snapshot.
Loaded(c) == IF c \in DOMAIN items /\ ~Expired(items[c]) THEN {items[c].snapshot} ELSE {}

-----------------------------------------------------------------------------
(* MemoryTraceStore.  An event is told by its place in the history.        *)

\* RecordTraceEvent: a run it does not know - never seen, or dropped since -
\* is put at the end of the order; the first in the order is dropped, with
\* the key that leads to it.
RecordTraceEvent(c, run) ==
  LET event   == Len(events) + 1
      known   == run \in DOMAIN runs
      earlier == IF known THEN runs[run].events ELSE << >>
      updated == Put(runs, run, [conversation |-> c, events |-> Append(earlier, event)])
      latest  == Put(keys, c, run)
      queue   == IF known THEN order ELSE Append(order, run)
  IN  /\ Len(events) < MaxEvents
      /\ IF Len(queue) > MaxRuns
         THEN /\ order' = Tail(queue)
              /\ runs' = Without(updated, {Head(queue)})
              /\ keys' = Without(latest, {d \in DOMAIN latest : latest[d] = Head(queue)})
         ELSE /\ order' = queue
              /\ runs' = updated
              /\ keys' = latest
      /\ events' = Append(events, [conversation |-> c, run |-> run])
      /\ UNCHANGED <<clock, followUpVars>>

\* LastTrace: a set with at most one run.
LastTrace(c) == IF c \in DOMAIN keys /\ keys[c] \in DOMAIN runs THEN {keys[c]} ELSE {}

RecentTick ==
  /\ clock < MaxTime
  /\ clock' = clock + 1
  /\ UNCHANGED <<followUpVars, traceVars>>

\* A run belongs to the conversation that asked for it.
RunIsOf(run, c) == \A i \in DOMAIN events : events[i].run = run => events[i].conversation = c

FollowUpNext == (\E c \in Conversations : Save(c) \/ Load(c)) \/ RecentTick
TraceNext == \E c \in Conversations, run \in Runs : RunIsOf(run, c) /\ RecordTraceEvent(c, run)

RecentSpec == RecentInit /\ [][FollowUpNext \/ TraceNext]_recentVars

-----------------------------------------------------------------------------
(* Properties: what the stores answer, said of the history alone.          *)

SavesOf(c) == {i \in DOMAIN saves : saves[i].conversation = c}
EventsOf(run) == {i \in DOMAIN events : events[i].run = run}
Latest(S) == CHOOSE i \in S : \A j \in S : j <= i
Earliest(S) == CHOOSE i \in S : \A j \in S : i <= j

\* The last snapshot of a conversation is found exactly as long as it is not
\* older than TTL and fewer than MaxEntries other conversations saved since.
FollowUpIsFound(c) ==
  LET last   == Latest(SavesOf(c))
      since  == {saves[j].conversation : j \in {k \in DOMAIN saves : k > last}}
      wanted == SavesOf(c) # {} /\ clock - saves[last].at <= TTL /\ Cardinality(since) < MaxEntries
  IN  Loaded(c) = IF wanted THEN {last} ELSE {}

\* The trace shown is of the run the conversation last recorded for, never of
\* another one.  It ends with the run's last event, leaves out none between
\* those it shows, and is all of it as long as fewer than MaxRuns other runs
\* recorded since the run's first event.
TraceIsFound(c) ==
  LET mine  == {i \in DOMAIN events : events[i].conversation = c}
      run   == events[Latest(mine)].run
      since == {events[j].run : j \in {k \in DOMAIN events : k > Earliest(EventsOf(run))}} \ {run}
      Shown(r) == {runs[r].events[i] : i \in DOMAIN runs[r].events}
  IN  IF mine = {} THEN LastTrace(c) = {}
      ELSE /\ LastTrace(c) \subseteq {run}
           /\ \A r \in LastTrace(c) :
                /\ runs[r].conversation = c
                /\ Shown(r) # {}
                /\ Shown(r) = {i \in EventsOf(r) : i >= Earliest(Shown(r))}
           /\ Cardinality(since) < MaxRuns => LastTrace(c) = {run} /\ Shown(run) = EventsOf(run)

\* The bounded stores forget only what their limits say, the oldest first: not
\* what was just saved, nor the run that is still being recorded.
RecentRunsAreFound ==
  /\ \A c \in Conversations : FollowUpIsFound(c) /\ TraceIsFound(c)
  /\ Cardinality(DOMAIN items) <= MaxEntries
  /\ Len(order) <= MaxRuns
  /\ DOMAIN runs = {order[i] : i \in DOMAIN order}
=============================================================================
