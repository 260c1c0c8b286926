---------------------------- MODULE MemoryIngest ----------------------------
(***************************************************************************)
(* Guild memory: the callbacks of the gateway that put messages and their  *)
(* deletions into the queue of LiveIngestor, its one consumer, and the     *)
(* tables of SQLStore that the consumer and /memory settings write.        *)
(*                                                                         *)
(* The gateway runs each callback in a goroutine of its own, so events may *)
(* overtake one another, and after a resume it may hand out a creation     *)
(* again.  A statement is one action; it may fail, applied or not.         *)
(* retention_until depends on the message and the settings alone and only  *)
(* filters what is read: it is left out, and with it the purge, which      *)
(* nothing calls.                                                          *)
(***************************************************************************)
EXTENDS Integers, Sequences, FiniteSets

CONSTANTS
    Messages,       \* the messages users post in a guild, by message id
    Channels,       \* its channels
    Home,           \* the channel of each message
    Blank,          \* the messages whose text normalizes to nothing
    QueueSize,      \* the capacity of LiveIngestor.queue
    Copies,         \* bound: how often the creation of a message is handed out
    MaxChanges,     \* bound: how often the settings are changed
    StoreFaults,    \* whether a SQL statement may fail
    MaxCrashes      \* bound: how often the process dies

Modes == {"off", "metadata", "full"}

ASSUME IngestAssumption ==
    /\ Home \in [Messages -> Channels]
    /\ Blank \subseteq Messages
    /\ QueueSize \in Nat \ {0} /\ Copies \in Nat \ {0}
    /\ MaxChanges \in Nat /\ MaxCrashes \in Nat
    /\ StoreFaults \in BOOLEAN

VARIABLES
    discord,    \* where each message is in Discord
    handed,     \* how often its creation was handed out
    callbacks,  \* the callbacks that have not yet reached the queue
    queue,      \* LiveIngestor.queue
    consumer,   \* LiveIngestor.run and ingest: where it is, and its locals
    policy,     \* guild_memory_channels: the mode of a channel, "off" for no row
    stored,     \* guild_memory_messages
    changes,    \* how often the settings were changed
    crashes,    \* how often the process died
    tooMuch,    \* history: records beyond what a channel allows, since it was set
    missed      \* history: messages whose deletion did not get to their row

vars == <<discord, handed, callbacks, queue, consumer, policy, stored, changes,
          crashes, tooMuch, missed>>

\* A row holds a message, with its text or without, or is the tombstone of one.
Rows == {"none", "metadata", "full", "tombstone"}

NoEvent == "nothing"

IdleConsumer == [pc |-> "idle", event |-> NoEvent, mode |-> "off"]

\* What a mode lets the store keep of a message.
Rank(mode) == CASE mode = "off" -> 0 [] mode = "metadata" -> 1 [] mode = "full" -> 2

-----------------------------------------------------------------------------
(* Discord, and the callbacks of the gateway.                              *)

\* Somebody posts a message, or the gateway hands out its creation again.
Post(m) ==
    /\ discord[m] = "unsent" \/ handed[m] \in 1..Copies-1
    /\ discord' = [discord EXCEPT ![m] = IF @ = "unsent" THEN "posted" ELSE @]
    /\ handed' = [handed EXCEPT ![m] = @ + 1]
    /\ callbacks' = callbacks \cup {[msg |-> m, deleted |-> FALSE, copy |-> handed[m]]}
    /\ UNCHANGED <<queue, consumer, policy, stored, changes, crashes, tooMuch, missed>>

\* Somebody deletes it.
Delete(m) ==
    /\ discord[m] = "posted"
    /\ discord' = [discord EXCEPT ![m] = "deleted"]
    /\ callbacks' = callbacks \cup {[msg |-> m, deleted |-> TRUE, copy |-> 0]}
    /\ UNCHANGED <<handed, queue, consumer, policy, stored, changes, crashes, tooMuch,
                   missed>>

Event(e) == [msg |-> e.msg, deleted |-> e.deleted]

\* HandleMessage, HandleMessageDelete and HandleMessageDeleteBulk end in a
\* TryEnqueueMessage, whose answer nobody looks at.
Callback(e) ==
    /\ callbacks' = callbacks \ {e}
    /\ \/ /\ Len(queue) < QueueSize
          /\ queue' = Append(queue, Event(e))
          /\ UNCHANGED missed
       \/ /\ Len(queue) = QueueSize
          /\ missed' = IF e.deleted THEN missed \cup {e.msg} ELSE missed
          /\ UNCHANGED queue
    /\ UNCHANGED <<discord, handed, consumer, policy, stored, changes, crashes, tooMuch>>

-----------------------------------------------------------------------------
(* LiveIngestor.                                                           *)

Msg == consumer.event.msg

Rest == consumer' = IdleConsumer

\* run takes the next event; ingest drops one without text.
Take ==
    /\ consumer.pc = "idle" /\ queue # <<>>
    /\ LET event == Head(queue)
       IN  IF ~event.deleted /\ event.msg \in Blank THEN Rest
           ELSE consumer' = [consumer EXCEPT !.pc = IF event.deleted THEN "delete"
                                                    ELSE "channel",
                                             !.event = event]
    /\ queue' = Tail(queue)
    /\ UNCHANGED <<discord, handed, callbacks, policy, stored, changes, crashes, tooMuch,
                   missed>>

\* A failed lookup counts as consent.
ReadChannel_Bug ==
    /\ consumer.pc = "channel"
    /\ \/ /\ StoreFaults
          /\ consumer' = [consumer EXCEPT !.pc = "guild", !.mode = "full"]
       \/ policy[Home[Msg]] = "off" /\ Rest
       \/ /\ policy[Home[Msg]] # "off"
          /\ consumer' = [consumer EXCEPT !.pc = "guild", !.mode = policy[Home[Msg]]]
    /\ UNCHANGED <<discord, handed, callbacks, queue, policy, stored, changes, crashes,
                   tooMuch, missed>>

\* ChannelPolicy: without a row, and with mode off, nothing is stored.
ReadChannel ==
    /\ consumer.pc = "channel"
    /\ \/ StoreFaults /\ Rest
       \/ policy[Home[Msg]] = "off" /\ Rest
       \/ /\ policy[Home[Msg]] # "off"
          /\ consumer' = [consumer EXCEPT !.pc = "guild", !.mode = policy[Home[Msg]]]
    /\ UNCHANGED <<discord, handed, callbacks, queue, policy, stored, changes, crashes,
                   tooMuch, missed>>

\* GuildPolicy, which the default of the retention is taken from.
ReadGuild ==
    /\ consumer.pc = "guild"
    /\ (StoreFaults /\ Rest) \/ consumer' = [consumer EXCEPT !.pc = "record"]
    /\ UNCHANGED <<discord, handed, callbacks, queue, policy, stored, changes, crashes,
                   tooMuch, missed>>

\* The upsert takes every row.
Recorded_Bug(row, mode) == mode

\* The row RecordMessage's upsert leaves: a tombstone is not touched.
Recorded(row, mode) == IF row = "tombstone" THEN row ELSE mode

\* RecordMessage.
Record ==
    /\ consumer.pc = "record"
    /\ \E failed, applied \in BOOLEAN :
         /\ failed => StoreFaults
         /\ ~failed => applied
         /\ IF applied
            THEN /\ stored' = [stored EXCEPT ![Msg] = Recorded(@, consumer.mode)]
                 /\ tooMuch' = [tooMuch EXCEPT ![Home[Msg]] =
                      IF Rank(consumer.mode) > Rank(policy[Home[Msg]]) THEN @ + 1 ELSE @]
            ELSE UNCHANGED <<stored, tooMuch>>
    /\ Rest
    /\ UNCHANGED <<discord, handed, callbacks, queue, policy, changes, crashes, missed>>

\* The row is taken out, and nothing stays that a later upsert would respect.
Deleted_Bug(row) == "none"

\* The row DeleteMessage's update leaves, if there is one.
Deleted(row) == IF row = "none" THEN row ELSE "tombstone"

\* DeleteMessage.
DeleteMessage ==
    /\ consumer.pc = "delete"
    /\ \/ /\ stored' = [stored EXCEPT ![Msg] = Deleted(@)]
          /\ missed' = IF stored[Msg] = "none" THEN missed \cup {Msg} ELSE missed
       \/ /\ StoreFaults
          /\ missed' = missed \cup {Msg}
          /\ UNCHANGED stored
    /\ Rest
    /\ UNCHANGED <<discord, handed, callbacks, queue, policy, changes, crashes, tooMuch>>

Consume == Take \/ ReadChannel \/ ReadGuild \/ Record \/ DeleteMessage

-----------------------------------------------------------------------------
\* /memory settings set: UpsertChannelPolicy.
SetPolicy(ch, mode) ==
    /\ changes < MaxChanges
    /\ changes' = changes + 1
    /\ policy' = [policy EXCEPT ![ch] = mode]
    /\ tooMuch' = [tooMuch EXCEPT ![ch] = 0]
    /\ UNCHANGED <<discord, handed, callbacks, queue, consumer, stored, crashes, missed>>

\* The deletion of a message has not yet got to the table.
OnItsWay(m) ==
    \/ \E e \in callbacks : e.msg = m /\ e.deleted
    \/ \E i \in DOMAIN queue : queue[i].msg = m /\ queue[i].deleted
    \/ consumer.pc = "delete" /\ Msg = m

\* The process dies: the queue is in memory, and nothing drains it.
Crash ==
    /\ crashes < MaxCrashes
    /\ crashes' = crashes + 1
    /\ missed' = missed \cup {m \in Messages : OnItsWay(m)}
    /\ callbacks' = {}
    /\ queue' = <<>>
    /\ consumer' = IdleConsumer
    /\ UNCHANGED <<discord, handed, policy, stored, changes, tooMuch>>

Init ==
    /\ discord = [m \in Messages |-> "unsent"]
    /\ handed = [m \in Messages |-> 0]
    /\ callbacks = {}
    /\ queue = <<>>
    /\ consumer = IdleConsumer
    /\ policy = [ch \in Channels |-> "off"]
    /\ stored = [m \in Messages |-> "none"]
    /\ changes = 0
    /\ crashes = 0
    /\ tooMuch = [ch \in Channels |-> 0]
    /\ missed = {}

Next ==
    \/ \E m \in Messages : Post(m) \/ Delete(m)
    \/ \E e \in callbacks : Callback(e)
    \/ Consume
    \/ \E ch \in Channels, mode \in Modes : SetPolicy(ch, mode)
    \/ Crash

Spec == Init /\ [][Next]_vars

\* The consumer goes on for ever, and its statements return within two seconds.
FairSpec == Spec /\ WF_vars(Consume)
-----------------------------------------------------------------------------
Events == [msg : Messages, deleted : BOOLEAN]

CallbackType == [msg : Messages, deleted : BOOLEAN, copy : Nat]

\* The values of the variables.  Where the consumer is in ingest decides which
\* event it has in its hands and that it has a mode that stores something.
TypeOK ==
    /\ discord \in [Messages -> {"unsent", "posted", "deleted"}]
    /\ handed \in [Messages -> Nat]
    /\ callbacks \in SUBSET CallbackType
    /\ queue \in Seq(Events) /\ Len(queue) <= QueueSize
    /\ consumer \in [pc : {"idle", "channel", "guild", "record", "delete"},
                    event : Events \cup {NoEvent}, mode : Modes]
    /\ consumer.pc # "idle" =>
         consumer.event \in Events /\ (consumer.event.deleted <=> consumer.pc = "delete")
    /\ consumer.pc \in {"guild", "record"} => consumer.mode # "off"
    /\ policy \in [Channels -> Modes]
    /\ stored \in [Messages -> Rows]
    /\ changes \in Nat /\ crashes \in Nat
    /\ tooMuch \in [Channels -> Nat]
    /\ missed \in SUBSET Messages

-----------------------------------------------------------------------------
(* Properties.                                                             *)

\* After a channel is set to keep less, or nothing, at most one more message of
\* it is recorded the old way: the one whose policy the consumer had read.
AtMostOneLateRecord == \A ch \in Channels : tooMuch[ch] <= 1

\* What makes that inductive: the consumer's hands are empty, or it has not yet
\* read the policy, or nothing has been recorded beyond the one now in force.
LateRecordInv ==
    /\ AtMostOneLateRecord
    /\ consumer.pc \in {"guild", "record"} =>
         \/ tooMuch[Home[Msg]] = 0
         \/ Rank(consumer.mode) <= Rank(policy[Home[Msg]])

\* A deleted message that is still kept has its deletion on the way, or the
\* deletion was dropped, lost or failed, or had overtaken the creation.  Nothing
\* else keeps it: no repeated creation and no change of the settings.
DeletedIsAccountedFor ==
    \A m \in Messages : discord[m] = "deleted" =>
        OnItsWay(m) \/ m \in missed \/ stored[m] = "tombstone"

\* A tombstone stays: a creation that comes late or twice does not bring the text
\* of a deleted message back.
TombstoneIsFinal ==
    [][\A m \in Messages : stored[m] = "tombstone" => stored'[m] = "tombstone"]_vars

\* A deletion that got into the queue after its message was stored wipes it, unless
\* its statement fails or the process dies.
QueuedDeletionForgets ==
    \A m \in Messages :
        (\E i \in DOMAIN queue : queue[i] = [msg |-> m, deleted |-> TRUE])
            /\ stored[m] # "none" ~> stored[m] = "tombstone" \/ m \in missed

\* With a working database and a process that lives, no deleted message is kept
\* once every event about it was handled.
DeletedIsNotKept ==
    \A m \in Messages :
        discord[m] = "deleted" /\ callbacks = {} /\ queue = <<>> /\ consumer.pc = "idle"
            => stored[m] \in {"none", "tombstone"}
=============================================================================
