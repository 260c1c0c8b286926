------------------------- MODULE MemoryIngestProofs -------------------------
(***************************************************************************)
(* Proofs about MemoryIngest, for any messages, channels and queue size.   *)
(***************************************************************************)
EXTENDS MemoryIngest, TLAPS

(***************************************************************************)
(* The variables keep their types.                                         *)
(***************************************************************************)

\* The initial values have their types.
LEMMA InitTypes == Init => TypeOK
  <1> SUFFICES ASSUME Init PROVE TypeOK
    OBVIOUS
  <1> USE IngestAssumption DEF Init, TypeOK
  <1>1. queue \in Seq(Events) /\ Len(queue) <= QueueSize
    OBVIOUS
  <1>2. consumer \in [pc : {"idle", "channel", "guild", "record", "delete"},
                      event : Events \cup {NoEvent}, mode : Modes]
    BY DEF IdleConsumer, Modes
  <1>3. consumer.pc = "idle"
    BY DEF IdleConsumer
  <1>4. QED
    BY <1>1, <1>2, <1>3 DEF Modes, Rows

\* The events of Discord and the callbacks keep the types.
LEMMA EventTypes ==
    ASSUME TypeOK,
           \/ \E m \in Messages : Post(m) \/ Delete(m)
           \/ \E e \in callbacks : Callback(e)
    PROVE  TypeOK'
  <1> USE IngestAssumption DEF TypeOK
  <1>1. CASE \E m \in Messages : Post(m)
    <2> PICK m \in Messages : Post(m)
      BY <1>1
    <2>1. [msg |-> m, deleted |-> FALSE, copy |-> handed[m]] \in CallbackType
      BY DEF CallbackType
    <2>2. callbacks' \in SUBSET CallbackType
      BY <2>1 DEF Post
    <2>3. /\ discord' \in [Messages -> {"unsent", "posted", "deleted"}]
          /\ handed' \in [Messages -> Nat]
      BY DEF Post
    <2>4. QED
      BY <2>2, <2>3 DEF Post
  <1>2. CASE \E m \in Messages : Delete(m)
    <2> PICK m \in Messages : Delete(m)
      BY <1>2
    <2>1. [msg |-> m, deleted |-> TRUE, copy |-> 0] \in CallbackType
      BY DEF CallbackType
    <2>2. callbacks' \in SUBSET CallbackType
      BY <2>1 DEF Delete
    <2>3. discord' \in [Messages -> {"unsent", "posted", "deleted"}]
      BY DEF Delete
    <2>4. QED
      BY <2>2, <2>3 DEF Delete
  <1>3. CASE \E e \in callbacks : Callback(e)
    <2> PICK e \in callbacks : Callback(e)
      BY <1>3
    <2>1. Event(e) \in Events /\ e.msg \in Messages
      BY DEF Event, Events, CallbackType
    <2>2. queue' \in Seq(Events) /\ Len(queue') <= QueueSize
      <3>1. CASE Len(queue) < QueueSize /\ queue' = Append(queue, Event(e))
        <4>1. Append(queue, Event(e)) \in Seq(Events)
              /\ Len(Append(queue, Event(e))) = Len(queue) + 1
          BY <2>1
        <4>2. Len(queue) + 1 <= QueueSize
          BY <3>1
        <4>3. QED
          BY <3>1, <4>1, <4>2
      <3>2. CASE UNCHANGED queue
        BY <3>2
      <3>3. QED
        BY <3>1, <3>2 DEF Callback
    <2>3. missed' \in SUBSET Messages /\ callbacks' \in SUBSET CallbackType
      BY <2>1 DEF Callback
    <2>4. QED
      BY <2>2, <2>3 DEF Callback
  <1>4. QED
    BY <1>1, <1>2, <1>3

\* The consumer, the settings and a crash keep the types.
LEMMA ConsumerTypes ==
    ASSUME TypeOK,
           \/ Consume
           \/ \E ch \in Channels, mode \in Modes : SetPolicy(ch, mode)
           \/ Crash
    PROVE  TypeOK'
  <1> USE IngestAssumption DEF TypeOK
  <1>1. CASE Take
    <2>1. Head(queue) \in Events /\ Tail(queue) \in Seq(Events)
          /\ Len(Tail(queue)) <= QueueSize
      BY <1>1 DEF Take
    <2>2. CASE ~Head(queue).deleted /\ Head(queue).msg \in Blank
      BY <1>1, <2>1, <2>2 DEF Take, Rest, IdleConsumer, Modes
    <2>3. CASE ~(~Head(queue).deleted /\ Head(queue).msg \in Blank)
      <3>1. consumer' = [consumer EXCEPT !.pc = IF Head(queue).deleted THEN "delete"
                                                ELSE "channel",
                                         !.event = Head(queue)]
        BY <1>1, <2>3 DEF Take
      <3>2. Head(queue).deleted \in BOOLEAN
        BY <2>1 DEF Events
      <3>3. QED
        BY <1>1, <2>1, <3>1, <3>2 DEF Take
    <2>4. QED
      BY <2>2, <2>3
  <1>2. CASE ReadChannel
    <2>1. CASE Rest
      BY <1>2, <2>1 DEF ReadChannel, Rest, IdleConsumer, Modes
    <2>2. CASE /\ policy[Home[Msg]] # "off"
               /\ consumer' = [consumer EXCEPT !.pc = "guild", !.mode = policy[Home[Msg]]]
      <3>1. Home[Msg] \in Channels
        BY <1>2 DEF ReadChannel, Msg, Events
      <3>2. policy[Home[Msg]] \in Modes
        BY <3>1
      <3>3. /\ consumer'.pc = "guild" /\ consumer'.event = consumer.event
            /\ consumer'.mode = policy[Home[Msg]]
            /\ consumer' \in [pc : {"idle", "channel", "guild", "record", "delete"},
                              event : Events \cup {NoEvent}, mode : Modes]
        BY <2>2, <3>2
      <3>4. consumer.pc = "channel"
        BY <1>2 DEF ReadChannel
      <3>5. QED
        BY <1>2, <2>2, <3>3, <3>4 DEF ReadChannel
    <2>3. QED
      BY <1>2, <2>1, <2>2 DEF ReadChannel
  <1>3. CASE ReadGuild
    BY <1>3 DEF ReadGuild, Rest, IdleConsumer, Modes
  <1>4. CASE Record
    <2>1. Msg \in Messages /\ Home[Msg] \in Channels
      BY <1>4 DEF Record, Msg, Events
    <2>2. stored' \in [Messages -> Rows] /\ tooMuch' \in [Channels -> Nat]
      <3>1. consumer.mode \in {"metadata", "full"}
        BY <1>4 DEF Record, Modes
      <3>2. Recorded(stored[Msg], consumer.mode) \in Rows
        BY <3>1, <2>1 DEF Recorded, Rows
      <3>3. stored' \in [Messages -> Rows]
        BY <1>4, <2>1, <3>2 DEF Record
      <3>4. tooMuch' \in [Channels -> Nat]
        BY <1>4, <2>1 DEF Record
      <3>5. QED
        BY <3>3, <3>4
    <2>3. QED
      BY <1>4, <2>2 DEF Record, Rest, IdleConsumer, Modes
  <1>5. CASE DeleteMessage
    <2>1. Msg \in Messages
      BY <1>5 DEF DeleteMessage, Msg, Events
    <2>2. stored' \in [Messages -> Rows] /\ missed' \in SUBSET Messages
      BY <1>5, <2>1 DEF DeleteMessage, Deleted, Rows
    <2>3. QED
      BY <1>5, <2>2 DEF DeleteMessage, Rest, IdleConsumer, Modes
  <1>6. CASE \E ch \in Channels, mode \in Modes : SetPolicy(ch, mode)
    BY <1>6 DEF SetPolicy
  <1>7. CASE Crash
    BY <1>7 DEF Crash, IdleConsumer, Modes
  <1>8. QED
    BY <1>1, <1>2, <1>3, <1>4, <1>5, <1>6, <1>7 DEF Consume

\* The types hold in every behaviour.
THEOREM TypeCorrect == Spec => []TypeOK
  <1>1. ASSUME TypeOK, [Next]_vars PROVE TypeOK'
    <2>1. CASE UNCHANGED vars
      BY <1>1, <2>1 DEF vars, TypeOK
    <2>2. CASE Next
      BY <1>1, <2>2, EventTypes, ConsumerTypes DEF Next
    <2>3. QED
      BY <1>1, <2>1, <2>2
  <1>2. QED
    BY <1>1, InitTypes, PTL DEF Spec

(***************************************************************************)
(* At most one message is recorded beyond what its channel allows.         *)
(***************************************************************************)

\* Reading the policy and recording under it keep LateRecordInv.
LEMMA ConsumerKeepsLateRecordInv ==
    ASSUME TypeOK, LateRecordInv, Consume
    PROVE  LateRecordInv'
  <1> USE DEF TypeOK, LateRecordInv, AtMostOneLateRecord
  <1>1. CASE Take
    <2>1. consumer'.pc \in {"idle", "delete", "channel"}
      <3>1. CASE Rest
        BY <3>1 DEF Rest, IdleConsumer
      <3>2. CASE consumer' = [consumer EXCEPT !.pc = IF Head(queue).deleted THEN "delete"
                                                     ELSE "channel",
                                              !.event = Head(queue)]
        <4>1. consumer'.pc = IF Head(queue).deleted THEN "delete" ELSE "channel"
          BY <3>2
        <4>2. QED
          BY <4>1
      <3>3. QED
        BY <1>1, <3>1, <3>2 DEF Take
    <2>2. QED
      BY <1>1, <2>1 DEF Take
  <1>2. CASE ReadChannel
    <2>1. CASE Rest
      BY <1>2, <2>1 DEF ReadChannel, Rest, IdleConsumer
    <2>2. CASE consumer' = [consumer EXCEPT !.pc = "guild", !.mode = policy[Home[Msg]]]
      <3>1. consumer'.event = consumer.event /\ consumer'.mode = policy[Home[Msg]]
        BY <2>2
      <3>2. Home[Msg] \in Channels
        BY <1>2, IngestAssumption DEF ReadChannel, Msg, Events
      <3>3. Rank(policy[Home[Msg]]) <= Rank(policy[Home[Msg]])
        BY <3>2 DEF Rank, Modes
      <3>4. QED
        BY <1>2, <3>1, <3>3 DEF ReadChannel, Msg
    <2>3. QED
      BY <1>2, <2>1, <2>2 DEF ReadChannel
  <1>3. CASE ReadGuild
    <2>1. CASE Rest
      BY <1>3, <2>1 DEF ReadGuild, Rest, IdleConsumer
    <2>2. CASE consumer' = [consumer EXCEPT !.pc = "record"]
      <3>1. consumer'.event = consumer.event /\ consumer'.mode = consumer.mode
        BY <2>2
      <3>2. QED
        BY <1>3, <3>1 DEF ReadGuild, Msg
    <2>3. QED
      BY <1>3, <2>1, <2>2 DEF ReadGuild
  <1>4. CASE Record
    <2>1. Home[Msg] \in Channels
      BY <1>4, IngestAssumption DEF Record, Msg, Events
    <2>2. Rank(consumer.mode) \in Nat /\ Rank(policy[Home[Msg]]) \in Nat
      BY <2>1 DEF Rank, Modes
    <2>3. \A ch \in Channels : tooMuch'[ch] <= 1
      <3>1. CASE UNCHANGED tooMuch
        BY <3>1
      <3>2. CASE tooMuch' = [tooMuch EXCEPT ![Home[Msg]] =
                      IF Rank(consumer.mode) > Rank(policy[Home[Msg]]) THEN @ + 1 ELSE @]
        <4>1. Rank(consumer.mode) > Rank(policy[Home[Msg]]) => tooMuch[Home[Msg]] = 0
          BY <1>4, <2>2 DEF Record
        <4>2. QED
          BY <2>1, <3>2, <4>1
      <3>3. QED
        BY <1>4, <3>1, <3>2 DEF Record
    <2>4. consumer'.pc = "idle"
      BY <1>4 DEF Record, Rest, IdleConsumer
    <2>5. QED
      BY <2>3, <2>4
  <1>5. CASE DeleteMessage
    BY <1>5 DEF DeleteMessage, Rest, IdleConsumer
  <1>6. QED
    BY <1>1, <1>2, <1>3, <1>4, <1>5 DEF Consume

\* So does everything else: the settings start the count anew.
LEMMA OthersKeepLateRecordInv ==
    ASSUME TypeOK, LateRecordInv,
           \/ \E m \in Messages : Post(m) \/ Delete(m)
           \/ \E e \in callbacks : Callback(e)
           \/ \E ch \in Channels, mode \in Modes : SetPolicy(ch, mode)
           \/ Crash
    PROVE  LateRecordInv'
  <1> USE DEF TypeOK, LateRecordInv, AtMostOneLateRecord
  <1>1. CASE \/ \E m \in Messages : Post(m) \/ Delete(m)
             \/ \E e \in callbacks : Callback(e)
    BY <1>1 DEF Post, Delete, Callback, Msg
  <1>2. CASE \E ch \in Channels, mode \in Modes : SetPolicy(ch, mode)
    <2> PICK ch \in Channels, mode \in Modes : SetPolicy(ch, mode)
      BY <1>2
    <2>1. \A c \in Channels : tooMuch'[c] = IF c = ch THEN 0 ELSE tooMuch[c]
      BY DEF SetPolicy
    <2>2. \A c \in Channels : c # ch => policy'[c] = policy[c]
      BY DEF SetPolicy
    <2>3. consumer.pc \in {"guild", "record"} => Home[Msg] \in Channels
      BY IngestAssumption DEF Msg, Events
    <2>4. Msg' = Msg /\ consumer' = consumer
      BY DEF SetPolicy, Msg
    <2>5. \A c \in Channels : tooMuch'[c] <= 1
      <3>1. \A c \in Channels : tooMuch[c] <= 1
        OBVIOUS
      <3>2. TAKE c \in Channels
      <3>3. CASE c = ch
        BY <2>1, <3>3
      <3>4. CASE c # ch
        BY <2>1, <3>1, <3>4
      <3>5. QED
        BY <3>3, <3>4
    <2>6. consumer.pc \in {"guild", "record"} =>
            \/ tooMuch'[Home[Msg]] = 0
            \/ Rank(consumer.mode) <= Rank(policy'[Home[Msg]])
      <3>1. CASE Home[Msg] = ch
        BY <2>1, <3>1
      <3>2. CASE Home[Msg] # ch
        BY <2>1, <2>2, <2>3, <3>2
      <3>3. QED
        BY <3>1, <3>2
    <2>7. QED
      BY <2>4, <2>5, <2>6
  <1>3. CASE Crash
    BY <1>3 DEF Crash, IdleConsumer
  <1>4. QED
    BY <1>1, <1>2, <1>3

\* After a channel is set to keep less at most one more message of it is recorded
\* the old way (ingest between ChannelPolicy and RecordMessage).
THEOREM LateRecordsBounded == Spec => []AtMostOneLateRecord
  <1>1. Init => LateRecordInv
    BY DEF Init, LateRecordInv, AtMostOneLateRecord, IdleConsumer
  <1>2. ASSUME TypeOK, LateRecordInv, [Next]_vars PROVE LateRecordInv'
    <2>1. CASE UNCHANGED vars
      BY <1>2, <2>1 DEF vars, LateRecordInv, AtMostOneLateRecord, Msg
    <2>2. CASE Next
      BY <1>2, <2>2, ConsumerKeepsLateRecordInv, OthersKeepLateRecordInv DEF Next
    <2>3. QED
      BY <1>2, <2>1, <2>2
  <1>3. LateRecordInv => AtMostOneLateRecord
    BY DEF LateRecordInv
  <1>4. QED
    BY <1>1, <1>2, <1>3, TypeCorrect, PTL DEF Spec

(***************************************************************************)
(* Deletions.                                                              *)
(***************************************************************************)

\* No step turns a tombstone into anything else.
LEMMA TombstonesAreKept ==
    ASSUME TypeOK, [Next]_vars, NEW m \in Messages, stored[m] = "tombstone"
    PROVE  stored'[m] = "tombstone"
  <1>1. CASE Record
    <2>1. Msg \in Messages
      BY <1>1 DEF Record, TypeOK, Msg, Events
    <2>2. Recorded(stored[m], consumer.mode) = "tombstone"
      BY DEF Recorded
    <2>3. QED
      BY <1>1, <2>1, <2>2 DEF Record, TypeOK
  <1>2. CASE DeleteMessage
    <2>1. Msg \in Messages
      BY <1>2 DEF DeleteMessage, TypeOK, Msg, Events
    <2>2. Deleted(stored[m]) = "tombstone"
      BY DEF Deleted
    <2>3. QED
      BY <1>2, <2>1, <2>2 DEF DeleteMessage, TypeOK
  <1>3. CASE UNCHANGED stored
    BY <1>3
  <1>4. QED
    BY <1>1, <1>2, <1>3
       DEF Next, vars, Post, Delete, Callback, Consume, Take, ReadChannel, ReadGuild,
           SetPolicy, Crash

\* A tombstone stays, whatever is recorded after it (the where clause of
\* RecordMessage's upsert).
THEOREM TombstonesStay == Spec => TombstoneIsFinal
  <1>1. ASSUME TypeOK, [Next]_vars
        PROVE  [\A m \in Messages : stored[m] = "tombstone"
                                       => stored'[m] = "tombstone"]_vars
    BY <1>1, TombstonesAreKept
  <1>2. QED
    BY <1>1, TypeCorrect, PTL DEF Spec, TombstoneIsFinal

\* Taking an event out of the queue, or putting one in, loses no deletion.
LEMMA QueueKeepsDeletions ==
    ASSUME TypeOK, NEW m \in Messages, OnItsWay(m),
           Take \/ \E e \in callbacks : Callback(e)
    PROVE  OnItsWay(m)' \/ m \in missed'
  <1> USE DEF TypeOK
  <1>1. CASE Take
    <2>1. CASE \E e \in callbacks : e.msg = m /\ e.deleted
      BY <1>1, <2>1 DEF Take, OnItsWay
    <2>2. CASE \E i \in DOMAIN queue : queue[i].msg = m /\ queue[i].deleted
      <3> PICK i \in DOMAIN queue : queue[i].msg = m /\ queue[i].deleted
        BY <2>2
      <3>1. CASE i = 1
        <4>1. Head(queue).msg = m /\ Head(queue).deleted
          BY <1>1, <3>1 DEF Take
        <4>2. consumer' = [consumer EXCEPT !.pc = IF Head(queue).deleted THEN "delete"
                                                  ELSE "channel",
                                           !.event = Head(queue)]
          BY <1>1, <4>1 DEF Take
        <4>3. consumer'.pc = "delete" /\ consumer'.event = Head(queue)
          BY <4>1, <4>2
        <4>4. QED
          BY <4>1, <4>3 DEF OnItsWay, Msg
      <3>2. CASE i # 1
        <4>1. i \in 2..Len(queue)
          BY <3>2
        <4>2. queue' = Tail(queue)
          BY <1>1 DEF Take
        <4>3. i - 1 \in DOMAIN queue' /\ queue'[i - 1] = queue[i]
          BY <4>1, <4>2
        <4>4. QED
          BY <4>3 DEF OnItsWay
      <3>3. QED
        BY <3>1, <3>2
    <2>3. consumer.pc # "delete"
      BY <1>1 DEF Take
    <2>4. QED
      BY <2>1, <2>2, <2>3 DEF OnItsWay
  <1>2. CASE \E e \in callbacks : Callback(e)
    <2> PICK e \in callbacks : Callback(e)
      BY <1>2
    <2>1. CASE \E i \in DOMAIN queue : queue[i].msg = m /\ queue[i].deleted
      <3> PICK i \in DOMAIN queue : queue[i].msg = m /\ queue[i].deleted
        BY <2>1
      <3>1. i \in DOMAIN queue' /\ queue'[i] = queue[i]
        <4>1. CASE queue' = Append(queue, Event(e))
          BY <4>1 DEF Event, Events, CallbackType
        <4>2. CASE UNCHANGED queue
          BY <4>2
        <4>3. QED
          BY <4>1, <4>2 DEF Callback
      <3>2. QED
        BY <3>1 DEF OnItsWay
    <2>2. CASE \E f \in callbacks : f.msg = m /\ f.deleted
      <3> PICK f \in callbacks : f.msg = m /\ f.deleted
        BY <2>2
      <3>1. CASE f # e
        BY <3>1 DEF Callback, OnItsWay
      <3>2. CASE f = e /\ queue' = Append(queue, Event(e))
        <4>1. Event(e) \in Events /\ Event(e).msg = m /\ Event(e).deleted
          BY <3>2 DEF Event, Events, CallbackType
        <4>2. Len(queue) + 1 \in DOMAIN queue' /\ queue'[Len(queue) + 1] = Event(e)
          BY <3>2, <4>1
        <4>3. QED
          BY <4>1, <4>2 DEF OnItsWay
      <3>3. CASE f = e /\ UNCHANGED queue /\ Len(queue) = QueueSize
        BY <3>3 DEF Callback
      <3>4. CASE f = e /\ Len(queue) # QueueSize
        BY <3>2, <3>4 DEF Callback
      <3>5. CASE f = e /\ queue' # Append(queue, Event(e))
        BY <3>3, <3>5 DEF Callback
      <3>6. QED
        BY <3>1, <3>2, <3>4, <3>5
    <2>3. CASE consumer.pc = "delete" /\ Msg = m
      BY <2>3 DEF Callback, OnItsWay, Msg
    <2>4. QED
      BY <2>1, <2>2, <2>3 DEF OnItsWay
  <1>3. QED
    BY <1>1, <1>2

\* A deletion stays on its way until it is missed or has left a tombstone.
LEMMA DeletionsGetThere ==
    ASSUME TypeOK, [Next]_vars, NEW m \in Messages, OnItsWay(m)
    PROVE  OnItsWay(m)' \/ m \in missed' \/ stored'[m] = "tombstone"
  <1>1. CASE Take \/ \E e \in callbacks : Callback(e)
    BY <1>1, QueueKeepsDeletions
  <1>2. CASE DeleteMessage
    <2>1. CASE Msg = m
      BY <1>2, <2>1 DEF DeleteMessage, Deleted, TypeOK
    <2>2. CASE Msg # m
      BY <1>2, <2>2 DEF DeleteMessage, OnItsWay
    <2>3. QED
      BY <2>1, <2>2
  <1>3. CASE Crash
    BY <1>3 DEF Crash
  <1>4. CASE \/ ReadChannel \/ ReadGuild \/ Record
    <2>1. consumer.pc # "delete" /\ UNCHANGED <<callbacks, queue>>
      BY <1>4 DEF ReadChannel, ReadGuild, Record
    <2>2. QED
      BY <2>1 DEF OnItsWay
  <1>5. CASE \/ UNCHANGED vars
             \/ \E n \in Messages : Post(n) \/ Delete(n)
             \/ \E ch \in Channels, mode \in Modes : SetPolicy(ch, mode)
    <2>1. callbacks \subseteq callbacks' /\ UNCHANGED <<queue, consumer>>
      BY <1>5 DEF vars, Post, Delete, SetPolicy
    <2>2. QED
      BY <2>1 DEF OnItsWay, Msg
  <1>6. QED
    BY <1>1, <1>2, <1>3, <1>4, <1>5 DEF Next, Consume

\* The deletion of a message that is still kept is on its way or was missed.
THEOREM DeletionsAccountedFor == Spec => []DeletedIsAccountedFor
  <1>1. Init => DeletedIsAccountedFor
    BY DEF Init, DeletedIsAccountedFor
  <1>2. ASSUME TypeOK, DeletedIsAccountedFor, [Next]_vars
        PROVE  DeletedIsAccountedFor'
    <2> SUFFICES ASSUME NEW m \in Messages, discord'[m] = "deleted"
                 PROVE  OnItsWay(m)' \/ m \in missed' \/ stored'[m] = "tombstone"
      BY DEF DeletedIsAccountedFor
    <2>1. CASE discord[m] = "deleted"
      <3>1. CASE OnItsWay(m)
        BY <1>2, <3>1, DeletionsGetThere
      <3>2. CASE stored[m] = "tombstone"
        BY <1>2, <3>2, TombstonesAreKept
      <3>3. CASE m \in missed
        <4>1. missed \subseteq missed'
          BY <1>2 DEF Next, vars, Post, Delete, Callback, Consume, Take, ReadChannel,
                      ReadGuild, Record, DeleteMessage, SetPolicy, Crash
        <4>2. QED
          BY <3>3, <4>1
      <3>4. QED
        BY <1>2, <2>1, <3>1, <3>2, <3>3 DEF DeletedIsAccountedFor
    <2>2. CASE discord[m] # "deleted"
      <3>1. Delete(m)
        <4>1. CASE \E n \in Messages : Post(n)
          BY <1>2, <2>2, <4>1 DEF Post, TypeOK
        <4>2. CASE \E n \in Messages : Delete(n)
          BY <1>2, <2>2, <4>2 DEF Delete, TypeOK
        <4>3. CASE UNCHANGED discord
          BY <2>2, <4>3
        <4>4. QED
          BY <1>2, <4>1, <4>2, <4>3
             DEF Next, vars, Callback, Consume, Take, ReadChannel, ReadGuild, Record,
                 DeleteMessage, SetPolicy, Crash
      <3>2. [msg |-> m, deleted |-> TRUE, copy |-> 0] \in callbacks'
        BY <3>1 DEF Delete
      <3>3. QED
        BY <3>2 DEF OnItsWay
    <2>3. QED
      BY <2>1, <2>2
  <1>3. QED
    BY <1>1, <1>2, TypeCorrect, PTL DEF Spec
=============================================================================
