------------------------- MODULE RecentRunsProofs -------------------------
(***************************************************************************)
(* Proofs about RecentRuns: what the two bounded stores still know of the  *)
(* history, for every number of conversations and runs, every limit and    *)
(* time to live.                                                           *)
(*                                                                         *)
(* FollowInv says which snapshots MemoryFollowUpStore holds and why the    *)
(* others are gone, TraceInv the same of the runs of MemoryTraceStore.     *)
(* Each is kept by the operations of its store; the answers of Load and    *)
(* LastTrace follow from them.                                             *)
(***************************************************************************)
EXTENDS RecentRuns, FiniteSetTheorems, WellFoundedInduction, TLAPS

-----------------------------------------------------------------------------
(* The invariant of MemoryFollowUpStore.                                   *)

SaveType == [conversation : Conversations, at : Nat]

Newest(c, i) == i \in SavesOf(c) /\ \A j \in SavesOf(c) : j <= i

\* The conversations of the saves after this one.
SavedSince(i) == {saves[j].conversation : j \in {k \in DOMAIN saves : k > i}}

FollowTyped ==
    /\ clock \in Nat /\ saves \in Seq(SaveType) /\ sequence = Len(saves)
    /\ IsFiniteSet(DOMAIN items) /\ Cardinality(DOMAIN items) <= MaxEntries

\* The saves are in the order of their time.
Clocked ==
    \A i \in DOMAIN saves :
      /\ saves[i].at <= clock
      /\ \A j \in DOMAIN saves : i <= j => saves[i].at <= saves[j].at

\* An entry is of the last save of its conversation.
EntryOK(c) ==
    LET i == items[c].snapshot
    IN  Newest(c, i) /\ items[c].sequence = i /\ items[c].savedAt = saves[i].at

\* Whoever saved after the entry still has an entry, or this one has expired too.
LaterStay(c) ==
    \A j \in DOMAIN saves : j > items[c].snapshot =>
      saves[j].conversation \in DOMAIN items \/ Expired(items[c])

\* A conversation without an entry saved too long ago, or too many saved since.
ForgottenOK(c) ==
    \A i \in DOMAIN saves : Newest(c, i) /\ c \notin DOMAIN items =>
      clock - saves[i].at > TTL \/ Cardinality(SavedSince(i)) >= MaxEntries

FollowInv ==
    /\ FollowTyped /\ Clocked
    /\ \A c \in DOMAIN items : EntryOK(c) /\ LaterStay(c)
    /\ \A c \in Conversations : ForgottenOK(c)

-----------------------------------------------------------------------------
(* The invariant of MemoryTraceStore.                                      *)

EventType == [conversation : Conversations, run : Runs]

OfConversation(c) == {i \in DOMAIN events : events[i].conversation = c}

\* The events a run is shown with, and the first of them.
Traced(r) == {runs[r].events[i] : i \in DOMAIN runs[r].events}
First(r) == runs[r].events[1]

\* The runs of the events after this one.
RecordedSince(i) == {events[j].run : j \in {k \in DOMAIN events : k > i}}

\* The runs are in the order of the first event they are shown with.
TraceTyped ==
    /\ events \in Seq(EventType) /\ order \in Seq(Runs)
    /\ DOMAIN runs = {order[i] : i \in DOMAIN order}
    /\ IsFiniteSet(DOMAIN runs) /\ Cardinality(DOMAIN runs) = Len(order)
    /\ Len(order) <= MaxRuns
    /\ \A i, j \in DOMAIN order : i < j => First(order[i]) < First(order[j])

OneConversation ==
    \A i, j \in DOMAIN events :
      events[i].run = events[j].run => events[i].conversation = events[j].conversation

\* A run is shown with all its events from some first one on.
RunOK(r) ==
    /\ runs[r].events \in Seq(Nat) /\ runs[r].events # << >>
    /\ First(r) \in EventsOf(r)
    /\ Traced(r) = {i \in EventsOf(r) : i >= First(r)}
    /\ \A i \in EventsOf(r) : events[i].conversation = runs[r].conversation

\* A key leads to the run of the last event of its conversation.
KeyOK(c) ==
    /\ keys[c] \in DOMAIN runs
    /\ \E i \in OfConversation(c) :
         events[i].run = keys[c] /\ \A j \in OfConversation(c) : j <= i

\* A run is shown from its first event on, or too many runs recorded since.
DroppedOK(r) ==
    \A i \in EventsOf(r) : (\A j \in EventsOf(r) : i <= j) =>
      \/ r \in DOMAIN runs /\ First(r) = i
      \/ Cardinality(RecordedSince(i) \ {r}) >= MaxRuns

\* The run of the last event of a conversation is found unless it was dropped.
KeyIsThere(c) ==
    \A i \in OfConversation(c) :
      (\A j \in OfConversation(c) : j <= i) /\ events[i].run \in DOMAIN runs => c \in DOMAIN keys

TraceInv ==
    /\ TraceTyped /\ OneConversation
    /\ \A r \in DOMAIN runs : RunOK(r)
    /\ \A c \in DOMAIN keys : KeyOK(c)
    /\ \A r \in Runs : DroppedOK(r)
    /\ \A c \in Conversations : KeyIsThere(c)

-----------------------------------------------------------------------------
(* Sets of numbers, functions and their counts.                            *)

LEMMA Smallest ==
  ASSUME NEW S \in SUBSET Nat, S # {}
  PROVE  \E m \in S : \A k \in S : m <= k
<1> DEFINE R == {ss \in Nat \X Nat : ss[1] < ss[2]}
<1>1. IsWellFoundedOn(R, Nat)
  BY NatLessThanWellFounded DEF OpToRel
<1>2. \A x, y \in Nat : y < x => <<y, x>> \in R
  <2> SUFFICES ASSUME NEW x \in Nat, NEW y \in Nat, y < x
               PROVE  <<y, x>> \in R
    OBVIOUS
  <2>1. <<y, x>> \in Nat \X Nat /\ <<y, x>>[1] < <<y, x>>[2]
    OBVIOUS
  <2> QED
    BY <2>1
<1> HIDE DEF R
<1>3. PICK m \in S : \A k \in S : ~ (<<k, m>> \in R)
  BY <1>1, WFMin
<1>4. \A k \in S : ~ (k < m)
  BY <1>2, <1>3
<1>5. \A k \in S : m <= k
  BY <1>4
<1> QED
  BY <1>5

LEMMA Largest ==
  ASSUME NEW n \in Nat, NEW S \in SUBSET (0..n), S # {}
  PROVE  \E m \in S : \A k \in S : k <= m
<1> DEFINE T == {n - k : k \in S}
<1>1. T \in SUBSET Nat /\ T # {}
  <2>1. \A k \in S : n - k \in Nat
    OBVIOUS
  <2>2. \E k \in S : n - k \in T
    OBVIOUS
  <2> QED
    BY <2>1, <2>2
<1>2. PICK l \in T : \A k \in T : l <= k
  <2> HIDE DEF T
  <2> QED
    BY <1>1, Smallest
<1>3. PICK m \in S : l = n - m
  BY <1>2
<1>4. ASSUME NEW k \in S
      PROVE  k <= m
  <2>1. n - m <= n - k /\ m \in Int /\ k \in Int
    BY <1>2, <1>3
  <2> QED
    BY <2>1
<1> QED
  BY <1>4

\* The one that Latest and Earliest choose.
LEMMA LatestIs ==
  ASSUME NEW S \in SUBSET Nat, NEW i \in S, \A j \in S : j <= i
  PROVE  Latest(S) = i
<1>1. /\ Latest(S) \in S /\ \A j \in S : j <= Latest(S)
  BY DEF Latest
<1>2. Latest(S) <= i /\ i <= Latest(S) /\ Latest(S) \in Nat
  BY <1>1
<1> QED
  BY <1>2

LEMMA EarliestIs ==
  ASSUME NEW S \in SUBSET Nat, NEW i \in S, \A j \in S : i <= j
  PROVE  Earliest(S) = i
<1>1. /\ Earliest(S) \in S /\ \A j \in S : Earliest(S) <= j
  BY DEF Earliest
<1>2. Earliest(S) <= i /\ i <= Earliest(S) /\ Earliest(S) \in Nat
  BY <1>1
<1> QED
  BY <1>2

\* The values of a function on a finite set are finitely many.
LEMMA FiniteImage ==
  ASSUME NEW S, IsFiniteSet(S), NEW f
  PROVE  IsFiniteSet({f[x] : x \in S})
<1> DEFINE T == {f[x] : x \in S}
           g == [x \in S |-> f[x]]
<1>1. g \in Surjection(S, T)
  BY DEF Surjection
<1> HIDE DEF g, T
<1> QED
  BY <1>1, FS_Surjection DEF T

\* A finite set has no fewer elements than one that is part of it.
LEMMA CountMonotone ==
  ASSUME NEW S, NEW T, IsFiniteSet(T), S \subseteq T
  PROVE  /\ IsFiniteSet(S) /\ Cardinality(S) \in Nat /\ Cardinality(T) \in Nat
         /\ Cardinality(S) <= Cardinality(T)
<1>1. IsFiniteSet(S) /\ Cardinality(S) <= Cardinality(T)
  BY FS_Subset
<1> QED
  BY <1>1, FS_CardinalityType

\* The records of a sequence after one of them have finitely many values.
LEMMA SinceIsFinite ==
  ASSUME NEW s, NEW n \in Nat, DOMAIN s = 1..n, NEW i
  PROVE  /\ IsFiniteSet({s[j].conversation : j \in {k \in DOMAIN s : k > i}})
         /\ IsFiniteSet({s[j].run : j \in {k \in DOMAIN s : k > i}})
<1> DEFINE K == {k \in DOMAIN s : k > i}
           f == [k \in K |-> s[k].conversation]
           g == [k \in K |-> s[k].run]
<1>1. IsFiniteSet(K)
  <2>1. IsFiniteSet(1..n)
    BY FS_Interval
  <2> QED
    BY <2>1, FS_Subset
<1>2. IsFiniteSet({f[k] : k \in K}) /\ IsFiniteSet({g[k] : k \in K})
  <2> HIDE DEF f, g, K
  <2> QED
    BY <1>1, FiniteImage
<1>3. /\ {f[k] : k \in K} = {s[k].conversation : k \in K}
      /\ {g[k] : k \in K} = {s[k].run : k \in K}
  OBVIOUS
<1> QED
  BY <1>2, <1>3

-----------------------------------------------------------------------------
(* MemoryFollowUpStore.                                                    *)

\* The saves as a sequence.
LEMMA SavesFacts ==
  ASSUME FollowTyped
  PROVE  /\ Len(saves) \in Nat /\ DOMAIN saves = 1..Len(saves)
         /\ \A i \in DOMAIN saves : saves[i].conversation \in Conversations /\ saves[i].at \in Nat
<1>1. saves \in Seq(SaveType)
  BY DEF FollowTyped
<1>2. /\ Len(saves) \in Nat /\ DOMAIN saves = 1..Len(saves)
      /\ \A i \in DOMAIN saves : saves[i] \in SaveType
  <2> HIDE DEF SaveType
  <2> QED
    BY <1>1
<1> QED
  BY <1>2 DEF SaveType

\* The numbers of an entry.
LEMMA EntryFacts ==
  ASSUME FollowInv, NEW c \in DOMAIN items
  PROVE  /\ c \in Conversations /\ items[c].snapshot \in DOMAIN saves
         /\ items[c].snapshot \in 1..Len(saves) /\ items[c].sequence = items[c].snapshot
         /\ saves[items[c].snapshot].conversation = c
         /\ items[c].savedAt = saves[items[c].snapshot].at /\ items[c].savedAt \in Nat
BY SavesFacts DEF FollowInv, EntryOK, Newest, SavesOf

\* Of two entries the one that was saved later expires later.
LEMMA LaterExpiresLater ==
  ASSUME FollowInv, NEW c \in DOMAIN items, NEW d \in DOMAIN items,
         items[c].snapshot <= items[d].snapshot, Expired(items[d])
  PROVE  Expired(items[c])
<1>1. /\ items[c].savedAt \in Nat /\ items[d].savedAt \in Nat
      /\ items[c].savedAt <= items[d].savedAt
  BY EntryFacts DEF FollowInv, Clocked
<1>2. clock \in Nat /\ TTL \in Nat
  BY RecentAssumption DEF FollowInv, FollowTyped
<1> QED
  BY <1>1, <1>2 DEF Expired

\* What Save leaves in the store: the new entry, and of the others all but the
\* expired ones and at most one that is older than any that is left.
LEMMA SaveEffect ==
  ASSUME FollowInv, NEW c \in Conversations, Save(c)
  PROVE  LET n == Len(saves) + 1
         IN  /\ DOMAIN items' \subseteq DOMAIN items \cup {c} /\ c \in DOMAIN items'
             /\ items'[c] = [snapshot |-> n, savedAt |-> clock, sequence |-> n]
             /\ \A d \in DOMAIN items' : d # c => items'[d] = items[d]
             /\ \A d \in DOMAIN items : d # c /\ d \notin DOMAIN items' =>
                  \/ Expired(items[d])
                  \/ /\ \A e \in DOMAIN items' : e # c => items[d].sequence <= items[e].sequence
                     /\ Cardinality(DOMAIN items') >= MaxEntries
             /\ IsFiniteSet(DOMAIN items') /\ Cardinality(DOMAIN items') <= MaxEntries
<1> DEFINE n == Len(saves) + 1
           new == [snapshot |-> n, savedAt |-> clock, sequence |-> n]
           put == Put(items, c, new)
           old == {d \in DOMAIN put : Expired(put[d])}
           kept == Purged(put)
<1>1. /\ DOMAIN put = DOMAIN items \cup {c} /\ put[c] = new
      /\ \A d \in DOMAIN items : d # c => put[d] = items[d]
  <2> HIDE DEF new
  <2> QED
    BY DEF Put
<1>2. /\ DOMAIN kept = DOMAIN put \ old /\ \A d \in DOMAIN put \ old : kept[d] = put[d]
  BY DEF Without, Purged
<1>3. /\ clock \in Nat /\ TTL \in Nat /\ MaxEntries \in Nat \ {0} /\ n \in Nat
      /\ n > Len(saves) /\ sequence + 1 = n
  BY RecentAssumption, SavesFacts DEF FollowInv, FollowTyped
<1>4. items' = Trimmed(kept)
  BY <1>3 DEF Save
<1>5. ~Expired(new) /\ new.sequence = n
  BY <1>3 DEF Expired
<1>6. c \in DOMAIN kept /\ kept[c] = new
  BY <1>1, <1>2, <1>5
<1>7. \A d \in DOMAIN kept : d # c => d \in DOMAIN items /\ kept[d] = items[d]
  BY <1>1, <1>2
<1>8. \A d \in DOMAIN items : d # c /\ d \notin DOMAIN kept => Expired(items[d])
  BY <1>1, <1>2
<1>9. /\ IsFiniteSet(DOMAIN kept) /\ Cardinality(DOMAIN kept) \in Nat
      /\ Cardinality(DOMAIN kept) <= MaxEntries + 1
  <2>1. IsFiniteSet(DOMAIN items) /\ Cardinality(DOMAIN items) <= MaxEntries
    BY DEF FollowInv, FollowTyped
  <2>2. /\ IsFiniteSet(DOMAIN items \cup {c}) /\ Cardinality(DOMAIN items) \in Nat
        /\ Cardinality(DOMAIN items \cup {c}) <= Cardinality(DOMAIN items) + 1
    BY <2>1, FS_AddElement, FS_CardinalityType
  <2>3. DOMAIN kept \subseteq DOMAIN items \cup {c}
    BY <1>1, <1>2
  <2> HIDE DEF kept
  <2>4. /\ IsFiniteSet(DOMAIN kept) /\ Cardinality(DOMAIN kept) \in Nat
        /\ Cardinality(DOMAIN items \cup {c}) \in Nat
        /\ Cardinality(DOMAIN kept) <= Cardinality(DOMAIN items \cup {c})
    BY <2>2, <2>3, CountMonotone
  <2> QED
    BY <1>3, <2>1, <2>2, <2>4
<1> HIDE DEF n, new, put, old, kept
<1>10. CASE Cardinality(DOMAIN kept) <= MaxEntries
  <2>1. items' = kept
    BY <1>3, <1>4, <1>9, <1>10 DEF Trimmed
  <2> QED
    BY <1>6, <1>7, <1>8, <1>9, <1>10, <2>1 DEF new, n
<1>11. CASE Cardinality(DOMAIN kept) > MaxEntries
  <2> DEFINE o == Oldest(kept)
  <2>1. items' = Without(kept, {o})
    BY <1>4, <1>11 DEF Trimmed
  <2>2. \A d \in DOMAIN kept : kept[d].sequence \in Nat
    <3>1. \A d \in DOMAIN kept : d # c => kept[d].sequence = items[d].snapshot
      BY <1>7, EntryFacts
    <3>2. \A d \in DOMAIN kept : d # c => items[d].snapshot \in Nat
      BY <1>3, <1>7, EntryFacts, SavesFacts DEF FollowInv
    <3> QED
      BY <1>3, <1>5, <1>6, <3>1, <3>2
  <2>3. \E d \in DOMAIN kept : \A e \in DOMAIN kept : kept[d].sequence <= kept[e].sequence
    <3> DEFINE S == {kept[d].sequence : d \in DOMAIN kept}
    <3>1. S \in SUBSET Nat /\ S # {}
      BY <1>6, <2>2
    <3>2. PICK m \in S : \A k \in S : m <= k
      <4> HIDE DEF S
      <4> QED
        BY <3>1, Smallest
    <3> QED
      BY <3>2
  <2>4. /\ o \in DOMAIN kept
        /\ \A e \in DOMAIN kept : kept[o].sequence <= kept[e].sequence
    BY <2>3 DEF Oldest
  <2>5. o # c
    <3>1. SUFFICES ASSUME o = c
                   PROVE  FALSE
      OBVIOUS
    <3>2. \A d \in DOMAIN kept : d = c
      <4>1. ASSUME NEW d \in DOMAIN kept, d # c
            PROVE  FALSE
        <5>1. kept[d].sequence = items[d].snapshot /\ items[d].snapshot \in 1..Len(saves)
          BY <1>7, <4>1, EntryFacts
        <5>2. n <= kept[d].sequence
          BY <1>5, <1>6, <2>4, <3>1
        <5>3. Len(saves) \in Nat
          BY SavesFacts DEF FollowInv
        <5> QED
          BY <5>1, <5>2, <5>3 DEF n
      <4> QED
        BY <4>1
    <3>3. DOMAIN kept = {c}
      BY <1>6, <3>2
    <3>4. Cardinality(DOMAIN kept) = 1
      BY <3>3, FS_Singleton
    <3> QED
      BY <1>3, <1>11, <3>4
  <2>6. /\ DOMAIN items' = DOMAIN kept \ {o}
        /\ \A d \in DOMAIN items' : items'[d] = kept[d]
    BY <2>1 DEF Without
  <2>7. /\ IsFiniteSet(DOMAIN items')
        /\ Cardinality(DOMAIN items') = Cardinality(DOMAIN kept) - 1
    BY <1>9, <2>4, <2>6, FS_RemoveElement
  <2> HIDE DEF o
  <2>8. /\ Cardinality(DOMAIN items') <= MaxEntries
        /\ Cardinality(DOMAIN items') >= MaxEntries
    BY <1>3, <1>9, <1>11, <2>7
  <2>9. ASSUME NEW d \in DOMAIN items, d # c, d \notin DOMAIN items', ~Expired(items[d])
        PROVE  \A e \in DOMAIN items' : e # c => items[d].sequence <= items[e].sequence
    BY <1>7, <1>8, <2>4, <2>6, <2>9
  <2>10. /\ DOMAIN items' \subseteq DOMAIN items \cup {c} /\ c \in DOMAIN items'
         /\ items'[c] = new /\ \A d \in DOMAIN items' : d # c => items'[d] = items[d]
    BY <1>6, <1>7, <2>5, <2>6
  <2> QED
    BY <2>7, <2>8, <2>9, <2>10 DEF new, n
<1> QED
  BY <1>3, <1>9, <1>10, <1>11

\* The history after a Save.
LEMMA SaveHistory ==
  ASSUME FollowInv, NEW c \in Conversations, Save(c), NEW n, n = Len(saves) + 1
  PROVE  /\ n \in Nat /\ Len(saves') = n /\ DOMAIN saves' = 1..n /\ saves' \in Seq(SaveType)
         /\ \A i \in DOMAIN saves : i \in DOMAIN saves' /\ i < n /\ saves'[i] = saves[i]
         /\ \A i \in DOMAIN saves' : i = n \/ i \in DOMAIN saves
         /\ saves'[n].conversation = c /\ saves'[n].at = clock
         /\ Newest(c, n)'
         /\ \A d, i : d # c => (Newest(d, i)' <=> Newest(d, i))
         /\ \A i : SavedSince(i) \subseteq SavedSince(i)'
         /\ \A i \in DOMAIN saves : c \in SavedSince(i)'
<1> DEFINE new == [conversation |-> c, at |-> clock]
<1>1. /\ saves \in Seq(SaveType) /\ new \in SaveType /\ saves' = Append(saves, new)
      /\ Len(saves) \in Nat /\ DOMAIN saves = 1..Len(saves)
  BY SavesFacts DEF FollowInv, FollowTyped, SaveType, Save
<1>2. new.conversation = c /\ new.at = clock
  OBVIOUS
<1> HIDE DEF new
<1>3. /\ saves' \in Seq(SaveType) /\ Len(saves') = n /\ saves'[n] = new
      /\ DOMAIN saves' = 1..n /\ n \in Nat
      /\ \A i \in 1..Len(saves) : saves'[i] = saves[i]
  <2> HIDE DEF SaveType
  <2> QED
    BY <1>1
<1>4. /\ \A i \in DOMAIN saves : i \in DOMAIN saves' /\ i < n /\ saves'[i] = saves[i]
      /\ \A i \in DOMAIN saves' : i = n \/ i \in DOMAIN saves
      /\ n \in DOMAIN saves' /\ \A i \in DOMAIN saves' : i <= n
  BY <1>1, <1>3
<1>5. Newest(c, n)'
  BY <1>2, <1>3, <1>4 DEF Newest, SavesOf
<1>6. ASSUME NEW d, d # c
      PROVE  SavesOf(d)' = SavesOf(d)
  BY <1>2, <1>3, <1>4, <1>6 DEF SavesOf
<1>7. ASSUME NEW d, NEW i, d # c
      PROVE  Newest(d, i)' <=> Newest(d, i)
  BY <1>6, <1>7 DEF Newest
<1>8. ASSUME NEW i, NEW x \in SavedSince(i)
      PROVE  x \in SavedSince(i)'
  BY <1>4, <1>8 DEF SavedSince
<1>9. ASSUME NEW i \in DOMAIN saves
      PROVE  c \in SavedSince(i)'
  <2>1. n > i
    BY <1>1, <1>3, <1>4
  <2> QED
    BY <1>2, <1>3, <1>4, <2>1 DEF SavedSince
<1> QED
  BY <1>2, <1>3, <1>4, <1>5, <1>7, <1>8, <1>9

\* A Save keeps the invariant.
LEMMA SaveKeeps ==
  ASSUME FollowInv, NEW c \in Conversations, Save(c)
  PROVE  FollowInv'
<1>0. PICK n : n = Len(saves) + 1
  OBVIOUS
<1> DEFINE new == [snapshot |-> n, savedAt |-> clock, sequence |-> n]
<1>1. /\ DOMAIN items' \subseteq DOMAIN items \cup {c} /\ c \in DOMAIN items'
      /\ items'[c] = new
      /\ \A d \in DOMAIN items' : d # c => items'[d] = items[d]
      /\ \A d \in DOMAIN items : d # c /\ d \notin DOMAIN items' =>
           \/ Expired(items[d])
           \/ /\ \A e \in DOMAIN items' : e # c => items[d].sequence <= items[e].sequence
              /\ Cardinality(DOMAIN items') >= MaxEntries
      /\ IsFiniteSet(DOMAIN items') /\ Cardinality(DOMAIN items') <= MaxEntries
  BY <1>0, SaveEffect
<1>2. /\ n \in Nat /\ Len(saves') = n /\ DOMAIN saves' = 1..n /\ saves' \in Seq(SaveType)
      /\ \A i \in DOMAIN saves : i \in DOMAIN saves' /\ i < n /\ saves'[i] = saves[i]
      /\ \A i \in DOMAIN saves' : i = n \/ i \in DOMAIN saves
      /\ saves'[n].conversation = c /\ saves'[n].at = clock
      /\ Newest(c, n)'
      /\ \A d, i : d # c => (Newest(d, i)' <=> Newest(d, i))
      /\ \A i : SavedSince(i) \subseteq SavedSince(i)'
      /\ \A i \in DOMAIN saves : c \in SavedSince(i)'
  BY <1>0, SaveHistory
<1>3. /\ clock' = clock /\ clock \in Nat /\ TTL \in Nat /\ MaxEntries \in Nat
      /\ sequence' = n /\ DOMAIN saves \subseteq Nat
      /\ \A i \in DOMAIN saves : saves[i].at \in Nat
      /\ \A d : d \in DOMAIN items \/ d \in DOMAIN items' => d \in Conversations
  <2>1. DOMAIN items \subseteq Conversations
    BY EntryFacts
  <2> QED
    BY <1>0, <1>1, <2>1, RecentAssumption, SavesFacts DEF FollowInv, FollowTyped, Save
<1>4. new.snapshot = n /\ new.savedAt = clock /\ new.sequence = n
  OBVIOUS
<1> HIDE DEF new
<1>5. FollowTyped'
  BY <1>1, <1>2, <1>3 DEF FollowTyped
<1>6. Clocked'
  <2>1. \A i \in DOMAIN saves' : saves'[i].at <= clock
    BY <1>2, <1>3 DEF FollowInv, Clocked
  <2>2. ASSUME NEW i \in DOMAIN saves', NEW j \in DOMAIN saves', i <= j
        PROVE  saves'[i].at <= saves'[j].at
    <3>1. CASE j = n
      BY <1>2, <2>1, <3>1
    <3>2. CASE j # n
      <4>1. j \in DOMAIN saves /\ i \in DOMAIN saves
        BY <1>2, <1>3, <2>2, <3>2
      <4> QED
        BY <1>2, <2>2, <4>1 DEF FollowInv, Clocked
    <3> QED
      BY <3>1, <3>2
  <2> QED
    BY <1>3, <2>1, <2>2 DEF Clocked
<1>7. ASSUME NEW d \in DOMAIN items', d # c
      PROVE  /\ d \in DOMAIN items /\ items'[d] = items[d]
             /\ items[d].snapshot \in DOMAIN saves /\ items[d].sequence = items[d].snapshot
             /\ EntryOK(d) /\ LaterStay(d)
  BY <1>1, <1>7, EntryFacts DEF FollowInv
<1>8. ASSUME NEW d \in DOMAIN items'
      PROVE  EntryOK(d)'
  <2>1. CASE d = c
    BY <1>1, <1>2, <1>4, <2>1 DEF EntryOK
  <2>2. CASE d # c
    BY <1>2, <1>7, <2>2 DEF EntryOK
  <2> QED
    BY <2>1, <2>2
<1>9. ASSUME NEW d \in DOMAIN items'
      PROVE  LaterStay(d)'
  <2>1. SUFFICES ASSUME NEW j \in DOMAIN saves', j > items'[d].snapshot,
                        saves'[j].conversation \notin DOMAIN items'
                 PROVE  Expired(items[d])'
    BY DEF LaterStay
  <2> DEFINE e == saves[j].conversation
  <2>2. j # n
    BY <1>1, <1>2, <2>1
  <2>3. j \in DOMAIN saves /\ saves'[j] = saves[j] /\ j < n
    BY <1>2, <2>2
  <2>4. d # c
    <3>1. SUFFICES ASSUME d = c
                   PROVE  FALSE
      OBVIOUS
    <3>2. j > n
      BY <1>1, <1>4, <2>1, <3>1
    <3> QED
      BY <1>2, <1>3, <2>3, <3>2
  <2>5. /\ d \in DOMAIN items /\ items'[d] = items[d] /\ items[d].sequence = items[d].snapshot
        /\ items[d].snapshot \in DOMAIN saves /\ LaterStay(d)
    BY <1>7, <2>4
  <2>6. CASE Expired(items[d])
    BY <1>3, <2>5, <2>6 DEF Expired
  <2>7. CASE e \in DOMAIN items /\ ~Expired(items[d])
    <3>1. e # c /\ e \notin DOMAIN items'
      BY <1>1, <2>1, <2>3
    <3>2. /\ items[e].snapshot \in DOMAIN saves /\ items[e].sequence = items[e].snapshot
          /\ j <= items[e].snapshot
      BY <2>3, <2>7, EntryFacts DEF FollowInv, EntryOK, Newest, SavesOf
    <3>3. items[d].snapshot < items[e].snapshot
      BY <1>3, <2>1, <2>3, <2>5, <3>2
    <3>4. ~Expired(items[e])
      <4>1. items[d].snapshot <= items[e].snapshot
        BY <1>3, <2>5, <3>2, <3>3
      <4> QED
        BY <2>5, <2>7, <4>1, LaterExpiresLater
    <3>5. items[e].sequence <= items[d].sequence
      BY <1>1, <2>4, <2>5, <2>7, <3>1, <3>4
    <3> QED
      BY <1>3, <2>5, <3>2, <3>3, <3>5
  <2> QED
    BY <2>1, <2>3, <2>5, <2>6, <2>7 DEF LaterStay
<1>10. ASSUME NEW d \in Conversations
       PROVE  ForgottenOK(d)'
  <2>1. SUFFICES ASSUME NEW i \in DOMAIN saves', Newest(d, i)', d \notin DOMAIN items',
                        ~ (clock' - saves'[i].at > TTL)
                 PROVE  Cardinality(SavedSince(i)') >= MaxEntries
    BY DEF ForgottenOK
  <2>2. d # c
    BY <1>1, <2>1
  <2>3. Newest(d, i) /\ i \in DOMAIN saves /\ saves'[i] = saves[i]
    BY <1>2, <2>1, <2>2 DEF Newest, SavesOf
  <2>4. IsFiniteSet(SavedSince(i)')
    <3>1. n \in Nat /\ DOMAIN saves' = 1..n
      BY <1>2
    <3>2. IsFiniteSet({saves'[j].conversation : j \in {k \in DOMAIN saves' : k > i}})
      BY <3>1, SinceIsFinite
    <3> QED
      BY <3>2 DEF SavedSince
  <2>5. CASE d \notin DOMAIN items
    <3>1. Cardinality(SavedSince(i)) >= MaxEntries
      BY <1>3, <2>1, <2>3, <2>5 DEF FollowInv, ForgottenOK
    <3>2. /\ Cardinality(SavedSince(i)) \in Nat /\ Cardinality(SavedSince(i)') \in Nat
          /\ Cardinality(SavedSince(i)) <= Cardinality(SavedSince(i)')
      BY <1>2, <2>4, CountMonotone
    <3> QED
      BY <1>3, <3>1, <3>2
  <2>6. CASE d \in DOMAIN items
    <3>1. /\ items[d].snapshot = i /\ items[d].sequence = i /\ items[d].savedAt = saves[i].at
      <4>1. /\ items[d].sequence = items[d].snapshot /\ Newest(d, items[d].snapshot)
            /\ items[d].savedAt = saves[items[d].snapshot].at
        BY <2>6 DEF FollowInv, EntryOK
      <4>2. i \in SavesOf(d) /\ items[d].snapshot \in SavesOf(d)
            /\ items[d].snapshot <= i /\ i <= items[d].snapshot
        BY <2>3, <4>1 DEF Newest
      <4>3. i \in Nat /\ items[d].snapshot \in Nat
        BY <1>3, <4>2 DEF SavesOf
      <4>4. items[d].snapshot = i
        BY <4>2, <4>3
      <4> QED
        BY <4>1, <4>4
    <3>2. ~Expired(items[d])
      BY <1>3, <2>1, <2>3, <3>1 DEF Expired
    <3>3. /\ \A e \in DOMAIN items' : e # c => items[d].sequence <= items[e].sequence
          /\ Cardinality(DOMAIN items') >= MaxEntries
      BY <1>1, <2>1, <2>2, <2>6, <3>2
    <3>4. ASSUME NEW e \in DOMAIN items'
          PROVE  e \in SavedSince(i)'
      <4>1. CASE e = c
        BY <1>2, <2>3, <4>1
      <4>2. CASE e # c
        <5>1. /\ e \in DOMAIN items /\ items[e].snapshot \in DOMAIN saves
              /\ items[e].sequence = items[e].snapshot
              /\ saves[items[e].snapshot].conversation = e
          BY <1>7, <4>2, EntryFacts
        <5>2. items[e].snapshot # i
          BY <2>1, <2>3, <3>4, <5>1 DEF Newest, SavesOf
        <5>3. i <= items[e].snapshot /\ i \in Nat /\ items[e].snapshot \in Nat
          BY <1>3, <2>3, <3>1, <3>3, <4>2, <5>1
        <5>4. items[e].snapshot > i
          BY <5>2, <5>3
        <5>5. e \in SavedSince(i)
          BY <5>1, <5>4 DEF SavedSince
        <5> QED
          BY <1>2, <5>5
      <4> QED
        BY <4>1, <4>2
    <3>5. /\ Cardinality(DOMAIN items') \in Nat /\ Cardinality(SavedSince(i)') \in Nat
          /\ Cardinality(DOMAIN items') <= Cardinality(SavedSince(i)')
      BY <2>4, <3>4, CountMonotone
    <3> QED
      BY <1>3, <3>3, <3>5
  <2> QED
    BY <2>5, <2>6
<1> QED
  BY <1>5, <1>6, <1>8, <1>9, <1>10 DEF FollowInv

\* What Load forgets had expired, and so had all entries saved before it.
LEMMA LoadKeeps ==
  ASSUME FollowInv, NEW c \in Conversations, Load(c)
  PROVE  FollowInv'
<1>1. /\ c \in DOMAIN items /\ Expired(items[c])
      /\ DOMAIN items' = DOMAIN items \ {c}
      /\ \A d \in DOMAIN items' : items'[d] = items[d]
      /\ clock' = clock /\ sequence' = sequence /\ saves' = saves
  BY DEF Load, Without
<1>2. /\ clock \in Nat /\ TTL \in Nat /\ MaxEntries \in Nat
      /\ IsFiniteSet(DOMAIN items) /\ Cardinality(DOMAIN items) <= MaxEntries
  BY RecentAssumption DEF FollowInv, FollowTyped
<1>3. FollowTyped'
  <2>1. /\ IsFiniteSet(DOMAIN items') /\ Cardinality(DOMAIN items') \in Nat
        /\ Cardinality(DOMAIN items) \in Nat /\ Cardinality(DOMAIN items') <= Cardinality(DOMAIN items)
    BY <1>1, <1>2, CountMonotone
  <2>2. Cardinality(DOMAIN items') <= MaxEntries
    BY <1>2, <2>1
  <2> QED
    BY <1>1, <2>1, <2>2 DEF FollowInv, FollowTyped
<1>4. Clocked'
  BY <1>1 DEF FollowInv, Clocked
<1>5. ASSUME NEW d \in DOMAIN items'
      PROVE  EntryOK(d)' /\ LaterStay(d)'
  <2>1. d \in DOMAIN items /\ items'[d] = items[d] /\ EntryOK(d) /\ LaterStay(d)
    BY <1>1 DEF FollowInv
  <2>2. EntryOK(d)'
    BY <1>1, <2>1 DEF EntryOK, Newest, SavesOf
  <2>3. ASSUME NEW j \in DOMAIN saves, j > items[d].snapshot, saves[j].conversation \notin DOMAIN items'
        PROVE  Expired(items[d])
    <3>1. CASE saves[j].conversation # c
      BY <1>1, <2>1, <2>3, <3>1 DEF LaterStay
    <3>2. CASE saves[j].conversation = c
      <4>1. j <= items[c].snapshot
        BY <1>1, <3>2 DEF FollowInv, EntryOK, Newest, SavesOf
      <4>2. j \in Nat /\ items[c].snapshot \in Nat /\ items[d].snapshot \in Nat
        BY <1>1, <2>1, EntryFacts, SavesFacts DEF FollowInv
      <4>3. items[d].snapshot <= items[c].snapshot
        BY <2>3, <4>1, <4>2
      <4> QED
        BY <1>1, <2>1, <4>3, LaterExpiresLater
    <3> QED
      BY <3>1, <3>2
  <2>4. LaterStay(d)'
    BY <1>1, <2>1, <2>3 DEF LaterStay, Expired
  <2> QED
    BY <2>2, <2>4
<1>6. ASSUME NEW d \in Conversations
      PROVE  ForgottenOK(d)'
  <2>1. ForgottenOK(d)
    BY DEF FollowInv
  <2>2. ASSUME NEW i \in DOMAIN saves, Newest(d, i), d = c
        PROVE  clock - saves[i].at > TTL
    <3>1. i \in SavesOf(c) /\ items[c].snapshot \in SavesOf(c)
          /\ items[c].snapshot <= i /\ i <= items[c].snapshot
      BY <1>1, <2>2 DEF FollowInv, EntryOK, Newest
    <3>2. i \in Nat /\ items[c].snapshot \in Nat
      BY <1>1, EntryFacts, SavesFacts DEF FollowInv
    <3>3. i = items[c].snapshot
      BY <3>1, <3>2
    <3> QED
      BY <1>1, <3>3 DEF FollowInv, EntryOK, Expired
  <2> QED
    BY <1>1, <2>1, <2>2 DEF ForgottenOK, Newest, SavesOf, SavedSince
<1> QED
  BY <1>3, <1>4, <1>5, <1>6 DEF FollowInv

\* Time only makes more of them expire.
LEMMA TickKeeps ==
  ASSUME FollowInv, RecentTick
  PROVE  FollowInv'
<1>1. /\ clock' = clock + 1 /\ items' = items /\ sequence' = sequence /\ saves' = saves
  BY DEF RecentTick, followUpVars
<1>2. clock \in Nat /\ TTL \in Nat
  BY RecentAssumption DEF FollowInv, FollowTyped
<1>3. FollowTyped'
  <2>1. clock + 1 \in Nat
    BY <1>2
  <2> QED
    BY <1>1, <2>1 DEF FollowInv, FollowTyped
<1>4. \A i \in DOMAIN saves : saves[i].at \in Nat
  BY SavesFacts DEF FollowInv
<1>5. Clocked'
  <2>1. ASSUME NEW i \in DOMAIN saves
        PROVE  saves[i].at <= clock + 1
    <3>1. saves[i].at <= clock
      BY DEF FollowInv, Clocked
    <3> QED
      BY <1>2, <1>4, <3>1
  <2> QED
    BY <1>1, <2>1 DEF FollowInv, Clocked
<1>6. \A d \in DOMAIN items : EntryOK(d)'
  BY <1>1 DEF FollowInv, EntryOK, Newest, SavesOf
<1>7. ASSUME NEW d \in DOMAIN items, Expired(items[d])
      PROVE  Expired(items[d])'
  <2>1. items[d].savedAt \in Nat
    BY EntryFacts
  <2> QED
    BY <1>1, <1>2, <1>7, <2>1 DEF Expired
<1>8. \A d \in DOMAIN items : LaterStay(d)'
  BY <1>1, <1>7 DEF FollowInv, LaterStay
<1>9. ASSUME NEW d \in Conversations
      PROVE  ForgottenOK(d)'
  <2>1. ForgottenOK(d)
    BY DEF FollowInv
  <2>2. \A i \in DOMAIN saves : clock - saves[i].at > TTL => clock' - saves[i].at > TTL
    BY <1>1, <1>2, <1>4
  <2>3. SavesOf(d)' = SavesOf(d) /\ \A i : SavedSince(i)' = SavedSince(i)
    BY <1>1 DEF SavesOf, SavedSince
  <2>4. \A i : Newest(d, i)' <=> Newest(d, i)
    BY <2>3 DEF Newest
  <2>5. SUFFICES ASSUME NEW i \in DOMAIN saves, Newest(d, i), d \notin DOMAIN items
                 PROVE  clock' - saves[i].at > TTL \/ Cardinality(SavedSince(i)) >= MaxEntries
    BY <1>1, <2>3, <2>4 DEF ForgottenOK
  <2> QED
    BY <2>1, <2>2, <2>5 DEF ForgottenOK
<1> QED
  BY <1>1, <1>3, <1>5, <1>6, <1>8, <1>9 DEF FollowInv

\* What the trace store does is no step of this one.
LEMMA FollowUnchanged ==
  ASSUME FollowInv, UNCHANGED <<clock, followUpVars>>
  PROVE  FollowInv'
<1>1. clock' = clock /\ items' = items /\ sequence' = sequence /\ saves' = saves
  BY DEF followUpVars
<1> QED
  BY <1>1 DEF FollowInv, FollowTyped, Clocked, EntryOK, LaterStay, ForgottenOK, Newest, SavesOf,
              SavedSince, Expired

\* What Load answers, by the history alone.
LEMMA FollowUpAnswer ==
  ASSUME FollowInv, NEW c \in Conversations
  PROVE  FollowUpIsFound(c)
<1>1. /\ clock \in Nat /\ TTL \in Nat /\ MaxEntries \in Nat
      /\ IsFiniteSet(DOMAIN items) /\ Cardinality(DOMAIN items) <= MaxEntries
  BY RecentAssumption DEF FollowInv, FollowTyped
<1>2. /\ Len(saves) \in Nat /\ DOMAIN saves = 1..Len(saves)
      /\ \A i \in DOMAIN saves : saves[i].conversation \in Conversations /\ saves[i].at \in Nat
  BY SavesFacts DEF FollowInv
<1>3. CASE SavesOf(c) = {}
  <2>1. c \notin DOMAIN items
    BY <1>3 DEF FollowInv, EntryOK, Newest
  <2> QED
    BY <1>3, <2>1 DEF FollowUpIsFound, Loaded
<1>4. CASE SavesOf(c) # {}
  <2>1. SavesOf(c) \in SUBSET (0..Len(saves)) /\ SavesOf(c) \in SUBSET Nat
    BY <1>2 DEF SavesOf
  <2>2. PICK i \in SavesOf(c) : \A j \in SavesOf(c) : j <= i
    BY <1>2, <1>4, <2>1, Largest
  <2>3. Latest(SavesOf(c)) = i /\ Newest(c, i) /\ i \in DOMAIN saves /\ i \in Nat
    BY <2>1, <2>2, LatestIs DEF Newest, SavesOf
  <2>4. ASSUME NEW m \in DOMAIN saves, Newest(c, m)
        PROVE  m = i
    <3>1. m <= i /\ i <= m /\ m \in Nat
      BY <1>2, <2>2, <2>4 DEF Newest
    <3> QED
      BY <2>3, <3>1
  <2>5. c \in DOMAIN items => items[c].snapshot = i /\ items[c].savedAt = saves[i].at
    BY <2>4 DEF FollowInv, EntryOK, Newest, SavesOf
  <2>6. IsFiniteSet(SavedSince(i)) /\ Cardinality(SavedSince(i)) \in Nat
    <3>1. IsFiniteSet(SavedSince(i))
      BY <1>2, SinceIsFinite DEF SavedSince
    <3> QED
      BY <3>1, FS_CardinalityType
  <2>7. ASSUME c \in DOMAIN items, ~Expired(items[c])
        PROVE  Cardinality(SavedSince(i)) < MaxEntries
    <3>1. SavedSince(i) \subseteq DOMAIN items \ {c}
      <4>1. SUFFICES ASSUME NEW j \in DOMAIN saves, j > i
                     PROVE  saves[j].conversation \in DOMAIN items \ {c}
        BY DEF SavedSince
      <4>2. saves[j].conversation \in DOMAIN items
        BY <2>5, <2>7, <4>1 DEF FollowInv, LaterStay
      <4>3. saves[j].conversation # c
        <5>1. SUFFICES ASSUME saves[j].conversation = c
                       PROVE  FALSE
          OBVIOUS
        <5>2. j <= i /\ j \in Nat
          BY <1>2, <2>2, <5>1 DEF SavesOf
        <5> QED
          BY <2>3, <4>1, <5>2
      <4> QED
        BY <4>2, <4>3
    <3>2. /\ IsFiniteSet(DOMAIN items \ {c})
          /\ Cardinality(DOMAIN items \ {c}) = Cardinality(DOMAIN items) - 1
      BY <1>1, <2>7, FS_RemoveElement
    <3>3. Cardinality(SavedSince(i)) <= Cardinality(DOMAIN items \ {c})
      BY <3>1, <3>2, CountMonotone
    <3>4. Cardinality(DOMAIN items) \in Nat
      BY <1>1, FS_CardinalityType
    <3> QED
      BY <1>1, <2>6, <3>2, <3>3, <3>4
  <2>8. ASSUME clock - saves[i].at <= TTL, Cardinality(SavedSince(i)) < MaxEntries
        PROVE  c \in DOMAIN items
    <3>1. ~ (clock - saves[i].at > TTL)
      BY <1>1, <1>2, <2>3, <2>8
    <3>2. ~ (Cardinality(SavedSince(i)) >= MaxEntries)
      BY <1>1, <2>6, <2>8
    <3> QED
      BY <2>3, <3>1, <3>2 DEF FollowInv, ForgottenOK
  <2>9. c \in DOMAIN items => (Expired(items[c]) <=> ~ (clock - saves[i].at <= TTL))
    <3>1. saves[i].at \in Nat
      BY <1>2, <2>3
    <3>2. (clock - saves[i].at > TTL) <=> ~ (clock - saves[i].at <= TTL)
      BY <1>1, <3>1
    <3> QED
      BY <2>5, <3>2 DEF Expired
  <2> DEFINE wanted == clock - saves[i].at <= TTL /\ Cardinality(SavedSince(i)) < MaxEntries
  <2>10. (c \in DOMAIN items /\ ~Expired(items[c])) <=> wanted
    BY <2>7, <2>8, <2>9
  <2> HIDE DEF wanted
  <2>11. Loaded(c) = IF wanted THEN {i} ELSE {}
    BY <2>5, <2>10 DEF Loaded
  <2> QED
    BY <1>4, <2>3, <2>11 DEF FollowUpIsFound, SavedSince, wanted
<1> QED
  BY <1>3, <1>4

-----------------------------------------------------------------------------
(* MemoryTraceStore.                                                       *)

\* The events as a sequence, and where the runs begin in it.
LEMMA EventsFacts ==
  ASSUME TraceInv
  PROVE  /\ Len(events) \in Nat /\ DOMAIN events = 1..Len(events)
         /\ \A i \in DOMAIN events : events[i].conversation \in Conversations /\ events[i].run \in Runs
         /\ Len(order) \in Nat /\ DOMAIN order = 1..Len(order)
         /\ \A i \in DOMAIN order : order[i] \in Runs /\ order[i] \in DOMAIN runs
         /\ \A r \in DOMAIN runs :
              /\ r \in Runs /\ First(r) \in DOMAIN events /\ First(r) \in Nat
              /\ events[First(r)].run = r
<1>1. events \in Seq(EventType) /\ order \in Seq(Runs) /\ DOMAIN runs = {order[i] : i \in DOMAIN order}
  BY DEF TraceInv, TraceTyped
<1>2. /\ Len(events) \in Nat /\ DOMAIN events = 1..Len(events)
      /\ \A i \in DOMAIN events : events[i] \in EventType
      /\ Len(order) \in Nat /\ DOMAIN order = 1..Len(order)
      /\ \A i \in DOMAIN order : order[i] \in Runs
  <2> HIDE DEF EventType
  <2> QED
    BY <1>1
<1>3. \A i \in DOMAIN events : events[i].conversation \in Conversations /\ events[i].run \in Runs
  BY <1>2 DEF EventType
<1>4. \A r \in DOMAIN runs : First(r) \in DOMAIN events /\ events[First(r)].run = r
  BY DEF TraceInv, RunOK, EventsOf
<1> QED
  BY <1>1, <1>2, <1>3, <1>4

\* What RecordTraceEvent leaves in the store; D is the run it drops, if any.
Recorded(c, run, D) ==
  /\ \/ D = {} /\ run \in DOMAIN runs /\ order' = order
     \/ D = {} /\ run \notin DOMAIN runs /\ Len(order) < MaxRuns /\ order' = Append(order, run)
     \/ /\ run \notin DOMAIN runs /\ Len(order) = MaxRuns
        /\ D = {order[1]} /\ order' = Tail(Append(order, run))
  /\ D \subseteq DOMAIN runs /\ run \notin D
  /\ DOMAIN runs' = (DOMAIN runs \cup {run}) \ D
  /\ runs'[run].conversation = c
  /\ runs'[run].events =
       Append(IF run \in DOMAIN runs THEN runs[run].events ELSE << >>, Len(events) + 1)
  /\ \A r \in DOMAIN runs' : r # run => r \in DOMAIN runs /\ runs'[r] = runs[r]
  /\ c \in DOMAIN keys' /\ keys'[c] = run
  /\ \A d \in DOMAIN keys' : d # c => d \in DOMAIN keys /\ keys'[d] = keys[d] /\ keys[d] \notin D
  /\ \A d \in DOMAIN keys : d \notin DOMAIN keys' => keys[d] \in D

\* The history after an event, which is the n-th.
Appended(c, run, n) ==
  /\ n = Len(events) + 1 /\ n \in Nat
  /\ Len(events') = n /\ DOMAIN events' = 1..n /\ events' \in Seq(EventType)
  /\ \A i \in DOMAIN events : i \in DOMAIN events' /\ i < n /\ events'[i] = events[i]
  /\ \A i \in DOMAIN events' : i = n \/ i \in DOMAIN events
  /\ events'[n].conversation = c /\ events'[n].run = run
  /\ EventsOf(run)' = EventsOf(run) \cup {n}
  /\ \A r : r # run => EventsOf(r)' = EventsOf(r)
  /\ n \in OfConversation(c)' /\ \A i \in OfConversation(c)' : i <= n
  /\ \A d : d # c => OfConversation(d)' = OfConversation(d)
  /\ \A i : RecordedSince(i) \subseteq RecordedSince(i)'
  /\ \A i \in DOMAIN events : run \in RecordedSince(i)'

LEMMA RecordEffect ==
  ASSUME TraceInv, NEW c \in Conversations, NEW run \in Runs, RecordTraceEvent(c, run)
  PROVE  \E D : Recorded(c, run, D)
<1> DEFINE earlier == IF run \in DOMAIN runs THEN runs[run].events ELSE << >>
           shown == [conversation |-> c, events |-> Append(earlier, Len(events) + 1)]
           updated == Put(runs, run, shown)
           latest == Put(keys, c, run)
           queue == IF run \in DOMAIN runs THEN order ELSE Append(order, run)
           D == IF Len(queue) > MaxRuns THEN {Head(queue)} ELSE {}
<1>1. /\ shown.conversation = c /\ shown.events = Append(earlier, Len(events) + 1)
  OBVIOUS
<1>2. /\ Len(order) \in Nat /\ MaxRuns \in Nat \ {0} /\ Len(order) <= MaxRuns /\ order \in Seq(Runs)
      /\ \A i \in 1..Len(order) : order[i] \in DOMAIN runs
  BY EventsFacts, RecentAssumption DEF TraceInv, TraceTyped
<1>3. \/ run \in DOMAIN runs /\ queue = order /\ ~ (Len(queue) > MaxRuns)
      \/ /\ run \notin DOMAIN runs /\ Len(order) < MaxRuns /\ queue = Append(order, run)
         /\ ~ (Len(queue) > MaxRuns)
      \/ /\ run \notin DOMAIN runs /\ Len(order) = MaxRuns /\ queue = Append(order, run)
         /\ Len(queue) > MaxRuns /\ Head(queue) = order[1]
  BY <1>2
<1>4. order[1] \in DOMAIN runs \/ Len(order) = 0
  BY <1>2
<1>5. /\ order' = IF Len(queue) > MaxRuns THEN Tail(queue) ELSE queue
      /\ runs' = IF Len(queue) > MaxRuns THEN Without(updated, {Head(queue)}) ELSE updated
      /\ keys' = IF Len(queue) > MaxRuns
                 THEN Without(latest, {d \in DOMAIN latest : latest[d] = Head(queue)}) ELSE latest
  BY DEF RecordTraceEvent
<1> HIDE DEF earlier, shown
<1>6. /\ DOMAIN updated = DOMAIN runs \cup {run} /\ updated[run] = shown
      /\ \A r \in DOMAIN runs : r # run => updated[r] = runs[r]
  BY DEF Put
<1>7. /\ DOMAIN latest = DOMAIN keys \cup {c} /\ latest[c] = run
      /\ \A d \in DOMAIN keys : d # c => latest[d] = keys[d]
  BY DEF Put
<1> HIDE DEF updated, latest, queue
<1>8. D \subseteq DOMAIN runs /\ run \notin D
  BY <1>2, <1>3, <1>4
<1>9. DOMAIN runs' = (DOMAIN runs \cup {run}) \ D /\ \A r \in DOMAIN runs' : runs'[r] = updated[r]
  BY <1>5, <1>6 DEF Without
<1>10. /\ DOMAIN keys' = {d \in DOMAIN latest : latest[d] \notin D}
       /\ \A d \in DOMAIN keys' : keys'[d] = latest[d]
  BY <1>5 DEF Without
<1>11. \/ D = {} /\ run \in DOMAIN runs /\ order' = order
       \/ D = {} /\ run \notin DOMAIN runs /\ Len(order) < MaxRuns /\ order' = Append(order, run)
       \/ /\ run \notin DOMAIN runs /\ Len(order) = MaxRuns
          /\ D = {order[1]} /\ order' = Tail(Append(order, run))
  BY <1>3, <1>5
<1> HIDE DEF D
<1>12. /\ runs'[run] = shown
       /\ \A r \in DOMAIN runs' : r # run => r \in DOMAIN runs /\ runs'[r] = runs[r]
  BY <1>6, <1>8, <1>9
<1>13. /\ c \in DOMAIN keys' /\ keys'[c] = run
       /\ \A d \in DOMAIN keys' : d # c =>
            d \in DOMAIN keys /\ keys'[d] = keys[d] /\ keys[d] \notin D
       /\ \A d \in DOMAIN keys : d \notin DOMAIN keys' => keys[d] \in D
  BY <1>7, <1>8, <1>10
<1> QED
  BY <1>1, <1>8, <1>9, <1>11, <1>12, <1>13 DEF earlier, Recorded

LEMMA RecordHistory ==
  ASSUME TraceInv, NEW c \in Conversations, NEW run \in Runs, RunIsOf(run, c),
         RecordTraceEvent(c, run), NEW n, n = Len(events) + 1
  PROVE  Appended(c, run, n)
<1> DEFINE new == [conversation |-> c, run |-> run]
<1>1. /\ events \in Seq(EventType) /\ new \in EventType /\ events' = Append(events, new)
      /\ Len(events) \in Nat /\ DOMAIN events = 1..Len(events)
  BY EventsFacts DEF TraceInv, TraceTyped, EventType, RecordTraceEvent
<1>2. new.conversation = c /\ new.run = run
  OBVIOUS
<1> HIDE DEF new
<1>3. /\ events' \in Seq(EventType) /\ Len(events') = n /\ events'[n] = new
      /\ DOMAIN events' = 1..n /\ n \in Nat
      /\ \A i \in 1..Len(events) : events'[i] = events[i]
  <2> HIDE DEF EventType
  <2> QED
    BY <1>1
<1>4. /\ \A i \in DOMAIN events : i \in DOMAIN events' /\ i < n /\ events'[i] = events[i]
      /\ \A i \in DOMAIN events' : i = n \/ i \in DOMAIN events
      /\ n \in DOMAIN events' /\ \A i \in DOMAIN events' : i <= n
  BY <1>1, <1>3
<1>5. /\ EventsOf(run)' = EventsOf(run) \cup {n}
      /\ \A r : r # run => EventsOf(r)' = EventsOf(r)
  BY <1>2, <1>3, <1>4 DEF EventsOf
<1>6. /\ n \in OfConversation(c)' /\ \A i \in OfConversation(c)' : i <= n
      /\ \A d : d # c => OfConversation(d)' = OfConversation(d)
  BY <1>2, <1>3, <1>4 DEF OfConversation
<1>7. ASSUME NEW i, NEW x \in RecordedSince(i)
      PROVE  x \in RecordedSince(i)'
  BY <1>4, <1>7 DEF RecordedSince
<1>8. ASSUME NEW i \in DOMAIN events
      PROVE  run \in RecordedSince(i)'
  <2>1. n > i
    BY <1>1, <1>3, <1>4
  <2> QED
    BY <1>2, <1>3, <1>4, <2>1 DEF RecordedSince
<1> QED
  BY <1>2, <1>3, <1>4, <1>5, <1>6, <1>7, <1>8 DEF Appended

\* What the runs are shown with after an event.
LEMMA RecordedRuns ==
  ASSUME TraceInv, NEW c \in Conversations, NEW run \in Runs, NEW D, NEW n,
         Recorded(c, run, D), Appended(c, run, n)
  PROVE  /\ runs'[run].events \in Seq(Nat) /\ runs'[run].events # << >>
         /\ run \in DOMAIN runs => First(run)' = First(run) /\ Traced(run)' = Traced(run) \cup {n}
         /\ run \notin DOMAIN runs => First(run)' = n /\ Traced(run)' = {n}
         /\ \A r \in DOMAIN runs' : r # run =>
              /\ r \in DOMAIN runs /\ runs'[r] = runs[r] /\ RunOK(r)
              /\ First(r)' = First(r) /\ Traced(r)' = Traced(r) /\ EventsOf(r)' = EventsOf(r)
<1>1. /\ n \in Nat /\ n = Len(events) + 1
      /\ runs'[run].events =
           Append(IF run \in DOMAIN runs THEN runs[run].events ELSE << >>, Len(events) + 1)
  BY DEF Recorded, Appended
<1>4. ASSUME NEW r \in DOMAIN runs', r # run
      PROVE  /\ r \in DOMAIN runs /\ runs'[r] = runs[r] /\ RunOK(r)
             /\ First(r)' = First(r) /\ Traced(r)' = Traced(r) /\ EventsOf(r)' = EventsOf(r)
  <2>1. r \in DOMAIN runs /\ runs'[r] = runs[r] /\ EventsOf(r)' = EventsOf(r)
    BY <1>4 DEF Recorded, Appended
  <2>2. RunOK(r)
    BY <2>1 DEF TraceInv
  <2> QED
    BY <2>1, <2>2 DEF First, Traced
<1>2. CASE run \in DOMAIN runs
  <2>1. PICK s : s = runs[run].events
    OBVIOUS
  <2>2. s \in Seq(Nat) /\ s # << >> /\ runs'[run].events = Append(s, n)
    BY <1>1, <1>2, <2>1 DEF TraceInv, RunOK
  <2>3. PICK t : t = Append(s, n)
    OBVIOUS
  <2>4. /\ t \in Seq(Nat) /\ t # << >> /\ t[1] = s[1]
        /\ Len(s) \in Nat /\ DOMAIN s = 1..Len(s)
        /\ DOMAIN t = 1..(Len(s) + 1) /\ t[Len(s) + 1] = n
        /\ \A i \in 1..Len(s) : t[i] = s[i]
    BY <1>1, <2>2, <2>3
  <2>5. {t[i] : i \in DOMAIN t} = {s[i] : i \in DOMAIN s} \cup {n}
    BY <2>4
  <2>6. runs'[run].events = t
    BY <2>2, <2>3
  <2>7. First(run)' = First(run)
    BY <2>1, <2>4, <2>6 DEF First
  <2>8. Traced(run)' = Traced(run) \cup {n}
    BY <2>1, <2>5, <2>6 DEF Traced
  <2> QED
    BY <1>2, <1>4, <2>4, <2>6, <2>7, <2>8
<1>3. CASE run \notin DOMAIN runs
  <2>1. runs'[run].events = <<n>>
    BY <1>1, <1>3
  <2>2. <<n>> \in Seq(Nat) /\ <<n>> # << >> /\ <<n>>[1] = n /\ {<<n>>[i] : i \in DOMAIN <<n>>} = {n}
    BY <1>1
  <2>3. First(run)' = n /\ Traced(run)' = {n}
    BY <2>1, <2>2 DEF First, Traced
  <2> QED
    BY <1>3, <1>4, <2>1, <2>2, <2>3
<1> QED
  BY <1>2, <1>3

\* They are shown with all their events from some first one on.
LEMMA RecordKeepsRuns ==
  ASSUME TraceInv, NEW c \in Conversations, NEW run \in Runs, NEW D, NEW n, RunIsOf(run, c),
         Recorded(c, run, D), Appended(c, run, n), NEW r \in DOMAIN runs'
  PROVE  RunOK(r)'
<1>1. /\ runs'[run].events \in Seq(Nat) /\ runs'[run].events # << >>
      /\ run \in DOMAIN runs => First(run)' = First(run) /\ Traced(run)' = Traced(run) \cup {n}
      /\ run \notin DOMAIN runs => First(run)' = n /\ Traced(run)' = {n}
      /\ \A q \in DOMAIN runs' : q # run =>
           /\ q \in DOMAIN runs /\ runs'[q] = runs[q] /\ RunOK(q)
           /\ First(q)' = First(q) /\ Traced(q)' = Traced(q) /\ EventsOf(q)' = EventsOf(q)
  BY RecordedRuns
<1>2. /\ n \in Nat /\ events'[n].conversation = c /\ runs'[run].conversation = c
      /\ \A i \in DOMAIN events : i < n /\ events'[i] = events[i]
      /\ EventsOf(run)' = EventsOf(run) \cup {n}
  BY DEF Recorded, Appended
<1>3. /\ \A i \in EventsOf(run) : events[i].conversation = c
      /\ \A q : EventsOf(q) \subseteq DOMAIN events
      /\ DOMAIN events \subseteq Nat
  BY EventsFacts DEF RunIsOf, EventsOf
<1>4. \A i \in EventsOf(run)' : events'[i].conversation = c
  BY <1>2, <1>3
<1>5. CASE r # run
  <2>1. \A i \in EventsOf(r) : events'[i] = events[i]
    BY <1>2, <1>3
  <2>2. \A i \in EventsOf(r)' : events'[i].conversation = runs'[r].conversation
    BY <1>1, <1>5, <2>1 DEF RunOK
  <2> QED
    BY <1>1, <1>5, <2>2 DEF RunOK
<1>6. CASE r = run /\ run \in DOMAIN runs
  <2>1. RunOK(run) /\ First(run) \in DOMAIN events
    BY <1>6, EventsFacts DEF TraceInv
  <2>2. PICK m : m = First(run)
    OBVIOUS
  <2>3. {i \in EventsOf(run) \cup {n} : i >= m} = {i \in EventsOf(run) : i >= m} \cup {n}
    <3>1. n >= m
      BY <1>2, <1>3, <2>1, <2>2
    <3> QED
      BY <3>1
  <2>4. Traced(run)' = {i \in EventsOf(run)' : i >= m} /\ m \in EventsOf(run)' /\ First(run)' = m
    BY <1>1, <1>2, <1>6, <2>1, <2>2, <2>3 DEF RunOK
  <2> QED
    BY <1>1, <1>2, <1>4, <1>6, <2>4 DEF RunOK
<1>7. CASE r = run /\ run \notin DOMAIN runs
  <2>1. {i \in EventsOf(run) \cup {n} : i >= n} = {n}
    <3>1. ASSUME NEW i \in EventsOf(run)
          PROVE  ~ (i >= n)
      <4>1. i \in Nat /\ i < n
        BY <1>2, <1>3
      <4> QED
        BY <1>2, <4>1
    <3>2. n >= n
      BY <1>2
    <3> QED
      BY <3>1, <3>2
  <2>2. Traced(run)' = {i \in EventsOf(run)' : i >= n} /\ n \in EventsOf(run)' /\ First(run)' = n
    BY <1>1, <1>2, <1>7, <2>1
  <2> QED
    BY <1>1, <1>2, <1>4, <1>7, <2>2 DEF RunOK
<1> QED
  BY <1>5, <1>6, <1>7

\* The order of the runs is that of their first events, and the drop keeps it short.
LEMMA RecordKeepsOrder ==
  ASSUME TraceInv, NEW c \in Conversations, NEW run \in Runs, NEW D, NEW n,
         Recorded(c, run, D), Appended(c, run, n)
  PROVE  TraceTyped' /\ (D # {} => Cardinality(DOMAIN runs') = MaxRuns)
<1> DEFINE F(r) == runs[r].events[1]
           G(r) == runs'[r].events[1]
           Ordered(o) == /\ o \in Seq(Runs) /\ DOMAIN runs' = {o[i] : i \in DOMAIN o}
                            /\ \A i, j \in DOMAIN o : i < j => G(o[i]) < G(o[j])
<1>1. /\ Len(order) \in Nat /\ DOMAIN order = 1..Len(order) /\ order \in Seq(Runs)
      /\ MaxRuns \in Nat \ {0} /\ Len(order) <= MaxRuns
  BY EventsFacts, RecentAssumption DEF TraceInv, TraceTyped
<1>2. /\ \A i \in DOMAIN order : order[i] \in DOMAIN runs
      /\ DOMAIN runs = {order[i] : i \in DOMAIN order}
      /\ \A i, j \in DOMAIN order : i < j => F(order[i]) < F(order[j])
  BY DEF TraceInv, TraceTyped, First
<1>3. IsFiniteSet(DOMAIN runs) /\ Cardinality(DOMAIN runs) = Len(order)
  BY DEF TraceInv, TraceTyped
<1>4. /\ \A r \in DOMAIN runs' : r # run => r \in DOMAIN runs /\ G(r) = F(r)
      /\ run \in DOMAIN runs => G(run) = F(run)
      /\ run \notin DOMAIN runs => G(run) = n
  <2>1. /\ run \in DOMAIN runs => First(run)' = First(run)
        /\ run \notin DOMAIN runs => First(run)' = n
        /\ \A r \in DOMAIN runs' : r # run => r \in DOMAIN runs /\ First(r)' = First(r)
    BY RecordedRuns
  <2> QED
    BY <2>1 DEF First
<1>5. \A r \in DOMAIN runs : F(r) \in Nat /\ F(r) < n
  <2>1. /\ \A i \in DOMAIN events : i < n
        /\ \A r \in DOMAIN runs : First(r) \in DOMAIN events /\ First(r) \in Nat
    BY EventsFacts DEF Appended
  <2> QED
    BY <2>1 DEF First
<1>6. /\ D \subseteq DOMAIN runs /\ run \notin D
      /\ DOMAIN runs' = (DOMAIN runs \cup {run}) \ D
      /\ \/ D = {} /\ run \in DOMAIN runs /\ order' = order
         \/ D = {} /\ run \notin DOMAIN runs /\ Len(order) < MaxRuns /\ order' = Append(order, run)
         \/ /\ run \notin DOMAIN runs /\ Len(order) = MaxRuns
            /\ D = {order[1]} /\ order' = Tail(Append(order, run))
  BY DEF Recorded
<1>7. run \notin DOMAIN runs =>
        /\ IsFiniteSet(DOMAIN runs \cup {run})
        /\ Cardinality(DOMAIN runs \cup {run}) = Len(order) + 1
        /\ \A r \in DOMAIN runs' : r # run => G(r) < G(run)
  <2>1. run \notin DOMAIN runs =>
          /\ IsFiniteSet(DOMAIN runs \cup {run})
          /\ Cardinality(DOMAIN runs \cup {run}) = Cardinality(DOMAIN runs) + 1
    BY <1>3, FS_AddElement
  <2> QED
    BY <1>3, <1>4, <1>5, <2>1
<1> HIDE DEF F, G
<1>8. SUFFICES /\ Ordered(order') /\ IsFiniteSet(DOMAIN runs')
               /\ Cardinality(DOMAIN runs') = Len(order') /\ Len(order') <= MaxRuns
               /\ D # {} => Len(order') = MaxRuns
  BY DEF TraceTyped, First, G, Appended
<1>9. CASE D = {} /\ run \in DOMAIN runs /\ order' = order
  <2>1. DOMAIN runs' = DOMAIN runs /\ \A r \in DOMAIN runs : G(r) = F(r)
    BY <1>4, <1>6, <1>9
  <2> QED
    BY <1>1, <1>2, <1>3, <1>9, <2>1
<1>10. CASE D = {} /\ run \notin DOMAIN runs /\ Len(order) < MaxRuns /\ order' = Append(order, run)
  <2>1. PICK m : m = Len(order)
    OBVIOUS
  <2>2. PICK o : o = order'
    OBVIOUS
  <2>3. /\ o \in Seq(Runs) /\ Len(o) = m + 1 /\ DOMAIN o = 1..(m + 1) /\ m \in Nat
        /\ o[m + 1] = run /\ \A i \in 1..m : o[i] = order[i]
    BY <1>1, <1>10, <2>1, <2>2
  <2>4. DOMAIN runs' = DOMAIN runs \cup {run}
    BY <1>6, <1>10
  <2>5. DOMAIN runs' = {o[i] : i \in DOMAIN o}
    BY <1>1, <1>2, <2>1, <2>3, <2>4
  <2>6. ASSUME NEW i \in DOMAIN o, NEW j \in DOMAIN o, i < j
        PROVE  G(o[i]) < G(o[j])
    <3>1. i \in 1..m /\ o[i] = order[i] /\ order[i] \in DOMAIN runs /\ o[i] # run
      BY <1>1, <1>2, <1>10, <2>1, <2>3, <2>6
    <3>2. o[i] \in DOMAIN runs' /\ G(o[i]) = F(order[i])
      BY <1>4, <2>4, <3>1
    <3>3. CASE j = m + 1
      BY <1>7, <1>10, <2>3, <3>1, <3>2, <3>3
    <3>4. CASE j # m + 1
      <4>1. j \in 1..m /\ o[j] = order[j] /\ order[j] \in DOMAIN runs /\ o[j] # run
        BY <1>1, <1>2, <1>10, <2>1, <2>3, <3>4
      <4>2. o[j] \in DOMAIN runs' /\ G(o[j]) = F(order[j])
        BY <1>4, <2>4, <4>1
      <4>3. F(order[i]) < F(order[j])
        BY <1>1, <1>2, <2>1, <2>6, <3>1, <4>1
      <4> QED
        BY <3>2, <4>2, <4>3
    <3> QED
      BY <3>3, <3>4
  <2>7. IsFiniteSet(DOMAIN runs') /\ Cardinality(DOMAIN runs') = m + 1
    BY <1>7, <1>10, <2>1, <2>4
  <2>8. m + 1 <= MaxRuns
    BY <1>1, <1>10, <2>1
  <2>9. Ordered(o)
    BY <2>3, <2>5, <2>6
  <2> QED
    BY <1>10, <2>2, <2>3, <2>7, <2>8, <2>9
<1>11. CASE /\ run \notin DOMAIN runs /\ Len(order) = MaxRuns
            /\ D = {order[1]} /\ order' = Tail(Append(order, run))
  <2>1. PICK m : m = Len(order)
    OBVIOUS
  <2>2. PICK o : o = order'
    OBVIOUS
  <2>3. PICK q : q = Append(order, run)
    OBVIOUS
  <2>4. /\ q \in Seq(Runs) /\ Len(q) = m + 1 /\ m \in Nat /\ m >= 1 /\ m = MaxRuns
        /\ q[m + 1] = run /\ \A i \in 1..m : q[i] = order[i]
    BY <1>1, <1>11, <2>1, <2>3
  <2>5. /\ o \in Seq(Runs) /\ Len(o) = m /\ DOMAIN o = 1..m
        /\ \A i \in 1..m : o[i] = q[i + 1]
    <3>1. o = Tail(q)
      BY <1>11, <2>2, <2>3
    <3> QED
      BY <2>4, <3>1
  <2>6. o[m] = run
    BY <2>4, <2>5
  <2>7. ASSUME NEW i \in 1..(m - 1)
        PROVE  /\ o[i] = order[i + 1] /\ i + 1 \in 1..m /\ i + 1 \in DOMAIN order
               /\ o[i] \in DOMAIN runs /\ o[i] # run /\ o[i] # order[1] /\ G(o[i]) = F(order[i + 1])
               /\ o[i] \in DOMAIN runs'
    <3>1. i \in 1..m /\ i + 1 \in 1..m /\ i + 1 \in DOMAIN order /\ 1 \in DOMAIN order /\ 1 < i + 1
      BY <1>1, <2>1, <2>4
    <3>2. o[i] = order[i + 1] /\ order[i + 1] \in DOMAIN runs /\ order[1] \in DOMAIN runs
      BY <1>2, <2>4, <2>5, <3>1
    <3>3. F(order[1]) < F(order[i + 1]) /\ F(order[1]) \in Nat
      BY <1>2, <1>5, <3>1, <3>2
    <3>4. order[1] # order[i + 1]
      BY <3>3
    <3>5. o[i] \in DOMAIN runs' /\ o[i] # run
      BY <1>6, <1>11, <3>2, <3>4
    <3> QED
      BY <1>4, <3>1, <3>2, <3>4, <3>5
  <2>8. order[1] \in DOMAIN runs /\ DOMAIN runs' = (DOMAIN runs \cup {run}) \ {order[1]}
    BY <1>6, <1>11
  <2>9. ASSUME NEW r \in DOMAIN runs'
        PROVE  \E i \in DOMAIN o : r = o[i]
    <3>1. CASE r = run
      <4>1. m \in DOMAIN o
        BY <2>4, <2>5
      <4> QED
        BY <2>6, <3>1, <4>1
    <3>2. CASE r # run
      <4>1. PICK k \in DOMAIN order : r = order[k]
        BY <1>2, <2>8, <3>2
      <4>2. k # 1
        BY <2>8, <4>1
      <4>3. k - 1 \in 1..m /\ k \in 1..m /\ (k - 1) + 1 = k
        BY <1>1, <2>1, <4>1, <4>2
      <4>4. o[k - 1] = order[k]
        BY <2>4, <2>5, <4>3
      <4> QED
        BY <2>5, <4>1, <4>3, <4>4
    <3> QED
      BY <3>1, <3>2
  <2>10. ASSUME NEW i \in DOMAIN o
         PROVE  o[i] \in DOMAIN runs'
    <3>1. CASE i = m
      BY <1>6, <2>6, <3>1
    <3>2. CASE i # m
      <4>1. i \in 1..(m - 1)
        BY <2>4, <2>5, <3>2
      <4> QED
        BY <2>7, <4>1
    <3> QED
      BY <3>1, <3>2
  <2>11. ASSUME NEW i \in DOMAIN o, NEW j \in DOMAIN o, i < j
         PROVE  G(o[i]) < G(o[j])
    <3>1. i \in 1..(m - 1)
      BY <2>4, <2>5, <2>11
    <3>2. CASE j = m
      BY <1>7, <1>11, <2>6, <2>7, <3>1, <3>2
    <3>3. CASE j # m
      <4>1. j \in 1..(m - 1) /\ i + 1 < j + 1
        BY <2>4, <2>5, <2>11, <3>3
      <4>2. F(order[i + 1]) < F(order[j + 1])
        BY <1>2, <2>7, <3>1, <4>1
      <4>3. G(o[i]) = F(order[i + 1]) /\ G(o[j]) = F(order[j + 1])
        BY <2>7, <3>1, <4>1
      <4> QED
        BY <4>2, <4>3
    <3> QED
      BY <3>2, <3>3
  <2>12. IsFiniteSet(DOMAIN runs') /\ Cardinality(DOMAIN runs') = m
    <3>1. /\ IsFiniteSet(DOMAIN runs \cup {run}) /\ order[1] \in DOMAIN runs \cup {run}
          /\ Cardinality(DOMAIN runs \cup {run}) = m + 1
      BY <1>7, <1>11, <2>1, <2>8
    <3>2. /\ IsFiniteSet((DOMAIN runs \cup {run}) \ {order[1]})
          /\ Cardinality((DOMAIN runs \cup {run}) \ {order[1]}) = Cardinality(DOMAIN runs \cup {run}) - 1
      BY <3>1, FS_RemoveElement
    <3> QED
      BY <2>4, <2>8, <3>1, <3>2
  <2>13. DOMAIN runs' = {o[i] : i \in DOMAIN o}
    BY <2>9, <2>10
  <2>14. Ordered(o)
    BY <2>5, <2>11, <2>13
  <2>15. m <= MaxRuns
    BY <2>4
  <2> QED
    BY <2>2, <2>4, <2>5, <2>12, <2>14, <2>15
<1> QED
  BY <1>6, <1>9, <1>10, <1>11

\* A key leads to the run its conversation last recorded for, as long as that is kept.
LEMMA RecordKeepsKeys ==
  ASSUME TraceInv, NEW c \in Conversations, NEW run \in Runs, NEW D, NEW n, RunIsOf(run, c),
         Recorded(c, run, D), Appended(c, run, n)
  PROVE  /\ OneConversation'
         /\ \A d \in DOMAIN keys' : KeyOK(d)'
         /\ \A d \in Conversations : KeyIsThere(d)'
<1>1. /\ events'[n].conversation = c /\ events'[n].run = run
      /\ \A i \in DOMAIN events : i \in DOMAIN events' /\ i < n /\ events'[i] = events[i]
      /\ \A i \in DOMAIN events' : i = n \/ i \in DOMAIN events
      /\ n \in OfConversation(c)' /\ \A i \in OfConversation(c)' : i <= n
      /\ \A d : d # c => OfConversation(d)' = OfConversation(d)
  BY DEF Appended
<1>2. /\ run \notin D /\ DOMAIN runs' = (DOMAIN runs \cup {run}) \ D
      /\ c \in DOMAIN keys' /\ keys'[c] = run
      /\ \A d \in DOMAIN keys' : d # c => d \in DOMAIN keys /\ keys'[d] = keys[d] /\ keys[d] \notin D
      /\ \A d \in DOMAIN keys : d \notin DOMAIN keys' => keys[d] \in D
  BY DEF Recorded
<1>3. DOMAIN events \subseteq Nat
  BY EventsFacts
<1>4. OneConversation'
  <2>1. ASSUME NEW i \in DOMAIN events', events'[i].run = run
        PROVE  events'[i].conversation = c
    BY <1>1, <2>1 DEF RunIsOf
  <2>2. ASSUME NEW i \in DOMAIN events', NEW j \in DOMAIN events', events'[i].run = events'[j].run
        PROVE  events'[i].conversation = events'[j].conversation
    <3>1. CASE i \in DOMAIN events /\ j \in DOMAIN events
      BY <1>1, <2>2, <3>1 DEF TraceInv, OneConversation
    <3>2. CASE i = n \/ j = n
      BY <1>1, <2>1, <2>2, <3>2
    <3> QED
      BY <1>1, <3>1, <3>2
  <2> QED
    BY <2>2 DEF OneConversation
<1>5. ASSUME NEW d \in DOMAIN keys'
      PROVE  KeyOK(d)'
  <2>1. CASE d = c
    BY <1>1, <1>2, <2>1 DEF KeyOK
  <2>2. CASE d # c
    <3>1. d \in DOMAIN keys /\ keys'[d] = keys[d] /\ keys[d] \notin D /\ KeyOK(d)
      BY <1>2, <2>2 DEF TraceInv
    <3>2. keys'[d] \in DOMAIN runs'
      BY <1>2, <3>1 DEF KeyOK
    <3>3. PICK i \in OfConversation(d) : events[i].run = keys[d] /\ \A j \in OfConversation(d) : j <= i
      BY <3>1 DEF KeyOK
    <3>4. OfConversation(d)' = OfConversation(d) /\ events'[i].run = keys'[d]
      BY <1>1, <2>2, <3>1, <3>3 DEF OfConversation
    <3> QED
      BY <3>2, <3>3, <3>4 DEF KeyOK
  <2> QED
    BY <2>1, <2>2
<1>6. ASSUME NEW d \in Conversations
      PROVE  KeyIsThere(d)'
  <2>1. CASE d = c
    BY <1>2, <2>1 DEF KeyIsThere
  <2>2. CASE d # c
    <3>1. SUFFICES ASSUME NEW i \in OfConversation(d)', \A j \in OfConversation(d)' : j <= i,
                          events'[i].run \in DOMAIN runs', d \notin DOMAIN keys'
                   PROVE  FALSE
      BY DEF KeyIsThere
    <3>2. /\ i \in OfConversation(d) /\ \A j \in OfConversation(d) : j <= i
          /\ i \in DOMAIN events /\ events[i].conversation = d /\ events'[i] = events[i]
      BY <1>1, <2>2, <3>1 DEF OfConversation
    <3>3. events[i].run # run
      BY <2>2, <3>2 DEF RunIsOf
    <3>4. events[i].run \in DOMAIN runs /\ events[i].run \notin D
      BY <1>2, <3>1, <3>2, <3>3
    <3>5. d \in DOMAIN keys /\ KeyOK(d)
      BY <3>2, <3>4 DEF TraceInv, KeyIsThere
    <3>6. keys[d] \in D
      BY <1>2, <3>1, <3>5
    <3>7. PICK k \in OfConversation(d) : events[k].run = keys[d] /\ \A j \in OfConversation(d) : j <= k
      BY <3>5 DEF KeyOK
    <3>8. k <= i /\ i <= k
      BY <3>2, <3>7
    <3>9. k \in Nat /\ i \in Nat
      BY <1>3, <3>2, <3>7 DEF OfConversation
    <3>10. k = i
      BY <3>8, <3>9
    <3> QED
      BY <3>4, <3>6, <3>7, <3>10
  <2> QED
    BY <2>1, <2>2
<1> QED
  BY <1>4, <1>5, <1>6

\* A run that is dropped began before all that are kept, and they are MaxRuns.
LEMMA RecordKeepsDropped ==
  ASSUME TraceInv, NEW c \in Conversations, NEW run \in Runs, NEW D, NEW n,
         Recorded(c, run, D), Appended(c, run, n), NEW r \in Runs
  PROVE  DroppedOK(r)'
<1>1. /\ n \in Nat /\ DOMAIN events' = 1..n
      /\ \A i \in DOMAIN events : i < n
      /\ EventsOf(run)' = EventsOf(run) \cup {n}
      /\ r # run => EventsOf(r)' = EventsOf(r)
      /\ \A i : RecordedSince(i) \subseteq RecordedSince(i)'
      /\ \A i \in DOMAIN events : run \in RecordedSince(i)'
  BY DEF Appended
<1>2. /\ MaxRuns \in Nat /\ DOMAIN events \subseteq Nat
      /\ \A q \in DOMAIN runs : First(q) \in DOMAIN events /\ events[First(q)].run = q
      /\ \A q : EventsOf(q) \subseteq DOMAIN events
  BY EventsFacts, RecentAssumption DEF EventsOf
<1>3. /\ D \subseteq DOMAIN runs /\ run \notin D /\ DOMAIN runs' = (DOMAIN runs \cup {run}) \ D
      /\ D # {} => D = {order[1]} /\ Len(order) = MaxRuns
  BY DEF Recorded
<1>4. /\ run \in DOMAIN runs => First(run)' = First(run)
      /\ run \notin DOMAIN runs => First(run)' = n
      /\ \A q \in DOMAIN runs' : q # run => q \in DOMAIN runs /\ First(q)' = First(q)
  BY RecordedRuns
<1>5. SUFFICES ASSUME NEW i \in EventsOf(r)', \A j \in EventsOf(r)' : i <= j
               PROVE  \/ r \in DOMAIN runs' /\ First(r)' = i
                      \/ Cardinality(RecordedSince(i)' \ {r}) >= MaxRuns
  BY DEF DroppedOK
<1>6. CASE i \notin EventsOf(r)
  <2>1. r = run /\ i = n
    BY <1>1, <1>5, <1>6
  <2>2. EventsOf(run) = {}
    <3>1. SUFFICES ASSUME NEW j \in EventsOf(run)
                   PROVE  FALSE
      OBVIOUS
    <3>2. n <= j /\ j < n /\ j \in Nat
      BY <1>1, <1>2, <1>5, <2>1, <3>1
    <3> QED
      BY <1>1, <3>2
  <2>3. run \notin DOMAIN runs
    BY <2>2 DEF TraceInv, RunOK
  <2> QED
    BY <1>3, <1>4, <2>1, <2>3
<1>7. CASE i \in EventsOf(r)
  <2>1. /\ i \in DOMAIN events /\ i \in Nat
        /\ \/ r \in DOMAIN runs /\ First(r) = i
           \/ Cardinality(RecordedSince(i) \ {r}) >= MaxRuns
    BY <1>1, <1>2, <1>5, <1>7 DEF TraceInv, DroppedOK
  <2>2. IsFiniteSet(RecordedSince(i)' \ {r})
    <3>1. IsFiniteSet({events'[j].run : j \in {k \in DOMAIN events' : k > i}})
      BY <1>1, SinceIsFinite
    <3>2. IsFiniteSet(RecordedSince(i)')
      BY <3>1 DEF RecordedSince
    <3> QED
      BY <3>2, FS_Subset
  <2>3. CASE Cardinality(RecordedSince(i) \ {r}) >= MaxRuns
    <3>1. RecordedSince(i) \ {r} \subseteq RecordedSince(i)' \ {r}
      BY <1>1
    <3>2. /\ Cardinality(RecordedSince(i) \ {r}) \in Nat /\ Cardinality(RecordedSince(i)' \ {r}) \in Nat
          /\ Cardinality(RecordedSince(i) \ {r}) <= Cardinality(RecordedSince(i)' \ {r})
      BY <2>2, <3>1, CountMonotone
    <3> QED
      BY <1>2, <2>3, <3>2
  <2>4. CASE r \in DOMAIN runs /\ First(r) = i /\ r \notin D
    <3>1. r \in DOMAIN runs'
      BY <1>3, <2>4
    <3> QED
      BY <1>4, <2>4, <3>1
  <2>5. CASE r \in DOMAIN runs /\ First(r) = i /\ r \in D
    <3>1. r = order[1] /\ Len(order) = MaxRuns /\ r # run
      BY <1>3, <2>5
    <3>2. Cardinality(DOMAIN runs') = MaxRuns
      BY <2>5, RecordKeepsOrder
    <3>3. ASSUME NEW q \in DOMAIN runs'
          PROVE  q \in RecordedSince(i)' \ {r}
      <4>1. q # r
        BY <1>3, <2>5
      <4>2. CASE q = run
        BY <1>1, <2>1, <4>1, <4>2
      <4>3. CASE q # run
        <5>1. q \in DOMAIN runs
          BY <1>4, <4>3
        <5>2. PICK k \in DOMAIN order : q = order[k]
          BY <5>1 DEF TraceInv, TraceTyped
        <5>3. 1 \in DOMAIN order /\ 1 < k
          BY <3>1, <4>1, <5>2, EventsFacts
        <5>4. First(order[1]) < First(order[k])
          BY <5>2, <5>3 DEF TraceInv, TraceTyped
        <5>5. First(q) \in DOMAIN events /\ events[First(q)].run = q /\ First(q) \in Nat
          BY <1>2, <5>1
        <5>6. First(q) > i
          BY <2>1, <2>5, <3>1, <5>2, <5>4, <5>5
        <5>7. q \in RecordedSince(i)
          BY <5>5, <5>6 DEF RecordedSince
        <5> QED
          BY <1>1, <4>1, <5>7
      <4> QED
        BY <4>2, <4>3
    <3>4. /\ Cardinality(DOMAIN runs') \in Nat /\ Cardinality(RecordedSince(i)' \ {r}) \in Nat
          /\ Cardinality(DOMAIN runs') <= Cardinality(RecordedSince(i)' \ {r})
      BY <2>2, <3>3, CountMonotone
    <3> QED
      BY <1>2, <3>2, <3>4
  <2> QED
    BY <2>1, <2>3, <2>4, <2>5
<1> QED
  BY <1>6, <1>7

\* An event keeps the invariant.
LEMMA RecordKeeps ==
  ASSUME TraceInv, NEW c \in Conversations, NEW run \in Runs, RunIsOf(run, c),
         RecordTraceEvent(c, run)
  PROVE  TraceInv'
<1>1. PICK D : Recorded(c, run, D)
  BY RecordEffect
<1>2. PICK n : Appended(c, run, n)
  BY RecordHistory
<1>3. TraceTyped'
  BY <1>1, <1>2, RecordKeepsOrder
<1>4. OneConversation' /\ (\A d \in DOMAIN keys' : KeyOK(d)') /\ \A d \in Conversations : KeyIsThere(d)'
  BY <1>1, <1>2, RecordKeepsKeys
<1>5. \A r \in DOMAIN runs' : RunOK(r)'
  BY <1>1, <1>2, RecordKeepsRuns
<1>6. \A r \in Runs : DroppedOK(r)'
  BY <1>1, <1>2, RecordKeepsDropped
<1> QED
  BY <1>3, <1>4, <1>5, <1>6 DEF TraceInv

\* What the follow-up store does, and time, is no step of this one.
LEMMA TraceUnchanged ==
  ASSUME TraceInv, UNCHANGED traceVars
  PROVE  TraceInv'
<1>1. runs' = runs /\ keys' = keys /\ order' = order /\ events' = events
  BY DEF traceVars
<1>2. TraceTyped' /\ OneConversation'
  BY <1>1 DEF TraceInv, TraceTyped, OneConversation, First
<1>3. \A r \in DOMAIN runs' : RunOK(r)'
  BY <1>1 DEF TraceInv, RunOK, First, Traced, EventsOf
<1>4. \A d \in DOMAIN keys' : KeyOK(d)'
  BY <1>1 DEF TraceInv, KeyOK, OfConversation
<1>5. \A r \in Runs : DroppedOK(r)'
  BY <1>1 DEF TraceInv, DroppedOK, EventsOf, First, RecordedSince
<1>6. \A d \in Conversations : KeyIsThere(d)'
  BY <1>1 DEF TraceInv, KeyIsThere, OfConversation
<1> QED
  BY <1>2, <1>3, <1>4, <1>5, <1>6 DEF TraceInv

\* What LastTrace answers, by the history alone.
LEMMA TraceAnswer ==
  ASSUME TraceInv, NEW c \in Conversations
  PROVE  TraceIsFound(c)
<1> DEFINE mine == OfConversation(c)
<1>1. /\ Len(events) \in Nat /\ DOMAIN events = 1..Len(events) /\ MaxRuns \in Nat
      /\ \A i \in DOMAIN events : events[i].run \in Runs
      /\ mine \in SUBSET (0..Len(events)) /\ mine \in SUBSET Nat
      /\ \A r : EventsOf(r) \in SUBSET Nat
  BY EventsFacts, RecentAssumption DEF OfConversation, EventsOf
<1>2. CASE mine = {}
  <2>1. LastTrace(c) = {}
    BY <1>2 DEF TraceInv, KeyOK, LastTrace
  <2> QED
    BY <1>2, <2>1 DEF TraceIsFound, OfConversation
<1>3. CASE mine # {}
  <2> HIDE DEF mine
  <2>1. PICK i \in mine : \A j \in mine : j <= i
    BY <1>1, <1>3, Largest
  <2>2. Latest(mine) = i
    BY <1>1, <2>1, LatestIs
  <2>3. PICK run : run = events[i].run
    OBVIOUS
  <2>4. i \in EventsOf(run) /\ run \in Runs /\ events[i].conversation = c
    BY <1>1, <2>1, <2>3 DEF mine, OfConversation, EventsOf
  <2>5. PICK e \in EventsOf(run) : \A k \in EventsOf(run) : e <= k
    BY <1>1, <2>4, Smallest
  <2>6. Earliest(EventsOf(run)) = e
    BY <1>1, <2>5, EarliestIs
  <2>7. c \in DOMAIN keys => keys[c] = run
    <3>1. SUFFICES ASSUME c \in DOMAIN keys
                   PROVE  keys[c] = run
      OBVIOUS
    <3>2. PICK k \in mine : events[k].run = keys[c] /\ \A j \in mine : j <= k
      BY <3>1 DEF TraceInv, KeyOK, mine
    <3>3. k <= i /\ i <= k
      BY <2>1, <3>2
    <3>4. k \in Nat /\ i \in Nat
      BY <1>1, <2>1, <3>2
    <3>5. k = i
      BY <3>3, <3>4
    <3> QED
      BY <2>3, <3>2, <3>5
  <2>8. LastTrace(c) \subseteq {run}
    BY <2>7 DEF LastTrace
  <2>9. ASSUME NEW r \in LastTrace(c)
        PROVE  /\ r \in DOMAIN runs /\ runs[r].conversation = c /\ Traced(r) # {}
               /\ Traced(r) = {k \in EventsOf(r) : k >= Earliest(Traced(r))}
    <3>1. r = run /\ r \in DOMAIN runs
      BY <2>8, <2>9 DEF LastTrace
    <3>2. RunOK(r)
      BY <3>1 DEF TraceInv
    <3>3. runs[r].conversation = c
      BY <2>4, <3>1, <3>2 DEF RunOK
    <3>4. PICK f : f = First(r)
      OBVIOUS
    <3>5. f \in EventsOf(r) /\ Traced(r) = {k \in EventsOf(r) : k >= f}
      BY <3>2, <3>4 DEF RunOK
    <3>6. f \in Traced(r) /\ Traced(r) \in SUBSET Nat /\ \A k \in Traced(r) : f <= k
      <4>1. f \in Nat /\ \A k \in EventsOf(r) : k \in Nat
        BY <1>1, <3>5
      <4>2. f <= f
        BY <4>1
      <4>3. f \in Traced(r)
        BY <3>5, <4>2
      <4>4. ASSUME NEW k \in Traced(r)
            PROVE  k \in Nat /\ f <= k
        BY <3>5, <4>1, <4>4
      <4> QED
        BY <4>3, <4>4
    <3>7. Earliest(Traced(r)) = f
      BY <3>6, EarliestIs
    <3> QED
      BY <3>1, <3>3, <3>5, <3>6, <3>7
  <2>10. ASSUME Cardinality(RecordedSince(e) \ {run}) < MaxRuns
         PROVE  LastTrace(c) = {run} /\ Traced(run) = EventsOf(run)
    <3>1. ~ (Cardinality(RecordedSince(e) \ {run}) >= MaxRuns)
      <4>1. IsFiniteSet({events[j].run : j \in {k \in DOMAIN events : k > e}})
        BY <1>1, SinceIsFinite
      <4>2. IsFiniteSet(RecordedSince(e) \ {run})
        BY <4>1, FS_Subset DEF RecordedSince
      <4>3. Cardinality(RecordedSince(e) \ {run}) \in Nat
        BY <4>2, FS_CardinalityType
      <4> QED
        BY <1>1, <2>10, <4>3
    <3>2. run \in DOMAIN runs /\ First(run) = e
      BY <2>4, <2>5, <3>1 DEF TraceInv, DroppedOK
    <3>3. c \in DOMAIN keys
      BY <2>1, <2>3, <3>2 DEF TraceInv, KeyIsThere, mine
    <3>4. LastTrace(c) = {run}
      BY <2>7, <3>2, <3>3 DEF LastTrace
    <3>5. Traced(run) = {k \in EventsOf(run) : k >= e}
      BY <3>2 DEF TraceInv, RunOK
    <3>6. \A k \in EventsOf(run) : k >= e
      BY <1>1, <2>5
    <3> QED
      BY <3>4, <3>5, <3>6
  <2> DEFINE since == RecordedSince(e) \ {run}
  <2>11. /\ LastTrace(c) \subseteq {run}
         /\ \A r \in LastTrace(c) :
              /\ runs[r].conversation = c /\ Traced(r) # {}
              /\ Traced(r) = {k \in EventsOf(r) : k >= Earliest(Traced(r))}
         /\ Cardinality(since) < MaxRuns => LastTrace(c) = {run} /\ Traced(run) = EventsOf(run)
    BY <2>8, <2>9, <2>10
  <2>12. events[Latest(mine)].run = run /\ RecordedSince(Earliest(EventsOf(run))) \ {run} = since
    BY <2>2, <2>3, <2>6
  <2> HIDE DEF since
  <2> QED
    BY <1>3, <2>11, <2>12 DEF TraceIsFound, Traced, mine, OfConversation, RecordedSince
<1> QED
  BY <1>2, <1>3

-----------------------------------------------------------------------------
(* Both are invariants of the stores.                                      *)

LEMMA RecentStart ==
  ASSUME RecentInit
  PROVE  FollowInv /\ TraceInv
<1>1. /\ clock = 0 /\ items = << >> /\ sequence = 0 /\ saves = << >>
      /\ runs = << >> /\ keys = << >> /\ order = << >> /\ events = << >>
  BY DEF RecentInit
<1>2. /\ DOMAIN << >> = {} /\ Len(<< >>) = 0 /\ \A S : << >> \in Seq(S)
      /\ IsFiniteSet({}) /\ Cardinality({}) = 0
  BY FS_EmptySet
<1>3. 0 <= MaxEntries /\ 0 <= MaxRuns
  BY RecentAssumption
<1>4. FollowTyped
  BY <1>1, <1>2, <1>3 DEF FollowTyped
<1>5. Clocked /\ (\A c \in DOMAIN items : EntryOK(c) /\ LaterStay(c)) /\ \A c \in Conversations : ForgottenOK(c)
  BY <1>1, <1>2 DEF Clocked, ForgottenOK
<1>6. TraceTyped
  BY <1>1, <1>2, <1>3 DEF TraceTyped
<1>7. /\ OneConversation /\ (\A r \in DOMAIN runs : RunOK(r)) /\ (\A c \in DOMAIN keys : KeyOK(c))
      /\ (\A r \in Runs : DroppedOK(r)) /\ \A c \in Conversations : KeyIsThere(c)
  BY <1>1, <1>2 DEF OneConversation, DroppedOK, KeyIsThere, EventsOf, OfConversation
<1> QED
  BY <1>4, <1>5, <1>6, <1>7 DEF FollowInv, TraceInv

\* Every step of either store, or of none, keeps the invariant of each.
LEMMA RecentStep ==
  ASSUME FollowInv, TraceInv, [FollowUpNext \/ TraceNext]_recentVars
  PROVE  FollowInv' /\ TraceInv'
<1>1. CASE \E c \in Conversations : Save(c)
  BY <1>1, SaveKeeps, TraceUnchanged DEF Save
<1>2. CASE \E c \in Conversations : Load(c)
  BY <1>2, LoadKeeps, TraceUnchanged DEF Load
<1>3. CASE RecentTick
  BY <1>3, TickKeeps, TraceUnchanged DEF RecentTick
<1>4. ASSUME NEW c \in Conversations, NEW run \in Runs, RunIsOf(run, c), RecordTraceEvent(c, run)
      PROVE  FollowInv' /\ TraceInv'
  <2>1. UNCHANGED <<clock, followUpVars>>
    BY <1>4 DEF RecordTraceEvent
  <2> QED
    BY <1>4, <2>1, FollowUnchanged, RecordKeeps
<1>5. CASE UNCHANGED recentVars
  BY <1>5, FollowUnchanged, TraceUnchanged DEF recentVars
<1> QED
  BY <1>1, <1>2, <1>3, <1>4, <1>5 DEF FollowUpNext, TraceNext

\* Both stores always keep what their limits say: the entries, and the runs, are
\* the youngest of what was saved and recorded (followup.go, trace.go).
THEOREM RecentInvariant == RecentSpec => [](FollowInv /\ TraceInv)
<1>1. RecentInit => FollowInv /\ TraceInv
  BY RecentStart
<1>2. FollowInv /\ TraceInv /\ [FollowUpNext \/ TraceNext]_recentVars => (FollowInv /\ TraceInv)'
  BY RecentStep
<1> QED
  BY <1>1, <1>2, PTL DEF RecentSpec

\* The bounded stores forget only what their limits say, the oldest first: Load
\* finds the last snapshot of a conversation exactly as long as it is not older
\* than the ttl and fewer than maxEntries others saved since, and LastTrace shows
\* the run the conversation last recorded for, whole as long as fewer than maxRuns
\* others recorded since it began, and never one of another conversation.
THEOREM RecentRunsAreAlwaysFound == RecentSpec => []RecentRunsAreFound
<1>1. FollowInv /\ TraceInv => RecentRunsAreFound
  <2>1. SUFFICES ASSUME FollowInv, TraceInv
                 PROVE  RecentRunsAreFound
    OBVIOUS
  <2>2. \A c \in Conversations : FollowUpIsFound(c) /\ TraceIsFound(c)
    BY <2>1, FollowUpAnswer, TraceAnswer
  <2> QED
    BY <2>1, <2>2 DEF FollowInv, FollowTyped, TraceInv, TraceTyped, RecentRunsAreFound
<1> QED
  BY <1>1, RecentInvariant, PTL
=============================================================================
