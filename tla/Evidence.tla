------------------------------ MODULE Evidence ------------------------------
(***************************************************************************)
(* What is read back from guild memory: the three queries of memory.       *)
(* SQLStore, the snippets made of their rows, and the packing of snippets  *)
(* into a bounded context (internal/contextbroker).  Pure operators; how   *)
(* the rows come about is module MemoryIngest.                             *)
(*                                                                         *)
(* A row has an id, a channel, an author, its normalized text (a sequence  *)
(* of letters, <<>> for none, which metadata mode leaves), the time of the *)
(* message, and whether it is a tombstone or its retention is over.        *)
(***************************************************************************)
EXTENDS Integers, Sequences, FiniteSets, Functions, SequencesExt

Anybody == "anybody"

-----------------------------------------------------------------------------
(* The queries.                                                            *)

\* The rows of a request that may be shown: start and end are inclusive, and
\* the channel's present policy is not asked.
Retained(rows, request) ==
  {row \in rows :
     /\ row.channel = request.channel
     /\ request.author \in {Anybody, row.author}
     /\ row.text # <<>> /\ ~row.deleted /\ ~row.expired
     /\ row.at \in request.start .. request.end}

MatchesAt(text, query, i) ==
  /\ i + Len(query) - 1 <= Len(text)
  /\ SubSeq(text, i, i + Len(query) - 1) = query

Mentions(text, query) == \E i \in DOMAIN text : MatchesAt(text, query, i)

\* (length(text) - length(replace(text, query, ''))) / length(query): replace
\* takes the matches out from the left, none overlapping another.
Occurrences(text, query) ==
  LET from[i \in 1 .. Len(text) + Len(query)] ==
        IF i > Len(text) THEN 0
        ELSE IF MatchesAt(text, query, i) THEN 1 + from[i + Len(query)]
        ELSE from[i + 1]
  IN  from[1]

\* CountMentions: occurrences, not messages.
CountMentions(rows, request, query) ==
  LET count(n, row) == n + Occurrences(row.text, query)
  IN  FoldLeft(count, 0, SetToSeq(Retained(rows, request)))

\* "order by created_at desc limit n": any order among equal times.
Newest(rows, n) ==
  LET size == IF Cardinality(rows) < n THEN Cardinality(rows) ELSE n
  IN  {s \in [1 .. size -> rows] :
         /\ IsInjective(s)
         /\ \A i, j \in 1 .. size : i < j => s[i].at >= s[j].at
         /\ \A i \in 1 .. size : \A row \in rows \ Range(s) : s[i].at >= row.at}

\* normalizeSearchRequest, normalizeRecentRequest and normalizeChannelRecentRequest;
\* parseLimit of the tools comes before and lets no limit below 1 through.
SearchLimit(limit) == IF limit = 0 THEN 5 ELSE IF limit < 1 THEN 1 ELSE IF limit > 25 THEN 25 ELSE limit
RecentLimit(limit) == IF limit < 1 THEN 5 ELSE IF limit > 25 THEN 25 ELSE limit
FetchLimit(limit) == IF limit <= 0 THEN 10 ELSE IF limit > 25 THEN 25 ELSE limit
ToolLimit(limit) == IF limit < 1 THEN 5 ELSE IF limit > 25 THEN 25 ELSE limit

SearchMessages(rows, request, query, limit) ==
  Newest({row \in Retained(rows, request) : Mentions(row.text, query)}, SearchLimit(limit))

RecentMessages(rows, request, limit) == Newest(Retained(rows, request), RecentLimit(limit))

\* The request of a tool call: the first of its date arguments that is given.
ToolRequest(channel, author, starts, ends) ==
  [channel |-> channel, author |-> author,
   start |-> IF starts = <<>> THEN 0 ELSE starts[1],
   end   |-> IF ends = <<>> THEN 99 ELSE ends[1]]

-----------------------------------------------------------------------------
(* Snippets.  Equal prints stand for equal fingerprints: same source,       *)
(* author, time and text.                                                   *)

Snippet(source, row, size) ==
  [source |-> <<source, row.id>>, print |-> <<source, row.id, row.author, row.at, row.text>>,
   size |-> size, pinned |-> FALSE, stale |-> FALSE]

\* ChannelRecentFetcher.Fetch: one source for all, the text as it is.
FetchedSnippets(messages) ==
  [i \in DOMAIN messages |-> Snippet("memory.current_channel", messages[i], Len(messages[i].text))]

\* memoryResultsContextSnippets: the channel is the source, and the author's
\* mention, of some length, stands before the text.
ResultSnippets(messages, mention) ==
  [i \in DOMAIN messages |-> Snippet(messages[i].channel, messages[i], mention + Len(messages[i].text))]

-----------------------------------------------------------------------------
(* BuildPack.                                                              *)

\* prioritizeSnippets
Prioritized(snippets) ==
  SelectSeq(snippets, LAMBDA s : s.pinned) \o SelectSeq(snippets, LAMBDA s : ~s.pinned)

\* appendItem
Status(snippet, seen) ==
  IF snippet.pinned THEN "PINNED"
  ELSE IF snippet.stale \/ (snippet.source \in DOMAIN seen /\ seen[snippet.source] # snippet.print)
  THEN "CHANGED" ELSE "NEW"

\* Only a CHANGED snippet that was seen otherwise takes its predecessor back.
Invalidates(snippet, seen) ==
  /\ Status(snippet, seen) = "CHANGED"
  /\ snippet.source \in DOMAIN seen
  /\ seen[snippet.source] # snippet.print

Appended(pack, snippet, size) ==
  [pack EXCEPT !.chars = @ + size,
               !.items = Append(@, [source |-> snippet.source, status |-> Status(snippet, pack.seen),
                                    label |-> Len(pack.items) + 1, size |-> size]),
               !.invalidated = IF Invalidates(snippet, pack.seen) THEN @ \cup {snippet.source} ELSE @]

Omitted(pack, snippet, why) ==
  [pack EXCEPT !.omitted = @ \cup {[source |-> snippet.source, status |-> why]}]

\* The state of the session is one map, read and written while the pack is
\* built: a source that comes twice meets its first fingerprint.
Seen(pack, snippet) ==
  [pack EXCEPT !.seen = [source \in DOMAIN @ \cup {snippet.source} |->
                           IF source = snippet.source THEN snippet.print ELSE @[source]]]

\* What is over the budget is cut to what is left of it, three dots included
\* (texts have no blanks here that could be trimmed before them), or omitted if
\* that is no more than the dots; either ends the pack.
Cut(pack, snippet, budget) ==
  LET left == budget - pack.chars
  IN  [(IF left > 3 THEN Appended(pack, snippet, left) ELSE Omitted(pack, snippet, "OMIT_BUDGET"))
         EXCEPT !.truncated = TRUE]

PackSnippet(pack, snippet, budget) ==
  IF snippet.size = 0 \/ pack.truncated THEN pack
  ELSE Seen(IF /\ snippet.source \in DOMAIN pack.seen /\ ~snippet.pinned
               /\ pack.seen[snippet.source] = snippet.print
            THEN Omitted(pack, snippet, "OMIT_UNCHANGED")
            ELSE IF pack.chars + snippet.size > budget THEN Cut(pack, snippet, budget)
            ELSE Appended(pack, snippet, snippet.size), snippet)

BuildPack(snippets, previous, maxChars) ==
  LET budget == IF maxChars <= 0 THEN 4000 ELSE maxChars
      empty  == [items |-> <<>>, omitted |-> {}, invalidated |-> {}, chars |-> 0,
                 truncated |-> FALSE, seen |-> previous]
  IN  FoldLeft(LAMBDA pack, snippet : PackSnippet(pack, snippet, budget), empty, Prioritized(snippets))

-----------------------------------------------------------------------------
(* Properties                                                              *)

\* The count is the largest number of matches that do not overlap.
CountIsRight(text, query) ==
  LET apart(S) == \A i, j \in S : i # j => i + Len(query) <= j \/ j + Len(query) <= i
      sets     == {S \in SUBSET {i \in DOMAIN text : MatchesAt(text, query, i)} : apart(S)}
  IN  /\ \E S \in sets : Cardinality(S) = Occurrences(text, query)
      /\ \A S \in sets : Cardinality(S) <= Occurrences(text, query)

\* A pack keeps within its budget, its items are labelled in order and come from
\* the snippets, pinned ones first; a snippet neither shown nor reported was
\* empty or came after the end of the budget; and nothing that is told to be
\* unchanged is not known from before or from this pack.
PackIsRight(snippets, previous, budget) ==
  LET pack    == BuildPack(snippets, previous, budget)
      shown   == {pack.items[i].source : i \in DOMAIN pack.items}
      mute(why) == {o.source : o \in {x \in pack.omitted : x.status = why}}
      total   == FoldLeft(LAMBDA n, item : n + item.size, 0, pack.items)
  IN  /\ pack.chars = total /\ total <= budget
      /\ \A i \in DOMAIN pack.items : pack.items[i].label = i
      /\ \A i, j \in DOMAIN pack.items :
           i < j /\ pack.items[j].status = "PINNED" => pack.items[i].status = "PINNED"
      /\ ~pack.truncated =>
           \A i \in DOMAIN snippets :
             snippets[i].size > 0 => snippets[i].source \in shown \cup mute("OMIT_UNCHANGED")
      /\ mute("OMIT_UNCHANGED") \subseteq DOMAIN previous \cup shown
      /\ pack.invalidated \subseteq shown
=============================================================================
