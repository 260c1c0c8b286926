--------------------------- MODULE MCMemoryIngest ---------------------------
(***************************************************************************)
(* Instances of MemoryIngest for TLC: the messages are all in one channel. *)
(* And what is read back, for the rows, texts and snippets that the        *)
(* assumptions at the end enumerate.                                       *)
(***************************************************************************)
EXTENDS MemoryIngest, Evidence

CONSTANTS lounge

MCChannels == {lounge}
MCHome == [m \in Messages |-> lounge]

-----------------------------------------------------------------------------
Words(n) == UNION {[1..k -> {"a", "b"}] : k \in 0..n}

ASSUME CountsAreRight ==
  \A text \in Words(5), query \in Words(2) \ {<<>>} : CountIsRight(text, query)

\* Three rows: one of another channel or author, one that is gone or has no text.
MCRow(id, at, text, channel, deleted) ==
  [id |-> id, channel |-> channel, author |-> "ann", text |-> text, at |-> at,
   deleted |-> deleted, expired |-> FALSE]

MCRows ==
  {{MCRow(1, 1, <<"a", "b">>, "lounge", FALSE), MCRow(2, at, text, channel, FALSE),
    MCRow(3, 2, <<"a", "a">>, "lounge", deleted)} :
      at \in 1..3, text \in {<<>>, <<"a">>}, channel \in {"lounge", "hall"}, deleted \in BOOLEAN}

Lounge == ToolRequest("lounge", Anybody, <<>>, <<>>)

\* What is searched for is found unless the limit or a newer match leaves it out.
ASSUME SearchesAreRight ==
  \A rows \in MCRows, limit \in 1..2 :
    LET found == SearchMessages(rows, Lounge, <<"a">>, limit)
    IN  /\ found # {}
        /\ \A s \in found, row \in rows :
             /\ row \in Range(s) => row.channel = "lounge" /\ ~row.deleted
             /\ row.channel = "lounge" /\ ~row.deleted /\ row.text # <<>> /\ row \notin Range(s) =>
                  Len(s) = limit /\ \A i \in DOMAIN s : s[i].at >= row.at
        /\ CountMentions(rows, Lounge, <<"a">>) >= Len(CHOOSE s \in found : TRUE)

MCSnippets ==
  [source : {"s1", "s2"}, print : {"old", "new"}, size : {0, 2, 5}, pinned : BOOLEAN, stale : BOOLEAN]

ASSUME PacksAreRight ==
  \A snippets \in [1..2 -> MCSnippets], budget \in {3, 6, 7},
     previous \in {<<>>, [source \in {"s1"} |-> "old"]} :
       /\ PackIsRight(snippets, previous, budget)
       /\ PackIsRight(snippets \o <<snippets[1]>>, previous, budget)

\* The evidence of a tool fits its pack, and each message is a source of its own.
ASSUME EvidenceIsPacked ==
  \A rows \in MCRows :
    \A s \in RecentMessages(rows, Lounge, 5) :
      /\ Len(BuildPack(ResultSnippets(s, 3), <<>>, 2400).items) = Len(s)
      /\ Len(BuildPack(FetchedSnippets(s), <<>>, 2500).items) = Len(s)
=============================================================================
