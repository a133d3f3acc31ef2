------------------------------ MODULE HealFilters ------------------------------
(***************************************************************************)
(* The two filters that heal streamed text (src/src/heal/dsml.rs,          *)
(* src/src/heal/think.rs), and what the blocking path does to a whole      *)
(* message instead.  Text comes in deltas; what could still turn out to be *)
(* the beginning of a tag is withheld until more text decides it.          *)
(* Texts are those of DsmlParser, with the words "think", "ing" and the    *)
(* two triangles of Kimi's tags.                                           *)
(***************************************************************************)
EXTENDS DsmlParser

OpenTags == {<<"<", "think", "ing", ">">>, <<"<", "think", ">">>, <<"left", "think", "right">>}
CloseTags ==
  {<<"<", "/", "think", "ing", ">">>, <<"<", "/", "think", ">">>, <<"left", "/", "think", "right">>}

EndsWith(text, pattern) ==
  /\ Len(pattern) <= Len(text)
  /\ SubSeq(text, Len(text) - Len(pattern) + 1, Len(text)) = pattern

\* The length of the longest end of a text that is the beginning, but not the
\* whole, of one of some patterns.
LongestPrefixSuffix(text, patterns) ==
  LET lengths == {0} \union UNION {{n \in 1 .. Len(p) - 1 : EndsWith(text, SubSeq(p, 1, n))} : p \in patterns}
  IN CHOOSE n \in lengths : \A m \in lengths : m <= n

Drop(text, n) == SubSeq(text, n + 1, Len(text))
Take(text, n) == SubSeq(text, 1, n)

-----------------------------------------------------------------------------
(* DSML *)

NewDsmlFilter(enabled) == [pending |-> <<>>, inDsml |-> FALSE, fired |-> FALSE, enabled |-> enabled]

\* Bug: only the single-bar marker is withheld.
LongestMarkerPrefixSuffixOne(text) == LongestPrefixSuffix(text, {SingleBar.marker})

LongestMarkerPrefixSuffix(text) == LongestPrefixSuffix(text, {d.marker : d \in Dialects})

\* A filter that is not in a marker yet, with its text and where one starts.
DsmlIsolate(f, pending, start) ==
  LET upto == IF start = None THEN Len(pending) - LongestMarkerPrefixSuffix(pending) ELSE start
  IN [filter |-> [f EXCEPT !.pending = Drop(pending, upto), !.inDsml = start # None,
                           !.fired = @ \/ start # None],
      text |-> Take(pending, upto)]

\* A filter after a delta, and what it lets through.
DsmlPush(f, delta) ==
  IF ~f.enabled THEN [filter |-> f, text |-> delta]
  ELSE IF f.inDsml THEN [filter |-> [f EXCEPT !.pending = @ \o delta], text |-> <<>>]
  ELSE DsmlIsolate(f, f.pending \o delta, Earliest(MarkersIn(f.pending \o delta, 0)))

DsmlFinish(f) ==
  IF f.inDsml THEN ParseLeakedToolCalls(f.pending) ELSE [text |-> f.pending, calls |-> <<>>]

-----------------------------------------------------------------------------
(* Think tags *)

NewThinkFilter(enabled) == [pending |-> <<>>, inThink |-> FALSE, fired |-> FALSE, enabled |-> enabled]

\* The earliest tag, the longest of those that begin there.
FirstTag(text, tags) ==
  LET at == Earliest(UNION {Occurrences(text, 0, tag) : tag \in tags})
      here == {tag \in tags : StartsWith(text, at, tag)}
  IN IF at = None THEN [at |-> None, len |-> 0]
     ELSE [at |-> at, len |-> Len(CHOOSE tag \in here : \A other \in here : Len(other) <= Len(tag))]

SoughtTags(f) == IF f.inThink THEN CloseTags ELSE OpenTags

\* `out` with more text, on the side of the tags where the filter is.
LetThrough(f, out, text) ==
  IF f.inThink THEN [out EXCEPT !.reasoning = @ \o text] ELSE [out EXCEPT !.text = @ \o text]

RECURSIVE Split(_, _, _), SplitAt(_, _, _, _)
\* The loop of push: `out` is what it has let through so far.
Split(pending, f, out) == SplitAt(pending, f, out, FirstTag(pending, SoughtTags(f)))

SplitAt(pending, f, out, tag) ==
  LET upto == Len(pending) - LongestPrefixSuffix(pending, SoughtTags(f))
  IN IF tag.at = None
     THEN [filter |-> [f EXCEPT !.pending = Drop(pending, upto)],
           out |-> LetThrough(f, out, Take(pending, upto))]
     ELSE Split(Drop(pending, tag.at + tag.len),
                [f EXCEPT !.inThink = ~@, !.fired = @ \/ ~f.inThink],
                LetThrough(f, out, Take(pending, tag.at)))

NoSplit == [reasoning |-> <<>>, text |-> <<>>]

ThinkPush(f, delta) ==
  IF f.enabled
  THEN Split(f.pending \o delta, f, NoSplit)
  ELSE [filter |-> f, out |-> [NoSplit EXCEPT !.text = delta]]

\* A block that was never closed is reasoning.
ThinkFinish(f) ==
  IF f.inThink THEN [NoSplit EXCEPT !.reasoning = f.pending] ELSE [NoSplit EXCEPT !.text = f.pending]

\* All that comes out when a filter gets its last text.
PushedAndFinished(pushed, tail) ==
  [reasoning |-> pushed.out.reasoning \o tail.reasoning, text |-> pushed.out.text \o tail.text]

Finished(pushed) == PushedAndFinished(pushed, ThinkFinish(pushed.filter))
ThinkLast(f, text) == Finished(ThinkPush(f, text))

-----------------------------------------------------------------------------
(* A blocking answer: the whole message at once. *)

WithCalls(message, parsed) ==
  IF parsed.calls = <<>> THEN message
  ELSE [message EXCEPT !.text = parsed.text, !.calls = @ \o parsed.calls]

HealDsmlChatMessage(message) ==
  IF MarkersIn(message.text, 0) = {} THEN message
  ELSE WithCalls(message, ParseLeakedToolCalls(message.text))

WithReasoning(message, split) ==
  [message EXCEPT !.text = split.text, !.reasoning = @ \o split.reasoning]

HealThinkChatMessage(message) ==
  IF FirstTag(message.text, OpenTags).at = None THEN message
  ELSE WithReasoning(message, ThinkLast(NewThinkFilter(TRUE), message.text))

HealMessage(message, gates) ==
  LET calls == IF gates.dsml THEN HealDsmlChatMessage(message) ELSE message
      think(m) == IF gates.think THEN HealThinkChatMessage(m) ELSE m
  IN think(calls)

=============================================================================
