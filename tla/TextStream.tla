------------------------------ MODULE TextStream ------------------------------
(***************************************************************************)
(* An upstream body on its way through the code that reads it byte by byte *)
(* and piece by piece: SseReader finds its events, the healing filters     *)
(* take the content of each (on_chunk and flush_heal of                    *)
(* src/src/convert/response.rs: DSML first, then think tags), and the      *)
(* relay of the passthrough path looks for the first content in the same   *)
(* chunks (FirstContent).  A body goes through one path or the other in    *)
(* the code; here both read it.  The JSON around the content of an event   *)
(* is left out.                                                            *)
(*                                                                         *)
(* The upstream either sends a body as raw bytes, cut anywhere, or deltas  *)
(* of a content, cut anywhere, each in an event that arrives whole.        *)
(***************************************************************************)
EXTENDS SseReader, HealFilters, FirstContent

CONSTANTS
  Bodies,    \* bodies sent as raw bytes
  Contents,  \* contents sent in deltas: sequences of pieces that are not cut
  Gates      \* the healing quirks a request with a content may find set

ASSUME GatesAreBooleans == Gates \subseteq [dsml : BOOLEAN, think : BOOLEAN]

VARIABLES
  rest,      \* what the upstream has not sent yet
  framed,    \* whether it sends whole events
  gates,
  dsml, think,   \* the two filters
  heard,     \* the content that has gone through them (only recorded)
  shown,     \* text, reasoning and calls that have come out
  step,      \* "reading", "flushing" (the stream has ended) or "finished"
  carry, contentSeen  \* the relay's search for the first content

vars == <<readerVars, rest, framed, gates, dsml, think, heard, shown, step, carry, contentSeen>>

-----------------------------------------------------------------------------

Init ==
  /\ ReaderInit
  /\ \/ framed = FALSE /\ rest \in Bodies /\ gates = [dsml |-> TRUE, think |-> TRUE]
     \/ framed = TRUE /\ rest \in Contents /\ gates \in Gates
  /\ dsml = NewDsmlFilter(gates.dsml)
  /\ think = NewThinkFilter(gates.think)
  /\ heard = <<>>
  /\ shown = [text |-> <<>>, reasoning |-> <<>>, calls |-> <<>>]
  /\ step = "reading"
  /\ carry = <<>>
  /\ contentSeen = FALSE

\* The next chunk of the body.
Send(n) ==
  LET chunk == SubSeq(rest, 1, n)
  IN /\ step = "reading" /\ ~framed
     /\ Receive(chunk)
     /\ rest' = Drop(rest, n)
     /\ contentSeen' = (contentSeen \/ Hit(carry, chunk))
     /\ carry' = IF contentSeen THEN carry ELSE NextCarry(carry, chunk)
     /\ UNCHANGED <<framed, gates, dsml, think, heard, shown, step>>

\* What a think split adds to what has come out.
Show(split) ==
  shown' = [shown EXCEPT !.text = @ \o split.text, !.reasoning = @ \o split.reasoning]

\* The content of a delta goes through both filters.
OnChunk(delta) ==
  LET isolated == DsmlPush(dsml, delta)
      split == ThinkPush(think, isolated.text)
  IN /\ dsml' = isolated.filter
     /\ think' = split.filter
     /\ heard' = heard \o delta
     /\ Show(split.out)

Nothing == UNCHANGED <<dsml, think, heard, shown>>

\* The next delta of the content.
SendDelta(n) ==
  /\ step = "reading" /\ framed
  /\ OnChunk(FlattenSeq(SubSeq(rest, 1, n)))
  /\ rest' = Drop(rest, n)
  /\ UNCHANGED <<readerVars, framed, gates, step, carry, contentSeen>>

\* A block: a comment, the end of the stream, or a delta.
Hear(block) ==
  \/ /\ ~IsEvent(block)
     /\ Nothing /\ UNCHANGED step
  \/ /\ IsEvent(block) /\ IsDone(EventData(block))
     /\ step' = "flushing" /\ Nothing
  \/ /\ IsEvent(block) /\ ~IsDone(EventData(block))
     /\ OnChunk(EventData(block)) /\ UNCHANGED step

ReadEvent ==
  /\ step = "reading" /\ ~framed
  /\ Emit
  /\ Hear(Last(blocks'))
  /\ UNCHANGED <<rest, framed, gates, carry, contentSeen>>

AskForMore ==
  /\ step = "reading" /\ ~framed
  /\ Await
  /\ UNCHANGED <<rest, framed, gates, dsml, think, heard, shown, step, carry, contentSeen>>

EndOfBody ==
  /\ step = "reading" /\ ~framed
  /\ rest = <<>>
  /\ End
  /\ IF blocks' # blocks /\ IsEvent(Last(blocks')) /\ ~IsDone(EventData(Last(blocks')))
     THEN OnChunk(EventData(Last(blocks'))) ELSE Nothing
  /\ step' = "flushing"
  /\ UNCHANGED <<rest, framed, gates, carry, contentSeen>>

EndOfContent ==
  /\ step = "reading" /\ framed
  /\ rest = <<>>
  /\ step' = "flushing" /\ Nothing
  /\ UNCHANGED <<readerVars, rest, framed, gates, carry, contentSeen>>

BrokenBody ==
  /\ step = "reading" /\ ~framed
  /\ Break
  /\ step' = "flushing"
  /\ UNCHANGED <<rest, framed, gates, dsml, think, heard, shown, carry, contentSeen>>

\* At the end both filters give up what they hold, in the same order.
FlushHeal ==
  /\ step = "flushing"
  /\ \E parsed \in {DsmlFinish(dsml)} :
       \E split \in {ThinkLast(think, parsed.text)} :
         shown' = [text |-> shown.text \o split.text,
                   reasoning |-> shown.reasoning \o split.reasoning,
                   calls |-> parsed.calls]
  /\ step' = "finished"
  /\ UNCHANGED <<readerVars, rest, framed, gates, dsml, think, heard, carry, contentSeen>>

Next ==
  \/ \E n \in 1 .. Len(rest) : Send(n)
  \/ \E n \in 1 .. Len(rest) : SendDelta(n)
  \/ ReadEvent
  \/ AskForMore
  \/ EndOfBody
  \/ EndOfContent
  \/ BrokenBody
  \/ FlushHeal

Spec == Init /\ [][Next]_vars

-----------------------------------------------------------------------------
(* The references: everything that was received, read at once. *)

RECURSIVE WholeBlocks(_)
WholeBlocks(bytes) ==
  LET at == FindEventBoundary(bytes, 0)
      end == at + DelimiterLen(bytes, at)
  IN IF BoundariesFrom(bytes, 0) = {} THEN <<>> ELSE << Take(bytes, end) >> \o WholeBlocks(Drop(bytes, end))

Remainder(bytes) == Drop(bytes, Len(FlattenSeq(WholeBlocks(bytes))))

\* Invoke tags that open a block, well-formed or not, and those that close one.
Opening(text, d) == {p \in InvokesIn(text, 0, d) : ~ScanOpenTag(text, p, d).selfClosing}
Closing(text, d) == Occurrences(text, 0, d.invokeClose)

\* An invoke opened at p has not been closed at q.
StillOpen(text, p, q, d) ==
  \A c \in Closing(text, d) : p < c /\ c < q =>
    Cardinality({b \in Closing(text, d) : p < b /\ b <= c})
      < Cardinality({o \in Opening(text, d) : p <= o /\ o < c})

-----------------------------------------------------------------------------
(* Properties *)

\* The events of a body do not depend on how the network cut it
\* (src/src/upstream.rs:61-119, 148-184): they are the ones found in all that
\* was received at once, and laid end to end they are those bytes again, but for
\* a blank or broken-off rest.
BlocksAsInBody ==
  /\ IsPrefix(blocks, WholeBlocks(received) \o << Remainder(received) >>)
  /\ step = "reading" => FlattenSeq(blocks) \o buffer = received
  /\ step = "reading" /\ pc = "wait" => blocks = WholeBlocks(received)
  /\ pc = "over" /\ rest = <<>> /\ buffer = <<>> /\ ~Blank(Remainder(received))
       => FlattenSeq(blocks) = received

\* However the content was cut into deltas, the client gets the text, the
\* reasoning and the calls that the blocking path makes of the whole message
\* (src/src/convert/response.rs:398-404 and 596-635 against
\* src/src/proxy/chat.rs:480-486); and before a marker is found, no more is ever
\* held back than may begin one.
HealedAsWhole ==
  /\ step = "finished" =>
       shown = HealMessage([text |-> heard, reasoning |-> <<>>, calls |-> <<>>], gates)
  /\ gates.dsml /\ ~dsml.inDsml => \E d \in Dialects : IsStrictPrefix(dsml.pending, d.marker)
  /\ gates.think => \E tag \in OpenTags \union CloseTags : IsStrictPrefix(think.pending, tag)

\* No call is healed out of the inside of an invoke that did not parse
\* (src/src/heal/dsml.rs:257-258): it would run out of context.
NestedNeverHealed ==
  step = "finished" /\ gates.dsml =>
    LET spans == Spans(heard, 0)
        inside(p) == \E k \in DOMAIN spans : spans[k].from <= p /\ p < spans[k].to
    IN \A k \in DOMAIN spans, d \in Dialects : \A p \in Opening(heard, d) :
         p < spans[k].from /\ ~inside(p) => ~StillOpen(heard, p, spans[k].from, d)

\* The relay notices the first content event as soon as its marker is complete,
\* wherever the chunks were cut (src/src/proxy/mod.rs:154-167), and never before;
\* it keeps less than a marker between two chunks.
FirstContentSeen ==
  /\ contentSeen <=> \E marker \in FirstContentMarkers : Within(received, marker)
  /\ Len(carry) < MaxMarkerLen

=============================================================================
