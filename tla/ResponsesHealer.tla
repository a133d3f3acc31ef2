---------------------------- MODULE ResponsesHealer ----------------------------
(***************************************************************************)
(* ResponsesStreamHealer (src/src/heal/responses.rs): on the passthrough   *)
(* path a leaked call or think block is healed inside a stream of          *)
(* Responses events.  Text deltas go through the two filters of            *)
(* HealFilters; what they take out comes back as items of its own, and the *)
(* events that repeat the whole text are rewritten.                        *)
(*                                                                         *)
(* The upstream streams one message, maybe with an item of another kind    *)
(* before or after it, and ends the response properly, early, or not at    *)
(* all.  As the code assumes, its full-text echoes equal the sum of the    *)
(* deltas.  Item ids are output indexes; NoItem is the empty id.           *)
(***************************************************************************)
EXTENDS HealFilters, SequencesExt

CONSTANTS
  Contents,  \* messages: sequences of pieces, which deltas do not cut
  Gates,     \* the settings of the two healing quirks
  Companions \* "none", "before", "after": where another item stands

VARIABLES
  rest,      \* the pieces not sent yet
  said,      \* the text of those that were
  upstream,  \* [gates, announced, companion]: what this upstream is like
  stage,     \* what it sent last
  source,    \* the events it has sent (only recorded)
  healer,
  wire       \* the events forwarded

vars == <<rest, said, upstream, stage, source, healer, wire>>

NoItem == -1

Item(type, id, body) == [type |-> type, id |-> id, body |-> body]

\* An event about an item, with a text or, for "completed", the output.
Event(type, id, body) == [type |-> type, id |-> id, body |-> body]
Added(item) == Event("added", item.id, item)
Done(item) == Event("done", item.id, item)
TextDelta(id, text) == Event("text_delta", id, text)
ReasoningDelta(id, text) == Event("reasoning_delta", id, text)
Completed(output) == Event("completed", NoItem, output)

-----------------------------------------------------------------------------
(* The healer *)

INJECT_INDEX_BASE == 10000

NewHealer(gates) ==
  [dsml |-> NewDsmlFilter(gates.dsml), think |-> NewThinkFilter(gates.think),
   messageItemId |-> NoItem, healedText |-> <<>>, healingFired |-> FALSE,
   reasoning |-> NoItem, reasoningText |-> <<>>, injectedCalls |-> <<>>,
   finished |-> FALSE, nextIndex |-> INJECT_INDEX_BASE]

\* What a step of the healer makes of it, and what it forwards.
Step(h, out) == [h |-> h, out |-> out]
And(first, second) == Step(second.h, first.out \o second.out)

\* Bug: every piece of reasoning opens an item.
EmitReasoningAnew(h, chunk) ==
  LET id == h.nextIndex
  IN Step([h EXCEPT !.reasoning = id, !.nextIndex = id + 1, !.reasoningText = @ \o chunk],
          <<Added(Item("reasoning", id, <<>>)), ReasoningDelta(id, chunk)>>)

\* Healed reasoning: the first piece opens its item.
EmitReasoning(h, chunk) ==
  LET new == h.reasoning = NoItem
      id == IF new THEN h.nextIndex ELSE h.reasoning
  IN Step([h EXCEPT !.reasoning = id, !.nextIndex = IF new THEN @ + 1 ELSE @,
                    !.reasoningText = @ \o chunk],
          (IF new THEN <<Added(Item("reasoning", id, <<>>))>> ELSE <<>>)
            \o <<ReasoningDelta(id, chunk)>>)

EmitText(told, id, text) ==
  IF text = <<>> THEN told
  ELSE Step([told.h EXCEPT !.healedText = @ \o text], Append(told.out, TextDelta(id, text)))

FlushTail(h, split) ==
  EmitText(IF split.reasoning = <<>> THEN Step(h, <<>>)
           ELSE EmitReasoning([h EXCEPT !.healingFired = TRUE], split.reasoning),
           h.messageItemId, split.text)

\* Each healed call is added, spelled out and done.
InjectCalls(h, calls) ==
  LET item(n, body) == Item("function_call", h.nextIndex + n - 1, body)
      whole(n) == item(n, <<calls[n]>>)
      events(n) == <<Added(item(n, <<>>)), Event("arguments_delta", whole(n).id, whole(n).body),
                     Done(whole(n))>>
  IN Step([h EXCEPT !.nextIndex = @ + Len(calls),
                    !.injectedCalls = @ \o [n \in DOMAIN calls |-> whole(n)]],
          FlattenSeq([n \in DOMAIN calls |-> events(n)]))

\* The healer with its filters emptied, and what was in them.
Taken(h, split, calls) ==
  [h |-> [h EXCEPT !.dsml = NewDsmlFilter(@.enabled), !.think = NewThinkFilter(@.enabled)],
   split |-> split, calls |-> calls]

\* Bug: what the first filter held does not go through the second.
TakeTailUnsplit(h) ==
  LET from(isolated) == Taken(h, [ThinkFinish(h.think) EXCEPT !.text = @ \o isolated.text], isolated.calls)
  IN from(DsmlFinish(h.dsml))

\* Both filters are emptied, the first through the second, and start afresh.
TakeTail(h) ==
  LET from(isolated) == Taken(h, ThinkLast(h.think, isolated.text), isolated.calls)
  IN from(DsmlFinish(h.dsml))

\* Bug: what is withheld waits for the end of the stream.
ReleaseUntrackedTailNever(h) == Step(h, <<>>)

\* Before an event that ends a text: nothing can complete a marker any more.
ReleaseUntrackedTail(h) ==
  LET flush(taken) == FlushTail(taken.h, taken.split)
  IN IF h.healingFired THEN Step(h, <<>>) ELSE flush(TakeTail(h))

\* A text delta that has gone through the filters: `told` is the reasoning of it.
HealedDelta(h, e, isolated, split, told) ==
  LET firedNow == isolated.filter.fired # h.dsml.fired \/ split.filter.fired # h.think.fired
      after == [told.h EXCEPT !.dsml = isolated.filter, !.think = split.filter,
                              !.healedText = @ \o split.out.text,
                              !.healingFired = @ \/ firedNow \/ split.out.reasoning # <<>>]
  IN Step(after, IF split.out.text = <<>> /\ e.body # <<>> THEN told.out
                 ELSE Append(told.out, TextDelta(e.id, split.out.text)))

HealTextDelta(h, e) ==
  LET told(split) ==
        IF split.out.reasoning = <<>> THEN Step(h, <<>>) ELSE EmitReasoning(h, split.out.reasoning)
      healed(isolated, split) == HealedDelta(h, e, isolated, split, told(split))
      through(isolated) == healed(isolated, ThinkPush(h.think, isolated.text))
  IN through(DsmlPush(h.dsml, e.body))

\* output_text.done and content_part.done repeat the text.
RewriteTextEcho(h, e) ==
  Step(h, <<IF h.healingFired THEN [e EXCEPT !.body = h.healedText] ELSE e>>)

\* The streamed message, or any when it was not announced.
Tracked(h, item) == item.type = "message" /\ h.messageItemId \in {NoItem, item.id}

SetMessageText(h, item) == IF Tracked(h, item) THEN [item EXCEPT !.body = h.healedText] ELSE item

RewriteItemDone(h, e) ==
  Step(h, <<IF h.healingFired THEN Done(SetMessageText(h, e.body)) ELSE e>>)

\* The output with the text rewritten, the reasoning before the message and
\* the calls at the end.
HealedOutput(h, output) ==
  LET rewritten == [n \in DOMAIN output |-> SetMessageText(h, output[n])]
      messages == {n \in DOMAIN output : output[n].type = "message"}
      at == IF messages = {} THEN Len(output) + 1 ELSE CHOOSE n \in messages : \A m \in messages : n <= m
  IN (IF h.reasoning = NoItem THEN rewritten
      ELSE InsertAt(rewritten, at, Item("reasoning", h.reasoning, h.reasoningText)))
     \o h.injectedCalls

\* The filters give up what they hold, and the calls in it are injected.
FlushAll(h) ==
  LET inject(flushed, calls) == And(flushed, InjectCalls(flushed.h, calls))
      flush(taken) == inject(FlushTail([taken.h EXCEPT !.finished = TRUE], taken.split), taken.calls)
  IN flush(TakeTail(h))

\* The end of a healed response: its reasoning is done, its output rewritten.
Closed(told, output) ==
  Step(told.h, told.out
                 \o (IF told.h.reasoning = NoItem THEN <<>>
                     ELSE <<Done(Item("reasoning", told.h.reasoning, told.h.reasoningText))>>)
                 \o <<Completed(output)>>)

\* Bug: the payload is rewritten before the tail is flushed.
RewriteCompletedEarly(h, e) ==
  IF ~h.healingFired THEN Step(h, <<e>>) ELSE Closed(FlushAll(h), HealedOutput(h, e.body))

RewriteCompleted(h, e) ==
  LET closed(told) == Closed(told, HealedOutput(told.h, e.body))
  IN IF ~h.healingFired THEN Step(h, <<e>>) ELSE closed(FlushAll(h))

\* Events that end or repeat a text, after what was withheld.
Rewrite(released, e) ==
  And(released,
      CASE e.type \in {"text_done", "part_done"} -> RewriteTextEcho(released.h, e)
        [] e.type = "done" -> RewriteItemDone(released.h, e)
        [] e.type = "completed" -> RewriteCompleted(released.h, e))

PushEvent(h, e) ==
  CASE e.type = "added" ->
         Step(IF e.body.type = "message" THEN [h EXCEPT !.messageItemId = e.id] ELSE h, <<e>>)
    [] e.type = "text_delta" -> HealTextDelta(h, e)
    [] e.type \in {"text_done", "part_done", "done", "completed"} -> Rewrite(ReleaseUntrackedTail(h), e)
    [] OTHER -> Step(h, <<e>>)

\* The end of the stream: what the filters still hold goes out.
Finish(h) == IF h.finished THEN Step(h, <<>>) ELSE FlushAll(h)

-----------------------------------------------------------------------------
(* A blocking body *)

\* What healing makes of the text of one message.
HealPart(text, gates) ==
  LET part(split, calls) == [text |-> split.text, reasoning |-> split.reasoning, calls |-> calls]
      think(parsed) ==
        part(IF gates.think /\ FirstTag(parsed.text, OpenTags).at # None
             THEN ThinkLast(NewThinkFilter(TRUE), parsed.text)
             ELSE [text |-> parsed.text, reasoning |-> <<>>],
             parsed.calls)
  IN think(IF gates.dsml THEN ParseLeakedToolCalls(text) ELSE [text |-> text, calls |-> <<>>])

\* The output with its healed parts: reasoning before each message, the calls
\* at the end.  The new items have ids of their own.
HealedBody(output, parts) ==
  LET healed(item, part) ==
        (IF part.reasoning = <<>> THEN <<>> ELSE <<Item("reasoning", NoItem, part.reasoning)>>)
          \o <<[item EXCEPT !.body = part.text]>>
      calls(part) == [k \in DOMAIN part.calls |-> Item("function_call", NoItem, <<part.calls[k]>>)]
  IN FlattenSeq([n \in DOMAIN output |->
                   IF n \in DOMAIN parts THEN healed(output[n], parts[n]) ELSE <<output[n]>>])
       \o FlattenSeq([n \in DOMAIN output |-> IF n \in DOMAIN parts THEN calls(parts[n]) ELSE <<>>])

\* Every message is healed; the body is left as it came if no call and no
\* reasoning was found.
HealResponsesBody(output, gates) ==
  LET heal(parts) ==
        IF \E n \in DOMAIN parts : parts[n].calls # <<>> \/ parts[n].reasoning # <<>>
        THEN HealedBody(output, parts) ELSE output
  IN heal([n \in {n \in DOMAIN output : output[n].type = "message"} |-> HealPart(output[n].body, gates)])

-----------------------------------------------------------------------------
(* The upstream *)

MessageId == IF upstream.companion = "before" THEN 1 ELSE 0
Message(text) == Item("message", MessageId, text)
Companion == IF upstream.companion = "before" THEN Item("reasoning", 0, <<>>) ELSE Item("function_call", 1, <<>>)

\* The output of the upstream's own response.
Output ==
  CASE upstream.companion = "none" -> <<Message(said)>>
    [] upstream.companion = "before" -> <<Companion, Message(said)>>
    [] upstream.companion = "after" -> <<Message(said), Companion>>

Init ==
  /\ rest \in Contents
  /\ upstream \in [gates : Gates, announced : BOOLEAN, companion : Companions]
  /\ said = <<>> /\ stage = "begun" /\ source = <<>>
  /\ healer = NewHealer(upstream.gates)
  /\ wire = <<>>

\* The upstream sends an event, and the healer's answer is forwarded.
Relay(e) ==
  /\ source' = Append(source, e)
  /\ \E step \in {PushEvent(healer, e)} : healer' = step.h /\ wire' = wire \o step.out

Quiet == UNCHANGED <<rest, said, upstream>>

\* The item that stands before the message or after it is added and done.
SendCompanionAdded ==
  /\ \/ stage = "begun" /\ upstream.companion = "before"
     \/ stage = "message done" /\ upstream.companion = "after"
  /\ Relay(Added(Companion))
  /\ stage' = IF stage = "begun" THEN "first added" ELSE "last added"
  /\ Quiet

SendCompanionDone ==
  /\ stage \in {"first added", "last added"}
  /\ Relay(Done(Companion))
  /\ stage' = IF stage = "first added" THEN "first done" ELSE "all done"
  /\ Quiet

SendMessageAdded ==
  /\ stage = IF upstream.companion = "before" THEN "first done" ELSE "begun"
  /\ stage' = "text"
  /\ IF upstream.announced
     THEN Relay(Added(Message(<<>>)))
     ELSE UNCHANGED <<source, healer, wire>>
  /\ Quiet

SendTextDelta(n) ==
  LET delta == FlattenSeq(Take(rest, n))
  IN /\ stage = "text"
     /\ Relay(TextDelta(MessageId, delta))
     /\ rest' = Drop(rest, n)
     /\ said' = said \o delta
     /\ UNCHANGED <<upstream, stage>>

SendTextEcho ==
  /\ \/ stage = "text" /\ rest = <<>> /\ stage' = "text done"
        /\ Relay(Event("text_done", MessageId, said))
     \/ stage = "text done" /\ stage' = "part done"
        /\ Relay(Event("part_done", MessageId, said))
  /\ Quiet

\* An upstream may leave the echoes out.
SendMessageDone ==
  /\ stage = "part done" \/ (stage = "text" /\ rest = <<>>)
  /\ Relay(Done(Message(said)))
  /\ stage' = "message done"
  /\ Quiet

SendCompleted ==
  /\ stage = IF upstream.companion = "after" THEN "all done" ELSE "message done"
  /\ Relay(Completed(Output))
  /\ stage' = "completed"
  /\ Quiet

\* response.incomplete or response.failed, at any time.
SendIncomplete ==
  /\ stage \notin {"completed", "incomplete", "over"}
  /\ Relay(Event("incomplete", NoItem, <<>>))
  /\ stage' = "incomplete"
  /\ Quiet

\* The stream ends, at any time.
StreamEnd ==
  /\ stage # "over"
  /\ \E step \in {Finish(healer)} : healer' = step.h /\ wire' = wire \o step.out
  /\ stage' = "over"
  /\ Quiet /\ UNCHANGED source

Next ==
  \/ SendCompanionAdded
  \/ SendCompanionDone
  \/ SendMessageAdded
  \/ \E n \in 1 .. Len(rest) : SendTextDelta(n)
  \/ SendTextEcho
  \/ SendMessageDone
  \/ SendCompleted
  \/ SendIncomplete
  \/ StreamEnd

Spec == Init /\ [][Next]_vars

-----------------------------------------------------------------------------
(* Properties *)

Texts(events, type) ==
  LET deltas == SelectSeq(events, LAMBDA e : e.type = type)
  IN FlattenSeq([n \in DOMAIN deltas |-> deltas[n].body])

At(type) == {n \in DOMAIN wire : wire[n].type = type}
ItemAt(n) == wire[n].body

IsInjected(id) == id >= INJECT_INDEX_BASE

\* Every item is added once and done at most once, its deltas in between; when
\* the response is completed, all have been done and nothing follows
\* (src/src/heal/responses.rs:121-128, 369-380).  The deltas that come after
\* the message is done are the withheld end of a text in which something was
\* healed (TODO #8 at 276-281); a stream that is cut off leaves only the
\* injected reasoning open, of all injected items (TODO #10 at 157-165).
WellFormed ==
  /\ \A m, n \in At("added") : wire[m].id = wire[n].id => m = n
  /\ \A m, n \in At("done") : wire[m].id = wire[n].id => m = n
  /\ \A n \in At("text_delta") \union At("reasoning_delta") \union At("arguments_delta")
         \union At("done") :
       \/ \E m \in At("added") : m < n /\ wire[m].id = wire[n].id
       \/ ~upstream.announced /\ wire[n].id \in {MessageId, NoItem}
  /\ \A n \in At("done"), m \in At("text_delta") \union At("reasoning_delta") \union At("arguments_delta") :
       n < m /\ wire[m].id = wire[n].id => wire[m].type = "text_delta" /\ healer.healingFired
  /\ \A n \in At("completed") :
       /\ n = Len(wire)
       /\ \A m \in At("added") : \E k \in At("done") : wire[k].id = wire[m].id
  /\ stage = "over" => \A m \in At("added") :
       /\ IsInjected(wire[m].id) /\ ItemAt(m).type = "function_call"
       => \E k \in At("done") : wire[k].id = wire[m].id

\* The completed response is the one that was streamed: its message has the
\* text of all text deltas, and its other items are those that were done, in
\* the body as in the number; what the message's own done said is the beginning
\* of that text, and all of it unless something was healed
\* (src/src/heal/responses.rs:267-381).
CompletedMatchesStream ==
  \A n \in At("completed") :
    LET output == wire[n].body
        done == {ItemAt(k) : k \in At("done")}
    IN /\ Len(output) = Cardinality(done)
       /\ \A k \in DOMAIN output :
            IF output[k].type = "message"
            THEN /\ output[k].body = Texts(wire, "text_delta")
                 /\ \E item \in done : /\ item.id = output[k].id
                                       /\ IsPrefix(item.body, output[k].body)
                                       /\ ~healer.healingFired => item.body = output[k].body
            ELSE /\ \E item \in done : item.id = output[k].id /\ item.body = output[k].body
                 /\ IsInjected(output[k].id) /\ output[k].type = "reasoning"
                      => output[k].body = Texts(wire, "reasoning_delta")

\* A text without markup goes through as it came, only that its deltas may be
\* cut elsewhere: other events are not touched, and before each of them the
\* client has had as much text as the upstream had sent
\* (src/src/heal/responses.rs:121-143).  The exception is a stream that ends
\* early: then the withheld end is the last of all.
HealthyUntouched ==
  LET markup == \/ upstream.gates.dsml /\ MarkersIn(said, 0) # {}
                \/ upstream.gates.think /\ FirstTag(said, OpenTags).at # None
      other(events) == SelectSeq(events, LAMBDA e : e.type # "text_delta")
      before(events, e) == SubSeq(events, 1, CHOOSE n \in DOMAIN events : events[n] = e)
  IN ~markup =>
       /\ other(wire) = other(source)
       /\ \A n \in DOMAIN source :
            source[n].type \in {"text_done", "part_done", "done", "completed"} =>
              Texts(before(wire, source[n]), "text_delta") = Texts(SubSeq(source, 1, n), "text_delta")
       /\ stage = "over" => Texts(wire, "text_delta") = said

\* The type and body of items: injected ids are arbitrary.
Plain(output) == [n \in DOMAIN output |-> <<output[n].type, output[n].body>>]

\* A streamed response heals to what the same response heals to as one body
\* (src/src/heal/responses.rs:267-381 against 504-611), but for a body whose
\* only markup are think blocks with nothing in them (TODO #9 at 562-570).
StreamedAsBlocking ==
  \A n \in At("completed") :
    LET output == wire[n].body
        blocking == HealResponsesBody(Output, upstream.gates)
    IN \/ Plain(output) = Plain(blocking)
       \/ /\ blocking = Output /\ upstream.gates.think
          /\ FirstTag(said, OpenTags).at # None
          /\ Len(output) = Len(Output)
          /\ healer.reasoningText = <<>> /\ healer.injectedCalls = <<>>

=============================================================================
