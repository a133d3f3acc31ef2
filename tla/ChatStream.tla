----------------------------- MODULE ChatStream -----------------------------
(***************************************************************************)
(* One streaming turn on the chat path (src/proxy/chat.rs): the detached   *)
(* task that reads Chat Completions chunks, converts them to Responses     *)
(* events (StreamConverter, src/convert/response.rs) and sends these       *)
(* through a bounded channel to a client that may hang up at any time,     *)
(* while the upstream may finish, drop the [DONE] sentinel, break off or   *)
(* stall.  At the end the task records the outcome, and stores the turn or *)
(* reports the failure.                                                    *)
(*                                                                         *)
(* Text is a sequence of pieces; a piece is the number of the chunk that   *)
(* carried it and the kind of text it is to the two healing filters.       *)
(***************************************************************************)
EXTENDS Naturals, Sequences, FiniteSets, SequencesExt

CONSTANTS
    Chunks,    \* what a chunk of the upstream may carry
    MaxChunks, \* bound on the chunks of a turn
    Buffer,    \* capacity of the channel to the client
    Idle,      \* ticks of the clock that make the idle timeout
    Options,   \* the quirks and the `store` flag a request may run with
    NoCall     \* a chunk without a tool call

\* Content as the filters see it: plain words, a think tag, the beginning of
\* a DSML marker, or a tool call leaked as DSML markup.
Content == {"none", "words", "open", "close", "half", "markup"}
Call == [index : Nat, named : BOOLEAN]
Chunk == [reasoning : BOOLEAN, content : Content, call : Call \cup {NoCall},
          finish : BOOLEAN, usage : BOOLEAN]
Option == [missingDone : BOOLEAN, dsml : BOOLEAN, think : BOOLEAN, store : BOOLEAN]

ASSUME StreamAssumption ==
    /\ Chunks \subseteq Chunk /\ NoCall \notin Call
    /\ Options \subseteq Option
    /\ MaxChunks \in Nat /\ Buffer \in Nat \ {0} /\ Idle \in Nat \ {0}

VARIABLES
    opts,     \* the options of this request
    upstream, \* "live", "stalled", "done" ([DONE] sent), "closed"
    fed,      \* the chunks received
    waited,   \* ticks since the task began to wait for the next event
    conv,     \* StreamConverter
    pc,       \* where the task stands
    todo,     \* the events of the current batch still to be sent
    sent,     \* history: the events put into the channel
    read,     \* how many of them the client has taken
    client,   \* "reading" or "gone"
    flags,    \* saw_done, saw_completed, client_disconnected, timed_out
    outcome,  \* the class recorded in the metrics
    stored    \* the item lists stored: none, or what the turn adds to its session

vars == <<opts, upstream, fed, waited, conv, pc, todo, sent, read, client, flags,
          outcome, stored>>

-----------------------------------------------------------------------------
\* Events.

Event(type) ==
    [type |-> type, idx |-> 0, kind |-> "none", data |-> <<>>, output |-> <<>>, usage |-> 0]
ItemEvent(type, i, kind, data) ==
    [Event(type) EXCEPT !.idx = i, !.kind = kind, !.data = data]

\* start: the opener, sent before the first chunk arrives.
Created == Event("created")

\* on_error.
ErrorEvents == <<Event("error"), Event("failed")>>

-----------------------------------------------------------------------------
\* StreamConverter.

\* slots: the kinds of the items opened, by output index; said: their text;
\* calls: tool_calls; withheld, inDsml, inThink: the filters' state.
NewConverter ==
    [slots |-> <<>>, said |-> [k \in {"reasoning", "message"} |-> <<>>], calls |-> <<>>,
     withheld |-> <<>>, inDsml |-> FALSE, inThink |-> FALSE,
     finish |-> FALSE, usage |-> 0, items |-> <<>>]

\* The output index of an open item.
Slot(c, kind) == CHOOSE i \in DOMAIN c.slots : c.slots[i] = kind

\* text_delta_events and reasoning_delta_events: what a delta does to the
\* converter, and the events it makes.
Speak(c, kind, text) ==
    IF text = <<>> THEN c
    ELSE [c EXCEPT !.said[kind] = @ \o text,
                   !.slots = IF kind \in ToSet(@) THEN @ ELSE Append(@, kind)]

SpeakEvents(c, kind, text) ==
    IF text = <<>> THEN <<>>
    ELSE LET after == Speak(c, kind, text)
             i == Slot(after, kind)
             opener == IF after.slots = c.slots THEN <<>>
                       ELSE <<ItemEvent("added", i, kind, <<>>)>>
         IN  Append(opener, ItemEvent("delta", i, kind, text))

\* DsmlStreamFilter::push: text that may be the start of a marker is withheld
\* until more arrives; after a marker everything is, to the end of the stream.
DsmlPush(c, p) ==
    IF ~opts.dsml
      THEN [conv |-> c, out |-> <<p>>]
    ELSE IF c.inDsml
      THEN [conv |-> [c EXCEPT !.withheld = Append(@, p)], out |-> <<>>]
    ELSE IF p.kind \in {"half", "markup"}
      THEN [conv |-> [c EXCEPT !.withheld = <<p>>, !.inDsml = (p.kind = "markup")],
            out |-> c.withheld]
    ELSE [conv |-> [c EXCEPT !.withheld = <<>>], out |-> Append(c.withheld, p)]

\* ThinkStreamFilter::push: text between the tags is reasoning; a tag out of
\* place is text.
ThinkStep(s, p) ==
    IF opts.think /\ p.kind = (IF s.inside THEN "close" ELSE "open")
      THEN [s EXCEPT !.inside = ~@]
    ELSE IF s.inside
      THEN [s EXCEPT !.reasoning = Append(@, p)]
    ELSE [s EXCEPT !.text = Append(@, p)]

ThinkPush(c, text) ==
    LET run[i \in 0..Len(text)] ==
          IF i = 0 THEN [inside |-> c.inThink, reasoning |-> <<>>, text |-> <<>>]
          ELSE ThinkStep(run[i - 1], text[i])
    IN  run[Len(text)]

\* The tool-call accumulator: fragments of an index join; one may name it.
AddCall(calls, call, p) ==
    LET old == IF call.index \in DOMAIN calls THEN calls[call.index]
               ELSE [named |-> FALSE, args |-> <<>>]
        new == [named |-> old.named \/ call.named, args |-> Append(old.args, p)]
    IN  [i \in DOMAIN calls \cup {call.index} |-> IF i = call.index THEN new ELSE calls[i]]

\* on_chunk: the n-th chunk, k.  Content passes the DSML filter, then the
\* think filter; native reasoning comes before the healed one.
OnChunk(c, k, n) ==
    LET p == [n |-> n, kind |-> k.content]
        native == IF k.reasoning THEN <<[n |-> n, kind |-> "native"]>> ELSE <<>>
        dsml == IF k.content = "none" THEN [conv |-> c, out |-> <<>>] ELSE DsmlPush(c, p)
        think == ThinkPush(dsml.conv, dsml.out)
        c1 == [dsml.conv EXCEPT !.inThink = think.inside]
        c2 == Speak(c1, "reasoning", native \o think.reasoning)
        c3 == Speak(c2, "message", think.text)
    IN  [conv |-> [c3 EXCEPT
                     !.calls = IF k.call = NoCall THEN @
                               ELSE AddCall(@, k.call, [n |-> n, kind |-> "args"]),
                     !.finish = @ \/ k.finish,
                     !.usage = IF k.usage THEN n ELSE @],
         events |-> SpeakEvents(c1, "reasoning", native \o think.reasoning)
                      \o SpeakEvents(c2, "message", think.text)]

\* The lowest index above those of all calls.
Above(calls) ==
    IF DOMAIN calls = {} THEN 0
    ELSE CHOOSE b \in {i + 1 : i \in DOMAIN calls} : \A i \in DOMAIN calls : i < b

\* The pieces of a text that are, or are not, a leaked call.
Leaked(text, wanted) ==
    FlattenSeq([i \in DOMAIN text |->
                  IF (text[i].kind = "markup") = wanted THEN <<text[i]>> ELSE <<>>])

\* Bug: the filters are not flushed at the end of the stream.
FlushHealNothing(c) == [conv |-> c, events |-> <<>>]

\* flush_heal: what the filters withheld becomes text, reasoning, or calls of
\* their own behind the native ones.
FlushHeal(c) ==
    LET markup == IF c.inDsml THEN Leaked(c.withheld, TRUE) ELSE <<>>
        rest == IF c.inDsml THEN Leaked(c.withheld, FALSE) ELSE c.withheld
        think == ThinkPush(c, rest)
        c1 == [c EXCEPT !.withheld = <<>>, !.inDsml = FALSE, !.inThink = think.inside]
        c2 == Speak(c1, "reasoning", think.reasoning)
        c3 == Speak(c2, "message", think.text)
        base == Above(c.calls)
        healed == [i \in base..(base + Len(markup) - 1) |->
                     [named |-> TRUE, args |-> <<markup[i - base + 1]>>]]
        calls == [i \in DOMAIN c.calls \cup DOMAIN healed |->
                    IF i \in DOMAIN c.calls THEN c.calls[i] ELSE healed[i]]
    IN  [conv |-> [c3 EXCEPT !.calls = calls],
         events |-> SpeakEvents(c1, "reasoning", think.reasoning)
                      \o SpeakEvents(c2, "message", think.text)]

\* The calls emit_finish emits, in index order: those with a name.
LiveCalls(c) ==
    LET named == {i \in DOMAIN c.calls : c.calls[i].named}
    IN  FlattenSeq([j \in 1..Above(c.calls) |-> IF j - 1 \in named THEN <<j - 1>> ELSE <<>>])

\* Bug: the session keeps the items in the order the client saw them.
CanonicalOrderAsShown(c) == c.slots

\* The order in which the session keeps message and reasoning: the replayed
\* history attaches a reasoning item to the message after it.
CanonicalOrder(c) ==
    LET only(kind) == IF kind \in ToSet(c.slots) THEN <<kind>> ELSE <<>>
    IN  only("reasoning") \o only("message")

\* Bug: only the message gets a done event.
DoneEventsForMessage(texts) ==
    SelectSeq([i \in DOMAIN texts |-> ItemEvent("done", i, texts[i].kind, texts[i].data)],
              LAMBDA e : e.kind = "message")

\* The done events of message and reasoning, by output index.
DoneEvents(texts) ==
    [i \in DOMAIN texts |-> ItemEvent("done", i, texts[i].kind, texts[i].data)]

\* Message and reasoning as the client has them, and the calls, each by output
\* index.
TextItems(c) == [i \in DOMAIN c.slots |-> [kind |-> c.slots[i], data |-> c.said[c.slots[i]]]]
CallItems(c) ==
    LET live == LiveCalls(c)
    IN  [j \in DOMAIN live |-> [kind |-> "call", data |-> c.calls[live[j]].args]]

\* A call is opened, told in one delta and closed.
CallEvents(base, calls) ==
    FlattenSeq([j \in DOMAIN calls |->
                  << ItemEvent("added", base + j, "call", <<>>),
                     ItemEvent("delta", base + j, "call", calls[j].data),
                     ItemEvent("done", base + j, "call", calls[j].data) >>])

\* emit_finish: done events by output index, each call whole, then completed.
EmitFinish(c) ==
    LET texts == TextItems(c)
        calls == CallItems(c)
        order == CanonicalOrder(c)
        canonical == [i \in DOMAIN order |-> [kind |-> order[i], data |-> c.said[order[i]]]]
    IN  [conv |-> [c EXCEPT !.items = canonical \o calls],
         events |-> DoneEvents(texts) \o CallEvents(Len(texts), calls)
                      \o <<[Event("completed") EXCEPT !.output = texts \o calls,
                                                      !.usage = c.usage]>>]

-----------------------------------------------------------------------------
\* The task.

Init ==
    /\ opts \in Options
    /\ upstream = "live"
    /\ fed = <<>>
    /\ waited = 0
    /\ conv = NewConverter
    /\ pc = "opening" /\ todo = <<Created>>
    /\ sent = <<>> /\ read = 0
    /\ client = "reading"
    /\ flags = {}
    /\ outcome = "none"
    /\ stored = <<>>

\* Where a batch leads once it is sent, and once the client proves gone.  A
\* client lost at the opener is noticed again by the chunk loop.
AfterBatch(stage) ==
    CASE stage \in {"opening", "relaying"} -> "reading"
      [] stage = "closing" -> "recording"
      [] stage = "failing" -> "over"

AfterLoss(stage) ==
    CASE stage = "opening" -> "reading"
      [] stage = "relaying" -> "ended"
      [] stage = "closing" -> "recording"
      [] stage = "failing" -> "over"

Sending == pc \in {"opening", "relaying", "closing", "failing"}

\* saw_completed is set before the send that may fail.
Noticed(e) == IF e.type = "completed" THEN {"completed"} ELSE {}

\* Room in the channel.
HasRoom == Len(sent) - read < Buffer

\* tx.send(..).await with room in the channel.
SendEvent ==
    /\ Sending
    /\ client = "reading"
    /\ HasRoom
    /\ sent' = Append(sent, Head(todo))
    /\ todo' = Tail(todo)
    /\ flags' = flags \cup Noticed(Head(todo))
    /\ pc' = IF todo' = <<>> THEN AfterBatch(pc) ELSE pc
    /\ UNCHANGED <<opts, upstream, fed, waited, conv, read, client, outcome, stored>>

\* The receiver is gone: the rest of the batch is dropped.
SendFails ==
    /\ Sending
    /\ client = "gone"
    /\ todo' = <<>>
    /\ flags' = flags \cup Noticed(Head(todo))
                  \cup (IF pc = "failing" THEN {} ELSE {"disconnected"})
    /\ pc' = AfterLoss(pc)
    /\ UNCHANGED <<opts, upstream, fed, waited, conv, sent, read, client, outcome, stored>>

\* A chunk arrives; its events, if any, are sent next.
ReadChunk(k) ==
    /\ pc = "reading" /\ upstream = "live"
    /\ Len(fed) < MaxChunks
    /\ fed' = Append(fed, k)
    /\ LET r == OnChunk(conv, k, Len(fed) + 1)
       IN  /\ conv' = r.conv
           /\ todo' = r.events
           /\ pc' = IF r.events = <<>> THEN "reading" ELSE "relaying"
    /\ waited' = 0
    /\ UNCHANGED <<opts, upstream, sent, read, client, flags, outcome, stored>>

\* The [DONE] sentinel.
ReadDone ==
    /\ pc = "reading" /\ upstream = "live"
    /\ upstream' = "done"
    /\ flags' = flags \cup {"done"}
    /\ pc' = "ended"
    /\ UNCHANGED <<opts, fed, waited, conv, todo, sent, read, client, outcome, stored>>

\* The upstream body ends or breaks off without it.
ReadEnd ==
    /\ pc = "reading" /\ upstream = "live"
    /\ upstream' = "closed"
    /\ pc' = "ended"
    /\ UNCHANGED <<opts, fed, waited, conv, todo, sent, read, client, flags, outcome,
                   stored>>

\* Time passes while the task waits for the next event.  The comments and parts
\* of events that the upstream sends meanwhile are consumed below the timer: they
\* change nothing here.
Tick ==
    /\ pc = "reading" /\ waited < Idle
    /\ waited' = waited + 1
    /\ UNCHANGED <<opts, upstream, fed, conv, pc, todo, sent, read, client, flags, outcome,
                   stored>>

\* Bug: nothing bounds the wait for the next event.
IdleTimeoutNever == FALSE /\ UNCHANGED vars

\* tokio::time::timeout(idle_timeout, sse_stream.next()) elapses.
IdleTimeout ==
    /\ pc = "reading" /\ waited = Idle
    /\ flags' = flags \cup {"timeout"}
    /\ pc' = "ended"
    /\ UNCHANGED <<opts, upstream, fed, waited, conv, todo, sent, read, client, outcome,
                   stored>>

\* Bug: the missing_done quirk rescues a stream the proxy itself cut short.
FinishAllowedAfterTimeout == "done" \in flags \/ opts.missingDone

\* finish_allowed.
FinishAllowed == "done" \in flags \/ ("timeout" \notin flags /\ opts.missingDone)

\* The deferred finish sequence, if a finish_reason was seen and the end of
\* the stream allows it.
Finish ==
    /\ pc = "ended"
    /\ IF FinishAllowed /\ conv.finish
         THEN \E flushed \in {FlushHeal(conv)} : \E final \in {EmitFinish(flushed.conv)} :
                /\ conv' = final.conv
                /\ todo' = flushed.events \o final.events
                /\ pc' = "closing"
         ELSE pc' = "recording" /\ UNCHANGED <<conv, todo>>
    /\ UNCHANGED <<opts, upstream, fed, waited, sent, read, client, flags, outcome, stored>>

\* Bug: a completed stream is not told from a truncated one.
ErrorClassByTimeout ==
    IF "disconnected" \in flags THEN "none"
    ELSE IF "timeout" \in flags THEN "timeout" ELSE "empty"

\* stream_metrics_error_class.
ErrorClass ==
    IF "disconnected" \in flags THEN "none"
    ELSE IF "completed" \in flags THEN "empty"
    ELSE IF "timeout" \in flags THEN "timeout" ELSE "truncated"

\* Metrics at stream end, and the choice between failure and success.
Record ==
    /\ pc = "recording"
    /\ outcome' = ErrorClass
    /\ IF "completed" \notin flags
         THEN pc' = "failing" /\ todo' = ErrorEvents
         ELSE pc' = (IF opts.store THEN "saving" ELSE "over") /\ todo' = todo
    /\ UNCHANGED <<opts, upstream, fed, waited, conv, sent, read, client, flags, stored>>

\* save_session; what comes before the turn's own items is in SessionStore.
SaveSession ==
    /\ pc = "saving"
    /\ stored' = Append(stored, conv.items)
    /\ pc' = "over"
    /\ UNCHANGED <<opts, upstream, fed, waited, conv, todo, sent, read, client, flags,
                   outcome>>

\* The upstream falls silent without closing.
Stall ==
    /\ upstream = "live"
    /\ upstream' = "stalled"
    /\ UNCHANGED <<opts, fed, waited, conv, pc, todo, sent, read, client, flags, outcome,
                   stored>>

\* The client takes an event, or hangs up; what it has not taken is lost.
Receive ==
    /\ client = "reading" /\ read < Len(sent)
    /\ read' = read + 1
    /\ UNCHANGED <<opts, upstream, fed, waited, conv, pc, todo, sent, client, flags,
                   outcome, stored>>

Disconnect ==
    /\ client = "reading"
    /\ client' = "gone"
    /\ UNCHANGED <<opts, upstream, fed, waited, conv, pc, todo, sent, read, flags,
                   outcome, stored>>

\* What the task does of its own accord, and what the upstream makes it do.
Task == SendEvent \/ SendFails \/ IdleTimeout \/ Finish \/ Record \/ SaveSession

Upstream == ReadDone \/ ReadEnd \/ Stall \/ \E k \in Chunks : ReadChunk(k)

Next == Task \/ Upstream \/ Tick \/ Receive \/ Disconnect

\* In FairSpec the task is polled whenever it can run, time passes, and a connected client
\* goes on reading.  The upstream need not send anything, ever.
Spec == Init /\ [][Next]_vars
FairSpec == Spec /\ WF_vars(Task) /\ WF_vars(Tick) /\ WF_vars(Receive)

-----------------------------------------------------------------------------
\* Properties.

Piece == [n : 1..MaxChunks, kind : Content \cup {"native", "args"}]
Text == Seq(Piece)

TypeOK ==
    /\ opts \in Options
    /\ upstream \in {"live", "stalled", "done", "closed"}
    /\ fed \in Seq(Chunks) /\ Len(fed) <= MaxChunks
    /\ waited \in 0..Idle
    /\ \A kind \in {"reasoning", "message"} : conv.said[kind] \in Text
    /\ conv.withheld \in Text
    /\ pc \in {"opening", "relaying", "reading", "ended", "closing", "recording", "failing",
               "saving", "over"}
    /\ Sending <=> todo # <<>>
    /\ read \in 0..Len(sent) /\ Len(sent) - read <= Buffer
    /\ client \in {"reading", "gone"}
    /\ flags \subseteq {"done", "completed", "disconnected", "timeout"}
    /\ outcome \in {"none", "empty", "timeout", "truncated"}

Emitted(type) == {e \in ToSet(sent) : e.type = type}

\* The numbers of the pieces of these kinds in the items of a kind.
Numbers(e, itemKind, pieceKinds) ==
    UNION {{p.n : p \in {q \in ToSet(item.data) : q.kind \in pieceKinds}} :
             item \in {x \in ToSet(e.output) : x.kind = itemKind}}

\* In order, and each once.
InOrder(data, pieceKinds) ==
    \A a, b \in DOMAIN data :
      data[a].kind \in pieceKinds /\ data[b].kind \in pieceKinds /\ a < b =>
        data[a].n < data[b].n

Spoken(kinds) == {n \in DOMAIN fed : fed[n].content \in kinds}
NamedIndex == {fed[n].call.index : n \in {m \in DOMAIN fed : fed[m].call # NoCall /\ fed[m].call.named}}
NamedCalls == {n \in DOMAIN fed : fed[n].call # NoCall /\ fed[n].call.index \in NamedIndex}

\* A completed answer holds every piece of text, reasoning and call the
\* upstream sent, once and in order, whatever the filters withheld on the way,
\* and no fragment of a call that never got a name; and it reports the last
\* usage the upstream sent, though that arrives behind the finish_reason.
NothingLost ==
    \A e \in Emitted("completed") :
      LET words == Numbers(e, "message", Content)
          thoughts == Numbers(e, "reasoning", Content)
          healed == Numbers(e, "call", Content)
      IN  /\ Spoken({"words", "half", "markup"}) \subseteq words \cup thoughts \cup healed
          /\ words \cap thoughts = {} /\ healed \cap (words \cup thoughts) = {}
          /\ Numbers(e, "reasoning", {"native"}) = {n \in DOMAIN fed : fed[n].reasoning}
          /\ Numbers(e, "call", {"args"}) = NamedCalls
          /\ \A item \in ToSet(e.output) :
               InOrder(item.data, Content) /\ InOrder(item.data, {"native", "args"})
          /\ {n \in DOMAIN fed : fed[n].usage} \subseteq 0..e.usage
          /\ e.usage > 0 => fed[e.usage].usage

\* A turn is reported complete, or stored, only when the upstream brought it to
\* its end: it gave a finish_reason and sent [DONE], or closed the stream with
\* the missing_done quirk on.  A stall or a client that left never completes it.
CompletedByUpstream ==
    Emitted("completed") # {} \/ stored # <<>> =>
      /\ \E n \in DOMAIN fed : fed[n].finish
      /\ upstream = "done" \/ (upstream = "closed" /\ opts.missingDone)

\* The state is well formed and the channel within its capacity; and to a client
\* that stayed, the outcome in the metrics is the terminal event of its stream.
MetricsMatchStream ==
  /\ TypeOK
  /\ pc = "over" /\ client = "reading" =>
      /\ outcome = "empty" <=> Emitted("completed") # {}
      /\ outcome \in {"timeout", "truncated"} <=> Emitted("failed") # {}
      /\ outcome # "none"

\* The stream keeps the contract of the Responses API.
Stream == INSTANCE ResponsesStream WITH log <- sent
ImplementsResponsesStream == Stream!Spec

\* A stored turn is what its client was shown, item by item, with reasoning
\* before the message it led to.
StoredIsWhatWasStreamed ==
    LET shown == Stream!Held(sent).items
    IN  \A items \in ToSet(stored) :
          /\ Len(items) = Len(shown)
          /\ \A i \in DOMAIN items : \E j \in DOMAIN shown :
               shown[j].kind = items[i].kind /\ shown[j].data = items[i].data
          /\ \A i, j \in DOMAIN items :
               items[i].kind = "reasoning" /\ items[j].kind = "message" => i < j

\* The task ends (and with it the in-flight gauge is released), whatever the
\* upstream does; a client that stays reads to a terminal event.
StreamEnds ==
    <>(/\ pc = "over"
       /\ \/ client = "gone"
          \/ read = Len(sent) /\ sent[read].type \in {"completed", "failed"})
=============================================================================
