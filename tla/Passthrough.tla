---------------------------- MODULE Passthrough ----------------------------
(***************************************************************************)
(* One streaming turn on the passthrough path (src/proxy/passthrough.rs):  *)
(* the detached task that relays the body of a native Responses upstream   *)
(* through a bounded channel to a client that may hang up, keeps what it   *)
(* has relayed, and at the end reads the last response.completed back out  *)
(* of it to judge the turn, count it and store it.  With the healing       *)
(* quirks off it relays chunks as they come; with one on, whole events,    *)
(* and text that may begin a leaked marker is withheld for a while         *)
(* (ResponsesStreamHealer, src/heal/responses.rs, for streams without such *)
(* markers; for these FragmentedItemMerger is ItemMerger's business).      *)
(*                                                                         *)
(* A piece of text is the number of the chunk that carried it.             *)
(***************************************************************************)
EXTENDS Naturals, Sequences, FiniteSets, SequencesExt

CONSTANTS
    MaxChunks, \* bound on the chunks of a turn
    Buffer,    \* capacity of the channel to the client
    Idle,      \* ticks of the clock that make the idle timeout
    Options,   \* whether the relay heals, and the `store` flag
    NoTurn     \* nothing has been stored

Option == [healed : BOOLEAN, store : BOOLEAN]

ASSUME PassthroughAssumption ==
    /\ Options \subseteq Option
    /\ MaxChunks \in Nat /\ Buffer \in Nat \ {0} /\ Idle \in Nat \ {0}

\* What a chunk carries: text, text that ends like the start of a marker, the
\* end of an item, a comment, a terminal event other than response.completed,
\* or that event, with or without an id, whole or in two chunks.
Kinds == {"text", "half", "done", "keepalive", "incomplete", "completed", "noid",
          "first", "rest"}

VARIABLES
    opts,     \* the options of this request
    upstream, \* "live", "stalled", "closed"
    fed,      \* the kinds of the chunks received
    partial,  \* the splitter's buffer holds the first half of an event
    withheld, \* the text the healer's filters hold back
    waited,   \* ticks since the task began to wait
    pc,       \* where the task stands
    todo,     \* what is still to be sent
    sent,     \* history: what was put into the channel
    raw,      \* raw: what is kept of it for capture
    read,     \* how much of it the client has taken
    client,   \* "reading" or "gone"
    flags,    \* client_disconnected, timed_out
    outcome,  \* the class recorded in the metrics
    stored    \* the response.completed the session was saved from

vars == <<opts, upstream, fed, partial, withheld, waited, pc, todo, sent, raw, read, client,
          flags, outcome, stored>>

-----------------------------------------------------------------------------
\* Blocks of the stream.

Block(type, data) == [type |-> type, data |-> data]

\* Chunk n, verbatim.
Verbatim(kind, n) ==
    IF kind \in {"text", "half"} THEN Block("delta", <<n>>) ELSE Block(kind, <<n>>)

\* The idle timeout's response.failed.
Failed == Block("failed", <<>>)

\* A delta the healer writes.
Delta(text) == IF text = <<>> THEN <<>> ELSE <<Block("delta", text)>>

-----------------------------------------------------------------------------
\* ResponsesStreamHealer on a stream in which nothing fires.

\* push_event: heal_text_delta, and release_untracked_tail before an event
\* that ends a text; anything else goes by.
Heal(kind, n) ==
    CASE kind = "text" -> [out |-> Delta(Append(withheld, n)), withheld |-> <<>>]
      [] kind = "half" -> [out |-> Delta(withheld), withheld |-> <<n>>]
      [] kind \in {"done", "completed", "noid", "first"} ->
            [out |-> Append(Delta(withheld), Verbatim(kind, n)), withheld |-> <<>>]
      [] OTHER -> [out |-> <<Verbatim(kind, n)>>, withheld |-> withheld]

-----------------------------------------------------------------------------
\* Capture.

\* The blocks that hold the marker "event: response.completed".
Marked(block) == block.type \in {"completed", "noid", "first"}

\* trim_completed_prefix: all before the first marker is dropped.
Trim(blocks) ==
    LET at == {n \in DOMAIN blocks : Marked(blocks[n])}
    IN  IF at = {} THEN blocks
        ELSE SubSeq(blocks, CHOOSE n \in at : \A m \in at : n <= m, Len(blocks))

\* last_completed_payload, completed_capture: the response.completed behind
\* the last marker, if it is all there and has an id.
Captured(blocks) ==
    LET at == {n \in DOMAIN blocks : Marked(blocks[n])}
        last == CHOOSE n \in at : \A m \in at : m <= n
    IN  IF at = {} THEN NoTurn
        ELSE IF blocks[last].type = "completed" THEN blocks[last].data
        ELSE IF /\ blocks[last].type = "first" /\ last < Len(blocks)
                /\ blocks[last + 1].type = "rest"
               THEN blocks[last].data
        ELSE NoTurn

SawCompleted == Captured(raw) # NoTurn

-----------------------------------------------------------------------------
\* The task.

Init ==
    /\ opts \in Options
    /\ upstream = "live" /\ fed = <<>> /\ partial = FALSE /\ withheld = <<>>
    /\ waited = 0 /\ pc = "reading" /\ todo = <<>>
    /\ sent = <<>> /\ raw = <<>> /\ read = 0 /\ client = "reading"
    /\ flags = {} /\ outcome = "none" /\ stored = NoTurn

Sending == pc \in {"relaying", "flushing", "failing"}

\* Where the task goes on when a batch is out, and when the client is gone.
AfterBatch(stage) ==
    CASE stage = "relaying" -> "reading" [] stage = "flushing" -> "recording"
      [] stage = "failing" -> "saving"
AfterLoss(stage) == IF stage = "relaying" THEN "ended" ELSE AfterBatch(stage)

\* Bug: a block is kept though the client never got it.
KeptAnyway(e) == Trim(Append(raw, e))

\* What is kept once a block was sent: all but the failure of the task's own.
Kept(e) == IF pc = "failing" THEN raw ELSE Trim(Append(raw, e))

\* What is kept of a block that could not be sent: nothing.
KeptOfLost(e) == raw

HasRoom == Len(sent) - read < Buffer

\* tx.send(..).await with room in the channel.
SendBlock ==
    /\ Sending /\ client = "reading" /\ HasRoom
    /\ sent' = Append(sent, Head(todo))
    /\ raw' = Kept(Head(todo))
    /\ todo' = Tail(todo)
    /\ pc' = IF todo' = <<>> THEN AfterBatch(pc) ELSE pc
    /\ UNCHANGED <<opts, upstream, fed, partial, withheld, waited, read, client, flags,
                   outcome, stored>>

\* The receiver is gone: the rest of the batch is dropped.
SendFails ==
    /\ Sending /\ client = "gone"
    /\ raw' = KeptOfLost(Head(todo))
    /\ todo' = <<>>
    /\ flags' = flags \cup (IF pc = "failing" THEN {} ELSE {"disconnected"})
    /\ pc' = AfterLoss(pc)
    /\ UNCHANGED <<opts, upstream, fed, partial, withheld, waited, sent, read, client, outcome,
                   stored>>

\* The batch of an event through the healer.
Relay(heal) ==
    /\ withheld' = heal.withheld
    /\ todo' = heal.out
    /\ pc' = IF heal.out = <<>> THEN "reading" ELSE "relaying"

Waiting == pc = "reading" /\ upstream = "live"

\* A conforming upstream: an event's second half follows its first, and after
\* a terminal event come no more than comments and further terminals.
MayFollow(kind) ==
    /\ (kind = "rest") <=> (fed # <<>> /\ Last(fed) = "first")
    /\ kind \in {"text", "half", "done"} =>
          ToSet(fed) \cap {"completed", "noid", "rest", "incomplete"} = {}

\* A chunk arrives.  The fast path sends it on; the splitter waits for the end
\* of the event, and the wait for it goes on.
ReadChunk(kind) ==
    /\ Waiting /\ Len(fed) < MaxChunks /\ MayFollow(kind)
    /\ fed' = Append(fed, kind)
    /\ LET n == Len(fed) + 1
       IN  IF ~opts.healed
             THEN /\ todo' = <<Verbatim(kind, n)>> /\ pc' = "relaying" /\ waited' = 0
                  /\ UNCHANGED <<partial, withheld>>
           ELSE IF kind = "first"
             THEN partial' = TRUE /\ UNCHANGED <<todo, pc, withheld, waited>>
           ELSE IF kind = "rest"
             THEN partial' = FALSE /\ waited' = 0 /\ Relay(Heal("completed", n - 1))
           ELSE waited' = 0 /\ Relay(Heal(kind, n)) /\ UNCHANGED partial
    /\ UNCHANGED <<opts, upstream, sent, raw, read, client, flags, outcome, stored>>

\* The body ends: the splitter gives up what it holds as a last event.
ReadEnd ==
    /\ Waiting
    /\ upstream' = "closed"
    /\ partial' = FALSE
    /\ IF partial
         THEN waited' = 0 /\ Relay(Heal("first", Len(fed)))
         ELSE pc' = "ended" /\ UNCHANGED <<waited, todo, withheld>>
    /\ UNCHANGED <<opts, fed, sent, raw, read, client, flags, outcome, stored>>

\* After that last event the stream is over.
ReadNothing ==
    /\ pc = "reading" /\ upstream = "closed"
    /\ pc' = "ended"
    /\ UNCHANGED <<opts, upstream, fed, partial, withheld, waited, todo, sent, raw, read,
                   client, flags, outcome, stored>>

\* The body breaks off: what the splitter holds is lost.
ReadBreak ==
    /\ Waiting
    /\ upstream' = "closed" /\ partial' = FALSE /\ pc' = "ended"
    /\ UNCHANGED <<opts, fed, withheld, waited, todo, sent, raw, read, client, flags, outcome,
                   stored>>

Tick ==
    /\ pc = "reading" /\ waited < Idle
    /\ waited' = waited + 1
    /\ UNCHANGED <<opts, upstream, fed, partial, withheld, pc, todo, sent, raw, read, client,
                   flags, outcome, stored>>

\* Bug: nothing bounds the wait.
IdleTimeoutNever == FALSE /\ UNCHANGED vars

\* tokio::time::timeout(idle_timeout, ..) elapses.
IdleTimeout ==
    /\ pc = "reading" /\ waited = Idle
    /\ flags' = flags \cup {"timeout"}
    /\ pc' = "ended"
    /\ UNCHANGED <<opts, upstream, fed, partial, withheld, waited, todo, sent, raw, read,
                   client, outcome, stored>>

\* ResponsesStreamHealer::finish: what is still withheld goes out.
Finish ==
    /\ pc = "ended"
    /\ todo' = Delta(withheld) /\ withheld' = <<>>
    /\ pc' = IF todo' = <<>> THEN "recording" ELSE "flushing"
    /\ UNCHANGED <<opts, upstream, fed, partial, waited, sent, raw, read, client, flags,
                   outcome, stored>>

\* stream_metrics_error_class.
ErrorClass ==
    IF "disconnected" \in flags THEN "none"
    ELSE IF SawCompleted THEN "empty"
    ELSE IF "timeout" \in flags THEN "timeout" ELSE "truncated"

\* Bug: a stall fails the turn though its answer was complete.
GivenUpAlways == "timeout" \in flags

\* Whether the task ends the stream with a failure of its own.
GivenUp == "timeout" \in flags /\ ~SawCompleted

\* Metrics at stream end, and the failure after an idle timeout.
Record ==
    /\ pc = "recording"
    /\ outcome' = ErrorClass
    /\ IF GivenUp THEN pc' = "failing" /\ todo' = <<Failed>>
       ELSE pc' = "saving" /\ UNCHANGED todo
    /\ UNCHANGED <<opts, upstream, fed, partial, withheld, waited, sent, raw, read, client,
                   flags, stored>>

\* save_session under the upstream's id; what the context holds is in
\* SessionStore.
SaveSession ==
    /\ pc = "saving"
    /\ stored' = IF opts.store THEN Captured(raw) ELSE NoTurn
    /\ pc' = "over"
    /\ UNCHANGED <<opts, upstream, fed, partial, withheld, waited, todo, sent, raw, read,
                   client, flags, outcome>>

-----------------------------------------------------------------------------
\* The upstream falls silent; the client reads, or hangs up.

Stall ==
    /\ upstream = "live"
    /\ upstream' = "stalled"
    /\ UNCHANGED <<opts, fed, partial, withheld, waited, pc, todo, sent, raw, read, client,
                   flags, outcome, stored>>

Receive ==
    /\ client = "reading" /\ read < Len(sent)
    /\ read' = read + 1
    /\ UNCHANGED <<opts, upstream, fed, partial, withheld, waited, pc, todo, sent, raw, client,
                   flags, outcome, stored>>

Disconnect ==
    /\ client = "reading"
    /\ client' = "gone"
    /\ UNCHANGED <<opts, upstream, fed, partial, withheld, waited, pc, todo, sent, raw, read,
                   flags, outcome, stored>>

Task == SendBlock \/ SendFails \/ ReadNothing \/ IdleTimeout \/ Finish \/ Record \/ SaveSession

Upstream == ReadEnd \/ ReadBreak \/ Stall \/ \E kind \in Kinds : ReadChunk(kind)

Next == Task \/ Upstream \/ Tick \/ Receive \/ Disconnect

\* The task is polled whenever it can run, time passes, and a connected client
\* goes on reading.  The upstream need not send anything, ever.
FairSpec == Init /\ [][Next]_vars /\ WF_vars(Task) /\ WF_vars(Tick) /\ WF_vars(Receive)

-----------------------------------------------------------------------------
\* Properties.

TypeOK ==
    /\ opts \in Options
    /\ upstream \in {"live", "stalled", "closed"}
    /\ fed \in Seq(Kinds) /\ Len(fed) <= MaxChunks
    /\ partial => opts.healed /\ Last(fed) = "first"
    /\ withheld \in Seq(1..Len(fed)) /\ (withheld # <<>> => opts.healed)
    /\ waited \in 0..Idle
    /\ pc \in {"reading", "relaying", "ended", "flushing", "recording", "failing", "saving",
               "over"}
    /\ Sending <=> todo # <<>>
    /\ read \in 0..Len(sent) /\ Len(sent) - read <= Buffer
    /\ client \in {"reading", "gone"}
    /\ flags \subseteq {"disconnected", "timeout"}
    /\ outcome \in {"none", "empty", "timeout", "truncated"}

TextOf(block) == IF block.type = "delta" THEN block.data ELSE <<>>
Texts(blocks) == FlattenSeq([n \in 1..Len(blocks) |-> TextOf(blocks[n])])

Words(n) == IF fed[n] \in {"text", "half"} THEN <<n>> ELSE <<>>
SpokenBefore(n) == FlattenSeq([m \in 1..n |-> Words(m)])

\* Whatever was withheld on the way, the client has all of the text, once and
\* in order, when it learns that the turn is complete, and none comes later; and
\* a stored turn, and a turn counted a success, is one whose last
\* response.completed the client was sent, all of it.
StoredWasSent ==
  /\ \A n \in DOMAIN sent : Marked(sent[n]) =>
        /\ Texts(SubSeq(sent, 1, n)) = SpokenBefore(Last(sent[n].data))
        /\ Texts(SubSeq(sent, n, Len(sent))) = <<>>
  /\ stored # NoTurn \/ outcome = "empty" =>
        /\ Captured(sent) # NoTurn
        /\ stored \in {NoTurn, Captured(sent)}

\* The state is well formed and the channel within its capacity; and metrics,
\* session and stream tell one story to a client that stayed: success,
\* a stored session and no failure; or no session, and, if it was the proxy
\* that gave up, a failure at the end.
OneVerdict ==
  /\ TypeOK
  /\ pc = "over" /\ client = "reading" =>
        /\ outcome # "none"
        /\ outcome = "empty" /\ opts.store <=> stored # NoTurn
        /\ outcome = "timeout" <=> sent # <<>> /\ Last(sent) = Failed
        /\ Failed \in ToSet(sent) => Captured(sent) = NoTurn

\* The task ends (and with it the in-flight gauge is released), whatever the
\* upstream does.
TurnEnds == <>(pc = "over")
=============================================================================
