# A TLA+ development of codexferry

codexferry is a local proxy between Codex, which speaks the OpenAI *Responses*
API, and model providers that speak either *Chat Completions* (`chat`) or
*Responses* (`responses`). It converts requests and event streams, keeps the
conversations that `previous_response_id` refers to, serves a live model
catalog, and hot-reloads its configuration. It is one tokio process: every
request, every streamed answer, the configuration applier, the catalog
refreshes and the session sweep are tasks that interleave at their awaits and
locks.

This directory holds TLA+ modules that model the parts of it where order
matters, the TLC configurations that check them, and proofs checked by TLAPS.
Paths below are relative to the repository root.

## 1. Inventory

| Part | Source | State | Operations | Talks to |
|---|---|---|---|---|
| Live catalog | `src/models_cache.rs` | the stored entry (`inner`), the single-flight gate (`refreshing`) | `get`, `refresh_if_stale`, `refresh` | reads the configuration; stats and reads Codex's template; called by `handle_models` and the reload hook |
| Hot reload | `src/config.rs` | the configuration behind an `RwLock`, a channel of validated configurations | watcher callback, applier | fires the catalog's hook; unlinks Codex's own cache file |
| Catalog generation | `src/catalog.rs` | none | render entries, find the template, run `codex debug models` | called by the refresh, on blocking threads |
| Session store | `src/session.rs`, `src/proxy/capture.rs` | sessions, a running byte total | `get`, `save`, `cleanup` | dispatch reads it at the start of a turn; the two streaming tasks and the blocking paths write it at the end |
| Chat streaming turn | `src/proxy/chat.rs` | local flags of a detached task, a bounded channel to the client | chunk loop, finish, metrics, failure or save | upstream body, client, session store, metrics |
| Stream conversion | `src/convert/response.rs` | `StreamConverter`: open items, accumulated text, tool calls, usage | `start`, `on_chunk`, `finish`, `on_error` | driven by the chat turn |
| Healing filters | `src/heal/dsml.rs`, `src/heal/think.rs`, `src/heal/mod.rs` | withheld text, inside/outside flags | `push`, `finish` | driven by the converter and the healer |
| Passthrough turn | `src/proxy/passthrough.rs` | as the chat turn, plus the raw bytes kept for capture | relay, healed relay, capture, timeout, save | upstream body, client, healer, merger, session store |
| Merger and healer | `src/heal/merge.rs`, `src/heal/responses.rs` | open fragmented items; per-item filters | rewrite an event stream | passthrough |
| SSE reader | `src/upstream.rs` | byte buffer, resume offset | next event | both streaming tasks |
| Dispatch and server | `src/proxy/mod.rs`, `src/proxy/upstream.rs` | shared `AppState` | route, look up history, resolve the key, branch, log | everything above |
| Request conversion, normalisation | `src/convert/request.rs`, `src/normalize.rs` | none, but the decode map of a request is kept for its answer | history and input to messages, tools to bound tools | both turns; fed by the session store |
| Metrics, version tripwire | `src/metrics.rs`, `src/version.rs` | counters; a set of seen versions | record, observe | dispatch, turns |
| Doctor, mode, command line, logging | `src/doctor*.rs`, `src/mode.rs`, `src/main.rs`, `src/logging.rs` | files | one-shot commands | - |

What is hard here, and what makes each part correct:

* **Live catalog.** A fetch reads the configuration, the entry, the template's
  mtime and the configuration again under four different locks or none; up to
  three kinds of tasks refresh concurrently. Correct: one refresh at a time; the
  entry never disappears or goes back to an older configuration; a fetch that
  finds a catalog never gets one that was out of date when it asked (Codex
  *persists* the answer for 300 s); every fetch is answered; a reload reaches
  the catalog without anyone asking.
* **Hot reload.** A save is a rename or a truncation and writes; the notify
  thread reads the file some time after each event; the applier waits for the
  requests that read the configuration. Correct: never back to an older edit, and
  the last valid one ends up in force, its hook fired.
* **Session store.** Each operation is atomic, but a turn is a read now and a
  write minutes later, and eviction follows a wall clock that may tie or go
  back. Correct: the byte total is the sum of the entries, the caps hold, the
  least recently used goes first, a snapshot is always one whole conversation,
  and what a client was told about can be found.
* **Chat streaming turn.** The upstream may finish, drop `[DONE]`, break off,
  stall or trickle; the client may read slowly or vanish at any send; three
  flags (`client_disconnected`, `timed_out`, `saw_completed`) then decide on
  metrics, terminal event and session. Correct: the client sees a well-formed
  Responses stream; a completed answer holds everything the upstream said;
  success is claimed, and a session stored, only if the upstream got to its
  end; metrics agree with the stream; the task ends.
* **Passthrough turn.** The same client and upstream, but the proxy does not
  know the answer: it relays bytes or events and afterwards reads the last
  `response.completed` back out of what it has kept. The body may break off
  inside that event; text may be withheld when the turn ends. Correct: the text
  is out, once and in order, before the completion; only what the client was
  sent is stored; metrics, session and stream agree; the task ends.
* **Healing.** A model's tool calls or thoughts leak as markup into its text. The
  filters see the text in deltas cut anywhere and may not hold back more than may
  begin a marker; the healer of the passthrough path makes items of what they
  take out, in the middle of a stream that others close. Correct: what comes out
  does not depend on the cutting and is what the blocking path makes of the whole
  message; nothing nested in broken markup is ever run; a stream without leaks is
  untouched; the items made up are opened and closed like others and listed in
  the completed payload.
* **SSE reader.** The search for the end of an event resumes near the end of what
  was searched before. Correct: wherever the network cuts the bytes, the events are
  those of the body.
* **Dispatch.** A handler awaits ten times between the request and its answer; the
  client may hang up at each, which drops the handler, and a reload may come in
  between. Correct: one log line per turn, from the handler or the task; a gauge
  and a counter that agree with what the clients were told; each client version
  reported once.
* **Merger.** It learns that an item is broken up only when the second fragment
  comes, with the first already shown, spoken and perhaps closed. Correct: a
  healthy stream is untouched; otherwise one item per run, all of the text under
  it, nothing for items the client never saw, and a completed payload that says
  what the stream said.
* **Request conversion.** Each request is built from what earlier turns left
  behind: stored items of Chat and native answers, or a transcript resent by the
  client. A mistake shows only turns later. Correct: the upstream is told
  everything, once and in order; an answer comes back as the message it was, with
  its own reasoning and calls; a tool is bound once, and a call of it reaches
  the tool that was declared.

`PROJECT.json` lists every hazard with its line and the property that covers it.

## 2. Modules

| Module | What it is |
|---|---|
| `CatalogCache` | the live catalog with the applier, the hook, template rewrites and time |
| `CatalogService` | what the catalog promises its clients; `CatalogCache` implements it |
| `CatalogCacheProofs` | TLAPS proofs about `CatalogCache` |
| `ConfigWatcher` | hot reload, from the file to the configuration in force |
| `ConfigWatcherProofs` | TLAPS proofs about `ConfigWatcher` |
| `SessionStore` | the session store and the turns that use it |
| `SessionStoreProofs` | TLAPS proofs about `SessionStore` |
| `ChatStream` | one streaming chat turn: task, converter, filters, channel, client, upstream |
| `ResponsesStream` | the contract of a Responses event stream; `ChatStream` implements it |
| `ChatStreamProofs` | TLAPS proofs about `ChatStream`, with the refinement |
| `Passthrough` | one streaming passthrough turn: both relays, healer, capture, channel, client, upstream |
| `PassthroughProofs` | TLAPS proofs about `Passthrough` |
| `SseReader` | the byte loop that finds the events of a body |
| `SseReaderProofs` | TLAPS proofs about `SseReader` |
| `DsmlParser` | the parser of leaked tool calls |
| `HealFilters` | both healing filters on deltas, and the healing of a blocking message |
| `FirstContent` | the search for the first content event in raw chunks |
| `TextStream` | a body through reader, filters and search, against the body read at once |
| `ResponsesHealer` | healing inside a stream of Responses events |
| `Dispatch` | the request handlers await by await, the transport, the books, the version tripwire, shutdown |
| `DispatchProofs` | TLAPS proofs about `Dispatch` |
| `ItemMerger` | the fragmented item merger between an upstream that breaks items up and the client |
| `ItemMergerProofs` | TLAPS proofs about `ItemMerger` |
| `HistoryReplay` | how a history of items becomes Chat messages |
| `ToolBinding` | which tools an upstream gets, and the decode map |
| `Conversation` | turns through both, with the client and the store |
| `MC*` | instances for TLC |

Operators whose comment begins with `Bug:` are deliberate mistakes. No
specification uses them; each replaces the definition after it in order to show
that a property notices.

### CatalogCache

A process is a fetch, the background task a fetch may spawn (`swr`), or the
task the hook spawns for a reload (`hook`). Each step is one access to shared
state, so that every window between two locks in the code is a window of the
model.

| Model | Code (`src/models_cache.rs`) |
|---|---|
| `ver`, `ConfigAt` | the configuration behind the `RwLock`, by version |
| `entry`: `ver`, `text`, `file`, `mtime`, `aged` | `inner`: what the body was rendered from, `template_path`, `template_mtime`, `checked_at` |
| `gate` | `refreshing`: the holder and the FIFO queue of a tokio mutex |
| `want`, `need` | the fingerprints `get` and `refresh_if_stale` read (by version) |
| `BeginFetch`, `FastSnapshot`, `FastHit`, `FastMiss` | `get`, `fast_hit`: snapshot under the lock, stat outside |
| `BranchCold`, `BranchSwr`, `BranchChanged` | the arms `None`, `Some(true)`, `Some(false)` |
| `JoinGate`, `WinGate`, `TryGate`, `Unlock` | `single_flight`, `try_lock`, the guards' scopes |
| `RefreshRead`, `Load`, `Stat`, `Check`, `Store` | `refresh`: clone the configuration, read the template, stat it, fingerprint guard, store |
| `ColdLook`, `ServeStored` | `stale_hit` |
| `ApplyConfig`, `FireHook` | `spawn_config_applier` and the hook of `serve` |
| `EditTemplate`, `PassInterval` | Codex rewrites its file; `TEMPLATE_RECHECK_INTERVAL` passes |

Abstractions: the body is what it is rendered from (configuration version and
template text); `Fingerprint` is the tuple of what the code hashes, so hash
collisions are left out; the mtime is as fine as the edits (two rewrites within
one tick of the file system's clock are left out); the bundled-model discovery
is part of what `hide` makes of the body. `RefreshLoad` may find the template in
the file or anywhere else. A process runs once, which bounds the requests, not
what they can meet.

### ConfigWatcher

| Model | Code (`src/config.rs`) |
|---|---|
| `Init`, `StartWatcher` | `serve` has parsed the file; `spawn_watcher` sets up the watch |
| `BeginSave`, `EndSave`, `Replace`, `Remove` | external: editors, and the event each change makes or does not make |
| `Notified`, `ReadMissing`, `ReadFile` | the notify callback: the event filter, the three attempts, the read with `parse_file` and `validate` (`Validates`) |
| `channel`, `Receive`, `Apply`, `FireHook` | the unbounded channel, `spawn_config_applier` |
| `BeginReading`, `EndReading` | requests with a read guard; a waiting writer goes first |

A content is the edit it belongs to and whether it is whole; which edits validate,
whole or half-written, is a constant. The event queue is a number: an event says
nothing about what the file held. Events about other files change nothing.
`CatalogCache` starts where this module ends: its `ApplyConfig` and `FireHook` are
`Apply` and `FireHook` here.

### SessionStore

The store's operations run under one write lock, so each is one step; a turn is
two or three. `sessions`, `total` are the fields of `SessionState`; `phase`,
`history` are the turn's local state; `usedBefore` and `stamp` only record the order of
use and the time of the last operation, for the properties.

| Model | Code |
|---|---|
| `BeginNew`, `BeginContinued` (`Hit`, `Miss`) | `handle_responses`, `SessionStore::get` |
| `Complete` | a stream sends `response.completed` before it saves |
| `Save` (`Store`, `Inserted`, `Survivors`) | `save_session`, `save`, `enforce_limits` |
| `Abandon` | any failure before the save, or `store: false` |
| `Cleanup` | the hourly sweep |

`Survivors` says which sets of entries the two eviction loops can leave. Ties in
`last_used_at` leave the order to the hash map's iteration: any. Items are the
numbers of the turns that produced them, with a size each. A save and a hit read
the clock twice, for the entry's `last_used_at` and in `remove_expired`; `Lapses` says what may
lie between (`Again`). A miss and a refused save read no clock. Ids are given
per turn: proxy-made ones are distinct, an upstream's may repeat.

### ChatStream

| Model | Code |
|---|---|
| `pc` | where the detached task of `handle_chat_format` stands |
| `flags` | `saw_done`, `saw_completed`, `client_disconnected`, `timed_out` |
| `conv` | `StreamConverter` with both filters |
| `todo`, `sent`, `read`, `Buffer` | the batch being sent, the channel and how far the client has read |
| `ReadChunk`, `OnChunk`, `ThinkStep` | a parsed chunk, `on_chunk`; the think filter on one piece |
| `ReadDone`, `ReadEnd`, `IdleTimeout` | the three ways out of the chunk loop |
| `Tick`, `waited` | the timer around `sse_stream.next()`, which only a whole event resets |
| `SendEvent`, `SendFails` | `tx.send(..).await` and its error |
| `Finish` (`FinishAllowed`, `FlushHeal`, `EmitFinish`) | `finish_allowed` and `converter.finish()` |
| `TextItems`, `CallItems`, `CallEvents`, `CanonicalOrder` | the parts of `emit_finish` |
| `Record` (`ErrorClass`), `SaveSession` | metrics, `on_error` or `save_session` |

Text is a sequence of pieces; a piece is the number of the chunk it came in and
what it is to the filters: words, a think tag, the beginning of a DSML marker
(withheld until the next piece shows what it was), or a whole leaked call. How
the filters find those in a text is `TextStream`'s subject. `start` is always the
eager one, so `started` and the lazy opener of `on_chunk` are left out; `finish`
is called once, so is `finish_emitted`. A chunk that does not parse changes
nothing but the timer. Ids, time to first token and the log are left out. A call's
`namespace` decoding and the `{}` for empty arguments are data.

### Passthrough

| Model | Code (`src/proxy/passthrough.rs`) |
|---|---|
| `pc`, `flags` | where the detached task stands; `client_disconnected`, `timed_out` |
| `fed`, `partial` | the chunks of the body; what `split_sse_events` holds of an unfinished event |
| `withheld`, `Heal` | `ResponsesStreamHealer`: text that may begin a marker, `push_event` |
| `ReadChunk`, `ReadEnd`, `ReadNothing`, `ReadBreak`, `IdleTimeout` | `timeout(stream.next())` of the fast relay (`opts.healed` false) or `timeout(events.next())` of the healed one, and what it may return |
| `SendBlock`, `SendFails` | `tx.send(..).await`, then the append to `raw`; its error |
| `Trim`, `Captured` | `trim_completed_prefix`; `last_completed_payload` with `completed_capture` |
| `Finish` | the end of the loop and `healer.finish()` |
| `Record` (`ErrorClass`, `GivenUp`), `SaveSession` | metrics, the made-up `response.failed`, `save_session` |

A chunk of the body is one event or one half of one; the byte at which an event
is split is `SseReader`'s subject. The upstream is a conforming one: after a terminal
event come only comments and further terminals. The healer appears here
as it is on streams without leaked markers, where all it does is withhold and
release text; the rest of it is `ResponsesHealer`, the merger `ItemMerger`. `response.incomplete` stands for
`response.failed` from the upstream too. Time to first token, token counts and
the log are left out.

### ItemMerger

| Model | Code (`src/heal/merge.rs`) |
|---|---|
| `run`: `key`, `ids`, `said`, `part` | `RunState`: type and `call_id`, `fragment_ids` (and `len`), `merged_*`, `part_added_emitted` |
| `merged` | `merged_runs` |
| `keys`, `closed`, `received`, `out` | the upstream's items and events, and the events passed on |
| `PushAdded` ... `PushCompleted` | `push_event` on each type of event |
| `OnAdded`, `OnDelta`, `OnPart`, `OnDone`, `OnCompleted` | the handlers of the same names |
| `PushUntracked`, `OnUntracked` | the last arm of `push_event`: events of other types (`function_call_arguments.done`, `reasoning_summary_text.done`, `reasoning_summary_part.*`) go by unchanged |
| `CloseRunThen`, `Dones`, `Recorded`, `Collapse` | `close_run_then`, `flush_run_synthesis`, the record and the rewriting of `response.output` |

An item's number is its id and its output index. The upstream may close items
early, late or never, and in `response.completed` lists what it said. `Overlap`
lets it go on with an item after opening the next, `ManyParts` lets a message
have several parts; the properties need both to be false, and say why below.

### SseReader, DsmlParser, HealFilters, FirstContent, TextStream

| Model | Code |
|---|---|
| `buffer`, `resume`, `blocks` | `buf`, `scan_from` and what was yielded, in the loop `parse_sse_stream` and `split_sse_events` share (`src/upstream.rs`) |
| `Emit`, `Await`, `Receive`, `End`, `Break` | a boundary found; none found; the next chunk; the end of the body; a transport error |
| `BoundariesFrom`, `ResumeAt` | `find_event_boundary` from an offset; the overlap kept for the next search |
| `Lines`, `EventData`, `IsDone` | the lines of a block and its data (`is_done` trims) |
| `ScanOpenTag`, `ParseInvoke`, `MalformedInvokeEnd`, `ParseLeakedToolCalls` | the functions of the same names in `src/heal/dsml.rs` |
| `DsmlPush`, `DsmlFinish`, `ThinkPush`, `ThinkFinish` | `push` and `take` or `finish` of the two filters |
| `HealMessage` | the healing of a blocking chat answer |
| `Hit`, `NextCarry` | `first_content_event_bytes` (`src/proxy/mod.rs`) |
| `OnChunk`, `FlushHeal` | the two filters in a row, in `on_chunk` and `flush_heal` (`src/convert/response.rs`) |

A byte of `SseReader` is `LF`, `CR`, a space, the prefix of a data line, a comment's
colon, or text; a token of a content is a character of the markup, one of its
words, or other text. `TextStream` sends a body as bytes, or a content in deltas,
cut in every way; the references read the whole at once: `WholeBlocks` and
`Remainder` define the events of a body, `HealMessage` is the code's blocking path,
`StillOpen` counts tags opened and closed. That both paths parse leaked
calls with the same parser is why `NestedNeverHealed` looks at the parser itself.

### ResponsesHealer

| Model | Code (`src/heal/responses.rs`) |
|---|---|
| `healer` | the fields of `ResponsesStreamHealer`; item ids are output indexes |
| `HealTextDelta`, `FlushTail`, `EmitReasoning`, `InjectCalls` | the functions of the same names: text that went through the filters, items made up at `INJECT_INDEX_BASE` |
| `ReleaseUntrackedTail`, `RewriteTextEcho`, `RewriteItemDone`, `RewriteCompleted` | what happens to the events that repeat the text |
| `PushEvent`, `Finish` | the dispatch on the event's type; the end of the body |
| `HealResponsesBody` | the same for a blocking answer |
| `Send*`, `Quiet`, `StreamEnd` | external: an upstream that streams one message, maybe with an item before or after it, to a proper end, an early one or none |

As the code assumes, the upstream's echoes equal the sum of its deltas.

### Dispatch

| Model | Code |
|---|---|
| `pc`, `Answer`, `Reject` | where a handler stands between two awaits; how it returns (guard dropped, logged or not) |
| `ReceiveTurn` ... `CallUpstream` | `handle_responses` up to the call (`src/proxy/mod.rs`), `handle_chat_format` and `handle_responses_format` up to it |
| `SendFails`, `UpstreamRefuses`, `UpstreamNon2xx`, `ReadBodyFails` | `src/proxy/upstream.rs` |
| `UnreadableChatBody`, `ConvertChatBody`, `SaveChatTurn` | the blocking branch of the chat path: counts, then saves |
| `SavePassthroughTurn`, `CountPassthroughTurn` | that of the passthrough path: saves, then counts |
| `StartStream`, `StreamEnds`, `StoreStream`, `CloseStream` | a detached task's start, its outcome, and how it closes its books |
| `gauge`, `holds`, `counted`, `logged` | `InFlightGuard`, the request counter, the log lines |
| `ListModels`, `ObserveClientVersion`, `ReportClientVersion`, `ServeModels` | `handle_models`, `CodexVersionTracker::observe` |
| `Reload`, `Disconnect`, `Shutdown`, `Exit` | the configuration's writer; external: axum drops the handler of a client that hung up; the signal and the drain |

A status is its class; `ConfigAt` gives the routes of each revision. Between its
start and its end a streaming task is nondeterministic here: what it does then
is in `ChatStream` and `Passthrough`. Quirks are read under a second guard, which
changes nothing this module looks at.

### HistoryReplay, ToolBinding, Conversation

| Model | Code |
|---|---|
| `PushItem`, `PushItemMessages` | one round of `push_item_messages` (`src/convert/request.rs`) and the loop, as a fold |
| `pending`, `open` | `pending_reasoning`; whether the look-ahead for calls is still under way |
| `WithInstructions`, `ToChatMessages` | steps 1 to 3 of `to_chat_request_with_ns_map` |
| `PushToolClassified`, `PushEncoded`, `PushNamespaceInnerTools`, `CollectAdditionalTools`, `NormalizeChatTools` | the functions of `src/normalize.rs` |
| `ChatBinding` | step 4: hoist from the history and the input, flatten, merge the maps |
| `Ask` | `handle_responses`: the lookup and the request it leads to, for either format |
| `AnswerChat` (`CanonicalItems`, `ShownItems`) | `chat_response_to_items`, `emit_finish`: what is stored and what is shown |
| `AnswerNative` (`NativeItem`, `CallType`), `Complete` | the captured output of a native upstream: a function is called by a `function_call`, a freeform tool by a `custom_tool_call`, a built-in one by an item without a result, as `web_search_call`; `save_session` |
| `OneToOne`, `AsText` | `convert_responses_item_to_chat`: no message for a type it does not know, empty text for a result that is no string |
| `Fail`, `Forget` | a turn that leaves nothing; expiry, eviction, restart |

A tool's name is the sequence of its hyphen-separated parts, so that encoding is
concatenation and `a` with `b-c` collides with `a-b` and `c`, as in the code. A
string `input` is the one user item the code makes of it. A result is `Text` or
`Parts`, a list of content parts. `request.said` is what went before as asked and
answered; `Spoken` and `SpokenItems` read it off what is sent. The client answers all
calls of a turn before it asks again, opens a conversation with a developer
message, as Codex does, and may go on from any turn it holds. A turn is asked
and answered in two steps with nothing between but lost sessions: what turns do
to each other in the store is `SessionStore`'s subject, what happens within
an answer that of the two streams.

### CatalogService, ResponsesStream

`CatalogService` has one published catalog that only moves towards the
configuration in force, and clients that are answered with a version between
what was in force when they asked and what is published; neither gate, snapshot
nor refresh exists there. `ResponsesStream` is the contract over the events
alone, as what a client holds after some events (`Held`, `Take`) and which event may
come next (`Conforms`): the opener first, consecutive output indices, deltas only into open
items, a `done` that repeats what the deltas said, and a terminal event:
`response.completed` that lists every item, closed, or `error` and
`response.failed`. A stream may be cut off anywhere. The passthrough path has to
meet the same contract.

## 3. Runs

| Run | Instance | Shows |
|---|---|---|
| `catalog_safety` | 2 fetches, 1 reload, 1 template rewrite | `SingleFlight`, `NoPanic`, `NeverPreChange`, `NeverBackwards` hold |
| `catalog_live` | 1 fetch, 2 reloads | `ImplementsService`, `FetchAnswered`, `ReloadReachesCatalog` hold |
| `catalog_format` | 2 fetches, 1 reload of `format` only | `NeverPreChange` fails |
| `config_watcher` | 3 edits, one invalid; half of the first two parses | `NeverBackToOlder`, `LastEditInForce` hold |
| `session_store` | 4 turns, 3 ids, 2 sessions, 4 bytes, TTL 2, 0 or 3 between two readings | `WithinLimits`, `WholeConversation`, `EvictsLeastRecentlyUsed` hold |
| `chat_stream` | 3 chunks of 10 sorts, 3 requests, channel of 1, idle 2 | `NothingLost`, `StoredIsWhatWasStreamed`, `CompletedByUpstream`, `MetricsMatchStream`, `ImplementsResponsesStream`, `StreamEnds` hold |
| `passthrough` | 4 chunks of 9 kinds, 3 requests, channel of 1, idle 1 | `StoredWasSent`, `OneVerdict`, `TurnEnds` hold |
| `merger_safety` | 4 items of 4 kinds, 7 events of 7 types | `HealthyIdentity`, `OnlyShownItems`, `TextSurvives`, `CompletedMatchesStream` hold |
| `conversation` | 2 answered turns and a third request; 4 shapes of Chat answers, 3 of native ones; 2 ways to declare tools; results that are parts, then text | `ConversationReplayed`, `ChatAnswersStayWhole`, `BindingFaithful` hold |
| `text_stream` | every body of 5 of the bytes that end lines and events, or of 4 words of the content markers, some longer ones, in chunks of every size; contents of 2 beginnings, ends and whole tags, in deltas of every size; messages of 3 of 14 tags, or 5 of 6 calls, in one piece | `NoBoundarySkipped`, `BlocksAsInBody`, `HealedAsWhole`, `NestedNeverHealed`, `FirstContentSeen` hold |
| `healer` | every message of up to 3 of 8 pieces, in deltas of one or more; the DSML quirk on or off; an item before, after or none | `WellFormed`, `CompletedMatchesStream`, `HealthyUntouched`, `StreamedAsBlocking` hold |
| `dispatch` | 3 requests, 3 revisions of the configuration, 2 providers, a tracker of 2 versions | `OneLogLine`, `BooksAgree`, `ReportedOnce` hold |

**Why the bounds are enough.** *Catalog*: a hazard needs a fetch, another task
that refreshes, and a write between them; two fetches with their background
tasks and the hook's task give up to five refreshing processes. The reload of
`catalog_safety` toggles the hide flag, so both kinds of recheck occur; two
reloads in `catalog_live` allow a configuration to change again during the
forced refresh. *Hot reload*: a stale, a bad and a last edit are three; each
may be saved in two ways, disappear and come back. *Sessions*: both caps can overflow at once, a conversation of
three turns exceeds the whole budget, the fourth turn repeats the first one's
id, the clock's steps of -1, 1 and 3 against a TTL of 2 give ties, steps back,
fresh and expired sessions; a lapse of 3 within a save makes the entry just saved
expire, as every one does with `ttl_hours = 0`. *Chat*: three chunks are enough for content, a
finish reason and trailing usage; for a withheld prefix, what resolves it and
an end; for an open and a close tag around text; and for a named call beside a
nameless one. A channel of one gives the client the most ways to hold up the
task (the code's is 64). The same run with four chunks and an idle time of 1 has
passed as well (5.2 million states). *Passthrough*: four chunks hold a withheld
prefix, what resolves it and a completion in two halves; a completion followed by
a second one without an id, or broken off, and silence after it. *Merger*: a run needs
two fragments, and what must not be confused with it is another run of the same
kind with an item between, or a call with another id: four items; seven events
let the longest of these speak, close and complete. *Conversation*: an answer
can be disturbed by the turn before it (reasoning left over) and is replayed in
the turn after it; the third request sees both. The shapes include text before
its reasoning, reasoning alone, calls alone, and reasoning interleaved with
calls, a freeform tool's call between text and a function's, and a search the upstream
made itself; the tools include a flat one with the name another would be encoded to,
one whose schema changes between turns, and two of different namespaces, one at the top
level and one hoisted, with the same encoded name (without the exception in `BindingFaithful`
TLC finds the turn that declares the second of them). *Text*: five bytes hold the longest delimiter and
what is confused with it, four words a marker or its
beginning repeated, and the longest marker comes behind a false beginning;
each is cut at every position. Two pieces put a cut beginning before what completes it or does not;
five of the core pieces are an invoke in an invoke in an invoke, open or closed, well formed
or not. *Healer*: three pieces put a leak before, behind and between text.
*Dispatch*: two turns and a `/models` request beside them, or up to three of
the latter; a tracker that two versions fill meets a third.

`CHECK_DEADLOCK FALSE`: every request runs once, every stream ends and the
editors stop, so every instance runs out.

**Fairness.** `CatalogCache`: every process that can step does. Tokio polls
tasks that are ready, its mutex is fair, the subprocesses have a deadline of 10 s
(`src/catalog.rs`), and the applier goes on to its hook. Nothing makes a client
ask or a user edit. `ConfigWatcher`: the notify thread and the applier run, and a
request releases its guard, which the handlers hold across no I/O; an editor may leave
a save half done for ever. `ChatStream` and `Passthrough`: the task is polled when it can run, and time
passes. The upstream is not fair: it may fall silent at any point, for ever; that
the task ends nevertheless is the idle timer's doing. A client that stays
connected is assumed to go on reading: the code has no deadline on a send, and
with a client that neither reads nor hangs up the task does wait for ever.

**What fails, and why.**

* `catalog_format`: `fingerprint_config` does not hash the provider's `format`,
  though `set_catalog_fields` writes it into every description. A reload that
  changes nothing else is never seen.
Met while modelling, without a run of their own:

The idle timer of a stream measures the wait for a whole event; keepalive comments and
slow pieces of a long event do not reset it. The healer releases withheld text before the
events that end a text and before `response.completed`, not before
`response.incomplete` or `response.failed`; `finish` then sends a delta after the
terminal event (the exception in `HealthyUntouched`). The instructions are inserted only if the replayed
history does not begin with a system message; a developer message is one, so a
conversation that opened with it loses its instructions from the second
turn on. A stream that stalls after `response.completed` counts as a success and is
saved; `ARCHITECTURE.md:306-311` says that one that hits the idle timeout is recorded as
`timeout` and never persisted (`OneVerdict` states what the code does). A streaming turn that an upstream answers with a 3xx is logged by nobody (the
exception in `OneLogLine`). A turn reads the configuration twice, for its route and for
its quirks, and a reload may come in between. A blocking chat answer whose body
cannot be parsed is answered 502 but counted under the upstream's 200 (the exception
in `BooksAgree`). Three shortcomings of the healer are exceptions in its properties and
marked TODO in the code: a withheld end of text that follows the message's
`done`, an injected reasoning that stays open in a stream cut off, and think
blocks with nothing in them, which a stream drops and the blocking path keeps.

The catalog's template is read first and stat'ed
later, so a rewrite in between is stored as old text under the new mtime. A save in
place may be read when the file is still empty, which is a valid configuration without
routes and is applied until the rest is there. An edit between the start-up's parse and
the watch is not seen until the next one (`seen` in `LastEditInForce`). A streamed turn is saved after its client
has been told that it is complete (`Complete` and `Save` of `SessionStore`), so
an immediate follow-up may miss its session. `get` refreshes the stamp before it
looks for expired sessions, so it can revive one. A client that resends its
transcript holds text and reasoning in the order it was shown them; if the text
came first, the replay splits the answer into two assistant messages, which is
why `ChatAnswersStayWhole` speaks of stored conversations only (without that
condition TLC finds the split in the second request). A turn that was nothing
but reasoning lends it to the next answer without any. On the way to a Chat upstream the calls
of freeform and built-in tools that a native upstream made are dropped with their results,
as `normalize.rs:15-20` says, and a result that is a list of parts becomes empty text, which
nothing says: the exceptions in `ConversationReplayed`. Two namespaces whose
tools get the same encoded name, one at the top level and one hoisted, leave a
decode entry for the one that was not bound, though `request.rs:170-172` says that the order does
not matter: the exception in `BindingFaithful`. A blocking answer keeps calls
without a name, which a streamed one drops. The merger swallows the second
`content_part.added` of an item even if the item is no run, so a healthy message
of two parts does not come out unchanged (`ManyParts` true). It closes an item
twice, with deltas in between, if the upstream closed its first fragment before
opening the second (`TextSurvives` says that it happens only then), and it
attributes deltas by type, not by item, so that `OnlyShownItems` and
`TextSurvives` are stated for an upstream that does not go back to an earlier
item (`Overlap` false). Events of the types it does not track go by unchanged, so within a run
that merges the client gets those of later fragments under ids it was never shown: the
exception in `OnlyShownItems`. `README-DETAILS.md:283-286` says that the
first read after an edit may return the pre-change body, which contradicts its
lines 250-253 and the code. A fetch that waits in the cold arm may get an entry
one configuration old, as the comment of `get` says; `NeverPreChange` and
`CatalogService` therefore speak of fetches that found an entry. With ties or a
clock set back the store may evict what was just used; `EvictsLeastRecentlyUsed`
is stated for a clock that runs forward. With `ttl_hours = 0` what was just saved is
expired at once (`README-DETAILS.md:131`), which is an exception there.

## 4. Proofs

`CatalogCacheProofs` proves, for any number of fetches, reloads and template
rewrites and any configurations:

| Theorem | States |
|---|---|
| `TypeCorrect` | `Spec => []TypeOK` |
| `SingleFlightHolds` | `Spec => []SingleFlight` |
| `NoPanicHolds` | `Spec => []NoPanic` |
| `NeverBackwardsHolds` | `Spec => NeverBackwards` |
| `NeverPreChangeHolds` | `DistinctFingerprints` implies `Spec => []NeverPreChange` |
| `ServiceImplemented` | `DistinctFingerprints` implies `Spec => ImplementsService` |

None of the properties is inductive. The argument has four layers, each
invariant on the strength of those before it:

1. `BaseInv`: types, and `GateHeld`: a process inside the guarded code is at the
   head of the gate's queue. Types alone allow a state in which a process is
   inside without being the head; one `WinGate` of the real head then breaks
   `SingleFlight`.
2. `ControlInv`: which program points belong to which arm of `get`
   (`ArmOfStage`), and that a fetch in the arms that end in an `expect` has seen
   an entry (`TaskArms`). Nothing ever clears `entry`, hence `NoPanic`.
3. `VersionInv`: everything a process has read is no newer than the
   configuration in force, and a refresh under way works on a version at least
   as new as the stored one's. The second part is where the gate matters: only
   its holder stores. Hence `NeverBackwards`.
4. `FreshInv`: what a fetch that began with an entry has secured at each of its
   program points, up to an answer no older than `want`.

The refinement needs a last part, `AnsweredInv`: a fetch is answered once. Then each
step of the cache is an edit, a publication, a question or a reply of
`CatalogService` (`ServiceStep` has a case for each action), or it changes nothing
the service shows: `AnswerStep` finds the version of an answer between what the
fetch may expect, which is `FreshInv`, and what is stored.

`DistinctFingerprints` says that different configurations of the history have
different fingerprints. It is what the code's comment takes for granted, and it
cannot be dropped: `catalog_format` is the counterexample. It also excludes a
configuration that is edited away and back again.

`ItemMergerProofs` proves, for any kinds of items and streams of any length:

| Theorem | States |
|---|---|
| `TypesHold` | `Spec => []TypeOK` |
| `HealthyIdentityHolds` | `ManyParts = FALSE` implies `Spec => []HealthyIdentity` |
| `OnlyShownItemsHolds` | `Overlap = FALSE` implies `Spec => []OnlyShownItems` |
| `TextSurvivesHolds` | `Enabled = TRUE`, `Overlap = FALSE` imply `Spec => []TextSurvives` |
| `CompletedMatchesStreamHolds` | `Enabled = TRUE`, `Overlap = FALSE` imply `Spec => []CompletedMatchesStream` |

`TypeInv` adds to `TypeOK` what the steps rely on: that the run's kind is one
that merges and its ids are naturals. `OffInv` says that a merger switched off keeps no
state. With these, `Identical` carries `HealthyIdentity` through a step: in a
healthy stream the run has never more than one fragment and nothing is
recorded, and the part flag is set only once the part was announced - which is
where one part per message is needed. `ShownInv` carries `OnlyShownItems`: the
first fragment of the run has been shown, and while the stream lasts the item
opened last has been too or is part of a run that merges; with `Overlap` false
the upstream speaks of no other. Which events need their item shown depends on the runs
the upstream has made (`Needs`), and a merging run never ends with an item that leads one.

`WholeInv` carries the last two. The properties speak of the runs the upstream
made (`Leaders`, `RunOf`) and of nothing the merger keeps, so the invariant has to say
what its fields hold of them: the run tracked ends with the item opened last and
its `said` is what the client reads under its first fragment (`RunInv`); there is a record
for each run that merged and is over, and for no other (`RecordInv`); and each first
fragment has been closed as often as its run's state calls for (`EndOK`: a run tracked that
merges may be closed already, by the upstream, but then before its second
fragment was opened). The list of `response.completed` is a concatenation of one
part per item, empty for the later fragments of a run; `FlattenChosen` says what
such a concatenation lists, and `RecordOfRun` that an item finds the record of its own run.
`LastLeader` is where `Overlap = FALSE` is used: text goes to the run of the item opened
last, which is the item that speaks. With the quirk off, nothing merges, and
`HealthyIdentityHolds` says what comes out.

`SseReaderProofs` proves, for any set of bytes, any body and any cutting:

| Theorem | States |
|---|---|
| `NothingSkipped` | `ReaderSpec => []NoBoundarySkipped` |

The offset is 0 after an event, or three bytes before the end of a buffer just
searched. That no delimiter begins before it is an invariant of the waiting state
too, and a chunk appended does not change it: a delimiter of the longer buffer
that begins before the offset lies, with all its four bytes, in the part that was
searched.

`SessionStoreProofs` proves, for turns of any number and size, any caps and any clock:

| Theorem | States |
|---|---|
| `WithinLimitsAlways` | `Spec => []WithinLimits` |
| `WholeConversationAlways` | `Spec => []WholeConversation` |
| `UsesOrderedAlways` | `Spec => []UsesOrdered` |
| `EvictsAlways` | `Spec => EvictsLeastRecentlyUsed` |

The byte total is a fold over the store, so the first part is about sums: a
sum takes its elements in any order and splits over a disjoint union (`SumFacts`).
`StoreInv` then says that the total is the sum (`Books`) and that
both caps hold (`Fits`), for every set the eviction loops may leave. A save
that overflows passes through a store over the caps and ends within them
(`SurvivorsFit`). `SavedByItsTurn`: an entry was written by a turn that is over and
holds the history that turn found, then the turn. `UsesOrdered`: the recorded order
of use is a strict total order of the ids stored. Without it "less recently used
than all that stay" would not determine whom an eviction may take, and it has to
survive replacements, refreshes and sweeps. `EvictsAlways` needs the other direction too, that
nobody left who could have stayed: by the rule of the loops (`Survivors`) what stays, with one that
was evicted and those after it, is over a cap (`HadToLeave`).

`ConfigWatcherProofs` proves, for any edits, saved in any way:

| Theorem | States |
|---|---|
| `NeverBackToOlderAlways` | `Spec => NeverBackToOlder` |

`WatcherInv`: a file that is there holds the latest edit; from there to the
configuration in force, through the channel and the applier, edits never get newer
(`InOrder`); and all that travels validates (`AllValid`).

`PassthroughProofs` proves, for any body, capacity and patience:

| Theorem | States |
|---|---|
| `OneVerdictHolds` | `FairSpec => []OneVerdict` |
| `StoredWasSentHolds` | `FairSpec => []StoredWasSent` |

`VerdictInv` ties the bytes kept for the capture to the stream: `raw` is what
`Trim` leaves of the blocks relayed, and the client was sent those blocks, with a made-up
`response.failed` behind them only for a turn given up. That the trimming never
takes the completion which the capture will look for is a fact about the two
functions (`CapturedTrim`, `CapturedAppend`). `TextInv` is about the text: while the client
stays, what it was sent, the text of the batch under way and what the healer withholds
are together what the upstream said; and once a block that closes the turn is due,
nothing is withheld and the upstream will say no more. Without the batch and
the withheld text nothing of this is inductive: between a delta and the
completion behind it the client lacks a piece.

`ChatStreamProofs` proves, for any chunks, quirks, capacity and patience:

| Theorem | States |
|---|---|
| `TypesHold` | `Spec => []TypeInv` |
| `CompletedByUpstreamHolds` | `Spec => []CompletedByUpstream` |
| `MetricsMatchStreamHolds` | `Spec => []MetricsMatchStream` |
| `StoredIsWhatWasStreamedHolds` | `Spec => []StoredIsWhatWasStreamed` |
| `ImplementsResponsesStreamHolds` | `Spec => ImplementsResponsesStream` |
| `NothingLostHolds` | `Spec => []NothingLost` |

1. `TypeInv`: `TypeOK`, the fields of the converter, and that no kind of text has two items.
   Types of what the two filters make of a text are the bulk of it.
2. `VerdictInv`: what is in a batch at each stage (`BatchInv`), what the flags
   say of stream and client (`FlagInv`), and what the upstream did
   (`SourceInv`). The difficult case is a task that lost its client in the
   middle of a chunk: it goes on to the finish sequence with no timeout noted and the
   upstream still open. `saw_completed` is set before the send that fails, so such a
   turn would be stored as complete if its last batch began with the completion. It does
   not: a chunk that had events to send has opened an item, and an open item's
   `done` comes first.
3. `StreamInv`: some view of the answer matches the converter's items, and a client
   that stays is led to it by the batch under way (`PlayInv`; `Plays` says that each
   event conforms and where the last one leads). At `response.completed`, that
   view is what the session will hold, in another order (`ListedInv`). `LostInv`: a task that goes
   on reading without a client lost it at the opener, so nothing was sent. `FailInv`:
   the events of a failure follow a stream still running.
4. `NothingLostHolds`: `NothingLost` speaks of the completion only, which is built from
   what the converter holds, so the invariant accounts for every piece read so far
   (`AccountInv`, while the task can still complete). The pieces of the answer are in
   the reasoning, in the message or withheld as markup; each of these is in order and
   they share nothing (`Placed`); each piece heard is in one of them (`Heard`); each named call holds its fragments (`CallsKept`), the usage is
   the last one sent (`UsageKept`), and what has been said has an item (`Itemised`).
   `Placed` is what the filters make delicate: a piece they release late must still
   come before all that is read after it. `ThinkParts` and `LeakedParts` say
   that a filter splits a text into two parts, each in order, disjoint, and
   together the whole; `ChunkAccounted` and `FlushAccounted` carry the account through
   `on_chunk` and `flush_heal`, `FinalComplete` reads it off the completion, and
   `WholeInv` keeps that for a completion that waits in the batch or has been sent.

The lemmas `UtteredPlays`, `DonePlays`, `CallsPlay` and `FinishPlays` say of `on_chunk`,
`flush_heal` and `emit_finish` that their events conform from any view that
matches the converter, and where they lead; `FinishListed` compares the two orders.

`DispatchProofs` proves, for any requests, providers, routes and reloads:

| Theorem | States |
|---|---|
| `OneLogLineHolds` | `Spec => []OneLogLine` |
| `BooksAgreeHolds` | `Spec => []BooksAgree` |
| `ReportedOnceHolds` | `Spec => []ReportedOnce` |

Whether a handler may leave the line to a task depends on what the request has
been through, so `LogInv` adds `Place`: a body is only ever read for a request that
does not stream, the upstream's refusals are no 2xx, the `/models` places
belong to `/models` requests, and a handler is dropped only for a client that has
gone. A step changes one request (`OneAtATime`); it either answers, which writes the
line, or goes on without one (`Answering`, `GoingOn`). `BookInv` does the same for
the books: the gauge of a provider is the number of guards held under its label
(`GuardsCounted`), a guard is held exactly at the places where the upstream is at
work (`Routed`), and `Trail` says what has been counted and saved at each place.
`TripInv`: the tracker's set is the first few of the distinct versions observed
(`TrackerInv`), and every transition due is either reported or on its way with one
request, which is what keeps it from being reported twice (`ReportInv`).

**Assumptions.** The constants' bounds are natural numbers and the channel's capacity
and the idle time are not zero; `ConfigAt` is a function on the versions; kinds of items,
chunks and options are well formed; each turn has an id and a size. `RoutesAssumption`: a
revision of the configuration has a route, or none, for any model a turn asks for.
`NoEntry`, `NoCall` and `None` are none of the values they stand beside.
`DistinctFingerprints`, `Overlap = FALSE`, `ManyParts = FALSE` and `Enabled = TRUE` are
hypotheses of the theorems that need them.

**Induction.** The library's induction theorems take an operator as a parameter,
which no backend here can instantiate. Where a fold or a concatenation has to be
followed element by element, the proofs take the least natural number at which the claim
fails (`LeastNatural`, from the well-foundedness of `<`) and show that there is none.

**Only model-checked.** All liveness: TLAPS has no reasoning about fairness and
ENABLED here. `TextStream` and `ResponsesHealer`: they stand on recursive operators (`DsmlParser`,
`HealFilters`), which the backends do not accept. `Conversation`: its requests are folds
over folds over histories of items, and its properties compare whole histories.
Every other safety property of a run that must pass has a theorem.

## 5. Not modelled

* The JSON around a content, ids and timestamps, token counts and timings, the wording of
  errors, request tracing, `healthz` and the `/metrics` page.
* A native upstream with several messages in one answer, in the healer (its
  `healed_text` is one for the whole stream); payloads that do not parse, in
  healer and merger, which forward them.
* The doctor's state file, which only words the tripwire's warning.
* Hot reload with symlinks re-pointed after the start, and an event queue that
  overflows.
* Sampling parameters, content parts and a `reasoning_content` carried on a
  message item, in request conversion; the counters of unknown types.
* Catalog rendering, metrics counters, logging, doctor,
  mode switch, command line, the end-to-end mock: formatting, I/O or one-shot
  commands.

## 6. Plan

Done, in this order because the catalog has the most concurrent core, the store
is shared by all turns, the chat turn is what most requests run through, and the
passthrough turn is its counterpart: `CatalogCache` with `CatalogService` and its
proofs, `SessionStore`, `ResponsesStream` with `ChatStream`, `ItemMerger` with its
proofs, `Passthrough`, `Conversation` with `HistoryReplay` and `ToolBinding`, which tie
the turns together, and `ConfigWatcher`; then the levels below and above them:
`SseReader`, the filters and `TextStream`, `ResponsesHealer`, and `Dispatch`.

Next:

1. Proofs: the functions of `ToolBinding`, and on them `BindingFaithful`.
2. `ConfigWatcher` composed with `CatalogCache`: the last edit eventually reaches
   the stored catalog.
3. `ResponsesStream` as the contract of what `ResponsesHealer` behind `ItemMerger`
   makes of a conforming stream.

The number of runs is kept small on purpose: each asks a question of its own.
