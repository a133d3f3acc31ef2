------------------------------ MODULE Dispatch ------------------------------
(***************************************************************************)
(* The request handlers of the proxy (src/src/proxy/mod.rs): turns and     *)
(* /models requests side by side, each with its await points, between      *)
(* which the config may be reloaded, the client may hang up and the server *)
(* may be told to stop; the transport to the upstream                      *)
(* (src/src/proxy/upstream.rs), the blocking branches of the two paths,    *)
(* the in-flight gauge and the request counter (src/src/metrics.rs), and   *)
(* the client version tripwire (src/src/version.rs).                       *)
(*                                                                         *)
(* What a streaming task does between its start and its end is in          *)
(* ChatStream and Passthrough, the catalog's own work in CatalogCache.     *)
(***************************************************************************)
EXTENDS Naturals, Sequences, FiniteSets, SequencesExt, FiniteSetsExt

CONSTANTS
  Requests,
  Asks,      \* what each request may ask
  Providers,
  ConfigAt,  \* the routes of each revision of the config
  Digits,    \* words that hold a digit
  Safe,      \* words that may be a metric label
  MAX_TRACKED_VERSIONS,
  None

ASSUME DispatchAssumption ==
  /\ MAX_TRACKED_VERSIONS \in Nat
  /\ "unparseable" \notin Digits

\* A route of the config, or none; `key` tells whether its key can be read.
Route == [provider : Providers, format : {"chat", "responses"}, key : BOOLEAN]

\* Each revision of the config has a route, or none, for any model a turn asks
\* for (src/src/proxy/mod.rs:738-768).
ASSUME RoutesAssumption ==
  /\ 0 \in DOMAIN ConfigAt
  /\ \A r \in Requests : \A ask \in Asks[r] : ask.kind = "turn" =>
       \A c \in DOMAIN ConfigAt : ConfigAt[c][ask.model] \in Route \union {None}

\* A version first seen, and the one seen before it.
Label == Safe \union {"unparseable"}
Transition == [from : Label \union {None}, to : Label]

ASSUME NoneAssumption ==
  None \notin Providers \union Route \union Transition \union {"empty", "timeout", "stream_truncated"}

VARIABLES
  config,    \* the revision in force
  server,    \* "serving", "draining" (told to stop) or "exited"
  asked,     \* what each request asks
  pc,        \* where its handler stands, or its streaming task
  route,     \* the route it has looked up
  holds,     \* the label its InFlightGuard counts under
  gone,      \* the requests whose client has hung up
  status,    \* the status its client was sent
  gauge,     \* requests in flight, by provider
  counted,   \* what was counted for each, by class
  logged,    \* the status of each of its log lines
  saved,     \* the turns that were stored
  tracker,   \* CodexVersionTracker: [seen, current]
  pending,   \* the transition a handler has yet to report
  reported,  \* the transitions reported
  observed   \* the labels observed, in order (only recorded)

core == <<config, server>>
books == <<gauge, counted, logged, saved>>
tripwire == <<tracker, pending, reported, observed>>
vars == <<core, asked, pc, route, holds, gone, status, books, tripwire>>

-----------------------------------------------------------------------------
(* Statuses and classes *)

IsError(s) == s \in {"4xx", "5xx"}

\* ErrorClass::from_status; "empty" is a success.
FromStatus(s) == CASE s = "2xx" -> "empty" [] s = "4xx" -> "http_4xx" [] s = "5xx" -> "http_5xx" [] OTHER -> "network"

\* Bug: a streaming request is never logged by the handler.
LoggedHereNever(ask, s) == ~ask.stream

\* Whether the handler logs, or leaves it to the streaming task.
LoggedHere(ask, s) == ~ask.stream \/ IsError(s)

-----------------------------------------------------------------------------
(* Handlers *)

Init ==
  /\ config = 0 /\ server = "serving"
  /\ asked = [r \in Requests |-> None]
  /\ pc = [r \in Requests |-> "unborn"]
  /\ route = [r \in Requests |-> None]
  /\ holds = [r \in Requests |-> None]
  /\ gone = {}
  /\ status = [r \in Requests |-> None]
  /\ gauge = [p \in Providers |-> 0]
  /\ counted = [r \in Requests |-> <<>>]
  /\ logged = [r \in Requests |-> <<>>]
  /\ saved = {}
  /\ tracker = [seen |-> {}, current |-> None]
  /\ pending = [r \in Requests |-> None]
  /\ reported = {}
  /\ observed = <<>>

Running == server # "exited"

Count(r, class) == counted' = [counted EXCEPT ![r] = Append(@, class)]
GoTo(r, place) == pc' = [pc EXCEPT ![r] = place]

\* InFlightGuard::drop.
Release(r) ==
  /\ gauge' = IF holds[r] = None THEN gauge ELSE [gauge EXCEPT ![holds[r]] = @ - 1]
  /\ holds' = [holds EXCEPT ![r] = None]

\* The handler returns: the guard is dropped, the request logged if it is for
\* the handler to do it, and the client gets the response.
Answer(r, s) ==
  /\ Release(r)
  /\ status' = [status EXCEPT ![r] = s]
  /\ logged' = IF LoggedHere(asked[r], s) THEN [logged EXCEPT ![r] = Append(@, s)] ELSE logged
  /\ GoTo(r, "answered")

\* Errors before there is a guard.
Reject(r, s) == Answer(r, s) /\ UNCHANGED <<route, counted, saved>>

\* POST /responses: a body that does not parse is answered at once.
ReceiveTurn(r) ==
  /\ server = "serving" /\ pc[r] = "unborn"
  /\ \E ask \in {a \in Asks[r] : a.kind = "turn"} :
       /\ asked' = [asked EXCEPT ![r] = ask]
       /\ GoTo(r, "parsed")
  /\ UNCHANGED <<core, route, holds, gone, status, books, tripwire>>

\* A body that is no request is never taken for a streaming one.
ReceiveGarbage(r) ==
  /\ server = "serving" /\ pc[r] = "unborn"
  /\ asked' = [asked EXCEPT ![r] = [kind |-> "garbage", stream |-> FALSE]]
  /\ status' = [status EXCEPT ![r] = "4xx"]
  /\ logged' = [logged EXCEPT ![r] = Append(@, "4xx")]
  /\ GoTo(r, "answered")
  /\ UNCHANGED <<core, route, holds, gone, gauge, counted, saved, tripwire>>

\* The route is cloned under a read guard.
LookupRoute(r) ==
  /\ Running /\ pc[r] = "parsed"
  /\ LET found == ConfigAt[config][asked[r].model]
     IN IF found = None
        THEN Reject(r, "4xx")
        ELSE /\ route' = [route EXCEPT ![r] = found]
             /\ GoTo(r, "routed")
             /\ UNCHANGED <<holds, status, books>>
  /\ UNCHANGED <<core, asked, gone, tripwire>>

\* After the history was fetched, the key is resolved from that route.
ResolveApiKey(r) ==
  /\ Running /\ pc[r] = "routed"
  /\ IF route[r].key
     THEN GoTo(r, "keyed") /\ UNCHANGED <<route, holds, status, books>>
     ELSE Reject(r, "5xx")
  /\ UNCHANGED <<core, asked, gone, tripwire>>

\* After the quirks were read, the guard is made and the request sent.
CallUpstream(r) ==
  /\ Running /\ pc[r] = "keyed"
  /\ holds' = [holds EXCEPT ![r] = route[r].provider]
  /\ gauge' = [gauge EXCEPT ![route[r].provider] = @ + 1]
  /\ GoTo(r, "calling")
  /\ UNCHANGED <<core, asked, route, gone, status, counted, logged, saved, tripwire>>

\* No response: network, or the timeout (on the headers only, for a stream).
SendFails(r) ==
  /\ Running /\ pc[r] = "calling"
  /\ \E class \in {"network", "timeout"} : Count(r, class)
  /\ Answer(r, "5xx")
  /\ UNCHANGED <<core, asked, route, gone, saved, tripwire>>

\* A status other than 2xx: the body is read first, for no longer than the
\* timeout, and whatever comes of that the status is passed on.
UpstreamRefuses(r) ==
  /\ Running /\ pc[r] = "calling"
  /\ \E s \in {"3xx", "4xx", "5xx"} : status' = [status EXCEPT ![r] = s]
  /\ GoTo(r, "refused")
  /\ UNCHANGED <<core, asked, route, holds, gone, books, tripwire>>

UpstreamNon2xx(r) ==
  /\ Running /\ pc[r] = "refused"
  /\ Count(r, FromStatus(status[r]))
  /\ Answer(r, status[r])
  /\ UNCHANGED <<core, asked, route, gone, saved, tripwire>>

\* Bug: the guard is not moved into the task.
GuardOfTaskDropped(r) == Release(r)

\* The guard of a stream is moved into its task.
GuardOfTask(r) == UNCHANGED <<gauge, holds>>

\* 2xx and a stream: the task is spawned and the response begins.
StartStream(r) ==
  /\ Running /\ pc[r] = "calling" /\ asked[r].stream
  /\ GuardOfTask(r)
  /\ status' = [status EXCEPT ![r] = "2xx"]
  /\ GoTo(r, "streaming")
  /\ UNCHANGED <<core, asked, route, gone, counted, logged, saved, tripwire>>

StartReading(r) ==
  /\ Running /\ pc[r] = "calling" /\ ~asked[r].stream
  /\ GoTo(r, "reading")
  /\ UNCHANGED <<core, asked, route, holds, gone, status, books, tripwire>>

\* read_body_capped: the body is too large, breaks off or takes too long.
ReadBodyFails(r) ==
  /\ Running /\ pc[r] = "reading"
  /\ \E class \in {"network", "timeout"} : Count(r, class)
  /\ Answer(r, "5xx")
  /\ UNCHANGED <<core, asked, route, gone, saved, tripwire>>

\* A body of the chat path that is none is counted under the upstream's status.
UnreadableChatBody(r) ==
  /\ Running /\ pc[r] = "reading" /\ route[r].format = "chat"
  /\ Count(r, FromStatus("2xx"))
  /\ Answer(r, "5xx")
  /\ UNCHANGED <<core, asked, route, gone, saved, tripwire>>

\* The chat path counts, then saves.
ConvertChatBody(r) ==
  /\ Running /\ pc[r] = "reading" /\ route[r].format = "chat"
  /\ Count(r, "empty")
  /\ GoTo(r, "saving")
  /\ UNCHANGED <<core, asked, route, holds, gone, status, gauge, logged, saved, tripwire>>

SaveChatTurn(r) ==
  /\ Running /\ pc[r] = "saving"
  /\ saved' = IF asked[r].store THEN saved \union {r} ELSE saved
  /\ Answer(r, "2xx")
  /\ UNCHANGED <<core, asked, route, gone, counted, tripwire>>

\* The passthrough path saves, then counts.  Without an id nothing is saved.
SavePassthroughTurn(r) ==
  /\ Running /\ pc[r] = "reading" /\ route[r].format = "responses"
  /\ \/ saved' = (IF asked[r].store THEN saved \union {r} ELSE saved) /\ GoTo(r, "counting")
     \/ saved' = saved /\ GoTo(r, "counting without id")
  /\ UNCHANGED <<core, asked, route, holds, gone, status, gauge, counted, logged, tripwire>>

CountPassthroughTurn(r) ==
  /\ Running /\ pc[r] \in {"counting", "counting without id"}
  /\ Count(r, IF pc[r] = "counting" THEN "empty" ELSE "stream_truncated")
  /\ Answer(r, "2xx")
  /\ UNCHANGED <<core, asked, route, gone, saved, tripwire>>

-----------------------------------------------------------------------------
(* Streaming tasks *)

\* stream_metrics_error_class.
StreamClass(completed, disconnected, timedOut) ==
  IF disconnected THEN None ELSE IF completed THEN "empty" ELSE IF timedOut THEN "timeout" ELSE "stream_truncated"

\* The stream has ended; that the client has hung up may go unnoticed.
StreamEnds(r) ==
  /\ Running /\ pc[r] = "streaming"
  /\ \E completed, timedOut \in BOOLEAN, disconnected \in {FALSE, (r \in gone)} :
       LET class == StreamClass(completed, disconnected, timedOut)
       IN /\ IF class = None THEN UNCHANGED counted ELSE Count(r, class)
          /\ GoTo(r, IF completed THEN "storing" ELSE "closing")
  /\ UNCHANGED <<core, asked, route, holds, gone, status, gauge, logged, saved, tripwire>>

StoreStream(r) ==
  /\ Running /\ pc[r] = "storing"
  /\ saved' = IF asked[r].store THEN saved \union {r} ELSE saved
  /\ GoTo(r, "closing")
  /\ UNCHANGED <<core, asked, route, holds, gone, status, gauge, counted, logged, tripwire>>

\* The line is written and the guard dropped, then the body ends.
CloseStream(r) ==
  /\ Running /\ pc[r] = "closing"
  /\ Release(r)
  /\ \E s \in {"2xx", "5xx"} : logged' = [logged EXCEPT ![r] = Append(@, s)]
  /\ GoTo(r, "answered")
  /\ UNCHANGED <<core, asked, route, gone, status, counted, saved, tripwire>>

-----------------------------------------------------------------------------
(* GET /models *)

\* The last word with a digit.
NormalizeVersion(raw) ==
  LET versions == SelectSeq(raw, LAMBDA w : w \in Digits)
  IN IF versions = <<>> THEN None ELSE Last(versions)

ClientVersionLabel(raw) ==
  IF NormalizeVersion(raw) \in Safe THEN NormalizeVersion(raw) ELSE "unparseable"

\* Bug: the cap alone decides.
FirstSightingCapped(label) == Cardinality(tracker.seen) < MAX_TRACKED_VERSIONS

FirstSighting(label) == Cardinality(tracker.seen) < MAX_TRACKED_VERSIONS /\ label \notin tracker.seen

\* Without a client_version the list of routes is served.
ListModels(r) ==
  /\ server = "serving" /\ pc[r] = "unborn"
  /\ \E ask \in {a \in Asks[r] : a.kind = "models" /\ a.version = None} : asked' = [asked EXCEPT ![r] = ask]
  /\ GoTo(r, "listing")
  /\ UNCHANGED <<core, route, holds, gone, status, books, tripwire>>

\* CodexVersionTracker::observe, under both locks.
ObserveClientVersion(r) ==
  /\ server = "serving" /\ pc[r] = "unborn"
  /\ \E ask \in {a \in Asks[r] : a.kind = "models" /\ a.version # None} :
       LET label == ClientVersionLabel(ask.version)
       IN /\ asked' = [asked EXCEPT ![r] = ask]
          /\ pending' = [pending EXCEPT ![r] =
               IF FirstSighting(label) THEN [from |-> tracker.current, to |-> label] ELSE None]
          /\ tracker' = [seen |-> IF FirstSighting(label) THEN tracker.seen \union {label} ELSE tracker.seen,
                         current |-> label]
          /\ observed' = Append(observed, label)
  /\ GoTo(r, "observed")
  /\ UNCHANGED <<core, route, holds, gone, status, books, reported>>

\* The line and the metrics of a new version, before the handler first awaits.
ReportClientVersion(r) ==
  /\ Running /\ pc[r] = "observed"
  /\ reported' = IF pending[r] = None THEN reported ELSE reported \union {[by |-> r, transition |-> pending[r]]}
  /\ pending' = [pending EXCEPT ![r] = None]
  /\ GoTo(r, "listing")
  /\ UNCHANGED <<core, asked, route, holds, gone, status, books, tracker, observed>>

\* The catalog, or 304; not logged.
ServeModels(r) ==
  /\ Running /\ pc[r] = "listing"
  /\ \E s \in {"2xx", "3xx"} : status' = [status EXCEPT ![r] = s]
  /\ GoTo(r, "answered")
  /\ UNCHANGED <<core, asked, route, holds, gone, books, tripwire>>

-----------------------------------------------------------------------------
(* The surroundings *)

Reload ==
  /\ Running /\ config + 1 \in DOMAIN ConfigAt
  /\ config' = config + 1
  /\ UNCHANGED <<server, asked, pc, route, holds, gone, status, books, tripwire>>

\* Where a handler waits.
Awaiting == {"parsed", "routed", "keyed", "calling", "refused", "reading", "saving", "counting",
             "counting without id", "listing"}
Streaming == {"streaming", "storing", "closing"}

\* The client hangs up.  A handler is dropped where it waits, and its guard
\* with it; a streaming task goes on.
Disconnect(r) ==
  /\ Running /\ r \notin gone
  /\ gone' = gone \union {r}
  /\ \/ /\ pc[r] \in Awaiting
        /\ Release(r)
        /\ GoTo(r, "dropped")
     \/ /\ pc[r] \in Streaming
        /\ UNCHANGED <<gauge, holds, pc>>
  /\ UNCHANGED <<core, asked, route, status, counted, logged, saved, tripwire>>

\* SIGINT or SIGTERM: no new request; those that have a client are finished.
Shutdown ==
  /\ server = "serving"
  /\ server' = "draining"
  /\ UNCHANGED <<config, asked, pc, route, holds, gone, status, books, tripwire>>

Connected(r) == pc[r] \notin {"unborn", "answered", "dropped"} /\ r \notin gone

Exit ==
  /\ server = "draining"
  /\ \A r \in Requests : ~Connected(r)
  /\ server' = "exited"
  /\ UNCHANGED <<config, asked, pc, route, holds, gone, status, books, tripwire>>

Handle(r) ==
  \/ ReceiveTurn(r) \/ ReceiveGarbage(r) \/ LookupRoute(r) \/ ResolveApiKey(r)
  \/ CallUpstream(r) \/ SendFails(r) \/ UpstreamRefuses(r) \/ UpstreamNon2xx(r)
  \/ StartStream(r) \/ StartReading(r) \/ ReadBodyFails(r) \/ UnreadableChatBody(r)
  \/ ConvertChatBody(r) \/ SaveChatTurn(r) \/ SavePassthroughTurn(r) \/ CountPassthroughTurn(r)
  \/ StreamEnds(r) \/ StoreStream(r) \/ CloseStream(r)
  \/ ListModels(r) \/ ObserveClientVersion(r) \/ ReportClientVersion(r) \/ ServeModels(r)

Next ==
  \/ \E r \in Requests : Handle(r)
  \/ \E r \in Requests : Disconnect(r)
  \/ Reload
  \/ Shutdown
  \/ Exit

Spec == Init /\ [][Next]_vars

-----------------------------------------------------------------------------
(* Properties *)

\* One line per request on every path (src/src/proxy/mod.rs:813-818): the line
\* of a turn is written once, by its handler or by its streaming task, before
\* the client has the whole answer; a stopped server has written it for every
\* client that stayed.  A streaming turn that an upstream answers 3xx is the
\* exception: neither writes it.
OneLogLine ==
  \A r \in Requests :
    /\ Len(logged[r]) <= 1
    /\ pc[r] = "answered" /\ asked[r].kind # "models" /\ ~(asked[r].stream /\ status[r] = "3xx")
         => logged[r] # <<>>
    /\ logged[r] # <<>> => pc[r] = "answered"
    /\ server = "exited" /\ r \notin gone => pc[r] \in {"unborn", "answered"}

\* The books of the upstream calls agree (src/src/proxy/mod.rs:252-278,
\* src/src/proxy/upstream.rs:81-190): the gauge counts exactly the calls whose
\* handler or task is at work, each call is counted once unless its client went
\* away, and the count says what the client was told: success for a 2xx, a
\* failure otherwise.  Only an unreadable chat body is counted as a success and
\* answered 502 (src/src/proxy/chat.rs:439-456).
BooksAgree ==
  /\ \A p \in Providers :
       gauge[p] = Cardinality({r \in Requests :
                     /\ pc[r] \in Streaming \union {"calling", "refused", "reading", "saving", "counting",
                                                    "counting without id"}
                     /\ route[r].provider = p})
  /\ \A r \in Requests :
       LET called == route[r] # None /\ route[r].key
           unreadable == route[r].format = "chat" /\ counted[r] = <<"empty">> /\ status[r] = "5xx"
       IN /\ Len(counted[r]) <= 1
          /\ pc[r] = "answered" /\ called /\ r \notin gone => Len(counted[r]) = 1
          /\ pc[r] = "answered" /\ called /\ ~asked[r].stream /\ ~unreadable
               => (counted[r][1] \in {"empty", "stream_truncated"} <=> status[r] = "2xx")
          /\ r \in saved => counted[r] \in {<<"empty">>, <<>>}
          /\ r \in saved /\ pc[r] = "answered" /\ r \notin gone => counted[r] = <<"empty">> /\ status[r] = "2xx"

\* A client version is reported when it is first seen, once, with the version
\* seen just before, however the requests interleave; once the tracker is full
\* new versions pass in silence, so what callers send cannot make it or the
\* metric series grow (src/src/version.rs:53-83, src/src/proxy/mod.rs:595-628).
ReportedOnce ==
  LET firsts == {n \in DOMAIN observed : observed[n] \notin ToSet(SubSeq(observed, 1, n - 1))}
      tracked == {n \in firsts : Cardinality({m \in firsts : m < n}) < MAX_TRACKED_VERSIONS}
      due == {[from |-> IF n = 1 THEN None ELSE observed[n - 1], to |-> observed[n]] : n \in tracked}
      open == {pending[r] : r \in Requests} \ {None}
  IN /\ {e.transition : e \in reported} \union open = due
     /\ Cardinality(reported) + Cardinality({r \in Requests : pending[r] # None}) = Cardinality(due)
     /\ tracker.seen = {t.to : t \in due}
     /\ Cardinality(tracker.seen) <= MAX_TRACKED_VERSIONS

=============================================================================
