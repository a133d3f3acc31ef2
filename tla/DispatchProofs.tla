---------------------------- MODULE DispatchProofs ----------------------------
(***************************************************************************)
(* One log line per request on every path, for any requests, routes and    *)
(* configurations.  OneLogLine itself is not inductive: whether a handler  *)
(* may leave the line to a task depends on what it has come through, so    *)
(* LogInv adds what is known of a request at each place.                   *)
(***************************************************************************)
EXTENDS Dispatch, FiniteSetTheorems, SequenceTheorems, TLAPS

Statuses == {"2xx", "3xx", "4xx", "5xx"}

\* The functions on requests that the argument looks at.
Shape ==
  /\ DOMAIN asked = Requests
  /\ DOMAIN status = Requests
  /\ DOMAIN pc = Requests
  /\ logged \in [Requests -> Seq(Statuses)]

\* The line is written with the last step.
Line(r) ==
  /\ logged[r] # <<>> => pc[r] = "answered" /\ Len(logged[r]) = 1
  /\ pc[r] = "answered" /\ asked[r].kind # "models" /\ ~(asked[r].stream /\ status[r] = "3xx")
       => logged[r] # <<>>

\* What a request has come through.
Place(r) ==
  /\ pc[r] = "refused" => status[r] \in {"3xx", "4xx", "5xx"}
  /\ pc[r] \in {"reading", "saving", "counting", "counting without id"} => ~asked[r].stream
  /\ pc[r] \in {"listing", "observed"} => asked[r].kind = "models"
  /\ pc[r] = "dropped" => r \in gone
  /\ server = "exited" /\ r \notin gone => pc[r] \in {"unborn", "answered"}

LogInv == Shape /\ \A r \in Requests : Line(r) /\ Place(r)

\* A step of one request leaves the others alone.
Alone(r) ==
  /\ \A q \in Requests \ {r} : /\ pc'[q] = pc[q] /\ asked'[q] = asked[q]
                               /\ status'[q] = status[q] /\ logged'[q] = logged[q]
  /\ UNCHANGED server
  /\ gone \subseteq gone'

\* What one request's step has to show for the whole.
LEMMA OneAtATime ==
  ASSUME LogInv, NEW r \in Requests, Alone(r), Shape', Line(r)', Place(r)'
  PROVE  LogInv'
<1> SUFFICES ASSUME NEW q \in Requests, q # r
             PROVE  Line(q)' /\ Place(q)'
  BY DEF LogInv
<1>1. Line(q) /\ Place(q) BY DEF LogInv
<1>2. Line(q)' BY <1>1 DEF Line, Alone
<1>3. Place(q)' BY <1>1 DEF Place, Alone
<1> QED BY <1>2, <1>3

\* Handing in an answer, from a place where the line has not been written.
LEMMA Answering ==
  ASSUME LogInv, NEW r \in Requests, NEW s \in Statuses,
         pc[r] # "answered", Answer(r, s), UNCHANGED <<server, asked, gone>>,
         s \in {"2xx", "3xx"} => ~asked[r].stream \/ s = "3xx"
  PROVE  LogInv'
<1> USE DEF LogInv, Shape
<1>1. logged[r] = <<>> BY DEF Line
<1>2. Shape'
  <2>1. DOMAIN asked' = Requests /\ DOMAIN status' = Requests BY DEF Answer
  <2>2. DOMAIN pc' = Requests BY DEF Answer, GoTo
  <2>3. Append(logged[r], s) \in Seq(Statuses) OBVIOUS
  <2>4. logged' \in [Requests -> Seq(Statuses)] BY <2>3 DEF Answer
  <2> QED BY <2>1, <2>2, <2>4
<1>3. pc'[r] = "answered" /\ status'[r] = s BY DEF Answer, GoTo
<1>4. logged'[r] \in {<<>>, <<s>>} BY <1>1 DEF Answer
<1>5. LoggedHere(asked[r], s) => logged'[r] = <<s>> BY <1>1 DEF Answer
<1>6. Len(<<s>>) = 1 /\ <<s>> # <<>> OBVIOUS
<1>7. Line(r)'
  <2>1. logged'[r] # <<>> => Len(logged'[r]) = 1 BY <1>4, <1>6
  <2>2. ~(asked[r].stream /\ s = "3xx") => LoggedHere(asked[r], s)
    BY DEF LoggedHere, IsError, Statuses
  <2> QED BY <2>1, <2>2, <1>3, <1>5, <1>6 DEF Line
<1>8. Place(r)' BY <1>3 DEF Place
<1>9. Alone(r) BY DEF Alone, Answer, GoTo
<1> HIDE DEF LogInv
<1> QED BY <1>2, <1>7, <1>8, <1>9, OneAtATime

\* Going on to another place, with no answer yet.
LEMMA GoingOn ==
  ASSUME LogInv, NEW r \in Requests, NEW place, place # "answered",
         pc[r] # "answered", GoTo(r, place), UNCHANGED <<server, logged>>,
         DOMAIN asked' = Requests, DOMAIN status' = Requests,
         \A q \in Requests \ {r} : asked'[q] = asked[q] /\ status'[q] = status[q],
         gone \subseteq gone',
         Place(r)'
  PROVE  LogInv'
<1> USE DEF LogInv, Shape
<1>1. logged'[r] = <<>> BY DEF Line
<1>2. Shape' BY DEF GoTo
<1>3. Line(r)' BY <1>1 DEF Line, GoTo
<1>4. Alone(r) BY DEF Alone, GoTo
<1> HIDE DEF LogInv
<1> QED BY <1>2, <1>3, <1>4, OneAtATime

LEMMA LogInit == Init => LogInv
<1> SUFFICES ASSUME Init PROVE LogInv OBVIOUS
<1>1. Shape BY DEF Init, Shape
<1>2. ASSUME NEW r \in Requests PROVE Line(r) /\ Place(r) BY DEF Init, Line, Place
<1> QED BY <1>1, <1>2 DEF LogInv

LEMMA LogStep == LogInv /\ [Next]_vars => LogInv'
<1> SUFFICES ASSUME LogInv, [Next]_vars PROVE LogInv' OBVIOUS
<1> USE DEF core, books, tripwire
<1>0. /\ DOMAIN asked = Requests /\ DOMAIN status = Requests /\ DOMAIN pc = Requests
      /\ \A r \in Requests : Place(r)
  BY DEF LogInv, Shape
<1>1. ASSUME NEW r \in Requests, Handle(r) PROVE LogInv'
  <2>1. CASE ReceiveTurn(r)
    <3>1. PICK ask \in Asks[r] : asked' = [asked EXCEPT ![r] = ask] BY <2>1 DEF ReceiveTurn
    <3>2. Place(r)' BY <2>1, <1>0 DEF ReceiveTurn, GoTo, Place
    <3> QED BY <2>1, <3>1, <3>2, <1>0, GoingOn DEF ReceiveTurn
  <2>2. CASE ReceiveGarbage(r)
    <3>1. LogInv /\ logged[r] = <<>> BY <2>2 DEF ReceiveGarbage, LogInv, Line
    <3>2. Shape'
      <4>1. Append(logged[r], "4xx") \in Seq(Statuses) BY <3>1 DEF Statuses
      <4> QED BY <4>1, <2>2, <3>1 DEF ReceiveGarbage, GoTo, LogInv, Shape
    <3>3. logged'[r] = <<"4xx">> /\ pc'[r] = "answered" BY <2>2, <3>1 DEF ReceiveGarbage, GoTo, LogInv, Shape
    <3>4. Line(r)' /\ Place(r)' BY <3>3, <2>2 DEF Line, Place, ReceiveGarbage
    <3>5. Alone(r) BY <2>2 DEF ReceiveGarbage, GoTo, Alone
    <3> QED BY <3>2, <3>4, <3>5, OneAtATime
  <2>3. CASE LookupRoute(r)
    <3>1. CASE Reject(r, "4xx") BY <2>3, <3>1, Answering DEF LookupRoute, Reject, Statuses
    <3>2. CASE ~Reject(r, "4xx")
      <4>1. GoTo(r, "routed") /\ UNCHANGED <<server, logged, asked, status, gone>> BY <2>3, <3>2 DEF LookupRoute
      <4>2. Place(r)' BY <2>3, <4>1, <1>0 DEF LookupRoute, GoTo, Place, Running
      <4> QED BY <2>3, <4>1, <4>2, <1>0, GoingOn DEF LookupRoute
    <3> QED BY <3>1, <3>2
  <2>4. CASE ResolveApiKey(r)
    <3>1. CASE Reject(r, "5xx") BY <2>4, <3>1, Answering DEF ResolveApiKey, Reject, Statuses
    <3>2. CASE ~Reject(r, "5xx")
      <4>1. GoTo(r, "keyed") /\ UNCHANGED <<server, logged, asked, status, gone>> BY <2>4, <3>2 DEF ResolveApiKey
      <4>2. Place(r)' BY <2>4, <4>1, <1>0 DEF ResolveApiKey, GoTo, Place, Running
      <4> QED BY <2>4, <4>1, <4>2, <1>0, GoingOn DEF ResolveApiKey
    <3> QED BY <3>1, <3>2
  <2>5. CASE CallUpstream(r)
    <3>1. Place(r)' BY <2>5, <1>0 DEF CallUpstream, GoTo, Place, Running
    <3> QED BY <2>5, <3>1, <1>0, GoingOn DEF CallUpstream
  <2>6. CASE SendFails(r) BY <2>6, Answering DEF SendFails, Statuses
  <2>7. CASE UpstreamRefuses(r)
    <3>1. PICK s \in {"3xx", "4xx", "5xx"} : status' = [status EXCEPT ![r] = s] BY <2>7 DEF UpstreamRefuses
    <3>2. Place(r)' BY <2>7, <3>1, <1>0 DEF UpstreamRefuses, GoTo, Place, Running
    <3> QED BY <2>7, <3>1, <3>2, <1>0, GoingOn DEF UpstreamRefuses
  <2>8. CASE UpstreamNon2xx(r)
    <3>1. status[r] \in {"3xx", "4xx", "5xx"} BY <2>8, <1>0 DEF UpstreamNon2xx, Place
    <3>2. status[r] \in Statuses BY <3>1 DEF Statuses
    <3> QED BY <2>8, <3>1, <3>2, Answering DEF UpstreamNon2xx
  <2>9. CASE StartStream(r)
    <3>1. Place(r)' BY <2>9, <1>0 DEF StartStream, GoTo, Place, Running
    <3> QED BY <2>9, <3>1, <1>0, GoingOn DEF StartStream
  <2>10. CASE StartReading(r)
    <3>1. Place(r)' BY <2>10, <1>0 DEF StartReading, GoTo, Place, Running
    <3> QED BY <2>10, <3>1, <1>0, GoingOn DEF StartReading
  <2>11. CASE ReadBodyFails(r) BY <2>11, Answering DEF ReadBodyFails, Statuses
  <2>12. CASE UnreadableChatBody(r) BY <2>12, Answering DEF UnreadableChatBody, Statuses
  <2>13. CASE ConvertChatBody(r)
    <3>1. Place(r)' BY <2>13, <1>0 DEF ConvertChatBody, GoTo, Place, Running
    <3> QED BY <2>13, <3>1, <1>0, GoingOn DEF ConvertChatBody
  <2>14. CASE SaveChatTurn(r)
    <3>1. ~asked[r].stream BY <2>14, <1>0 DEF SaveChatTurn, Place
    <3> QED BY <2>14, <3>1, Answering DEF SaveChatTurn, Statuses
  <2>15. CASE SavePassthroughTurn(r)
    <3>1. PICK place \in {"counting", "counting without id"} : GoTo(r, place) BY <2>15 DEF SavePassthroughTurn
    <3>2. Place(r)' BY <2>15, <3>1, <1>0 DEF SavePassthroughTurn, GoTo, Place, Running
    <3> QED BY <2>15, <3>1, <3>2, <1>0, GoingOn DEF SavePassthroughTurn
  <2>16. CASE CountPassthroughTurn(r)
    <3>1. ~asked[r].stream BY <2>16, <1>0 DEF CountPassthroughTurn, Place
    <3>2. pc[r] # "answered" BY <2>16 DEF CountPassthroughTurn
    <3> QED BY <2>16, <3>1, <3>2, Answering DEF CountPassthroughTurn, Statuses
  <2>17. CASE StreamEnds(r)
    <3>1. PICK place \in {"storing", "closing"} : GoTo(r, place) BY <2>17 DEF StreamEnds
    <3>2. Place(r)' BY <2>17, <3>1, <1>0 DEF StreamEnds, GoTo, Place, Running
    <3> QED BY <2>17, <3>1, <3>2, <1>0, GoingOn DEF StreamEnds
  <2>18. CASE StoreStream(r)
    <3>1. Place(r)' BY <2>18, <1>0 DEF StoreStream, GoTo, Place, Running
    <3> QED BY <2>18, <3>1, <1>0, GoingOn DEF StoreStream
  <2>19. CASE CloseStream(r)
    <3>1. PICK s \in {"2xx", "5xx"} : logged' = [logged EXCEPT ![r] = Append(@, s)] BY <2>19 DEF CloseStream
    <3>2. logged[r] = <<>> BY <2>19 DEF CloseStream, LogInv, Line
    <3>3. Shape'
      <4>1. Append(logged[r], s) \in Seq(Statuses) BY DEF LogInv, Shape, Statuses
      <4> QED BY <4>1, <2>19, <3>1 DEF CloseStream, GoTo, LogInv, Shape
    <3>4. logged'[r] = <<s>> /\ pc'[r] = "answered" BY <2>19, <3>1, <3>2 DEF CloseStream, GoTo, LogInv, Shape
    <3>5. Line(r)' /\ Place(r)' BY <3>4 DEF Line, Place
    <3>6. Alone(r) BY <2>19, <3>1 DEF CloseStream, GoTo, Alone
    <3> QED BY <3>3, <3>5, <3>6, OneAtATime
  <2>20. CASE ListModels(r)
    <3>1. PICK ask \in Asks[r] : ask.kind = "models" /\ asked' = [asked EXCEPT ![r] = ask] BY <2>20 DEF ListModels
    <3>2. Place(r)' BY <2>20, <3>1, <1>0 DEF ListModels, GoTo, Place
    <3> QED BY <2>20, <3>1, <3>2, <1>0, GoingOn DEF ListModels
  <2>21. CASE ObserveClientVersion(r)
    <3>1. PICK ask \in Asks[r] : ask.kind = "models" /\ asked' = [asked EXCEPT ![r] = ask]
      BY <2>21 DEF ObserveClientVersion
    <3>2. Place(r)' BY <2>21, <3>1, <1>0 DEF ObserveClientVersion, GoTo, Place
    <3> QED BY <2>21, <3>1, <3>2, <1>0, GoingOn DEF ObserveClientVersion
  <2>22. CASE ReportClientVersion(r)
    <3>1. Place(r)' BY <2>22, <1>0 DEF ReportClientVersion, GoTo, Place, Running
    <3> QED BY <2>22, <3>1, <1>0, GoingOn DEF ReportClientVersion
  <2>23. CASE ServeModels(r)
    <3>1. PICK s \in {"2xx", "3xx"} : status' = [status EXCEPT ![r] = s] BY <2>23 DEF ServeModels
    <3>2. asked'[r].kind = "models" /\ pc'[r] = "answered" /\ logged'[r] = <<>>
      BY <2>23, <1>0 DEF ServeModels, GoTo, Place, LogInv, Line
    <3>3. Line(r)' /\ Place(r)' BY <3>2 DEF Line, Place
    <3>4. Shape' /\ Alone(r) BY <2>23, <3>1 DEF ServeModels, GoTo, LogInv, Shape, Alone
    <3> QED BY <3>3, <3>4, OneAtATime
  <2> QED
    BY <1>1, <2>1, <2>2, <2>3, <2>4, <2>5, <2>6, <2>7, <2>8, <2>9, <2>10, <2>11, <2>12, <2>13, <2>14,
       <2>15, <2>16, <2>17, <2>18, <2>19, <2>20, <2>21, <2>22, <2>23 DEF Handle
<1>2. ASSUME NEW r \in Requests, Disconnect(r) PROVE LogInv'
  <2>1. CASE GoTo(r, "dropped") /\ pc[r] \in Awaiting
    <3>1. pc[r] # "answered" BY <2>1 DEF Awaiting
    <3>2. Place(r)' BY <1>2, <2>1, <1>0 DEF Disconnect, GoTo, Place, Running
    <3> QED BY <1>2, <2>1, <3>1, <3>2, <1>0, GoingOn DEF Disconnect
  <2>2. CASE pc' = pc
    BY <1>2, <2>2 DEF Disconnect, LogInv, Shape, Line, Place, Running
  <2> QED BY <1>2, <2>1, <2>2 DEF Disconnect
<1>3. CASE Reload BY <1>3 DEF Reload, LogInv, Shape, Line, Place
<1>4. CASE Shutdown BY <1>4 DEF Shutdown, LogInv, Shape, Line, Place
<1>5. CASE Exit BY <1>5 DEF Exit, Connected, LogInv, Shape, Line, Place
<1>6. CASE UNCHANGED vars BY <1>6 DEF vars, LogInv, Shape, Line, Place
<1> QED BY <1>1, <1>2, <1>3, <1>4, <1>5, <1>6 DEF Next

\* Whatever requests, routes and reloads there are, a turn's line is written
\* once, by its handler or its task, and none is missing when the client has
\* its answer (src/src/proxy/mod.rs:813-818).
THEOREM OneLogLineHolds == Spec => []OneLogLine
<1>1. LogInv => OneLogLine
  <2> SUFFICES ASSUME LogInv, NEW r \in Requests
               PROVE  /\ Len(logged[r]) <= 1
                      /\ pc[r] = "answered" /\ asked[r].kind # "models" /\ ~(asked[r].stream /\ status[r] = "3xx")
                           => logged[r] # <<>>
                      /\ logged[r] # <<>> => pc[r] = "answered"
                      /\ server = "exited" /\ r \notin gone => pc[r] \in {"unborn", "answered"}
    BY DEF OneLogLine
  <2>1. Line(r) /\ Place(r) BY DEF LogInv
  <2>2. Len(logged[r]) \in {0, 1}
    <3>1. CASE logged[r] = <<>> BY <3>1
    <3>2. CASE logged[r] # <<>> BY <3>2, <2>1 DEF Line
    <3> QED BY <3>1, <3>2
  <2>3. Len(logged[r]) <= 1
    <3>1. \A n \in {0, 1} : n <= 1 OBVIOUS
    <3> QED BY <2>2, <3>1
  <2> QED BY <2>1, <2>3 DEF Line, Place
<1> QED BY <1>1, LogInit, LogStep, PTL DEF Spec


-----------------------------------------------------------------------------
(* The books of the upstream calls                                         *)
(*                                                                         *)
(* BooksAgree looks at a request where it ends; what it says there depends *)
(* on the way the request came, so Trail says at each place which route    *)
(* was found, whether the guard is held, and what has been counted and     *)
(* saved so far.                                                           *)

AtWork == Streaming \union {"calling", "refused", "reading", "saving", "counting",
                            "counting without id"}

BookShape ==
  /\ config \in DOMAIN ConfigAt
  /\ DOMAIN asked = Requests /\ DOMAIN pc = Requests /\ DOMAIN status = Requests
  /\ route \in [Requests -> Route \union {None}]
  /\ holds \in [Requests -> Providers \union {None}]
  /\ gauge \in [Providers -> Nat]
  /\ DOMAIN counted = Requests

\* The gauge counts the guards.
GuardsCounted ==
  \A p \in Providers :
    /\ IsFiniteSet({r \in Requests : holds[r] = p})
    /\ gauge[p] = Cardinality({r \in Requests : holds[r] = p})

\* Counted once; a stream that the client left may go uncounted.
CountedOnce(r) == \/ counted[r] = <<>> /\ r \in gone
                  \/ \E class : counted[r] = <<class>>
SavedAsSuccess(r) == r \in saved => counted[r] \in {<<"empty">>, <<>>}

\* What BooksAgree says of an answered request.
Settled(r) ==
  LET called == route[r] # None /\ route[r].key
      unreadable == route[r].format = "chat" /\ counted[r] = <<"empty">> /\ status[r] = "5xx"
  IN /\ Len(counted[r]) <= 1
     /\ called /\ r \notin gone => Len(counted[r]) = 1
     /\ called /\ ~asked[r].stream /\ ~unreadable
          => (counted[r][1] \in {"empty", "stream_truncated"} <=> status[r] = "2xx")
     /\ SavedAsSuccess(r)
     /\ r \in saved /\ r \notin gone => counted[r] = <<"empty">> /\ status[r] = "2xx"

\* The route and the guard of a request at each place.
Routed(r) ==
  /\ pc[r] = "parsed" => asked[r] \in Asks[r] /\ asked[r].kind = "turn"
  /\ pc[r] \in {"unborn", "parsed", "observed", "listing"} => route[r] = None
  /\ pc[r] \in AtWork \union {"routed", "keyed"} => route[r] \in Route
  /\ pc[r] \in AtWork \union {"keyed"} => route[r].key
  /\ holds[r] = IF pc[r] \in AtWork THEN route[r].provider ELSE None

\* What it has counted, saved and sent by then.
Trail(r) ==
  /\ pc[r] \in {"unborn", "parsed", "observed", "listing", "routed", "keyed", "calling", "refused",
                "reading", "streaming", "counting without id"} => counted[r] = <<>> /\ r \notin saved
  /\ pc[r] = "refused" => status[r] \in {"3xx", "4xx", "5xx"}
  /\ pc[r] \in {"reading", "saving", "counting", "counting without id"} => ~asked[r].stream
  /\ pc[r] = "saving" => counted[r] = <<"empty">> /\ r \notin saved
  /\ pc[r] = "counting" => counted[r] = <<>>
  /\ pc[r] \in Streaming => asked[r].stream /\ status[r] = "2xx"
  /\ pc[r] = "storing" => r \notin saved /\ (counted[r] = <<"empty">> \/ (counted[r] = <<>> /\ r \in gone))
  /\ pc[r] = "closing" => CountedOnce(r) /\ SavedAsSuccess(r)
  /\ pc[r] = "dropped" => r \in gone /\ CountedOnce(r) /\ SavedAsSuccess(r)
  /\ pc[r] = "answered" => Settled(r)
  /\ pc[r] \in AtWork \union {"unborn", "parsed", "routed", "keyed", "observed", "listing",
                              "dropped", "answered"}

BookInv == BookShape /\ GuardsCounted /\ \A r \in Requests : Routed(r) /\ Trail(r)

\* What a step leaves of the other requests.
Apart(r) ==
  /\ \A q \in Requests \ {r} :
       /\ pc'[q] = pc[q] /\ asked'[q] = asked[q] /\ route'[q] = route[q] /\ holds'[q] = holds[q]
       /\ status'[q] = status[q] /\ counted'[q] = counted[q] /\ (q \in saved' <=> q \in saved)
  /\ gone \subseteq gone'

LEMMA OneBookAtATime ==
  ASSUME BookInv, NEW r \in Requests, Apart(r), BookShape', GuardsCounted', Routed(r)', Trail(r)'
  PROVE  BookInv'
<1> SUFFICES ASSUME NEW q \in Requests, q # r
             PROVE  Routed(q)' /\ Trail(q)'
  BY DEF BookInv
<1>1. Routed(q) /\ Trail(q) BY DEF BookInv
<1>2. /\ pc'[q] = pc[q] /\ asked'[q] = asked[q] /\ route'[q] = route[q] /\ holds'[q] = holds[q]
      /\ status'[q] = status[q] /\ counted'[q] = counted[q] /\ (q \in saved' <=> q \in saved)
      /\ q \in gone => q \in gone'
  BY DEF Apart
<1>3. Routed(q)' BY <1>1, <1>2 DEF Routed
<1>4. Settled(q) => Settled(q)' BY <1>2 DEF Settled, SavedAsSuccess
<1>5. /\ CountedOnce(q) => CountedOnce(q)'
      /\ SavedAsSuccess(q) => SavedAsSuccess(q)'
  BY <1>2 DEF CountedOnce, SavedAsSuccess
<1>6. Trail(q)' BY <1>1, <1>2, <1>4, <1>5, ZenonT(40) DEF Trail
<1> QED BY <1>3, <1>6

\* A guard is dropped at most once: the gauge and the holders fall together.
LEMMA ReleaseKeepsCount ==
  ASSUME BookShape, GuardsCounted, NEW r \in Requests, Release(r)
  PROVE  /\ GuardsCounted'
         /\ holds' \in [Requests -> Providers \union {None}] /\ holds'[r] = None
         /\ \A q \in Requests \ {r} : holds'[q] = holds[q]
         /\ gauge' \in [Providers -> Nat]
<1> DEFINE H(p) == {q \in Requests : holds[q] = p}
           G(p) == {q \in Requests : holds'[q] = p}
<1>1. /\ holds' = [holds EXCEPT ![r] = None]
      /\ gauge' = IF holds[r] = None THEN gauge ELSE [gauge EXCEPT ![holds[r]] = @ - 1]
  BY DEF Release
<1>2. /\ holds' \in [Requests -> Providers \union {None}] /\ holds'[r] = None
      /\ \A q \in Requests \ {r} : holds'[q] = holds[q]
  BY <1>1 DEF BookShape
<1>3. ASSUME NEW p \in Providers
      PROVE  IsFiniteSet(G(p)) /\ gauge'[p] = Cardinality(G(p))
  <2>1. IsFiniteSet(H(p)) /\ gauge[p] = Cardinality(H(p)) BY DEF GuardsCounted
  <2>2. G(p) = H(p) \ {r} BY <1>2, NoneAssumption
  <2>3. CASE holds[r] = p
    <3>1. r \in H(p) BY <2>3
    <3>2. IsFiniteSet(H(p) \ {r}) /\ Cardinality(H(p) \ {r}) = Cardinality(H(p)) - 1
      BY <2>1, <3>1, FS_RemoveElement
    <3>3. gauge'[p] = gauge[p] - 1 BY <1>1, <2>3, NoneAssumption DEF BookShape
    <3> QED BY <2>1, <2>2, <3>2, <3>3
  <2>4. CASE holds[r] # p
    <3>1. G(p) = H(p) BY <2>2, <2>4
    <3>2. gauge'[p] = gauge[p] BY <1>1, <2>4 DEF BookShape
    <3> QED BY <2>1, <3>1, <3>2
  <2> QED BY <2>3, <2>4
<1>4. DOMAIN gauge' = Providers /\ gauge' = [p \in Providers |-> gauge'[p]]
  BY <1>1 DEF BookShape
<1>5. gauge' \in [Providers -> Nat]
  <2>1. \A p \in Providers : gauge'[p] \in Nat BY <1>3, FS_CardinalityType
  <2> QED BY <1>4, <2>1
<1> QED BY <1>2, <1>3, <1>5 DEF GuardsCounted

\* A request that holds no guard takes one.
LEMMA TakeKeepsCount ==
  ASSUME BookShape, GuardsCounted, NEW r \in Requests, NEW p \in Providers, holds[r] = None,
         holds' = [holds EXCEPT ![r] = p], gauge' = [gauge EXCEPT ![p] = @ + 1]
  PROVE  GuardsCounted'
<1> DEFINE H(o) == {q \in Requests : holds[q] = o}
           G(o) == {q \in Requests : holds'[q] = o}
<1>1. holds'[r] = p /\ \A q \in Requests \ {r} : holds'[q] = holds[q] BY DEF BookShape
<1>2. ASSUME NEW o \in Providers
      PROVE  IsFiniteSet(G(o)) /\ gauge'[o] = Cardinality(G(o))
  <2>1. IsFiniteSet(H(o)) /\ gauge[o] = Cardinality(H(o)) BY DEF GuardsCounted
  <2>2. r \notin H(o) BY NoneAssumption
  <2>3. CASE o = p
    <3>1. G(o) = H(o) \union {r} BY <1>1, <2>3
    <3>2. IsFiniteSet(H(o) \union {r}) /\ Cardinality(H(o) \union {r}) = Cardinality(H(o)) + 1
      BY <2>1, <2>2, FS_AddElement
    <3>3. gauge'[o] = gauge[o] + 1 BY <2>3 DEF BookShape
    <3> QED BY <2>1, <3>1, <3>2, <3>3
  <2>4. CASE o # p
    <3>1. G(o) = H(o) BY <1>1, <2>2, <2>4
    <3>2. gauge'[o] = gauge[o] BY <2>4 DEF BookShape
    <3> QED BY <2>1, <3>1, <3>2
  <2> QED BY <2>3, <2>4
<1> QED BY <1>2 DEF GuardsCounted

\* Answering: the guard goes; what was counted and saved must settle.
LEMMA AnsweringBooks ==
  ASSUME BookInv, NEW r \in Requests, NEW s, Answer(r, s),
         UNCHANGED <<config, asked, route, gone>>,
         DOMAIN counted' = Requests,
         \A q \in Requests \ {r} : counted'[q] = counted[q] /\ (q \in saved' <=> q \in saved),
         status'[r] = s => Settled(r)'
  PROVE  BookInv'
<1> USE DEF BookInv
<1>1. pc'[r] = "answered" /\ status'[r] = s BY DEF Answer, GoTo, BookShape
<1>2. /\ GuardsCounted'
      /\ holds' \in [Requests -> Providers \union {None}] /\ holds'[r] = None
      /\ \A q \in Requests \ {r} : holds'[q] = holds[q]
      /\ gauge' \in [Providers -> Nat]
  BY ReleaseKeepsCount DEF Answer
<1>3. BookShape' BY <1>2 DEF BookShape, Answer, GoTo
<1>4. Routed(r)' BY <1>1, <1>2 DEF Routed, AtWork, Streaming
<1>5. Trail(r)' BY <1>1 DEF Trail, AtWork, Streaming
<1>6. Apart(r) BY <1>2 DEF Apart, Answer, GoTo, BookShape
<1> HIDE DEF BookInv
<1> QED BY <1>2, <1>3, <1>4, <1>5, <1>6, OneBookAtATime

\* Going on to another place with the guard one has, or without one.
LEMMA MovingBooks ==
  ASSUME BookInv, NEW r \in Requests, NEW place, GoTo(r, place),
         UNCHANGED <<config, gauge, holds>>, gone \subseteq gone',
         DOMAIN asked' = Requests, DOMAIN status' = Requests, DOMAIN counted' = Requests,
         route' \in [Requests -> Route \union {None}],
         \A q \in Requests \ {r} :
           /\ asked'[q] = asked[q] /\ route'[q] = route[q] /\ status'[q] = status[q]
           /\ counted'[q] = counted[q] /\ (q \in saved' <=> q \in saved),
         pc'[r] = place => Routed(r)' /\ Trail(r)'
  PROVE  BookInv'
<1> USE DEF BookInv
<1>1. pc'[r] = place /\ \A q \in Requests \ {r} : pc'[q] = pc[q] BY DEF GoTo, BookShape
<1>2. BookShape' /\ GuardsCounted' BY DEF BookShape, GoTo, GuardsCounted
<1>3. Apart(r) BY <1>1 DEF Apart
<1> HIDE DEF BookInv
<1> QED BY <1>1, <1>2, <1>3, OneBookAtATime

LEMMA BookInit == Init => BookInv
<1> SUFFICES ASSUME Init PROVE BookInv OBVIOUS
<1>1. BookShape BY RoutesAssumption DEF Init, BookShape
<1>2. GuardsCounted
  <2>1. ASSUME NEW p \in Providers PROVE {r \in Requests : holds[r] = p} = {}
    BY NoneAssumption DEF Init
  <2> QED BY <2>1, FS_EmptySet DEF GuardsCounted, Init
<1>3. ASSUME NEW r \in Requests PROVE Routed(r) /\ Trail(r)
  BY DEF Init, Routed, Trail, AtWork, Streaming
<1> QED BY <1>1, <1>2, <1>3 DEF BookInv

LEMMA BookStep == BookInv /\ [Next]_vars => BookInv'
<1> SUFFICES ASSUME BookInv, [Next]_vars PROVE BookInv' OBVIOUS
<1> USE DEF core, books, tripwire
<1>0. BookShape /\ GuardsCounted /\ \A r \in Requests : Routed(r) /\ Trail(r)
  BY DEF BookInv
<1>1. ASSUME NEW r \in Requests, Handle(r) PROVE BookInv'
  <2>0. /\ Routed(r) /\ Trail(r)
        /\ DOMAIN asked = Requests /\ DOMAIN pc = Requests /\ DOMAIN status = Requests
        /\ DOMAIN counted = Requests
        /\ route \in [Requests -> Route \union {None}] /\ holds \in [Requests -> Providers \union {None}]
    BY <1>0 DEF BookShape
  <2>a. \A c : <<c>> # <<>> /\ Len(<<c>>) = 1 /\ <<c>>[1] = c /\ Append(<<>>, c) = <<c>>
    OBVIOUS
  <2>1. CASE ReceiveTurn(r)
    <3>1. PICK ask \in Asks[r] : ask.kind = "turn" /\ asked' = [asked EXCEPT ![r] = ask]
      BY <2>1 DEF ReceiveTurn
    <3>2. GoTo(r, "parsed") /\ UNCHANGED <<config, route, holds, gone, status, gauge, counted, saved>>
          /\ pc[r] = "unborn"
      BY <2>1 DEF ReceiveTurn
    <3>3. pc'[r] = "parsed" => Routed(r)' /\ Trail(r)'
      BY <2>0, <3>1, <3>2 DEF Routed, Trail, AtWork, Streaming
    <3> QED BY <2>0, <3>1, <3>2, <3>3, MovingBooks
  <2>2. CASE ReceiveGarbage(r)
    <3>1. /\ pc[r] = "unborn" /\ GoTo(r, "answered")
          /\ UNCHANGED <<config, route, holds, gone, gauge, counted, saved>>
      BY <2>2 DEF ReceiveGarbage
    <3>2. /\ DOMAIN asked' = Requests /\ DOMAIN status' = Requests
          /\ \A q \in Requests \ {r} : asked'[q] = asked[q] /\ status'[q] = status[q]
      BY <2>0, <2>2 DEF ReceiveGarbage
    <3>3. pc'[r] = "answered" => Routed(r)' /\ Trail(r)'
      BY <2>0, <3>1 DEF Routed, Trail, AtWork, Streaming, Settled, SavedAsSuccess
    <3> QED BY <2>0, <3>1, <3>2, <3>3, MovingBooks
  <2>3. CASE LookupRoute(r)
    <3> DEFINE found == ConfigAt[config][asked[r].model]
    <3>1. pc[r] = "parsed" /\ UNCHANGED <<config, asked, gone>> BY <2>3 DEF LookupRoute
    <3>2. found \in Route \union {None}
      BY <1>0, <2>0, <3>1, RoutesAssumption DEF Routed, BookShape
    <3>3. CASE found = None /\ Reject(r, "4xx")
      <4>1. Settled(r)' BY <2>0, <3>1, <3>3 DEF Reject, Routed, Trail, Settled, SavedAsSuccess
      <4> QED BY <2>0, <3>1, <3>3, <4>1, AnsweringBooks DEF Reject
    <3>4. CASE /\ found # None /\ route' = [route EXCEPT ![r] = found]
               /\ GoTo(r, "routed") /\ UNCHANGED <<holds, status, books>>
      <4>1. found \in Route BY <3>2, <3>4
      <4>2. route' \in [Requests -> Route \union {None}] /\ route'[r] \in Route
            /\ \A q \in Requests \ {r} : route'[q] = route[q]
        BY <2>0, <3>4, <4>1
      <4>3. pc'[r] = "routed" => Routed(r)' /\ Trail(r)'
        BY <2>0, <3>1, <3>4, <4>2 DEF Routed, Trail, AtWork, Streaming
      <4> QED BY <2>0, <3>1, <3>4, <4>2, <4>3, MovingBooks
    <3> QED BY <2>3, <3>3, <3>4 DEF LookupRoute
  <2>4. CASE ResolveApiKey(r)
    <3>1. pc[r] = "routed" /\ UNCHANGED <<config, asked, gone>> BY <2>4 DEF ResolveApiKey
    <3>2. CASE ~route[r].key /\ Reject(r, "5xx")
      <4>1. Settled(r)' BY <2>0, <3>1, <3>2 DEF Reject, Routed, Trail, Settled, SavedAsSuccess
      <4> QED BY <2>0, <3>1, <3>2, <4>1, AnsweringBooks DEF Reject
    <3>3. CASE route[r].key /\ GoTo(r, "keyed") /\ UNCHANGED <<route, holds, status, books>>
      <4>1. pc'[r] = "keyed" => Routed(r)' /\ Trail(r)'
        BY <2>0, <3>1, <3>3 DEF Routed, Trail, AtWork, Streaming
      <4> QED BY <2>0, <3>1, <3>3, <4>1, MovingBooks
    <3> QED BY <2>4, <3>2, <3>3 DEF ResolveApiKey
  <2>5. CASE CallUpstream(r)
    <3>1. /\ pc[r] = "keyed" /\ GoTo(r, "calling")
          /\ holds' = [holds EXCEPT ![r] = route[r].provider]
          /\ gauge' = [gauge EXCEPT ![route[r].provider] = @ + 1]
          /\ UNCHANGED <<config, asked, route, gone, status, counted, saved>>
      BY <2>5 DEF CallUpstream
    <3>2. holds[r] = None /\ route[r] \in Route /\ route[r].key
      BY <2>0, <3>1 DEF Routed, AtWork, Streaming
    <3>3. route[r].provider \in Providers BY <3>2 DEF Route
    <3>4. GuardsCounted' BY <1>0, <3>1, <3>2, <3>3, TakeKeepsCount
    <3>5. BookShape' BY <1>0, <3>1, <3>3 DEF BookShape, GoTo
    <3>6. pc'[r] = "calling" /\ holds'[r] = route[r].provider BY <2>0, <3>1 DEF GoTo
    <3>7. Routed(r)' BY <3>1, <3>2, <3>6 DEF Routed, AtWork, Streaming
    <3>8. Trail(r)' BY <2>0, <3>1, <3>6 DEF Trail, AtWork, Streaming
    <3>9. Apart(r) BY <2>0, <3>1 DEF Apart, GoTo
    <3> QED BY <3>4, <3>5, <3>7, <3>8, <3>9, OneBookAtATime
  <2>6. CASE SendFails(r) \/ ReadBodyFails(r)
    <3>1. PICK class \in {"network", "timeout"} : Count(r, class)
      BY <2>6 DEF SendFails, ReadBodyFails
    <3>2. pc[r] \in {"calling", "reading"} /\ Answer(r, "5xx") /\ UNCHANGED <<config, asked, route, gone, saved>>
      BY <2>6 DEF SendFails, ReadBodyFails
    <3>3. counted'[r] = <<class>> /\ r \notin saved
      BY <2>0, <2>a, <3>1, <3>2 DEF Trail, Count
    <3>4. status'[r] = "5xx" => Settled(r)' BY <2>a, <3>2, <3>3 DEF Settled, SavedAsSuccess
    <3>5. DOMAIN counted' = Requests /\ \A q \in Requests \ {r} : counted'[q] = counted[q]
      BY <2>0, <3>1 DEF Count
    <3> QED BY <3>2, <3>4, <3>5, AnsweringBooks
  <2>7. CASE UpstreamRefuses(r)
    <3>1. PICK s \in {"3xx", "4xx", "5xx"} : status' = [status EXCEPT ![r] = s] BY <2>7 DEF UpstreamRefuses
    <3>2. /\ pc[r] = "calling" /\ GoTo(r, "refused")
          /\ UNCHANGED <<config, asked, route, holds, gone, gauge, counted, saved>>
      BY <2>7 DEF UpstreamRefuses
    <3>3. pc'[r] = "refused" => Routed(r)' /\ Trail(r)'
      BY <2>0, <3>1, <3>2 DEF Routed, Trail, AtWork, Streaming
    <3> QED BY <2>0, <3>1, <3>2, <3>3, MovingBooks
  <2>8. CASE UpstreamNon2xx(r)
    <3>1. /\ pc[r] = "refused" /\ Count(r, FromStatus(status[r])) /\ Answer(r, status[r])
          /\ UNCHANGED <<config, asked, route, gone, saved>>
      BY <2>8 DEF UpstreamNon2xx
    <3>2. status[r] \in {"3xx", "4xx", "5xx"} /\ r \notin saved BY <2>0, <3>1 DEF Trail
    <3>3. counted'[r] = <<FromStatus(status[r])>> BY <2>0, <2>a, <3>1 DEF Trail, Count
    <3>4. FromStatus(status[r]) \notin {"empty", "stream_truncated"} BY <3>2 DEF FromStatus
    <3>5. status'[r] = status[r] => Settled(r)'
      BY <2>a, <3>1, <3>2, <3>3, <3>4 DEF Settled, SavedAsSuccess
    <3>6. DOMAIN counted' = Requests /\ \A q \in Requests \ {r} : counted'[q] = counted[q]
      BY <2>0, <3>1 DEF Count
    <3> QED BY <3>1, <3>5, <3>6, AnsweringBooks
  <2>9. CASE StartStream(r)
    <3>1. /\ pc[r] = "calling" /\ asked[r].stream /\ GoTo(r, "streaming")
          /\ status' = [status EXCEPT ![r] = "2xx"]
          /\ UNCHANGED <<config, asked, route, holds, gone, gauge, counted, saved>>
      BY <2>9 DEF StartStream, GuardOfTask
    <3>2. pc'[r] = "streaming" => Routed(r)' /\ Trail(r)'
      BY <2>0, <3>1 DEF Routed, Trail, AtWork, Streaming
    <3> QED BY <2>0, <3>1, <3>2, MovingBooks
  <2>10. CASE StartReading(r)
    <3>1. /\ pc[r] = "calling" /\ ~asked[r].stream /\ GoTo(r, "reading")
          /\ UNCHANGED <<config, asked, route, holds, gone, status, gauge, counted, saved>>
      BY <2>10 DEF StartReading
    <3>2. pc'[r] = "reading" => Routed(r)' /\ Trail(r)'
      BY <2>0, <3>1 DEF Routed, Trail, AtWork, Streaming
    <3> QED BY <2>0, <3>1, <3>2, MovingBooks
  <2>12. CASE UnreadableChatBody(r)
    <3>1. /\ pc[r] = "reading" /\ route[r].format = "chat" /\ Count(r, "empty") /\ Answer(r, "5xx")
          /\ UNCHANGED <<config, asked, route, gone, saved>>
      BY <2>12 DEF UnreadableChatBody, FromStatus
    <3>2. counted'[r] = <<"empty">> /\ r \notin saved BY <2>0, <2>a, <3>1 DEF Trail, Count
    <3>3. status'[r] = "5xx" => Settled(r)' BY <2>a, <3>1, <3>2 DEF Settled, SavedAsSuccess
    <3>4. DOMAIN counted' = Requests /\ \A q \in Requests \ {r} : counted'[q] = counted[q]
      BY <2>0, <3>1 DEF Count
    <3> QED BY <3>1, <3>3, <3>4, AnsweringBooks
  <2>13. CASE ConvertChatBody(r)
    <3>1. /\ pc[r] = "reading" /\ Count(r, "empty") /\ GoTo(r, "saving")
          /\ UNCHANGED <<config, asked, route, holds, gone, status, gauge, saved>>
      BY <2>13 DEF ConvertChatBody
    <3>2. /\ counted'[r] = <<"empty">> /\ DOMAIN counted' = Requests
          /\ \A q \in Requests \ {r} : counted'[q] = counted[q]
      BY <2>0, <2>a, <3>1 DEF Trail, Count
    <3>3. pc'[r] = "saving" => Routed(r)' /\ Trail(r)'
      BY <2>0, <3>1, <3>2 DEF Routed, Trail, AtWork, Streaming
    <3> QED BY <2>0, <3>1, <3>2, <3>3, MovingBooks
  <2>14. CASE SaveChatTurn(r)
    <3>1. /\ pc[r] = "saving" /\ Answer(r, "2xx") /\ UNCHANGED <<config, asked, route, gone, counted>>
          /\ \A q \in Requests \ {r} : q \in saved' <=> q \in saved
      BY <2>14 DEF SaveChatTurn
    <3>2. counted[r] = <<"empty">> BY <2>0, <3>1 DEF Trail
    <3>3. status'[r] = "2xx" => Settled(r)' BY <2>a, <3>1, <3>2 DEF Settled, SavedAsSuccess
    <3> QED BY <2>0, <3>1, <3>3, AnsweringBooks
  <2>15. CASE SavePassthroughTurn(r)
    <3>1. /\ pc[r] = "reading"
          /\ UNCHANGED <<config, asked, route, holds, gone, status, gauge, counted>>
          /\ \A q \in Requests \ {r} : q \in saved' <=> q \in saved
      BY <2>15 DEF SavePassthroughTurn
    <3>2. CASE GoTo(r, "counting")
      <4>1. pc'[r] = "counting" => Routed(r)' /\ Trail(r)'
        BY <2>0, <3>1 DEF Routed, Trail, AtWork, Streaming
      <4> QED BY <2>0, <3>1, <3>2, <4>1, MovingBooks
    <3>3. CASE GoTo(r, "counting without id") /\ saved' = saved
      <4>1. pc'[r] = "counting without id" => Routed(r)' /\ Trail(r)'
        BY <2>0, <3>1, <3>3 DEF Routed, Trail, AtWork, Streaming
      <4> QED BY <2>0, <3>1, <3>3, <4>1, MovingBooks
    <3> QED BY <2>15, <3>2, <3>3 DEF SavePassthroughTurn
  <2>16. CASE CountPassthroughTurn(r)
    <3> DEFINE class == IF pc[r] = "counting" THEN "empty" ELSE "stream_truncated"
    <3>1. /\ pc[r] \in {"counting", "counting without id"} /\ Count(r, class) /\ Answer(r, "2xx")
          /\ UNCHANGED <<config, asked, route, gone, saved>>
      BY <2>16 DEF CountPassthroughTurn
    <3>2. /\ counted'[r] = <<class>> /\ DOMAIN counted' = Requests
          /\ \A q \in Requests \ {r} : counted'[q] = counted[q]
      BY <2>0, <2>a, <3>1 DEF Trail, Count
    <3>3. r \in saved => class = "empty" BY <2>0, <3>1 DEF Trail
    <3>4. class \in {"empty", "stream_truncated"} OBVIOUS
    <3> HIDE DEF class
    <3>5. status'[r] = "2xx" => Settled(r)'
      <4>1. Len(counted'[r]) = 1 /\ counted'[r][1] = class BY <2>a, <3>2
      <4>2. r \in saved => counted'[r] = <<"empty">> BY <3>2, <3>3
      <4>3. SavedAsSuccess(r)' BY <3>1, <4>2 DEF SavedAsSuccess
      <4>4. counted'[r][1] \in {"empty", "stream_truncated"} BY <3>4, <4>1
      <4>5. r \in saved' => r \in saved BY <3>1
      <4>6. status'[r] = "2xx" => (r \in saved' => counted'[r] = <<"empty">> /\ status'[r] = "2xx")
        BY <4>2, <4>5
      <4>7. Len(counted'[r]) <= 1 BY <4>1
      <4> QED BY <4>1, <4>3, <4>4, <4>6, <4>7 DEF Settled
    <3> QED BY <3>1, <3>2, <3>5, AnsweringBooks
  <2>17. CASE StreamEnds(r)
    <3>1. PICK completed \in BOOLEAN, timedOut \in BOOLEAN, disconnected \in {FALSE, (r \in gone)} :
            /\ IF StreamClass(completed, disconnected, timedOut) = None THEN UNCHANGED counted
               ELSE Count(r, StreamClass(completed, disconnected, timedOut))
            /\ GoTo(r, IF completed THEN "storing" ELSE "closing")
      BY <2>17 DEF StreamEnds
    <3>2. /\ pc[r] = "streaming"
          /\ UNCHANGED <<config, asked, route, holds, gone, status, gauge, saved>>
      BY <2>17 DEF StreamEnds
    <3>3. /\ DOMAIN counted' = Requests
          /\ \A q \in Requests \ {r} : counted'[q] = counted[q]
      BY <2>0, <3>1 DEF Count
    <3>4. counted[r] = <<>> /\ r \notin saved BY <2>0, <3>2 DEF Trail
    <3>5. \/ counted'[r] = <<>> /\ r \in gone
          \/ counted'[r] = <<StreamClass(completed, disconnected, timedOut)>> /\ ~disconnected
      <4>1. CASE disconnected
        <5>1. r \in gone BY <3>1, <4>1
        <5>2. StreamClass(completed, disconnected, timedOut) = None BY <4>1 DEF StreamClass
        <5> QED BY <3>1, <3>4, <5>1, <5>2
      <4>2. CASE ~disconnected
        <5>1. StreamClass(completed, disconnected, timedOut) # None
          BY <4>2, NoneAssumption DEF StreamClass
        <5> QED BY <2>0, <2>a, <3>1, <3>4, <4>2, <5>1 DEF Count
      <4> QED BY <3>1, <4>1, <4>2
    <3>6. CASE completed
      <4>1. pc'[r] = "storing" => Routed(r)' /\ Trail(r)'
        BY <2>0, <3>2, <3>4, <3>5, <3>6 DEF Routed, Trail, AtWork, Streaming, StreamClass
      <4> QED BY <2>0, <3>1, <3>2, <3>3, <3>6, <4>1, MovingBooks
    <3>7. CASE ~completed
      <4>1. CountedOnce(r)' /\ SavedAsSuccess(r)'
        BY <3>2, <3>4, <3>5 DEF CountedOnce, SavedAsSuccess
      <4>2. pc'[r] = "closing" => Routed(r)' /\ Trail(r)'
        BY <2>0, <3>2, <4>1 DEF Routed, Trail, AtWork, Streaming
      <4> QED BY <2>0, <3>1, <3>2, <3>3, <3>7, <4>2, MovingBooks
    <3> QED BY <3>6, <3>7
  <2>18. CASE StoreStream(r)
    <3>1. /\ pc[r] = "storing" /\ GoTo(r, "closing")
          /\ UNCHANGED <<config, asked, route, holds, gone, status, gauge, counted>>
          /\ \A q \in Requests \ {r} : q \in saved' <=> q \in saved
      BY <2>18 DEF StoreStream
    <3>2. CountedOnce(r)' /\ SavedAsSuccess(r)'
      BY <2>0, <3>1 DEF Trail, CountedOnce, SavedAsSuccess
    <3>3. pc'[r] = "closing" => Routed(r)' /\ Trail(r)'
      BY <2>0, <3>1, <3>2 DEF Routed, Trail, AtWork, Streaming
    <3> QED BY <2>0, <3>1, <3>3, MovingBooks
  <2>19. CASE CloseStream(r)
    <3>1. /\ pc[r] = "closing" /\ Release(r) /\ GoTo(r, "answered")
          /\ UNCHANGED <<config, asked, route, gone, status, counted, saved>>
      BY <2>19 DEF CloseStream
    <3>2. /\ GuardsCounted'
          /\ holds' \in [Requests -> Providers \union {None}] /\ holds'[r] = None
          /\ \A q \in Requests \ {r} : holds'[q] = holds[q]
          /\ gauge' \in [Providers -> Nat]
      BY <1>0, <3>1, ReleaseKeepsCount
    <3>3. BookShape' BY <1>0, <3>1, <3>2 DEF BookShape, GoTo
    <3>4. pc'[r] = "answered" BY <2>0, <3>1 DEF GoTo
    <3>5. Settled(r)'
      <4>1. asked[r].stream /\ status[r] = "2xx" /\ CountedOnce(r) /\ SavedAsSuccess(r)
        BY <2>0, <3>1 DEF Trail, Streaming
      <4>2. CASE counted[r] = <<>> /\ r \in gone
        BY <3>1, <4>1, <4>2 DEF Settled, SavedAsSuccess
      <4>3. CASE \E class : counted[r] = <<class>>
        <5>1. Len(counted[r]) = 1 /\ counted[r] # <<>> BY <2>a, <4>3
        <5>2. r \in saved => counted[r] = <<"empty">> BY <4>1, <5>1 DEF SavedAsSuccess
        <5> QED BY <3>1, <4>1, <5>1, <5>2 DEF Settled, SavedAsSuccess
      <4> QED BY <4>1, <4>2, <4>3 DEF CountedOnce
    <3>6. Routed(r)' BY <3>2, <3>4 DEF Routed, AtWork, Streaming
    <3>7. Trail(r)' BY <3>4, <3>5 DEF Trail, AtWork, Streaming
    <3>8. Apart(r) BY <2>0, <3>1, <3>2 DEF Apart, GoTo
    <3> QED BY <3>2, <3>3, <3>6, <3>7, <3>8, OneBookAtATime
  <2>20. CASE ListModels(r) \/ ObserveClientVersion(r)
    <3>1. PICK ask \in Asks[r] : asked' = [asked EXCEPT ![r] = ask]
      BY <2>20 DEF ListModels, ObserveClientVersion
    <3>2. PICK place \in {"listing", "observed"} : GoTo(r, place)
      BY <2>20 DEF ListModels, ObserveClientVersion
    <3>3. pc[r] = "unborn" /\ UNCHANGED <<config, route, holds, gone, status, gauge, counted, saved>>
      BY <2>20 DEF ListModels, ObserveClientVersion
    <3>4. pc'[r] = place => Routed(r)' /\ Trail(r)'
      BY <2>0, <3>2, <3>3 DEF Routed, Trail, AtWork, Streaming
    <3> QED BY <2>0, <3>1, <3>2, <3>3, <3>4, MovingBooks
  <2>22. CASE ReportClientVersion(r)
    <3>1. /\ pc[r] = "observed" /\ GoTo(r, "listing")
          /\ UNCHANGED <<config, asked, route, holds, gone, status, gauge, counted, saved>>
      BY <2>22 DEF ReportClientVersion
    <3>2. pc'[r] = "listing" => Routed(r)' /\ Trail(r)'
      BY <2>0, <3>1 DEF Routed, Trail, AtWork, Streaming
    <3> QED BY <2>0, <3>1, <3>2, MovingBooks
  <2>23. CASE ServeModels(r)
    <3>1. PICK s \in {"2xx", "3xx"} : status' = [status EXCEPT ![r] = s] BY <2>23 DEF ServeModels
    <3>2. /\ pc[r] = "listing" /\ GoTo(r, "answered")
          /\ UNCHANGED <<config, asked, route, holds, gone, gauge, counted, saved>>
      BY <2>23 DEF ServeModels
    <3>3. pc'[r] = "answered" => Routed(r)' /\ Trail(r)'
      BY <2>0, <3>2 DEF Routed, Trail, AtWork, Streaming, Settled, SavedAsSuccess
    <3> QED BY <2>0, <3>1, <3>2, <3>3, MovingBooks
  <2> QED
    BY <1>1, <2>1, <2>2, <2>3, <2>4, <2>5, <2>6, <2>7, <2>8, <2>9, <2>10, <2>12, <2>13, <2>14,
       <2>15, <2>16, <2>17, <2>18, <2>19, <2>20, <2>22, <2>23 DEF Handle
<1>2. ASSUME NEW r \in Requests, Disconnect(r) PROVE BookInv'
  <2>0. /\ Routed(r) /\ Trail(r) /\ gone' = gone \union {r}
        /\ UNCHANGED <<config, asked, route, status, counted, saved>>
    BY <1>0, <1>2 DEF Disconnect
  <2>1. CASE pc[r] \in Awaiting /\ Release(r) /\ GoTo(r, "dropped")
    <3>1. /\ GuardsCounted'
          /\ holds' \in [Requests -> Providers \union {None}] /\ holds'[r] = None
          /\ \A q \in Requests \ {r} : holds'[q] = holds[q]
          /\ gauge' \in [Providers -> Nat]
      BY <1>0, <2>1, ReleaseKeepsCount
    <3>2. BookShape' BY <1>0, <2>0, <2>1, <3>1 DEF BookShape, GoTo
    <3>3. pc'[r] = "dropped" BY <1>0, <2>1 DEF GoTo, BookShape
    <3>4. CountedOnce(r)' /\ SavedAsSuccess(r)'
      BY <2>0, <2>1 DEF Trail, Awaiting, CountedOnce, SavedAsSuccess
    <3>5. Routed(r)' BY <3>1, <3>3 DEF Routed, AtWork, Streaming
    <3>6. Trail(r)' BY <2>0, <3>3, <3>4 DEF Trail, AtWork, Streaming
    <3>7. Apart(r) BY <1>0, <2>0, <2>1, <3>1 DEF Apart, GoTo, BookShape
    <3> QED BY <3>1, <3>2, <3>5, <3>6, <3>7, OneBookAtATime
  <2>2. CASE pc[r] \in Streaming /\ UNCHANGED <<gauge, holds, pc>>
    <3>1. BookShape' /\ GuardsCounted' BY <1>0, <2>0, <2>2 DEF BookShape, GuardsCounted
    <3>2. Routed(r)' BY <2>0, <2>2 DEF Routed
    <3>3. CountedOnce(r) => CountedOnce(r)' BY <2>0 DEF CountedOnce
    <3>4. SavedAsSuccess(r) => SavedAsSuccess(r)' BY <2>0 DEF SavedAsSuccess
    <3>5. pc[r] # "answered" BY <2>2 DEF Streaming
    <3>6. Trail(r)' BY <2>0, <2>2, <3>3, <3>4, <3>5 DEF Trail
    <3>7. Apart(r) BY <2>0, <2>2 DEF Apart
    <3> QED BY <3>1, <3>2, <3>6, <3>7, OneBookAtATime
  <2> QED BY <1>2, <2>1, <2>2 DEF Disconnect
<1>3. ASSUME UNCHANGED <<asked, pc, route, holds, gone, status, books>>, config' \in DOMAIN ConfigAt
      PROVE  BookInv'
  <2>1. BookShape' /\ GuardsCounted' BY <1>0, <1>3 DEF BookShape, GuardsCounted
  <2>2. ASSUME NEW r \in Requests PROVE Routed(r)' /\ Trail(r)'
    BY <1>0, <1>3 DEF Routed, Trail, Settled, CountedOnce, SavedAsSuccess
  <2> QED BY <2>1, <2>2 DEF BookInv
<1>4. CASE Reload BY <1>3, <1>4 DEF Reload
<1>5. CASE Shutdown \/ Exit \/ UNCHANGED vars
  BY <1>0, <1>3, <1>5 DEF Shutdown, Exit, vars, BookShape
<1> QED BY <1>1, <1>2, <1>4, <1>5 DEF Next

\* Whatever requests, routes and reloads there are, the gauge counts exactly
\* the upstream calls under way, and each call is counted once, under a class
\* that agrees with what the client was told and with what was stored
\* (src/src/proxy/mod.rs:252-278, src/src/proxy/upstream.rs:81-190).
THEOREM BooksAgreeHolds == Spec => []BooksAgree
<1>1. BookInv => BooksAgree
  <2> SUFFICES ASSUME BookInv PROVE BooksAgree OBVIOUS
  <2>1. ASSUME NEW p \in Providers
        PROVE  gauge[p] = Cardinality({r \in Requests : pc[r] \in AtWork /\ route[r].provider = p})
    <3>1. {r \in Requests : pc[r] \in AtWork /\ route[r].provider = p} = {r \in Requests : holds[r] = p}
      <4>1. ASSUME NEW r \in Requests PROVE pc[r] \in AtWork /\ route[r].provider = p <=> holds[r] = p
        BY NoneAssumption DEF BookInv, Routed
      <4> QED BY <4>1
    <3> QED BY <3>1 DEF BookInv, GuardsCounted
  <2>2. ASSUME NEW r \in Requests
        PROVE  /\ Len(counted[r]) <= 1
               /\ r \in saved => counted[r] \in {<<"empty">>, <<>>}
               /\ pc[r] = "answered" => Settled(r)
    <3>1. Trail(r) BY DEF BookInv
    <3>2. CASE pc[r] = "answered" BY <3>1, <3>2 DEF Trail, Settled, SavedAsSuccess
    <3>3. CASE pc[r] # "answered"
      <4>1. CountedOnce(r) \/ counted[r] \in {<<>>, <<"empty">>} BY <3>1, <3>3 DEF Trail, AtWork, Streaming
      <4>2. Len(counted[r]) <= 1
        <5>1. CASE counted[r] = <<>> BY <5>1
        <5>2. CASE \E class : counted[r] = <<class>>
          <6>1. \A c : Len(<<c>>) = 1 OBVIOUS
          <6> QED BY <5>2, <6>1
        <5>3. CASE counted[r] = <<"empty">> BY <5>2, <5>3
        <5> QED BY <4>1, <5>1, <5>2, <5>3 DEF CountedOnce
      <4>3. r \in saved => counted[r] \in {<<"empty">>, <<>>}
        BY <3>1, <3>3 DEF Trail, SavedAsSuccess, AtWork, Streaming
      <4> QED BY <3>3, <4>2, <4>3
    <3> QED BY <3>2, <3>3
  <2> QED BY <2>1, <2>2 DEF BooksAgree, AtWork, Settled
<1> QED BY <1>1, BookInit, BookStep, PTL DEF Spec

-----------------------------------------------------------------------------
(* The client version tripwire                                             *)
(*                                                                         *)
(* ReportedOnce computes from the versions observed which of them are due. *)
(* The tracker knows less, the set it has seen and the current version, so *)
(* the invariant says what that set is worth: until the tracker is full it *)
(* is all that was observed, after that exactly as many as fit.            *)

Firsts(s) == {n \in DOMAIN s : s[n] \notin ToSet(SubSeq(s, 1, n - 1))}
TrackedOf(s) == {n \in Firsts(s) : Cardinality({m \in Firsts(s) : m < n}) < MAX_TRACKED_VERSIONS}
DueAt(s, n) == [from |-> IF n = 1 THEN None ELSE s[n - 1], to |-> s[n]]
DueOf(s) == {DueAt(s, n) : n \in TrackedOf(s)}

LEMMA FirstsPlain ==
  ASSUME NEW s \in Seq(Label)
  PROVE  Firsts(s) = {n \in 1 .. Len(s) : \A m \in 1 .. n - 1 : s[m] # s[n]}
<1>1. ASSUME NEW n \in 1 .. Len(s)
      PROVE  ToSet(SubSeq(s, 1, n - 1)) = {s[m] : m \in 1 .. n - 1}
  <2> DEFINE q == SubSeq(s, 1, n - 1)
  <2>1. n - 1 \in Nat /\ n - 1 <= Len(s) /\ Len(s) \in Nat OBVIOUS
  <2>2. q \in Seq(Label) /\ Len(q) = n - 1 /\ \A m \in 1 .. n - 1 : q[m] = s[m]
    BY <2>1, SubSeqProperties
  <2> HIDE DEF q
  <2>3. DOMAIN q = 1 .. n - 1 BY <2>2
  <2>4. {q[m] : m \in DOMAIN q} = {s[m] : m \in 1 .. n - 1} BY <2>2, <2>3
  <2> QED BY <2>4 DEF ToSet, q
<1>2. DOMAIN s = 1 .. Len(s) OBVIOUS
<1> QED BY <1>1, <1>2 DEF Firsts

\* One more version observed: it is a first one when it is new, and then it is
\* tracked when there is room.
LEMMA OneMoreObserved ==
  ASSUME NEW s \in Seq(Label), NEW x \in Label, IsFiniteSet(Firsts(s)), DispatchAssumption
  PROVE  LET new == \A m \in 1 .. Len(s) : s[m] # x
             n == Len(s) + 1
         IN  /\ Firsts(Append(s, x)) = IF new THEN Firsts(s) \union {n} ELSE Firsts(s)
             /\ n \notin Firsts(s)
             /\ TrackedOf(Append(s, x)) = IF new /\ Cardinality(Firsts(s)) < MAX_TRACKED_VERSIONS
                                          THEN TrackedOf(s) \union {n} ELSE TrackedOf(s)
             /\ \A m \in TrackedOf(s) : Append(s, x)[m] = s[m] /\ DueAt(Append(s, x), m) = DueAt(s, m)
             /\ TrackedOf(s) \subseteq 1 .. Len(s)
             /\ Append(s, x)[n] = x
<1> DEFINE new == \A m \in 1 .. Len(s) : s[m] # x
           n == Len(s) + 1
           t == Append(s, x)
<1>1. /\ t \in Seq(Label) /\ Len(t) = n /\ t[n] = x /\ n \in Nat /\ Len(s) \in Nat
      /\ \A m \in 1 .. Len(s) : t[m] = s[m]
  OBVIOUS
<1>2. /\ Firsts(s) = {k \in 1 .. Len(s) : \A m \in 1 .. k - 1 : s[m] # s[k]}
      /\ Firsts(t) = {k \in 1 .. n : \A m \in 1 .. k - 1 : t[m] # t[k]}
  <2> HIDE DEF t
  <2> QED BY <1>1, FirstsPlain
<1> HIDE DEF t
<1>3. n \notin Firsts(s) /\ \A k \in Firsts(s) : k \in 1 .. Len(s) /\ k < n
  BY <1>1, <1>2
<1>4. ASSUME NEW k \in 1 .. Len(s) PROVE k \in Firsts(t) <=> k \in Firsts(s)
  <2>1. k \in 1 .. n /\ \A m \in 1 .. k - 1 : m \in 1 .. Len(s) BY <1>1
  <2> QED BY <1>1, <1>2, <2>1
<1>5. n \in Firsts(t) <=> new
  <2>1. n - 1 = Len(s) /\ n \in 1 .. n BY <1>1
  <2> QED BY <1>1, <1>2, <2>1
<1>6. \A k \in Firsts(t) : k \in 1 .. Len(s) \/ k = n
  BY <1>1, <1>2
<1> HIDE DEF new, n
<1>7. Firsts(t) = IF new THEN Firsts(s) \union {n} ELSE Firsts(s)
  BY <1>3, <1>4, <1>5, <1>6
<1>8. ASSUME NEW k \in Firsts(s) PROVE {m \in Firsts(t) : m < k} = {m \in Firsts(s) : m < k}
  <2>1. k < n /\ k \in Nat /\ n \in Nat BY <1>1, <1>3
  <2>2. ~(n < k) BY <2>1
  <2> QED BY <1>7, <2>2
<1>9. {m \in Firsts(s) : m < n} = Firsts(s) BY <1>3
<1>10. {m \in Firsts(t) : m < n} = Firsts(s)
  <2>1. ~(n < n) BY <1>1
  <2> QED BY <1>7, <1>9, <2>1
<1>11. TrackedOf(t) = IF new /\ Cardinality(Firsts(s)) < MAX_TRACKED_VERSIONS
                      THEN TrackedOf(s) \union {n} ELSE TrackedOf(s)
  <2>1. \A k \in Firsts(s) : k \in TrackedOf(t) <=> k \in TrackedOf(s)
    BY <1>7, <1>8 DEF TrackedOf
  <2>2. new => (n \in TrackedOf(t) <=> Cardinality(Firsts(s)) < MAX_TRACKED_VERSIONS)
    BY <1>7, <1>10 DEF TrackedOf
  <2>3. TrackedOf(t) \subseteq Firsts(t) /\ TrackedOf(s) \subseteq Firsts(s) BY DEF TrackedOf
  <2>4. CASE new
    <3>1. Firsts(t) = Firsts(s) \union {n} BY <1>7, <2>4
    <3>2. CASE Cardinality(Firsts(s)) < MAX_TRACKED_VERSIONS
      <4>1. TrackedOf(t) = TrackedOf(s) \union {n} BY <2>1, <2>2, <2>3, <2>4, <3>1, <3>2
      <4> QED BY <2>4, <3>2, <4>1
    <3>3. CASE ~(Cardinality(Firsts(s)) < MAX_TRACKED_VERSIONS)
      <4>1. TrackedOf(t) = TrackedOf(s) BY <2>1, <2>2, <2>3, <2>4, <3>1, <3>3
      <4> QED BY <3>3, <4>1
    <3> QED BY <3>2, <3>3
  <2>5. CASE ~new
    <3>1. Firsts(t) = Firsts(s) BY <1>7, <2>5
    <3>2. TrackedOf(t) = TrackedOf(s) BY <2>1, <2>3, <3>1
    <3> QED BY <2>5, <3>2
  <2> QED BY <2>4, <2>5
<1>12. TrackedOf(s) \subseteq 1 .. Len(s) BY <1>3 DEF TrackedOf
<1>13. ASSUME NEW m \in TrackedOf(s) PROVE t[m] = s[m] /\ DueAt(t, m) = DueAt(s, m)
  <2>1. m \in 1 .. Len(s) BY <1>12
  <2>2. m # 1 => m - 1 \in 1 .. Len(s) BY <2>1
  <2> QED BY <1>1, <2>1, <2>2 DEF DueAt
<1> QED BY <1>1, <1>3, <1>7, <1>11, <1>12, <1>13 DEF t, n, new

\* The tracker against what was observed.
TrackerInv ==
  /\ observed \in Seq(Label)
  /\ tracker.current = IF observed = <<>> THEN None ELSE observed[Len(observed)]
  /\ tracker.seen = {observed[n] : n \in TrackedOf(observed)}
  /\ IsFiniteSet(tracker.seen) /\ IsFiniteSet(Firsts(observed))
  /\ \/ /\ Cardinality(Firsts(observed)) <= MAX_TRACKED_VERSIONS
        /\ Cardinality(tracker.seen) = Cardinality(Firsts(observed))
        /\ tracker.seen = {observed[n] : n \in 1 .. Len(observed)}
     \/ /\ Cardinality(Firsts(observed)) > MAX_TRACKED_VERSIONS
        /\ Cardinality(tracker.seen) = MAX_TRACKED_VERSIONS

\* The transitions due are reported or on their way, each once.
ReportInv ==
  /\ DOMAIN pc = Requests /\ pending \in [Requests -> Transition \union {None}]
  /\ \A r \in Requests : pending[r] # None => pc[r] = "observed"
  /\ {e.transition : e \in reported} \union ({pending[r] : r \in Requests} \ {None}) = DueOf(observed)
  /\ \A r \in Requests : pending[r] # None => \A e \in reported : e.transition # pending[r]
  /\ \A r, q \in Requests : r # q /\ pending[r] # None => pending[r] # pending[q]
  /\ IsFiniteSet(reported) /\ IsFiniteSet({r \in Requests : pending[r] # None})
  /\ IsFiniteSet(DueOf(observed))
  /\ Cardinality(reported) + Cardinality({r \in Requests : pending[r] # None})
       = Cardinality(DueOf(observed))

TripInv == TrackerInv /\ ReportInv

LEMMA TripInit == Init => TripInv
<1> SUFFICES ASSUME Init PROVE TripInv OBVIOUS
<1>1. observed = <<>> /\ tracker = [seen |-> {}, current |-> None] /\ reported = {}
      /\ pending = [r \in Requests |-> None] /\ DOMAIN pc = Requests
  BY DEF Init
<1>2. Firsts(observed) = {} BY <1>1 DEF Firsts
<1>3. TrackedOf(observed) = {} BY <1>2 DEF TrackedOf
<1>4. DueOf(observed) = {} BY <1>3 DEF DueOf
<1>5. {r \in Requests : pending[r] # None} = {} /\ {pending[r] : r \in Requests} \ {None} = {}
  BY <1>1
<1>6. IsFiniteSet({}) /\ Cardinality({}) = 0 BY FS_EmptySet
<1>7. TrackerInv
  <2>1. {observed[n] : n \in 1 .. Len(observed)} = {} BY <1>1
  <2>2. {observed[n] : n \in TrackedOf(observed)} = {} BY <1>3
  <2>3. Cardinality(Firsts(observed)) <= MAX_TRACKED_VERSIONS BY <1>2, <1>6, DispatchAssumption
  <2>4. observed \in Seq(Label) BY <1>1
  <2>5. tracker.seen = {} /\ tracker.current = None BY <1>1
  <2> QED BY <1>1, <1>2, <1>6, <2>1, <2>2, <2>3, <2>4, <2>5 DEF TrackerInv
<1>8. ReportInv
  <2>1. {e.transition : e \in reported} = {} BY <1>1
  <2>2. Cardinality(reported) + Cardinality({r \in Requests : pending[r] # None})
          = Cardinality(DueOf(observed))
    <3>1. Cardinality(reported) = 0 BY <1>1, <1>6
    <3>2. Cardinality({r \in Requests : pending[r] # None}) = 0 BY <1>5, <1>6
    <3>3. Cardinality(DueOf(observed)) = 0 BY <1>4, <1>6
    <3> QED BY <3>1, <3>2, <3>3
  <2>3. \A r \in Requests : pending[r] = None BY <1>1
  <2> QED BY <1>1, <1>4, <1>5, <1>6, <2>1, <2>2, <2>3 DEF ReportInv
<1> QED BY <1>7, <1>8 DEF TripInv

\* What the tracker does with one more version.
LEMMA ObservingTracks ==
  ASSUME TrackerInv, NEW label \in Label,
         tracker' = [seen |-> IF FirstSighting(label) THEN tracker.seen \union {label} ELSE tracker.seen,
                     current |-> label],
         observed' = Append(observed, label)
  PROVE  /\ TrackerInv'
         /\ DueOf(observed') = DueOf(observed) \union
              (IF FirstSighting(label) THEN {[from |-> tracker.current, to |-> label]} ELSE {})
         /\ FirstSighting(label) => [from |-> tracker.current, to |-> label] \notin DueOf(observed)
         /\ tracker.current \in Label \union {None}
<1> USE DEF TrackerInv
<1> DEFINE new == \A m \in 1 .. Len(observed) : observed[m] # label
           n == Len(observed) + 1
<1>1. /\ Firsts(observed') = IF new THEN Firsts(observed) \union {n} ELSE Firsts(observed)
      /\ n \notin Firsts(observed)
      /\ TrackedOf(observed') = IF new /\ Cardinality(Firsts(observed)) < MAX_TRACKED_VERSIONS
                                THEN TrackedOf(observed) \union {n} ELSE TrackedOf(observed)
      /\ \A m \in TrackedOf(observed) : /\ observed'[m] = observed[m]
                                        /\ DueAt(observed', m) = DueAt(observed, m)
      /\ TrackedOf(observed) \subseteq 1 .. Len(observed)
      /\ observed'[n] = label
  BY OneMoreObserved, DispatchAssumption
<1>2. /\ observed' \in Seq(Label) /\ Len(observed') = n /\ observed' # <<>>
      /\ \A m \in 1 .. Len(observed) : observed'[m] = observed[m]
      /\ Len(observed) \in Nat
  OBVIOUS
<1>3. /\ Cardinality(Firsts(observed)) \in Nat /\ Cardinality(tracker.seen) \in Nat
      /\ MAX_TRACKED_VERSIONS \in Nat
  BY FS_CardinalityType, DispatchAssumption
<1>4. FirstSighting(label) <=> new /\ Cardinality(Firsts(observed)) < MAX_TRACKED_VERSIONS
  <2>1. CASE Cardinality(Firsts(observed)) > MAX_TRACKED_VERSIONS
    BY <1>3, <2>1 DEF FirstSighting
  <2>2. CASE ~(Cardinality(Firsts(observed)) > MAX_TRACKED_VERSIONS)
    <3>1. label \notin tracker.seen <=> new BY <1>3, <2>2
    <3>2. Cardinality(tracker.seen) = Cardinality(Firsts(observed)) BY <1>3, <2>2
    <3> QED BY <3>1, <3>2 DEF FirstSighting
  <2> QED BY <2>1, <2>2
<1>5. /\ tracker'.seen = IF FirstSighting(label) THEN tracker.seen \union {label} ELSE tracker.seen
      /\ tracker'.current = label
  OBVIOUS
<1>6. tracker'.seen = {observed'[m] : m \in TrackedOf(observed')}
  <2>1. {observed'[m] : m \in TrackedOf(observed)} = {observed[m] : m \in TrackedOf(observed)}
    BY <1>1
  <2> QED BY <1>1, <1>4, <1>5, <2>1
<1>7. tracker'.current = observed'[Len(observed')] BY <1>1, <1>2, <1>5
<1>8. IsFiniteSet(tracker'.seen) /\ IsFiniteSet(Firsts(observed'))
  <2>1. IsFiniteSet(tracker.seen \union {label}) /\ IsFiniteSet(Firsts(observed) \union {n})
    BY FS_AddElement
  <2> QED BY <1>1, <1>5, <2>1
<1>9. /\ Cardinality(Firsts(observed')) = Cardinality(Firsts(observed)) + (IF new THEN 1 ELSE 0)
      /\ FirstSighting(label) => Cardinality(tracker'.seen) = Cardinality(tracker.seen) + 1
  <2>1. new => Cardinality(Firsts(observed')) = Cardinality(Firsts(observed)) + 1
    <3>1. /\ IsFiniteSet(Firsts(observed)) /\ n \notin Firsts(observed)
          /\ new => Firsts(observed') = Firsts(observed) \union {n}
      BY <1>1
    <3> DEFINE S == Firsts(observed)
    <3>2. IsFiniteSet(S) /\ n \notin S => Cardinality(S \union {n}) = Cardinality(S) + 1
      <4> HIDE DEF S, n
      <4> QED
        BY FS_AddElement
    <3> QED
      BY <3>1, <3>2
  <2>2. ~new => Cardinality(Firsts(observed')) = Cardinality(Firsts(observed)) + 0
    BY <1>1, <1>3
  <2>3. FirstSighting(label) => Cardinality(tracker'.seen) = Cardinality(tracker.seen) + 1
    BY <1>5, FS_AddElement DEF FirstSighting
  <2> QED BY <2>1, <2>2, <2>3
<1>10. {observed'[m] : m \in 1 .. Len(observed')} = {observed[m] : m \in 1 .. Len(observed)} \union {label}
  <2>1. 1 .. Len(observed') = (1 .. Len(observed)) \union {n} BY <1>2
  <2> QED BY <1>1, <1>2, <2>1
<1>11. ~new => label \in {observed[m] : m \in 1 .. Len(observed)} OBVIOUS
<1> HIDE DEF new, n
<1>12. \/ /\ Cardinality(Firsts(observed')) <= MAX_TRACKED_VERSIONS
          /\ Cardinality(tracker'.seen) = Cardinality(Firsts(observed'))
          /\ tracker'.seen = {observed'[m] : m \in 1 .. Len(observed')}
       \/ /\ Cardinality(Firsts(observed')) > MAX_TRACKED_VERSIONS
          /\ Cardinality(tracker'.seen) = MAX_TRACKED_VERSIONS
  <2>1. CASE Cardinality(Firsts(observed)) > MAX_TRACKED_VERSIONS
    BY <1>3, <1>4, <1>5, <1>9, <2>1
  <2>2. CASE /\ Cardinality(Firsts(observed)) <= MAX_TRACKED_VERSIONS
             /\ Cardinality(tracker.seen) = Cardinality(Firsts(observed))
             /\ tracker.seen = {observed[m] : m \in 1 .. Len(observed)}
    <3>1. CASE FirstSighting(label)
      <4>1. tracker'.seen = {observed'[m] : m \in 1 .. Len(observed')} BY <1>5, <1>10, <2>2, <3>1
      <4>2. Cardinality(Firsts(observed')) = Cardinality(Firsts(observed)) + 1 BY <1>4, <1>9, <3>1
      <4>3. Cardinality(Firsts(observed')) <= MAX_TRACKED_VERSIONS BY <1>3, <1>4, <3>1, <4>2
      <4> QED BY <1>9, <2>2, <3>1, <4>1, <4>2, <4>3
    <3>2. CASE ~new
      <4>1. tracker'.seen = tracker.seen BY <1>4, <1>5, <3>2
      <4>2. {observed'[m] : m \in 1 .. Len(observed')} = {observed[m] : m \in 1 .. Len(observed)}
        BY <1>10, <1>11, <3>2
      <4>3. Cardinality(Firsts(observed')) = Cardinality(Firsts(observed)) BY <1>3, <1>9, <3>2
      <4> QED BY <2>2, <4>1, <4>2, <4>3
    <3>3. CASE new /\ ~FirstSighting(label)
      BY <1>3, <1>4, <1>5, <1>9, <2>2, <3>3
    <3> QED BY <3>1, <3>2, <3>3
  <2> QED BY <2>1, <2>2
<1>13. TrackerInv' BY <1>2, <1>6, <1>7, <1>8, <1>12
<1>14. DueAt(observed', n) = [from |-> tracker.current, to |-> label]
  <2>1. CASE observed = <<>>
    <3>1. n = 1 BY <2>1 DEF n
    <3> QED BY <1>1, <2>1, <3>1 DEF DueAt
  <2>2. CASE observed # <<>>
    <3>1. Len(observed) \in 1 .. Len(observed) /\ n # 1 /\ n - 1 = Len(observed)
      BY <1>2, <2>2 DEF n
    <3>2. observed'[n - 1] = tracker.current BY <1>2, <2>2, <3>1
    <3> QED BY <1>1, <3>1, <3>2 DEF DueAt
  <2> QED BY <2>1, <2>2
<1>15. DueOf(observed') = DueOf(observed) \union
         (IF FirstSighting(label) THEN {[from |-> tracker.current, to |-> label]} ELSE {})
  <2>1. {DueAt(observed', m) : m \in TrackedOf(observed)} = DueOf(observed) BY <1>1 DEF DueOf
  <2>2. CASE FirstSighting(label)
    <3>1. TrackedOf(observed') = TrackedOf(observed) \union {n} BY <1>1, <1>4, <2>2
    <3>2. DueOf(observed') = {DueAt(observed', m) : m \in TrackedOf(observed)} \union {DueAt(observed', n)}
      BY <3>1 DEF DueOf
    <3> QED BY <1>14, <2>1, <2>2, <3>2
  <2>3. CASE ~FirstSighting(label)
    <3>1. TrackedOf(observed') = TrackedOf(observed) BY <1>1, <1>4, <2>3
    <3> QED BY <2>1, <2>3, <3>1 DEF DueOf
  <2> QED BY <2>2, <2>3
<1>16. FirstSighting(label) => [from |-> tracker.current, to |-> label] \notin DueOf(observed)
  <2> SUFFICES ASSUME FirstSighting(label), NEW m \in TrackedOf(observed),
                      [from |-> tracker.current, to |-> label] = DueAt(observed, m)
               PROVE  FALSE
    BY DEF DueOf
  <2>1. observed[m] = label BY DEF DueAt
  <2> QED BY <2>1 DEF FirstSighting
<1>17. tracker.current \in Label \union {None}
  <2>1. observed # <<>> => observed[Len(observed)] \in Label OBVIOUS
  <2> QED BY <2>1
<1> QED BY <1>13, <1>15, <1>16, <1>17

LEMMA TripStep == TripInv /\ [Next]_vars => TripInv'
<1> SUFFICES ASSUME TripInv, [Next]_vars PROVE TripInv' OBVIOUS
<1> USE DEF core, books, tripwire
<1>0. TrackerInv /\ ReportInv BY DEF TripInv
<1>1. ASSUME UNCHANGED tripwire, DOMAIN pc' = Requests,
             \A r \in Requests : pc[r] = "observed" => pc'[r] = "observed"
      PROVE  TripInv'
  <2>1. TrackerInv' BY <1>0, <1>1 DEF TrackerInv
  <2>2. ReportInv' BY <1>0, <1>1 DEF ReportInv
  <2> QED BY <2>1, <2>2 DEF TripInv
<1>2. ASSUME NEW r \in Requests, ObserveClientVersion(r) PROVE TripInv'
  <2>1. PICK ask \in Asks[r] :
          LET label == ClientVersionLabel(ask.version)
          IN /\ pending' = [pending EXCEPT ![r] =
                  IF FirstSighting(label) THEN [from |-> tracker.current, to |-> label] ELSE None]
             /\ tracker' = [seen |-> IF FirstSighting(label) THEN tracker.seen \union {label} ELSE tracker.seen,
                            current |-> label]
             /\ observed' = Append(observed, label)
    BY <1>2 DEF ObserveClientVersion
  <2> DEFINE label == ClientVersionLabel(ask.version)
             new == [from |-> tracker.current, to |-> label]
  <2>2. label \in Label BY DEF ClientVersionLabel, Label
  <2>3. /\ pending' = [pending EXCEPT ![r] = IF FirstSighting(label) THEN new ELSE None]
        /\ tracker' = [seen |-> IF FirstSighting(label) THEN tracker.seen \union {label} ELSE tracker.seen,
                       current |-> label]
        /\ observed' = Append(observed, label)
    BY <2>1
  <2> HIDE DEF label
  <2>4. /\ TrackerInv'
        /\ DueOf(observed') = DueOf(observed) \union (IF FirstSighting(label) THEN {new} ELSE {})
        /\ FirstSighting(label) => new \notin DueOf(observed)
        /\ tracker.current \in Label \union {None}
    BY <1>0, <2>2, <2>3, ObservingTracks
  <2>10. new \in Transition BY <2>2, <2>4 DEF Transition
  <2>5. new # None
    <3> QED BY <2>10, NoneAssumption
  <2>6. /\ pc[r] = "unborn" /\ pc' = [pc EXCEPT ![r] = "observed"] /\ reported' = reported
    BY <1>2 DEF ObserveClientVersion, GoTo
  <2>7. /\ DOMAIN pc' = Requests /\ pending' \in [Requests -> Transition \union {None}]
        /\ pc'[r] = "observed" /\ \A q \in Requests \ {r} : pc'[q] = pc[q] /\ pending'[q] = pending[q]
        /\ pending[r] = None
        /\ pending'[r] = IF FirstSighting(label) THEN new ELSE None
    BY <1>0, <2>3, <2>6, <2>10 DEF ReportInv
  <2> HIDE DEF new
  <2>8. CASE ~FirstSighting(label)
    <3>1. pending' = pending
      <4>1. \A q \in Requests : pending'[q] = pending[q] BY <2>7, <2>8
      <4> QED BY <1>0, <2>7, <4>1 DEF ReportInv
    <3>2. DueOf(observed') = DueOf(observed) BY <2>4, <2>8
    <3>3. \A q \in Requests : pending'[q] # None => pc'[q] = "observed" BY <1>0, <2>7, <3>1 DEF ReportInv
    <3>4. ReportInv' BY <1>0, <2>6, <2>7, <3>1, <3>2, <3>3 DEF ReportInv
    <3> QED BY <2>4, <3>4 DEF TripInv
  <2>9. CASE FirstSighting(label)
    <3> DEFINE Open == {q \in Requests : pending[q] # None}
               Ways == {pending[q] : q \in Requests} \ {None}
               Told == {e.transition : e \in reported}
    <3>1. /\ Told \union Ways = DueOf(observed)
          /\ \A q \in Requests : pending[q] # None => pending[q] \in DueOf(observed)
          /\ \A e \in reported : e.transition \in DueOf(observed)
      BY <1>0 DEF ReportInv
    <3>2. new \notin DueOf(observed) /\ DueOf(observed') = DueOf(observed) \union {new} BY <2>4, <2>9
    <3>3. pending'[r] = new BY <2>7, <2>9
    <3>4. {q \in Requests : pending'[q] # None} = Open \union {r} /\ r \notin Open
      BY <2>5, <2>7, <3>3
    <3>5. {pending'[q] : q \in Requests} \ {None} = Ways \union {new}
      BY <2>5, <2>7, <3>3
    <3>6. Told \union ({pending'[q] : q \in Requests} \ {None}) = DueOf(observed')
      BY <3>1, <3>2, <3>5
    <3>7. IsFiniteSet(Open \union {r}) /\ Cardinality(Open \union {r}) = Cardinality(Open) + 1
      BY <1>0, <3>4, FS_AddElement DEF ReportInv
    <3>8. /\ IsFiniteSet(DueOf(observed'))
          /\ Cardinality(DueOf(observed')) = Cardinality(DueOf(observed)) + 1
      <4>1. IsFiniteSet(DueOf(observed)) BY <1>0 DEF ReportInv
      <4> HIDE DEF new
      <4> QED BY <3>2, <4>1, FS_AddElement
    <3>9. Cardinality(reported) \in Nat /\ Cardinality(Open) \in Nat
      BY <1>0, FS_CardinalityType DEF ReportInv
    <3>10. Cardinality(reported) + Cardinality({q \in Requests : pending'[q] # None})
             = Cardinality(DueOf(observed'))
      <4>1. Cardinality(reported) + Cardinality(Open) = Cardinality(DueOf(observed))
        BY <1>0 DEF ReportInv
      <4> HIDE DEF Open
      <4> QED BY <3>4, <3>7, <3>8, <3>9, <4>1
    <3>11. \A q \in Requests : pending'[q] # None => pc'[q] = "observed"
      BY <1>0, <2>7 DEF ReportInv
    <3>12. \A q \in Requests : pending'[q] # None => \A e \in reported : e.transition # pending'[q]
      BY <1>0, <2>7, <3>1, <3>2, <3>3 DEF ReportInv
    <3>13. \A p, q \in Requests : p # q /\ pending'[p] # None => pending'[p] # pending'[q]
      <4> SUFFICES ASSUME NEW p \in Requests, NEW q \in Requests, p # q, pending'[p] # None
                   PROVE  pending'[p] # pending'[q]
        OBVIOUS
      <4>1. CASE p = r BY <2>5, <2>7, <3>1, <3>2, <3>3, <4>1
      <4>2. CASE q = r BY <2>7, <3>1, <3>2, <3>3, <4>2
      <4>3. CASE p # r /\ q # r BY <1>0, <2>7, <4>3 DEF ReportInv
      <4> QED BY <4>1, <4>2, <4>3
    <3>14. IsFiniteSet({q \in Requests : pending'[q] # None}) BY <3>4, <3>7
    <3>15. IsFiniteSet(reported) BY <1>0 DEF ReportInv
    <3>16. ReportInv'
      BY <2>6, <2>7, <3>6, <3>8, <3>10, <3>11, <3>12, <3>13, <3>14, <3>15 DEF ReportInv
    <3> QED BY <2>4, <3>16 DEF TripInv
  <2> QED BY <2>8, <2>9
<1>3. ASSUME NEW r \in Requests, ReportClientVersion(r) PROVE TripInv'
  <2> DEFINE entry == [by |-> r, transition |-> pending[r]]
  <2>1. /\ reported' = IF pending[r] = None THEN reported ELSE reported \union {entry}
        /\ pending' = [pending EXCEPT ![r] = None]
        /\ pc' = [pc EXCEPT ![r] = "listing"]
        /\ UNCHANGED <<tracker, observed>>
    BY <1>3 DEF ReportClientVersion, GoTo
  <2>2. TrackerInv' BY <1>0, <2>1 DEF TrackerInv
  <2>3. /\ DOMAIN pc' = Requests /\ pending' \in [Requests -> Transition \union {None}] /\ pending'[r] = None
        /\ \A q \in Requests \ {r} : pc'[q] = pc[q] /\ pending'[q] = pending[q]
    BY <1>0, <2>1 DEF ReportInv
  <2>4. DueOf(observed') = DueOf(observed) BY <2>1
  <2>5. \A q \in Requests : pending'[q] # None => pc'[q] = "observed" BY <1>0, <2>3 DEF ReportInv
  <2>6. CASE pending[r] = None
    <3>1. reported' = reported BY <2>1, <2>6
    <3>2. pending' = pending
      <4>1. \A q \in Requests : pending'[q] = pending[q] BY <2>3, <2>6
      <4> QED BY <1>0, <2>3, <4>1 DEF ReportInv
    <3>3. ReportInv' BY <1>0, <2>3, <2>4, <2>5, <3>1, <3>2 DEF ReportInv
    <3> QED BY <2>2, <3>3 DEF TripInv
  <2>7. CASE pending[r] # None
    <3> DEFINE Open == {q \in Requests : pending[q] # None}
               Ways == {pending[q] : q \in Requests} \ {None}
               Told == {e.transition : e \in reported}
    <3>1. reported' = reported \union {entry} BY <2>1, <2>7
    <3>2. entry \notin reported /\ entry.transition = pending[r]
      <4>1. entry.transition = pending[r] OBVIOUS
      <4>2. \A e \in reported : e.transition # pending[r] BY <1>0, <2>7 DEF ReportInv
      <4> QED BY <4>1, <4>2
    <3> HIDE DEF entry
    <3>3. {q \in Requests : pending'[q] # None} = Open \ {r} /\ r \in Open BY <2>3, <2>7
    <3>4. {e.transition : e \in reported'} = Told \union {pending[r]} BY <3>1, <3>2
    <3>5. {pending'[q] : q \in Requests} \ {None} = Ways \ {pending[r]}
      <4>1. \A q \in Requests \ {r} : pending[q] # pending[r] BY <1>0, <2>7 DEF ReportInv
      <4>2. ASSUME NEW x PROVE x \in {pending'[q] : q \in Requests} \ {None} <=> x \in Ways \ {pending[r]}
        <5>1. x \in {pending'[q] : q \in Requests} \ {None}
                <=> x # None /\ \E q \in Requests \ {r} : x = pending[q]
          BY <2>3
        <5>2. x \in Ways \ {pending[r]} <=> x # None /\ \E q \in Requests \ {r} : x = pending[q]
          BY <4>1
        <5> QED BY <5>1, <5>2
      <4> QED BY <4>2
    <3>6. {e.transition : e \in reported'} \union ({pending'[q] : q \in Requests} \ {None}) = DueOf(observed')
      <4>1. pending[r] \in Ways BY <2>7
      <4>2. Told \union Ways = DueOf(observed) BY <1>0 DEF ReportInv
      <4> QED BY <2>4, <3>4, <3>5, <4>1, <4>2
    <3>7. IsFiniteSet(reported') /\ Cardinality(reported') = Cardinality(reported) + 1
      BY <1>0, <3>1, <3>2, FS_AddElement DEF ReportInv
    <3>8. IsFiniteSet(Open \ {r}) /\ Cardinality(Open \ {r}) = Cardinality(Open) - 1
      BY <1>0, <3>3, FS_RemoveElement DEF ReportInv
    <3>9. Cardinality(reported) \in Nat /\ Cardinality(Open) \in Nat
      BY <1>0, FS_CardinalityType DEF ReportInv
    <3>10. Cardinality(reported') + Cardinality({q \in Requests : pending'[q] # None})
             = Cardinality(DueOf(observed'))
      <4>1. Cardinality(reported) + Cardinality(Open) = Cardinality(DueOf(observed))
        BY <1>0 DEF ReportInv
      <4> HIDE DEF Open
      <4> QED BY <2>4, <3>3, <3>7, <3>8, <3>9, <4>1
    <3>11. \A q \in Requests : pending'[q] # None => \A e \in reported' : e.transition # pending'[q]
      BY <1>0, <2>3, <2>7, <3>1, <3>2 DEF ReportInv
    <3>12. \A p, q \in Requests : p # q /\ pending'[p] # None => pending'[p] # pending'[q]
      BY <1>0, <2>3 DEF ReportInv
    <3>13. IsFiniteSet({q \in Requests : pending'[q] # None}) BY <3>3, <3>8
    <3>14. IsFiniteSet(DueOf(observed')) BY <1>0, <2>4 DEF ReportInv
    <3>15. ReportInv'
      BY <2>3, <2>5, <3>6, <3>7, <3>10, <3>11, <3>12, <3>13, <3>14 DEF ReportInv
    <3> QED BY <2>2, <3>15 DEF TripInv
  <2> QED BY <2>6, <2>7
<1>4. ASSUME NEW r \in Requests, Handle(r), ~ObserveClientVersion(r), ~ReportClientVersion(r)
      PROVE  UNCHANGED tripwire /\ pc[r] # "observed" /\ \E place : GoTo(r, place)
  <2>1. CASE ReceiveTurn(r) \/ ReceiveGarbage(r) \/ CallUpstream(r) \/ UpstreamRefuses(r)
             \/ StartStream(r) \/ StartReading(r) \/ ConvertChatBody(r)
    BY <2>1 DEF ReceiveTurn, ReceiveGarbage, CallUpstream, UpstreamRefuses, StartStream, StartReading,
                ConvertChatBody
  <2>2. CASE LookupRoute(r) \/ ResolveApiKey(r)
    BY <2>2 DEF LookupRoute, ResolveApiKey, Reject, Answer
  <2>3. CASE SendFails(r) \/ UpstreamNon2xx(r) \/ ReadBodyFails(r) \/ UnreadableChatBody(r)
             \/ SaveChatTurn(r)
    BY <2>3 DEF SendFails, UpstreamNon2xx, ReadBodyFails, UnreadableChatBody, SaveChatTurn, Answer
  <2>4. CASE SavePassthroughTurn(r) \/ CountPassthroughTurn(r)
    BY <2>4 DEF SavePassthroughTurn, CountPassthroughTurn, Answer
  <2>5. CASE StreamEnds(r) \/ StoreStream(r) \/ CloseStream(r) \/ ListModels(r) \/ ServeModels(r)
    BY <2>5 DEF StreamEnds, StoreStream, CloseStream, ListModels, ServeModels
  <2> QED BY <1>4, <2>1, <2>2, <2>3, <2>4, <2>5 DEF Handle
<1>5. CASE \E r \in Requests : Handle(r)
  <2>1. PICK r \in Requests : Handle(r) BY <1>5
  <2>2. CASE ObserveClientVersion(r) BY <1>2, <2>2
  <2>3. CASE ReportClientVersion(r) BY <1>3, <2>3
  <2>4. CASE ~ObserveClientVersion(r) /\ ~ReportClientVersion(r)
    <3>1. UNCHANGED tripwire /\ pc[r] # "observed" /\ \E place : GoTo(r, place)
      BY <1>4, <2>1, <2>4
    <3>2. DOMAIN pc' = Requests /\ \A q \in Requests : pc[q] = "observed" => pc'[q] = "observed"
      BY <1>0, <3>1 DEF ReportInv, GoTo
    <3> QED BY <1>1, <3>1, <3>2
  <2> QED BY <2>2, <2>3, <2>4
<1>6. CASE \E r \in Requests : Disconnect(r)
  <2>1. UNCHANGED tripwire BY <1>6 DEF Disconnect
  <2>2. DOMAIN pc' = Requests /\ \A q \in Requests : pc[q] = "observed" => pc'[q] = "observed"
    BY <1>0, <1>6 DEF Disconnect, ReportInv, GoTo, Awaiting
  <2> QED BY <1>1, <2>1, <2>2
<1>7. CASE Reload \/ Shutdown \/ Exit \/ UNCHANGED vars
  BY <1>0, <1>1, <1>7 DEF Reload, Shutdown, Exit, vars, ReportInv
<1> QED BY <1>5, <1>6, <1>7 DEF Next

\* However the requests interleave, a version is reported when it is first
\* seen, once, with the one seen just before, until the tracker is full, and
\* it never holds more than it may (src/src/version.rs:53-83,
\* src/src/proxy/mod.rs:595-628).
THEOREM ReportedOnceHolds == Spec => []ReportedOnce
<1>1. TripInv => ReportedOnce
  <2> SUFFICES ASSUME TripInv PROVE ReportedOnce OBVIOUS
  <2> USE DEF TripInv
  <2>1. {t.to : t \in DueOf(observed)} = tracker.seen
    <3>1. \A n : DueAt(observed, n).to = observed[n] BY DEF DueAt
    <3>2. {t.to : t \in DueOf(observed)} = {observed[n] : n \in TrackedOf(observed)}
      BY <3>1 DEF DueOf
    <3> QED BY <3>2 DEF TrackerInv
  <2>2. Cardinality(tracker.seen) <= MAX_TRACKED_VERSIONS
    <3>1. MAX_TRACKED_VERSIONS \in Nat /\ Cardinality(Firsts(observed)) \in Nat
      BY DispatchAssumption, FS_CardinalityType DEF TrackerInv
    <3> QED BY <3>1 DEF TrackerInv
  <2>3. /\ {e.transition : e \in reported} \union ({pending[r] : r \in Requests} \ {None}) = DueOf(observed)
        /\ Cardinality(reported) + Cardinality({r \in Requests : pending[r] # None})
             = Cardinality(DueOf(observed))
    BY DEF ReportInv
  <2> QED BY <2>1, <2>2, <2>3 DEF ReportedOnce, DueOf, DueAt, TrackedOf, Firsts
<1> QED BY <1>1, TripInit, TripStep, PTL DEF Spec
=============================================================================
