------------------------------ MODULE MCDispatch ------------------------------
(***************************************************************************)
(* Dispatch with a reload that takes a route away and changes another.     *)
(***************************************************************************)
EXTENDS Dispatch, TLC

CONSTANTS fast, slow, visitor

Turn(model, stream, store) == [kind |-> "turn", model |-> model, stream |-> stream, store |-> store]
Models(version) == [kind |-> "models", stream |-> FALSE, version |-> version]

\* Turns of either kind, for two models; versions with a product name, with
\* two words, unsafe and without a digit.
Turns == {Turn("a", FALSE, TRUE), Turn("a", TRUE, TRUE), Turn("b", FALSE, FALSE)}
Visits == {Models(v) : v \in {<<"codex", "v1">>, <<"v1", "v2">>, <<"bad1">>, None}}

\* One of the requests is no turn.
MCAsks == [r \in Requests |-> IF r = visitor THEN Visits \ {Models(None)} ELSE Turns \union Visits]

ChatRoute(p, key) == [provider |-> p, format |-> "chat", key |-> key]
ResponsesRoute(p, key) == [provider |-> p, format |-> "responses", key |-> key]

\* The second revision moves one model to the other provider and path, and
\* leaves the other without a key that can be read; the third drops it.
MCConfigAt ==
  (0 :> [a |-> ChatRoute(fast, TRUE), b |-> ResponsesRoute(slow, TRUE)])
    @@ (1 :> [a |-> ResponsesRoute(slow, TRUE), b |-> ChatRoute(fast, FALSE)])
    @@ (2 :> [a |-> ChatRoute(fast, TRUE), b |-> None])

RequestSymmetry == Permutations(Requests \ {visitor})

=============================================================================
