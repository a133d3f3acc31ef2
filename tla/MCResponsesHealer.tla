---------------------------- MODULE MCResponsesHealer ----------------------------
(***************************************************************************)
(* ResponsesHealer on every message of a few pieces: tags whole and cut,   *)
(* calls, and what only begins like a tag.                                 *)
(***************************************************************************)
EXTENDS ResponsesHealer

CONSTANTS PieceLen

Words(S, n) == UNION {[1 .. m -> S] : m \in 0 .. n}

Call(d) == d.invokeOpen \o <<"name=f", ">">> \o d.invokeClose

\* Pieces that deltas may separate but not cut.
Pieces ==
  {<<"x">>, <<"<">>, <<"think", ">">>, <<"<", "think", ">">>, <<"<", "/", "think", ">">>,
   SingleBar.invokeOpen, Call(SingleBar), <<"<", "|", "x">>}

MCContents == Words(Pieces, PieceLen)

MCGates == {[dsml |-> TRUE, think |-> TRUE], [dsml |-> FALSE, think |-> TRUE]}
MCCompanions == {"none", "before", "after"}

=============================================================================
