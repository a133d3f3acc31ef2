--------------------------- MODULE MCSessionStore ---------------------------
(***************************************************************************)
(* Instances of SessionStore for TLC.                                      *)
(***************************************************************************)
EXTENDS SessionStore, TLC

\* Four turns; an upstream gives the last the id of the first.
FourTurns == 1..4
ThreeIds == {"r1", "r2", "r3"}
RepeatedId == 1 :> "r1" @@ 2 :> "r2" @@ 3 :> "r3" @@ 4 :> "r1"
OneStream == {1}

\* A conversation of three turns exceeds a budget of four.
Sizes == [t \in Turns |-> IF t % 2 = 0 THEN 2 ELSE 1]

\* The clock is set back, or advances by less or more than the window; a step
\* back and one forward make a tie.
AnyWay == {-1, 1, 3}

\* An operation reads the same time twice, or has outlived the window by its
\* second reading, which is every operation when ttl_hours is 0.
WithinOrBeyond == {0, 3}
=============================================================================
