--------------------------- MODULE MCPassthrough ---------------------------
(***************************************************************************)
(* Instances of Passthrough for TLC.                                       *)
(***************************************************************************)
EXTENDS Passthrough

\* The fast path, the healed relay, and a request that must not be stored.
ThreeRequests ==
    {[healed |-> h, store |-> TRUE] : h \in BOOLEAN} \cup {[healed |-> TRUE, store |-> FALSE]}
=============================================================================
