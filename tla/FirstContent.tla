---------------------------- MODULE FirstContent ----------------------------
(***************************************************************************)
(* How the fast relay of the passthrough path notices the first event with *)
(* content in bytes it forwards unseen (src/src/proxy/mod.rs,              *)
(* first_content_event_bytes): by markers, which a chunk boundary may cut. *)
(* Only the end of what was read before is kept.  The three markers are    *)
(* cut into words so that, as in the code, they have different lengths.    *)
(***************************************************************************)
EXTENDS Integers, Sequences

FirstContentMarkers ==
  {<<"response", "output_text", "delta">>,
   <<"response", "reasoning", "summary_text", "delta">>,
   <<"response", "function", "call", "arguments", "delta">>}

Within(text, marker) ==
  \E p \in 0 .. Len(text) - Len(marker) : SubSeq(text, p + 1, p + Len(marker)) = marker

\* The marker begins in the carry and ends in the chunk.
Stitched(carry, chunk, marker) ==
  \E n \in 1 .. Len(carry) :
    /\ n <= Len(marker)
    /\ SubSeq(carry, Len(carry) - n + 1, Len(carry)) = SubSeq(marker, 1, n)
    /\ Len(marker) - n <= Len(chunk)
    /\ SubSeq(chunk, 1, Len(marker) - n) = SubSeq(marker, n + 1, Len(marker))

Hit(carry, chunk) ==
  \E marker \in FirstContentMarkers : Within(chunk, marker) \/ Stitched(carry, chunk, marker)

\* The end of a sequence.
LastOf(text, n) == SubSeq(text, Len(text) - n + 1, Len(text))

MaxMarkerLen == CHOOSE n \in {Len(m) : m \in FirstContentMarkers} :
                  \A m \in FirstContentMarkers : Len(m) <= n

\* Bug: a chunk shorter than the carry replaces it.
NextCarryShort(carry, chunk) ==
  IF Len(chunk) < MaxMarkerLen - 1 THEN chunk ELSE LastOf(chunk, MaxMarkerLen - 1)

\* What is kept for the next chunk: all of a marker but its last word.
NextCarry(carry, chunk) ==
  LET keep == IF MaxMarkerLen - 1 < Len(carry) + Len(chunk) THEN MaxMarkerLen - 1 ELSE Len(carry) + Len(chunk)
  IN IF Len(chunk) >= keep
     THEN LastOf(chunk, keep)
     ELSE LastOf(carry, keep - Len(chunk)) \o chunk

=============================================================================
