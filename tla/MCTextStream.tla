---------------------------- MODULE MCTextStream ----------------------------
(***************************************************************************)
(* TextStream on every body of a few bytes, every content of a few pieces  *)
(* of tags, and every message of a few tags.                               *)
(***************************************************************************)
EXTENDS TextStream

CONSTANTS RawLen, MarkerLen, PieceLen, TagLen, CoreLen

Words(S, n) == UNION {[1 .. m -> S] : m \in 0 .. n}

\* Bytes that end lines and events, in any order; and words of markers.
RawBytes == {"CR", "LF", "data:", "[DONE]"}
MarkerWords == {"response", "output_text", "reasoning", "summary_text", "delta"}
MCBodies ==
  Words(RawBytes, RawLen) \union Words(MarkerWords, MarkerLen)
    \union {<<"response">> \o marker : marker \in FirstContentMarkers}
    \union {<<":", "x", "LF", "LF", "data:", " ", "x", "LF", "data:", "x", "CR", "LF">> \o end :
              end \in Words({"CR", "LF", " "}, 3)}

Call(d) == d.invokeOpen \o <<"name=f", ">">> \o d.invokeClose

\* Pieces of tags, each cut into its tokens: beginnings, ends, whole ones.
TokenPieces ==
  {<<"<">>, <<"/">>, <<"think">>, <<"|">>, <<"|", "DSML">>, <<">">>, <<"x">>,
   <<"<", "think", ">">>, <<"<", "think", "ing", ">">>, <<"<", "/", "think", ">">>,
   <<"left", "think", "right">>,
   SingleBar.marker, Call(DoubleBar)}

\* Whole tags, in one piece.
TagPieces ==
  LET S == SingleBar D == DoubleBar IN
  {S.invokeOpen \o <<"name=f", ">">>, S.invokeOpen \o <<"name=", ">">>,
   S.invokeOpen \o <<"name=f", "/", ">">>, S.invokeOpen \o <<" ", "quote", ">">>, S.invokeClose,
   S.marker \o <<"parameter", "name=p", "string=true", ">">>, S.parameterClose,
   D.invokeOpen \o <<"name=f", ">">>, D.invokeOpen \o <<"name=p", "string=true", " ", "/", ">">>,
   D.invokeClose, S.callsOpen, S.callsClose, <<"x">>, <<" ">>}

\* Those that nest and balance, for longer messages.
CorePieces ==
  LET S == SingleBar IN
  {S.invokeOpen \o <<"name=f", ">">>, S.invokeOpen \o <<"name=", ">">>, S.invokeClose,
   S.marker \o <<"parameter", "name=p", "string=false", ">", " ", "1">> \o S.parameterClose,
   S.marker \o <<"parameter", "name=p", "string=true", ">">>, Call(DoubleBar)}

Cut(text) == [i \in DOMAIN text |-> << text[i] >>]

MCContents ==
  {Cut(FlattenSeq(w)) : w \in Words(TokenPieces, PieceLen)}
    \union {<< FlattenSeq(w) >> : w \in Words(TagPieces, TagLen) \union Words(CorePieces, CoreLen)}

MCGates == {[dsml |-> TRUE, think |-> TRUE], [dsml |-> FALSE, think |-> TRUE]}

MCByte ==
  RawBytes \union MarkerWords \union UNION {ToSet(p) : p \in FirstContentMarkers \union TokenPieces \union TagPieces \union CorePieces} \union {":", " "}
=============================================================================
