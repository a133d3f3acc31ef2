------------------------------ MODULE DsmlParser ------------------------------
(***************************************************************************)
(* Parsing of leaked DSML markup (src/src/heal/dsml.rs): the tool calls    *)
(* and the text that is left of an assistant message in which a model      *)
(* wrote its calls as markup.                                              *)
(*                                                                         *)
(* A text is a sequence of tokens: the characters < > / and the bar, white *)
(* space " ", a quote that opens or closes an attribute value, the words   *)
(* of the markup, whole attributes (with the white space before them) and  *)
(* "x" for any other text, "1" for text that is JSON.                      *)
(***************************************************************************)
EXTENDS Integers, Sequences, FiniteSets, SequencesExt

(* Dialects *)

Dialect(bars) ==
  LET marker == <<"<">> \o bars \o <<"DSML">> \o bars
      end == <<"<", "/">> \o bars \o <<"DSML">> \o bars
  IN [marker |-> marker,
      invokeOpen |-> Append(marker, "invoke"),
      invokeClose |-> end \o <<"invoke", ">">>,
      callsOpen |-> marker \o <<"tool_calls", ">">>,
      callsClose |-> end \o <<"tool_calls", ">">>,
      parameterClose |-> end \o <<"parameter", ">">>]

SingleBar == Dialect(<<"|">>)
DoubleBar == Dialect(<<"|", "|">>)
Dialects == {SingleBar, DoubleBar}

\* Attributes by token: key and value.
Attribute ==
  [t \in {"name=f", "name=p", "name=", "string=true", "string=false"} |->
     CASE t = "name=f" -> [key |-> "name", value |-> "f"]
       [] t = "name=p" -> [key |-> "name", value |-> "p"]
       [] t = "name=" -> [key |-> "name", value |-> ""]
       [] t = "string=true" -> [key |-> "string", value |-> "true"]
       [] t = "string=false" -> [key |-> "string", value |-> "false"]]

IsAttribute(t) == t \in DOMAIN Attribute
EndsName(t) == t \in {" ", "/", ">"} \/ IsAttribute(t)

-----------------------------------------------------------------------------
(* Searching.  A position is the number of tokens before it; None is no    *)
(* position.                                                               *)

None == -1

StartsWith(text, at, pattern) ==
  /\ at + Len(pattern) <= Len(text)
  /\ SubSeq(text, at + 1, at + Len(pattern)) = pattern

Occurrences(text, from, pattern) == {p \in from .. Len(text) : StartsWith(text, p, pattern)}

Earliest(S) == IF S = {} THEN None ELSE CHOOSE p \in S : \A q \in S : p <= q

Find(text, from, pattern) == Earliest(Occurrences(text, from, pattern))

\* The first position from `from` on whose token satisfies a test, or the end.
FirstAt(text, from, Test(_)) ==
  Earliest({p \in from .. Len(text) : p = Len(text) \/ Test(text[p + 1])})

SkipWhitespace(text, from) == FirstAt(text, from, LAMBDA t : t # " ")

MarkersIn(text, from) == UNION {Occurrences(text, from, d.marker) : d \in Dialects}

\* The dialect of the first invoke tag from `from` on, and where it starts.
InvokesIn(text, from, d) ==
  {p \in Occurrences(text, from, d.invokeOpen) :
     LET after == p + Len(d.invokeOpen)
     IN after < Len(text) /\ (text[after + 1] \in {" ", ">"} \/ IsAttribute(text[after + 1]))}

FindNextInvoke(text, from) == Earliest(UNION {InvokesIn(text, from, d) : d \in Dialects})
DialectAt(text, start) == CHOOSE d \in Dialects : StartsWith(text, start, d.marker)

-----------------------------------------------------------------------------
(* Tags *)

NoTag == [name |-> <<>>, attrs |-> {}, selfClosing |-> FALSE, end |-> None]

TagName(text, start, d) ==
  LET from == start + Len(d.marker)
  IN SubSeq(text, from + 1, FirstAt(text, from, EndsName))

RECURSIVE ReadAttributes(_, _, _, _)
\* The attributes from a token on, strictly: one of each key, nothing else.
ReadAttributes(text, at, name, attrs) ==
  LET slash == SkipWhitespace(text, at + 1)
  IN CASE at = Len(text) -> NoTag
       [] at < Len(text) /\ text[at + 1] = ">" ->
            [name |-> name, attrs |-> attrs, selfClosing |-> FALSE, end |-> at + 1]
       [] at < Len(text) /\ text[at + 1] = "/" ->
            IF slash < Len(text) /\ text[slash + 1] = ">"
            THEN [name |-> name, attrs |-> attrs, selfClosing |-> TRUE, end |-> slash + 1]
            ELSE NoTag
       [] at < Len(text) /\ IsAttribute(text[at + 1]) ->
            IF \E a \in attrs : a.key = Attribute[text[at + 1]].key
            THEN NoTag
            ELSE ReadAttributes(text, SkipWhitespace(text, at + 1), name,
                                attrs \union {Attribute[text[at + 1]]})
       [] OTHER -> NoTag

OpenTag(text, from, name) ==
  IF name = <<>> THEN NoTag ELSE ReadAttributes(text, SkipWhitespace(text, from + Len(name)), name, {})

\* A tag of dialect d, as the strict parser reads it.
ParseOpenTag(text, start, d) ==
  IF StartsWith(text, start, d.marker)
  THEN OpenTag(text, start + Len(d.marker), TagName(text, start, d))
  ELSE NoTag

\* How many of the tokens between two positions are quotes.
Quotes(text, from, to) == Cardinality({i \in from + 1 .. to : text[i] = "quote"})

\* The first ">" outside quotes.
TagClosing(text, from) ==
  Earliest({p \in from .. Len(text) - 1 : text[p + 1] = ">" /\ Quotes(text, from, p) % 2 = 0})

EndsInSlash(inside) == inside # <<>> /\ Last(inside) = "/"

BoundedTag(text, from, name, closing) ==
  IF name = <<>> \/ closing = None
  THEN NoTag
  ELSE [name |-> name, attrs |-> {},
        selfClosing |-> EndsInSlash(SelectSeq(SubSeq(text, from + 1, closing), LAMBDA t : t # " ")),
        end |-> closing + 1]

TagBoundary(text, from, name) == BoundedTag(text, from + Len(name), name, TagClosing(text, from + Len(name)))

\* The boundary of a tag whatever its attributes.
ScanOpenTag(text, start, d) ==
  IF StartsWith(text, start, d.marker)
  THEN TagBoundary(text, start + Len(d.marker), TagName(text, start, d))
  ELSE NoTag

Named(tag, name) == tag.name = <<name>>
HasAttr(tag, key) == \E a \in tag.attrs : a.key = key
AttrOf(tag, key) == (CHOOSE a \in tag.attrs : a.key = key).value

-----------------------------------------------------------------------------
(* Invokes *)

NoCall == [end |-> None, call |-> [name |-> "", arguments |-> {}]]

Trimmed(text) ==
  LET first == SkipWhitespace(text, 0)
      lastOf == {p \in DOMAIN text : text[p] # " "}
  IN IF lastOf = {} THEN <<>> ELSE SubSeq(text, first + 1, CHOOSE p \in lastOf : \A q \in lastOf : q <= p)

\* One parameter at a cursor: its value and where it ends, or NoParameter.
NoParameter == [end |-> None, name |-> "", value |-> <<>>]
ParameterOf(text, tag, d, close) ==
  LET raw == SubSeq(text, tag.end + 1, close)
      markup == Occurrences(text, tag.end, d.marker) \union Occurrences(text, tag.end, d.invokeClose)
  IN IF tag = NoTag \/ ~HasAttr(tag, "name") \/ AttrOf(tag, "name") = "" \/ ~HasAttr(tag, "string")
     THEN NoParameter
     ELSE IF d = DoubleBar /\ Named(tag, "invoke") /\ tag.selfClosing
     THEN [end |-> tag.end, name |-> AttrOf(tag, "name"), value |-> <<"string", AttrOf(tag, "string")>>]
     ELSE IF \/ ~Named(tag, "parameter") \/ tag.selfClosing
             \/ AttrOf(tag, "string") \notin {"true", "false"}
             \/ close = None \/ \E p \in markup : p < close
             \/ AttrOf(tag, "string") = "false" /\ Trimmed(raw) # <<"1">>
     THEN NoParameter
     ELSE [end |-> close + Len(d.parameterClose), name |-> AttrOf(tag, "name"),
           value |-> IF AttrOf(tag, "string") = "false" THEN <<"json">> \o Trimmed(raw)
                     ELSE <<"string">> \o raw]

ParameterWith(text, tag, d) == ParameterOf(text, tag, d, Find(text, tag.end, d.parameterClose))
ParseParameter(text, cursor, d) == ParameterWith(text, ParseOpenTag(text, cursor, d), d)

RECURSIVE ReadParameters(_, _, _, _, _), AddParameter(_, _, _, _, _)
\* The parameters from a token on, up to the end of the invoke.
ReadParameters(text, cursor, d, name, arguments) ==
  IF StartsWith(text, cursor, d.invokeClose)
  THEN [end |-> cursor + Len(d.invokeClose), call |-> [name |-> name, arguments |-> arguments]]
  ELSE AddParameter(text, ParseParameter(text, cursor, d), d, name, arguments)

AddParameter(text, parameter, d, name, arguments) ==
  IF parameter = NoParameter \/ \E a \in arguments : a.name = parameter.name
  THEN NoCall
  ELSE ReadParameters(text, SkipWhitespace(text, parameter.end), d, name,
                      arguments \union {[name |-> parameter.name, value |-> parameter.value]})

InvokeWith(text, tag, d) ==
  IF tag = NoTag \/ ~Named(tag, "invoke") \/ tag.selfClosing
     \/ ~HasAttr(tag, "name") \/ AttrOf(tag, "name") = ""
  THEN NoCall
  ELSE ReadParameters(text, SkipWhitespace(text, tag.end), d, AttrOf(tag, "name"), {})

ParseInvoke(text, start, d) == InvokeWith(text, ParseOpenTag(text, start, d), d)

RECURSIVE Balance(_, _, _, _), BalanceTag(_, _, _, _)
\* Where `depth` open invokes are closed again, reading from a cursor; None
\* if that cannot be told.
Balance(text, cursor, d, depth) ==
  LET open == Find(text, cursor, d.marker)
      close == Find(text, cursor, d.invokeClose)
      foreign == Earliest(UNION {Occurrences(text, cursor, e.marker) : e \in Dialects \ {d}})
      current == Earliest({open, close} \ {None})
  IN IF current = None \/ (foreign # None /\ foreign < current)
     THEN None
     ELSE IF current # close
     THEN BalanceTag(text, ScanOpenTag(text, open, d), d, depth)
     ELSE IF depth = 1
     THEN close + Len(d.invokeClose)
     ELSE Balance(text, close + Len(d.invokeClose), d, depth - 1)

BalanceTag(text, tag, d, depth) ==
  LET bodyEnd == Find(text, tag.end, d.parameterClose)
  IN IF tag = NoTag
     THEN None
     ELSE IF Named(tag, "invoke") /\ ~tag.selfClosing
     THEN Balance(text, tag.end, d, depth + 1)
     ELSE IF Named(tag, "parameter") /\ ~tag.selfClosing
     THEN IF bodyEnd = None \/ \E p \in Occurrences(text, tag.end, d.marker) : p < bodyEnd
          THEN None
          ELSE Balance(text, bodyEnd + Len(d.parameterClose), d, depth)
     ELSE Balance(text, tag.end, d, depth)

\* Bug: recovery goes on behind the malformed tag itself.
MalformedInvokeEndShallow(text, start, d) == ScanOpenTag(text, start, d).end

\* Where reading goes on behind an invoke that does not parse.
MalformedTagEnd(text, outer, d) ==
  IF outer = NoTag THEN None
  ELSE IF ~Named(outer, "invoke") \/ outer.selfClosing THEN outer.end
  ELSE Balance(text, outer.end, d, 1)

MalformedInvokeEnd(text, start, d) == MalformedTagEnd(text, ScanOpenTag(text, start, d), d)

-----------------------------------------------------------------------------
(* Messages *)

RECURSIVE Spans(_, _), SpanThen(_, _, _), SpansAfter(_, _)
\* The calls of a text from a position on: where each begins and ends.
Spans(text, from) ==
  LET start == FindNextInvoke(text, from)
  IN IF start = None THEN <<>>
     ELSE SpanThen(text, start, ParseInvoke(text, start, DialectAt(text, start)))

SpanThen(text, start, parsed) ==
  IF parsed # NoCall
  THEN << [from |-> start, to |-> parsed.end, call |-> parsed.call] >> \o Spans(text, parsed.end)
  ELSE SpansAfter(text, MalformedInvokeEnd(text, start, DialectAt(text, start)))

SpansAfter(text, past) == IF past = None THEN <<>> ELSE Spans(text, past)

\* A text without some of its spans.
CutOut(text, spans) ==
  LET kept == SelectSeq([i \in DOMAIN text |-> i],
                        LAMBDA i : ~\E k \in DOMAIN spans : spans[k].from < i /\ i <= spans[k].to)
  IN [i \in DOMAIN kept |-> text[kept[i]]]

\* The pairs of envelope tags of a dialect that the search meets, as positions
\* of their first tokens.
RECURSIVE Envelopes(_, _, _)
Envelopes(text, from, d) ==
  LET open == Find(text, from, d.callsOpen)
      close == Find(text, open + Len(d.callsOpen), d.callsClose)
  IN IF open = None \/ close = None THEN <<>>
     ELSE << [open |-> open, close |-> close] >> \o Envelopes(text, close + Len(d.callsClose), d)

EmptyEnvelopes(text, d) ==
  SelectSeq(Envelopes(text, 0, d),
            LAMBDA e : \A i \in e.open + Len(d.callsOpen) + 1 .. e.close : text[i] = " ")

WithoutEnvelope(text, e, d) ==
  SubSeq(text, 1, e.open) \o SubSeq(text, e.close + Len(d.callsClose) + 1, Len(text))

RECURSIVE StripEmptyEnvelopes(_), StripFirst(_, _, _)
\* Pairs with nothing between them go, the double-bar ones first.
StripEmptyEnvelopes(text) ==
  StripFirst(text, EmptyEnvelopes(text, DoubleBar), EmptyEnvelopes(text, SingleBar))

StripFirst(text, doubles, singles) ==
  IF doubles # <<>> THEN StripEmptyEnvelopes(WithoutEnvelope(text, doubles[1], DoubleBar))
  ELSE IF singles # <<>> THEN StripEmptyEnvelopes(WithoutEnvelope(text, singles[1], SingleBar))
  ELSE text

\* The text that is left of a message, and its calls.  Without a call the text
\* stays as it is.
WithoutSpans(text, spans) ==
  IF spans = <<>>
  THEN [text |-> text, calls |-> <<>>]
  ELSE [text |-> StripEmptyEnvelopes(CutOut(text, spans)),
        calls |-> [i \in DOMAIN spans |-> spans[i].call]]

ParseLeakedToolCalls(text) == WithoutSpans(text, Spans(text, 0))

=============================================================================
