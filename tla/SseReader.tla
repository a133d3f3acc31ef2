------------------------------ MODULE SseReader ------------------------------
(***************************************************************************)
(* The reader of upstream event streams (src/src/upstream.rs): the loop    *)
(* that parse_sse_stream and split_sse_events share.  Bytes arrive in      *)
(* chunks cut anywhere and are gathered in a buffer; whatever lies before  *)
(* a delimiter is one block.  The search for a delimiter does not begin at *)
(* the start of the buffer but at an offset from which, the code argues,   *)
(* none can have been missed.                                              *)
(*                                                                         *)
(* split_sse_events hands on every block as it is; parse_sse_stream hands  *)
(* on the data of those that have any (EventData).                         *)
(*                                                                         *)
(* A byte is a member of Byte.  "LF", "CR" and " " are those characters;   *)
(* "data:" and ":" stand for the prefix of a data line and for a comment's *)
(* colon; everything else is text.                                         *)
(***************************************************************************)
EXTENDS Integers, Sequences, SequencesExt

CONSTANT Byte

VARIABLES
  buffer,    \* bytes not yet handed on
  resume,    \* how many of them the next search skips
  blocks,    \* the blocks handed on so far, delimiters included
  pc,        \* "scan", "wait" (for the next chunk) or "over"
  received   \* all bytes so far (only recorded)

readerVars == <<buffer, resume, blocks, pc, received>>

-----------------------------------------------------------------------------
(* Event boundaries *)

LfLf == <<"LF", "LF">>
CrLfCrLf == <<"CR", "LF", "CR", "LF">>

\* The two delimiters, by length.
Delimiter == [n \in {2, 4} |-> IF n = 2 THEN LfLf ELSE CrLfCrLf]

MaxDelimLen == 4

\* A delimiter of n bytes follows the first p bytes of buf.
DelimiterAt(buf, p, n) ==
  /\ p + n <= Len(buf)
  /\ SubSeq(buf, p + 1, p + n) = Delimiter[n]

\* Bug: a delimiter is looked for behind the overlap only.
BoundariesFromLate(buf, start) ==
  {p \in (start + 1) .. Len(buf) : \E n \in {2, 4} : DelimiterAt(buf, p, n)}

\* Where delimiters begin in buf, not looking at its first `start` bytes.
BoundariesFrom(buf, start) ==
  {p \in start .. Len(buf) : \E n \in {2, 4} : DelimiterAt(buf, p, n)}

\* The earliest of them, and how long its delimiter is.
FirstOf(S) == CHOOSE p \in S : \A q \in S : p <= q
FindEventBoundary(buf, start) == FirstOf(BoundariesFrom(buf, start))
DelimiterLen(buf, p) == CHOOSE n \in {2, 4} : DelimiterAt(buf, p, n)

-----------------------------------------------------------------------------
(* What is in a block *)

\* The lines of a text.  The line end is LF or CR LF; a text that ends with
\* one has no empty line after it, and a CR at the very end stays.
Lines(text) ==
  LET split == FoldLeft(LAMBDA lines, b :
                          IF b = "LF"
                          THEN Append([lines EXCEPT ![Len(lines)] =
                                         IF @ # <<>> /\ Last(@) = "CR" THEN Front(@) ELSE @], <<>>)
                          ELSE [lines EXCEPT ![Len(lines)] = Append(@, b)],
                        << <<>> >>, text)
  IN IF Last(split) = <<>> THEN Front(split) ELSE split

DataLines(text) ==
  SelectSeq(Lines(text), LAMBDA line : line # <<>> /\ Head(line) = "data:")

\* The data of a block: its data lines, without the prefix and at most one
\* space, joined by line feeds.
EventData(text) ==
  LET payload(line) == IF Len(line) > 1 /\ line[2] = " " THEN SubSeq(line, 3, Len(line)) ELSE Tail(line)
      lines == DataLines(text)
  IN FoldLeft(LAMBDA data, line : data \o <<"LF">> \o payload(line), payload(lines[1]), Tail(lines))

\* Blocks without a data line are no event for parse_sse_stream.
IsEvent(text) == DataLines(text) # <<>>

IsDone(data) == SelectSeq(data, LAMBDA b : b \notin {" ", "LF", "CR"}) = <<"[DONE]">>

Blank(text) == \A i \in DOMAIN text : text[i] \in {" ", "LF", "CR"}

-----------------------------------------------------------------------------

ReaderInit ==
  /\ buffer = <<>>
  /\ resume = 0
  /\ blocks = <<>>
  /\ pc = "scan"
  /\ received = <<>>

\* A delimiter is found: what is before it goes out, the rest is unscanned.
Emit ==
  /\ pc = "scan"
  /\ BoundariesFrom(buffer, resume) # {}
  /\ LET at == FindEventBoundary(buffer, resume)
         end == at + DelimiterLen(buffer, at)
     IN /\ blocks' = Append(blocks, SubSeq(buffer, 1, end))
        /\ buffer' = SubSeq(buffer, end + 1, Len(buffer))
  /\ resume' = 0
  /\ UNCHANGED <<pc, received>>

\* Bug: the overlap is one byte short.
ResumeAtShort(buf) == IF Len(buf) > MaxDelimLen - 2 THEN Len(buf) - (MaxDelimLen - 2) ELSE 0

\* Where the next search may begin: a delimiter further left would lie in
\* the bytes that have just been searched.
ResumeAt(buf) == IF Len(buf) > MaxDelimLen - 1 THEN Len(buf) - (MaxDelimLen - 1) ELSE 0

\* None: the reader waits for the next chunk.
Await ==
  /\ pc = "scan"
  /\ BoundariesFrom(buffer, resume) = {}
  /\ resume' = ResumeAt(buffer)
  /\ pc' = "wait"
  /\ UNCHANGED <<buffer, blocks, received>>

Receive(chunk) ==
  /\ pc = "wait"
  /\ buffer' = buffer \o chunk
  /\ received' = received \o chunk
  /\ pc' = "scan"
  /\ UNCHANGED <<resume, blocks>>

\* The body ends: what is left is one more block unless it is blank.
End ==
  /\ pc = "wait"
  /\ blocks' = IF Blank(buffer) THEN blocks ELSE Append(blocks, buffer)
  /\ buffer' = <<>>
  /\ pc' = "over"
  /\ UNCHANGED <<resume, received>>

\* The connection breaks: what is left is dropped.
Break ==
  /\ pc = "wait"
  /\ pc' = "over"
  /\ UNCHANGED <<buffer, resume, blocks, received>>

ReaderNext ==
  \/ Emit
  \/ Await
  \/ \E chunk \in Seq(Byte) : Receive(chunk)
  \/ End
  \/ Break

ReaderSpec == ReaderInit /\ [][ReaderNext]_readerVars

-----------------------------------------------------------------------------

ReaderTypeOK ==
  /\ buffer \in Seq(Byte)
  /\ resume \in Nat
  /\ blocks \in Seq(Seq(Byte))
  /\ pc \in {"scan", "wait", "over"}
  /\ received \in Seq(Byte)

\* The resumed search misses nothing (src/src/upstream.rs:243-258): wherever a
\* chunk was cut, no delimiter begins in the bytes that the search skips.
NoBoundarySkipped ==
  pc = "scan" => \A p \in 0 .. Len(buffer), n \in {2, 4} : DelimiterAt(buffer, p, n) => p >= resume

=============================================================================
