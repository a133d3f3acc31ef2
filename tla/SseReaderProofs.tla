-------------------------- MODULE SseReaderProofs --------------------------
(***************************************************************************)
(* Proofs about SseReader, for bytes of any kind, in chunks of any length, *)
(* empty ones included.                                                    *)
(***************************************************************************)
EXTENDS SseReader, SequenceTheorems, WellFoundedInduction, TLAPS

-----------------------------------------------------------------------------
(* Searching a buffer *)

LEMMA LeastNatural ==
    ASSUME NEW T, T \subseteq Nat, T # {}
    PROVE  \E x \in T : \A y \in T : x <= y
<1>1. PICK x \in T : \A y \in T : ~(<<y, x>> \in OpToRel(<, Nat))
  BY NatLessThanWellFounded, WFMin
<1>2. ASSUME NEW y \in T PROVE x <= y
  <2>1. ~(y < x)
    BY <1>1 DEF OpToRel
  <2> QED
    BY <2>1
<1> QED
  BY <1>2

\* A boundary that is found lies in the buffer, delimiter and all.
LEMMA BoundaryFound ==
    ASSUME NEW buf \in Seq(Byte), NEW start \in Nat, BoundariesFrom(buf, start) # {}
    PROVE  /\ FindEventBoundary(buf, start) \in BoundariesFrom(buf, start)
           /\ \A q \in BoundariesFrom(buf, start) : FindEventBoundary(buf, start) <= q
           /\ FindEventBoundary(buf, start) \in Nat
           /\ DelimiterLen(buf, FindEventBoundary(buf, start)) \in {2, 4}
           /\ FindEventBoundary(buf, start) + DelimiterLen(buf, FindEventBoundary(buf, start))
                <= Len(buf)
<1> DEFINE S == BoundariesFrom(buf, start)
           at == FindEventBoundary(buf, start)
<1>1. S \subseteq Nat
  BY DEF BoundariesFrom
<1>2. \E p \in S : \A q \in S : p <= q
  BY <1>1, LeastNatural
<1>3. at \in S /\ \A q \in S : at <= q
  BY <1>2 DEF FindEventBoundary, FirstOf
<1>4. PICK n \in {2, 4} : DelimiterAt(buf, at, n)
  BY <1>3 DEF BoundariesFrom
<1>5. DelimiterLen(buf, at) \in {2, 4} /\ DelimiterAt(buf, at, DelimiterLen(buf, at))
  BY <1>4 DEF DelimiterLen
<1>6. at \in Nat
  BY <1>1, <1>3
<1>7. at + DelimiterLen(buf, at) <= Len(buf)
  BY <1>5 DEF DelimiterAt
<1> QED
  BY <1>3, <1>5, <1>6, <1>7

\* More bytes make no delimiter out of bytes that were none.
LEMMA DelimiterWithin ==
    ASSUME NEW buf \in Seq(Byte), NEW chunk \in Seq(Byte), NEW p \in Nat, NEW n \in {2, 4},
           DelimiterAt(buf \o chunk, p, n), p + n <= Len(buf)
    PROVE  DelimiterAt(buf, p, n)
<1>1. SubSeq(buf \o chunk, p + 1, p + n) = SubSeq(buf, p + 1, p + n)
  <2> DEFINE whole == buf \o chunk
  <2>1. whole \in Seq(Byte) /\ Len(whole) = Len(buf) + Len(chunk)
    OBVIOUS
  <2>2. \A i \in 1 .. Len(buf) : whole[i] = buf[i]
    OBVIOUS
  <2> HIDE DEF whole
  <2>3. p + 1 \in 1 .. Len(whole) + 1 /\ p + n \in 0 .. Len(whole)
    BY <2>1
  <2>4. /\ Len(SubSeq(whole, p + 1, p + n)) = n
        /\ \A i \in 1 .. n : SubSeq(whole, p + 1, p + n)[i] = whole[p + i]
    BY <2>1, <2>3
  <2>5. /\ Len(SubSeq(buf, p + 1, p + n)) = n
        /\ \A i \in 1 .. n : SubSeq(buf, p + 1, p + n)[i] = buf[p + i]
    BY SMTT(30)
  <2>6. \A i \in 1 .. n : whole[p + i] = buf[p + i]
    BY <2>2
  <2>7. SubSeq(whole, p + 1, p + n) \in Seq(Byte) /\ SubSeq(buf, p + 1, p + n) \in Seq(Byte)
    BY <2>1, <2>3
  <2> QED
    BY <2>4, <2>5, <2>6, <2>7, SeqEqual DEF whole
<1> QED
  BY <1>1 DEF DelimiterAt

-----------------------------------------------------------------------------
(* The invariant *)

\* While the reader waits there is no boundary at all in the buffer, and the
\* next search begins no more than an overlap before its end.
Searched ==
  pc = "wait" =>
    /\ \A p \in 0 .. Len(buffer), n \in {2, 4} : ~DelimiterAt(buffer, p, n)
    /\ resume = ResumeAt(buffer)

ReaderInv == ReaderTypeOK /\ Searched /\ NoBoundarySkipped

LEMMA InitReader == ReaderInit => ReaderInv
<1> SUFFICES ASSUME ReaderInit PROVE ReaderInv
  OBVIOUS
<1>1. ReaderTypeOK
  BY DEF ReaderInit, ReaderTypeOK
<1>2. Searched /\ NoBoundarySkipped
  BY DEF ReaderInit, Searched, NoBoundarySkipped
<1> QED
  BY <1>1, <1>2 DEF ReaderInv

LEMMA EmitKeeps ==
    ASSUME ReaderInv, Emit PROVE ReaderInv'
<1> USE DEF ReaderInv
<1> DEFINE at == FindEventBoundary(buffer, resume)
           end == at + DelimiterLen(buffer, at)
<1>1. at \in Nat /\ end \in Nat /\ end <= Len(buffer)
  <2>1. BoundariesFrom(buffer, resume) # {}
    BY DEF Emit
  <2>2. buffer \in Seq(Byte) /\ resume \in Nat
    BY DEF ReaderTypeOK
  <2> QED
    BY <2>1, <2>2, BoundaryFound
<1>2. /\ blocks' = Append(blocks, SubSeq(buffer, 1, end))
      /\ buffer' = SubSeq(buffer, end + 1, Len(buffer))
      /\ resume' = 0 /\ pc = "scan" /\ UNCHANGED <<pc, received>>
  BY DEF Emit
<1> HIDE DEF at, end
<1>3. SubSeq(buffer, 1, end) \in Seq(Byte) /\ SubSeq(buffer, end + 1, Len(buffer)) \in Seq(Byte)
  BY <1>1 DEF ReaderTypeOK
<1>4. ReaderTypeOK'
  BY <1>2, <1>3 DEF ReaderTypeOK
<1>5. Searched'
  BY <1>2 DEF Searched
<1>6. NoBoundarySkipped'
  BY <1>2 DEF NoBoundarySkipped
<1> QED
  BY <1>4, <1>5, <1>6

\* The search covers what the resume offset leaves, the invariant the rest.
LEMMA AwaitKeeps ==
    ASSUME ReaderInv, Await PROVE ReaderInv'
<1> USE DEF ReaderInv
<1>1. /\ pc = "scan" /\ pc' = "wait" /\ resume' = ResumeAt(buffer)
      /\ UNCHANGED <<buffer, blocks, received>>
      /\ BoundariesFrom(buffer, resume) = {}
  BY DEF Await
<1>2. ResumeAt(buffer) \in Nat
  BY DEF ReaderTypeOK, ResumeAt, MaxDelimLen
<1>3. ReaderTypeOK'
  BY <1>1, <1>2 DEF ReaderTypeOK
<1>4. ASSUME NEW p \in 0 .. Len(buffer), NEW n \in {2, 4}, DelimiterAt(buffer, p, n)
      PROVE FALSE
  <2>1. p >= resume
    BY <1>1, <1>4 DEF NoBoundarySkipped
  <2>2. p \in BoundariesFrom(buffer, resume)
    BY <2>1, <1>4 DEF BoundariesFrom, ReaderTypeOK
  <2> QED
    BY <1>1, <2>2
<1>5. Searched'
  BY <1>1, <1>4 DEF Searched, ResumeAt, DelimiterAt, ReaderTypeOK
<1>6. NoBoundarySkipped'
  BY <1>1 DEF NoBoundarySkipped
<1> QED
  BY <1>3, <1>5, <1>6

\* A delimiter begun before the resume offset would have been in the bytes
\* that were searched: none is longer than the overlap plus one.
LEMMA ReceiveKeeps ==
    ASSUME ReaderInv, NEW chunk \in Seq(Byte), Receive(chunk) PROVE ReaderInv'
<1> USE DEF ReaderInv
<1>1. /\ pc = "wait" /\ pc' = "scan" /\ buffer' = buffer \o chunk
      /\ received' = received \o chunk /\ UNCHANGED <<resume, blocks>>
  BY DEF Receive
<1>2. ReaderTypeOK'
  BY <1>1 DEF ReaderTypeOK
<1>3. Searched'
  BY <1>1 DEF Searched
<1>4. ASSUME NEW p \in Nat, NEW n \in {2, 4}, DelimiterAt(buffer \o chunk, p, n), p < resume
      PROVE FALSE
  <2>1. p + n <= Len(buffer)
    BY <1>1, <1>4 DEF Searched, ResumeAt, MaxDelimLen, ReaderTypeOK
  <2>2. DelimiterAt(buffer, p, n)
    BY <1>4, <2>1, DelimiterWithin DEF ReaderTypeOK
  <2>3. p \in 0 .. Len(buffer)
    BY <2>1 DEF ReaderTypeOK
  <2> QED
    BY <1>1, <2>2, <2>3 DEF Searched
<1>5. ASSUME NEW p \in 0 .. Len(buffer \o chunk), NEW n \in {2, 4}, DelimiterAt(buffer \o chunk, p, n)
      PROVE p >= resume
  BY <1>4, <1>5 DEF ReaderTypeOK
<1>6. NoBoundarySkipped'
  BY <1>1, <1>5 DEF NoBoundarySkipped
<1> QED
  BY <1>2, <1>3, <1>6

LEMMA EndKeeps ==
    ASSUME ReaderInv, End \/ Break PROVE ReaderInv'
<1> USE DEF ReaderInv
<1>1. /\ pc' = "over" /\ UNCHANGED <<resume, received>>
      /\ buffer' \in {buffer, <<>>} /\ blocks' \in {blocks, Append(blocks, buffer)}
  BY DEF End, Break
<1>2. ReaderTypeOK'
  <2>1. buffer \in Seq(Byte) /\ blocks \in Seq(Seq(Byte))
    BY DEF ReaderTypeOK
  <2>2. <<>> \in Seq(Byte) /\ Append(blocks, buffer) \in Seq(Seq(Byte))
    BY <2>1
  <2> QED
    BY <1>1, <2>1, <2>2 DEF ReaderTypeOK
<1>3. Searched' /\ NoBoundarySkipped'
  BY <1>1 DEF Searched, NoBoundarySkipped
<1> QED
  BY <1>2, <1>3

LEMMA ReaderStep == ReaderInv /\ [ReaderNext]_readerVars => ReaderInv'
<1> SUFFICES ASSUME ReaderInv, [ReaderNext]_readerVars PROVE ReaderInv'
  OBVIOUS
<1>1. CASE Emit
  BY <1>1, EmitKeeps
<1>2. CASE Await
  BY <1>2, AwaitKeeps
<1>3. CASE \E chunk \in Seq(Byte) : Receive(chunk)
  BY <1>3, ReceiveKeeps
<1>4. CASE End \/ Break
  BY <1>4, EndKeeps
<1>5. CASE UNCHANGED readerVars
  BY <1>5 DEF readerVars, ReaderInv, ReaderTypeOK, Searched, NoBoundarySkipped
<1> QED
  BY <1>1, <1>2, <1>3, <1>4, <1>5 DEF ReaderNext

-----------------------------------------------------------------------------

\* The resumed search never misses a delimiter, whatever the bytes and
\* wherever the chunks are cut (src/src/upstream.rs:89, 243-258).
THEOREM NothingSkipped == ReaderSpec => []NoBoundarySkipped
<1>1. ReaderSpec => []ReaderInv
  BY InitReader, ReaderStep, PTL DEF ReaderSpec
<1>2. ReaderInv => NoBoundarySkipped
  BY DEF ReaderInv
<1> QED
  BY <1>1, <1>2, PTL

=============================================================================
