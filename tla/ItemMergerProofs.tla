-------------------------- MODULE ItemMergerProofs --------------------------
(***************************************************************************)
(* Proofs about ItemMerger, for every set of kinds and streams of any      *)
(* length.                                                                 *)
(***************************************************************************)
EXTENDS ItemMerger, SequenceTheorems, FiniteSetTheorems, WellFoundedInduction, TLAPS

-----------------------------------------------------------------------------
\* Sequences of anything.

IsSeq(s) == \E S : s \in Seq(S)

LEMMA EmptyIsSeq == IsSeq(<<>>) /\ Len(<<>>) = 0
<1>1. <<>> \in Seq({})
  OBVIOUS
<1> QED
  BY <1>1 DEF IsSeq

LEMMA AppendAny ==
    ASSUME NEW s, IsSeq(s), NEW e PROVE
    /\ IsSeq(Append(s, e))
    /\ Len(s) \in Nat /\ DOMAIN s = 1..Len(s)
    /\ Len(Append(s, e)) = Len(s) + 1
    /\ DOMAIN Append(s, e) = 1..(Len(s) + 1)
    /\ \A n \in DOMAIN s : Append(s, e)[n] = s[n]
    /\ Append(s, e)[Len(s) + 1] = e
<1>1. PICK S : s \in Seq(S)
  BY DEF IsSeq
<1> DEFINE T == S \cup {e}
<1>2. s \in Seq(T)
  BY <1>1, SeqMonotonic
<1>3. e \in T
  OBVIOUS
<1> HIDE DEF T
<1>4. Append(s, e) \in Seq(T)
  BY <1>2, <1>3
<1>5. IsSeq(Append(s, e))
  BY <1>4 DEF IsSeq
<1> QED
  BY <1>2, <1>3, <1>4, <1>5

LEMMA ConcatAny ==
    ASSUME NEW s, IsSeq(s), NEW t, IsSeq(t) PROVE
    /\ IsSeq(s \o t)
    /\ Len(s) \in Nat /\ DOMAIN s = 1..Len(s)
    /\ Len(t) \in Nat /\ DOMAIN t = 1..Len(t)
    /\ DOMAIN (s \o t) = 1..(Len(s) + Len(t))
    /\ \A n \in 1..(Len(s) + Len(t)) :
          (s \o t)[n] = IF n <= Len(s) THEN s[n] ELSE t[n - Len(s)]
<1>1. PICK S : s \in Seq(S)
  BY DEF IsSeq
<1>2. PICK T : t \in Seq(T)
  BY DEF IsSeq
<1> DEFINE U == S \cup T
<1>3. s \in Seq(U) /\ t \in Seq(U)
  BY <1>1, <1>2, SeqMonotonic
<1> HIDE DEF U
<1>4. s \o t \in Seq(U)
  BY <1>3
<1>5. IsSeq(s \o t)
  BY <1>4 DEF IsSeq
<1>6. Len(s \o t) = Len(s) + Len(t)
  BY <1>3
<1>7. DOMAIN (s \o t) = 1..(Len(s) + Len(t))
  BY <1>4, <1>6
<1> QED
  BY <1>3, <1>5, <1>7

\* Appending an event to nothing and then to a stream is appending it.
LEMMA ConcatSingle ==
    ASSUME NEW s, IsSeq(s), NEW e PROVE s \o Append(<<>>, e) = Append(s, e)
<1>1. PICK S : s \in Seq(S)
  BY DEF IsSeq
<1> DEFINE T == S \cup {e}
<1>2. s \in Seq(T) /\ e \in T
  BY <1>1, SeqMonotonic
<1> HIDE DEF T
<1>3. Append(<<>>, e) = <<e>>
  OBVIOUS
<1> QED
  BY <1>2, <1>3, AppendIsConcat

-----------------------------------------------------------------------------
\* The invariant: the shapes of the run and of the streams, and what the
\* streams say about each other.

RunOK(r, m) ==
    /\ r = [key |-> r.key, ids |-> r.ids, said |-> r.said, part |-> r.part]
    /\ r.ids \in Seq(Nat)
    /\ r = NoRun \/ (r.key \in Keys /\ r.key.type \in Covered /\ r.ids # <<>>)
    /\ \A n \in DOMAIN r.ids : r.ids[n] + Len(r.ids) = m + n

LogOK(log, m) ==
    /\ IsSeq(log)
    /\ \A n \in DOMAIN log : log[n].type \in EventTypes /\ log[n].id \in 0..m

MergedOK(records) ==
    IsSeq(records) /\ \A n \in DOMAIN records : Len(records[n].ids) >= 2

TypeInv ==
    /\ keys \in Seq(Keys) /\ closed \subseteq DOMAIN keys
    /\ LogOK(received, Len(keys)) /\ LogOK(out, Len(keys))
    /\ RunOK(run, Len(keys)) /\ MergedOK(merged)

\* The run is never set with the quirk off.
OffInv == ~Enabled => run = NoRun /\ merged = <<>>

\* Why a healthy stream comes out as it went in: nothing was recorded, the run
\* is the item opened last, and a part it has passed on was received.
Identical ==
    (Healthy \/ ~Enabled) =>
        /\ out = received /\ merged = <<>>
        /\ run # NoRun =>
              /\ Len(run.ids) = 1 /\ keys # <<>> /\ run.key = keys[Len(keys)]
              /\ run.part => \E n \in DOMAIN received :
                    received[n].type = "part" /\ received[n].id = run.ids[1]

IInv == TypeInv /\ OffInv /\ Identical

\* The variables hold what the merger's fields can hold.
LEMMA TypeInvTypes == TypeInv => TypeOK
<1> SUFFICES ASSUME TypeInv PROVE TypeOK
  OBVIOUS
<1>1. \A log \in {received, out} : \A n \in DOMAIN log :
          log[n].type \in EventTypes /\ log[n].id \in 0..Len(keys)
  BY DEF TypeInv, LogOK
<1> QED
  BY <1>1 DEF TypeInv, RunOK, MergedOK, TypeOK

LEMMA InvInit == Init => IInv
<1> SUFFICES ASSUME Init PROVE IInv
  OBVIOUS
<1>1. RunOK(run, Len(keys))
  BY EmptyIsSeq DEF Init, RunOK, NoRun
<1>2. LogOK(<<>>, Len(keys)) /\ MergedOK(<<>>)
  BY EmptyIsSeq DEF LogOK, MergedOK
<1> QED
  BY <1>1, <1>2 DEF Init, IInv, TypeInv, OffInv, Identical

\* A stream stays one when an event is appended, or the upstream opens more.
LEMMA LogAppend ==
    ASSUME NEW log, NEW m \in Nat, LogOK(log, m), NEW e,
           e.type \in EventTypes, e.id \in 0..m
    PROVE  LogOK(Append(log, e), m)
  BY AppendAny DEF LogOK

LEMMA LogGrows ==
    ASSUME NEW log, NEW m \in Nat, LogOK(log, m) PROVE LogOK(log, m + 1)
  BY DEF LogOK

LEMMA LogConcat ==
    ASSUME NEW log, NEW m \in Nat, LogOK(log, m), NEW more, LogOK(more, m)
    PROVE  LogOK(log \o more, m)
<1>1. IsSeq(log) /\ IsSeq(more)
  BY DEF LogOK
<1>2. /\ IsSeq(log \o more)
      /\ DOMAIN (log \o more) = 1..(Len(log) + Len(more))
  BY <1>1, ConcatAny
<1>3. ASSUME NEW n \in 1..(Len(log) + Len(more))
      PROVE  (log \o more)[n].type \in EventTypes /\ (log \o more)[n].id \in 0..m
  <2>1. /\ Len(log) \in Nat /\ DOMAIN log = 1..Len(log)
        /\ Len(more) \in Nat /\ DOMAIN more = 1..Len(more)
        /\ (log \o more)[n] = IF n <= Len(log) THEN log[n] ELSE more[n - Len(log)]
    BY <1>1, ConcatAny
  <2>2. CASE n <= Len(log)
    BY <2>1, <2>2 DEF LogOK
  <2>3. CASE ~(n <= Len(log))
    <3>1. n - Len(log) \in DOMAIN more
      BY <2>1, <2>3
    <3> QED
      BY <2>1, <2>3, <3>1 DEF LogOK
  <2> QED
    BY <2>2, <2>3
<1> QED
  BY <1>2, <1>3 DEF LogOK

\* What closes a run: nothing, or ends of its first fragment.
LEMMA DonesFacts ==
    ASSUME NEW r, NEW m \in Nat, RunOK(r, m) PROVE
    /\ IsSeq(Dones(r))
    /\ \A n \in DOMAIN Dones(r) :
          /\ Dones(r)[n].type \in {"partdone", "done"}
          /\ Dones(r)[n].id = r.ids[1] /\ r.ids # <<>>
    /\ ~Merging(r) => Dones(r) = <<>>
<1> DEFINE close(type) == Event(type, r.ids[1], r.key, r.said, <<>>)
<1>1. CASE ~Merging(r)
  BY <1>1, EmptyIsSeq DEF Dones
<1>2. CASE Merging(r)
  <2>1. Dones(r) \in {<<close("partdone"), close("done")>>, <<close("done")>>}
    BY <1>2 DEF Dones
  <2>2. r.ids # <<>>
    BY <1>2 DEF Merging, RunOK
  <2>3. \A type : close(type).type = type /\ close(type).id = r.ids[1]
    BY DEF Event
  <2> HIDE DEF close
  <2>4. IsSeq(<<close("partdone"), close("done")>>) /\ IsSeq(<<close("done")>>)
    <3> DEFINE S == {close("partdone"), close("done")}
    <3>1. close("partdone") \in S /\ close("done") \in S
      OBVIOUS
    <3> HIDE DEF S
    <3>2. <<close("partdone"), close("done")>> \in Seq(S) /\ <<close("done")>> \in Seq(S)
      BY <3>1
    <3> QED
      BY <3>2 DEF IsSeq
  <2> QED
    BY <1>2, <2>1, <2>2, <2>3, <2>4
<1> QED
  BY <1>1, <1>2

\* Closing a run keeps the stream and the records in shape.
LEMMA CloseRun ==
    ASSUME NEW l \in Nat, RunOK(run, l), NEW m \in Nat, l <= m,
           LogOK(out, m), MergedOK(merged),
           NEW e, e.type \in EventTypes, e.id \in 0..m
    PROVE  LogOK(out \o Append(Dones(run), e), m) /\ MergedOK(Recorded(run))
<1>1. LogOK(Dones(run), m)
  <2>1. run.ids # <<>> => run.ids[1] \in 0..m
    BY DEF RunOK
  <2> QED
    BY <2>1, DonesFacts DEF LogOK, EventTypes
<1>2. LogOK(out \o Append(Dones(run), e), m)
  BY <1>1, LogAppend, LogConcat
<1>3. MergedOK(Recorded(run))
  BY AppendAny DEF MergedOK, Recorded, Merging
<1> QED
  BY <1>2, <1>3

-----------------------------------------------------------------------------
\* Each handler keeps the shapes.  m is the number of items opened when the
\* handler ends; the handlers but on_added find the run as it must leave it.

ShapeNext(m) == RunOK(run', m) /\ LogOK(out', m) /\ MergedOK(merged')

LEMMA NextId ==
    ASSUME NEW ids \in Seq(Nat), NEW c \in Nat,
           \A n \in DOMAIN ids : ids[n] + Len(ids) = c + n
    PROVE  \A n \in DOMAIN Append(ids, c + 1) :
              Append(ids, c + 1)[n] + Len(Append(ids, c + 1)) = (c + 1) + n
<1> DEFINE s == Append(ids, c + 1)
<1>1. /\ Len(ids) \in Nat /\ DOMAIN ids = 1..Len(ids)
      /\ Len(s) = Len(ids) + 1 /\ DOMAIN s = 1..(Len(ids) + 1)
      /\ s[Len(ids) + 1] = c + 1 /\ \A n \in 1..Len(ids) : s[n] = ids[n]
  OBVIOUS
<1> HIDE DEF s
<1> SUFFICES ASSUME NEW n \in 1..(Len(ids) + 1) PROVE s[n] + Len(s) = (c + 1) + n
  BY <1>1 DEF s
<1>2. CASE n = Len(ids) + 1
  BY <1>1, <1>2
<1>3. CASE n \in 1..Len(ids)
  <2>1. n \in DOMAIN ids
    BY <1>1, <1>3
  <2>2. ids[n] \in Nat
    BY <2>1, ElementOfSeq, <1>1
  <2>3. ids[n] + Len(ids) = c + n
    BY <2>1
  <2>4. s[n] = ids[n]
    BY <1>1, <1>3
  <2>5. ids[n] + (Len(ids) + 1) = (c + 1) + n
    <3>1. \A x, l, k \in Nat : x + l = c + k => x + (l + 1) = (c + 1) + k
      OBVIOUS
    <3>2. n \in Nat /\ Len(ids) \in Nat
      BY <1>1
    <3> QED
      BY <2>2, <2>3, <3>1, <3>2
  <2> QED
    BY <1>1, <2>4, <2>5
<1> QED
  BY <1>1, <1>2, <1>3

LEMMA AddedShape ==
    ASSUME TypeInv, NEW k \in Keys, NEW e,
           e = Event("added", Len(keys) + 1, k, <<>>, <<>>), OnAdded(e)
    PROVE  ShapeNext(Len(keys) + 1)
<1> DEFINE m == Len(keys) + 1
<1>1. m \in Nat /\ e.id = m /\ e.key = k /\ e.type = "added" /\ LogOK(out, m)
  BY LogGrows DEF TypeInv, Event
<1>2. CASE Continues(e)
  <2>1. run' = [run EXCEPT !.ids = Append(@, e.id)] /\ merged' = merged /\ out' = out
    BY <1>2 DEF OnAdded
  <2>2. run # NoRun /\ RunOK(run, Len(keys))
    BY <1>2 DEF Continues, TypeInv
  <2>3. /\ run' = [key |-> run.key, ids |-> Append(run.ids, m), said |-> run.said,
                    part |-> run.part]
        /\ run.ids \in Seq(Nat) /\ run.key \in Keys /\ run.key.type \in Covered
    BY <1>1, <2>1, <2>2 DEF RunOK
  <2>4. /\ Append(run.ids, m) \in Seq(Nat) /\ Append(run.ids, m) # <<>>
        /\ \A n \in DOMAIN Append(run.ids, m) :
              Append(run.ids, m)[n] + Len(Append(run.ids, m)) = m + n
    <3>1. Append(run.ids, m) \in Seq(Nat) /\ Append(run.ids, m) # <<>>
      <4> HIDE DEF m
      <4>1. run.ids \in Seq(Nat) /\ m \in Nat
        BY <1>1, <2>3
      <4> QED
        BY <4>1, AppendProperties, SMTT(30)
    <3>2. Len(keys) \in Nat /\ \A n \in DOMAIN run.ids : run.ids[n] + Len(run.ids) = Len(keys) + n
      BY <2>2 DEF RunOK, TypeInv
    <3> QED
      BY <2>3, <3>1, <3>2, NextId
  <2>5. RunOK(run', m)
    BY <2>3, <2>4 DEF RunOK
  <2> QED
    BY <1>1, <2>1, <2>5 DEF ShapeNext, TypeInv
<1>3. CASE ~Continues(e)
  <2>1. /\ out' = out \o Append(Dones(run), e) /\ merged' = Recorded(run)
        /\ run' \in {NewRun(e), NoRun}
        /\ run' = NewRun(e) => e.key.type \in Covered
    <3>1. NewRun(e) # NoRun
      BY DEF NewRun, NoRun
    <3> QED
      BY <1>3, <3>1 DEF OnAdded, CloseRunThen
  <2>2. LogOK(out', m) /\ MergedOK(merged')
    BY <1>1, <2>1, CloseRun DEF TypeInv, EventTypes
  <2>3. RunOK(NoRun, m)
    BY <1>1, EmptyIsSeq DEF RunOK, NoRun
  <2>4. e.key.type \in Covered => RunOK(NewRun(e), m)
    BY <1>1 DEF RunOK, NewRun
  <2> QED
    BY <2>1, <2>2, <2>3, <2>4 DEF ShapeNext
<1> QED
  BY <1>2, <1>3

LEMMA DeltaShape ==
    ASSUME TypeInv, NEW e, e.type \in EventTypes, e.id \in 0..Len(keys),
           e = Event(e.type, e.id, e.key, e.data, e.output), OnDelta(e)
    PROVE  ShapeNext(Len(keys))
<1> DEFINE m == Len(keys)
<1>1. m \in Nat /\ RunOK(run, m) /\ LogOK(out, m) /\ MergedOK(merged)
  BY DEF TypeInv
<1>2. CASE run # NoRun /\ e.key.type = run.key.type
  <2> DEFINE f == [e EXCEPT !.id = run.ids[1]]
  <2>1. /\ run' = [run EXCEPT !.said = @ \o e.data] /\ merged' = merged
        /\ out' = Append(out, IF Merging(run) THEN f ELSE e)
    BY <1>2 DEF OnDelta, PassOn
  <2>2. f.type = e.type /\ f.id = run.ids[1]
    BY DEF Event
  <2>3. run.ids[1] \in 0..m
    BY <1>1, <1>2 DEF RunOK
  <2>4. LogOK(out', m)
    <3>1. LogOK(Append(out, f), m) /\ LogOK(Append(out, e), m)
      BY <1>1, <2>2, <2>3, LogAppend
    <3> QED
      BY <2>1, <3>1
  <2>5. /\ run' = [key |-> run.key, ids |-> run.ids, said |-> run'.said,
                    part |-> run.part]
        /\ run # NoRun
    BY <1>1, <1>2, <2>1 DEF RunOK
  <2>6. RunOK(run', m)
    BY <1>1, <2>5 DEF RunOK
  <2> QED
    BY <1>1, <2>1, <2>4, <2>6 DEF ShapeNext
<1>3. CASE ~(run # NoRun /\ e.key.type = run.key.type)
  BY <1>1, <1>3, LogAppend DEF OnDelta, PassOn, ShapeNext
<1> QED
  BY <1>2, <1>3

LEMMA PartShape ==
    ASSUME TypeInv, NEW e, e.type \in EventTypes, e.id \in 0..Len(keys), OnPart(e)
    PROVE  ShapeNext(Len(keys))
<1> DEFINE m == Len(keys)
<1>1. m \in Nat /\ RunOK(run, m) /\ LogOK(out, m) /\ MergedOK(merged)
  BY DEF TypeInv
<1>2. LogOK(Append(out, e), m)
  BY <1>1, LogAppend
<1>3. CASE Owned(e)
  <2>1. /\ run' = [run EXCEPT !.part = TRUE] /\ merged' = merged
        /\ out' = out \/ out' = Append(out, e)
    BY <1>3 DEF OnPart, PassOn
  <2>2. run # NoRun
    BY <1>3 DEF Owned, NoRun, ToSet
  <2>3. run' = [key |-> run.key, ids |-> run.ids, said |-> run.said, part |-> TRUE]
    BY <1>1, <2>1 DEF RunOK
  <2>4. RunOK(run', m)
    BY <1>1, <2>2, <2>3 DEF RunOK
  <2> QED
    BY <1>1, <1>2, <2>1, <2>4 DEF ShapeNext
<1>4. CASE ~Owned(e)
  BY <1>1, <1>2, <1>4 DEF OnPart, PassOn, ShapeNext
<1> QED
  BY <1>3, <1>4

LEMMA DoneShape ==
    ASSUME TypeInv, NEW e, e.type \in EventTypes, e.id \in 0..Len(keys), OnDone(e)
    PROVE  ShapeNext(Len(keys))
<1>1. LogOK(Append(out, e), Len(keys))
  BY LogAppend DEF TypeInv
<1> QED
  BY <1>1 DEF OnDone, PassOn, ShapeNext, TypeInv

LEMMA CompletedShape ==
    ASSUME TypeInv, NEW e, e.type = "completed", e.id = 0,
           e = Event(e.type, e.id, e.key, e.data, e.output), OnCompleted(e)
    PROVE  ShapeNext(Len(keys))
<1>1. PICK f : /\ f.type = "completed" /\ f.id = 0
               /\ CloseRunThen(f, NoRun)
  <2> DEFINE g == [e EXCEPT !.output = Collapse(@, Recorded(run))]
  <2>1. g.type = "completed" /\ g.id = 0
    BY DEF Event
  <2>2. CloseRunThen(e, NoRun) \/ CloseRunThen(g, NoRun)
    BY DEF OnCompleted
  <2> QED
    BY <2>1, <2>2
<1>2. Len(keys) \in Nat /\ f.type \in EventTypes /\ f.id \in 0..Len(keys)
  BY <1>1 DEF TypeInv, EventTypes
<1>3. LogOK(out \o Append(Dones(run), f), Len(keys)) /\ MergedOK(Recorded(run))
  BY <1>2, CloseRun DEF TypeInv
<1>4. RunOK(NoRun, Len(keys))
  BY <1>2, EmptyIsSeq DEF RunOK, NoRun
<1> QED
  BY <1>1, <1>3, <1>4 DEF CloseRunThen, ShapeNext

-----------------------------------------------------------------------------
\* Type correctness.

\* With the quirk off, an event is passed on and nothing else happens.
LEMMA OffShape ==
    ASSUME TypeInv, NEW m \in Nat, Len(keys) <= m, m <= Len(keys) + 1,
           m = Len(keys) \/ run = NoRun,
           NEW e, e.type \in EventTypes, e.id \in 0..m,
           PassOn(e), UNCHANGED <<run, merged>>
    PROVE  ShapeNext(m)
<1>1. Len(keys) \in Nat
  BY DEF TypeInv
<1>2. LogOK(out, m)
  BY <1>1, LogGrows DEF TypeInv
<1>3. RunOK(run, m)
  BY <1>1, EmptyIsSeq DEF TypeInv, RunOK, NoRun
<1> QED
  BY <1>2, <1>3, LogAppend DEF PassOn, ShapeNext, TypeInv

LEMMA TypeStep == TypeInv /\ OffInv /\ [Next]_vars => TypeInv'
<1> SUFFICES ASSUME TypeInv, OffInv, [Next]_vars PROVE TypeInv'
  OBVIOUS
<1>0. Len(keys) \in Nat
  BY DEF TypeInv
<1>1. ASSUME NEW k \in Keys, PushAdded(k) PROVE TypeInv'
  <2> DEFINE e == Event("added", Len(keys) + 1, k, <<>>, <<>>)
             m == Len(keys) + 1
  <2>1. Speaks(e) /\ Handle(e, OnAdded) /\ keys' = Append(keys, k) /\ closed' = closed
    BY <1>1 DEF PushAdded
  <2>2. keys' \in Seq(Keys) /\ Len(keys') = m /\ closed' \subseteq DOMAIN keys'
    BY <1>0, <2>1 DEF TypeInv
  <2>3. e.type \in EventTypes /\ e.id \in 0..m /\ m \in Nat
    BY <1>0 DEF Event, EventTypes
  <2>4. LogOK(received', m)
    <3>1. LogOK(received, m)
      BY <1>0, LogGrows DEF TypeInv
    <3> QED
      BY <2>1, <2>3, <3>1, LogAppend DEF Speaks
  <2>5. ShapeNext(m)
    <3>1. CASE Enabled
      BY <2>1, <3>1, AddedShape DEF Handle
    <3>2. CASE ~Enabled
      BY <1>0, <2>1, <2>3, <3>2, OffShape DEF Handle, OffInv
    <3> QED
      BY <3>1, <3>2
  <2> QED
    BY <2>2, <2>4, <2>5 DEF TypeInv, ShapeNext
<1> DEFINE Step(e) ==
             /\ Speaks(e) /\ keys' = keys /\ closed' \subseteq DOMAIN keys
             /\ e = Event(e.type, e.id, e.key, e.data, e.output)
             /\ e.id \in 0..Len(keys) /\ e.type \in EventTypes
             /\ IF Enabled THEN ShapeNext(Len(keys))
                ELSE PassOn(e) /\ UNCHANGED <<run, merged>>
<1>2. ASSUME NEW e, Step(e) PROVE TypeInv'
  <2>1. LogOK(received', Len(keys))
    BY <1>0, <1>2, LogAppend DEF Speaks, TypeInv
  <2>2. ShapeNext(Len(keys))
    BY <1>0, <1>2, OffShape
  <2> QED
    BY <1>2, <2>1, <2>2 DEF TypeInv, ShapeNext
<1>3. ASSUME NEW i \in Open, PushDelta(i) PROVE TypeInv'
  <2> DEFINE e == Event("delta", i, keys[i], <<Len(received) + 1>>, <<>>)
  <2>1. Speaks(e) /\ Handle(e, OnDelta) /\ UNCHANGED <<keys, closed>>
    BY <1>3 DEF PushDelta
  <2>2. /\ e = Event(e.type, e.id, e.key, e.data, e.output)
        /\ e.id \in 0..Len(keys) /\ e.type \in EventTypes
    BY DEF Open, Event, EventTypes, TypeInv
  <2> HIDE DEF e
  <2>3. Step(e)
    BY <2>1, <2>2, DeltaShape DEF Handle, TypeInv
  <2> QED
    BY <1>2, <2>3
<1>4. ASSUME NEW i \in Open, PushPart(i) PROVE TypeInv'
  <2> DEFINE e == Event("part", i, keys[i], <<>>, <<>>)
  <2>1. Speaks(e) /\ Handle(e, OnPart) /\ UNCHANGED <<keys, closed>>
    BY <1>4 DEF PushPart
  <2>2. /\ e = Event(e.type, e.id, e.key, e.data, e.output)
        /\ e.id \in 0..Len(keys) /\ e.type \in EventTypes
    BY DEF Open, Event, EventTypes, TypeInv
  <2> HIDE DEF e
  <2>3. Step(e)
    BY <2>1, <2>2, PartShape DEF Handle, TypeInv
  <2> QED
    BY <1>2, <2>3
<1>5. ASSUME NEW i \in Open, PushPartDone(i) \/ PushDone(i) PROVE TypeInv'
  <2>1. PICK type \in {"partdone", "done"} :
          LET e == Event(type, i, keys[i], Said(received, i), <<>>)
          IN  /\ Speaks(e) /\ Handle(e, OnDone) /\ keys' = keys
              /\ closed' \subseteq closed \cup {i}
    BY <1>5 DEF PushPartDone, PushDone
  <2> DEFINE e == Event(type, i, keys[i], Said(received, i), <<>>)
  <2>2. /\ e = Event(e.type, e.id, e.key, e.data, e.output)
        /\ e.id \in 0..Len(keys) /\ e.type \in EventTypes /\ i \in DOMAIN keys
    BY DEF Open, Event, EventTypes, TypeInv
  <2>3. Speaks(e) /\ Handle(e, OnDone) /\ keys' = keys /\ closed' \subseteq closed \cup {i}
    BY <2>1
  <2> HIDE DEF e
  <2>4. Step(e)
    BY <2>2, <2>3, DoneShape DEF Handle, TypeInv
  <2> QED
    BY <1>2, <2>4
<1>5a. ASSUME NEW i \in Open, PushUntracked(i) PROVE TypeInv'
  <2> DEFINE e == Event("untracked", i, keys[i], Said(received, i), <<>>)
  <2>1. Speaks(e) /\ Handle(e, OnUntracked) /\ UNCHANGED <<keys, closed>>
    BY <1>5a DEF PushUntracked
  <2>2. /\ e = Event(e.type, e.id, e.key, e.data, e.output)
        /\ e.id \in 0..Len(keys) /\ e.type \in EventTypes
    BY DEF Open, Event, EventTypes, TypeInv
  <2> HIDE DEF e
  <2>3. PassOn(e) /\ UNCHANGED <<run, merged>>
    BY <2>1 DEF Handle, OnUntracked
  <2>4. ShapeNext(Len(keys))
    BY <1>0, <2>2, <2>3, OffShape
  <2>5. Step(e)
    BY <2>1, <2>2, <2>3, <2>4 DEF TypeInv
  <2> QED
    BY <1>2, <2>5
<1>6. ASSUME PushCompleted PROVE TypeInv'
  <2> DEFINE items == [i \in DOMAIN keys |-> Item(i, keys[i], Said(received, i))]
             e == Event("completed", 0, NoRun.key, <<>>, items)
  <2>1. Speaks(e) /\ Handle(e, OnCompleted) /\ UNCHANGED <<keys, closed>>
    BY <1>6 DEF PushCompleted
  <2>2. /\ e = Event(e.type, e.id, e.key, e.data, e.output)
        /\ e.id = 0 /\ e.type = "completed" /\ e.type \in EventTypes
    BY DEF Event, EventTypes
  <2> HIDE DEF e
  <2>3. Step(e)
    BY <1>0, <2>1, <2>2, CompletedShape DEF Handle, TypeInv
  <2> QED
    BY <1>2, <2>3
<1>7. CASE UNCHANGED vars
  BY <1>7 DEF vars, TypeInv
<1> QED
  BY <1>1, <1>3, <1>4, <1>5, <1>5a, <1>6, <1>7 DEF Next

LEMMA OffStep == OffInv /\ [Next]_vars => OffInv'
<1> SUFFICES ASSUME OffInv, [Next]_vars, ~Enabled PROVE UNCHANGED <<run, merged>>
  BY DEF OffInv
<1>1. \A e : /\ Handle(e, OnAdded) => UNCHANGED <<run, merged>>
             /\ Handle(e, OnDelta) => UNCHANGED <<run, merged>>
             /\ Handle(e, OnPart) => UNCHANGED <<run, merged>>
             /\ Handle(e, OnDone) => UNCHANGED <<run, merged>>
             /\ Handle(e, OnUntracked) => UNCHANGED <<run, merged>>
             /\ Handle(e, OnCompleted) => UNCHANGED <<run, merged>>
  BY DEF Handle
<1>2. ASSUME NEW k \in Keys, PushAdded(k) PROVE UNCHANGED <<run, merged>>
  BY <1>1, <1>2 DEF PushAdded
<1>3. ASSUME NEW i \in Open,
             PushDelta(i) \/ PushPart(i) \/ PushPartDone(i) \/ PushDone(i) \/ PushUntracked(i)
      PROVE  UNCHANGED <<run, merged>>
  BY <1>1, <1>3 DEF PushDelta, PushPart, PushPartDone, PushDone, PushUntracked
<1>4. ASSUME PushCompleted PROVE UNCHANGED <<run, merged>>
  BY <1>1, <1>4 DEF PushCompleted
<1> QED
  BY <1>2, <1>3, <1>4 DEF Next, vars

LEMMA TypeInvariant == Spec => [](TypeInv /\ OffInv)
<1>1. Init => TypeInv /\ OffInv
  BY InvInit DEF IInv
<1>2. TypeInv /\ OffInv /\ [Next]_vars => (TypeInv /\ OffInv)'
  BY TypeStep, OffStep
<1> QED
  BY <1>1, <1>2, PTL DEF Spec

\* The variables hold what the merger's fields can hold, and a run's
\* fragments are distinct items opened one after the other.
THEOREM TypesHold == Spec => []TypeOK
  BY TypeInvariant, TypeInvTypes, PTL

-----------------------------------------------------------------------------
\* Healthy streams.

LEMMA NotMerging ==
    ASSUME run # NoRun => Len(run.ids) = 1 PROVE ~Merging(run)
<1>1. NoRun.ids = <<>>
  BY DEF NoRun
<1>2. Len(run.ids) = 0 \/ Len(run.ids) = 1
  BY <1>1, EmptyIsSeq
<1>3. \A l : l = 0 \/ l = 1 => ~(l >= 2)
  OBVIOUS
<1> QED
  BY <1>2, <1>3 DEF Merging

\* The upstream's items were healthy if they still are.
LEMMA HealthyBefore ==
    ASSUME keys \in Seq(Keys), NEW k \in Keys,
           keys' = keys \/ keys' = Append(keys, k), Healthy'
    PROVE  Healthy
<1>1. CASE keys' = keys
  BY <1>1 DEF Healthy
<1>2. CASE keys' = Append(keys, k)
  <2>1. /\ Len(keys) \in Nat /\ Len(keys') = Len(keys) + 1
        /\ \A i \in 1..Len(keys) : keys'[i] = keys[i]
    BY <1>2
  <2> SUFFICES ASSUME NEW i \in 1..(Len(keys) - 1) PROVE ~Fragments(keys[i], keys[i + 1])
    BY DEF Healthy
  <2>2. i \in 1..(Len(keys') - 1) /\ i \in 1..Len(keys) /\ i + 1 \in 1..Len(keys)
    BY <2>1
  <2>3. ~Fragments(keys'[i], keys'[i + 1])
    BY <2>2 DEF Healthy
  <2> QED
    BY <2>1, <2>2, <2>3
<1> QED
  BY <1>1, <1>2

\* In a healthy stream an item does not continue the run before it.
LEMMA HealthyAdded ==
    ASSUME TypeInv, Identical, NEW k \in Keys, keys' = Append(keys, k), Healthy',
           NEW e, e.key = k
    PROVE  ~Continues(e)
<1> SUFFICES ASSUME Continues(e) PROVE FALSE
  OBVIOUS
<1>1. run # NoRun /\ run.key = k /\ k.type \in Covered
  BY DEF Continues, TypeInv, RunOK
<1>2. Healthy
  BY HealthyBefore DEF TypeInv
<1>3. keys # <<>> /\ keys[Len(keys)] = k
  BY <1>1, <1>2 DEF Identical
<1>4. /\ Len(keys) \in Nat /\ Len(keys) > 0 /\ Len(keys') = Len(keys) + 1
      /\ keys'[Len(keys)] = k /\ keys'[Len(keys) + 1] = k
  BY <1>3 DEF TypeInv
<1>5. Len(keys) \in 1..(Len(keys') - 1)
  BY <1>4
<1>6. ~Fragments(keys'[Len(keys)], keys'[Len(keys) + 1])
  BY <1>5 DEF Healthy
<1> QED
  BY <1>1, <1>4, <1>6 DEF Fragments

\* An event that is passed on, by a merger whose run stays what it was.
LEMMA SameAfter ==
    ASSUME TypeInv, Identical, Healthy \/ ~Enabled,
           NEW e, Speaks(e), PassOn(e), keys' = keys, merged' = merged,
           run' # NoRun =>
              /\ run # NoRun /\ run'.key = run.key /\ run'.ids = run.ids
              /\ run'.part => run.part \/ (e.type = "part" /\ e.id = run.ids[1])
    PROVE  Identical'
<1>1. out = received /\ merged = <<>> /\ IsSeq(received)
  BY DEF Identical, TypeInv, LogOK
<1>2. out' = received' /\ received' = Append(received, e)
  BY <1>1 DEF PassOn, Speaks
<1>3. ASSUME run' # NoRun, run'.part
      PROVE  \E n \in DOMAIN received' :
                received'[n].type = "part" /\ received'[n].id = run'.ids[1]
  <2>1. CASE run.part
    <3>1. PICK n \in DOMAIN received :
             received[n].type = "part" /\ received[n].id = run.ids[1]
      BY <1>3, <2>1 DEF Identical
    <3>2. n \in DOMAIN received' /\ received'[n] = received[n]
      BY <1>1, <1>2, AppendAny
    <3> QED
      BY <1>3, <3>1, <3>2
  <2>2. CASE e.type = "part" /\ e.id = run.ids[1]
    <3>1. Len(received) + 1 \in DOMAIN received' /\ received'[Len(received) + 1] = e
      BY <1>1, <1>2, AppendAny
    <3> QED
      BY <1>3, <2>2, <3>1
  <2> QED
    BY <1>3, <2>1, <2>2
<1> QED
  BY <1>1, <1>2, <1>3 DEF Identical

LEMMA IdenticalAdded ==
    ASSUME TypeInv, OffInv, Identical, NEW k \in Keys, PushAdded(k),
           Healthy' \/ ~Enabled
    PROVE  Identical'
<1> DEFINE e == Event("added", Len(keys) + 1, k, <<>>, <<>>)
<1>1. /\ Speaks(e) /\ Handle(e, OnAdded) /\ keys' = Append(keys, k)
      /\ e.key = k /\ keys \in Seq(Keys)
  BY DEF PushAdded, Event, TypeInv
<1> HIDE DEF e
<1>2. out = received /\ merged = <<>> /\ IsSeq(received)
  BY <1>1, HealthyBefore DEF Identical, TypeInv, LogOK
<1>3. CASE Enabled
  <2>1. ~Continues(e) /\ Healthy
    BY <1>1, <1>3, HealthyAdded, HealthyBefore
  <2>2. CloseRunThen(e, IF e.key.type \in Covered THEN NewRun(e) ELSE NoRun)
    BY <1>1, <1>3, <2>1 DEF Handle, OnAdded
  <2>3. ~Merging(run)
    BY <2>1, NotMerging DEF Identical
  <2>4. Dones(run) = <<>> /\ Recorded(run) = <<>>
    BY <1>2, <2>3 DEF Dones, Recorded
  <2>5. out' = Append(out, e) /\ merged' = <<>>
    BY <1>2, <2>2, <2>4, ConcatSingle DEF CloseRunThen
  <2>6. keys' # <<>> /\ keys'[Len(keys')] = k
    BY <1>1
  <2>7. run' # NoRun => run' = NewRun(e)
    BY <2>2 DEF CloseRunThen
  <2> QED
    BY <1>1, <1>2, <2>5, <2>6, <2>7 DEF Identical, Speaks, NewRun
<1>4. CASE ~Enabled
  BY <1>1, <1>2, <1>4 DEF Handle, PassOn, Speaks, OffInv, Identical
<1> QED
  BY <1>3, <1>4

LEMMA IdenticalStep ==
    ASSUME ManyParts = FALSE, TypeInv, OffInv, Identical, [Next]_vars PROVE Identical'
<1> SUFFICES ASSUME Healthy' \/ ~Enabled PROVE Identical'
  BY DEF Identical
<1>1. ASSUME NEW k \in Keys, PushAdded(k) PROVE Identical'
  BY <1>1, IdenticalAdded
<1>2. ASSUME keys' = keys
      PROVE  /\ Healthy \/ ~Enabled
             /\ out = received /\ merged = <<>>
             /\ run # NoRun => Enabled /\ Len(run.ids) = 1
             /\ ~Merging(run) /\ Dones(run) = <<>> /\ Recorded(run) = <<>>
  <2>1. Healthy \/ ~Enabled
    BY <1>2 DEF Healthy
  <2>2. run # NoRun => Enabled /\ Len(run.ids) = 1
    BY <2>1 DEF Identical, OffInv
  <2>3. ~Merging(run)
    BY <2>2, NotMerging
  <2> QED
    BY <2>1, <2>2, <2>3 DEF Identical, Dones, Recorded
<1>3. ASSUME NEW i \in Open, PushDelta(i) PROVE Identical'
  <2> DEFINE e == Event("delta", i, keys[i], <<Len(received) + 1>>, <<>>)
  <2>1. Speaks(e) /\ Handle(e, OnDelta) /\ keys' = keys
    BY <1>3 DEF PushDelta
  <2> HIDE DEF e
  <2>2. /\ PassOn(e) /\ merged' = merged
        /\ run' = run \/ (run # NoRun /\ run' = [run EXCEPT !.said = @ \o e.data])
    BY <1>2, <2>1 DEF Handle, OnDelta
  <2>3. run' # NoRun =>
          run # NoRun /\ run'.key = run.key /\ run'.ids = run.ids /\ run'.part = run.part
    BY <2>2 DEF TypeInv, RunOK
  <2> QED
    BY <1>2, <2>1, <2>2, <2>3, SameAfter
<1>4. ASSUME NEW i \in Open, PushPart(i) PROVE Identical'
  <2> DEFINE e == Event("part", i, keys[i], <<>>, <<>>)
  <2>1. /\ Speaks(e) /\ Handle(e, OnPart) /\ keys' = keys
        /\ e.type = "part" /\ e.id = i
        /\ \A n \in DOMAIN received : received[n].id = i => received[n].type = "added"
    BY <1>4 DEF PushPart, Event
  <2> HIDE DEF e
  <2>2. CASE Enabled /\ Owned(e)
    <3>1. run.ids # <<>> /\ run # NoRun
      BY <2>2 DEF Owned, ToSet, NoRun
    <3>2. Len(run.ids) = 1 /\ run.ids[1] = i
      BY <1>2, <2>1, <2>2, <3>1 DEF Owned, ToSet, TypeInv, RunOK
    <3>3. ~run.part
      BY <1>2, <2>1, <3>1, <3>2 DEF Identical
    <3>4. PassOn(e) /\ run' = [run EXCEPT !.part = TRUE] /\ merged' = merged
      BY <2>1, <2>2, <3>3 DEF Handle, OnPart
    <3>5. run'.key = run.key /\ run'.ids = run.ids
      BY <3>4 DEF TypeInv, RunOK
    <3> QED
      BY <1>2, <2>1, <3>1, <3>2, <3>4, <3>5, SameAfter
  <2>3. CASE ~(Enabled /\ Owned(e))
    <3>1. PassOn(e) /\ run' = run /\ merged' = merged
      BY <2>1, <2>3 DEF Handle, OnPart
    <3> QED
      BY <1>2, <2>1, <3>1, SameAfter
  <2> QED
    BY <2>2, <2>3
<1>5. ASSUME NEW i \in Open, PushPartDone(i) \/ PushDone(i) PROVE Identical'
  <2>1. PICK e : Speaks(e) /\ Handle(e, OnDone) /\ keys' = keys
    BY <1>5 DEF PushPartDone, PushDone
  <2>2. PassOn(e) /\ run' = run /\ merged' = merged
    BY <1>2, <2>1 DEF Handle, OnDone
  <2> QED
    BY <1>2, <2>1, <2>2, SameAfter
<1>5a. ASSUME NEW i \in Open, PushUntracked(i) PROVE Identical'
  <2>1. PICK e : Speaks(e) /\ Handle(e, OnUntracked) /\ keys' = keys
    BY <1>5a DEF PushUntracked
  <2>2. PassOn(e) /\ run' = run /\ merged' = merged
    BY <2>1 DEF Handle, OnUntracked
  <2> QED
    BY <1>2, <2>1, <2>2, SameAfter
<1>6. ASSUME PushCompleted PROVE Identical'
  <2>1. PICK e : Speaks(e) /\ Handle(e, OnCompleted) /\ keys' = keys
    BY <1>6 DEF PushCompleted
  <2>2. CASE Enabled
    <3>1. CloseRunThen(e, NoRun)
      BY <1>2, <2>1, <2>2 DEF Handle, OnCompleted
    <3>2. PassOn(e) /\ merged' = merged /\ run' = NoRun
      <4>1. /\ out' = out \o Append(Dones(run), e) /\ merged' = Recorded(run)
            /\ run' = NoRun
        BY <3>1 DEF CloseRunThen
      <4>2. Dones(run) = <<>> /\ Recorded(run) = merged /\ IsSeq(out)
        BY <1>2, <2>1 DEF TypeInv, LogOK
      <4>3. out' = Append(out, e)
        BY <4>1, <4>2, ConcatSingle
      <4> QED
        BY <4>1, <4>2, <4>3 DEF PassOn
    <3> QED
      BY <1>2, <2>1, <3>2, SameAfter
  <2>3. CASE ~Enabled
    <3>1. PassOn(e) /\ run' = run /\ merged' = merged
      BY <2>1, <2>3 DEF Handle
    <3> QED
      BY <1>2, <2>1, <3>1, SameAfter
  <2> QED
    BY <2>2, <2>3
<1>7. CASE UNCHANGED vars
  BY <1>7 DEF vars, Identical, Healthy
<1> QED
  BY <1>1, <1>3, <1>4, <1>5, <1>5a, <1>6, <1>7 DEF Next

\* If no message has more than one part, a stream in which no item is broken
\* up, or with the quirk off, reaches the client event for event.
THEOREM HealthyIdentityHolds ==
    ASSUME ManyParts = FALSE PROVE Spec => []HealthyIdentity
<1>1. Init => IInv
  BY InvInit
<1>2. IInv /\ [Next]_vars => IInv'
  BY TypeStep, OffStep, IdenticalStep DEF IInv
<1>3. IInv => HealthyIdentity
  BY DEF IInv, Identical, HealthyIdentity
<1> QED
  BY <1>1, <1>2, <1>3, PTL DEF Spec

-----------------------------------------------------------------------------
\* The client is only told of items it saw opened.

Announced(log, i) == \E m \in DOMAIN log : log[m].type = "added" /\ log[m].id = i

NeedsItem == {"delta", "partdone", "done"}

\* What must follow the opening of its item, L being those that lead a run.
Needs(e, L) == e.type \in NeedsItem \/ (e.type = "untracked" /\ e.id \in L)

Sound(log, L) ==
    \A n \in DOMAIN log : Needs(log[n], L) =>
        \E m \in 1..(n - 1) : log[m].type = "added" /\ log[m].id = log[n].id

\* While the stream lasts, the item opened last was shown to the client, or
\* belongs to a run that merges, whose first fragment was, and is a later one.
ShownInv ==
    /\ Sound(out, Leaders)
    /\ run # NoRun =>
          keys # <<>> /\ run.key = keys[Len(keys)] /\ Announced(out, run.ids[1])
    /\ run # NoRun /\ Merging(run) => Len(keys) \notin Leaders
    /\ Live /\ keys # <<>> => Announced(out, Len(keys)) \/ (run # NoRun /\ Merging(run))

LEMMA SoundAppend ==
    ASSUME NEW log, IsSeq(log), NEW L, Sound(log, L), NEW e,
           Needs(e, L) => Announced(log, e.id)
    PROVE  /\ Sound(Append(log, e), L)
           /\ \A i : Announced(log, i) => Announced(Append(log, e), i)
           /\ e.type = "added" => Announced(Append(log, e), e.id)
<1> DEFINE new == Append(log, e)
<1>1. /\ Len(log) \in Nat /\ DOMAIN log = 1..Len(log) /\ DOMAIN new = 1..(Len(log) + 1)
      /\ \A n \in 1..Len(log) : new[n] = log[n]
      /\ new[Len(log) + 1] = e
  BY AppendAny
<1> HIDE DEF new
<1>2. \A i : Announced(log, i) => Announced(new, i)
  BY <1>1 DEF Announced
<1>3. e.type = "added" => Announced(new, e.id)
  <2>1. Len(log) + 1 \in DOMAIN new
    BY <1>1
  <2> QED
    BY <1>1, <2>1 DEF Announced
<1>4. ASSUME NEW n \in DOMAIN new, Needs(new[n], L)
      PROVE  \E m \in 1..(n - 1) : new[m].type = "added" /\ new[m].id = new[n].id
  <2>1. CASE n = Len(log) + 1
    <3>1. PICK m \in 1..Len(log) : log[m].type = "added" /\ log[m].id = e.id
      BY <1>1, <1>4, <2>1 DEF Announced
    <3>2. m \in 1..(n - 1) /\ new[m] = log[m] /\ new[n] = e
      BY <1>1, <2>1
    <3> QED
      BY <3>1, <3>2
  <2>2. CASE n \in 1..Len(log)
    <3>1. PICK m \in 1..(n - 1) : log[m].type = "added" /\ log[m].id = log[n].id
      BY <1>1, <1>4, <2>2 DEF Sound
    <3>2. m \in 1..Len(log) /\ new[m] = log[m] /\ new[n] = log[n]
      BY <1>1, <2>2
    <3> QED
      BY <3>1, <3>2
  <2> QED
    BY <1>1, <2>1, <2>2
<1>5. Sound(new, L)
  BY <1>4 DEF Sound
<1> QED
  BY <1>2, <1>3, <1>5 DEF new

\* Closing a run and passing on e leaves the stream sound.
LEMMA SoundClose ==
    ASSUME TypeInv, ShownInv
    PROVE  \A L, e :
              /\ Sound(out, L) /\ e.type \in {"added", "completed"}
              /\ out' = out \o Append(Dones(run), e)
              => /\ Sound(out', L) /\ (e.type = "added" => Announced(out', e.id))
                 /\ (\A i : Announced(out, i) => Announced(out', i))
<1> SUFFICES ASSUME NEW L, NEW e, Sound(out, L), e.type \in {"added", "completed"},
                    out' = out \o Append(Dones(run), e)
             PROVE  /\ Sound(out', L) /\ (e.type = "added" => Announced(out', e.id))
                    /\ (\A i : Announced(out, i) => Announced(out', i))
  OBVIOUS
<1> DEFINE ds == Dones(run)
<1>1. /\ IsSeq(out) /\ IsSeq(ds) /\ IsSeq(Append(ds, e))
      /\ ds # <<>> => run # NoRun
      /\ \A n \in DOMAIN ds : ds[n].type \in NeedsItem /\ ds[n].id = run.ids[1]
  <2>1. NoRun.ids = <<>> /\ Len(<<>>) = 0
    BY EmptyIsSeq DEF NoRun
  <2>2. ~Merging(NoRun)
    BY <2>1 DEF Merging
  <2>3. Len(keys) \in Nat /\ RunOK(run, Len(keys))
    BY DEF TypeInv
  <2>4. IsSeq(ds) /\ (~Merging(run) => ds = <<>>)
    BY <2>3, DonesFacts
  <2>5. \A n \in DOMAIN ds : ds[n].type \in {"partdone", "done"} /\ ds[n].id = run.ids[1]
    BY <2>3, DonesFacts
  <2> HIDE DEF ds
  <2> QED
    BY <2>2, <2>4, <2>5, AppendAny DEF TypeInv, LogOK, NeedsItem
<1> DEFINE tail == Append(ds, e)
           new == out \o tail
<1> HIDE DEF ds
<1>2. /\ Len(out) \in Nat /\ DOMAIN out = 1..Len(out)
      /\ Len(ds) \in Nat /\ DOMAIN ds = 1..Len(ds)
      /\ DOMAIN tail = 1..(Len(ds) + 1) /\ Len(tail) = Len(ds) + 1
      /\ tail[Len(ds) + 1] = e /\ \A n \in 1..Len(ds) : tail[n] = ds[n]
  BY <1>1, AppendAny
<1>3. /\ DOMAIN new = 1..(Len(out) + (Len(ds) + 1))
      /\ \A n \in 1..(Len(out) + (Len(ds) + 1)) :
            new[n] = IF n <= Len(out) THEN out[n] ELSE tail[n - Len(out)]
  <2>1. IsSeq(tail)
    BY <1>1
  <2> HIDE DEF tail
  <2>2. /\ DOMAIN new = 1..(Len(out) + Len(tail))
        /\ \A n \in 1..(Len(out) + Len(tail)) :
              new[n] = IF n <= Len(out) THEN out[n] ELSE tail[n - Len(out)]
    BY <1>1, <2>1, ConcatAny
  <2> QED
    BY <1>2, <2>2
<1> HIDE DEF tail, new
<1>4. \A n \in 1..Len(out) : n \in DOMAIN new /\ new[n] = out[n]
  BY <1>2, <1>3
<1>5. \A i : Announced(out, i) => Announced(new, i)
  BY <1>2, <1>4 DEF Announced
<1>6. Len(out) + (Len(ds) + 1) \in DOMAIN new /\ new[Len(out) + (Len(ds) + 1)] = e
  BY <1>2, <1>3
<1>7. ASSUME NEW n \in DOMAIN new, Needs(new[n], L)
      PROVE  \E m \in 1..(n - 1) : new[m].type = "added" /\ new[m].id = new[n].id
  <2>1. CASE n <= Len(out)
    <3>1. n \in DOMAIN out /\ new[n] = out[n]
      BY <1>2, <1>3, <2>1
    <3>2. PICK m \in 1..(n - 1) : out[m].type = "added" /\ out[m].id = out[n].id
      BY <1>7, <3>1 DEF Sound
    <3>3. new[m] = out[m]
      BY <1>2, <1>4, <2>1, <1>3
    <3> QED
      BY <3>1, <3>2, <3>3
  <2>2. CASE ~(n <= Len(out))
    <3> DEFINE k == n - Len(out)
    <3>1. k \in 1..(Len(ds) + 1) /\ new[n] = tail[k]
      BY <1>2, <1>3, <2>2
    <3> HIDE DEF k
    <3>2. k # Len(ds) + 1
      BY <1>2, <1>7, <3>1 DEF Needs, NeedsItem
    <3>3. k \in DOMAIN ds /\ tail[k] = ds[k]
      BY <1>2, <3>1, <3>2
    <3>4. new[n].id = run.ids[1] /\ ds # <<>>
      BY <1>1, <3>1, <3>3
    <3>5. PICK m \in DOMAIN out : out[m].type = "added" /\ out[m].id = run.ids[1]
      BY <1>1, <3>4 DEF ShownInv, Announced
    <3>6. m \in 1..(n - 1) /\ new[m] = out[m]
      BY <1>2, <1>3, <1>4, <2>2
    <3> QED
      BY <3>4, <3>5, <3>6
  <2> QED
    BY <2>1, <2>2
<1>8. Sound(new, L)
  BY <1>7 DEF Sound
<1>9. e.type = "added" => Announced(new, e.id)
  BY <1>6 DEF Announced
<1> QED
  BY <1>5, <1>8, <1>9 DEF new, tail, ds

LEMMA ShownAdded ==
    ASSUME TypeInv, OffInv, ShownInv, NEW k \in Keys, PushAdded(k) PROVE ShownInv'
<1> DEFINE e == Event("added", Len(keys) + 1, k, <<>>, <<>>)
<1>1. /\ Speaks(e) /\ Handle(e, OnAdded) /\ keys' = Append(keys, k)
      /\ e.key = k /\ e.type = "added" /\ e.id = Len(keys) + 1
      /\ ~Needs(e, Leaders')
  BY DEF PushAdded, Event, Needs, NeedsItem
<1>2. /\ keys' # <<>> /\ Len(keys') = Len(keys) + 1 /\ keys'[Len(keys')] = k
  BY <1>1 DEF TypeInv
\* No item opened before begins or stops to lead a run.
<1>2a. Sound(out, Leaders')
  <2>1. ASSUME NEW i \in 0..Len(keys), i \in Leaders' PROVE i \in Leaders
    <3>1. i \in 1..Len(keys) /\ DOMAIN keys = 1..Len(keys) /\ Len(keys) \in Nat
      BY <1>1, <2>1 DEF Leaders, TypeInv
    <3>2. keys'[i] = keys[i] /\ (i # 1 => keys'[i - 1] = keys[i - 1])
      BY <1>1, <3>1 DEF TypeInv
    <3> QED
      BY <2>1, <3>1, <3>2 DEF Leaders
  <2>2. ASSUME NEW n \in DOMAIN out, Needs(out[n], Leaders') PROVE Needs(out[n], Leaders)
    BY <2>1, <2>2 DEF Needs, TypeInv, LogOK
  <2> QED
    BY <2>2 DEF Sound, ShownInv
<1> HIDE DEF e
<1>3. CASE Enabled /\ Continues(e)
  <2>1. run # NoRun /\ run.key = k /\ out' = out
    BY <1>1, <1>3 DEF Handle, OnAdded, Continues
  <2>2. /\ run'.key = run.key /\ run'.ids = Append(run.ids, e.id)
        /\ run.ids \in Seq(Nat) /\ run.ids # <<>>
    BY <1>1, <1>3, <2>1 DEF Handle, OnAdded, TypeInv, RunOK
  <2>3. /\ Len(run'.ids) = Len(run.ids) + 1 /\ Len(run.ids) \in Nat /\ Len(run.ids) >= 1
        /\ run'.ids[1] = run.ids[1]
    <3>1. e.id \in Nat
      BY <1>1 DEF TypeInv
    <3> QED
      BY <2>2, <3>1, AppendProperties
  <2>4. Merging(run')
    BY <2>3 DEF Merging
  <2>5. run' # NoRun
    <3>1. NoRun.ids = <<>>
      BY DEF NoRun
    <3> QED
      BY <2>3, <3>1, EmptyIsSeq
  <2>6. Len(keys') \notin Leaders'
    <3>1. keys # <<>> /\ keys[Len(keys)] = k /\ k.type \in Covered
      BY <2>1 DEF ShownInv, TypeInv, RunOK
    <3>2. /\ Len(keys) \in Nat /\ Len(keys) # 0 /\ Len(keys) + 1 # 1
          /\ (Len(keys) + 1) - 1 = Len(keys) /\ keys'[Len(keys)] = keys[Len(keys)]
      BY <1>1, <3>1 DEF TypeInv
    <3>3. Fragments(keys'[Len(keys') - 1], keys'[Len(keys')])
      BY <1>2, <3>1, <3>2 DEF Fragments
    <3> QED
      BY <1>2, <3>2, <3>3 DEF Leaders
  <2> QED
    BY <1>2, <1>2a, <2>1, <2>2, <2>3, <2>4, <2>5, <2>6 DEF ShownInv
<1>4. CASE Enabled /\ ~Continues(e)
  <2>1. CloseRunThen(e, IF e.key.type \in Covered THEN NewRun(e) ELSE NoRun)
    BY <1>1, <1>4 DEF Handle, OnAdded
  <2>2. out' = out \o Append(Dones(run), e) /\ run' \in {NewRun(e), NoRun}
    BY <2>1 DEF CloseRunThen
  <2>3. Sound(out', Leaders') /\ Announced(out', e.id)
    <3>1. PICK g, L : g = e /\ L = Leaders'
      OBVIOUS
    <3>2. Sound(out, L)
      BY <1>2a, <3>1
    <3>3. g.type = "added"
      BY <1>1, <3>1
    <3>4. g.type \in {"added", "completed"}
      BY <3>3
    <3>5. out' = out \o Append(Dones(run), g)
      BY <2>2, <3>1
    <3>6. Sound(out', L)
      BY <3>2, <3>4, <3>5, SoundClose
    <3>7. g.type = "added" => Announced(out', g.id)
      BY <3>2, <3>4, <3>5, SoundClose
    <3> QED
      BY <3>1, <3>3, <3>6, <3>7
  <2>4. run' # NoRun => run'.key = k /\ run'.ids[1] = e.id /\ ~Merging(run')
    <3>1. NewRun(e).key = k /\ NewRun(e).ids = <<e.id>>
      BY <1>1 DEF NewRun
    <3>2. Len(NewRun(e).ids) = 1 /\ NewRun(e).ids[1] = e.id
      BY <3>1
    <3>3. ~Merging(NewRun(e))
      BY <3>2 DEF Merging
    <3> QED
      BY <2>2, <3>1, <3>2, <3>3
  <2> QED
    BY <1>1, <1>2, <2>3, <2>4 DEF ShownInv
<1>5. CASE ~Enabled
  <2>1. PassOn(e) /\ run' = NoRun
    BY <1>1, <1>5 DEF Handle, OffInv
  <2>2. Sound(out', Leaders') /\ Announced(out', e.id)
    BY <1>1, <1>2a, <2>1, SoundAppend DEF PassOn, TypeInv, LogOK
  <2> QED
    BY <1>1, <1>2, <2>1, <2>2 DEF ShownInv
<1> QED
  BY <1>3, <1>4, <1>5

\* An event about the item opened last, once it is seen who may name it.
LEMMA ShownPassed ==
    ASSUME TypeInv, ShownInv, Live, NEW e, PassOn(e), keys' = keys,
           Needs(e, Leaders) => Announced(out, e.id),
           run' # NoRun => run # NoRun,
           run # NoRun => run' # NoRun /\ run'.key = run.key /\ run'.ids = run.ids
    PROVE  ShownInv'
<1>1. Sound(out', Leaders) /\ \A i : Announced(out, i) => Announced(out', i)
  BY SoundAppend DEF PassOn, ShownInv, TypeInv, LogOK
<1>2. Leaders' = Leaders
  BY DEF Leaders
<1> QED
  BY <1>1, <1>2 DEF ShownInv, Merging

\* Without overlap only a run that merges speaks for an item not shown.
LEMMA LastItem ==
    ASSUME Overlap = FALSE, TypeInv, ShownInv, Live, NEW i \in Open PROVE
    /\ i = Len(keys) /\ keys # <<>>
    /\ Announced(out, i) \/ (run # NoRun /\ Merging(run))
    /\ run # NoRun => run.key = keys[i] /\ i \in ToSet(run.ids) /\ Announced(out, run.ids[1])
<1>1. i = Len(keys) /\ keys # <<>> /\ i \in Nat
  BY DEF Open, TypeInv
<1>2. ASSUME run # NoRun PROVE i \in ToSet(run.ids)
  <2>1. run.ids \in Seq(Nat) /\ run.ids # <<>>
    BY <1>2 DEF TypeInv, RunOK
  <2>2. Len(run.ids) \in DOMAIN run.ids /\ Len(run.ids) \in Nat
    BY <2>1
  <2>3. run.ids[Len(run.ids)] \in Nat
    BY <2>1, <2>2
  <2>4. run.ids[Len(run.ids)] + Len(run.ids) = i + Len(run.ids)
    BY <1>1, <2>2 DEF TypeInv, RunOK
  <2>5. run.ids[Len(run.ids)] = i
    BY <1>1, <2>2, <2>3, <2>4
  <2> QED
    BY <2>2, <2>5 DEF ToSet
<1> QED
  BY <1>1, <1>2 DEF ShownInv

LEMMA ShownStep ==
    ASSUME Overlap = FALSE, TypeInv, OffInv, ShownInv, [Next]_vars PROVE ShownInv'
<1>1. ASSUME NEW k \in Keys, PushAdded(k) PROVE ShownInv'
  BY <1>1, ShownAdded
<1>2. ASSUME NEW i \in Open, PushDelta(i) PROVE ShownInv'
  <2> DEFINE e == Event("delta", i, keys[i], <<Len(received) + 1>>, <<>>)
  <2>1. /\ Live /\ Handle(e, OnDelta) /\ keys' = keys /\ e.key = keys[i] /\ e.id = i
        /\ [e EXCEPT !.id = run.ids[1]].id = run.ids[1]
    BY <1>2 DEF PushDelta, Event, Speaks
  <2> HIDE DEF e
  <2>2. CASE Enabled /\ run # NoRun
    <3>1. /\ run' = [run EXCEPT !.said = @ \o e.data]
          /\ PassOn(IF Merging(run) THEN [e EXCEPT !.id = run.ids[1]] ELSE e)
      BY <2>1, <2>2, LastItem DEF Handle, OnDelta
    <3>2. run'.key = run.key /\ run'.ids = run.ids /\ run'.ids # <<>>
      BY <2>2, <3>1 DEF TypeInv, RunOK
    <3>3. run' # NoRun
      BY <3>2 DEF NoRun
    <3>4. CASE Merging(run)
      BY <2>1, <2>2, <3>1, <3>2, <3>3, <3>4, LastItem, ShownPassed
    <3>5. CASE ~Merging(run)
      BY <2>1, <2>2, <3>1, <3>2, <3>3, <3>5, LastItem, ShownPassed
    <3> QED
      BY <3>4, <3>5
  <2>3. CASE ~(Enabled /\ run # NoRun)
    <3>1. PassOn(e) /\ run' = run /\ run = NoRun
      BY <2>1, <2>3 DEF Handle, OnDelta, OffInv
    <3> QED
      BY <2>1, <3>1, LastItem, ShownPassed
  <2> QED
    BY <2>2, <2>3
<1>3. ASSUME NEW i \in Open, PushPart(i) PROVE ShownInv'
  <2> DEFINE e == Event("part", i, keys[i], <<>>, <<>>)
  <2>1. /\ Live /\ Handle(e, OnPart) /\ keys' = keys /\ ~Needs(e, Leaders)
    BY <1>3 DEF PushPart, Event, Needs, NeedsItem, Speaks
  <2> HIDE DEF e
  <2>2. /\ PassOn(e) \/ out' = out
        /\ run' = run \/ (run' = [run EXCEPT !.part = TRUE] /\ Owned(e))
    BY <2>1 DEF Handle, OnPart
  <2>3. Owned(e) => run.ids # <<>> /\ run # NoRun
    BY DEF Owned, NoRun, ToSet
  <2>4. run # NoRun => run.ids # <<>> /\ run'.key = run.key /\ run'.ids = run.ids
    BY <2>2 DEF TypeInv, RunOK
  <2>5. run' # NoRun <=> run # NoRun
    BY <2>2, <2>3, <2>4 DEF NoRun
  <2>6. CASE PassOn(e)
    BY <2>1, <2>4, <2>5, <2>6, ShownPassed
  <2>7. CASE out' = out
    BY <2>1, <2>4, <2>5, <2>7 DEF ShownInv, Merging, Leaders
  <2> QED
    BY <2>2, <2>6, <2>7
<1>4. ASSUME NEW i \in Open, PushPartDone(i) \/ PushDone(i) PROVE ShownInv'
  <2>1. PICK e : Live /\ Handle(e, OnDone) /\ keys' = keys /\ e.id = i
    BY <1>4 DEF PushPartDone, PushDone, Event, Speaks
  <2>2. run' = run
    BY <2>1 DEF Handle, OnDone
  <2>3. CASE Enabled /\ run # NoRun /\ Merging(run)
    <3>1. out' = out
      BY <2>1, <2>3, LastItem DEF Handle, OnDone, Owned
    <3> QED
      BY <2>1, <2>2, <3>1 DEF ShownInv, Leaders
  <2>4. CASE ~(Enabled /\ run # NoRun /\ Merging(run))
    <3>1. PassOn(e) \/ out' = out
      BY <2>1 DEF Handle, OnDone
    <3>2. Announced(out, i)
      <4>1. ~(run # NoRun /\ Merging(run))
        BY <2>4 DEF OffInv
      <4> QED
        BY <2>1, <4>1, LastItem
    <3>3. CASE PassOn(e)
      BY <2>1, <2>2, <3>2, <3>3, ShownPassed
    <3>4. CASE out' = out
      BY <2>1, <2>2, <3>4 DEF ShownInv, Leaders
    <3> QED
      BY <3>1, <3>3, <3>4
  <2> QED
    BY <2>3, <2>4
\* What a later fragment of a run brings with it goes by under its own id.
<1>4a. ASSUME NEW i \in Open, PushUntracked(i) PROVE ShownInv'
  <2>1. PICK e : Live /\ Handle(e, OnUntracked) /\ keys' = keys /\ e.id = i /\ e.type = "untracked"
    BY <1>4a DEF PushUntracked, Event, Speaks
  <2>2. PassOn(e) /\ run' = run
    BY <2>1 DEF Handle, OnUntracked
  <2>3. Needs(e, Leaders) => Announced(out, i)
    BY <2>1, LastItem DEF Needs, NeedsItem, ShownInv
  <2> QED
    BY <2>1, <2>2, <2>3, ShownPassed
<1>5. ASSUME PushCompleted PROVE ShownInv'
  <2> DEFINE items == [i \in DOMAIN keys |-> Item(i, keys[i], Said(received, i))]
             e == Event("completed", 0, NoRun.key, <<>>, items)
             f == [e EXCEPT !.output = Collapse(@, Recorded(run))]
  <2>1. /\ Speaks(e) /\ Handle(e, OnCompleted) /\ keys' = keys
        /\ e.type = "completed" /\ f.type = "completed"
    BY <1>5 DEF PushCompleted, Event
  <2> HIDE DEF e
  <2>0. Live /\ ~Live'
    <3>1. received' = Append(received, e) /\ IsSeq(received) /\ Live
      BY <2>1 DEF Speaks, TypeInv, LogOK
    <3>2. Len(received) + 1 \in DOMAIN received' /\ received'[Len(received) + 1] = e
      BY <3>1, AppendAny
    <3> QED
      BY <2>1, <3>1, <3>2 DEF Live
  <2>2. CASE Enabled
    <3>1. CloseRunThen(e, NoRun) \/ CloseRunThen(f, NoRun)
      BY <2>1, <2>2 DEF Handle, OnCompleted
    <3>2. PICK g : g.type = "completed" /\ CloseRunThen(g, NoRun)
      BY <2>1, <3>1
    <3>3. Sound(out', Leaders) /\ (\A i : Announced(out, i) => Announced(out', i)) /\ run' = NoRun
      <4> DEFINE L == Leaders
      <4>1. Sound(out, L) /\ out' = out \o Append(Dones(run), g) /\ run' = NoRun
        BY <3>2 DEF CloseRunThen, ShownInv
      <4>2. g.type \in {"added", "completed"}
        BY <3>2
      <4> HIDE DEF L
      <4>3. Sound(out', L) /\ \A i : Announced(out, i) => Announced(out', i)
        BY <4>1, <4>2, SoundClose
      <4> QED
        BY <4>1, <4>3 DEF L
    <3>4. Leaders' = Leaders
      BY <2>1 DEF Leaders
    <3> QED
      BY <2>0, <2>1, <3>3, <3>4 DEF ShownInv
  <2>3. CASE ~Enabled
    <3>1. PassOn(e) /\ run' = run
      BY <2>1, <2>3 DEF Handle
    <3> QED
      BY <2>0, <2>1, <3>1, ShownPassed DEF Needs, NeedsItem
  <2> QED
    BY <2>2, <2>3
<1>6. CASE UNCHANGED vars
  BY <1>6 DEF vars, ShownInv, Live, Leaders
<1> QED
  BY <1>1, <1>2, <1>3, <1>4, <1>4a, <1>5, <1>6 DEF Next

\* If the upstream leaves an item for good when it opens the next, the client
\* never gets text for, or the end of, an item it did not see opened; nor an
\* event the merger does not know, unless a later fragment of a run brought it.
THEOREM OnlyShownItemsHolds ==
    ASSUME Overlap = FALSE PROVE Spec => []OnlyShownItems
<1>1. Init => TypeInv /\ OffInv /\ ShownInv
  <2>1. Init => ShownInv
    BY DEF Init, ShownInv, Sound
  <2> QED
    BY <2>1, InvInit DEF IInv
<1>2. TypeInv /\ OffInv /\ ShownInv /\ [Next]_vars => (TypeInv /\ OffInv /\ ShownInv)'
  BY TypeStep, OffStep, ShownStep
<1>3. ShownInv => OnlyShownItems
  BY DEF ShownInv, Sound, Needs, NeedsItem, OnlyShownItems
<1> QED
  BY <1>1, <1>2, <1>3, PTL DEF Spec

-----------------------------------------------------------------------------
\* The text, the ends and the list, for an upstream that leaves an item for
\* good when it opens the next, with the quirk on.  The invariant says what
\* the run holds of the stream, what the records hold of the runs before it,
\* and how each run was opened and closed for the client.

Tracked(i) == run # NoRun /\ run.ids[1] = i

Ends(i) == {n \in Places(out, "done") : out[n].id = i}

\* The upstream closed i before it opened the next item.
Early(i) == \E n \in Places(received, "added") : \E m \in Places(received, "done") :
                m < n /\ received[m].id = i /\ received[n].id = i + 1

LogText(log) == \A n \in DOMAIN log : log[n].data \in Seq(Nat)

TextTypes == LogText(received) /\ LogText(out) /\ run.said \in Seq(Nat)

\* The run is that of the item opened last.
RunInv ==
    /\ ~Live => run = NoRun
    /\ Live /\ keys # <<>> /\ keys[Len(keys)].type \in Covered => run # NoRun
    /\ run # NoRun =>
          /\ keys # <<>> /\ run.key = keys[Len(keys)]
          /\ \E i \in Leaders : run.ids[1] = i /\ Len(keys) \in RunOf(i) /\ run.said = Said(out, i)

TextInv == \A i \in Leaders : Said(out, i) = WholeText(i)

\* A record for each run that merged, of those that the items S lead, with all
\* of its text.
RecordsOK(records, S) ==
    /\ IsSeq(records)
    /\ \A n \in DOMAIN records : \E i \in S :
          /\ records[n].ids[1] = i /\ ToSet(records[n].ids) = RunOf(i) /\ RunOf(i) # {i}
          /\ records[n].item = Item(i, keys[i], Said(out, i))
    /\ \A m, n \in DOMAIN records : records[m].ids[1] = records[n].ids[1] => m = n
    /\ \A i \in S : RunOf(i) # {i} => \E n \in DOMAIN records : records[n].ids[1] = i

RecordInv == RecordsOK(merged, {i \in Leaders : ~Tracked(i)})

\* What the client has been told of the end of item i.
EndOK(i) ==
    /\ i \in closed \/ (RunOf(i) # {i} /\ ~Tracked(i)) => Ends(i) # {}
    /\ ~(Tracked(i) /\ Merging(run)) =>
          \A n \in Ends(i) : (\A m \in Ends(i) : m <= n) => out[n].data = Said(out, i)
    /\ Tracked(i) => \A m, n \in Ends(i) : m = n
    /\ Tracked(i) /\ Merging(run) /\ Ends(i) # {} => Early(i)
    /\ \A m, n \in Ends(i) : m # n => Early(i)

EndInv ==
    /\ \A i \in Leaders : EndOK(i)
    /\ \A i \in DOMAIN keys : i = Len(keys) /\ Ends(i) # {} => i \in closed
    /\ \A i \in closed : \E m \in Places(received, "done") : received[m].id = i

AddedInv ==
    LET added == Places(out, "added")
    IN  /\ {out[n].id : n \in added} = Leaders
        /\ \A m, n \in added : m < n => out[m].id < out[n].id
        /\ \A n \in added : out[n].key = keys[out[n].id]

ListInv ==
    ~Live => LET listed == Last(out).output IN
        /\ {listed[n].id : n \in DOMAIN listed} = Leaders
        /\ \A m, n \in DOMAIN listed : m < n => listed[m].id < listed[n].id
        /\ \A n \in DOMAIN listed :
              listed[n] = Item(listed[n].id, keys[listed[n].id], Said(out, listed[n].id))

WholeInv == TextTypes /\ RunInv /\ TextInv /\ RecordInv /\ EndInv /\ AddedInv /\ ListInv

LEMMA LeastNatural ==
    ASSUME NEW T, T \subseteq Nat, T # {}
    PROVE  \E x \in T : \A y \in T : x <= y
<1>1. PICK x \in T : \A y \in T : ~(<<y, x>> \in OpToRel(<, Nat))
  BY NatLessThanWellFounded, WFMin
<1>2. ASSUME NEW y \in T PROVE x <= y
  <2>1. ~(y < x)
    BY <1>1 DEF OpToRel
  <2> QED
    BY <2>1
<1> QED
  BY <1>2

\* `f` joins the parts of q up to n, the way FlattenSeq does.
Joins(f, q, n) == f = [i \in 1..n |-> IF i = 1 THEN q[i] ELSE f[i - 1] \o q[i]]

LEMMA JoinExists ==
    ASSUME NEW q, NEW N \in Nat
    PROVE  \A n \in 1..N : \E f : Joins(f, q, n)
<1> DEFINE C == {n \in 1..N : ~\E f : Joins(f, q, n)}
<1>1. ASSUME C # {} PROVE FALSE
  <2>1. PICK n \in C : \A m \in C : n <= m
    <3>1. C \subseteq Nat
      OBVIOUS
    <3> HIDE DEF C
    <3> QED
      BY <1>1, <3>1, LeastNatural
  <2>2. CASE n = 1
    <3> DEFINE f == [i \in 1..1 |-> q[i]]
    <3>1. Joins(f, q, 1)
      BY DEF Joins
    <3> QED
      BY <2>2, <3>1
  <2>3. CASE n # 1
    <3>1. n - 1 \in 1..N /\ n - 1 \notin C /\ n \in Nat
      BY <2>1, <2>3
    <3>2. PICK f : Joins(f, q, n - 1)
      BY <3>1
    <3> DEFINE g == [i \in 1..n |-> IF i = n THEN f[n - 1] \o q[n] ELSE f[i]]
    <3>3. ASSUME NEW i \in 1..n PROVE g[i] = IF i = 1 THEN q[i] ELSE g[i - 1] \o q[i]
      <4>1. CASE i = n
        <5>1. n - 1 \in 1..n /\ n - 1 # n
          BY <3>1
        <5> QED
          BY <2>3, <4>1, <5>1
      <4>2. CASE i # n
        <5>1. i \in 1..(n - 1) /\ (i # 1 => i - 1 \in 1..n /\ i - 1 # n)
          BY <3>1, <4>2
        <5>2. f[i] = IF i = 1 THEN q[i] ELSE f[i - 1] \o q[i]
          BY <3>2, <5>1 DEF Joins
        <5> QED
          BY <4>2, <5>1, <5>2
      <4> QED
        BY <4>1, <4>2
    <3>4. g = [i \in 1..n |-> g[i]]
      OBVIOUS
    <3> HIDE DEF g
    <3>5. Joins(g, q, n)
      BY <3>3, <3>4 DEF Joins
    <3> QED
      BY <2>1, <3>5
  <2> QED
    BY <2>2, <2>3
<1> QED
  BY <1>1

LEMMA JoinType ==
    ASSUME NEW S, NEW n \in Nat, NEW q, \A i \in 1..n : q[i] \in Seq(S), NEW f, Joins(f, q, n)
    PROVE  \A i \in 1..n : f[i] \in Seq(S)
<1> DEFINE C == {i \in 1..n : f[i] \notin Seq(S)}
<1>1. ASSUME C # {} PROVE FALSE
  <2>1. PICK i \in C : \A j \in C : i <= j
    <3>1. C \subseteq Nat
      OBVIOUS
    <3> HIDE DEF C
    <3> QED
      BY <1>1, <3>1, LeastNatural
  <2>2. f[i] = IF i = 1 THEN q[i] ELSE f[i - 1] \o q[i]
    BY DEF Joins
  <2>3. CASE i = 1
    BY <2>2, <2>3
  <2>4. CASE i # 1
    <3>1. i - 1 \in 1..n /\ i - 1 \notin C
      BY <2>1, <2>4
    <3>2. f[i - 1] \in Seq(S) /\ q[i] \in Seq(S)
      BY <3>1
    <3>3. f[i - 1] \o q[i] \in Seq(S)
      BY <3>2, ConcatProperties
    <3> QED
      BY <2>1, <2>2, <2>4, <3>3
  <2> QED
    BY <2>3, <2>4
<1> QED
  BY <1>1

AgreeTo(p, q, n) == \A i \in 1..n : p[i] = q[i]

LEMMA JoinsAgree ==
    ASSUME NEW m \in Nat, NEW n \in Nat, m <= n, NEW p, NEW q, AgreeTo(p, q, m),
           NEW f, Joins(f, p, m), NEW g, Joins(g, q, n)
    PROVE  AgreeTo(f, g, m)
<1> USE DEF AgreeTo
<1> DEFINE C == {i \in 1..m : f[i] # g[i]}
<1>1. ASSUME C # {} PROVE FALSE
  <2>1. PICK i \in C : \A j \in C : i <= j
    <3>1. C \subseteq Nat
      OBVIOUS
    <3> HIDE DEF C
    <3> QED
      BY <1>1, <3>1, LeastNatural
  <2>2. i \in 1..n
    OBVIOUS
  <2>3. f[i] = IF i = 1 THEN p[i] ELSE f[i - 1] \o p[i]
    BY DEF Joins
  <2>4. g[i] = IF i = 1 THEN q[i] ELSE g[i - 1] \o q[i]
    BY <2>2 DEF Joins
  <2>5. CASE i # 1
    <3>1. i - 1 \in 1..m /\ i - 1 \notin C
      BY <2>1, <2>5
    <3> QED
      BY <2>3, <2>4, <3>1
  <2> QED
    BY <2>3, <2>4, <2>5
<1> QED
  BY <1>1

LEMMA FlattenJoins ==
    ASSUME NEW T, NEW q \in Seq(T), q # <<>>
    PROVE  \E f : Joins(f, q, Len(q)) /\ FlattenSeq(q) = f[Len(q)]
<1> DEFINE f == CHOOSE f : Joins(f, q, Len(q))
<1>1. Len(q) \in Nat /\ Len(q) # 0
  OBVIOUS
<1>2. Joins(f, q, Len(q))
  <2>1. Len(q) \in 1..Len(q)
    BY <1>1
  <2> QED
    BY <1>1, <2>1, JoinExists
<1>3. FlattenSeq(q) = f[Len(q)]
  BY <1>1 DEF FlattenSeq, Joins
<1> QED
  BY <1>2, <1>3

\* Joining one part more.
LEMMA FlattenAppend ==
    ASSUME NEW S, NEW q \in Seq(Seq(S)), NEW x \in Seq(S)
    PROVE  /\ FlattenSeq(q) \in Seq(S)
           /\ FlattenSeq(Append(q, x)) = FlattenSeq(q) \o x
<1> DEFINE r == Append(q, x)
           n == Len(q)
<1>1. /\ n \in Nat /\ r \in Seq(Seq(S)) /\ r # <<>> /\ Len(r) = n + 1 /\ r[n + 1] = x
      /\ \A i \in 1..n : q[i] = r[i] /\ q[i] \in Seq(S)
  <2> DEFINE T == Seq(S)
  <2>1. q \in Seq(T) /\ x \in T
    OBVIOUS
  <2> HIDE DEF T
  <2>2. n \in Nat /\ r \in Seq(T) /\ r # <<>> /\ Len(r) = n + 1 /\ r[n + 1] = x
    BY <2>1
  <2>3. \A i \in 1..n : q[i] = r[i] /\ q[i] \in T
    BY <2>1
  <2> QED
    BY <2>2, <2>3 DEF T
<1>2. PICK g : Joins(g, r, n + 1) /\ FlattenSeq(r) = g[n + 1]
  <2> HIDE DEF r
  <2> QED
    BY <1>1, FlattenJoins
<1>3. g[n + 1] = IF n + 1 = 1 THEN x ELSE g[n] \o x
  <2>1. n + 1 \in 1..(n + 1) /\ (n + 1) - 1 = n
    BY <1>1
  <2> QED
    BY <1>1, <1>2, <2>1 DEF Joins
<1>4. CASE q = <<>>
  <2>1. FlattenSeq(q) = <<>>
    BY <1>4 DEF FlattenSeq
  <2>2. FlattenSeq(r) = x
    BY <1>2, <1>3, <1>4
  <2> QED
    BY <2>1, <2>2
<1>5. CASE q # <<>>
  <2>1. n # 0 /\ n + 1 # 1 /\ n \in 1..n
    BY <1>1, <1>5
  <2>2. PICK f : Joins(f, q, n) /\ FlattenSeq(q) = f[n]
    BY <1>5, FlattenJoins
  <2> HIDE DEF r, n
  <2>3. \A i \in 1..n : f[i] = g[i]
    <3> DEFINE k == n + 1
    <3>1. k \in Nat /\ n <= k /\ Joins(g, r, k)
      BY <1>1, <1>2
    <3> HIDE DEF k
    <3>2. n \in Nat /\ Joins(f, q, n) /\ AgreeTo(q, r, n)
      BY <1>1, <2>2 DEF AgreeTo
    <3>3. AgreeTo(f, g, n)
      BY <3>1, <3>2, JoinsAgree
    <3> QED
      BY <3>3 DEF AgreeTo
  <2>4. f[n] \in Seq(S)
    BY <1>1, <2>1, <2>2, JoinType
  <2> QED
    BY <1>2, <1>3, <2>1, <2>2, <2>3, <2>4 DEF r, n
<1> QED
  BY <1>4, <1>5

\* Parts that hold nothing come to nothing.
LEMMA FlattenNothing ==
    ASSUME NEW n \in Nat, NEW q, q = [i \in 1..n |-> <<>>]
    PROVE  FlattenSeq(q) = <<>>
<1>1. q \in Seq({<<>>}) /\ Len(q) = n
  OBVIOUS
<1>2. CASE q = <<>>
  BY <1>2 DEF FlattenSeq
<1>3. CASE q # <<>>
  <2>1. PICK f : Joins(f, q, n) /\ FlattenSeq(q) = f[n]
    BY <1>1, <1>3, FlattenJoins
  <2>2. n # 0 /\ n \in 1..n
    BY <1>1, <1>3
  <2> DEFINE C == {i \in 1..n : f[i] # <<>>}
  <2>3. ASSUME C # {} PROVE FALSE
    <3>1. PICK i \in C : \A j \in C : i <= j
      <4>1. C \subseteq Nat
        OBVIOUS
      <4> HIDE DEF C
      <4> QED
        BY <2>3, <4>1, LeastNatural
    <3>2. f[i] = IF i = 1 THEN q[i] ELSE f[i - 1] \o q[i]
      BY <2>1 DEF Joins
    <3>3. q[i] = <<>>
      OBVIOUS
    <3>4. CASE i # 1
      <4>1. i - 1 \in 1..n /\ i - 1 \notin C
        BY <3>1, <3>4
      <4>2. <<>> \o <<>> = <<>>
        OBVIOUS
      <4> QED
        BY <3>1, <3>2, <3>3, <3>4, <4>1, <4>2
    <3> QED
      BY <3>1, <3>2, <3>3, <3>4
  <2> QED
    BY <2>1, <2>2, <2>3
<1> QED
  BY <1>2, <1>3

\* The parts for the numbers of a set, in order, are the elements x gives them.
Chosen(S, x, n) == [i \in 1..n |-> IF i \in S THEN <<x[i]>> ELSE <<>>]

ListsOf(F, S, x, n) ==
    /\ {F[m].id : m \in 1..Len(F)} = S \cap (1..n)
    /\ \A l, m \in 1..Len(F) : l < m => F[l].id < F[m].id
    /\ \A m \in 1..Len(F) : F[m] = x[F[m].id]

LEMMA FlattenChosen ==
    ASSUME NEW S, NEW x, NEW N \in Nat, \A i \in 1..N : x[i].id = i
    PROVE  /\ FlattenSeq(Chosen(S, x, N)) \in Seq({x[i] : i \in 1..N})
           /\ ListsOf(FlattenSeq(Chosen(S, x, N)), S, x, N)
<1> DEFINE X == {x[i] : i \in 1..N}
           F(n) == FlattenSeq(Chosen(S, x, n))
           C == {n \in 0..N : ~(F(n) \in Seq(X) /\ ListsOf(F(n), S, x, n))}
<1>1. ASSUME C # {} PROVE FALSE
  <2>1. PICK n \in C : \A m \in C : n <= m
    <3>1. C \subseteq Nat
      OBVIOUS
    <3> HIDE DEF C
    <3> QED
      BY <1>1, <3>1, LeastNatural
  <2>2. CASE n = 0
    <3>1. Chosen(S, x, 0) = <<>>
      BY DEF Chosen
    <3>2. F(n) = <<>>
      BY <2>2, <3>1 DEF FlattenSeq
    <3>3. <<>> \in Seq(X) /\ ListsOf(<<>>, S, x, 0)
      BY DEF ListsOf
    <3> QED
      BY <2>1, <2>2, <3>2, <3>3
  <2>3. CASE n # 0
    <3> DEFINE p == n - 1
               G == F(p)
               e == IF n \in S THEN <<x[n]>> ELSE <<>>
    <3>1. p \in 0..N /\ p \notin C /\ p + 1 = n /\ n \in 1..N
      BY <2>1, <2>3
    <3>2. G \in Seq(X) /\ ListsOf(G, S, x, p)
      BY <3>1
    <3>3. F(n) = G \o e
      <4> DEFINE q == Chosen(S, x, p)
      <4>0. X = X /\ \A i \in 1..N : x[i] \in X
        OBVIOUS
      <4> HIDE DEF X
      <4>1. q \in Seq(Seq(X)) /\ e \in Seq(X)
        <5>1. \A i \in 1..p : (IF i \in S THEN <<x[i]>> ELSE <<>>) \in Seq(X)
          BY <3>1, <4>0
        <5>2. e \in Seq(X)
          BY <3>1, <4>0
        <5> DEFINE T == Seq(X)
        <5>3. \A i \in 1..p : q[i] \in T
          BY <5>1 DEF Chosen
        <5> HIDE DEF T
        <5>4. q \in Seq(T)
          BY <3>1, <5>3 DEF Chosen
        <5> QED
          BY <5>2, <5>4 DEF T
      <4>2. Chosen(S, x, n) = Append(q, e)
        <5>1. /\ q = [i \in 1..p |-> IF i \in S THEN <<x[i]>> ELSE <<>>]
              /\ Len(q) = p /\ p \in Nat
          BY <3>1 DEF Chosen
        <5> DEFINE T == Seq(X)
                   v == [i \in 1..n |-> IF i \in S THEN <<x[i]>> ELSE <<>>]
                   w == Append(q, e)
        <5>2. q \in Seq(T) /\ e \in T
          BY <4>1
        <5> HIDE DEF T, q, e
        <5>3. /\ w \in Seq(T) /\ Len(w) = p + 1 /\ w[p + 1] = e
              /\ \A i \in 1..p : w[i] = q[i]
          BY <5>1, <5>2
        <5>4. w = [i \in 1..n |-> w[i]]
          <6> HIDE DEF w
          <6>1. w = [i \in 1..Len(w) |-> w[i]]
            BY <5>3
          <6> QED
            BY <3>1, <5>3, <6>1
        <5>5. \A i \in 1..n : w[i] = v[i]
          BY <3>1, <5>1, <5>3 DEF e
        <5> HIDE DEF w
        <5>6. v = [i \in 1..n |-> v[i]]
          OBVIOUS
        <5> HIDE DEF v
        <5>7. w = v
          BY <5>4, <5>5, <5>6
        <5> QED
          BY <5>7 DEF v, w, Chosen
      <4> HIDE DEF q, e
      <4> QED
        BY <4>1, <4>2, FlattenAppend DEF q
    <3> HIDE DEF G
    <3>4. CASE n \notin S
      <4>1. F(n) = G
        BY <3>2, <3>3, <3>4
      <4>2. S \cap (1..n) = S \cap (1..p)
        BY <3>1, <3>4
      <4>3. ListsOf(G, S, x, n)
        BY <3>2, <4>2 DEF ListsOf
      <4> HIDE DEF F
      <4> QED
        BY <2>1, <3>2, <4>1, <4>3
    <3>5. CASE n \in S
      <4> DEFINE H == Append(G, x[n])
      <4>1. F(n) = H /\ x[n] \in X /\ x[n].id = n
        BY <3>1, <3>2, <3>3, <3>5
      <4> HIDE DEF X, F
      <4>2. /\ H \in Seq(X) /\ Len(H) = Len(G) + 1 /\ Len(G) \in Nat /\ H[Len(G) + 1] = x[n]
            /\ \A i \in 1..Len(G) : H[i] = G[i]
        BY <3>2, <4>1
      <4> HIDE DEF H
      <4>3. {H[m].id : m \in 1..Len(H)} = S \cap (1..n)
        <5>1. {H[m].id : m \in 1..Len(H)} = {G[m].id : m \in 1..Len(G)} \cup {n}
          BY <4>1, <4>2
        <5>2. S \cap (1..n) = (S \cap (1..p)) \cup {n}
          BY <3>1, <3>5
        <5> QED
          BY <3>2, <5>1, <5>2 DEF ListsOf
      <4>4. ASSUME NEW m \in 1..Len(G) PROVE G[m].id < n
        <5>1. G[m].id \in S \cap (1..p)
          BY <3>2 DEF ListsOf
        <5> QED
          BY <3>1, <5>1
      <4>5. \A l, m \in 1..Len(H) : l < m => H[l].id < H[m].id
        <5> SUFFICES ASSUME NEW l \in 1..Len(H), NEW m \in 1..Len(H), l < m
                     PROVE  H[l].id < H[m].id
          OBVIOUS
        <5>1. l \in 1..Len(G) /\ H[l] = G[l]
          BY <4>2
        <5>2. CASE m = Len(G) + 1
          BY <4>1, <4>2, <4>4, <5>1, <5>2
        <5>3. CASE m # Len(G) + 1
          BY <3>2, <4>2, <5>1, <5>3 DEF ListsOf
        <5> QED
          BY <5>2, <5>3
      <4>6. ASSUME NEW m \in 1..Len(H) PROVE H[m] = x[H[m].id]
        <5>1. CASE m = Len(G) + 1
          BY <4>1, <4>2, <5>1
        <5>2. CASE m # Len(G) + 1
          BY <3>2, <4>2, <5>2, SMTT(30) DEF ListsOf
        <5> QED
          BY <5>1, <5>2
      <4>7. ListsOf(H, S, x, n)
        BY <4>3, <4>5, <4>6 DEF ListsOf
      <4> QED
        BY <2>1, <4>1, <4>2, <4>7
    <3> QED
      BY <3>4, <3>5
  <2> QED
    BY <2>2, <2>3
<1>2. N \in 0..N
  OBVIOUS
<1> QED
  BY <1>1, <1>2

-----------------------------------------------------------------------------
\* What an event adds to a stream.

Utter(e, i) == IF e.type = "delta" /\ e.id = i THEN e.data ELSE <<>>

LEMMA SaidAppend ==
    ASSUME NEW log, IsSeq(log), LogText(log), NEW e, e.data \in Seq(Nat)
    PROVE  /\ LogText(Append(log, e))
           /\ \A i : /\ Said(log, i) \in Seq(Nat) /\ Utter(e, i) \in Seq(Nat)
                     /\ Said(Append(log, e), i) = Said(log, i) \o Utter(e, i)
<1> DEFINE new == Append(log, e)
           part(l, i) == [n \in DOMAIN l |->
                            IF l[n].type = "delta" /\ l[n].id = i THEN l[n].data ELSE <<>>]
           T == Seq(Nat)
<1>1. /\ Len(log) \in Nat /\ DOMAIN log = 1..Len(log)
      /\ IsSeq(new) /\ Len(new) = Len(log) + 1 /\ DOMAIN new = 1..(Len(log) + 1)
      /\ \A n \in 1..Len(log) : new[n] = log[n]
      /\ new[Len(log) + 1] = e
  BY AppendAny
<1> HIDE DEF new
<1>2. LogText(new)
  BY <1>1 DEF LogText
<1>3. ASSUME NEW i
      PROVE  /\ Said(log, i) \in T /\ Utter(e, i) \in T
             /\ Said(new, i) = Said(log, i) \o Utter(e, i)
  <2> DEFINE q == part(log, i)
             u == Utter(e, i)
  <2>1. u \in T /\ \A n \in 1..Len(log) : q[n] \in T
    BY <1>1 DEF Utter, LogText
  <2>2. DOMAIN q = 1..Len(log) /\ q = [n \in 1..Len(log) |-> q[n]]
    BY <1>1
  <2> DEFINE r == part(new, i)
  <2>3. r = [n \in 1..(Len(log) + 1) |-> IF n = Len(log) + 1 THEN u ELSE q[n]]
    BY <1>1 DEF Utter
  <2>4. Said(log, i) = FlattenSeq(q) /\ Said(new, i) = FlattenSeq(r)
    BY DEF Said
  <2> HIDE DEF T, u, q, r
  <2>5. q \in Seq(T) /\ Len(q) = Len(log)
    BY <1>1, <2>1, <2>2
  <2>6. r = Append(q, u)
    BY <1>1, <2>1, <2>2, <2>3, <2>5
  <2>7. FlattenSeq(q) \in T /\ FlattenSeq(Append(q, u)) = FlattenSeq(q) \o u
    BY <2>1, <2>5, FlattenAppend DEF T
  <2> QED
    BY <2>1, <2>4, <2>6, <2>7 DEF u
<1> QED
  BY <1>2, <1>3 DEF new, T

\* An event that is no delta says nothing.
LEMMA QuietAppend ==
    ASSUME NEW log, IsSeq(log), LogText(log), NEW e, e.data \in Seq(Nat), e.type # "delta"
    PROVE  LogText(Append(log, e)) /\ \A i : Said(Append(log, e), i) = Said(log, i)
<1>1. ASSUME NEW i PROVE Said(Append(log, e), i) = Said(log, i)
  <2>1. Utter(e, i) = <<>>
    BY DEF Utter
  <2>2. Said(log, i) \in Seq(Nat) /\ Said(Append(log, e), i) = Said(log, i) \o <<>>
    BY <2>1, SaidAppend, ZenonT(40)
  <2> QED
    BY <2>2
<1> QED
  BY <1>1, SaidAppend

LEMMA SaidUnknown ==
    ASSUME NEW log, IsSeq(log), NEW i, \A n \in DOMAIN log : log[n].id # i
    PROVE  Said(log, i) = <<>>
<1> DEFINE q == [n \in DOMAIN log |->
                   IF log[n].type = "delta" /\ log[n].id = i THEN log[n].data ELSE <<>>]
<1>1. PICK S : log \in Seq(S)
  BY DEF IsSeq
<1>2. Len(log) \in Nat /\ q = [n \in 1..Len(log) |-> <<>>]
  BY <1>1
<1> HIDE DEF q
<1>3. FlattenSeq(q) = <<>>
  BY <1>2, FlattenNothing
<1> QED
  BY <1>3 DEF Said, q

LEMMA PlacesAppend ==
    ASSUME NEW log, IsSeq(log), NEW e, NEW type
    PROVE  /\ Len(log) \in Nat /\ Places(log, type) \subseteq 1..Len(log)
           /\ Places(Append(log, e), type) =
                Places(log, type) \cup (IF e.type = type THEN {Len(log) + 1} ELSE {})
  BY AppendAny DEF Places

\* A stream that has grown, by events that say nothing, and the last is e.
Grown(old, new, e) ==
    /\ IsSeq(new) /\ LogText(new)
    /\ Len(old) \in Nat /\ Len(new) \in Nat /\ Len(old) < Len(new)
    /\ DOMAIN old = 1..Len(old) /\ DOMAIN new = 1..Len(new) /\ new[Len(new)] = e
    /\ \A n \in 1..Len(old) : new[n] = old[n]
    /\ \A i : Said(new, i) = Said(old, i)
    /\ Places(new, "added") =
         Places(old, "added") \cup (IF e.type = "added" THEN {Len(new)} ELSE {})

LEMMA GrownOnce ==
    ASSUME NEW log, IsSeq(log), LogText(log), NEW e, e.data \in Seq(Nat), e.type # "delta"
    PROVE  /\ Grown(log, Append(log, e), e)
           /\ Places(Append(log, e), "done") =
                Places(log, "done") \cup (IF e.type = "done" THEN {Len(Append(log, e))} ELSE {})
<1>1. /\ Len(Append(log, e)) = Len(log) + 1 /\ Len(log) \in Nat
      /\ DOMAIN Append(log, e) = 1..(Len(log) + 1) /\ DOMAIN log = 1..Len(log)
      /\ IsSeq(Append(log, e)) /\ Append(log, e)[Len(log) + 1] = e
      /\ \A n \in 1..Len(log) : Append(log, e)[n] = log[n]
  BY AppendAny
<1>2. LogText(Append(log, e)) /\ \A i : Said(Append(log, e), i) = Said(log, i)
  BY QuietAppend
<1> QED
  BY <1>1, <1>2, PlacesAppend DEF Grown

LEMMA GrownTwice ==
    ASSUME NEW a, NEW b, NEW c, NEW d, NEW e, Grown(a, b, d), Grown(b, c, e), d.type # "added"
    PROVE  Grown(a, c, e)
  BY DEF Grown

\* What closes the run and event e behind it: the text stays, and a run that
\* merged gets its end, with the text it holds.
Closes(new, e) ==
    /\ Grown(out, new, e)
    /\ ~Merging(run) => Places(new, "done") = Places(out, "done")
    /\ Merging(run) => \E p \in 1..Len(new) :
          /\ p > Len(out) /\ Places(new, "done") = Places(out, "done") \cup {p}
          /\ new[p].id = run.ids[1] /\ new[p].data = run.said

LEMMA CloseEffect ==
    ASSUME TypeInv, TextTypes,
           NEW e, e.data \in Seq(Nat), e.type \notin {"delta", "done"},
           out' = out \o Append(Dones(run), e)
    PROVE  Closes(out', e)
<1> DEFINE close(type) == Event(type, run.ids[1], run.key, run.said, <<>>)
           d == close("done")
           p == close("partdone")
<1>0. IsSeq(out) /\ LogText(out) /\ run.said \in Seq(Nat)
  BY DEF TypeInv, LogOK, TextTypes
<1>1. /\ d.type = "done" /\ d.data \in Seq(Nat) /\ d.id = run.ids[1] /\ d.data = run.said
      /\ p.type = "partdone" /\ p.data \in Seq(Nat)
  BY <1>0 DEF Event
<1> HIDE DEF d, p
<1>2. CASE ~Merging(run)
  <2>1. out' = Append(out, e)
    BY <1>0, <1>2, ConcatSingle DEF Dones
  <2> QED
    BY <1>0, <1>2, <2>1, GrownOnce DEF Closes
<1>3. ASSUME Merging(run), NEW log, IsSeq(log), LogText(log), Grown(out, log, p) \/ log = out,
             Places(log, "done") = Places(out, "done"), out' = Append(Append(log, d), e)
      PROVE  Closes(out', e)
  <2> DEFINE b == Append(log, d)
  <2>1. Grown(log, b, d) /\ Places(b, "done") = Places(log, "done") \cup {Len(b)}
    BY <1>1, <1>3, GrownOnce
  <2>2. IsSeq(b) /\ LogText(b)
    BY <2>1 DEF Grown
  <2>0. out' = Append(b, e)
    BY <1>3
  <2> HIDE DEF b
  <2>3. Grown(b, out', e) /\ Places(out', "done") = Places(b, "done")
    <3>1. /\ Grown(b, Append(b, e), e)
          /\ Places(Append(b, e), "done") =
               Places(b, "done") \cup (IF e.type = "done" THEN {Len(Append(b, e))} ELSE {})
      BY <2>2, GrownOnce
    <3> QED
      BY <2>0, <3>1
  <2>4. Grown(out, b, d)
    BY <1>1, <1>3, <2>1, GrownTwice
  <2>5. Grown(out, out', e)
    BY <1>1, <2>3, <2>4, GrownTwice
  <2>6. /\ Len(b) \in 1..Len(out') /\ Len(b) > Len(out)
        /\ out'[Len(b)] = d
    <3>1. Len(b) \in Nat /\ Len(out') \in Nat /\ Len(b) < Len(out') /\ out'[Len(b)] = b[Len(b)]
      <4>1. Len(b) \in 1..Len(b)
        BY <2>4 DEF Grown
      <4> QED
        BY <2>3, <4>1, Zenon DEF Grown
    <3>2. Len(out) \in Nat /\ Len(out) < Len(b) /\ b[Len(b)] = d
      BY <2>4 DEF Grown
    <3> QED
      BY <3>1, <3>2, SMTT(30)
  <2>7. Places(out', "done") = Places(out, "done") \cup {Len(b)}
    BY <1>3, <2>1, <2>3
  <2> QED
    BY <1>1, <1>3, <2>5, <2>6, <2>7 DEF Closes
<1>4. CASE Merging(run) /\ run.key.type # "message"
  <2>1. Dones(run) = <<d>>
    BY <1>4 DEF Dones, d
  <2>2. out' = Append(Append(out, d), e)
    <3>1. PICK S : out \in Seq(S)
      BY <1>0 DEF IsSeq
    <3> DEFINE T == S \cup {d, e}
    <3>2. out \in Seq(T) /\ d \in T /\ e \in T
      BY <3>1, SeqMonotonic
    <3> HIDE DEF T
    <3>3. out \o Append(<<d>>, e) = Append(Append(out, d), e)
      BY <3>2
    <3> QED
      BY <2>1, <3>3
  <2> QED
    BY <1>0, <1>3, <1>4, <2>2
<1>5. CASE Merging(run) /\ run.key.type = "message"
  <2>1. Dones(run) = <<p, d>>
    BY <1>5 DEF Dones, d, p
  <2>2. out' = Append(Append(Append(out, p), d), e)
    <3>1. PICK S : out \in Seq(S)
      BY <1>0 DEF IsSeq
    <3> DEFINE T == S \cup {p, d, e}
    <3>2. out \in Seq(T) /\ d \in T /\ e \in T /\ p \in T
      BY <3>1, SeqMonotonic
    <3> HIDE DEF T
    <3>3. out \o Append(<<p, d>>, e) = Append(Append(Append(out, p), d), e)
      BY <3>2
    <3> QED
      BY <2>1, <3>3
  <2>3. Grown(out, Append(out, p), p) /\ Places(Append(out, p), "done") = Places(out, "done")
    BY <1>0, <1>1, GrownOnce
  <2>4. IsSeq(Append(out, p)) /\ LogText(Append(out, p))
    BY <2>3 DEF Grown
  <2> QED
    BY <1>3, <1>5, <2>2, <2>3, <2>4
<1> QED
  BY <1>2, <1>4, <1>5

-----------------------------------------------------------------------------
\* Runs of items.

LEMMA OneLeader ==
    ASSUME keys \in Seq(Keys), NEW i \in Leaders, NEW j \in Leaders, NEW n,
           n \in RunOf(i), n \in RunOf(j)
    PROVE  i = j
<1> DEFINE Below(a, b) == a \in Leaders /\ b \in Leaders /\ n \in RunOf(a) /\ n \in RunOf(b) /\ a < b
<1>0. i \in Nat /\ j \in Nat /\ n \in Nat /\ Leaders \subseteq 1..Len(keys)
  BY DEF Leaders, RunOf
<1>1. ASSUME NEW a \in Leaders, NEW b \in Leaders, n \in RunOf(a), n \in RunOf(b), a < b PROVE FALSE
  <2>1. a \in Nat /\ b \in Nat /\ b # 1 /\ b <= n
    BY <1>0, <1>1 DEF RunOf
  <2>2. b - 1 \in a..(n - 1) /\ (b - 1) + 1 = b
    BY <1>0, <1>1, <2>1
  <2>3. Fragments(keys[b - 1], keys[b])
    BY <1>1, <2>2 DEF RunOf
  <2> QED
    BY <2>1, <2>3 DEF Leaders
<1>2. ~(i < j) /\ ~(j < i)
  BY <1>1
<1> QED
  BY <1>0, <1>2

LEMMA LeaderExists ==
    ASSUME keys \in Seq(Keys), NEW n \in DOMAIN keys
    PROVE  \E i \in Leaders : n \in RunOf(i)
<1> DEFINE C == {i \in DOMAIN keys : n \in RunOf(i)}
<1>0. DOMAIN keys = 1..Len(keys) /\ Len(keys) \in Nat
  OBVIOUS
<1>1. n \in C
  BY <1>0 DEF RunOf
<1>2. PICK i \in C : \A j \in C : i <= j
  <2>1. C \subseteq Nat
    BY <1>0
  <2> HIDE DEF C
  <2> QED
    BY <1>1, <2>1, LeastNatural
<1>3. ASSUME i # 1, Fragments(keys[i - 1], keys[i]) PROVE FALSE
  <2>1. i - 1 \in DOMAIN keys /\ i - 1 < i /\ i <= n /\ i \in Nat /\ n \in Nat
    BY <1>0, <1>2, <1>3 DEF RunOf
  <2>2. ASSUME NEW m \in (i - 1)..(n - 1) PROVE Fragments(keys[m], keys[m + 1])
    <3>1. CASE m = i - 1
      <4>1. m + 1 = i
        BY <2>1, <3>1
      <4> QED
        BY <1>3, <3>1, <4>1
    <3>2. CASE m # i - 1
      <4>1. m \in i..(n - 1)
        BY <2>1, <3>2
      <4> QED
        BY <1>2, <4>1 DEF RunOf
    <3> QED
      BY <3>1, <3>2
  <2>3. n \in RunOf(i - 1)
    BY <2>1, <2>2 DEF RunOf
  <2>4. i - 1 \in C
    BY <2>1, <2>3
  <2> QED
    BY <1>2, <2>1, <2>4
<1>4. i \in Leaders
  BY <1>2, <1>3 DEF Leaders
<1> QED
  BY <1>2, <1>4

LEMMA OwnRun ==
    ASSUME keys \in Seq(Keys), NEW i \in DOMAIN keys
    PROVE  i \in RunOf(i) /\ RunOf(i) \subseteq i..Len(keys)
  BY DEF RunOf

\* Opening an item of kind k.
Prolongs(k) == keys # <<>> /\ Fragments(keys[Len(keys)], k)

LEMMA RunsGrow ==
    ASSUME keys \in Seq(Keys), NEW k \in Keys, keys' = Append(keys, k)
    PROVE  /\ Len(keys) \in Nat /\ DOMAIN keys = 1..Len(keys)
           /\ keys' \in Seq(Keys) /\ Len(keys') = Len(keys) + 1 /\ keys' # <<>>
           /\ DOMAIN keys' = 1..(Len(keys) + 1)
           /\ keys'[Len(keys) + 1] = k /\ \A n \in DOMAIN keys : keys'[n] = keys[n]
           /\ Leaders' = IF Prolongs(k) THEN Leaders ELSE Leaders \cup {Len(keys) + 1}
           /\ \A i \in DOMAIN keys :
                RunOf(i)' = IF Prolongs(k) /\ Len(keys) \in RunOf(i)
                            THEN RunOf(i) \cup {Len(keys) + 1} ELSE RunOf(i)
           /\ \A i : i = Len(keys) + 1 => RunOf(i)' = {i}
<1> DEFINE N == Len(keys)
<1>1. /\ N \in Nat /\ DOMAIN keys = 1..N
      /\ keys' \in Seq(Keys) /\ Len(keys') = N + 1 /\ keys' # <<>>
      /\ DOMAIN keys' = 1..(N + 1)
      /\ keys'[N + 1] = k /\ \A n \in DOMAIN keys : keys'[n] = keys[n]
  OBVIOUS
<1>2. keys = <<>> <=> N = 0
  OBVIOUS
<1> DEFINE Frag(n) == Fragments(keys'[n], keys'[n + 1])
<1>3. \A n \in 1..(N - 1) : Frag(n) <=> Fragments(keys[n], keys[n + 1])
  BY <1>1
<1>4. N # 0 => (Frag(N) <=> Prolongs(k))
  <2> SUFFICES ASSUME N # 0 PROVE Frag(N) <=> Prolongs(k)
    OBVIOUS
  <2>1. N \in DOMAIN keys
    BY <1>1
  <2>2. keys'[N] = keys[N] /\ keys'[N + 1] = k /\ keys # <<>>
    BY <1>1, <1>2, <2>1
  <2> QED
    BY <2>2 DEF Prolongs
<1>5. Prolongs(k) => N # 0
  BY <1>2 DEF Prolongs
<1>6. Leaders = {i \in 1..N : i = 1 \/ ~Fragments(keys[i - 1], keys[i])}
  BY <1>1 DEF Leaders
<1>7. Leaders' = {i \in 1..(N + 1) : i = 1 \/ ~Fragments(keys'[i - 1], keys'[i])}
  BY <1>1 DEF Leaders
<1>8. \A i : RunOf(i) = {j \in 1..N : i <= j /\ \A n \in i..(j - 1) : Fragments(keys[n], keys[n + 1])}
  BY <1>1 DEF RunOf
<1>9. \A i : RunOf(i)' = {j \in 1..(N + 1) : i <= j /\ \A n \in i..(j - 1) : Frag(n)}
  BY <1>1 DEF RunOf
<1>10. ASSUME NEW i \in 1..(N + 1)
       PROVE  i \in Leaders' <=> (i \in Leaders \/ (i = N + 1 /\ ~Prolongs(k)))
  <2>1. CASE i = 1
    <3>1. N = 0 => ~Prolongs(k)
      BY <1>5
    <3> QED
      BY <1>1, <1>6, <1>7, <2>1, <3>1
  <2>2. CASE i # 1 /\ i \in 1..N
    <3>1. i - 1 \in 1..(N - 1) /\ (i - 1) + 1 = i /\ i # N + 1
      BY <1>1, <2>2
    <3>2. Fragments(keys'[i - 1], keys'[i]) <=> Fragments(keys[i - 1], keys[i])
      BY <1>3, <3>1, SMTT(30)
    <3> QED
      BY <1>6, <1>7, <2>2, <3>1, <3>2
  <2>3. CASE i # 1 /\ i = N + 1
    <3>1. i - 1 = N /\ i \notin 1..N /\ N # 0
      BY <1>1, <2>3, SMTT(30)
    <3>2. Fragments(keys'[i - 1], keys'[i]) <=> Prolongs(k)
      BY <1>4, <2>3, <3>1, Zenon
    <3> QED
      BY <1>6, <1>7, <2>3, <3>1, <3>2, Zenon
  <2> QED
    BY <1>1, <2>1, <2>2, <2>3
<1>11. Leaders' = IF Prolongs(k) THEN Leaders ELSE Leaders \cup {N + 1}
  <2>1. Leaders \subseteq 1..N /\ Leaders' \subseteq 1..(N + 1) /\ N + 1 \notin 1..N
    BY <1>1, <1>6, <1>7
  <2>2. N + 1 \in 1..(N + 1) /\ 1..N \subseteq 1..(N + 1)
    BY <1>1
  <2> HIDE DEF N
  <2> QED
    BY <1>10, <2>1, <2>2
<1>12. ASSUME NEW i \in 1..N
       PROVE  RunOf(i)' = IF Prolongs(k) /\ N \in RunOf(i) THEN RunOf(i) \cup {N + 1} ELSE RunOf(i)
  <2>1. ASSUME NEW j \in 1..N PROVE j \in RunOf(i)' <=> j \in RunOf(i)
    <3>1. \A n \in i..(j - 1) : n \in 1..(N - 1)
      BY <1>1
    <3>2. (\A n \in i..(j - 1) : Frag(n)) <=> (\A n \in i..(j - 1) : Fragments(keys[n], keys[n + 1]))
      BY <1>3, <3>1
    <3>3. j \in 1..(N + 1)
      BY <1>1
    <3> HIDE DEF Frag
    <3> QED
      BY <1>8, <1>9, <3>2, <3>3
  <2>2. N + 1 \in RunOf(i)' <=> Prolongs(k) /\ N \in RunOf(i)
    <3>1. N # 0 /\ N \in i..N /\ N \in 1..N /\ i <= N + 1 /\ N + 1 \in 1..(N + 1) /\ (N + 1) - 1 = N
      BY <1>1
    <3>2. i..N = (i..(N - 1)) \cup {N} /\ i..(N - 1) \subseteq 1..(N - 1)
      BY <1>1, <3>1
    <3>3. (\A n \in i..N : Frag(n)) <=> (Frag(N) /\ \A n \in i..(N - 1) : Fragments(keys[n], keys[n + 1]))
      BY <1>3, <3>2
    <3>4. N \in RunOf(i) <=> \A n \in i..(N - 1) : Fragments(keys[n], keys[n + 1])
      <4>1. N \in 1..N /\ i <= N
        BY <3>1
      <4> HIDE DEF N
      <4> QED
        BY <1>8, <4>1
    <3>5. N + 1 \in RunOf(i)' <=> \A n \in i..N : Frag(n)
      BY <1>9, <3>1
    <3> HIDE DEF Frag
    <3> QED
      BY <1>4, <3>1, <3>3, <3>4, <3>5
  <2>3. RunOf(i) \subseteq 1..N /\ RunOf(i)' \subseteq 1..(N + 1) /\ 1..(N + 1) = (1..N) \cup {N + 1}
    BY <1>1, <1>8, <1>9, SMTT(30)
  <2>4. N + 1 \notin 1..N
    BY <1>1
  <2> DEFINE M == N + 1
             A == RunOf(i)
             B == RunOf(i)'
             P == Prolongs(k)
             Q == P /\ N \in A
  <2> HIDE DEF N, M, A, B, P
  <2>5. B = IF P /\ N \in A THEN A \cup {M} ELSE A
    <3>1. CASE P /\ N \in A
      BY <2>1, <2>2, <2>3, <2>4, <3>1 DEF A, B, P, M
    <3>2. CASE ~(P /\ N \in A)
      <4>1. \A j : j \in B <=> j \in A
        BY <2>1, <2>2, <2>3, <2>4, <3>2 DEF A, B, P, M
      <4> QED
        BY <3>2, <4>1
    <3> QED
      BY <3>1, <3>2
  <2> QED
    BY <2>5 DEF A, B, P, M
<1>13. ASSUME NEW i, i = N + 1 PROVE RunOf(i)' = {i}
  <2>1. \A j \in 1..(N + 1) : i <= j <=> j = i
    BY <1>1, <1>13
  <2>2. i..(i - 1) = {} /\ i \in 1..(N + 1)
    BY <1>1, <1>13
  <2>3. RunOf(i)' = {j \in 1..(N + 1) : i <= j /\ \A n \in i..(j - 1) : Frag(n)}
    BY <1>9
  <2> HIDE DEF Frag
  <2>4. \A j : j \in RunOf(i)' <=> j = i
    BY <2>1, <2>2, <2>3
  <2> HIDE DEF N
  <2> QED
    BY <2>4
<1> QED
  BY <1>1, <1>11, <1>12, <1>13

-----------------------------------------------------------------------------
\* The text of a run.

LEMMA SameText ==
    ASSUME keys' = keys, NEW i,
           \A n \in RunOf(i) : Said(received', n) = Said(received, n)
    PROVE  WholeText(i)' = WholeText(i)
<1>1. RunOf(i)' = RunOf(i)
  BY DEF RunOf
<1>2. [n \in DOMAIN keys |-> IF n \in RunOf(i) THEN Said(received', n) ELSE <<>>]
        = [n \in DOMAIN keys |-> IF n \in RunOf(i) THEN Said(received, n) ELSE <<>>]
  OBVIOUS
<1> QED
  BY <1>1, <1>2 DEF WholeText

LEMMA IsAppend ==
    ASSUME NEW T, NEW q \in Seq(T), NEW z \in T, NEW n, n = Len(q) + 1,
           NEW c, c = [m \in 1..n |-> c[m]], c[n] = z, \A m \in 1..Len(q) : c[m] = q[m]
    PROVE  c = Append(q, z)
<1> DEFINE w == Append(q, z)
<1>1. w \in Seq(T) /\ Len(w) = n /\ w[n] = z /\ \A m \in 1..Len(q) : w[m] = q[m]
  OBVIOUS
<1> HIDE DEF w
<1>2. w = [m \in 1..n |-> w[m]]
  BY <1>1
<1>3. Len(q) \in Nat /\ \A m \in 1..n : m = n \/ m \in 1..Len(q)
  OBVIOUS
<1>4. \A m \in 1..n : c[m] = w[m]
  BY <1>1, <1>3
<1>5. w = c
  BY <1>2, <1>4
<1> QED
  BY <1>5 DEF w

LEMMA IsAppended ==
    ASSUME NEW T, NEW q \in Seq(T), NEW c \in Seq(T), Len(c) = Len(q) + 1,
           \A m \in 1..Len(q) : c[m] = q[m]
    PROVE  c = Append(q, c[Len(q) + 1])
<1> DEFINE w == Append(q, c[Len(q) + 1])
<1>1. c[Len(q) + 1] \in T
  OBVIOUS
<1>2. w \in Seq(T) /\ Len(w) = Len(q) + 1 /\ w[Len(q) + 1] = c[Len(q) + 1]
      /\ \A m \in 1..Len(q) : w[m] = q[m]
  BY <1>1
<1> HIDE DEF w
<1>3. Len(q) \in Nat /\ \A m \in 1..(Len(q) + 1) : m = Len(q) + 1 \/ m \in 1..Len(q)
  OBVIOUS
<1>4. \A m \in 1..Len(c) : c[m] = w[m]
  BY <1>2, <1>3
<1>5. w = c
  BY <1>2, <1>4, SeqEqual
<1> QED
  BY <1>5 DEF w

\* The text of run i up to item n, as parts.
Parts(log, i, n) == [m \in 1..n |-> IF m \in RunOf(i) THEN Said(log, m) ELSE <<>>]

LEMMA PartsType ==
    ASSUME NEW log, IsSeq(log), LogText(log), NEW i, NEW n \in Nat
    PROVE  Parts(log, i, n) \in Seq(Seq(Nat)) /\ Len(Parts(log, i, n)) = n
<1> DEFINE T == Seq(Nat)
<1>1. <<>> \in T
  OBVIOUS
<1>2. [data |-> <<>>].data \in Seq(Nat)
  OBVIOUS
<1>3. \A m : Said(log, m) \in T
  BY <1>2, SaidAppend
<1> HIDE DEF T
<1>4. Parts(log, i, n) \in Seq(T) /\ Len(Parts(log, i, n)) = n
  BY <1>1, <1>3 DEF Parts
<1> QED
  BY <1>4 DEF T

\* The upstream opens an item: the text of the runs stays.
LEMMA TextOfOpened ==
    ASSUME keys \in Seq(Keys), NEW k \in Keys, keys' = Append(keys, k),
           IsSeq(received), LogText(received), LogText(received'), IsSeq(received'),
           \A i : Said(received', i) = Said(received, i),
           Said(received, Len(keys) + 1) = <<>>
    PROVE  /\ \A i \in DOMAIN keys : WholeText(i)' = WholeText(i)
           /\ \A i : i = Len(keys) + 1 => WholeText(i)' = <<>>
<1> DEFINE N == Len(keys)
<1>0. N \in Nat /\ DOMAIN keys = 1..N /\ DOMAIN keys' = 1..(N + 1)
  OBVIOUS
<1>1. ASSUME NEW i \in DOMAIN keys PROVE WholeText(i)' = WholeText(i)
  <2> DEFINE q == Parts(received, i, N)
             r == [m \in 1..(N + 1) |-> IF m \in RunOf(i)' THEN Said(received', m) ELSE <<>>]
             T == Seq(Nat)
  <2>1. q \in Seq(Seq(Nat)) /\ Len(q) = N
    BY <1>0, PartsType
  <2>2. ASSUME NEW m \in 1..N PROVE r[m] = q[m]
    <3>1. m \in RunOf(i)' <=> m \in RunOf(i)
      <4>1. m # N + 1
        BY <1>0
      <4> QED
        BY <4>1, RunsGrow
    <3>2. m \in 1..(N + 1)
      BY <1>0
    <3> QED
      BY <3>1, <3>2 DEF Parts
  <2>3. r[N + 1] = <<>>
    <3>1. N + 1 \in 1..(N + 1)
      BY <1>0
    <3> QED
      BY <3>1
  <2>4. r = Append(q, <<>>)
    <3>1. r = [m \in 1..(N + 1) |-> r[m]]
      OBVIOUS
    <3>2. q \in Seq(T) /\ <<>> \in T
      BY <2>1
    <3>3. \A m \in 1..Len(q) : r[m] = q[m]
      BY <2>1, <2>2
    <3> DEFINE M == N + 1
    <3>4. r = [m \in 1..M |-> r[m]] /\ r[M] = <<>> /\ M = Len(q) + 1
      BY <2>1, <2>3, <3>1
    <3> HIDE DEF q, r, T, M
    <3> QED
      BY <3>2, <3>3, <3>4, IsAppend, ZenonT(40)
  <2>5. WholeText(i)' = FlattenSeq(r) /\ WholeText(i) = FlattenSeq(q)
    BY <1>0 DEF WholeText, Parts
  <2> HIDE DEF q, r
  <2>6. FlattenSeq(q) \in Seq(Nat) /\ FlattenSeq(r) = FlattenSeq(q) \o <<>>
    <3>1. <<>> \in Seq(Nat)
      OBVIOUS
    <3> QED
      BY <2>1, <2>4, <3>1, FlattenAppend
  <2> QED
    BY <2>5, <2>6
<1>2. ASSUME NEW i, i = N + 1 PROVE WholeText(i)' = <<>>
  <2> DEFINE r == [m \in 1..(N + 1) |-> IF m \in RunOf(i)' THEN Said(received', m) ELSE <<>>]
  <2>1. RunOf(i)' = {i}
    BY <1>2, RunsGrow
  <2>2. r = [m \in 1..(N + 1) |-> <<>>]
    BY <1>2, <2>1
  <2>3. WholeText(i)' = FlattenSeq(r)
    BY <1>0 DEF WholeText
  <2> HIDE DEF r
  <2>4. N + 1 \in Nat
    BY <1>0
  <2> QED
    BY <2>2, <2>3, <2>4, FlattenNothing
<1> QED
  BY <1>1, <1>2

\* The item opened last speaks: the text of its run grows.
LEMMA TextOfDelta ==
    ASSUME keys \in Seq(Keys), keys # <<>>, keys' = keys,
           IsSeq(received), LogText(received), IsSeq(received'), LogText(received'),
           NEW d \in Seq(Nat), Said(received', Len(keys)) = Said(received, Len(keys)) \o d,
           \A n \in 1..(Len(keys) - 1) : Said(received', n) = Said(received, n),
           NEW i, Len(keys) \in RunOf(i)
    PROVE  WholeText(i)' = WholeText(i) \o d
<1> DEFINE N == Len(keys)
           p == N - 1
           x == Said(received, N)
           y == Said(received', N)
           q == Parts(received, i, p)
           a == Parts(received, i, N)
           b == Parts(received', i, N)
           T == Seq(Nat)
<1>0. N \in Nat /\ DOMAIN keys = 1..N /\ p \in Nat /\ N = p + 1 /\ N \in 1..N
  OBVIOUS
<1>1. RunOf(i)' = RunOf(i)
  BY DEF RunOf
<1>2. q \in Seq(T) /\ Len(q) = p /\ a \in Seq(T) /\ b \in Seq(T) /\ Len(a) = N /\ Len(b) = N
  BY <1>0, PartsType, Zenon
<1>3. x = a[N] /\ y = b[N] /\ y = x \o d
  BY <1>0 DEF Parts
<1>4. \A m \in 1..p : a[m] = q[m] /\ b[m] = q[m]
  <2>1. ASSUME NEW m \in 1..p PROVE a[m] = q[m] /\ b[m] = q[m]
    <3>1. m \in 1..N /\ Said(received', m) = Said(received, m)
      BY <1>0
    <3> QED
      BY <3>1 DEF Parts
  <2> QED
    BY <2>1
<1>5. WholeText(i)' = FlattenSeq(b) /\ WholeText(i) = FlattenSeq(a)
  BY <1>0, <1>1 DEF WholeText, Parts
<1> HIDE DEF q, a, b, x, y, T
<1>a. \A c \in Seq(T) : Len(c) = N => c = [m \in 1..N |-> c[m]] /\ c[N] \in T
  BY <1>0
<1>6. x \in T /\ y \in T
  BY <1>a, <1>2, <1>3
<1>7. a = Append(q, x) /\ b = Append(q, y)
  <2>1. Len(a) = Len(q) + 1 /\ Len(b) = Len(q) + 1 /\ N = Len(q) + 1
    BY <1>0, <1>2
  <2>2. \A m \in 1..Len(q) : a[m] = q[m] /\ b[m] = q[m]
    BY <1>2, <1>4
  <2>3. a = Append(q, a[Len(q) + 1])
    BY <1>2, <2>1, <2>2, IsAppended
  <2>4. b = Append(q, b[Len(q) + 1])
    BY <1>2, <2>1, <2>2, IsAppended
  <2> QED
    BY <1>3, <2>1, <2>3, <2>4
<1>8. FlattenSeq(q) \in T /\ FlattenSeq(a) = FlattenSeq(q) \o x /\ FlattenSeq(b) = FlattenSeq(q) \o y
  <2>1. q \in Seq(Seq(Nat)) /\ x \in Seq(Nat) /\ y \in Seq(Nat)
    BY <1>2, <1>6 DEF T
  <2> QED
    BY <1>7, <2>1, FlattenAppend DEF T
<1>b. FlattenSeq(q) \o (x \o d) = (FlattenSeq(q) \o x) \o d
  <2>1. x \in Seq(Nat) /\ FlattenSeq(q) \in Seq(Nat)
    BY <1>6, <1>8 DEF T
  <2> QED
    <3> DEFINE f == FlattenSeq(q)
               S == Nat
    <3>1. x \in Seq(S) /\ f \in Seq(S) /\ d \in Seq(S)
      BY <2>1
    <3> HIDE DEF f, S
    <3>2. (f \o x) \o d = f \o (x \o d)
      BY <3>1, ConcatAssociative, SMTT(30)
    <3> QED
      BY <3>2 DEF f
<1> QED
  BY <1>3, <1>5, <1>8, <1>b

-----------------------------------------------------------------------------
\* The list of the items when the stream completes.

\* Parts of which only one says something come to that one.
LEMMA FlattenOnly ==
    ASSUME NEW S, NEW n \in Nat, NEW q \in Seq(Seq(S)), Len(q) = n, NEW k \in 1..n,
           \A i \in 1..n : i # k => q[i] = <<>>
    PROVE  FlattenSeq(q) = q[k]
<1> DEFINE T == Seq(S)
<1>0. n # 0 /\ n \in 1..n /\ q # <<>> /\ n >= k
  OBVIOUS
<1>1. q \in Seq(T)
  OBVIOUS
<1> HIDE DEF T
<1>2. q[k] \in T
  BY <1>1
<1>3. PICK f : Joins(f, q, n) /\ FlattenSeq(q) = f[n]
  BY <1>0, <1>1, FlattenJoins
<1> DEFINE C == {i \in 1..n : f[i] # IF i < k THEN <<>> ELSE q[k]}
<1>4. ASSUME C # {} PROVE FALSE
  <2>1. PICK i \in C : \A j \in C : i <= j
    <3>1. C \subseteq Nat
      OBVIOUS
    <3> HIDE DEF C
    <3> QED
      BY <1>4, <3>1, LeastNatural
  <2>2. f[i] = IF i = 1 THEN q[i] ELSE f[i - 1] \o q[i]
    BY <1>3 DEF Joins
  <2>3. CASE i = 1
    BY <2>1, <2>2, <2>3
  <2>4. CASE i # 1
    <3>1. i - 1 \in 1..n /\ i - 1 \notin C
      BY <2>1, <2>4
    <3>2. f[i - 1] = IF i - 1 < k THEN <<>> ELSE q[k]
      BY <3>1
    <3>3. CASE i < k
      <4>1. f[i - 1] = <<>> /\ q[i] = <<>> /\ <<>> \o <<>> = <<>>
        BY <3>2, <3>3
      <4> QED
        BY <2>1, <2>2, <2>4, <3>3, <4>1
    <3>4. CASE i = k
      <4>1. f[i - 1] = <<>>
        BY <3>2, <3>4
      <4>2. <<>> \o q[k] = q[k]
        BY <1>2 DEF T
      <4> QED
        BY <2>1, <2>2, <2>4, <3>4, <4>1, <4>2
    <3>5. CASE i > k
      <4>1. f[i - 1] = q[k] /\ q[i] = <<>>
        BY <3>2, <3>5
      <4>2. q[k] \o <<>> = q[k]
        BY <1>2 DEF T
      <4> QED
        BY <2>1, <2>2, <2>4, <3>5, <4>1, <4>2
    <3> QED
      BY <3>3, <3>4, <3>5
  <2> QED
    BY <2>3, <2>4
<1> QED
  BY <1>0, <1>3, <1>4

\* The text of an item that is not broken up is what the upstream said in it.
LEMMA TextOfOne ==
    ASSUME keys \in Seq(Keys), IsSeq(received), LogText(received),
           NEW i \in DOMAIN keys, RunOf(i) = {i}
    PROVE  WholeText(i) = Said(received, i)
<1> DEFINE N == Len(keys)
           q == Parts(received, i, N)
<1>1. N \in Nat /\ DOMAIN keys = 1..N
  OBVIOUS
<1>2. q \in Seq(Seq(Nat)) /\ Len(q) = N
  BY <1>1, PartsType
<1>3. q[i] = Said(received, i) /\ \A m \in 1..N : m # i => q[m] = <<>>
  BY <1>1 DEF Parts
<1>4. WholeText(i) = FlattenSeq(q)
  BY <1>1 DEF WholeText, Parts
<1> HIDE DEF q
<1>5. FlattenSeq(q) = q[i]
  BY <1>1, <1>2, <1>3, FlattenOnly, ZenonT(40)
<1> QED
  BY <1>3, <1>4, <1>5

Listed(listed) ==
    /\ {listed[n].id : n \in DOMAIN listed} = Leaders
    /\ \A m, n \in DOMAIN listed : m < n => listed[m].id < listed[n].id
    /\ \A n \in DOMAIN listed :
          listed[n] = Item(listed[n].id, keys[listed[n].id], Said(out, listed[n].id))

\* An item belongs to the record of its run, if there is one.
LEMMA RecordOfRun ==
    ASSUME keys \in Seq(Keys), NEW records, RecordsOK(records, Leaders),
           NEW i \in Leaders, NEW item, item.id \in RunOf(i)
    PROVE  /\ \A n \in DOMAIN records : records[n].ids[1] = i => RecordOf(item, records) = {n}
           /\ (\A n \in DOMAIN records : records[n].ids[1] # i) => RecordOf(item, records) = {}
<1>1. ASSUME NEW n \in DOMAIN records, item.id \in ToSet(records[n].ids)
      PROVE  records[n].ids[1] = i
  <2>1. PICK j \in Leaders : records[n].ids[1] = j /\ ToSet(records[n].ids) = RunOf(j)
    BY DEF RecordsOK
  <2>2. j = i
    BY <1>1, <2>1, OneLeader
  <2> QED
    BY <2>1, <2>2
<1>2. ASSUME NEW n \in DOMAIN records, records[n].ids[1] = i
      PROVE  item.id \in ToSet(records[n].ids)
  <2>1. PICK j \in Leaders : records[n].ids[1] = j /\ ToSet(records[n].ids) = RunOf(j)
    BY DEF RecordsOK
  <2> QED
    BY <1>2, <2>1
<1>3. DOMAIN records = 1..Len(records) /\ Len(records) \in Nat
  <2>1. PICK S : records \in Seq(S)
    BY DEF RecordsOK, IsSeq
  <2> QED
    BY <2>1
<1>4. ASSUME NEW n \in DOMAIN records, records[n].ids[1] = i PROVE RecordOf(item, records) = {n}
  <2>1. ASSUME NEW m \in DOMAIN records, item.id \in ToSet(records[m].ids) PROVE m = n
    BY <1>1, <1>4, <2>1 DEF RecordsOK
  <2>2. item.id \in ToSet(records[n].ids)
    BY <1>2, <1>4
  <2>3. \A k \in 1..(n - 1) : k \in DOMAIN records /\ k # n
    BY <1>3
  <2>4. \A k \in 1..(n - 1) : item.id \notin ToSet(records[k].ids)
    BY <2>1, <2>3
  <2>5. \A m : m \in RecordOf(item, records) <=> m = n
    BY <2>1, <2>2, <2>4 DEF RecordOf
  <2> QED
    BY <2>5
<1>5. ASSUME \A n \in DOMAIN records : records[n].ids[1] # i PROVE RecordOf(item, records) = {}
  BY <1>1, <1>5 DEF RecordOf
<1> QED
  BY <1>4, <1>5

LEMMA CollapseLists ==
    ASSUME TypeInv, TextTypes, TextInv, NEW records, RecordsOK(records, Leaders),
           NEW output, output = [i \in DOMAIN keys |-> Item(i, keys[i], Said(received, i))]
    PROVE  Listed(IF records = <<>> THEN output ELSE Collapse(output, records))
<1> DEFINE N == Len(keys)
           x == [i \in 1..N |-> Item(i, keys[i], Said(out, i))]
<1>0. /\ keys \in Seq(Keys) /\ N \in Nat /\ DOMAIN keys = 1..N /\ IsSeq(received)
      /\ LogText(received) /\ Leaders \subseteq 1..N
  BY DEF TypeInv, LogOK, TextTypes, Leaders
<1>1. \A i \in 1..N : x[i].id = i /\ output[i].id = i
  BY <1>0 DEF Item
<1>2. ASSUME NEW m \in Leaders, RunOf(m) = {m} PROVE output[m] = x[m]
  <2>1. Said(out, m) = Said(received, m)
    BY <1>0, <1>2, TextOfOne DEF TextInv
  <2> QED
    BY <1>0, <2>1
<1>3. CASE records = <<>>
  <2>1. \A i \in Leaders : RunOf(i) = {i}
    BY <1>3, EmptyIsSeq DEF RecordsOK
  <2>2. Leaders = 1..N
    <3>1. ASSUME NEW m \in 1..N PROVE m \in Leaders
      <4>1. PICK i \in Leaders : m \in RunOf(i)
        BY <1>0, LeaderExists
      <4> QED
        BY <2>1, <4>1
    <3> QED
      BY <1>0, <3>1
  <2>3. output = x
    BY <1>0, <1>2, <2>1, <2>2
  <2>4. Listed(x)
    <3>1. DOMAIN x = 1..N /\ \A n \in 1..N : x[n] = Item(n, keys[n], Said(out, n))
      OBVIOUS
    <3> HIDE DEF x
    <3>2. {x[n].id : n \in DOMAIN x} = Leaders
      <4> DEFINE I == 1..N
      <4>1. DOMAIN x = I /\ Leaders = I /\ \A n \in I : x[n].id = n
        BY <1>1, <2>2, <3>1
      <4> HIDE DEF I
      <4> QED
        BY <4>1
    <3>3. \A m, n \in DOMAIN x : m < n => x[m].id < x[n].id
      BY <1>1, <3>1
    <3> QED
      BY <1>1, <3>1, <3>2, <3>3 DEF Listed
  <2> QED
    BY <1>3, <2>3, <2>4
<1>4. CASE records # <<>>
  <2> DEFINE of(m) == RecordOf(output[m], records)
             repeated(m) == \E l \in 1..(m - 1) : of(l) = of(m)
             whole(m) == records[CHOOSE n \in of(m) : TRUE].item
             part(m) == IF of(m) = {} THEN <<output[m]>>
                        ELSE IF repeated(m) THEN <<>> ELSE <<whole(m)>>
  <2>1. \A i \in Leaders : i \in RunOf(i)
    BY <1>0, OwnRun
  <2>2. ASSUME NEW m \in Leaders PROVE part(m) = <<x[m]>>
    <3>1. m \in 1..N /\ m \in RunOf(m) /\ output[m].id = m
      BY <1>0, <1>1, <2>1
    <3>2. CASE \A n \in DOMAIN records : records[n].ids[1] # m
      <4>1. RunOf(m) = {m} /\ of(m) = {}
        BY <1>0, <3>1, <3>2, RecordOfRun, SMTT(30) DEF RecordsOK
      <4> QED
        BY <1>2, <4>1
    <3>3. CASE \E n \in DOMAIN records : records[n].ids[1] = m
      <4>1. PICK n \in DOMAIN records : records[n].ids[1] = m
        BY <3>3
      <4>2. of(m) = {n}
        BY <1>0, <3>1, <4>1, RecordOfRun
      <4>3. records[n].item = Item(m, keys[m], Said(out, m))
        BY <4>1 DEF RecordsOK
      <4>4. ASSUME NEW l \in 1..(m - 1), of(l) = of(m) PROVE FALSE
        <5>1. l \in 1..N /\ output[l].id = l /\ l < m
          BY <1>0, <1>1, <3>1
        <5>2. PICK j \in Leaders : l \in RunOf(j)
          BY <1>0, <5>1, LeaderExists
        <5>3. ~(\A k \in DOMAIN records : records[k].ids[1] # j)
          <6>1. output[l].id \in RunOf(j) /\ of(l) # {}
            BY <4>2, <4>4, <5>1, <5>2
          <6> QED
            BY <1>0, <6>1, RecordOfRun
        <5>4. PICK k \in DOMAIN records : records[k].ids[1] = j
          BY <5>3
        <5>5. of(l) = {k}
          BY <1>0, <5>1, <5>2, <5>4, RecordOfRun
        <5>6. j = m
          BY <4>1, <4>2, <4>4, <5>4, <5>5
        <5>7. m \in Nat /\ RunOf(m) \subseteq m..Len(keys)
          BY <1>0, <3>1, OwnRun
        <5> QED
          BY <5>1, <5>2, <5>6, <5>7
      <4>5. whole(m) = Item(m, keys[m], Said(out, m))
        <5>1. (CHOOSE k \in of(m) : TRUE) = n
          BY <4>2
        <5> QED
          BY <4>3, <5>1
      <4> QED
        BY <3>1, <4>2, <4>4, <4>5
    <3> QED
      BY <3>2, <3>3
  <2>3. ASSUME NEW m \in 1..N, m \notin Leaders PROVE part(m) = <<>>
    <3>1. PICK i \in Leaders : m \in RunOf(i)
      BY <1>0, LeaderExists
    <3>2. i # m /\ i \in 1..N /\ RunOf(i) # {i} /\ RunOf(i) \subseteq i..N
      BY <1>0, <2>3, <3>1, OwnRun
    <3>3. PICK n \in DOMAIN records : records[n].ids[1] = i
      BY <3>2 DEF RecordsOK
    <3>4. of(m) = {n} /\ of(i) = {n}
      BY <1>0, <1>1, <2>1, <3>1, <3>2, <3>3, RecordOfRun
    <3>5. i \in 1..(m - 1)
      BY <1>0, <3>1, <3>2
    <3> QED
      BY <3>4, <3>5
  <2> DEFINE y == FlattenSeq(Chosen(Leaders, x, N))
             X == {x[i] : i \in 1..N}
  <2>4. Collapse(output, records) = y
    <3>1. Collapse(output, records) = FlattenSeq([m \in DOMAIN output |-> part(m)])
      BY DEF Collapse
    <3>2. [m \in DOMAIN output |-> part(m)] = Chosen(Leaders, x, N)
      <4>1. DOMAIN output = 1..N
        BY <1>0
      <4> HIDE DEF part
      <4> QED
        BY <4>1, <2>2, <2>3 DEF Chosen
    <3> QED
      BY <3>1, <3>2
  <2>5. y \in Seq(X) /\ ListsOf(y, Leaders, x, N)
    BY <1>0, <1>1, FlattenChosen
  <2> HIDE DEF y, X
  <2>6. DOMAIN y = 1..Len(y)
    BY <2>5
  <2>7. Listed(y)
    <3>1. {y[n].id : n \in DOMAIN y} = Leaders
      BY <1>0, <2>5, <2>6 DEF ListsOf
    <3>2. \A n \in DOMAIN y : y[n].id \in 1..N
      BY <1>0, <3>1
    <3>3. \A n \in DOMAIN y : y[n] = Item(y[n].id, keys[y[n].id], Said(out, y[n].id))
      BY <2>5, <2>6, <3>2 DEF ListsOf
    <3> QED
      BY <2>5, <2>6, <3>1, <3>3 DEF ListsOf, Listed
  <2> QED
    BY <1>4, <2>4, <2>7
<1> QED
  BY <1>3, <1>4

-----------------------------------------------------------------------------
\* The run and its leader.

LEMMA RunShape ==
    ASSUME TypeInv, RunInv, run # NoRun, NEW i, i = run.ids[1]
    PROVE  /\ i \in Leaders /\ i \in DOMAIN keys /\ Len(keys) \in RunOf(i)
           /\ ToSet(run.ids) = RunOf(i) /\ RunOf(i) = i..Len(keys)
           /\ Merging(run) <=> RunOf(i) # {i}
           /\ Merging(run) <=> i # Len(keys)
<1> DEFINE N == Len(keys)
           l == Len(run.ids)
<1>0. keys \in Seq(Keys) /\ N \in Nat /\ DOMAIN keys = 1..N
  BY DEF TypeInv
<1>1. i \in Leaders /\ N \in RunOf(i)
  BY DEF RunInv
<1>2. i \in 1..N
  BY <1>0, <1>1 DEF Leaders
<1>3. run.ids \in Seq(Nat) /\ run.ids # <<>> /\ \A n \in DOMAIN run.ids : run.ids[n] + l = N + n
  BY DEF TypeInv, RunOK
<1>4. l \in Nat /\ l >= 1 /\ DOMAIN run.ids = 1..l /\ \A n \in 1..l : run.ids[n] \in Nat
  BY <1>3, SMTT(30)
<1>5. i + l = N + 1 /\ \A n \in 1..l : run.ids[n] + l = N + n
  <2>1. 1 \in 1..l /\ \A n \in 1..l : run.ids[n] + l = N + n
    <3>1. 1 \in 1..l
      BY <1>4
    <3>2. ASSUME NEW n \in 1..l PROVE run.ids[n] + l = N + n
      <4>1. n \in DOMAIN run.ids
        BY <1>4
      <4> HIDE DEF l, N
      <4> QED
        BY <1>3, <4>1 DEF l, N
    <3> QED
      BY <3>1, <3>2
  <2>2. run.ids[1] + l = N + 1
    BY <2>1
  <2> QED
    BY <2>1, <2>2
<1>6. RunOf(i) = i..N
  <2>1. RunOf(i) \subseteq i..N
    BY <1>0, <1>2, OwnRun
  <2>2. ASSUME NEW j \in i..N PROVE j \in RunOf(i)
    <3>1. j \in 1..N /\ i <= j /\ i..(j - 1) \subseteq i..(N - 1)
      BY <1>0, <1>2
    <3>2. \A n \in i..(N - 1) : Fragments(keys[n], keys[n + 1])
      BY <1>1 DEF RunOf
    <3> QED
      BY <1>0, <3>1, <3>2 DEF RunOf
  <2> QED
    BY <2>1, <2>2
<1>7. ToSet(run.ids) = {run.ids[n] : n \in 1..l}
  BY <1>4 DEF ToSet
<1> HIDE DEF N, l
<1>8. \A n \in 1..l : run.ids[n] \in i..N
  BY <1>0, <1>2, <1>4, <1>5, SMTT(30)
<1>9. ASSUME NEW j \in i..N PROVE \E n \in 1..l : run.ids[n] = j
  <2>1. (j + l) - N \in 1..l
    BY <1>0, <1>2, <1>4, <1>5
  <2>2. run.ids[(j + l) - N] + l = N + ((j + l) - N) /\ run.ids[(j + l) - N] \in Nat
    BY <1>4, <1>5, <2>1
  <2>3. run.ids[(j + l) - N] = j
    BY <1>0, <1>2, <1>4, <2>2
  <2> QED
    BY <2>1, <2>3
<1>10. ToSet(run.ids) = i..N
  BY <1>7, <1>8, <1>9
<1>11. Merging(run) <=> i # N
  BY <1>0, <1>2, <1>4, <1>5 DEF Merging, l
<1>12. i..N = {i} <=> i = N
  BY <1>0, <1>2
<1> QED
  BY <1>0, <1>1, <1>2, <1>6, <1>10, <1>11, <1>12 DEF N

\* While the stream lives, the item opened last is in one run, the one tracked
\* if any.
LEMMA LastLeader ==
    ASSUME TypeInv, RunInv, Live, keys # <<>>
    PROVE  \E i \in Leaders :
              /\ i \in DOMAIN keys /\ Len(keys) \in DOMAIN keys
              /\ Len(keys) \in RunOf(i) /\ RunOf(i) = i..Len(keys)
              /\ \A j \in Leaders : Len(keys) \in RunOf(j) => j = i
              /\ run # NoRun => i = run.ids[1]
              /\ run = NoRun => i = Len(keys) /\ keys[i].type \notin Covered
              /\ ~(run # NoRun /\ Merging(run)) => i = Len(keys)
<1>0. keys \in Seq(Keys) /\ Len(keys) \in Nat /\ DOMAIN keys = 1..Len(keys) /\ Len(keys) \in DOMAIN keys
  BY DEF TypeInv
<1>1. CASE run # NoRun
  <2> DEFINE i == run.ids[1]
  <2>1. /\ i \in Leaders /\ i \in DOMAIN keys /\ Len(keys) \in RunOf(i)
        /\ RunOf(i) = i..Len(keys) /\ (~Merging(run) => i = Len(keys))
    BY <1>1, RunShape
  <2> HIDE DEF i
  <2>2. \A j \in Leaders : Len(keys) \in RunOf(j) => j = i
    BY <1>0, <2>1, OneLeader
  <2> QED
    BY <1>0, <1>1, <2>1, <2>2 DEF i
<1>2. CASE run = NoRun
  <2> DEFINE i == Len(keys)
  <2>1. keys[i].type \notin Covered
    BY <1>2 DEF RunInv
  <2>2. i = 1 \/ ~Fragments(keys[i - 1], keys[i])
    BY <2>1 DEF Fragments
  <2>3. i \in Leaders /\ i \in RunOf(i) /\ RunOf(i) \subseteq i..Len(keys)
    BY <1>0, <2>2, OwnRun DEF Leaders
  <2>4. RunOf(i) = i..Len(keys)
    <3>1. i..Len(keys) = {i}
      BY <1>0
    <3> HIDE DEF i
    <3> QED
      BY <2>3, <3>1
  <2>5. \A j \in Leaders : Len(keys) \in RunOf(j) => j = i
    BY <1>0, <2>3, OneLeader
  <2> QED
    BY <1>0, <1>2, <2>1, <2>3, <2>4, <2>5
<1> QED
  BY <1>1, <1>2

\* The items of a run are of one kind.
LEMMA SameKey ==
    ASSUME keys \in Seq(Keys), NEW i \in DOMAIN keys, NEW n, n \in RunOf(i)
    PROVE  keys[n] = keys[i]
<1> DEFINE C == {m \in i..n : keys[m] # keys[i]}
<1>0. i \in Nat /\ n \in Nat /\ i <= n /\ \A m \in i..(n - 1) : keys[m] = keys[m + 1]
  BY DEF RunOf, Fragments
<1>1. ASSUME C # {} PROVE FALSE
  <2>1. PICK m \in C : \A l \in C : m <= l
    <3>1. C \subseteq Nat
      BY <1>0
    <3> HIDE DEF C
    <3> QED
      BY <1>1, <3>1, LeastNatural
  <2>2. m # i /\ m \in i..n
    OBVIOUS
  <2>3. m - 1 \in i..(n - 1) /\ m - 1 \in i..n /\ (m - 1) + 1 = m /\ ~(m <= m - 1)
    BY <1>0, <2>2
  <2>4. m - 1 \notin C
    BY <2>1, <2>3
  <2>5. keys[m - 1] = keys[i] /\ keys[m - 1] = keys[m]
    BY <1>0, <2>3, <2>4
  <2> QED
    BY <2>1, <2>5
<1>2. n \in i..n
  BY <1>0
<1> QED
  BY <1>1, <1>2

\* Once the run is closed there is a record for each run that merged.
LEMMA ClosedRecords ==
    ASSUME TypeInv, RunInv, RecordInv
    PROVE  RecordsOK(Recorded(run), Leaders)
<1> DEFINE S == {i \in Leaders : ~Tracked(i)}
           new == Recorded(run)
<1>0. RecordsOK(merged, S) /\ IsSeq(merged)
  BY DEF RecordInv, RecordsOK
<1>1. ASSUME NEW i \in Leaders, i \notin S, ~(run # NoRun /\ Merging(run)) PROVE RunOf(i) = {i}
  BY <1>1, RunShape DEF Tracked
<1>2. CASE ~(run # NoRun /\ Merging(run))
  <2>1. new = merged
    <3>1. NoRun.ids = <<>> /\ Len(<<>>) = 0
      BY DEF NoRun
    <3> QED
      BY <1>2, <3>1 DEF Recorded, Merging
  <2> QED
    BY <1>0, <1>1, <1>2, <2>1 DEF RecordsOK
<1>3. CASE run # NoRun /\ Merging(run)
  <2> DEFINE i == run.ids[1]
             r == [ids |-> run.ids, item |-> MergedItem(run)]
             n == Len(merged) + 1
  <2>1. new = Append(merged, r) /\ r.ids[1] = i /\ r.ids = run.ids
    BY <1>3 DEF Recorded
  <2>2. i \in Leaders /\ ToSet(run.ids) = RunOf(i) /\ RunOf(i) # {i} /\ keys # <<>>
    BY <1>3, RunShape DEF RunInv
  <2>3. r.item = Item(i, keys[i], Said(out, i))
    <3>1. run.said = Said(out, i) /\ run.key = keys[Len(keys)]
      BY <1>3 DEF RunInv
    <3>2. i \in DOMAIN keys /\ Len(keys) \in RunOf(i)
      BY <1>3, RunShape
    <3>3. keys[i] = keys[Len(keys)]
      BY <3>2, SameKey DEF TypeInv
    <3> QED
      BY <3>1, <3>3 DEF MergedItem
  <2>4. /\ IsSeq(new) /\ DOMAIN new = 1..n /\ new[n] = r /\ DOMAIN merged = 1..(n - 1)
        /\ n \in Nat /\ n >= 1 /\ \A m \in DOMAIN merged : new[m] = merged[m]
    BY <1>0, <2>1, AppendAny
  <2> HIDE DEF n, new, r
  <2>5. ASSUME NEW m \in 1..n
        PROVE  \/ m = n /\ new[m] = r
               \/ m \in DOMAIN merged /\ m # n /\ new[m] = merged[m] /\ new[m].ids[1] # i
    <3>1. CASE m = n
      BY <2>4, <3>1
    <3>2. CASE m # n
      <4>1. m \in DOMAIN merged
        BY <2>4, <3>2
      <4>2. PICK j \in S : merged[m].ids[1] = j
        BY <1>0, <4>1 DEF RecordsOK
      <4>3. j # i
        BY <1>3, <4>2 DEF Tracked
      <4> QED
        BY <2>4, <3>2, <4>1, <4>2, <4>3
    <3> QED
      BY <3>1, <3>2
  <2> HIDE DEF i
  <2>6. ASSUME NEW m \in DOMAIN new
        PROVE  \E j \in Leaders :
                  /\ new[m].ids[1] = j /\ ToSet(new[m].ids) = RunOf(j) /\ RunOf(j) # {j}
                  /\ new[m].item = Item(j, keys[j], Said(out, j))
    <3>1. CASE m = n /\ new[m] = r
      BY <2>1, <2>2, <2>3, <3>1
    <3>2. CASE m \in DOMAIN merged /\ new[m] = merged[m]
      BY <1>0, <3>2 DEF RecordsOK
    <3> QED
      BY <2>4, <2>5, <3>1, <3>2
  <2>7. ASSUME NEW l \in DOMAIN new, NEW m \in DOMAIN new, new[l].ids[1] = new[m].ids[1]
        PROVE  l = m
    <3>1. l \in 1..n /\ m \in 1..n
      BY <2>4
    <3>2. CASE l # n /\ m # n
      BY <1>0, <2>5, <2>7, <3>1, <3>2 DEF RecordsOK
    <3>3. CASE l = n
      BY <2>1, <2>5, <2>7, <3>1, <3>3
    <3>4. CASE m = n
      BY <2>1, <2>5, <2>7, <3>1, <3>4
    <3> QED
      BY <3>2, <3>3, <3>4
  <2>8. ASSUME NEW j \in Leaders, RunOf(j) # {j} PROVE \E m \in DOMAIN new : new[m].ids[1] = j
    <3>1. CASE Tracked(j)
      <4>1. j = i
        BY <3>1 DEF Tracked, i
      <4>2. n \in DOMAIN new
        BY <2>4
      <4> QED
        BY <2>1, <2>4, <4>1, <4>2
    <3>2. CASE ~Tracked(j)
      <4>1. PICK m \in DOMAIN merged : merged[m].ids[1] = j
        BY <1>0, <2>8, <3>2 DEF RecordsOK
      <4>2. m \in DOMAIN new /\ new[m] = merged[m]
        BY <2>4, <4>1
      <4> QED
        BY <4>1, <4>2
    <3> QED
      BY <3>1, <3>2
  <2> QED
    BY <2>4, <2>6, <2>7, <2>8 DEF RecordsOK, new
<1> QED
  BY <1>2, <1>3

-----------------------------------------------------------------------------
\* What every step leaves as it was.

LEMMA Received ==
    ASSUME TypeInv, TextTypes, NEW e, e.data \in Seq(Nat), Speaks(e)
    PROVE  /\ Live /\ (e.type # "completed" => Live') /\ (e.type = "completed" => ~Live')
           /\ IsSeq(received) /\ LogText(received) /\ IsSeq(received') /\ LogText(received')
           /\ \A i : /\ Said(received, i) \in Seq(Nat)
                     /\ Said(received', i) = Said(received, i) \o Utter(e, i)
           /\ e.type # "delta" => \A i : Said(received', i) = Said(received, i)
           /\ \A i : Early(i) => Early(i)'
           /\ \A i : (\E m \in Places(received, "done") : received[m].id = i)
                       => \E m \in Places(received', "done") : received'[m].id = i
           /\ e.type = "done" => \E m \in Places(received', "done") : received'[m].id = e.id
           /\ e.type = "added" =>
                \A i : /\ e.id = i + 1
                       /\ \E m \in Places(received, "done") : received[m].id = i
                       => Early(i)'
<1>0. received' = Append(received, e) /\ Live /\ IsSeq(received) /\ LogText(received)
  BY DEF Speaks, TypeInv, LogOK, TextTypes
<1>1. /\ IsSeq(received') /\ Len(received) \in Nat /\ DOMAIN received = 1..Len(received)
      /\ DOMAIN received' = 1..(Len(received) + 1) /\ received'[Len(received) + 1] = e
      /\ \A n \in DOMAIN received : received'[n] = received[n]
  BY <1>0, AppendAny
<1>2. /\ LogText(received')
      /\ \A i : /\ Said(received, i) \in Seq(Nat)
                /\ Said(received', i) = Said(received, i) \o Utter(e, i)
  BY <1>0, SaidAppend
<1>3. e.type # "delta" => \A i : Said(received', i) = Said(received, i)
  BY <1>0, QuietAppend
<1>4. \A type : \A n \in Places(received, type) :
          n \in Places(received', type) /\ received'[n] = received[n] /\ n \in DOMAIN received
  BY <1>1 DEF Places
<1>5. \A i : Early(i) => Early(i)'
  BY <1>4 DEF Early
<1>6. Len(received) + 1 \in Places(received', e.type)
  BY <1>1 DEF Places
<1>7. ASSUME e.type = "added", NEW i, e.id = i + 1,
             NEW m \in Places(received, "done"), received[m].id = i
      PROVE  Early(i)'
  <2>1. m < Len(received) + 1 /\ m \in Places(received', "done") /\ received'[m].id = i
    BY <1>1, <1>4, <1>7
  <2>2. Len(received) + 1 \in Places(received', "added") /\ received'[Len(received) + 1].id = i + 1
    BY <1>1, <1>6, <1>7
  <2> QED
    BY <2>1, <2>2 DEF Early
<1>8. (e.type # "completed" => Live') /\ (e.type = "completed" => ~Live')
  <2>1. ASSUME e.type = "completed" PROVE ~Live'
    <3>1. Len(received) + 1 \in DOMAIN received'
      BY <1>1
    <3> QED
      BY <1>1, <2>1, <3>1 DEF Live
  <2>2. ASSUME e.type # "completed", NEW n \in DOMAIN received' PROVE received'[n].type # "completed"
    <3>1. CASE n = Len(received) + 1
      BY <1>1, <2>2, <3>1
    <3>2. CASE n # Len(received) + 1
      <4>1. n \in DOMAIN received
        BY <1>1, <3>2
      <4> QED
        BY <1>0, <1>1, <4>1 DEF Live
    <3> QED
      BY <3>1, <3>2
  <2> QED
    BY <2>1, <2>2 DEF Live
<1> QED
  BY <1>0, <1>1, <1>2, <1>3, <1>4, <1>5, <1>6, <1>7, <1>8

LEMMA SameItems ==
    ASSUME keys' = keys PROVE Leaders' = Leaders /\ \A i : RunOf(i)' = RunOf(i)
  BY DEF Leaders, RunOf

LEMMA RecordsKept ==
    ASSUME NEW R, NEW S, RecordsOK(R, S), merged' = R,
           \A i \in S : /\ i \in Leaders' /\ ~Tracked(i)' /\ RunOf(i)' = RunOf(i)
                        /\ Said(out', i) = Said(out, i) /\ keys'[i] = keys[i],
           \A i \in Leaders' : i \in S \/ Tracked(i)' \/ RunOf(i)' = {i}
    PROVE  RecordInv'
<1> DEFINE T == {i \in Leaders' : ~Tracked(i)'}
<1>1. S \subseteq T /\ \A i \in T : i \in S \/ RunOf(i)' = {i}
  OBVIOUS
<1>2. ASSUME NEW n \in DOMAIN R
      PROVE  \E i \in T :
                /\ R[n].ids[1] = i /\ ToSet(R[n].ids) = RunOf(i)' /\ RunOf(i)' # {i}
                /\ R[n].item = Item(i, keys'[i], Said(out', i))
  <2>1. PICK i \in S : /\ R[n].ids[1] = i /\ ToSet(R[n].ids) = RunOf(i) /\ RunOf(i) # {i}
                       /\ R[n].item = Item(i, keys[i], Said(out, i))
    BY DEF RecordsOK
  <2>2. i \in T
    BY <1>1
  <2> HIDE DEF T
  <2> QED
    BY <2>1, <2>2
<1>3. \A i \in T : RunOf(i)' # {i} => \E n \in DOMAIN R : R[n].ids[1] = i
  BY <1>1 DEF RecordsOK
<1>4. IsSeq(R) /\ \A m, n \in DOMAIN R : R[m].ids[1] = R[n].ids[1] => m = n
  BY DEF RecordsOK
<1> HIDE DEF T
<1>5. /\ IsSeq(merged')
      /\ \A n \in DOMAIN merged' : \E i \in T :
            /\ merged'[n].ids[1] = i /\ ToSet(merged'[n].ids) = RunOf(i)' /\ RunOf(i)' # {i}
            /\ merged'[n].item = Item(i, keys'[i], Said(out', i))
      /\ \A m, n \in DOMAIN merged' : merged'[m].ids[1] = merged'[n].ids[1] => m = n
      /\ \A i \in T : RunOf(i)' # {i} => \E n \in DOMAIN merged' : merged'[n].ids[1] = i
  BY <1>2, <1>3, <1>4
<1> QED
  BY <1>5 DEF RecordInv, RecordsOK, T

\* The ends of an item in a stream that has grown.
LEMMA EndsMore ==
    ASSUME \A n \in DOMAIN out : out'[n] = out[n],
           NEW P, Places(out', "done") = Places(out, "done") \cup P, NEW i
    PROVE  /\ Ends(i)' = Ends(i) \cup {n \in P : out'[n].id = i}
           /\ \A n \in Ends(i) : n \in DOMAIN out /\ out'[n] = out[n]
<1>1. \A n \in Places(out, "done") : n \in DOMAIN out /\ out'[n] = out[n]
  BY DEF Places
<1>2. Ends(i)' = {n \in Places(out', "done") : out'[n].id = i}
  BY DEF Ends
<1> QED
  BY <1>1, <1>2 DEF Ends

LEMMA EndKept ==
    ASSUME NEW i, EndOK(i), Ends(i)' = Ends(i), \A n \in Ends(i) : out'[n] = out[n],
           Ends(i) = {} \/ (Tracked(i) /\ Merging(run)) \/ Said(out', i) = Said(out, i),
           i \in closed' => i \in closed,
           Tracked(i) \/ RunOf(i)' = RunOf(i), Tracked(i)' <=> Tracked(i),
           Tracked(i) => (Merging(run') <=> Merging(run)),
           Early(i) => Early(i)'
    PROVE  EndOK(i)'
  BY DEF EndOK

-----------------------------------------------------------------------------
\* Steps that add no item and no text.

\* The run stays, but for what it passed on of its parts.
SameRun ==
    /\ run'.ids = run.ids /\ run'.key = run.key /\ run'.said = run.said
    /\ run' = NoRun <=> run = NoRun

LEMMA TrackedKept ==
    ASSUME SameRun PROVE (Merging(run') <=> Merging(run)) /\ \A i : Tracked(i)' <=> Tracked(i)
  BY DEF SameRun, Merging, Tracked

LEMMA QuietRest ==
    ASSUME TypeInv, WholeInv, NEW e, e.data \in Seq(Nat), Speaks(e),
           e.type \in {"part", "partdone", "done", "untracked"},
           keys' = keys, merged' = merged, SameRun, out' = out \/ out' = Append(out, e)
    PROVE  /\ TextTypes' /\ RunInv' /\ TextInv' /\ RecordInv' /\ AddedInv' /\ ListInv'
           /\ \A n \in DOMAIN out : out'[n] = out[n]
           /\ \A i : Said(out', i) = Said(out, i)
           /\ out' = out \/ e.type # "done" => Places(out', "done") = Places(out, "done") \cup {}
           /\ out' = Append(out, e) /\ e.type = "done" =>
                /\ Places(out', "done") = Places(out, "done") \cup {Len(out) + 1}
                /\ Len(out) + 1 \notin Places(out, "done") /\ out'[Len(out) + 1] = e
<1>0. IsSeq(out) /\ LogText(out) /\ TextTypes
  BY DEF TypeInv, LogOK, WholeInv, TextTypes
<1>1. /\ Live /\ Live' /\ LogText(received')
      /\ \A i : Said(received', i) = Said(received, i)
  BY <1>0, Received
<1>2. /\ LogText(out') /\ \A n \in DOMAIN out : out'[n] = out[n]
      /\ \A i : Said(out', i) = Said(out, i)
      /\ Places(out', "added") = Places(out, "added")
      /\ Places(out, "added") \subseteq DOMAIN out
  <2>1. CASE out' = out
    BY <1>0, <2>1 DEF Places
  <2>2. CASE out' = Append(out, e)
    <3>1. e.type # "delta" /\ e.type # "added"
      OBVIOUS
    <3>2. LogText(out') /\ \A i : Said(out', i) = Said(out, i)
      BY <1>0, <2>2, <3>1, QuietAppend
    <3>3. \A n \in DOMAIN out : out'[n] = out[n]
      BY <1>0, <2>2, AppendAny
    <3>4. Places(out', "added") = Places(out, "added") \cup {}
      BY <1>0, <2>2, <3>1, PlacesAppend, ZenonT(40)
    <3> QED
      BY <3>2, <3>3, <3>4 DEF Places
  <2> QED
    BY <2>1, <2>2
<1>3. out' = out \/ e.type # "done" => Places(out', "done") = Places(out, "done") \cup {}
  <2>1. Places(Append(out, e), "done") =
          Places(out, "done") \cup (IF e.type = "done" THEN {Len(out) + 1} ELSE {})
    BY <1>0, PlacesAppend
  <2> QED
    BY <2>1
<1>4. out' = Append(out, e) /\ e.type = "done" =>
        /\ Places(out', "done") = Places(out, "done") \cup {Len(out) + 1}
        /\ Len(out) + 1 \notin Places(out, "done") /\ out'[Len(out) + 1] = e
  <2>1. /\ Len(out) \in Nat /\ Places(out, "done") \subseteq 1..Len(out)
        /\ Places(Append(out, e), "done") =
             Places(out, "done") \cup (IF e.type = "done" THEN {Len(out) + 1} ELSE {})
    BY <1>0, PlacesAppend
  <2>2. Append(out, e)[Len(out) + 1] = e
    BY <1>0, AppendAny
  <2> QED
    BY <2>1, <2>2
<1>5. Leaders' = Leaders /\ \A i : RunOf(i)' = RunOf(i)
  BY SameItems
<1>6. \A i : Tracked(i)' <=> Tracked(i)
  BY TrackedKept
<1>7. TextTypes'
  BY <1>0, <1>1, <1>2 DEF TextTypes, SameRun
<1>8. RunInv'
  <2>1. RunInv
    BY DEF WholeInv
  <2>2. ASSUME run' # NoRun
        PROVE  \E i \in Leaders' : /\ run'.ids[1] = i /\ Len(keys') \in RunOf(i)'
                                   /\ run'.said = Said(out', i)
    <3>1. PICK i \in Leaders : run.ids[1] = i /\ Len(keys) \in RunOf(i) /\ run.said = Said(out, i)
      BY <2>1, <2>2 DEF RunInv, SameRun
    <3> QED
      BY <1>2, <1>5, <3>1 DEF SameRun
  <2> QED
    BY <1>1, <2>1, <2>2 DEF RunInv, SameRun
<1>9. TextInv'
  <2>1. \A i : WholeText(i)' = WholeText(i)
    BY <1>1, SameText
  <2> QED
    BY <1>2, <1>5, <2>1 DEF TextInv, WholeInv
<1>10. RecordInv'
  <2> DEFINE S == {i \in Leaders : ~Tracked(i)}
  <2>1. RecordsOK(merged, S)
    BY DEF RecordInv, WholeInv
  <2>2. \A i \in S : /\ i \in Leaders' /\ ~Tracked(i)' /\ RunOf(i)' = RunOf(i)
                     /\ Said(out', i) = Said(out, i) /\ keys'[i] = keys[i]
    BY <1>2, <1>5, <1>6
  <2>3. \A i \in Leaders' : i \in S \/ Tracked(i)' \/ RunOf(i)' = {i}
    BY <1>5, <1>6
  <2> HIDE DEF S
  <2> QED
    BY <2>1, <2>2, <2>3, RecordsKept
<1>11. AddedInv'
  BY <1>2, <1>5 DEF AddedInv, WholeInv
<1>12. ListInv'
  BY <1>1 DEF ListInv
<1> QED
  BY <1>2, <1>3, <1>4, <1>7, <1>8, <1>9, <1>10, <1>11, <1>12

LEMMA QuietStep ==
    ASSUME TypeInv, WholeInv, NEW e, e.data \in Seq(Nat), Speaks(e),
           e.type \in {"part", "partdone", "done", "untracked"},
           keys' = keys, merged' = merged, SameRun, out' = out \/ out' = Append(out, e),
           out' = out \/ e.type # "done",
           closed' = closed \/ (closed' = closed \cup {e.id} /\ e.type = "done" /\ e.id \notin Leaders)
    PROVE  WholeInv'
<1>1. /\ TextTypes' /\ RunInv' /\ TextInv' /\ RecordInv' /\ AddedInv' /\ ListInv'
      /\ \A n \in DOMAIN out : out'[n] = out[n]
      /\ \A i : Said(out', i) = Said(out, i)
      /\ Places(out', "done") = Places(out, "done") \cup {}
  BY QuietRest
<1>2. \A i : Ends(i)' = Ends(i) /\ \A n \in Ends(i) : out'[n] = out[n]
  <2> DEFINE P == {}
  <2>1. Places(out', "done") = Places(out, "done") \cup P /\ \A n : n \notin P
    BY <1>1
  <2> HIDE DEF P
  <2>2. \A i : /\ Ends(i)' = Ends(i) \cup {n \in P : out'[n].id = i}
               /\ \A n \in Ends(i) : out'[n] = out[n]
    BY <1>1, <2>1, EndsMore
  <2> QED
    BY <2>1, <2>2
<1>3. Leaders' = Leaders /\ \A i : RunOf(i)' = RunOf(i)
  BY SameItems
<1>4. /\ \A i : Early(i) => Early(i)'
      /\ \A i : (\E m \in Places(received, "done") : received[m].id = i)
                  => \E m \in Places(received', "done") : received'[m].id = i
      /\ e.type = "done" => \E m \in Places(received', "done") : received'[m].id = e.id
  BY Received DEF WholeInv
<1>5. EndInv
  BY DEF WholeInv
<1>6. ASSUME NEW i \in Leaders PROVE EndOK(i)'
  <2>1. EndOK(i)
    BY <1>5 DEF EndInv
  <2>2. i \in closed' => i \in closed
    OBVIOUS
  <2>3. (Tracked(i)' <=> Tracked(i)) /\ (Merging(run') <=> Merging(run))
    BY TrackedKept
  <2> QED
    BY <1>1, <1>2, <1>3, <1>4, <2>1, <2>2, <2>3, EndKept
<1>7. \A i \in DOMAIN keys' : i = Len(keys') /\ Ends(i)' # {} => i \in closed'
  BY <1>2, <1>5 DEF EndInv
<1>8. \A i \in closed' : \E m \in Places(received', "done") : received'[m].id = i
  BY <1>4, <1>5, SMTT(30) DEF EndInv
<1>9. EndInv'
  BY <1>3, <1>6, <1>7, <1>8 DEF EndInv
<1> QED
  BY <1>1, <1>9 DEF WholeInv

LEMMA WholePart ==
    ASSUME Enabled = TRUE, TypeInv, WholeInv, NEW i, PushPart(i) PROVE WholeInv'
<1> DEFINE e == Event("part", i, keys[i], <<>>, <<>>)
<1>1. /\ Speaks(e) /\ OnPart(e) /\ keys' = keys /\ closed' = closed
      /\ e.type = "part" /\ e.data \in Seq(Nat)
  BY DEF PushPart, Event, Handle
<1> HIDE DEF e
<1>2. /\ merged' = merged /\ (out' = out \/ out' = Append(out, e))
      /\ run' = run \/ (run' = [run EXCEPT !.part = TRUE] /\ Owned(e))
  BY <1>1 DEF OnPart, PassOn
<1>3. SameRun
  <2>1. Owned(e) => run.ids # <<>> /\ run # NoRun
    BY DEF Owned, NoRun, ToSet
  <2>2. run'.ids = run.ids /\ run'.key = run.key /\ run'.said = run.said
    BY <1>2 DEF TypeInv, RunOK
  <2>3. run' = NoRun <=> run = NoRun
    BY <1>2, <2>1, <2>2 DEF NoRun
  <2> QED
    BY <2>2, <2>3 DEF SameRun
<1> QED
  BY <1>1, <1>2, <1>3, QuietStep

LEMMA WholePartDone ==
    ASSUME Enabled = TRUE, TypeInv, WholeInv, NEW i, PushPartDone(i) PROVE WholeInv'
<1> DEFINE e == Event("partdone", i, keys[i], Said(received, i), <<>>)
<1>0. \A j : Said(received, j) \in Seq(Nat)
  <2>1. Event("done", i, NoCall, <<>>, <<>>).data \in Seq(Nat)
    BY DEF Event
  <2>2. IsSeq(received) /\ LogText(received)
    BY DEF TypeInv, LogOK, WholeInv, TextTypes
  <2> QED
    BY <2>1, <2>2, SaidAppend
<1>1. /\ Speaks(e) /\ OnDone(e) /\ keys' = keys /\ closed' = closed
      /\ e.type = "partdone" /\ e.data \in Seq(Nat)
  BY <1>0 DEF PushPartDone, Event, Handle
<1> HIDE DEF e
<1>2. merged' = merged /\ (out' = out \/ out' = Append(out, e)) /\ SameRun
  BY <1>1 DEF OnDone, PassOn, SameRun
<1> QED
  BY <1>1, <1>2, QuietStep

LEMMA WholeUntracked ==
    ASSUME Enabled = TRUE, TypeInv, WholeInv, NEW i, PushUntracked(i) PROVE WholeInv'
<1> DEFINE e == Event("untracked", i, keys[i], Said(received, i), <<>>)
<1>0. Said(received, i) \in Seq(Nat)
  <2>1. Event("done", i, NoCall, <<>>, <<>>).data \in Seq(Nat)
    BY DEF Event
  <2>2. IsSeq(received) /\ LogText(received)
    BY DEF TypeInv, LogOK, WholeInv, TextTypes
  <2> QED
    BY <2>1, <2>2, SaidAppend
<1>1. /\ Speaks(e) /\ OnUntracked(e) /\ keys' = keys /\ closed' = closed
      /\ e.type = "untracked" /\ e.data \in Seq(Nat)
  BY <1>0 DEF PushUntracked, Event, Handle
<1> HIDE DEF e
<1>2. merged' = merged /\ out' = Append(out, e) /\ SameRun
  BY <1>1 DEF OnUntracked, PassOn, SameRun
<1> QED
  BY <1>1, <1>2, QuietStep

\* The upstream closes the item opened last.
LEMMA WholeDone ==
    ASSUME Enabled = TRUE, Overlap = FALSE, TypeInv, WholeInv, NEW i \in Open, PushDone(i)
    PROVE  WholeInv'
<1> DEFINE e == Event("done", i, keys[i], Said(received, i), <<>>)
<1>0. \A j : Said(received, j) \in Seq(Nat)
  <2>1. Event("done", i, NoCall, <<>>, <<>>).data \in Seq(Nat)
    BY DEF Event
  <2>2. IsSeq(received) /\ LogText(received)
    BY DEF TypeInv, LogOK, WholeInv, TextTypes
  <2> QED
    BY <2>1, <2>2, SaidAppend
<1>1. /\ Speaks(e) /\ OnDone(e) /\ keys' = keys /\ closed' = closed \cup {i}
      /\ e.type = "done" /\ e.data \in Seq(Nat) /\ e.id = i /\ e.data = Said(received, i)
  BY <1>0 DEF PushDone, Event, Handle
<1> HIDE DEF e
<1>2. merged' = merged /\ (out' = out \/ out' = Append(out, e)) /\ SameRun
  BY <1>1 DEF OnDone, PassOn, SameRun
<1>3. Live /\ i = Len(keys) /\ keys # <<>> /\ i \notin closed /\ RunInv /\ EndInv
  BY <1>1 DEF Speaks, Open, TypeInv, WholeInv
<1>4. PICK l \in Leaders :
          /\ l \in DOMAIN keys /\ i \in DOMAIN keys /\ i \in RunOf(l) /\ RunOf(l) = l..i
          /\ \A j \in Leaders : i \in RunOf(j) => j = l
          /\ run # NoRun => l = run.ids[1]
          /\ ~(run # NoRun /\ Merging(run)) => l = i
  BY <1>3, LastLeader
<1>5. CASE run # NoRun /\ Merging(run)
  <2>1. Owned(e) /\ l # i
    BY <1>1, <1>3, <1>4, <1>5, RunShape DEF Owned
  <2>2. out' = out
    BY <1>1, <1>5, <2>1 DEF OnDone
  <2>3. i \notin Leaders
    <3>1. i \in RunOf(i)
      BY <1>4, OwnRun DEF TypeInv
    <3> QED
      BY <1>4, <2>1, <3>1
  <2> QED
    BY <1>1, <1>2, <2>2, <2>3, QuietStep
<1>6. CASE ~(run # NoRun /\ Merging(run))
  <2>0. ~Merging(run)
    <3>1. NoRun.ids = <<>> /\ Len(<<>>) = 0
      BY DEF NoRun
    <3> QED
      BY <1>6, <3>1 DEF Merging
  <2>1. out' = Append(out, e)
    BY <1>1, <2>0 DEF OnDone, PassOn
  <2>2. /\ TextTypes' /\ RunInv' /\ TextInv' /\ RecordInv' /\ AddedInv' /\ ListInv'
        /\ \A n \in DOMAIN out : out'[n] = out[n]
        /\ \A j : Said(out', j) = Said(out, j)
        /\ Places(out', "done") = Places(out, "done") \cup {Len(out) + 1}
        /\ out'[Len(out) + 1] = e
    BY <1>1, <1>2, <2>1, QuietRest
  <2>3. \A j : /\ Ends(j)' = Ends(j) \cup {n \in {Len(out) + 1} : out'[n].id = j}
               /\ \A n \in Ends(j) : out'[n] = out[n]
    BY <2>2, EndsMore, ZenonT(40)
  <2>4. Leaders' = Leaders /\ \A j : RunOf(j)' = RunOf(j)
    BY <1>1, SameItems
  <2>5. /\ \A j : Early(j) => Early(j)'
        /\ \A j : (\E m \in Places(received, "done") : received[m].id = j)
                    => \E m \in Places(received', "done") : received'[m].id = j
        /\ \E m \in Places(received', "done") : received'[m].id = e.id
    BY <1>1, Received DEF WholeInv
  <2>6. \A j : (Tracked(j)' <=> Tracked(j)) /\ (Merging(run') <=> Merging(run))
    BY <1>2, TrackedKept
  <2>7. ASSUME NEW j \in Leaders, j # i PROVE EndOK(j)'
    <3>1. EndOK(j) /\ (j \in closed' => j \in closed)
      BY <1>1, <1>3, <2>7 DEF EndInv
    <3>2. Ends(j)' = Ends(j)
      BY <1>1, <2>2, <2>3, <2>7
    <3> QED
      BY <2>2, <2>3, <2>4, <2>5, <2>6, <3>1, <3>2, EndKept
  <2>8. EndOK(i)'
    <3>1. Ends(i) = {}
      BY <1>3, <1>4 DEF EndInv
    <3>2. Ends(i)' = {Len(out) + 1}
      BY <1>1, <2>2, <2>3, <3>1
    <3>3. RunOf(i) = {i} /\ i \in Leaders
      BY <1>4, <1>6 DEF TypeInv
    <3>4. Said(out, i) = Said(received, i)
      <4>1. WholeText(i) = Said(received, i)
        BY <1>4, <3>3, TextOfOne DEF TypeInv, LogOK, WholeInv, TextTypes
      <4> QED
        BY <3>3, <4>1 DEF TextInv, WholeInv
    <3>5. out'[Len(out) + 1].data = Said(out', i)
      BY <1>1, <2>2, <3>4
    <3> QED
      BY <2>0, <2>6, <3>2, <3>5 DEF EndOK
  <2>9. \A j \in closed' : \E m \in Places(received', "done") : received'[m].id = j
    BY <1>1, <1>3, <2>5 DEF EndInv
  <2>10. \A j \in DOMAIN keys' : j = Len(keys') /\ Ends(j)' # {} => j \in closed'
    BY <1>1, <1>3
  <2>11. EndInv'
    BY <2>4, <2>7, <2>8, <2>9, <2>10 DEF EndInv
  <2> QED
    BY <2>2, <2>11 DEF WholeInv
<1> QED
  BY <1>5, <1>6

-----------------------------------------------------------------------------
\* The item opened last speaks: the client reads it under the leader of its
\* run.

DeltaPasses(i, d, l, e, f) ==
    /\ l \in Leaders /\ l \in DOMAIN keys /\ i \in RunOf(l)
    /\ \A j \in Leaders : i \in RunOf(j) => j = l
    /\ run # NoRun => l = run.ids[1] /\ run'.said = run.said \o d
    /\ run = NoRun => run' = NoRun /\ RunOf(l) = {l}
    /\ ~(run # NoRun /\ Merging(run)) => l = i
    /\ run' = NoRun <=> run = NoRun
    /\ run'.ids = run.ids /\ run'.key = run.key
    /\ Speaks(e) /\ e.type = "delta" /\ e.id = i /\ e.data = d
    /\ out' = Append(out, f) /\ f.type = "delta" /\ f.id = l /\ f.data = d

LEMMA DeltaEffect ==
    ASSUME Enabled = TRUE, Overlap = FALSE, TypeInv, WholeInv, NEW i \in Open, PushDelta(i),
           NEW d, d = <<Len(received) + 1>>
    PROVE  \E l, e, f : DeltaPasses(i, d, l, e, f)
<1> DEFINE e == Event("delta", i, keys[i], d, <<>>)
           g == [e EXCEPT !.id = run.ids[1]]
<1>1. /\ Speaks(e) /\ OnDelta(e) /\ e.type = "delta" /\ e.id = i /\ e.data = d
      /\ e.key = keys[i]
      /\ g.type = "delta" /\ g.id = run.ids[1] /\ g.data = d
  BY DEF PushDelta, Event, Handle
<1> HIDE DEF e, g
<1>2. Live /\ i = Len(keys) /\ keys # <<>> /\ RunInv
  BY <1>1 DEF Speaks, Open, TypeInv, WholeInv
<1>3. PICK l \in Leaders :
          /\ l \in DOMAIN keys /\ i \in RunOf(l) /\ RunOf(l) = l..i
          /\ \A j \in Leaders : i \in RunOf(j) => j = l
          /\ run # NoRun => l = run.ids[1]
          /\ run = NoRun => l = i
          /\ ~(run # NoRun /\ Merging(run)) => l = i
  BY <1>2, LastLeader
<1>4. CASE run # NoRun
  <2>1. run.key = keys[i]
    BY <1>2, <1>4 DEF RunInv
  <2>2. /\ run' = [run EXCEPT !.said = @ \o d]
        /\ out' = Append(out, IF Merging(run) THEN g ELSE e)
    BY <1>1, <1>4, <2>1 DEF OnDelta, PassOn, g
  <2>3. run'.said = run.said \o d /\ run'.ids = run.ids /\ run'.key = run.key
    BY <2>2 DEF TypeInv, RunOK
  <2>4. run' # NoRun
    BY <1>4, <2>3 DEF TypeInv, RunOK, NoRun
  <2>5. CASE Merging(run)
    <3>1. DeltaPasses(i, d, l, e, g)
      BY <1>1, <1>3, <1>4, <2>2, <2>3, <2>4, <2>5 DEF DeltaPasses
    <3> QED
      BY <3>1
  <2>6. CASE ~Merging(run)
    <3>1. DeltaPasses(i, d, l, e, e)
      BY <1>1, <1>3, <1>4, <2>2, <2>3, <2>4, <2>6 DEF DeltaPasses
    <3> QED
      BY <3>1
  <2> QED
    BY <2>5, <2>6
<1>5. CASE run = NoRun
  <2>1. run' = run /\ out' = Append(out, e)
    BY <1>1, <1>5 DEF OnDelta, PassOn
  <2>2. l = i /\ RunOf(l) = {l}
    BY <1>2, <1>3, <1>5 DEF TypeInv
  <2>3. DeltaPasses(i, d, l, e, e)
    BY <1>1, <1>3, <1>5, <2>1, <2>2 DEF DeltaPasses
  <2> QED
    BY <2>3
<1> QED
  BY <1>4, <1>5

LEMMA WholeDelta ==
    ASSUME Enabled = TRUE, Overlap = FALSE, TypeInv, WholeInv, NEW i \in Open, PushDelta(i)
    PROVE  WholeInv'
<1> DEFINE d == <<Len(received) + 1>>
<1>0. d \in Seq(Nat)
  BY DEF TypeInv, LogOK, IsSeq
<1>d. d = <<Len(received) + 1>>
  OBVIOUS
<1> HIDE DEF d
<1>a. PICK l, e, f : DeltaPasses(i, d, l, e, f)
  BY <1>d, DeltaEffect
<1>1. /\ l \in Leaders /\ l \in DOMAIN keys /\ i \in RunOf(l)
      /\ \A j \in Leaders : i \in RunOf(j) => j = l
      /\ run # NoRun => l = run.ids[1] /\ run'.said = run.said \o d
      /\ run = NoRun => run' = NoRun /\ RunOf(l) = {l}
      /\ ~(run # NoRun /\ Merging(run)) => l = i
      /\ run' = NoRun <=> run = NoRun
      /\ run'.ids = run.ids /\ run'.key = run.key
      /\ Speaks(e) /\ e.type = "delta" /\ e.id = i /\ e.data = d
      /\ out' = Append(out, f) /\ f.type = "delta" /\ f.id = l /\ f.data = d
  BY <1>a DEF DeltaPasses
<1>2. /\ keys' = keys /\ closed' = closed /\ merged' = merged
      /\ i = Len(keys) /\ keys # <<>> /\ i \notin closed /\ keys \in Seq(Keys)
      /\ IsSeq(out) /\ LogText(out) /\ TextTypes /\ RunInv /\ EndInv
  BY DEF PushDelta, Handle, OnDelta, Open, TypeInv, LogOK, WholeInv, TextTypes
<1>3. /\ Live /\ Live' /\ IsSeq(received) /\ LogText(received)
      /\ IsSeq(received') /\ LogText(received')
      /\ \A j : /\ Said(received, j) \in Seq(Nat)
                /\ Said(received', j) = Said(received, j) \o Utter(e, j)
      /\ \A j : Early(j) => Early(j)'
      /\ \A j : (\E m \in Places(received, "done") : received[m].id = j)
                  => \E m \in Places(received', "done") : received'[m].id = j
  BY <1>0, <1>1, <1>2, Received
<1>4. /\ LogText(out')
      /\ \A j : Said(out, j) \in Seq(Nat) /\ Said(out', j) = Said(out, j) \o Utter(f, j)
  BY <1>0, <1>1, <1>2, SaidAppend, SMTT(30)
<1>5. /\ Said(out', l) = Said(out, l) \o d
      /\ \A j : j # l => Said(out', j) = Said(out, j)
  <2>1. Utter(f, l) = d /\ \A j : j # l => Utter(f, j) = <<>>
    BY <1>1 DEF Utter
  <2>2. \A s \in Seq(Nat) : s \o <<>> = s
    OBVIOUS
  <2> QED
    BY <1>4, <2>1, <2>2
<1>6. /\ Said(received', i) = Said(received, i) \o d
      /\ \A j : j # i => Said(received', j) = Said(received, j)
  <2>1. Utter(e, i) = d /\ \A j : j # i => Utter(e, j) = <<>>
    BY <1>1 DEF Utter
  <2>2. \A s \in Seq(Nat) : s \o <<>> = s
    OBVIOUS
  <2> QED
    BY <1>3, <2>1, <2>2
<1>7. /\ \A n \in DOMAIN out : out'[n] = out[n]
      /\ Places(out', "added") = Places(out, "added") /\ Places(out, "added") \subseteq DOMAIN out
      /\ Places(out', "done") = Places(out, "done") \cup {}
  <2>1. \A n \in DOMAIN out : out'[n] = out[n]
    BY <1>1, <1>2, AppendAny
  <2>2. \A type : Places(out', type) =
           Places(out, type) \cup (IF f.type = type THEN {Len(out) + 1} ELSE {})
    BY <1>1, <1>2, PlacesAppend
  <2>3. Places(out', "added") = Places(out, "added") /\ Places(out', "done") = Places(out, "done")
    BY <1>1, <2>2, ZenonT(40)
  <2> QED
    BY <2>1, <2>3 DEF Places
<1>8. Leaders' = Leaders /\ \A j : RunOf(j)' = RunOf(j)
  BY <1>2, SameItems
<1>9. (Merging(run') <=> Merging(run)) /\ \A j : Tracked(j)' <=> Tracked(j)
  BY <1>1 DEF Merging, Tracked
<1>10. TextTypes'
  <2>1. \A s \in Seq(Nat) : s \o d \in Seq(Nat)
    BY <1>0
  <2>2. NoRun.said \in Seq(Nat)
    BY DEF NoRun
  <2>3. run'.said \in Seq(Nat)
    BY <1>1, <1>2, <2>1, <2>2 DEF TextTypes
  <2> QED
    BY <1>3, <1>4, <2>3 DEF TextTypes
<1>11. RunInv'
  <2>1. ASSUME run' # NoRun
        PROVE  \E j \in Leaders' : /\ run'.ids[1] = j /\ Len(keys') \in RunOf(j)'
                                   /\ run'.said = Said(out', j)
    <3>1. l \in Leaders' /\ run'.ids[1] = l /\ Len(keys') \in RunOf(l)'
      BY <1>1, <1>2, <1>8, <2>1
    <3>2. run.said = Said(out, l) /\ run'.said = run.said \o d
      BY <1>1, <1>2, <2>1 DEF RunInv
    <3> QED
      BY <1>5, <3>1, <3>2
  <2> QED
    BY <1>1, <1>2, <1>3, <2>1 DEF RunInv
<1>12. TextInv'
  <2>1. WholeText(l)' = WholeText(l) \o d
    <3>1. Len(keys) \in RunOf(l) /\ Said(received', Len(keys)) = Said(received, Len(keys)) \o d
      BY <1>1, <1>2, <1>6
    <3>2. \A n \in 1..(Len(keys) - 1) : Said(received', n) = Said(received, n)
      BY <1>2, <1>6
    <3> QED
      BY <1>0, <1>2, <1>3, <3>1, <3>2, TextOfDelta
  <2>2. ASSUME NEW j \in Leaders, j # l PROVE WholeText(j)' = WholeText(j)
    <3>1. i \notin RunOf(j)
      BY <1>1, <2>2
    <3> QED
      BY <1>2, <1>6, <3>1, SameText
  <2>3. ASSUME NEW j \in Leaders PROVE Said(out', j) = WholeText(j)'
    <3>1. Said(out, j) = WholeText(j)
      BY DEF TextInv, WholeInv
    <3> QED
      BY <1>5, <2>1, <2>2, <3>1
  <2> QED
    BY <1>8, <2>3 DEF TextInv
<1>13. RecordInv'
  <2> DEFINE S == {j \in Leaders : ~Tracked(j)} \ {l}
  <2>0. l \in {j \in Leaders : ~Tracked(j)} => RunOf(l) = {l}
    BY <1>1 DEF Tracked
  <2>1. RecordsOK(merged, S)
    <3>1. RecordsOK(merged, {j \in Leaders : ~Tracked(j)})
      BY DEF RecordInv, WholeInv
    <3> QED
      BY <2>0, <3>1 DEF RecordsOK
  <2>2. \A j \in S : /\ j \in Leaders' /\ ~Tracked(j)' /\ RunOf(j)' = RunOf(j)
                     /\ Said(out', j) = Said(out, j) /\ keys'[j] = keys[j]
    BY <1>2, <1>5, <1>8, <1>9
  <2>3. \A j \in Leaders' : j \in S \/ Tracked(j)' \/ RunOf(j)' = {j}
    BY <1>8, <1>9, <2>0
  <2> HIDE DEF S
  <2> QED
    BY <1>2, <2>1, <2>2, <2>3, RecordsKept
<1>14. AddedInv'
  BY <1>2, <1>7, <1>8 DEF AddedInv, WholeInv
<1>15. EndInv'
  <2>1. \A j : Ends(j)' = Ends(j) /\ \A n \in Ends(j) : out'[n] = out[n]
    <3> DEFINE P == {}
    <3>1. Places(out', "done") = Places(out, "done") \cup P /\ \A n : n \notin P
      BY <1>7
    <3> HIDE DEF P
    <3>2. \A j : /\ Ends(j)' = Ends(j) \cup {n \in P : out'[n].id = j}
                 /\ \A n \in Ends(j) : out'[n] = out[n]
      BY <1>7, <3>1, EndsMore
    <3> QED
      BY <3>1, <3>2
  <2>2. ASSUME NEW j \in Leaders PROVE EndOK(j)'
    <3>1. EndOK(j)
      BY <1>2 DEF EndInv
    <3>2. Ends(j) = {} \/ (Tracked(j) /\ Merging(run)) \/ Said(out', j) = Said(out, j)
      <4>1. CASE j # l
        BY <1>5, <4>1
      <4>2. CASE j = l /\ run # NoRun /\ Merging(run)
        BY <1>1, <4>2 DEF Tracked
      <4>3. CASE j = l /\ ~(run # NoRun /\ Merging(run))
        BY <1>1, <1>2, <4>3 DEF EndInv
      <4> QED
        BY <4>1, <4>2, <4>3
    <3> QED
      BY <1>2, <1>3, <1>8, <1>9, <2>1, <3>1, <3>2, EndKept
  <2> QED
    BY <1>2, <1>3, <1>8, <2>1, <2>2 DEF EndInv
<1>16. ListInv'
  BY <1>3 DEF ListInv
<1> QED
  BY <1>10, <1>11, <1>12, <1>13, <1>14, <1>15, <1>16 DEF WholeInv

-----------------------------------------------------------------------------
\* Steps that close the run.

LEMMA ClosingEnds ==
    ASSUME TypeInv, WholeInv, NEW e, Closes(out', e), closed' = closed,
           \A i \in Leaders : ~Tracked(i)' /\ RunOf(i)' = RunOf(i),
           \A i : Early(i) => Early(i)'
    PROVE  \A i \in Leaders : EndOK(i)'
<1> SUFFICES ASSUME NEW i \in Leaders PROVE EndOK(i)'
  OBVIOUS
<1>1. EndOK(i) /\ RunInv /\ ~Tracked(i)' /\ RunOf(i)' = RunOf(i) /\ (Early(i) => Early(i)')
  BY DEF WholeInv, EndInv
<1>2. /\ Len(out) \in Nat /\ DOMAIN out = 1..Len(out)
      /\ \A n \in DOMAIN out : out'[n] = out[n]
      /\ Said(out', i) = Said(out, i)
  BY DEF Closes, Grown
<1>3. Merging(run) => run # NoRun
  <2>1. NoRun.ids = <<>> /\ Len(<<>>) = 0
    BY DEF NoRun
  <2> QED
    BY <2>1 DEF Merging
<1>4. CASE Merging(run) /\ Tracked(i)
  <2>1. PICK p : /\ p \in Nat /\ p > Len(out) /\ Places(out', "done") = Places(out, "done") \cup {p}
                 /\ out'[p].id = run.ids[1] /\ out'[p].data = run.said
    BY <1>4 DEF Closes
  <2>2. /\ Ends(i)' = Ends(i) \cup {n \in {p} : out'[n].id = i}
        /\ \A n \in Ends(i) : n \in DOMAIN out
    BY <1>2, <2>1, EndsMore, ZenonT(40)
  <2>3. Ends(i)' = Ends(i) \cup {p} /\ \A n \in Ends(i) : ~(p <= n) /\ n # p
    <3>1. out'[p].id = i
      BY <1>4, <2>1 DEF Tracked
    <3>2. \A n \in Ends(i) : n \in 1..Len(out)
      BY <1>2, <2>2
    <3>3. \A n \in 1..Len(out) : ~(p <= n) /\ n # p
      BY <1>2, <2>1
    <3> QED
      BY <2>2, <3>1, <3>2, <3>3
  <2>4. run.said = Said(out', i)
    BY <1>1, <1>2, <1>3, <1>4 DEF RunInv, Tracked
  <2>5. ASSUME NEW n \in Ends(i)', \A m \in Ends(i)' : m <= n PROVE out'[n].data = Said(out', i)
    BY <2>1, <2>3, <2>4, <2>5
  <2>6. ASSUME NEW m \in Ends(i)', NEW n \in Ends(i)', m # n PROVE Early(i)'
    <3>1. Ends(i) # {}
      BY <2>3, <2>6
    <3> QED
      BY <1>1, <1>4, <3>1 DEF EndOK
  <2> QED
    BY <1>1, <2>3, <2>5, <2>6 DEF EndOK
<1>5. CASE ~(Merging(run) /\ Tracked(i))
  <2>1. Ends(i)' = Ends(i) /\ \A n \in Ends(i) : out'[n] = out[n]
    <3>1. PICK P : Places(out', "done") = Places(out, "done") \cup P /\ \A n \in P : out'[n].id # i
      <4>1. CASE Merging(run)
        <5>1. PICK p : /\ Places(out', "done") = Places(out, "done") \cup {p}
                       /\ out'[p].id = run.ids[1]
          BY <4>1 DEF Closes
        <5>2. out'[p].id # i
          BY <1>3, <1>5, <4>1, <5>1 DEF Tracked
        <5> DEFINE P == {p}
        <5>3. Places(out', "done") = Places(out, "done") \cup P /\ \A n \in P : out'[n].id # i
          BY <5>1, <5>2
        <5> HIDE DEF P
        <5> QED
          BY <5>3
      <4>2. CASE ~Merging(run)
        <5> DEFINE P == {}
        <5>1. Places(out', "done") = Places(out, "done") \cup P /\ \A n \in P : out'[n].id # i
          BY <4>2 DEF Closes
        <5> HIDE DEF P
        <5> QED
          BY <5>1
      <4> QED
        BY <4>1, <4>2
    <3>2. /\ Ends(i)' = Ends(i) \cup {n \in P : out'[n].id = i}
          /\ \A n \in Ends(i) : out'[n] = out[n]
      BY <1>2, <3>1, EndsMore
    <3> QED
      BY <3>1, <3>2
  <2>2. Tracked(i) => RunOf(i) = {i}
    BY <1>1, <1>5, RunShape DEF Tracked
  <2> QED
    BY <1>1, <1>2, <1>5, <2>1, <2>2 DEF EndOK
<1> QED
  BY <1>4, <1>5

\* The item that the upstream opens next has said nothing and has not ended.
LEMMA Unseen ==
    ASSUME TypeInv, NEW i, i = Len(keys) + 1
    PROVE  Said(received, i) = <<>> /\ Said(out, i) = <<>> /\ Ends(i) = {}
           /\ \A n \in DOMAIN out : out[n].id # i
<1>1. \A log : LogOK(log, Len(keys)) => \A n \in DOMAIN log : log[n].id # i
  BY DEF LogOK, TypeInv
<1>2. LogOK(received, Len(keys)) /\ LogOK(out, Len(keys)) /\ IsSeq(received) /\ IsSeq(out)
  BY DEF TypeInv, LogOK
<1>3. Ends(i) = {}
  BY <1>1, <1>2 DEF Ends, Places
<1> QED
  BY <1>1, <1>2, <1>3, SaidUnknown

\* The upstream opens a further fragment.
LEMMA WholeContinued ==
    ASSUME Enabled = TRUE, TypeInv, WholeInv, NEW k \in Keys, PushAdded(k),
           run # NoRun, run.key = k
    PROVE  WholeInv'
<1> DEFINE e == Event("added", Len(keys) + 1, k, <<>>, <<>>)
<1>1. /\ Speaks(e) /\ OnAdded(e) /\ keys' = Append(keys, k) /\ closed' = closed
      /\ e.key = k /\ e.type = "added" /\ e.id = Len(keys) + 1 /\ e.data \in Seq(Nat)
  BY DEF PushAdded, Event, Handle
<1> HIDE DEF e
<1>2. /\ out' = out /\ merged' = merged /\ run' = [run EXCEPT !.ids = Append(@, e.id)]
  BY <1>1 DEF OnAdded, Continues
<1>3. /\ run'.key = run.key /\ run'.said = run.said /\ run'.ids = Append(run.ids, e.id)
      /\ run.ids \in Seq(Nat) /\ run.ids # <<>> /\ k.type \in Covered
  BY <1>2 DEF TypeInv, RunOK
<1>4. run'.ids[1] = run.ids[1] /\ Merging(run') /\ run' # NoRun
  <2>1. e.id \in Nat
    BY <1>1 DEF TypeInv
  <2>2. Len(run'.ids) >= 2 /\ run'.ids[1] = run.ids[1]
    BY <1>3, <2>1
  <2>3. NoRun.ids = <<>> /\ Len(<<>>) = 0
    BY DEF NoRun
  <2> QED
    BY <2>2, <2>3 DEF Merging
<1>5. /\ keys \in Seq(Keys) /\ IsSeq(out) /\ LogText(out) /\ TextTypes /\ RunInv /\ EndInv
      /\ AddedInv
  BY DEF TypeInv, LogOK, WholeInv, TextTypes
<1>6. /\ Live /\ Live' /\ IsSeq(received) /\ LogText(received)
      /\ IsSeq(received') /\ LogText(received')
      /\ \A i : Said(received', i) = Said(received, i)
      /\ \A i : Early(i) => Early(i)'
      /\ \A i : (\E m \in Places(received, "done") : received[m].id = i)
                  => \E m \in Places(received', "done") : received'[m].id = i
      /\ \A i : e.id = i + 1 /\ (\E m \in Places(received, "done") : received[m].id = i)
                  => Early(i)'
  BY <1>1, <1>5, Received
<1>7. PICK l : /\ l = run.ids[1] /\ l \in Leaders /\ l \in DOMAIN keys /\ Len(keys) \in RunOf(l)
               /\ Merging(run) <=> l # Len(keys)
  BY <1>5, RunShape
<1>8. \A i \in Leaders : Len(keys) \in RunOf(i) => i = l
  BY <1>5, <1>7, OneLeader
<1>9. Prolongs(k)
  BY <1>3, <1>5 DEF Prolongs, Fragments, RunInv
<1>10. /\ Len(keys') = Len(keys) + 1 /\ DOMAIN keys' = 1..(Len(keys) + 1)
       /\ DOMAIN keys = 1..Len(keys) /\ Len(keys) \in Nat
       /\ keys'[Len(keys) + 1] = k /\ keys' # <<>>
       /\ \A n \in DOMAIN keys : keys'[n] = keys[n]
       /\ Leaders' = Leaders /\ Leaders \subseteq DOMAIN keys
       /\ RunOf(l)' = RunOf(l) \cup {Len(keys) + 1}
       /\ \A i \in Leaders : i # l => RunOf(i)' = RunOf(i)
  BY <1>1, <1>5, <1>7, <1>8, <1>9, RunsGrow DEF Leaders
<1>11. \A i : Tracked(i)' <=> Tracked(i)
  BY <1>4 DEF Tracked
<1>12. TextTypes'
  BY <1>2, <1>3, <1>5, <1>6 DEF TextTypes
<1>13. RunInv'
  <2>1. run.said = Said(out, l)
    BY <1>5, <1>7 DEF RunInv
  <2>2. l \in Leaders' /\ run'.ids[1] = l /\ Len(keys') \in RunOf(l)' /\ run'.said = Said(out', l)
    BY <1>2, <1>3, <1>4, <1>7, <1>10, <2>1
  <2> QED
    BY <1>3, <1>4, <1>6, <1>10, <2>2 DEF RunInv
<1>14. TextInv'
  <2>1. Said(received, Len(keys) + 1) = <<>>
    BY Unseen
  <2>2. \A i \in DOMAIN keys : WholeText(i)' = WholeText(i)
    BY <1>1, <1>5, <1>6, <2>1, TextOfOpened
  <2> QED
    BY <1>2, <1>10, <2>2 DEF TextInv, WholeInv
<1>15. RecordInv'
  <2> DEFINE S == {i \in Leaders : ~Tracked(i)}
  <2>1. RecordsOK(merged, S)
    BY DEF RecordInv, WholeInv
  <2>2. ASSUME NEW i \in S
        PROVE  /\ i \in Leaders' /\ ~Tracked(i)' /\ RunOf(i)' = RunOf(i)
               /\ Said(out', i) = Said(out, i) /\ keys'[i] = keys[i]
    <3>1. i # l
      BY <1>7 DEF Tracked
    <3> QED
      BY <1>2, <1>10, <1>11, <3>1
  <2>3. \A i \in Leaders' : i \in S \/ Tracked(i)' \/ RunOf(i)' = {i}
    BY <1>10, <1>11
  <2> HIDE DEF S
  <2> QED
    BY <1>2, <2>1, <2>2, <2>3, RecordsKept
<1>16. AddedInv'
  <2>1. \A n \in Places(out, "added") : out[n].id \in DOMAIN keys
    BY <1>5, <1>10 DEF AddedInv
  <2> QED
    BY <1>2, <1>5, <1>10, <2>1 DEF AddedInv
<1>17. EndInv'
  <2>1. \A i : Ends(i)' = Ends(i)
    BY <1>2 DEF Ends
  <2>2. ASSUME NEW i \in Leaders, i # l PROVE EndOK(i)'
    <3>1. EndOK(i) /\ ~Tracked(i)
      BY <1>5, <1>7, <2>2 DEF EndInv, Tracked
    <3> QED
      BY <1>1, <1>2, <1>6, <1>10, <1>11, <2>1, <2>2, <3>1, EndKept
  <2>3. EndOK(l)'
    <3>1. EndOK(l) /\ Tracked(l)
      BY <1>5, <1>7 DEF EndInv, Tracked
    <3>2. Ends(l) # {} => Early(l)'
      <4>1. CASE Merging(run)
        BY <1>6, <3>1, <4>1 DEF EndOK
      <4>2. CASE ~Merging(run)
        <5>1. l = Len(keys) /\ e.id = l + 1
          BY <1>1, <1>7, <4>2
        <5>2. Ends(l) # {} => \E m \in Places(received, "done") : received[m].id = l
          BY <1>5, <1>7, <5>1 DEF EndInv
        <5> QED
          BY <1>6, <5>1, <5>2
      <4> QED
        BY <4>1, <4>2
    <3> QED
      BY <1>1, <1>4, <1>6, <1>11, <2>1, <3>1, <3>2 DEF EndOK
  <2>4. \A i \in DOMAIN keys' : i = Len(keys') /\ Ends(i)' # {} => i \in closed'
    BY <1>10, <2>1, Unseen
  <2> QED
    BY <1>1, <1>5, <1>6, <1>10, <2>2, <2>3, <2>4 DEF EndInv
<1>18. ListInv'
  BY <1>6 DEF ListInv
<1> QED
  BY <1>12, <1>13, <1>14, <1>15, <1>16, <1>17, <1>18 DEF WholeInv

\* The upstream opens an item that does not continue the run.
LEMMA WholeOpened ==
    ASSUME Enabled = TRUE, TypeInv, WholeInv, NEW k \in Keys, PushAdded(k),
           ~(run # NoRun /\ run.key = k)
    PROVE  WholeInv'
<1> DEFINE e == Event("added", Len(keys) + 1, k, <<>>, <<>>)
<1>1. /\ Speaks(e) /\ OnAdded(e) /\ keys' = Append(keys, k) /\ closed' = closed
      /\ e.key = k /\ e.type = "added" /\ e.id = Len(keys) + 1
      /\ e.data = <<>> /\ e.data \in Seq(Nat)
  BY DEF PushAdded, Event, Handle
<1> HIDE DEF e
<1>2. /\ out' = out \o Append(Dones(run), e) /\ merged' = Recorded(run)
      /\ run' = IF k.type \in Covered THEN NewRun(e) ELSE NoRun
  BY <1>1 DEF OnAdded, Continues, CloseRunThen
<1>3. /\ keys \in Seq(Keys) /\ IsSeq(out) /\ LogText(out) /\ TextTypes /\ RunInv /\ EndInv
      /\ AddedInv /\ RecordInv
  BY DEF TypeInv, LogOK, WholeInv, TextTypes
<1>4. /\ Live /\ Live' /\ IsSeq(received) /\ LogText(received)
      /\ IsSeq(received') /\ LogText(received')
      /\ \A i : Said(received', i) = Said(received, i)
      /\ \A i : Early(i) => Early(i)'
      /\ \A i : (\E m \in Places(received, "done") : received[m].id = i)
                  => \E m \in Places(received', "done") : received'[m].id = i
  BY <1>1, <1>3, Received
<1>5. Closes(out', e)
  BY <1>1, <1>2, <1>3, CloseEffect
<1>6. /\ LogText(out') /\ Len(out) \in Nat /\ Len(out') \in Nat /\ Len(out) < Len(out')
      /\ DOMAIN out = 1..Len(out) /\ out'[Len(out')] = e
      /\ \A n \in 1..Len(out) : out'[n] = out[n]
      /\ \A i : Said(out', i) = Said(out, i)
      /\ Places(out', "added") = Places(out, "added") \cup {Len(out')}
  BY <1>1, <1>5 DEF Closes, Grown
<1>7. ~Prolongs(k)
  BY <1>3, <1>4 DEF Prolongs, Fragments, RunInv
<1>8. PICK M : M = Len(keys) + 1
  OBVIOUS
<1>9. /\ Len(keys') = M /\ DOMAIN keys' = 1..M /\ keys'[M] = k /\ keys' # <<>>
      /\ DOMAIN keys = 1..Len(keys) /\ Len(keys) \in Nat /\ M \notin DOMAIN keys
      /\ \A n \in DOMAIN keys : n < M /\ keys'[n] = keys[n]
      /\ Leaders' = Leaders \cup {M} /\ Leaders \subseteq DOMAIN keys
      /\ RunOf(M)' = {M} /\ \A i \in Leaders : RunOf(i)' = RunOf(i)
  BY <1>1, <1>3, <1>7, <1>8, RunsGrow DEF Leaders
<1>10. /\ run' # NoRun => run' = NewRun(e) /\ run'.ids[1] = M /\ run'.key = k /\ run'.said = <<>>
       /\ run' = NoRun => k.type \notin Covered
       /\ run'.said = <<>> /\ ~Merging(run')
  <2>1. NewRun(e) # NoRun
    <3>1. Len(NewRun(e).ids) = 1 /\ Len(NoRun.ids) = 0
      BY DEF NewRun, NoRun
    <3> QED
      BY <3>1
  <2>2. /\ NewRun(e).ids[1] = M /\ NewRun(e).key = k /\ NewRun(e).said = <<>>
        /\ Len(NewRun(e).ids) = 1
    BY <1>1, <1>8 DEF NewRun
  <2>3. NoRun.said = <<>> /\ Len(NoRun.ids) = 0
    BY DEF NoRun
  <2>4. CASE k.type \in Covered
    <3>1. run' = NewRun(e)
      BY <1>2, <2>4
    <3>2. Len(run'.ids) = 1 /\ run'.ids[1] = M /\ run'.key = k /\ run'.said = <<>> /\ run' # NoRun
      BY <2>1, <2>2, <3>1
    <3>3. ~Merging(run')
      BY <3>2 DEF Merging
    <3> QED
      BY <2>4, <3>1, <3>2, <3>3
  <2>5. CASE k.type \notin Covered
    BY <1>2, <2>3, <2>5 DEF Merging
  <2> QED
    BY <2>4, <2>5
<1>11. /\ Said(received, M) = <<>> /\ Said(out, M) = <<>> /\ Ends(M) = {}
       /\ \A n \in DOMAIN out : out[n].id # M
  BY <1>8, Unseen
<1>12. \A i \in Leaders : ~Tracked(i)' /\ i # M
  BY <1>9, <1>10 DEF Tracked
<1>13. TextTypes'
  <2>1. <<>> \in Seq(Nat)
    OBVIOUS
  <2> QED
    BY <1>4, <1>6, <1>10, <2>1 DEF TextTypes
<1>14. RunInv'
  <2>1. M \in Leaders' /\ Len(keys') \in RunOf(M)'
    BY <1>9
  <2>2. run' # NoRun => run'.ids[1] = M /\ run'.said = Said(out', M) /\ run'.key = keys'[Len(keys')]
    BY <1>6, <1>9, <1>10, <1>11
  <2> QED
    BY <1>4, <1>9, <1>10, <2>1, <2>2 DEF RunInv
<1>15. TextInv'
  <2>1. \A i : i = Len(keys) + 1 => WholeText(i)' = <<>>
    BY <1>1, <1>3, <1>4, <1>8, <1>11, TextOfOpened
  <2>2. \A i \in DOMAIN keys : WholeText(i)' = WholeText(i)
    BY <1>1, <1>3, <1>4, <1>8, <1>11, TextOfOpened
  <2>3. \A i \in Leaders : Said(out', i) = WholeText(i)'
    BY <1>6, <1>9, <2>2 DEF TextInv, WholeInv
  <2>4. Said(out', M) = WholeText(M)'
    BY <1>6, <1>8, <1>11, <2>1
  <2> QED
    BY <1>9, <2>3, <2>4 DEF TextInv
<1>16. RecordInv'
  <2>1. RecordsOK(Recorded(run), Leaders)
    BY <1>3, ClosedRecords
  <2>2. \A i \in Leaders : /\ i \in Leaders' /\ ~Tracked(i)' /\ RunOf(i)' = RunOf(i)
                           /\ Said(out', i) = Said(out, i) /\ keys'[i] = keys[i]
    BY <1>6, <1>9, <1>12
  <2>3. \A i \in Leaders' : i \in Leaders \/ Tracked(i)' \/ RunOf(i)' = {i}
    BY <1>9
  <2> QED
    BY <1>2, <2>1, <2>2, <2>3, RecordsKept
<1>17. AddedInv'
  <2> DEFINE old == Places(out, "added")
             new == Places(out', "added")
             p == Len(out')
  <2>1. new = old \cup {p} /\ out'[p].id = M /\ out'[p].key = k
    BY <1>1, <1>6, <1>8
  <2>2. \A n \in old : n \in DOMAIN out /\ n < p /\ out'[n] = out[n]
    BY <1>6 DEF Places
  <2>3. {out[n].id : n \in old} = Leaders /\ \A n \in old : out[n].id \in DOMAIN keys /\ out[n].id < M
    BY <1>3, <1>9 DEF AddedInv
  <2>4. /\ \A m, n \in old : m < n => out[m].id < out[n].id
        /\ \A n \in old : out[n].key = keys[out[n].id]
    BY <1>3 DEF AddedInv
  <2>5. p \in Nat /\ \A n \in old : n \in Nat
    BY <1>6, <2>2
  <2> HIDE DEF old, new, p
  <2>6. {out'[n].id : n \in new} = Leaders'
    BY <1>9, <2>1, <2>2, <2>3
  <2>7. ASSUME NEW m \in new, NEW n \in new, m < n PROVE out'[m].id < out'[n].id
    <3>1. CASE m \in old /\ n \in old
      BY <2>2, <2>4, <2>7, <3>1
    <3>2. CASE m \in old /\ n = p
      BY <2>1, <2>2, <2>3, <3>2
    <3>3. CASE m = p
      <4>1. n \in old \/ n = p
        BY <2>1
      <4> QED
        BY <2>2, <2>5, <2>7, <3>3, <4>1
    <3> QED
      BY <2>1, <3>1, <3>2, <3>3
  <2>8. ASSUME NEW n \in new PROVE out'[n].key = keys'[out'[n].id]
    BY <1>9, <2>1, <2>2, <2>3, <2>4
  <2> QED
    BY <2>6, <2>7, <2>8 DEF AddedInv, new
<1>18. EndInv'
  <2>1. \A i \in Leaders : EndOK(i)'
    BY <1>1, <1>4, <1>5, <1>9, <1>12, ClosingEnds
  <2>2. Ends(M)' = {}
    <3>1. ASSUME NEW n \in Places(out', "done") PROVE out'[n].id # M
      <4>1. CASE n \in Places(out, "done")
        BY <1>6, <1>11, <4>1 DEF Places
      <4>2. CASE n \notin Places(out, "done")
        <5>1. Merging(run) /\ out'[n].id = run.ids[1]
          BY <1>5, <4>2 DEF Closes
        <5>2. run # NoRun
          <6>1. NoRun.ids = <<>> /\ Len(<<>>) = 0
            BY DEF NoRun
          <6> QED
            BY <5>1, <6>1 DEF Merging
        <5>3. run.ids[1] \in Leaders
          BY <1>3, <5>2 DEF RunInv
        <5> QED
          BY <1>9, <5>1, <5>3
      <4> QED
        BY <4>1, <4>2
    <3> QED
      BY <3>1 DEF Ends
  <2>3. EndOK(M)'
    <3>1. M \notin closed'
      BY <1>1, <1>9 DEF TypeInv
    <3> QED
      BY <1>9, <1>10, <2>2, <3>1 DEF EndOK
  <2>4. \A i \in DOMAIN keys' : i = Len(keys') /\ Ends(i)' # {} => i \in closed'
    BY <1>9, <2>2
  <2> QED
    BY <1>1, <1>3, <1>4, <1>9, <2>1, <2>3, <2>4 DEF EndInv
<1>19. ListInv'
  BY <1>4 DEF ListInv
<1> QED
  BY <1>13, <1>14, <1>15, <1>16, <1>17, <1>18, <1>19 DEF WholeInv

LEMMA WholeCompleted ==
    ASSUME Enabled = TRUE, TypeInv, WholeInv, PushCompleted PROVE WholeInv'
<1> DEFINE items == [i \in DOMAIN keys |-> Item(i, keys[i], Said(received, i))]
           e == Event("completed", 0, NoRun.key, <<>>, items)
           records == Recorded(run)
           f == IF records = <<>> THEN e ELSE [e EXCEPT !.output = Collapse(@, records)]
<1>1. /\ Speaks(e) /\ OnCompleted(e) /\ keys' = keys /\ closed' = closed
      /\ e.type = "completed" /\ e.data \in Seq(Nat)
  BY DEF PushCompleted, Event, Handle
<1>2. /\ f.type = "completed" /\ f.data \in Seq(Nat)
      /\ f.output = IF records = <<>> THEN items ELSE Collapse(items, records)
  BY DEF Event
<1> HIDE DEF e
<1>3. /\ out' = out \o Append(Dones(run), f) /\ merged' = records /\ run' = NoRun
  BY <1>1 DEF OnCompleted, CloseRunThen
<1> HIDE DEF items, f, records
<1>4. /\ keys \in Seq(Keys) /\ IsSeq(out) /\ LogText(out) /\ TextTypes /\ RunInv /\ EndInv
      /\ AddedInv /\ RecordInv /\ TextInv
  BY DEF TypeInv, LogOK, WholeInv, TextTypes
<1>5. /\ ~Live' /\ IsSeq(received) /\ LogText(received)
      /\ IsSeq(received') /\ LogText(received')
      /\ \A i : Said(received', i) = Said(received, i)
      /\ \A i : Early(i) => Early(i)'
      /\ \A i : (\E m \in Places(received, "done") : received[m].id = i)
                  => \E m \in Places(received', "done") : received'[m].id = i
  BY <1>1, <1>4, Received
<1>6. Closes(out', f)
  BY <1>2, <1>3, <1>4, CloseEffect
<1>7. /\ LogText(out') /\ IsSeq(out') /\ Len(out') \in Nat /\ out'[Len(out')] = f
      /\ DOMAIN out = 1..Len(out) /\ \A n \in 1..Len(out) : out'[n] = out[n]
      /\ \A i : Said(out', i) = Said(out, i)
      /\ Places(out', "added") = Places(out, "added")
  BY <1>2, <1>6 DEF Closes, Grown
<1>8. Leaders' = Leaders /\ \A i : RunOf(i)' = RunOf(i)
  BY <1>1, SameItems
<1>9. \A i : ~Tracked(i)'
  BY <1>3 DEF Tracked
<1>10. RecordsOK(records, Leaders)
  BY <1>4, ClosedRecords DEF records
<1>11. TextTypes'
  <2>1. NoRun.said \in Seq(Nat)
    BY DEF NoRun
  <2> QED
    BY <1>3, <1>5, <1>7, <2>1 DEF TextTypes
<1>12. RunInv'
  BY <1>3, <1>5 DEF RunInv
<1>13. TextInv'
  <2>1. \A i : WholeText(i)' = WholeText(i)
    BY <1>1, <1>5, SameText
  <2> QED
    BY <1>4, <1>7, <1>8, <2>1 DEF TextInv
<1>14. RecordInv'
  <2>1. \A i \in Leaders : /\ i \in Leaders' /\ ~Tracked(i)' /\ RunOf(i)' = RunOf(i)
                           /\ Said(out', i) = Said(out, i) /\ keys'[i] = keys[i]
    BY <1>1, <1>7, <1>8, <1>9
  <2>2. \A i \in Leaders' : i \in Leaders \/ Tracked(i)' \/ RunOf(i)' = {i}
    BY <1>8
  <2> QED
    BY <1>3, <1>10, <2>1, <2>2, RecordsKept
<1>15. AddedInv'
  <2> DEFINE added == Places(out, "added")
  <2>1. \A n \in added : out'[n] = out[n]
    BY <1>7 DEF Places
  <2>2. Places(out', "added") = added /\ keys' = keys /\ Leaders' = Leaders
    BY <1>1, <1>7, <1>8
  <2>3. /\ {out[n].id : n \in added} = Leaders
        /\ \A m, n \in added : m < n => out[m].id < out[n].id
        /\ \A n \in added : out[n].key = keys[out[n].id]
    BY <1>4 DEF AddedInv
  <2> HIDE DEF added
  <2>4. {out'[n].id : n \in added} = Leaders
    BY <2>1, <2>3
  <2> QED
    BY <2>1, <2>2, <2>3, <2>4 DEF AddedInv
<1>16. EndInv'
  <2>1. \A i \in Leaders : EndOK(i)'
    BY <1>1, <1>5, <1>6, <1>8, <1>9, ClosingEnds
  <2>2. ASSUME NEW i \in DOMAIN keys', i = Len(keys'), Ends(i)' # {} PROVE i \in closed'
    <3>1. PICK n : n \in Places(out', "done") /\ out'[n].id = i
      BY <2>2 DEF Ends
    <3>2. CASE n \in Places(out, "done")
      <4>1. n \in Ends(i)
        BY <1>7, <3>1, <3>2 DEF Ends, Places
      <4> QED
        BY <1>1, <1>4, <2>2, <4>1 DEF EndInv
    <3>3. CASE n \notin Places(out, "done")
      <4>1. Merging(run) /\ out'[n].id = run.ids[1]
        BY <1>6, <3>1, <3>3 DEF Closes
      <4>2. run # NoRun
        <5>1. NoRun.ids = <<>> /\ Len(<<>>) = 0
          BY DEF NoRun
        <5> QED
          BY <4>1, <5>1 DEF Merging
      <4>3. run.ids[1] # Len(keys)
        BY <1>4, <4>1, <4>2, RunShape
      <4> QED
        BY <1>1, <2>2, <3>1, <4>1, <4>3
    <3> QED
      BY <3>2, <3>3
  <2> QED
    BY <1>1, <1>4, <1>5, <1>8, <2>1, <2>2 DEF EndInv
<1>17. ListInv'
  <2>1. Listed(f.output)
    BY <1>2, <1>4, <1>10, CollapseLists DEF items
  <2>2. Last(out') = f
    BY <1>7 DEF Last
  <2> QED
    BY <1>1, <1>7, <1>8, <2>1, <2>2 DEF Listed, ListInv
<1> QED
  BY <1>11, <1>12, <1>13, <1>14, <1>15, <1>16, <1>17 DEF WholeInv

LEMMA WholeStep ==
    ASSUME Enabled = TRUE, Overlap = FALSE, TypeInv, WholeInv, [Next]_vars PROVE WholeInv'
<1>1. ASSUME NEW k \in Keys, PushAdded(k) PROVE WholeInv'
  BY <1>1, WholeContinued, WholeOpened
<1>2. ASSUME NEW i \in Open, PushDelta(i) PROVE WholeInv'
  BY <1>2, WholeDelta
<1>3. ASSUME NEW i \in Open, PushPart(i) \/ PushPartDone(i) \/ PushDone(i) \/ PushUntracked(i)
      PROVE  WholeInv'
  BY <1>3, WholePart, WholePartDone, WholeDone, WholeUntracked
<1>4. CASE PushCompleted
  BY <1>4, WholeCompleted
<1>5. CASE UNCHANGED vars
  <2>1. TextTypes' /\ RunInv' /\ TextInv'
    BY <1>5 DEF vars, WholeInv, TextTypes, LogText, RunInv, TextInv, Live, Leaders, RunOf, WholeText
  <2>2. RecordInv'
    BY <1>5 DEF vars, WholeInv, RecordInv, RecordsOK, Leaders, RunOf, Tracked
  <2>4. AddedInv' /\ ListInv'
    BY <1>5 DEF vars, WholeInv, AddedInv, ListInv, Live, Leaders
  <2>3. EndInv'
    BY <1>5 DEF vars, WholeInv, EndInv, EndOK, Leaders, RunOf, Tracked, Ends, Early, Merging
  <2> QED
    BY <2>1, <2>2, <2>3, <2>4 DEF WholeInv
<1> QED
  BY <1>1, <1>2, <1>3, <1>4, <1>5 DEF Next

LEMMA WholeInit == Init => WholeInv
<1> SUFFICES ASSUME Init PROVE WholeInv
  OBVIOUS
<1>1. /\ keys = <<>> /\ closed = {} /\ received = <<>> /\ run = NoRun /\ merged = <<>> /\ out = <<>>
      /\ NoRun.said = <<>> /\ DOMAIN <<>> = {}
  BY DEF Init, NoRun
<1>2. Leaders = {} /\ Live /\ \A log, type : log = <<>> => Places(log, type) = {}
  BY <1>1 DEF Leaders, Live, Places
<1>3. TextTypes
  BY <1>1 DEF TextTypes, LogText
<1>4. RunInv /\ TextInv /\ ListInv
  BY <1>1, <1>2 DEF RunInv, TextInv, ListInv
<1>5. RecordInv
  BY <1>1, <1>2, EmptyIsSeq DEF RecordInv, RecordsOK
<1>6. EndInv /\ AddedInv
  BY <1>1, <1>2 DEF EndInv, AddedInv
<1> QED
  BY <1>3, <1>4, <1>5, <1>6 DEF WholeInv

\* A set with more than one element has two that differ.
LEMMA TwoMembers ==
    ASSUME NEW S, Cardinality(S) > 1, IsFiniteSet(S) PROVE \E m, n \in S : m # n
<1>1. CASE S = {}
  <2>1. Cardinality(S) = 0
    BY <1>1, FS_EmptySet
  <2> QED
    BY <2>1
<1>2. CASE S # {}
  <2>1. PICK m : m \in S
    BY <1>2
  <2>2. CASE S = {m}
    <3>1. Cardinality(S) = 1
      BY <2>2, FS_Singleton
    <3> QED
      BY <3>1
  <2>3. CASE S # {m}
    BY <2>1, <2>3
  <2> QED
    BY <2>2, <2>3
<1> QED
  BY <1>1, <1>2

LEMMA WholeMeans ==
    TypeInv /\ WholeInv => TextSurvives /\ CompletedMatchesStream
<1> SUFFICES ASSUME TypeInv, WholeInv PROVE TextSurvives /\ CompletedMatchesStream
  OBVIOUS
<1>1. RunInv /\ TextInv /\ EndInv /\ AddedInv /\ ListInv
  BY DEF WholeInv
<1>2. ASSUME ~Live, NEW i \in Leaders
      PROVE  /\ RunOf(i) # {i} \/ i \in closed => Ends(i) # {}
             /\ \A n \in Ends(i) : (\A m \in Ends(i) : m <= n) => out[n].data = Said(out, i)
             /\ Cardinality(Ends(i)) > 1 => Early(i)
  <2>1. ~Tracked(i) /\ EndOK(i)
    BY <1>1, <1>2 DEF RunInv, Tracked, EndInv
  <2>2. IsFiniteSet(Ends(i))
    <3>1. Len(out) \in Nat /\ DOMAIN out = 1..Len(out)
      BY AppendAny DEF TypeInv, LogOK
    <3>2. IsFiniteSet(1..Len(out)) /\ Ends(i) \subseteq 1..Len(out)
      BY <3>1, FS_Interval DEF Ends, Places
    <3> QED
      BY <3>2, FS_Subset
  <2>3. Cardinality(Ends(i)) > 1 => Early(i)
    BY <2>1, <2>2, TwoMembers DEF EndOK
  <2> QED
    BY <2>1, <2>3 DEF EndOK
<1>3. TextSurvives
  BY <1>1, <1>2 DEF TextSurvives, TextInv, Ends, Early
<1>4. CompletedMatchesStream
  <2>1. ASSUME ~Live, NEW n \in DOMAIN Last(out).output
        PROVE  \E m \in Places(out, "added") :
                  Last(out).output[n] = Item(out[m].id, out[m].key, Said(out, out[m].id))
    <3> DEFINE listed == Last(out).output
    <3>1. /\ {listed[m].id : m \in DOMAIN listed} = Leaders
          /\ listed[n] = Item(listed[n].id, keys[listed[n].id], Said(out, listed[n].id))
      BY <1>1, <2>1 DEF ListInv
    <3>2. listed[n].id \in Leaders
      BY <2>1, <3>1
    <3>3. PICK m \in Places(out, "added") : out[m].id = listed[n].id
      BY <1>1, <3>2 DEF AddedInv
    <3>4. out[m].key = keys[out[m].id]
      BY <1>1 DEF AddedInv
    <3> QED
      BY <3>1, <3>3, <3>4
  <2> QED
    BY <1>1, <2>1 DEF CompletedMatchesStream, AddedInv, ListInv
<1> QED
  BY <1>3, <1>4

LEMMA WholeHolds ==
    ASSUME Enabled = TRUE, Overlap = FALSE PROVE Spec => [](TypeInv /\ WholeInv)
<1>1. Init => TypeInv /\ OffInv /\ WholeInv
  BY InvInit, WholeInit DEF IInv
<1>2. TypeInv /\ OffInv /\ WholeInv /\ [Next]_vars => (TypeInv /\ OffInv /\ WholeInv)'
  BY TypeStep, OffStep, WholeStep
<1> QED
  BY <1>1, <1>2, PTL DEF Spec

\* If the upstream leaves an item for good when it opens the next, the client
\* reads under each item what the upstream said in its run, and every item that
\* was broken up or closed is closed for it in the end, with that text.
THEOREM TextSurvivesHolds ==
    ASSUME Enabled = TRUE, Overlap = FALSE PROVE Spec => []TextSurvives
  BY WholeHolds, WholeMeans, PTL

\* Such a client sees one item per run, and response.completed lists these.
THEOREM CompletedMatchesStreamHolds ==
    ASSUME Enabled = TRUE, Overlap = FALSE PROVE Spec => []CompletedMatchesStream
  BY WholeHolds, WholeMeans, PTL

=============================================================================
