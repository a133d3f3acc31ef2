-------------------------- MODULE ChatStreamProofs --------------------------
(***************************************************************************)
(* Proofs about ChatStream, for any chunks, options, capacity and patience.*)
(***************************************************************************)
EXTENDS ChatStream, SequenceTheorems, WellFoundedInduction, TLAPS

-----------------------------------------------------------------------------
(* Recursion along a sequence *)

LEMMA LeastNatural ==
    ASSUME NEW T, T \subseteq Nat, T # {}
    PROVE  \E x \in T : \A y \in T : x <= y
<1>1. PICK x \in T : \A y \in T : ~(<<y, x>> \in OpToRel(<, Nat))
  BY NatLessThanWellFounded, WFMin
<1>2. ASSUME NEW y \in T PROVE x <= y
  <2>1. ~(y < x)
    BY <1>1 DEF OpToRel
  <2> QED
    BY <2>1
<1> QED
  BY <1>2

\* `f` begins with `a` and goes on by `G`, for n steps.
Runs(f, a, G, n) ==
    /\ f[0] = a
    /\ \A i \in 1..n : f[i] = G[i][f[i - 1]]

\* What is defined by recursion along 0..N exists, and stays where its steps
\* stay.
LEMMA RunExists ==
    ASSUME NEW D, NEW a \in D, NEW N \in Nat, NEW G \in [1..N -> [D -> D]]
    PROVE  \E f \in [0..N -> D] : Runs(f, a, G, N)
<1> DEFINE C == {n \in 0..N : ~\E f \in [0..n -> D] : Runs(f, a, G, n)}
<1>1. ASSUME C # {} PROVE FALSE
  <2>1. PICK n \in C : \A m \in C : n <= m
    <3>1. C \subseteq Nat
      OBVIOUS
    <3> HIDE DEF C
    <3> QED
      BY <1>1, <3>1, LeastNatural
  <2>2. CASE n = 0
    <3> DEFINE f == [i \in 0..0 |-> a]
    <3>1. f \in [0..0 -> D] /\ Runs(f, a, G, 0)
      BY DEF Runs
    <3> QED
      BY <2>2, <3>1
  <2>3. CASE n # 0
    <3>1. n - 1 \in 0..N /\ n - 1 \notin C /\ n \in 1..N
      BY <2>1, <2>3
    <3>2. PICK f \in [0..(n - 1) -> D] : Runs(f, a, G, n - 1)
      BY <3>1
    <3> DEFINE g == [i \in 0..n |-> IF i = n THEN G[n][f[n - 1]] ELSE f[i]]
    <3>3. G[n][f[n - 1]] \in D
      BY <3>1
    <3>4. g \in [0..n -> D]
      BY <3>1, <3>3
    <3>5. g[0] = a
      BY <3>1, <3>2 DEF Runs
    <3>6. ASSUME NEW i \in 1..n PROVE g[i] = G[i][g[i - 1]]
      <4>1. i - 1 \in 0..(n - 1) /\ i - 1 # n /\ i \in 0..n /\ i - 1 \in 0..n
        BY <3>1
      <4>2. g[i - 1] = f[i - 1]
        BY <4>1
      <4>3. CASE i = n
        BY <4>1, <4>2, <4>3
      <4>4. CASE i # n
        <5>1. i \in 1..(n - 1)
          BY <3>1, <4>4
        <5>2. f[i] = G[i][f[i - 1]]
          BY <3>2, <5>1 DEF Runs
        <5> QED
          BY <4>1, <4>2, <4>4, <5>2
      <4> QED
        BY <4>3, <4>4
    <3> HIDE DEF g
    <3>7. Runs(g, a, G, n)
      BY <3>5, <3>6 DEF Runs
    <3> QED
      BY <2>1, <3>4, <3>7
  <2> QED
    BY <2>2, <2>3
<1>2. N \notin C
  BY <1>1
<1> QED
  BY <1>2

-----------------------------------------------------------------------------
(* Sequences joined end to end *)

\* The partial joins of a sequence of sequences.
Joins(f, q, S) ==
    /\ f \in [0..Len(q) -> Seq(S)]
    /\ f[0] = <<>>
    /\ \A i \in 1..Len(q) : f[i] = f[i - 1] \o q[i]
    /\ FlattenSeq(q) = f[Len(q)]

LEMMA FlattenJoins ==
    ASSUME NEW S, NEW q \in Seq(Seq(S))
    PROVE  \E f : Joins(f, q, S)
<1> DEFINE D == Seq(S)
           N == Len(q)
           G == [i \in 1..N |-> [s \in D |-> s \o q[i]]]
<1>1. N \in Nat /\ \A i \in 1..N : q[i] \in D
  OBVIOUS
<1>2. <<>> \in D
  OBVIOUS
<1>3. G \in [1..N -> [D -> D]]
  <2>1. ASSUME NEW i \in 1..N, NEW s \in D PROVE s \o q[i] \in D
    <3>1. s \in Seq(S) /\ q[i] \in Seq(S)
      BY <1>1
    <3> QED
      BY <3>1, ConcatProperties
  <2> QED
    BY <2>1
<1>4. ASSUME NEW s \in D, NEW i \in 1..N PROVE G[i][s] = s \o q[i]
  OBVIOUS
<1> HIDE DEF G
<1>5. PICK f \in [0..N -> D] : Runs(f, <<>>, G, N)
  <2> HIDE DEF D, N
  <2> QED
    BY <1>1, <1>2, <1>3, RunExists
<1>6. ASSUME NEW i \in 1..N PROVE f[i] = f[i - 1] \o q[i]
  <2>1. f[i - 1] \in D
    <3> HIDE DEF D, N
    <3>1. i - 1 \in 0..N
      BY <1>1
    <3> QED
      BY <1>5, <3>1
  <2> QED
    BY <1>4, <1>5, <2>1 DEF Runs
<1>7. 1 \in 1..N => f[1] = f[0] \o q[1]
  <2>1. 1 - 1 = 0
    OBVIOUS
  <2> HIDE DEF D, N
  <2> QED
    BY <1>6, <2>1
<1>9. FlattenSeq(q) = f[N]
  <2>1. CASE q = <<>>
    BY <1>5, <2>1 DEF FlattenSeq, Runs
  <2>2. CASE q # <<>>
    <3> DEFINE P(h) == h = [i \in 1..N |-> IF i = 1 THEN q[i] ELSE h[i - 1] \o q[i]]
               g == [i \in 1..N |-> f[i]]
               c == CHOOSE h : P(h)
    <3>1. N \in 1..N /\ 1 \in 1..N
      BY <1>1, <2>2
    <3>2. ASSUME NEW i \in 1..N
          PROVE  g[i] = IF i = 1 THEN q[i] ELSE g[i - 1] \o q[i]
      <4>1. CASE i = 1
        <5>1. f[i] = f[0] \o q[i]
          BY <1>7, <4>1
        <5>2. f[0] = <<>> /\ q[i] \in Seq(S)
          BY <1>1, <1>5 DEF Runs
        <5> QED
          BY <4>1, <5>1, <5>2
      <4>2. CASE i # 1
        <5>1. i - 1 \in 1..N
          BY <4>2
        <5> QED
          BY <1>6, <4>2, <5>1
      <4> QED
        BY <4>1, <4>2
    <3>3. g = [i \in 1..N |-> g[i]]
      OBVIOUS
    <3>4. P(g)
      <4> HIDE DEF g
      <4> QED
        BY <3>2, <3>3
    <3>5. P(c)
      <4> HIDE DEF P, g
      <4> QED
        BY <3>4
    <3>6. FlattenSeq(q) = c[N]
      BY <2>2 DEF FlattenSeq
    <3>7. ASSUME NEW i \in 1..N PROVE c[i] = IF i = 1 THEN q[i] ELSE c[i - 1] \o q[i]
      <4> HIDE DEF c
      <4> QED
        BY <3>5
    <3> DEFINE B == {i \in 1..N : c[i] # f[i]}
    <3> HIDE DEF c, P
    <3>8. ASSUME B # {} PROVE FALSE
      <4>1. PICK i \in B : \A j \in B : i <= j
        <5>1. B \subseteq Nat
          OBVIOUS
        <5> HIDE DEF B
        <5> QED
          BY <3>8, <5>1, LeastNatural
      <4>2. CASE i = 1
        <5>1. f[i] = f[0] \o q[i]
          BY <1>7, <4>2
        <5>2. f[0] = <<>> /\ q[i] \in Seq(S)
          BY <1>1, <1>5 DEF Runs
        <5> QED
          BY <3>7, <4>2, <5>1, <5>2
      <4>3. CASE i # 1
        <5>1. i - 1 \in 1..N /\ ~(i <= i - 1)
          BY <1>1, <4>1, <4>3
        <5>2. i - 1 \notin B
          BY <4>1, <5>1
        <5> QED
          BY <1>6, <3>7, <4>1, <4>3, <5>1, <5>2, ZenonT(40)
      <4> QED
        BY <4>2, <4>3
    <3> QED
      BY <3>1, <3>6, <3>8
  <2> QED
    BY <2>1, <2>2
<1>8. f[0] = <<>>
  BY <1>5 DEF Runs
<1> QED
  BY <1>6, <1>8, <1>9 DEF Joins

LEMMA FlattenType ==
    ASSUME NEW S, NEW q \in Seq(Seq(S))
    PROVE  FlattenSeq(q) \in Seq(S)
<1>1. PICK f : Joins(f, q, S)
  BY FlattenJoins
<1>2. Len(q) \in 0..Len(q)
  <2> DEFINE T == Seq(S)
  <2>1. q \in Seq(T)
    OBVIOUS
  <2> HIDE DEF T
  <2> QED
    BY <2>1
<1> QED
  BY <1>1, <1>2 DEF Joins

-----------------------------------------------------------------------------
(* The types of the converter *)

Kinds == {"reasoning", "message"}
CallState == [named : BOOLEAN, args : Text]
Indices == {D \in SUBSET Nat : \E b \in Nat : \A i \in D : i < b}
Calls == UNION {[D -> CallState] : D \in Indices}
Item == [kind : Kinds \cup {"call"}, data : Text]

Converter ==
    [slots : Seq(Kinds), said : [Kinds -> Text], calls : Calls, withheld : Text,
     inDsml : BOOLEAN, inThink : BOOLEAN, finish : BOOLEAN, usage : Nat, items : Seq(Item)]

Distinct(s) == \A i, j \in DOMAIN s : s[i] = s[j] => i = j

Deltas == {"added", "delta"}
EventOf(types) ==
    [type : types, idx : Nat, kind : Kinds \cup {"none", "call"}, data : Text,
     output : Seq(Item), usage : Nat]

LEMMA CallsAre ==
    ASSUME NEW calls
    PROVE  calls \in Calls <=> /\ DOMAIN calls \in Indices
                              /\ calls \in [DOMAIN calls -> CallState]
BY DEF Calls

LEMMA AboveType ==
    ASSUME NEW calls \in Calls
    PROVE  /\ Above(calls) \in Nat
           /\ \A i \in DOMAIN calls : i < Above(calls)
<1>1. DOMAIN calls \subseteq Nat
  BY CallsAre DEF Indices
<1>2. CASE DOMAIN calls = {}
  BY <1>2 DEF Above
<1>3. CASE DOMAIN calls # {}
  <2> DEFINE T == {b \in Nat : \A i \in DOMAIN calls : i < b}
             B == {i + 1 : i \in DOMAIN calls}
  <2>1. T # {} /\ T \subseteq Nat
    BY CallsAre DEF Indices
  <2>2. PICK b \in T : \A y \in T : b <= y
    <3> HIDE DEF T
    <3> QED
      BY <2>1, LeastNatural
  <2>3. b # 0 /\ b \in Nat
    BY <1>1, <1>3, <2>2
  <2>4. b - 1 \notin T
    BY <2>2, <2>3
  <2>5. PICK i \in DOMAIN calls : ~(i < b - 1)
    BY <2>3, <2>4
  <2>6. i + 1 = b
    BY <1>1, <2>2, <2>3, <2>5
  <2>7. \E x \in B : \A j \in DOMAIN calls : j < x
    BY <2>2, <2>5, <2>6
  <2>8. Above(calls) = CHOOSE x \in B : \A j \in DOMAIN calls : j < x
    BY <1>3 DEF Above
  <2>9. Above(calls) \in B /\ \A j \in DOMAIN calls : j < Above(calls)
    <3> HIDE DEF B
    <3> QED
      BY <2>7, <2>8
  <2> QED
    BY <1>1, <2>9
<1> QED
  BY <1>2, <1>3

LEMMA LeakedType ==
    ASSUME NEW text \in Text, NEW wanted
    PROVE  Leaked(text, wanted) \in Text
<1> DEFINE q == [i \in DOMAIN text |->
                   IF (text[i].kind = "markup") = wanted THEN <<text[i]>> ELSE <<>>]
<1>1. ASSUME NEW i \in DOMAIN text PROVE q[i] \in Seq(Piece)
  <2>1. text[i] \in Piece
    BY DEF Text
  <2>2. <<text[i]>> \in Seq(Piece) /\ <<>> \in Seq(Piece)
    BY <2>1
  <2> QED
    BY <2>2
<1>2. DOMAIN text = 1..Len(text) /\ Len(text) \in Nat
  BY DEF Text
<1>3. q \in Seq(Seq(Piece))
  <2> DEFINE T == Seq(Piece)
  <2> HIDE DEF T
  <2>1. \A i \in 1..Len(text) : q[i] \in T
    BY <1>1, <1>2 DEF T
  <2>2. q = [i \in 1..Len(text) |-> q[i]]
    BY <1>2
  <2> HIDE DEF q
  <2>3. q \in [1..Len(text) -> T]
    BY <2>1, <2>2
  <2>4. q \in Seq(T)
    BY <1>2, <2>3, SeqDef
  <2> QED
    BY <2>4 DEF T
<1>4. FlattenSeq(q) \in Seq(Piece)
  <2> HIDE DEF q
  <2> QED
    BY <1>3, FlattenType
<1> QED
  BY <1>4 DEF Leaked, Text

ThinkState == [inside : BOOLEAN, reasoning : Text, text : Text]

LEMMA ThinkStepType ==
    ASSUME NEW s \in ThinkState, NEW p \in Piece
    PROVE  ThinkStep(s, p) \in ThinkState
<1>1. Append(s.reasoning, p) \in Text /\ Append(s.text, p) \in Text
  BY DEF ThinkState, Text
<1> QED
  BY <1>1 DEF ThinkStep, ThinkState

\* The states of a text's pieces in the think filter.
ThinkRun(f, c, text) ==
    /\ f \in [0..Len(text) -> ThinkState]
    /\ f[0] = [inside |-> c.inThink, reasoning |-> <<>>, text |-> <<>>]
    /\ \A i \in 1..Len(text) : f[i] = ThinkStep(f[i - 1], text[i])
    /\ ThinkPush(c, text) = f[Len(text)]

LEMMA ThinkRuns ==
    ASSUME NEW c, c.inThink \in BOOLEAN, NEW text \in Text
    PROVE  \E f : ThinkRun(f, c, text)
<1> DEFINE N == Len(text)
           a == [inside |-> c.inThink, reasoning |-> <<>>, text |-> <<>>]
           G == [i \in 1..N |-> [s \in ThinkState |-> ThinkStep(s, text[i])]]
           P(h) == h = [i \in 0..N |-> IF i = 0 THEN a ELSE ThinkStep(h[i - 1], text[i])]
           run == CHOOSE h : P(h)
<1>1. N \in Nat /\ \A i \in 1..N : text[i] \in Piece
  BY DEF Text
<1>2. a \in ThinkState
  BY DEF ThinkState, Text
<1>3. G \in [1..N -> [ThinkState -> ThinkState]]
  BY <1>1, ThinkStepType
<1>4. \A i \in 1..N : \A s \in ThinkState : G[i][s] = ThinkStep(s, text[i])
  OBVIOUS
<1> HIDE DEF G, a, N
<1>5. PICK f \in [0..N -> ThinkState] : Runs(f, a, G, N)
  BY <1>1, <1>2, <1>3, RunExists
<1>6. ASSUME NEW i \in 0..N
      PROVE  f[i] = IF i = 0 THEN a ELSE ThinkStep(f[i - 1], text[i])
  <2>1. CASE i = 0
    BY <1>5, <2>1 DEF Runs
  <2>2. CASE i # 0
    <3>1. i \in 1..N /\ i - 1 \in 0..N
      BY <1>1, <2>2
    <3> QED
      BY <1>4, <1>5, <2>2, <3>1 DEF Runs
  <2> QED
    BY <2>1, <2>2
<1>7. P(f)
  BY <1>5, <1>6
<1>8. P(run)
  <2> HIDE DEF P
  <2> QED
    BY <1>7
<1>9. ThinkPush(c, text) = run[N]
  BY DEF ThinkPush, a, N
<1> HIDE DEF run
<1>10. \A i \in 0..N : run[i] = IF i = 0 THEN a ELSE ThinkStep(run[i - 1], text[i])
  BY <1>8
<1> DEFINE B == {i \in 0..N : run[i] # f[i]}
<1>11. ASSUME B # {} PROVE FALSE
  <2>1. PICK i \in B : \A j \in B : i <= j
    <3>1. B \subseteq Nat
      OBVIOUS
    <3> HIDE DEF B
    <3> QED
      BY <1>11, <3>1, LeastNatural
  <2>2. CASE i = 0
    BY <1>6, <1>10, <2>1, <2>2
  <2>3. CASE i # 0
    <3>1. i - 1 \in 0..N /\ ~(i <= i - 1)
      BY <1>1, <2>1, <2>3
    <3>2. run[i - 1] = f[i - 1]
      BY <2>1, <3>1
    <3> QED
      BY <1>6, <1>10, <2>1, <2>3, <3>2
  <2> QED
    BY <2>2, <2>3
<1>12. ThinkPush(c, text) = f[N]
  <2>1. N \in 0..N
    BY <1>1
  <2> QED
    BY <1>9, <1>11, <2>1
<1>13. ThinkRun(f, c, text)
  <2>1. f[0] = a /\ \A i \in 1..N : f[i] = G[i][f[i - 1]]
    BY <1>5 DEF Runs
  <2>2. \A i \in 1..N : i \in 0..N /\ i # 0
    BY <1>1
  <2> QED
    BY <1>5, <1>6, <1>12, <2>1, <2>2 DEF ThinkRun, a, N
<1> QED
  BY <1>13

LEMMA ThinkType ==
    ASSUME NEW c, c.inThink \in BOOLEAN, NEW text \in Text
    PROVE  ThinkPush(c, text) \in ThinkState
<1>1. PICK f : ThinkRun(f, c, text)
  BY ThinkRuns
<1>2. Len(text) \in 0..Len(text)
  <2>1. Len(text) \in Nat
    BY DEF Text
  <2> QED
    BY <2>1
<1> QED
  BY <1>1, <1>2 DEF ThinkRun

LEMMA ItemEventIs ==
    ASSUME NEW type, NEW n, NEW kind, NEW data
    PROVE  ItemEvent(type, n, kind, data)
             = [type |-> type, idx |-> n, kind |-> kind, data |-> data,
                output |-> <<>>, usage |-> 0]
<1> DEFINE e == Event(type)
<1>1. e = [type |-> type, idx |-> 0, kind |-> "none", data |-> <<>>, output |-> <<>>, usage |-> 0]
  BY DEF Event
<1> HIDE DEF e
<1>2. ItemEvent(type, n, kind, data) = [e EXCEPT !.idx = n, !.kind = kind, !.data = data]
  BY DEF ItemEvent, e
<1> QED
  BY <1>1, <1>2

LEMMA ItemEventType ==
    ASSUME NEW types, NEW type \in types, NEW n \in Nat, NEW kind \in Kinds \cup {"call"},
           NEW data \in Text
    PROVE  ItemEvent(type, n, kind, data) \in EventOf(types)
<1>1. <<>> \in Seq(Item)
  OBVIOUS
<1> QED
  BY <1>1, ItemEventIs DEF EventOf

LEMMA PairIsAppend ==
    ASSUME NEW a, NEW b
    PROVE  Append(<<a>>, b) = <<a, b>>
<1> DEFINE S == {a, b}
           s == <<a>>
           t == <<a, b>>
           r == Append(s, b)
<1>1. s \in Seq(S) /\ t \in Seq(S) /\ b \in S
  OBVIOUS
<1>2. Len(s) = 1 /\ s[1] = a /\ Len(t) = 2 /\ t[1] = a /\ t[2] = b
  OBVIOUS
<1> HIDE DEF s, t, S
<1>3. r \in Seq(S) /\ Len(r) = 2 /\ r[1] = a /\ r[2] = b
  <2>1. /\ r \in Seq(S) /\ Len(r) = Len(s) + 1
        /\ \A i \in 1..Len(s) : r[i] = s[i]
        /\ r[Len(s) + 1] = b
    BY <1>1, AppendProperties
  <2>2. Len(s) + 1 = 2 /\ 1 \in 1..Len(s)
    BY <1>2
  <2> HIDE DEF r
  <2> QED
    BY <1>2, <2>1, <2>2
<1> HIDE DEF r
<1>4. \A i \in 1..Len(r) : r[i] = t[i]
  BY <1>2, <1>3
<1>5. r = t
  BY <1>1, <1>2, <1>3, <1>4, SeqEqual
<1> QED
  BY <1>5 DEF r, s, t

LEMMA ShortSequences ==
    ASSUME NEW S, NEW a \in S, NEW b \in S
    PROVE  <<>> \in Seq(S) /\ <<a>> \in Seq(S) /\ <<a, b>> \in Seq(S)
OBVIOUS

\* What a delta does: an item is opened for it unless one is open.
Shape(c, kind, text, d, i) ==
    /\ d = [c EXCEPT !.said[kind] = c.said[kind] \o text, !.slots = d.slots]
    /\ i \in DOMAIN d.slots /\ d.slots[i] = kind
    /\ Distinct(d.slots) /\ d.slots \in Seq(Kinds) /\ d.slots # <<>>
    /\ \/ /\ d.slots = c.slots
          /\ SpeakEvents(c, kind, text) = <<ItemEvent("delta", i, kind, text)>>
       \/ /\ d.slots = Append(c.slots, kind) /\ i = Len(c.slots) + 1
          /\ SpeakEvents(c, kind, text)
               = <<ItemEvent("added", i, kind, <<>>), ItemEvent("delta", i, kind, text)>>

LEMMA SpeakShape ==
    ASSUME NEW c \in Converter, Distinct(c.slots), NEW kind \in Kinds, NEW text \in Text,
           text # <<>>
    PROVE  Shape(c, kind, text, Speak(c, kind, text), Slot(Speak(c, kind, text), kind))
<1> DEFINE d == Speak(c, kind, text)
           i == Slot(d, kind)
           delta == ItemEvent("delta", i, kind, text)
           added == ItemEvent("added", i, kind, <<>>)
<1>1. /\ c.slots \in Seq(Kinds) /\ Len(c.slots) \in Nat
      /\ DOMAIN c.slots = 1..Len(c.slots)
      /\ ToSet(c.slots) = {c.slots[j] : j \in DOMAIN c.slots}
  BY DEF Converter, ToSet
<1>2. /\ d = [c EXCEPT !.said[kind] = c.said[kind] \o text, !.slots = d.slots]
      /\ d.slots = IF kind \in ToSet(c.slots) THEN c.slots ELSE Append(c.slots, kind)
  BY DEF Speak, Converter
<1>3. SpeakEvents(c, kind, text)
        = Append(IF d.slots = c.slots THEN <<>> ELSE <<added>>, delta)
  BY DEF SpeakEvents
<1>4. i = CHOOSE j \in DOMAIN d.slots : d.slots[j] = kind
  BY DEF Slot
<1> HIDE DEF d, i, delta, added
<1>5. CASE kind \in ToSet(c.slots)
  <2>1. d.slots = c.slots
    BY <1>2, <1>5
  <2>2. \E j \in DOMAIN d.slots : d.slots[j] = kind
    BY <1>1, <1>5, <2>1
  <2>3. i \in DOMAIN d.slots /\ d.slots[i] = kind
    BY <1>4, <2>2
  <2>4. d.slots # <<>>
    BY <1>1, <2>3, <2>1
  <2>5. SpeakEvents(c, kind, text) = <<delta>>
    BY <1>3, <2>1
  <2> QED
    BY <1>1, <1>2, <2>1, <2>3, <2>4, <2>5 DEF d, i, delta, Shape
<1>6. CASE kind \notin ToSet(c.slots)
  <2>1. d.slots = Append(c.slots, kind)
    BY <1>2, <1>6
  <2>2. /\ DOMAIN d.slots = 1..(Len(c.slots) + 1)
        /\ d.slots[Len(c.slots) + 1] = kind
        /\ \A j \in 1..Len(c.slots) : d.slots[j] = c.slots[j]
        /\ d.slots \in Seq(Kinds) /\ d.slots # <<>> /\ d.slots # c.slots
    <3> HIDE DEF Kinds
    <3> QED
      BY <1>1, <2>1
  <2>3. Len(c.slots) + 1 \in DOMAIN d.slots
    BY <1>1, <2>2
  <2>4. i \in DOMAIN d.slots /\ d.slots[i] = kind
    BY <1>4, <2>2, <2>3
  <2>5. ASSUME NEW j \in DOMAIN d.slots, j # Len(c.slots) + 1 PROVE d.slots[j] # kind
    BY <1>1, <1>6, <2>2, <2>5
  <2>6. i = Len(c.slots) + 1
    BY <2>4, <2>5
  <2>7. Distinct(d.slots)
    <3>1. ASSUME NEW a \in DOMAIN d.slots, NEW b \in DOMAIN d.slots, d.slots[a] = d.slots[b]
          PROVE  a = b
      <4>1. CASE a = Len(c.slots) + 1 \/ b = Len(c.slots) + 1
        BY <2>2, <2>5, <3>1, <4>1
      <4>2. CASE a # Len(c.slots) + 1 /\ b # Len(c.slots) + 1
        <5>1. a \in DOMAIN c.slots /\ b \in DOMAIN c.slots
          BY <1>1, <2>2, <4>2
        <5> QED
          BY <1>1, <2>2, <3>1, <5>1 DEF Distinct
      <4> QED
        BY <4>1, <4>2
    <3> QED
      BY <3>1 DEF Distinct
  <2>8. SpeakEvents(c, kind, text) = <<added, delta>>
    <3>1. SpeakEvents(c, kind, text) = Append(<<added>>, delta)
      BY <1>3, <2>2
    <3> QED
      BY <3>1, PairIsAppend
  <2> QED
    BY <1>2, <2>1, <2>2, <2>4, <2>6, <2>7, <2>8 DEF d, i, delta, added, Shape
<1> QED
  BY <1>5, <1>6

LEMMA SpeakType ==
    ASSUME NEW c \in Converter, Distinct(c.slots), NEW kind \in Kinds, NEW text \in Text
    PROVE  LET d == Speak(c, kind, text)
           IN  /\ d \in Converter /\ Distinct(d.slots)
               /\ d = [c EXCEPT !.said = d.said, !.slots = d.slots]
               /\ c.slots # <<>> => d.slots # <<>>
               /\ text # <<>> => d.slots # <<>>
               /\ SpeakEvents(c, kind, text) \in Seq(EventOf(Deltas))
               /\ text = <<>> => SpeakEvents(c, kind, text) = <<>>
<1> DEFINE d == Speak(c, kind, text)
<1>1. CASE text = <<>>
  <2>1. d = c /\ SpeakEvents(c, kind, text) = <<>>
    BY <1>1 DEF Speak, SpeakEvents
  <2>2. c = [c EXCEPT !.said = c.said, !.slots = c.slots]
    BY DEF Converter
  <2>3. <<>> \in Seq(EventOf(Deltas))
    OBVIOUS
  <2> HIDE DEF d
  <2> QED
    BY <1>1, <2>1, <2>2, <2>3 DEF d
<1>2. CASE text # <<>>
  <2> DEFINE i == Slot(d, kind)
             delta == ItemEvent("delta", i, kind, text)
             added == ItemEvent("added", i, kind, <<>>)
             said == [c.said EXCEPT ![kind] = c.said[kind] \o text]
  <2>1. Shape(c, kind, text, d, i)
    BY <1>2, SpeakShape
  <2>2. said \in [Kinds -> Text]
    <3>1. c.said[kind] \o text \in Text
      BY ConcatProperties DEF Converter, Text
    <3>2. c.said \in [Kinds -> Text]
      BY DEF Converter
    <3> QED
      BY <3>1, <3>2
  <2>3. delta \in EventOf(Deltas) /\ added \in EventOf(Deltas)
    <3>1. d.slots \in Seq(Kinds) /\ i \in DOMAIN d.slots
      BY <2>1 DEF Shape
    <3>2. i \in Nat /\ <<>> \in Text
      BY <3>1 DEF Text
    <3> HIDE DEF i
    <3> QED
      BY <3>2, ItemEventType DEF Deltas
  <2>4. SpeakEvents(c, kind, text) \in {<<delta>>, <<added, delta>>}
    BY <2>1 DEF Shape
  <2>5. SpeakEvents(c, kind, text) \in Seq(EventOf(Deltas))
    <3> HIDE DEF delta, added
    <3> QED
      BY <2>3, <2>4, ShortSequences
  <2>6. /\ d = [c EXCEPT !.said = said, !.slots = d.slots] /\ d.slots \in Seq(Kinds)
        /\ Distinct(d.slots) /\ d.slots # <<>>
    BY <2>1 DEF Shape
  <2> HIDE DEF d, said, i
  <2>7. d \in Converter /\ d.said = said
    BY <2>2, <2>6 DEF Converter
  <2> QED
    BY <1>2, <2>5, <2>6, <2>7 DEF d
<1> QED
  BY <1>1, <1>2

LEMMA DsmlType ==
    ASSUME NEW c \in Converter, NEW p \in Piece
    PROVE  LET r == DsmlPush(c, p)
           IN  /\ r.conv \in Converter /\ r.out \in Text
               /\ r.conv.slots = c.slots /\ r.conv.said = c.said
               /\ r.conv.finish = c.finish
<1> DEFINE w == c.withheld
<1>1. <<>> \in Text /\ <<p>> \in Text /\ w \in Text /\ Append(w, p) \in Text
  BY DEF Converter, Text
<1>2. ASSUME NEW t \in Text, NEW b \in BOOLEAN
      PROVE  /\ [c EXCEPT !.withheld = t, !.inDsml = b] \in Converter
             /\ [c EXCEPT !.withheld = t] \in Converter
  BY DEF Converter
<1>3. CASE ~opts.dsml
  BY <1>1, <1>3 DEF DsmlPush
<1>4. CASE opts.dsml /\ c.inDsml
  BY <1>1, <1>2, <1>4 DEF DsmlPush, Converter
<1>5. CASE opts.dsml /\ ~c.inDsml /\ p.kind \in {"half", "markup"}
  BY <1>1, <1>2, <1>5 DEF DsmlPush, Converter
<1>6. CASE opts.dsml /\ ~c.inDsml /\ p.kind \notin {"half", "markup"}
  BY <1>1, <1>2, <1>6 DEF DsmlPush, Converter
<1> QED
  BY <1>3, <1>4, <1>5, <1>6

LEMMA AddCallType ==
    ASSUME NEW calls \in Calls, NEW call \in Call, NEW p \in Piece
    PROVE  AddCall(calls, call, p) \in Calls
<1> DEFINE k == call.index
           old == IF k \in DOMAIN calls THEN calls[k] ELSE [named |-> FALSE, args |-> <<>>]
           new == [named |-> old.named \/ call.named, args |-> Append(old.args, p)]
           D == DOMAIN calls \cup {k}
           r == [i \in D |-> IF i = k THEN new ELSE calls[i]]
<1>1. /\ DOMAIN calls \in Indices /\ calls \in [DOMAIN calls -> CallState]
      /\ k \in Nat /\ call.named \in BOOLEAN
  BY CallsAre DEF Call
<1>2. old \in CallState
  BY <1>1 DEF CallState, Text
<1> HIDE DEF old
<1>3. new \in CallState
  <2>1. Append(old.args, p) \in Text /\ old.named \in BOOLEAN
    BY <1>2 DEF CallState, Text
  <2> QED
    BY <1>1, <2>1 DEF CallState
<1> HIDE DEF new
<1>4. D \in Indices
  <2>1. PICK b \in Nat : \A i \in DOMAIN calls : i < b
    BY <1>1 DEF Indices
  <2> DEFINE m == IF b <= k THEN k + 1 ELSE b
  <2>2. m \in Nat /\ D \subseteq Nat /\ \A i \in D : i < m
    BY <1>1, <2>1 DEF Indices
  <2> QED
    BY <2>2 DEF Indices
<1>5. r \in [D -> CallState]
  BY <1>1, <1>3
<1>6. r \in Calls
  BY <1>4, <1>5 DEF Calls
<1> QED
  BY <1>6 DEF AddCall, new, old

\* r is what the converter c becomes, and the events it makes, by saying some
\* reasoning and then some text.
Uttered(c, r) ==
    \E c1 \in Converter, thoughts, words \in Text :
      /\ c1.slots = c.slots /\ c1.said = c.said
      /\ LET c2 == Speak(c1, "reasoning", thoughts)
             c3 == Speak(c2, "message", words)
         IN  r.conv.slots = c3.slots /\ r.conv.said = c3.said
             /\ r.events = SpeakEvents(c1, "reasoning", thoughts)
                            \o SpeakEvents(c2, "message", words)

LEMMA OnChunkType ==
    ASSUME NEW c \in Converter, Distinct(c.slots), NEW k \in Chunk, NEW n \in 1..MaxChunks
    PROVE  LET r == OnChunk(c, k, n)
           IN  /\ r.conv \in Converter /\ Distinct(r.conv.slots)
               /\ Uttered(c, r)
               /\ r.conv.finish = (c.finish \/ k.finish)
<1> DEFINE p == [n |-> n, kind |-> k.content]
           native == IF k.reasoning THEN <<[n |-> n, kind |-> "native"]>> ELSE <<>>
           dsml == IF k.content = "none" THEN [conv |-> c, out |-> <<>>] ELSE DsmlPush(c, p)
           d == dsml.conv
           think == ThinkPush(d, dsml.out)
           c1 == [d EXCEPT !.inThink = think.inside]
           thoughts == native \o think.reasoning
           c2 == Speak(c1, "reasoning", thoughts)
           c3 == Speak(c2, "message", think.text)
           arg == [n |-> n, kind |-> "args"]
           calls == IF k.call = NoCall THEN c3.calls ELSE AddCall(c3.calls, k.call, arg)
           r == OnChunk(c, k, n)
<1>1. p \in Piece /\ arg \in Piece
  BY DEF Piece, Chunk
<1>2. native \in Text
  <2>1. [n |-> n, kind |-> "native"] \in Piece
    BY DEF Piece
  <2> QED
    BY <2>1, ShortSequences DEF Text
<1>3. /\ d \in Converter /\ dsml.out \in Text
      /\ d.slots = c.slots /\ d.said = c.said /\ d.finish = c.finish
  <2>1. <<>> \in Text
    BY DEF Text
  <2>2. CASE k.content = "none"
    BY <2>1, <2>2
  <2>3. CASE k.content # "none"
    BY <1>1, <2>3, DsmlType
  <2> QED
    BY <2>2, <2>3
<1>4. r = [conv |-> [c3 EXCEPT !.calls = calls, !.finish = @ \/ k.finish,
                               !.usage = IF k.usage THEN n ELSE @],
           events |-> SpeakEvents(c1, "reasoning", thoughts)
                        \o SpeakEvents(c2, "message", think.text)]
  BY DEF OnChunk
<1> HIDE DEF dsml, p, native, r, d, arg
<1>5. think \in ThinkState
  BY <1>3, ThinkType DEF Converter
<1> HIDE DEF think
<1>6. c1 \in Converter /\ c1.slots = c.slots /\ c1.said = c.said /\ c1.finish = c.finish
  BY <1>3, <1>5 DEF Converter, ThinkState
<1>7. thoughts \in Text /\ think.text \in Text
  BY <1>2, <1>5, ConcatProperties DEF Text, ThinkState
<1> HIDE DEF c1, thoughts
<1>8. /\ c2 \in Converter /\ Distinct(c2.slots)
      /\ c2 = [c1 EXCEPT !.said = c2.said, !.slots = c2.slots]
  BY <1>6, <1>7, SpeakType, Zenon DEF Kinds
<1>9. c2.finish = c.finish
  BY <1>6, <1>8 DEF Converter
<1> HIDE DEF c2
<1>10. /\ c3 \in Converter /\ Distinct(c3.slots)
       /\ c3 = [c2 EXCEPT !.said = c3.said, !.slots = c3.slots]
  BY <1>7, <1>8, SpeakType, Zenon DEF Kinds
<1>11. c3.finish = c.finish
  BY <1>8, <1>9, <1>10 DEF Converter
<1> HIDE DEF c3
<1>12. calls \in Calls
  <2>1. c3.calls \in Calls /\ k.call \in Call \cup {NoCall}
    BY <1>10 DEF Converter, Chunk
  <2> QED
    BY <1>1, <2>1, AddCallType
<1> HIDE DEF calls
<1>13. /\ r.conv \in Converter
       /\ r.conv.slots = c3.slots /\ r.conv.said = c3.said
       /\ r.conv.finish = (c.finish \/ k.finish)
  <2>1. k.finish \in BOOLEAN /\ n \in Nat
    BY DEF Chunk
  <2> QED
    BY <1>4, <1>10, <1>11, <1>12, <2>1 DEF Converter
<1>14. r.events = SpeakEvents(c1, "reasoning", thoughts)
                    \o SpeakEvents(c2, "message", think.text)
  BY <1>4
<1>15. Uttered(c, r)
  BY <1>6, <1>7, <1>13, <1>14 DEF Uttered, c2, c3
<1> QED
  BY <1>10, <1>13, <1>15 DEF r

LEMMA FlushHealType ==
    ASSUME NEW c \in Converter, Distinct(c.slots)
    PROVE  LET r == FlushHeal(c)
           IN  /\ r.conv \in Converter /\ Distinct(r.conv.slots)
               /\ Uttered(c, r)
               /\ r.conv.finish = c.finish
<1> DEFINE markup == IF c.inDsml THEN Leaked(c.withheld, TRUE) ELSE <<>>
           rest == IF c.inDsml THEN Leaked(c.withheld, FALSE) ELSE c.withheld
           think == ThinkPush(c, rest)
           c1 == [c EXCEPT !.withheld = <<>>, !.inDsml = FALSE, !.inThink = think.inside]
           c2 == Speak(c1, "reasoning", think.reasoning)
           c3 == Speak(c2, "message", think.text)
           base == Above(c.calls)
           top == base + Len(markup)
           healed == [i \in base..(base + Len(markup) - 1) |->
                        [named |-> TRUE, args |-> <<markup[i - base + 1]>>]]
           D == DOMAIN c.calls \cup DOMAIN healed
           calls == [i \in D |-> IF i \in DOMAIN c.calls THEN c.calls[i] ELSE healed[i]]
           r == FlushHeal(c)
<1>1. markup \in Text /\ rest \in Text
  <2>1. <<>> \in Text /\ c.withheld \in Text
    BY DEF Text, Converter
  <2> QED
    BY <2>1, LeakedType
<1>2. r = [conv |-> [c3 EXCEPT !.calls = calls],
           events |-> SpeakEvents(c1, "reasoning", think.reasoning)
                        \o SpeakEvents(c2, "message", think.text)]
  BY DEF FlushHeal
<1> HIDE DEF rest, markup, r
<1>3. think \in ThinkState
  BY <1>1, ThinkType DEF Converter
<1> HIDE DEF think
<1>4. /\ c1 \in Converter /\ c1.slots = c.slots /\ c1.said = c.said /\ c1.finish = c.finish
  <2>1. <<>> \in Text /\ think.inside \in BOOLEAN
    BY <1>3 DEF ThinkState, Text
  <2> QED
    BY <2>1 DEF Converter
<1>5. think.reasoning \in Text /\ think.text \in Text
  BY <1>3 DEF ThinkState
<1> HIDE DEF c1
<1>6. /\ c2 \in Converter /\ Distinct(c2.slots)
      /\ c2 = [c1 EXCEPT !.said = c2.said, !.slots = c2.slots]
  BY <1>4, <1>5, SpeakType, Zenon DEF Kinds
<1>7. c2.finish = c.finish
  BY <1>4, <1>6 DEF Converter
<1> HIDE DEF c2
<1>8. /\ c3 \in Converter /\ Distinct(c3.slots)
      /\ c3 = [c2 EXCEPT !.said = c3.said, !.slots = c3.slots]
  BY <1>5, <1>6, SpeakType, Zenon DEF Kinds
<1>9. c3.finish = c.finish
  BY <1>6, <1>7, <1>8 DEF Converter
<1> HIDE DEF c3
<1>10. /\ base \in Nat /\ Len(markup) \in Nat /\ top \in Nat /\ base <= top
       /\ \A i \in DOMAIN c.calls : i < base
  <2>1. c.calls \in Calls
    BY DEF Converter
  <2>2. base \in Nat /\ \A i \in DOMAIN c.calls : i < base
    BY <2>1, AboveType
  <2>3. Len(markup) \in Nat
    BY <1>1 DEF Text
  <2> HIDE DEF base
  <2> QED
    BY <2>2, <2>3
<1>11. c.calls \in [DOMAIN c.calls -> CallState] /\ DOMAIN c.calls \subseteq Nat
  <2>1. c.calls \in Calls
    BY DEF Converter
  <2> QED
    BY <2>1, CallsAre DEF Indices
<1>12. ASSUME NEW i \in base..(top - 1) PROVE healed[i] \in CallState /\ i \in Nat /\ i < top
  <2> HIDE DEF base
  <2>1. i - base + 1 \in 1..Len(markup) /\ i \in Nat /\ i < top
    BY <1>10
  <2>2. markup[i - base + 1] \in Piece
    BY <1>1, <2>1 DEF Text
  <2>3. <<markup[i - base + 1]>> \in Text
    BY <2>2 DEF Text
  <2>4. i \in base..(base + Len(markup) - 1)
    BY <1>10
  <2> QED
    BY <2>1, <2>3, <2>4 DEF CallState
<1>13. DOMAIN healed = base..(top - 1)
  <2> HIDE DEF base
  <2> QED
    BY <1>10
<1> HIDE DEF healed, base, top
<1>14. D \in Indices
  <2>1. D \subseteq Nat /\ \A i \in D : i < top
    BY <1>10, <1>11, <1>12, <1>13
  <2> QED
    BY <1>10, <2>1 DEF Indices
<1>15. calls \in [D -> CallState]
  BY <1>11, <1>12, <1>13
<1>16. calls \in Calls
  BY <1>14, <1>15 DEF Calls
<1> HIDE DEF calls
<1>17. /\ r.conv \in Converter
       /\ r.conv.slots = c3.slots /\ r.conv.said = c3.said /\ r.conv.finish = c.finish
  BY <1>2, <1>8, <1>9, <1>16 DEF Converter
<1>18. r.events = SpeakEvents(c1, "reasoning", think.reasoning)
                    \o SpeakEvents(c2, "message", think.text)
  BY <1>2
<1>19. Uttered(c, r)
  BY <1>4, <1>5, <1>17, <1>18 DEF Uttered, c2, c3
<1> QED
  BY <1>8, <1>17, <1>19 DEF r

LEMMA UtteredEvents ==
    ASSUME NEW c \in Converter, Distinct(c.slots), NEW r, Uttered(c, r)
    PROVE  /\ r.events \in Seq(EventOf(Deltas))
           /\ r.events = <<>> => r.conv.slots = c.slots
           /\ c.slots # <<>> \/ r.events # <<>> => r.conv.slots # <<>>
<1>1. PICK c1 \in Converter, thoughts \in Text, words \in Text :
        /\ c1.slots = c.slots /\ c1.said = c.said
        /\ LET c2 == Speak(c1, "reasoning", thoughts)
               c3 == Speak(c2, "message", words)
           IN  r.conv.slots = c3.slots /\ r.conv.said = c3.said
               /\ r.events = SpeakEvents(c1, "reasoning", thoughts)
                              \o SpeakEvents(c2, "message", words)
  BY DEF Uttered
<1> DEFINE c2 == Speak(c1, "reasoning", thoughts)
           c3 == Speak(c2, "message", words)
           q1 == SpeakEvents(c1, "reasoning", thoughts)
           q2 == SpeakEvents(c2, "message", words)
<1>2. ASSUME NEW x \in Converter, Distinct(x.slots), NEW kind \in Kinds, NEW text \in Text
      PROVE  /\ SpeakEvents(x, kind, text) = <<>> => Speak(x, kind, text).slots = x.slots
             /\ SpeakEvents(x, kind, text) # <<>> => Speak(x, kind, text).slots # <<>>
  <2>1. CASE text = <<>>
    BY <2>1 DEF Speak, SpeakEvents
  <2>2. CASE text # <<>>
    <3> DEFINE d == Speak(x, kind, text)
               i == Slot(d, kind)
               delta == ItemEvent("delta", i, kind, text)
               added == ItemEvent("added", i, kind, <<>>)
    <3>1. Shape(x, kind, text, d, i)
      BY <1>2, <2>2, SpeakShape
    <3>2. d.slots # <<>> /\ SpeakEvents(x, kind, text) \in {<<delta>>, <<added, delta>>}
      BY <3>1 DEF Shape
    <3>3. <<delta>> # <<>> /\ <<added, delta>> # <<>>
      <4> HIDE DEF delta, added
      <4> QED
        OBVIOUS
    <3> QED
      BY <3>2, <3>3
  <2> QED
    BY <2>1, <2>2
<1>3. /\ c2 \in Converter /\ Distinct(c2.slots) /\ q1 \in Seq(EventOf(Deltas))
      /\ c1.slots # <<>> => c2.slots # <<>>
  BY <1>1, SpeakType, Zenon DEF Kinds
<1>4. /\ q1 = <<>> => c2.slots = c1.slots
      /\ q1 # <<>> => c2.slots # <<>>
  BY <1>1, <1>2 DEF Kinds
<1> HIDE DEF c2, q1
<1>5. /\ q2 \in Seq(EventOf(Deltas))
      /\ c2.slots # <<>> => c3.slots # <<>>
  BY <1>3, SpeakType, Zenon DEF Kinds
<1>6. /\ q2 = <<>> => c3.slots = c2.slots
      /\ q2 # <<>> => c3.slots # <<>>
  BY <1>2, <1>3 DEF Kinds
<1>7. r.conv.slots = c3.slots /\ r.events = q1 \o q2
  BY <1>1 DEF c2, q1
<1> HIDE DEF c3, q2
<1>8. /\ r.events \in Seq(EventOf(Deltas))
      /\ r.events = <<>> <=> q1 = <<>> /\ q2 = <<>>
  <2> DEFINE S == EventOf(Deltas)
  <2> HIDE DEF S
  <2>1. q1 \in Seq(S) /\ q2 \in Seq(S)
    BY <1>3, <1>5 DEF S
  <2>2. q1 \o q2 \in Seq(S) /\ (q1 \o q2 = <<>> <=> q1 = <<>> /\ q2 = <<>>)
    BY <2>1, ConcatProperties, ConcatEqualIffEmpty
  <2> QED
    BY <1>7, <2>2 DEF S
<1> QED
  BY <1>1, <1>3, <1>4, <1>5, <1>6, <1>7, <1>8

-----------------------------------------------------------------------------
(* The finish sequence *)

LEMMA LiveType ==
    ASSUME NEW c \in Converter
    PROVE  LiveCalls(c) \in Seq(DOMAIN c.calls)
<1> DEFINE T == DOMAIN c.calls
           named == {i \in DOMAIN c.calls : c.calls[i].named}
           N == Above(c.calls)
           q == [j \in 1..N |-> IF j - 1 \in named THEN <<j - 1>> ELSE <<>>]
<1>1. N \in Nat
  <2>1. c.calls \in Calls
    BY DEF Converter
  <2> QED
    BY <2>1, AboveType
<1>2. LiveCalls(c) = FlattenSeq(q)
  BY DEF LiveCalls
<1>3. named \subseteq T
  OBVIOUS
<1> HIDE DEF N, T, named
<1>4. ASSUME NEW j \in 1..N PROVE q[j] \in Seq(T)
  BY <1>3
<1>5. q \in Seq(Seq(T))
  <2> DEFINE U == Seq(T)
  <2> HIDE DEF U
  <2>1. \A j \in 1..N : q[j] \in U
    BY <1>4 DEF U
  <2>2. q = [j \in 1..N |-> q[j]]
    OBVIOUS
  <2> HIDE DEF q
  <2>3. q \in [1..N -> U]
    BY <2>1, <2>2
  <2>4. q \in Seq(U)
    BY <1>1, <2>3, SeqDef
  <2> QED
    BY <2>4 DEF U
<1> HIDE DEF q
<1>6. FlattenSeq(q) \in Seq(T)
  BY <1>5, FlattenType
<1> QED
  BY <1>2, <1>6 DEF T

LEMMA ItemsType ==
    ASSUME NEW c \in Converter
    PROVE  /\ TextItems(c) \in Seq([kind : Kinds, data : Text])
           /\ Len(TextItems(c)) = Len(c.slots)
           /\ CallItems(c) \in Seq([kind : {"call"}, data : Text])
<1>1. TextItems(c) \in Seq([kind : Kinds, data : Text]) /\ Len(TextItems(c)) = Len(c.slots)
  <2> DEFINE S == [kind : Kinds, data : Text]
             f == TextItems(c)
  <2>1. /\ c.slots \in Seq(Kinds) /\ c.said \in [Kinds -> Text]
        /\ DOMAIN c.slots = 1..Len(c.slots) /\ Len(c.slots) \in Nat
    BY DEF Converter
  <2>2. f = [i \in 1..Len(c.slots) |-> f[i]] /\ \A i \in 1..Len(c.slots) : f[i] \in S
    BY <2>1 DEF TextItems
  <2> HIDE DEF S, f
  <2>3. f \in [1..Len(c.slots) -> S]
    BY <2>2
  <2>4. f \in Seq(S) /\ Len(f) = Len(c.slots)
    BY <2>1, <2>3, SeqDef
  <2> QED
    BY <2>4 DEF S, f
<1>2. CallItems(c) \in Seq([kind : {"call"}, data : Text])
  <2> DEFINE S == [kind : {"call"}, data : Text]
             f == CallItems(c)
             live == LiveCalls(c)
             T == DOMAIN c.calls
  <2>1. live \in Seq(T) /\ DOMAIN live = 1..Len(live) /\ Len(live) \in Nat
    <3>1. live \in Seq(T)
      BY LiveType
    <3> HIDE DEF live, T
    <3> QED
      BY <3>1
  <2>2. f = [j \in DOMAIN live |-> [kind |-> "call", data |-> c.calls[live[j]].args]]
    BY DEF CallItems
  <2>3. c.calls \in [T -> CallState]
    BY CallsAre DEF Converter
  <2> HIDE DEF live, f, T
  <2>4. ASSUME NEW j \in 1..Len(live) PROVE f[j] \in S
    <3>1. live[j] \in T
      BY <2>1
    <3>2. c.calls[live[j]] \in CallState
      BY <2>3, <3>1
    <3> QED
      BY <2>1, <2>2, <3>2 DEF CallState
  <2>5. f = [j \in 1..Len(live) |-> f[j]]
    BY <2>1, <2>2
  <2> HIDE DEF S
  <2>6. f \in Seq(S)
    BY <2>1, <2>4, <2>5, SeqDef
  <2> QED
    BY <2>6 DEF S, f
<1> QED
  BY <1>1, <1>2

Progress == {"added", "delta", "done"}

LEMMA DoneEventsType ==
    ASSUME NEW texts \in Seq([kind : Kinds, data : Text])
    PROVE  /\ DoneEvents(texts) \in Seq(EventOf(Progress))
           /\ Len(DoneEvents(texts)) = Len(texts)
           /\ \A i \in 1..Len(texts) :
                DoneEvents(texts)[i] = ItemEvent("done", i, texts[i].kind, texts[i].data)
<1> DEFINE T == [kind : Kinds, data : Text]
           S == EventOf(Progress)
           f == DoneEvents(texts)
<1>1. DOMAIN texts = 1..Len(texts) /\ Len(texts) \in Nat /\ \A i \in 1..Len(texts) : texts[i] \in T
  <2>1. texts \in Seq(T)
    OBVIOUS
  <2> HIDE DEF T
  <2> QED
    BY <2>1
<1>2. f = [i \in DOMAIN texts |-> ItemEvent("done", i, texts[i].kind, texts[i].data)]
  BY DEF DoneEvents
<1> HIDE DEF f
<1>3. ASSUME NEW i \in 1..Len(texts)
      PROVE  f[i] = ItemEvent("done", i, texts[i].kind, texts[i].data) /\ f[i] \in S
  <2>1. f[i] = ItemEvent("done", i, texts[i].kind, texts[i].data)
    BY <1>1, <1>2
  <2>2. texts[i].kind \in Kinds /\ texts[i].data \in Text /\ i \in Nat /\ "done" \in Progress
    BY <1>1 DEF Progress
  <2> QED
    BY <2>1, <2>2, ItemEventType
<1>4. f = [i \in 1..Len(texts) |-> f[i]]
  BY <1>1, <1>2
<1> HIDE DEF S
<1>5. f \in [1..Len(texts) -> S]
  BY <1>3, <1>4
<1>6. f \in Seq(S) /\ Len(f) = Len(texts)
  BY <1>1, <1>5, SeqDef
<1> QED
  BY <1>3, <1>6 DEF f, S

\* The three events of the j-th call.
Triple(base, calls, j) ==
    << ItemEvent("added", base + j, "call", <<>>),
       ItemEvent("delta", base + j, "call", calls[j].data),
       ItemEvent("done", base + j, "call", calls[j].data) >>

Triples(base, calls) == [j \in DOMAIN calls |-> Triple(base, calls, j)]

LEMMA TriplesType ==
    ASSUME NEW base \in Nat, NEW calls \in Seq([kind : {"call"}, data : Text])
    PROVE  /\ CallEvents(base, calls) = FlattenSeq(Triples(base, calls))
           /\ Triples(base, calls) \in Seq(Seq(EventOf(Progress)))
           /\ Len(Triples(base, calls)) = Len(calls)
           /\ \A j \in 1..Len(calls) : Triples(base, calls)[j] = Triple(base, calls, j)
           /\ CallEvents(base, calls) \in Seq(EventOf(Progress))
<1> DEFINE T == [kind : {"call"}, data : Text]
           S == EventOf(Progress)
           q == Triples(base, calls)
           U == Seq(S)
<1>1. DOMAIN calls = 1..Len(calls) /\ Len(calls) \in Nat /\ \A i \in 1..Len(calls) : calls[i] \in T
  <2>1. calls \in Seq(T)
    OBVIOUS
  <2> HIDE DEF T
  <2> QED
    BY <2>1
<1>2. q = [j \in DOMAIN calls |-> Triple(base, calls, j)]
  BY DEF Triples
<1>3. CallEvents(base, calls) = FlattenSeq(q)
  BY DEF CallEvents, Triples, Triple
<1> HIDE DEF q
<1>4. ASSUME NEW j \in 1..Len(calls) PROVE q[j] = Triple(base, calls, j) /\ q[j] \in U
  <2> DEFINE a == ItemEvent("added", base + j, "call", <<>>)
             b == ItemEvent("delta", base + j, "call", calls[j].data)
             d == ItemEvent("done", base + j, "call", calls[j].data)
  <2>1. calls[j].data \in Text /\ <<>> \in Text /\ base + j \in Nat
    BY <1>1 DEF Text
  <2>2. a \in S /\ b \in S /\ d \in S
    BY <2>1, ItemEventType DEF Progress
  <2>3. Triple(base, calls, j) = <<a, b, d>>
    BY DEF Triple
  <2> HIDE DEF a, b, d, S
  <2>4. <<a, b, d>> \in Seq(S)
    BY <2>2
  <2> QED
    BY <1>1, <1>2, <2>3, <2>4
<1>5. q = [i \in 1..Len(calls) |-> q[i]]
  BY <1>1, <1>2
<1> HIDE DEF U
<1>6. q \in [1..Len(calls) -> U]
  BY <1>4, <1>5
<1>7. q \in Seq(U) /\ Len(q) = Len(calls)
  BY <1>1, <1>6, SeqDef
<1> HIDE DEF S
<1>8. FlattenSeq(q) \in Seq(S)
  BY <1>7, FlattenType DEF U
<1> QED
  BY <1>3, <1>4, <1>7, <1>8 DEF q, S, U

Final(c) == [Event("completed") EXCEPT !.output = TextItems(c) \o CallItems(c),
                                       !.usage = c.usage]
Canonical(c) ==
    LET order == CanonicalOrder(c)
    IN  [i \in DOMAIN order |-> [kind |-> order[i], data |-> c.said[order[i]]]]

LEMMA FinalIs ==
    ASSUME NEW c \in Converter
    PROVE  /\ Final(c) \in EventOf({"completed"})
           /\ Final(c).type = "completed"
           /\ Final(c).output = TextItems(c) \o CallItems(c)
<1> DEFINE out == TextItems(c) \o CallItems(c)
           e == Event("completed")
<1>1. out \in Seq(Item)
  <2>1. TextItems(c) \in Seq(Item) /\ CallItems(c) \in Seq(Item)
    <3> DEFINE A == [kind : Kinds, data : Text]
               B == [kind : {"call"}, data : Text]
    <3>1. A \subseteq Item /\ B \subseteq Item
      BY DEF Item
    <3>2. TextItems(c) \in Seq(A) /\ CallItems(c) \in Seq(B)
      BY ItemsType
    <3> HIDE DEF A, B
    <3> QED
      BY <3>1, <3>2, SeqMonotonic
  <2> QED
    BY <2>1, ConcatProperties
<1>2. e = [type |-> "completed", idx |-> 0, kind |-> "none", data |-> <<>>, output |-> <<>>,
           usage |-> 0]
  BY DEF Event
<1>3. Final(c) = [e EXCEPT !.output = out, !.usage = c.usage]
  BY DEF Final
<1> HIDE DEF out, e
<1>4. Final(c) = [type |-> "completed", idx |-> 0, kind |-> "none", data |-> <<>>,
                  output |-> out, usage |-> c.usage]
  BY <1>2, <1>3
<1>5. c.usage \in Nat /\ <<>> \in Text
  BY DEF Converter, Text
<1> QED
  BY <1>1, <1>4, <1>5 DEF EventOf, out

LEMMA CanonicalType ==
    ASSUME NEW c \in Converter
    PROVE  Canonical(c) \in Seq([kind : Kinds, data : Text])
<1> DEFINE S == [kind : Kinds, data : Text]
           order == CanonicalOrder(c)
           f == Canonical(c)
<1>1. order \in Seq(Kinds)
  <2> DEFINE only(kind) == IF kind \in ToSet(c.slots) THEN <<kind>> ELSE <<>>
  <2>1. order = only("reasoning") \o only("message")
    BY DEF CanonicalOrder
  <2>2. only("reasoning") \in Seq(Kinds) /\ only("message") \in Seq(Kinds)
    <3>1. "reasoning" \in Kinds /\ "message" \in Kinds
      BY DEF Kinds
    <3> HIDE DEF Kinds
    <3> QED
      BY <3>1, ShortSequences
  <2> HIDE DEF only
  <2> QED
    BY <2>1, <2>2, ConcatProperties
<1>2. f = [i \in DOMAIN order |-> [kind |-> order[i], data |-> c.said[order[i]]]]
  BY DEF Canonical
<1> HIDE DEF order, f
<1>3. DOMAIN order = 1..Len(order) /\ Len(order) \in Nat
  BY <1>1
<1>4. ASSUME NEW i \in 1..Len(order) PROVE f[i] \in S
  <2>1. order[i] \in Kinds /\ c.said \in [Kinds -> Text]
    BY <1>1 DEF Converter
  <2> QED
    BY <1>2, <1>3, <2>1
<1>5. f = [i \in 1..Len(order) |-> f[i]]
  BY <1>2, <1>3
<1> HIDE DEF S
<1>6. f \in Seq(S)
  BY <1>3, <1>4, <1>5, SeqDef
<1> QED
  BY <1>6 DEF f, S

LEMMA FinishType ==
    ASSUME NEW c \in Converter
    PROVE  LET r == EmitFinish(c)
           IN  /\ r.conv \in Converter
               /\ r.conv.slots = c.slots /\ r.conv.finish = c.finish
               /\ r.conv.items = Canonical(c) \o CallItems(c)
               /\ r.events = DoneEvents(TextItems(c))
                               \o CallEvents(Len(TextItems(c)), CallItems(c)) \o <<Final(c)>>
<1> DEFINE items == Canonical(c) \o CallItems(c)
           r == EmitFinish(c)
<1>1. items \in Seq(Item)
  <2> DEFINE A == [kind : Kinds, data : Text]
             B == [kind : {"call"}, data : Text]
  <2>1. A \subseteq Item /\ B \subseteq Item
    BY DEF Item
  <2>2. Canonical(c) \in Seq(A) /\ CallItems(c) \in Seq(B)
    BY ItemsType, CanonicalType
  <2> HIDE DEF A, B
  <2>3. Canonical(c) \in Seq(Item) /\ CallItems(c) \in Seq(Item)
    BY <2>1, <2>2, SeqMonotonic
  <2> QED
    BY <2>3, ConcatProperties
<1>2. r = [conv |-> [c EXCEPT !.items = items],
           events |-> DoneEvents(TextItems(c))
                        \o CallEvents(Len(TextItems(c)), CallItems(c)) \o <<Final(c)>>]
  BY DEF EmitFinish, Canonical, Final
<1> DEFINE d == [c EXCEPT !.items = items]
<1> HIDE DEF r, items
<1>3. [c EXCEPT !.items = items] \in Converter
  BY <1>1 DEF Converter
<1>4. /\ [c EXCEPT !.items = items].items = items
      /\ [c EXCEPT !.items = items].slots = c.slots
      /\ [c EXCEPT !.items = items].finish = c.finish
  BY DEF Converter
<1> HIDE DEF d
<1>5. r.conv = d /\ r.events = DoneEvents(TextItems(c))
                        \o CallEvents(Len(TextItems(c)), CallItems(c)) \o <<Final(c)>>
  BY <1>2 DEF d
<1>6. d \in Converter /\ d.items = items /\ d.slots = c.slots /\ d.finish = c.finish
  BY <1>3, <1>4 DEF d
<1> QED
  BY <1>5, <1>6 DEF r, items

Types == {"created", "added", "delta", "done", "completed", "error", "failed"}
Ev == EventOf(Types)

LEMMA EventOfSmaller ==
    ASSUME NEW a, NEW b, a \subseteq b
    PROVE  /\ EventOf(a) \subseteq EventOf(b)
           /\ \A q \in Seq(EventOf(a)) : q \in Seq(EventOf(b))
<1>1. EventOf(a) \subseteq EventOf(b)
  BY DEF EventOf
<1> QED
  BY <1>1, SeqMonotonic

\* A batch that closes the turn.
Closing(q) ==
    /\ q # <<>>
    /\ \A i \in 1..Len(q) : /\ q[i].type \in Progress \cup {"completed"}
                            /\ q[i].type = "completed" <=> i = Len(q)

LEMMA ClosingBatch ==
    ASSUME NEW c \in Converter, Distinct(c.slots)
    PROVE  LET flushed == FlushHeal(c)
               final == EmitFinish(flushed.conv)
               q == flushed.events \o final.events
           IN  /\ final.conv \in Converter /\ Distinct(final.conv.slots)
               /\ final.conv.finish = c.finish
               /\ q \in Seq(Ev) /\ Closing(q)
               /\ c.slots # <<>> => Head(q).type # "completed"
               /\ q[Len(q)] = Final(flushed.conv)
<1> DEFINE flushed == FlushHeal(c)
           d == flushed.conv
           final == EmitFinish(d)
           done == DoneEvents(TextItems(d))
           calls == CallEvents(Len(TextItems(d)), CallItems(d))
           e == Final(d)
           S == EventOf(Progress)
           q == flushed.events \o final.events
           body == (flushed.events \o done) \o calls
<1>1. d \in Converter /\ Distinct(d.slots) /\ Uttered(c, flushed) /\ d.finish = c.finish
  BY FlushHealType
<1> HIDE DEF flushed
<1>2. /\ flushed.events \in Seq(EventOf(Deltas))
      /\ c.slots # <<>> \/ flushed.events # <<>> => d.slots # <<>>
  BY <1>1, UtteredEvents
<1> HIDE DEF d
<1>3. /\ final.conv \in Converter /\ final.conv.slots = d.slots /\ final.conv.finish = d.finish
      /\ final.events = done \o calls \o <<e>>
  BY <1>1, FinishType
<1>4. /\ TextItems(d) \in Seq([kind : Kinds, data : Text])
      /\ Len(TextItems(d)) = Len(d.slots) /\ Len(d.slots) \in Nat
      /\ CallItems(d) \in Seq([kind : {"call"}, data : Text])
      /\ d.slots # <<>> => Len(d.slots) # 0
  <2>1. d.slots \in Seq(Kinds)
    BY <1>1 DEF Converter
  <2> QED
    BY <1>1, <2>1, ItemsType, EmptySeq, LenProperties
<1>5. done \in Seq(S) /\ Len(done) = Len(d.slots)
  BY <1>4, DoneEventsType
<1>6. calls \in Seq(S)
  BY <1>4, TriplesType
<1>7. flushed.events \in Seq(S)
  BY <1>2, EventOfSmaller DEF Deltas, Progress
<1>8. e \in EventOf({"completed"}) /\ e.type = "completed"
  BY <1>1, FinalIs
<1> HIDE DEF done, calls, e, final
<1>9. S \subseteq Ev /\ e \in Ev
  BY <1>8, EventOfSmaller DEF Ev, Types, Progress
<1>10. \A x \in S : x.type \in Progress /\ x.type # "completed"
  BY DEF EventOf, Progress
<1> HIDE DEF S
<1>11. q = flushed.events \o ((done \o calls) \o <<e>>)
  BY <1>3
<1> DEFINE p == flushed.events
<1> HIDE DEF q, body, p
<1>12. /\ body \in Seq(S) /\ Len(body) = (Len(p) + Len(done)) + Len(calls)
       /\ q \in Seq(Ev) /\ Len(q) = Len(body) + 1
       /\ \A i \in 1..Len(body) : q[i] = body[i]
       /\ q[Len(body) + 1] = e
  <2> DEFINE pd == p \o done
             dc == done \o calls
  <2>1. p \in Seq(S) /\ body = pd \o calls /\ q = p \o (dc \o <<e>>)
    BY <1>7, <1>11 DEF p, body
  <2>2. pd \in Seq(S) /\ Len(pd) = Len(p) + Len(done)
    BY <1>5, <2>1, ConcatProperties
  <2>3. p \in Seq(Ev) /\ done \in Seq(Ev) /\ calls \in Seq(Ev) /\ <<e>> \in Seq(Ev)
    BY <1>5, <1>6, <1>9, <2>1, SeqMonotonic, ShortSequences
  <2>4. dc \in Seq(Ev)
    BY <2>3, ConcatProperties
  <2>5. p \o dc = pd \o calls
    BY <2>3, ConcatAssociative
  <2> HIDE DEF pd, dc
  <2>6. body \in Seq(S) /\ Len(body) = Len(pd) + Len(calls)
    BY <1>6, <2>1, <2>2, ConcatProperties
  <2>7. body \in Seq(Ev)
    BY <1>9, <2>6, SeqMonotonic
  <2>8. q = (p \o dc) \o <<e>>
    BY <2>1, <2>3, <2>4, ConcatAssociative
  <2>9. body \o <<e>> = Append(body, e)
    BY <1>9, <2>7, AppendIsConcat
  <2>10. q = Append(body, e)
    BY <2>1, <2>5, <2>8, <2>9
  <2>11. /\ q \in Seq(Ev) /\ Len(q) = Len(body) + 1
         /\ \A i \in 1..Len(body) : q[i] = body[i]
         /\ q[Len(body) + 1] = e
    BY <1>9, <2>7, <2>10, AppendProperties
  <2> QED
    BY <2>2, <2>6, <2>11
<1>13. /\ Len(body) \in Nat /\ \A i \in 1..Len(body) : body[i] \in S
       /\ Len(done) \in Nat /\ Len(calls) \in Nat /\ Len(p) \in Nat
  BY <1>5, <1>6, <1>7, <1>12, LenProperties, ElementOfSeq DEF p
<1>14. q # <<>>
  BY <1>12, <1>13
<1>15. ASSUME NEW i \in 1..Len(q)
       PROVE  /\ q[i].type \in Progress \cup {"completed"}
              /\ q[i].type = "completed" <=> i = Len(q)
  <2>1. CASE i = Len(q)
    BY <1>8, <1>12, <2>1
  <2>2. CASE i # Len(q)
    <3>1. i \in 1..Len(body) /\ q[i] \in S
      BY <1>12, <1>13, <2>2
    <3> QED
      BY <1>10, <2>2, <3>1
  <2> QED
    BY <2>1, <2>2
<1>16. c.slots # <<>> => Head(q).type # "completed"
  <2>1. SUFFICES ASSUME c.slots # <<>> PROVE Head(q).type # "completed"
    OBVIOUS
  <2>2. Len(body) # 0
    BY <1>2, <1>4, <1>5, <1>12, <1>13, <2>1
  <2>3. 1 \in 1..Len(q) /\ 1 # Len(q)
    BY <1>12, <1>13, <2>2
  <2>4. Head(q) = q[1]
    BY <1>12, <1>14
  <2> QED
    BY <1>15, <2>3, <2>4
<1>17. Closing(q)
  BY <1>14, <1>15 DEF Closing
<1>18. q[Len(q)] = e
  BY <1>12
<1> QED
  BY <1>1, <1>3, <1>12, <1>16, <1>17, <1>18 DEF q, e, final, d, flushed

-----------------------------------------------------------------------------
(* Types *)

TypeInv ==
    /\ TypeOK
    /\ conv \in Converter /\ Distinct(conv.slots)
    /\ todo \in Seq(Ev) /\ sent \in Seq(Ev)

LEMMA EventType ==
    ASSUME NEW type \in Types
    PROVE  Event(type) \in Ev /\ Event(type).type = type
<1>1. <<>> \in Text /\ <<>> \in Seq(Item)
  BY DEF Text
<1>2. Event(type) = [type |-> type, idx |-> 0, kind |-> "none", data |-> <<>>,
                     output |-> <<>>, usage |-> 0]
  BY DEF Event
<1> HIDE DEF Types
<1> QED
  BY <1>1, <1>2 DEF Ev, EventOf

LEMMA FixedEvents ==
    /\ Created \in Ev /\ Created.type = "created"
    /\ ErrorEvents = <<Event("error"), Event("failed")>>
    /\ Event("error") \in Ev /\ Event("error").type = "error"
    /\ Event("failed") \in Ev /\ Event("failed").type = "failed"
    /\ ErrorEvents \in Seq(Ev) /\ ErrorEvents # <<>>
<1>1. Created \in Ev /\ Created.type = "created"
  BY EventType DEF Created, Types
<1> DEFINE a == Event("error")
           b == Event("failed")
<1>2. a \in Ev /\ a.type = "error" /\ b \in Ev /\ b.type = "failed"
  BY EventType DEF Types
<1>3. ErrorEvents = <<a, b>>
  BY DEF ErrorEvents
<1> HIDE DEF a, b
<1>4. <<a, b>> \in Seq(Ev) /\ <<a, b>> # <<>>
  BY <1>2, ShortSequences
<1> QED
  BY <1>1, <1>2, <1>3, <1>4 DEF a, b

LEMMA TypeInit == Init => TypeInv
<1> SUFFICES ASSUME Init PROVE TypeInv
  OBVIOUS
<1>1. conv \in Converter /\ Distinct(conv.slots)
  <2>1. <<>> \in Text /\ <<>> \in Seq(Kinds) /\ <<>> \in Seq(Item)
    BY DEF Text
  <2>2. conv.slots = <<>> /\ Distinct(<<>>)
    BY DEF Init, NewConverter, Distinct
  <2>3. <<>> \in Calls
    <3> DEFINE D == {i \in Nat : FALSE}
               f == [i \in D |-> [named |-> FALSE, args |-> <<>>]]
    <3>1. D \in Indices
      BY DEF Indices
    <3>2. f \in [D -> CallState]
      OBVIOUS
    <3>3. f \in Calls
      BY <3>1, <3>2 DEF Calls
    <3>4. f = <<>>
      OBVIOUS
    <3> QED
      BY <3>3, <3>4
  <2>4. [k \in {"reasoning", "message"} |-> <<>>] \in [Kinds -> Text]
    BY <2>1 DEF Kinds
  <2> QED
    BY <2>1, <2>2, <2>3, <2>4 DEF Init, NewConverter, Converter
<1>2. \A kind \in {"reasoning", "message"} : conv.said[kind] \in Text
  BY <1>1 DEF Converter, Kinds
<1>3. conv.withheld \in Text
  BY <1>1 DEF Converter
<1>4. todo = <<Created>> /\ <<Created>> # <<>> /\ todo \in Seq(Ev)
  <2>1. <<Created>> \in Seq(Ev)
    BY FixedEvents, ShortSequences
  <2> QED
    BY <2>1 DEF Init
<1>5. TypeOK
  BY <1>2, <1>3, <1>4, StreamAssumption DEF Init, TypeOK, Sending
<1>6. sent \in Seq(Ev)
  BY DEF Init
<1> QED
  BY <1>1, <1>4, <1>5, <1>6 DEF TypeInv

\* The parts of TypeOK that are not about the converter.
Rest ==
    /\ opts \in Options
    /\ upstream \in {"live", "stalled", "done", "closed"}
    /\ fed \in Seq(Chunks) /\ Len(fed) <= MaxChunks
    /\ waited \in 0..Idle
    /\ pc \in {"opening", "relaying", "reading", "ended", "closing", "recording", "failing",
               "saving", "over"}
    /\ Sending <=> todo # <<>>
    /\ read \in 0..Len(sent) /\ Len(sent) - read <= Buffer
    /\ client \in {"reading", "gone"}
    /\ flags \subseteq {"done", "completed", "disconnected", "timeout"}
    /\ outcome \in {"none", "empty", "timeout", "truncated"}

LEMMA TypesAre ==
    TypeInv <=> /\ Rest /\ conv \in Converter /\ Distinct(conv.slots)
                /\ todo \in Seq(Ev) /\ sent \in Seq(Ev)
BY DEF TypeInv, TypeOK, Rest, Converter, Kinds

LEMMA TypeStep == TypeInv /\ [Next]_vars => TypeInv'
<1> SUFFICES ASSUME TypeInv, [Next]_vars PROVE TypeInv'
  OBVIOUS
<1>1. /\ Rest /\ conv \in Converter /\ Distinct(conv.slots)
      /\ todo \in Seq(Ev) /\ sent \in Seq(Ev)
  BY TypesAre
<1>2. SUFFICES /\ Rest' /\ conv' \in Converter /\ Distinct(conv'.slots)
               /\ todo' \in Seq(Ev) /\ sent' \in Seq(Ev)
  BY DEF TypeInv, TypeOK, Rest, Converter, Kinds
<1>3. Len(sent) \in Nat /\ Buffer \in Nat \ {0} /\ Idle \in Nat \ {0} /\ MaxChunks \in Nat
  BY <1>1, StreamAssumption, LenProperties
<1>4. Sending => Head(todo) \in Ev /\ Tail(todo) \in Seq(Ev)
  BY <1>1, HeadTailProperties DEF Rest
<1>5. ASSUME NEW e PROVE Noticed(e) \subseteq {"completed"}
  BY DEF Noticed
<1>6. CASE SendEvent
  <2>1. sent' = Append(sent, Head(todo)) /\ todo' = Tail(todo) /\ Sending /\ HasRoom
    BY <1>6 DEF SendEvent
  <2>2. sent' \in Seq(Ev) /\ Len(sent') = Len(sent) + 1 /\ todo' \in Seq(Ev)
    BY <1>1, <1>4, <2>1, AppendProperties
  <2>3. read' \in 0..Len(sent') /\ Len(sent') - read' <= Buffer
    BY <1>1, <1>3, <1>6, <2>1, <2>2, SMTT(30) DEF Rest, SendEvent, HasRoom
  <2>4. /\ pc' \in {"opening", "relaying", "reading", "ended", "closing", "recording",
                    "failing", "saving", "over"}
        /\ Sending' <=> todo' # <<>>
    BY <1>6 DEF SendEvent, AfterBatch, Sending
  <2>5. flags' \subseteq {"done", "completed", "disconnected", "timeout"}
    BY <1>1, <1>5, <1>6 DEF SendEvent, Rest
  <2> QED
    BY <1>1, <1>6, <2>2, <2>3, <2>4, <2>5 DEF SendEvent, Rest
<1>7. CASE SendFails
  <2>1. /\ pc' \in {"opening", "relaying", "reading", "ended", "closing", "recording",
                    "failing", "saving", "over"}
        /\ Sending' <=> todo' # <<>>
        /\ todo' = <<>>
    BY <1>7 DEF SendFails, AfterLoss, Sending
  <2>2. flags' \subseteq {"done", "completed", "disconnected", "timeout"}
    BY <1>1, <1>5, <1>7 DEF SendFails, Rest
  <2>3. todo' \in Seq(Ev)
    BY <2>1
  <2> QED
    BY <1>1, <1>7, <2>1, <2>2, <2>3 DEF SendFails, Rest
<1>8. CASE IdleTimeout
  BY <1>1, <1>8 DEF IdleTimeout, Rest, Sending
<1>9. CASE Finish
  <2>1. CASE FinishAllowed /\ conv.finish
    <3> DEFINE flushed == FlushHeal(conv)
               final == EmitFinish(flushed.conv)
               q == flushed.events \o final.events
    <3>1. /\ final.conv \in Converter /\ Distinct(final.conv.slots)
          /\ q \in Seq(Ev) /\ q # <<>>
      BY <1>1, ClosingBatch DEF Closing
    <3>2. conv' = final.conv /\ todo' = q /\ pc' = "closing"
      BY <1>9, <2>1 DEF Finish
    <3> HIDE DEF flushed, final, q
    <3> QED
      BY <1>1, <1>9, <3>1, <3>2 DEF Finish, Rest, Sending
  <2>2. CASE ~(FinishAllowed /\ conv.finish)
    BY <1>1, <1>9, <2>2 DEF Finish, Rest, Sending
  <2> QED
    BY <2>1, <2>2
<1>10. CASE Record
  BY <1>1, <1>10, FixedEvents DEF Record, Rest, Sending, ErrorClass
<1>11. CASE SaveSession
  BY <1>1, <1>11 DEF SaveSession, Rest, Sending
<1>12. CASE ReadDone
  BY <1>1, <1>12 DEF ReadDone, Rest, Sending
<1>13. CASE ReadEnd
  BY <1>1, <1>13 DEF ReadEnd, Rest, Sending
<1>14. CASE Stall
  BY <1>1, <1>14 DEF Stall, Rest, Sending
<1>15. ASSUME NEW k \in Chunks, ReadChunk(k)
       PROVE  /\ Rest' /\ conv' \in Converter /\ Distinct(conv'.slots)
              /\ todo' \in Seq(Ev) /\ sent' \in Seq(Ev)
  <2> DEFINE n == Len(fed) + 1
             r == OnChunk(conv, k, n)
  <2>1. fed' \in Seq(Chunks) /\ Len(fed') = n /\ n \in 1..MaxChunks
    BY <1>1, <1>3, <1>15 DEF ReadChunk, Rest
  <2>2. k \in Chunk
    BY StreamAssumption
  <2>3. r.conv \in Converter /\ Distinct(r.conv.slots) /\ Uttered(conv, r)
    BY <1>1, <2>1, <2>2, OnChunkType
  <2>4. /\ conv' = r.conv /\ todo' = r.events
        /\ pc' = IF r.events = <<>> THEN "reading" ELSE "relaying"
    BY <1>15 DEF ReadChunk
  <2> HIDE DEF r
  <2>5. r.events \in Seq(Ev)
    <3>1. r.events \in Seq(EventOf(Deltas))
      BY <1>1, <2>3, UtteredEvents
    <3>2. Deltas \subseteq Types
      BY DEF Deltas, Types
    <3> QED
      BY <3>1, <3>2, EventOfSmaller DEF Ev
  <2> QED
    BY <1>1, <1>3, <1>15, <2>1, <2>3, <2>4, <2>5 DEF ReadChunk, Rest, Sending
<1>16. CASE Tick
  BY <1>1, <1>3, <1>16 DEF Tick, Rest, Sending
<1>17. CASE Receive
  BY <1>1, <1>3, <1>17 DEF Receive, Rest, Sending
<1>18. CASE Disconnect
  BY <1>1, <1>18 DEF Disconnect, Rest, Sending
<1>19. CASE UNCHANGED vars
  BY <1>1, <1>19 DEF vars, Rest, Sending
<1> QED
  BY <1>6, <1>7, <1>8, <1>9, <1>10, <1>11, <1>12, <1>13, <1>14, <1>15, <1>16, <1>17, <1>18,
     <1>19 DEF Next, Task, Upstream

\* The state is well formed, and the channel within its capacity.
THEOREM TypesHold == Spec => []TypeInv
BY TypeInit, TypeStep, PTL DEF Spec

-----------------------------------------------------------------------------
(* Verdicts *)

Has(s, type) == \E i \in 1..Len(s) : s[i].type = type

LEMMA HasAppend ==
    ASSUME NEW s \in Seq(Ev), NEW e \in Ev, NEW type
    PROVE  Has(Append(s, e), type) <=> Has(s, type) \/ e.type = type
<1> DEFINE r == Append(s, e)
<1>1. /\ Len(s) \in Nat /\ Len(r) = Len(s) + 1
      /\ \A i \in 1..Len(s) : r[i] = s[i]
      /\ r[Len(s) + 1] = e
  BY AppendProperties, LenProperties
<1> HIDE DEF r
<1>2. /\ \A i \in 1..Len(r) : i \in 1..Len(s) \/ i = Len(s) + 1
      /\ \A i \in 1..Len(s) : i \in 1..Len(r)
      /\ Len(s) + 1 \in 1..Len(r)
  BY <1>1
<1>3. Has(r, type) <=> Has(s, type) \/ e.type = type
  BY <1>1, <1>2 DEF Has
<1> QED
  BY <1>3 DEF r

LEMMA TailFacts ==
    ASSUME NEW q \in Seq(Ev), q # <<>>
    PROVE  /\ Len(q) \in Nat \ {0} /\ Head(q) = q[1] /\ Tail(q) \in Seq(Ev)
           /\ Len(Tail(q)) = Len(q) - 1
           /\ \A i \in 1..Len(Tail(q)) : i + 1 \in 1..Len(q) /\ Tail(q)[i] = q[i + 1]
           /\ Tail(q) = <<>> <=> Len(q) = 1
<1>1. Len(q) \in Nat \ {0} /\ Head(q) = q[1]
  BY EmptySeq
<1>2. /\ Tail(q) \in Seq(Ev) /\ Len(Tail(q)) = Len(q) - 1
      /\ \A i \in 1..Len(Tail(q)) : Tail(q)[i] = q[i + 1]
  BY HeadTailProperties
<1>3. Tail(q) = <<>> <=> Len(Tail(q)) = 0
  BY <1>2, EmptySeq
<1> DEFINE n == Len(q)
           t == Tail(q)
<1> HIDE DEF t, n
<1>4. \A i \in 1..Len(t) : i + 1 \in 1..n
  BY <1>1, <1>2 DEF t, n
<1> QED
  BY <1>1, <1>2, <1>3, <1>4 DEF t, n

LEMMA ClosingTail ==
    ASSUME NEW q \in Seq(Ev), Closing(q)
    PROVE  /\ Tail(q) # <<>> => Closing(Tail(q)) /\ Head(q).type # "completed"
           /\ Tail(q) = <<>> => Head(q).type = "completed"
           /\ Head(q).type \in Progress \cup {"completed"}
<1>1. q # <<>>
  BY DEF Closing
<1> DEFINE t == Tail(q)
<1>2. /\ Len(q) \in Nat \ {0} /\ Head(q) = q[1] /\ t \in Seq(Ev) /\ Len(t) = Len(q) - 1
      /\ \A i \in 1..Len(t) : i + 1 \in 1..Len(q) /\ t[i] = q[i + 1]
      /\ t = <<>> <=> Len(q) = 1
  BY <1>1, TailFacts
<1> HIDE DEF t
<1>3. 1 \in 1..Len(q)
  BY <1>2
<1>4. /\ Head(q).type \in Progress \cup {"completed"}
      /\ Head(q).type = "completed" <=> 1 = Len(q)
  BY <1>2, <1>3 DEF Closing
<1>5. ASSUME t # <<>> PROVE Closing(t)
  <2>1. ASSUME NEW i \in 1..Len(t)
        PROVE  /\ t[i].type \in Progress \cup {"completed"}
               /\ t[i].type = "completed" <=> i = Len(t)
    <3>1. i + 1 \in 1..Len(q) /\ t[i] = q[i + 1] /\ (i + 1 = Len(q) <=> i = Len(t))
      BY <1>2
    <3> QED
      BY <3>1 DEF Closing
  <2> QED
    BY <1>5, <2>1 DEF Closing
<1> QED
  BY <1>2, <1>4, <1>5 DEF t

LEMMA PairTail ==
    ASSUME NEW a \in Ev, NEW b \in Ev
    PROVE  /\ Tail(<<a, b>>) = <<b>> /\ Tail(<<b>>) = <<>>
           /\ Head(<<a, b>>) = a /\ Head(<<b>>) = b
<1> DEFINE p == <<a, b>>
           s == <<b>>
<1>1. /\ p \in Seq(Ev) /\ p # <<>> /\ Len(p) = 2 /\ p[1] = a /\ p[2] = b
      /\ s \in Seq(Ev) /\ s # <<>> /\ Len(s) = 1 /\ s[1] = b
  <2>1. p \in Seq(Ev) /\ s \in Seq(Ev)
    BY ShortSequences
  <2> QED
    BY <2>1
<1> HIDE DEF p, s
<1>2. /\ Tail(p) \in Seq(Ev) /\ Len(Tail(p)) = 1 /\ Tail(p)[1] = b
      /\ Tail(s) = <<>> /\ Head(p) = a /\ Head(s) = b
  <2>1. /\ Tail(p) \in Seq(Ev) /\ Len(Tail(p)) = 2 - 1
        /\ \A i \in 1..Len(Tail(p)) : Tail(p)[i] = p[i + 1]
        /\ Head(p) = p[1]
    BY <1>1, TailFacts
  <2>2. Tail(s) = <<>> /\ Head(s) = s[1]
    BY <1>1, TailFacts
  <2>3. 1 \in 1..Len(Tail(p)) /\ 1 + 1 = 2
    BY <2>1, SMTT(30)
  <2> QED
    BY <1>1, <2>1, <2>2, <2>3
<1> DEFINE t == Tail(p)
<1>3. t \in Seq(Ev) /\ Len(t) = 1 /\ t[1] = b
  BY <1>2
<1> HIDE DEF t
<1>4. t = s
  <2>1. \A i \in 1..Len(t) : t[i] = s[i]
    BY <1>1, <1>3
  <2> QED
    BY <1>1, <1>3, <2>1, SeqEqual
<1> QED
  BY <1>2, <1>4 DEF p, s, t

\* The upstream has brought the turn to its end.
Proper == upstream = "done" \/ (upstream = "closed" /\ opts.missingDone)
Finished == \E n \in DOMAIN fed : fed[n].finish

Early == {"opening", "relaying", "reading", "ended", "closing"}

\* What is in each batch.
BatchInv ==
    /\ pc = "opening" => todo = <<Created>>
    /\ pc = "relaying" => /\ \A i \in 1..Len(todo) : todo[i].type \in Deltas
                          /\ conv.slots # <<>>
    /\ pc = "closing" => Closing(todo)
    /\ pc = "failing" => todo = ErrorEvents \/ todo = <<Event("failed")>>

\* What the flags and the outcome say of the stream.
FlagInv ==
    /\ "disconnected" \in flags => client = "gone"
    /\ Has(sent, "completed") => "completed" \in flags
    /\ "completed" \in flags /\ client = "reading" => Has(sent, "completed")
    /\ Has(sent, "failed") => pc = "over" /\ "completed" \notin flags
    /\ pc = "over" /\ client = "reading" /\ "completed" \notin flags => Has(sent, "failed")
    /\ pc \in {"failing", "saving", "over"} => outcome = ErrorClass
    /\ pc \in Early \cup {"failing"} => "completed" \notin flags
    /\ pc = "saving" \/ stored # <<>> => "completed" \in flags

\* What the upstream must have done.  A task that found its client gone in the
\* middle of the chunks has opened an item, so that its last batch does not begin
\* with the completion, which alone would count as complete.
SourceInv ==
    /\ "completed" \in flags => Finished /\ Proper
    /\ conv.finish => Finished
    /\ "done" \in flags => upstream = "done"
    /\ pc = "ended" => \/ "timeout" \in flags \/ upstream \in {"done", "closed"}
                       \/ client = "gone" /\ conv.slots # <<>>
    /\ pc = "closing" => /\ Finished
                         /\ Proper \/ (client = "gone" /\ Head(todo).type # "completed")

VerdictInv == BatchInv /\ FlagInv /\ SourceInv

LEMMA VerdictInit == Init => VerdictInv
<1> SUFFICES ASSUME Init PROVE VerdictInv
  OBVIOUS
<1>1. ~Has(sent, "completed") /\ ~Has(sent, "failed")
  BY DEF Init, Has
<1> QED
  BY <1>1 DEF Init, VerdictInv, BatchInv, FlagInv, SourceInv, Early, NewConverter

LEMMA BatchStep == TypeInv /\ VerdictInv /\ [Next]_vars => BatchInv'
<1> SUFFICES ASSUME TypeInv, BatchInv, [Next]_vars PROVE BatchInv'
  BY DEF VerdictInv
<1>1. /\ Rest /\ conv \in Converter /\ Distinct(conv.slots)
      /\ todo \in Seq(Ev) /\ sent \in Seq(Ev)
  BY TypesAre
<1>2. CASE SendEvent
  <2>1. /\ todo' = Tail(todo) /\ Sending /\ todo # <<>> /\ conv' = conv
        /\ pc' = IF todo' = <<>> THEN AfterBatch(pc) ELSE pc
    BY <1>1, <1>2 DEF SendEvent, Rest
  <2>2. CASE pc = "opening"
    <3>1. todo' = <<>>
      BY <2>1, <2>2 DEF BatchInv
    <3> QED
      BY <2>1, <2>2, <3>1 DEF BatchInv, AfterBatch
  <2>3. CASE pc = "relaying"
    <3>1. \A i \in 1..Len(Tail(todo)) : Tail(todo)[i].type \in Deltas
      BY <1>1, <2>1, <2>3, TailFacts DEF BatchInv
    <3> QED
      BY <2>1, <2>3, <3>1 DEF BatchInv, AfterBatch
  <2>4. CASE pc = "closing"
    <3>1. Tail(todo) # <<>> => Closing(Tail(todo))
      BY <1>1, <2>4, ClosingTail DEF BatchInv
    <3> QED
      BY <2>1, <2>4, <3>1 DEF BatchInv, AfterBatch
  <2>5. CASE pc = "failing"
    <3>1. todo' = <<>> \/ todo' = <<Event("failed")>>
      <4> DEFINE a == Event("error")
                 b == Event("failed")
      <4>1. todo = <<a, b>> \/ todo = <<b>>
        BY <2>5 DEF BatchInv, ErrorEvents
      <4>2. a \in Ev /\ b \in Ev
        BY FixedEvents
      <4> HIDE DEF a, b
      <4>3. todo' = <<b>> \/ todo' = <<>>
        BY <2>1, <4>1, <4>2, PairTail
      <4> QED
        BY <4>3 DEF b
    <3> QED
      BY <2>1, <2>5, <3>1 DEF BatchInv, AfterBatch
  <2> QED
    BY <2>1, <2>2, <2>3, <2>4, <2>5 DEF Sending
<1>3. CASE SendFails
  BY <1>3 DEF SendFails, Sending, AfterLoss, BatchInv
<1>4. CASE Finish
  <2>1. CASE FinishAllowed /\ conv.finish
    <3>1. pc' = "closing" /\ todo' = FlushHeal(conv).events \o EmitFinish(FlushHeal(conv).conv).events
      BY <1>4, <2>1 DEF Finish
    <3>2. Closing(FlushHeal(conv).events \o EmitFinish(FlushHeal(conv).conv).events)
      BY <1>1, ClosingBatch
    <3> QED
      BY <3>1, <3>2 DEF BatchInv
  <2>2. CASE ~(FinishAllowed /\ conv.finish)
    BY <1>4, <2>2 DEF Finish, BatchInv
  <2> QED
    BY <2>1, <2>2
<1>5. ASSUME NEW k \in Chunks, ReadChunk(k) PROVE BatchInv'
  <2> DEFINE r == OnChunk(conv, k, Len(fed) + 1)
  <2>1. /\ conv' = r.conv /\ todo' = r.events
        /\ pc' = IF r.events = <<>> THEN "reading" ELSE "relaying"
    BY <1>5 DEF ReadChunk
  <2>2. Len(fed) + 1 \in 1..MaxChunks /\ k \in Chunk
    <3>1. Len(fed) \in Nat /\ MaxChunks \in Nat
      BY <1>1, StreamAssumption, LenProperties DEF Rest
    <3> QED
      BY <1>5, <3>1, StreamAssumption DEF ReadChunk
  <2>3. Uttered(conv, r)
    BY <1>1, <2>2, OnChunkType
  <2> HIDE DEF r
  <2>4. /\ r.events \in Seq(EventOf(Deltas))
        /\ r.events # <<>> => r.conv.slots # <<>>
    BY <1>1, <2>3, UtteredEvents
  <2>5. \A i \in 1..Len(r.events) : r.events[i].type \in Deltas
    <3>1. \A i \in 1..Len(r.events) : r.events[i] \in EventOf(Deltas)
      BY <2>4, ElementOfSeq
    <3> QED
      BY <3>1 DEF EventOf
  <2> QED
    BY <2>1, <2>4, <2>5 DEF BatchInv
<1>6. CASE Record
  BY <1>6 DEF Record, BatchInv
<1>7. CASE IdleTimeout \/ SaveSession \/ ReadDone \/ ReadEnd
  BY <1>7 DEF IdleTimeout, SaveSession, ReadDone, ReadEnd, BatchInv
<1>8. CASE Stall \/ Tick \/ Receive \/ Disconnect \/ UNCHANGED vars
  BY <1>8 DEF Stall, Tick, Receive, Disconnect, vars, BatchInv
<1> QED
  BY <1>2, <1>3, <1>4, <1>5, <1>6, <1>7, <1>8 DEF Next, Task, Upstream

LEMMA FlagStep == TypeInv /\ VerdictInv /\ [Next]_vars => FlagInv'
<1> SUFFICES ASSUME TypeInv, BatchInv, FlagInv, [Next]_vars PROVE FlagInv'
  BY DEF VerdictInv
<1>1. /\ Rest /\ conv \in Converter /\ Distinct(conv.slots)
      /\ todo \in Seq(Ev) /\ sent \in Seq(Ev)
  BY TypesAre
<1>2. CASE SendEvent
  <2> DEFINE e == Head(todo)
  <2>1. /\ todo' = Tail(todo) /\ Sending /\ todo # <<>> /\ client = "reading"
        /\ sent' = Append(sent, e) /\ flags' = flags \cup Noticed(e)
        /\ pc' = IF todo' = <<>> THEN AfterBatch(pc) ELSE pc
        /\ client' = client /\ outcome' = outcome /\ stored' = stored
    BY <1>1, <1>2 DEF SendEvent, Rest
  <2>2. /\ e \in Ev /\ e = todo[1] /\ 1 \in 1..Len(todo)
        /\ \A type : Has(sent', type) <=> Has(sent, type) \/ e.type = type
    <3>1. e \in Ev /\ e = todo[1] /\ Len(todo) \in Nat \ {0}
      BY <1>1, <2>1, TailFacts, ElementOfSeq
    <3> HIDE DEF e
    <3> QED
      BY <1>1, <2>1, <3>1, HasAppend
  <2> HIDE DEF e
  <2>3. "disconnected" \notin flags /\ "disconnected" \notin flags'
    BY <2>1 DEF FlagInv, Noticed
  <2>4. CASE pc = "opening"
    <3>1. todo' = <<>> /\ e.type = "created"
      <4>1. todo = <<Created>> /\ Created \in Ev
        BY <2>4, FixedEvents DEF BatchInv
      <4>2. Tail(todo) = <<>> /\ Head(todo) = Created
        BY <4>1, PairTail
      <4> QED
        BY <2>1, <4>2, FixedEvents DEF e
    <3> QED
      BY <2>1, <2>2, <2>3, <2>4, <3>1 DEF FlagInv, AfterBatch, Noticed, Early
  <2>5. CASE pc = "relaying"
    <3>1. e.type \in Deltas
      BY <2>2, <2>5 DEF BatchInv
    <3>2. pc' \in {"relaying", "reading"}
      BY <2>1, <2>5 DEF AfterBatch
    <3> QED
      BY <2>1, <2>2, <2>3, <2>5, <3>1, <3>2 DEF FlagInv, Noticed, Early, Deltas
  <2>6. CASE pc = "closing"
    <3>1. /\ todo' # <<>> => e.type # "completed"
          /\ todo' = <<>> => e.type = "completed"
          /\ e.type \in Progress \cup {"completed"}
      BY <1>1, <2>1, <2>6, ClosingTail DEF BatchInv, e
    <3>2. pc' = IF todo' = <<>> THEN "recording" ELSE "closing"
      BY <2>1, <2>6 DEF AfterBatch
    <3> QED
      BY <2>1, <2>2, <2>3, <2>6, <3>1, <3>2 DEF FlagInv, Noticed, Early, Progress
  <2>7. CASE pc = "failing"
    <3> DEFINE a == Event("error")
               b == Event("failed")
    <3>1. a \in Ev /\ a.type = "error" /\ b \in Ev /\ b.type = "failed"
      BY FixedEvents
    <3>2. todo = <<a, b>> \/ todo = <<b>>
      BY <2>7 DEF BatchInv, ErrorEvents
    <3> HIDE DEF a, b
    <3>3. \/ e.type = "error" /\ todo' # <<>> /\ pc' = "failing"
          \/ e.type = "failed" /\ todo' = <<>> /\ pc' = "over"
      <4>1. \/ e = a /\ todo' = <<b>>
            \/ e = b /\ todo' = <<>>
        BY <2>1, <3>1, <3>2, PairTail DEF e
      <4>2. <<b>> # <<>>
        OBVIOUS
      <4> QED
        BY <2>1, <2>7, <3>1, <4>1, <4>2 DEF AfterBatch
    <3>4. flags' = flags
      BY <2>1, <3>3 DEF Noticed
    <3>5. ErrorClass' = ErrorClass
      BY <3>4 DEF ErrorClass
    <3> QED
      BY <2>1, <2>2, <2>3, <2>7, <3>3, <3>4, <3>5 DEF FlagInv, Early
  <2> QED
    BY <2>1, <2>4, <2>5, <2>6, <2>7 DEF Sending
<1>3. CASE SendFails
  <2> DEFINE e == Head(todo)
  <2>1. /\ Sending /\ client = "gone" /\ client' = client /\ sent' = sent
        /\ outcome' = outcome /\ stored' = stored /\ pc' = AfterLoss(pc)
        /\ flags' = flags \cup Noticed(e) \cup (IF pc = "failing" THEN {} ELSE {"disconnected"})
    BY <1>3 DEF SendFails
  <2>2. \A type : Has(sent', type) <=> Has(sent, type)
    BY <2>1
  <2>3. todo # <<>> /\ Len(todo) \in Nat \ {0} /\ e = todo[1] /\ 1 \in 1..Len(todo)
    <3>1. todo # <<>>
      BY <1>1, <2>1 DEF Rest
    <3>2. Len(todo) \in Nat \ {0} /\ e = todo[1]
      BY <1>1, <3>1, TailFacts
    <3> QED
      BY <3>1, <3>2
  <2>4. CASE pc = "opening"
    <3>1. e.type = "created"
      <4>1. todo = <<Created>> /\ Created \in Ev
        BY <2>4, FixedEvents DEF BatchInv
      <4> QED
        BY <4>1, PairTail, FixedEvents
    <3> QED
      BY <2>1, <2>2, <2>4, <3>1 DEF FlagInv, AfterLoss, Noticed, Early
  <2>5. CASE pc = "relaying"
    <3>1. e.type \in Deltas
      BY <2>3, <2>5 DEF BatchInv
    <3> QED
      BY <2>1, <2>2, <2>5, <3>1 DEF FlagInv, AfterLoss, Noticed, Early, Deltas
  <2>6. CASE pc = "closing"
    BY <2>1, <2>2, <2>6 DEF FlagInv, AfterLoss, Noticed, Early
  <2>7. CASE pc = "failing"
    <3> DEFINE a == Event("error")
               b == Event("failed")
    <3>1. a \in Ev /\ a.type = "error" /\ b \in Ev /\ b.type = "failed"
      BY FixedEvents
    <3>2. todo = <<a, b>> \/ todo = <<b>>
      BY <2>7 DEF BatchInv, ErrorEvents
    <3> HIDE DEF a, b
    <3>3. e.type \in {"error", "failed"}
      BY <3>1, <3>2, PairTail
    <3>4. flags' = flags
      BY <2>1, <2>7, <3>3 DEF Noticed
    <3>5. ErrorClass' = ErrorClass
      BY <3>4 DEF ErrorClass
    <3> QED
      BY <2>1, <2>2, <2>7, <3>4, <3>5 DEF FlagInv, AfterLoss, Early
  <2> QED
    BY <2>1, <2>4, <2>5, <2>6, <2>7 DEF Sending
<1>4. CASE Record
  <2>1. /\ outcome' = ErrorClass /\ sent' = sent /\ flags' = flags /\ client' = client
        /\ stored' = stored /\ pc = "recording"
        /\ IF "completed" \notin flags THEN pc' = "failing" ELSE pc' \in {"saving", "over"}
    BY <1>4 DEF Record
  <2>2. ErrorClass' = ErrorClass
    BY <2>1 DEF ErrorClass
  <2> QED
    BY <2>1, <2>2 DEF FlagInv, Early
<1>5. CASE SaveSession
  <2>1. /\ outcome' = outcome /\ sent' = sent /\ flags' = flags /\ client' = client
        /\ pc = "saving" /\ pc' = "over"
    BY <1>5 DEF SaveSession
  <2>2. ErrorClass' = ErrorClass
    BY <2>1 DEF ErrorClass
  <2> QED
    BY <2>1, <2>2 DEF FlagInv, Early
<1>6. CASE ReadDone \/ IdleTimeout
  BY <1>6 DEF ReadDone, IdleTimeout, FlagInv, Early
<1>7. CASE ReadEnd \/ Finish \/ \E k \in Chunks : ReadChunk(k)
  <2>1. /\ outcome' = outcome /\ sent' = sent /\ flags' = flags /\ client' = client
        /\ stored' = stored /\ pc \in {"reading", "ended"}
        /\ pc' \in {"reading", "ended", "relaying", "closing", "recording"}
    BY <1>7 DEF ReadEnd, Finish, ReadChunk
  <2> QED
    BY <2>1 DEF FlagInv, Early
<1>8. CASE Stall \/ Tick \/ Receive \/ Disconnect \/ UNCHANGED vars
  <2>1. /\ outcome' = outcome /\ sent' = sent /\ flags' = flags
        /\ client' \in {client, "gone"}
        /\ stored' = stored /\ pc' = pc
    BY <1>8 DEF Stall, Tick, Receive, Disconnect, vars
  <2>2. ErrorClass' = ErrorClass
    BY <2>1 DEF ErrorClass
  <2> QED
    BY <2>1, <2>2 DEF FlagInv, Early
<1> QED
  BY <1>2, <1>3, <1>4, <1>5, <1>6, <1>7, <1>8 DEF Next, Task, Upstream

LEMMA SourceStep == TypeInv /\ VerdictInv /\ [Next]_vars => SourceInv'
<1> SUFFICES ASSUME TypeInv, BatchInv, FlagInv, SourceInv, [Next]_vars PROVE SourceInv'
  BY DEF VerdictInv
<1>1. /\ Rest /\ conv \in Converter /\ Distinct(conv.slots)
      /\ todo \in Seq(Ev) /\ sent \in Seq(Ev)
  BY TypesAre
<1>2. ASSUME NEW q, q = Head(todo), SendEvent \/ SendFails
      PROVE  /\ pc # "closing" => q.type # "completed"
             /\ pc = "closing" /\ Tail(todo) # <<>> => q.type # "completed"
             /\ Sending /\ todo # <<>>
  <2>1. Sending /\ todo # <<>>
    BY <1>1, <1>2 DEF SendEvent, SendFails, Rest
  <2>2. q = todo[1] /\ 1 \in 1..Len(todo)
    <3>1. Len(todo) \in Nat \ {0} /\ Head(todo) = todo[1]
      BY <1>1, <2>1, TailFacts
    <3> QED
      BY <1>2, <3>1
  <2>3. CASE pc = "opening"
    <3>1. todo = <<Created>> /\ Created \in Ev
      BY <2>3, FixedEvents DEF BatchInv
    <3>2. Head(todo) = Created
      BY <3>1, PairTail
    <3> QED
      BY <1>2, <2>1, <2>3, <3>2, FixedEvents
  <2>4. CASE pc = "relaying"
    BY <2>1, <2>2, <2>4 DEF BatchInv, Deltas
  <2>5. CASE pc = "closing"
    BY <1>1, <1>2, <2>1, <2>5, ClosingTail DEF BatchInv
  <2>6. CASE pc = "failing"
    <3> DEFINE a == Event("error")
               b == Event("failed")
    <3>1. a \in Ev /\ a.type = "error" /\ b \in Ev /\ b.type = "failed"
      BY FixedEvents
    <3>2. todo = <<a, b>> \/ todo = <<b>>
      BY <2>6 DEF BatchInv, ErrorEvents
    <3> HIDE DEF a, b
    <3>3. q \in {a, b}
      BY <1>2, <3>1, <3>2, PairTail
    <3> QED
      BY <2>1, <2>6, <3>1, <3>3
  <2> QED
    BY <2>1, <2>3, <2>4, <2>5, <2>6 DEF Sending
<1>3. CASE SendEvent
  <2> DEFINE e == Head(todo)
  <2>1. /\ todo' = Tail(todo) /\ client = "reading" /\ client' = client /\ conv' = conv
        /\ flags' = flags \cup Noticed(e) /\ upstream' = upstream /\ opts' = opts /\ fed' = fed
        /\ pc' = IF todo' = <<>> THEN AfterBatch(pc) ELSE pc
    BY <1>3 DEF SendEvent
  <2>2. /\ pc # "closing" => e.type # "completed"
        /\ Sending
    BY <1>2, <1>3
  <2> HIDE DEF e
  <2>3. pc' # "ended" /\ (pc' = "closing" => pc = "closing")
    BY <2>1, <2>2 DEF AfterBatch, Sending
  <2>4. "completed" \in flags' => "completed" \in flags \/ pc = "closing"
    BY <2>1, <2>2 DEF Noticed
  <2>5. Proper' = Proper /\ Finished' = Finished
    BY <2>1 DEF Proper, Finished
  <2>6. "done" \in flags' <=> "done" \in flags
    BY <2>1 DEF Noticed
  <2> QED
    BY <2>1, <2>3, <2>4, <2>5, <2>6 DEF SourceInv
<1>4. CASE SendFails
  <2> DEFINE e == Head(todo)
  <2>1. /\ client = "gone" /\ client' = client /\ conv' = conv
        /\ upstream' = upstream /\ opts' = opts /\ fed' = fed /\ pc' = AfterLoss(pc)
        /\ flags' = flags \cup Noticed(e) \cup (IF pc = "failing" THEN {} ELSE {"disconnected"})
    BY <1>4 DEF SendFails
  <2>2. pc # "closing" => e.type # "completed"
    BY <1>2, <1>4
  <2>3. Sending
    BY <1>4 DEF SendFails
  <2>4. pc' # "closing" /\ (pc' = "ended" => pc = "relaying")
    BY <2>1, <2>3 DEF AfterLoss, Sending
  <2>5. "completed" \in flags' => "completed" \in flags \/ (pc = "closing" /\ e.type = "completed")
    BY <2>1, <2>2 DEF Noticed
  <2>6. Proper' = Proper /\ Finished' = Finished
    BY <2>1 DEF Proper, Finished
  <2>7. "done" \in flags' <=> "done" \in flags
    BY <2>1 DEF Noticed
  <2>8. pc = "closing" /\ e.type = "completed" => Proper /\ Finished
    BY DEF SourceInv
  <2>9. pc = "relaying" => conv.slots # <<>>
    BY DEF BatchInv
  <2> HIDE DEF e
  <2> QED
    BY <2>1, <2>4, <2>5, <2>6, <2>7, <2>8, <2>9 DEF SourceInv
<1>5. CASE Finish
  <2>1. CASE FinishAllowed /\ conv.finish
    <3> DEFINE flushed == FlushHeal(conv)
               final == EmitFinish(flushed.conv)
               q == flushed.events \o final.events
    <3>1. /\ final.conv.finish = conv.finish
          /\ conv.slots # <<>> => Head(q).type # "completed"
      BY <1>1, ClosingBatch
    <3>2. /\ conv' = final.conv /\ todo' = q /\ pc = "ended" /\ pc' = "closing"
          /\ UNCHANGED <<opts, upstream, fed, client, flags>>
      BY <1>5, <2>1 DEF Finish
    <3> HIDE DEF final, flushed, q
    <3>3. Proper' = Proper /\ Finished' = Finished /\ Finished
      BY <2>1, <3>2 DEF Proper, Finished, SourceInv
    <3>4. Proper \/ (client = "gone" /\ conv.slots # <<>>)
      BY <2>1, <3>2 DEF Proper, SourceInv, FinishAllowed
    <3> QED
      BY <3>1, <3>2, <3>3, <3>4 DEF SourceInv
  <2>2. CASE ~(FinishAllowed /\ conv.finish)
    <3>1. pc' = "recording" /\ UNCHANGED <<opts, upstream, fed, client, flags, conv>>
      BY <1>5, <2>2 DEF Finish
    <3>2. Proper' = Proper /\ Finished' = Finished
      BY <3>1 DEF Proper, Finished
    <3> QED
      BY <3>1, <3>2 DEF SourceInv
  <2> QED
    BY <2>1, <2>2
<1>6. ASSUME NEW k \in Chunks, ReadChunk(k) PROVE SourceInv'
  <2> DEFINE r == OnChunk(conv, k, Len(fed) + 1)
  <2>1. /\ conv' = r.conv /\ fed' = Append(fed, k)
        /\ pc = "reading" /\ pc' \in {"reading", "relaying"}
        /\ UNCHANGED <<opts, upstream, client, flags>>
    BY <1>6 DEF ReadChunk
  <2>2. /\ Len(fed) + 1 \in 1..MaxChunks /\ k \in Chunk /\ Len(fed) \in Nat
        /\ DOMAIN fed = 1..Len(fed) /\ fed \in Seq(Chunks)
    <3>1. Len(fed) \in Nat /\ MaxChunks \in Nat /\ fed \in Seq(Chunks)
      BY <1>1, StreamAssumption, LenProperties DEF Rest
    <3> QED
      BY <1>6, <3>1, StreamAssumption, LenProperties DEF ReadChunk
  <2>3. r.conv.finish = (conv.finish \/ k.finish)
    BY <1>1, <2>2, OnChunkType
  <2> HIDE DEF r
  <2>4. /\ DOMAIN fed' = 1..(Len(fed) + 1)
        /\ \A i \in 1..Len(fed) : fed'[i] = fed[i]
        /\ fed'[Len(fed) + 1] = k
    <3> DEFINE f == Append(fed, k)
    <3>1. /\ f \in Seq(Chunks) /\ Len(f) = Len(fed) + 1
          /\ \A i \in 1..Len(fed) : f[i] = fed[i]
          /\ f[Len(fed) + 1] = k
      BY <2>2, AppendProperties
    <3>2. DOMAIN f = 1..(Len(fed) + 1)
      BY <3>1, LenProperties
    <3> QED
      BY <2>1, <3>1, <3>2
  <2>5. Finished \/ k.finish => Finished'
    <3>1. \A i \in DOMAIN fed : i \in DOMAIN fed' /\ fed'[i] = fed[i]
      BY <2>2, <2>4
    <3>2. Len(fed) + 1 \in DOMAIN fed'
      BY <2>2, <2>4
    <3> QED
      BY <2>4, <3>1, <3>2 DEF Finished
  <2>6. "completed" \notin flags
    BY <2>1 DEF FlagInv, Early
  <2> QED
    BY <2>1, <2>3, <2>5, <2>6 DEF SourceInv
<1>7. CASE ReadDone \/ ReadEnd
  <2>1. /\ pc = "reading" /\ pc' = "ended" /\ upstream' \in {"done", "closed"}
        /\ "done" \in flags' => "done" \in flags \/ upstream' = "done"
        /\ upstream = "live" /\ "completed" \in flags' => "completed" \in flags
        /\ UNCHANGED <<opts, fed, conv>>
    BY <1>7 DEF ReadDone, ReadEnd
  <2>2. "completed" \notin flags /\ "completed" \notin flags'
    BY <1>7, <2>1 DEF FlagInv, Early, ReadDone, ReadEnd
  <2>3. Finished' = Finished
    BY <2>1 DEF Finished
  <2>4. "done" \notin flags
    BY <1>7 DEF ReadDone, ReadEnd, SourceInv
  <2> QED
    BY <2>1, <2>2, <2>3, <2>4 DEF SourceInv
<1>8. CASE IdleTimeout
  <2>1. /\ pc' = "ended" /\ flags' = flags \cup {"timeout"}
        /\ UNCHANGED <<opts, fed, conv, upstream>>
    BY <1>8 DEF IdleTimeout
  <2>2. Finished' = Finished /\ Proper' = Proper
    BY <2>1 DEF Finished, Proper
  <2> QED
    BY <2>1, <2>2 DEF SourceInv
<1>9. CASE Stall
  <2>1. /\ upstream = "live" /\ upstream' = "stalled"
        /\ UNCHANGED <<opts, fed, conv, pc, todo, client, flags>>
    BY <1>9 DEF Stall
  <2>2. Finished' = Finished /\ ~Proper
    BY <2>1 DEF Finished, Proper
  <2> QED
    BY <2>1, <2>2 DEF SourceInv
<1>10. CASE Record \/ SaveSession \/ Tick \/ Receive \/ Disconnect \/ UNCHANGED vars
  <2>1. /\ UNCHANGED <<opts, fed, conv, upstream, flags>>
        /\ client' \in {client, "gone"}
        /\ pc' \in {"ended", "closing"} => pc' = pc /\ todo' = todo
    BY <1>10 DEF Record, SaveSession, Tick, Receive, Disconnect, vars
  <2>2. Finished' = Finished /\ Proper' = Proper
    BY <2>1 DEF Finished, Proper
  <2>3. client = "gone" => client' = "gone"
    BY <2>1
  <2> QED
    BY <2>1, <2>2, <2>3 DEF SourceInv
<1> QED
  BY <1>3, <1>4, <1>5, <1>6, <1>7, <1>8, <1>9, <1>10 DEF Next, Task, Upstream

LEMMA VerdictAlways == Spec => [](TypeInv /\ VerdictInv)
<1>1. Init => TypeInv /\ VerdictInv
  BY TypeInit, VerdictInit
<1>2. TypeInv /\ VerdictInv /\ [Next]_vars => (TypeInv /\ VerdictInv)'
  BY TypeStep, BatchStep, FlagStep, SourceStep DEF VerdictInv
<1> QED
  BY <1>1, <1>2, PTL DEF Spec

LEMMA EmittedHas ==
    ASSUME sent \in Seq(Ev), NEW type
    PROVE  Emitted(type) # {} <=> Has(sent, type)
<1>1. DOMAIN sent = 1..Len(sent)
  BY LenProperties
<1> QED
  BY <1>1 DEF Emitted, Has, ToSet

\* A turn is reported complete, or stored, only when the upstream brought it to
\* its end, however the client, the clock and the upstream interleave.
THEOREM CompletedByUpstreamHolds == Spec => []CompletedByUpstream
<1>1. TypeInv /\ VerdictInv => CompletedByUpstream
  <2> SUFFICES ASSUME TypeInv, FlagInv, SourceInv PROVE CompletedByUpstream
    BY DEF VerdictInv
  <2>1. Emitted("completed") # {} <=> Has(sent, "completed")
    BY EmittedHas DEF TypeInv
  <2> QED
    BY <2>1 DEF CompletedByUpstream, FlagInv, SourceInv, Finished, Proper
<1> QED
  BY <1>1, VerdictAlways, PTL

\* To a client that stayed, the outcome in the metrics is the terminal event of
\* its stream.
THEOREM MetricsMatchStreamHolds == Spec => []MetricsMatchStream
<1>1. TypeInv /\ VerdictInv => MetricsMatchStream
  <2> SUFFICES ASSUME TypeInv, FlagInv PROVE MetricsMatchStream
    BY DEF VerdictInv
  <2>1. /\ Emitted("completed") # {} <=> Has(sent, "completed")
        /\ Emitted("failed") # {} <=> Has(sent, "failed")
    BY EmittedHas DEF TypeInv
  <2>2. TypeOK
    BY SMTT(30) DEF TypeInv
  <2> QED
    BY <2>1, <2>2 DEF MetricsMatchStream, FlagInv, ErrorClass
<1> QED
  BY <1>1, VerdictAlways, PTL

-----------------------------------------------------------------------------
(* What the client holds *)

Shown == [kind : Kinds \cup {"none", "call"}, data : Text, closed : BOOLEAN]
View == [items : Seq(Shown), last : Types \cup {"none"}]

LEMMA TakeCases ==
    ASSUME NEW v, NEW e
    PROVE  /\ Stream!Take(v, e).last = e.type
           /\ e.type = "added" =>
                Stream!Take(v, e).items
                  = Append(v.items, [kind |-> e.kind, data |-> <<>>, closed |-> FALSE])
           /\ e.type = "delta" =>
                Stream!Take(v, e).items = [v.items EXCEPT ![e.idx].data = @ \o e.data]
           /\ e.type = "done" =>
                Stream!Take(v, e).items = [v.items EXCEPT ![e.idx].closed = TRUE]
           /\ e.type \notin {"added", "delta", "done"} => Stream!Take(v, e).items = v.items
BY DEF Stream!Take

LEMMA TakeType ==
    ASSUME NEW v \in View, NEW e \in Ev
    PROVE  Stream!Take(v, e) \in View
<1> DEFINE t == Stream!Take(v, e)
           n == Len(v.items)
<1>1. /\ v.items \in Seq(Shown) /\ n \in Nat /\ v.items \in [1..n -> Shown]
      /\ e.type \in Types /\ e.data \in Text /\ e.kind \in Kinds \cup {"none", "call"}
  <2>1. v.items \in Seq(Shown)
    BY DEF View
  <2> QED
    BY <2>1, LenProperties DEF Ev, EventOf
<1>2. t = [items |-> t.items, last |-> e.type]
  BY DEF Stream!Take
<1>3. t.items \in Seq(Shown)
  <2>1. CASE e.type = "added"
    <3> DEFINE x == [kind |-> e.kind, data |-> <<>>, closed |-> FALSE]
    <3>1. x \in Shown
      BY <1>1 DEF Shown, Text
    <3> HIDE DEF x
    <3>2. t.items = Append(v.items, x)
      BY <2>1, TakeCases, ZenonT(40) DEF x
    <3> HIDE DEF t
    <3> QED
      BY <1>1, <3>1, <3>2, AppendProperties
  <2>2. CASE e.type = "delta"
    <3>1. t.items = [v.items EXCEPT ![e.idx].data = @ \o e.data]
      BY <2>2, TakeCases
    <3>2. \A i \in 1..n : [v.items[i] EXCEPT !.data = v.items[i].data \o e.data] \in Shown
      <4>1. ASSUME NEW i \in 1..n
            PROVE  [v.items[i] EXCEPT !.data = v.items[i].data \o e.data] \in Shown
        <5>1. v.items[i] \in Shown
          BY <1>1
        <5>2. v.items[i].data \o e.data \in Text
          BY <1>1, <5>1, ConcatProperties DEF Shown, Text
        <5> QED
          BY <5>1, <5>2 DEF Shown
      <4> QED
        BY <4>1
    <3> DEFINE g == [i \in 1..n |->
                       IF i = e.idx THEN [v.items[i] EXCEPT !.data = v.items[i].data \o e.data]
                       ELSE v.items[i]]
    <3>3. g \in [1..n -> Shown]
      BY <1>1, <3>2
    <3>4. t.items = g
      <4> HIDE DEF t, n
      <4> QED
        BY <1>1, <3>1
    <3> HIDE DEF t, g
    <3> QED
      BY <1>1, <3>3, <3>4, SeqDef
  <2>3. CASE e.type = "done"
    <3>1. t.items = [v.items EXCEPT ![e.idx].closed = TRUE]
      BY <2>3, TakeCases
    <3>2. \A x \in Shown : [x EXCEPT !.closed = TRUE] \in Shown
      BY DEF Shown
    <3> DEFINE g == [i \in 1..n |->
                       IF i = e.idx THEN [v.items[i] EXCEPT !.closed = TRUE]
                       ELSE v.items[i]]
    <3>3. g \in [1..n -> Shown]
      BY <1>1, <3>2
    <3>4. t.items = g
      <4> HIDE DEF t, n
      <4> QED
        BY <1>1, <3>1
    <3> HIDE DEF t, g
    <3> QED
      BY <1>1, <3>3, <3>4, SeqDef
  <2>4. CASE e.type \notin {"added", "delta", "done"}
    BY <1>1, <2>4, TakeCases
  <2> QED
    BY <2>1, <2>2, <2>3, <2>4
<1> HIDE DEF t
<1> QED
  BY <1>1, <1>2, <1>3 DEF View, t

\* h follows a client through the events of s.
Follows(h, s) ==
    /\ h \in [0..Len(s) -> View]
    /\ h[0] = Stream!Nothing
    /\ \A i \in 1..Len(s) : h[i] = Stream!Take(h[i - 1], s[i])
    /\ Stream!Held(s) = h[Len(s)]

LEMMA HeldFollows ==
    ASSUME NEW s \in Seq(Ev)
    PROVE  \E h : Follows(h, s)
<1> DEFINE N == Len(s)
           a == Stream!Nothing
           G == [i \in 1..N |-> [v \in View |-> Stream!Take(v, s[i])]]
           P(h) == h = [n \in 0..N |-> IF n = 0 THEN a ELSE Stream!Take(h[n - 1], s[n])]
           held == CHOOSE h : P(h)
<1>1. N \in Nat /\ \A i \in 1..N : s[i] \in Ev
  BY LenProperties, ElementOfSeq
<1>2. a \in View
  BY DEF Stream!Nothing, View
<1>3. G \in [1..N -> [View -> View]]
  BY <1>1, TakeType
<1>4. \A i \in 1..N : \A v \in View : G[i][v] = Stream!Take(v, s[i])
  OBVIOUS
<1>5. Stream!Held(s) = held[N]
  BY DEF Stream!Held
<1> HIDE DEF G, a, N
<1>6. PICK f \in [0..N -> View] : Runs(f, a, G, N)
  BY <1>1, <1>2, <1>3, RunExists
<1>7. ASSUME NEW i \in 0..N
      PROVE  f[i] = IF i = 0 THEN a ELSE Stream!Take(f[i - 1], s[i])
  <2>1. CASE i = 0
    BY <1>6, <2>1 DEF Runs
  <2>2. CASE i # 0
    <3>1. i \in 1..N /\ i - 1 \in 0..N
      BY <1>1, <2>2
    <3> QED
      BY <1>4, <1>6, <2>2, <3>1 DEF Runs
  <2> QED
    BY <2>1, <2>2
<1>8. P(f)
  BY <1>6, <1>7
<1>9. P(held)
  <2> HIDE DEF P
  <2> QED
    BY <1>8
<1> HIDE DEF held
<1>10. \A i \in 0..N : held[i] = IF i = 0 THEN a ELSE Stream!Take(held[i - 1], s[i])
  BY <1>9
<1> DEFINE B == {i \in 0..N : held[i] \notin View}
<1>11. ASSUME B # {} PROVE FALSE
  <2>1. PICK i \in B : \A j \in B : i <= j
    <3>1. B \subseteq Nat
      OBVIOUS
    <3> HIDE DEF B
    <3> QED
      BY <1>11, <3>1, LeastNatural
  <2>2. CASE i = 0
    BY <1>2, <1>10, <2>1, <2>2
  <2>3. CASE i # 0
    <3>1. i - 1 \in 0..N /\ i \in 1..N /\ ~(i <= i - 1)
      BY <1>1, <2>1, <2>3
    <3>2. held[i - 1] \in View
      BY <2>1, <3>1
    <3>3. Stream!Take(held[i - 1], s[i]) \in View
      BY <1>1, <3>1, <3>2, TakeType
    <3> QED
      BY <1>10, <2>1, <2>3, <3>3
  <2> QED
    BY <2>2, <2>3
<1>12. held = [n \in 0..N |-> held[n]]
  BY <1>9
<1>13. held \in [0..N -> View]
  BY <1>11, <1>12
<1>14. held[0] = a
  BY <1>1, <1>10
<1>15. \A i \in 1..N : held[i] = Stream!Take(held[i - 1], s[i])
  BY <1>1, <1>10
<1> QED
  BY <1>5, <1>13, <1>14, <1>15 DEF Follows, N, a

LEMMA HeldNothing == Stream!Held(<<>>) = Stream!Nothing
<1>1. PICK h : Follows(h, <<>>)
  <2>1. <<>> \in Seq(Ev)
    OBVIOUS
  <2> QED
    BY <2>1, HeldFollows
<1> QED
  BY <1>1 DEF Follows

\* One event more.
LEMMA HeldAppend ==
    ASSUME NEW s \in Seq(Ev), NEW e \in Ev
    PROVE  /\ Stream!Held(s) \in View
           /\ Stream!Held(Append(s, e)) = Stream!Take(Stream!Held(s), e)
<1> DEFINE r == Append(s, e)
           N == Len(s)
<1>1. /\ N \in Nat /\ r \in Seq(Ev) /\ Len(r) = N + 1
      /\ \A i \in 1..N : r[i] = s[i]
      /\ r[N + 1] = e
  BY AppendProperties, LenProperties
<1> HIDE DEF r
<1>2. PICK h : Follows(h, s)
  BY HeldFollows
<1>3. PICK g : Follows(g, r)
  BY <1>1, HeldFollows
<1>4. /\ h \in [0..N -> View] /\ h[0] = Stream!Nothing /\ Stream!Held(s) = h[N]
      /\ \A i \in 1..N : h[i] = Stream!Take(h[i - 1], s[i])
  BY <1>2 DEF Follows
<1>5. /\ g[0] = Stream!Nothing /\ Stream!Held(r) = g[N + 1]
      /\ \A i \in 1..(N + 1) : g[i] = Stream!Take(g[i - 1], r[i])
  BY <1>1, <1>3 DEF Follows
<1> HIDE DEF N
<1> DEFINE B == {i \in 0..N : g[i] # h[i]}
<1>6. ASSUME B # {} PROVE FALSE
  <2>1. PICK i \in B : \A j \in B : i <= j
    <3>1. B \subseteq Nat
      OBVIOUS
    <3> HIDE DEF B
    <3> QED
      BY <1>6, <3>1, LeastNatural
  <2>2. CASE i = 0
    BY <1>4, <1>5, <2>1, <2>2
  <2>3. CASE i # 0
    <3>1. i - 1 \in 0..N /\ i \in 1..N /\ i \in 1..(N + 1) /\ ~(i <= i - 1)
      BY <1>1, <2>1, <2>3
    <3>2. g[i - 1] = h[i - 1]
      BY <2>1, <3>1
    <3> QED
      BY <1>1, <1>4, <1>5, <2>1, <3>1, <3>2
  <2> QED
    BY <2>2, <2>3
<1>7. N \in 0..N /\ N + 1 \in 1..(N + 1) /\ (N + 1) - 1 = N
  BY <1>1
<1>8. g[N] = h[N] /\ h[N] \in View
  BY <1>4, <1>6, <1>7
<1>9. g[N + 1] = Stream!Take(g[N], e)
  BY <1>1, <1>5, <1>7
<1> QED
  BY <1>4, <1>5, <1>8, <1>9 DEF r

-----------------------------------------------------------------------------
(* Batches that keep the contract *)

\* A client that holds v may be sent q, and then holds w.
Plays(v, q, w) ==
    \E h : /\ h[0] = v /\ h[Len(q)] = w
           /\ \A n \in 1..Len(q) : /\ Stream!Conforms(h[n - 1], q[n])
                                   /\ h[n] = Stream!Take(h[n - 1], q[n])

LEMMA PlaysNone ==
    ASSUME NEW v, NEW w
    PROVE  Plays(v, <<>>, w) <=> v = w
<1>1. ASSUME v = w PROVE Plays(v, <<>>, w)
  <2> DEFINE h == [n \in {0} |-> v]
  <2>1. h[0] = v /\ h[Len(<<>>)] = w
    BY <1>1
  <2> HIDE DEF h
  <2> QED
    BY <2>1 DEF Plays
<1> QED
  BY <1>1 DEF Plays

LEMMA PlaysOne ==
    ASSUME NEW v, NEW e, Stream!Conforms(v, e)
    PROVE  Plays(v, <<e>>, Stream!Take(v, e))
<1> DEFINE w == Stream!Take(v, e)
           q == <<e>>
           h == [n \in {0, 1} |-> IF n = 0 THEN v ELSE w]
<1>1. h[0] = v /\ h[1] = w /\ Len(q) = 1 /\ q[1] = e
  OBVIOUS
<1> HIDE DEF h, q
<1>2. ASSUME NEW n \in 1..Len(q)
      PROVE  Stream!Conforms(h[n - 1], q[n]) /\ h[n] = Stream!Take(h[n - 1], q[n])
  <2>1. n = 1 /\ n - 1 = 0
    BY <1>1
  <2> QED
    BY <1>1, <2>1
<1>3. Plays(v, q, w)
  BY <1>1, <1>2 DEF Plays
<1> QED
  BY <1>3 DEF q

LEMMA PlaysThen ==
    ASSUME NEW p \in Seq(Ev), NEW q \in Seq(Ev), NEW v, NEW w, NEW x,
           Plays(v, p, w), Plays(w, q, x)
    PROVE  Plays(v, p \o q, x)
<1>1. PICK f : /\ f[0] = v /\ f[Len(p)] = w
               /\ \A n \in 1..Len(p) : /\ Stream!Conforms(f[n - 1], p[n])
                                       /\ f[n] = Stream!Take(f[n - 1], p[n])
  BY DEF Plays
<1>2. PICK g : /\ g[0] = w /\ g[Len(q)] = x
               /\ \A n \in 1..Len(q) : /\ Stream!Conforms(g[n - 1], q[n])
                                       /\ g[n] = Stream!Take(g[n - 1], q[n])
  BY DEF Plays
<1> DEFINE r == p \o q
           a == Len(p)
           b == Len(q)
           h == [n \in 0..(a + b) |-> IF n <= a THEN f[n] ELSE g[n - a]]
<1>3. /\ a \in Nat /\ b \in Nat /\ Len(r) = a + b
      /\ \A i \in 1..(a + b) : r[i] = IF i <= a THEN p[i] ELSE q[i - a]
  BY ConcatProperties, LenProperties
<1> HIDE DEF r, a, b
<1>4. \A n \in 0..(a + b) : h[n] = IF n <= a THEN f[n] ELSE g[n - a]
  OBVIOUS
<1> HIDE DEF h
<1>5. h[0] = v
  <2>1. 0 \in 0..(a + b) /\ 0 <= a
    BY <1>3
  <2> QED
    BY <1>1, <1>4, <2>1
<1>6. h[a + b] = x
  <2>1. CASE b = 0
    BY <1>1, <1>2, <1>3, <1>4, <2>1 DEF a, b
  <2>2. CASE b # 0
    <3>1. a + b \in 0..(a + b) /\ ~(a + b <= a) /\ (a + b) - a = b
      BY <1>3, <2>2
    <3> QED
      BY <1>2, <1>4, <3>1 DEF b
  <2> QED
    BY <2>1, <2>2
<1>7. ASSUME NEW n \in 1..(a + b)
      PROVE  Stream!Conforms(h[n - 1], r[n]) /\ h[n] = Stream!Take(h[n - 1], r[n])
  <2>1. n \in 0..(a + b) /\ n - 1 \in 0..(a + b)
    BY <1>3
  <2>2. CASE n <= a
    <3>1. n - 1 <= a /\ n \in 1..a
      BY <1>3, <2>2
    <3>2. h[n] = f[n] /\ h[n - 1] = f[n - 1] /\ r[n] = p[n]
      BY <1>3, <1>4, <2>1, <2>2, <3>1
    <3> QED
      BY <1>1, <3>1, <3>2 DEF a
  <2>3. CASE n = a + 1
    <3>1. ~(n <= a) /\ n - a = 1 /\ n - 1 = a /\ 1 \in 1..b /\ a <= a /\ 1 - 1 = 0
      BY <1>3, <2>3
    <3>2. h[n] = g[1] /\ h[n - 1] = f[a] /\ r[n] = q[1]
      BY <1>3, <1>4, <2>1, <3>1
    <3>3. f[a] = g[0]
      BY <1>1, <1>2 DEF a
    <3>4. Stream!Conforms(g[0], q[1]) /\ g[1] = Stream!Take(g[0], q[1])
      BY <1>2, <3>1 DEF b
    <3> QED
      BY <3>2, <3>3, <3>4
  <2>4. CASE n > a + 1
    <3>1. ~(n <= a) /\ ~(n - 1 <= a) /\ n - a \in 1..b /\ (n - 1) - a = (n - a) - 1
      BY <1>3, <2>4
    <3>2. h[n] = g[n - a] /\ h[n - 1] = g[(n - a) - 1] /\ r[n] = q[n - a]
      BY <1>3, <1>4, <2>1, <3>1
    <3> QED
      BY <1>2, <3>1, <3>2 DEF b
  <2> QED
    BY <1>3, <2>2, <2>3, <2>4
<1>8. Plays(v, r, x)
  BY <1>3, <1>5, <1>6, <1>7, ZenonT(40) DEF Plays
<1> QED
  BY <1>8 DEF r

LEMMA PlaysHead ==
    ASSUME NEW q \in Seq(Ev), q # <<>>, NEW v, NEW w, Plays(v, q, w)
    PROVE  /\ Stream!Conforms(v, Head(q))
           /\ Plays(Stream!Take(v, Head(q)), Tail(q), w)
<1>1. PICK f : /\ f[0] = v /\ f[Len(q)] = w
               /\ \A n \in 1..Len(q) : /\ Stream!Conforms(f[n - 1], q[n])
                                       /\ f[n] = Stream!Take(f[n - 1], q[n])
  BY DEF Plays
<1> DEFINE t == Tail(q)
           m == Len(t)
           h == [n \in 0..m |-> f[n + 1]]
<1>2. /\ Len(q) \in Nat \ {0} /\ Head(q) = q[1] /\ m = Len(q) - 1
      /\ \A i \in 1..m : i + 1 \in 1..Len(q) /\ t[i] = q[i + 1]
  BY TailFacts
<1> HIDE DEF t, m
<1>3. 1 \in 1..Len(q) /\ 1 - 1 = 0 /\ 0 + 1 = 1 /\ m \in Nat /\ m + 1 = Len(q)
  BY <1>2
<1>4. Stream!Conforms(v, Head(q)) /\ f[1] = Stream!Take(v, Head(q))
  BY <1>1, <1>2, <1>3
<1>5. h[0] = Stream!Take(v, Head(q)) /\ h[m] = w
  BY <1>1, <1>3, <1>4
<1>6. ASSUME NEW n \in 1..m
      PROVE  Stream!Conforms(h[n - 1], t[n]) /\ h[n] = Stream!Take(h[n - 1], t[n])
  <2>1. n - 1 \in 0..m /\ n \in 0..m /\ (n - 1) + 1 = n /\ (n + 1) - 1 = n
    BY <1>3
  <2>2. h[n - 1] = f[n] /\ h[n] = f[n + 1]
    BY <2>1
  <2>3. Stream!Conforms(f[n], q[n + 1]) /\ f[n + 1] = Stream!Take(f[n], q[n + 1])
    BY <1>1, <1>2, <2>1
  <2> QED
    BY <1>2, <2>2, <2>3
<1> HIDE DEF h
<1>7. Plays(Stream!Take(v, Head(q)), t, w)
  BY <1>5, <1>6 DEF Plays, m
<1> QED
  BY <1>4, <1>7 DEF t

LEMMA PlaysTwo ==
    ASSUME NEW v, NEW a \in Ev, NEW b \in Ev,
           Stream!Conforms(v, a), Stream!Conforms(Stream!Take(v, a), b)
    PROVE  Plays(v, <<a, b>>, Stream!Take(Stream!Take(v, a), b))
<1> DEFINE w == Stream!Take(v, a)
           x == Stream!Take(w, b)
<1>1. Plays(v, <<a>>, w) /\ Plays(w, <<b>>, x)
  BY PlaysOne
<1>2. <<a>> \in Seq(Ev) /\ <<b>> \in Seq(Ev)
  BY ShortSequences
<1>3. <<a>> \o <<b>> = <<a, b>>
  <2>1. Append(<<a>>, b) = <<a>> \o <<b>>
    BY <1>2, AppendIsConcat
  <2> QED
    BY <2>1, PairIsAppend
<1> HIDE DEF w, x
<1>4. Plays(v, <<a>> \o <<b>>, x)
  BY <1>1, <1>2, PlaysThen
<1> QED
  BY <1>3, <1>4 DEF w, x

LEMMA PlaysThree ==
    ASSUME NEW v, NEW a, NEW b, NEW e,
           LET x == Stream!Take(v, a)
               y == Stream!Take(x, b)
           IN  Stream!Conforms(v, a) /\ Stream!Conforms(x, b) /\ Stream!Conforms(y, e)
    PROVE  Plays(v, <<a, b, e>>, Stream!Take(Stream!Take(Stream!Take(v, a), b), e))
<1> DEFINE x == Stream!Take(v, a)
           y == Stream!Take(x, b)
           z == Stream!Take(y, e)
           q == <<a, b, e>>
           h == [n \in 0..3 |-> CASE n = 0 -> v [] n = 1 -> x [] n = 2 -> y [] n = 3 -> z]
<1>1. h[0] = v /\ h[1] = x /\ h[2] = y /\ h[3] = z
  <2> HIDE DEF x, y, z
  <2> QED
    OBVIOUS
<1>2. Len(q) = 3 /\ q[1] = a /\ q[2] = b /\ q[3] = e
  OBVIOUS
<1> HIDE DEF h, q
<1>3. ASSUME NEW n \in 1..Len(q)
      PROVE  Stream!Conforms(h[n - 1], q[n]) /\ h[n] = Stream!Take(h[n - 1], q[n])
  <2>1. CASE n = 1
    <3>1. n - 1 = 0
      BY <2>1
    <3> QED
      BY <1>1, <1>2, <2>1, <3>1
  <2>2. CASE n = 2
    <3>1. n - 1 = 1
      BY <2>2
    <3> QED
      BY <1>1, <1>2, <2>2, <3>1
  <2>3. CASE n = 3
    <3>1. n - 1 = 2
      BY <2>3
    <3> QED
      BY <1>1, <1>2, <2>3, <3>1
  <2> QED
    BY <1>2, <2>1, <2>2, <2>3
<1> HIDE DEF x, y, z
<1>4. Plays(v, q, z)
  BY <1>1, <1>2, <1>3 DEF Plays
<1> QED
  BY <1>4 DEF q, x, y, z

\* While the chunks last, a client holds what the converter has said, item by
\* item, none of them closed.
Matches(v, slots, said) ==
    /\ v \in View /\ Stream!Running(v)
    /\ Len(v.items) = Len(slots)
    /\ \A i \in 1..Len(slots) :
         v.items[i] = [kind |-> slots[i], data |-> said[slots[i]], closed |-> FALSE]
    /\ \A kind \in Kinds : (\A i \in 1..Len(slots) : slots[i] # kind) => said[kind] = <<>>

LEMMA AddPlays ==
    ASSUME NEW slots \in Seq(Kinds), NEW said \in [Kinds -> Text], NEW kind \in Kinds,
           \A i \in 1..Len(slots) : slots[i] # kind,
           NEW v, Matches(v, slots, said)
    PROVE  LET e == ItemEvent("added", Len(slots) + 1, kind, <<>>)
           IN  /\ Stream!Conforms(v, e)
               /\ Matches(Stream!Take(v, e), Append(slots, kind), said)
<1> DEFINE n == Len(slots)
           e == ItemEvent("added", n + 1, kind, <<>>)
           w == Stream!Take(v, e)
           more == Append(slots, kind)
           x == [kind |-> kind, data |-> <<>>, closed |-> FALSE]
<1>1. /\ n \in Nat /\ more \in Seq(Kinds) /\ Len(more) = n + 1 /\ more[n + 1] = kind
      /\ \A i \in 1..n : more[i] = slots[i]
  BY AppendProperties, LenProperties
<1>2. e.type = "added" /\ e.idx = n + 1 /\ e.kind = kind /\ e \in Ev
  <2>1. n + 1 \in Nat /\ kind \in Kinds \cup {"call"} /\ <<>> \in Text /\ "added" \in Types
    BY <1>1 DEF Text, Types
  <2> HIDE DEF n
  <2> QED
    BY <2>1, ItemEventIs, ItemEventType DEF Ev
<1> HIDE DEF e
<1>3. /\ v \in View /\ Stream!Running(v) /\ Len(v.items) = n /\ said[kind] = <<>>
      /\ \A i \in 1..n :
           v.items[i] = [kind |-> slots[i], data |-> said[slots[i]], closed |-> FALSE]
  BY DEF Matches
<1>4. Stream!Conforms(v, e)
  BY <1>2, <1>3 DEF Stream!Conforms, Stream!Add
<1>5. w \in View /\ w.last = "added" /\ w.items = Append(v.items, x)
  <2>1. w \in View
    BY <1>2, <1>3, TakeType
  <2>2. /\ w.last = e.type
        /\ w.items = Append(v.items, [kind |-> e.kind, data |-> <<>>, closed |-> FALSE])
    BY <1>2, TakeCases, ZenonT(40)
  <2> HIDE DEF w
  <2> QED
    BY <1>2, <2>1, <2>2
<1>6. v.items \in Seq(Shown) /\ x \in Shown
  BY <1>3 DEF View, Shown, Text
<1> HIDE DEF w, more, n, x
<1>7. Len(w.items) = n + 1 /\ w.items[n + 1] = x /\ \A i \in 1..n : w.items[i] = v.items[i]
  BY <1>3, <1>5, <1>6, AppendProperties
<1>8. Stream!Running(w)
  BY <1>5 DEF Stream!Running
<1>9. ASSUME NEW i \in 1..(n + 1)
      PROVE  w.items[i] = [kind |-> more[i], data |-> said[more[i]], closed |-> FALSE]
  <2>1. CASE i = n + 1
    BY <1>1, <1>3, <1>7, <2>1 DEF x
  <2>2. CASE i # n + 1
    <3>1. i \in 1..n
      BY <1>1, <2>2
    <3> QED
      BY <1>1, <1>3, <1>7, <3>1
  <2> QED
    BY <2>1, <2>2
<1>10. ASSUME NEW k \in Kinds, \A i \in 1..(n + 1) : more[i] # k
       PROVE  said[k] = <<>>
  <2>1. \A i \in 1..n : slots[i] # k
    BY <1>1, <1>10
  <2> QED
    BY <2>1 DEF Matches, n
<1>11. Matches(w, more, said)
  BY <1>1, <1>5, <1>7, <1>8, <1>9, <1>10 DEF Matches
<1> QED
  BY <1>4, <1>11 DEF e, w, more, n

LEMMA DeltaPlays ==
    ASSUME NEW slots \in Seq(Kinds), Distinct(slots), NEW said \in [Kinds -> Text],
           NEW k \in 1..Len(slots), NEW text \in Text, NEW v, Matches(v, slots, said)
    PROVE  LET e == ItemEvent("delta", k, slots[k], text)
           IN  /\ Stream!Conforms(v, e)
               /\ Matches(Stream!Take(v, e), slots,
                          [said EXCEPT ![slots[k]] = said[slots[k]] \o text])
<1> DEFINE n == Len(slots)
           kind == slots[k]
           e == ItemEvent("delta", k, kind, text)
           w == Stream!Take(v, e)
           now == [said EXCEPT ![kind] = said[kind] \o text]
<1>1. /\ n \in Nat /\ kind \in Kinds /\ k \in Nat /\ DOMAIN slots = 1..n
      /\ \A i \in 1..n : slots[i] \in Kinds
  BY LenProperties, ElementOfSeq
<1>2. e.type = "delta" /\ e.idx = k /\ e.kind = kind /\ e.data = text /\ e \in Ev
  <2>1. kind \in Kinds \cup {"call"} /\ "delta" \in Types
    BY <1>1 DEF Types
  <2> HIDE DEF kind
  <2> QED
    BY <1>1, <2>1, ItemEventIs, ItemEventType DEF Ev
<1> HIDE DEF e
<1>3. /\ v \in View /\ Stream!Running(v) /\ Len(v.items) = n
      /\ \A i \in 1..n :
           v.items[i] = [kind |-> slots[i], data |-> said[slots[i]], closed |-> FALSE]
  BY DEF Matches
<1>4. v.items \in Seq(Shown) /\ v.items \in [1..n -> Shown] /\ DOMAIN v.items = 1..n
  BY <1>3, LenProperties DEF View
<1>5. Stream!Conforms(v, e)
  <2>1. v.items[k] = [kind |-> slots[k], data |-> said[slots[k]], closed |-> FALSE]
    BY <1>3
  <2>2. v.items[k].closed = FALSE /\ v.items[k].kind = kind
    BY <2>1
  <2>3. k \in 1..n
    OBVIOUS
  <2> HIDE DEF kind, n
  <2> QED
    BY <2>2, <2>3, <1>2, <1>3, <1>4, <2>1 DEF Stream!Conforms, Stream!Speak, Stream!Unclosed
<1>6. w \in View /\ w.last = "delta" /\ w.items = [v.items EXCEPT ![k].data = @ \o text]
  <2>1. w \in View
    BY <1>2, <1>3, TakeType
  <2>2. w.last = e.type /\ w.items = [v.items EXCEPT ![e.idx].data = @ \o e.data]
    <3>1. e.type = "delta"
      BY <1>2
    <3> QED
      BY <3>1, TakeCases
  <2> HIDE DEF w
  <2> QED
    BY <1>2, <2>1, <2>2
<1> HIDE DEF w
<1>7. Len(w.items) = n
  <2>1. w.items \in Seq(Shown) /\ DOMAIN w.items = 1..n
    BY <1>4, <1>6 DEF View
  <2> QED
    BY <1>1, <2>1, LenProperties
<1>8. Stream!Running(w)
  BY <1>6 DEF Stream!Running
<1>9. \A x \in Kinds : now[x] = IF x = kind THEN said[x] \o text ELSE said[x]
  OBVIOUS
<1> HIDE DEF now
<1>10. ASSUME NEW i \in 1..n
       PROVE  w.items[i] = [kind |-> slots[i], data |-> now[slots[i]], closed |-> FALSE]
  <2>1. CASE i = k
    <3>1. w.items[k] = [v.items[k] EXCEPT !.data = v.items[k].data \o text]
      BY <1>4, <1>6
    <3>2. v.items[k] = [kind |-> kind, data |-> said[kind], closed |-> FALSE]
      BY <1>3
    <3>3. now[kind] = said[kind] \o text
      BY <1>1, <1>9
    <3> DEFINE old == v.items[k]
               next == w.items[k]
               a == now[kind]
    <3> HIDE DEF kind, old, next, a
    <3>4. next = [old EXCEPT !.data = old.data \o text]
      BY <3>1 DEF next, old
    <3>5. old = [kind |-> kind, data |-> said[kind], closed |-> FALSE]
      BY <3>2 DEF old
    <3>6. a = said[kind] \o text
      BY <3>3 DEF a
    <3>7. next = [kind |-> kind, data |-> a, closed |-> FALSE]
      BY <3>4, <3>5, <3>6
    <3>8. w.items[k] = [kind |-> kind, data |-> now[kind], closed |-> FALSE]
      BY <3>7 DEF next, a
    <3> QED
      BY <2>1, <3>8 DEF kind
  <2>2. CASE i # k
    <3>1. slots[i] # kind
      BY <1>1, <2>2 DEF Distinct
    <3>2. now[slots[i]] = said[slots[i]]
      BY <1>1, <1>9, <3>1
    <3>3. w.items[i] = v.items[i]
      BY <1>4, <1>6, <2>2
    <3> QED
      BY <1>3, <3>2, <3>3
  <2> QED
    BY <2>1, <2>2
<1>11. ASSUME NEW x \in Kinds, \A i \in 1..n : slots[i] # x
       PROVE  now[x] = <<>>
  <2>1. x # kind /\ said[x] = <<>>
    BY <1>11 DEF Matches
  <2> QED
    BY <1>9, <2>1
<1>12. Matches(w, slots, now)
  BY <1>6, <1>7, <1>8, <1>10, <1>11 DEF Matches
<1> QED
  BY <1>5, <1>12 DEF e, w, now

LEMMA SpeakPlays ==
    ASSUME NEW c \in Converter, Distinct(c.slots), NEW kind \in Kinds, NEW text \in Text,
           NEW v, Matches(v, c.slots, c.said)
    PROVE  LET d == Speak(c, kind, text)
           IN  \E w : Plays(v, SpeakEvents(c, kind, text), w) /\ Matches(w, d.slots, d.said)
<1> DEFINE d == Speak(c, kind, text)
           q == SpeakEvents(c, kind, text)
<1>1. CASE text = <<>>
  <2>1. d = c /\ q = <<>>
    BY <1>1 DEF Speak, SpeakEvents
  <2>2. Plays(v, <<>>, v)
    BY PlaysNone
  <2> QED
    BY <2>1, <2>2
<1>2. CASE text # <<>>
  <2> DEFINE k == Slot(d, kind)
             e == ItemEvent("delta", k, kind, text)
  <2>1. Shape(c, kind, text, d, k)
    BY <1>2, SpeakShape
  <2>2. /\ c.slots \in Seq(Kinds) /\ c.said \in [Kinds -> Text]
    BY DEF Converter
  <2> HIDE DEF d, k, q
  <2>3. /\ d.said = [c.said EXCEPT ![kind] = c.said[kind] \o text]
        /\ k \in 1..Len(d.slots) /\ d.slots[k] = kind
        /\ Distinct(d.slots) /\ d.slots \in Seq(Kinds)
    <3>1. d = [c EXCEPT !.said[kind] = c.said[kind] \o text, !.slots = d.slots]
      BY <2>1 DEF Shape
    <3>2. "said" \in DOMAIN c
      BY DEF Converter
    <3>3. d.said = [c.said EXCEPT ![kind] = c.said[kind] \o text]
      BY <3>1, <3>2
    <3>4. /\ k \in DOMAIN d.slots /\ d.slots[k] = kind
          /\ Distinct(d.slots) /\ d.slots \in Seq(Kinds)
      BY <2>1 DEF Shape
    <3> QED
      BY <3>3, <3>4, LenProperties
  <2>4. k \in Nat /\ kind \in Kinds \cup {"call"} /\ {"added", "delta"} \subseteq Types
        /\ <<>> \in Text
    BY <2>3, LenProperties DEF Types, Text
  <2>5. e \in Ev
    BY <2>4, ItemEventType DEF Ev
  <2>6. ASSUME NEW u, Matches(u, d.slots, c.said)
        PROVE  Stream!Conforms(u, e) /\ Matches(Stream!Take(u, e), d.slots, d.said)
    <3>1. e = ItemEvent("delta", k, d.slots[k], text)
      BY <2>3
    <3>2. d.said = [c.said EXCEPT ![d.slots[k]] = c.said[d.slots[k]] \o text]
      BY <2>3
    <3> DEFINE slots == d.slots
               said == c.said
               f == ItemEvent("delta", k, slots[k], text)
    <3>3. /\ slots \in Seq(Kinds) /\ Distinct(slots) /\ said \in [Kinds -> Text]
          /\ k \in 1..Len(slots) /\ Matches(u, slots, said)
      BY <2>2, <2>3, <2>6
    <3> HIDE DEF slots, said
    <3>4. /\ Stream!Conforms(u, f)
          /\ Matches(Stream!Take(u, f), slots, [said EXCEPT ![slots[k]] = said[slots[k]] \o text])
      BY <3>3, DeltaPlays
    <3> QED
      BY <3>1, <3>2, <3>4 DEF slots, said
  <2>7. CASE d.slots = c.slots /\ q = <<e>>
    <3>1. Plays(v, <<e>>, Stream!Take(v, e))
      BY <2>6, <2>7, PlaysOne
    <3> QED
      BY <2>6, <2>7, <3>1 DEF d, q
  <2>8. CASE /\ d.slots = Append(c.slots, kind) /\ k = Len(c.slots) + 1
             /\ q = <<ItemEvent("added", k, kind, <<>>), e>>
    <3> DEFINE a == ItemEvent("added", k, kind, <<>>)
               u == Stream!Take(v, a)
    <3>1. \A i \in 1..Len(c.slots) : c.slots[i] # kind
      <4>1. ASSUME NEW i \in 1..Len(c.slots), c.slots[i] = kind PROVE FALSE
        <5>1. i \in 1..Len(d.slots) /\ i # k /\ d.slots[i] = kind
              /\ DOMAIN d.slots = 1..Len(d.slots)
          BY <2>2, <2>3, <2>8, <4>1, AppendProperties, LenProperties
        <5> QED
          BY <2>3, <5>1 DEF Distinct
      <4> QED
        BY <4>1
    <3>2. Stream!Conforms(v, a) /\ Matches(u, d.slots, c.said)
      BY <2>2, <2>8, <3>1, AddPlays
    <3>3. a \in Ev
      BY <2>4, ItemEventType DEF Ev
    <3> HIDE DEF a, e
    <3>4. Stream!Conforms(u, e) /\ Matches(Stream!Take(u, e), d.slots, d.said)
      BY <2>6, <3>2
    <3>5. Plays(v, <<a, e>>, Stream!Take(u, e))
      BY <2>5, <3>2, <3>3, <3>4, PlaysTwo
    <3> QED
      BY <2>8, <3>4, <3>5 DEF a, d, q
  <2> QED
    BY <2>1, <2>7, <2>8 DEF Shape, q
<1> QED
  BY <1>1, <1>2

LEMMA UtteredPlays ==
    ASSUME NEW c \in Converter, Distinct(c.slots), NEW r, Uttered(c, r),
           NEW v, Matches(v, c.slots, c.said)
    PROVE  \E w : Plays(v, r.events, w) /\ Matches(w, r.conv.slots, r.conv.said)
<1>1. PICK c1 \in Converter, thoughts, words \in Text :
        /\ c1.slots = c.slots /\ c1.said = c.said
        /\ LET c2 == Speak(c1, "reasoning", thoughts)
               c3 == Speak(c2, "message", words)
           IN  r.conv.slots = c3.slots /\ r.conv.said = c3.said
               /\ r.events = SpeakEvents(c1, "reasoning", thoughts)
                              \o SpeakEvents(c2, "message", words)
  BY DEF Uttered
<1> DEFINE c2 == Speak(c1, "reasoning", thoughts)
           p == SpeakEvents(c1, "reasoning", thoughts)
           q == SpeakEvents(c2, "message", words)
           d == Speak(c2, "message", words)
<1>2. "reasoning" \in Kinds /\ "message" \in Kinds
  BY DEF Kinds
<1>3. c2 \in Converter /\ Distinct(c2.slots) /\ p \in Seq(EventOf(Deltas))
  BY <1>1, <1>2, SpeakType
<1>4. PICK u : Plays(v, p, u) /\ Matches(u, c2.slots, c2.said)
  BY <1>1, <1>2, SpeakPlays
<1> HIDE DEF c2, p
<1>5. q \in Seq(EventOf(Deltas))
  BY <1>2, <1>3, SpeakType
<1>6. PICK w : Plays(u, q, w) /\ Matches(w, d.slots, d.said)
  BY <1>2, <1>3, <1>4, SpeakPlays
<1>7. p \in Seq(Ev) /\ q \in Seq(Ev)
  BY <1>3, <1>5, EventOfSmaller DEF Ev, Deltas, Types
<1> HIDE DEF q, d
<1>8. Plays(v, p \o q, w)
  BY <1>4, <1>6, <1>7, PlaysThen
<1>9. r.events = p \o q /\ r.conv.slots = d.slots /\ r.conv.said = d.said
  BY <1>1 DEF c2, p, q, d
<1> QED
  BY <1>6, <1>8, <1>9

\* A delta or a done event changes the item it names and no other.
LEMMA DeltaItems ==
    ASSUME NEW v \in View, NEW e \in Ev, e.type = "delta"
    PROVE  LET w == Stream!Take(v, e)
           IN  /\ Len(w.items) = Len(v.items)
               /\ \A i \in 1..Len(v.items) :
                    w.items[i] = IF i = e.idx
                                   THEN [v.items[i] EXCEPT !.data = v.items[i].data \o e.data]
                                   ELSE v.items[i]
<1> DEFINE w == Stream!Take(v, e)
           n == Len(v.items)
           f == v.items
           g == w.items
           k == e.idx
           d == e.data
<1>1. f \in Seq(Shown) /\ g \in Seq(Shown)
  BY TakeType DEF View
<1>2. n \in Nat /\ f \in [1..n -> Shown]
  BY <1>1, LenProperties
<1>3. g = [f EXCEPT ![k].data = @ \o d]
  BY TakeCases
<1> HIDE DEF n, f, g, k, d
<1>4. g = [i \in 1..n |-> IF i = k THEN [f[i] EXCEPT !.data = f[i].data \o d] ELSE f[i]]
  BY <1>2, <1>3
<1>5. Len(g) = n
  BY <1>1, <1>2, <1>4, LenProperties
<1> QED
  BY <1>4, <1>5 DEF n, f, g, k, d

LEMMA DoneItems ==
    ASSUME NEW v \in View, NEW e \in Ev, e.type = "done"
    PROVE  LET w == Stream!Take(v, e)
           IN  /\ Len(w.items) = Len(v.items)
               /\ \A i \in 1..Len(v.items) :
                    w.items[i] = IF i = e.idx THEN [v.items[i] EXCEPT !.closed = TRUE]
                                 ELSE v.items[i]
<1> DEFINE w == Stream!Take(v, e)
           n == Len(v.items)
           f == v.items
           g == w.items
           k == e.idx
<1>1. f \in Seq(Shown) /\ g \in Seq(Shown)
  BY TakeType DEF View
<1>2. n \in Nat /\ f \in [1..n -> Shown]
  BY <1>1, LenProperties
<1>3. g = [f EXCEPT ![k].closed = TRUE]
  BY TakeCases
<1> HIDE DEF n, f, g, k
<1>4. g = [i \in 1..n |-> IF i = k THEN [f[i] EXCEPT !.closed = TRUE] ELSE f[i]]
  BY <1>2, <1>3
<1>5. Len(g) = n
  BY <1>1, <1>2, <1>4, LenProperties
<1> QED
  BY <1>4, <1>5 DEF n, f, g, k

LEMMA Fields ==
    ASSUME NEW k, NEW d, NEW b, NEW x, x = [kind |-> k, data |-> d, closed |-> b]
    PROVE  /\ x.kind = k /\ x.data = d /\ x.closed = b
           /\ [x EXCEPT !.closed = TRUE] = [kind |-> k, data |-> d, closed |-> TRUE]
<1>1. x.kind = k /\ x.data = d
  OBVIOUS
<1>2. x.closed = b
  OBVIOUS
<1>3. [x EXCEPT !.closed = TRUE] = [kind |-> k, data |-> d, closed |-> TRUE]
  <2> DEFINE t == TRUE
  <2> HIDE DEF t
  <2>1. [x EXCEPT !.closed = t] = [kind |-> k, data |-> d, closed |-> t]
    OBVIOUS
  <2> QED
    BY <2>1 DEF t
<1> QED
  BY <1>1, <1>2, <1>3

\* At the end a client holds the first m of the items that the completion will
\* list, each of them closed.
ShutTo(x, all, m) ==
    /\ x \in View /\ Stream!Running(x)
    /\ Len(x.items) = m
    /\ \A i \in 1..m : x.items[i] = [kind |-> all[i].kind, data |-> all[i].data, closed |-> TRUE]

\* The first n of the items closed.
PartlyShut(x, all, n) ==
    /\ x \in View /\ Stream!Running(x)
    /\ Len(x.items) = Len(all)
    /\ \A i \in 1..Len(all) :
         x.items[i] = [kind |-> all[i].kind, data |-> all[i].data, closed |-> (i <= n)]

LEMMA ClosePlays ==
    ASSUME NEW all \in Seq(Item), NEW n \in 1..Len(all), NEW v, PartlyShut(v, all, n - 1)
    PROVE  LET e == ItemEvent("done", n, all[n].kind, all[n].data)
           IN  /\ e \in Ev
               /\ Stream!Conforms(v, e)
               /\ PartlyShut(Stream!Take(v, e), all, n)
<1> DEFINE N == Len(all)
           e == ItemEvent("done", n, all[n].kind, all[n].data)
           w == Stream!Take(v, e)
<1>1. N \in Nat /\ n \in Nat /\ n - 1 \in Nat /\ all[n] \in Item
  BY LenProperties, ElementOfSeq
<1>2. all[n].kind \in Kinds \cup {"call"} /\ all[n].data \in Text /\ "done" \in Types
  BY <1>1 DEF Item, Types
<1>3. e \in Ev
  BY <1>1, <1>2, ItemEventType DEF Ev
<1>4. e.type = "done" /\ e.idx = n /\ e.kind = all[n].kind /\ e.data = all[n].data
  BY ItemEventIs
<1> HIDE DEF e
<1>5. /\ v \in View /\ Stream!Running(v) /\ Len(v.items) = N
      /\ \A i \in 1..N : v.items[i] = [kind |-> all[i].kind, data |-> all[i].data,
                                       closed |-> (i <= n - 1)]
  BY DEF PartlyShut
<1>6. n \in 1..N /\ ~(n <= n - 1) /\ n <= n
  BY <1>1
<1>7. Stream!Conforms(v, e)
  <2>1. v.items[n] = [kind |-> all[n].kind, data |-> all[n].data, closed |-> (n <= n - 1)]
    BY <1>5, <1>6
  <2>2. v.items[n].kind = all[n].kind /\ v.items[n].data = all[n].data /\ ~v.items[n].closed
    <3>1. /\ v.items[n].kind = all[n].kind /\ v.items[n].data = all[n].data
          /\ v.items[n].closed = (n <= n - 1)
      BY <2>1, Fields
    <3> QED
      BY <1>6, <3>1
  <2>3. DOMAIN v.items = 1..N
    BY <1>5, LenProperties DEF View
  <2> HIDE DEF N
  <2>4. n \in Stream!Unclosed(v)
    BY <1>6, <2>2, <2>3 DEF Stream!Unclosed
  <2> QED
    BY <1>4, <1>5, <2>2, <2>4 DEF Stream!Conforms, Stream!Close
<1>8. w \in View /\ w.last = "done"
  <2>1. w \in View
    BY <1>3, <1>5, TakeType
  <2>2. w.last = e.type
    BY TakeCases
  <2> HIDE DEF w
  <2> QED
    BY <1>4, <2>1, <2>2
<1>9. /\ Len(w.items) = N
      /\ \A i \in 1..N : w.items[i] = IF i = n THEN [v.items[i] EXCEPT !.closed = TRUE]
                                      ELSE v.items[i]
  <2>1. v \in View /\ Len(v.items) = N /\ e.type = "done"
    BY <1>4, <1>5
  <2> QED
    BY <1>3, <1>4, <2>1, DoneItems
<1> HIDE DEF w
<1>10. ASSUME NEW i \in 1..N
       PROVE  w.items[i] = [kind |-> all[i].kind, data |-> all[i].data, closed |-> (i <= n)]
  <2>1. v.items[i] = [kind |-> all[i].kind, data |-> all[i].data, closed |-> (i <= n - 1)]
    BY <1>5
  <2>2. CASE i = n
    <3>1. w.items[i] = [v.items[i] EXCEPT !.closed = TRUE]
      BY <1>9, <2>2
    <3>2. i <= n
      BY <1>6, <2>2
    <3>3. [v.items[i] EXCEPT !.closed = TRUE]
            = [kind |-> all[i].kind, data |-> all[i].data, closed |-> TRUE]
      BY <2>1, Fields
    <3>4. (i <= n) <=> TRUE
      BY <3>2
    <3>5. [kind |-> all[i].kind, data |-> all[i].data, closed |-> TRUE]
            = [kind |-> all[i].kind, data |-> all[i].data, closed |-> (i <= n)]
      <4> DEFINE k == all[i].kind
                 d == all[i].data
                 c == (i <= n)
      <4>1. c = TRUE
        BY <3>2
      <4> HIDE DEF c, k, d
      <4>2. [kind |-> k, data |-> d, closed |-> TRUE] = [kind |-> k, data |-> d, closed |-> c]
        BY <4>1
      <4> QED
        BY <4>2 DEF c, k, d
    <3> QED
      BY <3>1, <3>3, <3>5
  <2>3. CASE i # n
    <3>1. (i <= n) = (i <= n - 1)
      BY <1>1, <2>3
    <3>2. w.items[i] = v.items[i]
      BY <1>9, <2>3
    <3> QED
      BY <2>1, <3>1, <3>2
  <2> QED
    BY <2>2, <2>3
<1>11. Stream!Running(w)
  BY <1>8 DEF Stream!Running
<1>12. PartlyShut(w, all, n)
  BY <1>8, <1>9, <1>10, <1>11 DEF PartlyShut
<1> QED
  BY <1>3, <1>7, <1>12 DEF e, w

LEMMA TriplePlays ==
    ASSUME NEW all \in Seq(Item), NEW m \in Nat, m < Len(all), all[m + 1].kind = "call",
           NEW x, ShutTo(x, all, m)
    PROVE  LET d == all[m + 1].data
               t == << ItemEvent("added", m + 1, "call", <<>>),
                       ItemEvent("delta", m + 1, "call", d),
                       ItemEvent("done", m + 1, "call", d) >>
           IN  \E y : Plays(x, t, y) /\ ShutTo(y, all, m + 1)
<1> DEFINE d == all[m + 1].data
           k == m + 1
           a == ItemEvent("added", k, "call", <<>>)
           b == ItemEvent("delta", k, "call", d)
           e == ItemEvent("done", k, "call", d)
           x1 == Stream!Take(x, a)
           x2 == Stream!Take(x1, b)
           x3 == Stream!Take(x2, e)
<1>1. Len(all) \in Nat /\ k \in Nat /\ k \in 1..Len(all) /\ all[k] \in Item
  BY LenProperties, ElementOfSeq
<1>2. d \in Text /\ <<>> \in Text /\ "call" \in Kinds \cup {"call"}
      /\ {"added", "delta", "done"} \subseteq Types
  BY <1>1 DEF Item, Text, Types
<1> HIDE DEF d, k
<1>3. a \in Ev /\ b \in Ev /\ e \in Ev
  BY <1>1, <1>2, ItemEventType DEF Ev
<1>4. /\ a.type = "added" /\ a.idx = k /\ a.kind = "call"
      /\ b.type = "delta" /\ b.idx = k /\ b.kind = "call" /\ b.data = d
      /\ e.type = "done" /\ e.idx = k /\ e.kind = "call" /\ e.data = d
  BY ItemEventIs
<1> HIDE DEF a, b, e
<1>5. /\ x \in View /\ Stream!Running(x) /\ Len(x.items) = m
      /\ \A i \in 1..m : x.items[i] = [kind |-> all[i].kind, data |-> all[i].data,
                                       closed |-> TRUE]
  BY DEF ShutTo
<1> DEFINE new == [kind |-> "call", data |-> <<>>, closed |-> FALSE]
<1>6. x1 \in View /\ x1.last = "added" /\ x1.items = Append(x.items, new)
  <2>1. x1 \in View
    BY <1>3, <1>5, TakeType
  <2>2. a.type = "added"
    BY <1>4
  <2>3. /\ x1.last = a.type
        /\ x1.items = Append(x.items, [kind |-> a.kind, data |-> <<>>, closed |-> FALSE])
    BY <2>2, TakeCases, ZenonT(40)
  <2> HIDE DEF x1
  <2> QED
    BY <1>4, <2>1, <2>3
<1> HIDE DEF x1
<1>7. x.items \in Seq(Shown) /\ new \in Shown
  BY <1>5 DEF View, Shown, Text
<1>8. /\ Len(x1.items) = k /\ x1.items[k] = new
      /\ \A i \in 1..m : x1.items[i] = x.items[i]
  <2> HIDE DEF new
  <2> QED
    BY <1>5, <1>6, <1>7, AppendProperties DEF k
<1>9. Stream!Conforms(x, a)
  BY <1>4, <1>5 DEF Stream!Conforms, Stream!Add, k
<1>10. k \in 1..k
  BY <1>1
<1>11. Stream!Conforms(x1, b)
  <2>1. Stream!Running(x1)
    BY <1>6 DEF Stream!Running
  <2>2. DOMAIN x1.items = 1..k
    BY <1>6, <1>8, LenProperties DEF View
  <2>3. x1.items[k].kind = "call" /\ ~x1.items[k].closed
    BY <1>8
  <2>4. k \in Stream!Unclosed(x1)
    BY <1>10, <2>2, <2>3 DEF Stream!Unclosed
  <2> QED
    BY <1>4, <2>1, <2>3, <2>4 DEF Stream!Conforms, Stream!Speak
<1>12. /\ x2 \in View /\ x2.last = "delta" /\ Len(x2.items) = k
       /\ \A i \in 1..k : x2.items[i] = IF i = k THEN [x1.items[i] EXCEPT !.data = x1.items[i].data \o d]
                                        ELSE x1.items[i]
  <2>1. x2 \in View /\ x2.last = b.type
    BY <1>3, <1>6, TakeType, TakeCases, ZenonT(40)
  <2>2. b.type = "delta"
    BY <1>4
  <2>3. /\ Len(x2.items) = Len(x1.items)
        /\ \A i \in 1..Len(x1.items) :
             x2.items[i] = IF i = b.idx THEN [x1.items[i] EXCEPT !.data = x1.items[i].data \o b.data]
                           ELSE x1.items[i]
    BY <1>3, <1>6, <2>2, DeltaItems
  <2> HIDE DEF x2
  <2> QED
    BY <1>4, <1>8, <2>1, <2>3, ZenonT(40)
<1> HIDE DEF x2
<1>13. x2.items[k] = [kind |-> "call", data |-> d, closed |-> FALSE]
  <2>1. <<>> \o d = d
    BY <1>2, ConcatEmptySeq DEF Text
  <2>2. x2.items[k] = [new EXCEPT !.data = new.data \o d]
    BY <1>8, <1>10, <1>12
  <2>3. new.data \o d = d
    BY <2>1
  <2> QED
    BY <2>2, <2>3
<1>14. Stream!Conforms(x2, e)
  <2>1. Stream!Running(x2)
    BY <1>12 DEF Stream!Running
  <2>2. DOMAIN x2.items = 1..k
    BY <1>12, LenProperties DEF View
  <2>3. x2.items[k].kind = "call" /\ x2.items[k].data = d /\ ~x2.items[k].closed
    BY <1>13
  <2>4. k \in Stream!Unclosed(x2)
    BY <1>10, <2>2, <2>3 DEF Stream!Unclosed
  <2> QED
    BY <1>4, <2>1, <2>3, <2>4 DEF Stream!Conforms, Stream!Close
<1>15. /\ x3 \in View /\ x3.last = "done" /\ Len(x3.items) = k
       /\ \A i \in 1..k : x3.items[i] = IF i = k THEN [x2.items[i] EXCEPT !.closed = TRUE]
                                        ELSE x2.items[i]
  <2>1. x3 \in View /\ x3.last = e.type
    BY <1>3, <1>12, TakeType, TakeCases, ZenonT(40)
  <2>2. e.type = "done"
    BY <1>4
  <2>3. /\ Len(x3.items) = Len(x2.items)
        /\ \A i \in 1..Len(x2.items) :
             x3.items[i] = IF i = e.idx THEN [x2.items[i] EXCEPT !.closed = TRUE]
                           ELSE x2.items[i]
    BY <1>3, <1>12, <2>2, DoneItems
  <2> HIDE DEF x3
  <2> QED
    BY <1>4, <1>12, <2>1, <2>3
<1> HIDE DEF x3
<1>16. ASSUME NEW i \in 1..k
       PROVE  x3.items[i] = [kind |-> all[i].kind, data |-> all[i].data, closed |-> TRUE]
  <2>1. CASE i = k
    <3>1. x3.items[k] = [x2.items[k] EXCEPT !.closed = TRUE]
      BY <1>10, <1>15
    <3>2. x3.items[k] = [kind |-> "call", data |-> d, closed |-> TRUE]
      BY <1>13, <3>1, Fields
    <3> QED
      BY <2>1, <3>2 DEF d, k
  <2>2. CASE i # k
    <3>1. i \in 1..m
      BY <2>2 DEF k
    <3>2. x3.items[i] = x2.items[i] /\ x2.items[i] = x1.items[i]
      BY <1>12, <1>15, <2>2
    <3>3. x1.items[i] = x.items[i]
      BY <1>8, <3>1
    <3>4. x.items[i] = [kind |-> all[i].kind, data |-> all[i].data, closed |-> TRUE]
      BY <1>5, <3>1
    <3> QED
      BY <3>2, <3>3, <3>4
  <2> QED
    BY <2>1, <2>2
<1>17. Stream!Running(x3)
  BY <1>15 DEF Stream!Running
<1>18. ShutTo(x3, all, k)
  BY <1>15, <1>16, <1>17 DEF ShutTo
<1>19. Plays(x, <<a, b, e>>, x3)
  BY <1>9, <1>11, <1>14, PlaysThree DEF x1, x2, x3
<1> QED
  BY <1>18, <1>19 DEF a, b, e, d, k

LEMMA DonePlays ==
    ASSUME NEW c \in Converter, NEW v, Matches(v, c.slots, c.said)
    PROVE  LET texts == TextItems(c)
           IN  \E x : Plays(v, DoneEvents(texts), x) /\ PartlyShut(x, texts, Len(texts))
<1> DEFINE texts == TextItems(c)
           N == Len(texts)
           q == DoneEvents(texts)
           S == [kind : Kinds, data : Text]
<1>1. /\ texts \in Seq(S) /\ N = Len(c.slots) /\ N \in Nat
      /\ \A i \in 1..N : texts[i].kind = c.slots[i] /\ texts[i].data = c.said[c.slots[i]]
  <2>1. texts \in Seq(S) /\ N = Len(c.slots)
    BY ItemsType
  <2>2. DOMAIN c.slots = 1..N
    BY <2>1, LenProperties DEF Converter
  <2>3. \A i \in 1..N : texts[i] = [kind |-> c.slots[i], data |-> c.said[c.slots[i]]]
    BY <2>2 DEF TextItems
  <2>4. N \in Nat
    BY <2>1, LenProperties
  <2>5. \A i \in 1..N : texts[i].kind = c.slots[i] /\ texts[i].data = c.said[c.slots[i]]
    <3> HIDE DEF texts
    <3>1. ASSUME NEW i \in 1..N
          PROVE  texts[i].kind = c.slots[i] /\ texts[i].data = c.said[c.slots[i]]
      <4>1. texts[i] = [kind |-> c.slots[i], data |-> c.said[c.slots[i]]]
        BY <2>3
      <4> QED
        BY <4>1
    <3> QED
      BY <3>1
  <2> HIDE DEF texts, S
  <2> QED
    BY <2>1, <2>4, <2>5
<1>2. /\ q \in Seq(EventOf(Progress)) /\ Len(q) = N
      /\ \A i \in 1..N : q[i] = ItemEvent("done", i, texts[i].kind, texts[i].data)
  BY <1>1, DoneEventsType
<1>3. texts \in Seq(Item)
  <2>1. S \subseteq Item
    BY DEF Item
  <2> HIDE DEF S, texts
  <2> QED
    BY <1>1, <2>1, SeqMonotonic
<1>4. q \in Seq(Ev)
  BY <1>2, EventOfSmaller DEF Ev, Progress, Types
<1> HIDE DEF texts, q
<1>5. PartlyShut(v, texts, 0)
  <2>1. /\ v \in View /\ Stream!Running(v) /\ Len(v.items) = Len(c.slots)
        /\ \A i \in 1..Len(c.slots) :
             v.items[i] = [kind |-> c.slots[i], data |-> c.said[c.slots[i]], closed |-> FALSE]
    BY DEF Matches
  <2>2. ASSUME NEW i \in 1..N
        PROVE  v.items[i] = [kind |-> texts[i].kind, data |-> texts[i].data, closed |-> (i <= 0)]
    <3>1. v.items[i] = [kind |-> texts[i].kind, data |-> texts[i].data, closed |-> FALSE]
      BY <1>1, <2>1
    <3> DEFINE a == texts[i].kind
               d == texts[i].data
               b == (i <= 0)
    <3>2. b = FALSE
      BY <1>1
    <3> HIDE DEF a, d, b
    <3>3. [kind |-> a, data |-> d, closed |-> FALSE] = [kind |-> a, data |-> d, closed |-> b]
      BY <3>2
    <3> QED
      BY <3>1, <3>3 DEF a, d, b
  <2> QED
    BY <1>1, <2>1, <2>2 DEF PartlyShut
<1> DEFINE Reached(n) == \E x : Plays(v, SubSeq(q, 1, n), x) /\ PartlyShut(x, texts, n)
           B == {n \in 0..N : ~Reached(n)}
<1>6. ASSUME B # {} PROVE FALSE
  <2>1. PICK n \in B : \A j \in B : n <= j
    <3>1. B \subseteq Nat
      OBVIOUS
    <3> HIDE DEF B
    <3> QED
      BY <1>6, <3>1, LeastNatural
  <2>2. CASE n = 0
    <3>1. SubSeq(q, 1, 0) = <<>>
      BY <1>4, SubSeqEmpty
    <3>2. Plays(v, <<>>, v)
      BY PlaysNone
    <3> QED
      BY <1>5, <2>1, <2>2, <3>1, <3>2
  <2>3. CASE n # 0
    <3>1. n - 1 \in 0..N /\ n \in 1..N /\ ~(n <= n - 1)
      BY <1>1, <2>1, <2>3
    <3>2. PICK x : Plays(v, SubSeq(q, 1, n - 1), x) /\ PartlyShut(x, texts, n - 1)
      BY <2>1, <3>1
    <3> DEFINE e == ItemEvent("done", n, texts[n].kind, texts[n].data)
               y == Stream!Take(x, e)
    <3>3. e \in Ev /\ Stream!Conforms(x, e) /\ PartlyShut(y, texts, n)
      BY <1>3, <3>1, <3>2, ClosePlays
    <3>4. SubSeq(q, 1, n) = SubSeq(q, 1, n - 1) \o <<q[n]>>
      BY <1>1, <1>2, <1>4, <3>1, SubSeqRecursiveSecond
    <3>5. q[n] = e
      BY <1>2, <3>1
    <3>6. Plays(x, <<e>>, y)
      BY <3>3, PlaysOne
    <3>7. SubSeq(q, 1, n - 1) \in Seq(Ev) /\ <<e>> \in Seq(Ev)
      <4>1. \A i \in 1..(n - 1) : q[i] \in Ev
        BY <1>1, <1>2, <1>4, <3>1, ElementOfSeq
      <4> QED
        BY <1>1, <1>2, <1>4, <3>1, <3>3, <4>1, SubSeqProperties, ShortSequences
    <3> HIDE DEF e, y
    <3>8. Plays(v, SubSeq(q, 1, n), y)
      BY <3>2, <3>4, <3>5, <3>6, <3>7, PlaysThen
    <3> QED
      BY <2>1, <3>3, <3>8
  <2> QED
    BY <2>2, <2>3
<1>7. Reached(N)
  BY <1>1, <1>6
<1>8. SubSeq(q, 1, N) = q
  BY <1>2, <1>4, SubSeqFull
<1> QED
  BY <1>7, <1>8 DEF texts, q

LEMMA CallsPlay ==
    ASSUME NEW texts \in Seq(Item), NEW calls \in Seq([kind : {"call"}, data : Text]),
           NEW x, ShutTo(x, texts \o calls, Len(texts))
    PROVE  \E y : /\ Plays(x, CallEvents(Len(texts), calls), y)
                  /\ ShutTo(y, texts \o calls, Len(texts) + Len(calls))
<1> DEFINE all == texts \o calls
           N == Len(calls)
           base == Len(texts)
           S == EventOf(Progress)
           q == Triples(base, calls)
<1>1. N \in Nat /\ base \in Nat
  BY LenProperties
<1>2. calls \in Seq(Item) /\ \A j \in 1..N : calls[j].kind = "call"
  <2> DEFINE B == [kind : {"call"}, data : Text]
  <2>1. B \subseteq Item /\ \A b \in B : b.kind = "call"
    BY DEF Item
  <2>2. calls \in Seq(B)
    OBVIOUS
  <2> HIDE DEF B
  <2> QED
    BY <2>1, <2>2, SeqMonotonic, ElementOfSeq
<1>3. /\ all \in Seq(Item) /\ Len(all) = base + N
      /\ \A j \in 1..N : all[base + j] = calls[j]
  <2>1. /\ all \in Seq(Item) /\ Len(all) = base + N
        /\ \A i \in 1..(base + N) : all[i] = IF i <= base THEN texts[i] ELSE calls[i - base]
    BY <1>2, ConcatProperties
  <2>2. ASSUME NEW j \in 1..N PROVE all[base + j] = calls[j]
    <3>1. base + j \in 1..(base + N) /\ ~(base + j <= base) /\ (base + j) - base = j
      BY <1>1
    <3> HIDE DEF all, base
    <3> QED
      BY <2>1, <3>1
  <2> QED
    BY <2>1, <2>2
<1>4. /\ CallEvents(base, calls) = FlattenSeq(q) /\ q \in Seq(Seq(S)) /\ Len(q) = N
      /\ \A j \in 1..N : q[j] = Triple(base, calls, j)
  BY <1>1, TriplesType
<1> HIDE DEF all, q
<1>5. PICK f : Joins(f, q, S)
  <2> HIDE DEF S
  <2> QED
    BY <1>4, FlattenJoins
<1>6. /\ f[0] = <<>> /\ FlattenSeq(q) = f[N]
      /\ \A i \in 1..N : f[i] = f[i - 1] \o q[i]
      /\ \A i \in 0..N : f[i] \in Seq(S)
  BY <1>4, <1>5 DEF Joins
<1>7. \A s \in Seq(S) : s \in Seq(Ev)
  BY EventOfSmaller DEF Ev, Progress, Types
<1>8. \A i \in 1..N : q[i] \in Seq(S)
  BY <1>4, ElementOfSeq
<1> HIDE DEF S, N, base
<1> DEFINE Reached(n) == \E y : Plays(x, f[n], y) /\ ShutTo(y, all, base + n)
           B == {n \in 0..N : ~Reached(n)}
<1>9. ASSUME B # {} PROVE FALSE
  <2>1. PICK n \in B : \A j \in B : n <= j
    <3>1. B \subseteq Nat
      OBVIOUS
    <3> HIDE DEF B
    <3> QED
      BY <1>9, <3>1, LeastNatural
  <2>2. CASE n = 0
    <3>1. Plays(x, f[0], x) /\ base + 0 = base
      BY <1>1, <1>6, PlaysNone
    <3>2. ShutTo(x, all, base)
      BY DEF all, base
    <3> QED
      BY <2>1, <2>2, <3>1, <3>2
  <2>3. CASE n # 0
    <3>1. n - 1 \in 0..N /\ n \in 1..N /\ ~(n <= n - 1)
      BY <1>1, <2>1, <2>3
    <3>2. PICK y : Plays(x, f[n - 1], y) /\ ShutTo(y, all, base + (n - 1))
      BY <2>1, <3>1
    <3> DEFINE m == base + (n - 1)
    <3>3. m \in Nat /\ m < Len(all) /\ m + 1 = base + n
      BY <1>1, <1>3, <3>1
    <3>4. all[m + 1] = calls[n] /\ all[m + 1].kind = "call"
      BY <1>2, <1>3, <3>1, <3>3
    <3> DEFINE t == << ItemEvent("added", m + 1, "call", <<>>),
                       ItemEvent("delta", m + 1, "call", all[m + 1].data),
                       ItemEvent("done", m + 1, "call", all[m + 1].data) >>
    <3>5. q[n] = t
      BY <1>4, <3>1, <3>3, <3>4 DEF Triple
    <3>6. ShutTo(y, all, m)
      BY <3>2
    <3> HIDE DEF m
    <3>7. PICK z : Plays(y, t, z) /\ ShutTo(z, all, m + 1)
      BY <1>3, <3>3, <3>4, <3>6, TriplePlays
    <3>8. f[n - 1] \in Seq(Ev) /\ q[n] \in Seq(Ev)
      BY <1>6, <1>7, <1>8, <3>1
    <3>9. Plays(x, f[n - 1] \o q[n], z)
      <4> HIDE DEF t
      <4> QED
        BY <3>2, <3>5, <3>7, <3>8, PlaysThen
    <3> HIDE DEF t
    <3>10. Plays(x, f[n], z) /\ ShutTo(z, all, base + n)
      BY <1>6, <3>1, <3>3, <3>7, <3>9
    <3> QED
      BY <2>1, <3>10
  <2> QED
    BY <2>2, <2>3
<1>10. Reached(N)
  <2>1. N \in 0..N
    BY <1>1
  <2>2. B = {}
    BY <1>9
  <2> HIDE DEF Reached
  <2> QED
    BY <2>1, <2>2
<1> QED
  BY <1>4, <1>6, <1>10 DEF all, N, base

\* The items are closed copies of those listed.
Copies(items, all) ==
    /\ Len(items) = Len(all)
    /\ \A i \in 1..Len(all) :
         items[i] = [kind |-> all[i].kind, data |-> all[i].data, closed |-> TRUE]

\* The finish sequence keeps the contract, and leaves the client with the items
\* it lists.
LEMMA FinishPlays ==
    ASSUME NEW c \in Converter, NEW v, Matches(v, c.slots, c.said)
    PROVE  \E w : /\ Plays(v, EmitFinish(c).events, w)
                  /\ w \in View /\ Copies(w.items, TextItems(c) \o CallItems(c))
<1> DEFINE texts == TextItems(c)
           calls == CallItems(c)
           all == texts \o calls
           N == Len(all)
           e == Final(c)
           A == [kind : Kinds, data : Text]
           B == [kind : {"call"}, data : Text]
           p == DoneEvents(texts)
           r == CallEvents(Len(texts), calls)
<1>1. texts \in Seq(A) /\ calls \in Seq(B)
  BY ItemsType
<1>2. A \subseteq Item /\ B \subseteq Item
  BY DEF Item
<1>3. PICK x : Plays(v, p, x) /\ PartlyShut(x, texts, Len(texts))
  BY DonePlays
<1>4. /\ e \in Ev /\ e.type = "completed" /\ e.output = all
      /\ EmitFinish(c).events = (p \o r) \o <<e>>
  BY FinalIs, FinishType, EventOfSmaller DEF Ev, Types
<1>5. p \in Seq(Ev) /\ r \in Seq(Ev)
  <2>1. p \in Seq(EventOf(Progress))
    BY <1>1, DoneEventsType
  <2>2. r \in Seq(EventOf(Progress))
    BY <1>1, LenProperties, TriplesType
  <2> HIDE DEF p, r
  <2> QED
    BY <2>1, <2>2, EventOfSmaller DEF Ev, Progress, Types
<1> HIDE DEF A, texts, e, p
<1>6. texts \in Seq(Item) /\ calls \in Seq(Item)
  <2> HIDE DEF B, calls
  <2> QED
    BY <1>1, <1>2, SeqMonotonic
<1>7. /\ all \in Seq(Item) /\ N = Len(texts) + Len(calls) /\ Len(texts) \in Nat
      /\ Len(calls) \in Nat /\ N \in Nat
      /\ \A i \in 1..Len(texts) : all[i] = texts[i]
  <2> HIDE DEF calls
  <2>1. Len(texts) \in Nat /\ Len(calls) \in Nat
    BY <1>6, LenProperties
  <2>2. all \in Seq(Item) /\ N = Len(texts) + Len(calls)
        /\ \A i \in 1..(Len(texts) + Len(calls)) :
             all[i] = IF i <= Len(texts) THEN texts[i] ELSE calls[i - Len(texts)]
    BY <1>6, ConcatProperties
  <2> QED
    BY <2>1, <2>2
<1>8. ShutTo(x, all, Len(texts))
  <2>1. /\ x \in View /\ Stream!Running(x) /\ Len(x.items) = Len(texts)
        /\ \A i \in 1..Len(texts) :
             x.items[i] = [kind |-> texts[i].kind, data |-> texts[i].data,
                           closed |-> (i <= Len(texts))]
    BY <1>3 DEF PartlyShut
  <2>2. ASSUME NEW i \in 1..Len(texts)
        PROVE  x.items[i] = [kind |-> all[i].kind, data |-> all[i].data, closed |-> TRUE]
    <3>1. x.items[i] = [kind |-> texts[i].kind, data |-> texts[i].data,
                        closed |-> (i <= Len(texts))]
      BY <2>1
    <3> DEFINE a == texts[i].kind
               d == texts[i].data
               b == (i <= Len(texts))
    <3>2. b = TRUE
      BY <1>7
    <3>3. all[i] = texts[i]
      BY <1>7
    <3> HIDE DEF a, d, b
    <3>4. [kind |-> a, data |-> d, closed |-> TRUE] = [kind |-> a, data |-> d, closed |-> b]
      BY <3>2
    <3> HIDE DEF all
    <3> QED
      BY <3>1, <3>3, <3>4 DEF a, d, b
  <2> QED
    BY <2>1, <2>2 DEF ShutTo
<1>9. PICK y : Plays(x, r, y) /\ ShutTo(y, all, N)
  BY <1>1, <1>6, <1>7, <1>8, CallsPlay
<1> HIDE DEF calls, all, r, N
<1>10. /\ y \in View /\ Stream!Running(y) /\ Len(y.items) = N
       /\ \A i \in 1..N : y.items[i] = [kind |-> all[i].kind, data |-> all[i].data,
                                        closed |-> TRUE]
  BY <1>9 DEF ShutTo
<1>11. \A i \in 1..N : /\ y.items[i].kind = all[i].kind /\ y.items[i].data = all[i].data
                       /\ y.items[i].closed = TRUE
  <2>1. ASSUME NEW i \in 1..N
        PROVE  /\ y.items[i].kind = all[i].kind /\ y.items[i].data = all[i].data
               /\ y.items[i].closed = TRUE
    <3>1. y.items[i] = [kind |-> all[i].kind, data |-> all[i].data, closed |-> TRUE]
      BY <1>10
    <3> QED
      BY <3>1, Fields
  <2> QED
    BY <2>1
<1>12. Stream!Conforms(y, e)
  <2>1. DOMAIN y.items = 1..N
    BY <1>10, LenProperties DEF View
  <2>2. Stream!Unclosed(y) = {}
    BY <1>11, <2>1 DEF Stream!Unclosed
  <2>3. all = [i \in 1..N |-> all[i]] /\ \A i \in 1..N : all[i] \in Item
    BY <1>7, LenProperties, ElementOfSeq DEF N
  <2>4. \A i \in 1..N : all[i] = [kind |-> all[i].kind, data |-> all[i].data]
    BY <2>3 DEF Item
  <2>5. \A i \in 1..N : all[i] = [kind |-> y.items[i].kind, data |-> y.items[i].data]
    BY <1>11, <2>4
  <2>6. all = [i \in DOMAIN y.items |-> [kind |-> y.items[i].kind, data |-> y.items[i].data]]
    BY <2>1, <2>3, <2>5
  <2> QED
    BY <1>4, <1>10, <2>2, <2>6 DEF Stream!Conforms, Stream!Complete
<1> DEFINE w == Stream!Take(y, e)
<1>13. w \in View /\ w.items = y.items
  <2>1. w \in View
    BY <1>4, <1>10, TakeType
  <2>2. e.type \notin {"added", "delta", "done"}
    BY <1>4
  <2>3. w.items = y.items
    BY <2>2, TakeCases
  <2> QED
    BY <2>1, <2>3
<1>14. Plays(y, <<e>>, w)
  BY <1>12, PlaysOne
<1>15. <<e>> \in Seq(Ev) /\ p \o r \in Seq(Ev)
  BY <1>4, <1>5, ShortSequences, ConcatProperties
<1> HIDE DEF w
<1>16. Plays(v, p \o r, y)
  BY <1>3, <1>5, <1>9, PlaysThen
<1>17. Plays(v, (p \o r) \o <<e>>, w)
  BY <1>14, <1>15, <1>16, PlaysThen
<1>18. Copies(w.items, all)
  BY <1>10, <1>13 DEF Copies, N
<1> QED
  BY <1>4, <1>13, <1>17, <1>18 DEF all, texts, calls

-----------------------------------------------------------------------------
(* What is stored *)

\* The items are those shown, in the order a replay needs.
Listed(shown, items) ==
    /\ Len(items) = Len(shown)
    /\ \A i \in DOMAIN items : \E j \in DOMAIN shown :
         shown[j].kind = items[i].kind /\ shown[j].data = items[i].data
    /\ \A i, j \in DOMAIN items :
         items[i].kind = "reasoning" /\ items[j].kind = "message" => i < j

\* The kinds of the open items, reasoning first.
LEMMA OrderIs ==
    ASSUME NEW c \in Converter, Distinct(c.slots)
    PROVE  LET order == CanonicalOrder(c)
           IN  /\ order \in Seq(Kinds) /\ Len(order) = Len(c.slots)
               /\ \A i \in 1..Len(order) : \E j \in 1..Len(c.slots) : c.slots[j] = order[i]
               /\ \A i, j \in 1..Len(order) :
                    order[i] = "reasoning" /\ order[j] = "message" => i < j
<1> DEFINE s == c.slots
           n == Len(s)
           order == CanonicalOrder(c)
           r == IF "reasoning" \in ToSet(s) THEN <<"reasoning">> ELSE <<>>
           m == IF "message" \in ToSet(s) THEN <<"message">> ELSE <<>>
<1>1. /\ s \in Seq(Kinds) /\ n \in Nat /\ DOMAIN s = 1..n
      /\ \A i \in 1..n : s[i] \in Kinds
      /\ \A i, j \in 1..n : s[i] = s[j] => i = j
      /\ \A k : k \in ToSet(s) <=> \E j \in 1..n : s[j] = k
  <2>1. s \in Seq(Kinds) /\ n \in Nat /\ DOMAIN s = 1..n
    BY LenProperties DEF Converter
  <2>2. \A i \in 1..n : s[i] \in Kinds
    BY <2>1, ElementOfSeq
  <2> QED
    BY <2>1, <2>2 DEF Distinct, ToSet
<1>2. order = r \o m
  BY DEF CanonicalOrder
<1> HIDE DEF s, n, order
<1>3. n <= 2
  <2>1. ASSUME n > 2 PROVE FALSE
    <3>1. 1 \in 1..n /\ 2 \in 1..n /\ 3 \in 1..n
      BY <1>1, <2>1
    <3>2. s[1] # s[2] /\ s[1] # s[3] /\ s[2] # s[3]
      BY <1>1, <3>1
    <3>3. s[1] \in Kinds /\ s[2] \in Kinds /\ s[3] \in Kinds
      BY <1>1, <3>1
    <3> QED
      BY <3>2, <3>3 DEF Kinds
  <2> QED
    BY <1>1, <2>1
<1>4. CASE "reasoning" \in ToSet(s) /\ "message" \in ToSet(s)
  <2>1. PICK a \in 1..n, b \in 1..n : s[a] = "reasoning" /\ s[b] = "message"
    BY <1>1, <1>4
  <2>2. n = 2
    BY <1>1, <1>3, <2>1
  <2>3. order = <<"reasoning", "message">>
    <3>1. order = <<"reasoning">> \o <<"message">>
      BY <1>2, <1>4
    <3>2. <<"reasoning">> \in Seq(Kinds) /\ "message" \in Kinds
      BY DEF Kinds
    <3>3. Append(<<"reasoning">>, "message") = <<"reasoning">> \o <<"message">>
      BY <3>2, AppendIsConcat
    <3>4. Append(<<"reasoning">>, "message") = <<"reasoning", "message">>
      BY PairIsAppend
    <3> QED
      BY <3>1, <3>3, <3>4
  <2>4. /\ order \in Seq(Kinds) /\ Len(order) = 2
        /\ order[1] = "reasoning" /\ order[2] = "message"
    BY <2>3 DEF Kinds
  <2>5. \A i \in 1..Len(order) : i = 1 \/ i = 2
    BY <2>4
  <2> HIDE DEF r, m
  <2>6. ASSUME NEW i \in 1..Len(order) PROVE \E j \in 1..n : s[j] = order[i]
    BY <2>1, <2>4, <2>5
  <2>7. ASSUME NEW i \in 1..Len(order), NEW j \in 1..Len(order),
               order[i] = "reasoning", order[j] = "message"
        PROVE  i < j
    BY <2>4, <2>5, <2>7
  <2> QED
    BY <2>2, <2>4, <2>6, <2>7 DEF order, s, n
<1>5. CASE "reasoning" \notin ToSet(s) /\ "message" \notin ToSet(s)
  <2>1. n = 0
    <3>1. ASSUME n # 0 PROVE FALSE
      <4>1. 1 \in 1..n
        BY <1>1, <3>1
      <4>2. s[1] \in Kinds /\ s[1] \in ToSet(s)
        BY <1>1, <4>1
      <4> QED
        BY <1>5, <4>2 DEF Kinds
    <3> QED
      BY <3>1
  <2>2. order = <<>>
    <3>1. order = <<>> \o <<>>
      BY <1>2, <1>5
    <3>2. <<>> \in Seq(Kinds)
      OBVIOUS
    <3> QED
      BY <3>1, <3>2, ConcatEmptySeq
  <2>3. order \in Seq(Kinds) /\ Len(order) = 0
    BY <2>2
  <2> QED
    BY <2>1, <2>3 DEF order, s, n
<1>6. ASSUME NEW k \in Kinds, k \in ToSet(s), \A x \in Kinds \ {k} : x \notin ToSet(s),
             order = <<k>>
      PROVE  /\ order \in Seq(Kinds) /\ Len(order) = n
             /\ \A i \in 1..Len(order) : \E j \in 1..n : s[j] = order[i]
             /\ \A i, j \in 1..Len(order) :
                  order[i] = "reasoning" /\ order[j] = "message" => i < j
  <2>1. PICK a \in 1..n : s[a] = k
    BY <1>1, <1>6
  <2>2. \A i \in 1..n : s[i] = k
    BY <1>1, <1>6
  <2>3. \A i \in 1..n : i = a
    BY <1>1, <2>1, <2>2
  <2>4. n = 1
    <3>1. 1 \in 1..n /\ n \in 1..n
      BY <1>1, <2>1
    <3> QED
      BY <2>3, <3>1
  <2>5. order \in Seq(Kinds) /\ Len(order) = 1 /\ order[1] = k
    <3> HIDE DEF Kinds
    <3> QED
      BY <1>6
  <2>6. \A i \in 1..Len(order) : order[i] = k
    BY <2>5
  <2> HIDE DEF r, m
  <2> QED
    BY <2>1, <2>4, <2>5, <2>6
<1>7. CASE "reasoning" \in ToSet(s) /\ "message" \notin ToSet(s)
  <2>1. order = <<"reasoning">>
    <3>1. order = <<"reasoning">> \o <<>>
      BY <1>2, <1>7
    <3>2. <<"reasoning">> \in Seq(Kinds)
      BY DEF Kinds
    <3> QED
      BY <3>1, <3>2, ConcatEmptySeq
  <2>2. "reasoning" \in Kinds /\ \A x \in Kinds \ {"reasoning"} : x \notin ToSet(s)
    BY <1>7 DEF Kinds
  <2> QED
    BY <1>6, <1>7, <2>1, <2>2 DEF order, s, n
<1>8. CASE "reasoning" \notin ToSet(s) /\ "message" \in ToSet(s)
  <2>1. order = <<"message">>
    <3>1. order = <<>> \o <<"message">>
      BY <1>2, <1>8
    <3>2. <<"message">> \in Seq(Kinds)
      BY DEF Kinds
    <3> QED
      BY <3>1, <3>2, ConcatEmptySeq
  <2>2. "message" \in Kinds /\ \A x \in Kinds \ {"message"} : x \notin ToSet(s)
    BY <1>8 DEF Kinds
  <2> QED
    BY <1>6, <1>8, <2>1, <2>2 DEF order, s, n
<1> QED
  BY <1>4, <1>5, <1>7, <1>8

LEMMA FinishListed ==
    ASSUME NEW c \in Converter, Distinct(c.slots), NEW shown,
           DOMAIN shown = 1..Len(shown), Copies(shown, TextItems(c) \o CallItems(c))
    PROVE  Listed(shown, Canonical(c) \o CallItems(c))
<1> DEFINE texts == TextItems(c)
           calls == CallItems(c)
           order == CanonicalOrder(c)
           canon == Canonical(c)
           all == texts \o calls
           items == canon \o calls
           n == Len(c.slots)
           m == Len(calls)
           A == [kind : Kinds, data : Text]
           B == [kind : {"call"}, data : Text]
<1>1. /\ texts \in Seq(A) /\ Len(texts) = n /\ calls \in Seq(B) /\ canon \in Seq(A)
      /\ n \in Nat /\ m \in Nat
  BY ItemsType, CanonicalType, LenProperties DEF Converter
<1>2. /\ order \in Seq(Kinds) /\ Len(order) = n
      /\ \A i \in 1..n : \E j \in 1..n : c.slots[j] = order[i]
      /\ \A i, j \in 1..n : order[i] = "reasoning" /\ order[j] = "message" => i < j
  BY OrderIs
<1>3. \A i \in 1..n : texts[i] = [kind |-> c.slots[i], data |-> c.said[c.slots[i]]]
  <2>1. DOMAIN c.slots = 1..n
    BY LenProperties DEF Converter
  <2> QED
    BY <2>1 DEF TextItems
<1>4. /\ Len(canon) = n
      /\ \A i \in 1..n : canon[i] = [kind |-> order[i], data |-> c.said[order[i]]]
  <2>1. DOMAIN order = 1..n
    BY <1>2, LenProperties
  <2>2. canon = [i \in DOMAIN order |-> [kind |-> order[i], data |-> c.said[order[i]]]]
    BY DEF Canonical
  <2> HIDE DEF order, canon, n
  <2> QED
    BY <1>1, <2>1, <2>2, LenProperties
<1>5. A \subseteq Item /\ B \subseteq Item /\ \A b \in B : b.kind = "call"
  BY DEF Item
<1> HIDE DEF A, B
<1>6. \A j \in 1..m : calls[j].kind = "call"
  <2> HIDE DEF calls
  <2> QED
    BY <1>1, <1>5, ElementOfSeq
<1>7. /\ texts \in Seq(Item) /\ calls \in Seq(Item) /\ canon \in Seq(Item)
  <2> HIDE DEF calls, texts, canon
  <2> QED
    BY <1>1, <1>5, SeqMonotonic
<1> HIDE DEF texts, calls, canon, order, n, m
<1>8. /\ Len(all) = n + m
      /\ \A i \in 1..(n + m) : all[i] = IF i <= n THEN texts[i] ELSE calls[i - n]
  BY <1>1, <1>7, ConcatProperties DEF m
<1>9. /\ Len(items) = n + m /\ items \in Seq(Item)
      /\ \A i \in 1..(n + m) : items[i] = IF i <= n THEN canon[i] ELSE calls[i - n]
  BY <1>1, <1>4, <1>7, ConcatProperties DEF m
<1>10. /\ Len(shown) = n + m
       /\ \A i \in 1..(n + m) : shown[i] = [kind |-> all[i].kind, data |-> all[i].data,
                                            closed |-> TRUE]
  <2>1. Copies(shown, all)
    BY DEF texts, calls
  <2> HIDE DEF all
  <2> QED
    BY <1>8, <2>1 DEF Copies
<1> HIDE DEF all, items
<1>11. \A i \in 1..(n + m) : shown[i].kind = all[i].kind /\ shown[i].data = all[i].data
  <2>1. ASSUME NEW i \in 1..(n + m)
        PROVE  shown[i].kind = all[i].kind /\ shown[i].data = all[i].data
    <3>1. shown[i] = [kind |-> all[i].kind, data |-> all[i].data, closed |-> TRUE]
      BY <1>10
    <3> QED
      BY <3>1, Fields
  <2> QED
    BY <2>1
<1>12. DOMAIN items = 1..(n + m) /\ DOMAIN shown = 1..(n + m)
  BY <1>9, <1>10, LenProperties
<1>13. ASSUME NEW i \in 1..(n + m)
       PROVE  \E j \in 1..(n + m) :
                shown[j].kind = items[i].kind /\ shown[j].data = items[i].data
  <2>1. CASE i <= n
    <3>1. i \in 1..n
      BY <1>1, <2>1
    <3>2. PICK j \in 1..n : c.slots[j] = order[i]
      BY <1>2, <3>1
    <3>3. j \in 1..(n + m) /\ j <= n
      BY <1>1
    <3>4. all[j] = texts[j] /\ items[i] = canon[i]
      BY <1>8, <1>9, <2>1, <3>3
    <3>5. texts[j] = canon[i]
      BY <1>3, <1>4, <3>1, <3>2
    <3> QED
      BY <1>11, <3>3, <3>4, <3>5
  <2>2. CASE ~(i <= n)
    <3>1. all[i] = items[i]
      BY <1>8, <1>9, <2>2
    <3> QED
      BY <1>11, <3>1
  <2> QED
    BY <2>1, <2>2
<1>14. ASSUME NEW i \in 1..(n + m), NEW j \in 1..(n + m),
              items[i].kind = "reasoning", items[j].kind = "message"
       PROVE  i < j
  <2>1. ASSUME NEW k \in 1..(n + m), items[k].kind # "call"
        PROVE  k \in 1..n /\ items[k].kind = order[k]
    <3>1. k <= n
      <4>1. ASSUME ~(k <= n) PROVE FALSE
        <5>1. k - n \in 1..m /\ items[k] = calls[k - n]
          BY <1>1, <1>9, <4>1
        <5> QED
          BY <1>6, <2>1, <5>1
      <4> QED
        BY <4>1
    <3>2. k \in 1..n /\ items[k] = canon[k]
      BY <1>1, <1>9, <3>1
    <3>3. canon[k] = [kind |-> order[k], data |-> c.said[order[k]]]
      BY <1>4, <3>2
    <3> QED
      BY <3>2, <3>3
  <2>2. /\ i \in 1..n /\ items[i].kind = order[i]
        /\ j \in 1..n /\ items[j].kind = order[j]
    <3>1. items[i].kind # "call" /\ items[j].kind # "call"
      BY <1>14
    <3> QED
      BY <2>1, <3>1
  <2> QED
    BY <1>2, <1>14, <2>2
<1>15. Listed(shown, items)
  BY <1>9, <1>10, <1>12, <1>13, <1>14 DEF Listed
<1> QED
  BY <1>15 DEF items, canon, calls

-----------------------------------------------------------------------------
(* The stream and its contract *)

\* The whole of the last batch, from wherever the chunks left the client.
LEMMA LastBatchPlays ==
    ASSUME NEW c \in Converter, Distinct(c.slots), NEW v, Matches(v, c.slots, c.said)
    PROVE  LET flushed == FlushHeal(c)
               final == EmitFinish(flushed.conv)
           IN  \E w : /\ Plays(v, flushed.events \o final.events, w)
                      /\ w \in View /\ Listed(w.items, final.conv.items)
<1> DEFINE flushed == FlushHeal(c)
           d == flushed.conv
           final == EmitFinish(d)
           p == flushed.events
           q == final.events
<1>1. d \in Converter /\ Distinct(d.slots) /\ Uttered(c, flushed)
  BY FlushHealType
<1> HIDE DEF flushed
<1>2. PICK x : Plays(v, p, x) /\ Matches(x, d.slots, d.said)
  BY <1>1, UtteredPlays
<1>3. PICK w : /\ Plays(x, q, w) /\ w \in View
               /\ Copies(w.items, TextItems(d) \o CallItems(d))
  BY <1>1, <1>2, FinishPlays
<1>4. DOMAIN w.items = 1..Len(w.items)
  BY <1>3, LenProperties DEF View
<1>5. Listed(w.items, Canonical(d) \o CallItems(d))
  BY <1>1, <1>3, <1>4, FinishListed
<1>6. final.conv.items = Canonical(d) \o CallItems(d)
  BY <1>1, FinishType
<1>7. p \in Seq(Ev)
  <2>1. p \in Seq(EventOf(Deltas))
    BY <1>1, UtteredEvents
  <2> QED
    BY <2>1, EventOfSmaller DEF Ev, Deltas, Types
<1>8. q \in Seq(Ev)
  <2> DEFINE texts == TextItems(d)
             calls == CallItems(d)
             S == EventOf(Progress)
             done == DoneEvents(texts)
             called == CallEvents(Len(texts), calls)
             e == Final(d)
  <2>1. texts \in Seq([kind : Kinds, data : Text]) /\ calls \in Seq([kind : {"call"}, data : Text])
    BY <1>1, ItemsType
  <2>2. done \in Seq(S) /\ called \in Seq(S)
    BY <2>1, DoneEventsType, TriplesType, LenProperties
  <2>3. \A s \in Seq(S) : s \in Seq(Ev)
    BY EventOfSmaller DEF Ev, Progress, Types
  <2>4. e \in Ev
    BY <1>1, FinalIs, EventOfSmaller DEF Ev, Types
  <2>5. q = (done \o called) \o <<e>>
    BY <1>1, FinishType
  <2> HIDE DEF done, called, e, S, q
  <2>6. done \in Seq(Ev) /\ called \in Seq(Ev) /\ <<e>> \in Seq(Ev)
    BY <2>2, <2>3, <2>4, ShortSequences
  <2>7. done \o called \in Seq(Ev)
    BY <2>6, ConcatProperties
  <2> QED
    BY <2>5, <2>6, <2>7, ConcatProperties
<1> HIDE DEF d, final, p, q
<1>9. Plays(v, p \o q, w)
  BY <1>2, <1>3, <1>7, <1>8, PlaysThen
<1> QED
  BY <1>3, <1>5, <1>6, <1>9 DEF p, q, final, d, flushed

\* Where the batch leads a client that stays, and what the session is to keep.
PlayInv ==
    /\ pc \in {"opening", "relaying", "reading", "ended"} =>
         \E w : /\ Matches(w, conv.slots, conv.said)
                /\ "disconnected" \notin flags => Plays(Stream!Held(sent), todo, w)
    /\ pc = "closing" =>
         \E w : /\ w \in View /\ Listed(w.items, conv.items)
                /\ "disconnected" \notin flags => Plays(Stream!Held(sent), todo, w)

ListedInv ==
    /\ pc = "closing" /\ "disconnected" \in flags /\ Head(todo).type = "completed" =>
         Listed(Stream!Held(sent).items, conv.items)
    /\ "completed" \in flags => Listed(Stream!Held(sent).items, conv.items)

\* A task that lost its client and goes on reading lost it at the opener.
LostInv ==
    /\ pc = "opening" => sent = <<>>
    /\ "disconnected" \in flags /\ pc \in {"reading", "relaying"} => sent = <<>>
    /\ "disconnected" \in flags /\ pc = "ended" /\ conv.slots = <<>> => sent = <<>>

FailInv ==
    /\ pc = "recording" /\ "disconnected" \notin flags /\ "completed" \notin flags =>
         Stream!Running(Stream!Held(sent))
    /\ pc = "failing" /\ "disconnected" \notin flags =>
         \/ todo = ErrorEvents /\ Stream!Running(Stream!Held(sent))
         \/ todo = <<Event("failed")>> /\ Stream!Held(sent).last = "error"

SavedInv == stored # <<>> => stored = <<conv.items>> /\ pc = "over"

StreamInv == PlayInv /\ ListedInv /\ LostInv /\ FailInv /\ SavedInv

LEMMA StreamInit == Init => StreamInv
<1> SUFFICES ASSUME Init PROVE StreamInv
  OBVIOUS
<1> DEFINE v == Stream!Nothing
           w == Stream!Take(v, Created)
<1>1. /\ pc = "opening" /\ todo = <<Created>> /\ sent = <<>> /\ flags = {} /\ stored = <<>>
      /\ conv.slots = <<>> /\ conv.said = [k \in {"reasoning", "message"} |-> <<>>]
  BY DEF Init, NewConverter
<1>2. Stream!Held(sent) = v
  BY <1>1, HeldNothing
<1>3. v \in View /\ v.last = "none" /\ v.items = <<>>
  BY DEF Stream!Nothing, View
<1>4. Stream!Conforms(v, Created)
  BY <1>3, FixedEvents DEF Stream!Conforms, Stream!Create
<1>5. Plays(v, <<Created>>, w)
  BY <1>4, PlaysOne
<1>6. Matches(w, conv.slots, conv.said)
  <2>1. w \in View
    BY <1>3, FixedEvents, TakeType
  <2>2. w.last = "created" /\ w.items = v.items
    <3>1. Created.type = "created" /\ Created.type \notin {"added", "delta", "done"}
      BY FixedEvents
    <3>2. w.last = Created.type /\ w.items = v.items
      BY <3>1, TakeCases
    <3> QED
      BY <3>1, <3>2
  <2>3. Stream!Running(w)
    BY <2>2 DEF Stream!Running
  <2> HIDE DEF w, v
  <2>4. Len(w.items) = 0 /\ Len(conv.slots) = 0
    BY <1>1, <1>3, <2>2
  <2>5. \A kind \in Kinds : conv.said[kind] = <<>>
    BY <1>1 DEF Kinds
  <2> QED
    BY <2>1, <2>3, <2>4, <2>5 DEF Matches
<1> HIDE DEF v, w
<1>7. PlayInv
  BY <1>1, <1>2, <1>5, <1>6 DEF PlayInv
<1> QED
  BY <1>1, <1>7 DEF StreamInv, ListedInv, LostInv, FailInv, SavedInv

\* What a step that sends an event does to the client's view.
LEMMA SendFacts ==
    ASSUME TypeInv, VerdictInv, SendEvent
    PROVE  /\ Head(todo) \in Ev /\ todo \in Seq(Ev) /\ todo # <<>> /\ Sending
           /\ "disconnected" \notin flags /\ flags' = flags \cup Noticed(Head(todo))
           /\ todo' = Tail(todo) /\ conv' = conv /\ stored' = stored
           /\ sent' = Append(sent, Head(todo)) /\ sent \in Seq(Ev)
           /\ pc' = IF todo' = <<>> THEN AfterBatch(pc) ELSE pc
           /\ Stream!Held(sent) \in View
           /\ Stream!Held(sent') = Stream!Take(Stream!Held(sent), Head(todo))
<1>1. /\ Rest /\ todo \in Seq(Ev) /\ sent \in Seq(Ev)
  BY TypesAre
<1>2. /\ todo' = Tail(todo) /\ Sending /\ todo # <<>> /\ client = "reading"
      /\ sent' = Append(sent, Head(todo)) /\ flags' = flags \cup Noticed(Head(todo))
      /\ pc' = IF todo' = <<>> THEN AfterBatch(pc) ELSE pc
      /\ conv' = conv /\ stored' = stored
  BY <1>1 DEF SendEvent, Rest
<1>3. Head(todo) \in Ev
  BY <1>1, <1>2, TailFacts, ElementOfSeq
<1>4. "disconnected" \notin flags
  BY <1>2 DEF VerdictInv, FlagInv
<1>5. /\ Stream!Held(sent) \in View
      /\ Stream!Held(Append(sent, Head(todo))) = Stream!Take(Stream!Held(sent), Head(todo))
  BY <1>1, <1>3, HeldAppend
<1> QED
  BY <1>1, <1>2, <1>3, <1>4, <1>5

LEMMA PlayStep == TypeInv /\ VerdictInv /\ StreamInv /\ [Next]_vars => PlayInv'
<1> SUFFICES ASSUME TypeInv, VerdictInv, PlayInv, [Next]_vars PROVE PlayInv'
  BY DEF StreamInv
<1>1. /\ Rest /\ conv \in Converter /\ Distinct(conv.slots)
      /\ todo \in Seq(Ev) /\ sent \in Seq(Ev)
  BY TypesAre
<1>2. CASE SendEvent
  <2> DEFINE e == Head(todo)
             v == Stream!Held(sent)
             u == Stream!Held(sent')
  <2>1. /\ e \in Ev /\ Sending /\ todo # <<>>
        /\ "disconnected" \notin flags /\ todo' = Tail(todo) /\ conv' = conv
        /\ pc' = IF todo' = <<>> THEN AfterBatch(pc) ELSE pc
        /\ u = Stream!Take(v, e)
    BY <1>2, SendFacts
  <2>2. ASSUME NEW w, Plays(v, todo, w)
        PROVE  Plays(u, todo', w)
    BY <1>1, <2>1, <2>2, PlaysHead
  <2> HIDE DEF e, v
  <2>3. CASE pc \in {"opening", "relaying"}
    <3>1. pc' \in {"opening", "relaying", "reading"}
      BY <2>1, <2>3 DEF AfterBatch
    <3>2. PICK w : Matches(w, conv.slots, conv.said) /\ Plays(v, todo, w)
      BY <2>1, <2>3 DEF PlayInv, v
    <3>3. Plays(u, todo', w) /\ Matches(w, conv'.slots, conv'.said)
      BY <2>1, <2>2, <3>2
    <3> QED
      BY <3>1, <3>3 DEF PlayInv
  <2>4. CASE pc = "closing"
    <3>1. pc' \in {"closing", "recording"}
      BY <2>1, <2>4 DEF AfterBatch
    <3>2. PICK w : w \in View /\ Listed(w.items, conv.items) /\ Plays(v, todo, w)
      BY <2>1, <2>4 DEF PlayInv, v
    <3>3. Plays(u, todo', w) /\ Listed(w.items, conv'.items)
      BY <2>1, <2>2, <3>2
    <3> QED
      BY <3>1, <3>2, <3>3 DEF PlayInv
  <2>5. CASE pc = "failing"
    <3>1. pc' \in {"failing", "over"}
      BY <2>1, <2>5 DEF AfterBatch
    <3> QED
      BY <3>1 DEF PlayInv
  <2> QED
    BY <2>1, <2>3, <2>4, <2>5 DEF Sending
<1>3. CASE SendFails
  <2>1. /\ conv' = conv /\ pc' = AfterLoss(pc) /\ Sending
        /\ pc # "failing" => "disconnected" \in flags'
    BY <1>3 DEF SendFails
  <2>2. CASE pc \in {"opening", "relaying"}
    <3>1. pc' \in {"reading", "ended"} /\ "disconnected" \in flags'
      BY <2>1, <2>2 DEF AfterLoss
    <3>2. PICK w : Matches(w, conv.slots, conv.said)
      BY <2>2 DEF PlayInv
    <3>3. Matches(w, conv'.slots, conv'.said)
      BY <2>1, <3>2
    <3> QED
      BY <3>1, <3>3 DEF PlayInv
  <2>3. CASE pc \in {"closing", "failing"}
    <3>1. pc' \in {"recording", "over"}
      BY <2>1, <2>3 DEF AfterLoss
    <3> QED
      BY <3>1 DEF PlayInv
  <2> QED
    BY <2>1, <2>2, <2>3 DEF Sending
<1>4. CASE Finish
  <2>1. pc = "ended" /\ todo = <<>> /\ flags' = flags /\ sent' = sent
    BY <1>1, <1>4 DEF Finish, Rest, Sending
  <2>2. CASE FinishAllowed /\ conv.finish
    <3> DEFINE flushed == FlushHeal(conv)
               final == EmitFinish(flushed.conv)
               q == flushed.events \o final.events
    <3>1. pc' = "closing" /\ todo' = q /\ conv' = final.conv
      BY <1>4, <2>2 DEF Finish
    <3>2. PICK w : /\ Matches(w, conv.slots, conv.said)
                   /\ "disconnected" \notin flags => Plays(Stream!Held(sent), todo, w)
      BY <2>1 DEF PlayInv
    <3>3. PICK x : Plays(w, q, x) /\ x \in View /\ Listed(x.items, final.conv.items)
      BY <1>1, <3>2, LastBatchPlays
    <3> HIDE DEF q, final, flushed
    <3>4. "disconnected" \notin flags => Plays(Stream!Held(sent), q, x)
      BY <2>1, <3>2, <3>3, PlaysNone
    <3>5. "disconnected" \notin flags' => Plays(Stream!Held(sent'), todo', x)
      BY <2>1, <3>1, <3>4
    <3> QED
      BY <3>1, <3>3, <3>5 DEF PlayInv
  <2>3. CASE ~(FinishAllowed /\ conv.finish)
    BY <1>4, <2>3 DEF Finish, PlayInv
  <2> QED
    BY <2>2, <2>3
<1>5. ASSUME NEW k \in Chunks, ReadChunk(k) PROVE PlayInv'
  <2> DEFINE r == OnChunk(conv, k, Len(fed) + 1)
  <2>1. /\ conv' = r.conv /\ todo' = r.events /\ pc = "reading"
        /\ pc' = IF r.events = <<>> THEN "reading" ELSE "relaying"
        /\ flags' = flags /\ sent' = sent
    BY <1>5 DEF ReadChunk
  <2>2. Len(fed) + 1 \in 1..MaxChunks /\ k \in Chunk
    <3>1. Len(fed) \in Nat /\ MaxChunks \in Nat
      BY <1>1, StreamAssumption, LenProperties DEF Rest
    <3> QED
      BY <1>5, <3>1, StreamAssumption DEF ReadChunk
  <2>3. Uttered(conv, r)
    BY <1>1, <2>2, OnChunkType
  <2> HIDE DEF r
  <2>4. todo = <<>>
    BY <1>1, <2>1 DEF Rest, Sending
  <2>5. PICK w : /\ Matches(w, conv.slots, conv.said)
                 /\ "disconnected" \notin flags => Plays(Stream!Held(sent), todo, w)
    BY <2>1 DEF PlayInv
  <2>6. PICK x : Plays(w, r.events, x) /\ Matches(x, r.conv.slots, r.conv.said)
    BY <1>1, <2>3, <2>5, UtteredPlays
  <2>7. "disconnected" \notin flags => Plays(Stream!Held(sent), r.events, x)
    BY <2>4, <2>5, <2>6, PlaysNone
  <2>8. /\ Matches(x, conv'.slots, conv'.said)
        /\ "disconnected" \notin flags' => Plays(Stream!Held(sent'), todo', x)
    BY <2>1, <2>6, <2>7
  <2>9. pc' \in {"reading", "relaying"}
    BY <2>1
  <2> QED
    BY <2>8, <2>9 DEF PlayInv
<1>6. CASE Record \/ SaveSession
  BY <1>6 DEF Record, SaveSession, PlayInv
<1>7. CASE IdleTimeout \/ ReadDone \/ ReadEnd
  <2>1. /\ pc = "reading" /\ pc' = "ended" /\ conv' = conv /\ todo' = todo /\ sent' = sent
        /\ "disconnected" \in flags' <=> "disconnected" \in flags
    BY <1>7 DEF IdleTimeout, ReadDone, ReadEnd
  <2>2. PICK w : /\ Matches(w, conv.slots, conv.said)
                 /\ "disconnected" \notin flags => Plays(Stream!Held(sent), todo, w)
    BY <2>1 DEF PlayInv
  <2>3. /\ Matches(w, conv'.slots, conv'.said)
        /\ "disconnected" \notin flags' => Plays(Stream!Held(sent'), todo', w)
    BY <2>1, <2>2
  <2> QED
    BY <2>1, <2>3 DEF PlayInv
<1>8. CASE Stall \/ Tick \/ Receive \/ Disconnect \/ UNCHANGED vars
  <2>1. /\ pc' = pc /\ conv' = conv /\ todo' = todo /\ sent' = sent /\ flags' = flags
    BY <1>8 DEF Stall, Tick, Receive, Disconnect, vars
  <2> QED
    BY <2>1 DEF PlayInv
<1> QED
  BY <1>2, <1>3, <1>4, <1>5, <1>6, <1>7, <1>8 DEF Next, Task, Upstream

\* The completion closes its batch: what the client then holds is what it held
\* before, and what the session is to keep.
LEMMA CompletionLast ==
    ASSUME NEW q \in Seq(Ev), Closing(q), Head(q).type = "completed",
           NEW v, NEW w, Plays(v, q, w)
    PROVE  /\ Tail(q) = <<>>
           /\ w = Stream!Take(v, Head(q)) /\ w.items = v.items
<1>1. Tail(q) = <<>>
  BY ClosingTail
<1>2. q # <<>>
  BY DEF Closing
<1>3. Plays(Stream!Take(v, Head(q)), Tail(q), w)
  BY <1>2, PlaysHead
<1>4. w = Stream!Take(v, Head(q))
  BY <1>1, <1>3, PlaysNone
<1>5. Head(q).type \notin {"added", "delta", "done"}
  OBVIOUS
<1>6. Stream!Take(v, Head(q)).items = v.items
  BY <1>5, TakeCases
<1> QED
  BY <1>1, <1>4, <1>6

LEMMA ListedStep == TypeInv /\ VerdictInv /\ StreamInv /\ [Next]_vars => ListedInv'
<1> SUFFICES ASSUME TypeInv, VerdictInv, StreamInv, [Next]_vars PROVE ListedInv'
  OBVIOUS
<1>1. /\ Rest /\ conv \in Converter /\ Distinct(conv.slots)
      /\ todo \in Seq(Ev) /\ sent \in Seq(Ev)
      /\ PlayInv /\ ListedInv /\ LostInv /\ BatchInv /\ FlagInv
  BY TypesAre DEF StreamInv, VerdictInv
<1> DEFINE v == Stream!Held(sent)
<1>2. ASSUME Sending, todo # <<>>, Head(todo).type = "completed"
      PROVE  pc = "closing"
  <2>1. CASE pc = "opening"
    <3>1. todo = <<Created>> /\ Created \in Ev /\ Created.type = "created"
      BY <1>1, <2>1, FixedEvents DEF BatchInv
    <3>2. Head(todo) = Created
      BY <3>1, PairTail
    <3> QED
      BY <1>2, <3>1, <3>2
  <2>2. CASE pc = "relaying"
    <3>1. Head(todo) = todo[1] /\ 1 \in 1..Len(todo)
      BY <1>1, <1>2, TailFacts
    <3>2. Head(todo).type \in Deltas
      BY <1>1, <2>2, <3>1 DEF BatchInv
    <3> QED
      BY <1>2, <3>2 DEF Deltas
  <2>3. CASE pc = "failing"
    <3> DEFINE a == Event("error")
               b == Event("failed")
    <3>1. a \in Ev /\ a.type = "error" /\ b \in Ev /\ b.type = "failed"
      BY FixedEvents
    <3>2. todo = <<a, b>> \/ todo = <<b>>
      BY <1>1, <2>3 DEF BatchInv, ErrorEvents
    <3> HIDE DEF a, b
    <3>3. Head(todo) = a \/ Head(todo) = b
      BY <3>1, <3>2, PairTail
    <3> QED
      BY <1>2, <3>1, <3>3
  <2> QED
    BY <1>2, <2>1, <2>2, <2>3 DEF Sending
<1>3. Sending => "completed" \notin flags
  BY <1>1 DEF FlagInv, Sending, Early
<1>4. CASE SendEvent
  <2> DEFINE e == Head(todo)
             u == Stream!Held(sent')
  <2>1. /\ Sending /\ todo # <<>> /\ "disconnected" \notin flags /\ conv' = conv
        /\ flags' = flags \cup Noticed(e) /\ u = Stream!Take(v, e)
    BY <1>4, SendFacts
  <2>2. "disconnected" \notin flags'
    BY <2>1 DEF Noticed
  <2>3. ASSUME "completed" \in flags' PROVE Listed(u.items, conv'.items)
    <3>1. e.type = "completed"
      BY <1>3, <2>1, <2>3 DEF Noticed
    <3>2. pc = "closing" /\ Closing(todo)
      BY <1>1, <1>2, <2>1, <3>1 DEF BatchInv
    <3>3. PICK w : w \in View /\ Listed(w.items, conv.items) /\ Plays(v, todo, w)
      BY <1>1, <2>1, <3>2 DEF PlayInv
    <3>4. w = Stream!Take(v, e)
      BY <1>1, <3>1, <3>2, <3>3, CompletionLast
    <3> QED
      BY <2>1, <3>3, <3>4
  <2> QED
    BY <2>2, <2>3 DEF ListedInv
<1>5. CASE SendFails
  <2> DEFINE e == Head(todo)
  <2>1. /\ Sending /\ todo # <<>> /\ conv' = conv /\ sent' = sent
        /\ flags' = flags \cup Noticed(e)
                      \cup (IF pc = "failing" THEN {} ELSE {"disconnected"})
        /\ pc' = AfterLoss(pc)
    BY <1>1, <1>5 DEF SendFails, Rest
  <2>2. pc' # "closing"
    BY <2>1 DEF Sending, AfterLoss
  <2>3. ASSUME "completed" \in flags' PROVE Listed(v.items, conv.items)
    <3>1. e.type = "completed"
      BY <1>3, <2>1, <2>3 DEF Noticed
    <3>2. pc = "closing" /\ Closing(todo)
      BY <1>1, <1>2, <2>1, <3>1 DEF BatchInv
    <3>3. CASE "disconnected" \in flags
      BY <1>1, <3>1, <3>2, <3>3 DEF ListedInv
    <3>4. CASE "disconnected" \notin flags
      <4>1. PICK w : w \in View /\ Listed(w.items, conv.items) /\ Plays(v, todo, w)
        BY <1>1, <3>2, <3>4 DEF PlayInv
      <4>2. w.items = v.items
        BY <1>1, <3>1, <3>2, <4>1, CompletionLast
      <4> QED
        BY <4>1, <4>2
    <3> QED
      BY <3>3, <3>4
  <2> QED
    BY <2>1, <2>2, <2>3 DEF ListedInv
<1>6. CASE Finish
  <2>1. pc = "ended" /\ flags' = flags /\ sent' = sent
    BY <1>6 DEF Finish
  <2>2. "completed" \notin flags'
    BY <1>1, <2>1 DEF FlagInv, Early
  <2>3. CASE FinishAllowed /\ conv.finish
    <3> DEFINE flushed == FlushHeal(conv)
               final == EmitFinish(flushed.conv)
               q == flushed.events \o final.events
    <3>1. todo' = q /\ conv' = final.conv
      BY <1>6, <2>3 DEF Finish
    <3>2. /\ q \in Seq(Ev) /\ Closing(q) /\ final.conv \in Converter
          /\ conv.slots # <<>> => Head(q).type # "completed"
      BY <1>1, ClosingBatch
    <3>3. PICK w : Matches(w, conv.slots, conv.said)
      BY <1>1, <2>1 DEF PlayInv
    <3>4. PICK x : Plays(w, q, x) /\ x \in View /\ Listed(x.items, final.conv.items)
      BY <1>1, <3>3, LastBatchPlays
    <3> HIDE DEF q, final, flushed, v
    <3>5. ASSUME "disconnected" \in flags, Head(q).type = "completed"
          PROVE  Listed(v.items, final.conv.items)
      <4>1. conv.slots = <<>> /\ sent = <<>>
        BY <1>1, <2>1, <3>2, <3>5 DEF LostInv
      <4>2. x.items = w.items
        BY <3>2, <3>4, <3>5, CompletionLast
      <4>3. Len(w.items) = 0
        BY <3>3, <4>1 DEF Matches
      <4>4. Len(final.conv.items) = 0 /\ final.conv.items \in Seq(Item)
        BY <3>2, <3>4, <4>2, <4>3 DEF Listed, Converter
      <4>5. DOMAIN final.conv.items = {}
        BY <4>4, LenProperties
      <4>6. v.items = <<>>
        BY <4>1, HeldNothing DEF v, Stream!Nothing
      <4>7. Len(v.items) = 0
        BY <4>6
      <4> QED
        BY <4>4, <4>5, <4>7 DEF Listed
    <3>6. "disconnected" \in flags' /\ Head(todo').type = "completed" =>
            Listed(Stream!Held(sent').items, conv'.items)
      BY <2>1, <3>1, <3>5 DEF v
    <3> QED
      BY <2>2, <3>6 DEF ListedInv
  <2>4. CASE ~(FinishAllowed /\ conv.finish)
    BY <1>6, <2>2, <2>4 DEF Finish, ListedInv
  <2> QED
    BY <2>3, <2>4
<1>7. CASE (\E k \in Chunks : ReadChunk(k)) \/ IdleTimeout \/ ReadDone \/ ReadEnd
  <2>1. /\ pc = "reading" /\ pc' # "closing"
        /\ "completed" \in flags' <=> "completed" \in flags
    BY <1>7 DEF IdleTimeout, ReadDone, ReadEnd, ReadChunk
  <2>2. "completed" \notin flags'
    BY <1>1, <2>1 DEF FlagInv, Early
  <2> QED
    BY <2>1, <2>2 DEF ListedInv
<1>8. CASE Record \/ SaveSession
  <2>1. pc' # "closing" /\ conv' = conv /\ sent' = sent /\ flags' = flags
    BY <1>8 DEF Record, SaveSession
  <2> QED
    BY <1>1, <2>1 DEF ListedInv
<1>9. CASE Stall \/ Tick \/ Receive \/ Disconnect \/ UNCHANGED vars
  <2>1. /\ pc' = pc /\ conv' = conv /\ todo' = todo /\ sent' = sent /\ flags' = flags
    BY <1>9 DEF Stall, Tick, Receive, Disconnect, vars
  <2> QED
    BY <1>1, <2>1 DEF ListedInv
<1> QED
  BY <1>4, <1>5, <1>6, <1>7, <1>8, <1>9 DEF Next, Task, Upstream

LEMMA LostStep == TypeInv /\ VerdictInv /\ StreamInv /\ [Next]_vars => LostInv'
<1> SUFFICES ASSUME TypeInv, VerdictInv, LostInv, [Next]_vars PROVE LostInv'
  BY DEF StreamInv
<1>1. Rest /\ todo \in Seq(Ev) /\ BatchInv
  BY TypesAre DEF VerdictInv
<1>2. CASE SendEvent
  <2>1. /\ Sending /\ todo # <<>> /\ "disconnected" \notin flags /\ todo' = Tail(todo)
        /\ flags' = flags \cup Noticed(Head(todo))
        /\ pc' = IF todo' = <<>> THEN AfterBatch(pc) ELSE pc
    BY <1>2, SendFacts
  <2>2. "disconnected" \notin flags'
    BY <2>1 DEF Noticed
  <2>3. pc' # "opening"
    <3>1. CASE pc = "opening"
      <4>1. todo = <<Created>> /\ Created \in Ev
        BY <1>1, <3>1, FixedEvents DEF BatchInv
      <4>2. Tail(todo) = <<>>
        BY <4>1, PairTail
      <4> QED
        BY <2>1, <3>1, <4>2 DEF AfterBatch
    <3>2. CASE pc # "opening"
      BY <2>1, <3>2 DEF Sending, AfterBatch
    <3> QED
      BY <3>1, <3>2
  <2> QED
    BY <2>2, <2>3 DEF LostInv
<1>3. CASE SendFails
  BY <1>1, <1>3 DEF SendFails, Sending, AfterLoss, LostInv, BatchInv
<1>4. CASE Finish
  BY <1>4 DEF Finish, LostInv
<1>5. CASE \E k \in Chunks : ReadChunk(k)
  BY <1>5 DEF ReadChunk, LostInv
<1>6. CASE Record \/ SaveSession
  BY <1>6 DEF Record, SaveSession, LostInv
<1>7. CASE IdleTimeout \/ ReadDone \/ ReadEnd
  BY <1>7 DEF IdleTimeout, ReadDone, ReadEnd, LostInv
<1>8. CASE Stall \/ Tick \/ Receive \/ Disconnect \/ UNCHANGED vars
  BY <1>8 DEF Stall, Tick, Receive, Disconnect, vars, LostInv
<1> QED
  BY <1>2, <1>3, <1>4, <1>5, <1>6, <1>7, <1>8 DEF Next, Task, Upstream

LEMMA FailStep == TypeInv /\ VerdictInv /\ StreamInv /\ [Next]_vars => FailInv'
<1> SUFFICES ASSUME TypeInv, VerdictInv, StreamInv, [Next]_vars PROVE FailInv'
  OBVIOUS
<1>1. Rest /\ todo \in Seq(Ev) /\ BatchInv /\ PlayInv /\ FailInv
  BY TypesAre DEF VerdictInv, StreamInv
<1>2. CASE SendEvent
  <2> DEFINE e == Head(todo)
             v == Stream!Held(sent)
             u == Stream!Held(sent')
  <2>1. /\ Sending /\ todo # <<>> /\ "disconnected" \notin flags /\ todo' = Tail(todo)
        /\ flags' = flags \cup Noticed(e)
        /\ pc' = IF todo' = <<>> THEN AfterBatch(pc) ELSE pc
        /\ u = Stream!Take(v, e)
    BY <1>2, SendFacts
  <2>2. CASE pc \in {"opening", "relaying"}
    BY <2>1, <2>2 DEF AfterBatch, FailInv
  <2>3. CASE pc = "closing"
    <3>1. todo' = <<>> => e.type = "completed"
      BY <1>1, <2>1, <2>3, ClosingTail DEF BatchInv
    <3>2. pc' = IF todo' = <<>> THEN "recording" ELSE "closing"
      BY <2>1, <2>3 DEF AfterBatch
    <3> QED
      BY <2>1, <3>1, <3>2 DEF FailInv, Noticed
  <2>4. CASE pc = "failing"
    <3> DEFINE a == Event("error")
               b == Event("failed")
    <3>1. a \in Ev /\ a.type = "error" /\ b \in Ev
      BY FixedEvents
    <3>2. todo = <<a, b>> \/ todo = <<b>>
      BY <1>1, <2>4 DEF BatchInv, ErrorEvents
    <3> HIDE DEF a, b, e, v, u
    <3>3. \/ todo' = <<b>> /\ e = a
          \/ todo' = <<>>
      BY <2>1, <3>1, <3>2, PairTail DEF e
    <3>4. CASE todo' = <<b>> /\ e = a
      <4>1. u.last = a.type
        BY <2>1, <3>4, TakeCases, ZenonT(40)
      <4>2. pc' = "failing"
        <5>1. todo' # <<>>
          BY <3>4
        <5> QED
          BY <2>1, <2>4, <5>1
      <4>3. todo' = <<Event("failed")>> /\ Stream!Held(sent').last = "error"
        BY <3>1, <3>4, <4>1 DEF b, u
      <4> QED
        BY <4>2, <4>3 DEF FailInv
    <3>5. CASE todo' = <<>>
      <4>1. pc' = "over"
        BY <2>1, <2>4, <3>5 DEF AfterBatch
      <4> QED
        BY <4>1 DEF FailInv
    <3> QED
      BY <3>3, <3>4, <3>5
  <2> QED
    BY <2>1, <2>2, <2>3, <2>4 DEF Sending
<1>3. CASE SendFails
  <2>1. /\ Sending /\ pc' = AfterLoss(pc)
        /\ pc # "failing" => "disconnected" \in flags'
    BY <1>3 DEF SendFails
  <2> QED
    BY <2>1 DEF Sending, AfterLoss, FailInv
<1>4. CASE Finish
  <2>1. pc = "ended" /\ todo = <<>> /\ flags' = flags /\ sent' = sent
    BY <1>1, <1>4 DEF Finish, Rest, Sending
  <2>2. pc' \in {"closing", "recording"}
    BY <1>4 DEF Finish
  <2>3. PICK w : /\ Matches(w, conv.slots, conv.said)
                 /\ "disconnected" \notin flags => Plays(Stream!Held(sent), todo, w)
    BY <1>1, <2>1 DEF PlayInv
  <2>4. "disconnected" \notin flags => Stream!Running(Stream!Held(sent))
    <3>1. SUFFICES ASSUME "disconnected" \notin flags
                   PROVE  Stream!Running(Stream!Held(sent))
      OBVIOUS
    <3>2. Stream!Held(sent) = w
      BY <2>1, <2>3, <3>1, PlaysNone
    <3> QED
      BY <2>3, <3>2 DEF Matches
  <2>5. "disconnected" \notin flags' => Stream!Running(Stream!Held(sent'))
    BY <2>1, <2>4
  <2> QED
    BY <2>2, <2>5 DEF FailInv
<1>5. CASE (\E k \in Chunks : ReadChunk(k)) \/ IdleTimeout \/ ReadDone \/ ReadEnd
  BY <1>5 DEF ReadChunk, IdleTimeout, ReadDone, ReadEnd, FailInv
<1>6. CASE Record
  <2>1. /\ pc = "recording" /\ flags' = flags /\ sent' = sent
        /\ IF "completed" \notin flags
             THEN pc' = "failing" /\ todo' = ErrorEvents
             ELSE pc' \in {"saving", "over"}
    BY <1>6 DEF Record
  <2>2. "disconnected" \notin flags' /\ "completed" \notin flags' =>
          Stream!Running(Stream!Held(sent'))
    BY <1>1, <2>1 DEF FailInv
  <2> QED
    BY <2>1, <2>2 DEF FailInv
<1>7. CASE SaveSession
  BY <1>7 DEF SaveSession, FailInv
<1>8. CASE Stall \/ Tick \/ Receive \/ Disconnect \/ UNCHANGED vars
  <2>1. /\ pc' = pc /\ todo' = todo /\ sent' = sent /\ flags' = flags
    BY <1>8 DEF Stall, Tick, Receive, Disconnect, vars
  <2> QED
    BY <1>1, <2>1 DEF FailInv
<1> QED
  BY <1>2, <1>3, <1>4, <1>5, <1>6, <1>7, <1>8 DEF Next, Task, Upstream

LEMMA SavedStep == TypeInv /\ VerdictInv /\ StreamInv /\ [Next]_vars => SavedInv'
<1> SUFFICES ASSUME TypeInv, SavedInv, [Next]_vars PROVE SavedInv'
  BY DEF StreamInv
<1>1. CASE SaveSession
  <2>1. stored = <<>> /\ stored' = Append(stored, conv.items) /\ pc' = "over" /\ conv' = conv
    BY <1>1 DEF SaveSession, SavedInv
  <2> QED
    BY <2>1 DEF SavedInv
<1>2. CASE SendEvent \/ SendFails \/ Finish \/ (\E k \in Chunks : ReadChunk(k)) \/ IdleTimeout
           \/ ReadDone \/ ReadEnd \/ Record
  <2>1. pc # "over" /\ stored' = stored
    BY <1>2 DEF SendEvent, SendFails, Sending, Finish, ReadChunk, IdleTimeout, ReadDone, ReadEnd,
                Record
  <2> QED
    BY <2>1 DEF SavedInv
<1>3. CASE Stall \/ Tick \/ Receive \/ Disconnect \/ UNCHANGED vars
  BY <1>3 DEF Stall, Tick, Receive, Disconnect, vars, SavedInv
<1> QED
  BY <1>1, <1>2, <1>3 DEF Next, Task, Upstream

LEMMA StreamAlways == Spec => [](TypeInv /\ VerdictInv /\ StreamInv)
<1>1. Init => TypeInv /\ VerdictInv /\ StreamInv
  BY TypeInit, VerdictInit, StreamInit
<1>2. TypeInv /\ VerdictInv /\ StreamInv /\ [Next]_vars => (TypeInv /\ VerdictInv /\ StreamInv)'
  BY TypeStep, BatchStep, FlagStep, SourceStep, PlayStep, ListedStep, LostStep, FailStep,
     SavedStep DEF VerdictInv, StreamInv
<1> QED
  BY <1>1, <1>2, PTL DEF Spec

\* What is stored of a turn is what its client was shown, item by item, with
\* reasoning before the message it led to; of a turn whose client was lost before
\* the first event, nothing.
THEOREM StoredIsWhatWasStreamedHolds == Spec => []StoredIsWhatWasStreamed
<1>1. VerdictInv /\ StreamInv => StoredIsWhatWasStreamed
  <2> SUFFICES ASSUME FlagInv, ListedInv, SavedInv, NEW items \in ToSet(stored)
               PROVE  Listed(Stream!Held(sent).items, items)
    BY DEF StoredIsWhatWasStreamed, Listed, VerdictInv, StreamInv
  <2>1. stored # <<>>
    BY DEF ToSet
  <2>2. stored = <<conv.items>> /\ "completed" \in flags
    BY <2>1 DEF SavedInv, FlagInv
  <2>3. items = conv.items
    BY <2>2 DEF ToSet
  <2> QED
    BY <2>2, <2>3 DEF ListedInv
<1> QED
  BY <1>1, StreamAlways, PTL

LEMMA AppendEnds ==
    ASSUME NEW s \in Seq(Ev), NEW e \in Ev
    PROVE  /\ Append(s, e) # <<>>
           /\ Stream!Front(Append(s, e)) = s
           /\ Stream!Last(Append(s, e)) = e
<1> DEFINE r == Append(s, e)
           n == Len(s)
<1>1. /\ n \in Nat /\ r \in Seq(Ev) /\ Len(r) = n + 1 /\ r[n + 1] = e
      /\ \A i \in 1..n : r[i] = s[i]
  BY AppendProperties, LenProperties
<1> HIDE DEF r
<1>2. r # <<>>
  BY <1>1
<1>3. Stream!Last(r) = e
  BY <1>1 DEF Stream!Last
<1>4. Stream!Front(r) = s
  <2> DEFINE f == SubSeq(r, 1, n)
  <2>1. Stream!Front(r) = f
    BY <1>1 DEF Stream!Front
  <2>2. \A i \in 1..n : r[i] \in Ev
    BY <1>1, ElementOfSeq
  <2>3. /\ f \in Seq(Ev) /\ Len(f) = IF 1 <= n THEN n - 1 + 1 ELSE 0
        /\ \A i \in 1..(n - 1 + 1) : f[i] = r[1 + i - 1]
    BY <1>1, <2>2, SubSeqProperties
  <2> HIDE DEF f
  <2>4. Len(f) = n
    BY <1>1, <2>3
  <2>5. \A i \in 1..n : f[i] = s[i]
    <3>1. ASSUME NEW i \in 1..n PROVE f[i] = s[i]
      <4>1. i \in 1..(n - 1 + 1) /\ 1 + i - 1 = i
        BY <1>1
      <4> QED
        BY <1>1, <2>3, <4>1
    <3> QED
      BY <3>1
  <2>6. f = s
    BY <2>3, <2>4, <2>5, SeqEqual DEF n
  <2> QED
    BY <2>1, <2>6
<1> QED
  BY <1>2, <1>3, <1>4 DEF r

\* Every event sent is one the Responses contract allows after those before it,
\* however chunks, clock, client and channel interleave; every other step sends
\* none.
THEOREM ImplementsResponsesStreamHolds == Spec => ImplementsResponsesStream
<1>1. Init => Stream!Init
  BY DEF Init, Stream!Init
<1>2. TypeInv /\ VerdictInv /\ StreamInv /\ [Next]_vars => [Stream!Next]_sent
  <2> SUFFICES ASSUME TypeInv, VerdictInv, StreamInv, [Next]_vars PROVE [Stream!Next]_sent
    OBVIOUS
  <2>1. CASE SendEvent
    <3> DEFINE e == Head(todo)
               v == Stream!Held(sent)
    <3>1. /\ e \in Ev /\ todo \in Seq(Ev) /\ todo # <<>> /\ Sending
          /\ "disconnected" \notin flags /\ sent' = Append(sent, e) /\ sent \in Seq(Ev)
      BY <2>1, SendFacts
    <3>2. PlayInv /\ FailInv
      BY DEF StreamInv
    <3>3. CASE pc \in {"opening", "relaying", "closing"}
      <4>1. PICK w : Plays(v, todo, w)
        BY <3>1, <3>2, <3>3 DEF PlayInv
      <4> HIDE DEF v
      <4>2. Stream!Conforms(v, e)
        BY <3>1, <4>1, PlaysHead
      <4>3. sent' # <<>> /\ sent = Stream!Front(sent') /\ e = Stream!Last(sent')
        <5> HIDE DEF e
        <5> QED
          BY <3>1, AppendEnds
      <4> QED
        BY <4>2, <4>3 DEF Stream!Next, v
    <3>4. CASE pc = "failing"
      <4> DEFINE a == Event("error")
                 b == Event("failed")
      <4>1. a \in Ev /\ a.type = "error" /\ b \in Ev /\ b.type = "failed"
        BY FixedEvents
      <4>2. (todo = <<a, b>> /\ Stream!Running(v)) \/ (todo = <<b>> /\ v.last = "error")
        BY <3>1, <3>2, <3>4 DEF FailInv, ErrorEvents
      <4> HIDE DEF a, b, v
      <4>3. (e = a /\ Stream!Running(v)) \/ (e = b /\ v.last = "error")
        BY <4>1, <4>2, PairTail
      <4>4. Stream!Conforms(v, e)
        BY <4>1, <4>3 DEF Stream!Conforms, Stream!Fail
      <4>5. sent' # <<>> /\ sent = Stream!Front(sent') /\ e = Stream!Last(sent')
        <5> HIDE DEF e
        <5> QED
          BY <3>1, AppendEnds
      <4> QED
        BY <4>4, <4>5 DEF Stream!Next, v
    <3> QED
      BY <3>1, <3>3, <3>4 DEF Sending
  <2>2. CASE ~SendEvent
    <3>1. sent' = sent
      BY <2>2 DEF Next, Task, Upstream, SendFails, IdleTimeout, Finish, Record, SaveSession,
                  ReadDone, ReadEnd, Stall, ReadChunk, Tick, Receive, Disconnect, vars
    <3> QED
      BY <3>1
  <2> QED
    BY <2>1, <2>2
<1> QED
  BY <1>1, <1>2, StreamAlways, PTL DEF Spec, ImplementsResponsesStream, Stream!Spec

-----------------------------------------------------------------------------
(* Texts parted in two *)

\* The kinds of text that no filter may drop.
Speaking == {"words", "half", "markup"}

Ascends(text) == \A a, b \in DOMAIN text : a < b => text[a].n < text[b].n

\* The first m pieces of a text, parted in two: each part keeps the order, they
\* have nothing in common, and only tags are in neither.
Parted(text, m, r, t) ==
    /\ r \in Text /\ t \in Text /\ Ascends(r) /\ Ascends(t)
    /\ \A a \in DOMAIN r : \E b \in 1..m : r[a] = text[b]
    /\ \A a \in DOMAIN t : \E b \in 1..m : t[a] = text[b]
    /\ \A a \in DOMAIN r, b \in DOMAIN t : r[a].n # t[b].n
    /\ \A b \in 1..m : text[b].kind \in Speaking =>
         (\E a \in DOMAIN r : r[a] = text[b]) \/ (\E a \in DOMAIN t : t[a] = text[b])

LEMMA TextAppend ==
    ASSUME NEW t \in Text, NEW p \in Piece
    PROVE  /\ Append(t, p) \in Text /\ Len(t) \in Nat
           /\ DOMAIN t = 1..Len(t) /\ DOMAIN Append(t, p) = 1..(Len(t) + 1)
           /\ \A a \in DOMAIN t : Append(t, p)[a] = t[a]
           /\ Append(t, p)[Len(t) + 1] = p
BY AppendProperties, LenProperties DEF Text

LEMMA PartedNone ==
    ASSUME NEW text
    PROVE  Parted(text, 0, <<>>, <<>>)
BY DEF Parted, Text, Ascends

LEMMA PartedSwap ==
    ASSUME NEW text, NEW m, NEW r, NEW t
    PROVE  Parted(text, m, r, t) <=> Parted(text, m, t, r)
BY DEF Parted

LEMMA PartedMore ==
    ASSUME NEW text \in Text, Ascends(text), NEW m \in Nat, m + 1 \in DOMAIN text,
           NEW r, NEW t, Parted(text, m, r, t)
    PROVE  /\ Parted(text, m + 1, Append(r, text[m + 1]), t)
           /\ Parted(text, m + 1, r, Append(t, text[m + 1]))
           /\ text[m + 1].kind \notin Speaking => Parted(text, m + 1, r, t)
<1> DEFINE p == text[m + 1]
<1>1. p \in Piece /\ p.n \in Nat
  <2>1. p \in Piece
    BY DEF Text
  <2> QED
    BY <2>1 DEF Piece
<1>2. \A b \in 1..m : b \in DOMAIN text /\ text[b].n < p.n /\ text[b].n \in Nat
  <2>1. \A b \in 1..m : b \in DOMAIN text /\ b < m + 1
    BY DEF Text
  <2>2. \A b \in DOMAIN text : text[b] \in Piece
    BY DEF Text
  <2> QED
    BY <2>1, <2>2 DEF Ascends, Piece
<1>3. \A b : b \in 1..(m + 1) <=> b \in 1..m \/ b = m + 1
  OBVIOUS
<1> HIDE DEF p
<1>4. ASSUME NEW x, NEW y, Parted(text, m, x, y)
      PROVE  Parted(text, m + 1, Append(x, p), y)
  <2> DEFINE z == Append(x, p)
  <2>1. /\ z \in Text /\ Len(x) \in Nat
        /\ DOMAIN x = 1..Len(x) /\ DOMAIN z = 1..(Len(x) + 1)
        /\ \A a \in DOMAIN x : z[a] = x[a]
        /\ z[Len(x) + 1] = p
    BY <1>1, <1>4, TextAppend, ZenonT(40) DEF Parted
  <2> HIDE DEF z
  <2>2. \A a \in DOMAIN z : (a \in DOMAIN x /\ z[a] = x[a]) \/ z[a] = p
    BY <2>1
  <2>3. \A a \in DOMAIN x : x[a].n < p.n
    BY <1>2, <1>4 DEF Parted
  <2>4. \A a \in DOMAIN y : y[a].n < p.n /\ y[a].n \in Nat
    BY <1>2, <1>4 DEF Parted
  <2>5. Ascends(z)
    <3> SUFFICES ASSUME NEW a \in DOMAIN z, NEW b \in DOMAIN z, a < b PROVE z[a].n < z[b].n
      BY DEF Ascends
    <3>1. a \in DOMAIN x
      BY <2>1
    <3>2. CASE b \in DOMAIN x
      BY <1>4, <2>1, <3>1, <3>2 DEF Parted, Ascends
    <3>3. CASE b \notin DOMAIN x
      BY <2>1, <2>2, <2>3, <3>1, <3>3
    <3> QED
      BY <3>2, <3>3
  <2>6. \A a \in DOMAIN z : \E b \in 1..(m + 1) : z[a] = text[b]
    BY <1>3, <1>4, <2>2 DEF Parted, p
  <2>7. \A a \in DOMAIN y : \E b \in 1..(m + 1) : y[a] = text[b]
    BY <1>3, <1>4 DEF Parted
  <2>8. \A a \in DOMAIN z, b \in DOMAIN y : z[a].n # y[b].n
    <3> SUFFICES ASSUME NEW a \in DOMAIN z, NEW b \in DOMAIN y PROVE z[a].n # y[b].n
      OBVIOUS
    <3>1. CASE a \in DOMAIN x /\ z[a] = x[a]
      BY <1>4, <3>1 DEF Parted
    <3>2. CASE z[a] = p
      BY <1>1, <2>4, <3>2
    <3> QED
      BY <2>2, <3>1, <3>2
  <2>9. ASSUME NEW b \in 1..(m + 1), text[b].kind \in Speaking
        PROVE  (\E a \in DOMAIN z : z[a] = text[b]) \/ (\E a \in DOMAIN y : y[a] = text[b])
    <3>1. CASE b = m + 1
      <4>1. Len(x) + 1 \in DOMAIN z
        BY <2>1
      <4> QED
        BY <2>1, <3>1, <4>1 DEF p
    <3>2. CASE b \in 1..m
      <4>1. \A a \in DOMAIN x : a \in DOMAIN z
        BY <2>1
      <4> QED
        BY <1>4, <2>1, <2>9, <3>2, <4>1 DEF Parted
    <3> QED
      BY <1>3, <3>1, <3>2
  <2>10. y \in Text /\ Ascends(y)
    BY <1>4 DEF Parted
  <2> QED
    BY <2>1, <2>5, <2>6, <2>7, <2>8, <2>9, <2>10 DEF Parted, z
<1>5. Parted(text, m + 1, Append(r, p), t)
  BY <1>4
<1>6. Parted(text, m + 1, r, Append(t, p))
  BY <1>4, PartedSwap
<1>7. ASSUME p.kind \notin Speaking PROVE Parted(text, m + 1, r, t)
  BY <1>3, <1>7 DEF Parted, p
<1> QED
  BY <1>5, <1>6, <1>7 DEF p

LEMMA ThinkParts ==
    ASSUME NEW c, c.inThink \in BOOLEAN, NEW text \in Text, Ascends(text)
    PROVE  LET think == ThinkPush(c, text)
           IN  Parted(text, Len(text), think.reasoning, think.text)
<1>1. PICK run : ThinkRun(run, c, text)
  BY ThinkRuns
<1> DEFINE N == Len(text)
<1>2. N \in Nat /\ DOMAIN text = 1..N
  BY DEF Text
<1>3. /\ run \in [0..N -> ThinkState]
      /\ run[0].reasoning = <<>> /\ run[0].text = <<>>
      /\ \A i \in 1..N : run[i] = ThinkStep(run[i - 1], text[i])
      /\ ThinkPush(c, text) = run[N]
  BY <1>1 DEF ThinkRun
<1> HIDE DEF N
<1> DEFINE B == {i \in 0..N : ~Parted(text, i, run[i].reasoning, run[i].text)}
<1>4. ASSUME B # {} PROVE FALSE
  <2>1. PICK i \in B : \A j \in B : i <= j
    <3>1. B \subseteq Nat
      BY <1>2
    <3> HIDE DEF B
    <3> QED
      BY <1>4, <3>1, LeastNatural
  <2>2. i # 0
    BY <1>3, <2>1, PartedNone
  <2>3. i - 1 \in 0..N /\ i \in 1..N /\ ~(i <= i - 1) /\ i - 1 \in Nat /\ (i - 1) + 1 = i
    BY <1>2, <2>1, <2>2
  <2> DEFINE s == run[i - 1]
             m == i - 1
             p == text[i]
  <2>4. Parted(text, m, s.reasoning, s.text)
    BY <2>1, <2>3
  <2>5. run[i] = ThinkStep(s, p) /\ s \in ThinkState
    BY <1>3, <2>3
  <2>6. m \in Nat /\ m + 1 = i /\ i \in DOMAIN text
    BY <1>2, <2>3
  <2> HIDE DEF s, m
  <2>7. /\ Parted(text, i, Append(s.reasoning, p), s.text)
        /\ Parted(text, i, s.reasoning, Append(s.text, p))
        /\ p.kind \notin Speaking => Parted(text, i, s.reasoning, s.text)
    BY <2>4, <2>6, PartedMore
  <2> HIDE DEF p
  <2>8. Parted(text, i, run[i].reasoning, run[i].text)
    <3>1. CASE opts.think /\ p.kind = (IF s.inside THEN "close" ELSE "open")
      <4>1. run[i] = [s EXCEPT !.inside = ~s.inside] /\ p.kind \notin Speaking
        BY <2>5, <3>1 DEF ThinkStep, Speaking
      <4>2. run[i].reasoning = s.reasoning /\ run[i].text = s.text
        BY <2>5, <4>1 DEF ThinkState
      <4> QED
        BY <2>7, <4>1, <4>2
    <3>2. CASE ~(opts.think /\ p.kind = (IF s.inside THEN "close" ELSE "open")) /\ s.inside
      <4>1. run[i] = [s EXCEPT !.reasoning = Append(s.reasoning, p)]
        BY <2>5, <3>2 DEF ThinkStep
      <4>2. run[i].reasoning = Append(s.reasoning, p) /\ run[i].text = s.text
        BY <2>5, <4>1 DEF ThinkState
      <4> QED
        BY <2>7, <4>2
    <3>3. CASE ~(opts.think /\ p.kind = (IF s.inside THEN "close" ELSE "open")) /\ ~s.inside
      <4>1. run[i] = [s EXCEPT !.text = Append(s.text, p)]
        BY <2>5, <3>3 DEF ThinkStep
      <4>2. run[i].reasoning = s.reasoning /\ run[i].text = Append(s.text, p)
        BY <2>5, <4>1 DEF ThinkState
      <4> QED
        BY <2>7, <4>2
    <3> QED
      BY <3>1, <3>2, <3>3
  <2> QED
    BY <2>1, <2>8
<1>5. N \in 0..N
  BY <1>2
<1> QED
  BY <1>3, <1>4, <1>5 DEF N

\* The leaked calls of a text, and the rest of it.
LEMMA LeakedParts ==
    ASSUME NEW text \in Text, Ascends(text)
    PROVE  Parted(text, Len(text), Leaked(text, TRUE), Leaked(text, FALSE))
<1> DEFINE N == Len(text)
           q(wanted) == [i \in DOMAIN text |->
                           IF (text[i].kind = "markup") = wanted THEN <<text[i]>> ELSE <<>>]
<1>1. N \in Nat /\ DOMAIN text = 1..N /\ \A i \in 1..N : text[i] \in Piece
  BY DEF Text
<1>2. ASSUME NEW wanted
      PROVE  /\ q(wanted) \in Seq(Seq(Piece)) /\ Len(q(wanted)) = N
             /\ Leaked(text, wanted) = FlattenSeq(q(wanted))
  <2> DEFINE T == Seq(Piece)
             w == q(wanted)
  <2>1. \A i \in 1..N : w[i] \in T
    BY <1>1
  <2>2. w = [i \in 1..N |-> w[i]]
    BY <1>1
  <2>3. Leaked(text, wanted) = FlattenSeq(w)
    BY DEF Leaked
  <2> HIDE DEF T, w
  <2>4. w \in [1..N -> T]
    BY <2>1, <2>2
  <2>5. w \in Seq(T) /\ Len(w) = N
    BY <1>1, <2>4, SeqDef
  <2> QED
    BY <2>3, <2>5 DEF T, w
<1>3. PICK f : Joins(f, q(TRUE), Piece)
  <2> HIDE DEF q
  <2> QED
    BY <1>2, FlattenJoins
<1>4. PICK g : Joins(g, q(FALSE), Piece)
  <2> HIDE DEF q
  <2> QED
    BY <1>2, FlattenJoins
<1>5. \A i \in 1..N : /\ text[i].kind = "markup" => q(TRUE)[i] = <<text[i]>> /\ q(FALSE)[i] = <<>>
                      /\ text[i].kind # "markup" => q(TRUE)[i] = <<>> /\ q(FALSE)[i] = <<text[i]>>
  BY <1>1
<1> HIDE DEF q, N
<1>6. /\ f \in [0..N -> Seq(Piece)] /\ f[0] = <<>>
      /\ \A i \in 1..N : f[i] = f[i - 1] \o q(TRUE)[i]
      /\ Leaked(text, TRUE) = f[N]
  BY <1>2, <1>3 DEF Joins
<1>7. /\ g \in [0..N -> Seq(Piece)] /\ g[0] = <<>>
      /\ \A i \in 1..N : g[i] = g[i - 1] \o q(FALSE)[i]
      /\ Leaked(text, FALSE) = g[N]
  BY <1>2, <1>4 DEF Joins
<1> DEFINE B == {i \in 0..N : ~Parted(text, i, f[i], g[i])}
<1>8. ASSUME B # {} PROVE FALSE
  <2>1. PICK i \in B : \A j \in B : i <= j
    <3>1. B \subseteq Nat
      BY <1>1
    <3> HIDE DEF B
    <3> QED
      BY <1>8, <3>1, LeastNatural
  <2>2. i # 0
    BY <1>6, <1>7, <2>1, PartedNone
  <2>3. i - 1 \in 0..N /\ i \in 1..N /\ ~(i <= i - 1) /\ i - 1 \in Nat /\ (i - 1) + 1 = i
    BY <1>1, <2>1, <2>2
  <2> DEFINE m == i - 1
             p == text[i]
  <2>4. Parted(text, m, f[m], g[m])
    BY <2>1, <2>3
  <2>5. m \in Nat /\ m + 1 = i /\ i \in DOMAIN text /\ p \in Piece
    BY <1>1, <2>3
  <2>6. f[i] = f[m] \o q(TRUE)[i] /\ g[i] = g[m] \o q(FALSE)[i]
    BY <1>6, <1>7, <2>3
  <2>7. f[m] \in Seq(Piece) /\ g[m] \in Seq(Piece)
    BY <1>6, <1>7, <2>3
  <2> HIDE DEF m
  <2>8. /\ Parted(text, i, Append(f[m], p), g[m])
        /\ Parted(text, i, f[m], Append(g[m], p))
    BY <2>4, <2>5, PartedMore
  <2>9. ASSUME NEW s \in Seq(Piece) PROVE s \o <<p>> = Append(s, p) /\ s \o <<>> = s
    BY <2>5
  <2>10. \/ f[i] = Append(f[m], p) /\ g[i] = g[m]
         \/ f[i] = f[m] /\ g[i] = Append(g[m], p)
    BY <1>5, <2>3, <2>6, <2>7, <2>9
  <2> QED
    BY <2>1, <2>8, <2>10
<1>9. N \in 0..N
  BY <1>1
<1> QED
  BY <1>6, <1>7, <1>8, <1>9 DEF N

-----------------------------------------------------------------------------
(* Where a piece of text is *)

Holds(text, n, kinds) == \E a \in DOMAIN text : text[a].kind \in kinds /\ text[a].n = n

Within(text, kinds, m) == \A a \in DOMAIN text : text[a].kind \in kinds /\ text[a].n <= m

Before(t, u) ==
    \A a \in DOMAIN t, b \in DOMAIN u : t[a].kind \in Content => t[a].n < u[b].n

Apart(t, u) ==
    \A a \in DOMAIN t, b \in DOMAIN u :
      t[a].kind \in Content /\ u[b].kind \in Content => t[a].n # u[b].n

\* Reasoning and message, and a text of the filters that is to follow them,
\* after m chunks.
Placed(r, w, h, m) ==
    /\ r \in Text /\ w \in Text /\ h \in Text
    /\ Within(r, Content \cup {"native"}, m) /\ Within(w, Content, m) /\ Within(h, Content, m)
    /\ InOrder(r, Content) /\ InOrder(r, {"native"}) /\ InOrder(w, Content) /\ Ascends(h)
    /\ Before(r, h) /\ Before(w, h) /\ Apart(r, w)

LEMMA PieceOf ==
    ASSUME NEW t \in Text
    PROVE  /\ Len(t) \in Nat /\ DOMAIN t = 1..Len(t)
           /\ \A a \in DOMAIN t : t[a] \in Piece /\ t[a].n \in Nat
<1>1. Len(t) \in Nat /\ DOMAIN t = 1..Len(t) /\ \A a \in DOMAIN t : t[a] \in Piece
  BY DEF Text
<1>2. \A p \in Piece : p.n \in Nat
  BY DEF Piece
<1> QED
  BY <1>1, <1>2

\* v is t and then u.
Joined(v, t, u) ==
    /\ \A a \in DOMAIN v : \/ a \in DOMAIN t /\ v[a] = t[a]
                           \/ /\ a \notin DOMAIN t /\ a - Len(t) \in DOMAIN u
                              /\ v[a] = u[a - Len(t)]
    /\ \A a \in DOMAIN t : a \in DOMAIN v /\ v[a] = t[a]
    /\ \A b \in DOMAIN u : Len(t) + b \in DOMAIN v /\ v[Len(t) + b] = u[b]

LEMMA ConcatText ==
    ASSUME NEW t \in Text, NEW u \in Text
    PROVE  t \o u \in Text /\ Joined(t \o u, t, u)
<1> DEFINE v == t \o u
           n == Len(t)
<1>1. /\ v \in Text /\ n \in Nat /\ Len(u) \in Nat /\ Len(v) = n + Len(u)
      /\ \A i \in 1..(n + Len(u)) : v[i] = IF i <= n THEN t[i] ELSE u[i - n]
      /\ DOMAIN t = 1..n /\ DOMAIN u = 1..Len(u) /\ DOMAIN v = 1..Len(v)
  BY ConcatProperties, LenProperties DEF Text
<1> HIDE DEF v, n
<1> QED
  BY <1>1 DEF v, n, Joined

LEMMA HoldsConcat ==
    ASSUME NEW t \in Text, NEW u \in Text, NEW n, NEW kinds
    PROVE  Holds(t \o u, n, kinds) <=> Holds(t, n, kinds) \/ Holds(u, n, kinds)
<1> DEFINE v == t \o u
<1>1. Joined(v, t, u)
  BY ConcatText
<1> HIDE DEF v
<1>2. Holds(v, n, kinds) <=> Holds(t, n, kinds) \/ Holds(u, n, kinds)
  BY <1>1 DEF Holds, Joined
<1> QED
  BY <1>2 DEF v

LEMMA OrderConcat ==
    ASSUME NEW t \in Text, NEW u \in Text, NEW kinds, InOrder(t, kinds), InOrder(u, kinds),
           \A a \in DOMAIN t, b \in DOMAIN u :
             t[a].kind \in kinds /\ u[b].kind \in kinds => t[a].n < u[b].n
    PROVE  InOrder(t \o u, kinds)
<1> DEFINE v == t \o u
<1>0. Joined(v, t, u)
  BY ConcatText
<1>2. v \in Text
  BY ConcatText
<1> HIDE DEF v
<1>1. \A a \in DOMAIN v :
        \/ a \in DOMAIN t /\ v[a] = t[a]
        \/ a \notin DOMAIN t /\ a - Len(t) \in DOMAIN u /\ v[a] = u[a - Len(t)]
  BY <1>0 DEF Joined
<1>3. Len(t) \in Nat /\ DOMAIN t = 1..Len(t) /\ DOMAIN v = 1..Len(v) /\ Len(v) \in Nat
  BY <1>2, PieceOf
<1>4. ASSUME NEW a \in DOMAIN v, NEW b \in DOMAIN v, v[a].kind \in kinds, v[b].kind \in kinds,
             a < b
      PROVE  v[a].n < v[b].n
  <2>1. CASE a \in DOMAIN t /\ b \in DOMAIN t
    <3>1. v[a] = t[a] /\ v[b] = t[b]
      BY <1>1, <2>1
    <3> QED
      BY <1>4, <2>1, <3>1 DEF InOrder
  <2>2. CASE a \in DOMAIN t /\ b \notin DOMAIN t
    BY <1>1, <1>4, <2>2
  <2>3. CASE a \notin DOMAIN t /\ b \notin DOMAIN t
    <3> DEFINE x == a - Len(t)
               y == b - Len(t)
    <3>1. x \in DOMAIN u /\ y \in DOMAIN u /\ v[a] = u[x] /\ v[b] = u[y]
      BY <1>1, <2>3
    <3>2. x < y
      BY <1>3, <1>4
    <3> HIDE DEF x, y
    <3> QED
      BY <1>4, <3>1, <3>2 DEF InOrder
  <2>4. b \in DOMAIN t => a \in DOMAIN t
    BY <1>3, <1>4
  <2> QED
    BY <2>1, <2>2, <2>3, <2>4
<1>5. InOrder(v, kinds)
  BY <1>4 DEF InOrder
<1> QED
  BY <1>5 DEF v

\* What the think filter lets through follows what was said before, and what
\* the DSML filter still withholds follows both.
LEMMA Placing ==
    ASSUME NEW r, NEW w, NEW out, NEW h, NEW m \in Nat,
           Placed(r, w, out, m), Placed(r, w, h, m), Before(out, h),
           NEW rs, NEW ts, Parted(out, Len(out), rs, ts)
    PROVE  Placed(r \o rs, w \o ts, h, m)
<1>1. /\ r \in Text /\ w \in Text /\ h \in Text /\ out \in Text /\ rs \in Text /\ ts \in Text
      /\ Len(out) \in Nat /\ DOMAIN out = 1..Len(out)
  BY PieceOf DEF Placed, Parted
<1>2. /\ \A a \in DOMAIN rs : \E b \in DOMAIN out : rs[a] = out[b]
      /\ \A a \in DOMAIN ts : \E b \in DOMAIN out : ts[a] = out[b]
  BY <1>1 DEF Parted
<1>3. /\ \A a \in DOMAIN rs : rs[a].kind \in Content /\ rs[a].n <= m
      /\ \A a \in DOMAIN ts : ts[a].kind \in Content /\ ts[a].n <= m
      /\ Before(rs, h) /\ Before(ts, h)
      /\ \A a \in DOMAIN r, b \in DOMAIN rs : r[a].kind \in Content => r[a].n < rs[b].n
      /\ \A a \in DOMAIN r, b \in DOMAIN ts : r[a].kind \in Content => r[a].n < ts[b].n
      /\ \A a \in DOMAIN w, b \in DOMAIN rs : w[a].kind \in Content => w[a].n < rs[b].n
      /\ \A a \in DOMAIN w, b \in DOMAIN ts : w[a].kind \in Content => w[a].n < ts[b].n
  BY <1>2 DEF Placed, Before, Within
<1> DEFINE x == r \o rs
           y == w \o ts
<1>0. x \in Text /\ y \in Text /\ Joined(x, r, rs) /\ Joined(y, w, ts)
  BY <1>1, ConcatText
<1>4. /\ x \in Text /\ y \in Text
      /\ \A a \in DOMAIN x : \/ a \in DOMAIN r /\ x[a] = r[a]
                             \/ a - Len(r) \in DOMAIN rs /\ x[a] = rs[a - Len(r)]
      /\ \A a \in DOMAIN y : \/ a \in DOMAIN w /\ y[a] = w[a]
                             \/ a - Len(w) \in DOMAIN ts /\ y[a] = ts[a - Len(w)]
  BY <1>0 DEF Joined
<1>5. InOrder(x, Content)
  <2>1. InOrder(rs, Content)
    BY DEF Parted, Ascends, InOrder
  <2> QED
    BY <1>1, <1>3, <2>1, OrderConcat DEF Placed
<1>6. InOrder(y, Content)
  <2>1. InOrder(ts, Content)
    BY DEF Parted, Ascends, InOrder
  <2> QED
    BY <1>1, <1>3, <2>1, OrderConcat DEF Placed
<1>7. InOrder(x, {"native"})
  <2>1. "native" \notin Content
    BY DEF Content
  <2>2. \A a \in DOMAIN rs : rs[a].kind \notin {"native"}
    BY <1>3, <2>1
  <2>3. InOrder(rs, {"native"})
    BY <2>2 DEF InOrder
  <2> QED
    BY <1>1, <2>2, <2>3, OrderConcat DEF Placed
<1> HIDE DEF x, y
<1>8. Within(x, Content \cup {"native"}, m) /\ Before(x, h)
  BY <1>3, <1>4 DEF Placed, Within, Before
<1>9. Within(y, Content, m) /\ Before(y, h)
  BY <1>3, <1>4 DEF Placed, Within, Before
<1>10. Apart(x, y)
  <2>1. Apart(r, w) /\ \A a \in DOMAIN rs, b \in DOMAIN ts : rs[a].n # ts[b].n
    BY DEF Placed, Parted
  <2>2. /\ \A a \in DOMAIN r : r[a].n \in Nat
        /\ \A a \in DOMAIN w : w[a].n \in Nat
        /\ \A a \in DOMAIN rs : rs[a].n \in Nat
        /\ \A a \in DOMAIN ts : ts[a].n \in Nat
    BY <1>1, PieceOf
  <2>3. \A a \in DOMAIN r, b \in DOMAIN ts : r[a].kind \in Content => r[a].n # ts[b].n
    BY <1>3, <2>2
  <2>4. \A a \in DOMAIN rs, b \in DOMAIN w : w[b].kind \in Content => rs[a].n # w[b].n
    BY <1>3, <2>2
  <2> SUFFICES ASSUME NEW a \in DOMAIN x, NEW b \in DOMAIN y,
                      x[a].kind \in Content, y[b].kind \in Content
               PROVE  x[a].n # y[b].n
    BY DEF Apart
  <2>5. CASE a \in DOMAIN r /\ x[a] = r[a]
    BY <1>4, <2>1, <2>3, <2>5 DEF Apart
  <2>6. CASE a - Len(r) \in DOMAIN rs /\ x[a] = rs[a - Len(r)]
    BY <1>4, <2>1, <2>4, <2>6
  <2> QED
    BY <1>4, <2>5, <2>6
<1>11. Placed(x, y, h, m)
  BY <1>1, <1>4, <1>5, <1>6, <1>7, <1>8, <1>9, <1>10 DEF Placed
<1> QED
  BY <1>11 DEF x, y

LEMMA PlacedMore ==
    ASSUME NEW r, NEW w, NEW h, NEW m \in Nat, Placed(r, w, h, m),
           NEW p \in Piece, p.kind \in Content, p.n = m + 1
    PROVE  /\ Placed(r, w, <<>>, m + 1) /\ Placed(r, w, h, m + 1)
           /\ Placed(r, w, Append(h, p), m + 1) /\ Before(h, <<p>>)
<1>1. /\ r \in Text /\ w \in Text /\ h \in Text
      /\ \A a \in DOMAIN r : r[a].n \in Nat /\ r[a].n <= m
      /\ \A a \in DOMAIN w : w[a].n \in Nat /\ w[a].n <= m
      /\ \A a \in DOMAIN h : h[a].n \in Nat /\ h[a].n <= m
  BY PieceOf DEF Placed, Within
<1>2. /\ Within(r, Content \cup {"native"}, m + 1) /\ Within(w, Content, m + 1)
      /\ Within(h, Content, m + 1)
  BY <1>1 DEF Placed, Within
<1>3. <<>> \in Text /\ Within(<<>>, Content, m + 1) /\ Ascends(<<>>)
      /\ Before(r, <<>>) /\ Before(w, <<>>)
  BY DEF Text, Within, Ascends, Before
<1> DEFINE g == Append(h, p)
<1>4. /\ g \in Text /\ Len(h) \in Nat
      /\ DOMAIN h = 1..Len(h) /\ DOMAIN g = 1..(Len(h) + 1)
      /\ \A a \in DOMAIN h : g[a] = h[a]
      /\ g[Len(h) + 1] = p
  BY <1>1, TextAppend
<1> HIDE DEF g
<1>5. \A a \in DOMAIN g : (a \in DOMAIN h /\ g[a] = h[a]) \/ (a = Len(h) + 1 /\ g[a] = p)
  BY <1>4
<1>6. Within(g, Content, m + 1)
  BY <1>2, <1>5 DEF Within
<1>7. Before(r, g) /\ Before(w, g)
  BY <1>1, <1>5 DEF Before, Placed
<1>8. Ascends(g)
  <2> SUFFICES ASSUME NEW a \in DOMAIN g, NEW b \in DOMAIN g, a < b PROVE g[a].n < g[b].n
    BY DEF Ascends
  <2>1. a \in DOMAIN h /\ g[a] = h[a]
    BY <1>4
  <2>2. CASE b \in DOMAIN h
    BY <1>4, <2>1, <2>2 DEF Placed, Ascends
  <2>3. CASE b \notin DOMAIN h
    BY <1>1, <1>5, <2>1, <2>3
  <2> QED
    BY <2>2, <2>3
<1>9. Before(h, <<p>>)
  <2>1. \A b \in DOMAIN <<p>> : <<p>>[b] = p
    OBVIOUS
  <2> QED
    BY <1>1, <2>1 DEF Before
<1>10. /\ InOrder(r, Content) /\ InOrder(r, {"native"}) /\ InOrder(w, Content)
       /\ Ascends(h) /\ Before(r, h) /\ Before(w, h) /\ Apart(r, w)
  BY DEF Placed
<1>11. Placed(r, w, <<>>, m + 1) /\ Placed(r, w, h, m + 1)
  BY <1>1, <1>2, <1>3, <1>10 DEF Placed
<1>12. Placed(r, w, g, m + 1)
  BY <1>1, <1>2, <1>4, <1>6, <1>7, <1>8, <1>10 DEF Placed
<1> QED
  BY <1>9, <1>11, <1>12 DEF g

\* What of a chunk's content the DSML filter lets through, and what it withholds.
LEMMA DsmlPlaced ==
    ASSUME NEW c \in Converter, ~opts.dsml => c.withheld = <<>>, NEW m \in Nat,
           NEW p \in Piece, p.kind \in Content, p.n = m + 1,
           NEW r, NEW w, Placed(r, w, c.withheld, m)
    PROVE  LET d == DsmlPush(c, p)
           IN  /\ Placed(r, w, d.out, m + 1) /\ Placed(r, w, d.conv.withheld, m + 1)
               /\ Before(d.out, d.conv.withheld)
               /\ \A n, kinds : Holds(c.withheld, n, kinds) \/ (n = p.n /\ p.kind \in kinds) =>
                    Holds(d.out, n, kinds) \/ Holds(d.conv.withheld, n, kinds)
               /\ ~opts.dsml => d.conv.withheld = <<>>
               /\ d.conv.calls = c.calls /\ d.conv.usage = c.usage
<1> DEFINE h == c.withheld
           d == DsmlPush(c, p)
           one == <<p>>
           all == Append(h, p)
<1>1. h \in Text
  BY DEF Converter
<1>2. /\ Placed(r, w, <<>>, m + 1) /\ Placed(r, w, h, m + 1)
      /\ Placed(r, w, all, m + 1) /\ Before(h, one)
  BY PlacedMore
<1>3. Placed(r, w, one, m + 1)
  <2>1. Placed(r, w, <<>>, m)
    BY DEF Placed, Text, Within, Ascends, Before
  <2>2. Placed(r, w, Append(<<>>, p), m + 1)
    BY <2>1, PlacedMore
  <2>3. Append(<<>>, p) = one
    OBVIOUS
  <2> QED
    BY <2>2, <2>3
<1>4. ASSUME NEW n, NEW kinds
      PROVE  /\ n = p.n /\ p.kind \in kinds => Holds(one, n, kinds)
             /\ Holds(h, n, kinds) \/ (n = p.n /\ p.kind \in kinds) => Holds(all, n, kinds)
             /\ ~Holds(<<>>, n, kinds)
  <2>1. 1 \in DOMAIN one /\ one[1] = p
    OBVIOUS
  <2>2. /\ Len(h) \in Nat
        /\ DOMAIN h = 1..Len(h) /\ DOMAIN all = 1..(Len(h) + 1)
        /\ \A a \in DOMAIN h : all[a] = h[a]
        /\ all[Len(h) + 1] = p
    BY <1>1, TextAppend
  <2> HIDE DEF one, all, h
  <2>3. Len(h) + 1 \in DOMAIN all /\ \A a \in DOMAIN h : a \in DOMAIN all
    BY <2>2
  <2> QED
    BY <2>1, <2>2, <2>3 DEF Holds
<1>5. \A t : Before(t, <<>>) /\ Before(<<>>, t)
  BY DEF Before
<1>6. /\ \/ d.out = one /\ d.conv.withheld = h /\ h = <<>>
         \/ d.out = <<>> /\ d.conv.withheld = all /\ opts.dsml
         \/ d.out = h /\ d.conv.withheld = one /\ opts.dsml
         \/ d.out = all /\ d.conv.withheld = <<>>
      /\ d.conv.calls = c.calls /\ d.conv.usage = c.usage
  <2>1. CASE ~opts.dsml
    BY <2>1 DEF DsmlPush
  <2>2. CASE opts.dsml /\ c.inDsml
    BY <2>2 DEF DsmlPush, Converter
  <2>3. CASE opts.dsml /\ ~c.inDsml /\ p.kind \in {"half", "markup"}
    BY <2>3 DEF DsmlPush, Converter
  <2>4. CASE opts.dsml /\ ~c.inDsml /\ p.kind \notin {"half", "markup"}
    BY <2>4 DEF DsmlPush, Converter
  <2> QED
    BY <2>1, <2>2, <2>3, <2>4
<1> HIDE DEF h, one, all, d
<1>7. /\ Placed(r, w, d.out, m + 1) /\ Placed(r, w, d.conv.withheld, m + 1)
      /\ Before(d.out, d.conv.withheld)
      /\ ~opts.dsml => d.conv.withheld = <<>>
  BY <1>2, <1>3, <1>5, <1>6
<1>8. ASSUME NEW n, NEW kinds, Holds(h, n, kinds) \/ (n = p.n /\ p.kind \in kinds)
      PROVE  Holds(d.out, n, kinds) \/ Holds(d.conv.withheld, n, kinds)
  BY <1>4, <1>6, <1>8
<1> QED
  BY <1>6, <1>7, <1>8 DEF d, h

\* Native reasoning is said before what the filters make of the same chunk.
LEMMA NativePlaced ==
    ASSUME NEW r, NEW w, NEW m \in Nat, Within(r, Content \cup {"native"}, m),
           NEW x \in Piece, x.kind = "native", x.n = m + 1
    PROVE  /\ \A h : Placed(r, w, h, m + 1) => Placed(Append(r, x), w, h, m + 1)
           /\ r \in Text =>
                \A n, kinds : Holds(Append(r, x), n, kinds)
                                <=> Holds(r, n, kinds) \/ (n = m + 1 /\ "native" \in kinds)
<1> DEFINE g == Append(r, x)
<1>0. "native" \notin Content
  BY DEF Content
<1> SUFFICES ASSUME r \in Text
    PROVE  /\ \A h : Placed(r, w, h, m + 1) => Placed(g, w, h, m + 1)
           /\ \A n, kinds : Holds(g, n, kinds)
                                <=> Holds(r, n, kinds) \/ (n = m + 1 /\ "native" \in kinds)
  BY DEF Placed
<1>1. /\ g \in Text /\ Len(r) \in Nat
      /\ DOMAIN r = 1..Len(r) /\ DOMAIN g = 1..(Len(r) + 1)
      /\ \A a \in DOMAIN r : g[a] = r[a]
      /\ g[Len(r) + 1] = x
  BY TextAppend
<1> HIDE DEF g
<1>2. /\ \A a \in DOMAIN g : (a \in DOMAIN r /\ g[a] = r[a]) \/ (a = Len(r) + 1 /\ g[a] = x)
      /\ \A a \in DOMAIN r : a \in DOMAIN g
      /\ Len(r) + 1 \in DOMAIN g
  BY <1>1
<1>3. \A n, kinds : Holds(g, n, kinds)
                      <=> Holds(r, n, kinds) \/ (n = m + 1 /\ "native" \in kinds)
  BY <1>1, <1>2 DEF Holds
<1>4. ASSUME NEW h, Placed(r, w, h, m + 1) PROVE Placed(g, w, h, m + 1)
  <2>1. \A a \in DOMAIN r : r[a].n <= m /\ r[a].n \in Nat
    BY PieceOf DEF Within
  <2>2. Within(g, Content \cup {"native"}, m + 1)
    BY <1>2, <2>1 DEF Within
  <2>3. Before(g, h) /\ Apart(g, w)
    BY <1>0, <1>2, <1>4 DEF Before, Apart, Placed
  <2>4. InOrder(g, Content)
    <3> SUFFICES ASSUME NEW a \in DOMAIN g, NEW b \in DOMAIN g,
                        g[a].kind \in Content, g[b].kind \in Content, a < b
                 PROVE  g[a].n < g[b].n
      BY DEF InOrder
    <3>1. a \in DOMAIN r /\ b \in DOMAIN r /\ g[a] = r[a] /\ g[b] = r[b]
      BY <1>0, <1>2
    <3> QED
      BY <1>4, <3>1 DEF Placed, InOrder
  <2>5. InOrder(g, {"native"})
    <3> SUFFICES ASSUME NEW a \in DOMAIN g, NEW b \in DOMAIN g,
                        g[a].kind \in {"native"}, g[b].kind \in {"native"}, a < b
                 PROVE  g[a].n < g[b].n
      BY DEF InOrder
    <3>1. a \in DOMAIN r /\ g[a] = r[a]
      BY <1>1
    <3>2. CASE b \in DOMAIN r
      BY <1>1, <1>4, <3>1, <3>2 DEF Placed, InOrder
    <3>3. CASE b \notin DOMAIN r
      BY <1>2, <2>1, <3>1, <3>3
    <3> QED
      BY <3>2, <3>3
  <2> QED
    BY <1>1, <1>4, <2>2, <2>3, <2>4, <2>5 DEF Placed
<1> QED
  BY <1>3, <1>4

-----------------------------------------------------------------------------
(* What the converter has kept of the chunks *)

\* Every piece of content, and of native reasoning, has a place.
Heard(r, w, h, chunks) ==
    \A n \in DOMAIN chunks :
      /\ chunks[n].content \in Speaking =>
           Holds(r, n, Speaking) \/ Holds(w, n, Speaking) \/ Holds(h, n, Speaking)
      /\ chunks[n].reasoning <=> Holds(r, n, {"native"})

PartOf(chunk, i) == chunk.call # NoCall /\ chunk.call.index = i

\* The call of index i is its fragments, in order.
CallKept(call, i, chunks) ==
    /\ Ascends(call.args)
    /\ \A a \in DOMAIN call.args :
         LET p == call.args[a]
         IN  p.kind = "args" /\ p.n \in DOMAIN chunks /\ PartOf(chunks[p.n], i)
    /\ \A n \in DOMAIN chunks : PartOf(chunks[n], i) => Holds(call.args, n, {"args"})
    /\ call.named <=> \E n \in DOMAIN chunks : PartOf(chunks[n], i) /\ chunks[n].call.named

CallsKept(calls, chunks) ==
    /\ \A i \in DOMAIN calls : CallKept(calls[i], i, chunks)
    /\ \A n \in DOMAIN chunks : chunks[n].call # NoCall => chunks[n].call.index \in DOMAIN calls

UsageKept(usage, chunks) ==
    /\ usage \in 0..Len(chunks)
    /\ usage > 0 => chunks[usage].usage
    /\ \A n \in DOMAIN chunks : chunks[n].usage => n <= usage

\* What was said is in an item.
Itemised(c) == \A kind \in Kinds : c.said[kind] # <<>> => kind \in ToSet(c.slots)

Accounts(c, chunks) ==
    LET r == c.said["reasoning"]
        w == c.said["message"]
    IN  /\ Placed(r, w, c.withheld, Len(chunks)) /\ Heard(r, w, c.withheld, chunks)
        /\ CallsKept(c.calls, chunks) /\ UsageKept(c.usage, chunks)
        /\ ~opts.dsml => c.withheld = <<>>
        /\ Itemised(c)

LEMMA ChunkAppend ==
    ASSUME NEW chunks \in Seq(Chunk), NEW k \in Chunk
    PROVE  LET all == Append(chunks, k)
           IN  /\ all \in Seq(Chunk) /\ Len(chunks) \in Nat /\ Len(all) = Len(chunks) + 1
               /\ DOMAIN chunks = 1..Len(chunks) /\ DOMAIN all = 1..(Len(chunks) + 1)
               /\ \A n \in DOMAIN chunks : n \in DOMAIN all /\ all[n] = chunks[n]
               /\ \A n \in DOMAIN all : n \in DOMAIN chunks \/ n = Len(chunks) + 1
               /\ Len(chunks) + 1 \in DOMAIN all /\ all[Len(chunks) + 1] = k
<1> DEFINE all == Append(chunks, k)
           m == Len(chunks)
<1>1. /\ all \in Seq(Chunk) /\ m \in Nat /\ Len(all) = m + 1
      /\ \A i \in 1..m : all[i] = chunks[i]
      /\ all[m + 1] = k
      /\ DOMAIN chunks = 1..m /\ DOMAIN all = 1..Len(all)
  BY AppendProperties, LenProperties
<1> HIDE DEF all, m
<1>2. DOMAIN all = 1..(m + 1) /\ \A n : n \in 1..(m + 1) <=> n \in 1..m \/ n = m + 1
  BY <1>1
<1> QED
  BY <1>1, <1>2 DEF all, m

LEMMA FragmentKept ==
    ASSUME NEW call \in CallState, NEW i, NEW chunks \in Seq(Chunk), NEW k \in Chunk,
           CallKept(call, i, chunks), PartOf(k, i), Len(chunks) + 1 \in 1..MaxChunks
    PROVE  CallKept([named |-> call.named \/ k.call.named,
                     args |-> Append(call.args, [n |-> Len(chunks) + 1, kind |-> "args"])],
                    i, Append(chunks, k))
<1> DEFINE m == Len(chunks)
           all == Append(chunks, k)
           p == [n |-> m + 1, kind |-> "args"]
           old == call.args
           args == Append(old, p)
<1>1. /\ m \in Nat /\ DOMAIN chunks = 1..m
      /\ \A n \in DOMAIN chunks : n \in DOMAIN all /\ all[n] = chunks[n]
      /\ \A n \in DOMAIN all : n \in DOMAIN chunks \/ n = m + 1
      /\ m + 1 \in DOMAIN all /\ all[m + 1] = k
  BY ChunkAppend
<1>2. p \in Piece /\ p.n = m + 1 /\ p.kind = "args"
  BY DEF Piece
<1>3. old \in Text
  BY DEF CallState
<1> HIDE DEF p, all, m
<1>4. /\ Len(old) \in Nat /\ DOMAIN old = 1..Len(old) /\ DOMAIN args = 1..(Len(old) + 1)
      /\ \A a \in DOMAIN old : args[a] = old[a]
      /\ args[Len(old) + 1] = p
  BY <1>2, <1>3, TextAppend
<1> HIDE DEF args
<1>5. /\ \A a \in DOMAIN args : (a \in DOMAIN old /\ args[a] = old[a]) \/ (a = Len(old) + 1 /\ args[a] = p)
      /\ \A a \in DOMAIN old : a \in DOMAIN args
      /\ Len(old) + 1 \in DOMAIN args
  BY <1>4
<1>6. \A a \in DOMAIN old : old[a].n \in 1..m /\ old[a].kind = "args" /\ PartOf(chunks[old[a].n], i)
  BY <1>1 DEF CallKept
<1>7. Ascends(args)
  <2> SUFFICES ASSUME NEW a \in DOMAIN args, NEW b \in DOMAIN args, a < b
               PROVE  args[a].n < args[b].n
    BY DEF Ascends
  <2>1. a \in DOMAIN old /\ args[a] = old[a]
    BY <1>4
  <2>2. CASE b \in DOMAIN old
    BY <1>4, <2>1, <2>2 DEF CallKept, Ascends
  <2>3. CASE b \notin DOMAIN old
    BY <1>1, <1>2, <1>5, <1>6, <2>1, <2>3
  <2> QED
    BY <2>2, <2>3
<1>8. ASSUME NEW a \in DOMAIN args
      PROVE  args[a].kind = "args" /\ args[a].n \in DOMAIN all /\ PartOf(all[args[a].n], i)
  BY <1>1, <1>2, <1>5, <1>6
<1>9. ASSUME NEW n \in DOMAIN all, PartOf(all[n], i) PROVE Holds(args, n, {"args"})
  <2>1. CASE n = m + 1
    BY <1>2, <1>4, <1>5, <2>1 DEF Holds
  <2>2. CASE n \in DOMAIN chunks
    <3>1. Holds(old, n, {"args"})
      BY <1>1, <1>9, <2>2 DEF CallKept
    <3> QED
      BY <1>4, <1>5, <3>1 DEF Holds
  <2> QED
    BY <1>1, <2>1, <2>2
<1>10. (call.named \/ k.call.named) <=> \E n \in DOMAIN all : PartOf(all[n], i) /\ all[n].call.named
  BY <1>1 DEF CallKept
<1> DEFINE new == [named |-> call.named \/ k.call.named, args |-> args]
<1>12. new.args = args /\ (new.named <=> call.named \/ k.call.named)
  OBVIOUS
<1> HIDE DEF new
<1>13. CallKept(new, i, all)
  BY <1>7, <1>8, <1>9, <1>10, <1>12 DEF CallKept
<1> QED
  BY <1>13 DEF new, args, p, all, m

LEMMA OtherKept ==
    ASSUME NEW call, NEW i, NEW chunks \in Seq(Chunk), NEW k \in Chunk,
           CallKept(call, i, chunks), ~PartOf(k, i)
    PROVE  CallKept(call, i, Append(chunks, k))
<1> DEFINE all == Append(chunks, k)
<1>1. /\ \A n \in DOMAIN chunks : n \in DOMAIN all /\ all[n] = chunks[n]
      /\ \A n \in DOMAIN all : n \in DOMAIN chunks \/ all[n] = k
  BY ChunkAppend
<1> HIDE DEF all
<1>2. CallKept(call, i, all)
  <2>1. \A a \in DOMAIN call.args :
          /\ call.args[a].kind = "args" /\ call.args[a].n \in DOMAIN all
          /\ PartOf(all[call.args[a].n], i)
    BY <1>1 DEF CallKept
  <2>2. \A n \in DOMAIN all : PartOf(all[n], i) => Holds(call.args, n, {"args"})
    BY <1>1 DEF CallKept
  <2>3. call.named <=> \E n \in DOMAIN all : PartOf(all[n], i) /\ all[n].call.named
    BY <1>1 DEF CallKept
  <2> QED
    BY <2>1, <2>2, <2>3 DEF CallKept
<1> QED
  BY <1>2 DEF all

LEMMA CallsStep ==
    ASSUME NEW calls \in Calls, NEW chunks \in Seq(Chunk), NEW k \in Chunk,
           CallsKept(calls, chunks), Len(chunks) + 1 \in 1..MaxChunks
    PROVE  CallsKept(IF k.call = NoCall THEN calls
                     ELSE AddCall(calls, k.call, [n |-> Len(chunks) + 1, kind |-> "args"]),
                     Append(chunks, k))
<1> DEFINE all == Append(chunks, k)
           p == [n |-> Len(chunks) + 1, kind |-> "args"]
<1>1. /\ \A n \in DOMAIN chunks : n \in DOMAIN all /\ all[n] = chunks[n]
      /\ \A n \in DOMAIN all : n \in DOMAIN chunks \/ all[n] = k
  BY ChunkAppend
<1>2. CASE k.call = NoCall
  <2>1. \A i \in DOMAIN calls : CallKept(calls[i], i, all)
    BY <1>2, OtherKept DEF CallsKept, PartOf
  <2> HIDE DEF all
  <2>2. CallsKept(calls, all)
    BY <1>1, <1>2, <2>1 DEF CallsKept
  <2> QED
    BY <1>2, <2>2 DEF all
<1>3. CASE k.call # NoCall
  <2> DEFINE j == k.call.index
             old == IF j \in DOMAIN calls THEN calls[j] ELSE [named |-> FALSE, args |-> <<>>]
             new == [named |-> old.named \/ k.call.named, args |-> Append(old.args, p)]
             added == AddCall(calls, k.call, p)
  <2>2. DOMAIN added = DOMAIN calls \cup {j}
        /\ \A i \in DOMAIN added : added[i] = IF i = j THEN new ELSE calls[i]
    BY DEF AddCall
  <2>3. old \in CallState /\ CallKept(old, j, chunks)
    <3>1. CASE j \in DOMAIN calls
      BY <3>1, CallsAre DEF CallsKept
    <3>2. CASE j \notin DOMAIN calls
      <4>1. old = [named |-> FALSE, args |-> <<>>]
        BY <3>2
      <4>2. \A n \in DOMAIN chunks : ~PartOf(chunks[n], j)
        BY <3>2 DEF CallsKept, PartOf
      <4>3. <<>> \in Text /\ Ascends(<<>>)
        BY DEF Text, Ascends
      <4> HIDE DEF old
      <4>4. old \in CallState
        BY <4>1, <4>3 DEF CallState
      <4>5. old.args = <<>> /\ old.named = FALSE
        BY <4>1
      <4> QED
        BY <4>2, <4>3, <4>4, <4>5 DEF CallKept
    <3> QED
      BY <3>1, <3>2
  <2>4. PartOf(k, j)
    BY <1>3 DEF PartOf
  <2> HIDE DEF old, added
  <2>5. CallKept(new, j, all)
    BY <2>3, <2>4, FragmentKept
  <2> HIDE DEF new
  <2>6. ASSUME NEW i \in DOMAIN calls, i # j PROVE CallKept(calls[i], i, all)
    BY <2>6, OtherKept DEF CallsKept, PartOf
  <2> HIDE DEF all
  <2>7. CallsKept(added, all)
    BY <1>1, <2>2, <2>5, <2>6 DEF CallsKept
  <2> QED
    BY <1>3, <2>7 DEF added, all
<1> QED
  BY <1>2, <1>3

LEMMA UsageStep ==
    ASSUME NEW usage, NEW chunks \in Seq(Chunk), NEW k \in Chunk, UsageKept(usage, chunks)
    PROVE  UsageKept(IF k.usage THEN Len(chunks) + 1 ELSE usage, Append(chunks, k))
<1> DEFINE all == Append(chunks, k)
           m == Len(chunks)
<1>1. /\ m \in Nat /\ Len(all) = m + 1 /\ DOMAIN chunks = 1..m
      /\ \A n \in DOMAIN chunks : n \in DOMAIN all /\ all[n] = chunks[n]
      /\ \A n \in DOMAIN all : n \in DOMAIN chunks \/ n = m + 1
      /\ m + 1 \in DOMAIN all /\ all[m + 1] = k
  BY ChunkAppend
<1> HIDE DEF all, m
<1>3. CASE k.usage
  <2>1. UsageKept(m + 1, all)
    BY <1>1, <1>3 DEF UsageKept
  <2> QED
    BY <1>3, <2>1 DEF all, m
<1>4. CASE ~k.usage
  <2>1. usage \in 0..m /\ (usage > 0 => usage \in DOMAIN chunks)
    BY <1>1 DEF UsageKept, m
  <2>2. UsageKept(usage, all)
    BY <1>1, <1>4, <2>1 DEF UsageKept, m
  <2> QED
    BY <1>4, <2>2 DEF all, m
<1> QED
  BY <1>3, <1>4

LEMMA ConcatThree ==
    ASSUME NEW r \in Text, NEW s \in Text, NEW t \in Text
    PROVE  s \o t \in Text /\ r \o (s \o t) = (r \o s) \o t
<1> DEFINE S == Piece
<1>1. r \in Seq(S) /\ s \in Seq(S) /\ t \in Seq(S)
  BY DEF Text
<1> HIDE DEF S
<1>2. (r \o s) \o t = r \o (s \o t)
  BY <1>1, ConcatAssociative
<1>3. s \o t \in Seq(S)
  BY <1>1, ConcatProperties
<1> QED
  BY <1>2, <1>3 DEF S, Text

LEMMA SpeakSaid ==
    ASSUME NEW c \in Converter, Distinct(c.slots), NEW kind \in Kinds, NEW text \in Text
    PROVE  LET d == Speak(c, kind, text)
           IN  /\ d \in Converter /\ Distinct(d.slots)
               /\ d.said[kind] = c.said[kind] \o text
               /\ \A other \in Kinds \ {kind} : d.said[other] = c.said[other]
               /\ d.withheld = c.withheld /\ d.calls = c.calls /\ d.usage = c.usage
               /\ Itemised(c) => Itemised(d)
<1> DEFINE d == Speak(c, kind, text)
<1>1. d \in Converter /\ Distinct(d.slots)
  BY SpeakType, Zenon
<1>2. c.said \in [Kinds -> Text] /\ c.slots \in Seq(Kinds) /\ c.said[kind] \in Seq(Piece)
  BY DEF Converter, Text
<1>3. CASE text = <<>>
  <2>1. d = c
    BY <1>3 DEF Speak
  <2>2. c.said[kind] \o text = c.said[kind]
    BY <1>2, <1>3
  <2> HIDE DEF d
  <2> QED
    BY <1>1, <2>1, <2>2 DEF d
<1>4. CASE text # <<>>
  <2> DEFINE said == [c.said EXCEPT ![kind] = c.said[kind] \o text]
             slots == IF kind \in ToSet(c.slots) THEN c.slots ELSE Append(c.slots, kind)
  <2>1. d = [c EXCEPT !.said = said, !.slots = slots]
    BY <1>4 DEF Speak
  <2>2. said[kind] = c.said[kind] \o text /\ \A other \in Kinds \ {kind} : said[other] = c.said[other]
    BY <1>2
  <2>3. \A x \in {kind} \cup ToSet(c.slots) : x \in ToSet(slots)
    <3>1. CASE kind \in ToSet(c.slots)
      BY <3>1
    <3>2. CASE kind \notin ToSet(c.slots)
      <4> DEFINE t == Append(c.slots, kind)
                 n == Len(c.slots)
      <4>1. /\ n \in Nat /\ DOMAIN c.slots = 1..n /\ DOMAIN t = 1..(n + 1)
            /\ \A i \in 1..n : t[i] = c.slots[i]
            /\ t[n + 1] = kind
        BY <1>2, AppendProperties, LenProperties
      <4> HIDE DEF t, n
      <4>2. \A x \in {kind} \cup ToSet(c.slots) : \E i \in DOMAIN t : t[i] = x
        <5>1. n + 1 \in DOMAIN t /\ \A i \in 1..n : i \in DOMAIN t
          BY <4>1
        <5> QED
          BY <4>1, <5>1 DEF ToSet
      <4>3. slots = t
        BY <3>2 DEF t
      <4> HIDE DEF slots
      <4> QED
        BY <4>2, <4>3 DEF ToSet
    <3> QED
      BY <3>1, <3>2
  <2> HIDE DEF d, said, slots
  <2>4. /\ d.said = said /\ d.slots = slots
        /\ d.withheld = c.withheld /\ d.calls = c.calls /\ d.usage = c.usage
    BY <2>1 DEF Converter
  <2>5. Itemised(c) => Itemised(d)
    BY <2>2, <2>3, <2>4 DEF Itemised
  <2> QED
    BY <1>1, <2>2, <2>4, <2>5 DEF d
<1> QED
  BY <1>3, <1>4

\* What the filters let through covers what they were given.
LEMMA PartsHold ==
    ASSUME NEW text \in Text, NEW rs, NEW ts, Parted(text, Len(text), rs, ts), NEW n,
           Holds(text, n, Speaking)
    PROVE  Holds(rs, n, Speaking) \/ Holds(ts, n, Speaking)
<1>1. PICK a \in DOMAIN text : text[a].kind \in Speaking /\ text[a].n = n
  BY DEF Holds
<1>2. a \in 1..Len(text)
  BY PieceOf
<1> QED
  BY <1>1, <1>2 DEF Parted, Holds

LEMMA ContentAccounted ==
    ASSUME NEW c \in Converter, Distinct(c.slots), NEW chunks \in Seq(Chunk),
           NEW k \in Chunk, Len(chunks) + 1 \in 1..MaxChunks, Accounts(c, chunks)
    PROVE  LET d == OnChunk(c, k, Len(chunks) + 1).conv
               all == Append(chunks, k)
           IN  /\ Placed(d.said["reasoning"], d.said["message"], d.withheld, Len(all))
               /\ Heard(d.said["reasoning"], d.said["message"], d.withheld, all)
               /\ ~opts.dsml => d.withheld = <<>>
               /\ Itemised(d)
               /\ d.calls = IF k.call = NoCall THEN c.calls
                            ELSE AddCall(c.calls, k.call, [n |-> Len(chunks) + 1, kind |-> "args"])
               /\ d.usage = IF k.usage THEN Len(chunks) + 1 ELSE c.usage
<1> DEFINE m == Len(chunks)
           n == m + 1
           all == Append(chunks, k)
           p == [n |-> n, kind |-> k.content]
           x == [n |-> n, kind |-> "native"]
           native == IF k.reasoning THEN <<x>> ELSE <<>>
           dsml == IF k.content = "none" THEN [conv |-> c, out |-> <<>>] ELSE DsmlPush(c, p)
           d == dsml.conv
           think == ThinkPush(d, dsml.out)
           c1 == [d EXCEPT !.inThink = think.inside]
           thoughts == native \o think.reasoning
           c2 == Speak(c1, "reasoning", thoughts)
           c3 == Speak(c2, "message", think.text)
           calls == IF k.call = NoCall THEN c3.calls
                    ELSE AddCall(c3.calls, k.call, [n |-> n, kind |-> "args"])
           usage == IF k.usage THEN n ELSE c3.usage
           e == OnChunk(c, k, n).conv
           R == c.said["reasoning"]
           W == c.said["message"]
<1>1. /\ m \in Nat /\ Len(all) = n /\ DOMAIN chunks = 1..m
      /\ \A i \in DOMAIN chunks : i \in DOMAIN all /\ all[i] = chunks[i]
      /\ \A i \in DOMAIN all : i \in DOMAIN chunks \/ i = n
      /\ n \in DOMAIN all /\ all[n] = k
  BY ChunkAppend
<1>2. /\ p \in Piece /\ p.n = n /\ p.kind = k.content /\ k.content \in Content
      /\ x \in Piece /\ x.n = n /\ x.kind = "native" /\ k.reasoning \in BOOLEAN
  BY DEF Piece, Chunk
<1>3. e = [c3 EXCEPT !.calls = calls, !.finish = @ \/ k.finish, !.usage = usage]
  BY DEF OnChunk
<1>4. /\ Placed(R, W, c.withheld, m) /\ Heard(R, W, c.withheld, chunks)
      /\ ~opts.dsml => c.withheld = <<>>
      /\ Itemised(c)
  BY DEF Accounts
<1> HIDE DEF n, m, all, p, x, e, R, W
<1>5. /\ d \in Converter /\ dsml.out \in Text /\ d.slots = c.slots /\ d.said = c.said
      /\ d.calls = c.calls /\ d.usage = c.usage
      /\ Placed(R, W, dsml.out, n) /\ Placed(R, W, d.withheld, n)
      /\ Before(dsml.out, d.withheld)
      /\ ~opts.dsml => d.withheld = <<>>
      /\ \A i : Holds(c.withheld, i, Speaking) \/ (i = n /\ k.content \in Speaking) =>
            Holds(dsml.out, i, Speaking) \/ Holds(d.withheld, i, Speaking)
  <2>1. CASE k.content = "none"
    <3>1. d = c /\ dsml.out = <<>>
      BY <2>1
    <3>2. Placed(R, W, <<>>, n) /\ Placed(R, W, c.withheld, n)
      BY <1>1, <1>2, <1>4, PlacedMore DEF n
    <3>3. <<>> \in Text /\ Before(<<>>, c.withheld) /\ "none" \notin Speaking
      BY DEF Text, Before, Speaking
    <3> HIDE DEF dsml
    <3> QED
      BY <1>4, <2>1, <3>1, <3>2, <3>3
  <2>2. CASE k.content # "none"
    <3>1. dsml = DsmlPush(c, p)
      BY <2>2
    <3> HIDE DEF dsml
    <3>2. /\ d \in Converter /\ dsml.out \in Text /\ d.slots = c.slots /\ d.said = c.said
      BY <1>2, <3>1, DsmlType
    <3>3. /\ Placed(R, W, dsml.out, m + 1) /\ Placed(R, W, d.withheld, m + 1)
          /\ Before(dsml.out, d.withheld)
          /\ \A i, kinds : Holds(c.withheld, i, kinds) \/ (i = p.n /\ p.kind \in kinds) =>
               Holds(dsml.out, i, kinds) \/ Holds(d.withheld, i, kinds)
          /\ ~opts.dsml => d.withheld = <<>>
          /\ d.calls = c.calls /\ d.usage = c.usage
      BY <1>1, <1>2, <1>4, <3>1, DsmlPlaced, ZenonT(40) DEF n
    <3> QED
      BY <1>2, <3>2, <3>3 DEF n
  <2> QED
    BY <2>1, <2>2
<1> DEFINE out == dsml.out
<1> HIDE DEF dsml
<1>6. think \in ThinkState /\ Parted(out, Len(out), think.reasoning, think.text)
  <2>1. Ascends(out)
    BY <1>5 DEF Placed
  <2>2. d.inThink \in BOOLEAN
    BY <1>5 DEF Converter
  <2> QED
    BY <1>5, <2>1, <2>2, ThinkType, ThinkParts
<1> HIDE DEF think
<1>7. think.reasoning \in Text /\ think.text \in Text /\ R \in Text /\ W \in Text
  BY <1>5, <1>6 DEF ThinkState, Placed
<1>8. native \in Text
  <2>1. <<x>> \in Seq(Piece) /\ <<>> \in Seq(Piece)
    BY <1>2
  <2> QED
    BY <2>1 DEF Text
<1>9. thoughts \in Text /\ R \o thoughts = (R \o native) \o think.reasoning
  <2> DEFINE t == think.reasoning
             x1 == native \o t
  <2> HIDE DEF native
  <2>1. t \in Text
    BY <1>7
  <2> HIDE DEF t
  <2>2. x1 \in Text /\ R \o x1 = (R \o native) \o t
    <3>1. \A a, b, u \in Text : b \o u \in Text /\ a \o (b \o u) = (a \o b) \o u
      BY ConcatThree
    <3>2. R \in Text /\ native \in Text
      BY <1>7, <1>8
    <3> QED
      BY <2>1, <3>1, <3>2, ZenonT(40)
  <2>3. thoughts = x1
    BY DEF t
  <2> QED
    BY <2>2, <2>3 DEF t
<1>10. /\ Placed(R \o native, W, out, n) /\ Placed(R \o native, W, d.withheld, n)
       /\ \A i, kinds : Holds(R \o native, i, kinds)
                      <=> Holds(R, i, kinds) \/ (i = n /\ k.reasoning /\ "native" \in kinds)
  <2>1. CASE k.reasoning
    <3>1. R \o native = Append(R, x)
      <4>1. native = <<x>> /\ R \in Seq(Piece)
        BY <1>7, <2>1 DEF Text
      <4> HIDE DEF native
      <4> QED
        BY <1>2, <4>1
    <3>2. Within(R, Content \cup {"native"}, m)
      BY <1>4 DEF Placed
    <3>3. /\ \A h : Placed(R, W, h, n) => Placed(Append(R, x), W, h, n)
          /\ \A i, kinds : Holds(Append(R, x), i, kinds)
                           <=> Holds(R, i, kinds) \/ (i = n /\ "native" \in kinds)
      BY <1>1, <1>2, <1>7, <3>2, NativePlaced DEF n
    <3> QED
      BY <1>5, <2>1, <3>1, <3>3
  <2>2. CASE ~k.reasoning
    <3>1. R \o native = R
      <4>1. native = <<>> /\ R \in Seq(Piece)
        BY <1>7, <2>2 DEF Text
      <4> HIDE DEF native
      <4> QED
        BY <4>1
    <3> QED
      BY <1>5, <2>2, <3>1
  <2> QED
    BY <2>1, <2>2
<1>11. Placed(R \o thoughts, W \o think.text, d.withheld, n)
  <2>1. n \in Nat
    BY <1>1 DEF n
  <2> HIDE DEF thoughts, native, out, d
  <2> QED
    BY <1>5, <1>6, <1>9, <1>10, <2>1, Placing DEF out, d
<1>12. Heard(R \o thoughts, W \o think.text, d.withheld, all)
  <2>1. R \o native \in Text
    BY <1>10 DEF Placed
  <2>2. \A i, kinds :
          /\ Holds(R \o thoughts, i, kinds)
               <=> Holds(R \o native, i, kinds) \/ Holds(think.reasoning, i, kinds)
          /\ Holds(W \o think.text, i, kinds)
               <=> Holds(W, i, kinds) \/ Holds(think.text, i, kinds)
    BY <1>7, <1>9, <2>1, HoldsConcat
  <2>3. \A i : ~Holds(think.reasoning, i, {"native"})
    <3>1. \A a \in DOMAIN out : out[a].kind \in Content
      BY <1>5 DEF Placed, Within
    <3>2. \A a \in DOMAIN think.reasoning : \E b \in DOMAIN out : think.reasoning[a] = out[b]
      BY <1>5, <1>6, PieceOf DEF Parted
    <3>3. "native" \notin Content
      BY DEF Content
    <3> QED
      BY <3>1, <3>2, <3>3 DEF Holds
  <2>5. \A i : Holds(out, i, Speaking) =>
                 Holds(think.reasoning, i, Speaking) \/ Holds(think.text, i, Speaking)
    BY <1>5, <1>6, PartsHold
  <2>6. \A i : Holds(c.withheld, i, Speaking) \/ (i = n /\ k.content \in Speaking) =>
                 Holds(out, i, Speaking) \/ Holds(d.withheld, i, Speaking)
    BY <1>5
  <2> HIDE DEF out, thoughts, native, think, d
  <2>7. ASSUME NEW i \in DOMAIN all
        PROVE  /\ all[i].content \in Speaking =>
                    \/ Holds(R \o thoughts, i, Speaking) \/ Holds(W \o think.text, i, Speaking)
                    \/ Holds(d.withheld, i, Speaking)
               /\ all[i].reasoning <=> Holds(R \o thoughts, i, {"native"})
    <3>1. CASE i = n
      <4>1. ~Holds(R, n, {"native"})
        <5>1. \A a \in DOMAIN R : R[a].n <= m /\ R[a].n \in Nat
          BY <1>4, <1>7, PieceOf DEF Placed, Within
        <5> QED
          BY <1>1, <5>1 DEF Holds, n
      <4>2. all[i] = k
        BY <1>1, <3>1
      <4> QED
        BY <1>10, <2>2, <2>3, <2>5, <2>6, <3>1, <4>1, <4>2
    <3>2. CASE i # n
      <4>1. i \in DOMAIN chunks /\ all[i] = chunks[i]
        BY <1>1, <3>2
      <4>2. /\ chunks[i].content \in Speaking =>
                 Holds(R, i, Speaking) \/ Holds(W, i, Speaking) \/ Holds(c.withheld, i, Speaking)
            /\ chunks[i].reasoning <=> Holds(R, i, {"native"})
        BY <1>4, <4>1 DEF Heard
      <4> QED
        BY <1>10, <2>2, <2>3, <2>5, <2>6, <3>2, <4>1, <4>2
    <3> QED
      BY <3>1, <3>2
  <2> QED
    BY <2>7 DEF Heard
<1> HIDE DEF thoughts, native, out
<1>13. /\ c1 \in Converter /\ Distinct(c1.slots) /\ c1.said = c.said /\ Itemised(c1)
       /\ c1.withheld = d.withheld /\ c1.calls = c.calls /\ c1.usage = c.usage
  <2>1. think.inside \in BOOLEAN
    BY <1>6 DEF ThinkState
  <2> HIDE DEF d
  <2>2. c1 \in Converter /\ c1.said = d.said /\ c1.slots = d.slots
        /\ c1.withheld = d.withheld /\ c1.calls = d.calls /\ c1.usage = d.usage
    BY <1>5, <2>1 DEF Converter
  <2> HIDE DEF c1
  <2>3. Distinct(c1.slots) /\ Itemised(c1)
    BY <1>4, <1>5, <2>2 DEF Itemised
  <2> QED
    BY <1>5, <2>2, <2>3
<1> HIDE DEF c1
<1>14. "reasoning" \in Kinds /\ "message" \in Kinds \ {"reasoning"}
       /\ "message" \in Kinds /\ "reasoning" \in Kinds \ {"message"}
  BY DEF Kinds
<1>15. /\ c2 \in Converter /\ Distinct(c2.slots) /\ Itemised(c2)
       /\ c2.said["reasoning"] = R \o thoughts /\ c2.said["message"] = W
       /\ c2.withheld = d.withheld /\ c2.calls = c.calls /\ c2.usage = c.usage
  <2>1. /\ c2 \in Converter /\ Distinct(c2.slots)
        /\ c2.said["reasoning"] = c1.said["reasoning"] \o thoughts
        /\ \A other \in Kinds \ {"reasoning"} : c2.said[other] = c1.said[other]
        /\ c2.withheld = c1.withheld /\ c2.calls = c1.calls /\ c2.usage = c1.usage
        /\ Itemised(c1) => Itemised(c2)
    <3> HIDE DEF c2
    <3> QED
      BY <1>9, <1>13, <1>14, SpeakSaid DEF c2
  <2> HIDE DEF c2
  <2> QED
    BY <1>13, <1>14, <2>1 DEF R, W
<1> HIDE DEF c2
<1>16. /\ c3 \in Converter /\ Itemised(c3)
       /\ c3.said["reasoning"] = R \o thoughts /\ c3.said["message"] = W \o think.text
       /\ c3.withheld = d.withheld /\ c3.calls = c.calls /\ c3.usage = c.usage
  <2>1. /\ c3 \in Converter
        /\ c3.said["message"] = c2.said["message"] \o think.text
        /\ \A other \in Kinds \ {"message"} : c3.said[other] = c2.said[other]
        /\ c3.withheld = c2.withheld /\ c3.calls = c2.calls /\ c3.usage = c2.usage
        /\ Itemised(c2) => Itemised(c3)
    <3> DEFINE t == think.text
    <3>1. t \in Text
      BY <1>7
    <3> HIDE DEF t
    <3>2. c3 = Speak(c2, "message", t)
      BY DEF c3, t
    <3> HIDE DEF c3
    <3>3. c2 \in Converter /\ Distinct(c2.slots) /\ "message" \in Kinds
      BY <1>14, <1>15
    <3>4. LET d3 == Speak(c2, "message", t)
          IN  /\ d3 \in Converter
              /\ d3.said["message"] = c2.said["message"] \o t
              /\ \A other \in Kinds \ {"message"} : d3.said[other] = c2.said[other]
              /\ d3.withheld = c2.withheld /\ d3.calls = c2.calls /\ d3.usage = c2.usage
              /\ Itemised(c2) => Itemised(d3)
      BY <3>1, <3>3, SpeakSaid
    <3> QED
      BY <3>2, <3>4 DEF t
  <2> HIDE DEF c3
  <2> QED
    BY <1>14, <1>15, <2>1
<1> HIDE DEF c3, calls, usage
<1>17. /\ e.said = c3.said /\ e.slots = c3.slots /\ e.withheld = d.withheld
       /\ e.calls = calls /\ e.usage = usage
  BY <1>3, <1>16 DEF Converter
<1>18. Itemised(e)
  BY <1>16, <1>17 DEF Itemised
<1>19. /\ calls = IF k.call = NoCall THEN c.calls
                  ELSE AddCall(c.calls, k.call, [n |-> n, kind |-> "args"])
       /\ usage = IF k.usage THEN n ELSE c.usage
  BY <1>16 DEF calls, usage
<1>20. /\ Placed(e.said["reasoning"], e.said["message"], e.withheld, Len(all))
       /\ Heard(e.said["reasoning"], e.said["message"], e.withheld, all)
  BY <1>1, <1>11, <1>12, <1>16, <1>17
<1>21. ~opts.dsml => e.withheld = <<>>
  BY <1>5, <1>17
<1> QED
  BY <1>17, <1>18, <1>19, <1>20, <1>21 DEF e, all, n, m

LEMMA ChunkAccounted ==
    ASSUME NEW c \in Converter, Distinct(c.slots), NEW chunks \in Seq(Chunk),
           NEW k \in Chunk, Len(chunks) + 1 \in 1..MaxChunks, Accounts(c, chunks)
    PROVE  Accounts(OnChunk(c, k, Len(chunks) + 1).conv, Append(chunks, k))
<1> DEFINE d == OnChunk(c, k, Len(chunks) + 1).conv
           all == Append(chunks, k)
<1>1. /\ Placed(d.said["reasoning"], d.said["message"], d.withheld, Len(all))
      /\ Heard(d.said["reasoning"], d.said["message"], d.withheld, all)
      /\ ~opts.dsml => d.withheld = <<>>
      /\ Itemised(d)
      /\ d.calls = IF k.call = NoCall THEN c.calls
                   ELSE AddCall(c.calls, k.call, [n |-> Len(chunks) + 1, kind |-> "args"])
      /\ d.usage = IF k.usage THEN Len(chunks) + 1 ELSE c.usage
  BY ContentAccounted
<1>2. c.calls \in Calls /\ CallsKept(c.calls, chunks) /\ UsageKept(c.usage, chunks)
  BY DEF Converter, Accounts
<1> HIDE DEF d
<1>3. CallsKept(d.calls, all)
  BY <1>1, <1>2, CallsStep
<1>4. UsageKept(d.usage, all)
  BY <1>1, <1>2, UsageStep
<1> QED
  BY <1>1, <1>3, <1>4 DEF Accounts, d

-----------------------------------------------------------------------------
(* The items of the completion *)

LEMMA LiveAre ==
    ASSUME NEW c \in Converter
    PROVE  \A j : (j \in DOMAIN c.calls /\ c.calls[j].named)
                    <=> \E a \in DOMAIN LiveCalls(c) : LiveCalls(c)[a] = j
<1> DEFINE T == DOMAIN c.calls
           named == {i \in DOMAIN c.calls : c.calls[i].named}
           N == Above(c.calls)
           q == [j \in 1..N |-> IF j - 1 \in named THEN <<j - 1>> ELSE <<>>]
<1>1. N \in Nat /\ T \subseteq Nat /\ \A i \in T : i < N
  <2>1. c.calls \in Calls
    BY DEF Converter
  <2> QED
    BY <2>1, AboveType, CallsAre DEF Indices
<1>2. LiveCalls(c) = FlattenSeq(q)
  BY DEF LiveCalls
<1>3. named \subseteq Nat /\ \A i \in named : i < N
  BY <1>1
<1>4. \A j : (j \in DOMAIN c.calls /\ c.calls[j].named) <=> j \in named
  OBVIOUS
<1> HIDE DEF N, T, named
<1>5. q \in Seq(Seq(Nat)) /\ Len(q) = N
  <2> DEFINE U == Seq(Nat)
  <2>1. \A j \in 1..N : q[j] \in U
    BY <1>3
  <2> HIDE DEF U
  <2>2. q = [j \in 1..N |-> q[j]]
    OBVIOUS
  <2> HIDE DEF q
  <2>3. q \in [1..N -> U]
    BY <2>1, <2>2
  <2>4. q \in Seq(U) /\ Len(q) = N
    BY <1>1, <2>3, SeqDef
  <2> QED
    BY <2>4 DEF U
<1>6. \A j \in 1..N : q[j] = IF j - 1 \in named THEN <<j - 1>> ELSE <<>>
  OBVIOUS
<1> HIDE DEF q
<1>7. PICK f : Joins(f, q, Nat)
  BY <1>5, FlattenJoins
<1>8. /\ f \in [0..N -> Seq(Nat)] /\ f[0] = <<>>
      /\ \A i \in 1..N : f[i] = f[i - 1] \o q[i]
      /\ FlattenSeq(q) = f[N]
  BY <1>5, <1>7 DEF Joins
<1> DEFINE Lists(s, m) == \A j : (j \in named /\ j < m) <=> \E a \in DOMAIN s : s[a] = j
           B == {i \in 0..N : ~Lists(f[i], i)}
<1>9. ASSUME B # {} PROVE FALSE
  <2>1. PICK i \in B : \A j \in B : i <= j
    <3>1. B \subseteq Nat
      BY <1>1
    <3> HIDE DEF B
    <3> QED
      BY <1>9, <3>1, LeastNatural
  <2>2. i # 0
    <3>1. Lists(<<>>, 0)
      <4>1. DOMAIN <<>> = {} /\ \A j \in named : j \in Nat /\ ~(j < 0)
        BY <1>3
      <4> QED
        BY <4>1
    <3> HIDE DEF Lists
    <3> QED
      BY <1>8, <2>1, <3>1
  <2>3. i - 1 \in 0..N /\ i \in 1..N /\ ~(i <= i - 1) /\ i - 1 \in Nat
    BY <1>1, <2>1, <2>2
  <2> DEFINE m == i - 1
             s == f[m]
  <2>4. Lists(s, m) /\ ~Lists(f[i], i)
    <3> HIDE DEF Lists
    <3> QED
      BY <2>1, <2>3
  <2>5. s \in Seq(Nat) /\ f[i] = s \o q[i] /\ m \in Nat /\ i = m + 1
    <3>1. f[m] \in Seq(Nat) /\ f[i] = f[m] \o q[i]
      BY <1>8, <2>3
    <3> QED
      BY <2>3, <3>1
  <2>6. \A j \in Nat : j < i <=> j < m \/ j = m
    BY <2>5
  <2> HIDE DEF s
  <2>7. CASE m \in named
    <3> DEFINE t == Append(s, m)
    <3>1. q[i] = <<m>>
      BY <1>6, <2>3, <2>7
    <3>2. f[i] = t
      BY <2>5, <3>1
    <3>3. /\ Len(s) \in Nat /\ DOMAIN s = 1..Len(s) /\ DOMAIN t = 1..(Len(s) + 1)
          /\ \A a \in DOMAIN s : t[a] = s[a]
          /\ t[Len(s) + 1] = m
      BY <2>5, AppendProperties, LenProperties
    <3> HIDE DEF t
    <3>4. /\ \A a \in DOMAIN t : (a \in DOMAIN s /\ t[a] = s[a]) \/ t[a] = m
          /\ \A a \in DOMAIN s : a \in DOMAIN t
          /\ Len(s) + 1 \in DOMAIN t
      BY <3>3
    <3> HIDE DEF m
    <3>5. Lists(t, i)
      BY <1>3, <2>4, <2>6, <2>7, <3>3, <3>4
    <3> QED
      BY <2>4, <3>2, <3>5
  <2>8. CASE m \notin named
    <3>1. q[i] = <<>>
      BY <1>6, <2>3, <2>8
    <3>2. f[i] = s
      BY <2>5, <3>1
    <3> HIDE DEF m
    <3>3. Lists(s, i)
      BY <1>3, <2>4, <2>6, <2>8
    <3> QED
      BY <2>4, <3>2, <3>3
  <2> QED
    BY <2>7, <2>8
<1>10. Lists(f[N], N)
  <2>1. N \in 0..N
    BY <1>1
  <2> HIDE DEF Lists
  <2> QED
    BY <1>9, <2>1
<1> QED
  BY <1>2, <1>3, <1>4, <1>8, <1>10

\* What the completion of a converter contains: what it said, and its named calls.
Composed(out, c) ==
    /\ \A i \in DOMAIN out :
         \/ out[i].kind \in Kinds /\ out[i].data = c.said[out[i].kind]
         \/ /\ out[i].kind = "call"
            /\ \E j \in DOMAIN c.calls : c.calls[j].named /\ out[i].data = c.calls[j].args
    /\ \A kind \in Kinds : kind \in ToSet(c.slots) =>
         \E i \in DOMAIN out : out[i].kind = kind /\ out[i].data = c.said[kind]
    /\ \A j \in DOMAIN c.calls : c.calls[j].named =>
         \E i \in DOMAIN out : out[i].kind = "call" /\ out[i].data = c.calls[j].args

LEMMA OutputComposed ==
    ASSUME NEW c \in Converter
    PROVE  Composed(TextItems(c) \o CallItems(c), c)
<1> DEFINE t == TextItems(c)
           u == CallItems(c)
           out == t \o u
           live == LiveCalls(c)
<1>1. c.slots \in Seq(Kinds) /\ live \in Seq(DOMAIN c.calls)
  BY LiveType DEF Converter
<1>2. /\ DOMAIN t = DOMAIN c.slots
      /\ \A i \in DOMAIN t : t[i].kind = c.slots[i] /\ t[i].data = c.said[c.slots[i]]
                             /\ c.slots[i] \in Kinds
  BY <1>1 DEF TextItems
<1>3. /\ DOMAIN u = DOMAIN live
      /\ \A i \in DOMAIN u : u[i].kind = "call" /\ u[i].data = c.calls[live[i]].args
  BY DEF CallItems
<1>4. \A j : (j \in DOMAIN c.calls /\ c.calls[j].named) <=> \E a \in DOMAIN live : live[a] = j
  BY LiveAre
<1>5. t \in Seq(Item) /\ u \in Seq(Item)
  <2> DEFINE A == [kind : Kinds, data : Text]
             B == [kind : {"call"}, data : Text]
  <2>1. A \subseteq Item /\ B \subseteq Item
    BY DEF Item
  <2>2. t \in Seq(A) /\ u \in Seq(B)
    BY ItemsType
  <2> HIDE DEF A, B, t, u
  <2> QED
    BY <2>1, <2>2, SeqMonotonic
<1> HIDE DEF t, u, live
<1>6. /\ \A a \in DOMAIN out : \/ a \in DOMAIN t /\ out[a] = t[a]
                               \/ a - Len(t) \in DOMAIN u /\ out[a] = u[a - Len(t)]
      /\ \A a \in DOMAIN t : a \in DOMAIN out /\ out[a] = t[a]
      /\ \A b \in DOMAIN u : Len(t) + b \in DOMAIN out /\ out[Len(t) + b] = u[b]
  <2> DEFINE n == Len(t)
  <2>1. /\ n \in Nat /\ Len(u) \in Nat /\ Len(out) = n + Len(u)
        /\ \A i \in 1..(n + Len(u)) : out[i] = IF i <= n THEN t[i] ELSE u[i - n]
        /\ DOMAIN t = 1..n /\ DOMAIN u = 1..Len(u) /\ DOMAIN out = 1..Len(out)
    BY <1>5, ConcatProperties, LenProperties
  <2> HIDE DEF out, n
  <2> QED
    BY <2>1 DEF n
<1> HIDE DEF out
<1>7. ASSUME NEW i \in DOMAIN out
      PROVE  \/ out[i].kind \in Kinds /\ out[i].data = c.said[out[i].kind]
             \/ /\ out[i].kind = "call"
                /\ \E j \in DOMAIN c.calls : c.calls[j].named /\ out[i].data = c.calls[j].args
  BY <1>2, <1>3, <1>4, <1>6
<1>8. ASSUME NEW kind \in Kinds, kind \in ToSet(c.slots)
      PROVE  \E i \in DOMAIN out : out[i].kind = kind /\ out[i].data = c.said[kind]
  BY <1>2, <1>6, <1>8 DEF ToSet
<1>9. ASSUME NEW j \in DOMAIN c.calls, c.calls[j].named
      PROVE  \E i \in DOMAIN out : out[i].kind = "call" /\ out[i].data = c.calls[j].args
  <2>1. PICK a \in DOMAIN live : live[a] = j
    BY <1>4, <1>9
  <2> QED
    BY <1>3, <1>6, <2>1
<1>10. Composed(out, c)
  BY <1>7, <1>8, <1>9 DEF Composed
<1> QED
  BY <1>10 DEF out, t, u

\* A piece of these kinds in an item of this kind.
Tells(out, itemKind, n, kinds) ==
    \E i \in DOMAIN out : out[i].kind = itemKind /\ Holds(out[i].data, n, kinds)

LEMMA ComposedTells ==
    ASSUME NEW c \in Converter, Itemised(c), NEW out, Composed(out, c), NEW n, NEW kinds
    PROVE  /\ \A kind \in Kinds : Tells(out, kind, n, kinds) <=> Holds(c.said[kind], n, kinds)
           /\ Tells(out, "call", n, kinds)
                <=> \E j \in DOMAIN c.calls : c.calls[j].named /\ Holds(c.calls[j].args, n, kinds)
<1>1. "call" \notin Kinds
  BY DEF Kinds
<1>2. ASSUME NEW kind \in Kinds
      PROVE  Tells(out, kind, n, kinds) <=> Holds(c.said[kind], n, kinds)
  <2>1. ASSUME Tells(out, kind, n, kinds) PROVE Holds(c.said[kind], n, kinds)
    BY <1>1, <2>1 DEF Tells, Composed
  <2>2. ASSUME Holds(c.said[kind], n, kinds) PROVE Tells(out, kind, n, kinds)
    <3>1. c.said[kind] # <<>>
      BY <2>2 DEF Holds
    <3> QED
      BY <2>2, <3>1 DEF Itemised, Composed, Tells
  <2> QED
    BY <2>1, <2>2
<1>3. Tells(out, "call", n, kinds)
        <=> \E j \in DOMAIN c.calls : c.calls[j].named /\ Holds(c.calls[j].args, n, kinds)
  BY <1>1 DEF Tells, Composed
<1> QED
  BY <1>2, <1>3

-----------------------------------------------------------------------------
(* The flush *)

\* Converter d is c after its flush: everything withheld is said, or a call.
Flushed(d, c, leaked, chunks) ==
    LET r == d.said["reasoning"]
        w == d.said["message"]
        base == Above(c.calls)
    IN  /\ leaked \in Text /\ Itemised(d) /\ d.usage = c.usage
        /\ Placed(r, w, <<>>, Len(chunks))
        /\ \A n \in DOMAIN chunks :
             /\ chunks[n].content \in Speaking =>
                  Holds(r, n, Speaking) \/ Holds(w, n, Speaking) \/ Holds(leaked, n, Speaking)
             /\ chunks[n].reasoning <=> Holds(r, n, {"native"})
        /\ \A a \in DOMAIN leaked :
             /\ leaked[a].kind \in Content
             /\ ~Holds(r, leaked[a].n, Content) /\ ~Holds(w, leaked[a].n, Content)
        /\ DOMAIN d.calls = DOMAIN c.calls \cup (base..(base + Len(leaked) - 1))
        /\ \A i \in DOMAIN c.calls : d.calls[i] = c.calls[i]
        /\ \A i \in base..(base + Len(leaked) - 1) :
             d.calls[i] = [named |-> TRUE, args |-> <<leaked[i - base + 1]>>]

\* The rest of what was withheld has its place when the leaked calls are out.
LEMMA RestPlaced ==
    ASSUME NEW r, NEW w, NEW h, NEW m \in Nat, Placed(r, w, h, m), NEW leaked, NEW rest,
           Parted(h, Len(h), leaked, rest)
    PROVE  /\ Placed(r, w, rest, m) /\ leaked \in Text
           /\ \A a \in DOMAIN leaked : /\ leaked[a].kind \in Content
                                       /\ ~Holds(r, leaked[a].n, Content)
                                       /\ ~Holds(w, leaked[a].n, Content)
                                       /\ ~Holds(rest, leaked[a].n, Content)
<1>1. /\ r \in Text /\ w \in Text /\ h \in Text /\ leaked \in Text /\ rest \in Text
      /\ DOMAIN h = 1..Len(h)
  BY PieceOf DEF Placed, Parted
<1>2. /\ \A a \in DOMAIN leaked : \E b \in DOMAIN h : leaked[a] = h[b]
      /\ \A a \in DOMAIN rest : \E b \in DOMAIN h : rest[a] = h[b]
      /\ Ascends(rest)
      /\ \A a \in DOMAIN leaked, b \in DOMAIN rest : leaked[a].n # rest[b].n
  BY <1>1 DEF Parted
<1>3. Within(rest, Content, m) /\ Before(r, rest) /\ Before(w, rest)
  BY <1>2 DEF Placed, Within, Before
<1>4. Placed(r, w, rest, m)
  BY <1>1, <1>2, <1>3 DEF Placed
<1>5. /\ \A a \in DOMAIN r : r[a].n \in Nat
      /\ \A a \in DOMAIN w : w[a].n \in Nat
      /\ \A a \in DOMAIN h : h[a].n \in Nat
  BY <1>1, PieceOf
<1>6. ASSUME NEW a \in DOMAIN leaked
      PROVE  /\ leaked[a].kind \in Content
             /\ ~Holds(r, leaked[a].n, Content) /\ ~Holds(w, leaked[a].n, Content)
             /\ ~Holds(rest, leaked[a].n, Content)
  <2>1. PICK b \in DOMAIN h : leaked[a] = h[b]
    BY <1>2
  <2>2. h[b].kind \in Content
    BY DEF Placed, Within
  <2>3. /\ \A x \in DOMAIN r : r[x].kind \in Content => r[x].n < h[b].n
        /\ \A x \in DOMAIN w : w[x].kind \in Content => w[x].n < h[b].n
    BY DEF Placed, Before
  <2>4. ~Holds(r, h[b].n, Content) /\ ~Holds(w, h[b].n, Content)
    BY <1>5, <2>3 DEF Holds
  <2>5. ~Holds(rest, h[b].n, Content)
    BY <1>2, <2>1 DEF Holds
  <2> QED
    BY <2>1, <2>2, <2>4, <2>5
<1> QED
  BY <1>1, <1>4, <1>6

LEMMA FlushAccounted ==
    ASSUME NEW c \in Converter, Distinct(c.slots), NEW chunks \in Seq(Chunk),
           Accounts(c, chunks)
    PROVE  \E leaked : Flushed(FlushHeal(c).conv, c, leaked, chunks)
<1> DEFINE m == Len(chunks)
           h == c.withheld
           markup == IF c.inDsml THEN Leaked(h, TRUE) ELSE <<>>
           rest == IF c.inDsml THEN Leaked(h, FALSE) ELSE h
           think == ThinkPush(c, rest)
           c1 == [c EXCEPT !.withheld = <<>>, !.inDsml = FALSE, !.inThink = think.inside]
           c2 == Speak(c1, "reasoning", think.reasoning)
           c3 == Speak(c2, "message", think.text)
           base == Above(c.calls)
           healed == [i \in base..(base + Len(markup) - 1) |->
                        [named |-> TRUE, args |-> <<markup[i - base + 1]>>]]
           D == DOMAIN c.calls \cup DOMAIN healed
           calls == [i \in D |-> IF i \in DOMAIN c.calls THEN c.calls[i] ELSE healed[i]]
           d == FlushHeal(c).conv
           R == c.said["reasoning"]
           W == c.said["message"]
<1>1. m \in Nat /\ DOMAIN chunks = 1..m
  BY LenProperties
<1>2. Placed(R, W, h, m) /\ Heard(R, W, h, chunks) /\ Itemised(c) /\ h \in Text
  BY DEF Accounts, Converter
<1>3. d = [c3 EXCEPT !.calls = calls]
  BY DEF FlushHeal
<1>4. Parted(h, Len(h), markup, rest)
  <2>1. Ascends(h)
    BY <1>2 DEF Placed
  <2>2. CASE c.inDsml
    BY <1>2, <2>1, <2>2, LeakedParts
  <2>3. CASE ~c.inDsml
    <3>1. markup = <<>> /\ rest = h
      BY <2>3
    <3>2. DOMAIN h = 1..Len(h) /\ <<>> \in Text /\ Ascends(<<>>) /\ DOMAIN <<>> = {}
      BY <1>2, PieceOf DEF Text, Ascends
    <3> HIDE DEF markup, rest, h
    <3> QED
      BY <1>2, <2>1, <3>1, <3>2 DEF Parted
  <2> QED
    BY <2>2, <2>3
<1> HIDE DEF m, markup, rest, d, R, W, h
<1>5. /\ Placed(R, W, rest, m) /\ markup \in Text /\ rest \in Text
      /\ \A a \in DOMAIN markup : /\ markup[a].kind \in Content
                                  /\ ~Holds(R, markup[a].n, Content)
                                  /\ ~Holds(W, markup[a].n, Content)
                                  /\ ~Holds(rest, markup[a].n, Content)
  BY <1>1, <1>2, <1>4, RestPlaced, ZenonT(40) DEF Placed
<1>6. think \in ThinkState /\ Parted(rest, Len(rest), think.reasoning, think.text)
  <2>1. Ascends(rest)
    BY <1>5 DEF Placed
  <2>2. c.inThink \in BOOLEAN
    BY DEF Converter
  <2> QED
    BY <1>5, <2>1, <2>2, ThinkType, ThinkParts
<1> HIDE DEF think
<1> DEFINE rs == think.reasoning
           ts == think.text
           r == R \o rs
           w == W \o ts
<1>7. rs \in Text /\ ts \in Text /\ R \in Text /\ W \in Text
  BY <1>5, <1>6 DEF ThinkState, Placed
<1>8. Parted(rest, Len(rest), rs, ts)
  BY <1>6
<1>9. /\ c1 \in Converter /\ Distinct(c1.slots) /\ c1.said = c.said /\ Itemised(c1)
      /\ c1.calls = c.calls /\ c1.usage = c.usage
  <2>1. think.inside \in BOOLEAN /\ <<>> \in Text
    BY <1>6 DEF ThinkState, Text
  <2>2. /\ c1 \in Converter /\ c1.said = c.said /\ c1.slots = c.slots
        /\ c1.calls = c.calls /\ c1.usage = c.usage
    BY <2>1 DEF Converter
  <2> HIDE DEF c1
  <2> QED
    BY <1>2, <2>2 DEF Itemised
<1>10. c2 = Speak(c1, "reasoning", rs) /\ c3 = Speak(c2, "message", ts)
  OBVIOUS
<1> HIDE DEF c1, c2, c3, rs, ts
<1>11. "reasoning" \in Kinds /\ "message" \in Kinds \ {"reasoning"}
       /\ "message" \in Kinds /\ "reasoning" \in Kinds \ {"message"}
  BY DEF Kinds
<1>12. /\ c2 \in Converter /\ Distinct(c2.slots) /\ Itemised(c2)
       /\ c2.said["reasoning"] = r /\ c2.said["message"] = W
       /\ c2.calls = c.calls /\ c2.usage = c.usage
  <2>1. LET x == Speak(c1, "reasoning", rs)
        IN  /\ x \in Converter /\ Distinct(x.slots)
            /\ x.said["reasoning"] = c1.said["reasoning"] \o rs
            /\ \A other \in Kinds \ {"reasoning"} : x.said[other] = c1.said[other]
            /\ x.calls = c1.calls /\ x.usage = c1.usage
            /\ Itemised(c1) => Itemised(x)
    BY <1>7, <1>9, <1>11, SpeakSaid, ZenonT(40)
  <2> QED
    BY <1>9, <1>10, <1>11, <2>1 DEF R, W
<1>13. /\ c3 \in Converter /\ Itemised(c3)
       /\ c3.said["reasoning"] = r /\ c3.said["message"] = w
       /\ c3.calls = c.calls /\ c3.usage = c.usage
  <2>1. LET x == Speak(c2, "message", ts)
        IN  /\ x \in Converter
            /\ x.said["message"] = c2.said["message"] \o ts
            /\ \A other \in Kinds \ {"message"} : x.said[other] = c2.said[other]
            /\ x.calls = c2.calls /\ x.usage = c2.usage
            /\ Itemised(c2) => Itemised(x)
    <3>1. /\ c2 \in Converter /\ Distinct(c2.slots) /\ "message" \in Kinds /\ ts \in Text
      BY <1>7, <1>11, <1>12
    <3> QED
      BY <3>1, SpeakSaid
  <2> QED
    BY <1>10, <1>11, <1>12, <2>1
<1>14. /\ d.said = c3.said /\ d.slots = c3.slots /\ d.calls = calls /\ d.usage = c.usage
  <2> HIDE DEF calls
  <2> QED
    BY <1>3, <1>13 DEF Converter
<1>15. Itemised(d)
  BY <1>13, <1>14 DEF Itemised
<1>16. Placed(r, w, <<>>, m)
  <2>1. Placed(R, W, <<>>, m)
    BY <1>2 DEF Placed, Text, Within, Ascends, Before
  <2>2. Before(rest, <<>>)
    BY DEF Before
  <2> QED
    BY <1>1, <1>5, <1>8, <2>1, <2>2, Placing
<1>17. /\ \A n, kinds : Holds(r, n, kinds) <=> Holds(R, n, kinds) \/ Holds(rs, n, kinds)
       /\ \A n, kinds : Holds(w, n, kinds) <=> Holds(W, n, kinds) \/ Holds(ts, n, kinds)
  BY <1>7, HoldsConcat
<1>18. /\ \A a \in DOMAIN rs : \E b \in DOMAIN rest : rs[a] = rest[b]
       /\ \A a \in DOMAIN ts : \E b \in DOMAIN rest : ts[a] = rest[b]
       /\ \A b \in DOMAIN rest : rest[b].kind \in Content
  BY <1>5, <1>8, PieceOf, ZenonT(40) DEF Parted, Placed, Within
<1>19. /\ \A n, kinds : Holds(rs, n, kinds) => Holds(rest, n, kinds)
       /\ \A n, kinds : Holds(ts, n, kinds) => Holds(rest, n, kinds)
       /\ \A n : ~Holds(rs, n, {"native"})
  <2>1. "native" \notin Content
    BY DEF Content
  <2> QED
    BY <1>18, <2>1 DEF Holds
<1>20. ASSUME NEW a \in DOMAIN markup
       PROVE  /\ markup[a].kind \in Content
              /\ ~Holds(r, markup[a].n, Content) /\ ~Holds(w, markup[a].n, Content)
  BY <1>5, <1>17, <1>19
<1>21. ASSUME NEW n \in DOMAIN chunks
       PROVE  /\ chunks[n].content \in Speaking =>
                   Holds(r, n, Speaking) \/ Holds(w, n, Speaking) \/ Holds(markup, n, Speaking)
              /\ chunks[n].reasoning <=> Holds(r, n, {"native"})
  <2>1. /\ chunks[n].content \in Speaking =>
             Holds(R, n, Speaking) \/ Holds(W, n, Speaking) \/ Holds(h, n, Speaking)
        /\ chunks[n].reasoning <=> Holds(R, n, {"native"})
    BY <1>2 DEF Heard
  <2>2. Holds(h, n, Speaking) => Holds(markup, n, Speaking) \/ Holds(rest, n, Speaking)
    BY <1>2, <1>4, PartsHold
  <2>3. Holds(rest, n, Speaking) => Holds(rs, n, Speaking) \/ Holds(ts, n, Speaking)
    BY <1>5, <1>8, PartsHold
  <2> HIDE DEF r, w
  <2> QED
    BY <1>17, <1>19, <2>1, <2>2, <2>3
<1>22. base \in Nat /\ \A i \in DOMAIN c.calls : i < base
  <2>1. c.calls \in Calls
    BY DEF Converter
  <2> QED
    BY <2>1, AboveType
<1> DEFINE last == base + Len(markup) - 1
<1>23. /\ DOMAIN calls = DOMAIN c.calls \cup (base..last)
       /\ \A i \in DOMAIN c.calls : calls[i] = c.calls[i]
       /\ \A i \in base..last : calls[i] = [named |-> TRUE, args |-> <<markup[i - base + 1]>>]
  <2> HIDE DEF base
  <2>1. \A i \in base..last : i \notin DOMAIN c.calls
    BY <1>22
  <2> QED
    BY <2>1
<1> HIDE DEF calls, r, w
<1>24. Flushed(d, c, markup, chunks)
  BY <1>5, <1>13, <1>14, <1>15, <1>16, <1>20, <1>21, <1>23 DEF Flushed, m
<1> QED
  BY <1>24 DEF d

-----------------------------------------------------------------------------
(* Nothing is lost *)

\* The completion e tells all of the chunks.
Complete(e, chunks) ==
    /\ \A n \in DOMAIN chunks : chunks[n].content \in Speaking =>
         \/ Tells(e.output, "message", n, Content) \/ Tells(e.output, "reasoning", n, Content)
         \/ Tells(e.output, "call", n, Content)
    /\ \A n : /\ ~(Tells(e.output, "message", n, Content) /\ Tells(e.output, "reasoning", n, Content))
              /\ ~(Tells(e.output, "call", n, Content) /\ Tells(e.output, "message", n, Content))
              /\ ~(Tells(e.output, "call", n, Content) /\ Tells(e.output, "reasoning", n, Content))
    /\ \A n : Tells(e.output, "reasoning", n, {"native"})
                <=> n \in DOMAIN chunks /\ chunks[n].reasoning
    /\ \A n : Tells(e.output, "call", n, {"args"})
                <=> /\ n \in DOMAIN chunks /\ chunks[n].call # NoCall
                    /\ \E m \in DOMAIN chunks : /\ PartOf(chunks[m], chunks[n].call.index)
                                                /\ chunks[m].call.named
    /\ \A i \in DOMAIN e.output : /\ InOrder(e.output[i].data, Content)
                                  /\ InOrder(e.output[i].data, {"native", "args"})
    /\ UsageKept(e.usage, chunks)

\* The calls at the end: those of the upstream, and behind them the leaked ones.
LEMMA CallsTell ==
    ASSUME NEW d \in Converter, NEW c \in Converter, NEW leaked, NEW chunks \in Seq(Chunk),
           Flushed(d, c, leaked, chunks), CallsKept(c.calls, chunks)
    PROVE  /\ \A n : (\E j \in DOMAIN d.calls : d.calls[j].named /\ Holds(d.calls[j].args, n, {"args"}))
                       <=> /\ n \in DOMAIN chunks /\ chunks[n].call # NoCall
                           /\ \E m \in DOMAIN chunks : /\ PartOf(chunks[m], chunks[n].call.index)
                                                       /\ chunks[m].call.named
           /\ \A n : (\E j \in DOMAIN d.calls : d.calls[j].named /\ Holds(d.calls[j].args, n, Content))
                       <=> Holds(leaked, n, Content)
           /\ \A j \in DOMAIN d.calls : /\ InOrder(d.calls[j].args, Content)
                                        /\ InOrder(d.calls[j].args, {"native", "args"})
<1> DEFINE base == Above(c.calls)
           last == base + Len(leaked) - 1
<1>0. "args" \notin Content
  BY DEF Content
<1>1. leaked \in Text /\ Len(leaked) \in Nat /\ DOMAIN leaked = 1..Len(leaked) /\ base \in Nat
  <2>1. c.calls \in Calls
    BY DEF Converter
  <2>2. leaked \in Text
    BY DEF Flushed
  <2> QED
    BY <2>1, <2>2, AboveType, PieceOf
<1>2. /\ DOMAIN d.calls = DOMAIN c.calls \cup (base..last)
      /\ \A i \in DOMAIN c.calls : d.calls[i] = c.calls[i]
      /\ \A i \in base..last : d.calls[i] = [named |-> TRUE, args |-> <<leaked[i - base + 1]>>]
      /\ \A a \in DOMAIN leaked : leaked[a].kind \in Content
  BY DEF Flushed
<1> HIDE DEF base
<1>3. /\ \A i \in base..last : i - base + 1 \in DOMAIN leaked
      /\ \A a \in DOMAIN leaked : base + a - 1 \in base..last /\ (base + a - 1) - base + 1 = a
  BY <1>1
<1> HIDE DEF last
<1>4. ASSUME NEW i \in base..last
      PROVE  /\ i \in DOMAIN d.calls /\ d.calls[i].named
             /\ DOMAIN d.calls[i].args = {1} /\ d.calls[i].args[1] = leaked[i - base + 1]
  <2> DEFINE p == leaked[i - base + 1]
             x == d.calls[i]
  <2>1. i \in DOMAIN d.calls /\ x = [named |-> TRUE, args |-> <<p>>]
    BY <1>2
  <2> HIDE DEF p, x
  <2>2. x.named /\ x.args = <<p>>
    BY <2>1
  <2>3. DOMAIN <<p>> = {1} /\ <<p>>[1] = p
    OBVIOUS
  <2> QED
    BY <2>1, <2>2, <2>3 DEF p, x
<1>5. ASSUME NEW i \in base..last, NEW n, NEW kinds
      PROVE  Holds(d.calls[i].args, n, kinds)
               <=> leaked[i - base + 1].kind \in kinds /\ leaked[i - base + 1].n = n
  BY <1>4 DEF Holds
<1>6. ASSUME NEW i \in DOMAIN c.calls
      PROVE  /\ i \in DOMAIN d.calls /\ d.calls[i] = c.calls[i] /\ CallKept(c.calls[i], i, chunks)
             /\ \A n : ~Holds(c.calls[i].args, n, Content)
             /\ InOrder(c.calls[i].args, Content) /\ InOrder(c.calls[i].args, {"native", "args"})
  <2>1. CallKept(c.calls[i], i, chunks) /\ i \in DOMAIN d.calls /\ d.calls[i] = c.calls[i]
    BY <1>2 DEF CallsKept
  <2>2. \A a \in DOMAIN c.calls[i].args : c.calls[i].args[a].kind = "args"
    BY <2>1 DEF CallKept
  <2>3. Ascends(c.calls[i].args)
    BY <2>1 DEF CallKept
  <2> QED
    BY <1>0, <2>1, <2>2, <2>3 DEF Holds, InOrder, Ascends
<1>7. \A j \in DOMAIN d.calls : j \in DOMAIN c.calls \/ j \in base..last
  BY <1>2
<1>8. ASSUME NEW n
      PROVE  (\E j \in DOMAIN d.calls : d.calls[j].named /\ Holds(d.calls[j].args, n, {"args"}))
               <=> /\ n \in DOMAIN chunks /\ chunks[n].call # NoCall
                   /\ \E m \in DOMAIN chunks : /\ PartOf(chunks[m], chunks[n].call.index)
                                               /\ chunks[m].call.named
  <2>1. ASSUME NEW j \in DOMAIN d.calls, d.calls[j].named, Holds(d.calls[j].args, n, {"args"})
        PROVE  /\ n \in DOMAIN chunks /\ chunks[n].call # NoCall
               /\ \E m \in DOMAIN chunks : /\ PartOf(chunks[m], chunks[n].call.index)
                                           /\ chunks[m].call.named
    <3>1. j \in DOMAIN c.calls
      <4> SUFFICES ASSUME j \in base..last PROVE FALSE
        BY <1>7
      <4>1. leaked[j - base + 1].kind \in {"args"}
        BY <1>5, <2>1
      <4>2. leaked[j - base + 1].kind \in Content
        BY <1>2, <1>3
      <4> QED
        BY <1>0, <4>1, <4>2
    <3>2. CallKept(c.calls[j], j, chunks) /\ c.calls[j].named /\ Holds(c.calls[j].args, n, {"args"})
      BY <1>6, <2>1, <3>1
    <3>3. n \in DOMAIN chunks /\ PartOf(chunks[n], j)
      BY <3>2 DEF CallKept, Holds
    <3>4. chunks[n].call # NoCall /\ chunks[n].call.index = j
      BY <3>3 DEF PartOf
    <3> QED
      BY <3>2, <3>3, <3>4 DEF CallKept
  <2>2. ASSUME n \in DOMAIN chunks, chunks[n].call # NoCall,
               NEW m \in DOMAIN chunks, PartOf(chunks[m], chunks[n].call.index),
               chunks[m].call.named
        PROVE  \E j \in DOMAIN d.calls : d.calls[j].named /\ Holds(d.calls[j].args, n, {"args"})
    <3> DEFINE j == chunks[n].call.index
    <3>1. j \in DOMAIN c.calls /\ PartOf(chunks[n], j)
      BY <2>2 DEF CallsKept, PartOf
    <3> HIDE DEF j
    <3>2. CallKept(c.calls[j], j, chunks) /\ j \in DOMAIN d.calls /\ d.calls[j] = c.calls[j]
      BY <1>6, <3>1, Zenon
    <3>3. c.calls[j].named /\ Holds(c.calls[j].args, n, {"args"})
      BY <2>2, <3>1, <3>2, Zenon DEF CallKept, j
    <3> QED
      BY <3>2, <3>3
  <2> QED
    BY <2>1, <2>2
<1>9. ASSUME NEW n
      PROVE  (\E j \in DOMAIN d.calls : d.calls[j].named /\ Holds(d.calls[j].args, n, Content))
               <=> Holds(leaked, n, Content)
  <2>1. ASSUME NEW j \in DOMAIN d.calls, Holds(d.calls[j].args, n, Content)
        PROVE  Holds(leaked, n, Content)
    <3>1. j \in base..last
      BY <1>6, <1>7, <2>1
    <3> DEFINE a == j - base + 1
    <3>2. a \in DOMAIN leaked
      BY <1>3, <3>1
    <3>3. leaked[a].kind \in Content /\ leaked[a].n = n
      BY <1>5, <2>1, <3>1
    <3> HIDE DEF a
    <3> QED
      BY <3>2, <3>3 DEF Holds
  <2>2. ASSUME Holds(leaked, n, Content)
        PROVE  \E j \in DOMAIN d.calls : d.calls[j].named /\ Holds(d.calls[j].args, n, Content)
    <3>1. PICK a \in DOMAIN leaked : leaked[a].kind \in Content /\ leaked[a].n = n
      BY <2>2 DEF Holds
    <3> DEFINE j == base + a - 1
    <3>2. j \in base..last /\ j - base + 1 = a
      BY <1>3
    <3> HIDE DEF j
    <3>3. j \in DOMAIN d.calls /\ d.calls[j].named /\ Holds(d.calls[j].args, n, Content)
      BY <1>4, <1>5, <3>1, <3>2, ZenonT(40)
    <3> QED
      BY <3>3
  <2> QED
    BY <2>1, <2>2
<1>10. ASSUME NEW j \in DOMAIN d.calls
       PROVE  InOrder(d.calls[j].args, Content) /\ InOrder(d.calls[j].args, {"native", "args"})
  <2>1. CASE j \in DOMAIN c.calls
    BY <1>6, <2>1
  <2>2. CASE j \in base..last
    <3>1. \A a, b \in DOMAIN d.calls[j].args : ~(a < b)
      BY <1>4, <2>2
    <3> QED
      BY <3>1 DEF InOrder
  <2> QED
    BY <1>7, <2>1, <2>2
<1> QED
  BY <1>8, <1>9, <1>10

\* After the flush, the completion tells all of the chunks.
LEMMA FinalComplete ==
    ASSUME NEW c \in Converter, Distinct(c.slots), NEW chunks \in Seq(Chunk),
           Accounts(c, chunks)
    PROVE  Complete(Final(FlushHeal(c).conv), chunks)
<1> DEFINE d == FlushHeal(c).conv
           e == Final(d)
           out == e.output
           r == d.said["reasoning"]
           w == d.said["message"]
<1>1. d \in Converter
  BY FlushHealType
<1>2. PICK leaked : Flushed(d, c, leaked, chunks)
  BY FlushAccounted
<1> HIDE DEF d
<1>3. Composed(out, d)
  BY <1>1, FinalIs, OutputComposed
<1>4. e.usage = c.usage
  <2>1. DOMAIN Event("completed") = {"type", "idx", "kind", "data", "output", "usage"}
    BY DEF Event
  <2>2. e.usage = d.usage
    BY <2>1 DEF Final
  <2> QED
    BY <1>2, <2>2 DEF Flushed
<1> HIDE DEF e
<1>5. CallsKept(c.calls, chunks) /\ UsageKept(c.usage, chunks)
  BY DEF Accounts
<1>6. /\ Itemised(d) /\ Placed(r, w, <<>>, Len(chunks))
      /\ \A n \in DOMAIN chunks :
           /\ chunks[n].content \in Speaking =>
                Holds(r, n, Speaking) \/ Holds(w, n, Speaking) \/ Holds(leaked, n, Speaking)
           /\ chunks[n].reasoning <=> Holds(r, n, {"native"})
      /\ \A a \in DOMAIN leaked :
             /\ leaked[a].kind \in Content
             /\ ~Holds(r, leaked[a].n, Content) /\ ~Holds(w, leaked[a].n, Content)
  BY <1>2 DEF Flushed
<1>7. "reasoning" \in Kinds /\ "message" \in Kinds /\ "call" \notin Kinds
      /\ \A kind \in Kinds : kind = "reasoning" \/ kind = "message"
  BY DEF Kinds
<1>8. /\ \A n, kinds : Tells(out, "reasoning", n, kinds) <=> Holds(r, n, kinds)
      /\ \A n, kinds : Tells(out, "message", n, kinds) <=> Holds(w, n, kinds)
      /\ \A n, kinds : Tells(out, "call", n, kinds)
           <=> \E j \in DOMAIN d.calls : d.calls[j].named /\ Holds(d.calls[j].args, n, kinds)
  BY <1>1, <1>3, <1>6, <1>7, ComposedTells
<1>9. /\ \A n : (\E j \in DOMAIN d.calls : d.calls[j].named /\ Holds(d.calls[j].args, n, {"args"}))
                       <=> /\ n \in DOMAIN chunks /\ chunks[n].call # NoCall
                           /\ \E m \in DOMAIN chunks : /\ PartOf(chunks[m], chunks[n].call.index)
                                                       /\ chunks[m].call.named
      /\ \A n : (\E j \in DOMAIN d.calls : d.calls[j].named /\ Holds(d.calls[j].args, n, Content))
                       <=> Holds(leaked, n, Content)
      /\ \A j \in DOMAIN d.calls : /\ InOrder(d.calls[j].args, Content)
                                   /\ InOrder(d.calls[j].args, {"native", "args"})
  BY <1>1, <1>2, <1>5, CallsTell
<1>10. /\ Speaking \subseteq Content /\ "native" \notin Content /\ "args" \notin Content
  BY DEF Speaking, Content
<1>11. \A text, n : Holds(text, n, Speaking) => Holds(text, n, Content)
  BY <1>10 DEF Holds
<1> HIDE DEF out, r, w
<1>12. ASSUME NEW n \in DOMAIN chunks, chunks[n].content \in Speaking
       PROVE  \/ Tells(out, "message", n, Content) \/ Tells(out, "reasoning", n, Content)
              \/ Tells(out, "call", n, Content)
  BY <1>6, <1>8, <1>9, <1>11, <1>12
<1>13. ASSUME NEW n
       PROVE  /\ ~(Tells(out, "message", n, Content) /\ Tells(out, "reasoning", n, Content))
              /\ ~(Tells(out, "call", n, Content) /\ Tells(out, "message", n, Content))
              /\ ~(Tells(out, "call", n, Content) /\ Tells(out, "reasoning", n, Content))
  <2>1. ~(Holds(w, n, Content) /\ Holds(r, n, Content))
    BY <1>6 DEF Placed, Apart, Holds
  <2>2. Holds(leaked, n, Content) => ~Holds(w, n, Content) /\ ~Holds(r, n, Content)
    <3>1. ASSUME NEW a \in DOMAIN leaked, leaked[a].n = n
          PROVE  ~Holds(w, n, Content) /\ ~Holds(r, n, Content)
      BY <1>6, <3>1
    <3> QED
      BY <3>1 DEF Holds
  <2> QED
    BY <1>8, <1>9, <2>1, <2>2
<1>14. ASSUME NEW n
       PROVE  Tells(out, "reasoning", n, {"native"}) <=> n \in DOMAIN chunks /\ chunks[n].reasoning
  <2>1. Holds(r, n, {"native"}) => n \in DOMAIN chunks
    <3>1. Len(chunks) \in Nat /\ DOMAIN chunks = 1..Len(chunks)
      BY LenProperties
    <3>2. \A a \in DOMAIN r : r[a].n <= Len(chunks) /\ r[a].n \in Nat \ {0}
      <4>1. r \in Text /\ \A a \in DOMAIN r : r[a].n <= Len(chunks)
        BY <1>6 DEF Placed, Within
      <4>2. \A p \in Piece : p.n \in Nat \ {0}
        BY DEF Piece
      <4> QED
        BY <4>1, <4>2, PieceOf
    <3> QED
      BY <3>1, <3>2 DEF Holds
  <2> QED
    BY <1>6, <1>8, <2>1
<1>15. ASSUME NEW n
       PROVE  Tells(out, "call", n, {"args"})
                <=> /\ n \in DOMAIN chunks /\ chunks[n].call # NoCall
                    /\ \E m \in DOMAIN chunks : /\ PartOf(chunks[m], chunks[n].call.index)
                                                /\ chunks[m].call.named
  BY <1>8, <1>9
<1>16. ASSUME NEW i \in DOMAIN out
       PROVE  InOrder(out[i].data, Content) /\ InOrder(out[i].data, {"native", "args"})
  <2>1. CASE out[i].kind = "call"
    BY <1>3, <1>7, <1>9, <2>1 DEF Composed
  <2>2. CASE out[i].kind # "call"
    <3>1. out[i].data = r \/ out[i].data = w
      BY <1>3, <1>7, <2>2 DEF Composed, r, w
    <3>2. InOrder(r, Content) /\ InOrder(w, Content) /\ InOrder(r, {"native"})
      BY <1>6 DEF Placed
    <3>3. /\ \A a \in DOMAIN r : r[a].kind # "args"
          /\ \A a \in DOMAIN w : w[a].kind \notin {"native", "args"}
      BY <1>6, <1>10 DEF Placed, Within
    <3>4. InOrder(r, {"native", "args"}) /\ InOrder(w, {"native", "args"})
      BY <3>2, <3>3 DEF InOrder
    <3> QED
      BY <3>1, <3>2, <3>4
  <2> QED
    BY <2>1, <2>2
<1>17. Complete(e, chunks)
  BY <1>4, <1>5, <1>12, <1>13, <1>14, <1>15, <1>16 DEF Complete, out
<1> QED
  BY <1>17 DEF e, d

\* While chunks may still come, the converter accounts for all of them; and
\* every completion tells all of them.
AccountInv == pc \in {"opening", "relaying", "reading", "ended"} => Accounts(conv, fed)

WholeInv ==
    /\ \A i \in 1..Len(todo) : todo[i].type = "completed" => Complete(todo[i], fed)
    /\ \A i \in 1..Len(sent) : sent[i].type = "completed" => Complete(sent[i], fed)

LEMMA AccountInit == Init => AccountInv /\ WholeInv
<1> SUFFICES ASSUME Init PROVE AccountInv /\ WholeInv
  OBVIOUS
<1>1. /\ fed = <<>> /\ conv.said["reasoning"] = <<>> /\ conv.said["message"] = <<>>
      /\ conv.withheld = <<>> /\ conv.calls = <<>> /\ conv.usage = 0
      /\ \A kind \in Kinds : conv.said[kind] = <<>>
  BY DEF Init, NewConverter, Kinds
<1>2. Len(<<>>) = 0 /\ DOMAIN <<>> = {}
  OBVIOUS
<1>3. Placed(<<>>, <<>>, <<>>, 0)
  BY DEF Placed, Text, Within, InOrder, Ascends, Before, Apart
<1>4. Heard(<<>>, <<>>, <<>>, <<>>) /\ CallsKept(<<>>, <<>>)
  BY <1>2 DEF Heard, CallsKept
<1>5. UsageKept(0, <<>>)
  BY <1>2 DEF UsageKept
<1>6. Itemised(conv)
  BY <1>1 DEF Itemised
<1>7. Accounts(conv, fed)
  BY <1>1, <1>2, <1>3, <1>4, <1>5, <1>6 DEF Accounts
<1>8. todo = <<Created>> /\ sent = <<>>
  BY DEF Init
<1>9. \A i \in 1..Len(<<Created>>) : <<Created>>[i].type # "completed"
  <2>1. Created.type = "created"
    BY FixedEvents
  <2> QED
    BY <2>1
<1>10. WholeInv
  BY <1>2, <1>8, <1>9 DEF WholeInv
<1> QED
  BY <1>7, <1>10 DEF AccountInv

LEMMA AccountStep == TypeInv /\ AccountInv /\ [Next]_vars => AccountInv'
<1> SUFFICES ASSUME TypeInv, AccountInv, [Next]_vars PROVE AccountInv'
  OBVIOUS
<1>1. Rest /\ conv \in Converter /\ Distinct(conv.slots)
  BY TypesAre
<1> DEFINE S == {"opening", "relaying", "reading", "ended"}
<1>2. ASSUME conv' = conv, fed' = fed, opts' = opts, pc' \in S => pc \in S
      PROVE  AccountInv'
  BY <1>2 DEF AccountInv, Accounts
<1>3. CASE SendEvent \/ SendFails
  <2>1. /\ conv' = conv /\ fed' = fed /\ opts' = opts /\ Sending
        /\ pc' \in {pc, AfterBatch(pc), AfterLoss(pc)}
    BY <1>3 DEF SendEvent, SendFails
  <2>2. pc' \in S => pc \in S
    BY <2>1 DEF Sending, AfterBatch, AfterLoss
  <2> QED
    BY <1>2, <2>1, <2>2
<1>4. CASE \E k \in Chunks : ReadChunk(k)
  <2>1. PICK k \in Chunks : ReadChunk(k)
    BY <1>4
  <2> DEFINE d == OnChunk(conv, k, Len(fed) + 1).conv
             all == Append(fed, k)
  <2>2. pc = "reading" /\ Len(fed) < MaxChunks /\ fed' = all /\ conv' = d /\ opts' = opts
    BY <2>1 DEF ReadChunk
  <2>3. fed \in Seq(Chunk) /\ k \in Chunk /\ Len(fed) + 1 \in 1..MaxChunks
    <3>1. Chunks \subseteq Chunk /\ MaxChunks \in Nat
      BY StreamAssumption
    <3>2. fed \in Seq(Chunks) /\ fed \in Seq(Chunk) /\ Len(fed) \in Nat
      BY <1>1, <3>1, SeqMonotonic, LenProperties DEF Rest
    <3> QED
      BY <2>2, <3>1, <3>2
  <2>4. Accounts(conv, fed)
    BY <2>2 DEF AccountInv
  <2>5. Accounts(d, all)
    BY <1>1, <2>3, <2>4, ChunkAccounted
  <2> HIDE DEF d, all
  <2>6. Accounts(conv, fed)'
    BY <2>2, <2>5 DEF Accounts
  <2> QED
    BY <2>6 DEF AccountInv
<1>5. CASE ReadDone \/ ReadEnd \/ IdleTimeout
  <2>1. conv' = conv /\ fed' = fed /\ opts' = opts /\ pc = "reading"
    BY <1>5 DEF ReadDone, ReadEnd, IdleTimeout
  <2> QED
    BY <1>2, <2>1
<1>6. CASE Finish \/ Record \/ SaveSession
  <2>1. pc' \notin S
    BY <1>6 DEF Finish, Record, SaveSession
  <2> QED
    BY <2>1 DEF AccountInv
<1>7. CASE Stall \/ Tick \/ Receive \/ Disconnect \/ UNCHANGED vars
  <2>1. conv' = conv /\ fed' = fed /\ opts' = opts /\ pc' = pc
    BY <1>7 DEF Stall, Tick, Receive, Disconnect, vars
  <2> QED
    BY <1>2, <2>1
<1> QED
  BY <1>3, <1>4, <1>5, <1>6, <1>7 DEF Next, Task, Upstream

LEMMA WholeStep == TypeInv /\ VerdictInv /\ AccountInv /\ WholeInv /\ [Next]_vars => WholeInv'
<1> SUFFICES ASSUME TypeInv, VerdictInv, AccountInv, WholeInv, [Next]_vars PROVE WholeInv'
  OBVIOUS
<1>1. /\ Rest /\ conv \in Converter /\ Distinct(conv.slots)
      /\ todo \in Seq(Ev) /\ sent \in Seq(Ev) /\ FlagInv
  BY TypesAre DEF VerdictInv
<1>2. CASE SendEvent
  <2> DEFINE e == Head(todo)
             t == Tail(todo)
             s == Append(sent, e)
  <2>1. sent' = s /\ todo' = t /\ fed' = fed /\ todo # <<>>
    BY <1>1, <1>2 DEF SendEvent, Rest
  <2>2. /\ Len(todo) \in Nat \ {0} /\ e = todo[1]
        /\ \A i \in 1..Len(t) : i + 1 \in 1..Len(todo) /\ t[i] = todo[i + 1]
    BY <1>1, <2>1, TailFacts
  <2>3. e \in Ev
    BY <1>1, <2>2, ElementOfSeq
  <2> HIDE DEF e, t
  <2>4. /\ Len(sent) \in Nat /\ Len(s) = Len(sent) + 1
        /\ \A i \in 1..Len(sent) : s[i] = sent[i]
        /\ s[Len(sent) + 1] = e
    BY <1>1, <2>3, AppendProperties, LenProperties
  <2> HIDE DEF s
  <2>5. \A i \in 1..Len(s) : s[i].type = "completed" => Complete(s[i], fed)
    <3>1. 1 \in 1..Len(todo)
      BY <2>2
    <3>2. e.type = "completed" => Complete(e, fed)
      BY <2>2, <3>1 DEF WholeInv
    <3>3. \A i \in 1..Len(s) : i \in 1..Len(sent) \/ i = Len(sent) + 1
      BY <2>4
    <3> QED
      BY <2>4, <3>2, <3>3 DEF WholeInv
  <2>6. \A i \in 1..Len(t) : t[i].type = "completed" => Complete(t[i], fed)
    BY <2>2 DEF WholeInv
  <2> QED
    BY <2>1, <2>5, <2>6 DEF WholeInv
<1>3. CASE \E k \in Chunks : ReadChunk(k)
  <2>1. PICK k \in Chunks : ReadChunk(k)
    BY <1>3
  <2> DEFINE r == OnChunk(conv, k, Len(fed) + 1)
  <2>2. pc = "reading" /\ Len(fed) < MaxChunks /\ todo' = r.events /\ sent' = sent
    BY <2>1 DEF ReadChunk
  <2>3. k \in Chunk /\ Len(fed) + 1 \in 1..MaxChunks
    <3>1. Chunks \subseteq Chunk /\ MaxChunks \in Nat
      BY StreamAssumption
    <3>2. Len(fed) \in Nat
      BY <1>1, LenProperties DEF Rest
    <3> QED
      BY <2>2, <3>1, <3>2
  <2>4. Uttered(conv, r)
    BY <1>1, <2>3, OnChunkType
  <2> HIDE DEF r
  <2>5. r.events \in Seq(EventOf(Deltas))
    BY <1>1, <2>4, UtteredEvents
  <2>6. \A i \in 1..Len(r.events) : r.events[i].type # "completed"
    <3>1. \A i \in 1..Len(r.events) : r.events[i] \in EventOf(Deltas)
      BY <2>5, ElementOfSeq
    <3> QED
      BY <3>1 DEF EventOf, Deltas
  <2>7. \A i \in 1..Len(sent) : sent[i].type # "completed"
    BY <1>1, <2>2 DEF FlagInv, Early, Has
  <2> QED
    BY <2>2, <2>6, <2>7 DEF WholeInv
<1>4. CASE Finish
  <2>1. pc = "ended" /\ sent' = sent /\ fed' = fed
    BY <1>4 DEF Finish
  <2>2. CASE FinishAllowed /\ conv.finish
    <3> DEFINE flushed == FlushHeal(conv)
               q == flushed.events \o EmitFinish(flushed.conv).events
               e == Final(flushed.conv)
    <3>1. todo' = q
      BY <1>4, <2>2 DEF Finish
    <3>2. Closing(q) /\ q[Len(q)] = e
      BY <1>1, ClosingBatch
    <3>3. Complete(e, fed)
      <4>1. Accounts(conv, fed)
        BY <2>1 DEF AccountInv
      <4>2. fed \in Seq(Chunk)
        BY <1>1, StreamAssumption, SeqMonotonic DEF Rest
      <4> QED
        BY <1>1, <4>1, <4>2, FinalComplete
    <3> HIDE DEF q, e
    <3>4. \A i \in 1..Len(q) : q[i].type = "completed" => Complete(q[i], fed)
      BY <3>2, <3>3 DEF Closing
    <3> QED
      BY <2>1, <3>1, <3>4 DEF WholeInv
  <2>3. CASE ~(FinishAllowed /\ conv.finish)
    <3>1. todo' = todo
      BY <1>4, <2>3 DEF Finish
    <3> QED
      BY <2>1, <3>1 DEF WholeInv
  <2> QED
    BY <2>2, <2>3
<1>5. CASE Record \/ SendFails
  <2>1. sent' = sent /\ fed' = fed /\ (todo' = todo \/ todo' = ErrorEvents \/ todo' = <<>>)
    BY <1>5 DEF Record, SendFails
  <2>2. \A i \in 1..Len(ErrorEvents) : ErrorEvents[i].type # "completed"
    <3> DEFINE a == Event("error")
               b == Event("failed")
    <3>1. a.type = "error" /\ b.type = "failed" /\ ErrorEvents = <<a, b>>
      BY FixedEvents
    <3> HIDE DEF a, b
    <3>2. \A i \in 1..Len(<<a, b>>) : <<a, b>>[i] = a \/ <<a, b>>[i] = b
      OBVIOUS
    <3> QED
      BY <3>1, <3>2
  <2>3. 1..Len(<<>>) = {}
    OBVIOUS
  <2> HIDE DEF ErrorEvents
  <2> QED
    BY <2>1, <2>2, <2>3 DEF WholeInv
<1>6. CASE SaveSession \/ ReadDone \/ ReadEnd \/ IdleTimeout \/ Stall \/ Tick \/ Receive
             \/ Disconnect \/ UNCHANGED vars
  <2>1. sent' = sent /\ fed' = fed /\ todo' = todo
    BY <1>6 DEF SaveSession, ReadDone, ReadEnd, IdleTimeout, Stall, Tick, Receive, Disconnect,
                vars
  <2> QED
    BY <2>1 DEF WholeInv
<1> QED
  BY <1>2, <1>3, <1>4, <1>5, <1>6 DEF Next, Task, Upstream

\* The numbers of NothingLost, in the terms of Complete.
LEMMA NumbersTold ==
    ASSUME NEW e, NEW itemKind, NEW kinds
    PROVE  \A n : n \in Numbers(e, itemKind, kinds) <=> Tells(e.output, itemKind, n, kinds)
<1> DEFINE items == {x \in ToSet(e.output) : x.kind = itemKind}
           pieces(x) == {p.n : p \in {q \in ToSet(x.data) : q.kind \in kinds}}
<1>1. ASSUME NEW x, NEW n PROVE n \in pieces(x) <=> Holds(x.data, n, kinds)
  BY DEF ToSet, Holds
<1>2. \A x : x \in items <=> x.kind = itemKind /\ \E i \in DOMAIN e.output : e.output[i] = x
  BY DEF ToSet
<1>3. Numbers(e, itemKind, kinds) = UNION {pieces(x) : x \in items}
  BY DEF Numbers
<1> HIDE DEF items, pieces
<1> QED
  BY <1>1, <1>2, <1>3 DEF Tells

\* A completed answer holds every piece of text, reasoning and call that the
\* upstream sent, once and in order, whatever the filters withheld on the way,
\* no fragment of a call that never got a name, and the last usage sent.
THEOREM NothingLostHolds == Spec => []NothingLost
<1>1. Init => TypeInv /\ VerdictInv /\ AccountInv /\ WholeInv
  BY TypeInit, VerdictInit, AccountInit
<1>2. TypeInv /\ VerdictInv /\ AccountInv /\ WholeInv /\ [Next]_vars
        => (TypeInv /\ VerdictInv /\ AccountInv /\ WholeInv)'
  BY TypeStep, BatchStep, FlagStep, SourceStep, AccountStep, WholeStep DEF VerdictInv
<1>3. TypeInv /\ WholeInv => NothingLost
  <2> SUFFICES ASSUME TypeInv, WholeInv, NEW e \in Emitted("completed")
      PROVE  LET words == Numbers(e, "message", Content)
                 thoughts == Numbers(e, "reasoning", Content)
                 healed == Numbers(e, "call", Content)
             IN  /\ Spoken({"words", "half", "markup"}) \subseteq words \cup thoughts \cup healed
                 /\ words \cap thoughts = {} /\ healed \cap (words \cup thoughts) = {}
                 /\ Numbers(e, "reasoning", {"native"}) = {n \in DOMAIN fed : fed[n].reasoning}
                 /\ Numbers(e, "call", {"args"}) = NamedCalls
                 /\ \A item \in ToSet(e.output) :
                      InOrder(item.data, Content) /\ InOrder(item.data, {"native", "args"})
                 /\ {n \in DOMAIN fed : fed[n].usage} \subseteq 0..e.usage
                 /\ e.usage > 0 => fed[e.usage].usage
    BY DEF NothingLost
  <2>1. Complete(e, fed)
    <3>1. DOMAIN sent = 1..Len(sent)
      BY LenProperties DEF TypeInv
    <3>2. PICK i \in DOMAIN sent : sent[i] = e
      BY DEF Emitted, ToSet
    <3>3. e.type = "completed"
      BY DEF Emitted
    <3> QED
      BY <3>1, <3>2, <3>3 DEF WholeInv
  <2>2. /\ \A n : n \in Numbers(e, "message", Content) <=> Tells(e.output, "message", n, Content)
        /\ \A n : n \in Numbers(e, "reasoning", Content) <=> Tells(e.output, "reasoning", n, Content)
        /\ \A n : n \in Numbers(e, "call", Content) <=> Tells(e.output, "call", n, Content)
        /\ \A n : n \in Numbers(e, "reasoning", {"native"})
                    <=> Tells(e.output, "reasoning", n, {"native"})
        /\ \A n : n \in Numbers(e, "call", {"args"}) <=> Tells(e.output, "call", n, {"args"})
    BY NumbersTold
  <2>3. Spoken({"words", "half", "markup"}) \subseteq
          Numbers(e, "message", Content) \cup Numbers(e, "reasoning", Content)
            \cup Numbers(e, "call", Content)
    BY <2>1, <2>2 DEF Complete, Spoken, Speaking
  <2>4. /\ Numbers(e, "message", Content) \cap Numbers(e, "reasoning", Content) = {}
        /\ Numbers(e, "call", Content)
             \cap (Numbers(e, "message", Content) \cup Numbers(e, "reasoning", Content)) = {}
    BY <2>1, <2>2 DEF Complete
  <2>5. Numbers(e, "reasoning", {"native"}) = {n \in DOMAIN fed : fed[n].reasoning}
    BY <2>1, <2>2 DEF Complete
  <2>6. Numbers(e, "call", {"args"}) = NamedCalls
    <3>1. \A n : n \in NamedCalls
                   <=> /\ n \in DOMAIN fed /\ fed[n].call # NoCall
                       /\ \E m \in DOMAIN fed : /\ PartOf(fed[m], fed[n].call.index)
                                                /\ fed[m].call.named
      BY DEF NamedCalls, NamedIndex, PartOf
    <3>2. \A n : Tells(e.output, "call", n, {"args"})
                   <=> /\ n \in DOMAIN fed /\ fed[n].call # NoCall
                       /\ \E m \in DOMAIN fed : /\ PartOf(fed[m], fed[n].call.index)
                                                /\ fed[m].call.named
      BY <2>1 DEF Complete
    <3>3. \A n : n \in Numbers(e, "call", {"args"}) <=> n \in NamedCalls
      BY <2>2, <3>1, <3>2
    <3> QED
      BY <3>3
  <2>7. \A item \in ToSet(e.output) :
          InOrder(item.data, Content) /\ InOrder(item.data, {"native", "args"})
    BY <2>1 DEF Complete, ToSet
  <2>8. /\ {n \in DOMAIN fed : fed[n].usage} \subseteq 0..e.usage
        /\ e.usage > 0 => fed[e.usage].usage
    <3>1. fed \in Seq(Chunks)
      BY DEF TypeInv, TypeOK
    <3>2. Len(fed) \in Nat /\ DOMAIN fed = 1..Len(fed)
      BY <3>1, LenProperties
    <3> QED
      BY <2>1, <3>2 DEF Complete, UsageKept
  <2> QED
    BY <2>3, <2>4, <2>5, <2>6, <2>7, <2>8
<1> QED
  BY <1>1, <1>2, <1>3, PTL DEF Spec
=============================================================================
