------------------------- MODULE PassthroughProofs -------------------------
(***************************************************************************)
(* Proofs about Passthrough, for any number of chunks, any capacity of the *)
(* channel and any patience.                                               *)
(***************************************************************************)
EXTENDS Passthrough, SequenceTheorems, WellFoundedInduction, TLAPS

-----------------------------------------------------------------------------
(* Sequences joined end to end *)

LEMMA LeastNatural ==
    ASSUME NEW T, T \subseteq Nat, T # {}
    PROVE  \E x \in T : \A y \in T : x <= y
<1>1. PICK x \in T : \A y \in T : ~(<<y, x>> \in OpToRel(<, Nat))
  BY NatLessThanWellFounded, WFMin
<1>2. ASSUME NEW y \in T PROVE x <= y
  <2>1. ~(y < x)
    BY <1>1 DEF OpToRel
  <2> QED
    BY <2>1
<1> QED
  BY <1>2

\* `f` joins the parts of q up to n, the way FlattenSeq does.
Joins(f, q, n) == f = [i \in 1..n |-> IF i = 1 THEN q[i] ELSE f[i - 1] \o q[i]]

LEMMA JoinExists ==
    ASSUME NEW q, NEW N \in Nat
    PROVE  \A n \in 1..N : \E f : Joins(f, q, n)
<1> DEFINE C == {n \in 1..N : ~\E f : Joins(f, q, n)}
<1>1. ASSUME C # {} PROVE FALSE
  <2>1. PICK n \in C : \A m \in C : n <= m
    <3>1. C \subseteq Nat
      OBVIOUS
    <3> HIDE DEF C
    <3> QED
      BY <1>1, <3>1, LeastNatural
  <2>2. CASE n = 1
    <3> DEFINE f == [i \in 1..1 |-> q[i]]
    <3>1. Joins(f, q, 1)
      BY DEF Joins
    <3> QED
      BY <2>2, <3>1
  <2>3. CASE n # 1
    <3>1. n - 1 \in 1..N /\ n - 1 \notin C /\ n \in Nat
      BY <2>1, <2>3
    <3>2. PICK f : Joins(f, q, n - 1)
      BY <3>1
    <3> DEFINE g == [i \in 1..n |-> IF i = n THEN f[n - 1] \o q[n] ELSE f[i]]
    <3>3. ASSUME NEW i \in 1..n PROVE g[i] = IF i = 1 THEN q[i] ELSE g[i - 1] \o q[i]
      <4>1. CASE i = n
        <5>1. n - 1 \in 1..n /\ n - 1 # n
          BY <3>1
        <5> QED
          BY <2>3, <4>1, <5>1
      <4>2. CASE i # n
        <5>1. i \in 1..(n - 1) /\ (i # 1 => i - 1 \in 1..n /\ i - 1 # n)
          BY <3>1, <4>2
        <5>2. f[i] = IF i = 1 THEN q[i] ELSE f[i - 1] \o q[i]
          BY <3>2, <5>1 DEF Joins
        <5> QED
          BY <4>2, <5>1, <5>2
      <4> QED
        BY <4>1, <4>2
    <3>4. g = [i \in 1..n |-> g[i]]
      OBVIOUS
    <3> HIDE DEF g
    <3>5. Joins(g, q, n)
      BY <3>3, <3>4 DEF Joins
    <3> QED
      BY <2>1, <3>5
  <2> QED
    BY <2>2, <2>3
<1> QED
  BY <1>1

LEMMA JoinType ==
    ASSUME NEW S, NEW n \in Nat, NEW q, \A i \in 1..n : q[i] \in Seq(S), NEW f, Joins(f, q, n)
    PROVE  \A i \in 1..n : f[i] \in Seq(S)
<1> DEFINE C == {i \in 1..n : f[i] \notin Seq(S)}
<1>1. ASSUME C # {} PROVE FALSE
  <2>1. PICK i \in C : \A j \in C : i <= j
    <3>1. C \subseteq Nat
      OBVIOUS
    <3> HIDE DEF C
    <3> QED
      BY <1>1, <3>1, LeastNatural
  <2>2. f[i] = IF i = 1 THEN q[i] ELSE f[i - 1] \o q[i]
    BY DEF Joins
  <2>3. CASE i = 1
    BY <2>2, <2>3
  <2>4. CASE i # 1
    <3>1. i - 1 \in 1..n /\ i - 1 \notin C
      BY <2>1, <2>4
    <3>2. f[i - 1] \in Seq(S) /\ q[i] \in Seq(S)
      BY <3>1
    <3>3. f[i - 1] \o q[i] \in Seq(S)
      BY <3>2, ConcatProperties
    <3> QED
      BY <2>1, <2>2, <2>4, <3>3
  <2> QED
    BY <2>3, <2>4
<1> QED
  BY <1>1

AgreeTo(p, q, n) == \A i \in 1..n : p[i] = q[i]

LEMMA JoinsAgree ==
    ASSUME NEW m \in Nat, NEW n \in Nat, m <= n, NEW p, NEW q, AgreeTo(p, q, m),
           NEW f, Joins(f, p, m), NEW g, Joins(g, q, n)
    PROVE  AgreeTo(f, g, m)
<1> USE DEF AgreeTo
<1> DEFINE C == {i \in 1..m : f[i] # g[i]}
<1>1. ASSUME C # {} PROVE FALSE
  <2>1. PICK i \in C : \A j \in C : i <= j
    <3>1. C \subseteq Nat
      OBVIOUS
    <3> HIDE DEF C
    <3> QED
      BY <1>1, <3>1, LeastNatural
  <2>2. i \in 1..n
    OBVIOUS
  <2>3. f[i] = IF i = 1 THEN p[i] ELSE f[i - 1] \o p[i]
    BY DEF Joins
  <2>4. g[i] = IF i = 1 THEN q[i] ELSE g[i - 1] \o q[i]
    BY <2>2 DEF Joins
  <2>5. CASE i # 1
    <3>1. i - 1 \in 1..m /\ i - 1 \notin C
      BY <2>1, <2>5
    <3> QED
      BY <2>3, <2>4, <3>1
  <2> QED
    BY <2>3, <2>4, <2>5
<1> QED
  BY <1>1

LEMMA FlattenJoins ==
    ASSUME NEW T, NEW q \in Seq(T), q # <<>>
    PROVE  \E f : Joins(f, q, Len(q)) /\ FlattenSeq(q) = f[Len(q)]
<1> DEFINE f == CHOOSE f : Joins(f, q, Len(q))
<1>1. Len(q) \in Nat /\ Len(q) # 0
  OBVIOUS
<1>2. Joins(f, q, Len(q))
  <2>1. Len(q) \in 1..Len(q)
    BY <1>1
  <2> QED
    BY <1>1, <2>1, JoinExists
<1>3. FlattenSeq(q) = f[Len(q)]
  BY <1>1 DEF FlattenSeq, Joins
<1> QED
  BY <1>2, <1>3

\* Joining one part more.
LEMMA FlattenAppend ==
    ASSUME NEW S, NEW q \in Seq(Seq(S)), NEW x \in Seq(S)
    PROVE  /\ FlattenSeq(q) \in Seq(S)
           /\ FlattenSeq(Append(q, x)) = FlattenSeq(q) \o x
<1> DEFINE r == Append(q, x)
           n == Len(q)
<1>1. /\ n \in Nat /\ r \in Seq(Seq(S)) /\ r # <<>> /\ Len(r) = n + 1 /\ r[n + 1] = x
      /\ \A i \in 1..n : q[i] = r[i] /\ q[i] \in Seq(S)
  <2> DEFINE T == Seq(S)
  <2>1. q \in Seq(T) /\ x \in T
    OBVIOUS
  <2> HIDE DEF T
  <2>2. n \in Nat /\ r \in Seq(T) /\ r # <<>> /\ Len(r) = n + 1 /\ r[n + 1] = x
    BY <2>1
  <2>3. \A i \in 1..n : q[i] = r[i] /\ q[i] \in T
    BY <2>1
  <2> QED
    BY <2>2, <2>3 DEF T
<1>2. PICK g : Joins(g, r, n + 1) /\ FlattenSeq(r) = g[n + 1]
  <2> HIDE DEF r
  <2> QED
    BY <1>1, FlattenJoins
<1>3. g[n + 1] = IF n + 1 = 1 THEN x ELSE g[n] \o x
  <2>1. n + 1 \in 1..(n + 1) /\ (n + 1) - 1 = n
    BY <1>1
  <2> QED
    BY <1>1, <1>2, <2>1 DEF Joins
<1>4. CASE q = <<>>
  <2>1. FlattenSeq(q) = <<>>
    BY <1>4 DEF FlattenSeq
  <2>2. FlattenSeq(r) = x
    BY <1>2, <1>3, <1>4
  <2> QED
    BY <2>1, <2>2
<1>5. CASE q # <<>>
  <2>1. n # 0 /\ n + 1 # 1 /\ n \in 1..n
    BY <1>1, <1>5
  <2>2. PICK f : Joins(f, q, n) /\ FlattenSeq(q) = f[n]
    BY <1>5, FlattenJoins
  <2> HIDE DEF r, n
  <2>3. \A i \in 1..n : f[i] = g[i]
    <3> DEFINE k == n + 1
    <3>1. k \in Nat /\ n <= k /\ Joins(g, r, k)
      BY <1>1, <1>2
    <3> HIDE DEF k
    <3>2. n \in Nat /\ Joins(f, q, n) /\ AgreeTo(q, r, n)
      BY <1>1, <2>2 DEF AgreeTo
    <3>3. AgreeTo(f, g, n)
      BY <3>1, <3>2, JoinsAgree
    <3> QED
      BY <3>3 DEF AgreeTo
  <2>4. f[n] \in Seq(S)
    BY <1>1, <2>1, <2>2, JoinType
  <2> QED
    BY <1>2, <1>3, <2>1, <2>2, <2>3, <2>4 DEF r, n
<1> QED
  BY <1>4, <1>5

-----------------------------------------------------------------------------
(* What capture reads back *)

LEMMA SubSeqAppend ==
    ASSUME NEW T, NEW s \in Seq(T), NEW e \in T, NEW m \in 1..(Len(s) + 1)
    PROVE  SubSeq(Append(s, e), m, Len(s) + 1) = Append(SubSeq(s, m, Len(s)), e)
<1> DEFINE n == Len(s)
           r == Append(s, e)
           a == SubSeq(r, m, n + 1)
           b == SubSeq(s, m, n)
           c == Append(b, e)
<1>1. n \in Nat /\ r \in Seq(T) /\ Len(r) = n + 1 /\ r[n + 1] = e /\ \A i \in 1..n : r[i] = s[i]
  OBVIOUS
<1>2. a \in Seq(T) /\ Len(a) = n + 1 - m + 1 /\ \A i \in 1..(n + 1 - m + 1) : a[i] = r[m + i - 1]
  <2> HIDE DEF r
  <2>1. m \in 1..(Len(r) + 1) /\ n + 1 \in (m - 1)..Len(r) /\ m <= n + 1
    BY <1>1
  <2> QED
    BY <1>1, <2>1, SubSeqProperties
<1>3. b \in Seq(T) /\ Len(b) = n - m + 1 /\ \A i \in 1..(n - m + 1) : b[i] = s[m + i - 1]
  <2>1. m \in 1..(Len(s) + 1) /\ n \in (m - 1)..Len(s)
    BY <1>1
  <2>2. b \in Seq(T) /\ Len(b) = (IF m <= n THEN n - m + 1 ELSE 0)
        /\ \A i \in 1..(n - m + 1) : b[i] = s[m + i - 1]
    BY <2>1, SubSeqProperties
  <2>3. ~(m <= n) => n - m + 1 = 0
    BY <1>1
  <2> QED
    BY <2>2, <2>3
<1> HIDE DEF a, b, r
<1> DEFINE k == n - m + 1
<1>4. k \in Nat /\ Len(a) = k + 1 /\ m + (k + 1) - 1 = n + 1 /\ n + 1 \in 1..(n + 1)
  BY <1>1, <1>2
<1>5. \A i \in 1..k : i \in 1..(k + 1) /\ m + i - 1 \in 1..n
  BY <1>1
<1>8. b \in Seq(T) /\ Len(b) = k /\ \A i \in 1..k : b[i] = s[m + i - 1]
  BY <1>3
<1>9. a \in Seq(T) /\ \A i \in 1..(k + 1) : a[i] = r[m + i - 1]
  <2>1. n + 1 - m + 1 = k + 1
    BY <1>1
  <2> QED
    BY <1>2, <2>1
<1> HIDE DEF k
<1>10. c \in Seq(T) /\ Len(c) = k + 1 /\ c[k + 1] = e /\ \A i \in 1..k : c[i] = b[i]
  BY <1>4, <1>8
<1> HIDE DEF c
<1>6. ASSUME NEW i \in 1..(k + 1) PROVE a[i] = c[i]
  <2>1. CASE i = k + 1
    BY <1>1, <1>4, <1>9, <1>10, <2>1
  <2>2. CASE i # k + 1
    <3>1. i \in 1..k
      BY <1>4, <2>2
    <3> QED
      BY <1>1, <1>5, <1>8, <1>9, <1>10, <3>1, ZenonT(40)
  <2> QED
    BY <2>1, <2>2
<1>7. a = c
  BY <1>4, <1>6, <1>9, <1>10
<1> QED
  BY <1>7 DEF a, b, c, r, n

\* The marked positions of a sequence, when there are any.
LEMMA FirstMarked ==
    ASSUME NEW T, NEW s \in Seq(T), \E n \in DOMAIN s : Marked(s[n])
    PROVE  \E m \in 1..Len(s) :
             /\ Marked(s[m]) /\ \A i \in 1..(m - 1) : ~Marked(s[i])
             /\ Trim(s) = SubSeq(s, m, Len(s))
<1> DEFINE at == {n \in DOMAIN s : Marked(s[n])}
           m == CHOOSE n \in at : \A j \in at : n <= j
<1>1. at \subseteq Nat /\ at # {} /\ at \subseteq 1..Len(s)
  OBVIOUS
<1>2. Trim(s) = SubSeq(s, m, Len(s))
  BY <1>1 DEF Trim
<1>3. m \in at /\ \A j \in at : m <= j
  <2> HIDE DEF at
  <2> QED
    BY <1>1, LeastNatural
<1>4. \A i \in 1..(m - 1) : i \in 1..Len(s) /\ ~(m <= i)
  BY <1>1, <1>3
<1>5. \A i \in 1..(m - 1) : ~Marked(s[i])
  BY <1>3, <1>4
<1> QED
  BY <1>1, <1>2, <1>3, <1>5

LEMMA TrimUnmarked ==
    ASSUME NEW s, ~\E n \in DOMAIN s : Marked(s[n])
    PROVE  Trim(s) = s
BY DEF Trim

\* Where the first mark is decides.
LEMMA TrimAtFirst ==
    ASSUME NEW T, NEW s \in Seq(T), NEW m \in 1..Len(s), Marked(s[m]),
           \A i \in 1..(m - 1) : ~Marked(s[i])
    PROVE  Trim(s) = SubSeq(s, m, Len(s))
<1>1. PICK n \in 1..Len(s) : /\ Marked(s[n]) /\ \A i \in 1..(n - 1) : ~Marked(s[i])
                             /\ Trim(s) = SubSeq(s, n, Len(s))
  BY FirstMarked
<1>2. n = m
  <2>1. ~(n < m) /\ ~(m < n)
    <3>1. n < m => n \in 1..(m - 1)
      OBVIOUS
    <3>2. m < n => m \in 1..(n - 1)
      OBVIOUS
    <3> QED
      BY <1>1, <3>1, <3>2
  <2> QED
    BY <2>1
<1> QED
  BY <1>1, <1>2

\* Trimming as one goes is trimming at the end.
LEMMA TrimAppend ==
    ASSUME NEW T, NEW s \in Seq(T), NEW e \in T
    PROVE  /\ Trim(s) \in Seq(T)
           /\ Trim(Append(Trim(s), e)) = Trim(Append(s, e))
<1>1. CASE ~\E n \in DOMAIN s : Marked(s[n])
  BY <1>1, TrimUnmarked
<1>2. CASE \E n \in DOMAIN s : Marked(s[n])
  <2>1. PICK m \in 1..Len(s) : /\ Marked(s[m]) /\ \A i \in 1..(m - 1) : ~Marked(s[i])
                               /\ Trim(s) = SubSeq(s, m, Len(s))
    BY <1>2, FirstMarked
  <2> DEFINE t == SubSeq(s, m, Len(s))
             r == Append(s, e)
             q == Append(t, e)
  <2>2. t \in Seq(T) /\ Len(t) = Len(s) - m + 1 /\ t[1] = s[m]
    <3>1. Len(s) \in (m - 1)..Len(s) /\ m \in 1..(Len(s) + 1) /\ m <= Len(s) /\ 1 \in 1..(Len(s) - m + 1)
      OBVIOUS
    <3>2. t \in Seq(T) /\ Len(t) = Len(s) - m + 1 /\ t[1] = s[m + 1 - 1]
      BY <3>1, SubSeqProperties
    <3> QED
      BY <3>2
  <2>3. /\ r \in Seq(T) /\ Len(r) = Len(s) + 1 /\ m \in 1..Len(r) /\ Marked(r[m])
        /\ \A i \in 1..(m - 1) : ~Marked(r[i])
    <3>1. \A i \in 1..Len(s) : r[i] = s[i]
      OBVIOUS
    <3>2. \A i \in 1..(m - 1) : i \in 1..Len(s)
      OBVIOUS
    <3>3. r \in Seq(T) /\ Len(r) = Len(s) + 1 /\ m \in 1..Len(r)
      OBVIOUS
    <3> HIDE DEF r
    <3> QED
      BY <2>1, <3>1, <3>2, <3>3
  <2>4. Trim(r) = SubSeq(r, m, Len(s) + 1)
    <3> HIDE DEF r
    <3> QED
      BY <2>3, TrimAtFirst
  <2>5. Trim(r) = q
    <3>1. m \in 1..(Len(s) + 1)
      OBVIOUS
    <3> QED
      BY <2>4, <3>1, SubSeqAppend
  <2> HIDE DEF t
  <2>6. q \in Seq(T) /\ 1 \in 1..Len(q) /\ q[1] = t[1] /\ Len(q) \in Nat
    BY <2>2
  <2>7. Trim(q) = q
    <3> HIDE DEF q
    <3>1. \A i \in 1..(1 - 1) : ~Marked(q[i])
      OBVIOUS
    <3>2. Trim(q) = SubSeq(q, 1, Len(q))
      BY <2>1, <2>2, <2>6, <3>1, TrimAtFirst
    <3> QED
      BY <2>6, <3>2, SubSeqFull
  <2> QED
    BY <2>1, <2>2, <2>5, <2>7 DEF t
<1> QED
  BY <1>1, <1>2

-----------------------------------------------------------------------------
(* The last mark *)

LEMMA LastMarked ==
    ASSUME NEW T, NEW s \in Seq(T), \E n \in DOMAIN s : Marked(s[n])
    PROVE  \E m \in 1..Len(s) : Marked(s[m]) /\ \A i \in 1..Len(s) : m < i => ~Marked(s[i])
<1> DEFINE C == {Len(s) - n : n \in {k \in 1..Len(s) : Marked(s[k])}}
<1>1. C \subseteq Nat /\ C # {}
  OBVIOUS
<1>2. PICK c \in C : \A d \in C : c <= d
  <2> HIDE DEF C
  <2> QED
    BY <1>1, LeastNatural
<1>3. PICK m \in 1..Len(s) : Marked(s[m]) /\ c = Len(s) - m
  BY <1>2
<1>4. ASSUME NEW i \in 1..Len(s), m < i, Marked(s[i]) PROVE FALSE
  <2>1. Len(s) - i \in C
    BY <1>4
  <2>2. c <= Len(s) - i
    BY <1>2, <2>1
  <2> QED
    BY <1>3, <1>4, <2>2
<1> QED
  BY <1>3, <1>4

\* Whether the response.completed at position m of s is whole, and has an id.
Whole(s, m) ==
    \/ s[m].type = "completed"
    \/ s[m].type = "first" /\ m < Len(s) /\ s[m + 1].type = "rest"

LEMMA CapturedAtLast ==
    ASSUME NEW T, NEW s \in Seq(T), NEW m \in 1..Len(s), Marked(s[m]),
           \A i \in 1..Len(s) : m < i => ~Marked(s[i])
    PROVE  Captured(s) = IF Whole(s, m) THEN s[m].data ELSE NoTurn
<1> DEFINE at == {n \in DOMAIN s : Marked(s[n])}
           last == CHOOSE n \in at : \A j \in at : j <= n
<1>1. m \in at /\ \A j \in at : j <= m
  OBVIOUS
<1>2. \A n \in at : (\A j \in at : j <= n) => n = m
  <2>1. at \subseteq Int
    OBVIOUS
  <2> QED
    BY <1>1, <2>1
<1>3. last = m
  BY <1>1, <1>2
<1>4. at # {}
  BY <1>1
<1> HIDE DEF last
<1> QED
  BY <1>3, <1>4, SMTT(30) DEF Captured, Whole, last

\* What a sequence captured it keeps, whatever follows that is neither a mark
\* nor the second half of an event.
LEMMA CapturedAppend ==
    ASSUME NEW T, NEW s \in Seq(T), NEW e \in T, ~Marked(e), e.type # "rest"
    PROVE  Captured(Append(s, e)) = Captured(s)
<1> DEFINE r == Append(s, e)
<1>1. /\ r \in Seq(T) /\ Len(r) = Len(s) + 1 /\ r[Len(s) + 1] = e /\ Len(s) \in Nat
      /\ \A i \in 1..Len(s) : r[i] = s[i]
  OBVIOUS
<1> HIDE DEF r
<1>2. CASE ~\E n \in DOMAIN s : Marked(s[n])
  <2>1. ~\E n \in DOMAIN r : Marked(r[n])
    <3>1. \A n \in DOMAIN r : n \in DOMAIN s \/ n = Len(s) + 1
      BY <1>1
    <3> QED
      BY <1>1, <1>2, <3>1
  <2> QED
    BY <1>2, <2>1 DEF Captured, r
<1>3. CASE \E n \in DOMAIN s : Marked(s[n])
  <2>1. PICK m \in 1..Len(s) : Marked(s[m]) /\ \A i \in 1..Len(s) : m < i => ~Marked(s[i])
    BY <1>3, LastMarked
  <2>2. m \in 1..Len(r) /\ Marked(r[m]) /\ \A i \in 1..Len(r) : m < i => ~Marked(r[i])
    <3>1. \A i \in 1..Len(r) : i \in 1..Len(s) \/ i = Len(s) + 1
      BY <1>1
    <3> QED
      BY <1>1, <2>1, <3>1
  <2>3. Captured(s) = IF Whole(s, m) THEN s[m].data ELSE NoTurn
    BY <2>1, CapturedAtLast
  <2>4. Captured(r) = IF Whole(r, m) THEN r[m].data ELSE NoTurn
    BY <1>1, <2>2, CapturedAtLast
  <2>5. Whole(r, m) <=> Whole(s, m)
    <3>1. CASE m = Len(s)
      BY <1>1, <2>1, <3>1 DEF Whole
    <3>2. CASE m # Len(s)
      <4>1. m < Len(s) /\ m < Len(r) /\ m + 1 \in 1..Len(s)
        BY <1>1, <3>2
      <4> QED
        BY <1>1, <2>1, <4>1 DEF Whole
    <3> QED
      BY <3>1, <3>2
  <2> QED
    BY <1>1, <2>1, <2>3, <2>4, <2>5 DEF r
<1> QED
  BY <1>2, <1>3

\* Trimming loses nothing that capture reads.
LEMMA CapturedTrim ==
    ASSUME NEW T, NEW s \in Seq(T)
    PROVE  Captured(Trim(s)) = Captured(s)
<1>1. CASE ~\E n \in DOMAIN s : Marked(s[n])
  BY <1>1, TrimUnmarked
<1>2. CASE \E n \in DOMAIN s : Marked(s[n])
  <2>1. PICK m \in 1..Len(s) : Marked(s[m]) /\ Trim(s) = SubSeq(s, m, Len(s))
                               /\ \A i \in 1..(m - 1) : ~Marked(s[i])
    BY <1>2, FirstMarked
  <2>2. PICK l \in 1..Len(s) : Marked(s[l]) /\ \A i \in 1..Len(s) : l < i => ~Marked(s[i])
    BY <1>2, LastMarked
  <2>3. m <= l
    BY <2>1, <2>2
  <2> DEFINE t == Trim(s)
             k == l - m + 1
  <2>4. t \in Seq(T) /\ Len(t) = Len(s) - m + 1 /\ \A i \in 1..(Len(s) - m + 1) : t[i] = s[m + i - 1]
    <3>1. Len(s) \in (m - 1)..Len(s) /\ m \in 1..(Len(s) + 1) /\ m <= Len(s)
      OBVIOUS
    <3> QED
      BY <2>1, <3>1, SubSeqProperties
  <2> HIDE DEF t
  <2>5. k \in 1..Len(t) /\ t[k] = s[l] /\ (k < Len(t) <=> l < Len(s))
        /\ (k < Len(t) => t[k + 1] = s[l + 1])
    <3>1. k \in 1..Len(t) /\ m + k - 1 = l /\ (k < Len(t) <=> l < Len(s))
      BY <2>3, <2>4
    <3>2. k < Len(t) => k + 1 \in 1..Len(t) /\ m + (k + 1) - 1 = l + 1
      BY <2>3, <2>4
    <3> QED
      BY <2>4, <3>1, <3>2
  <2>6. ASSUME NEW i \in 1..Len(t), k < i PROVE ~Marked(t[i])
    <3>1. m + i - 1 \in 1..Len(s) /\ l < m + i - 1
      BY <2>3, <2>4, <2>6
    <3> QED
      BY <2>2, <2>4, <3>1
  <2>7. Captured(s) = IF Whole(s, l) THEN s[l].data ELSE NoTurn
    BY <2>2, CapturedAtLast
  <2> HIDE DEF k
  <2>8. Captured(t) = IF Whole(t, k) THEN t[k].data ELSE NoTurn
    BY <2>2, <2>4, <2>5, <2>6, CapturedAtLast
  <2>9. Whole(t, k) <=> Whole(s, l)
    BY <2>5 DEF Whole
  <2> QED
    BY <2>5, <2>7, <2>8, <2>9 DEF t
<1> QED
  BY <1>1, <1>2

-----------------------------------------------------------------------------
(* The invariant behind OneVerdict.  The class recorded, the failure the    *)
(* task may send and the turn it saves are all read off `raw`, at different *)
(* moments, while the client sees `sent`: so `raw` is what capture would    *)
(* make of all that was relayed, and no longer changes once the turn is     *)
(* recorded.                                                                *)

\* What is relayed, by number of chunks; and the batches of one event.
Relayable(N) == [type : Kinds \cup {"delta"}, data : Seq(1..N)]
Batch(s, N) ==
    \/ s = <<>>
    \/ \E b \in Relayable(N) : s = <<b>>
    \/ \E d, b \in Relayable(N) : s = <<d, b>> /\ d.type = "delta" /\ b.type # "delta"

Well ==
    /\ TypeOK
    /\ partial \in BOOLEAN /\ (partial => fed # <<>>)
    /\ pc = "failing" => todo = <<Failed>>
    /\ pc \in {"relaying", "flushing"} => Batch(todo, MaxChunks)

\* q is what was relayed.
Relayed(q) ==
    /\ raw = Trim(q)
    /\ \/ sent = q
       \/ sent = Append(q, Failed) /\ pc \in {"saving", "over"} /\ GivenUp
    /\ pc \in {"saving", "over"} /\ client = "reading" /\ GivenUp => sent = Append(q, Failed)

Judged ==
    /\ "disconnected" \in flags => client = "gone"
    /\ pc \in {"failing", "saving", "over"} => outcome = ErrorClass
    /\ pc \notin {"failing", "saving", "over"} => outcome = "none"
    /\ pc = "failing" => GivenUp
    /\ stored = IF pc = "over" /\ opts.store THEN Captured(raw) ELSE NoTurn

VerdictInv ==
    /\ Well
    /\ \E q \in Seq(Relayable(MaxChunks)) : Relayed(q)
    /\ Judged

LEMMA VerdictInit == Init => VerdictInv
<1> SUFFICES ASSUME Init PROVE VerdictInv
  OBVIOUS
<1> USE DEF Init
<1>1. Well
  <2>1. partial = FALSE /\ partial \in BOOLEAN
    OBVIOUS
  <2>2. TypeOK
    BY PassthroughAssumption, <2>1 DEF TypeOK, Sending
  <2> QED
    BY <2>1, <2>2 DEF Well
<1>2. Relayed(<<>>)
  BY TrimUnmarked DEF Relayed
<1>3. Judged
  BY DEF Judged
<1>4. <<>> \in Seq(Relayable(MaxChunks))
  OBVIOUS
<1> QED
  BY <1>1, <1>2, <1>3, <1>4 DEF VerdictInv

LEMMA SeqWidens ==
    ASSUME NEW m \in Nat, NEW n \in Nat, m <= n, NEW s \in Seq(1..m)
    PROVE  s \in Seq(1..n)
<1>1. \A i \in 1..Len(s) : s[i] \in 1..n
  OBVIOUS
<1>2. s = [i \in 1..Len(s) |-> s[i]] /\ Len(s) \in Nat
  OBVIOUS
<1> HIDE DEF Seq
<1> QED
  BY <1>1, <1>2

LEMMA VerbatimIs ==
    ASSUME NEW kind \in Kinds, NEW N \in Nat, NEW n \in 1..N
    PROVE  /\ Verbatim(kind, n) \in Relayable(N)
           /\ Verbatim(kind, n).data = <<n>>
           /\ Verbatim(kind, n).type = IF kind \in {"text", "half"} THEN "delta" ELSE kind
BY DEF Verbatim, Block, Relayable

LEMMA DeltaIs ==
    ASSUME NEW N, NEW text \in Seq(1..N)
    PROVE  \/ Delta(text) = <<>>
           \/ \E d \in Relayable(N) : d.type = "delta" /\ d.data = text /\ Delta(text) = <<d>>
BY DEF Delta, Block, Relayable

LEMMA BatchWidens ==
    ASSUME NEW m \in Nat, NEW n \in Nat, m <= n, NEW s, Batch(s, m)
    PROVE  Batch(s, n)
<1>1. Relayable(m) \subseteq Relayable(n)
  <2>1. ASSUME NEW b \in Relayable(m) PROVE b \in Relayable(n)
    <3>1. b.data \in Seq(1..n)
      BY SeqWidens DEF Relayable
    <3> QED
      BY <3>1 DEF Relayable
  <2> QED
    BY <2>1
<1> QED
  BY <1>1 DEF Batch

LEMMA TwoOfThem ==
    ASSUME NEW S, NEW a \in S, NEW b \in S
    PROVE  Append(<<a>>, b) = <<a, b>>
<1> DEFINE s == Append(<<a>>, b)
           t == <<a, b>>
<1>1. s \in Seq(S) /\ Len(s) = 2 /\ s[1] = a /\ s[2] = b
  OBVIOUS
<1>2. t \in Seq(S) /\ Len(t) = 2 /\ t[1] = a /\ t[2] = b
  OBVIOUS
<1> HIDE DEF s, t
<1>3. \A i \in 1..2 : s[i] = t[i]
  <2>1. \A i \in 1..2 : i = 1 \/ i = 2
    OBVIOUS
  <2> QED
    BY <1>1, <1>2, <2>1
<1>4. s = t
  BY <1>1, <1>2, <1>3
<1> QED
  BY <1>4 DEF s, t

\* What the healer makes of an event.
LEMMA HealIs ==
    ASSUME NEW kind \in Kinds, NEW N \in Nat, NEW n \in 1..N, withheld \in Seq(1..N)
    PROVE  /\ Heal(kind, n).withheld \in Seq(1..N)
           /\ Batch(Heal(kind, n).out, N)
<1> USE DEF Heal
<1>1. \A text \in Seq(1..N) : Delta(text) = <<>> \/ \E d \in Relayable(N) : d.type = "delta" /\ Delta(text) = <<d>>
  BY DeltaIs
<1>6. \A text \in Seq(1..N) : Batch(Delta(text), N)
  BY <1>1 DEF Batch
<1>2. CASE kind = "text"
  <2>1. Append(withheld, n) \in Seq(1..N)
    OBVIOUS
  <2>2. Heal(kind, n) = [out |-> Delta(Append(withheld, n)), withheld |-> <<>>]
    BY <1>2
  <2>3. Batch(Delta(Append(withheld, n)), N)
    BY <1>6, <2>1
  <2>4. <<>> \in Seq(1..N)
    OBVIOUS
  <2> HIDE DEF Heal
  <2> QED
    BY <2>2, <2>3, <2>4
<1>3. CASE kind = "half"
  <2>1. Heal(kind, n) = [out |-> Delta(withheld), withheld |-> <<n>>]
    BY <1>3
  <2>2. <<n>> \in Seq(1..N)
    OBVIOUS
  <2> HIDE DEF Heal
  <2> QED
    BY <1>6, <2>1, <2>2
<1>4. CASE kind \in {"done", "completed", "noid", "first"}
  <2> DEFINE v == Verbatim(kind, n)
  <2>1. v \in Relayable(N) /\ v.type # "delta"
    BY <1>4, VerbatimIs
  <2>2. Heal(kind, n) = [out |-> Append(Delta(withheld), v), withheld |-> <<>>]
    BY <1>4
  <2> HIDE DEF v, Heal
  <2>3. CASE Delta(withheld) = <<>>
    BY <2>1, <2>2, <2>3 DEF Batch
  <2>4. CASE Delta(withheld) # <<>>
    <3>1. PICK d \in Relayable(N) : d.type = "delta" /\ Delta(withheld) = <<d>>
      BY <1>1, <2>4
    <3>2. Append(<<d>>, v) = <<d, v>>
      BY <2>1, <3>1, TwoOfThem
    <3> QED
      BY <2>1, <2>2, <3>1, <3>2, SMTT(30) DEF Batch
  <2> QED
    BY <2>3, <2>4
<1>5. CASE kind \in {"rest", "incomplete", "keepalive"}
  <2>1. Heal(kind, n) = [out |-> <<Verbatim(kind, n)>>, withheld |-> withheld]
    BY <1>5
  <2> QED
    BY <2>1, VerbatimIs DEF Batch
<1> QED
  BY <1>2, <1>3, <1>4, <1>5 DEF Kinds

LEMMA HeadTail ==
    ASSUME NEW N, NEW s, Batch(s, N), s # <<>>
    PROVE  Head(s) \in Relayable(N) /\ Batch(Tail(s), N)
<1>1. CASE \E b \in Relayable(N) : s = <<b>>
  BY <1>1 DEF Batch
<1>2. CASE \E d, b \in Relayable(N) : s = <<d, b>> /\ d.type = "delta" /\ b.type # "delta"
  <2>1. PICK d, b \in Relayable(N) : s = <<d, b>>
    BY <1>2
  <2>2. Head(s) = d /\ Tail(s) = <<b>>
    <3> DEFINE S == Relayable(N)
    <3>1. s \in Seq(S) /\ Len(s) = 2 /\ s[1] = d /\ s[2] = b
      BY <2>1
    <3> HIDE DEF S
    <3>2. Tail(s) \in Seq(S) /\ Len(Tail(s)) = 1 /\ Tail(s)[1] = b
      <4>1. s # <<>>
        BY <3>1
      <4>2. /\ Tail(s) \in Seq(S) /\ Len(Tail(s)) = 2 - 1
            /\ \A i \in 1..Len(Tail(s)) : Tail(s)[i] = s[i + 1]
        BY <3>1, <4>1, HeadTailProperties
      <4>3. 1 \in 1..Len(Tail(s))
        BY <4>2
      <4> QED
        BY <3>1, <4>2, <4>3
    <3>3. <<b>> \in Seq(S) /\ Len(<<b>>) = 1 /\ <<b>>[1] = b
      BY <2>1 DEF S
    <3>4. Tail(s) = <<b>>
      <4> DEFINE t == Tail(s)
                 u == <<b>>
      <4>1. /\ t \in Seq(S) /\ Len(t) = 1 /\ t[1] = b
            /\ u \in Seq(S) /\ Len(u) = 1 /\ u[1] = b
        BY <3>2, <3>3
      <4> HIDE DEF t, u
      <4>2. t = u
        BY <4>1
      <4> QED
        BY <4>2 DEF t, u
    <3> QED
      BY <3>1, <3>4
  <2> QED
    BY <2>1, <2>2 DEF Batch
<1> QED
  BY <1>1, <1>2 DEF Batch

LEMMA SentIs == VerdictInv => sent \in Seq(Relayable(MaxChunks) \cup {Failed})
<1> DEFINE R == Relayable(MaxChunks)
           S == R \cup {Failed}
<1> SUFFICES ASSUME VerdictInv PROVE sent \in Seq(S)
  OBVIOUS
<1>1. PICK q \in Seq(R) : sent = q \/ sent = Append(q, Failed)
  BY DEF VerdictInv, Relayed
<1> HIDE DEF R
<1>2. q \in Seq(S)
  <2>1. q = [i \in 1..Len(q) |-> q[i]] /\ Len(q) \in Nat /\ \A i \in 1..Len(q) : q[i] \in S
    OBVIOUS
  <2> HIDE DEF S
  <2> QED
    BY <2>1
<1>3. Append(q, Failed) \in Seq(S)
  BY <1>2
<1> QED
  BY <1>1, <1>2, <1>3

LEMMA WellStep == VerdictInv /\ [Next]_vars => Well'
<1> SUFFICES ASSUME VerdictInv, [Next]_vars PROVE Well'
  OBVIOUS
<1>0. Well /\ sent \in Seq(Relayable(MaxChunks) \cup {Failed})
  BY SentIs DEF VerdictInv
<1> USE PassthroughAssumption DEF Well, TypeOK, Sending
<1>1. CASE SendBlock
  <2>1. /\ pc \in {"relaying", "flushing", "failing"} /\ todo # <<>> /\ client = "reading"
        /\ Len(sent) - read < Buffer
        /\ sent' = Append(sent, Head(todo)) /\ todo' = Tail(todo)
        /\ pc' = IF todo' = <<>> THEN AfterBatch(pc) ELSE pc
        /\ UNCHANGED <<opts, upstream, fed, partial, withheld, waited, read, client, flags, outcome>>
    BY <1>0, <1>1 DEF SendBlock, HasRoom
  <2>2. CASE pc = "failing"
    <3>1. Head(todo) = Failed /\ todo' = <<>>
      <4>1. todo = <<Failed>>
        BY <1>0, <2>2
      <4>2. \A e : Head(<<e>>) = e /\ Tail(<<e>>) = <<>>
        OBVIOUS
      <4> QED
        BY <2>1, <4>1, <4>2
    <3>2. sent' \in Seq(Relayable(MaxChunks) \cup {Failed}) /\ Len(sent') = Len(sent) + 1
      BY <1>0, <2>1, <3>1
    <3>3. pc' = "saving"
      BY <2>1, <2>2, <3>1 DEF AfterBatch
    <3> QED
      BY <1>0, <2>1, <2>2, <3>1, <3>2, <3>3
  <2>3. CASE pc # "failing"
    <3>1. Head(todo) \in Relayable(MaxChunks) /\ Batch(todo', MaxChunks)
      BY <1>0, <2>1, <2>3, HeadTail
    <3>2. Len(sent') = Len(sent) + 1 /\ Len(sent) \in Nat
      BY <1>0, <2>1, <3>1
    <3>3. /\ todo' = <<>> => pc' \in {"reading", "recording"}
          /\ todo' # <<>> => pc' = pc
      BY <2>1, <2>3 DEF AfterBatch
    <3> QED
      <4>1. read' \in 0..Len(sent') /\ Len(sent') - read' <= Buffer
        BY <1>0, <2>1, <3>2, SMTT(30)
      <4>2. \/ todo' = <<>> /\ pc' \in {"reading", "recording"}
            \/ todo' # <<>> /\ pc' = pc /\ pc \in {"relaying", "flushing"}
        BY <2>1, <2>3, <3>3
      <4> QED
        BY <1>0, <2>1, <3>1, <4>1, <4>2
  <2> QED
    BY <2>2, <2>3
<1>2. CASE SendFails
  BY <1>0, <1>2 DEF SendFails, AfterLoss, AfterBatch
<1>3. CASE ReadNothing
  BY <1>0, <1>3 DEF ReadNothing
<1>13. CASE IdleTimeout
  BY <1>0, <1>13 DEF IdleTimeout
<1>9. CASE Tick
  BY <1>0, <1>9 DEF Tick
<1>10. CASE Stall
  BY <1>0, <1>10 DEF Stall
<1>14. CASE Disconnect
  BY <1>0, <1>14 DEF Disconnect
<1>11. CASE Receive
  BY <1>0, <1>11 DEF Receive
<1>12. CASE SaveSession
  BY <1>0, <1>12 DEF SaveSession
<1>15. CASE UNCHANGED vars
  BY <1>0, <1>15 DEF vars
<1>4. CASE Finish
  <2>1. withheld \in Seq(1..MaxChunks)
    BY <1>0, SeqWidens
  <2>2. Batch(Delta(withheld), MaxChunks)
    BY <2>1, DeltaIs DEF Batch
  <2>3. <<>> \in Seq(1..Len(fed))
    OBVIOUS
  <2> QED
    BY <1>0, <1>4, <2>2, <2>3 DEF Finish
<1>5. CASE Record
  <2>1. \A e : <<e>> # <<>>
    OBVIOUS
  <2>2. outcome' \in {"none", "empty", "timeout", "truncated"}
    BY <1>5 DEF Record, ErrorClass
  <2>3. /\ pc = "recording"
        /\ \/ pc' = "failing" /\ todo' = <<Failed>>
           \/ pc' = "saving" /\ todo' = todo
        /\ UNCHANGED <<opts, upstream, fed, partial, withheld, waited, sent, read, client, flags>>
    BY <1>5 DEF Record
  <2> QED
    BY <1>0, <2>1, <2>2, <2>3
<1>6. ASSUME NEW kind \in Kinds, ReadChunk(kind) PROVE Well'
  <2> DEFINE n == Len(fed) + 1
  <2>1. /\ n \in 1..MaxChunks /\ Len(fed) \in Nat /\ fed' = Append(fed, kind) /\ fed' \in Seq(Kinds)
        /\ Len(fed') = n /\ fed' # <<>> /\ Last(fed') = kind /\ n \in Nat /\ n \in 1..n
        /\ n <= MaxChunks /\ Len(fed) <= n
    <3>1. fed \in Seq(Kinds) /\ Len(fed) \in Nat /\ Len(fed) < MaxChunks /\ fed' = Append(fed, kind)
      BY <1>0, <1>6 DEF ReadChunk
    <3>2. fed' \in Seq(Kinds) /\ Len(fed') = n /\ fed'[n] = kind
      BY <3>1
    <3> QED
      BY <3>1, <3>2 DEF Last
  <2>2. withheld \in Seq(1..n)
    BY <1>0, <2>1, SeqWidens
  <2>3. /\ pc = "reading" /\ UNCHANGED <<opts, upstream, sent, read, client, flags, outcome>>
        /\ partial => kind = "rest"
        /\ kind = "rest" => Len(fed) \in 1..n
    BY <1>0, <1>6, <2>1 DEF ReadChunk, Waiting, MayFollow
  <2>4. ASSUME opts.healed, NEW heal, heal.withheld \in Seq(1..n), Batch(heal.out, n), Relay(heal),
               waited' = 0, partial' \in BOOLEAN, partial' => FALSE
        PROVE  Well'
    <3>1. Batch(heal.out, MaxChunks)
      BY <2>1, <2>4, BatchWidens
    <3> HIDE DEF n
    <3> QED
      BY <1>0, <2>1, <2>3, <2>4, <3>1 DEF Relay
  <2>5. CASE ~opts.healed
    <3> DEFINE v == Verbatim(kind, n)
    <3>1. v \in Relayable(MaxChunks)
      BY <2>1, VerbatimIs
    <3>2. todo' = <<v>> /\ pc' = "relaying" /\ waited' = 0 /\ UNCHANGED <<partial, withheld>>
      BY <1>6, <2>5 DEF ReadChunk
    <3>3. ~partial /\ withheld = <<>>
      BY <1>0, <2>5
    <3> HIDE DEF v, n
    <3>4. Batch(todo', MaxChunks) /\ todo' # <<>>
      BY <3>1, <3>2 DEF Batch
    <3> QED
      BY <1>0, <2>1, <2>2, <2>3, <3>2, <3>3, <3>4
  <2>6. CASE opts.healed /\ kind = "first"
    <3>1. partial' = TRUE /\ UNCHANGED <<todo, pc, withheld, waited>>
      BY <1>6, <2>6 DEF ReadChunk
    <3> HIDE DEF n
    <3> QED
      BY <1>0, <2>1, <2>2, <2>3, <2>6, <3>1
  <2>7. CASE opts.healed /\ kind = "rest"
    <3>1. partial' = FALSE /\ waited' = 0 /\ Relay(Heal("completed", n - 1))
      BY <1>6, <2>7 DEF ReadChunk
    <3>2. n - 1 \in 1..n /\ "completed" \in Kinds
      BY <2>1, <2>3, <2>7 DEF Kinds
    <3> DEFINE heal == Heal("completed", n - 1)
    <3>3. heal.withheld \in Seq(1..n) /\ Batch(heal.out, n)
      BY <2>1, <2>2, <3>2, HealIs
    <3> HIDE DEF heal
    <3> QED
      BY <2>4, <2>7, <3>1, <3>3 DEF heal
  <2>8. CASE opts.healed /\ kind \notin {"first", "rest"}
    <3> DEFINE heal == Heal(kind, n)
    <3>1. waited' = 0 /\ Relay(heal) /\ partial' = partial
      BY <1>6, <2>8 DEF ReadChunk
    <3>2. ~partial /\ partial \in BOOLEAN
      BY <1>0, <2>3, <2>8
    <3>3. heal.withheld \in Seq(1..n) /\ Batch(heal.out, n)
      BY <2>1, <2>2, HealIs
    <3> HIDE DEF heal
    <3> QED
      BY <2>4, <2>8, <3>1, <3>2, <3>3
  <2> QED
    BY <2>5, <2>6, <2>7, <2>8
<1>7. CASE ReadEnd
  <2>1. /\ pc = "reading" /\ upstream' = "closed" /\ partial' = FALSE
        /\ UNCHANGED <<opts, fed, sent, read, client, flags, outcome>>
    BY <1>7 DEF ReadEnd, Waiting
  <2>2. CASE ~partial
    <3>1. pc' = "ended" /\ UNCHANGED <<waited, todo, withheld>>
      BY <1>7, <2>2 DEF ReadEnd
    <3> QED
      BY <1>0, <2>1, <3>1
  <2>3. CASE partial
    <3> DEFINE heal == Heal("first", Len(fed))
    <3>1. waited' = 0 /\ Relay(heal)
      BY <1>7, <2>3 DEF ReadEnd
    <3>2. Len(fed) \in 1..Len(fed) /\ "first" \in Kinds /\ Len(fed) \in Nat /\ Len(fed) <= MaxChunks
      BY <1>0, <2>3 DEF Kinds
    <3>3. heal.withheld \in Seq(1..Len(fed)) /\ Batch(heal.out, Len(fed))
      BY <1>0, <3>2, HealIs
    <3> HIDE DEF heal
    <3>4. Batch(heal.out, MaxChunks)
      BY <3>2, <3>3, BatchWidens
    <3>5. opts.healed
      BY <1>0, <2>3
    <3> QED
      <4>1. \/ heal.out = <<>> /\ pc' = "reading" /\ todo' = <<>>
            \/ heal.out # <<>> /\ pc' = "relaying" /\ todo' # <<>> /\ Batch(todo', MaxChunks)
        BY <3>1, <3>4 DEF Relay
      <4>2. waited' \in 0..Idle /\ withheld' \in Seq(1..Len(fed'))
        BY <1>0, <2>1, <3>1, <3>3 DEF Relay
      <4> QED
        BY <1>0, <2>1, <3>5, <4>1, <4>2
  <2> QED
    BY <2>2, <2>3
<1>8. CASE ReadBreak
  BY <1>0, <1>8 DEF ReadBreak, Waiting
<1> QED
  BY <1>1, <1>2, <1>3, <1>4, <1>5, <1>6, <1>7, <1>8, <1>9, <1>10, <1>11, <1>12, <1>13, <1>14, <1>15 DEF Next, Task, Upstream


LEMMA RelayedStep ==
    VerdictInv /\ [Next]_vars => (\E q \in Seq(Relayable(MaxChunks)) : Relayed(q))'
<1> SUFFICES ASSUME VerdictInv, [Next]_vars
             PROVE  (\E q \in Seq(Relayable(MaxChunks)) : Relayed(q))'
  OBVIOUS
<1>0. Well /\ Judged
  BY DEF VerdictInv
<1>1. PICK q \in Seq(Relayable(MaxChunks)) : Relayed(q)
  BY DEF VerdictInv
<1>2. pc \notin {"saving", "over"} => sent = q
  BY <1>1 DEF Relayed
<1>3. CASE SendBlock
  <2>1. /\ pc \in {"relaying", "flushing", "failing"} /\ todo # <<>> /\ client = "reading"
        /\ sent' = Append(sent, Head(todo)) /\ raw' = Kept(Head(todo)) /\ todo' = Tail(todo)
        /\ pc' = IF todo' = <<>> THEN AfterBatch(pc) ELSE pc
        /\ UNCHANGED <<client, flags>>
    BY <1>0, <1>3 DEF SendBlock, Sending, Well, TypeOK
  <2>2. CASE pc = "failing"
    <3>1. todo = <<Failed>> /\ GivenUp
      BY <1>0, <2>2 DEF Well, Judged
    <3>2. \A e : Head(<<e>>) = e /\ Tail(<<e>>) = <<>>
      OBVIOUS
    <3>3. sent' = Append(q, Failed) /\ pc' = "saving" /\ raw' = raw
      BY <1>2, <2>1, <2>2, <3>1, <3>2 DEF AfterBatch, Kept
    <3>4. GivenUp'
      BY <2>1, <3>1, <3>3 DEF GivenUp, SawCompleted
    <3>5. Relayed(q)'
      BY <1>1, <3>3, <3>4 DEF Relayed
    <3> QED
      BY <3>5
  <2>3. CASE pc # "failing"
    <3>1. Head(todo) \in Relayable(MaxChunks)
      BY <1>0, <2>1, <2>3, HeadTail DEF Well
    <3>7. PICK r : r = Append(q, Head(todo))
      OBVIOUS
    <3>2. r \in Seq(Relayable(MaxChunks))
      BY <3>1, <3>7
    <3>3. raw' = Trim(r)
      BY <1>1, <2>1, <2>3, <3>1, <3>7, TrimAppend DEF Kept, Relayed
    <3>4. sent' = r
      BY <1>2, <2>1, <3>7
    <3>5. pc' \notin {"saving", "over"}
      BY <2>1, <2>3 DEF AfterBatch
    <3>6. Relayed(r)'
      BY <3>3, <3>4, <3>5 DEF Relayed
    <3> QED
      BY <3>2, <3>6
  <2> QED
    BY <2>2, <2>3
<1>4. CASE SendFails
  <2>1. /\ client = "gone" /\ client' = "gone" /\ raw' = raw /\ sent' = sent
        /\ pc \in {"relaying", "flushing", "failing"}
    BY <1>4 DEF SendFails, Sending, KeptOfLost
  <2>2. Relayed(q)'
    BY <1>1, <1>2, <2>1 DEF Relayed
  <2> QED
    BY <2>2
<1>5. CASE Record
  <2>1. UNCHANGED <<raw, sent, client, flags>> /\ pc = "recording"
    BY <1>5 DEF Record
  <2>2. GivenUp' <=> GivenUp
    BY <2>1 DEF GivenUp, SawCompleted
  <2>3. pc' = IF GivenUp THEN "failing" ELSE "saving"
    BY <1>5 DEF Record
  <2>4. Relayed(q)'
    BY <1>1, <1>2, <2>1, <2>2, <2>3 DEF Relayed
  <2> QED
    BY <2>4
<1>6. CASE SaveSession \/ Disconnect \/ UNCHANGED vars
  <2>1. UNCHANGED <<raw, sent, flags>> /\ (client' = "reading" => client = "reading")
        /\ (pc' \in {"saving", "over"} <=> pc \in {"saving", "over"})
    BY <1>6 DEF SaveSession, Disconnect, vars
  <2>2. GivenUp' <=> GivenUp
    BY <2>1 DEF GivenUp, SawCompleted
  <2>3. Relayed(q)'
    BY <1>1, <2>1, <2>2 DEF Relayed
  <2> QED
    BY <2>3
<1>7. CASE ReadNothing \/ IdleTimeout \/ Tick \/ Finish \/ ReadEnd \/ ReadBreak \/ \E kind \in Kinds : ReadChunk(kind)
  <2>1. UNCHANGED <<raw, sent, client>> /\ pc \notin {"saving", "over"} /\ pc' \notin {"saving", "over"}
    BY <1>7 DEF ReadNothing, IdleTimeout, Tick, Finish, ReadEnd, ReadBreak, ReadChunk, Waiting, Relay
  <2>2. Relayed(q)'
    BY <1>1, <1>2, <2>1 DEF Relayed
  <2> QED
    BY <2>2
<1>8. CASE Stall \/ Receive
  <2>1. UNCHANGED <<raw, sent, client, flags, pc>>
    BY <1>8 DEF Stall, Receive
  <2>2. GivenUp' <=> GivenUp
    BY <2>1 DEF GivenUp, SawCompleted
  <2>3. Relayed(q)'
    BY <1>1, <2>1, <2>2 DEF Relayed
  <2> QED
    BY <2>3
<1> QED
  BY <1>3, <1>4, <1>5, <1>6, <1>7, <1>8 DEF Next, Task, Upstream

LEMMA JudgedStep == VerdictInv /\ [Next]_vars => Judged'
<1> SUFFICES ASSUME VerdictInv, [Next]_vars PROVE Judged'
  OBVIOUS
<1>0. Well /\ Judged
  BY DEF VerdictInv
<1>1. CASE SendBlock \/ SendFails
  <2>1. /\ pc \in {"relaying", "flushing", "failing"}
        /\ UNCHANGED <<opts, client, outcome, stored>>
        /\ flags' = flags \/ (pc # "failing" /\ flags' = flags \cup {"disconnected"} /\ client = "gone")
    BY <1>1 DEF SendBlock, SendFails, Sending
  <2>2. CASE pc = "failing"
    <3>1. todo = <<Failed>>
      BY <1>0, <2>2 DEF Well
    <3>2. pc' = "saving" /\ raw' = raw /\ flags' = flags
      <4>1. \A e : Tail(<<e>>) = <<>>
        OBVIOUS
      <4> QED
        BY <1>1, <2>2, <3>1, <4>1 DEF SendBlock, SendFails, Kept, KeptOfLost, AfterLoss, AfterBatch
    <3>3. ErrorClass' = ErrorClass
      BY <3>2 DEF ErrorClass, SawCompleted
    <3> QED
      BY <1>0, <2>1, <2>2, <3>2, <3>3 DEF Judged
  <2>3. CASE pc # "failing"
    <3>1. pc' \notin {"failing", "saving", "over"}
      BY <1>1, <2>1, <2>3 DEF SendBlock, SendFails, AfterLoss, AfterBatch
    <3> QED
      BY <1>0, <2>1, <2>3, <3>1 DEF Judged
  <2> QED
    BY <2>2, <2>3
<1>2. CASE Record
  <2>1. UNCHANGED <<raw, client, flags, stored, opts>> /\ pc = "recording" /\ outcome' = ErrorClass
        /\ pc' = (IF GivenUp THEN "failing" ELSE "saving")
    BY <1>2 DEF Record
  <2>2. (GivenUp' <=> GivenUp) /\ ErrorClass' = ErrorClass
    BY <2>1 DEF GivenUp, SawCompleted, ErrorClass
  <2> QED
    BY <1>0, <2>1, <2>2 DEF Judged
<1>3. CASE SaveSession
  <2>1. UNCHANGED <<raw, client, flags, outcome, opts>> /\ pc = "saving" /\ pc' = "over"
        /\ stored' = IF opts.store THEN Captured(raw) ELSE NoTurn
    BY <1>3 DEF SaveSession
  <2>2. ErrorClass' = ErrorClass
    BY <2>1 DEF SawCompleted, ErrorClass
  <2> QED
    BY <1>0, <2>1, <2>2 DEF Judged
<1>4. CASE ReadNothing \/ IdleTimeout \/ Tick \/ Finish \/ ReadEnd \/ ReadBreak \/ \E kind \in Kinds : ReadChunk(kind)
  <2>1. /\ UNCHANGED <<raw, client, outcome, stored, opts>>
        /\ pc \notin {"failing", "saving", "over"} /\ pc' \notin {"failing", "saving", "over"}
        /\ "disconnected" \in flags' <=> "disconnected" \in flags
    BY <1>4 DEF ReadNothing, IdleTimeout, Tick, Finish, ReadEnd, ReadBreak, ReadChunk, Waiting, Relay
  <2> QED
    BY <1>0, <2>1 DEF Judged
<1>5. CASE Stall \/ Receive \/ Disconnect \/ UNCHANGED vars
  <2>1. UNCHANGED <<raw, flags, outcome, stored, opts, pc>> /\ (client = "gone" => client' = "gone")
    BY <1>5 DEF Stall, Receive, Disconnect, vars
  <2>2. (GivenUp' <=> GivenUp) /\ ErrorClass' = ErrorClass
    BY <2>1 DEF GivenUp, SawCompleted, ErrorClass
  <2> QED
    BY <1>0, <2>1, <2>2 DEF Judged
<1> QED
  BY <1>1, <1>2, <1>3, <1>4, <1>5 DEF Next, Task, Upstream

LEMMA VerdictStep == VerdictInv /\ [Next]_vars => VerdictInv'
BY WellStep, RelayedStep, JudgedStep DEF VerdictInv

\* What the task captured is what one would capture from what the client was
\* sent.
LEMMA CapturedFromSent == VerdictInv => Captured(raw) = Captured(sent)
<1> SUFFICES ASSUME VerdictInv PROVE Captured(raw) = Captured(sent)
  OBVIOUS
<1>1. PICK q \in Seq(Relayable(MaxChunks)) : Relayed(q)
  BY DEF VerdictInv
<1>2. Captured(raw) = Captured(q)
  BY <1>1, CapturedTrim DEF Relayed
<1>3. CASE sent = q
  BY <1>2, <1>3
<1>4. CASE sent = Append(q, Failed)
  <2>1. ~Marked(Failed) /\ Failed.type # "rest"
    BY DEF Failed, Block, Marked
  <2> DEFINE T == Relayable(MaxChunks) \cup {Failed}
  <2>2. q \in Seq(T)
    <3>1. q = [i \in 1..Len(q) |-> q[i]] /\ Len(q) \in Nat /\ \A i \in 1..Len(q) : q[i] \in T
      OBVIOUS
    <3> HIDE DEF T
    <3> QED
      BY <3>1
  <2>3. Failed \in T
    OBVIOUS
  <2> HIDE DEF T
  <2>4. Captured(Append(q, Failed)) = Captured(q)
    BY <2>1, <2>2, <2>3, CapturedAppend
  <2> QED
    BY <1>2, <1>4, <2>4
<1> QED
  BY <1>1, <1>3, <1>4 DEF Relayed

\* However the body, the client and the clock behave, the metrics, the stored
\* session and the end of the stream tell one story
\* (src/src/proxy/passthrough.rs:358-426).
THEOREM OneVerdictHolds == FairSpec => []OneVerdict
<1>1. VerdictInv => OneVerdict
  <2> SUFFICES ASSUME VerdictInv PROVE OneVerdict
    OBVIOUS
  <2>1. TypeOK
    BY DEF VerdictInv, Well
  <2>2. ASSUME pc = "over", client = "reading"
        PROVE  /\ outcome # "none"
               /\ outcome = "empty" /\ opts.store <=> stored # NoTurn
               /\ outcome = "timeout" <=> sent # <<>> /\ Last(sent) = Failed
               /\ Failed \in ToSet(sent) => Captured(sent) = NoTurn
    <3>1. PICK q \in Seq(Relayable(MaxChunks)) : Relayed(q)
      BY DEF VerdictInv
    <3>2. /\ "disconnected" \notin flags /\ outcome = ErrorClass
          /\ stored = IF opts.store THEN Captured(raw) ELSE NoTurn
      BY <2>2 DEF VerdictInv, Judged
    <3>3. outcome = "timeout" <=> GivenUp
      BY <3>2 DEF ErrorClass, GivenUp
    <3>4. outcome = "empty" <=> Captured(raw) # NoTurn
      BY <3>2 DEF ErrorClass, SawCompleted
    <3>5. CASE GivenUp
      <4>1. sent = Append(q, Failed)
        BY <2>2, <3>1, <3>5 DEF Relayed
      <4>2. sent # <<>> /\ Last(sent) = Failed
        BY <4>1 DEF Last
      <4>3. Captured(sent) = NoTurn
        BY <3>5, CapturedFromSent DEF GivenUp, SawCompleted
      <4> QED
        BY <3>2, <3>3, <3>4, <3>5, <4>2, <4>3
    <3>6. CASE ~GivenUp
      <4>1. sent = q
        BY <3>1, <3>6 DEF Relayed
      <4>2. \A n \in DOMAIN sent : sent[n] # Failed
        <5>1. Failed.type = "failed"
          BY DEF Failed, Block
        <5>2. \A b \in Relayable(MaxChunks) : b.type # "failed"
          BY DEF Relayable, Kinds
        <5> QED
          BY <4>1, <5>1, <5>2
      <4>3. Failed \notin ToSet(sent)
        BY <4>2 DEF ToSet
      <4>4. sent # <<>> => Last(sent) # Failed
        BY <4>1, <4>2 DEF Last
      <4> QED
        BY <3>2, <3>3, <3>4, <3>6, <4>3, <4>4 DEF ErrorClass
    <3> QED
      BY <3>5, <3>6
  <2> QED
    BY <2>1, <2>2 DEF OneVerdict
<1> QED
  BY <1>1, VerdictInit, VerdictStep, PTL DEF FairSpec

-----------------------------------------------------------------------------
(* Text *)

LEMMA JoinOneMore ==
    ASSUME NEW S, NEW n \in Nat, NEW f, \A m \in 1..(n + 1) : f[m] \in Seq(S)
    PROVE  /\ FlattenSeq([m \in 1..n |-> f[m]]) \in Seq(S)
           /\ FlattenSeq([m \in 1..(n + 1) |-> f[m]]) = FlattenSeq([m \in 1..n |-> f[m]]) \o f[n + 1]
<1> DEFINE T == Seq(S)
           q == [m \in 1..n |-> f[m]]
           r == [m \in 1..(n + 1) |-> f[m]]
<1>1. \A m \in 1..n : m \in 1..(n + 1)
  OBVIOUS
<1>2. q \in Seq(T) /\ Len(q) = n /\ f[n + 1] \in T
  BY <1>1
<1>3. r \in Seq(T) /\ Len(r) = n + 1
  OBVIOUS
<1>4. r = Append(q, f[n + 1])
  <2> DEFINE a == Append(q, f[n + 1])
  <2>1. \A m \in 1..n : q[m] = f[m]
    OBVIOUS
  <2>2. \A m \in 1..(n + 1) : r[m] = f[m]
    OBVIOUS
  <2> HIDE DEF q, r, T
  <2>3. a \in Seq(T) /\ Len(a) = n + 1 /\ a[n + 1] = f[n + 1] /\ \A m \in 1..n : a[m] = q[m]
    BY <1>2
  <2> HIDE DEF a
  <2>4. \A m \in 1..(n + 1) : a[m] = r[m]
    <3>1. \A m \in 1..(n + 1) : m = n + 1 \/ m \in 1..n
      OBVIOUS
    <3> QED
      BY <2>1, <2>2, <2>3, <3>1
  <2>5. a = r
    BY <1>3, <2>3, <2>4
  <2> QED
    BY <2>5 DEF a
<1> HIDE DEF q, r
<1>5. FlattenSeq(q) \in Seq(S) /\ FlattenSeq(Append(q, f[n + 1])) = FlattenSeq(q) \o f[n + 1]
  BY <1>2, FlattenAppend
<1> QED
  BY <1>4, <1>5 DEF q, r

\* All blocks of T hold text, or none.
Textual(T) == \A x \in T : TextOf(x) \in Seq(1..MaxChunks)

LEMMA TextsAppend ==
    ASSUME NEW T, Textual(T), NEW s \in Seq(T), NEW e \in T
    PROVE  Texts(s) \in Seq(1..MaxChunks) /\ Texts(Append(s, e)) = Texts(s) \o TextOf(e)
<1> USE DEF Textual
<1> DEFINE S == 1..MaxChunks
           n == Len(s)
           r == Append(s, e)
           f == [m \in 1..(n + 1) |-> TextOf(r[m])]
<1>1. n \in Nat /\ Len(r) = n + 1 /\ r[n + 1] = e /\ \A m \in 1..n : r[m] = s[m] /\ s[m] \in T
  OBVIOUS
<1> HIDE DEF n, r
<1>2. f[n + 1] = TextOf(e) /\ \A m \in 1..n : f[m] = TextOf(s[m])
  BY <1>1
<1>3. \A m \in 1..(n + 1) : f[m] \in Seq(S)
  <2>1. \A m \in 1..(n + 1) : m = n + 1 \/ m \in 1..n
    BY <1>1
  <2> QED
    BY <1>1, <1>2, <2>1
<1>4. Texts(r) = FlattenSeq([m \in 1..(n + 1) |-> f[m]])
  BY <1>1 DEF Texts
<1>5. [m \in 1..n |-> f[m]] = [m \in 1..n |-> TextOf(s[m])]
  BY <1>2
<1>6. Texts(s) = FlattenSeq([m \in 1..n |-> f[m]])
  BY <1>5 DEF Texts, n
<1> HIDE DEF f
<1>7. /\ FlattenSeq([m \in 1..n |-> f[m]]) \in Seq(S)
      /\ FlattenSeq([m \in 1..(n + 1) |-> f[m]]) = FlattenSeq([m \in 1..n |-> f[m]]) \o f[n + 1]
  BY <1>1, <1>3, JoinOneMore
<1> QED
  BY <1>2, <1>4, <1>6, <1>7 DEF r

LEMMA TextsOfNothing == Texts(<<>>) = <<>>
<1>1. [n \in 1..Len(<<>>) |-> TextOf(<<>>[n])] = <<>>
  OBVIOUS
<1>2. FlattenSeq(<<>>) = <<>>
  BY DEF FlattenSeq
<1> QED
  BY <1>1, <1>2 DEF Texts

\* What was spoken up to chunk n.
LEMMA SpokenGrows ==
    ASSUME NEW n \in Nat, n < MaxChunks, MaxChunks \in Nat
    PROVE  /\ SpokenBefore(n) \in Seq(1..MaxChunks)
           /\ SpokenBefore(n + 1) = SpokenBefore(n) \o Words(n + 1)
<1> DEFINE f == [m \in 1..(n + 1) |-> Words(m)]
<1>1. ASSUME NEW m \in 1..(n + 1) PROVE f[m] = Words(m) /\ f[m] \in Seq(1..MaxChunks)
  <2>1. m \in 1..MaxChunks
    OBVIOUS
  <2>2. <<m>> \in Seq(1..MaxChunks) /\ <<>> \in Seq(1..MaxChunks)
    BY <2>1
  <2>3. f[m] = Words(m)
    OBVIOUS
  <2> HIDE DEF f
  <2> QED
    BY <2>2, <2>3 DEF Words
<1>2. [m \in 1..n |-> f[m]] = [m \in 1..n |-> Words(m)]
  BY <1>1
<1>3. [m \in 1..(n + 1) |-> f[m]] = [m \in 1..(n + 1) |-> Words(m)]
  BY <1>1
<1> HIDE DEF f
<1>4. /\ FlattenSeq([m \in 1..n |-> f[m]]) \in Seq(1..MaxChunks)
      /\ FlattenSeq([m \in 1..(n + 1) |-> f[m]]) = FlattenSeq([m \in 1..n |-> f[m]]) \o f[n + 1]
  BY <1>1, JoinOneMore
<1>5. f[n + 1] = Words(n + 1)
  BY <1>1
<1> QED
  BY <1>2, <1>3, <1>4, <1>5 DEF SpokenBefore

LEMMA SpokenType ==
    ASSUME NEW n \in Nat, n <= MaxChunks, MaxChunks \in Nat
    PROVE  SpokenBefore(n) \in Seq(1..MaxChunks)
<1>1. CASE n = 0
  <2>1. [m \in 1..n |-> Words(m)] = <<>>
    BY <1>1
  <2>2. FlattenSeq(<<>>) = <<>>
    BY DEF FlattenSeq
  <2>3. <<>> \in Seq(1..MaxChunks)
    OBVIOUS
  <2> QED
    BY <2>1, <2>2, <2>3 DEF SpokenBefore
<1>2. CASE n # 0
  <2> DEFINE m == n - 1
  <2>1. m \in Nat /\ m < MaxChunks /\ m + 1 = n /\ n \in 1..MaxChunks
    BY <1>2
  <2> HIDE DEF m
  <2>2. SpokenBefore(m) \in Seq(1..MaxChunks) /\ SpokenBefore(m + 1) = SpokenBefore(m) \o Words(m + 1)
    BY <2>1, SpokenGrows
  <2>3. Words(n) \in Seq(1..MaxChunks)
    <3>1. <<n>> \in Seq(1..MaxChunks) /\ <<>> \in Seq(1..MaxChunks)
      BY <2>1
    <3> QED
      BY <3>1 DEF Words
  <2>4. \A a, b \in Seq(1..MaxChunks) : a \o b \in Seq(1..MaxChunks)
    BY ConcatProperties
  <2>5. SpokenBefore(m) \o Words(n) \in Seq(1..MaxChunks)
    BY <2>2, <2>3, <2>4
  <2>6. SpokenBefore(n) = SpokenBefore(m) \o Words(n)
    BY <2>1, <2>2
  <2> QED
    BY <2>5, <2>6
<1> QED
  BY <1>1, <1>2

LEMMA SpokenBeforeStays ==
    ASSUME NEW S, fed \in Seq(S), NEW kind, fed' = Append(fed, kind), NEW n \in 0..Len(fed)
    PROVE  SpokenBefore(n)' = SpokenBefore(n)
<1>1. \A m \in 1..n : fed'[m] = fed[m]
  OBVIOUS
<1>2. [m \in 1..n |-> Words(m)'] = [m \in 1..n |-> Words(m)]
  BY <1>1 DEF Words
<1> QED
  BY <1>2 DEF SpokenBefore

\* What chunk n says.
Spoken(kind, n) == IF kind \in {"text", "half"} THEN <<n>> ELSE <<>>

\* One chunk more says what it carries.
LEMMA SpokenMore ==
    ASSUME NEW S, fed \in Seq(S), NEW kind, kind \in S, fed' = Append(fed, kind),
           MaxChunks \in Nat, Len(fed) < MaxChunks
    PROVE  SpokenBefore(Len(fed))' = SpokenBefore(Len(fed)) \o Spoken(kind, Len(fed) + 1)
<1> DEFINE N == Len(fed)
<1>1. PICK g : g = [m \in 1..(N + 1) |-> Words(m)']
  OBVIOUS
<1>2. N \in Nat /\ N + 1 <= MaxChunks /\ Len(fed') = N + 1 /\ fed'[N + 1] = kind
  OBVIOUS
<1>3. \A m \in 1..N : g[m] = Words(m)
  <2>1. \A m \in 1..N : g[m] = Words(m)' /\ fed'[m] = fed[m]
    BY <1>1, <1>2
  <2> QED
    BY <2>1 DEF Words
<1>4. g[N + 1] = Spoken(kind, N + 1)
  <2>1. N + 1 \in 1..(N + 1)
    BY <1>2
  <2>2. g[N + 1] = IF fed'[N + 1] \in {"text", "half"} THEN <<N + 1>> ELSE <<>>
    BY <1>1, <2>1 DEF Words
  <2> QED
    BY <1>2, <2>2 DEF Spoken
<1>5. \A m \in 1..(N + 1) : g[m] \in Seq(1..MaxChunks)
  <2> SUFFICES ASSUME NEW m \in 1..(N + 1) PROVE g[m] \in Seq(1..MaxChunks)
    OBVIOUS
  <2>1. m \in 1..MaxChunks
    BY <1>2
  <2>2. <<m>> \in Seq(1..MaxChunks) /\ <<>> \in Seq(1..MaxChunks)
    BY <2>1
  <2>3. m = N + 1 \/ m \in 1..N
    BY <1>2
  <2> QED
    BY <1>3, <1>4, <2>2, <2>3 DEF Words, Spoken
<1>6. FlattenSeq([m \in 1..(N + 1) |-> g[m]]) = FlattenSeq([m \in 1..N |-> g[m]]) \o g[N + 1]
  <2> HIDE DEF N
  <2> QED
    BY <1>2, <1>5, JoinOneMore
<1>7. SpokenBefore(Len(fed))' = FlattenSeq([m \in 1..(N + 1) |-> g[m]])
  <2>1. [m \in 1..(N + 1) |-> g[m]] = [m \in 1..(N + 1) |-> Words(m)']
    BY <1>1
  <2>2. SpokenBefore(Len(fed))' = FlattenSeq([m \in 1..Len(fed') |-> Words(m)'])
    BY DEF SpokenBefore
  <2> QED
    BY <1>2, <2>1, <2>2
<1>8. SpokenBefore(N) = FlattenSeq([m \in 1..N |-> g[m]])
  <2>1. [m \in 1..N |-> g[m]] = [m \in 1..N |-> Words(m)]
    BY <1>3
  <2> QED
    BY <2>1 DEF SpokenBefore
<1> QED
  BY <1>4, <1>6, <1>7, <1>8

-----------------------------------------------------------------------------
(* The invariant behind StoredWasSent: what the client was sent, what the   *)
(* next block holds and what the filters withhold are together what the     *)
(* upstream said; and once a terminal is on its way nothing is withheld,    *)
(* and no more will be said.                                                *)

\* The text of the next block; text is only ever in the first of a batch.
Owed(blocks) == IF blocks = <<>> THEN <<>> ELSE TextOf(Head(blocks))

\* The upstream has come to its end, or is about to.
Ended == \/ ToSet(fed) \cap {"completed", "noid", "rest", "incomplete"} # {}
         \/ fed # <<>> /\ Last(fed) = "first"

\* A block that closes the turn names a chunk with no text after it.
Closes(b) == \E k \in 1..Len(fed) :
    b.data = <<k>> /\ (k = Len(fed) \/ (k = Len(fed) - 1 /\ fed[Len(fed)] = "rest"))

Conserved == client = "reading" => (Texts(sent) \o Owed(todo)) \o withheld = SpokenBefore(Len(fed))

MarksDue == \A n \in DOMAIN todo : Marked(todo[n]) => withheld = <<>> /\ Ended /\ Closes(todo[n])

MarkSent(n) ==
    /\ \E k \in 1..Len(fed) :
         sent[n].data = <<k>> /\ Texts(SubSeq(sent, 1, n)) = SpokenBefore(k)
    /\ Texts(SubSeq(sent, n, Len(sent))) = <<>>
    /\ Ended /\ withheld = <<>> /\ Owed(todo) = <<>>

MarksSent == \A n \in DOMAIN sent : Marked(sent[n]) => MarkSent(n)

TextInv == Conserved /\ MarksDue /\ MarksSent

LEMMA TextInit == Init => TextInv
<1> SUFFICES ASSUME Init PROVE TextInv
  OBVIOUS
<1>1. sent = <<>> /\ todo = <<>> /\ withheld = <<>> /\ fed = <<>>
  BY DEF Init
<1>2. SpokenBefore(Len(fed)) = <<>>
  <2>1. [m \in 1..Len(fed) |-> Words(m)] = <<>>
    BY <1>1
  <2>2. FlattenSeq(<<>>) = <<>>
    BY DEF FlattenSeq
  <2> QED
    BY <2>1, <2>2 DEF SpokenBefore
<1>3. Conserved
  BY <1>1, <1>2, TextsOfNothing DEF Conserved, Owed
<1> QED
  BY <1>1, <1>3 DEF TextInv, MarksDue, MarksSent

\* What an event makes of the text withheld: it passes it on, or adds to it.
Passes(text, spoken, kind, n, out, rest) ==
    /\ Owed(out) \o rest = text \o spoken
    /\ \A i \in DOMAIN out : Marked(out[i]) =>
         kind \in {"completed", "noid", "first"} /\ out[i].data = <<n>> /\ rest = <<>>
    /\ text = <<>> /\ spoken = <<>> => Owed(out) = <<>> /\ rest = <<>>

LEMMA OwedIs ==
    ASSUME NEW N, NEW text \in Seq(1..N), NEW S, NEW v \in S, v.type # "delta"
    PROVE  /\ Owed(Delta(text)) = text
           /\ \A i \in DOMAIN Delta(text) : ~Marked(Delta(text)[i])
           /\ Owed(Append(Delta(text), v)) = text
           /\ \A i \in DOMAIN Append(Delta(text), v) :
                 Marked(Append(Delta(text), v)[i]) => Append(Delta(text), v)[i] = v
<1>1. CASE text = <<>>
  <2>1. Delta(text) = <<>> /\ Append(<<>>, v) = <<v>> /\ Head(<<v>>) = v
    BY <1>1 DEF Delta
  <2> QED
    BY <1>1, <2>1 DEF Owed, TextOf
<1>2. CASE text # <<>>
  <2> DEFINE d == Block("delta", text)
  <2>1. Delta(text) = <<d>> /\ d.type = "delta" /\ d.data = text
    BY <1>2 DEF Delta, Block
  <2> HIDE DEF d
  <2>2. Append(<<d>>, v) = <<d, v>>
    <3>1. d \in S \cup {d} /\ v \in S \cup {d}
      OBVIOUS
    <3> QED
      BY <3>1, TwoOfThem
  <2>3. Head(<<d>>) = d /\ Head(<<d, v>>) = d /\ <<d>> # <<>> /\ <<d, v>> # <<>>
    OBVIOUS
  <2>4. ~Marked(d)
    BY <2>1 DEF Marked
  <2>5. \A i \in DOMAIN <<d>> : <<d>>[i] = d
    OBVIOUS
  <2>6. \A i \in DOMAIN <<d, v>> : <<d, v>>[i] = d \/ <<d, v>>[i] = v
    OBVIOUS
  <2> QED
    BY <2>1, <2>2, <2>3, <2>4, <2>5, <2>6 DEF Owed, TextOf
<1> QED
  BY <1>1, <1>2

LEMMA HealPasses ==
    ASSUME NEW kind \in Kinds, NEW N \in Nat, NEW n \in 1..N, withheld \in Seq(1..N)
    PROVE  Passes(withheld, Spoken(kind, n), kind, n, Heal(kind, n).out, Heal(kind, n).withheld)
<1> DEFINE v == Verbatim(kind, n)
<1>1. v \in Relayable(N) /\ v.data = <<n>> /\ (v.type = IF kind \in {"text", "half"} THEN "delta" ELSE kind)
  BY VerbatimIs
<1>2. \A text \in Seq(1..N) : text \o <<>> = text /\ <<>> \o text = text
  BY ConcatEmptySeq
<1>3. <<>> \in Seq(1..N) /\ <<n>> \in Seq(1..N) /\ Append(withheld, n) \in Seq(1..N)
  OBVIOUS
<1>4. Append(withheld, n) = withheld \o <<n>> /\ Append(withheld, n) # <<>> /\ <<n>> # <<>>
  BY AppendIsConcat, SMTT(30)
<1> HIDE DEF v
<1>5. \A text \in Seq(1..N) : /\ Owed(Delta(text)) = text
                              /\ \A i \in DOMAIN Delta(text) : ~Marked(Delta(text)[i])
  <2>1. \E x : x.type # "delta"
    <3>1. Failed.type # "delta"
      BY DEF Failed, Block
    <3> QED
      BY <3>1
  <2>2. PICK x : x.type # "delta"
    BY <2>1
  <2>3. x \in {x}
    OBVIOUS
  <2> QED
    BY <2>2, <2>3, OwedIs
<1>6. CASE kind = "text"
  <2>1. Heal(kind, n).out = Delta(Append(withheld, n)) /\ Heal(kind, n).withheld = <<>>
    BY <1>6 DEF Heal
  <2>2. Spoken(kind, n) = <<n>>
    BY <1>6 DEF Spoken
  <2>3. Append(withheld, n) \o <<>> = withheld \o <<n>>
    BY <1>2, <1>3, <1>4
  <2> QED
    BY <1>3, <1>4, <1>5, <2>1, <2>2, <2>3 DEF Passes
<1>7. CASE kind = "half"
  <2>1. Heal(kind, n).out = Delta(withheld) /\ Heal(kind, n).withheld = <<n>>
    BY <1>7 DEF Heal
  <2>2. Spoken(kind, n) = <<n>>
    BY <1>7 DEF Spoken
  <2> QED
    BY <1>4, <1>5, <2>1, <2>2 DEF Passes
<1>8. CASE kind \in {"done", "completed", "noid", "first"}
  <2>1. Heal(kind, n).out = Append(Delta(withheld), v) /\ Heal(kind, n).withheld = <<>>
    BY <1>8 DEF Heal, v
  <2>2. Spoken(kind, n) = <<>> /\ v.type = kind /\ v.type # "delta"
    BY <1>1, <1>8 DEF Spoken
  <2>3. /\ Owed(Append(Delta(withheld), v)) = withheld
        /\ \A i \in DOMAIN Append(Delta(withheld), v) :
              Marked(Append(Delta(withheld), v)[i]) => Append(Delta(withheld), v)[i] = v
    BY <1>1, <2>2, OwedIs
  <2> QED
    BY <1>1, <2>1, <2>2, <2>3 DEF Passes, Marked
<1>9. CASE kind \in {"rest", "incomplete", "keepalive"}
  <2>1. Heal(kind, n).out = <<v>> /\ Heal(kind, n).withheld = withheld
    BY <1>9 DEF Heal, v
  <2>2. Spoken(kind, n) = <<>> /\ v.type = kind /\ v.type # "delta" /\ ~Marked(v)
    BY <1>1, <1>9 DEF Spoken, Marked
  <2>3. Owed(<<v>>) = <<>> /\ \A i \in DOMAIN <<v>> : <<v>>[i] = v
    <3>1. Head(<<v>>) = v /\ <<v>> # <<>>
      OBVIOUS
    <3> QED
      BY <2>2, <3>1 DEF Owed, TextOf
  <2>4. <<>> \o withheld = withheld \o <<>>
    BY <1>2
  <2> QED
    BY <2>1, <2>2, <2>3, <2>4 DEF Passes
<1> QED
  BY <1>6, <1>7, <1>8, <1>9 DEF Kinds

LEMMA OwedOfBatch ==
    ASSUME NEW N, NEW s, Batch(s, N) \/ s = <<Failed>>
    PROVE  Owed(s) \in Seq(1..N)
<1>3. <<>> \in Seq(1..N)
  OBVIOUS
<1>4. TextOf(Failed) = <<>>
  BY DEF TextOf, Failed, Block
<1>5. \A b \in Relayable(N) : TextOf(b) \in Seq(1..N)
  BY <1>3 DEF TextOf, Relayable
<1>1. \A b \in Relayable(N) \cup {Failed} : TextOf(b) \in Seq(1..N)
  BY <1>3, <1>4, <1>5
<1>2. s = <<>> \/ Head(s) \in Relayable(N) \cup {Failed}
  <2>1. \A b : Head(<<b>>) = b
    OBVIOUS
  <2>2. \A d, b : Head(<<d, b>>) = d
    OBVIOUS
  <2> QED
    BY <2>1, <2>2 DEF Batch
<1> QED
  BY <1>1, <1>2, <1>3 DEF Owed

\* Only the first block of a batch holds text.
LEMMA OwedOfTail ==
    ASSUME NEW N, NEW s, Batch(s, N) \/ s = <<Failed>>, s # <<>>
    PROVE  /\ Owed(Tail(s)) = <<>>
           /\ \A i \in DOMAIN Tail(s) : i + 1 \in DOMAIN s /\ Tail(s)[i] = s[i + 1]
           /\ 1 \in DOMAIN s /\ Head(s) = s[1]
<1>1. \A b : /\ Tail(<<b>>) = <<>> /\ 1 \in DOMAIN <<b>> /\ Head(<<b>>) = <<b>>[1]
  OBVIOUS
<1>2. CASE \E b : s = <<b>>
  <2>1. Tail(s) = <<>>
    BY <1>1, <1>2
  <2> QED
    BY <1>1, <1>2, <2>1 DEF Owed
<1>3. CASE \E d, b \in Relayable(N) : s = <<d, b>> /\ d.type = "delta" /\ b.type # "delta"
  <2>1. PICK d, b \in Relayable(N) : s = <<d, b>> /\ b.type # "delta"
    BY <1>3
  <2> DEFINE S == Relayable(N)
             t == Tail(s)
  <2>2. s \in Seq(S) /\ Len(s) = 2 /\ s[1] = d /\ s[2] = b /\ s # <<>> /\ Head(s) = d
    BY <2>1
  <2> HIDE DEF S
  <2>3. /\ t \in Seq(S) /\ Len(t) = 2 - 1
        /\ \A i \in 1..Len(t) : t[i] = s[i + 1]
    BY <2>2, HeadTailProperties
  <2> HIDE DEF t
  <2>4. t # <<>> /\ Head(t) = b /\ DOMAIN t = 1..1 /\ t[1] = b /\ DOMAIN s = 1..2
    <3>1. t[1] = s[1 + 1]
      BY <2>3
    <3>2. t # <<>> /\ Head(t) = t[1] /\ DOMAIN t = 1..1 /\ DOMAIN s = 1..2
      BY <2>2, <2>3, SMTT(30)
    <3> QED
      BY <2>2, <3>1, <3>2
  <2>5. Owed(t) = <<>>
    BY <2>1, <2>4 DEF Owed, TextOf
  <2> QED
    BY <2>2, <2>3, <2>4, <2>5 DEF t
<1> QED
  BY <1>2, <1>3 DEF Batch

LEMMA ReadPasses ==
    ASSUME VerdictInv, NEW kind \in Kinds, ReadChunk(kind)
    PROVE  /\ \E like, n : /\ Passes(withheld, Spoken(kind, Len(fed) + 1), like, n, todo', withheld')
                           /\ \/ like = kind /\ n = Len(fed) + 1
                              \/ kind = "rest" /\ n = Len(fed) /\ fed # <<>>
           /\ todo = <<>> /\ Len(fed) < MaxChunks /\ MayFollow(kind)
           /\ fed' = Append(fed, kind) /\ UNCHANGED <<sent, client>>
<1> DEFINE n == Len(fed) + 1
<1>0. /\ TypeOK /\ fed \in Seq(Kinds) /\ Len(fed) \in Nat /\ partial \in BOOLEAN
      /\ (partial => Last(fed) = "first" /\ fed # <<>>)
  BY DEF VerdictInv, Well, TypeOK
<1>1. /\ todo = <<>> /\ Len(fed) < MaxChunks /\ MayFollow(kind)
      /\ fed' = Append(fed, kind) /\ UNCHANGED <<sent, client>>
  BY <1>0 DEF ReadChunk, Waiting, TypeOK, Sending
<1>2. n \in 1..n /\ n \in Nat /\ withheld \in Seq(1..n)
  BY <1>0, SeqWidens DEF TypeOK
<1>3. kind = "rest" => fed # <<>> /\ Len(fed) \in 1..n
  BY <1>0, <1>1 DEF MayFollow
<1>4. CASE ~opts.healed
  <2> DEFINE v == Verbatim(kind, n)
  <2>1. todo' = <<v>> /\ withheld' = <<>> /\ withheld = <<>>
    BY <1>0, <1>4 DEF ReadChunk, TypeOK
  <2>2. v.data = <<n>> /\ (v.type = IF kind \in {"text", "half"} THEN "delta" ELSE kind)
    BY <1>2, VerbatimIs
  <2> HIDE DEF v
  <2>3. Head(<<v>>) = v /\ <<v>> # <<>> /\ \A i \in DOMAIN <<v>> : <<v>>[i] = v
    OBVIOUS
  <2>4. TextOf(v) = Spoken(kind, n)
    BY <2>2 DEF Spoken, TextOf, Kinds
  <2>5. Marked(v) => kind \in {"completed", "noid", "first"}
    BY <2>2 DEF Marked
  <2>6. Spoken(kind, n) \o <<>> = <<>> \o Spoken(kind, n)
    BY DEF Spoken
  <2>7. Passes(withheld, Spoken(kind, n), kind, n, todo', withheld')
    BY <2>1, <2>2, <2>3, <2>4, <2>5, <2>6 DEF Passes, Owed
  <2> QED
    BY <1>1, <2>7
<1>5. CASE opts.healed /\ kind = "first"
  <2>1. todo' = <<>> /\ withheld' = withheld
    BY <1>1, <1>5 DEF ReadChunk
  <2>2. Spoken(kind, n) = <<>>
    BY <1>5 DEF Spoken
  <2>3. <<>> \o withheld = withheld \o <<>>
    BY <1>2, ConcatEmptySeq
  <2>4. Passes(withheld, Spoken(kind, n), kind, n, todo', withheld')
    <3>1. DOMAIN todo' = {} /\ Owed(todo') = <<>>
      BY <2>1 DEF Owed
    <3> QED
      BY <2>1, <2>2, <2>3, <3>1 DEF Passes
  <2> QED
    BY <1>1, <2>4
<1>6. CASE opts.healed /\ kind = "rest"
  <2>1. todo' = Heal("completed", n - 1).out /\ withheld' = Heal("completed", n - 1).withheld
    BY <1>6 DEF ReadChunk, Relay
  <2>2. n - 1 = Len(fed) /\ "completed" \in Kinds
    BY <1>0 DEF Kinds
  <2>3. Spoken(kind, n) = <<>> /\ Spoken("completed", n - 1) = <<>>
    BY <1>6 DEF Spoken
  <2> HIDE DEF n
  <2>4. Passes(withheld, Spoken("completed", n - 1), "completed", n - 1, todo', withheld')
    BY <1>2, <1>3, <1>6, <2>1, <2>2, HealPasses
  <2> QED
    BY <1>1, <1>3, <1>6, <2>2, <2>3, <2>4 DEF n
<1>7. CASE opts.healed /\ kind \notin {"first", "rest"}
  <2>1. todo' = Heal(kind, n).out /\ withheld' = Heal(kind, n).withheld
    BY <1>7 DEF ReadChunk, Relay
  <2> HIDE DEF n
  <2>2. Passes(withheld, Spoken(kind, n), kind, n, todo', withheld')
    BY <1>2, <2>1, HealPasses
  <2> QED
    BY <1>1, <2>2 DEF n
<1> QED
  BY <1>4, <1>5, <1>6, <1>7

\* Once the upstream is at its end, it stays there and says no more.
LEMMA EndedStays ==
    ASSUME NEW kind \in Kinds, fed \in Seq(Kinds), MayFollow(kind), fed' = Append(fed, kind)
    PROVE  /\ Ended => Ended' /\ kind \notin {"text", "half"}
           /\ kind \in {"completed", "noid", "rest", "incomplete", "first"} => Ended'
<1>1. /\ fed' \in Seq(Kinds) /\ Len(fed') = Len(fed) + 1 /\ fed' # <<>> /\ fed'[Len(fed) + 1] = kind
      /\ Len(fed) + 1 \in DOMAIN fed' /\ Len(fed) \in Nat
      /\ \A n \in DOMAIN fed : n \in DOMAIN fed' /\ fed'[n] = fed[n]
  OBVIOUS
<1>2. ToSet(fed) \subseteq ToSet(fed') /\ kind \in ToSet(fed') /\ Last(fed') = kind
  BY <1>1 DEF ToSet, Last
<1> QED
  BY <1>1, <1>2 DEF Ended, MayFollow

LEMMA BlocksHoldText ==
    \A b \in Relayable(MaxChunks) \cup {Failed} : TextOf(b) \in Seq(1..MaxChunks)
<1>1. <<>> \in Seq(1..MaxChunks)
  OBVIOUS
<1>2. TextOf(Failed) = <<>>
  BY DEF TextOf, Failed, Block
<1>3. \A b \in Relayable(MaxChunks) : TextOf(b) \in Seq(1..MaxChunks)
  BY <1>1 DEF TextOf, Relayable
<1> QED
  BY <1>1, <1>2, <1>3

LEMMA TextsOfSent ==
    ASSUME NEW s \in Seq(Relayable(MaxChunks) \cup {Failed})
    PROVE  Texts(s) \in Seq(1..MaxChunks)
<1> DEFINE T == Relayable(MaxChunks) \cup {Failed}
<1>1. Failed \in T
  OBVIOUS
<1>2. Textual(T)
  BY BlocksHoldText DEF Textual
<1> HIDE DEF T
<1> QED
  BY <1>1, <1>2, TextsAppend DEF T

\* Concatenation as a symbol of its own: the provers then do not look inside.
Joined(s, t) == s \o t

LEMMA Regroup ==
    ASSUME NEW T, NEW a \in Seq(T), NEW b \in Seq(T), NEW c \in Seq(T)
    PROVE  Joined(Joined(a, b), c) = Joined(a, Joined(b, c))
BY ConcatAssociative, SMTT(30) DEF Joined

\* A batch and what is withheld after it take the place of what was withheld
\* and what was said since.
LEMMA CarriedOver ==
    ASSUME NEW T, NEW said \in Seq(T), NEW now \in Seq(T), NEW held \in Seq(T),
           NEW old \in Seq(T), NEW spoken \in Seq(T)
    PROVE  Joined(now, held) = Joined(old, spoken)
             => Joined(Joined(said, now), held) = Joined(Joined(said, old), spoken)
<1>1. Joined(Joined(said, now), held) = Joined(said, Joined(now, held))
  BY Regroup
<1>2. Joined(Joined(said, old), spoken) = Joined(said, Joined(old, spoken))
  BY Regroup
<1> QED
  BY <1>1, <1>2, Zenon

\* A batch that passes the text on keeps the invariant.
LEMMA PassingKeeps ==
    ASSUME VerdictInv, VerdictInv', TextInv, todo = <<>>, UNCHANGED <<sent, client>>,
           NEW spoken \in Seq(1..MaxChunks), NEW like, NEW n,
           Passes(withheld, spoken, like, n, todo', withheld'),
           SpokenBefore(Len(fed))' = SpokenBefore(Len(fed)) \o spoken,
           \A k \in 1..Len(fed) : k \in 1..Len(fed') /\ SpokenBefore(k)' = SpokenBefore(k),
           Ended => Ended' /\ spoken = <<>>,
           like \in {"completed", "noid", "first"} =>
             /\ Ended' /\ n \in 1..Len(fed')
             /\ n = Len(fed') \/ (n = Len(fed') - 1 /\ fed'[Len(fed')] = "rest")
    PROVE  TextInv'
<1>1. /\ sent \in Seq(Relayable(MaxChunks) \cup {Failed}) /\ Texts(sent) \in Seq(1..MaxChunks)
      /\ withheld \in Seq(1..MaxChunks) /\ withheld' \in Seq(1..MaxChunks)
      /\ Owed(todo') \in Seq(1..MaxChunks) /\ Owed(todo) = <<>>
  <2>1. /\ Well /\ Well' /\ Len(fed) \in Nat /\ Len(fed') \in Nat /\ MaxChunks \in Nat
        /\ Len(fed) <= MaxChunks /\ Len(fed') <= MaxChunks
    <3>1. Well /\ Well' /\ MaxChunks \in Nat
      BY PassthroughAssumption DEF VerdictInv
    <3>2. fed \in Seq(Kinds) /\ fed' \in Seq(Kinds)
      BY <3>1 DEF Well, TypeOK
    <3>3. Len(fed) <= MaxChunks /\ Len(fed') <= MaxChunks
      BY <3>1 DEF Well, TypeOK
    <3> QED
      BY <3>1, <3>2, <3>3
  <2>2. sent \in Seq(Relayable(MaxChunks) \cup {Failed})
    BY SentIs
  <2>3. Batch(todo', MaxChunks) \/ todo' = <<Failed>>
    BY <2>1 DEF Well, TypeOK, Sending, Batch
  <2>4. withheld \in Seq(1..MaxChunks) /\ withheld' \in Seq(1..MaxChunks)
    BY <2>1, SeqWidens DEF Well, TypeOK
  <2> QED
    BY <2>2, <2>3, <2>4, TextsOfSent, OwedOfBatch DEF Owed
<1>2. Conserved'
  <2> SUFFICES ASSUME client = "reading"
               PROVE  (Texts(sent) \o Owed(todo')) \o withheld' = SpokenBefore(Len(fed))'
    BY DEF Conserved
  <2>1. (Texts(sent) \o <<>>) \o withheld = SpokenBefore(Len(fed))
    BY <1>1 DEF TextInv, Conserved
  <2>2. Owed(todo') \o withheld' = withheld \o spoken
    BY DEF Passes
  <2> DEFINE said == Texts(sent)
             now == Owed(todo')
             T == 1..MaxChunks
  <2>3. /\ said \in Seq(T) /\ now \in Seq(T) /\ withheld \in Seq(T)
        /\ withheld' \in Seq(T) /\ spoken \in Seq(T)
    BY <1>1
  <2>4. Joined(now, withheld') = Joined(withheld, spoken)
    BY <2>2 DEF Joined
  <2> HIDE DEF said, now, T
  <2>5. Joined(Joined(said, now), withheld') = Joined(Joined(said, withheld), spoken)
    BY <2>4, <2>3, CarriedOver
  <2>6. Texts(sent) \o <<>> = Texts(sent)
    BY <1>1, ConcatEmptySeq
  <2> QED
    BY <2>1, <2>5, <2>6 DEF said, now, Joined
<1>3. MarksDue'
  <2> SUFFICES ASSUME NEW i \in DOMAIN todo', Marked(todo'[i])
               PROVE  withheld' = <<>> /\ Ended' /\ Closes(todo[i])'
    BY DEF MarksDue
  <2>1. like \in {"completed", "noid", "first"} /\ todo'[i].data = <<n>> /\ withheld' = <<>>
    BY DEF Passes
  <2> QED
    BY <2>1 DEF Closes
<1>4. MarksSent'
  <2> SUFFICES ASSUME NEW i \in DOMAIN sent, Marked(sent[i]) PROVE MarkSent(i)'
    BY DEF MarksSent
  <2>1. MarkSent(i)
    BY DEF TextInv, MarksSent
  <2>2. Owed(todo') = <<>> /\ withheld' = <<>> /\ Ended'
    BY <2>1 DEF MarkSent, Passes
  <2> QED
    BY <2>1, <2>2 DEF MarkSent
<1> QED
  BY <1>2, <1>3, <1>4 DEF TextInv

\* The client is sent one block more.
LEMMA SendingKeeps == VerdictInv /\ TextInv /\ SendBlock => TextInv'
<1> SUFFICES ASSUME VerdictInv, TextInv, SendBlock PROVE TextInv'
  OBVIOUS
<1> DEFINE T == Relayable(MaxChunks) \cup {Failed}
           S == Seq(1..MaxChunks)
           N == Len(sent)
<1>1. /\ todo # <<>> /\ client = "reading" /\ client' = "reading" /\ todo' = Tail(todo)
      /\ sent' = Append(sent, Head(todo)) /\ UNCHANGED <<fed, withheld>>
  BY DEF SendBlock, Sending, VerdictInv, Well, TypeOK
<1>2. (Batch(todo, MaxChunks) \/ todo = <<Failed>>) /\ withheld \in S
  <2>1. Well /\ Len(fed) \in Nat /\ MaxChunks \in Nat /\ Len(fed) <= MaxChunks
    BY PassthroughAssumption DEF VerdictInv, Well, TypeOK
  <2>2. withheld \in S
    BY <2>1, SeqWidens DEF Well, TypeOK
  <2> QED
    BY <1>1, <2>1, <2>2 DEF Well, TypeOK, Sending, Batch
<1>3. /\ Owed(todo') = <<>>
      /\ \A i \in DOMAIN todo' : i + 1 \in DOMAIN todo /\ todo'[i] = todo[i + 1]
      /\ 1 \in DOMAIN todo /\ Head(todo) = todo[1]
  BY <1>1, <1>2, OwedOfTail
<1> DEFINE e == Head(todo)
<1>4. Owed(todo) = TextOf(e)
  BY <1>1 DEF Owed
<1>5. sent \in Seq(T) /\ e \in T /\ N \in Nat
  <2>1. e \in T
    <3>1. \A b : Head(<<b>>) = b
      OBVIOUS
    <3> QED
      BY <1>1, <1>2, <3>1, HeadTail
  <2>2. sent \in Seq(T)
    BY SentIs
  <2> HIDE DEF T
  <2> QED
    BY <2>1, <2>2
<1>6. Textual(T)
  BY BlocksHoldText DEF Textual
<1>7. TextOf(e) \in S
  BY <1>5, <1>6 DEF Textual
<1> HIDE DEF T, S, e
<1>8. /\ sent' \in Seq(T) /\ Len(sent') = N + 1 /\ sent'[N + 1] = e
      /\ \A i \in 1..N : sent'[i] = sent[i]
  BY <1>1, <1>5 DEF e
<1>9. Texts(sent) \in S /\ Texts(sent') = Texts(sent) \o TextOf(e)
  BY <1>1, <1>5, <1>6, TextsAppend DEF e, S
<1>14. \A s \in Seq(T) : Texts(Append(s, e)) = Texts(s) \o TextOf(e)
  BY <1>5, <1>6, TextsAppend
<1>10. Conserved'
  <2>1. Texts(sent') \o <<>> = Texts(sent')
    <3>1. Texts(sent') \in S
      BY <1>7, <1>9 DEF S
    <3> QED
      BY <3>1, ConcatEmptySeq DEF S
  <2>2. Texts(sent') \o withheld = SpokenBefore(Len(fed))
    BY <1>1, <1>4, <1>9 DEF TextInv, Conserved
  <2>3. SpokenBefore(Len(fed))' = SpokenBefore(Len(fed))
    BY <1>1 DEF SpokenBefore, Words
  <2> QED
    BY <1>1, <1>3, <2>1, <2>2, <2>3 DEF Conserved
<1>11. MarksDue'
  <2> SUFFICES ASSUME NEW i \in DOMAIN todo', Marked(todo'[i])
               PROVE  withheld' = <<>> /\ Ended' /\ Closes(todo[i])'
    BY DEF MarksDue
  <2>1. i + 1 \in DOMAIN todo /\ todo'[i] = todo[i + 1]
    BY <1>3
  <2> QED
    BY <1>1, <2>1 DEF TextInv, MarksDue, Ended, Closes
<1>12. \A k : SpokenBefore(k)' = SpokenBefore(k)
  BY <1>1 DEF SpokenBefore, Words
<1>13. ASSUME NEW i \in DOMAIN sent', Marked(sent'[i]) PROVE MarkSent(i)'
  <2>0. Ended' <=> Ended
    BY <1>1 DEF Ended
  <2>1. CASE i # N + 1
    <3>1. i \in 1..N /\ i \in 1..(N + 1) /\ i \in DOMAIN sent
      BY <1>5, <1>8, <2>1
    <3>2. MarkSent(i)
      BY <1>8, <1>13, <3>1 DEF TextInv, MarksSent
    <3>3. SubSeq(sent', 1, i) = SubSeq(sent, 1, i)
      <4>1. sent' = sent \o <<e>> /\ <<e>> \in Seq(T) /\ 1 \in 1..N
        BY <1>1, <1>5, <3>1, AppendIsConcat DEF e
      <4> QED
        BY <1>5, <3>1, <4>1, SubSeqOfConcat1
    <3>4. SubSeq(sent', i, N + 1) = Append(SubSeq(sent, i, N), e) /\ SubSeq(sent, i, N) \in Seq(T)
      <4>1. SubSeq(sent', i, N + 1) = Append(SubSeq(sent, i, N), e)
        BY <1>1, <1>5, <3>1, SubSeqAppend DEF e
      <4>2. N \in (i - 1)..Len(sent)
        BY <1>5, <3>1
      <4> QED
        BY <1>5, <3>1, <4>1, <4>2, SubSeqProperties, SMTT(30)
    <3>5. Texts(SubSeq(sent', i, N + 1)) = <<>>
      <4>1. Texts(SubSeq(sent, i, N)) = <<>> /\ TextOf(e) = <<>>
        BY <1>4, <3>2 DEF MarkSent
      <4>2. Texts(SubSeq(sent', i, N + 1)) = Texts(SubSeq(sent, i, N)) \o TextOf(e)
        BY <1>14, <3>4
      <4>3. <<>> \o <<>> = <<>>
        OBVIOUS
      <4> QED
        BY <4>1, <4>2, <4>3
    <3> QED
      BY <1>1, <1>3, <1>8, <1>12, <2>0, <3>1, <3>2, <3>3, <3>5 DEF MarkSent
  <2>2. CASE i = N + 1
    <3>1. Marked(e) /\ e = todo[1] /\ 1 \in DOMAIN todo
      BY <1>3, <1>8, <1>13, <2>2 DEF e
    <3>2. withheld = <<>> /\ Ended /\ Closes(e)
      BY <3>1 DEF TextInv, MarksDue
    <3>3. TextOf(e) = <<>>
      BY <3>1 DEF TextOf, Marked
    <3>4. PICK k \in 1..Len(fed) : /\ e.data = <<k>>
                                   /\ k = Len(fed) \/ (k = Len(fed) - 1 /\ fed[Len(fed)] = "rest")
      BY <3>2 DEF Closes
    <3>5. fed \in Seq(Kinds) /\ Len(fed) \in Nat /\ Len(fed) <= MaxChunks /\ MaxChunks \in Nat
      BY PassthroughAssumption DEF VerdictInv, Well, TypeOK
    <3>6. SpokenBefore(k) = SpokenBefore(Len(fed))
      <4>1. CASE k = Len(fed)
        BY <4>1
      <4>2. CASE k = Len(fed) - 1 /\ fed[Len(fed)] = "rest"
        <5>1. k \in Nat /\ k < MaxChunks /\ k + 1 = Len(fed)
          BY <3>5, <4>2
        <5>2. SpokenBefore(k) \in Seq(1..MaxChunks) /\ SpokenBefore(k + 1) = SpokenBefore(k) \o Words(k + 1)
          BY <3>5, <5>1, SpokenGrows
        <5>3. Words(k + 1) = <<>>
          BY <4>2, <5>1 DEF Words
        <5> QED
          BY <5>1, <5>2, <5>3, ConcatEmptySeq
      <4> QED
        BY <3>4, <4>1, <4>2
    <3>7. Texts(sent') = SpokenBefore(Len(fed))
      <4>1. (Texts(sent) \o <<>>) \o <<>> = SpokenBefore(Len(fed))
        BY <1>1, <1>4, <3>2, <3>3 DEF TextInv, Conserved
      <4>2. Texts(sent) \o <<>> = Texts(sent)
        BY <1>9, ConcatEmptySeq DEF S
      <4> QED
        BY <1>9, <3>3, <4>1, <4>2
    <3>8. SubSeq(sent', 1, N + 1) = sent'
      BY <1>8, SubSeqFull
    <3>9. Texts(SubSeq(sent', N + 1, N + 1)) = <<>>
      <4>1. N + 1 \in 1..(N + 1) /\ N \in Nat
        BY <1>5
      <4>2. SubSeq(sent', N + 1, N + 1) = Append(SubSeq(sent, N + 1, N), e)
        BY <1>1, <1>5, <4>1, SubSeqAppend DEF e
      <4>3. SubSeq(sent, N + 1, N) = <<>>
        BY <1>5, <4>1, SubSeqEmpty
      <4>4. Texts(Append(<<>>, e)) = Texts(<<>>) \o TextOf(e)
        <5>1. <<>> \in Seq(T)
          OBVIOUS
        <5> QED
          BY <1>14, <5>1
      <4>5. <<>> \o <<>> = <<>>
        OBVIOUS
      <4> QED
        BY <3>3, <4>2, <4>3, <4>4, <4>5, TextsOfNothing
    <3> QED
      BY <1>1, <1>3, <1>8, <1>12, <2>0, <2>2, <3>2, <3>4, <3>6, <3>7, <3>8, <3>9 DEF MarkSent
  <2> QED
    BY <2>1, <2>2
<1> QED
  BY <1>10, <1>11, <1>13 DEF TextInv, MarksSent

LEMMA TextStep == VerdictInv /\ VerdictInv' /\ TextInv /\ [Next]_vars => TextInv'
<1> SUFFICES ASSUME VerdictInv, VerdictInv', TextInv, [Next]_vars PROVE TextInv'
  OBVIOUS
<1>0. /\ fed \in Seq(Kinds) /\ Len(fed) \in Nat /\ Len(fed) <= MaxChunks /\ MaxChunks \in Nat
      /\ withheld \in Seq(1..Len(fed)) /\ withheld \in Seq(1..MaxChunks)
      /\ (pc \in {"relaying", "flushing", "failing"} <=> todo # <<>>)
  <2>1. /\ fed \in Seq(Kinds) /\ Len(fed) \in Nat /\ Len(fed) <= MaxChunks /\ MaxChunks \in Nat
        /\ withheld \in Seq(1..Len(fed)) /\ (pc \in {"relaying", "flushing", "failing"} <=> todo # <<>>)
    BY PassthroughAssumption DEF VerdictInv, Well, TypeOK, Sending
  <2> QED
    BY <2>1, SeqWidens
<1>1. CASE SendBlock
  BY <1>1, SendingKeeps
<1>2. CASE SendFails
  <2>1. todo' = <<>> /\ client' = "gone" /\ UNCHANGED <<sent, fed, withheld>>
    BY <1>2 DEF SendFails
  <2>2. \A k : SpokenBefore(k)' = SpokenBefore(k)
    BY <2>1 DEF SpokenBefore, Words
  <2>3. Conserved' /\ MarksDue'
    BY <2>1 DEF Conserved, MarksDue
  <2>4. MarksSent'
    BY <2>1, <2>2 DEF TextInv, MarksSent, MarkSent, Ended, Owed
  <2> QED
    BY <2>3, <2>4 DEF TextInv
<1>3. ASSUME UNCHANGED <<todo, sent, fed, withheld>>, client' = "reading" => client = "reading"
      PROVE  TextInv'
  <2>1. \A k : SpokenBefore(k)' = SpokenBefore(k)
    BY <1>3 DEF SpokenBefore, Words
  <2>2. SpokenBefore(Len(fed))' = SpokenBefore(Len(fed))
    BY <1>3 DEF SpokenBefore, Words
  <2>3. Conserved'
    BY <1>3, <2>2 DEF TextInv, Conserved
  <2>4. MarksDue'
    BY <1>3 DEF TextInv, MarksDue, Ended, Closes
  <2>5. MarksSent'
    BY <1>3, <2>1 DEF TextInv, MarksSent, MarkSent, Ended
  <2> QED
    BY <2>3, <2>4, <2>5 DEF TextInv
<1>4. ASSUME UNCHANGED <<fed, sent, client>>, todo = <<>>, NEW like, NEW n,
             Passes(withheld, <<>>, like, n, todo', withheld'),
             like \in {"completed", "noid", "first"} => Ended /\ n \in 1..Len(fed) /\ n = Len(fed)
      PROVE  TextInv'
  <2>1. \A k : SpokenBefore(k)' = SpokenBefore(k)
    BY <1>4 DEF SpokenBefore, Words
  <2>2. SpokenBefore(Len(fed))' = SpokenBefore(Len(fed)) /\ SpokenBefore(Len(fed)) \in Seq(1..MaxChunks)
    <3>1. SpokenBefore(Len(fed))' = SpokenBefore(Len(fed))
      BY <1>4 DEF SpokenBefore, Words
    <3> QED
      BY <1>0, <3>1, SpokenType
  <2>3. SpokenBefore(Len(fed))' = SpokenBefore(Len(fed)) \o <<>>
    BY <2>2, ConcatEmptySeq
  <2>4. <<>> \in Seq(1..MaxChunks)
    OBVIOUS
  <2>5. Ended' <=> Ended
    BY <1>4 DEF Ended
  <2> QED
    BY <1>4, <2>1, <2>3, <2>4, <2>5, PassingKeeps
<1>5. ASSUME NEW kind \in Kinds, ReadChunk(kind) PROVE TextInv'
  <2> DEFINE N == Len(fed)
             said == Spoken(kind, N + 1)
  <2>1. /\ todo = <<>> /\ N < MaxChunks /\ MayFollow(kind)
        /\ fed' = Append(fed, kind) /\ UNCHANGED <<sent, client>>
    BY <1>5, ReadPasses
  <2>2. PICK like, n : /\ Passes(withheld, said, like, n, todo', withheld')
                       /\ \/ like = kind /\ n = N + 1
                          \/ kind = "rest" /\ n = N /\ fed # <<>>
    BY <1>5, ReadPasses
  <2>3. said \in Seq(1..MaxChunks)
    <3>1. N + 1 \in 1..MaxChunks
      BY <1>0, <2>1
    <3>2. <<N + 1>> \in Seq(1..MaxChunks) /\ <<>> \in Seq(1..MaxChunks)
      BY <3>1
    <3> QED
      BY <3>2 DEF Spoken
  <2>4. SpokenBefore(Len(fed))' = SpokenBefore(Len(fed)) \o said
    BY <1>0, <2>1, SpokenMore
  <2>5. Len(fed') = N + 1 /\ fed'[N + 1] = kind
    BY <1>0, <2>1
  <2>6. \A k \in 1..Len(fed) : k \in 1..Len(fed') /\ SpokenBefore(k)' = SpokenBefore(k)
    <3> SUFFICES ASSUME NEW k \in 1..Len(fed)
                 PROVE  k \in 1..Len(fed') /\ SpokenBefore(k)' = SpokenBefore(k)
      OBVIOUS
    <3>1. k \in 0..Len(fed) /\ k \in 1..Len(fed')
      BY <1>0, <2>5
    <3> QED
      BY <1>0, <2>1, <3>1, SpokenBeforeStays
  <2>7. /\ Ended => Ended' /\ kind \notin {"text", "half"}
        /\ kind \in {"completed", "noid", "rest", "incomplete", "first"} => Ended'
    BY <1>0, <2>1, EndedStays
  <2>8. Ended => Ended' /\ said = <<>>
    BY <2>7 DEF Spoken
  <2>9. like \in {"completed", "noid", "first"} =>
          /\ Ended' /\ n \in 1..Len(fed')
          /\ n = Len(fed') \/ (n = Len(fed') - 1 /\ fed'[Len(fed')] = "rest")
    <3>1. fed # <<>> => N \in 1..(N + 1) /\ N = (N + 1) - 1
      BY <1>0
    <3>2. N + 1 \in 1..(N + 1)
      BY <1>0
    <3> QED
      BY <2>2, <2>5, <2>7, <3>1, <3>2
  <2> HIDE DEF said
  <2> QED
    BY <2>1, <2>2, <2>3, <2>4, <2>6, <2>8, <2>9, PassingKeeps
<1>6. CASE ReadEnd
  <2>1. CASE ~partial
    BY <1>3, <1>6, <2>1 DEF ReadEnd
  <2>2. CASE partial
    <3> DEFINE n == Len(fed)
    <3>1. Last(fed) = "first" /\ fed # <<>>
      BY <2>2 DEF VerdictInv, Well, TypeOK
    <3>2. n \in 1..n /\ n \in Nat /\ "first" \in Kinds /\ Ended
      BY <1>0, <3>1 DEF Kinds, Ended
    <3>3. /\ todo' = Heal("first", n).out /\ withheld' = Heal("first", n).withheld
          /\ todo = <<>> /\ UNCHANGED <<fed, sent, client>>
      BY <1>0, <1>6, <2>2 DEF ReadEnd, Relay, Waiting
    <3>4. Spoken("first", n) = <<>>
      BY DEF Spoken
    <3>5. withheld \in Seq(1..n)
      BY <1>0
    <3> HIDE DEF n
    <3>6. Passes(withheld, <<>>, "first", n, todo', withheld')
      BY <3>2, <3>3, <3>4, <3>5, HealPasses
    <3> QED
      BY <1>4, <3>2, <3>3, <3>6 DEF n
  <2> QED
    BY <2>1, <2>2
<1>7. CASE Finish
  <2>1. /\ todo = <<>> /\ todo' = Delta(withheld) /\ withheld' = <<>> /\ UNCHANGED <<fed, sent, client>>
    BY <1>0, <1>7 DEF Finish
  <2>2. Owed(todo') = withheld /\ \A i \in DOMAIN todo' : ~Marked(todo'[i])
    <3>1. Failed.type # "delta" /\ Failed \in {Failed}
      BY DEF Failed, Block
    <3> QED
      BY <1>0, <2>1, <3>1, OwedIs
  <2>3. Passes(withheld, <<>>, "none", 0, todo', withheld')
    BY <2>1, <2>2 DEF Passes
  <2> QED
    BY <1>4, <2>1, <2>3
<1>8. CASE Record
  <2>1. CASE GivenUp
    <3>1. todo = <<>> /\ todo' = <<Failed>> /\ UNCHANGED <<fed, sent, client, withheld>>
      BY <1>0, <1>8, <2>1 DEF Record
    <3>2. Owed(<<Failed>>) = <<>> /\ \A i \in DOMAIN <<Failed>> : ~Marked(<<Failed>>[i])
      <4>1. Failed.type = "failed"
        BY DEF Failed, Block
      <4>2. Head(<<Failed>>) = Failed /\ <<Failed>> # <<>> /\ \A i \in DOMAIN <<Failed>> : <<Failed>>[i] = Failed
        OBVIOUS
      <4> QED
        BY <4>1, <4>2 DEF Owed, TextOf, Marked
    <3>3. <<>> \o withheld = withheld \o <<>>
      BY <1>0, ConcatEmptySeq
    <3>4. Passes(withheld, <<>>, "none", 0, todo', withheld')
      BY <3>1, <3>2, <3>3 DEF Passes
    <3> QED
      BY <1>4, <3>1, <3>4
  <2>2. CASE ~GivenUp
    BY <1>3, <1>8, <2>2 DEF Record
  <2> QED
    BY <2>1, <2>2
<1>9. CASE ReadNothing \/ IdleTimeout \/ SaveSession \/ Tick \/ ReadBreak
  BY <1>3, <1>9 DEF ReadNothing, IdleTimeout, SaveSession, Tick, ReadBreak
<1>10. CASE Stall \/ Receive \/ Disconnect \/ UNCHANGED vars
  BY <1>3, <1>10 DEF Stall, Receive, Disconnect, vars
<1> QED
  BY <1>1, <1>2, <1>5, <1>6, <1>7, <1>8, <1>9, <1>10 DEF Next, Task, Upstream

\* Whatever the filters withheld on the way (the streaming task with
\* ResponsesStreamHealer, src/proxy/passthrough.rs:358-426), the client has all
\* of the text once it is sent a terminal, and a turn stored or counted a success
\* is one whose response.completed it was sent.
THEOREM StoredWasSentHolds == FairSpec => []StoredWasSent
<1>1. VerdictInv /\ TextInv => StoredWasSent
  <2> SUFFICES ASSUME VerdictInv, TextInv PROVE StoredWasSent
    OBVIOUS
  <2>1. ASSUME NEW n \in DOMAIN sent, Marked(sent[n])
        PROVE  /\ Texts(SubSeq(sent, 1, n)) = SpokenBefore(Last(sent[n].data))
               /\ Texts(SubSeq(sent, n, Len(sent))) = <<>>
    <3>1. MarkSent(n)
      BY <2>1 DEF TextInv, MarksSent
    <3>2. PICK k \in 1..Len(fed) :
            sent[n].data = <<k>> /\ Texts(SubSeq(sent, 1, n)) = SpokenBefore(k)
      BY <3>1 DEF MarkSent
    <3>3. Last(<<k>>) = k
      BY DEF Last
    <3> QED
      BY <3>1, <3>2, <3>3 DEF MarkSent
  <2>2. ASSUME stored # NoTurn \/ outcome = "empty"
        PROVE  Captured(sent) # NoTurn /\ stored \in {NoTurn, Captured(sent)}
    <3>1. Judged
      BY DEF VerdictInv
    <3>2. outcome = "empty" => Captured(raw) # NoTurn
      BY <3>1 DEF Judged, ErrorClass, SawCompleted
    <3>3. stored # NoTurn => stored = Captured(raw)
      BY <3>1 DEF Judged
    <3> QED
      BY <2>2, <3>2, <3>3, CapturedFromSent
  <2> QED
    BY <2>1, <2>2 DEF StoredWasSent
<1>2. Init => VerdictInv /\ TextInv
  BY VerdictInit, TextInit
<1>3. VerdictInv /\ TextInv /\ [Next]_vars => VerdictInv' /\ TextInv'
  BY VerdictStep, TextStep
<1> QED
  BY <1>1, <1>2, <1>3, PTL DEF FairSpec
=============================================================================
