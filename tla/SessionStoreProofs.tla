------------------------- MODULE SessionStoreProofs -------------------------
(***************************************************************************)
(* Proofs about SessionStore, for any turns, ids, sizes and limits, and a  *)
(* clock that may move in any way.                                         *)
(***************************************************************************)
EXTENDS SessionStore, FiniteSetTheorems, SequenceTheorems, WellFoundedInduction, TLAPS

-----------------------------------------------------------------------------
(* Induction over finite sets *)

LEMMA LeastNatural ==
    ASSUME NEW T, T \subseteq Nat, T # {}
    PROVE  \E x \in T : \A y \in T : x <= y
<1>1. PICK x \in T : \A y \in T : ~(<<y, x>> \in OpToRel(<, Nat))
  BY NatLessThanWellFounded, WFMin
<1>2. ASSUME NEW y \in T PROVE x <= y
  <2>1. ~(y < x)
    BY <1>1 DEF OpToRel
  <2> QED
    BY <2>1
<1> QED
  BY <1>2

\* Of finitely many or infinitely many finite sets one is smallest: taking any
\* element out of it leaves a set that is not among them.
LEMMA SmallestSet ==
    ASSUME NEW C, \A s \in C : IsFiniteSet(s), C # {}
    PROVE  \E s \in C : \A x \in s : s \ {x} \notin C
<1> DEFINE T == {Cardinality(s) : s \in C}
<1>1. T \subseteq Nat /\ T # {}
  BY FS_CardinalityType
<1>2. PICK n \in T : \A m \in T : n <= m
  BY <1>1, LeastNatural
<1>3. PICK s \in C : n = Cardinality(s)
  BY <1>2
<1>4. ASSUME NEW x \in s, s \ {x} \in C PROVE FALSE
  <2>1. Cardinality(s \ {x}) = Cardinality(s) - 1
    BY <1>3, FS_RemoveElement
  <2>2. Cardinality(s) <= Cardinality(s \ {x})
    BY <1>2, <1>3, <1>4
  <2> QED
    BY <1>3, <2>1, <2>2, FS_CardinalityType
<1> QED
  BY <1>4

-----------------------------------------------------------------------------
(* What the fold over a set computes *)

Pick(s) == CHOOSE x \in s : TRUE

\* `f` sums the weights W over the subsets of D, the way MapThenFoldSet does.
IsSum(f, W, D) ==
    f = [s \in SUBSET D |-> IF s = {} THEN 0 ELSE W[Pick(s)] + f[s \ {Pick(s)}]]

\* Two such functions agree where they have the same weights.
LEMMA SumsAgree ==
    ASSUME NEW D, NEW E, NEW W, NEW V, NEW f, NEW g, IsFiniteSet(D),
           IsSum(f, W, D), IsSum(g, V, E),
           \A x \in D \cap E : W[x] = V[x]
    PROVE  \A s \in SUBSET (D \cap E) : f[s] = g[s]
<1> DEFINE C == {s \in SUBSET (D \cap E) : f[s] # g[s]}
<1>1. ASSUME C # {} PROVE FALSE
  <2>1. \A s \in C : IsFiniteSet(s)
    BY FS_Subset
  <2>2. PICK s \in C : \A x \in s : s \ {x} \notin C
    BY <1>1, <2>1, SmallestSet
  <2>3. s # {}
    BY <2>2 DEF IsSum
  <2>4. Pick(s) \in s
    BY <2>3 DEF Pick
  <2>5. f[s \ {Pick(s)}] = g[s \ {Pick(s)}]
    BY <2>2, <2>4
  <2>6. f[s] = W[Pick(s)] + f[s \ {Pick(s)}]
    BY <2>3 DEF IsSum
  <2>7. g[s] = V[Pick(s)] + g[s \ {Pick(s)}]
    BY <2>3 DEF IsSum
  <2> QED
    BY <2>4, <2>5, <2>6, <2>7
<1> QED
  BY <1>1

LEMMA SumExists ==
    ASSUME NEW D, NEW W, IsFiniteSet(D)
    PROVE  \E f : IsSum(f, W, D)
<1> DEFINE C == {E \in SUBSET D : ~\E f : IsSum(f, W, E)}
<1>1. ASSUME C # {} PROVE FALSE
  <2>1. \A E \in C : IsFiniteSet(E)
    BY FS_Subset
  <2>2. PICK E \in C : \A x \in E : E \ {x} \notin C
    BY <1>1, <2>1, SmallestSet
  <2> DEFINE F(s) == CHOOSE f : IsSum(f, W, s)
             g == [s \in SUBSET E |-> IF s = {} THEN 0
                                      ELSE W[Pick(s)] + F(s \ {Pick(s)})[s \ {Pick(s)}]]
  <2>3. ASSUME NEW s \in SUBSET E, s # E PROVE IsSum(F(s), W, s)
    <3>1. PICK x \in E : x \notin s
      BY <2>3
    <3>2. E \ {x} \notin C /\ E \ {x} \in SUBSET D
      BY <2>2
    <3>3. PICK f : IsSum(f, W, E \ {x})
      BY <3>2
    <3>4. s \in SUBSET (E \ {x})
      BY <3>1
    <3> DEFINE h == [r \in SUBSET s |-> f[r]]
    <3>5. IsSum(h, W, s)
      <4>1. ASSUME NEW r \in SUBSET s
            PROVE  h[r] = IF r = {} THEN 0 ELSE W[Pick(r)] + h[r \ {Pick(r)}]
        <5>1. f[r] = IF r = {} THEN 0 ELSE W[Pick(r)] + f[r \ {Pick(r)}]
          BY <3>3, <3>4 DEF IsSum
        <5> QED
          BY <5>1
      <4>2. h = [r \in SUBSET s |-> h[r]]
        OBVIOUS
      <4> HIDE DEF h
      <4> QED
        BY <4>1, <4>2 DEF IsSum
    <3> QED
      BY <3>5
  <2>4. ASSUME NEW s \in SUBSET E, s # E PROVE g[s] = F(s)[s]
    <3>1. IsSum(F(s), W, s)
      BY <2>3, <2>4
    <3>2. CASE s = {}
      BY <3>1, <3>2 DEF IsSum
    <3>3. CASE s # {}
      <4>1. Pick(s) \in s
        BY <3>3 DEF Pick
      <4> DEFINE r == s \ {Pick(s)}
      <4>2. r \in SUBSET E /\ r # E
        BY <4>1
      <4>3. IsSum(F(r), W, r)
        BY <4>2, <2>3
      <4>4. IsFiniteSet(s)
        BY FS_Subset
      <4> HIDE DEF F
      <4>5. \A q \in SUBSET (s \cap r) : F(s)[q] = F(r)[q]
        BY <3>1, <4>3, <4>4, SumsAgree
      <4>6. F(s)[r] = F(r)[r]
        BY <4>5
      <4>7. F(s)[s] = W[Pick(s)] + F(s)[r]
        BY <3>1, <3>3 DEF IsSum
      <4> QED
        BY <4>6, <4>7, <3>3
    <3> QED
      BY <3>2, <3>3
  <2>5. ASSUME NEW s \in SUBSET E
        PROVE  g[s] = IF s = {} THEN 0 ELSE W[Pick(s)] + g[s \ {Pick(s)}]
    <3>1. CASE s = {}
      BY <3>1
    <3>2. CASE s # {}
      <4>1. Pick(s) \in s
        BY <3>2 DEF Pick
      <4>2. s \ {Pick(s)} \in SUBSET E /\ s \ {Pick(s)} # E
        BY <4>1
      <4>3. g[s \ {Pick(s)}] = F(s \ {Pick(s)})[s \ {Pick(s)}]
        BY <4>2, <2>4
      <4> HIDE DEF F
      <4> QED
        BY <4>3, <3>2
    <3> QED
      BY <3>1, <3>2
  <2>6. IsSum(g, W, E)
    <3>1. g = [s \in SUBSET E |-> g[s]]
      OBVIOUS
    <3> HIDE DEF g
    <3> QED
      BY <3>1, <2>5 DEF IsSum
  <2> QED
    BY <2>6, <2>2
<1>2. D \notin C
  BY <1>1
<1> QED
  BY <1>2

LEMMA SumNat ==
    ASSUME NEW D, IsFiniteSet(D), NEW W, \A x \in D : W[x] \in Nat, NEW f, IsSum(f, W, D)
    PROVE  \A s \in SUBSET D : f[s] \in Nat
<1> DEFINE C == {s \in SUBSET D : f[s] \notin Nat}
<1>1. ASSUME C # {} PROVE FALSE
  <2>1. \A s \in C : IsFiniteSet(s)
    BY FS_Subset
  <2>2. PICK s \in C : \A x \in s : s \ {x} \notin C
    BY <1>1, <2>1, SmallestSet
  <2>3. s # {}
    BY <2>2 DEF IsSum
  <2>4. Pick(s) \in s
    BY <2>3 DEF Pick
  <2>5. f[s \ {Pick(s)}] \in Nat
    BY <2>2, <2>4
  <2>6. f[s] = W[Pick(s)] + f[s \ {Pick(s)}]
    BY <2>3 DEF IsSum
  <2> QED
    BY <2>2, <2>4, <2>5, <2>6
<1> QED
  BY <1>1

\* Any element can be taken out, not only the one the fold picks.
LEMMA SumTakesAny ==
    ASSUME NEW D, IsFiniteSet(D), NEW W, \A x \in D : W[x] \in Nat, NEW f, IsSum(f, W, D)
    PROVE  \A s \in SUBSET D : \A x \in s : f[s] = W[x] + f[s \ {x}]
<1> DEFINE C == {s \in SUBSET D : ~\A x \in s : f[s] = W[x] + f[s \ {x}]}
<1>1. ASSUME C # {} PROVE FALSE
  <2>1. \A s \in C : IsFiniteSet(s)
    BY FS_Subset
  <2>2. PICK s \in C : \A x \in s : s \ {x} \notin C
    BY <1>1, <2>1, SmallestSet
  <2>3. PICK x \in s : f[s] # W[x] + f[s \ {x}]
    BY <2>2
  <2> DEFINE p == Pick(s)
  <2>4. p \in s
    BY <2>3 DEF Pick
  <2>5. f[s] = W[p] + f[s \ {p}]
    BY <2>4 DEF IsSum
  <2>6. p # x
    BY <2>3, <2>5
  <2> HIDE DEF p
  <2>7. f[s \ {p}] = W[x] + f[(s \ {p}) \ {x}]
    <3>1. s \ {p} \notin C
      BY <2>2, <2>4
    <3> QED
      BY <3>1, <2>6
  <2>8. f[s \ {x}] = W[p] + f[(s \ {x}) \ {p}]
    <3>1. s \ {x} \notin C
      BY <2>2
    <3> QED
      BY <3>1, <2>4, <2>6
  <2>9. (s \ {p}) \ {x} = (s \ {x}) \ {p} /\ (s \ {x}) \ {p} \in SUBSET D
    OBVIOUS
  <2>10. f[(s \ {x}) \ {p}] \in Nat /\ W[x] \in Nat /\ W[p] \in Nat
    BY <2>9, <2>4, SumNat
  <2>11. PICK n \in Nat : f[s \ {p}] = W[x] + n /\ f[s \ {x}] = W[p] + n
    BY <2>7, <2>8, <2>9, <2>10
  <2>12. W[p] + (W[x] + n) = W[x] + (W[p] + n)
    BY <2>10
  <2> QED
    BY <2>3, <2>5, <2>11, <2>12
<1> QED
  BY <1>1

LEMMA SumSplits ==
    ASSUME NEW D, IsFiniteSet(D), NEW W, \A x \in D : W[x] \in Nat, NEW f, IsSum(f, W, D)
    PROVE  \A r \in SUBSET D : f[D] = f[r] + f[D \ r]
<1> DEFINE C == {r \in SUBSET D : f[D] # f[r] + f[D \ r]}
<1>1. ASSUME C # {} PROVE FALSE
  <2>1. \A s \in C : IsFiniteSet(s)
    BY FS_Subset
  <2>2. PICK r \in C : \A x \in r : r \ {x} \notin C
    BY <1>1, <2>1, SmallestSet
  <2>3. f[D] \in Nat /\ f[{}] = 0
    BY SumNat DEF IsSum
  <2>4. r # {}
    <3>1. D \ {} = D
      OBVIOUS
    <3>2. f[D] = f[{}] + f[D]
      BY <2>3
    <3> QED
      BY <2>2, <3>1, <3>2
  <2>4a. PICK x \in r : TRUE
    BY <2>4
  <2>5. f[D] = f[r \ {x}] + f[D \ (r \ {x})]
    BY <2>2
  <2>6. f[r] = W[x] + f[r \ {x}]
    BY SumTakesAny
  <2>7. f[D \ (r \ {x})] = W[x] + f[D \ r]
    <3>1. (D \ (r \ {x})) \ {x} = D \ r /\ x \in D \ (r \ {x})
      OBVIOUS
    <3> QED
      BY <3>1, SumTakesAny
  <2>8. f[r \ {x}] \in Nat /\ f[D \ r] \in Nat /\ W[x] \in Nat
    BY SumNat
  <2> QED
    BY <2>2, <2>5, <2>6, <2>7, <2>8
<1> QED
  BY <1>1

-----------------------------------------------------------------------------
(* The sums of the model *)

Bytes(S, ids) == [i \in ids |-> S[i].bytes]

LEMMA SumIsASum ==
    ASSUME NEW S, NEW ids, IsFiniteSet(ids)
    PROVE  \E f : IsSum(f, Bytes(S, ids), ids) /\ Sum(S, ids) = f[ids]
<1> DEFINE Folds(f) == f = [s \in SUBSET ids |->
                             IF s = {} THEN 0
                             ELSE S[CHOOSE x \in s : TRUE].bytes
                                    + f[s \ {CHOOSE x \in s : TRUE}]]
<1>1. Sum(S, ids) = (CHOOSE f : Folds(f))[ids]
  BY DEF Sum, MapThenSumSet, MapThenFoldSet
<1>2. ASSUME NEW f PROVE IsSum(f, Bytes(S, ids), ids) <=> Folds(f)
  <2>1. ASSUME NEW s \in SUBSET ids, s # {}
        PROVE  Bytes(S, ids)[Pick(s)] = S[CHOOSE x \in s : TRUE].bytes
    BY <2>1 DEF Pick, Bytes
  <2> QED
    BY <2>1 DEF IsSum, Pick
<1>3. \E f : IsSum(f, Bytes(S, ids), ids)
  BY SumExists
<1> HIDE DEF Folds
<1>4. Folds(CHOOSE f : Folds(f))
  <2>1. \E f : Folds(f)
    BY <1>2, <1>3
  <2> QED
    BY <2>1
<1> QED
  BY <1>1, <1>2, <1>4

LEMMA EstimateIsASum ==
    ASSUME NEW items \in Seq(Turns)
    PROVE  EstimatedBytes(items) \in Nat
<1> DEFINE D == DOMAIN items
           W == [n \in D |-> SizeOf[items[n]]]
           Folds(f) == f = [s \in SUBSET D |->
                             IF s = {} THEN 0
                             ELSE SizeOf[items[CHOOSE x \in s : TRUE]]
                                    + f[s \ {CHOOSE x \in s : TRUE}]]
<1>1. EstimatedBytes(items) = (CHOOSE f : Folds(f))[D]
  BY DEF EstimatedBytes, FoldSeq, FoldFunction, FoldFunctionOnSet, MapThenFoldSet
<1>2. ASSUME NEW f PROVE IsSum(f, W, D) <=> Folds(f)
  <2>1. ASSUME NEW s \in SUBSET D, s # {}
        PROVE  W[Pick(s)] = SizeOf[items[CHOOSE x \in s : TRUE]]
    BY <2>1 DEF Pick
  <2> QED
    BY <2>1 DEF IsSum, Pick
<1>3. IsFiniteSet(D) /\ \A n \in D : W[n] \in Nat
  <2>1. D = 1 .. Len(items)
    OBVIOUS
  <2>2. IsFiniteSet(1 .. Len(items))
    BY FS_Interval
  <2> QED
    BY <2>1, <2>2, TurnAssumption
<1>4. \E f : IsSum(f, W, D)
  BY <1>3, SumExists
<1> HIDE DEF Folds, W
<1>5. Folds(CHOOSE f : Folds(f))
  <2>1. \E f : Folds(f)
    BY <1>2, <1>4
  <2> QED
    BY <2>1
<1>6. IsSum(CHOOSE f : Folds(f), W, D)
  BY <1>2, <1>5
<1> QED
  BY <1>1, <1>3, <1>6, SumNat

\* The bytes of a set of entries are a natural number, those of any part of it
\* plus those of the rest.
LEMMA SumFacts ==
    ASSUME NEW S, NEW ids, IsFiniteSet(ids), \A i \in ids : S[i].bytes \in Nat
    PROVE  /\ Sum(S, ids) \in Nat
           /\ \A r \in SUBSET ids : Sum(S, ids) = Sum(S, r) + Sum(S, ids \ r)
<1>1. PICK f : IsSum(f, Bytes(S, ids), ids) /\ Sum(S, ids) = f[ids]
  BY SumIsASum
<1>2. \A i \in ids : Bytes(S, ids)[i] \in Nat
  BY DEF Bytes
<1>3. Sum(S, ids) \in Nat
  BY <1>1, <1>2, SumNat
<1>4. ASSUME NEW r \in SUBSET ids PROVE Sum(S, r) = f[r]
  <2>1. IsFiniteSet(r)
    BY FS_Subset
  <2>2. PICK g : IsSum(g, Bytes(S, r), r) /\ Sum(S, r) = g[r]
    BY <2>1, SumIsASum
  <2>3. \A i \in r \cap ids : Bytes(S, r)[i] = Bytes(S, ids)[i]
    BY DEF Bytes
  <2>4. \A q \in SUBSET (r \cap ids) : g[q] = f[q]
    BY <1>1, <2>1, <2>2, <2>3, SumsAgree
  <2> QED
    BY <2>2, <2>4
<1>5. ASSUME NEW r \in SUBSET ids PROVE Sum(S, ids) = Sum(S, r) + Sum(S, ids \ r)
  <2>1. f[ids] = f[r] + f[ids \ r]
    BY <1>1, <1>2, SumSplits
  <2> QED
    BY <1>1, <1>4, <2>1
<1> QED
  BY <1>3, <1>5

\* A sum depends on nothing but the bytes.
LEMMA SumSame ==
    ASSUME NEW S, NEW T, NEW ids, IsFiniteSet(ids), \A i \in ids : S[i].bytes = T[i].bytes
    PROVE  Sum(S, ids) = Sum(T, ids)
<1>1. PICK f : IsSum(f, Bytes(S, ids), ids) /\ Sum(S, ids) = f[ids]
  BY SumIsASum
<1>2. PICK g : IsSum(g, Bytes(T, ids), ids) /\ Sum(T, ids) = g[ids]
  BY SumIsASum
<1>3. \A i \in ids \cap ids : Bytes(S, ids)[i] = Bytes(T, ids)[i]
  BY DEF Bytes
<1>4. \A q \in SUBSET (ids \cap ids) : f[q] = g[q]
  BY <1>1, <1>2, <1>3, SumsAgree
<1> QED
  BY <1>1, <1>2, <1>4

LEMMA SumOfNoneAndOne ==
    ASSUME NEW S
    PROVE  Sum(S, {}) = 0 /\ \A i : S[i].bytes \in Nat => Sum(S, {i}) = S[i].bytes
<1>1. Sum(S, {}) = 0
  <2>1. PICK f : IsSum(f, Bytes(S, {}), {}) /\ Sum(S, {}) = f[{}]
    BY SumIsASum, FS_EmptySet
  <2> QED
    BY <2>1 DEF IsSum
<1>2. ASSUME NEW i, S[i].bytes \in Nat PROVE Sum(S, {i}) = S[i].bytes
  <2>1. PICK f : IsSum(f, Bytes(S, {i}), {i}) /\ Sum(S, {i}) = f[{i}]
    BY SumIsASum, FS_Singleton
  <2>2. Pick({i}) = i
    BY DEF Pick
  <2>3. f[{}] = 0
    BY <2>1 DEF IsSum
  <2>4. f[{i}] = Bytes(S, {i})[i] + f[{i} \ {i}]
    BY <2>1, <2>2 DEF IsSum
  <2>5. {i} \ {i} = {}
    OBVIOUS
  <2>6. f[{i}] = S[i].bytes + 0
    BY <2>3, <2>4, <2>5 DEF Bytes
  <2> QED
    BY <1>2, <2>1, <2>6
<1> QED
  BY <1>1, <1>2

-----------------------------------------------------------------------------
(* The books of a store, and what the parts of an operation do to them *)

Entry == [items : Seq(Turns), used : 0 .. MaxTime, bytes : Nat]

Books(S, n) ==
    /\ DOMAIN S \subseteq Ids /\ IsFiniteSet(DOMAIN S)
    /\ S \in [DOMAIN S -> Entry]
    /\ n = Sum(S, DOMAIN S)

\* Taking entries out, and their bytes off the total, keeps the books; the
\* saturating subtraction never saturates.
LEMMA DropKeepsBooks ==
    ASSUME NEW S, NEW n, Books(S, n), NEW ids \in SUBSET DOMAIN S
    PROVE  /\ Books(Keep(S, ids), Saturating(n, Sum(S, DOMAIN S \ ids)))
           /\ DOMAIN Keep(S, ids) = ids
           /\ Saturating(n, Sum(S, DOMAIN S \ ids)) <= n
<1>1. IsFiniteSet(DOMAIN S) /\ IsFiniteSet(ids) /\ IsFiniteSet(DOMAIN S \ ids)
  BY FS_Subset DEF Books
<1>2. \A i \in DOMAIN S : S[i] \in Entry /\ S[i].bytes \in Nat
  BY DEF Books, Entry
<1>3. n = Sum(S, ids) + Sum(S, DOMAIN S \ ids)
  BY <1>1, <1>2, SumFacts DEF Books
<1>4. Sum(S, ids) \in Nat /\ Sum(S, DOMAIN S \ ids) \in Nat
  BY <1>1, <1>2, SumFacts
<1>5. Saturating(n, Sum(S, DOMAIN S \ ids)) = Sum(S, ids)
  BY <1>3, <1>4 DEF Saturating
<1>6. DOMAIN Keep(S, ids) = ids /\ \A i \in ids : Keep(S, ids)[i] = S[i]
  BY DEF Keep
<1>7. Sum(Keep(S, ids), ids) = Sum(S, ids)
  BY <1>1, <1>6, SumSame
<1>8. Keep(S, ids) \in [ids -> Entry]
  BY <1>2 DEF Keep
<1> QED
  BY <1>1, <1>3, <1>4, <1>5, <1>6, <1>7, <1>8 DEF Books

LEMMA TouchKeepsBooks ==
    ASSUME Books(sessions, total), NEW i \in DOMAIN sessions, NEW at \in 0 .. MaxTime
    PROVE  /\ Books([sessions EXCEPT ![i].used = at], total)
           /\ DOMAIN [sessions EXCEPT ![i].used = at] = DOMAIN sessions
           /\ \A j \in DOMAIN sessions :
                /\ [sessions EXCEPT ![i].used = at][j].items = sessions[j].items
                /\ [sessions EXCEPT ![i].used = at][j].used = IF j = i THEN at ELSE sessions[j].used
<1> DEFINE T == [sessions EXCEPT ![i].used = at]
<1>1. sessions \in [DOMAIN sessions -> Entry]
  BY DEF Books
<1>2. T \in [DOMAIN sessions -> Entry] /\ DOMAIN T = DOMAIN sessions
  BY <1>1 DEF Entry
<1>3. ASSUME NEW j \in DOMAIN sessions
      PROVE  /\ T[j].items = sessions[j].items
             /\ T[j].bytes = sessions[j].bytes
             /\ T[j].used = IF j = i THEN at ELSE sessions[j].used
  BY <1>1 DEF Entry
<1> HIDE DEF T
<1>4. Sum(T, DOMAIN T) = Sum(sessions, DOMAIN sessions)
  BY <1>2, <1>3, SumSame DEF Books
<1>5. Books(T, total)
  BY <1>2, <1>4 DEF Books
<1>6. /\ Books(T, total)
      /\ DOMAIN T = DOMAIN sessions
      /\ \A j \in DOMAIN sessions :
           /\ T[j].items = sessions[j].items
           /\ T[j].used = IF j = i THEN at ELSE sessions[j].used
  BY <1>2, <1>3, <1>5
<1> QED
  BY <1>6 DEF T

LEMMA ContextType ==
    ASSUME TypeOK, NEW t \in Turns
    PROVE  Context(t) \in Seq(Turns) /\ EstimatedBytes(Context(t)) \in Nat
<1>1. Context(t) \in Seq(Turns)
  BY DEF Context, TypeOK
<1> QED
  BY <1>1, EstimateIsASum

\* Putting an entry in, and its bytes in place of those of the entry it
\* replaces, keeps the books.
LEMMA InsertKeepsBooks ==
    ASSUME TypeOK, Books(sessions, total), NEW t \in Turns, NEW at \in 0 .. MaxTime
    PROVE  /\ Books(Inserted(t, at), Saturating(total, ReplacedBytes(IdOf[t]))
                                       + Inserted(t, at)[IdOf[t]].bytes)
           /\ DOMAIN Inserted(t, at) = DOMAIN sessions \cup {IdOf[t]}
           /\ Inserted(t, at)[IdOf[t]] =
                [items |-> Context(t), used |-> at, bytes |-> EstimatedBytes(Context(t))]
           /\ \A j \in DOMAIN sessions : j # IdOf[t] => Inserted(t, at)[j] = sessions[j]
<1> DEFINE id == IdOf[t]
           all == Inserted(t, at)
           new == [items |-> Context(t), used |-> at, bytes |-> EstimatedBytes(Context(t))]
           D == DOMAIN sessions
           others == D \ {id}
<1>1. id \in Ids
  BY TurnAssumption
<1>2. new \in Entry
  BY ContextType DEF Entry
<1>3. /\ DOMAIN all = D \cup {id}
      /\ all[id] = new
      /\ \A j \in D : j # id => all[j] = sessions[j]
  BY DEF Inserted
<1>4. /\ D \subseteq Ids /\ IsFiniteSet(D)
      /\ \A j \in D : sessions[j] \in Entry
      /\ total = Sum(sessions, D)
  BY DEF Books
<1>5. all \in [DOMAIN all -> Entry]
  <2>1. \A j \in D \cup {id} : all[j] \in Entry
    BY <1>2, <1>3, <1>4
  <2>2. all = [j \in DOMAIN all |-> all[j]]
    BY DEF Inserted
  <2> HIDE DEF all
  <2> QED
    BY <2>1, <2>2, <1>3
<1>6. IsFiniteSet(D \cup {id})
  BY <1>4, FS_AddElement
<1> HIDE DEF all, new, id, D
<1>7. \A j \in D : sessions[j].bytes \in Nat
  BY <1>4 DEF Entry
<1>8. \A j \in D \cup {id} : all[j].bytes \in Nat
  BY <1>3, <1>5 DEF Entry
<1>9. Sum(all, D \cup {id}) = all[id].bytes + Sum(sessions, others)
  <2>1. Sum(all, D \cup {id}) = Sum(all, {id}) + Sum(all, (D \cup {id}) \ {id})
    BY <1>6, <1>8, SumFacts
  <2>2. Sum(all, {id}) = all[id].bytes
    BY <1>8, SumOfNoneAndOne
  <2>3. (D \cup {id}) \ {id} = others
    OBVIOUS
  <2>4. Sum(all, others) = Sum(sessions, others)
    <3>1. IsFiniteSet(others) /\ \A j \in others : all[j].bytes = sessions[j].bytes
      BY <1>3, <1>4, FS_Subset
    <3> QED
      BY <3>1, SumSame
  <2> QED
    BY <2>1, <2>2, <2>3, <2>4
<1>10. Saturating(total, ReplacedBytes(id)) = Sum(sessions, others)
  <2>1. Sum(sessions, others) \in Nat
    <3>1. IsFiniteSet(others)
      BY <1>4, FS_Subset
    <3> QED
      BY <1>7, <3>1, SumFacts
  <2>2. CASE id \in D
    <3>1. total = Sum(sessions, {id}) + Sum(sessions, others)
      BY <1>4, <1>7, <2>2, SumFacts
    <3>2. Sum(sessions, {id}) = sessions[id].bytes
      BY <1>7, <2>2, SumOfNoneAndOne
    <3>3. ReplacedBytes(id) = sessions[id].bytes
      BY <2>2 DEF ReplacedBytes, D
    <3> QED
      BY <3>1, <3>2, <3>3, <2>1, <2>2, <1>7 DEF Saturating
  <2>3. CASE id \notin D
    <3>1. others = D /\ ReplacedBytes(id) = 0
      BY <2>3 DEF ReplacedBytes, D
    <3> QED
      BY <3>1, <2>1, <1>4 DEF Saturating
  <2> QED
    BY <2>2, <2>3
<1>11. Saturating(total, ReplacedBytes(id)) + all[id].bytes = Sum(all, DOMAIN all)
  <2>1. Sum(sessions, others) \in Nat /\ all[id].bytes \in Nat
    <3>1. IsFiniteSet(others)
      BY <1>4, FS_Subset
    <3> QED
      BY <1>7, <1>8, <3>1, SumFacts
  <2> QED
    BY <1>3, <1>9, <1>10, <2>1
<1>12. Books(all, Saturating(total, ReplacedBytes(id)) + all[id].bytes)
  BY <1>1, <1>3, <1>4, <1>5, <1>6, <1>11 DEF Books
<1> QED
  BY <1>3, <1>12 DEF all, new, id, D

LEMMA ExpiryKeepsBooks ==
    ASSUME NEW S, NEW n, Books(S, n), NEW at \in 0 .. MaxTime
    PROVE  /\ Books(Keep(S, DOMAIN S \ Expired(S, at)), Saturating(n, Sum(S, Expired(S, at))))
           /\ DOMAIN Keep(S, DOMAIN S \ Expired(S, at)) = DOMAIN S \ Expired(S, at)
           /\ Saturating(n, Sum(S, Expired(S, at))) <= n
<1>1. DOMAIN S \ (DOMAIN S \ Expired(S, at)) = Expired(S, at)
  BY DEF Expired
<1> QED
  BY <1>1, DropKeepsBooks

-----------------------------------------------------------------------------
(* The limits *)

Fits(S, n) == Cardinality(DOMAIN S) <= MaxSessions /\ n <= MaxBytes

LEMMA SmallerFits ==
    ASSUME NEW S, NEW n, NEW T, NEW m, Books(S, n), Books(T, m), Fits(S, n),
           DOMAIN T \subseteq DOMAIN S, m <= n
    PROVE  Fits(T, m)
<1>1. Cardinality(DOMAIN T) <= Cardinality(DOMAIN S)
  BY FS_Subset DEF Books
<1>2. Cardinality(DOMAIN T) \in Nat /\ Cardinality(DOMAIN S) \in Nat
  BY FS_CardinalityType DEF Books
<1>3. m \in Nat /\ n \in Nat
  BY SumFacts DEF Books, Entry
<1> QED
  BY <1>1, <1>2, <1>3, LimitAssumption DEF Fits

\* No entry is larger than all of them together.
LEMMA EntryWithinTotal ==
    ASSUME NEW S, NEW n, Books(S, n), NEW i \in DOMAIN S
    PROVE  S[i].bytes \in Nat /\ n \in Nat /\ S[i].bytes <= n
<1>1. IsFiniteSet(DOMAIN S) /\ \A j \in DOMAIN S : S[j].bytes \in Nat
  BY DEF Books, Entry
<1>2. n = Sum(S, {i}) + Sum(S, DOMAIN S \ {i}) /\ n \in Nat
  BY <1>1, SumFacts DEF Books
<1>3. Sum(S, {i}) = S[i].bytes
  BY <1>1, SumOfNoneAndOne
<1>4. Sum(S, DOMAIN S \ {i}) \in Nat
  <2>1. IsFiniteSet(DOMAIN S \ {i})
    BY <1>1, FS_Subset
  <2> QED
    BY <1>1, <2>1, SumFacts
<1> QED
  BY <1>1, <1>2, <1>3, <1>4

\* Where every entry fits the budget alone, whatever enforce_limits leaves
\* fits both caps, although its loop never takes the last entry for its size.
LEMMA SurvivorsFit ==
    ASSUME NEW S, NEW n, Books(S, n), \A i \in DOMAIN S : S[i].bytes <= MaxBytes,
           NEW K \in Survivors(S, n)
    PROVE  /\ K \in SUBSET DOMAIN S
           /\ Books(Keep(S, K), Saturating(n, Sum(S, DOMAIN S \ K)))
           /\ DOMAIN Keep(S, K) = K
           /\ Fits(Keep(S, K), Saturating(n, Sum(S, DOMAIN S \ K)))
<1> DEFINE T == Keep(S, K)
           m == Saturating(n, Sum(S, DOMAIN S \ K))
<1>1. K \in SUBSET DOMAIN S /\ ~OverLimit(Cardinality(K), m)
  BY DEF Survivors
<1>2. Books(T, m) /\ DOMAIN T = K
  BY <1>1, DropKeepsBooks
<1>3. IsFiniteSet(K) /\ Cardinality(K) \in Nat
  BY <1>2, FS_CardinalityType DEF Books
<1>4. \A i \in K : T[i] = S[i]
  BY DEF Keep
<1> HIDE DEF T, m
<1>5. m \in Nat /\ m = Sum(T, K)
  BY <1>2, SumFacts DEF Books, Entry
<1>6. Cardinality(K) <= MaxSessions /\ (m <= MaxBytes \/ Cardinality(K) <= 1)
  BY <1>1, <1>3, <1>5, LimitAssumption DEF OverLimit
<1>7. m <= MaxBytes
  <2>1. CASE K = {}
    BY <2>1, <1>5, SumOfNoneAndOne, LimitAssumption
  <2>2. CASE Cardinality(K) = 1
    <3>1. PICK i : K = {i}
      BY <1>3, <2>2, FS_Singleton
    <3>2. m = T[i].bytes
      <4>1. T[i].bytes \in Nat
        BY <1>2, <3>1 DEF Books, Entry
      <4> QED
        BY <1>5, <3>1, <4>1, SumOfNoneAndOne
    <3> QED
      BY <1>1, <1>4, <3>1, <3>2
  <2>3. CASE K # {} /\ Cardinality(K) # 1
    <3>1. Cardinality(K) # 0
      BY <1>3, <2>3, FS_EmptySet
    <3> QED
      BY <1>3, <1>6, <2>3, <3>1
  <2> QED
    BY <2>1, <2>2, <2>3
<1>8. Fits(T, m)
  BY <1>2, <1>6, <1>7 DEF Fits
<1> QED
  BY <1>1, <1>2, <1>8 DEF T, m

-----------------------------------------------------------------------------
(* The invariant of the store *)

StoreInv == TypeOK /\ Books(sessions, total) /\ Fits(sessions, total)

LEMMA ClockType ==
    Clock \subseteq 0 .. MaxTime /\ \A at : Again(at) \subseteq 0 .. MaxTime
BY DEF Clock, Again

\* What a save leaves: a part of what it inserted into, its entry included
\* unless it was evicted.
LEMMA StoreStep ==
    ASSUME StoreInv, NEW t \in Turns, NEW at \in 0 .. MaxTime, NEW later \in 0 .. MaxTime,
           EstimatedBytes(Context(t)) <= MaxBytes, Store(t, at, later)
    PROVE  /\ Books(sessions', total') /\ Fits(sessions', total')
           /\ DOMAIN sessions' \subseteq DOMAIN Inserted(t, at)
           /\ \A i \in DOMAIN sessions' : sessions'[i] = Inserted(t, at)[i]
<1> DEFINE all == Inserted(t, at)
           gone == Expired(all, later)
           live == Keep(all, DOMAIN all \ gone)
           counted == Saturating(total, ReplacedBytes(IdOf[t])) + all[IdOf[t]].bytes
           unexpired == Saturating(counted, Sum(all, gone))
<1>1. PICK K \in Survivors(live, unexpired) :
        /\ sessions' = Keep(live, K)
        /\ total' = Saturating(unexpired, Sum(live, DOMAIN live \ K))
  BY DEF Store
<1>2. /\ Books(all, counted)
      /\ DOMAIN all = DOMAIN sessions \cup {IdOf[t]}
      /\ all[IdOf[t]].bytes = EstimatedBytes(Context(t))
      /\ \A j \in DOMAIN sessions : j # IdOf[t] => all[j] = sessions[j]
  <2>1. all[IdOf[t]] = [items |-> Context(t), used |-> at, bytes |-> EstimatedBytes(Context(t))]
    BY InsertKeepsBooks DEF StoreInv
  <2>2. /\ Books(all, counted)
        /\ DOMAIN all = DOMAIN sessions \cup {IdOf[t]}
        /\ \A j \in DOMAIN sessions : j # IdOf[t] => all[j] = sessions[j]
    BY InsertKeepsBooks DEF StoreInv
  <2> QED
    BY <2>1, <2>2
<1> HIDE DEF all, counted
<1>3. Books(live, unexpired) /\ DOMAIN live = DOMAIN all \ gone
  BY <1>2, ExpiryKeepsBooks
<1>4. \A i \in DOMAIN live : live[i] = all[i]
  BY <1>3 DEF Keep
<1>5. \A i \in DOMAIN all : all[i].bytes <= MaxBytes
  <2>1. ASSUME NEW i \in DOMAIN sessions PROVE sessions[i].bytes <= MaxBytes
    BY EntryWithinTotal, LimitAssumption DEF StoreInv, Fits
  <2> QED
    BY <1>2, <2>1
<1> HIDE DEF gone, live, unexpired
<1>6. /\ K \in SUBSET DOMAIN live
      /\ Books(Keep(live, K), total')
      /\ DOMAIN Keep(live, K) = K
      /\ Fits(Keep(live, K), total')
  BY <1>1, <1>3, <1>4, <1>5, SurvivorsFit
<1>7. \A i \in K : sessions'[i] = all[i]
  BY <1>1, <1>4, <1>6 DEF Keep
<1> QED
  BY <1>1, <1>3, <1>6, <1>7 DEF all, Books, Fits

LEMMA HitStep ==
    ASSUME StoreInv, NEW i \in Ids, NEW at \in 0 .. MaxTime, NEW later \in 0 .. MaxTime,
           Hit(i, at, later)
    PROVE  /\ Books(sessions', total') /\ Fits(sessions', total')
           /\ DOMAIN sessions' \subseteq DOMAIN sessions
           /\ \A j \in DOMAIN sessions' : sessions'[j].items = sessions[j].items
<1> DEFINE touched == [sessions EXCEPT ![i].used = at]
           gone == Expired(touched, later)
<1>1. /\ i \in DOMAIN sessions
      /\ sessions' = Keep(touched, DOMAIN touched \ gone)
      /\ total' = Saturating(total, Sum(touched, gone))
  BY DEF Hit
<1>2. /\ Books(touched, total) /\ DOMAIN touched = DOMAIN sessions
      /\ \A j \in DOMAIN sessions : touched[j].items = sessions[j].items
  BY <1>1, TouchKeepsBooks DEF StoreInv
<1> HIDE DEF touched
<1>3. /\ Books(sessions', total') /\ DOMAIN sessions' = DOMAIN touched \ gone /\ total' <= total
  BY <1>1, <1>2, ExpiryKeepsBooks DEF Books
<1>4. Fits(sessions', total')
  <2>1. Fits(touched, total)
    BY <1>2 DEF StoreInv, Fits
  <2> QED
    BY <1>2, <1>3, <2>1, SmallerFits DEF Books
<1>5. \A j \in DOMAIN sessions' : sessions'[j] = touched[j]
  BY <1>1, <1>3 DEF Keep
<1> QED
  BY <1>2, <1>3, <1>4, <1>5 DEF Fits

LEMMA CleanupStep ==
    ASSUME StoreInv, Cleanup
    PROVE  /\ now' \in 0 .. MaxTime /\ stamp' \in 0 .. MaxTime
           /\ Books(sessions', total') /\ Fits(sessions', total')
           /\ DOMAIN sessions' = DOMAIN sessions \ Expired(sessions, now')
           /\ \A j \in DOMAIN sessions' : sessions'[j] = sessions[j]
           /\ UNCHANGED <<phase, history>>
<1>1. /\ now' \in 0 .. MaxTime /\ stamp' \in 0 .. MaxTime
      /\ sessions' = Keep(sessions, DOMAIN sessions \ Expired(sessions, now'))
      /\ total' = Saturating(total, Sum(sessions, Expired(sessions, now')))
      /\ UNCHANGED <<phase, history>>
  BY ClockType DEF Cleanup
<1>2. /\ Books(sessions', total') /\ total' <= total
      /\ DOMAIN sessions' = DOMAIN sessions \ Expired(sessions, now')
  BY <1>1, ExpiryKeepsBooks DEF StoreInv, Books
<1>3. Fits(sessions', total')
  BY <1>2, SmallerFits DEF StoreInv, Books
<1>4. \A j \in DOMAIN sessions' : sessions'[j] = sessions[j]
  BY <1>1, <1>2 DEF Keep
<1> QED
  BY <1>1, <1>2, <1>3, <1>4 DEF Fits

LEMMA BooksType ==
    ASSUME NEW S, NEW n, Books(S, n)
    PROVE  /\ DOMAIN S \subseteq Ids
           /\ \A i \in DOMAIN S :
                /\ S[i].items \in Seq(Turns)
                /\ S[i].used \in 0 .. MaxTime
                /\ S[i].bytes \in Nat
           /\ n \in Nat
BY SumFacts DEF Books, Entry

\* The order of use relates stored ids, and only those.
LEMMA UsesType ==
    ASSUME [Next]_vars, usedBefore \subseteq (DOMAIN sessions) \X (DOMAIN sessions)
    PROVE  (usedBefore \subseteq (DOMAIN sessions) \X (DOMAIN sessions))'
<1> DEFINE Rel(r, ids) == r \subseteq ids \X ids
<1>1. ASSUME NEW ids PROVE Rel(Among(ids), ids)
  BY DEF Among
<1>2. ASSUME NEW i, NEW ids PROVE Rel(UsedLast(i, ids), ids)
  BY DEF UsedLast, Among
<1> HIDE DEF Rel
<1>3. ASSUME NEW i, NEW at, NEW later, Hit(i, at, later) PROVE Rel(usedBefore', DOMAIN sessions')
  BY <1>2, <1>3 DEF Hit, Keep
<1>4. ASSUME NEW t, NEW at, NEW later, Store(t, at, later) PROVE Rel(usedBefore', DOMAIN sessions')
  BY <1>2, <1>4 DEF Store, Keep
<1>5. CASE Cleanup
  BY <1>1, <1>5 DEF Cleanup, Rel
<1>6. CASE UNCHANGED <<sessions, usedBefore>>
  BY <1>6
<1>7. CASE \E t \in Turns, prev \in Ids : BeginContinued(t, prev)
  BY <1>3, <1>6, <1>7 DEF BeginContinued, Miss, Rel
<1>8. CASE \E t \in Turns : Save(t)
  BY <1>4, <1>6, <1>8 DEF Save, Rel
<1> QED
  BY <1>5, <1>6, <1>7, <1>8 DEF Next, BeginNew, Abandon, Complete, vars

LEMMA InitStore == Init => StoreInv
<1> SUFFICES ASSUME Init PROVE StoreInv
  OBVIOUS
<1>1. DOMAIN sessions = {} /\ total = 0
  BY DEF Init
<1>2. Books(sessions, total)
  BY <1>1, FS_EmptySet, SumOfNoneAndOne DEF Books, Init
<1>3. Fits(sessions, total)
  BY <1>1, FS_EmptySet, LimitAssumption DEF Fits
<1>4. TypeOK
  BY <1>1, <1>2, BooksType, LimitAssumption DEF TypeOK, Init
<1> QED
  BY <1>2, <1>3, <1>4 DEF StoreInv

LEMMA NextStore == StoreInv /\ [Next]_vars => StoreInv'
<1> SUFFICES ASSUME StoreInv, [Next]_vars PROVE StoreInv'
  OBVIOUS
<1> USE DEF StoreInv
<1>u. (usedBefore \subseteq (DOMAIN sessions) \X (DOMAIN sessions))'
  BY UsesType DEF TypeOK
<1>1. ASSUME NEW t \in Turns, BeginNew(t) \/ Abandon(t) \/ Complete(t)
      PROVE  StoreInv'
  <2>1. UNCHANGED <<now, stamp, sessions, total, history>>
    BY <1>1 DEF BeginNew, Abandon, Complete
  <2>2. phase' \in [Turns -> {"idle", "open", "told", "done"}]
    BY <1>1 DEF BeginNew, Abandon, Complete, TypeOK
  <2> QED
    BY <2>1, <2>2, <1>u DEF TypeOK, Books, Fits
<1>2. ASSUME NEW t \in Turns, NEW prev \in Ids, BeginContinued(t, prev)
      PROVE  StoreInv'
  <2>1. phase' \in [Turns -> {"idle", "open", "told", "done"}]
    BY <1>2 DEF BeginContinued, TypeOK
  <2>2. \/ \E at \in 0 .. MaxTime, later \in 0 .. MaxTime :
               /\ Hit(prev, at, later)
               /\ stamp' = at
               /\ now' = later
               /\ history' = [history EXCEPT ![t] = sessions[prev].items]
        \/ Miss(prev) /\ UNCHANGED <<now, stamp, history>>
    BY <1>2, ClockType DEF BeginContinued
  <2>2a. now' \in 0 .. MaxTime /\ stamp' \in 0 .. MaxTime
    BY <2>2 DEF TypeOK
  <2>3. Books(sessions', total') /\ Fits(sessions', total')
    <3>1. ASSUME NEW at \in 0 .. MaxTime, NEW later \in 0 .. MaxTime, Hit(prev, at, later)
          PROVE  Books(sessions', total') /\ Fits(sessions', total')
      BY <3>1, HitStep
    <3>2. CASE Miss(prev)
      BY <3>2 DEF Miss, Books, Fits
    <3> QED
      BY <2>2, <3>1, <3>2
  <2>4. history' \in [Turns -> Seq(Turns)]
    <3>1. CASE /\ \E at, later : Hit(prev, at, later)
               /\ history' = [history EXCEPT ![t] = sessions[prev].items]
      <4>1. sessions[prev].items \in Seq(Turns)
        BY <3>1 DEF Hit, TypeOK
      <4> QED
        BY <3>1, <4>1 DEF TypeOK
    <3>2. CASE UNCHANGED history
      BY <3>2 DEF TypeOK
    <3> QED
      BY <2>2, <3>1, <3>2
  <2> QED
    BY <2>1, <2>2a, <2>3, <2>4, BooksType, <1>u DEF TypeOK, Books, Fits
<1>3. ASSUME NEW t \in Turns, Save(t)
      PROVE  StoreInv'
  <2>1. phase' \in [Turns -> {"idle", "open", "told", "done"}] /\ UNCHANGED history
    BY <1>3 DEF Save, TypeOK
  <2>2. CASE UNCHANGED <<now, stamp, sessions, total>>
    BY <2>1, <2>2, <1>u DEF TypeOK, Books, Fits
  <2>3. CASE /\ EstimatedBytes(Context(t)) <= MaxBytes
             /\ \E at \in Clock : \E later \in Again(at) :
                  stamp' = at /\ now' = later /\ Store(t, at, later)
    <3>1. now' \in 0 .. MaxTime /\ stamp' \in 0 .. MaxTime /\ Store(t, stamp', now')
      BY <2>3, ClockType
    <3>2. Books(sessions', total') /\ Fits(sessions', total')
      BY <2>3, <3>1, StoreStep
    <3> QED
      BY <2>1, <3>1, <3>2, BooksType, <1>u DEF TypeOK, Books, Fits
  <2> QED
    BY <1>3, <2>2, <2>3 DEF Save
<1>4. ASSUME Cleanup PROVE StoreInv'
  <2>1. /\ now' \in 0 .. MaxTime /\ stamp' \in 0 .. MaxTime
        /\ Books(sessions', total') /\ Fits(sessions', total')
        /\ UNCHANGED <<phase, history>>
    BY <1>4, CleanupStep
  <2> QED
    BY <2>1, BooksType, <1>u DEF TypeOK, Books, Fits
<1>5. CASE UNCHANGED vars
  BY <1>5 DEF vars, TypeOK, Books, Fits
<1> QED
  BY <1>1, <1>2, <1>3, <1>4, <1>5 DEF Next

LEMMA StoreInvariant == Spec => []StoreInv
BY InitStore, NextStore, PTL DEF Spec

\* The running total is the sum of the entries after every operation, whatever
\* was overwritten, expired, evicted or refused, and both caps hold
\* (src/session.rs: save, get, cleanup, remove_expired, enforce_limits).
THEOREM WithinLimitsAlways == Spec => []WithinLimits
<1>1. StoreInv => WithinLimits
  BY DEF StoreInv, Books, Fits, WithinLimits
<1> QED
  BY <1>1, StoreInvariant, PTL

-----------------------------------------------------------------------------
(* What an entry holds *)

\* An entry was saved by a turn that is over: the history it found, then itself.
SavedByItsTurn ==
    \A i \in DOMAIN sessions :
      \E t \in Turns : /\ IdOf[t] = i /\ phase[t] = "done"
                       /\ sessions[i].items = Append(history[t], t)

LEMMA NextSaved == StoreInv /\ SavedByItsTurn /\ [Next]_vars => SavedByItsTurn'
<1> SUFFICES ASSUME StoreInv, SavedByItsTurn, [Next]_vars, NEW i \in DOMAIN sessions'
             PROVE  \E t \in Turns : /\ IdOf[t] = i /\ phase'[t] = "done"
                                     /\ sessions'[i].items = Append(history'[t], t)
  BY DEF SavedByItsTurn
<1> DEFINE SavedBy(t) == /\ IdOf[t] = i /\ phase[t] = "done"
                         /\ sessions[i].items = Append(history[t], t)
<1>a. i \in DOMAIN sessions => \E t \in Turns : SavedBy(t)
  BY DEF SavedByItsTurn
\* A turn that is over stays over, with the history it had.
<1>b. ASSUME NEW t \in Turns, phase[t] = "done"
      PROVE  phase'[t] = "done" /\ history'[t] = history[t]
  <2>1. ASSUME NEW u \in Turns, BeginNew(u) \/ Abandon(u) \/ Complete(u)
        PROVE  phase'[t] = "done" /\ history'[t] = history[t]
    BY <1>b, <2>1 DEF BeginNew, Abandon, Complete, StoreInv, TypeOK
  <2>2. ASSUME NEW u \in Turns, NEW prev \in Ids, BeginContinued(u, prev)
        PROVE  phase'[t] = "done" /\ history'[t] = history[t]
    <3>1. u # t
      BY <1>b, <2>2 DEF BeginContinued
    <3> QED
      BY <1>b, <2>2, <3>1 DEF BeginContinued, StoreInv, TypeOK
  <2>3. ASSUME NEW u \in Turns, Save(u)
        PROVE  phase'[t] = "done" /\ history'[t] = history[t]
    BY <1>b, <2>3 DEF Save, StoreInv, TypeOK
  <2>4. CASE Cleanup
    BY <1>b, <2>4 DEF Cleanup
  <2>5. CASE UNCHANGED vars
    BY <1>b, <2>5 DEF vars
  <2> QED
    BY <2>1, <2>2, <2>3, <2>4, <2>5 DEF Next
\* So an entry that keeps its items keeps its turn.
<1>c. i \in DOMAIN sessions /\ sessions'[i].items = sessions[i].items
        => \E t \in Turns : /\ IdOf[t] = i /\ phase'[t] = "done"
                            /\ sessions'[i].items = Append(history'[t], t)
  BY <1>a, <1>b
<1> HIDE DEF SavedBy
<1>1. ASSUME NEW t \in Turns, BeginNew(t) \/ Abandon(t) \/ Complete(t)
      PROVE  i \in DOMAIN sessions /\ sessions'[i].items = sessions[i].items
  BY <1>1 DEF BeginNew, Abandon, Complete
<1>2. ASSUME NEW t \in Turns, NEW prev \in Ids, BeginContinued(t, prev)
      PROVE  i \in DOMAIN sessions /\ sessions'[i].items = sessions[i].items
  <2>1. \/ \E at \in 0 .. MaxTime, later \in 0 .. MaxTime : Hit(prev, at, later)
        \/ Miss(prev)
    BY <1>2, ClockType DEF BeginContinued
  <2>2. CASE \E at \in 0 .. MaxTime, later \in 0 .. MaxTime : Hit(prev, at, later)
    BY <2>2, HitStep
  <2>3. CASE Miss(prev)
    BY <2>3 DEF Miss
  <2> QED
    BY <2>1, <2>2, <2>3
<1>3. ASSUME NEW t \in Turns, Save(t)
      PROVE  \/ i \in DOMAIN sessions /\ sessions'[i].items = sessions[i].items
             \/ /\ IdOf[t] = i /\ phase'[t] = "done"
                /\ sessions'[i].items = Append(history'[t], t)
  <2>1. CASE UNCHANGED sessions
    BY <2>1
  <2>2. CASE /\ EstimatedBytes(Context(t)) <= MaxBytes
             /\ \E at \in Clock : \E later \in Again(at) :
                  stamp' = at /\ now' = later /\ Store(t, at, later)
    <3>1. now' \in 0 .. MaxTime /\ stamp' \in 0 .. MaxTime /\ Store(t, stamp', now')
      BY <2>2, ClockType
    <3>2. i \in DOMAIN Inserted(t, stamp') /\ sessions'[i] = Inserted(t, stamp')[i]
      BY <2>2, <3>1, StoreStep
    <3>3. /\ DOMAIN Inserted(t, stamp') = DOMAIN sessions \cup {IdOf[t]}
          /\ Inserted(t, stamp')[IdOf[t]] =
               [items |-> Context(t), used |-> stamp', bytes |-> EstimatedBytes(Context(t))]
          /\ \A j \in DOMAIN sessions : j # IdOf[t] => Inserted(t, stamp')[j] = sessions[j]
      BY <3>1, InsertKeepsBooks DEF StoreInv
    <3>4. CASE i = IdOf[t]
      <4>1. sessions'[i].items = Append(history[t], t)
        BY <3>2, <3>3, <3>4 DEF Context
      <4>2. phase'[t] = "done" /\ history' = history
        BY <1>3 DEF Save, StoreInv, TypeOK
      <4> QED
        BY <3>4, <4>1, <4>2
    <3>5. CASE i # IdOf[t]
      BY <3>2, <3>3, <3>5
    <3> QED
      BY <3>4, <3>5
  <2> QED
    BY <1>3, <2>1, <2>2 DEF Save
<1>4. CASE Cleanup
  <2>1. i \in DOMAIN sessions /\ sessions'[i].items = sessions[i].items
    BY <1>4, CleanupStep
  <2> QED
    BY <2>1, <1>c
<1>5. CASE UNCHANGED vars
  <2>1. i \in DOMAIN sessions /\ sessions'[i].items = sessions[i].items
    BY <1>5 DEF vars
  <2> QED
    BY <2>1, <1>c
<1> QED
  BY <1>1, <1>2, <1>3, <1>4, <1>5, <1>c DEF Next

LEMMA SavedIsWhole == StoreInv /\ SavedByItsTurn => WholeConversation
<1> SUFFICES ASSUME StoreInv, SavedByItsTurn, NEW i \in DOMAIN sessions
             PROVE  /\ sessions[i].items # <<>>
                    /\ IdOf[Last(sessions[i].items)] = i
                    /\ Front(sessions[i].items) = history[Last(sessions[i].items)]
  BY DEF WholeConversation
<1>1. PICK t \in Turns : IdOf[t] = i /\ sessions[i].items = Append(history[t], t)
  BY DEF SavedByItsTurn
<1> DEFINE s == sessions[i].items
           h == history[t]
<1>2. h \in Seq(Turns) /\ s = Append(h, t) /\ IdOf[t] = i
  BY <1>1 DEF StoreInv, TypeOK
<1> HIDE DEF s, h
<1>3. s \in Seq(Turns) /\ Len(s) = Len(h) + 1 /\ s[Len(s)] = t /\ \A n \in 1 .. Len(h) : s[n] = h[n]
  BY <1>2
<1>4. SubSeq(s, 1, Len(s) - 1) = h
  <2> DEFINE f == SubSeq(s, 1, Len(s) - 1)
  <2>1. Len(h) \in Nat /\ Len(s) - 1 = Len(h)
    BY <1>2, <1>3
  <2>2. f \in Seq(Turns) /\ Len(f) = Len(h) /\ \A n \in 1 .. Len(h) : f[n] = s[n]
    BY <1>3, <2>1, SubSeqProperties
  <2> HIDE DEF f
  <2>3. f = h
    BY <1>2, <1>3, <2>2, SeqEqual
  <2> QED
    BY <2>3 DEF f
<1>5. s # <<>> /\ Last(s) = t /\ Front(s) = h
  BY <1>2, <1>3, <1>4 DEF Last, Front
<1> QED
  BY <1>2, <1>5 DEF s, h

\* Whatever is stored is the whole conversation: the history the turn found
\* when it began, then the turn (src/proxy/capture.rs: save_session).
THEOREM WholeConversationAlways == Spec => []WholeConversation
<1>1. Init => SavedByItsTurn
  BY DEF Init, SavedByItsTurn
<1>2. StoreInv /\ SavedByItsTurn /\ [Next]_vars => SavedByItsTurn'
  BY NextSaved
<1> QED
  BY <1>1, <1>2, StoreInvariant, SavedIsWhole, PTL DEF Spec

-----------------------------------------------------------------------------
(* Eviction *)

\* The order of use is a strict total order of the stored ids.
UsesOrdered ==
    /\ \A i, j \in DOMAIN sessions : i # j => (<<i, j>> \in usedBefore <=> <<j, i>> \notin usedBefore)
    /\ \A i \in DOMAIN sessions : <<i, i>> \notin usedBefore
    /\ \A i, j, k \in DOMAIN sessions :
         <<i, j>> \in usedBefore /\ <<j, k>> \in usedBefore => <<i, k>> \in usedBefore

LEMMA NextUses == StoreInv /\ UsesOrdered /\ [Next]_vars => UsesOrdered'
<1> SUFFICES ASSUME StoreInv, UsesOrdered, [Next]_vars PROVE UsesOrdered'
  OBVIOUS
<1> DEFINE D == DOMAIN sessions
           Orders(r, ids) ==
             /\ \A i, j \in ids : i # j => (<<i, j>> \in r <=> <<j, i>> \notin r)
             /\ \A i \in ids : <<i, i>> \notin r
             /\ \A i, j, k \in ids : <<i, j>> \in r /\ <<j, k>> \in r => <<i, k>> \in r
<1>1. Orders(usedBefore, D)
  BY DEF UsesOrdered
<1>2. ASSUME NEW ids \in SUBSET D PROVE Orders(Among(ids), ids)
  BY <1>1 DEF Among
<1>3. ASSUME NEW u, NEW ids \in SUBSET (D \cup {u}) PROVE Orders(UsedLast(u, ids), ids)
  <2> DEFINE r == UsedLast(u, ids)
             old == Among(ids \ {u})
             new == (ids \ {u}) \X (ids \cap {u})
  <2>0. r = old \cup new
    BY DEF UsedLast
  <2> HIDE DEF r
  <2>1. ASSUME NEW i \in ids, NEW j \in ids
        PROVE  <<i, j>> \in r <=> i # u /\ (j = u \/ <<i, j>> \in usedBefore)
    <3>1. <<i, j>> \in old <=> i # u /\ j # u /\ <<i, j>> \in usedBefore
      BY DEF Among
    <3>2. <<i, j>> \in new <=> i # u /\ j = u
      OBVIOUS
    <3> HIDE DEF old, new
    <3> QED
      BY <2>0, <3>1, <3>2
  <2> HIDE DEF old, new
  <2>2. ids \ {u} \subseteq D
    OBVIOUS
  <2>3. ASSUME NEW i \in ids, NEW j \in ids, i # j PROVE <<i, j>> \in r <=> <<j, i>> \notin r
    <3>1. CASE i = u \/ j = u
      BY <2>1, <2>3, <3>1
    <3>2. CASE i # u /\ j # u
      <4>1. <<i, j>> \in usedBefore <=> <<j, i>> \notin usedBefore
        BY <1>1, <2>2, <2>3, <3>2
      <4>2. (<<i, j>> \in r <=> <<i, j>> \in usedBefore) /\ (<<j, i>> \in r <=> <<j, i>> \in usedBefore)
        BY <2>1, <3>2
      <4> QED
        BY <4>1, <4>2
    <3> QED
      BY <3>1, <3>2
  <2>4. ASSUME NEW i \in ids PROVE <<i, i>> \notin r
    <3>1. CASE i = u
      BY <2>1, <3>1
    <3>2. CASE i # u
      BY <1>1, <2>1, <2>2, <3>2
    <3> QED
      BY <3>1, <3>2
  <2>5. ASSUME NEW i \in ids, NEW j \in ids, NEW k \in ids, <<i, j>> \in r, <<j, k>> \in r
        PROVE  <<i, k>> \in r
    <3>1. i # u /\ j # u /\ <<i, j>> \in usedBefore
      BY <2>1, <2>5
    <3>2. CASE k = u
      BY <2>1, <3>1, <3>2
    <3>3. CASE k # u
      <4>1. <<j, k>> \in usedBefore
        BY <2>1, <2>5, <3>3
      <4>2. <<i, k>> \in usedBefore
        BY <1>1, <2>2, <3>1, <3>3, <4>1
      <4>3. <<i, k>> \in r <=> i # u /\ (k = u \/ <<i, k>> \in usedBefore)
        BY <2>1
      <4> QED
        BY <3>1, <3>3, <4>2, <4>3
    <3> QED
      BY <3>2, <3>3
  <2> QED
    BY <2>3, <2>4, <2>5 DEF r
<1> HIDE DEF Orders
<1>4. Orders(usedBefore', DOMAIN sessions') => UsesOrdered'
  BY DEF Orders, UsesOrdered
<1>5. ASSUME NEW i \in Ids, NEW at, NEW later, Hit(i, at, later)
      PROVE  Orders(usedBefore', DOMAIN sessions')
  <2> DEFINE ids == DOMAIN sessions'
  <2>1. usedBefore' = UsedLast(i, ids) /\ ids \in SUBSET D
    BY <1>5 DEF Hit, Keep
  <2> HIDE DEF ids
  <2>2. Orders(UsedLast(i, ids), ids)
    BY <1>3, <2>1
  <2> QED
    BY <2>1, <2>2 DEF ids
<1>6. ASSUME NEW t \in Turns, NEW at \in 0 .. MaxTime, NEW later \in 0 .. MaxTime,
             EstimatedBytes(Context(t)) <= MaxBytes, Store(t, at, later)
      PROVE  Orders(usedBefore', DOMAIN sessions')
  <2> DEFINE ids == DOMAIN sessions'
  <2>1. usedBefore' = UsedLast(IdOf[t], ids)
    BY <1>6 DEF Store, Keep
  <2>2. ids \in SUBSET (D \cup {IdOf[t]})
    <3>1. DOMAIN Inserted(t, at) = D \cup {IdOf[t]}
      BY DEF Inserted
    <3> QED
      BY <1>6, <3>1, StoreStep
  <2> HIDE DEF ids
  <2>3. Orders(UsedLast(IdOf[t], ids), ids)
    BY <1>3, <2>2
  <2> QED
    BY <2>1, <2>3 DEF ids
<1>7. CASE Cleanup
  <2> DEFINE ids == DOMAIN sessions'
  <2>1. usedBefore' = Among(ids) /\ ids \in SUBSET D
    BY <1>7, CleanupStep DEF Cleanup
  <2> HIDE DEF ids
  <2>2. Orders(Among(ids), ids)
    BY <1>2, <2>1
  <2> QED
    BY <1>4, <2>1, <2>2 DEF ids
<1>8. CASE UNCHANGED <<sessions, usedBefore>>
  BY <1>8 DEF UsesOrdered
<1>9. CASE \E t \in Turns, prev \in Ids : BeginContinued(t, prev)
  BY <1>4, <1>5, <1>8, <1>9 DEF BeginContinued, Miss
<1>10. CASE \E t \in Turns : Save(t)
  BY <1>4, <1>6, <1>8, <1>10, ClockType DEF Save
<1> QED
  BY <1>7, <1>8, <1>9, <1>10 DEF Next, BeginNew, Abandon, Complete, vars

\* What "used less recently" means below: the recorded order of use is a
\* strict total order of the ids in the store, whatever has been replaced,
\* dropped or refreshed (src/session.rs: get, save, cleanup).
THEOREM UsesOrderedAlways == Spec => []UsesOrdered
<1>1. Init => UsesOrdered
  BY DEF Init, UsesOrdered
<1>2. StoreInv /\ UsesOrdered /\ [Next]_vars => UsesOrdered'
  BY NextUses
<1> QED
  BY <1>1, <1>2, StoreInvariant, PTL DEF Spec

\* What a save drops while the clock runs forward: what has expired, and the
\* entries with the oldest stamps, down to the last one over a cap; what it
\* saved stays, if anything may and the window has not passed already.
LEMMA SaveEvictsOldest ==
    ASSUME StoreInv, NEW t \in Turns, NEW at \in 0 .. MaxTime, NEW later \in 0 .. MaxTime,
           Store(t, at, later), \A i \in DOMAIN sessions : sessions[i].used < at
    PROVE  /\ MaxSessions > 0 => \/ IdOf[t] \in DOMAIN sessions' /\ sessions'[IdOf[t]].used = at
                                 \/ at + Ttl < later
           /\ \A i \in DOMAIN sessions \ DOMAIN sessions' :
                \/ sessions[i].used + Ttl < later
                \/ /\ IdOf[t] \in DOMAIN sessions' /\ sessions'[IdOf[t]].used = at
                   /\ \A j \in DOMAIN sessions' \ {IdOf[t]} :
                        j \in DOMAIN sessions /\ sessions[i].used <= sessions[j].used
                   /\ \E g \in DOMAIN sessions \ DOMAIN sessions' :
                        /\ sessions[i].used <= sessions[g].used
                        /\ \/ Cardinality(DOMAIN sessions') + 1 > MaxSessions
                           \/ Sum(sessions', DOMAIN sessions') + sessions[g].bytes > MaxBytes
<1> DEFINE id == IdOf[t]
           all == Inserted(t, at)
           gone == Expired(all, later)
           live == Keep(all, DOMAIN all \ gone)
           counted == Saturating(total, ReplacedBytes(IdOf[t])) + all[IdOf[t]].bytes
           unexpired == Saturating(counted, Sum(all, gone))
<1>1. PICK K \in Survivors(live, unexpired) : sessions' = Keep(live, K)
  BY DEF Store
<1>2. /\ Books(all, counted)
      /\ DOMAIN all = DOMAIN sessions \cup {id}
      /\ all[id].used = at
      /\ \A j \in DOMAIN sessions : j # id => all[j] = sessions[j]
  <2>1. all[id] = [items |-> Context(t), used |-> at, bytes |-> EstimatedBytes(Context(t))]
    BY InsertKeepsBooks DEF StoreInv
  <2>2. /\ Books(all, counted)
        /\ DOMAIN all = DOMAIN sessions \cup {id}
        /\ \A j \in DOMAIN sessions : j # id => all[j] = sessions[j]
    BY InsertKeepsBooks DEF StoreInv
  <2> QED
    BY <2>1, <2>2
<1>3. \A j \in DOMAIN sessions : sessions[j].used \in 0 .. MaxTime
  BY DEF StoreInv, TypeOK
<1> HIDE DEF all, id, counted
<1>4. /\ DOMAIN live = DOMAIN all \ gone
      /\ \A i \in DOMAIN live : live[i] = all[i]
      /\ Books(live, unexpired)
  BY <1>2, ExpiryKeepsBooks DEF Keep
<1>5. (id \in DOMAIN live /\ live[id].used = at) \/ at + Ttl < later
  BY <1>2, <1>4, LimitAssumption DEF Expired
<1>6. \A i \in DOMAIN live : i # id => i \in DOMAIN sessions /\ live[i] = sessions[i]
  BY <1>2, <1>4
<1>7. \A i \in DOMAIN sessions : i # id /\ i \notin DOMAIN live => sessions[i].used + Ttl < later
  BY <1>2, <1>3, <1>4, LimitAssumption DEF Expired
\* Where what is saved has expired, everything has: it is all older.
<1>8. ASSUME at + Ttl < later, NEW i \in DOMAIN sessions
      PROVE  sessions[i].used + Ttl < later
  BY <1>3, <1>8, LimitAssumption
<1> HIDE DEF live, unexpired
<1>9. K \in SUBSET DOMAIN live
  BY DEF Survivors
<1>10. DOMAIN sessions' = K /\ \A i \in K : sessions'[i] = live[i]
  BY <1>1 DEF Keep
<1>11. \A g \in DOMAIN live \ K, k \in K : live[g].used <= live[k].used
  BY DEF Survivors, OlderFirst
<1>12. ASSUME id \in DOMAIN live, live[id].used = at, id \notin K PROVE MaxSessions = 0
  <2>1. PICK g \in DOMAIN live \ K :
          /\ \A h \in DOMAIN live \ K : live[h].used <= live[g].used
          /\ \E n : OverLimit(Cardinality(K) + 1, n)
    BY <1>12 DEF Survivors, OlderFirst
  <2>2. g = id
    BY <1>3, <1>12, <1>6, <2>1
  <2>3. K = {}
    <3>1. ASSUME NEW k \in K PROVE FALSE
      <4>1. at <= live[k].used
        BY <1>12, <1>11
      <4>2. live[k].used < at /\ live[k].used \in 0 .. MaxTime
        BY <1>3, <1>6, <1>9, <1>12
      <4> QED
        BY <4>1, <4>2
    <3> QED
      BY <3>1
  <2>4. Cardinality(K) = 0
    BY <2>3, FS_EmptySet
  <2> QED
    BY <2>1, <2>4, LimitAssumption DEF OverLimit
<1>13. MaxSessions = 0 => DOMAIN sessions = {}
  <2>1. IsFiniteSet(DOMAIN sessions) /\ Cardinality(DOMAIN sessions) <= MaxSessions
    BY DEF StoreInv, Books, Fits
  <2> DEFINE n == Cardinality(DOMAIN sessions)
  <2>2. n \in Nat /\ (n = 0 <=> DOMAIN sessions = {})
    BY <2>1, FS_CardinalityType, FS_EmptySet
  <2>3. n <= MaxSessions
    BY <2>1
  <2> HIDE DEF n
  <2> QED
    BY <2>2, <2>3
\* The last one taken out was over a cap.
<1>14. ASSUME DOMAIN live # K
       PROVE  \E g \in DOMAIN live \ K :
                /\ \A h \in DOMAIN live \ K : live[h].used <= live[g].used
                /\ \/ Cardinality(K) + 1 > MaxSessions
                   \/ Sum(sessions', K) + live[g].bytes > MaxBytes
  <2>1. PICK g \in DOMAIN live \ K :
          /\ \A h \in DOMAIN live \ K : live[h].used <= live[g].used
          /\ OverLimit(Cardinality(K) + 1, Saturating(unexpired, Sum(live, DOMAIN live \ (K \cup {g}))))
    BY <1>14 DEF Survivors, OlderFirst
  <2> DEFINE T == Keep(live, K \cup {g})
             m == Saturating(unexpired, Sum(live, DOMAIN live \ (K \cup {g})))
  <2>2. K \cup {g} \in SUBSET DOMAIN live
    BY <1>9
  <2>3. Books(T, m) /\ DOMAIN T = K \cup {g} /\ \A i \in K \cup {g} : T[i] = live[i]
    BY <1>4, <2>2, DropKeepsBooks DEF Keep
  <2> HIDE DEF T, m
  <2>4. /\ IsFiniteSet(K \cup {g}) /\ m = Sum(T, K \cup {g})
        /\ \A i \in K \cup {g} : T[i].bytes \in Nat
    BY <2>3 DEF Books, Entry
  <2>5. m = Sum(T, {g}) + Sum(T, (K \cup {g}) \ {g})
    BY <2>4, SumFacts
  <2>6. (K \cup {g}) \ {g} = K
    OBVIOUS
  <2>7. Sum(T, {g}) = live[g].bytes
    BY <2>3, <2>4, SumOfNoneAndOne
  <2>8. Sum(T, K) = Sum(sessions', K) /\ Sum(T, K) \in Nat
    <3>1. IsFiniteSet(K) /\ \A i \in K : T[i].bytes = sessions'[i].bytes /\ T[i].bytes \in Nat
      BY <1>10, <2>3, <2>4, FS_Subset
    <3>2. Sum(T, K) \in Nat
      BY <3>1, SumFacts
    <3>3. Sum(T, K) = Sum(sessions', K)
      BY <3>1, SumSame
    <3> QED
      BY <3>2, <3>3
  <2>9. m = Sum(sessions', K) + live[g].bytes
    <3>1. live[g].bytes \in Nat
      BY <2>3, <2>4
    <3> QED
      BY <3>1, <2>5, <2>6, <2>7, <2>8
  <2>10. Cardinality(K) + 1 > MaxSessions \/ m > MaxBytes
    BY <2>1 DEF OverLimit, m
  <2> QED
    BY <2>1, <2>9, <2>10
<1>15. ASSUME NEW i \in DOMAIN sessions \ K, ~(sessions[i].used + Ttl < later)
       PROVE  /\ id \in K /\ live[id].used = at
              /\ \A j \in K \ {id} : j \in DOMAIN sessions /\ sessions[i].used <= sessions[j].used
              /\ \E g \in DOMAIN sessions \ K :
                   /\ sessions[i].used <= sessions[g].used
                   /\ \/ Cardinality(K) + 1 > MaxSessions
                      \/ Sum(sessions', K) + sessions[g].bytes > MaxBytes
  <2>1. id \in DOMAIN live /\ live[id].used = at
    BY <1>5, <1>8, <1>15
  <2>2. id \in K
    BY <1>12, <1>13, <2>1
  <2>3. i # id /\ i \in DOMAIN live
    BY <1>7, <1>15, <2>2
  <2>4. \A j \in K \ {id} : j \in DOMAIN sessions /\ sessions[i].used <= sessions[j].used
    BY <1>6, <1>9, <1>11, <2>3
  <2>5. PICK g \in DOMAIN live \ K :
          /\ \A h \in DOMAIN live \ K : live[h].used <= live[g].used
          /\ \/ Cardinality(K) + 1 > MaxSessions
             \/ Sum(sessions', K) + live[g].bytes > MaxBytes
    BY <1>14, <2>3
  <2>6. g \in DOMAIN sessions \ K /\ live[g] = sessions[g] /\ live[i] = sessions[i]
    BY <1>6, <2>2, <2>3
  <2> QED
    BY <2>1, <2>2, <2>3, <2>4, <2>5, <2>6
<1>16. MaxSessions > 0 => (id \in K /\ live[id].used = at) \/ at + Ttl < later
  BY <1>5, <1>12
<1> QED
  BY <1>10, <1>15, <1>16 DEF id

\* Whatever more there is in the store than one entry it would be over a cap
\* with, it is over that cap too.
LEMMA MoreIsOver ==
    ASSUME StoreInv, StoreInv', NEW more \in SUBSET (DOMAIN sessions \ DOMAIN sessions'),
           NEW g \in more,
           \/ Cardinality(DOMAIN sessions') + 1 > MaxSessions
           \/ Sum(sessions', DOMAIN sessions') + sessions[g].bytes > MaxBytes
    PROVE  \/ Cardinality(DOMAIN sessions' \cup more) > MaxSessions
           \/ Sum(sessions', DOMAIN sessions') + Sum(sessions, more) > MaxBytes
<1> DEFINE K == DOMAIN sessions'
           D == DOMAIN sessions
           m == Sum(sessions', K)
<1>1. IsFiniteSet(K) /\ IsFiniteSet(D) /\ \A i \in D : sessions[i].bytes \in Nat
  BY DEF StoreInv, Books, Entry
<1>2. m \in Nat
  BY DEF StoreInv, Books, TypeOK
<1>3. IsFiniteSet(more) /\ g \notin K
  BY <1>1, FS_Subset
<1> HIDE DEF K, D, m
<1>4. Cardinality(K \cup more) >= Cardinality(K) + 1
  <2>1. IsFiniteSet(K \cup {g}) /\ Cardinality(K \cup {g}) = Cardinality(K) + 1
    BY <1>1, <1>3, FS_AddElement
  <2>2. IsFiniteSet(K \cup more)
    BY <1>1, <1>3, FS_Union
  <2>3. K \cup {g} \subseteq K \cup more
    OBVIOUS
  <2>4. Cardinality(K \cup {g}) <= Cardinality(K \cup more)
    BY <2>2, <2>3, FS_Subset
  <2>5. Cardinality(K) \in Nat /\ Cardinality(K \cup more) \in Nat
    BY <1>1, <2>2, FS_CardinalityType
  <2> QED
    BY <2>1, <2>4, <2>5
<1>5. /\ Sum(sessions, more) \in Nat /\ sessions[g].bytes \in Nat
      /\ Sum(sessions, more) >= sessions[g].bytes
  <2>1. \A i \in more : sessions[i].bytes \in Nat
    BY <1>1 DEF D
  <2>2. Sum(sessions, more) = Sum(sessions, {g}) + Sum(sessions, more \ {g})
    BY <1>3, <2>1, SumFacts
  <2>3. Sum(sessions, {g}) = sessions[g].bytes
    BY <2>1, SumOfNoneAndOne
  <2>4. Sum(sessions, more \ {g}) \in Nat
    <3>1. IsFiniteSet(more \ {g})
      BY <1>3, FS_Subset
    <3> QED
      BY <2>1, <3>1, SumFacts
  <2> QED
    BY <2>1, <2>2, <2>3, <2>4
<1>6. Cardinality(K) \in Nat /\ Cardinality(K \cup more) \in Nat
  <2>1. IsFiniteSet(K \cup more)
    BY <1>1, <1>3, FS_Union
  <2> QED
    BY <1>1, <2>1, FS_CardinalityType
<1>7. Cardinality(K) + 1 > MaxSessions \/ m + sessions[g].bytes > MaxBytes
  BY DEF K, m
<1>8. Cardinality(K \cup more) > MaxSessions \/ m + Sum(sessions, more) > MaxBytes
  BY <1>2, <1>4, <1>5, <1>6, <1>7, LimitAssumption
<1> QED
  BY <1>8 DEF K, m

\* While the clock runs forward a session leaves the store only idle beyond
\* the window, or as the least recently used of a store that is over a cap with
\* it, and what was just saved stays where the window and the caps let anything
\* stay (src/session.rs: get, save, cleanup, enforce_limits, remove_oldest).
THEOREM EvictsAlways == Spec => EvictsLeastRecentlyUsed
<1> DEFINE Left(i) ==
             \/ sessions[i].used + Ttl < now'
             \/ /\ \E t \in Turns : Save(t) /\ IdOf[t] \in DOMAIN sessions'
                /\ HadToLeave(i)
                /\ \A j \in DOMAIN sessions' :
                     <<j, i>> \in usedBefore => sessions'[j].used = stamp'
           Kept(t) ==
             Save(t) /\ EstimatedBytes(Context(t)) <= MaxBytes /\ MaxSessions > 0
               => \/ IdOf[t] \in DOMAIN sessions' /\ sessions'[IdOf[t]].used = stamp'
                  \/ stamp' + Ttl < now'
           Evicts == ClockForward =>
                       /\ \A i \in DOMAIN sessions \ DOMAIN sessions' : Left(i)
                       /\ \A t \in Turns : Kept(t)
<1>1. ASSUME StoreInv, StoreInv', UsesOrdered, Next, ClockForward
      PROVE  (\A i \in DOMAIN sessions \ DOMAIN sessions' : Left(i)) /\ (\A t \in Turns : Kept(t))
  <2> USE <1>1
  <2>0. ASSUME NEW t \in Turns, Save(t), EstimatedBytes(Context(t)) <= MaxBytes
        PROVE  /\ stamp' \in 0 .. MaxTime /\ now' \in 0 .. MaxTime /\ Store(t, stamp', now')
               /\ \A i \in DOMAIN sessions : sessions[i].used < stamp'
    <3>1. EstimatedBytes(Context(t)) \in Nat
      BY ContextType DEF StoreInv
    <3>2. \E at \in Clock : \E later \in Again(at) :
            stamp' = at /\ now' = later /\ Store(t, at, later)
      BY <2>0, <3>1, LimitAssumption DEF Save
    <3> QED
      BY <3>2, ClockType DEF ClockForward
  <2>k. ASSUME NEW t \in Turns PROVE Kept(t)
    BY <2>0, SaveEvictsOldest
  <2>1. CASE \E t \in Turns : BeginNew(t) \/ Abandon(t) \/ Complete(t)
    BY <2>k, <2>1 DEF BeginNew, Abandon, Complete
  <2>2. ASSUME NEW t \in Turns, NEW prev \in Ids, BeginContinued(t, prev),
               NEW i \in DOMAIN sessions \ DOMAIN sessions'
        PROVE  Left(i)
    <3>1. PICK at \in 0 .. MaxTime, later \in 0 .. MaxTime :
            Hit(prev, at, later) /\ stamp' = at /\ now' = later
      BY <2>2, ClockType DEF BeginContinued, Miss
    <3> DEFINE touched == [sessions EXCEPT ![prev].used = at]
    <3>2. /\ DOMAIN touched = DOMAIN sessions
          /\ touched[i].used = IF i = prev THEN at ELSE sessions[i].used
      BY <3>1, TouchKeepsBooks DEF Hit, StoreInv
    <3>3. DOMAIN sessions' = DOMAIN touched \ Expired(touched, later)
      BY <3>1 DEF Hit, Keep
    <3> HIDE DEF touched
    <3>4. touched[i].used < later - Ttl
      BY <3>2, <3>3 DEF Expired
    <3>5. sessions[i].used \in 0 .. MaxTime /\ sessions[i].used < at
      BY <3>1 DEF StoreInv, TypeOK, ClockForward
    <3> QED
      BY <3>1, <3>2, <3>4, <3>5, LimitAssumption
  <2>3. ASSUME NEW t \in Turns, Save(t), NEW i \in DOMAIN sessions \ DOMAIN sessions',
               ~(sessions[i].used + Ttl < now')
        PROVE  Left(i)
    <3>1. EstimatedBytes(Context(t)) <= MaxBytes
      BY <2>3 DEF Save
    <3>2. /\ IdOf[t] \in DOMAIN sessions' /\ sessions'[IdOf[t]].used = stamp'
          /\ \A j \in DOMAIN sessions' \ {IdOf[t]} :
               j \in DOMAIN sessions /\ sessions[i].used <= sessions[j].used
          /\ \E g \in DOMAIN sessions \ DOMAIN sessions' :
               /\ sessions[i].used <= sessions[g].used
               /\ \/ Cardinality(DOMAIN sessions') + 1 > MaxSessions
                  \/ Sum(sessions', DOMAIN sessions') + sessions[g].bytes > MaxBytes
      BY <2>0, <2>3, <3>1, SaveEvictsOldest
    <3>3. ASSUME NEW j \in DOMAIN sessions', <<j, i>> \in usedBefore, j # IdOf[t]
          PROVE  FALSE
      <4>1. j \in DOMAIN sessions /\ sessions[i].used <= sessions[j].used
        BY <3>2, <3>3
      <4>2. sessions[j].used < sessions[i].used
        BY <3>3 DEF ClockForward
      <4>3. sessions[i].used \in 0 .. MaxTime /\ sessions[j].used \in 0 .. MaxTime
        BY <4>1 DEF StoreInv, TypeOK
      <4> QED
        BY <4>1, <4>2, <4>3
    <3>4. HadToLeave(i)
      <4>1. PICK g \in DOMAIN sessions \ DOMAIN sessions' :
              /\ sessions[i].used <= sessions[g].used
              /\ \/ Cardinality(DOMAIN sessions') + 1 > MaxSessions
                 \/ Sum(sessions', DOMAIN sessions') + sessions[g].bytes > MaxBytes
        BY <3>2
      <4>2. g = i \/ <<i, g>> \in usedBefore
        <5>1. ASSUME <<g, i>> \in usedBefore PROVE FALSE
          <6>1. sessions[g].used < sessions[i].used
            BY <5>1 DEF ClockForward
          <6>2. sessions[i].used \in 0 .. MaxTime /\ sessions[g].used \in 0 .. MaxTime
            BY DEF StoreInv, TypeOK
          <6> QED
            BY <4>1, <6>1, <6>2
        <5> QED
          BY <5>1 DEF UsesOrdered
      <4> DEFINE more == {i} \cup {j \in DOMAIN sessions \ DOMAIN sessions' : <<i, j>> \in usedBefore}
      <4>3. more \in SUBSET (DOMAIN sessions \ DOMAIN sessions') /\ g \in more
        BY <4>2
      <4> HIDE DEF more
      <4>4. \/ Cardinality(DOMAIN sessions' \cup more) > MaxSessions
            \/ Sum(sessions', DOMAIN sessions') + Sum(sessions, more) > MaxBytes
        BY <4>1, <4>3, MoreIsOver
      <4> QED
        BY <4>4 DEF HadToLeave, more
    <3> QED
      BY <2>3, <3>2, <3>3, <3>4
  <2>4. ASSUME Cleanup, NEW i \in DOMAIN sessions \ DOMAIN sessions'
        PROVE  sessions[i].used + Ttl < now'
    <3>1. now' \in 0 .. MaxTime /\ DOMAIN sessions' = DOMAIN sessions \ Expired(sessions, now')
      BY <2>4, CleanupStep
    <3>2. sessions[i].used < now' - Ttl
      BY <2>4, <3>1 DEF Expired
    <3>3. sessions[i].used \in 0 .. MaxTime
      BY <2>4 DEF StoreInv, TypeOK
    <3> QED
      BY <3>1, <3>2, <3>3, LimitAssumption
  <2> HIDE DEF Left, Kept
  <2>5. ASSUME NEW i \in DOMAIN sessions \ DOMAIN sessions', sessions[i].used + Ttl < now' PROVE Left(i)
    BY <2>5 DEF Left
  <2> QED
    BY <2>k, <2>1, <2>2, <2>3, <2>4, <2>5 DEF Next
<1>2. StoreInv /\ StoreInv' /\ UsesOrdered /\ [Next]_vars => [Evicts]_vars
  BY <1>1
<1>3. Spec => [][Evicts]_vars
  <2> HIDE DEF Evicts
  <2> QED
    BY <1>2, StoreInvariant, UsesOrderedAlways, PTL DEF Spec
<1> QED
  BY <1>3 DEF EvictsLeastRecentlyUsed
=============================================================================
