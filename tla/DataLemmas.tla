---------------------------- MODULE DataLemmas -----------------------------
(***************************************************************************)
(* Facts about queues kept as sequences without repetitions, and what      *)
(* proofs by induction and definitions by recursion rest on.               *)
(***************************************************************************)
EXTENDS Integers, SequencesExt, FiniteSetTheorems, SequenceTheorems, TLAPS

-----------------------------------------------------------------------------
(* Queues *)

\* Appending adds one element to the range, and a new one keeps a sequence
\* free of repetitions.
LEMMA RangeAppend ==
  ASSUME NEW S, NEW s \in Seq(S), NEW x \in S
  PROVE  /\ Range(Append(s, x)) = Range(s) \cup {x}
         /\ IsInjective(s) /\ x \notin Range(s) => IsInjective(Append(s, x))
<1>1. /\ Append(s, x) \in Seq(S)
      /\ DOMAIN Append(s, x) = 1 .. (Len(s) + 1)
      /\ DOMAIN s = 1 .. Len(s)
      /\ Len(s) \in Nat
      /\ \A i \in 1 .. Len(s) : Append(s, x)[i] = s[i]
      /\ Append(s, x)[Len(s) + 1] = x
  BY SMT
<1>2. 1 .. (Len(s) + 1) = (1 .. Len(s)) \cup {Len(s) + 1}
  BY <1>1, SMT
<1>3. ASSUME IsInjective(s), x \notin Range(s)
      PROVE  IsInjective(Append(s, x))
  <2>1. \A i \in 1 .. Len(s) : s[i] # x
    BY <1>1, <1>3 DEF Range
  <2>2. \A i \in 1 .. (Len(s) + 1) : i \in 1 .. Len(s) \/ i = Len(s) + 1
    BY <1>1, SMT
  <2>3. QED
    BY <1>1, <1>3, <2>1, <2>2 DEF IsInjective
<1>4. QED
  BY <1>1, <1>2, <1>3 DEF Range

\* Moving the head of a queue to the end of the sequence before it keeps
\* their concatenation; if that has no repetitions the head is new there.
LEMMA MoveHead ==
  ASSUME NEW S, NEW s \in Seq(S), NEW q \in Seq(S), q # <<>>
  PROVE  /\ Head(q) \in S
         /\ Tail(q) \in Seq(S)
         /\ Append(s, Head(q)) \o Tail(q) = s \o q
         /\ IsInjective(s \o q) => Head(q) \notin Range(s)
<1>1. /\ Head(q) \in S
      /\ Tail(q) \in Seq(S)
      /\ q = <<Head(q)>> \o Tail(q)
  BY HeadTailProperties, SMT
<1>2. Append(s, Head(q)) = s \o <<Head(q)>>
  BY <1>1, AppendIsConcat
<1>3. (s \o <<Head(q)>>) \o Tail(q) = s \o (<<Head(q)>> \o Tail(q))
  BY <1>1, ConcatAssociative, <<Head(q)>> \in Seq(S)
<1>4. ASSUME IsInjective(s \o q) PROVE Head(q) \notin Range(s)
  <2>1. /\ Len(s) \in Nat
        /\ Len(q) \in Nat \ {0}
        /\ DOMAIN s = 1 .. Len(s)
        /\ DOMAIN (s \o q) = 1 .. (Len(s) + Len(q))
        /\ \A i \in 1 .. Len(s) : (s \o q)[i] = s[i]
        /\ (s \o q)[Len(s) + 1] = Head(q)
    BY SMT
  <2>2. /\ Len(s) + 1 \in 1 .. (Len(s) + Len(q))
        /\ \A i \in 1 .. Len(s) : i \in 1 .. (Len(s) + Len(q)) /\ i # Len(s) + 1
    BY <2>1, SMT
  <2>3. \A i \in 1 .. Len(s) : s[i] # Head(q)
    BY <1>4, <2>1, <2>2 DEF IsInjective
  <2>4. QED
    BY <2>1, <2>3 DEF Range
<1>5. QED
  BY <1>1, <1>2, <1>3, <1>4

\* The tail of a queue without repetitions lacks its head and nothing else.
LEMMA RangeTail ==
  ASSUME NEW S, NEW q \in Seq(S), q # <<>>, IsInjective(q)
  PROVE  /\ IsInjective(Tail(q))
         /\ Head(q) \in Range(q)
         /\ Head(q) \notin Range(Tail(q))
         /\ Range(q) = Range(Tail(q)) \cup {Head(q)}
<1>1. /\ Len(q) \in Nat \ {0}
      /\ DOMAIN q = 1 .. Len(q)
      /\ DOMAIN Tail(q) = 1 .. (Len(q) - 1)
      /\ Head(q) = q[1]
      /\ \A i \in 1 .. (Len(q) - 1) : Tail(q)[i] = q[i + 1]
  BY SMT
<1>2. /\ 1 \in 1 .. Len(q)
      /\ \A i \in 1 .. (Len(q) - 1) : i + 1 \in 1 .. Len(q) /\ i + 1 # 1
      /\ \A i \in 1 .. Len(q) : i = 1 \/ i - 1 \in 1 .. (Len(q) - 1)
      /\ \A i \in 1 .. Len(q) : (i - 1) + 1 = i
  BY <1>1, SMT
<1>3. \A i, j \in 1 .. (Len(q) - 1) : i + 1 = j + 1 => i = j
  BY SMT
<1>4. IsInjective(Tail(q))
  BY <1>1, <1>2, <1>3 DEF IsInjective
<1>5. Head(q) \in Range(q)
  BY <1>1, <1>2 DEF Range
<1>6. Head(q) \notin Range(Tail(q))
  BY <1>1, <1>2 DEF IsInjective, Range
<1>7. Range(q) = Range(Tail(q)) \cup {Head(q)}
  <2>1. ASSUME NEW i \in 1 .. Len(q), i # 1
        PROVE  q[i] \in Range(Tail(q))
    <3>1. i - 1 \in 1 .. (Len(q) - 1) /\ Tail(q)[i - 1] = q[i]
      BY <1>1, <1>2, <2>1
    <3>2. QED
      BY <1>1, <3>1 DEF Range
  <2>2. \A x \in Range(Tail(q)) : x \in Range(q)
    BY <1>1, <1>2 DEF Range
  <2>3. \A x \in Range(q) : x = Head(q) \/ x \in Range(Tail(q))
    BY <1>1, <2>1 DEF Range
  <2>4. QED
    BY <1>5, <2>2, <2>3
<1>8. QED
  BY <1>4, <1>5, <1>6, <1>7
-----------------------------------------------------------------------------
(* Induction and recursion *)

\* A set of natural numbers has a least element: what a proof by induction
\* comes down to.
LEMMA Least ==
  ASSUME NEW S, S \subseteq Nat, S # {}
  PROVE  \E m \in S : \A n \in S : m <= n
<1> PICK k \in S : TRUE
  OBVIOUS
<1> DEFINE All == 0 .. k
           T == {A \in SUBSET All : \E n \in S : n <= k /\ A = 0 .. n}
           R == StrictSubsetOrdering(All)
<1>1. IsFiniteSet(All)
  BY FS_Interval
<1>2. IsWellFoundedOn(R, SUBSET All)
  <2> HIDE DEF All
  <2>1. QED
    BY <1>1, FS_StrictSubsetOrderingWellFounded, FS_FiniteSubsetsOfFinite
<1>3. T \subseteq SUBSET All /\ 0 .. k \in T
  OBVIOUS
<1>4. PICK A \in T : \A B \in T : <<B, A>> \notin R
  <2> HIDE DEF R, T
  <2>1. QED
    BY <1>2, <1>3, WFMin
<1>5. PICK m \in S : A = 0 .. m /\ m <= k
  OBVIOUS
<1>6. ASSUME NEW n \in S, n < m PROVE FALSE
  <2>1. n \in Nat /\ m \in Nat /\ k \in Nat /\ n <= k
    BY <1>5, <1>6
  <2>2. 0 .. n \in SUBSET All /\ 0 .. m \in SUBSET All
    BY <2>1, <1>5
  <2>3. 0 .. n \in T
    BY <2>1, <2>2
  <2>4. 0 .. n \subseteq 0 .. m /\ m \in 0 .. m /\ m \notin 0 .. n
    BY <2>1, <1>6
  <2>5. <<0 .. n, 0 .. m>> \in R
    <3> HIDE DEF All
    <3>1. QED
      BY <2>2, <2>4 DEF StrictSubsetOrdering
  <2>6. QED
    BY <1>4, <1>5, <2>3, <2>5
<1>7. QED
  BY <1>6

\* A set of natural numbers that is bounded has a greatest element.
LEMMA Greatest ==
  ASSUME NEW S, NEW k \in Nat, S \subseteq 0 .. k, S # {}
  PROVE  \E m \in S : \A n \in S : n <= m
<1> DEFINE Rest == {k - n : n \in S}
<1>1. Rest \subseteq Nat /\ Rest # {}
  <2>1. \A n \in S : k - n \in Nat
    OBVIOUS
  <2>2. QED
    BY <2>1
<1>2. PICK r \in Rest : \A n \in Rest : r <= n
  <2> HIDE DEF Rest
  <2>1. QED
    BY <1>1, Least
<1>3. PICK m \in S : r = k - m
  BY <1>2
<1>4. \A n \in S : k - m <= k - n
  BY <1>2, <1>3
<1>5. QED
  BY <1>3, <1>4

\* What a definition by recursion on a size is given with: the argument of the
\* recursive call, the value where there is none, and the value where there is.
RecursionOn(X, V, size, before, base, step) ==
  /\ size \in [X -> Nat] /\ before \in [X -> X]
  /\ base \in [X -> V] /\ step \in [X \X V -> V]
  /\ \A x \in X : size[x] # 0 => size[before[x]] < size[x]

Follows(f, X, size, before, base, step) ==
  \A x \in X : f[x] = IF size[x] = 0 THEN base[x] ELSE step[<<x, f[before[x]]>>]

\* A function may be defined by recursion on a size that the argument of the
\* recursive call lowers.
LEMMA Recursion ==
  ASSUME NEW X, NEW V, NEW size, NEW before, NEW base, NEW step,
         RecursionOn(X, V, size, before, base, step)
  PROVE  \E f \in [X -> V] : Follows(f, X, size, before, base, step)
<1> USE DEF RecursionOn, Follows
<1> DEFINE Step(f, x) == IF size[x] = 0 THEN base[x] ELSE step[<<x, f[before[x]]>>]
           Upto(k) == {f \in [X -> V] : \A x \in X : size[x] <= k => f[x] = Step(f, x)}
<1>1. \A f \in [X -> V], x \in X : Step(f, x) \in V
  OBVIOUS
<1>2. \A k \in Nat : Upto(k) # {}
  <2> DEFINE Fails == {k \in Nat : Upto(k) = {}}
  <2>1. SUFFICES ASSUME Fails # {} PROVE FALSE
    OBVIOUS
  <2>2. PICK k \in Fails : \A n \in Fails : k <= n
    <3> HIDE DEF Fails
    <3>1. Fails \subseteq Nat
      BY DEF Fails
    <3>2. QED
      BY <2>1, <3>1, Least
  <2>3. CASE k = 0
    <3>1. base \in Upto(0)
      OBVIOUS
    <3>2. QED
      BY <2>3, <3>1
  <2>4. CASE k # 0
    <3>1. k - 1 \in Nat /\ k - 1 \notin Fails
      BY <2>2, <2>4
    <3>2. PICK f \in Upto(k - 1) : TRUE
      BY <3>1
    <3> DEFINE g == [x \in X |-> Step(f, x)]
    <3>3. g \in [X -> V]
      BY <1>1
    <3>4. \A x \in X : size[x] <= k - 1 => g[x] = f[x]
      OBVIOUS
    <3>5. \A x \in X : size[x] <= k /\ size[x] # 0 => size[before[x]] <= k - 1
      BY <3>1
    <3>6. \A x \in X : size[x] <= k => g[x] = Step(g, x)
      BY <3>4, <3>5
    <3>7. g \in Upto(k)
      BY <3>3, <3>6
    <3>8. QED
      BY <3>7
  <2>5. QED
    BY <2>3, <2>4
<1>3. ASSUME NEW j \in Nat, NEW k \in Nat, NEW f \in Upto(j), NEW g \in Upto(k),
             NEW x \in X, size[x] <= j, size[x] <= k
      PROVE  f[x] = g[x]
  <2> DEFINE Differ == {n \in Nat : \E y \in X : /\ size[y] = n /\ n <= j /\ n <= k
                                               /\ f[y] # g[y]}
  <2>1. SUFFICES ASSUME Differ # {} PROVE FALSE
    BY <1>3
  <2>2. PICK n \in Differ : \A i \in Differ : n <= i
    <3> HIDE DEF Differ
    <3>1. Differ \subseteq Nat
      BY DEF Differ
    <3>2. QED
      BY <2>1, <3>1, Least
  <2>3. PICK y \in X : size[y] = n /\ n <= j /\ n <= k /\ f[y] # g[y]
    OBVIOUS
  <2>4. f[y] = Step(f, y) /\ g[y] = Step(g, y)
    BY <2>3
  <2>5. size[y] # 0 /\ f[before[y]] # g[before[y]]
    BY <2>3, <2>4
  <2>6. /\ before[y] \in X /\ size[before[y]] \in Nat /\ size[before[y]] < n
        /\ size[before[y]] <= j /\ size[before[y]] <= k
    <3> HIDE DEF Upto
    <3>1. QED
      BY <2>3, <2>5
  <2>7. size[before[y]] \in Differ
    <3> HIDE DEF Upto
    <3>1. QED
      BY <2>5, <2>6
  <2>8. QED
    BY <2>2, <2>6, <2>7
<1> DEFINE Pick(k) == CHOOSE f : f \in Upto(k)
           F == [x \in X |-> Pick(size[x])[x]]
<1>4. \A k \in Nat : Pick(k) \in Upto(k)
  <2> HIDE DEF Upto
  <2>1. QED
    BY <1>2
<1>5. F \in [X -> V]
  <2> HIDE DEF Pick
  <2>1. QED
    BY <1>4
<1>6. ASSUME NEW x \in X PROVE F[x] = Step(F, x)
  <2> HIDE DEF Pick
  <2>1. F[x] = Step(Pick(size[x]), x)
    BY <1>4
  <2>2. CASE size[x] # 0
    <3>1. before[x] \in X /\ size[before[x]] \in Nat /\ size[x] \in Nat
          /\ size[before[x]] < size[x]
      BY <2>2
    <3>2. Pick(size[x])[before[x]] = Pick(size[before[x]])[before[x]]
      <4> HIDE DEF Upto
      <4>1. size[before[x]] <= size[x] /\ size[before[x]] <= size[before[x]]
        BY <3>1
      <4>2. QED
        BY <1>3, <1>4, <3>1, <4>1
    <3>3. QED
      BY <2>1, <2>2, <3>1, <3>2
  <2>3. QED
    BY <2>1, <2>2
<1>7. QED
  BY <1>5, <1>6
-----------------------------------------------------------------------------
(* Sequences put end to end *)

\* A sequence of sequences is put end to end from the front.
LEMMA Flattening ==
  ASSUME NEW S
  PROVE  /\ FlattenSeq(<<>>) = <<>>
         /\ \A a \in Seq(Seq(S)) : FlattenSeq(a) \in Seq(S)
         /\ \A a \in Seq(Seq(S)), c \in Seq(S) :
              FlattenSeq(Append(a, c)) = FlattenSeq(a) \o c
<1> DEFINE Def(a, f) == [i \in 1 .. Len(a) |->
                           IF i = 1 THEN a[i] ELSE f[i - 1] \o a[i]]
           Is(a, f) == \A i \in 1 .. Len(a) :
                         f[i] = IF i = 1 THEN a[i] ELSE f[i - 1] \o a[i]
<1>1. FlattenSeq(<<>>) = <<>>
  BY DEF FlattenSeq
<1>2. ASSUME NEW a \in Seq(Seq(S)), a # <<>>
      PROVE  \E f \in [1 .. Len(a) -> Seq(S)] : Is(a, f) /\ FlattenSeq(a) = f[Len(a)]
  <2> DEFINE X == 1 .. Len(a)
             V == Seq(S)
             size == [i \in X |-> i - 1]
             before == [i \in X |-> IF i = 1 THEN 1 ELSE i - 1]
             base == [i \in X |-> a[i]]
             step == [p \in X \X V |-> p[2] \o a[p[1]]]
  <2>1. /\ Len(a) \in Nat /\ Len(a) >= 1
        /\ \A i \in X : a[i] \in Seq(S)
    <3>1. Len(a) \in Nat /\ Len(a) # 0 /\ \A i \in X : a[i] \in Seq(S)
      BY <1>2, EmptySeq, LenProperties, ElementOfSeq
    <3>2. QED
      BY <3>1
  <2>2. RecursionOn(X, V, size, before, base, step)
    <3>1. size \in [X -> Nat] /\ before \in [X -> X]
      BY <2>1
    <3>2. base \in [X -> V]
      BY <2>1
    <3>3. step \in [X \X V -> V]
      <4>1. \A p \in X \X V : p[2] \o a[p[1]] \in V
        BY <2>1, ConcatProperties
      <4>2. QED
        BY <4>1, Zenon
    <3>4. \A i \in X : size[i] # 0 => size[before[i]] < size[i]
      BY <2>1
    <3> HIDE DEF size, before, base, step, X, V
    <3>5. QED
      BY <3>1, <3>2, <3>3, <3>4 DEF RecursionOn
  <2>3. PICK f \in [X -> V] : Follows(f, X, size, before, base, step)
    <3> HIDE DEF size, before, base, step, X, V
    <3>1. QED
      BY <2>2, Recursion
  <2>4. Is(a, f)
    <3> SUFFICES ASSUME NEW i \in X
                 PROVE  f[i] = IF i = 1 THEN a[i] ELSE f[i - 1] \o a[i]
      OBVIOUS
    <3>1. f[i] = IF size[i] = 0 THEN base[i] ELSE step[<<i, f[before[i]]>>]
      <4> HIDE DEF size, before, base, step
      <4>1. QED
        BY <2>3 DEF Follows
    <3>2. CASE i = 1
      <4>1. size[i] = 0 /\ base[i] = a[i]
        BY <3>2
      <4> HIDE DEF size, before, base, step
      <4>2. QED
        BY <3>1, <3>2, <4>1
    <3>3. CASE i # 1
      <4>1. size[i] # 0 /\ before[i] = i - 1 /\ i - 1 \in X
        BY <2>1, <3>3
      <4>2. f[i - 1] \in V
        BY <4>1
      <4>3. step[<<i, f[i - 1]>>] = f[i - 1] \o a[i]
        BY <4>2
      <4> HIDE DEF size, before, base, step
      <4>4. QED
        BY <3>1, <3>3, <4>1, <4>3
    <3>4. QED
      BY <3>2, <3>3
  <2> HIDE DEF size, before, base, step
  <2>5. f = Def(a, f)
    BY <2>4
  <2> DEFINE g == CHOOSE h : h = Def(a, h)
  <2>6. g = Def(a, g)
    <3> HIDE DEF Def
    <3>1. QED
      BY <2>5
  <2>7. Is(a, g)
    BY <2>6
  <2>8. FlattenSeq(a) = g[Len(a)]
    BY <2>1 DEF FlattenSeq
  <2> HIDE DEF g
  <2>9. \A i \in X : g[i] = f[i]
    <3> DEFINE Fails == {i \in X : g[i] # f[i]}
    <3>1. SUFFICES ASSUME Fails # {} PROVE FALSE
      OBVIOUS
    <3>2. PICK i \in Fails : \A j \in Fails : i <= j
      <4>1. Fails \subseteq Nat
        OBVIOUS
      <4> HIDE DEF Fails
      <4>2. QED
        BY <3>1, <4>1, Least
    <3>3. CASE i = 1
      BY <2>4, <2>7, <3>2, <3>3
    <3>4. CASE i # 1
      <4>1. i - 1 \in X /\ i - 1 \notin Fails
        BY <2>1, <3>2, <3>4
      <4>2. g[i] = g[i - 1] \o a[i]
        BY <2>7, <3>2, <3>4
      <4>3. f[i] = f[i - 1] \o a[i]
        BY <2>4, <3>2, <3>4
      <4>4. g[i - 1] = f[i - 1] /\ g[i] # f[i]
        BY <3>2, <4>1
      <4>5. QED
        BY <4>2, <4>3, <4>4
    <3>5. QED
      BY <3>3, <3>4
  <2>10. Len(a) \in X
    BY <2>1
  <2>11. QED
    BY <2>4, <2>8, <2>9, <2>10
<1> HIDE DEF Def
<1>3. \A x, y, z \in Seq(S) : (x \o y) \o z = x \o (y \o z)
  <2> HIDE DEF Is
  <2>1. QED
    BY ConcatAssociative
<1>4. \A a \in Seq(Seq(S)) : FlattenSeq(a) \in Seq(S)
  <2> SUFFICES ASSUME NEW a \in Seq(Seq(S)) PROVE FlattenSeq(a) \in Seq(S)
    OBVIOUS
  <2>1. CASE a = <<>>
    <3>1. FlattenSeq(a) = <<>> /\ <<>> \in Seq(S)
      BY <1>1, <2>1
    <3>2. QED
      BY <3>1
  <2>2. CASE a # <<>>
    <3>1. Len(a) \in 1 .. Len(a)
      BY <2>2, EmptySeq, LenProperties
    <3>2. QED
      BY <1>2, <2>2, <3>1
  <2>3. QED
    BY <2>1, <2>2
<1>5. ASSUME NEW a \in Seq(Seq(S)), NEW c \in Seq(S)
      PROVE  FlattenSeq(Append(a, c)) = FlattenSeq(a) \o c
  <2> DEFINE b == Append(a, c)
  <2>1. /\ b \in Seq(Seq(S)) /\ Len(b) = Len(a) + 1 /\ Len(a) \in Nat
        /\ \A i \in 1 .. Len(a) : b[i] = a[i]
        /\ b[Len(a) + 1] = c /\ b # <<>>
    <3>1. /\ b \in Seq(Seq(S)) /\ Len(b) = Len(a) + 1 /\ Len(a) \in Nat
          /\ \A i \in 1 .. Len(a) : b[i] = a[i]
          /\ b[Len(a) + 1] = c
      BY AppendProperties, LenProperties
    <3> HIDE DEF b
    <3>2. b # <<>>
      BY <3>1, EmptySeq
    <3>3. QED
      BY <3>1, <3>2
  <2> HIDE DEF b
  <2>2. PICK g \in [1 .. Len(b) -> Seq(S)] : Is(b, g) /\ FlattenSeq(b) = g[Len(b)]
    BY <1>2, <2>1
  <2>3. CASE a = <<>>
    <3>1. Len(a) = 0 /\ Len(b) = 1 /\ FlattenSeq(b) = c
      <4>1. Len(a) = 0
        BY <2>3
      <4>2. QED
        BY <2>1, <2>2, <4>1
    <3>2. <<>> \o c = c
      BY <2>1, ConcatEmptySeq
    <3>3. QED
      BY <1>1, <2>3, <3>1, <3>2 DEF b
  <2>4. CASE a # <<>>
    <3>1. PICK f \in [1 .. Len(a) -> Seq(S)] : Is(a, f) /\ FlattenSeq(a) = f[Len(a)]
      BY <1>2, <2>4
    <3>2. Len(a) >= 1
      BY <2>1, <2>4, EmptySeq
    <3>3. \A i \in 1 .. Len(a) : g[i] = f[i]
      <4> DEFINE Fails == {i \in 1 .. Len(a) : g[i] # f[i]}
      <4>1. SUFFICES ASSUME Fails # {} PROVE FALSE
        OBVIOUS
      <4>2. PICK i \in Fails : \A j \in Fails : i <= j
        <5>1. Fails \subseteq Nat
          OBVIOUS
        <5> HIDE DEF Fails
        <5>2. QED
          BY <4>1, <5>1, Least
      <4>3. i \in 1 .. Len(a) /\ i \in 1 .. Len(b) /\ b[i] = a[i]
        BY <2>1, <4>2
      <4>4. CASE i = 1
        BY <2>2, <3>1, <4>2, <4>3, <4>4
      <4>5. CASE i # 1
        <5>1. i - 1 \in 1 .. Len(a) /\ i - 1 \notin Fails
          <6>1. i - 1 \in 1 .. Len(a) /\ ~(i <= i - 1)
            BY <2>1, <4>3, <4>5
          <6> HIDE DEF Fails
          <6>2. QED
            BY <4>2, <6>1
        <5>2. g[i] = g[i - 1] \o b[i]
          BY <2>2, <4>3, <4>5
        <5>3. f[i] = f[i - 1] \o a[i]
          BY <3>1, <4>3, <4>5
        <5>4. g[i - 1] = f[i - 1] /\ g[i] # f[i]
          BY <4>2, <5>1
        <5>5. QED
          BY <4>3, <5>2, <5>3, <5>4
      <4>6. QED
        BY <4>4, <4>5
    <3>4. g[Len(b)] = g[Len(a)] \o c
      <4>1. Len(b) \in 1 .. Len(b) /\ Len(b) # 1 /\ Len(b) - 1 = Len(a)
        BY <2>1, <3>2
      <4>2. QED
        BY <2>1, <2>2, <4>1
    <3>5. Len(a) \in 1 .. Len(a)
      BY <2>1, <3>2
    <3>6. QED
      BY <2>2, <3>1, <3>3, <3>4, <3>5 DEF b
  <2>5. QED
    BY <2>3, <2>4
<1>6. QED
  BY <1>1, <1>4, <1>5
=============================================================================
