------------------------ MODULE TextPositionsProofs -------------------------
(***************************************************************************)
(* Theorems about positions.                                               *)
(***************************************************************************)
EXTENDS TextPositions, DataLemmas

-----------------------------------------------------------------------------
(* Characters *)

LEMMA Letters ==
  \A c \in Characters :
    /\ Utf8Of[c] \in Seq(Bytes) /\ Len(Utf8Of[c]) \in 1 .. 4
    /\ Utf8Of[c][1] \in Bytes /\ FullLength[Utf8Of[c][1]] = Len(Utf8Of[c])
    /\ Utf8Of[c][1] = "nl" <=> c = "nl"
    /\ c = "nl" => Len(Utf8Of[c]) = 1
    /\ \A i \in 2 .. Len(Utf8Of[c]) : Utf8Of[c][i] # "nl"
    /\ Width(c, "utf-8") = Len(Utf8Of[c])
    /\ Width(c, "utf-16") = CodeUnits[Utf8Of[c][1]] /\ Width(c, "utf-16") \in 1 .. 2
    /\ Width(c, "utf-32") = 1
<1>1. Characters = {"a", "nl", "e", "w", "g"}
  BY DEF Characters, Utf8Of
<1>2. /\ Utf8Of["a"] = <<"ascii">> /\ Utf8Of["nl"] = <<"nl">>
      /\ Utf8Of["e"] = <<"lead2", "cont">>
      /\ Utf8Of["w"] = <<"lead3", "cont", "cont">>
      /\ Utf8Of["g"] = <<"lead4", "cont", "cont", "cont">>
  BY DEF Utf8Of
<1>3. /\ FullLength["ascii"] = 1 /\ FullLength["nl"] = 1 /\ FullLength["lead2"] = 2
      /\ FullLength["lead3"] = 3 /\ FullLength["lead4"] = 4
      /\ CodeUnits["ascii"] = 1 /\ CodeUnits["nl"] = 1 /\ CodeUnits["lead2"] = 1
      /\ CodeUnits["lead3"] = 1 /\ CodeUnits["lead4"] = 2
  BY DEF FullLength, CodeUnits
<1>4. ASSUME NEW c \in Characters
      PROVE  /\ Utf8Of[c] \in Seq(Bytes) /\ Len(Utf8Of[c]) \in 1 .. 4
             /\ Utf8Of[c][1] \in Bytes /\ FullLength[Utf8Of[c][1]] = Len(Utf8Of[c])
             /\ Utf8Of[c][1] = "nl" <=> c = "nl"
             /\ c = "nl" => Len(Utf8Of[c]) = 1
             /\ \A i \in 2 .. Len(Utf8Of[c]) : Utf8Of[c][i] # "nl"
             /\ CodeUnits[Utf8Of[c][1]] = IF c = "g" THEN 2 ELSE 1
  <2> DEFINE u == Utf8Of[c]
  <2>1. CASE c = "a"
    <3>1. /\ u \in Seq(Bytes) /\ Len(u) = 1 /\ u[1] \in Bytes
          /\ u[1] = "ascii"
      <4>1. u = <<"ascii">>
        BY <1>2, <2>1
      <4> HIDE DEF u
      <4>2. QED
        BY <4>1 DEF Bytes
    <3> HIDE DEF u
    <3>2. \A i \in 2 .. Len(u) : u[i] # "nl"
      BY <3>1
    <3>3. FullLength[u[1]] = Len(u) /\ CodeUnits[u[1]] = IF c = "g" THEN 2 ELSE 1
      BY <1>3, <2>1, <3>1
    <3>4. QED
      BY <2>1, <3>1, <3>2, <3>3 DEF u
  <2>2. CASE c = "nl"
    <3>1. /\ u \in Seq(Bytes) /\ Len(u) = 1 /\ u[1] \in Bytes
          /\ u[1] = "nl"
      <4>1. u = <<"nl">>
        BY <1>2, <2>2
      <4> HIDE DEF u
      <4>2. QED
        BY <4>1 DEF Bytes
    <3> HIDE DEF u
    <3>2. \A i \in 2 .. Len(u) : u[i] # "nl"
      BY <3>1
    <3>3. FullLength[u[1]] = Len(u) /\ CodeUnits[u[1]] = IF c = "g" THEN 2 ELSE 1
      BY <1>3, <2>2, <3>1
    <3>4. QED
      BY <2>2, <3>1, <3>2, <3>3 DEF u
  <2>3. CASE c = "e"
    <3>1. /\ u \in Seq(Bytes) /\ Len(u) = 2 /\ u[1] \in Bytes
          /\ u[1] = "lead2" /\ u[2] = "cont"
      <4>1. u = <<"lead2", "cont">>
        BY <1>2, <2>3
      <4> HIDE DEF u
      <4>2. QED
        BY <4>1 DEF Bytes
    <3> HIDE DEF u
    <3>2. \A i \in 2 .. Len(u) : u[i] # "nl"
      BY <3>1
    <3>3. FullLength[u[1]] = Len(u) /\ CodeUnits[u[1]] = IF c = "g" THEN 2 ELSE 1
      BY <1>3, <2>3, <3>1
    <3>4. QED
      BY <2>3, <3>1, <3>2, <3>3 DEF u
  <2>4. CASE c = "w"
    <3>1. /\ u \in Seq(Bytes) /\ Len(u) = 3 /\ u[1] \in Bytes
          /\ u[1] = "lead3" /\ u[2] = "cont" /\ u[3] = "cont"
      <4>1. u = <<"lead3", "cont", "cont">>
        BY <1>2, <2>4
      <4> HIDE DEF u
      <4>2. QED
        BY <4>1 DEF Bytes
    <3> HIDE DEF u
    <3>2. \A i \in 2 .. Len(u) : u[i] # "nl"
      BY <3>1
    <3>3. FullLength[u[1]] = Len(u) /\ CodeUnits[u[1]] = IF c = "g" THEN 2 ELSE 1
      BY <1>3, <2>4, <3>1
    <3>4. QED
      BY <2>4, <3>1, <3>2, <3>3 DEF u
  <2>5. CASE c = "g"
    <3>1. /\ u \in Seq(Bytes) /\ Len(u) = 4 /\ u[1] \in Bytes
          /\ u[1] = "lead4" /\ u[2] = "cont" /\ u[3] = "cont" /\ u[4] = "cont"
      <4>1. u = <<"lead4", "cont", "cont", "cont">>
        BY <1>2, <2>5
      <4> HIDE DEF u
      <4>2. QED
        BY <4>1 DEF Bytes
    <3> HIDE DEF u
    <3>2. \A i \in 2 .. Len(u) : u[i] # "nl"
      BY <3>1
    <3>3. FullLength[u[1]] = Len(u) /\ CodeUnits[u[1]] = IF c = "g" THEN 2 ELSE 1
      BY <1>3, <2>5, <3>1
    <3>4. QED
      BY <2>5, <3>1, <3>2, <3>3 DEF u
  <2>6. QED
    BY <1>1, <2>1, <2>2, <2>3, <2>4, <2>5
<1>5. \A c \in Characters :
        /\ Width(c, "utf-8") = Len(Utf8Of[c]) /\ Width(c, "utf-32") = 1
        /\ Width(c, "utf-16") = IF c = "g" THEN 2 ELSE 1
  BY DEF Width
<1>6. QED
  BY <1>4, <1>5

\* A text is encoded character by character, from the front.
LEMMA Encoding ==
  /\ Encode(<<>>) = <<>>
  /\ \A a \in Seq(Characters) : Encode(a) \in Seq(Bytes)
  /\ \A a \in Seq(Characters), c \in Characters :
       Encode(Append(a, c)) = Encode(a) \o Utf8Of[c]
  /\ \A a, b \in Seq(Characters) : Encode(a \o b) = Encode(a) \o Encode(b)
<1> DEFINE Unit(a) == [i \in 1 .. Len(a) |-> Utf8Of[a[i]]]
<1>1. Encode(<<>>) = <<>>
  <2>1. Unit(<<>>) \in Seq({}) /\ Len(Unit(<<>>)) = 0
    OBVIOUS
  <2>2. Unit(<<>>) = <<>>
    BY <2>1, EmptySeq
  <2>3. QED
    BY <2>1, <2>2, Flattening DEF Encode
<1>2. \A a \in Seq(Characters) : Unit(a) \in Seq(Seq(Bytes))
  <2> SUFFICES ASSUME NEW a \in Seq(Characters) PROVE Unit(a) \in Seq(Seq(Bytes))
    OBVIOUS
  <2>1. Len(a) \in Nat /\ \A i \in 1 .. Len(a) : a[i] \in Characters
    BY LenProperties, ElementOfSeq
  <2>2. \A i \in 1 .. Len(a) : Utf8Of[a[i]] \in Seq(Bytes)
    BY <2>1, Letters
  <2>3. QED
    BY <2>1, <2>2, IsASeq
<1>3. \A x, y, z \in Seq(Bytes) : (x \o y) \o z = x \o (y \o z)
  BY ConcatAssociative
<1>4. \A a \in Seq(Characters) : Encode(a) \in Seq(Bytes)
  BY <1>2, Flattening DEF Encode
<1>5. ASSUME NEW a \in Seq(Characters), NEW c \in Characters
      PROVE  Encode(Append(a, c)) = Encode(a) \o Utf8Of[c]
  <2>1. Utf8Of[c] \in Seq(Bytes) /\ Unit(a) \in Seq(Seq(Bytes))
        /\ Unit(Append(a, c)) \in Seq(Seq(Bytes))
    BY <1>2, Letters, AppendProperties
  <2>2. Unit(Append(a, c)) = Append(Unit(a), Utf8Of[c])
    <3>1. /\ Append(a, c) \in Seq(Characters) /\ Len(Append(a, c)) = Len(a) + 1
          /\ Len(a) \in Nat
          /\ \A i \in 1 .. Len(a) : Append(a, c)[i] = a[i]
          /\ Append(a, c)[Len(a) + 1] = c
      BY AppendProperties, LenProperties
    <3>2. /\ Len(Unit(a)) = Len(a) /\ Len(Unit(Append(a, c))) = Len(a) + 1
          /\ \A i \in 1 .. Len(a) : Unit(a)[i] = Utf8Of[a[i]]
          /\ \A i \in 1 .. Len(a) + 1 : Unit(Append(a, c))[i] = Utf8Of[Append(a, c)[i]]
      BY <3>1
    <3> DEFINE v == Append(Unit(a), Utf8Of[c])
    <3> HIDE DEF Unit
    <3>3. /\ v \in Seq(Seq(Bytes)) /\ Len(v) = Len(Unit(a)) + 1
          /\ \A i \in 1 .. Len(Unit(a)) : v[i] = Unit(a)[i]
          /\ v[Len(Unit(a)) + 1] = Utf8Of[c]
      BY <2>1, AppendProperties
    <3>4. \A i \in 1 .. Len(a) + 1 : Unit(Append(a, c))[i] = v[i]
      <4> SUFFICES ASSUME NEW i \in 1 .. Len(a) + 1
                   PROVE  Unit(Append(a, c))[i] = v[i]
        OBVIOUS
      <4>1. CASE i \in 1 .. Len(a)
        <5>1. Append(a, c)[i] = a[i] /\ v[i] = Utf8Of[a[i]]
          BY <3>1, <3>2, <3>3, <4>1
        <5>2. QED
          BY <3>2, <5>1
      <4>2. CASE i = Len(a) + 1
        <5>1. Append(a, c)[i] = c /\ v[i] = Utf8Of[c]
          BY <3>1, <3>2, <3>3, <4>2
        <5>2. QED
          BY <3>2, <5>1
      <4>3. i \in 1 .. Len(a) \/ i = Len(a) + 1
        BY <3>1
      <4> HIDE DEF v
      <4>4. QED
        BY <4>1, <4>2, <4>3
    <3> HIDE DEF v
    <3>5. Unit(Append(a, c)) = v
      BY <2>1, <3>1, <3>2, <3>3, <3>4, SeqEqual
    <3>6. QED
      BY <3>5 DEF v
  <2> HIDE DEF Unit
  <2>3. FlattenSeq(Append(Unit(a), Utf8Of[c])) = FlattenSeq(Unit(a)) \o Utf8Of[c]
    BY <2>1, Flattening
  <2>4. Encode(a) = FlattenSeq(Unit(a)) /\ Encode(Append(a, c)) = FlattenSeq(Unit(Append(a, c)))
    BY DEF Encode, Unit
  <2>5. QED
    BY <2>2, <2>3, <2>4
<1>6. ASSUME NEW a \in Seq(Characters), NEW b \in Seq(Characters)
      PROVE  Encode(a \o b) = Encode(a) \o Encode(b)
  <2> DEFINE Fails == {n \in Nat : \E d \in Seq(Characters) :
                         Len(d) = n /\ Encode(a \o d) # Encode(a) \o Encode(d)}
  <2>1. SUFFICES ASSUME Fails # {} PROVE FALSE
    BY LenProperties
  <2>2. PICK n \in Fails : \A k \in Fails : n <= k
    <3>1. Fails \subseteq Nat
      OBVIOUS
    <3> HIDE DEF Fails
    <3>2. QED
      BY <2>1, <3>1, Least
  <2>3. PICK d \in Seq(Characters) : Len(d) = n /\ Encode(a \o d) # Encode(a) \o Encode(d)
    BY <2>2
  <2>4. CASE d = <<>>
    BY <1>1, <1>4, <2>3, <2>4, ConcatEmptySeq
  <2>5. CASE d # <<>>
    <3>1. PICK e \in Seq(Characters), c \in Characters : d = Append(e, c)
      BY <2>5, SequenceEmptyOrAppend
    <3>2. Len(e) = n - 1 /\ n \in Nat /\ n >= 1
      BY <2>3, <3>1, AppendProperties, LenProperties
    <3>3. Encode(a \o e) = Encode(a) \o Encode(e)
      <4>1. n - 1 \notin Fails /\ n - 1 \in Nat
        BY <2>2, <3>2
      <4>2. QED
        BY <3>2, <4>1
    <3>4. a \o d = Append(a \o e, c) /\ a \o e \in Seq(Characters)
      BY <3>1
    <3>5. Encode(a \o d) = (Encode(a) \o Encode(e)) \o Utf8Of[c]
      BY <1>5, <3>1, <3>3, <3>4
    <3>6. Encode(d) = Encode(e) \o Utf8Of[c]
      BY <1>5, <3>1
    <3>7. (Encode(a) \o Encode(e)) \o Utf8Of[c] = Encode(a) \o (Encode(e) \o Utf8Of[c])
      <4>1. Encode(a) \in Seq(Bytes) /\ Encode(e) \in Seq(Bytes) /\ Utf8Of[c] \in Seq(Bytes)
        BY <1>4, <3>1, Letters
      <4>2. QED
        BY <1>3, <4>1
    <3>8. QED
      BY <2>3, <3>5, <3>6, <3>7
  <2>6. QED
    BY <2>4, <2>5
<1>7. QED
  BY <1>1, <1>4, <1>5, <1>6

\* The column grows with every character by its width and starts again after a
\* newline, which begins the next line.
LEMMA Columns ==
  ASSUME NEW c \in Seq(Characters), NEW e \in Encodings
  PROVE  /\ ColumnOf(c, 0, e) = 0 /\ LineOf(c, 0) = 0
         /\ \A i \in 0 .. Len(c) : ColumnOf(c, i, e) \in Nat /\ LineOf(c, i) \in Nat
         /\ \A i \in 1 .. Len(c) :
              /\ ColumnOf(c, i, e) =
                   IF c[i] = "nl" THEN 0 ELSE ColumnOf(c, i - 1, e) + Width(c[i], e)
              /\ LineOf(c, i) = LineOf(c, i - 1) + IF c[i] = "nl" THEN 1 ELSE 0
         /\ \A i, j \in 0 .. Len(c) :
              /\ i <= j => LineOf(c, i) <= LineOf(c, j)
              /\ i < j /\ LineOf(c, i) = LineOf(c, j) => ColumnOf(c, i, e) < ColumnOf(c, j, e)
<1> DEFINE Def(f, i) == [j \in 0 .. i |-> IF j = 0 \/ c[j] = "nl" THEN 0
                                          ELSE f[j - 1] + Width(c[j], e)]
           Is(f, i) == \A j \in 0 .. i : f[j] = IF j = 0 \/ c[j] = "nl" THEN 0
                                                ELSE f[j - 1] + Width(c[j], e)
           Column(i) == CHOOSE f : f = Def(f, i)
<1>1. /\ Len(c) \in Nat
      /\ \A i \in 1 .. Len(c) : c[i] \in Characters /\ Width(c[i], e) \in Nat \ {0}
  <2>1. Len(c) \in Nat /\ \A i \in 1 .. Len(c) : c[i] \in Characters
    BY LenProperties, ElementOfSeq
  <2>2. \A x \in Characters : Width(x, e) \in Nat \ {0}
    BY Letters DEF Encodings
  <2>3. QED
    BY <2>1, <2>2
<1>2. ASSUME NEW i \in 0 .. Len(c)
      PROVE  Is(Column(i), i) /\ ColumnOf(c, i, e) = Column(i)[i]
  <2> DEFINE X == 0 .. i
             size == [j \in X |-> IF j = 0 \/ c[j] = "nl" THEN 0 ELSE j]
             before == [j \in X |-> IF j = 0 THEN 0 ELSE j - 1]
             base == [j \in X |-> 0]
             step == [p \in X \X Nat |-> IF p[1] = 0 THEN 0 ELSE p[2] + Width(c[p[1]], e)]
  <2>1. RecursionOn(X, Nat, size, before, base, step)
    <3>1. size \in [X -> Nat] /\ before \in [X -> X] /\ base \in [X -> Nat]
      OBVIOUS
    <3>2. step \in [X \X Nat -> Nat]
      <4>1. ASSUME NEW p \in X \X Nat
            PROVE  (IF p[1] = 0 THEN 0 ELSE p[2] + Width(c[p[1]], e)) \in Nat
        <5>1. p[1] \in X /\ p[2] \in Nat
          OBVIOUS
        <5>2. p[1] # 0 => Width(c[p[1]], e) \in Nat
          BY <1>1, <5>1
        <5>3. QED
          BY <5>1, <5>2
      <4>2. QED
        BY <4>1, Zenon
    <3>3. \A j \in X : size[j] # 0 => size[before[j]] < size[j]
      OBVIOUS
    <3> HIDE DEF size, before, base, step, X
    <3>4. QED
      BY <3>1, <3>2, <3>3 DEF RecursionOn
  <2>2. PICK f \in [X -> Nat] : Follows(f, X, size, before, base, step)
    <3> HIDE DEF size, before, base, step, X
    <3>1. QED
      BY <2>1, Recursion
  <2>3. Is(f, i)
    <3> SUFFICES ASSUME NEW j \in X
                 PROVE  f[j] = IF j = 0 \/ c[j] = "nl" THEN 0 ELSE f[j - 1] + Width(c[j], e)
      OBVIOUS
    <3>1. f[j] = IF size[j] = 0 THEN base[j] ELSE step[<<j, f[before[j]]>>]
      <4> HIDE DEF size, before, base, step
      <4>1. QED
        BY <2>2 DEF Follows
    <3>2. base[j] = 0 /\ size[j] = IF j = 0 \/ c[j] = "nl" THEN 0 ELSE j
      OBVIOUS
    <3>3. ASSUME j # 0 PROVE step[<<j, f[before[j]]>>] = f[j - 1] + Width(c[j], e)
      <4>1. before[j] = j - 1 /\ f[j - 1] \in Nat
        BY <3>3
      <4> HIDE DEF before
      <4>2. QED
        BY <3>3, <4>1
    <3> HIDE DEF size, before, base, step
    <3>4. QED
      BY <3>1, <3>2, <3>3
  <2>4. f = Def(f, i)
    BY <2>3
  <2>5. Column(i) = Def(Column(i), i)
    <3> HIDE DEF Def
    <3>1. QED
      BY <2>4
  <2>6. ColumnOf(c, i, e) = Column(i)[i]
    BY DEF ColumnOf
  <2> HIDE DEF Column
  <2>7. QED
    BY <2>5, <2>6
<1> HIDE DEF Column
<1>3. ASSUME NEW i \in 0 .. Len(c), NEW k \in 0 .. i
      PROVE  Column(k)[k] = Column(i)[k]
  <2> DEFINE Fails == {j \in 0 .. k : Column(k)[j] # Column(i)[j]}
  <2>1. SUFFICES ASSUME Fails # {} PROVE FALSE
    OBVIOUS
  <2>2. PICK j \in Fails : \A n \in Fails : j <= n
    <3>1. Fails \subseteq Nat
      OBVIOUS
    <3> HIDE DEF Fails
    <3>2. QED
      BY <2>1, <3>1, Least
  <2>3. Is(Column(k), k) /\ Is(Column(i), i)
    BY <1>1, <1>2
  <2>4. j # 0 => j - 1 \in 0 .. k /\ j - 1 \notin Fails
    BY <2>2
  <2>5. QED
    BY <2>2, <2>3, <2>4
<1>4. \A i \in 1 .. Len(c) :
        ColumnOf(c, i, e) = IF c[i] = "nl" THEN 0 ELSE ColumnOf(c, i - 1, e) + Width(c[i], e)
  <2> TAKE i \in 1 .. Len(c)
  <2>1. i \in 0 .. Len(c) /\ i - 1 \in 0 .. Len(c) /\ i - 1 \in 0 .. i
    BY <1>1
  <2>2. Column(i - 1)[i - 1] = Column(i)[i - 1]
    BY <1>3, <2>1
  <2>3. QED
    BY <1>2, <2>1, <2>2
<1>5. ColumnOf(c, 0, e) = 0
  BY <1>1, <1>2
<1> HIDE DEF Is
<1>6. \A i \in 0 .. Len(c) : ColumnOf(c, i, e) \in Nat
  <2> DEFINE Fails == {i \in 0 .. Len(c) : ColumnOf(c, i, e) \notin Nat}
  <2>1. SUFFICES ASSUME Fails # {} PROVE FALSE
    OBVIOUS
  <2>2. PICK i \in Fails : \A n \in Fails : i <= n
    <3>1. Fails \subseteq Nat
      OBVIOUS
    <3> HIDE DEF Fails
    <3>2. QED
      BY <2>1, <3>1, Least
  <2>3. i # 0 => i - 1 \in 0 .. Len(c) /\ i - 1 \notin Fails
    BY <1>1, <2>2
  <2>4. QED
    BY <1>1, <1>4, <1>5, <2>2, <2>3
<1> DEFINE Newlines(i) == {j \in 1 .. i : c[j] = "nl"}
<1>7. \A i \in 0 .. Len(c) : IsFiniteSet(Newlines(i)) /\ LineOf(c, i) \in Nat
  <2> TAKE i \in 0 .. Len(c)
  <2>1. IsFiniteSet(1 .. i) /\ Newlines(i) \subseteq 1 .. i
    BY <1>1, FS_Interval
  <2>2. QED
    BY <2>1, FS_Subset, FS_CardinalityType DEF LineOf
<1>8. LineOf(c, 0) = 0
  <2>1. Newlines(0) = {}
    OBVIOUS
  <2>2. QED
    BY <2>1, FS_EmptySet DEF LineOf
<1>9. \A i \in 1 .. Len(c) : LineOf(c, i) = LineOf(c, i - 1) + IF c[i] = "nl" THEN 1 ELSE 0
  <2> TAKE i \in 1 .. Len(c)
  <2>1. /\ i - 1 \in 0 .. Len(c) /\ i \notin Newlines(i - 1)
        /\ Newlines(i) = IF c[i] = "nl" THEN Newlines(i - 1) \cup {i} ELSE Newlines(i - 1)
    BY <1>1
  <2>2. IsFiniteSet(Newlines(i - 1))
    BY <1>7, <2>1
  <2>3. LineOf(c, i) = Cardinality(Newlines(i)) /\ LineOf(c, i - 1) = Cardinality(Newlines(i - 1))
    BY DEF LineOf
  <2>4. LineOf(c, i - 1) \in Nat
    BY <1>7, <2>1
  <2> HIDE DEF Newlines
  <2>5. Cardinality(Newlines(i - 1) \cup {i}) = Cardinality(Newlines(i - 1)) + 1
    BY <2>1, <2>2, FS_AddElement
  <2>6. QED
    BY <2>1, <2>3, <2>4, <2>5
<1> HIDE DEF Newlines
<1>10. ASSUME NEW i \in 0 .. Len(c), NEW j \in 0 .. Len(c), i <= j
       PROVE  LineOf(c, i) <= LineOf(c, j)
  <2> DEFINE Fails == {k \in i .. Len(c) : ~(LineOf(c, i) <= LineOf(c, k))}
  <2>1. SUFFICES ASSUME Fails # {} PROVE FALSE
    BY <1>10
  <2>2. PICK k \in Fails : \A n \in Fails : k <= n
    <3>1. Fails \subseteq Nat
      OBVIOUS
    <3> HIDE DEF Fails
    <3>2. QED
      BY <2>1, <3>1, Least
  <2>3. k # i /\ k \in 1 .. Len(c) /\ k - 1 \in i .. Len(c) /\ k - 1 \notin Fails
    BY <1>1, <1>7, <2>2
  <2>4. /\ LineOf(c, i) <= LineOf(c, k - 1) /\ ~(LineOf(c, i) <= LineOf(c, k))
        /\ LineOf(c, k) = LineOf(c, k - 1) + IF c[k] = "nl" THEN 1 ELSE 0
    BY <1>9, <2>2, <2>3
  <2>5. LineOf(c, i) \in Nat /\ LineOf(c, k - 1) \in Nat
    BY <1>1, <1>7, <2>3
  <2>6. QED
    BY <2>4, <2>5
<1>11. ASSUME NEW i \in 0 .. Len(c), NEW j \in 0 .. Len(c), i < j, LineOf(c, i) = LineOf(c, j)
       PROVE  ColumnOf(c, i, e) < ColumnOf(c, j, e)
  <2> DEFINE Fails == {k \in i + 1 .. Len(c) : /\ LineOf(c, i) = LineOf(c, k)
                                              /\ ~(ColumnOf(c, i, e) < ColumnOf(c, k, e))}
  <2>1. SUFFICES ASSUME Fails # {} PROVE FALSE
    BY <1>11
  <2>2. PICK k \in Fails : \A n \in Fails : k <= n
    <3>1. Fails \subseteq Nat
      OBVIOUS
    <3> HIDE DEF Fails
    <3>2. QED
      BY <2>1, <3>1, Least
  <2>3. /\ k \in 1 .. Len(c) /\ k \in 0 .. Len(c) /\ k - 1 \in 0 .. Len(c) /\ i <= k - 1
        /\ k - 1 \notin Fails
    BY <1>1, <2>2
  <2>4. LineOf(c, k - 1) = LineOf(c, i) /\ c[k] # "nl"
    BY <1>7, <1>9, <1>10, <2>2, <2>3
  <2>5. /\ ColumnOf(c, k, e) = ColumnOf(c, k - 1, e) + Width(c[k], e)
        /\ Width(c[k], e) \in Nat \ {0} /\ ColumnOf(c, k - 1, e) \in Nat
    BY <1>1, <1>4, <1>6, <2>3, <2>4
  <2>6. /\ k - 1 # i => ColumnOf(c, i, e) < ColumnOf(c, k - 1, e)
        /\ ~(ColumnOf(c, i, e) < ColumnOf(c, k, e)) /\ ColumnOf(c, i, e) \in Nat
    BY <1>6, <2>2, <2>3, <2>4
  <2>7. QED
    BY <2>5, <2>6
<1>12. QED
  BY <1>4, <1>5, <1>6, <1>7, <1>8, <1>9, <1>10, <1>11
\* The offset of the place after the first i characters of a text.
OffsetAt(c, i) == Len(Encode(SubSeq(c, 1, i)))

\* Where each character lies in the bytes of its text.
LEMMA Offsets ==
  ASSUME NEW c \in Seq(Characters)
  PROVE  /\ Len(c) \in Nat /\ Encode(c) \in Seq(Bytes)
         /\ OffsetAt(c, 0) = 0 /\ OffsetAt(c, Len(c)) = Len(Encode(c))
         /\ \A i \in 0 .. Len(c) : OffsetAt(c, i) \in 0 .. Len(Encode(c))
         /\ \A i \in 1 .. Len(c) :
              /\ c[i] \in Characters
              /\ OffsetAt(c, i) = OffsetAt(c, i - 1) + Len(Utf8Of[c[i]])
              /\ \A k \in 1 .. Len(Utf8Of[c[i]]) :
                   Encode(c)[OffsetAt(c, i - 1) + k] = Utf8Of[c[i]][k]
         /\ \A i, j \in 0 .. Len(c) : i <= j => OffsetAt(c, i) <= OffsetAt(c, j)
<1>1. Len(c) \in Nat /\ Encode(c) \in Seq(Bytes) /\ \A i \in 1 .. Len(c) : c[i] \in Characters
  BY Encoding, LenProperties, ElementOfSeq
<1>2. \A i, j \in 0 .. Len(c) :
        /\ SubSeq(c, 1, i) \in Seq(Characters)
        /\ SubSeq(c, i + 1, j) \in Seq(Characters)
        /\ i <= j => SubSeq(c, 1, j) = SubSeq(c, 1, i) \o SubSeq(c, i + 1, j)
  <2> TAKE i, j \in 0 .. Len(c)
  <2>1. SubSeq(c, 1, i) \in Seq(Characters) /\ SubSeq(c, i + 1, j) \in Seq(Characters)
    BY <1>1
  <2>2. i <= j => SubSeq(c, 1, j) = SubSeq(c, 1, i) \o SubSeq(c, i + 1, j)
    BY <1>1
  <2>3. QED
    BY <2>1, <2>2
<1>3. SubSeq(c, 1, 0) = <<>> /\ SubSeq(c, 1, Len(c)) = c
  BY <1>1, SubSeqFull, SubSeqEmpty
<1>4. \A i \in 0 .. Len(c) : Encode(SubSeq(c, 1, i)) \in Seq(Bytes) /\ OffsetAt(c, i) \in Nat
  BY <1>2, Encoding, LenProperties DEF OffsetAt
<1>5. ASSUME NEW i \in 0 .. Len(c), NEW j \in 0 .. Len(c), i <= j
      PROVE  \E tail \in Seq(Bytes) :
               Encode(SubSeq(c, 1, j)) = Encode(SubSeq(c, 1, i)) \o tail
  <2> DEFINE a == SubSeq(c, 1, i)
             b == SubSeq(c, i + 1, j)
  <2>1. a \in Seq(Characters) /\ b \in Seq(Characters) /\ SubSeq(c, 1, j) = a \o b
    BY <1>2, <1>5
  <2> HIDE DEF a, b
  <2>2. Encode(a \o b) = Encode(a) \o Encode(b) /\ Encode(b) \in Seq(Bytes)
    BY <2>1, Encoding
  <2>3. QED
    BY <2>1, <2>2 DEF a
<1>6. ASSUME NEW i \in 0 .. Len(c), NEW j \in 0 .. Len(c), i <= j
      PROVE  /\ OffsetAt(c, i) <= OffsetAt(c, j)
             /\ \A k \in 1 .. OffsetAt(c, i) :
                  Encode(SubSeq(c, 1, j))[k] = Encode(SubSeq(c, 1, i))[k]
  <2> DEFINE a == Encode(SubSeq(c, 1, i))
             b == Encode(SubSeq(c, 1, j))
  <2>1. PICK tail \in Seq(Bytes) : b = a \o tail
    BY <1>5, <1>6
  <2>2. a \in Seq(Bytes) /\ Len(a) = OffsetAt(c, i) /\ Len(b) = OffsetAt(c, j)
    BY <1>4 DEF OffsetAt
  <2> HIDE DEF a, b
  <2>3. Len(a) <= Len(b) /\ \A k \in 1 .. Len(a) : b[k] = a[k]
    BY <2>1, <2>2, ConcatProperties, LenProperties
  <2>4. QED
    BY <2>2, <2>3 DEF a, b
<1>7. OffsetAt(c, 0) = 0 /\ OffsetAt(c, Len(c)) = Len(Encode(c))
  <2>1. Encode(SubSeq(c, 1, 0)) = <<>>
    BY <1>3, Encoding
  <2>2. Encode(SubSeq(c, 1, Len(c))) = Encode(c)
    BY <1>3
  <2>3. QED
    BY <2>1, <2>2 DEF OffsetAt
<1>8. ASSUME NEW i \in 1 .. Len(c)
      PROVE  /\ OffsetAt(c, i) = OffsetAt(c, i - 1) + Len(Utf8Of[c[i]])
             /\ \A k \in 1 .. Len(Utf8Of[c[i]]) :
                  Encode(c)[OffsetAt(c, i - 1) + k] = Utf8Of[c[i]][k]
  <2> DEFINE a == Encode(SubSeq(c, 1, i - 1))
             u == Utf8Of[c[i]]
  <2>1. /\ i - 1 \in 0 .. Len(c) /\ i \in 0 .. Len(c) /\ Len(c) \in 0 .. Len(c)
        /\ SubSeq(c, 1, i) = Append(SubSeq(c, 1, i - 1), c[i])
    BY <1>1, SubSeqRecursiveSecond
  <2>2. Encode(SubSeq(c, 1, i)) = a \o u
    BY <1>1, <1>2, <2>1, Encoding
  <2>3. a \in Seq(Bytes) /\ Len(a) = OffsetAt(c, i - 1) /\ u \in Seq(Bytes)
    BY <1>1, <1>4, <2>1, Letters DEF OffsetAt
  <2>4. \A k \in 1 .. OffsetAt(c, i) : Encode(c)[k] = Encode(SubSeq(c, 1, i))[k]
    <3>1. \A k \in 1 .. OffsetAt(c, i) :
            Encode(SubSeq(c, 1, Len(c)))[k] = Encode(SubSeq(c, 1, i))[k]
      BY <1>6, <2>1
    <3>2. Encode(SubSeq(c, 1, Len(c))) = Encode(c)
      BY <1>3
    <3>3. QED
      BY <3>1, <3>2
  <2>5. Len(a \o u) = Len(a) + Len(u) /\ Len(u) \in Nat /\ Len(a) \in Nat
        /\ \A k \in 1 .. Len(u) : (a \o u)[Len(a) + k] = u[k]
    <3> HIDE DEF a, u
    <3>1. a \in Seq(Bytes) /\ u \in Seq(Bytes)
      BY <2>3
    <3>2. QED
      BY <3>1
  <2>6. OffsetAt(c, i) = Len(a) + Len(u)
    BY <2>2, <2>5 DEF OffsetAt
  <2> HIDE DEF a, u
  <2>7. \A k \in 1 .. Len(u) : Encode(c)[Len(a) + k] = u[k]
    <3> TAKE k \in 1 .. Len(u)
    <3>1. Len(a) + k \in 1 .. OffsetAt(c, i)
      BY <2>5, <2>6
    <3>2. Encode(c)[Len(a) + k] = (a \o u)[Len(a) + k]
      BY <2>2, <2>4, <3>1
    <3>3. QED
      BY <2>5, <3>2
  <2>8. QED
    BY <2>3, <2>6, <2>7 DEF u
<1>9. \A i \in 0 .. Len(c) : OffsetAt(c, i) \in 0 .. Len(Encode(c))
  BY <1>1, <1>4, <1>6, <1>7
<1>10. QED
  BY <1>1, <1>6, <1>7, <1>8, <1>9
-----------------------------------------------------------------------------
(* The two loops of positionToOffset *)

\* What the first loop finds from an offset with some lines passed.
Skips(from, t, line) ==
  \A o \in 0 .. Len(t), l \in 0 .. line :
    from[[offset |-> o, line |-> l]] =
      IF l < line /\ o < Len(t)
      THEN from[[offset |-> o + 1, line |-> l + IF t[o + 1] = "nl" THEN 1 ELSE 0]]
      ELSE o

\* The first loop goes on while there are lines to skip and bytes left.
LEMMA FirstLoop ==
  ASSUME NEW t \in Seq(Bytes), NEW line \in Nat
  PROVE  /\ LineStart(t, line) \in 0 .. Len(t)
         /\ \E from :
              /\ LineStart(t, line) = from[[offset |-> 0, line |-> 0]]
              /\ Skips(from, t, line)
<1> DEFINE X == [offset : 0 .. Len(t), line : 0 .. line]
           V == 0 .. Len(t)
           More(at) == at.line < line /\ at.offset < Len(t)
           After(at) == [offset |-> at.offset + 1,
                         line |-> at.line + IF t[at.offset + 1] = "nl" THEN 1 ELSE 0]
           Def(f) == [at \in X |-> IF at.line < line /\ at.offset < Len(t)
                                   THEN f[After(at)] ELSE at.offset]
           size == [at \in X |-> IF More(at) THEN Len(t) - at.offset ELSE 0]
           before == [at \in X |-> IF More(at) THEN After(at) ELSE at]
           base == [at \in X |-> at.offset]
           step == [p \in X \X V |-> p[2]]
           from == CHOOSE f : f = Def(f)
<1>1. Len(t) \in Nat
  BY LenProperties
<1>2. RecursionOn(X, V, size, before, base, step)
  <2>1. size \in [X -> Nat]
    <3>1. \A at \in X : (IF More(at) THEN Len(t) - at.offset ELSE 0) \in Nat
      BY <1>1
    <3>2. QED
      BY <3>1, Zenon
  <2>2. \A at \in X : More(at) => After(at) \in X
    BY <1>1
  <2>3. before \in [X -> X]
    <3> HIDE DEF More, After
    <3>1. QED
      BY <2>2
  <2>4. base \in [X -> V] /\ step \in [X \X V -> V]
    <3>1. \A at \in X : at.offset \in V
      OBVIOUS
    <3>2. \A p \in X \X V : p[2] \in V
      OBVIOUS
    <3> HIDE DEF X, V
    <3>3. QED
      BY <3>1, <3>2, Zenon
  <2>5. \A at \in X : size[at] # 0 => size[before[at]] < size[at]
    <3> TAKE at \in X
    <3>1. CASE More(at)
      <4>1. before[at] = After(at) /\ After(at) \in X /\ size[at] = Len(t) - at.offset
        BY <2>2, <3>1
      <4>2. size[After(at)] \in {0, Len(t) - (at.offset + 1)} /\ at.offset \in V /\ at.offset < Len(t)
        BY <3>1, <4>1
      <4> HIDE DEF size, before, After
      <4>3. QED
        BY <1>1, <4>1, <4>2
    <3>2. CASE ~More(at)
      BY <3>2
    <3>3. QED
      BY <3>1, <3>2
  <2> HIDE DEF size, before, base, step, X, V
  <2>6. QED
    BY <2>1, <2>3, <2>4, <2>5 DEF RecursionOn
<1>3. PICK f \in [X -> V] : Follows(f, X, size, before, base, step)
  <2> HIDE DEF size, before, base, step, X, V
  <2>1. QED
    BY <1>2, Recursion
<1>4. ASSUME NEW at \in X PROVE f[at] = IF More(at) THEN f[After(at)] ELSE at.offset
  <2>1. f[at] = IF size[at] = 0 THEN base[at] ELSE step[<<at, f[before[at]]>>]
    <3> HIDE DEF size, before, base, step, X, V
    <3>1. QED
      BY <1>3 DEF Follows
  <2>2. CASE More(at)
    <3>1. size[at] # 0 /\ before[at] = After(at) /\ before[at] \in X
      BY <1>1, <2>2
    <3>2. f[before[at]] \in V
      <4> HIDE DEF size, before, base, step, X, V
      <4>1. QED
        BY <1>3, <3>1
    <3>3. step[<<at, f[before[at]]>>] = f[before[at]]
      <4> HIDE DEF size, before, base, X, V
      <4>1. QED
        BY <3>2
    <3> HIDE DEF size, before, base, step, X, V, More, After
    <3>4. QED
      BY <2>1, <2>2, <3>1, <3>3
  <2>3. CASE ~More(at)
    <3>1. size[at] = 0 /\ base[at] = at.offset
      BY <2>3
    <3> HIDE DEF size, before, base, step, X, V, More, After
    <3>2. QED
      BY <2>1, <2>3, <3>1
  <2>4. QED
    BY <2>2, <2>3
<1>5. f = Def(f)
  <2> HIDE DEF X, V, After
  <2>1. QED
    BY <1>4
<1>6. from = Def(from)
  <2> HIDE DEF Def
  <2>1. QED
    BY <1>5
<1> HIDE DEF size, before, base, step
<1>7. \A at \in X : from[at] = IF More(at) THEN from[After(at)] ELSE at.offset
  <2> HIDE DEF X, After, from
  <2>1. QED
    BY <1>6
<1>8. LineStart(t, line) = from[[offset |-> 0, line |-> 0]]
  BY DEF LineStart
<1>9. DOMAIN from = X
  BY <1>6
<1> HIDE DEF from
<1>10. \A at \in X : from[at] = f[at]
  <2> DEFINE Fails == {n \in Nat : \E at \in X : at.offset = Len(t) - n /\ from[at] # f[at]}
  <2>1. SUFFICES ASSUME Fails # {} PROVE FALSE
    <3> SUFFICES ASSUME NEW at \in X, from[at] # f[at] PROVE FALSE
      OBVIOUS
    <3>1. Len(t) - at.offset \in Nat /\ at.offset = Len(t) - (Len(t) - at.offset)
      BY <1>1
    <3>2. Len(t) - at.offset \in Fails
      BY <3>1
    <3>3. QED
      BY <2>1, <3>2
  <2>2. PICK n \in Fails : \A k \in Fails : n <= k
    <3>1. Fails \subseteq Nat
      OBVIOUS
    <3> HIDE DEF Fails
    <3>2. QED
      BY <2>1, <3>1, Least
  <2>3. PICK at \in X : at.offset = Len(t) - n /\ from[at] # f[at]
    BY <2>2
  <2>4. More(at) /\ from[After(at)] # f[After(at)]
    <3> HIDE DEF More, After
    <3>1. QED
      BY <1>4, <1>7, <2>3
  <2>5. After(at) \in X /\ After(at).offset = Len(t) - (n - 1) /\ n - 1 \in Nat /\ n \in Nat
    BY <1>1, <2>2, <2>3, <2>4
  <2> HIDE DEF After, X
  <2>6. n - 1 \in Fails
    BY <2>4, <2>5
  <2>7. QED
    <3> HIDE DEF Fails
    <3>1. QED
      BY <2>2, <2>5, <2>6
<1>11. from \in [X -> V]
  <2>1. from = [at \in X |-> from[at]]
    BY <1>6
  <2> HIDE DEF X, V, Def
  <2>2. QED
    BY <1>3, <1>10, <2>1
<1>12. ASSUME NEW o \in 0 .. Len(t), NEW l \in 0 .. line
       PROVE  from[[offset |-> o, line |-> l]] =
                IF l < line /\ o < Len(t)
                THEN from[[offset |-> o + 1, line |-> l + IF t[o + 1] = "nl" THEN 1 ELSE 0]]
                ELSE o
  <2> DEFINE at == [offset |-> o, line |-> l]
  <2>1. at \in X /\ at.offset = o /\ at.line = l
    OBVIOUS
  <2> HIDE DEF at
  <2>2. QED
    BY <1>7, <2>1 DEF at
<1>13. Skips(from, t, line)
  BY <1>12 DEF Skips
<1>14. LineStart(t, line) \in 0 .. Len(t)
  <2>1. [offset |-> 0, line |-> 0] \in X
    BY <1>1
  <2> HIDE DEF X
  <2>2. QED
    BY <1>8, <1>11, <2>1
<1>15. QED
  BY <1>8, <1>13, <1>14
\* What the second loop finds from an offset with some units consumed.
Loops(from, t, character, e) ==
  \A o \in 0 .. Len(t), k \in 0 .. character + 1 :
    LET b == t[o + 1]
        length == IF FullLength[b] <= Len(t) - o THEN FullLength[b] ELSE Len(t) - o
        at == from[[offset |-> o, consumed |-> k]]
    IN  /\ at \in 0 .. Len(t)
        /\ at = IF k < character /\ o < Len(t) /\ b # "nl"
                THEN from[[offset |-> o + length,
                           consumed |-> k + IF e = "utf-16" THEN CodeUnits[b] ELSE 1]]
                ELSE o

\* The second loop goes on while the line lasts and the column is not reached,
\* and never leaves the text.
LEMMA SecondLoop ==
  ASSUME NEW t \in Seq(Bytes), NEW start \in 0 .. Len(t), NEW character \in Nat,
         NEW e \in Encodings
  PROVE  \E from :
           /\ Advance(t, start, character, e) = from[[offset |-> start, consumed |-> 0]]
           /\ Loops(from, t, character, e)
<1> DEFINE X == [offset : 0 .. Len(t) + 3, consumed : 0 .. character + 1]
           V == 0 .. Len(t) + 3
           More(at) == at.consumed < character /\ at.offset < Len(t) /\ t[at.offset + 1] # "nl"
           Length(o) == DecodeUtf8(t, o).byteLen
           Units(o) == IF e = "utf-16" THEN DecodeUtf8(t, o).units ELSE 1
           After(at) == [offset |-> at.offset + Length(at.offset),
                         consumed |-> at.consumed + Units(at.offset)]
           Def(f) == [at \in X |->
                        IF at.consumed < character /\ at.offset < Len(t) /\ t[at.offset + 1] # "nl"
                        THEN f[After(at)] ELSE at.offset]
           size == [at \in X |-> IF More(at) THEN Len(t) - at.offset ELSE 0]
           before == [at \in X |-> IF More(at) THEN After(at) ELSE at]
           base == [at \in X |-> at.offset]
           step == [p \in X \X V |-> p[2]]
           from == CHOOSE f : f = Def(f)
<1>1. Len(t) \in Nat
  BY LenProperties
<1>2. ASSUME NEW o \in 0 .. Len(t), o < Len(t)
      PROVE  /\ Length(o) = IF FullLength[t[o + 1]] <= Len(t) - o THEN FullLength[t[o + 1]]
                            ELSE Len(t) - o
             /\ Length(o) \in 1 .. 4 /\ o + Length(o) <= Len(t)
             /\ Units(o) = IF e = "utf-16" THEN CodeUnits[t[o + 1]] ELSE 1
             /\ Units(o) \in 1 .. 2
  <2>1. t[o + 1] \in Bytes
    BY <1>1, <1>2, ElementOfSeq
  <2>2. FullLength[t[o + 1]] \in 1 .. 4 /\ CodeUnits[t[o + 1]] \in 1 .. 2
    BY <2>1 DEF Bytes, FullLength, CodeUnits
  <2>3. Length(o) = Min({FullLength[t[o + 1]], Len(t) - o})
    BY DEF DecodeUtf8
  <2>4. ASSUME NEW x \in Int, NEW y \in Int
        PROVE  Min({x, y}) = IF x <= y THEN x ELSE y
    BY DEF Min
  <2>5. Units(o) = IF e = "utf-16" THEN CodeUnits[t[o + 1]] ELSE 1
    BY DEF DecodeUtf8
  <2> HIDE DEF Length, Units
  <2>6. QED
    BY <1>1, <1>2, <2>2, <2>3, <2>4, <2>5
<1> HIDE DEF Length, Units
<1>3. ASSUME NEW at \in X, More(at)
      PROVE  /\ at.offset \in 0 .. Len(t) /\ at.offset < Len(t)
             /\ Length(at.offset) \in 1 .. 4 /\ at.offset + Length(at.offset) <= Len(t)
             /\ After(at) \in X /\ After(at).offset = at.offset + Length(at.offset)
  <2>1. /\ at.offset \in 0 .. Len(t) /\ at.offset < Len(t)
        /\ at.consumed \in 0 .. character + 1 /\ at.consumed < character
    BY <1>1, <1>3
  <2>2. /\ Length(at.offset) \in 1 .. 4 /\ at.offset + Length(at.offset) <= Len(t)
        /\ Units(at.offset) \in 1 .. 2
    BY <1>2, <2>1
  <2>3. at.offset + Length(at.offset) \in 0 .. Len(t) + 3
    BY <1>1, <2>1, <2>2
  <2>4. at.consumed + Units(at.offset) \in 0 .. character + 1
    BY <2>1, <2>2
  <2>5. QED
    BY <2>1, <2>2, <2>3, <2>4
<1>4. RecursionOn(X, V, size, before, base, step)
  <2>1. size \in [X -> Nat]
    <3>1. \A at \in X : (IF More(at) THEN Len(t) - at.offset ELSE 0) \in Nat
      BY <1>1
    <3>2. QED
      BY <3>1, Zenon
  <2>2. \A at \in X : More(at) => After(at) \in X
    BY <1>3
  <2>3. before \in [X -> X]
    <3> HIDE DEF More, After
    <3>1. QED
      BY <2>2
  <2>4. base \in [X -> V] /\ step \in [X \X V -> V]
    <3>1. \A at \in X : at.offset \in V
      OBVIOUS
    <3>2. \A p \in X \X V : p[2] \in V
      OBVIOUS
    <3> HIDE DEF X, V
    <3>3. QED
      BY <3>1, <3>2, Zenon
  <2>5. \A at \in X : size[at] # 0 => size[before[at]] < size[at]
    <3> TAKE at \in X
    <3>1. CASE More(at)
      <4>1. before[at] = After(at) /\ After(at) \in X /\ size[at] = Len(t) - at.offset
        BY <2>2, <3>1
      <4>2. /\ size[After(at)] \in {0, Len(t) - (at.offset + Length(at.offset))}
            /\ at.offset \in 0 .. Len(t) /\ at.offset < Len(t)
            /\ Length(at.offset) \in 1 .. 4
        BY <1>3, <3>1, <4>1
      <4> HIDE DEF size, before, After
      <4>3. Len(t) - (at.offset + Length(at.offset)) < Len(t) - at.offset /\ 0 < Len(t) - at.offset
        BY <1>1, <4>2
      <4>4. QED
        BY <4>1, <4>2, <4>3
    <3>2. CASE ~More(at)
      BY <3>2
    <3>3. QED
      BY <3>1, <3>2
  <2> HIDE DEF size, before, base, step, X, V
  <2>6. QED
    BY <2>1, <2>3, <2>4, <2>5 DEF RecursionOn
<1>5. PICK f \in [X -> V] : Follows(f, X, size, before, base, step)
  <2> HIDE DEF size, before, base, step, X, V
  <2>1. QED
    BY <1>4, Recursion
<1>6. ASSUME NEW at \in X PROVE f[at] = IF More(at) THEN f[After(at)] ELSE at.offset
  <2>1. f[at] = IF size[at] = 0 THEN base[at] ELSE step[<<at, f[before[at]]>>]
    <3> HIDE DEF size, before, base, step, X, V
    <3>1. QED
      BY <1>5 DEF Follows
  <2>2. CASE More(at)
    <3>1. size[at] # 0 /\ before[at] = After(at) /\ before[at] \in X
      <4>1. at.offset \in 0 .. Len(t) /\ at.offset < Len(t) /\ After(at) \in X
        BY <1>3, <2>2
      <4> HIDE DEF After, X
      <4>2. QED
        BY <1>1, <2>2, <4>1
    <3>2. f[before[at]] \in V
      <4> HIDE DEF size, before, base, step, X, V
      <4>1. QED
        BY <1>5, <3>1
    <3>3. step[<<at, f[before[at]]>>] = f[before[at]]
      <4> HIDE DEF size, before, base, X, V
      <4>1. QED
        BY <3>2
    <3> HIDE DEF size, before, base, step, X, V, More, After
    <3>4. QED
      BY <2>1, <2>2, <3>1, <3>3
  <2>3. CASE ~More(at)
    <3>1. size[at] = 0 /\ base[at] = at.offset
      BY <2>3
    <3> HIDE DEF size, before, base, step, X, V, More, After
    <3>2. QED
      BY <2>1, <2>3, <3>1
  <2>4. QED
    BY <2>2, <2>3
<1>7. f = Def(f)
  <2> HIDE DEF X, V, After
  <2>1. QED
    BY <1>6
<1>8. from = Def(from)
  <2> HIDE DEF Def
  <2>1. QED
    BY <1>7
<1> HIDE DEF size, before, base, step
<1>9. \A at \in X : from[at] = IF More(at) THEN from[After(at)] ELSE at.offset
  <2> HIDE DEF X, After, from
  <2>1. QED
    BY <1>8
<1>10. Advance(t, start, character, e) = from[[offset |-> start, consumed |-> 0]]
  BY DEF Advance, Length, Units
<1> HIDE DEF from
<1>11. \A at \in X : at.offset <= Len(t) => from[at] \in 0 .. Len(t)
  <2> DEFINE Fails == {n \in Nat : \E at \in X : /\ at.offset = Len(t) - n
                                               /\ from[at] \notin 0 .. Len(t)}
  <2>1. SUFFICES ASSUME Fails # {} PROVE FALSE
    <3> SUFFICES ASSUME NEW at \in X, at.offset <= Len(t), from[at] \notin 0 .. Len(t)
                 PROVE  FALSE
      OBVIOUS
    <3>1. Len(t) - at.offset \in Nat /\ at.offset = Len(t) - (Len(t) - at.offset)
      BY <1>1
    <3>2. Len(t) - at.offset \in Fails
      BY <3>1
    <3>3. QED
      BY <2>1, <3>2
  <2>2. PICK n \in Fails : \A k \in Fails : n <= k
    <3>1. Fails \subseteq Nat
      OBVIOUS
    <3> HIDE DEF Fails
    <3>2. QED
      BY <2>1, <3>1, Least
  <2>3. PICK at \in X : at.offset = Len(t) - n /\ from[at] \notin 0 .. Len(t)
    BY <2>2
  <2>4. n \in Nat /\ at.offset \in 0 .. Len(t)
    BY <1>1, <2>2, <2>3
  <2>5. More(at) /\ from[After(at)] \notin 0 .. Len(t)
    <3> HIDE DEF More, After
    <3>1. QED
      BY <1>9, <2>3, <2>4
  <2>6. /\ Length(at.offset) \in 1 .. 4 /\ at.offset + Length(at.offset) <= Len(t)
        /\ After(at) \in X /\ After(at).offset = at.offset + Length(at.offset)
    BY <1>3, <2>3, <2>5
  <2>7. /\ n - Length(at.offset) \in Nat
        /\ After(at).offset = Len(t) - (n - Length(at.offset))
    <3> HIDE DEF After, X, More
    <3>1. Length(at.offset) <= n /\ Length(at.offset) \in Nat /\ n = Len(t) - at.offset
      BY <1>1, <2>3, <2>4, <2>6
    <3>2. After(at).offset = at.offset + Length(at.offset)
      BY <2>6
    <3>3. n - Length(at.offset) \in Nat
      BY <2>4, <3>1
    <3>4. at.offset \in Nat /\ at.offset = Len(t) - n
      BY <2>3, <2>4
    <3>5. QED
      BY <1>1, <3>1, <3>2, <3>3, <3>4
  <2> HIDE DEF After, X
  <2>8. n - Length(at.offset) \in Fails
    BY <2>5, <2>6, <2>7
  <2>9. QED
    <3> HIDE DEF Fails
    <3>1. QED
      BY <2>2, <2>4, <2>6, <2>8
<1>12. ASSUME NEW o \in 0 .. Len(t), NEW k \in 0 .. character + 1
       PROVE  LET b == t[o + 1]
                  length == IF FullLength[b] <= Len(t) - o THEN FullLength[b] ELSE Len(t) - o
                  at == from[[offset |-> o, consumed |-> k]]
              IN  /\ at \in 0 .. Len(t)
                  /\ at = IF k < character /\ o < Len(t) /\ b # "nl"
                          THEN from[[offset |-> o + length,
                                     consumed |-> k + IF e = "utf-16" THEN CodeUnits[b] ELSE 1]]
                          ELSE o
  <2> DEFINE at == [offset |-> o, consumed |-> k]
  <2>1. at \in X /\ at.offset = o /\ at.consumed = k
    BY <1>1
  <2>2. More(at) => After(at) =
          [offset |-> o + IF FullLength[t[o + 1]] <= Len(t) - o THEN FullLength[t[o + 1]]
                          ELSE Len(t) - o,
           consumed |-> k + IF e = "utf-16" THEN CodeUnits[t[o + 1]] ELSE 1]
    BY <1>2, <2>1
  <2>3. from[at] = IF More(at) THEN from[After(at)] ELSE o
    BY <1>9, <2>1
  <2>4. More(at) <=> k < character /\ o < Len(t) /\ t[o + 1] # "nl"
    BY <2>1
  <2>5. from[at] \in 0 .. Len(t)
    BY <1>11, <2>1
  <2> HIDE DEF More, After
  <2>6. QED
    BY <2>2, <2>3, <2>4, <2>5
<1>13. QED
  BY <1>10, <1>12 DEF Loops
\* The first loop ends at the first place of its line, or at the end of a text
\* that has no such line; columns in UTF-8 are the bytes from there.
LEMMA LineStarts ==
  ASSUME NEW c \in Seq(Characters), NEW line \in Nat
  PROVE  \/ /\ PlacesOfLine(c, line) = {}
            /\ \A j \in 0 .. Len(c) : LineOf(c, j) < line
            /\ LineStart(Encode(c), line) = Len(Encode(c))
         \/ \E i \in PlacesOfLine(c, line) :
              /\ LineStart(Encode(c), line) = OffsetAt(c, i)
              /\ \A e \in Encodings : ColumnOf(c, i, e) = 0
              /\ \A j \in PlacesOfLine(c, line) :
                   i <= j /\ OffsetAt(c, j) = OffsetAt(c, i) + ColumnOf(c, j, "utf-8")
<1> DEFINE t == Encode(c)
<1>1. /\ t \in Seq(Bytes) /\ Len(t) \in Nat /\ Len(c) \in Nat
      /\ OffsetAt(c, 0) = 0 /\ OffsetAt(c, Len(c)) = Len(t)
      /\ \A i \in 0 .. Len(c) : OffsetAt(c, i) \in 0 .. Len(t)
  <2>1. t \in Seq(Bytes)
    BY Offsets
  <2>2. Len(t) \in Nat
    BY <2>1, LenProperties
  <2>3. QED
    BY <2>1, <2>2, Offsets
<1>2. \A i \in 1 .. Len(c) :
        LET u == Utf8Of[c[i]]
        IN  /\ OffsetAt(c, i) = OffsetAt(c, i - 1) + Len(u) /\ Len(u) \in 1 .. 4
            /\ \A k \in 1 .. Len(u) : t[OffsetAt(c, i - 1) + k] = u[k]
            /\ c[i] = "nl" => Len(u) = 1 /\ u[1] = "nl"
            /\ c[i] # "nl" => \A k \in 1 .. Len(u) : u[k] # "nl"
            /\ Width(c[i], "utf-8") = Len(u)
  <2> TAKE i \in 1 .. Len(c)
  <2> DEFINE u == Utf8Of[c[i]]
  <2>1. /\ c[i] \in Characters /\ OffsetAt(c, i) = OffsetAt(c, i - 1) + Len(u)
        /\ \A k \in 1 .. Len(u) : t[OffsetAt(c, i - 1) + k] = u[k]
    BY Offsets
  <2>2. /\ Len(u) \in 1 .. 4 /\ (u[1] = "nl" <=> c[i] = "nl") /\ (c[i] = "nl" => Len(u) = 1)
        /\ \A k \in 2 .. Len(u) : u[k] # "nl"
        /\ Width(c[i], "utf-8") = Len(u)
    BY <2>1, Letters
  <2> HIDE DEF u, t
  <2>3. QED
    BY <2>1, <2>2 DEF u
<1>3. PICK from : LineStart(t, line) = from[[offset |-> 0, line |-> 0]] /\ Skips(from, t, line)
  BY <1>1, FirstLoop
<1> DEFINE Reach(o, l) == from[[offset |-> o, line |-> l]]
<1>4. \A o \in 0 .. Len(t), l \in 0 .. line :
        Reach(o, l) = IF l < line /\ o < Len(t)
                      THEN Reach(o + 1, l + IF t[o + 1] = "nl" THEN 1 ELSE 0) ELSE o
  BY <1>3 DEF Skips
<1>5. LineStart(t, line) = Reach(0, 0)
  BY <1>3
<1> HIDE DEF Reach, t
<1>6. ASSUME NEW i \in 1 .. Len(c), NEW l \in 0 .. line, l < line
      PROVE  Reach(OffsetAt(c, i - 1), l) =
               Reach(OffsetAt(c, i), l + IF c[i] = "nl" THEN 1 ELSE 0)
  <2> DEFINE u == Utf8Of[c[i]]
             p == OffsetAt(c, i - 1)
  <2>1. /\ OffsetAt(c, i) = p + Len(u) /\ Len(u) \in 1 .. 4
        /\ \A k \in 1 .. Len(u) : t[p + k] = u[k]
        /\ c[i] = "nl" => Len(u) = 1 /\ u[1] = "nl"
        /\ c[i] # "nl" => \A k \in 1 .. Len(u) : u[k] # "nl"
        /\ p \in 0 .. Len(t) /\ p + Len(u) <= Len(t)
    <3>1. i - 1 \in 0 .. Len(c) /\ i \in 0 .. Len(c)
      BY <1>1
    <3>2. p \in 0 .. Len(t) /\ OffsetAt(c, i) \in 0 .. Len(t)
      BY <1>1, <3>1
    <3>3. QED
      BY <1>1, <1>2, <3>2
  <2> HIDE DEF u, p
  <2>2. ASSUME NEW k \in 1 .. Len(u)
        PROVE  Reach(p + (k - 1), l) = Reach(p + k, l + IF u[k] = "nl" THEN 1 ELSE 0)
    <3>1. /\ p + (k - 1) \in 0 .. Len(t) /\ p + (k - 1) < Len(t) /\ (p + (k - 1)) + 1 = p + k
          /\ t[p + k] = u[k]
      BY <1>1, <2>1
    <3>2. QED
      BY <1>4, <1>6, <3>1
  <2>3. CASE c[i] = "nl"
    <3>1. Len(u) = 1 /\ u[1] = "nl" /\ p + (1 - 1) = p
      BY <2>1, <2>3
    <3>2. Reach(p, l) = Reach(p + 1, l + 1)
      BY <2>2, <3>1
    <3>3. QED
      BY <2>1, <2>3, <3>1, <3>2 DEF p
  <2>4. CASE c[i] # "nl"
    <3>1. ASSUME NEW k \in 1 .. Len(u) PROVE Reach(p + (k - 1), l) = Reach(p + k, l)
      <4>1. u[k] # "nl"
        BY <2>1, <2>4
      <4>2. l + (IF u[k] = "nl" THEN 1 ELSE 0) = l
        BY <4>1
      <4>3. QED
        BY <2>2, <4>2
    <3>2. Reach(p, l) = Reach(p + 1, l)
      <4>1. 1 \in 1 .. Len(u)
        <5>1. Len(u) \in 1 .. 4
          BY <2>1
        <5>2. \A n \in 1 .. 4 : 1 \in 1 .. n
          OBVIOUS
        <5>3. QED
          BY <5>1, <5>2, Zenon
      <4>2. Reach(p + (1 - 1), l) = Reach(p + 1, l)
        BY <3>1, <4>1
      <4>3. p \in Int
        BY <1>1, <2>1
      <4>4. p + (1 - 1) = p
        BY <4>3
      <4>5. QED
        BY <4>2, <4>4
    <3>3. Len(u) >= 2 => Reach(p + 1, l) = Reach(p + 2, l)
      BY <2>1, <3>1
    <3>4. Len(u) >= 3 => Reach(p + 2, l) = Reach(p + 3, l)
      BY <2>1, <3>1
    <3>5. Len(u) >= 4 => Reach(p + 3, l) = Reach(p + 4, l)
      BY <2>1, <3>1
    <3>6. Reach(p, l) = Reach(p + Len(u), l)
      <4>1. CASE Len(u) = 1
        BY <3>2, <4>1
      <4>2. CASE Len(u) = 2
        BY <3>2, <3>3, <4>2
      <4>3. CASE Len(u) = 3
        BY <3>2, <3>3, <3>4, <4>3
      <4>4. CASE Len(u) = 4
        BY <3>2, <3>3, <3>4, <3>5, <4>4
      <4>5. QED
        BY <2>1, <4>1, <4>2, <4>3, <4>4
    <3>7. QED
      BY <2>1, <2>4, <3>6 DEF p
  <2>5. QED
    BY <2>3, <2>4
<1>7. /\ LineOf(c, 0) = 0 /\ \A i \in 0 .. Len(c) : LineOf(c, i) \in Nat
      /\ \A i \in 1 .. Len(c) : LineOf(c, i) = LineOf(c, i - 1) + IF c[i] = "nl" THEN 1 ELSE 0
      /\ \A i, j \in 0 .. Len(c) : i <= j => LineOf(c, i) <= LineOf(c, j)
  BY Columns DEF Encodings
<1> DEFINE Good == {i \in 0 .. Len(c) : /\ \A j \in 0 .. i - 1 : LineOf(c, j) < line
                                        /\ LineOf(c, i) <= line
                                        /\ Reach(0, 0) = Reach(OffsetAt(c, i), LineOf(c, i))}
<1>8. PICK i \in Good : \A j \in Good : j <= i
  <2>1. 0 \in Good
    BY <1>1, <1>7
  <2>2. Good \subseteq 0 .. Len(c)
    OBVIOUS
  <2> HIDE DEF Good
  <2>3. QED
    BY <1>1, <2>1, <2>2, Greatest
<1>9. /\ i \in 0 .. Len(c) /\ OffsetAt(c, i) \in 0 .. Len(t)
      /\ \A j \in 0 .. i - 1 : LineOf(c, j) < line
      /\ LineOf(c, i) \in 0 .. line
      /\ LineStart(t, line) = Reach(OffsetAt(c, i), LineOf(c, i))
  BY <1>1, <1>5, <1>7, <1>8
<1>10. CASE LineOf(c, i) < line
  <2>1. i = Len(c)
    <3> SUFFICES ASSUME i # Len(c) PROVE FALSE
      OBVIOUS
    <3>1. i + 1 \in 1 .. Len(c) /\ (i + 1) - 1 = i /\ i + 1 \in 0 .. Len(c)
      BY <1>1, <1>9
    <3>2. LineOf(c, i + 1) = LineOf(c, i) + IF c[i + 1] = "nl" THEN 1 ELSE 0
      BY <1>7, <3>1
    <3>3. Reach(OffsetAt(c, i), LineOf(c, i)) = Reach(OffsetAt(c, i + 1), LineOf(c, i + 1))
      BY <1>6, <1>9, <1>10, <3>1, <3>2
    <3>4. LineOf(c, i + 1) <= line
      BY <1>9, <1>10, <3>2
    <3>5. \A j \in 0 .. (i + 1) - 1 : LineOf(c, j) < line
      BY <1>9, <1>10
    <3>6. i + 1 \in Good
      BY <1>5, <1>9, <3>1, <3>3, <3>4, <3>5
    <3> HIDE DEF Good
    <3>7. QED
      BY <1>8, <1>9, <3>6
  <2>2. LineStart(t, line) = Len(t)
    BY <1>1, <1>4, <1>9, <2>1
  <2>3. /\ \A j \in 0 .. Len(c) : LineOf(c, j) < line
        /\ PlacesOfLine(c, line) = {}
    <3>1. \A j \in 0 .. Len(c) : LineOf(c, j) < line
      BY <1>1, <1>9, <1>10, <2>1
    <3>2. QED
      BY <1>7, <3>1 DEF PlacesOfLine
  <2>4. QED
    BY <2>2, <2>3 DEF t
<1>11. CASE LineOf(c, i) = line
  <2>1. LineStart(t, line) = OffsetAt(c, i)
    BY <1>4, <1>9, <1>11
  <2>2. i \in PlacesOfLine(c, line)
    BY <1>9, <1>11 DEF PlacesOfLine
  <2>3. ASSUME NEW j \in PlacesOfLine(c, line) PROVE j \in 0 .. Len(c) /\ LineOf(c, j) = line /\ i <= j
    <3>1. j \in 0 .. Len(c) /\ LineOf(c, j) = line
      BY DEF PlacesOfLine
    <3>2. j \notin 0 .. i - 1
      BY <1>9, <3>1
    <3>3. QED
      BY <1>1, <1>9, <3>1, <3>2
  <2>4. ASSUME NEW e \in Encodings PROVE ColumnOf(c, i, e) = 0
    <3>1. CASE i = 0
      BY <3>1, Columns
    <3>2. CASE i # 0
      <4>1. i \in 1 .. Len(c) /\ i - 1 \in 0 .. i - 1 /\ i - 1 \in 0 .. Len(c)
        BY <1>1, <1>9, <3>2
      <4>2. LineOf(c, i - 1) < LineOf(c, i) /\ LineOf(c, i - 1) \in Nat
        BY <1>7, <1>9, <1>11, <4>1
      <4>3. c[i] = "nl"
        BY <1>7, <4>1, <4>2
      <4>4. QED
        BY <4>1, <4>3, Columns
    <3>3. QED
      BY <3>1, <3>2
  <2>5. ASSUME NEW j \in PlacesOfLine(c, line)
        PROVE  OffsetAt(c, j) = OffsetAt(c, i) + ColumnOf(c, j, "utf-8")
    <3> DEFINE Fails == {k \in i .. Len(c) :
                           /\ LineOf(c, k) = line
                           /\ OffsetAt(c, k) # OffsetAt(c, i) + ColumnOf(c, k, "utf-8")}
    <3>1. SUFFICES ASSUME Fails # {} PROVE FALSE
      BY <1>9, <2>3
    <3>2. PICK k \in Fails : \A n \in Fails : k <= n
      <4>1. Fails \subseteq Nat
        BY <1>9
      <4> HIDE DEF Fails
      <4>2. QED
        BY <3>1, <4>1, Least
    <3>3. ColumnOf(c, i, "utf-8") = 0
      BY <2>4 DEF Encodings
    <3>4. k # i
      BY <1>9, <3>2, <3>3
    <3>5. /\ k \in 1 .. Len(c) /\ k - 1 \in i .. Len(c) /\ k - 1 \in 0 .. Len(c) /\ k \in 0 .. Len(c)
          /\ k - 1 \notin Fails
      BY <1>1, <1>9, <3>2, <3>4
    <3>6. LineOf(c, k - 1) = line /\ c[k] # "nl"
      <4>1. LineOf(c, i) <= LineOf(c, k - 1) /\ LineOf(c, k) = line
        BY <1>7, <1>9, <3>2, <3>5
      <4>2. LineOf(c, k - 1) \in Nat /\ LineOf(c, k) = LineOf(c, k - 1) + IF c[k] = "nl" THEN 1 ELSE 0
        BY <1>7, <3>5
      <4>3. QED
        BY <1>11, <4>1, <4>2
    <3>7. OffsetAt(c, k - 1) = OffsetAt(c, i) + ColumnOf(c, k - 1, "utf-8")
      BY <3>5, <3>6
    <3>8. ColumnOf(c, k, "utf-8") = ColumnOf(c, k - 1, "utf-8") + Width(c[k], "utf-8")
      BY <3>5, <3>6, Columns DEF Encodings
    <3>9. OffsetAt(c, k) = OffsetAt(c, k - 1) + Width(c[k], "utf-8") /\ Width(c[k], "utf-8") \in 1 .. 4
      BY <1>2, <3>5
    <3>10. ColumnOf(c, k - 1, "utf-8") \in Nat /\ OffsetAt(c, i) \in Nat
      <4>1. "utf-8" \in Encodings
        BY DEF Encodings
      <4>2. QED
        BY <1>1, <1>9, <3>5, <4>1, Columns
    <3>11. OffsetAt(c, k) # OffsetAt(c, i) + ColumnOf(c, k, "utf-8")
      BY <3>2
    <3>12. QED
      BY <3>7, <3>8, <3>9, <3>10, <3>11
  <2>6. QED
    BY <2>1, <2>2, <2>3, <2>4, <2>5 DEF t
<1>12. QED
  BY <1>9, <1>10, <1>11
\* Where the second loop ends: at the first place of the line that has the
\* column or more, or else at the last place of the line.
Stops(c, position, e, i) ==
  IF PlacesOfLine(c, position.line) = {} THEN i = Len(c)
  ELSE /\ i \in PlacesOfLine(c, position.line)
       /\ \A j \in PlacesOfLine(c, position.line) : j < i => ColumnOf(c, j, e) < position.character
       /\ \/ ColumnOf(c, i, e) >= position.character
          \/ \A j \in PlacesOfLine(c, position.line) : j <= i

LEMMA Reached ==
  ASSUME NEW c \in Seq(Characters), NEW position \in [line : Nat, character : Nat],
         NEW e \in Encodings \ {"utf-8"}
  PROVE  \E i \in 0 .. Len(c) :
           /\ Stops(c, position, e, i)
           /\ PositionToOffset(Encode(c), position, e) = OffsetAt(c, i)
<1> DEFINE t == Encode(c)
           line == position.line
           ch == position.character
           start == LineStart(t, line)
           Places == PlacesOfLine(c, line)
           Col(i) == ColumnOf(c, i, e)
<1>1. /\ t \in Seq(Bytes) /\ Len(t) \in Nat /\ Len(c) \in Nat
      /\ OffsetAt(c, 0) = 0 /\ OffsetAt(c, Len(c)) = Len(t)
      /\ \A i \in 0 .. Len(c) : OffsetAt(c, i) \in 0 .. Len(t)
      /\ line \in Nat /\ ch \in Nat /\ e \in Encodings /\ e \in {"utf-16", "utf-32"}
  <2>1. t \in Seq(Bytes)
    BY Offsets
  <2>2. Len(t) \in Nat
    BY <2>1, LenProperties
  <2>3. QED
    BY <2>1, <2>2, Offsets DEF Encodings
<1>2. PositionToOffset(t, position, e) = Advance(t, start, ch, e)
  BY <1>1 DEF PositionToOffset
<1>3. \A i \in 1 .. Len(c) :
        LET u == Utf8Of[c[i]]
        IN  /\ OffsetAt(c, i) = OffsetAt(c, i - 1) + Len(u) /\ Len(u) \in 1 .. 4
            /\ t[OffsetAt(c, i - 1) + 1] = u[1]
            /\ (c[i] = "nl" <=> u[1] = "nl") /\ FullLength[u[1]] = Len(u)
            /\ Width(c[i], e) = IF e = "utf-16" THEN CodeUnits[u[1]] ELSE 1
            /\ Width(c[i], e) \in 1 .. 2
  <2> TAKE i \in 1 .. Len(c)
  <2> DEFINE u == Utf8Of[c[i]]
  <2>1. /\ c[i] \in Characters /\ OffsetAt(c, i) = OffsetAt(c, i - 1) + Len(u)
        /\ \A k \in 1 .. Len(u) : t[OffsetAt(c, i - 1) + k] = u[k]
    BY Offsets
  <2>2. /\ Len(u) \in 1 .. 4 /\ (u[1] = "nl" <=> c[i] = "nl") /\ FullLength[u[1]] = Len(u)
        /\ Width(c[i], "utf-16") = CodeUnits[u[1]] /\ Width(c[i], "utf-16") \in 1 .. 2
        /\ Width(c[i], "utf-32") = 1
    BY <2>1, Letters
  <2> HIDE DEF u, t
  <2>3. QED
    BY <1>1, <2>1, <2>2 DEF u
<1>4. /\ \A i \in 0 .. Len(c) : LineOf(c, i) \in Nat /\ Col(i) \in Nat
      /\ \A i \in 1 .. Len(c) :
           /\ LineOf(c, i) = LineOf(c, i - 1) + IF c[i] = "nl" THEN 1 ELSE 0
           /\ c[i] # "nl" => Col(i) = Col(i - 1) + Width(c[i], e)
      /\ \A i, j \in 0 .. Len(c) : i <= j => LineOf(c, i) <= LineOf(c, j)
  BY <1>1, Columns
<1>5. \A i : i \in Places <=> i \in 0 .. Len(c) /\ LineOf(c, i) = line
  BY DEF PlacesOfLine
<1>6. \/ Places = {} /\ start = Len(t)
      \/ \E first \in Places :
           start = OffsetAt(c, first) /\ Col(first) = 0 /\ \A j \in Places : first <= j
  BY <1>1, LineStarts
<1>7. start \in 0 .. Len(t)
  BY <1>1, <1>5, <1>6
<1> HIDE DEF start, t, Places, Col, line, ch
<1>8. PICK from :
        /\ Advance(t, start, ch, e) = from[[offset |-> start, consumed |-> 0]]
        /\ Loops(from, t, ch, e)
  <2>1. t \in Seq(Bytes) /\ start \in 0 .. Len(t) /\ ch \in Nat /\ e \in Encodings
    BY <1>1, <1>7
  <2>2. QED
    BY <2>1, SecondLoop
<1> DEFINE Reach(o, k) == from[[offset |-> o, consumed |-> k]]
<1>9. \A o \in 0 .. Len(t), k \in 0 .. ch + 1 :
        Reach(o, k) =
          IF k < ch /\ o < Len(t) /\ t[o + 1] # "nl"
          THEN Reach(o + (IF FullLength[t[o + 1]] <= Len(t) - o THEN FullLength[t[o + 1]]
                          ELSE Len(t) - o),
                     k + IF e = "utf-16" THEN CodeUnits[t[o + 1]] ELSE 1)
          ELSE o
  BY <1>8 DEF Loops
<1>10. PositionToOffset(t, position, e) = Reach(start, 0)
  BY <1>2, <1>8
<1> HIDE DEF Reach
<1>11. CASE Places = {}
  <2>1. start = Len(t)
    BY <1>6, <1>11
  <2>2. PositionToOffset(t, position, e) = Len(t)
    BY <1>1, <1>7, <1>9, <1>10, <2>1
  <2>3. Stops(c, position, e, Len(c)) /\ Len(c) \in 0 .. Len(c)
    BY <1>1, <1>11 DEF Stops, Places, line
  <2>4. QED
    BY <1>1, <2>2, <2>3 DEF t
<1>12. CASE Places # {}
  <2>1. PICK first \in Places :
          start = OffsetAt(c, first) /\ Col(first) = 0 /\ \A j \in Places : first <= j
    BY <1>6, <1>12
  <2>2. start \in 0 .. Len(t) /\ first \in 0 .. Len(c)
    BY <1>5, <1>7, <2>1
  <2>3. PositionToOffset(t, position, e) = Reach(OffsetAt(c, first), Col(first))
    BY <1>10, <2>1
  <2>4. ASSUME NEW i \in 1 .. Len(c), NEW k \in 0 .. ch, k < ch, c[i] # "nl"
        PROVE  Reach(OffsetAt(c, i - 1), k) = Reach(OffsetAt(c, i), k + Width(c[i], e))
    <3> DEFINE u == Utf8Of[c[i]]
               o == OffsetAt(c, i - 1)
    <3>1. /\ OffsetAt(c, i) = o + Len(u) /\ Len(u) \in 1 .. 4 /\ t[o + 1] = u[1]
          /\ u[1] # "nl" /\ FullLength[u[1]] = Len(u)
          /\ Width(c[i], e) = IF e = "utf-16" THEN CodeUnits[u[1]] ELSE 1
      BY <1>3, <2>4
    <3>2. o \in 0 .. Len(t) /\ OffsetAt(c, i) \in 0 .. Len(t)
      <4>1. i - 1 \in 0 .. Len(c) /\ i \in 0 .. Len(c)
        BY <1>1
      <4>2. QED
        BY <1>1, <4>1
    <3> HIDE DEF u, o
    <3>3. o < Len(t) /\ Len(u) <= Len(t) - o /\ k \in 0 .. ch + 1
      BY <1>1, <2>4, <3>1, <3>2
    <3>4. Reach(o, k) = Reach(o + Len(u), k + Width(c[i], e))
      BY <1>9, <2>4, <3>1, <3>2, <3>3
    <3>5. QED
      BY <3>1, <3>4 DEF o
  <2> DEFINE Good == {i \in Places :
                        /\ \A j \in Places : j < i => Col(j) < ch
                        /\ Col(i) \in 0 .. ch + 1
                        /\ PositionToOffset(t, position, e) = Reach(OffsetAt(c, i), Col(i))}
  <2>5. PICK i \in Good : \A j \in Good : j <= i
    <3>1. first \in Good
      BY <1>1, <1>5, <2>1, <2>2, <2>3
    <3>2. Good \subseteq 0 .. Len(c)
      BY <1>5
    <3> HIDE DEF Good
    <3>3. QED
      BY <1>1, <3>1, <3>2, Greatest
  <2>6. /\ i \in Places /\ i \in 0 .. Len(c) /\ LineOf(c, i) = line
        /\ OffsetAt(c, i) \in 0 .. Len(t)
        /\ \A j \in Places : j < i => Col(j) < ch
        /\ Col(i) \in 0 .. ch + 1
        /\ PositionToOffset(t, position, e) = Reach(OffsetAt(c, i), Col(i))
    BY <1>1, <1>5, <2>5
  <2>7. ASSUME PositionToOffset(t, position, e) = OffsetAt(c, i),
               Col(i) >= ch \/ \A j \in Places : j <= i
        PROVE  \E k \in 0 .. Len(c) :
                 Stops(c, position, e, k) /\ PositionToOffset(t, position, e) = OffsetAt(c, k)
    <3>1. Stops(c, position, e, i)
      BY <1>12, <2>6, <2>7 DEF Stops, Places, Col, line, ch
    <3>2. QED
      BY <2>6, <2>7, <3>1
  <2>8. CASE ~(Col(i) < ch)
    <3>1. PositionToOffset(t, position, e) = OffsetAt(c, i)
      BY <1>9, <2>6, <2>8
    <3>2. Col(i) >= ch
      BY <1>1, <2>6, <2>8
    <3>3. QED
      BY <2>7, <3>1, <3>2 DEF t
  <2>9. CASE Col(i) < ch /\ i = Len(c)
    <3>1. PositionToOffset(t, position, e) = OffsetAt(c, i)
      BY <1>1, <1>9, <2>6, <2>9
    <3>2. \A j \in Places : j <= i
      BY <1>1, <1>5, <2>9
    <3>3. QED
      BY <2>7, <3>1, <3>2 DEF t
  <2>10. CASE Col(i) < ch /\ i # Len(c)
    <3>1. /\ i + 1 \in 1 .. Len(c) /\ (i + 1) - 1 = i /\ i + 1 \in 0 .. Len(c)
          /\ LineOf(c, i + 1) = line + IF c[i + 1] = "nl" THEN 1 ELSE 0
      <4>1. i + 1 \in 1 .. Len(c) /\ (i + 1) - 1 = i /\ i + 1 \in 0 .. Len(c)
        BY <1>1, <2>6, <2>10
      <4>2. QED
        BY <1>4, <2>6, <4>1
    <3>2. CASE c[i + 1] = "nl"
      <4>1. t[OffsetAt(c, i) + 1] = "nl"
        <5>1. /\ t[OffsetAt(c, (i + 1) - 1) + 1] = Utf8Of[c[i + 1]][1]
              /\ Utf8Of[c[i + 1]][1] = "nl"
          BY <1>3, <3>1, <3>2
        <5>2. QED
          BY <3>1, <5>1
      <4>2. PositionToOffset(t, position, e) = OffsetAt(c, i)
        BY <1>9, <2>6, <4>1
      <4>3. \A j \in Places : j <= i
        <5> SUFFICES ASSUME NEW j \in Places, ~(j <= i) PROVE FALSE
          OBVIOUS
        <5>1. j \in 0 .. Len(c) /\ LineOf(c, j) = line /\ i + 1 <= j
          BY <1>1, <1>5, <2>6
        <5>2. line + 1 <= line
          BY <1>4, <3>1, <3>2, <5>1
        <5>3. QED
          BY <1>1, <5>2
      <4>4. QED
        BY <2>7, <4>2, <4>3 DEF t
    <3>3. CASE c[i + 1] # "nl"
      <4>1. i + 1 \in Places
        BY <1>1, <1>5, <3>1, <3>3
      <4>2. Col(i + 1) = Col(i) + Width(c[i + 1], e) /\ Width(c[i + 1], e) \in 1 .. 2
        BY <1>3, <1>4, <3>1, <3>3
      <4>3. Col(i + 1) \in 0 .. ch + 1 /\ Col(i) \in 0 .. ch
        <5>1. Col(i) \in Nat /\ Col(i) < ch /\ ch \in Nat
          BY <1>1, <2>6, <2>10
        <5>2. QED
          BY <4>2, <5>1
      <4>4. Reach(OffsetAt(c, i), Col(i)) = Reach(OffsetAt(c, i + 1), Col(i + 1))
        BY <2>4, <2>10, <3>1, <3>3, <4>2, <4>3
      <4>5. \A j \in Places : j < i + 1 => Col(j) < ch
        <5> SUFFICES ASSUME NEW j \in Places, j < i + 1 PROVE Col(j) < ch
          OBVIOUS
        <5>1. j < i \/ j = i
          BY <1>1, <1>5, <2>6
        <5>2. QED
          BY <2>6, <2>10, <5>1
      <4>6. i + 1 \in Good
        BY <2>6, <4>1, <4>3, <4>4, <4>5
      <4> HIDE DEF Good
      <4>7. QED
        BY <2>5, <2>6, <4>6
    <3>4. QED
      BY <3>2, <3>3
  <2>11. QED
    BY <2>8, <2>9, <2>10
<1>13. QED
  BY <1>11, <1>12
-----------------------------------------------------------------------------
(* Positions of a client *)

\* The place that a position names, and that places keep the order of positions.
LEMMA PlaceNamed ==
  ASSUME NEW c \in Seq(Characters), NEW e \in Encodings,
         NEW p \in [line : Nat, character : Nat]
  PROVE  /\ PlaceOf(c, p, e) \in 0 .. Len(c)
         /\ IF PlacesOfLine(c, p.line) = {} THEN PlaceOf(c, p, e) = Len(c)
            ELSE /\ PlaceOf(c, p, e) \in PlacesOfLine(c, p.line)
                 /\ ColumnOf(c, PlaceOf(c, p, e), e) <= p.character
                 /\ \A i \in PlacesOfLine(c, p.line) :
                      ColumnOf(c, i, e) <= p.character => i <= PlaceOf(c, p, e)
         /\ \A q \in [line : Nat, character : Nat] :
              Before(p, q) => PlaceOf(c, p, e) <= PlaceOf(c, q, e)
<1>1. Len(c) \in Nat /\ \A l : PlacesOfLine(c, l) \subseteq 0 .. Len(c)
  BY LenProperties DEF PlacesOfLine
<1>2. ASSUME NEW q \in [line : Nat, character : Nat]
      PROVE  IF PlacesOfLine(c, q.line) = {} THEN PlaceOf(c, q, e) = Len(c)
             ELSE /\ PlaceOf(c, q, e) \in PlacesOfLine(c, q.line)
                  /\ ColumnOf(c, PlaceOf(c, q, e), e) <= q.character
                  /\ \A i \in PlacesOfLine(c, q.line) :
                       ColumnOf(c, i, e) <= q.character => i <= PlaceOf(c, q, e)
  <2>1. CASE PlacesOfLine(c, q.line) = {}
    BY <2>1 DEF PlaceOf
  <2>2. CASE PlacesOfLine(c, q.line) # {}
    <3> DEFINE S == {i \in PlacesOfLine(c, q.line) : ColumnOf(c, i, e) <= q.character}
    <3>1. S \subseteq 0 .. Len(c)
      BY <1>1
    <3>2. S # {}
      <4>1. PICK i \in PlacesOfLine(c, q.line) : \A d \in Encodings : ColumnOf(c, i, d) = 0
        BY <2>2, LineStarts
      <4>2. QED
        BY <4>1
    <3>3. PlaceOf(c, q, e) = Max(S)
      BY <2>2 DEF PlaceOf
    <3>4. \E m \in S : \A n \in S : n <= m
      <4> HIDE DEF S
      <4>1. QED
        BY <1>1, <3>1, <3>2, Greatest
    <3>5. Max(S) \in S /\ \A n \in S : n <= Max(S)
      <4> HIDE DEF S
      <4>1. S \subseteq Int
        BY <3>1
      <4>2. QED
        BY <3>4, <4>1 DEF Max
    <3>6. QED
      BY <2>2, <3>3, <3>5
  <2>3. QED
    BY <2>1, <2>2
<1>3. PlaceOf(c, p, e) \in 0 .. Len(c)
  <2>1. CASE PlacesOfLine(c, p.line) = {}
    <3>1. PlaceOf(c, p, e) = Len(c)
      BY <1>2, <2>1
    <3>2. QED
      BY <1>1, <3>1
  <2>2. CASE PlacesOfLine(c, p.line) # {}
    <3>1. PlaceOf(c, p, e) \in PlacesOfLine(c, p.line)
      BY <1>2, <2>2
    <3>2. QED
      BY <1>1, <3>1
  <2>3. QED
    BY <2>1, <2>2
<1>4. ASSUME NEW q \in [line : Nat, character : Nat], Before(p, q)
      PROVE  PlaceOf(c, p, e) <= PlaceOf(c, q, e)
  <2>1. CASE PlacesOfLine(c, q.line) = {}
    BY <1>1, <1>2, <1>3, <2>1
  <2>2. CASE PlacesOfLine(c, q.line) # {}
    <3>1. PlaceOf(c, q, e) \in 0 .. Len(c) /\ LineOf(c, PlaceOf(c, q, e)) = q.line
      BY <1>2, <2>2 DEF PlacesOfLine
    <3>2. PlacesOfLine(c, p.line) # {}
      <4> SUFFICES ASSUME PlacesOfLine(c, p.line) = {} PROVE FALSE
        OBVIOUS
      <4>1. LineOf(c, PlaceOf(c, q, e)) < p.line
        BY <3>1, LineStarts
      <4>2. QED
        BY <1>4, <3>1, <4>1 DEF Before
    <3>3. LineOf(c, PlaceOf(c, p, e)) = p.line
      BY <1>2, <3>2 DEF PlacesOfLine
    <3>4. CASE p.line < q.line
      <4>1. ~(PlaceOf(c, q, e) <= PlaceOf(c, p, e))
        BY <1>3, <3>1, <3>3, <3>4, Columns
      <4>2. QED
        BY <1>3, <3>1, <4>1
    <3>5. CASE p.line = q.line /\ p.character <= q.character
      <4>1. /\ PlaceOf(c, p, e) \in PlacesOfLine(c, q.line)
            /\ ColumnOf(c, PlaceOf(c, p, e), e) <= p.character
        BY <1>2, <3>2, <3>5
      <4>2. ColumnOf(c, PlaceOf(c, p, e), e) \in Nat
        BY <1>3, Columns
      <4>3. ColumnOf(c, PlaceOf(c, p, e), e) <= q.character
        BY <3>5, <4>1, <4>2
      <4>4. QED
        BY <1>2, <2>2, <4>1, <4>3
    <3>6. QED
      BY <1>4, <3>4, <3>5 DEF Before
  <2>3. QED
    BY <2>1, <2>2
<1>5. QED
  BY <1>2, <1>3, <1>4
\* Where a position is a place of the text, or past the end of a line that the
\* second loop walks, the offset found for it is that of the place.
LEMMA PlaceFound ==
  ASSUME NEW c \in Seq(Characters), NEW e \in Encodings,
         NEW p \in [line : Nat, character : Nat],
         IsPosition(c, p, e), ~(e = "utf-8" /\ InLine(c, p, e) = {})
  PROVE  PositionToOffset(Encode(c), p, e) = OffsetAt(c, PlaceOf(c, p, e))
<1> DEFINE Places == PlacesOfLine(c, p.line)
           Col(i) == ColumnOf(c, i, e)
           place == PlaceOf(c, p, e)
<1>1. /\ Len(c) \in Nat /\ p.character \in Nat /\ p.line \in Nat
      /\ \A i : i \in Places <=> i \in 0 .. Len(c) /\ LineOf(c, i) = p.line
  BY LenProperties DEF PlacesOfLine
<1>2. \A i \in Places : Col(i) \in Nat
  BY <1>1, Columns
<1>3. \A i, j \in Places : i < j => Col(i) < Col(j)
  BY <1>1, Columns
<1>4. /\ place \in 0 .. Len(c)
      /\ Places = {} => place = Len(c)
      /\ Places # {} =>
           /\ place \in Places /\ Col(place) <= p.character
           /\ \A i \in Places : Col(i) <= p.character => i <= place
  BY PlaceNamed
<1>5. InLine(c, p, e) = {i \in Places : Col(i) = p.character}
  BY DEF InLine
<1>6. PastEnd(c, p, e) <=> \A i \in Places : Col(i) < p.character
  BY DEF PastEnd
<1> HIDE DEF Places, Col, place
<1>7. ASSUME NEW i \in Places, Col(i) = p.character PROVE place = i
  <2>1. i <= place /\ place \in Places /\ Col(place) <= p.character
    BY <1>1, <1>2, <1>4, <1>7
  <2>2. ~(i < place)
    BY <1>2, <1>3, <1>7, <2>1
  <2>3. QED
    BY <1>1, <1>4, <2>1, <2>2
<1>8. CASE e = "utf-8"
  <2>1. PICK i \in Places : Col(i) = p.character
    BY <1>5, <1>8
  <2>2. LineStart(Encode(c), p.line) + Col(i) = OffsetAt(c, i)
    BY <1>1, <1>8, <2>1, LineStarts DEF Places, Col
  <2>3. PositionToOffset(Encode(c), p, e) = LineStart(Encode(c), p.line) + p.character
    BY <1>8 DEF PositionToOffset
  <2>4. QED
    BY <1>7, <2>1, <2>2, <2>3 DEF place
<1>9. CASE e # "utf-8"
  <2>1. PICK i \in 0 .. Len(c) :
          Stops(c, p, e, i) /\ PositionToOffset(Encode(c), p, e) = OffsetAt(c, i)
    BY <1>9, Reached
  <2>2. CASE Places = {}
    BY <1>4, <2>1, <2>2 DEF Stops, Places, place
  <2>3. CASE Places # {}
    <3>1. /\ i \in Places /\ \A j \in Places : j < i => Col(j) < p.character
          /\ Col(i) >= p.character \/ \A j \in Places : j <= i
      BY <2>1, <2>3 DEF Stops, Places, Col
    <3>2. CASE \A j \in Places : Col(j) < p.character
      <4>1. Col(i) < p.character /\ \A j \in Places : j <= i
        BY <1>1, <1>2, <3>1, <3>2
      <4>2. i <= place /\ place <= i
        BY <1>1, <1>2, <1>4, <2>3, <3>1, <4>1
      <4>3. QED
        BY <1>4, <2>1, <4>2 DEF place
    <3>3. ASSUME NEW j \in Places, Col(j) = p.character
          PROVE  PositionToOffset(Encode(c), p, e) = OffsetAt(c, PlaceOf(c, p, e))
      <4>1. ~(j < i)
        BY <1>1, <3>1, <3>3
      <4>2. ~(i < j)
        BY <1>1, <1>2, <1>3, <3>1, <3>3
      <4>3. i = j
        BY <1>1, <3>1, <4>1, <4>2
      <4>4. QED
        BY <1>7, <2>1, <3>3, <4>3 DEF place
    <3>4. QED
      BY <1>5, <1>6, <3>2, <3>3 DEF IsPosition
  <2>4. QED
    BY <2>2, <2>3
<1>10. QED
  BY <1>8, <1>9

\* An offset is a number, and in UTF-16 and UTF-32 one within the text, also if
\* the text is not well-formed UTF-8.
LEMMA OffsetBounds ==
  ASSUME NEW t \in Seq(Bytes), NEW p \in [line : Nat, character : Nat], NEW e \in Encodings
  PROVE  /\ PositionToOffset(t, p, e) \in Nat
         /\ e # "utf-8" => PositionToOffset(t, p, e) <= Len(t)
<1> DEFINE start == LineStart(t, p.line)
<1>1. Len(t) \in Nat /\ p.line \in Nat /\ p.character \in Nat
  BY LenProperties
<1>2. start \in 0 .. Len(t)
  BY <1>1, FirstLoop
<1>3. PositionToOffset(t, p, e) = IF e = "utf-8" THEN start + p.character
                                  ELSE Advance(t, start, p.character, e)
  BY DEF PositionToOffset
<1> HIDE DEF start
<1>4. PICK from : /\ Advance(t, start, p.character, e) = from[[offset |-> start, consumed |-> 0]]
                  /\ Loops(from, t, p.character, e)
  BY <1>1, <1>2, SecondLoop
<1>5. from[[offset |-> start, consumed |-> 0]] \in 0 .. Len(t)
  <2>1. 0 \in 0 .. p.character + 1
    BY <1>1
  <2>2. QED
    BY <1>2, <1>4, <2>1 DEF Loops
<1>6. QED
  BY <1>1, <1>2, <1>3, <1>4, <1>5

-----------------------------------------------------------------------------
(* The stored text *)

TInv ==
  /\ text \in Seq(Bytes) /\ chars \in Seq(Characters)
  /\ wellFormed => text = Encode(chars)

LEMMA AlwaysEncoded == TextSpec => []TInv
<1>1. TextInit => TInv
  <2>1. <<>> \in Seq(Bytes) /\ <<>> \in Seq(Characters) /\ Encode(<<>>) = <<>>
    BY Encoding
  <2>2. QED
    BY <2>1 DEF TextInit, TInv
<1>2. TInv /\ [TextNext]_textVars => TInv'
  <2> SUFFICES ASSUME TInv, [TextNext]_textVars PROVE TInv'
    OBVIOUS
  <2>1. ASSUME NEW char \in Characters, TypeCharacter(char) PROVE TInv'
    <3>1. /\ wellFormed /\ text' = text \o Utf8Of[char] /\ chars' = Append(chars, char)
          /\ text = Encode(chars) /\ chars \in Seq(Characters)
      BY <2>1 DEF TInv, TypeCharacter
    <3>2. chars' \in Seq(Characters)
      BY <3>1
    <3>3. text' = Encode(chars')
      BY <3>1, Encoding
    <3>4. QED
      BY <3>2, <3>3, Encoding DEF TInv
  <2>2. ASSUME NEW byte \in Bytes, TypeByte(byte) PROVE TInv'
    <3>1. text' = Append(text, byte) /\ chars' = <<>> /\ wellFormed' = FALSE
      BY <2>2 DEF TypeByte
    <3>2. text' \in Seq(Bytes) /\ chars' \in Seq(Characters)
      BY <3>1 DEF TInv
    <3>3. QED
      BY <3>1, <3>2 DEF TInv
  <2>3. CASE UNCHANGED textVars
    BY <2>3 DEF TInv, textVars
  <2>4. QED
    BY <2>1, <2>2, <2>3 DEF TextNext
<1>3. QED
  BY <1>1, <1>2, PTL DEF TextSpec

(***************************************************************************)
(* positionToOffset finds the place a client means, in a text of any       *)
(* length: the two loops follow lines, columns and code units as LSP       *)
(* counts them.                                                            *)
(***************************************************************************)
THEOREM PositionsUnderstood == TextSpec => []OffsetIsPlace
<1>1. TInv => OffsetIsPlace
  <2> SUFFICES ASSUME TInv, wellFormed, NEW p \in Asked, NEW e \in Encodings,
                      IsPosition(chars, p, e), ~(e = "utf-8" /\ InLine(chars, p, e) = {})
               PROVE  Offset(p, e) = OffsetOfPlace(p, e)
    BY DEF OffsetIsPlace
  <2>1. p \in [line : Nat, character : Nat]
    BY PositionsAssumption DEF Asked
  <2>2. chars \in Seq(Characters) /\ text = Encode(chars)
    BY DEF TInv
  <2>3. QED
    BY <2>1, <2>2, PlaceFound DEF Offset, OffsetOfPlace, OffsetAt
<1>2. QED
  BY <1>1, AlwaysEncoded, PTL

(***************************************************************************)
(* The byte walk of UTF-16 and UTF-32 stays within any text, well formed   *)
(* or not, also where its last sequence is cut short.                      *)
(***************************************************************************)
THEOREM WithinText == TextSpec => []OffsetWithinText
<1>1. TInv => OffsetWithinText
  <2> SUFFICES ASSUME TInv, NEW p \in Asked, NEW e \in Encodings \ {"utf-8"}
               PROVE  Offset(p, e) <= Len(text)
    BY DEF OffsetWithinText
  <2>1. text \in Seq(Bytes) /\ p \in [line : Nat, character : Nat]
    BY PositionsAssumption DEF TInv, Asked
  <2>2. QED
    BY <2>1, OffsetBounds DEF Offset
<1>2. QED
  BY <1>1, AlwaysEncoded, PTL

(***************************************************************************)
(* Where the walk stops never goes back as the position goes on: a range   *)
(* that starts before it ends is given offsets in that order.              *)
(***************************************************************************)
THEOREM RangesKeepTheirOrder == TextSpec => []OffsetsInOrder
<1>1. TInv => OffsetsInOrder
  <2> SUFFICES ASSUME TInv, wellFormed, NEW p \in Asked, NEW q \in Asked,
                      NEW e \in Encodings \ {"utf-8"}, Before(p, q)
               PROVE  Offset(p, e) <= Offset(q, e)
    BY DEF OffsetsInOrder
  <2> DEFINE PlacesP == PlacesOfLine(chars, p.line)
             PlacesQ == PlacesOfLine(chars, q.line)
             Col(i) == ColumnOf(chars, i, e)
  <2>1. /\ p \in [line : Nat, character : Nat] /\ q \in [line : Nat, character : Nat]
        /\ p.line \in Nat /\ q.line \in Nat /\ p.character \in Nat /\ q.character \in Nat
        /\ chars \in Seq(Characters) /\ text = Encode(chars) /\ Len(chars) \in Nat
    BY PositionsAssumption, LenProperties DEF TInv, Asked
  <2>2. PICK i \in 0 .. Len(chars) :
          Stops(chars, p, e, i) /\ Offset(p, e) = OffsetAt(chars, i)
    BY <2>1, Reached DEF Offset
  <2>3. PICK j \in 0 .. Len(chars) :
          Stops(chars, q, e, j) /\ Offset(q, e) = OffsetAt(chars, j)
    BY <2>1, Reached DEF Offset
  <2>4. i <= j
    <3>1. CASE PlacesQ = {}
      BY <2>2, <2>3, <3>1 DEF Stops
    <3>2. CASE PlacesQ # {}
      <4>1. /\ j \in PlacesQ /\ LineOf(chars, j) = q.line
            /\ Col(j) >= q.character \/ \A k \in PlacesQ : k <= j
        BY <2>3, <3>2 DEF Stops, PlacesOfLine
      <4>2. PlacesP # {}
        <5> SUFFICES ASSUME PlacesP = {} PROVE FALSE
          OBVIOUS
        <5>1. LineOf(chars, j) < p.line
          BY <2>1, <2>3, LineStarts
        <5>2. QED
          BY <2>1, <4>1, <5>1 DEF Before
      <4>3. /\ i \in PlacesP /\ LineOf(chars, i) = p.line
            /\ \A k \in PlacesP : k < i => Col(k) < p.character
        BY <2>2, <4>2 DEF Stops, PlacesOfLine
      <4>4. CASE p.line < q.line
        <5>1. ~(j <= i)
          BY <2>1, <2>2, <2>3, <4>1, <4>3, <4>4, Columns
        <5>2. QED
          BY <2>2, <2>3, <5>1
      <4>5. CASE p.line = q.line /\ p.character <= q.character
        <5> SUFFICES ASSUME ~(i <= j) PROVE FALSE
          OBVIOUS
        <5>1. j < i /\ j \in PlacesP /\ i \in PlacesQ
          BY <2>2, <2>3, <4>1, <4>3, <4>5
        <5>2. Col(j) < p.character /\ Col(j) \in Nat
          BY <2>1, <2>3, <4>3, <5>1, Columns
        <5>3. ~(Col(j) >= q.character)
          BY <2>1, <4>5, <5>2
        <5>4. QED
          BY <4>1, <5>1, <5>3
      <4>6. QED
        BY <2>1, <4>4, <4>5 DEF Before
    <3>3. QED
      BY <3>1, <3>2
  <2>5. QED
    BY <2>1, <2>2, <2>3, <2>4, Offsets
<1>2. QED
  BY <1>1, AlwaysEncoded, PTL
=============================================================================
