------------------------ MODULE StdioTransportProofs ------------------------
(***************************************************************************)
(* Theorems about StdioTransport.                                          *)
(***************************************************************************)
EXTENDS StdioTransport, DataLemmas

-----------------------------------------------------------------------------
(* Numbers *)

\* What operator<< puts out for a number is digits, and readHeaders takes them
\* for the number again if an int32_t holds it.
LEMMA Decimals ==
  \A n \in Nat :
    /\ Decimal[n] \in Seq(Range(Digits)) /\ Decimal[n] # <<>>
    /\ n < 2 ^ (IntBits - 1) => ToInt[Decimal[n]] = n
<1>1. \A n \in Nat :
        /\ Decimal[n] = IF n < 10 THEN <<Digits[n + 1]>>
                        ELSE Append(Decimal[n \div 10], Digits[(n % 10) + 1])
        /\ Decimal[n] \in Seq(Range(Digits)) /\ Decimal[n] # <<>>
  <2> DEFINE D == Range(Digits)
             size == [n \in Nat |-> IF n < 10 THEN 0 ELSE n]
             before == [n \in Nat |-> n \div 10]
             base == [n \in Nat |-> <<Digits[(n % 10) + 1]>>]
             step == [p \in Nat \X Seq(D) |-> Append(p[2], Digits[(p[1] % 10) + 1])]
             Def(f) == [n \in Nat |-> IF n < 10 THEN <<Digits[n + 1]>>
                                      ELSE Append(f[n \div 10], Digits[(n % 10) + 1])]
  <2>1. \A n \in Nat : n % 10 \in 0 .. 9 /\ n \div 10 \in Nat /\ (n < 10 => n % 10 = n)
                       /\ (n >= 10 => n \div 10 < n)
    OBVIOUS
  <2>2. \A i \in 0 .. 9 : Digits[i + 1] \in D
    BY DEF Digits, Range
  <2>3. /\ size \in [Nat -> Nat] /\ before \in [Nat -> Nat]
        /\ base \in [Nat -> Seq(D)] /\ step \in [Nat \X Seq(D) -> Seq(D)]
    <3>1. size \in [Nat -> Nat] /\ before \in [Nat -> Nat]
      BY <2>1
    <3>2. \A n \in Nat : Digits[(n % 10) + 1] \in D
      BY <2>1, <2>2
    <3> HIDE DEF D
    <3>3. base \in [Nat -> Seq(D)]
      <4>1. \A n \in Nat : <<Digits[(n % 10) + 1]>> \in Seq(D)
        BY <3>2
      <4>2. QED
        BY <4>1, Zenon
    <3>4. step \in [Nat \X Seq(D) -> Seq(D)]
      <4>1. \A q \in Nat \X Seq(D) : Append(q[2], Digits[(q[1] % 10) + 1]) \in Seq(D)
        BY <3>2
      <4>2. QED
        BY <4>1, Zenon
    <3>5. QED
      BY <3>1, <3>3, <3>4
  <2>4. \A n \in Nat : size[n] # 0 => size[before[n]] < size[n]
    BY <2>1
  <2>5. PICK f \in [Nat -> Seq(D)] :
          \A n \in Nat : f[n] = IF size[n] = 0 THEN base[n] ELSE step[<<n, f[before[n]]>>]
    <3>1. RecursionOn(Nat, Seq(D), size, before, base, step)
      BY <2>3, <2>4 DEF RecursionOn
    <3> HIDE DEF size, before, base, step, D
    <3>2. \E f \in [Nat -> Seq(D)] : Follows(f, Nat, size, before, base, step)
      BY <3>1, Recursion
    <3>3. QED
      BY <3>2 DEF Follows
  <2>6. f = Def(f)
    <3> HIDE DEF D
    <3>1. \A n \in Nat : f[n] = IF n < 10 THEN <<Digits[n + 1]>>
                                ELSE Append(f[n \div 10], Digits[(n % 10) + 1])
      <4> SUFFICES ASSUME NEW n \in Nat
                   PROVE  f[n] = IF n < 10 THEN <<Digits[n + 1]>>
                                 ELSE Append(f[n \div 10], Digits[(n % 10) + 1])
        OBVIOUS
      <4>1. CASE n < 10
        <5>1. size[n] = 0 /\ base[n] = <<Digits[n + 1]>>
          BY <2>1, <4>1
        <5> HIDE DEF size, base, step, before
        <5>2. QED
          BY <2>5, <4>1, <5>1
      <4>2. CASE ~ (n < 10)
        <5>1. size[n] # 0 /\ before[n] = n \div 10 /\ n \div 10 \in Nat
          BY <4>2
        <5>2. step[<<n, f[n \div 10]>>] = Append(f[n \div 10], Digits[(n % 10) + 1])
          BY <5>1
        <5> HIDE DEF size, base, step, before
        <5>3. QED
          BY <2>5, <4>2, <5>1, <5>2
      <4>3. QED
        BY <4>1, <4>2
    <3>2. QED
      BY <3>1
  <2>7. Decimal = CHOOSE g : g = Def(g)
    BY DEF Decimal
  <2>8. Decimal = Def(Decimal)
    <3> HIDE DEF Def
    <3>1. QED
      BY <2>6, <2>7
  <2>9. \A n \in Nat : Decimal[n] = IF n < 10 THEN <<Digits[n + 1]>>
                        ELSE Append(Decimal[n \div 10], Digits[(n % 10) + 1])
    BY <2>8
  <2> HIDE DEF size, before, base, step, Def, D
  <2>10. ASSUME NEW n \in Nat PROVE Decimal[n] \in Seq(D)
    <3> DEFINE Fails == {k \in Nat : Decimal[k] \notin Seq(D)}
    <3>1. SUFFICES ASSUME Fails # {} PROVE FALSE
      OBVIOUS
    <3>2. PICK k \in Fails : \A j \in Fails : k <= j
      <4> HIDE DEF Fails
      <4>1. Fails \subseteq Nat
        BY DEF Fails
      <4>2. QED
        BY <3>1, <4>1, Least
    <3>3. k >= 10 => Decimal[k \div 10] \in Seq(D)
      BY <2>1, <3>2
    <3>4. Decimal[k] \in Seq(D)
      <4>1. k < 10 => <<Digits[k + 1]>> \in Seq(D)
        <5>1. k < 10 => k \in 0 .. 9
          BY <3>2
        <5>2. k < 10 => Digits[k + 1] \in D
          BY <2>2, <5>1
        <5>3. QED
          BY <5>2
      <4>2. Digits[(k % 10) + 1] \in D
        BY <2>1, <2>2
      <4>3. k >= 10 => Append(Decimal[k \div 10], Digits[(k % 10) + 1]) \in Seq(D)
        BY <3>3, <4>2
      <4>4. k \in Nat
        BY <3>2
      <4>5. CASE k < 10
        BY <2>9, <4>1, <4>4, <4>5
      <4>6. CASE ~ (k < 10)
        <5> DEFINE w == Append(Decimal[k \div 10], Digits[(k % 10) + 1])
        <5>1. w \in Seq(D)
          BY <4>3, <4>4, <4>6
        <5>2. Decimal[k] = w
          BY <2>9, <4>4, <4>6
        <5> HIDE DEF w
        <5>3. QED
          BY <5>1, <5>2
      <4>7. QED
        BY <4>5, <4>6
    <3>5. QED
      BY <3>4
  <2>11. \A n \in Nat : Decimal[n] # <<>>
    <3> SUFFICES ASSUME NEW n \in Nat, Decimal[n] = <<>> PROVE FALSE
      OBVIOUS
    <3>1. n \div 10 \in Nat /\ Decimal[n \div 10] \in Seq(D)
      BY <2>1, <2>10
    <3>2. Digits[(n % 10) + 1] \in D
      BY <2>1, <2>2
    <3>3. Append(Decimal[n \div 10], Digits[(n % 10) + 1]) # <<>>
      <4> DEFINE a == Decimal[n \div 10]
                 d == Digits[(n % 10) + 1]
      <4>1. a \in Seq(D) /\ d \in D
        BY <3>1, <3>2
      <4> HIDE DEF a, d
      <4>2. Append(a, d) # <<>>
        <5>1. Len(Append(a, d)) = Len(a) + 1 /\ Len(a) \in Nat
          BY <4>1
        <5>2. Len(Append(a, d)) # 0
          BY <5>1
        <5>3. QED
          BY <5>2, EmptySeq
      <4>3. QED
        BY <4>2 DEF a, d
    <3>4. <<Digits[n + 1]>> # <<>>
      OBVIOUS
    <3>5. CASE n < 10
      BY <2>9, <3>4, <3>5
    <3>6. CASE ~ (n < 10)
      BY <2>9, <3>3, <3>6
    <3>7. QED
      BY <3>5, <3>6
  <2>12. QED
    BY <2>9, <2>10, <2>11 DEF D
<1>2. ASSUME NEW n \in Nat, n < 2 ^ (IntBits - 1)
      PROVE  ToInt[Decimal[n]] = n
  <2> USE <1>2
  <2> DEFINE D == Range(Digits)
             half == 2 ^ (IntBits - 1)
             size == [s \in Seq(D) |-> Len(s)]
             before == [s \in Seq(D) |-> IF s = <<>> THEN <<>> ELSE Front(s)]
             base == [s \in Seq(D) |-> 0]
             step == [p \in Seq(D) \X Int |->
                        IF p[1] = <<>> THEN 0
                        ELSE Wrap(Wrap(p[2] * 10) + ValueOf(Last(p[1])))]
             Def(f) == [s \in Seq(D) |->
                          IF s = <<>> THEN 0
                          ELSE Wrap(Wrap(f[Front(s)] * 10) + ValueOf(Last(s)))]
  <2>1. half \in Nat \ {0} /\ 2 ^ IntBits = 2 * half
    BY LengthAssumption
  <2> HIDE DEF half
  <2>2. /\ \A a, b \in Int : b > 0 => a % b \in 0 .. (b - 1)
        /\ \A a, b \in Int : a \in 0 .. (b - 1) => a % b = a
    OBVIOUS
  <2>3. \A k \in Int : Wrap(k) = ((k + half) % (2 * half)) - half
    BY <2>1 DEF Wrap, half
  <2>4. \A k \in Int : Wrap(k) \in Int
    BY <2>1, <2>2, <2>3
  <2>5. ASSUME NEW k \in 0 .. half - 1 PROVE Wrap(k) = k
    <3>1. k \in Int /\ k + half \in Int /\ k + half \in 0 .. (2 * half - 1) /\ 2 * half \in Int
      BY <2>1
    <3>2. (k + half) % (2 * half) = k + half
      BY <2>2, <3>1
    <3>3. Wrap(k) = ((k + half) % (2 * half)) - half
      BY <2>3, <3>1
    <3>4. QED
      BY <2>1, <3>1, <3>2, <3>3
  <2>6. ASSUME NEW v \in 0 .. 9 PROVE Digits[v + 1] \in D /\ ValueOf(Digits[v + 1]) = v
    <3>1. Digits[v + 1] \in D
      BY DEF Digits, Range
    <3>2. \A w \in 0 .. 9 : Digits[w + 1] = Digits[v + 1] => w = v
      BY DEF Digits
    <3>3. QED
      BY <3>1, <3>2 DEF ValueOf
  <2>7. ASSUME NEW d \in D PROVE ValueOf(d) \in 0 .. 9
    <3>1. \E v \in 0 .. 9 : Digits[v + 1] = d
      BY DEF Digits, Range
    <3>2. QED
      BY <3>1 DEF ValueOf
  <2> HIDE DEF D
  <2>8. ASSUME NEW s \in Seq(D), s # <<>>
        PROVE  /\ Front(s) \in Seq(D) /\ Len(Front(s)) = Len(s) - 1
               /\ Last(s) \in D /\ Len(s) # 0
    <3>1. Len(s) \in Nat \ {0} /\ \A i \in 1 .. Len(s) : s[i] \in D
      BY <2>8, EmptySeq, LenProperties
    <3>2. Last(s) \in D
      BY <3>1 DEF Last
    <3>3. SubSeq(s, 1, Len(s) - 1) \in Seq(D) /\ Len(SubSeq(s, 1, Len(s) - 1)) = Len(s) - 1
      <4> DEFINE m == Len(s) - 1
      <4>1. m \in Int /\ m >= 0 /\ \A i \in 1 .. m : s[i] \in D
        BY <3>1
      <4> HIDE DEF m
      <4>2. SubSeq(s, 1, m) \in Seq(D) /\ Len(SubSeq(s, 1, m)) = m
        BY <4>1, SubSeqProperties
      <4>3. QED
        BY <4>2 DEF m
    <3>4. QED
      BY <3>1, <3>2, <3>3 DEF Front
  <2>9. RecursionOn(Seq(D), Int, size, before, base, step)
    <3>1. size \in [Seq(D) -> Nat] /\ before \in [Seq(D) -> Seq(D)]
      BY <2>8
    <3>2. base \in [Seq(D) -> Int]
      OBVIOUS
    <3>3. step \in [Seq(D) \X Int -> Int]
      <4> SUFFICES ASSUME NEW s \in Seq(D), NEW k \in Int, s # <<>>
                   PROVE  Wrap(Wrap(k * 10) + ValueOf(Last(s))) \in Int
        OBVIOUS
      <4> HIDE DEF size, before, base, step
      <4>1. ValueOf(Last(s)) \in Int
        BY <2>7, <2>8
      <4>2. Wrap(k * 10) \in Int
        BY <2>4
      <4>3. QED
        BY <2>4, <4>1, <4>2
    <3>4. ASSUME NEW s \in Seq(D), size[s] # 0 PROVE size[before[s]] < size[s]
      <4>1. s # <<>>
        BY <3>4
      <4>2. before[s] = Front(s) /\ Front(s) \in Seq(D)
        BY <2>8, <4>1
      <4>3. QED
        BY <2>8, <4>1, <4>2
    <3>5. QED
      BY <3>1, <3>2, <3>3, <3>4 DEF RecursionOn
  <2>10. PICK f \in [Seq(D) -> Int] : Follows(f, Seq(D), size, before, base, step)
    <3> HIDE DEF size, before, base, step
    <3>1. QED
      BY <2>9, Recursion
  <2>11. f = Def(f)
    <3>1. ASSUME NEW s \in Seq(D)
          PROVE  f[s] = IF s = <<>> THEN 0
                        ELSE Wrap(Wrap(f[Front(s)] * 10) + ValueOf(Last(s)))
      <4>1. f[s] = IF size[s] = 0 THEN base[s] ELSE step[<<s, f[before[s]]>>]
        BY <2>10 DEF Follows
      <4>2. CASE s = <<>>
        <5>1. size[s] = 0 /\ base[s] = 0
          BY <4>2
        <5> HIDE DEF size, base, step, before
        <5>2. QED
          BY <4>1, <4>2, <5>1
      <4>3. CASE s # <<>>
        <5>1. size[s] # 0 /\ before[s] = Front(s) /\ Front(s) \in Seq(D)
          BY <2>8, <4>3
        <5>2. f[Front(s)] \in Int
          BY <5>1
        <5>3. step[<<s, f[Front(s)]>>]
                = Wrap(Wrap(f[Front(s)] * 10) + ValueOf(Last(s)))
          BY <4>3, <5>2
        <5> HIDE DEF size, base, step, before
        <5>4. QED
          BY <4>1, <4>3, <5>1, <5>3
      <4>4. QED
        BY <4>2, <4>3
    <3>2. QED
      BY <3>1
  <2> HIDE DEF size, before, base, step
  <2>12. ToInt = CHOOSE g : g = Def(g)
    BY DEF ToInt, D
  <2>13. ToInt = Def(ToInt)
    <3> HIDE DEF Def
    <3>1. QED
      BY <2>11, <2>12
  <2>14. \A s \in Seq(D) : ToInt[s] = IF s = <<>> THEN 0
                           ELSE Wrap(Wrap(ToInt[Front(s)] * 10) + ValueOf(Last(s)))
    BY <2>13
  <2> HIDE DEF Def
  <2>15. ASSUME NEW s \in Seq(D), NEW v \in 0 .. 9, NEW k \in Nat,
                ToInt[s] = k, k * 10 + v < half
         PROVE  ToInt[Append(s, Digits[v + 1])] = k * 10 + v
    <3> DEFINE d == Digits[v + 1]
               a == Append(s, d)
    <3>1. d \in D /\ ValueOf(d) = v
      BY <2>6
    <3> HIDE DEF d
    <3>2. a \in Seq(D) /\ a # <<>> /\ Front(a) = s /\ Last(a) = d
      BY <3>1, AppendProperties DEF Front, Last
    <3> HIDE DEF a
    <3>3. ToInt[a] = Wrap(Wrap(k * 10) + v)
      BY <2>14, <2>15, <3>1, <3>2
    <3>4. k * 10 \in 0 .. half - 1 /\ k * 10 + v \in 0 .. half - 1
      BY <2>1, <2>15
    <3>5. QED
      BY <2>5, <3>3, <3>4 DEF a, d
  <2> DEFINE Fails == {k \in Nat : k < half /\ ToInt[Decimal[k]] # k}
  <2>16. SUFFICES ASSUME Fails # {} PROVE FALSE
    BY DEF half
  <2>17. PICK k \in Fails : \A j \in Fails : k <= j
    <3>1. Fails \subseteq Nat
      BY DEF Fails
    <3> HIDE DEF Fails
    <3>2. QED
      BY <2>16, <3>1, Least
  <2>18. k \in Nat /\ k < half /\ ToInt[Decimal[k]] # k
    BY <2>17
  <2>19. CASE k < 10
    <3>1. <<>> \in Seq(D) /\ ToInt[<<>>] = 0
      BY <2>14, EmptySeq
    <3>2. k \in 0 .. 9 /\ 0 * 10 + k = k
      BY <2>18, <2>19
    <3>3. ToInt[Append(<<>>, Digits[k + 1])] = 0 * 10 + k
      <4>1. 0 \in Nat /\ 0 * 10 + k < half
        BY <2>18, <3>2
      <4>2. QED
        BY <2>15, <3>1, <3>2, <4>1
    <3>4. Append(<<>>, Digits[k + 1]) = <<Digits[k + 1]>>
      BY <2>6, <3>2, AppendIsConcat, ConcatEmptySeq
    <3>5. Decimal[k] = <<Digits[k + 1]>>
      BY <2>18, <2>19, <1>1
    <3>6. QED
      BY <2>18, <3>2, <3>3, <3>4, <3>5
  <2>20. CASE ~ (k < 10)
    <3> DEFINE q == k \div 10
               v == k % 10
    <3>1. q \in Nat /\ v \in 0 .. 9 /\ q * 10 + v = k /\ q < k
      BY <2>18, <2>20
    <3>2. Decimal[k] = Append(Decimal[q], Digits[v + 1]) /\ Decimal[q] \in Seq(D)
      BY <2>18, <2>20, <3>1, <1>1 DEF D
    <3> HIDE DEF q, v
    <3>3. ToInt[Decimal[q]] = q
      <4>1. q \notin Fails
        <5> HIDE DEF Fails
        <5>1. ASSUME q \in Fails PROVE k <= q
          BY <2>17, <5>1
        <5>2. QED
          BY <2>18, <3>1, <5>1
      <4>2. q < half
        BY <2>1, <2>18, <3>1
      <4>3. QED
        BY <3>1, <4>1, <4>2
    <3>4. ToInt[Append(Decimal[q], Digits[v + 1])] = q * 10 + v
      BY <2>15, <2>18, <3>1, <3>2, <3>3
    <3>5. QED
      BY <2>18, <3>1, <3>2, <3>4
  <2>21. QED
    BY <2>19, <2>20
<1>3. QED
  BY <1>1, <1>2

-----------------------------------------------------------------------------
(* Places in a log of bytes *)

\* The log holds these bytes after its first p.
At(log, p, bytes) ==
  /\ p + Len(bytes) <= Len(log)
  /\ \A i \in 1 .. Len(bytes) : bytes[i] = log[p + i]

\* What is at a place stays there when the log grows, what follows it can be
\* joined to it, and it can be taken apart.
LEMMA Places ==
  ASSUME NEW S, NEW log \in Seq(S), NEW p \in Nat, NEW a \in Seq(S), NEW b \in Seq(S)
  PROVE  /\ At(log, p, a) /\ At(log, p + Len(a), b) <=> At(log, p, a \o b)
         /\ At(log, p, a) => At(log \o b, p, a)
         /\ At(log \o b, Len(log), b)
         /\ Len(log) >= p => At(log, p, <<>>)
         /\ At(log, p, a) /\ a # <<>> =>
              /\ Head(a) = log[p + 1] /\ Len(Tail(a)) = Len(a) - 1
              /\ At(log, p + 1, Tail(a)) /\ p + 1 <= Len(log)
         /\ At(log, p, a) /\ p + Len(a) < Len(log) =>
              At(log, p, Append(a, log[p + Len(a) + 1]))
         /\ At(log, p, a) /\ At(log, p, b) /\ Len(a) <= Len(b) => a = SubSeq(b, 1, Len(a))
<1>1. Len(log) \in Nat /\ Len(a) \in Nat /\ Len(b) \in Nat
  OBVIOUS
<1>2. /\ a \o b \in Seq(S) /\ Len(a \o b) = Len(a) + Len(b)
      /\ \A i \in 1 .. Len(a) : (a \o b)[i] = a[i]
      /\ \A i \in 1 .. Len(b) : (a \o b)[Len(a) + i] = b[i]
  BY ConcatProperties
<1>3. /\ log \o b \in Seq(S) /\ Len(log \o b) = Len(log) + Len(b)
      /\ \A i \in 1 .. Len(log) : (log \o b)[i] = log[i]
      /\ \A i \in 1 .. Len(b) : (log \o b)[Len(log) + i] = b[i]
  BY ConcatProperties
<1>4. ASSUME At(log, p, a), At(log, p + Len(a), b) PROVE At(log, p, a \o b)
  <2>1. SUFFICES ASSUME NEW i \in 1 .. Len(a) + Len(b)
                 PROVE  (a \o b)[i] = log[p + i]
    BY <1>1, <1>2, <1>4 DEF At
  <2>2. CASE i <= Len(a)
    BY <1>1, <1>2, <1>4, <2>2 DEF At
  <2>3. CASE ~ (i <= Len(a))
    <3> DEFINE j == i - Len(a)
    <3>1. j \in 1 .. Len(b) /\ i = Len(a) + j /\ p + i = (p + Len(a)) + j
      BY <1>1, <2>3
    <3>2. (a \o b)[Len(a) + j] = b[j] /\ b[j] = log[(p + Len(a)) + j]
      BY <1>2, <1>4, <3>1 DEF At
    <3>3. QED
      BY <3>1, <3>2
  <2>4. QED
    BY <2>2, <2>3
<1>5. ASSUME At(log, p, a \o b) PROVE At(log, p, a) /\ At(log, p + Len(a), b)
  <2>1. \A i \in 1 .. Len(a) + Len(b) : (a \o b)[i] = log[p + i]
    BY <1>2, <1>5 DEF At
  <2>2. ASSUME NEW i \in 1 .. Len(a) PROVE a[i] = log[p + i]
    <3>1. i \in 1 .. Len(a) + Len(b)
      BY <1>1
    <3>2. QED
      BY <1>2, <2>1, <3>1
  <2>3. ASSUME NEW i \in 1 .. Len(b) PROVE b[i] = log[(p + Len(a)) + i]
    <3>1. Len(a) + i \in 1 .. Len(a) + Len(b) /\ p + (Len(a) + i) = (p + Len(a)) + i
      BY <1>1
    <3>2. QED
      BY <1>2, <2>1, <3>1
  <2>4. p + Len(a) + Len(b) <= Len(log)
    BY <1>1, <1>2, <1>5 DEF At
  <2>5. QED
    BY <1>1, <2>2, <2>3, <2>4 DEF At
<1>6. ASSUME At(log, p, a) PROVE At(log \o b, p, a)
  <2>1. ASSUME NEW i \in 1 .. Len(a) PROVE a[i] = (log \o b)[p + i]
    <3>1. p + i \in 1 .. Len(log) /\ a[i] = log[p + i]
      BY <1>1, <1>6 DEF At
    <3>2. QED
      BY <1>3, <3>1
  <2>2. QED
    BY <1>1, <1>3, <1>6, <2>1 DEF At
<1>7. At(log \o b, Len(log), b)
  BY <1>1, <1>3 DEF At
<1>8. Len(log) >= p => At(log, p, <<>>)
  BY <1>1, EmptySeq DEF At
<1>9. ASSUME At(log, p, a), a # <<>>
      PROVE  /\ Head(a) = log[p + 1] /\ Len(Tail(a)) = Len(a) - 1
             /\ At(log, p + 1, Tail(a)) /\ p + 1 <= Len(log)
  <2>1. /\ Len(a) \in Nat \ {0} /\ Head(a) = a[1] /\ Len(Tail(a)) = Len(a) - 1
        /\ \A i \in 1 .. Len(a) - 1 : Tail(a)[i] = a[i + 1]
    BY <1>9, EmptySeq, HeadTailProperties
  <2>2. Head(a) = log[p + 1] /\ p + 1 <= Len(log)
    BY <1>1, <1>9, <2>1 DEF At
  <2>3. ASSUME NEW i \in 1 .. Len(a) - 1 PROVE Tail(a)[i] = log[(p + 1) + i]
    <3>1. i + 1 \in 1 .. Len(a) /\ p + (i + 1) = (p + 1) + i
      BY <2>1
    <3>2. a[i + 1] = log[p + (i + 1)]
      BY <1>9, <3>1 DEF At
    <3>3. QED
      BY <2>1, <3>1, <3>2
  <2>4. QED
    BY <1>1, <1>9, <2>1, <2>2, <2>3 DEF At
<1>10. ASSUME At(log, p, a), p + Len(a) < Len(log)
       PROVE  At(log, p, Append(a, log[p + Len(a) + 1]))
  <2> DEFINE x == log[p + Len(a) + 1]
  <2>1. x \in S
    BY <1>1, <1>10
  <2> HIDE DEF x
  <2>2. /\ Len(Append(a, x)) = Len(a) + 1 /\ Append(a, x)[Len(a) + 1] = x
        /\ \A i \in 1 .. Len(a) : Append(a, x)[i] = a[i]
    BY <2>1, AppendProperties
  <2>3. ASSUME NEW i \in 1 .. Len(a) + 1 PROVE Append(a, x)[i] = log[p + i]
    <3>1. CASE i \in 1 .. Len(a)
      BY <1>10, <2>2, <3>1 DEF At
    <3>2. CASE i = Len(a) + 1
      <4>1. p + i = p + Len(a) + 1
        BY <1>1, <3>2
      <4>2. QED
        BY <2>2, <3>2, <4>1 DEF x
    <3>3. QED
      BY <1>1, <3>1, <3>2
  <2>4. At(log, p, Append(a, x))
    BY <1>1, <1>10, <2>2, <2>3 DEF At
  <2>5. QED
    BY <2>4 DEF x
<1>11. ASSUME At(log, p, a), At(log, p, b), Len(a) <= Len(b)
       PROVE  a = SubSeq(b, 1, Len(a))
  <2>1. \A i \in 1 .. Len(a) : a[i] = b[i]
    BY <1>1, <1>11 DEF At
  <2> DEFINE n == Len(a)
  <2>2. n \in Int /\ n >= 0 /\ \A i \in 1 .. n : b[i] \in S
    BY <1>1, <1>11
  <2>3. /\ SubSeq(b, 1, n) \in Seq(S) /\ Len(SubSeq(b, 1, n)) = n
        /\ \A i \in 1 .. n : SubSeq(b, 1, n)[i] = b[i]
    <3> HIDE DEF n
    <3>1. /\ SubSeq(b, 1, n) \in Seq(S) /\ Len(SubSeq(b, 1, n)) = n
          /\ \A i \in 1 .. n - 1 + 1 : SubSeq(b, 1, n)[i] = b[1 + i - 1]
      BY <2>2, SubSeqProperties
    <3>2. QED
      BY <2>2, <3>1
  <2>4. QED
    BY <2>1, <2>3
<1>12. QED
  BY <1>4, <1>5, <1>6, <1>7, <1>8, <1>9, <1>10, <1>11

\* These pieces, one after the other, are what the log holds after its first p
\* bytes.
Tiles(log, p, ps) ==
  \E cuts \in [1 .. Len(ps) + 1 -> Nat] :
    /\ cuts[1] = p /\ cuts[Len(ps) + 1] = Len(log)
    /\ \A i \in 1 .. Len(ps) :
         At(log, cuts[i], ps[i]) /\ cuts[i + 1] = cuts[i] + Len(ps[i])

\* Pieces are put before others and taken from them at the front, and they end
\* where they begin exactly if they are all empty.
LEMMA Tiling ==
  ASSUME NEW S, NEW log \in Seq(S), NEW p \in Nat, NEW ps \in Seq(Seq(S))
  PROVE  /\ Len(log) = p => Tiles(log, p, <<>>)
         /\ \A a \in Seq(S) : At(log, p, a) /\ Tiles(log, p + Len(a), ps)
                             => Tiles(log, p, <<a>> \o ps)
         /\ Tiles(log, p, ps) /\ ps # <<>> =>
              At(log, p, Head(ps)) /\ Tiles(log, p + Len(Head(ps)), Tail(ps))
         /\ Tiles(log, p, ps) =>
              p <= Len(log) /\ (p = Len(log) <=> \A i \in 1 .. Len(ps) : ps[i] = <<>>)
<1>1. /\ Len(log) \in Nat /\ Len(ps) \in Nat
      /\ \A i \in 1 .. Len(ps) : ps[i] \in Seq(S) /\ Len(ps[i]) \in Nat
  OBVIOUS
<1>2. ASSUME Len(log) = p PROVE Tiles(log, p, <<>>)
  <2> DEFINE cuts == [i \in 1 .. 1 |-> p]
  <2>1. cuts \in [1 .. 1 -> Nat] /\ cuts[1] = p /\ Len(<<>>) + 1 = 1
    BY EmptySeq
  <2> HIDE DEF cuts
  <2>2. QED
    BY <1>2, <2>1, EmptySeq DEF Tiles
<1>3. ASSUME NEW a \in Seq(S), At(log, p, a), Tiles(log, p + Len(a), ps)
      PROVE  Tiles(log, p, <<a>> \o ps)
  <2> DEFINE n == Len(ps)
             qs == <<a>> \o ps
  <2>1. PICK cuts \in [1 .. n + 1 -> Nat] :
          /\ cuts[1] = p + Len(a) /\ cuts[n + 1] = Len(log)
          /\ \A i \in 1 .. n : At(log, cuts[i], ps[i]) /\ cuts[i + 1] = cuts[i] + Len(ps[i])
    BY <1>3 DEF Tiles
  <2>2. /\ qs \in Seq(Seq(S)) /\ Len(qs) = n + 1 /\ qs[1] = a
        /\ \A i \in 1 .. n : qs[1 + i] = ps[i]
    <3>1. <<a>> \in Seq(Seq(S)) /\ Len(<<a>>) = 1 /\ <<a>>[1] = a
      OBVIOUS
    <3> HIDE DEF n
    <3>2. QED
      BY <3>1, ConcatProperties DEF n
  <2> HIDE DEF qs
  <2> DEFINE c == [i \in 1 .. n + 2 |-> IF i = 1 THEN p ELSE cuts[i - 1]]
  <2>3. c \in [1 .. n + 2 -> Nat] /\ c[1] = p /\ c[n + 2] = Len(log)
    BY <1>1, <2>1
  <2>4. ASSUME NEW i \in 1 .. n + 1
        PROVE  At(log, c[i], qs[i]) /\ c[i + 1] = c[i] + Len(qs[i])
    <3>1. CASE i = 1
      <4>1. c[1] = p /\ c[1 + 1] = cuts[1]
        BY <1>1
      <4> HIDE DEF c
      <4>2. QED
        BY <1>3, <2>1, <2>2, <3>1, <4>1
    <3>2. CASE i # 1
      <4> DEFINE j == i - 1
      <4>1. j \in 1 .. n /\ i = 1 + j /\ c[i] = cuts[j] /\ c[i + 1] = cuts[j + 1]
        BY <1>1, <3>2
      <4> HIDE DEF c, j
      <4>2. qs[i] = ps[j]
        BY <2>2, <4>1
      <4>3. QED
        BY <2>1, <4>1, <4>2
    <3>3. QED
      BY <3>1, <3>2
  <2>5. Len(qs) + 1 = n + 2
    BY <1>1, <2>2
  <2> HIDE DEF c, n
  <2>6. QED
    BY <2>2, <2>3, <2>4, <2>5 DEF Tiles, qs
<1>4. ASSUME Tiles(log, p, ps), ps # <<>>
      PROVE  At(log, p, Head(ps)) /\ Tiles(log, p + Len(Head(ps)), Tail(ps))
  <2> DEFINE n == Len(ps)
             qs == Tail(ps)
  <2>1. PICK cuts \in [1 .. n + 1 -> Nat] :
          /\ cuts[1] = p /\ cuts[n + 1] = Len(log)
          /\ \A i \in 1 .. n : At(log, cuts[i], ps[i]) /\ cuts[i + 1] = cuts[i] + Len(ps[i])
    BY <1>4 DEF Tiles
  <2>2. /\ n \in Nat \ {0} /\ Head(ps) = ps[1] /\ Len(qs) = n - 1
        /\ \A i \in 1 .. n - 1 : qs[i] = ps[i + 1]
    BY <1>4, EmptySeq, HeadTailProperties
  <2> HIDE DEF n, qs
  <2> DEFINE c == [i \in 1 .. n |-> cuts[i + 1]]
  <2>3. /\ c \in [1 .. n -> Nat] /\ c[1] = cuts[1 + 1] /\ c[n] = cuts[n + 1]
        /\ 1 \in 1 .. n
    BY <2>1, <2>2
  <2>4. At(log, p, Head(ps)) /\ cuts[1 + 1] = p + Len(Head(ps))
    BY <2>1, <2>2, <2>3
  <2>5. ASSUME NEW i \in 1 .. n - 1
        PROVE  At(log, c[i], qs[i]) /\ c[i + 1] = c[i] + Len(qs[i])
    <3>1. /\ i + 1 \in 1 .. n /\ c[i] = cuts[i + 1] /\ c[i + 1] = cuts[i + 1 + 1]
          /\ qs[i] = ps[i + 1]
      BY <2>2
    <3> HIDE DEF c
    <3>2. QED
      BY <2>1, <3>1
  <2>6. Len(qs) + 1 = n
    BY <2>2
  <2> HIDE DEF c
  <2>7. Tiles(log, p + Len(Head(ps)), qs)
    BY <2>1, <2>2, <2>3, <2>4, <2>5, <2>6 DEF Tiles
  <2>8. QED
    BY <2>4, <2>7 DEF qs
<1>5. ASSUME Tiles(log, p, ps)
      PROVE  p <= Len(log) /\ (p = Len(log) <=> \A i \in 1 .. Len(ps) : ps[i] = <<>>)
  <2> DEFINE n == Len(ps)
  <2>1. PICK cuts \in [1 .. n + 1 -> Nat] :
          /\ cuts[1] = p /\ cuts[n + 1] = Len(log)
          /\ \A i \in 1 .. n : At(log, cuts[i], ps[i]) /\ cuts[i + 1] = cuts[i] + Len(ps[i])
    BY <1>5 DEF Tiles
  <2>2. n \in Nat /\ \A i \in 1 .. n : Len(ps[i]) \in Nat /\ (ps[i] = <<>> <=> Len(ps[i]) = 0)
    BY <1>1, EmptySeq
  <2> HIDE DEF n
  \* the first place where the cuts do something that each step rules out
  <2>3. ASSUME NEW T, T \subseteq 2 .. n + 1, T # {}
        PROVE  \E i \in 1 .. n : i + 1 \in T /\ i \notin T
    <3>1. T \subseteq Nat
      BY <2>2, <2>3
    <3>2. PICK m \in T : \A k \in T : m <= k
      BY <2>3, <3>1, Least
    <3>3. m - 1 \in 1 .. n /\ (m - 1) + 1 = m /\ m - 1 \notin T
      BY <2>2, <2>3, <3>2
    <3>4. QED
      BY <3>3
  <2>4. ASSUME NEW k \in 1 .. n + 1 PROVE p <= cuts[k]
    <3> DEFINE T == {j \in 2 .. n + 1 : ~ (p <= cuts[j])}
    <3>1. ASSUME NEW i \in 1 .. n, i + 1 \in T, i \notin T PROVE FALSE
      <4>1. cuts[i + 1] = cuts[i] + Len(ps[i]) /\ cuts[i] \in Nat /\ Len(ps[i]) \in Nat
        BY <2>1, <2>2
      <4>2. p <= cuts[i]
        BY <2>1, <2>2, <3>1
      <4>3. QED
        BY <3>1, <4>1, <4>2
    <3>2. T = {}
      <4> HIDE DEF T
      <4>1. T \subseteq 2 .. n + 1
        BY DEF T
      <4>2. QED
        BY <2>3, <3>1, <4>1
    <3>3. CASE k \in 2 .. n + 1
      <4>1. k \notin T
        <5> HIDE DEF T
        <5>1. QED
          BY <3>2
      <4>2. QED
        BY <3>3, <4>1
    <3>4. k = 1 \/ k \in 2 .. n + 1
      BY <2>2
    <3>5. QED
      BY <2>1, <3>3, <3>4
  <2>5. ASSUME NEW k \in 1 .. n + 1 PROVE cuts[k] <= Len(log)
    <3>1. CASE k = n + 1
      BY <1>1, <2>1, <3>1
    <3>2. CASE k \in 1 .. n
      <4>1. cuts[k] + Len(ps[k]) <= Len(log)
        BY <2>1, <3>2 DEF At
      <4>2. cuts[k] \in Nat /\ Len(ps[k]) \in Nat
        BY <2>1, <2>2, <3>2
      <4>3. QED
        BY <1>1, <4>1, <4>2
    <3>3. QED
      BY <2>2, <3>1, <3>2
  <2>6. ASSUME NEW k \in 1 .. n, ps[k] # <<>> PROVE p < Len(log)
    <3>1. cuts[k] + Len(ps[k]) = cuts[k + 1] /\ Len(ps[k]) > 0 /\ k + 1 \in 1 .. n + 1
      BY <2>1, <2>2, <2>6
    <3>2. cuts[k + 1] <= Len(log) /\ p <= cuts[k] /\ cuts[k] \in Nat /\ cuts[k + 1] \in Nat
      BY <2>1, <2>2, <2>4, <2>5, <3>1
    <3>3. QED
      BY <1>1, <2>2, <3>1, <3>2
  <2>7. ASSUME \A i \in 1 .. n : ps[i] = <<>> PROVE p = Len(log)
    <3> DEFINE T == {k \in 2 .. n + 1 : cuts[k] # p}
    <3>1. ASSUME NEW i \in 1 .. n, i + 1 \in T, i \notin T PROVE FALSE
      <4>1. cuts[i + 1] = cuts[i] + 0 /\ cuts[i] \in Nat
        BY <2>1, <2>2, <2>7
      <4>2. cuts[i] = p
        BY <2>1, <2>2, <3>1
      <4>3. QED
        BY <3>1, <4>1, <4>2
    <3>2. T = {}
      <4> HIDE DEF T
      <4>1. T \subseteq 2 .. n + 1
        BY DEF T
      <4>2. QED
        BY <2>3, <3>1, <4>1
    <3>3. CASE n + 1 \in 2 .. n + 1
      <4>1. n + 1 \notin T
        <5> HIDE DEF T
        <5>1. QED
          BY <3>2
      <4>2. QED
        BY <2>1, <3>3, <4>1
    <3>4. n = 0 \/ n + 1 \in 2 .. n + 1
      BY <2>2
    <3>5. QED
      BY <2>1, <2>2, <3>3, <3>4
  <2>8. p <= Len(log)
    BY <2>1, <2>2, <2>4
  <2>9. QED
    BY <2>6, <2>7, <2>8 DEF n
<1>6. QED
  BY <1>2, <1>3, <1>4, <1>5

-----------------------------------------------------------------------------
(* Header blocks *)

\* A blank line, byte by byte.
LEMMA BlankLine ==
  ASSUME NEW s \in Seq(Bytes), NEW n \in 4 .. Len(s)
  PROVE  SubSeq(s, n - 3, n) = Blank
           <=> s[n - 3] = "cr" /\ s[n - 2] = "lf" /\ s[n - 1] = "cr" /\ s[n] = "lf"
<1> DEFINE m == n - 3
           w == SubSeq(s, n - 3, n)
<1>1. /\ n \in Int /\ m \in Int /\ n = m + 3 /\ m - 1 + 4 = n /\ m <= n /\ n - m + 1 = 4
      /\ m + 1 - 1 = m /\ m + 2 - 1 = n - 2 /\ m + 3 - 1 = n - 1 /\ m + 4 - 1 = n
      /\ \A i \in m .. n : s[i] \in Bytes
  OBVIOUS
<1> HIDE DEF m, w
<1>2. SubSeq(s, m, n) \in Seq(Bytes) /\ Len(SubSeq(s, m, n)) = 4
      /\ \A i \in 1 .. 4 : SubSeq(s, m, n)[i] = s[m + i - 1]
  BY <1>1, SubSeqProperties
<1>3. w = SubSeq(s, m, n)
  BY DEF w, m
<1>4. w[1] = s[m] /\ w[2] = s[n - 2] /\ w[3] = s[n - 1] /\ w[4] = s[n]
  <2>1. w[1] = s[m + 1 - 1] /\ w[2] = s[m + 2 - 1] /\ w[3] = s[m + 3 - 1] /\ w[4] = s[m + 4 - 1]
    BY <1>2, <1>3
  <2>2. QED
    BY <1>1, <2>1
<1>5. w = Blank <=> w[1] = "cr" /\ w[2] = "lf" /\ w[3] = "cr" /\ w[4] = "lf"
  <2>1. Blank \in Seq(Bytes) /\ Len(Blank) = 4
        /\ Blank[1] = "cr" /\ Blank[2] = "lf" /\ Blank[3] = "cr" /\ Blank[4] = "lf"
    BY DEF Blank, Bytes
  <2>2. w \in Seq(Bytes) /\ Len(w) = 4
    BY <1>2, <1>3
  <2>3. ASSUME \A i \in 1 .. 4 : w[i] = Blank[i] PROVE w = Blank
    BY <2>1, <2>2, <2>3
  <2>4. \A i \in 1 .. 4 : i = 1 \/ i = 2 \/ i = 3 \/ i = 4
    OBVIOUS
  <2>5. QED
    BY <2>1, <2>3, <2>4
<1>6. QED
  BY <1>4, <1>5 DEF w, m

\* What sendMessage puts out before a body, after a field of the client if
\* there is one.
HeaderBlock(field, body) == field \o <<"key">> \o Decimal[Len(body)] \o Blank

\* readHeaders stops at the end of such a block and not before, and what it
\* finds there is the length of the body.
LEMMA HeaderBlocks ==
  ASSUME NEW field \in Fields \cup {<<>>}, NEW body \in Bodies
  PROVE  LET h == HeaderBlock(field, body)
         IN  /\ h \in Seq(Bytes) /\ Len(h) > 0
             /\ EndsWithBlank(h)
             /\ \A n \in 0 .. Len(h) - 1 : ~EndsWithBlank(SubSeq(h, 1, n))
             /\ IsNumber(LengthField(h)) /\ ToInt[LengthField(h)] = Len(body)
<1> DEFINE h == HeaderBlock(field, body)
           dec == Decimal[Len(body)]
           f == Len(field)
           d == Len(dec)
<1>1. /\ body \in Seq(Bytes) /\ Len(body) \in Nat /\ Len(body) < 2 ^ (IntBits - 1)
      /\ field \in Seq(Bytes) /\ NoBlankWithin(field, Len(field))
      /\ \A i \in 1 .. Len(field) : field[i] # "key"
  <2>1. body \in Seq(Bytes) /\ Len(body) < 2 ^ (IntBits - 1)
    BY TransportAssumption, LengthAssumption
  <2>2. CASE field \in Fields
    <3>1. field \in Seq(Bytes) /\ "key" \notin Range(field) /\ NoBlankWithin(field, Len(field))
      BY <2>2, TransportAssumption
    <3>2. QED
      BY <2>1, <3>1 DEF Range
  <2>3. CASE field = <<>>
    BY <2>1, <2>3, EmptySeq DEF NoBlankWithin
  <2>4. QED
    BY <2>2, <2>3
<1>2. /\ dec \in Seq(Range(Digits)) /\ dec # <<>> /\ ToInt[dec] = Len(body)
      /\ d \in Nat \ {0} /\ f \in Nat
  BY <1>1, Decimals, EmptySeq
<1>3. \A x \in Range(Digits) : x \in Bytes /\ x \notin {"key", "cr", "lf", "other"}
  BY DEF Bytes, Digits, Range
<1>4. dec \in Seq(Bytes) /\ \A i \in 1 .. d : dec[i] \in Range(Digits)
  BY <1>2, <1>3
<1>5. /\ Blank \in Seq(Bytes) /\ Len(Blank) = 4
      /\ Blank[1] = "cr" /\ Blank[2] = "lf" /\ Blank[3] = "cr" /\ Blank[4] = "lf"
  BY DEF Blank, Bytes
<1> HIDE DEF dec, d, f
<1>6. ASSUME NEW s \in Seq(Bytes), NEW t \in Seq(Bytes)
      PROVE  /\ s \o t \in Seq(Bytes) /\ Len(s \o t) = Len(s) + Len(t)
             /\ \A i \in 1 .. Len(s) : (s \o t)[i] = s[i]
             /\ \A i \in 1 .. Len(t) : (s \o t)[Len(s) + i] = t[i]
  BY ConcatProperties
<1>7. /\ h \in Seq(Bytes) /\ Len(h) = f + 1 + d + 4
      /\ \A i \in 1 .. f : h[i] = field[i]
      /\ h[f + 1] = "key"
      /\ \A i \in 1 .. d : h[f + 1 + i] = dec[i]
      /\ \A i \in 1 .. 4 : h[f + 1 + d + i] = Blank[i]
  <2> DEFINE k == <<"key">>
             a == field \o k
             b == a \o dec
  <2>1. k \in Seq(Bytes) /\ Len(k) = 1 /\ k[1] = "key"
    BY DEF Bytes
  <2> HIDE DEF k
  <2>2. /\ a \in Seq(Bytes) /\ Len(a) = f + 1
        /\ \A i \in 1 .. f : a[i] = field[i]
        /\ a[f + 1] = "key"
    <3>1. /\ field \o k \in Seq(Bytes) /\ Len(field \o k) = Len(field) + Len(k)
          /\ \A i \in 1 .. Len(field) : (field \o k)[i] = field[i]
          /\ \A i \in 1 .. Len(k) : (field \o k)[Len(field) + i] = k[i]
      BY <1>1, <1>6, <2>1
    <3>2. 1 \in 1 .. Len(k) /\ a = field \o k
      BY <2>1
    <3> HIDE DEF a
    <3>3. QED
      BY <2>1, <3>1, <3>2 DEF f
  <2> HIDE DEF a
  <2>3. /\ b \in Seq(Bytes) /\ Len(b) = f + 1 + d
        /\ \A i \in 1 .. f + 1 : b[i] = a[i]
        /\ \A i \in 1 .. d : b[f + 1 + i] = dec[i]
    <3>1. /\ a \o dec \in Seq(Bytes) /\ Len(a \o dec) = Len(a) + Len(dec)
          /\ \A i \in 1 .. Len(a) : (a \o dec)[i] = a[i]
          /\ \A i \in 1 .. Len(dec) : (a \o dec)[Len(a) + i] = dec[i]
      BY <1>4, <1>6, <2>2
    <3>2. QED
      BY <2>2, <3>1 DEF d
  <2> HIDE DEF b
  <2>4. h = b \o Blank
    BY DEF h, HeaderBlock, b, a, k, dec
  <2> HIDE DEF h
  <2>5. /\ h \in Seq(Bytes) /\ Len(h) = f + 1 + d + 4
        /\ \A i \in 1 .. f + 1 + d : h[i] = b[i]
        /\ \A i \in 1 .. 4 : h[f + 1 + d + i] = Blank[i]
    <3>1. /\ b \o Blank \in Seq(Bytes) /\ Len(b \o Blank) = Len(b) + Len(Blank)
          /\ \A i \in 1 .. Len(b) : (b \o Blank)[i] = b[i]
          /\ \A i \in 1 .. Len(Blank) : (b \o Blank)[Len(b) + i] = Blank[i]
      BY <1>5, <1>6, <2>3
    <3>2. Len(b) = f + 1 + d /\ Len(Blank) = 4
      BY <1>5, <2>3
    <3>3. QED
      BY <2>4, <3>1, <3>2
  <2>6. ASSUME NEW i \in 1 .. f + 1 PROVE h[i] = a[i]
    <3>1. i \in 1 .. f + 1 + d
      BY <1>2
    <3>2. QED
      BY <2>3, <2>5, <3>1
  <2>7. ASSUME NEW i \in 1 .. f PROVE h[i] = field[i]
    <3>1. i \in 1 .. f + 1
      BY <1>2
    <3>2. QED
      BY <2>2, <2>6, <3>1
  <2>8. h[f + 1] = "key"
    BY <1>2, <2>2, <2>6
  <2>9. ASSUME NEW i \in 1 .. d PROVE h[f + 1 + i] = dec[i]
    <3>1. f + 1 + i \in 1 .. f + 1 + d
      BY <1>2
    <3>2. QED
      BY <2>3, <2>5, <3>1
  <2>10. QED
    BY <2>5, <2>7, <2>8, <2>9
<1> HIDE DEF h
<1>8. \A i \in 1 .. d : h[f + 1 + i] \in Range(Digits)
  BY <1>4, <1>7
\* where the blank lines are
<1>9. ASSUME NEW n \in 4 .. Len(h)
      PROVE  SubSeq(h, n - 3, n) = Blank <=> n = Len(h)
  <2>1. SubSeq(h, n - 3, n) = Blank
          <=> h[n - 3] = "cr" /\ h[n - 2] = "lf" /\ h[n - 1] = "cr" /\ h[n] = "lf"
    BY <1>7, BlankLine
  <2>2. CASE n = Len(h)
    <3>1. h[f + 1 + d + 1] = "cr" /\ h[f + 1 + d + 2] = "lf" /\ h[f + 1 + d + 3] = "cr"
          /\ h[f + 1 + d + 4] = "lf"
      BY <1>5, <1>7
    <3>2. n - 3 = f + 1 + d + 1 /\ n - 2 = f + 1 + d + 2 /\ n - 1 = f + 1 + d + 3
          /\ n = f + 1 + d + 4
      BY <1>2, <1>7, <2>2
    <3>3. QED
      BY <2>1, <2>2, <3>1, <3>2
  <2>3. CASE n <= f
    <3>1. SubSeq(field, n - 3, n) # Blank
      BY <1>1, <1>2, <2>3 DEF NoBlankWithin, f
    <3>2. SubSeq(field, n - 3, n) = Blank
          <=> field[n - 3] = "cr" /\ field[n - 2] = "lf" /\ field[n - 1] = "cr" /\ field[n] = "lf"
      BY <1>1, <2>3, BlankLine DEF f
    <3>3. n - 3 \in 1 .. f /\ n - 2 \in 1 .. f /\ n - 1 \in 1 .. f /\ n \in 1 .. f
      BY <1>2, <2>3
    <3>4. QED
      BY <1>2, <1>7, <2>1, <2>3, <3>1, <3>2, <3>3
  <2>4. CASE f + 1 \in n - 3 .. n
    <3>1. /\ n # Len(h)
          /\ f + 1 = n - 3 \/ f + 1 = n - 2 \/ f + 1 = n - 1 \/ f + 1 = n
      BY <1>2, <1>7, <2>4
    <3>2. CASE f + 1 = n - 3
      <4>1. h[n - 3] = "key"
        BY <1>7, <3>2
      <4>2. QED
        BY <2>1, <3>1, <4>1
    <3>3. CASE f + 1 = n - 2
      <4>1. h[n - 2] = "key"
        BY <1>7, <3>3
      <4>2. QED
        BY <2>1, <3>1, <4>1
    <3>4. CASE f + 1 = n - 1
      <4>1. h[n - 1] = "key"
        BY <1>7, <3>4
      <4>2. QED
        BY <2>1, <3>1, <4>1
    <3>5. CASE f + 1 = n
      <4>1. h[n] = "key"
        BY <1>7, <3>5
      <4>2. QED
        BY <2>1, <3>1, <4>1
    <3>6. QED
      BY <3>1, <3>2, <3>3, <3>4, <3>5
  <2>5. CASE n < Len(h) /\ f + 1 < n - 3
    <3>1. CASE n - 3 <= f + 1 + d
      <4> DEFINE i == n - 3 - (f + 1)
      <4>1. i \in 1 .. d /\ f + 1 + i = n - 3
        BY <1>2, <2>5, <3>1
      <4>2. h[n - 3] \in Range(Digits)
        BY <1>8, <4>1
      <4>3. QED
        BY <1>3, <2>1, <2>5, <4>2
    <3>2. CASE n - 3 > f + 1 + d
      BY <1>2, <1>7, <2>5, <3>2
    <3>3. QED
      BY <1>2, <3>1, <3>2
  <2>6. QED
    BY <1>2, <1>7, <2>2, <2>3, <2>4, <2>5
<1>10. Len(h) > 0 /\ EndsWithBlank(h)
  <2>1. Len(h) \in 4 .. Len(h)
    BY <1>2, <1>7
  <2>2. QED
    BY <1>9, <2>1 DEF EndsWithBlank
<1>11. ASSUME NEW n \in 0 .. Len(h) - 1 PROVE ~EndsWithBlank(SubSeq(h, 1, n))
  <2> DEFINE w == SubSeq(h, 1, n)
  <2>1. n \in Int /\ n >= 0 /\ n <= Len(h) /\ \A i \in 1 .. n : h[i] \in Bytes
    BY <1>7
  <2>2. w \in Seq(Bytes) /\ Len(w) = n /\ \A i \in 1 .. n : w[i] = h[i]
    <3> HIDE DEF w
    <3>1. /\ SubSeq(h, 1, n) \in Seq(Bytes) /\ Len(SubSeq(h, 1, n)) = n
          /\ \A i \in 1 .. n - 1 + 1 : SubSeq(h, 1, n)[i] = h[1 + i - 1]
      BY <2>1, SubSeqProperties
    <3>2. QED
      BY <2>1, <3>1 DEF w
  <2> HIDE DEF w
  <2>3. SUFFICES ASSUME EndsWithBlank(w) PROVE FALSE
    BY DEF w
  <2>4. n >= 4 /\ SubSeq(w, n - 3, n) = Blank
    BY <2>2, <2>3 DEF EndsWithBlank
  <2>5. n \in 4 .. Len(w) /\ n \in 4 .. Len(h)
    BY <2>1, <2>2, <2>4
  <2>6. w[n - 3] = "cr" /\ w[n - 2] = "lf" /\ w[n - 1] = "cr" /\ w[n] = "lf"
    BY <2>2, <2>4, <2>5, BlankLine
  <2>7. n - 3 \in 1 .. n /\ n - 2 \in 1 .. n /\ n - 1 \in 1 .. n /\ n \in 1 .. n
    BY <2>1, <2>4
  <2>8. h[n - 3] = "cr" /\ h[n - 2] = "lf" /\ h[n - 1] = "cr" /\ h[n] = "lf"
    BY <2>2, <2>6, <2>7
  <2>9. SubSeq(h, n - 3, n) = Blank
    BY <1>7, <2>5, <2>8, BlankLine
  <2>10. QED
    BY <1>9, <2>1, <2>5, <2>9
<1>12. LengthField(h) = dec
  <2>1. ASSUME NEW i \in 1 .. Len(h) PROVE h[i] = "key" <=> i = f + 1
    <3>1. CASE i <= f
      BY <1>1, <1>2, <1>7, <3>1 DEF f
    <3>2. CASE i = f + 1
      BY <1>7, <3>2
    <3>3. CASE i > f + 1 /\ i <= f + 1 + d
      <4> DEFINE j == i - (f + 1)
      <4>1. j \in 1 .. d /\ f + 1 + j = i
        BY <1>2, <3>3
      <4>2. h[i] \in Range(Digits)
        BY <1>8, <4>1
      <4>3. QED
        BY <1>2, <1>3, <3>3, <4>2
    <3>4. CASE i > f + 1 + d
      <4> DEFINE j == i - (f + 1 + d)
      <4>1. j \in 1 .. 4 /\ f + 1 + d + j = i
        BY <1>2, <1>7, <3>4
      <4>2. h[i] = Blank[j] /\ (j = 1 \/ j = 2 \/ j = 3 \/ j = 4)
        BY <1>7, <4>1
      <4>3. QED
        BY <1>2, <1>5, <3>4, <4>2
    <3>5. QED
      BY <1>2, <3>1, <3>2, <3>3, <3>4
  <2>2. Positions(h, "key") = {f + 1}
    BY <1>2, <1>7, <2>1 DEF Positions
  <2>3. Min({f + 1}) = f + 1
    BY <1>2 DEF Min
  <2> DEFINE E == {i \in Positions(h, "cr") : i > f + 1}
             e == f + 1 + d + 1
  <2>4. e \in E
    BY <1>2, <1>5, <1>7 DEF Positions
  <2>5. ASSUME NEW i \in E PROVE i \in Nat /\ e <= i
    <3>1. i \in 1 .. Len(h) /\ h[i] = "cr" /\ i > f + 1
      BY DEF Positions
    <3>2. CASE i <= f + 1 + d
      <4> DEFINE j == i - (f + 1)
      <4>1. j \in 1 .. d /\ f + 1 + j = i
        BY <1>2, <3>1, <3>2
      <4>2. h[i] \in Range(Digits)
        BY <1>8, <4>1
      <4>3. QED
        BY <1>3, <3>1, <4>2
    <3>3. QED
      BY <1>2, <3>1, <3>2
  <2>6. Min(E) = e
    <3>1. e \in Nat
      BY <1>2
    <3> HIDE DEF E, e
    <3>2. \E i \in E : \A j \in E : i <= j
      BY <2>4, <2>5
    <3>3. Min(E) \in E /\ \A j \in E : Min(E) <= j
      BY <3>2 DEF Min
    <3>4. Min(E) \in Nat /\ e <= Min(E)
      BY <2>5, <3>3
    <3>5. Min(E) <= e
      BY <2>4, <3>3
    <3>6. QED
      BY <3>1, <3>4, <3>5
  <2>7. LengthField(h) = SubSeq(h, f + 1 + 1, e - 1)
    <3>1. Positions(h, "key") # {} /\ Min(Positions(h, "key")) = f + 1
      BY <2>2, <2>3
    <3> HIDE DEF e
    <3>2. Min({i \in Positions(h, "cr") : i > Min(Positions(h, "key"))}) = e
      BY <2>6, <3>1
    <3>3. QED
      BY <3>1, <3>2 DEF LengthField
  <2> DEFINE m == f + 1 + 1
             n == f + 1 + d
  <2>8. /\ m \in Int /\ n \in Int /\ n - m + 1 = d /\ m <= n /\ e - 1 = n
        /\ \A i \in m .. n : h[i] \in Bytes
        /\ \A i \in 1 .. d : m + i - 1 = f + 1 + i
    BY <1>2, <1>7
  <2>9. LengthField(h) = SubSeq(h, m, n)
    BY <2>7, <2>8
  <2> HIDE DEF m, n, e
  <2>10. /\ SubSeq(h, m, n) \in Seq(Bytes) /\ Len(SubSeq(h, m, n)) = d
         /\ \A i \in 1 .. d : SubSeq(h, m, n)[i] = h[m + i - 1]
    BY <1>2, <2>8, SubSeqProperties
  <2>11. \A i \in 1 .. d : SubSeq(h, m, n)[i] = dec[i]
    BY <1>7, <2>8, <2>10
  <2>12. dec \in Seq(Bytes) /\ Len(dec) = d
    BY <1>4 DEF d
  <2>13. SubSeq(h, m, n) = dec
    BY <2>10, <2>11, <2>12
  <2>14. QED
    BY <2>9, <2>13
<1>13. IsNumber(dec)
  BY <1>2, <1>4 DEF IsNumber, Range, d
<1>14. QED
  BY <1>2, <1>7, <1>10, <1>11, <1>12, <1>13 DEF h

-----------------------------------------------------------------------------
(***************************************************************************)
(* The inductive invariant.  Were all bytes that threads have begun to     *)
(* send kept in a log, the log would be frames one after another; the      *)
(* reader is at some place in it, and what is on its way, buffered and     *)
(* still to be inserted lies behind that place.  Places in the log do not  *)
(* move, whoever takes a step.                                             *)
(***************************************************************************)

\* The log holds a frame with this body between p and q.
FrameAt(log, p, body, q) ==
  \E field \in Fields \cup {<<>>} :
    /\ At(log, p, HeaderBlock(field, body))
    /\ At(log, p + Len(HeaderBlock(field, body)), body)
    /\ q = p + Len(HeaderBlock(field, body)) + Len(body)

\* The log begins with a frame for each message.
Frames(log, msgs, edges) ==
  /\ edges[Len(msgs) + 1] <= Len(log)
  /\ \A i \in 1 .. Len(msgs) : FrameAt(log, edges[i], msgs[i], edges[i + 1])

\* The reader has read p bytes: the frames of the messages it returned, and
\* what its place in the code says of the frame after them.
Reading(log, msgs, edges, p) ==
  LET k == Len(received)
  IN  /\ k <= Len(msgs) /\ \A i \in 1 .. k : received[i] = msgs[i]
      /\ \/ readerPc = "idle" /\ p = edges[k + 1]
         \/ /\ readerPc \in {"headers", "parse"}
            /\ At(log, edges[k + 1], headers) /\ p = edges[k + 1] + Len(headers)
            /\ k < Len(msgs) =>
                 IF readerPc = "headers" THEN p + Len(msgs[k + 1]) < edges[k + 2]
                                         ELSE p + Len(msgs[k + 1]) = edges[k + 2]
            /\ k = Len(msgs) /\ readerPc = "parse" => ~open /\ headers \in Malformed
         \/ /\ readerPc = "body"
            /\ k < Len(msgs) /\ length = Len(msgs[k + 1]) /\ p + length = edges[k + 2]

\* Only the thread that holds the lock has begun a frame and not finished it.
Writing(log, msgs, edges, s) ==
  /\ sent = msgs /\ edges[Len(msgs) + 1] = Len(log)
  /\ At(log, s, buffered)
  /\ \A t \in Writers : t # sendMutex => pieces[t] = <<>>
  /\ sendMutex = NoWriter => s = Len(log)
  /\ sendMutex # NoWriter =>
       /\ Len(msgs) > 0 /\ edges[Len(msgs)] <= s
       /\ Tiles(log, s + Len(buffered), pieces[sendMutex])

\* The end: nothing is missing, or the end of the last frame is, or there is a
\* useless block after the last frame.
Ended(log, msgs, edges, s) ==
  \/ sent = msgs /\ s = Len(log) /\ edges[Len(msgs) + 1] = Len(log)
  \/ /\ Len(msgs) > 0 /\ sent = SubSeq(msgs, 1, Len(msgs) - 1)
     /\ edges[Len(msgs)] <= s /\ s < Len(log) /\ edges[Len(msgs) + 1] = Len(log)
  \/ /\ sent = msgs /\ s = Len(log)
     /\ \E block \in Malformed :
          /\ At(log, edges[Len(msgs) + 1], block)
          /\ Len(log) = edges[Len(msgs) + 1] + Len(block)

Tracked ==
  \E log \in Seq(Bytes), msgs \in Seq(Bodies), p \in Nat :
    \E edges \in [1 .. Len(msgs) + 1 -> Nat] :
      /\ Frames(log, msgs, edges)
      /\ Reading(log, msgs, edges, p)
      /\ At(log, p, stream)
      /\ IF open THEN Writing(log, msgs, edges, p + Len(stream))
                 ELSE Ended(log, msgs, edges, p + Len(stream))

Inv ==
  /\ TypeOK
  /\ GivesUpForCause
  /\ open => ~failed /\ readerPc \notin {"nullopt", "thrown"}
  /\ failed => stream = <<>> /\ readerPc \in {"headers", "nullopt"}
  /\ readerPc = "headers" => ~EndsWithBlank(headers)
  /\ ~failed /\ readerPc \notin {"nullopt", "thrown"} => Tracked

ChannelStep == [Channel!Next]_(Channel!vars)

-----------------------------------------------------------------------------
\* The invariant holds at first, and every step keeps it and is a step of the
\* channel or none.
LEMMA AlwaysTracked == Spec => []Inv /\ [][Channel!Next]_(Channel!vars)
<1>1. Init => Inv
  <2> SUFFICES ASSUME Init PROVE Inv
    OBVIOUS
  <2>1. <<>> \in Seq(Bytes) /\ <<>> \in Seq(Bodies) /\ <<>> \in Seq(Seq(Bytes)) /\ Len(<<>>) = 0
    BY EmptySeq
  <2>2. TypeOK
    <3>1. 0 \in 0 .. 2 ^ (IntBits - 1) - 1
      BY LengthAssumption
    <3>2. QED
      BY <2>1, <3>1 DEF Init, TypeOK
  <2>3. Tracked
    <3> DEFINE edges == [i \in 1 .. 1 |-> 0]
    <3>1. edges \in [1 .. 1 -> Nat] /\ edges[1] = 0 /\ Len(<<>>) + 1 = 1
      BY <2>1
    <3> HIDE DEF edges
    <3>2. Frames(<<>>, <<>>, edges)
      BY <2>1, <3>1 DEF Frames
    <3>3. Reading(<<>>, <<>>, edges, 0)
      BY <2>1, <3>1 DEF Reading, Init
    <3>4. At(<<>>, 0, <<>>)
      BY <2>1 DEF At
    <3>5. Writing(<<>>, <<>>, edges, 0 + Len(stream))
      BY <2>1, <3>1, <3>4 DEF Writing, Init
    <3>6. edges \in [1 .. Len(<<>>) + 1 -> Nat] /\ stream = <<>> /\ open
      BY <3>1 DEF Init
    <3>7. QED
      BY <2>1, <3>2, <3>3, <3>4, <3>5, <3>6 DEF Tracked
  <2>4. ~EndsWithBlank(headers) /\ readerPc = "idle" /\ open /\ ~failed
    BY <2>1 DEF Init, EndsWithBlank
  <2>5. QED
    BY <2>2, <2>3, <2>4 DEF Inv, GivesUpForCause
\* Frames stay where they are when the log grows.
<1>2. ASSUME NEW log \in Seq(Bytes), NEW msgs \in Seq(Bodies),
             NEW edges \in [1 .. Len(msgs) + 1 -> Nat], NEW tail \in Seq(Bytes),
             Frames(log, msgs, edges), NEW i \in 1 .. Len(msgs)
      PROVE  FrameAt(log \o tail, edges[i], msgs[i], edges[i + 1])
  <2> USE <1>2
  <2>1. FrameAt(log, edges[i], msgs[i], edges[i + 1])
    BY DEF Frames
  <2>2. PICK g \in Fields \cup {<<>>} :
          /\ At(log, edges[i], HeaderBlock(g, msgs[i]))
          /\ At(log, edges[i] + Len(HeaderBlock(g, msgs[i])), msgs[i])
          /\ edges[i + 1] = edges[i] + Len(HeaderBlock(g, msgs[i])) + Len(msgs[i])
    BY <2>1 DEF FrameAt
  <2>3. msgs[i] \in Bodies /\ edges[i] \in Nat
    <3>1. i \in 1 .. Len(msgs) + 1
      OBVIOUS
    <3>2. QED
      BY <3>1
  <2>4. HeaderBlock(g, msgs[i]) \in Seq(Bytes) /\ msgs[i] \in Seq(Bytes)
    BY <2>3, HeaderBlocks, TransportAssumption
  <2>5. Len(HeaderBlock(g, msgs[i])) \in Nat
    BY <2>4
  <2>6. /\ At(log \o tail, edges[i], HeaderBlock(g, msgs[i]))
        /\ At(log \o tail, edges[i] + Len(HeaderBlock(g, msgs[i])), msgs[i])
    <3>1. \A q \in Nat, w \in Seq(Bytes) : At(log, q, w) => At(log \o tail, q, w)
      BY Places
    <3>2. edges[i] + Len(HeaderBlock(g, msgs[i])) \in Nat
      BY <2>3, <2>5
    <3>3. QED
      BY <2>2, <2>3, <2>4, <3>1, <3>2
  <2>7. QED
    BY <2>2, <2>6 DEF FrameAt
\* A thread that takes the lock appends its frame to the log.
<1>3. ASSUME Inv, NEW t \in Writers, NEW body \in Bodies, NEW field \in Fields \cup {<<>>},
             NEW frame,
             \/ frame = Frame(body) /\ field = <<>>
             \/ frame = <<field>> \o Frame(body),
             Begin(t, frame, body)
      PROVE  Inv' /\ ChannelStep
  <2> USE <1>3
  <2> DEFINE h == HeaderBlock(field, body)
             dec == Decimal[Len(body)]
             key == <<"key">>
  <2>0. \A v, w \in Seq(Bytes) : v \o w \in Seq(Bytes) /\ Len(v \o w) = Len(v) + Len(w)
    OBVIOUS
  <2>1. /\ body \in Seq(Bytes) /\ Len(body) \in Nat /\ field \in Seq(Bytes)
        /\ dec \in Seq(Bytes) /\ key \in Seq(Bytes) /\ Blank \in Seq(Bytes)
    <3>1. body \in Seq(Bytes) /\ Len(body) \in Nat
      <4>1. body \in Seq(Bytes)
        BY TransportAssumption
      <4>2. QED
        BY <4>1
    <3>2. field \in Seq(Bytes)
      BY TransportAssumption, EmptySeq
    <3>3. dec \in Seq(Range(Digits))
      BY <3>1, Decimals
    <3>4. \A x \in Range(Digits) : x \in Bytes
      BY DEF Bytes
    <3>5. dec \in Seq(Bytes)
      BY <3>3, <3>4
    <3>6. QED
      BY <3>1, <3>2, <3>5 DEF Blank, Bytes
  <2>2. h \in Seq(Bytes) /\ Len(h) \in Nat /\ Len(h) > 0
    <3>1. h \in Seq(Bytes) /\ Len(h) > 0
      BY HeaderBlocks
    <3> HIDE DEF h
    <3>2. QED
      BY <3>1
  <2>3. /\ sendMutex = NoWriter /\ open /\ sendMutex' = t
        /\ pieces' = [pieces EXCEPT ![t] = frame] /\ sent' = Append(sent, body)
        /\ UNCHANGED <<buffered, stream, open, failed, readerPc, headers, length, received>>
    BY DEF Begin, readerVars
  <2>4. Tracked /\ TypeOK
    BY <2>3 DEF Inv
  <2>5. PICK log \in Seq(Bytes), msgs \in Seq(Bodies), p \in Nat :
          \E edges \in [1 .. Len(msgs) + 1 -> Nat] :
            /\ Frames(log, msgs, edges)
            /\ Reading(log, msgs, edges, p)
            /\ At(log, p, stream)
            /\ Writing(log, msgs, edges, p + Len(stream))
    BY <2>3, <2>4 DEF Tracked
  <2>6. PICK edges \in [1 .. Len(msgs) + 1 -> Nat] :
            /\ Frames(log, msgs, edges)
            /\ Reading(log, msgs, edges, p)
            /\ At(log, p, stream)
            /\ Writing(log, msgs, edges, p + Len(stream))
    BY <2>5
  <2> DEFINE n == Len(msgs)
             tail == h \o body
             log2 == log \o tail
             msgs2 == Append(msgs, body)
             edges2 == [i \in 1 .. n + 2 |-> IF i = n + 2 THEN Len(log2) ELSE edges[i]]
  <2> HIDE DEF h, dec, key
  <2>7. /\ tail \in Seq(Bytes) /\ Len(tail) = Len(h) + Len(body)
        /\ log2 \in Seq(Bytes) /\ Len(log2) = Len(log) + Len(h) + Len(body)
        /\ n \in Nat /\ Len(log) \in Nat
    <3>1. tail \in Seq(Bytes) /\ Len(tail) = Len(h) + Len(body)
      BY <2>1, <2>2
    <3> HIDE DEF tail
    <3>2. log2 \in Seq(Bytes) /\ Len(log2) = Len(log) + Len(tail)
      BY <2>0, <3>1
    <3>3. n \in Nat /\ Len(log) \in Nat
      OBVIOUS
    <3> HIDE DEF log2, n
    <3>4. QED
      BY <2>1, <2>2, <3>1, <3>2, <3>3
  <2> HIDE DEF tail
  <2>8. /\ msgs2 \in Seq(Bodies) /\ Len(msgs2) = n + 1 /\ msgs2[n + 1] = body
        /\ \A i \in 1 .. n : msgs2[i] = msgs[i]
    BY AppendProperties
  <2> HIDE DEF msgs2, log2
  <2>9. /\ edges2 \in [1 .. Len(msgs2) + 1 -> Nat]
        /\ edges2[n + 2] = Len(log2)
        /\ \A i \in 1 .. n + 1 : edges2[i] = edges[i]
    <3>1. n + 2 \in 1 .. n + 2 /\ Len(msgs2) + 1 = n + 2 /\ Len(log2) \in Nat
      BY <2>1, <2>2, <2>7, <2>8
    <3>2. ASSUME NEW i \in 1 .. n + 2, i # n + 2 PROVE i \in 1 .. n + 1 /\ edges[i] \in Nat
      <4>1. i \in 1 .. n + 1
        BY <2>7, <3>2
      <4> HIDE DEF edges2
      <4>2. QED
        BY <2>6, <4>1
    <3>3. edges2 \in [1 .. n + 2 -> Nat]
      BY <3>1, <3>2
    <3>4. ASSUME NEW i \in 1 .. n + 1 PROVE i \in 1 .. n + 2 /\ i # n + 2
      BY <2>7
    <3>5. QED
      BY <3>1, <3>3, <3>4
  <2> HIDE DEF edges2
  <2>10. edges[n + 1] = Len(log) /\ sent = msgs
    BY <2>6 DEF Writing
  <2>11. /\ At(log2, Len(log), h) /\ At(log2, Len(log) + Len(h), body)
         /\ \A q \in Nat, w \in Seq(Bytes) : At(log, q, w) => At(log2, q, w)
    <3>1. At(log2, Len(log), tail)
      BY <2>7, Places DEF log2
    <3>2. At(log2, Len(log), h) /\ At(log2, Len(log) + Len(h), body)
      BY <2>1, <2>2, <2>7, <3>1, Places DEF tail
    <3>3. \A q \in Nat, w \in Seq(Bytes) : At(log, q, w) => At(log2, q, w)
      BY <2>7, Places DEF log2
    <3>4. QED
      BY <3>2, <3>3
  <2>12. Frames(log2, msgs2, edges2)
    <3>1. ASSUME NEW i \in 1 .. n PROVE FrameAt(log2, edges2[i], msgs2[i], edges2[i + 1])
      <4>1. FrameAt(log2, edges[i], msgs[i], edges[i + 1])
        BY <2>6, <2>7, <1>2 DEF log2
      <4>2. i \in 1 .. n + 1 /\ i + 1 \in 1 .. n + 1
        BY <2>7
      <4>3. edges2[i] = edges[i] /\ edges2[i + 1] = edges[i + 1] /\ msgs2[i] = msgs[i]
        BY <2>8, <2>9, <4>2
      <4>4. QED
        BY <4>1, <4>3
    <3>2. FrameAt(log2, edges2[n + 1], msgs2[n + 1], edges2[n + 2])
      <4>1. edges2[n + 1] = Len(log) /\ edges2[n + 2] = Len(log) + Len(h) + Len(body)
        BY <2>7, <2>9, <2>10
      <4>2. FrameAt(log2, Len(log), body, Len(log) + Len(h) + Len(body))
        BY <2>11 DEF FrameAt, h
      <4>3. QED
        BY <2>8, <4>1, <4>2
    <3>3. \A i \in 1 .. n + 1 : i \in 1 .. n \/ (i = n + 1 /\ i + 1 = n + 2)
      BY <2>7
    <3>4. Len(msgs2) + 1 = n + 2 /\ edges2[n + 2] <= Len(log2)
      BY <2>7, <2>8, <2>9
    <3>5. QED
      BY <2>8, <3>1, <3>2, <3>3, <3>4 DEF Frames
  <2>13. Reading(log2, msgs2, edges2, p)'
    <3> DEFINE k == Len(received)
    <3>1. /\ k \in Nat /\ k <= n /\ \A i \in 1 .. k : received[i] = msgs[i]
          /\ headers \in Seq(Bytes) /\ Len(headers) \in Nat
      BY <2>4, <2>6 DEF Reading, TypeOK
    <3> HIDE DEF k
    <3>2. k <= n + 1 /\ \A i \in 1 .. k : received[i] = msgs2[i]
      <4>1. \A i \in 1 .. k : i \in 1 .. n
        BY <2>7, <3>1
      <4>2. QED
        BY <2>7, <2>8, <3>1, <4>1
    <3>3. edges2[k + 1] = edges[k + 1] /\ edges[k + 1] \in Nat
      <4>1. k + 1 \in 1 .. n + 1
        BY <2>7, <3>1
      <4>2. QED
        BY <2>9, <4>1
    <3>4. k < n => edges2[k + 2] = edges[k + 2] /\ msgs2[k + 1] = msgs[k + 1]
      <4>1. k < n => k + 2 \in 1 .. n + 1 /\ k + 1 \in 1 .. n
        BY <2>7, <3>1
      <4>2. QED
        BY <2>8, <2>9, <4>1
    <3>5. k = n => edges2[k + 2] = Len(log) + Len(h) + Len(body) /\ msgs2[k + 1] = body
      BY <2>7, <2>8, <2>9
    <3>6. p <= Len(log)
      BY <2>4, <2>6, <2>7 DEF At, TypeOK
    <3>7. CASE readerPc = "idle"
      BY <2>3, <2>6, <2>8, <3>1, <3>2, <3>3, <3>7 DEF Reading, k
    <3>8. CASE readerPc \in {"headers", "parse"}
      <4>1. At(log, edges[k + 1], headers) /\ p = edges[k + 1] + Len(headers)
        BY <2>6, <3>8 DEF Reading, k
      <4>2. At(log2, edges2[k + 1], headers) /\ p = edges2[k + 1] + Len(headers)
        BY <2>11, <3>1, <3>3, <4>1
      <4>3. k = n => readerPc = "headers"
        BY <2>3, <2>6, <3>8 DEF Reading, k
      <4>4. k < n => IF readerPc = "headers" THEN p + Len(msgs2[k + 1]) < edges2[k + 2]
                                             ELSE p + Len(msgs2[k + 1]) = edges2[k + 2]
        BY <2>6, <3>4, <3>8 DEF Reading, k
      <4>5. k = n => p + Len(msgs2[k + 1]) < edges2[k + 2]
        BY <2>1, <2>2, <2>7, <3>5, <3>6
      <4>6. k < n + 1 /\ (k < n \/ k = n)
        BY <2>7, <3>1
      <4>7. QED
        BY <2>3, <2>8, <3>2, <3>8, <4>2, <4>3, <4>4, <4>5, <4>6 DEF Reading, k
    <3>9. CASE readerPc = "body"
      BY <2>3, <2>6, <2>7, <2>8, <3>1, <3>2, <3>4, <3>9 DEF Reading, k
    <3>10. QED
      BY <2>6, <3>7, <3>8, <3>9 DEF Reading, k
  <2>14. /\ frame \in Seq(Seq(Bytes))
         /\ Tiles(log2, Len(log), frame)
    <3> DEFINE fr == Frame(body)
               q == Len(log) + Len(field)
               cuts == [i \in 1 .. 5 |-> IF i = 1 THEN q ELSE IF i = 2 THEN q + 1
                                         ELSE IF i = 3 THEN q + 1 + Len(dec)
                                         ELSE IF i = 4 THEN q + 1 + Len(dec) + 4
                                         ELSE Len(log2)]
    <3> HIDE DEF cuts, q
    <3>0. \A v, w \in Seq(Bytes), i \in Nat :
            At(log2, i, v \o w) => At(log2, i, v) /\ At(log2, i + Len(v), w)
      BY <2>7, Places
    <3>1. /\ fr \in Seq(Seq(Bytes)) /\ Len(fr) = 4
          /\ fr[1] = key /\ fr[2] = dec /\ fr[3] = Blank /\ fr[4] = body
      BY <2>1 DEF Frame, key, dec
    <3>2. Len(key) = 1 /\ Len(Blank) = 4 /\ Len(dec) \in Nat /\ Len(field) \in Nat
      BY <2>1 DEF key, Blank
    <3> HIDE DEF fr
    <3> DEFINE a == field \o key
               b == a \o dec
    <3>3. a \in Seq(Bytes) /\ Len(a) = Len(field) + 1
      <4>1. field \in Seq(Bytes) /\ key \in Seq(Bytes)
        BY <2>1
      <4>2. field \o key \in Seq(Bytes) /\ Len(field \o key) = Len(field) + Len(key)
        BY <2>0, <4>1, Zenon
      <4>3. QED
        BY <3>2, <4>2
    <3> HIDE DEF a
    <3>4. b \in Seq(Bytes) /\ Len(b) = Len(field) + 1 + Len(dec)
      BY <2>0, <2>1, <3>3
    <3> HIDE DEF b
    <3>5. h = b \o Blank
      BY DEF h, HeaderBlock, a, b, key, dec
    <3>6. Len(h) = Len(field) + 1 + Len(dec) + 4
      <4>1. Len(b \o Blank) = Len(b) + Len(Blank) /\ Len(Blank) = 4
        BY <2>0, <2>1, <3>2, <3>4
      <4>2. QED
        BY <3>4, <3>5, <4>1
    <3>7. At(log2, Len(log), b) /\ At(log2, Len(log) + Len(b), Blank)
      <4>1. At(log2, Len(log), b \o Blank)
        BY <2>11, <3>5
      <4>2. QED
        <5>1. b \in Seq(Bytes) /\ Blank \in Seq(Bytes) /\ Len(log) \in Nat
          BY <2>1, <2>7, <3>4
        <5>2. QED
          BY <3>0, <4>1, <5>1, Zenon
    <3>8. At(log2, Len(log), a) /\ At(log2, Len(log) + Len(a), dec)
      <4>1. At(log2, Len(log), a \o dec)
        BY <3>7 DEF b
      <4>2. QED
        <5>1. a \in Seq(Bytes) /\ dec \in Seq(Bytes) /\ Len(log) \in Nat
          BY <2>1, <2>7, <3>3
        <5>2. QED
          BY <3>0, <4>1, <5>1, Zenon
    <3>9. At(log2, Len(log), field) /\ At(log2, Len(log) + Len(field), key)
      <4>1. At(log2, Len(log), field \o key)
        BY <3>8 DEF a
      <4>2. field \in Seq(Bytes) /\ key \in Seq(Bytes) /\ Len(log) \in Nat
        BY <2>1, <2>7
      <4>3. QED
        BY <3>0, <4>1, <4>2, Zenon
    <3>10. /\ At(log2, q, key) /\ At(log2, q + 1, dec)
           /\ At(log2, q + 1 + Len(dec), Blank) /\ At(log2, q + 1 + Len(dec) + 4, body)
           /\ q \in Nat /\ Len(log2) = q + 1 + Len(dec) + 4 + Len(body)
      <4>1. /\ Len(log) + Len(a) = q + 1 /\ Len(log) + Len(b) = q + 1 + Len(dec)
            /\ Len(log) + Len(h) = q + 1 + Len(dec) + 4
            /\ q \in Nat /\ Len(log2) = q + 1 + Len(dec) + 4 + Len(body)
        BY <2>1, <2>7, <3>2, <3>3, <3>4, <3>6 DEF q
      <4>2. QED
        BY <2>11, <3>7, <3>8, <3>9, <4>1 DEF q
    <3>11. Tiles(log2, q, fr)
      <4>1. /\ cuts \in [1 .. 5 -> Nat] /\ cuts[1] = q /\ cuts[2] = q + 1
            /\ cuts[3] = q + 1 + Len(dec) /\ cuts[4] = q + 1 + Len(dec) + 4
            /\ cuts[5] = q + 1 + Len(dec) + 4 + Len(body) /\ cuts[5] = Len(log2)
        <5>1. q + 1 \in Nat /\ q + 1 + Len(dec) \in Nat /\ q + 1 + Len(dec) + 4 \in Nat
              /\ Len(log2) \in Nat
          BY <2>7, <3>2, <3>10
        <5>2. \A i \in 1 .. 5 : cuts[i] \in Nat
          BY <3>10, <5>1 DEF cuts
        <5>3. cuts \in [1 .. 5 -> Nat]
          BY <5>2 DEF cuts
        <5>4. /\ cuts[1] = q /\ cuts[2] = q + 1
              /\ cuts[3] = q + 1 + Len(dec) /\ cuts[4] = q + 1 + Len(dec) + 4
              /\ cuts[5] = Len(log2)
          BY DEF cuts
        <5>5. QED
          BY <3>10, <5>3, <5>4
      <4>2. At(log2, cuts[1], fr[1]) /\ cuts[1 + 1] = cuts[1] + Len(fr[1])
        BY <3>1, <3>2, <3>10, <4>1
      <4>3. At(log2, cuts[2], fr[2]) /\ cuts[2 + 1] = cuts[2] + Len(fr[2])
        BY <3>1, <3>2, <3>10, <4>1
      <4>4. At(log2, cuts[3], fr[3]) /\ cuts[3 + 1] = cuts[3] + Len(fr[3])
        BY <3>1, <3>2, <3>10, <4>1
      <4>5. At(log2, cuts[4], fr[4]) /\ cuts[4 + 1] = cuts[4] + Len(fr[4])
        BY <3>1, <3>2, <3>10, <4>1
      <4>6. \A i \in 1 .. 4 : i = 1 \/ i = 2 \/ i = 3 \/ i = 4
        OBVIOUS
      <4>7. \A i \in 1 .. 4 : At(log2, cuts[i], fr[i]) /\ cuts[i + 1] = cuts[i] + Len(fr[i])
        BY <4>2, <4>3, <4>4, <4>5, <4>6
      <4>8. Len(fr) + 1 = 5
        BY <3>1
      <4>9. QED
        BY <3>1, <4>1, <4>7, <4>8 DEF Tiles
    <3>12. CASE frame = Frame(body) /\ field = <<>>
      <4>1. q = Len(log)
        BY <2>7, <3>12, EmptySeq DEF q
      <4>2. QED
        BY <3>1, <3>11, <3>12, <4>1 DEF fr
    <3>13. CASE frame = <<field>> \o Frame(body)
      <4>1. frame = <<field>> \o fr
        BY <3>13 DEF fr
      <4>2. Tiles(log2, Len(log), <<field>> \o fr)
        BY <2>1, <2>7, <3>1, <3>9, <3>11, Tiling DEF q
      <4>3. <<field>> \in Seq(Seq(Bytes))
        BY <2>1
      <4>4. <<field>> \o fr \in Seq(Seq(Bytes))
        BY <3>1, <4>3
      <4>5. QED
        BY <4>1, <4>2, <4>4
    <3>14. QED
      BY <3>12, <3>13
  <2>15. Writing(log2, msgs2, edges2, p + Len(stream))'
    <3>1. buffered = <<>> /\ p + Len(stream) = Len(log) /\ Len(stream) \in Nat
      <4>1. At(log, Len(log), buffered) /\ p + Len(stream) = Len(log)
        BY <2>3, <2>6 DEF Writing
      <4>2. buffered \in Seq(Bytes) /\ stream \in Seq(Bytes)
        BY <2>4 DEF TypeOK
      <4>3. Len(buffered) = 0
        <5>1. Len(log) + Len(buffered) <= Len(log)
          BY <4>1 DEF At
        <5>2. Len(buffered) \in Nat
          BY <4>2
        <5>3. QED
          BY <2>7, <5>1, <5>2
      <4>4. QED
        BY <4>1, <4>2, <4>3, EmptySeq
    <3>2. sent' = msgs2 /\ edges2[Len(msgs2) + 1] = Len(log2)
      BY <2>3, <2>7, <2>8, <2>9, <2>10 DEF msgs2
    <3>3. At(log2, Len(log), <<>>)
      <4>1. Len(log2) >= Len(log)
        BY <2>1, <2>2, <2>7
      <4>2. QED
        BY <2>7, <4>1, Places
    <3>4. \A u \in Writers : u # t => pieces'[u] = <<>>
      BY <2>3, <2>4, <2>6, TransportAssumption DEF Writing, TypeOK
    <3>5. pieces'[t] = frame /\ t # NoWriter
      BY <2>3, <2>4, TransportAssumption DEF TypeOK
    <3>6. Len(msgs2) > 0 /\ edges2[Len(msgs2)] <= Len(log)
      <4>1. Len(msgs2) = n + 1 /\ n + 1 \in 1 .. n + 1 /\ n + 1 > 0 /\ edges[n + 1] = Len(log)
        BY <2>7, <2>8, <2>10
      <4> HIDE DEF n
      <4>2. edges2[Len(msgs2)] = Len(log)
        BY <2>9, <4>1
      <4>3. QED
        BY <2>7, <4>1, <4>2
    <3>7. Len(log) + Len(<<>>) = Len(log)
      BY <2>7, EmptySeq
    <3>8. QED
      BY <2>3, <2>14, <3>1, <3>2, <3>3, <3>4, <3>5, <3>6, <3>7 DEF Writing
  <2>16. At(log2, p, stream)
    BY <2>4, <2>6, <2>11 DEF TypeOK
  <2>17. Tracked'
    BY <2>3, <2>7, <2>8, <2>9, <2>12, <2>13, <2>15, <2>16 DEF Tracked
  <2>18. TypeOK'
    <3>1. sent' \in Seq(Bodies)
      BY <2>3, <2>4 DEF TypeOK
    <3>2. pieces' \in [Writers -> Seq(Seq(Bytes))]
      BY <2>3, <2>4, <2>14 DEF TypeOK
    <3>3. QED
      BY <2>3, <2>4, <3>1, <3>2 DEF TypeOK
  <2>19. Inv'
    BY <2>3, <2>17, <2>18 DEF Inv, GivesUpForCause
  <2>20. ChannelStep
    BY <2>3 DEF ChannelStep, Channel!Next, Channel!Send
  <2>21. QED
    BY <2>19, <2>20
\* The other steps of the writing end leave the frames as they are.
<1>4. ASSUME Inv,
             \/ \E t \in Writers : Insert(t) \/ Flush(t)
             \/ Spill
             \/ Close
             \/ \E block \in Malformed : SendMalformed(block)
      PROVE  Inv' /\ ChannelStep
  <2> USE <1>4
  <2>1. open /\ UNCHANGED <<failed, readerPc, headers, length, received>>
    BY DEF Insert, Flush, Spill, Close, SendMalformed, readerVars
  <2>2. Tracked /\ TypeOK
    BY <2>1 DEF Inv
  <2>3. PICK log \in Seq(Bytes), msgs \in Seq(Bodies), p \in Nat :
          \E edges \in [1 .. Len(msgs) + 1 -> Nat] :
            /\ Frames(log, msgs, edges)
            /\ Reading(log, msgs, edges, p)
            /\ At(log, p, stream)
            /\ Writing(log, msgs, edges, p + Len(stream))
    BY <2>1, <2>2 DEF Tracked
  <2>4. PICK edges \in [1 .. Len(msgs) + 1 -> Nat] :
            /\ Frames(log, msgs, edges)
            /\ Reading(log, msgs, edges, p)
            /\ At(log, p, stream)
            /\ Writing(log, msgs, edges, p + Len(stream))
    BY <2>3
  <2> DEFINE n == Len(msgs)
             s == p + Len(stream)
  <2>5. /\ buffered \in Seq(Bytes) /\ Len(buffered) \in Nat
        /\ stream \in Seq(Bytes) /\ Len(stream) \in Nat /\ s \in Nat
        /\ headers \in Seq(Bytes) /\ Len(headers) \in Nat
        /\ n \in Nat /\ Len(log) \in Nat
    BY <2>2 DEF TypeOK
  <2>6. /\ sent = msgs /\ edges[n + 1] = Len(log)
        /\ At(log, s, buffered)
        /\ \A t \in Writers : t # sendMutex => pieces[t] = <<>>
        /\ sendMutex = NoWriter => s = Len(log)
        /\ sendMutex # NoWriter =>
             n > 0 /\ edges[n] <= s /\ Tiles(log, s + Len(buffered), pieces[sendMutex])
    BY <2>4 DEF Writing
  <2>7. /\ sendMutex \in Writers \cup {NoWriter}
        /\ pieces \in [Writers -> Seq(Seq(Bytes))]
        /\ \A t \in Writers : pieces[t] \in Seq(Seq(Bytes))
    BY <2>2 DEF TypeOK
  <2>8. sendMutex = NoWriter => buffered = <<>>
    BY <2>5, <2>6, EmptySeq DEF At
  <2>9. s + Len(buffered) \in Nat /\ s + Len(buffered) <= Len(log) /\ s <= Len(log)
    BY <2>5, <2>6 DEF At
  <2> HIDE DEF n, s
  <2>10. ASSUME NEW t \in Writers, Insert(t) PROVE Inv' /\ ChannelStep
    <3>1. /\ pieces[t] # <<>> /\ buffered' = buffered \o Head(pieces[t])
          /\ pieces' = [pieces EXCEPT ![t] = Tail(pieces[t])]
          /\ UNCHANGED <<sendMutex, stream, open, sent>>
      BY <2>10 DEF Insert
    <3>2. sendMutex = t /\ t # NoWriter
      BY <2>6, <3>1, TransportAssumption
    <3>3. /\ Head(pieces[t]) \in Seq(Bytes) /\ Tail(pieces[t]) \in Seq(Seq(Bytes))
          /\ Len(Head(pieces[t])) \in Nat
      <4>1. Head(pieces[t]) \in Seq(Bytes) /\ Tail(pieces[t]) \in Seq(Seq(Bytes))
        BY <2>7, <3>1, HeadTailProperties
      <4>2. QED
        BY <4>1
    <3>4. /\ At(log, s + Len(buffered), Head(pieces[t]))
          /\ Tiles(log, s + Len(buffered) + Len(Head(pieces[t])), Tail(pieces[t]))
      <4>1. Tiles(log, s + Len(buffered), pieces[t])
        BY <2>6, <3>2
      <4>2. QED
        BY <2>7, <2>9, <3>1, <4>1, Tiling
    <3>5. /\ At(log, s, buffered') /\ buffered' \in Seq(Bytes)
          /\ Len(buffered') = Len(buffered) + Len(Head(pieces[t]))
      <4>1. At(log, s, buffered \o Head(pieces[t]))
        BY <2>5, <2>6, <3>3, <3>4, Places
      <4>2. /\ buffered \o Head(pieces[t]) \in Seq(Bytes)
            /\ Len(buffered \o Head(pieces[t])) = Len(buffered) + Len(Head(pieces[t]))
        BY <2>5, <3>3
      <4>3. QED
        BY <3>1, <4>1, <4>2
    <3>6. /\ pieces' \in [Writers -> Seq(Seq(Bytes))] /\ pieces'[t] = Tail(pieces[t])
          /\ \A u \in Writers : u # t => pieces'[u] = <<>>
      BY <2>6, <2>7, <3>1, <3>2, <3>3
    <3>7. Tiles(log, s + Len(buffered'), pieces'[t])
      <4>1. s + Len(buffered') = s + Len(buffered) + Len(Head(pieces[t]))
        <5> DEFINE x == Len(buffered')
                   y == Len(buffered)
                   z == Len(Head(pieces[t]))
        <5>1. x = y + z /\ y \in Nat /\ z \in Nat
          BY <2>5, <3>3, <3>5
        <5> HIDE DEF x, y, z
        <5>2. s + x = s + y + z
          BY <2>5, <5>1
        <5>3. QED
          BY <5>2 DEF x, y, z
      <4>2. QED
        BY <3>4, <3>6, <4>1
    <3>8. s' = s
      BY <3>1 DEF s
    <3>9. Writing(log, msgs, edges, p + Len(stream))'
      <4>1. p + Len(stream') = s
        BY <3>1 DEF s
      <4>2. QED
        BY <2>6, <3>1, <3>2, <3>5, <3>6, <3>7, <4>1 DEF Writing, n
    <3>10. Reading(log, msgs, edges, p)'
      BY <2>1, <2>4, <3>1 DEF Reading
    <3>11. Tracked'
      BY <2>1, <2>4, <3>1, <3>9, <3>10 DEF Tracked
    <3>12. TypeOK'
      BY <2>1, <2>2, <3>1, <3>5, <3>6 DEF TypeOK
    <3>13. QED
      BY <2>1, <3>1, <3>11, <3>12 DEF Inv, GivesUpForCause, ChannelStep, Channel!vars
  \* what a flush and a full buffer have in common
  <2>11. ASSUME stream' = stream \o buffered, buffered' = <<>>, UNCHANGED <<pieces, open, sent>>,
                sendMutex # NoWriter,
                \/ sendMutex' = sendMutex
                \/ sendMutex' = NoWriter /\ pieces[sendMutex] = <<>>
         PROVE  Inv' /\ ChannelStep
    <3>1. /\ stream' \in Seq(Bytes) /\ Len(stream') = Len(stream) + Len(buffered)
          /\ buffered' \in Seq(Bytes) /\ Len(buffered') = 0
      <4>1. /\ stream \o buffered \in Seq(Bytes)
            /\ Len(stream \o buffered) = Len(stream) + Len(buffered)
        BY <2>5
      <4>2. <<>> \in Seq(Bytes) /\ Len(<<>>) = 0
        BY EmptySeq
      <4>3. QED
        BY <2>11, <4>1, <4>2
    <3>2. p + Len(stream') = s + Len(buffered)
      BY <2>5, <3>1 DEF s
    <3>3. At(log, p, stream')
      BY <2>4, <2>5, <2>6, <2>11, Places DEF s
    <3>4. At(log, s + Len(buffered), buffered')
      BY <2>5, <2>9, <2>11, Places
    <3>5. /\ n > 0 /\ edges[n] <= s + Len(buffered)
          /\ Tiles(log, s + Len(buffered), pieces[sendMutex])
      <4>1. n > 0 /\ edges[n] <= s /\ edges[n] \in Nat
        BY <2>5, <2>6, <2>11 DEF n
      <4>2. QED
        BY <2>5, <2>6, <2>11, <4>1
    <3>6. s + Len(buffered) + Len(buffered') = s + Len(buffered)
      BY <2>9, <3>1
    <3>7. sendMutex' = NoWriter => s + Len(buffered) = Len(log)
      <4>1. CASE sendMutex' = NoWriter
        <5>1. pieces[sendMutex] = <<>>
          BY <2>11, <4>1
        <5>2. Tiles(log, s + Len(buffered), <<>>)
          BY <3>5, <5>1
        <5>3. ASSUME NEW q \in Nat, NEW ps \in Seq(Seq(Bytes)), Tiles(log, q, ps), Len(ps) = 0
              PROVE  q = Len(log)
          <6>1. \A i \in 1 .. Len(ps) : ps[i] = <<>>
            BY <5>3
          <6>2. QED
            BY <5>3, <6>1, Tiling
        <5>4. <<>> \in Seq(Seq(Bytes)) /\ Len(<<>>) = 0
          BY EmptySeq
        <5>5. QED
          BY <2>9, <5>2, <5>3, <5>4
      <4>2. QED
        BY <4>1
    <3>8. \A u \in Writers : u # sendMutex' => pieces'[u] = <<>>
      BY <2>6, <2>11
    <3>9. sendMutex' # NoWriter => Tiles(log, s + Len(buffered) + Len(buffered'), pieces'[sendMutex'])
      BY <2>11, <3>5, <3>6
    <3>10. Writing(log, msgs, edges, p + Len(stream))'
      BY <2>6, <2>11, <3>2, <3>4, <3>5, <3>7, <3>8, <3>9 DEF Writing, n
    <3>11. Reading(log, msgs, edges, p)'
      BY <2>1, <2>4, <2>11 DEF Reading
    <3>12. Tracked'
      BY <2>1, <2>4, <2>11, <3>3, <3>10, <3>11 DEF Tracked
    <3>13. TypeOK'
      BY <2>1, <2>2, <2>7, <2>11, <3>1 DEF TypeOK
    <3>14. failed' => stream' = <<>>
      BY <2>1 DEF Inv
    <3>15. QED
      BY <2>1, <2>11, <3>12, <3>13, <3>14 DEF Inv, GivesUpForCause, ChannelStep, Channel!vars
  <2>12. ASSUME NEW t \in Writers, Flush(t) PROVE Inv' /\ ChannelStep
    BY <2>11, <2>12, TransportAssumption DEF Flush
  <2>13. ASSUME Spill PROVE Inv' /\ ChannelStep
    BY <2>8, <2>11, <2>13 DEF Spill
  <2>14. ASSUME Close PROVE Inv' /\ ChannelStep
    <3>1. /\ ~open' /\ open' = FALSE /\ sent' = IF CutShort THEN Front(sent) ELSE sent
          /\ UNCHANGED <<sendMutex, pieces, buffered, stream>>
      BY <2>14 DEF Close
    <3>2. p + Len(stream') = s
      BY <3>1 DEF s
    <3>3. Reading(log, msgs, edges, p)'
      BY <2>1, <2>4, <3>1 DEF Reading
    <3>4. CutShort => n > 0 /\ edges[n] <= s /\ s < Len(log)
      <4>1. SUFFICES ASSUME CutShort PROVE n > 0 /\ edges[n] <= s /\ s < Len(log)
        OBVIOUS
      <4>2. sendMutex # NoWriter
        <5>1. SUFFICES ASSUME sendMutex = NoWriter PROVE FALSE
          OBVIOUS
        <5>2. \A u \in Writers : u # sendMutex
          BY <5>1, TransportAssumption
        <5>3. \A u \in Writers : pieces[u] = <<>>
          BY <2>6, <5>2
        <5>4. \A u \in Writers : 1 .. Len(pieces[u]) = {}
          BY <5>3, EmptySeq
        <5>5. QED
          BY <2>8, <4>1, <5>1, <5>4 DEF CutShort
      <4>3. CASE buffered # <<>>
        <5>1. Len(buffered) > 0
          BY <2>5, <4>3, EmptySeq
        <5>2. QED
          BY <2>5, <2>6, <2>9, <4>2, <5>1
      <4>4. CASE \E t \in Writers : \E i \in 1 .. Len(pieces[t]) : pieces[t][i] # <<>>
        <5>1. PICK t \in Writers : \E i \in 1 .. Len(pieces[t]) : pieces[t][i] # <<>>
          BY <4>4
        <5>2. t = sendMutex
          <6>1. SUFFICES ASSUME pieces[t] = <<>> PROVE FALSE
            BY <2>6
          <6>2. 1 .. Len(pieces[t]) = {}
            BY <6>1, EmptySeq
          <6>3. QED
            BY <5>1, <6>2
        <5>3. Tiles(log, s + Len(buffered), pieces[t])
          BY <2>6, <4>2, <5>2
        <5>4. s + Len(buffered) # Len(log)
          BY <2>7, <2>9, <5>1, <5>3, Tiling
        <5>5. QED
          BY <2>5, <2>6, <2>9, <4>2, <5>4
      <4>5. QED
        BY <4>1, <4>3, <4>4 DEF CutShort
    <3>5. ~CutShort => s = Len(log)
      <4>1. SUFFICES ASSUME ~CutShort, sendMutex # NoWriter PROVE s = Len(log)
        BY <2>6
      <4>2. buffered = <<>> /\ \A i \in 1 .. Len(pieces[sendMutex]) : pieces[sendMutex][i] = <<>>
        BY <2>7, <4>1 DEF CutShort
      <4>3. pieces[sendMutex] \in Seq(Seq(Bytes)) /\ Tiles(log, s + Len(buffered), pieces[sendMutex])
        BY <2>6, <2>7, <4>1
      <4>4. s + Len(buffered) = Len(log)
        BY <2>9, <4>2, <4>3, Tiling
      <4>5. Len(buffered) = 0
        BY <4>2, EmptySeq
      <4>6. QED
        BY <2>5, <4>4, <4>5
    <3>6. Front(sent) = SubSeq(msgs, 1, n - 1) /\ SubSeq(msgs, 1, n - 1) \in Seq(Bodies)
      <4> DEFINE m == n - 1
      <4>1. m \in Int /\ \A i \in 1 .. m : msgs[i] \in Bodies
        BY <2>5 DEF n
      <4> HIDE DEF m
      <4>2. SubSeq(msgs, 1, m) \in Seq(Bodies)
        BY <4>1, SubSeqProperties
      <4>3. QED
        BY <2>6, <4>2 DEF Front, m, n
    <3>7. Ended(log, msgs, edges, p + Len(stream))'
      BY <2>6, <3>1, <3>2, <3>4, <3>5, <3>6 DEF Ended, n
    <3>8. Tracked'
      BY <2>1, <2>4, <3>1, <3>3, <3>7 DEF Tracked
    <3>9. sent' \in Seq(Bodies)
      BY <2>6, <3>1, <3>6
    <3>10. TypeOK'
      BY <2>1, <2>2, <3>1, <3>9 DEF TypeOK
    <3>11. Inv'
      BY <2>1, <3>1, <3>8, <3>10 DEF Inv, GivesUpForCause
    <3>12. CutShort => Len(received) < n
      <4>1. SUFFICES ASSUME s < Len(log), Len(received) >= n PROVE FALSE
        <5>1. Len(received) \in Nat
          BY <2>2 DEF TypeOK
        <5>2. QED
          BY <2>5, <3>4, <5>1
      <4>2. Len(received) = n
        <5>1. Len(received) \in Nat /\ Len(received) <= n
          BY <2>2, <2>4 DEF TypeOK, Reading, n
        <5>2. QED
          BY <2>5, <4>1, <5>1
      <4>3. p = edges[n + 1] \/ p = edges[n + 1] + Len(headers)
        BY <2>1, <2>4, <2>5, <4>2 DEF Reading, n, Inv
      <4>4. p >= Len(log)
        BY <2>5, <2>6, <4>3
      <4>5. QED
        BY <2>5, <4>1, <4>4 DEF s
    <3>13. Channel!End
      <4>1. CASE CutShort
        BY <2>1, <2>6, <3>1, <3>6, <3>12, <4>1 DEF Channel!End, n
      <4>2. CASE ~CutShort
        BY <2>1, <3>1, <4>2 DEF Channel!End
      <4>3. QED
        BY <4>1, <4>2
    <3>14. QED
      BY <3>11, <3>13 DEF ChannelStep, Channel!Next
  <2>15. ASSUME NEW block \in Malformed, SendMalformed(block) PROVE Inv' /\ ChannelStep
    <3>1. /\ sendMutex = NoWriter /\ stream = <<>> /\ stream' = block /\ open' = FALSE
          /\ UNCHANGED <<sendMutex, pieces, buffered, sent>>
      BY <2>15 DEF SendMalformed
    <3>2. block \in Seq(Bytes) /\ Len(block) \in Nat
      <4>1. block \in Seq(Bytes)
        BY TransportAssumption
      <4>2. QED
        BY <4>1
    <3>3. p = Len(log)
      BY <2>5, <2>6, <3>1, EmptySeq DEF s
    <3> DEFINE log2 == log \o block
    <3>4. log2 \in Seq(Bytes) /\ Len(log2) = Len(log) + Len(block)
      BY <3>2
    <3>5. At(log2, Len(log), block)
      BY <3>2, Places
    <3>6. At(log, edges[Len(received) + 1], headers)
            => At(log2, edges[Len(received) + 1], headers)
      <4>1. Len(received) + 1 \in 1 .. Len(msgs) + 1
        BY <2>2, <2>4 DEF Reading, TypeOK
      <4>2. edges[Len(received) + 1] \in Nat
        BY <4>1
      <4>3. QED
        BY <2>5, <3>2, <4>2, Places
    <3>7. Frames(log2, msgs, edges)
      <4>1. \A i \in 1 .. Len(msgs) : FrameAt(log2, edges[i], msgs[i], edges[i + 1])
        BY <2>4, <3>2, <1>2
      <4> HIDE DEF log2
      <4>2. edges[Len(msgs) + 1] <= Len(log2)
        BY <2>5, <2>6, <3>2, <3>4 DEF n
      <4>3. QED
        BY <4>1, <4>2 DEF Frames
    <3> HIDE DEF log2
    <3>8. Reading(log2, msgs, edges, p)'
      BY <2>1, <2>4, <3>1, <3>6 DEF Reading
    <3>9. Ended(log2, msgs, edges, p + Len(stream))'
      BY <2>5, <2>6, <3>1, <3>2, <3>3, <3>4, <3>5 DEF Ended, n
    <3>10. At(log2, p, stream')
      BY <3>1, <3>3, <3>5
    <3>11. Tracked'
      BY <3>1, <3>4, <3>7, <3>8, <3>9, <3>10 DEF Tracked
    <3>12. TypeOK'
      BY <2>1, <2>2, <3>1, <3>2 DEF TypeOK
    <3>13. Inv'
      BY <2>1, <3>1, <3>11, <3>12 DEF Inv, GivesUpForCause
    <3>14. Channel!End
      BY <2>1, <3>1 DEF Channel!End
    <3>15. QED
      BY <3>13, <3>14 DEF ChannelStep, Channel!Next
  <2>16. QED
    BY <2>10, <2>12, <2>13, <2>14, <2>15
\* So do the steps of the reading end, and a message it returns is the next one.
<1>5. ASSUME Inv, Read
      PROVE  Inv' /\ ChannelStep
  <2> USE <1>5
  <2>1. UNCHANGED <<sendMutex, pieces, buffered, open, sent>>
    BY DEF Read, CallRead, ReadHeaderByte, ReadHeaderAtEnd, ParseHeaders, ReadBody,
           ReadBodyAtEnd, writerVars
  <2>2. /\ TypeOK
        /\ headers \in Seq(Bytes) /\ Len(headers) \in Nat
        /\ stream \in Seq(Bytes) /\ Len(stream) \in Nat
        /\ received \in Seq(Seq(Bytes)) /\ Len(received) \in Nat
    <3>1. TypeOK
      BY DEF Inv
    <3>2. QED
      BY <3>1 DEF TypeOK
  <2>3. ASSUME NEW c \in Bytes
        PROVE  /\ Append(headers, c) \in Seq(Bytes)
               /\ Len(Append(headers, c)) = Len(headers) + 1
               /\ Append(headers, c)[Len(headers) + 1] = c
               /\ \A i \in 1 .. Len(headers) : Append(headers, c)[i] = headers[i]
    BY <2>2, AppendProperties
  \* A byte that is repeated completes no blank line.
  <2>4. ASSUME ReadHeaderAtEnd PROVE Inv' /\ ChannelStep
    <3>1. /\ readerPc = "headers" /\ stream = <<>> /\ ~open /\ failed' = TRUE
          /\ UNCHANGED <<stream, length, received>>
          /\ readerPc' = IF EndsWithBlank(headers') THEN "parse" ELSE "headers"
      BY <2>4 DEF ReadHeaderAtEnd, AfterByte
    <3>2. PICK c \in IF headers = <<>> THEN Bytes ELSE {Last(headers)} :
            headers' = IF Len(headers) < MaxHeader THEN Append(headers, c) ELSE headers
      BY <2>4 DEF ReadHeaderAtEnd
    <3>3. headers # <<>> => /\ Len(headers) > 0 /\ headers[Len(headers)] \in Bytes
                            /\ c = headers[Len(headers)]
      BY <2>2, <3>2, EmptySeq DEF Last
    <3>4. c \in Bytes
      BY <3>2, <3>3
    <3>5. ~EndsWithBlank(headers)
      BY <3>1 DEF Inv
    <3>6. ~EndsWithBlank(Append(headers, c))
      <4> DEFINE a == Append(headers, c)
                 m == Len(headers) + 1
      <4>1. SUFFICES ASSUME EndsWithBlank(a) PROVE FALSE
        OBVIOUS
      <4>2. a \in Seq(Bytes) /\ Len(a) = m
        BY <2>3, <3>4
      <4> HIDE DEF a
      <4>3. m >= 4 /\ SubSeq(a, m - 3, m) = Blank
        BY <4>1, <4>2 DEF EndsWithBlank
      <4>4. a[m - 1] = "cr" /\ a[m] = "lf"
        <5>1. m \in 4 .. Len(a)
          BY <2>2, <4>2, <4>3
        <5> HIDE DEF m
        <5>2. QED
          BY <4>2, <4>3, <5>1, BlankLine
      <4>5. a[m] = c /\ m - 1 = Len(headers) /\ a[Len(headers)] = headers[Len(headers)]
        BY <2>2, <2>3, <3>4, <4>3 DEF a
      <4>6. c = headers[Len(headers)]
        BY <2>2, <3>3, <4>3, EmptySeq
      <4>7. QED
        BY <4>4, <4>5, <4>6
    <3>7. ~EndsWithBlank(headers') /\ headers' \in Seq(Bytes) /\ readerPc' = "headers"
      BY <2>2, <2>3, <3>1, <3>2, <3>4, <3>5, <3>6
    <3>8. TypeOK'
      BY <2>1, <2>2, <3>1, <3>7 DEF TypeOK
    <3>9. QED
      BY <2>1, <3>1, <3>7, <3>8 DEF Inv, GivesUpForCause, ChannelStep, Channel!vars
  <2>5. SUFFICES ASSUME ~ReadHeaderAtEnd, ~failed, Tracked PROVE Inv' /\ ChannelStep
    <3>1. ~ReadHeaderAtEnd => ~failed /\ readerPc \notin {"nullopt", "thrown"}
      BY DEF Inv, Read, CallRead, ReadHeaderByte, ParseHeaders, ReadBody, ReadBodyAtEnd
    <3>2. QED
      BY <2>4, <3>1 DEF Inv
  <2>6. PICK log \in Seq(Bytes), msgs \in Seq(Bodies), p \in Nat :
          \E edges \in [1 .. Len(msgs) + 1 -> Nat] :
            /\ Frames(log, msgs, edges)
            /\ Reading(log, msgs, edges, p)
            /\ At(log, p, stream)
            /\ IF open THEN Writing(log, msgs, edges, p + Len(stream))
                       ELSE Ended(log, msgs, edges, p + Len(stream))
    BY <2>5 DEF Tracked
  <2>7. PICK edges \in [1 .. Len(msgs) + 1 -> Nat] :
          /\ Frames(log, msgs, edges)
          /\ Reading(log, msgs, edges, p)
          /\ At(log, p, stream)
          /\ IF open THEN Writing(log, msgs, edges, p + Len(stream))
                     ELSE Ended(log, msgs, edges, p + Len(stream))
    BY <2>6
  <2> DEFINE n == Len(msgs)
             k == Len(received)
             e == edges[k + 1]
             last == edges[k + 2]
             body == msgs[k + 1]
             s == p + Len(stream)
  <2>8. /\ n \in Nat /\ Len(log) \in Nat /\ k \in Nat /\ k <= n /\ e \in Nat /\ s \in Nat
        /\ s <= Len(log) /\ \A i \in 1 .. k : received[i] = msgs[i]
    <3>1. n \in Nat /\ Len(log) \in Nat /\ k \in Nat /\ s \in Nat
      BY <2>2
    <3>2. k <= n /\ \A i \in 1 .. k : received[i] = msgs[i]
      BY <2>7 DEF Reading
    <3>3. k + 1 \in 1 .. n + 1
      BY <3>1, <3>2
    <3>4. e \in Nat
      BY <3>3
    <3>5. s <= Len(log)
      BY <2>7 DEF At
    <3>6. QED
      BY <3>1, <3>2, <3>4, <3>5
  <2>9. ASSUME k < n
        PROVE  /\ body \in Bodies /\ body \in Seq(Bytes) /\ Len(body) \in Nat /\ last \in Nat
               /\ \E h \in Seq(Bytes) :
                    /\ Len(h) \in Nat /\ Len(h) > 0 /\ EndsWithBlank(h)
                    /\ \A i \in 0 .. Len(h) - 1 : ~EndsWithBlank(SubSeq(h, 1, i))
                    /\ IsNumber(LengthField(h)) /\ ToInt[LengthField(h)] = Len(body)
                    /\ At(log, e, h) /\ At(log, e + Len(h), body)
                    /\ last = e + Len(h) + Len(body)
    <3>1. k + 1 \in 1 .. n /\ k + 2 \in 1 .. n + 1 /\ (k + 1) + 1 = k + 2
      BY <2>8, <2>9
    <3>2. FrameAt(log, e, body, edges[(k + 1) + 1])
      BY <2>7, <3>1 DEF Frames
    <3>3. FrameAt(log, e, body, last)
      BY <3>1, <3>2
    <3>4. body \in Bodies /\ last \in Nat
      BY <3>1
    <3> HIDE DEF body, e, last, k, n
    <3>5. body \in Seq(Bytes)
      BY <3>4, TransportAssumption
    <3>6. Len(body) \in Nat
      BY <3>5
    <3>7. PICK g \in Fields \cup {<<>>} :
            /\ At(log, e, HeaderBlock(g, body))
            /\ At(log, e + Len(HeaderBlock(g, body)), body)
            /\ last = e + Len(HeaderBlock(g, body)) + Len(body)
      BY <3>3 DEF FrameAt
    <3> DEFINE h == HeaderBlock(g, body)
    <3>8. /\ h \in Seq(Bytes) /\ Len(h) > 0 /\ EndsWithBlank(h)
          /\ \A i \in 0 .. Len(h) - 1 : ~EndsWithBlank(SubSeq(h, 1, i))
          /\ IsNumber(LengthField(h)) /\ ToInt[LengthField(h)] = Len(body)
      BY <3>4, HeaderBlocks
    <3> HIDE DEF h
    <3>9. Len(h) \in Nat
      BY <3>8
    <3>10. At(log, e, h) /\ At(log, e + Len(h), body) /\ last = e + Len(h) + Len(body)
      BY <3>7 DEF h
    <3>11. QED
      BY <3>4, <3>5, <3>6, <3>8, <3>9, <3>10
  <2> HIDE DEF n, k, e, last, body, s
  \* What the writing end says only depends on where the stream ends.
  <2>10. ASSUME NEW q \in Nat, q + Len(stream') = s
         PROVE  IF open' THEN Writing(log, msgs, edges, q + Len(stream))'
                         ELSE Ended(log, msgs, edges, q + Len(stream))'
    BY <2>1, <2>7, <2>10 DEF Writing, Ended, s
  <2>11. ASSUME CallRead PROVE Inv' /\ ChannelStep
    <3>1. /\ readerPc = "idle" /\ readerPc' = "headers" /\ headers' = <<>>
          /\ UNCHANGED <<failed, length, received, stream>>
      BY <2>5, <2>11 DEF CallRead
    <3>2. p = e
      BY <2>7, <3>1 DEF Reading, e, k
    <3>3. /\ headers' \in Seq(Bytes) /\ Len(headers') = 0 /\ ~EndsWithBlank(headers')
          /\ At(log, e, headers')
      <4>1. headers' \in Seq(Bytes) /\ Len(headers') = 0
        BY <3>1, EmptySeq
      <4>2. ~EndsWithBlank(headers')
        BY <4>1 DEF EndsWithBlank
      <4>3. e <= Len(log)
        BY <2>2, <2>8, <3>2 DEF s
      <4>4. QED
        BY <2>8, <3>1, <4>1, <4>2, <4>3, Places
    <3>4. k < n => p + Len(body) < last
      BY <2>8, <2>9, <3>2
    <3>5. Reading(log, msgs, edges, p)'
      BY <2>7, <2>8, <3>1, <3>2, <3>3, <3>4 DEF Reading, n, k, e, last, body
    <3>6. p + Len(stream') = s
      BY <3>1 DEF s
    <3>7. Tracked'
      BY <2>7, <2>10, <3>1, <3>5, <3>6 DEF Tracked
    <3>8. TypeOK'
      BY <2>1, <2>2, <3>1, <3>3 DEF TypeOK
    <3>9. QED
      BY <2>1, <2>5, <3>1, <3>3, <3>7, <3>8 DEF Inv, GivesUpForCause, ChannelStep, Channel!vars
  <2>12. ASSUME ReadHeaderByte PROVE Inv' /\ ChannelStep
    <3> DEFINE a == Append(headers, Head(stream))
               m == Len(headers) + 1
    <3>1. /\ readerPc = "headers" /\ stream # <<>> /\ headers' = a /\ stream' = Tail(stream)
          /\ readerPc' = IF EndsWithBlank(a) THEN "parse" ELSE "headers"
          /\ UNCHANGED <<failed, length, received>>
      BY <2>12 DEF ReadHeaderByte, AfterByte
    <3>2. At(log, e, headers) /\ p = e + Len(headers) /\ (k < n => p + Len(body) < last)
      BY <2>7, <3>1 DEF Reading, k, e, n, body, last
    <3>3. /\ Head(stream) = log[p + 1] /\ Len(Tail(stream)) = Len(stream) - 1
          /\ At(log, p + 1, Tail(stream)) /\ p + 1 <= Len(log)
      BY <2>2, <2>7, <3>1, Places
    <3>4. Head(stream) \in Bytes /\ Tail(stream) \in Seq(Bytes)
      BY <2>2, <3>1, HeadTailProperties
    <3>5. a \in Seq(Bytes) /\ Len(a) = m
      BY <2>3, <3>4
    <3>6. At(log, e, a)
      <4>1. e + Len(headers) < Len(log)
        BY <2>2, <2>8, <3>2, <3>3
      <4>2. At(log, e, Append(headers, log[e + Len(headers) + 1]))
        BY <2>2, <2>8, <3>2, <4>1, Places
      <4>3. QED
        BY <3>2, <3>3, <4>2
    <3> HIDE DEF a
    <3>7. m \in Nat /\ m > 0 /\ p + 1 = e + m
      BY <2>2, <2>8, <3>2
    <3> HIDE DEF m
    \* the bytes read are the first ones of a block that begins at the same place
    <3>8. ASSUME NEW b \in Seq(Bytes), At(log, e, b), m <= Len(b)
          PROVE  a = SubSeq(b, 1, m) /\ (m = Len(b) => a = b)
      <4>1. \A v \in Seq(Bytes) : At(log, e, v) /\ Len(v) <= Len(b) => v = SubSeq(b, 1, Len(v))
        BY <2>8, <3>8, Places
      <4>2. a = SubSeq(b, 1, m) /\ b = SubSeq(b, 1, Len(b))
        <5>1. Len(b) <= Len(b)
          OBVIOUS
        <5>2. QED
          BY <3>5, <3>6, <3>8, <4>1, <5>1
      <4>3. QED
        BY <4>2
    <3>9. ASSUME k < n PROVE Reading(log, msgs, edges, p + 1)'
      <4>1. PICK h \in Seq(Bytes) :
              /\ Len(h) \in Nat /\ Len(h) > 0 /\ EndsWithBlank(h)
              /\ \A i \in 0 .. Len(h) - 1 : ~EndsWithBlank(SubSeq(h, 1, i))
              /\ At(log, e, h) /\ last = e + Len(h) + Len(body)
        BY <2>9, <3>9
      <4>2. Len(body) \in Nat
        BY <2>9, <3>9
      <4>3. m <= Len(h)
        BY <2>2, <2>8, <3>2, <3>7, <3>9, <4>1, <4>2 DEF m
      <4>4. a = SubSeq(h, 1, m) /\ (m = Len(h) => a = h)
        BY <3>8, <4>1, <4>3
      <4>5. EndsWithBlank(a) <=> m = Len(h)
        <5>1. m # Len(h) => m \in 0 .. Len(h) - 1
          BY <3>7, <4>1, <4>3
        <5>2. QED
          BY <4>1, <4>4, <5>1
      <4>6. IF EndsWithBlank(a) THEN p + 1 + Len(body) = last ELSE p + 1 + Len(body) < last
        BY <2>8, <3>7, <4>1, <4>2, <4>3, <4>5
      <4>7. /\ At(log, e, headers') /\ p + 1 = e + Len(headers') /\ Len(received') = k
            /\ readerPc' \in {"headers", "parse"}
            /\ IF readerPc' = "headers" THEN p + 1 + Len(body) < last ELSE p + 1 + Len(body) = last
            /\ received' = received
        BY <3>1, <3>5, <3>6, <3>7, <4>6 DEF k
      <4>8. k <= n /\ k # n
        BY <2>8, <3>9
      <4>9. QED
        BY <2>8, <4>7, <4>8 DEF Reading, n, e, last, body
    <3>10. ASSUME ~(k < n) PROVE Reading(log, msgs, edges, p + 1)'
      <4>1. k = n
        BY <2>8, <3>10
      <4>2. e # Len(log)
        BY <2>8, <3>3, <3>7
      <4>3. ~open
        BY <2>7, <4>1, <4>2 DEF Writing, n, e
      <4>4. PICK block \in Malformed : At(log, e, block) /\ Len(log) = e + Len(block)
        BY <2>7, <4>1, <4>2, <4>3 DEF Ended, n, e
      <4>5. block \in Seq(Bytes) /\ NoBlankWithin(block, Len(block) - 1)
        BY TransportAssumption
      <4>6. Len(block) \in Nat
        BY <4>5
      <4>7. m <= Len(block)
        BY <2>8, <3>3, <3>7, <4>4, <4>6
      <4>8. a = SubSeq(block, 1, m) /\ (m = Len(block) => a = block)
        BY <3>8, <4>4, <4>5, <4>7
      <4>9. EndsWithBlank(a) => a \in Malformed
        <5>1. SUFFICES ASSUME EndsWithBlank(a), m # Len(block) PROVE FALSE
          BY <4>8
        <5>2. m >= 4 /\ SubSeq(a, m - 3, m) = Blank
          BY <3>5, <5>1 DEF EndsWithBlank
        <5>3. m \in 4 .. Len(a) /\ m \in 4 .. Len(block) /\ m \in 4 .. Len(block) - 1
          BY <3>5, <3>7, <4>6, <4>7, <5>1, <5>2
        <5>4. a[m - 3] = "cr" /\ a[m - 2] = "lf" /\ a[m - 1] = "cr" /\ a[m] = "lf"
          BY <3>5, <5>2, <5>3, BlankLine
        <5>5. /\ a[m - 3] = block[m - 3] /\ a[m - 2] = block[m - 2]
              /\ a[m - 1] = block[m - 1] /\ a[m] = block[m]
          <6>1. \A i \in 1 .. m : a[i] = log[e + i] /\ block[i] = log[e + i]
            BY <3>5, <3>6, <3>7, <4>4, <4>6, <4>7 DEF At
          <6>2. m - 3 \in 1 .. m /\ m - 2 \in 1 .. m /\ m - 1 \in 1 .. m /\ m \in 1 .. m
            BY <3>7, <5>2
          <6>3. QED
            BY <6>1, <6>2
        <5>6. SubSeq(block, m - 3, m) = Blank
          BY <4>5, <5>3, <5>4, <5>5, BlankLine
        <5>7. QED
          BY <4>5, <5>3, <5>6 DEF NoBlankWithin
      <4>10. /\ At(log, e, headers') /\ p + 1 = e + Len(headers') /\ Len(received') = k
             /\ readerPc' \in {"headers", "parse"}
             /\ readerPc' = "parse" => ~open' /\ headers' \in Malformed
             /\ received' = received
        BY <2>1, <3>1, <3>5, <3>6, <3>7, <4>3, <4>9 DEF k
      <4>11. QED
        BY <2>8, <3>10, <4>1, <4>10 DEF Reading, n, e
    <3>11. p + 1 \in Nat /\ p + 1 + Len(stream') = s
      BY <2>2, <3>1, <3>3 DEF s
    <3>12. Tracked'
      BY <2>7, <2>10, <3>1, <3>3, <3>9, <3>10, <3>11 DEF Tracked
    <3>13. TypeOK'
      BY <2>1, <2>2, <3>1, <3>4, <3>5 DEF TypeOK
    <3>14. QED
      BY <2>1, <2>5, <3>1, <3>12, <3>13 DEF Inv, GivesUpForCause, ChannelStep, Channel!vars
  <2>13. ASSUME ParseHeaders PROVE Inv' /\ ChannelStep
    <3> DEFINE value == LengthField(headers)
    <3>1. /\ readerPc = "parse" /\ UNCHANGED <<failed, headers, received, stream>>
          /\ \/ ~IsNumber(value) /\ readerPc' = "nullopt" /\ length' = length
             \/ /\ IsNumber(value)
                /\ IF ToInt[value] < 0
                     THEN readerPc' = "thrown" /\ length' = length
                     ELSE readerPc' = "body" /\ length' = ToInt[value]
      BY <2>13 DEF ParseHeaders
    <3>2. /\ At(log, e, headers) /\ p = e + Len(headers)
          /\ k < n => p + Len(body) = last
          /\ k = n => ~open /\ headers \in Malformed
      BY <2>7, <3>1 DEF Reading, k, e, n, body, last
    <3>3. CASE k < n
      <4>1. PICK h \in Seq(Bytes) :
              /\ Len(h) \in Nat /\ At(log, e, h) /\ last = e + Len(h) + Len(body)
              /\ IsNumber(LengthField(h)) /\ ToInt[LengthField(h)] = Len(body)
        BY <2>9, <3>3
      <4>2. body \in Bodies /\ Len(body) \in Nat
        BY <2>9, <3>3
      <4>3. Len(headers) = Len(h)
        BY <2>2, <2>8, <3>2, <3>3, <4>1, <4>2
      <4>4. headers = h
        <5>1. \A v \in Seq(Bytes) : At(log, e, v) /\ Len(v) <= Len(h) => v = SubSeq(h, 1, Len(v))
          BY <2>8, <4>1, Places
        <5>2. Len(h) <= Len(h)
          BY <4>1
        <5>3. headers = SubSeq(h, 1, Len(h)) /\ h = SubSeq(h, 1, Len(h))
          BY <2>2, <3>2, <4>1, <4>3, <5>1, <5>2
        <5>4. QED
          BY <5>3
      <4>5. readerPc' = "body" /\ length' = Len(body)
        BY <3>1, <4>1, <4>2, <4>4
      <4>6. length' \in 0 .. 2 ^ (IntBits - 1) - 1
        BY <4>2, <4>5, LengthAssumption
      <4>7. p + length' = last
        BY <3>2, <3>3, <4>5
      <4>8. Reading(log, msgs, edges, p)'
        BY <2>8, <3>1, <3>3, <4>5, <4>7 DEF Reading, n, k, body, last
      <4>9. p + Len(stream') = s
        BY <3>1 DEF s
      <4>10. Tracked'
        BY <2>7, <2>10, <3>1, <4>8, <4>9 DEF Tracked
      <4>11. TypeOK'
        BY <2>1, <2>2, <3>1, <4>5, <4>6 DEF TypeOK
      <4>12. QED
        BY <2>1, <2>5, <3>1, <4>5, <4>10, <4>11
           DEF Inv, GivesUpForCause, ChannelStep, Channel!vars
    <3>4. CASE ~(k < n)
      <4>1. ~open /\ headers \in Malformed
        BY <2>8, <3>2, <3>4
      <4>2. readerPc' \in {"nullopt", "thrown"} /\ length' = length
        BY <3>1, <4>1, TransportAssumption
      <4>3. TypeOK'
        BY <2>1, <2>2, <3>1, <4>2 DEF TypeOK
      <4>4. QED
        BY <2>1, <2>5, <3>1, <4>1, <4>2, <4>3
           DEF Inv, GivesUpForCause, ChannelStep, Channel!vars
    <3>5. QED
      BY <3>3, <3>4
  <2>14. ASSUME ReadBody PROVE Inv' /\ ChannelStep
    <3> DEFINE rest == SubSeq(stream, length + 1, Len(stream))
    <3>1. /\ readerPc = "body" /\ Len(stream) >= length
          /\ received' = Append(received, SubSeq(stream, 1, length))
          /\ stream' = rest /\ readerPc' = "idle" /\ UNCHANGED <<failed, headers, length>>
      BY <2>14 DEF ReadBody
    <3>2. k < n /\ length = Len(body) /\ p + length = last
      BY <2>7, <3>1 DEF Reading, k, n, body, last
    <3>3. body \in Bodies /\ body \in Seq(Bytes) /\ length \in Nat
      BY <2>9, <3>2
    <3>4. received' = Append(received, body)
      <4>1. PICK h \in Seq(Bytes) :
              /\ Len(h) \in Nat /\ At(log, e + Len(h), body) /\ last = e + Len(h) + Len(body)
        BY <2>9, <3>2
      <4>2. p = e + Len(h)
        <5>1. p + length = e + Len(h) + length
          BY <3>2, <4>1
        <5>2. \A i, j \in Nat : p + i = e + j + i => p = e + j
          BY <2>8
        <5>3. QED
          BY <3>3, <4>1, <5>1, <5>2, Zenon
      <4>3. \A v \in Seq(Bytes) : At(log, p, v) /\ Len(v) <= Len(stream) => v = SubSeq(stream, 1, Len(v))
        BY <2>2, <2>7, Places
      <4>4. body = SubSeq(stream, 1, length)
        BY <3>1, <3>2, <3>3, <4>1, <4>2, <4>3
      <4>5. QED
        BY <3>1, <4>4
    <3>5. /\ rest \in Seq(Bytes) /\ Len(rest) = Len(stream) - length
          /\ \A i \in 1 .. Len(stream) - length : rest[i] = stream[length + i]
      <4> DEFINE l == length + 1
                 r == Len(stream)
      <4>1. l \in Int /\ r \in Int /\ l <= r + 1 /\ \A i \in l .. r : stream[i] \in Bytes
        BY <2>2, <3>1, <3>3
      <4>2. r - l + 1 = Len(stream) - length /\ \A i \in Nat : l + i - 1 = length + i
        BY <2>2, <3>3
      <4> HIDE DEF l, r
      <4>3. /\ SubSeq(stream, l, r) \in Seq(Bytes)
            /\ Len(SubSeq(stream, l, r)) = IF l <= r THEN r - l + 1 ELSE 0
            /\ \A i \in 1 .. r - l + 1 : SubSeq(stream, l, r)[i] = stream[l + i - 1]
        BY <4>1, SubSeqProperties
      <4>4. Len(SubSeq(stream, l, r)) = r - l + 1
        BY <4>1, <4>3
      <4>5. rest = SubSeq(stream, l, r)
        BY DEF l, r
      <4> HIDE DEF rest
      <4>6. rest \in Seq(Bytes) /\ Len(rest) = Len(stream) - length
        BY <4>2, <4>3, <4>4, <4>5
      <4>7. ASSUME NEW i \in 1 .. Len(stream) - length PROVE rest[i] = stream[length + i]
        <5>1. i \in 1 .. r - l + 1 /\ l + i - 1 = length + i
          BY <4>2
        <5>2. QED
          BY <4>3, <4>5, <5>1
      <4>8. QED
        BY <4>6, <4>7
    <3> HIDE DEF rest
    <3>6. At(log, p + length, rest)
      <4>1. p + Len(stream) <= Len(log) /\ \A i \in 1 .. Len(stream) : stream[i] = log[p + i]
        BY <2>7 DEF At
      <4>2. ASSUME NEW i \in 1 .. Len(stream) - length PROVE rest[i] = log[(p + length) + i]
        <5>1. length + i \in 1 .. Len(stream) /\ p + (length + i) = (p + length) + i
          BY <2>2, <3>1, <3>3
        <5>2. QED
          BY <3>5, <4>1, <5>1
      <4>3. p + length + Len(rest) <= Len(log)
        BY <2>2, <2>8, <3>3, <3>5, <4>1
      <4>4. QED
        BY <3>5, <4>2, <4>3 DEF At
    <3>7. /\ received' \in Seq(Seq(Bytes)) /\ Len(received') = k + 1
          /\ \A i \in 1 .. k + 1 : received'[i] = msgs[i]
      <4>1. /\ Append(received, body) \in Seq(Seq(Bytes)) /\ Len(Append(received, body)) = k + 1
            /\ Append(received, body)[k + 1] = body
            /\ \A i \in 1 .. k : Append(received, body)[i] = received[i]
        BY <2>2, <3>3, AppendProperties DEF k
      <4>2. \A i \in 1 .. k + 1 : i \in 1 .. k \/ i = k + 1
        BY <2>8
      <4>3. QED
        BY <2>8, <3>4, <4>1, <4>2 DEF body
    <3>8. Reading(log, msgs, edges, p + length)'
      <4>1. k + 1 + 1 = k + 2 /\ k + 1 <= n
        BY <2>8, <3>2
      <4>2. p + length = edges[Len(received') + 1] /\ Len(received') <= Len(msgs)
        BY <3>2, <3>7, <4>1 DEF last, n
      <4>3. \A i \in 1 .. Len(received') : received'[i] = msgs[i]
        BY <3>7
      <4>4. QED
        BY <3>1, <4>2, <4>3 DEF Reading
    <3>9. p + length \in Nat /\ p + length + Len(stream') = s
      BY <2>2, <3>1, <3>3, <3>5 DEF s
    <3>10. Tracked'
      <4>1. length' = length
        BY <3>1
      <4>2. IF open' THEN Writing(log, msgs, edges, (p + length) + Len(stream))'
                     ELSE Ended(log, msgs, edges, (p + length) + Len(stream))'
        BY <2>10, <3>1, <3>9
      <4>3. PICK q \in Nat : q = p + length
        BY <3>9
      <4>4. QED
        BY <2>7, <2>10, <3>1, <3>6, <3>8, <3>9, <4>3 DEF Tracked
    <3>11. TypeOK'
      BY <2>1, <2>2, <3>1, <3>5, <3>7 DEF TypeOK
    <3>12. Len(received) < Len(sent) /\ sent[Len(received) + 1] = body
      <4>1. CASE sent = msgs
        BY <3>2, <4>1 DEF k, n, body
      <4>2. CASE sent # msgs
        <5>1. /\ n > 0 /\ sent = SubSeq(msgs, 1, n - 1) /\ s < Len(log)
              /\ edges[n + 1] = Len(log)
          BY <2>7, <4>2 DEF Writing, Ended, n, s
        <5>2. k + 2 # n + 1
          <6>1. SUFFICES ASSUME k + 2 = n + 1 PROVE FALSE
            OBVIOUS
          <6>2. p + length = Len(log)
            BY <3>2, <5>1, <6>1 DEF last
          <6>3. p + length <= p + Len(stream) /\ p + Len(stream) < Len(log)
            BY <2>2, <3>1, <3>3, <5>1 DEF s
          <6>4. QED
            BY <2>2, <2>8, <3>3, <6>2, <6>3
        <5> DEFINE j == n - 1
        <5>3. j \in Nat /\ k < j /\ k + 1 \in 1 .. j
          BY <2>8, <3>2, <5>1, <5>2
        <5>4. j \in Int /\ \A i \in 1 .. j : msgs[i] \in Bodies
          BY <2>8, <5>3 DEF n
        <5> HIDE DEF j
        <5>5. /\ Len(SubSeq(msgs, 1, j)) = j
              /\ \A i \in 1 .. j : SubSeq(msgs, 1, j)[i] = msgs[i]
          <6>1. /\ Len(SubSeq(msgs, 1, j)) = IF 1 <= j THEN j - 1 + 1 ELSE 0
                /\ \A i \in 1 .. j - 1 + 1 : SubSeq(msgs, 1, j)[i] = msgs[1 + i - 1]
            BY <5>4, SubSeqProperties
          <6>2. QED
            BY <5>3, <6>1
        <5>6. sent = SubSeq(msgs, 1, j)
          BY <5>1 DEF j
        <5>7. QED
          BY <5>3, <5>5, <5>6 DEF k, body
      <4>3. QED
        BY <4>1, <4>2
    <3>13. Channel!Receive
      BY <2>1, <3>4, <3>12 DEF Channel!Receive
    <3>14. Inv'
      BY <2>1, <2>5, <3>1, <3>10, <3>11 DEF Inv, GivesUpForCause
    <3>15. QED
      BY <3>13, <3>14 DEF ChannelStep, Channel!Next
  <2>15. ASSUME ReadBodyAtEnd PROVE Inv' /\ ChannelStep
    <3>1. /\ ~open /\ stream' = <<>> /\ failed' = TRUE /\ readerPc' = "nullopt"
          /\ UNCHANGED <<headers, length, received>>
      BY <2>15 DEF ReadBodyAtEnd
    <3>2. stream' \in Seq(Bytes)
      BY <3>1, EmptySeq
    <3>3. TypeOK'
      BY <2>1, <2>2, <3>1, <3>2 DEF TypeOK
    <3>4. QED
      BY <2>1, <3>1, <3>3 DEF Inv, GivesUpForCause, ChannelStep, Channel!vars
  <2>16. QED
    BY <2>4, <2>11, <2>12, <2>13, <2>14, <2>15 DEF Read
<1>6. ASSUME Inv, [Next]_vars
      PROVE  Inv' /\ ChannelStep
  <2> USE <1>6
  <2>1. CASE \E t \in Writers, body \in Bodies :
               Send(t, body) \/ \E field \in Fields : SendWithField(t, field, body)
    <3>1. PICK t \in Writers, body \in Bodies :
            Send(t, body) \/ \E field \in Fields : SendWithField(t, field, body)
      BY <2>1
    <3>2. CASE Send(t, body)
      <4>1. <<>> \in Fields \cup {<<>>} /\ Begin(t, Frame(body), body)
        BY <3>2 DEF Send
      <4>2. QED
        BY <4>1, <1>3
    <3>3. CASE \E field \in Fields : SendWithField(t, field, body)
      <4>1. PICK field \in Fields \cup {<<>>} : Begin(t, <<field>> \o Frame(body), body)
        BY <3>3 DEF SendWithField
      <4>2. QED
        BY <4>1, <1>3
    <3>4. QED
      BY <3>1, <3>2, <3>3
  <2>2. CASE UNCHANGED vars
    <3>1. /\ UNCHANGED <<sendMutex, pieces, buffered, open, sent, stream>>
          /\ UNCHANGED <<failed, readerPc, headers, length, received>>
      BY <2>2 DEF vars, writerVars, readerVars
    <3>2. ASSUME Tracked PROVE Tracked'
      <4>1. PICK log \in Seq(Bytes), msgs \in Seq(Bodies), p \in Nat :
              \E edges \in [1 .. Len(msgs) + 1 -> Nat] :
                /\ Frames(log, msgs, edges)
                /\ Reading(log, msgs, edges, p)
                /\ At(log, p, stream)
                /\ IF open THEN Writing(log, msgs, edges, p + Len(stream))
                           ELSE Ended(log, msgs, edges, p + Len(stream))
        BY <3>2 DEF Tracked
      <4>2. PICK edges \in [1 .. Len(msgs) + 1 -> Nat] :
              /\ Frames(log, msgs, edges)
              /\ Reading(log, msgs, edges, p)
              /\ At(log, p, stream)
              /\ IF open THEN Writing(log, msgs, edges, p + Len(stream))
                         ELSE Ended(log, msgs, edges, p + Len(stream))
        BY <4>1
      <4>3. Reading(log, msgs, edges, p)'
        BY <3>1, <4>2 DEF Reading
      <4>4. IF open' THEN Writing(log, msgs, edges, p + Len(stream))'
                     ELSE Ended(log, msgs, edges, p + Len(stream))'
        BY <3>1, <4>2 DEF Writing, Ended
      <4>5. QED
        BY <3>1, <4>2, <4>3, <4>4 DEF Tracked
    <3>3. QED
      BY <3>1, <3>2 DEF Inv, TypeOK, GivesUpForCause, ChannelStep, Channel!vars
  <2>3. QED
    BY <2>1, <2>2, <1>5, <1>4 DEF Next
<1>7. QED
  BY <1>1, <1>6, PTL DEF Spec, ChannelStep

\* The state of the transport is of the types declared for it, and in particular
\* no length is read that an int32_t does not hold.
THEOREM TypeCorrect == Spec => []TypeOK
<1>1. Inv => TypeOK
  BY DEF Inv
<1>2. QED
  BY <1>1, AlwaysTracked, PTL

\* The loop that calls readMessage stops only at the end of the input or at a
\* header block that came in without a usable length.
THEOREM GivesUpOnlyForCause == Spec => []GivesUpForCause
<1>1. Inv => GivesUpForCause
  BY DEF Inv
<1>2. QED
  BY <1>1, AlwaysTracked, PTL

\* Whatever the bodies contain and however the threads interleave, messages
\* arrive whole, in order and once each; only the last one can be lost, at the
\* end of the stream.
THEOREM ImplementsSafeChannel == Spec => Channel!SafeSpec
<1>1. Init => Channel!Init
  BY DEF Init, Channel!Init
<1>2. QED
  BY <1>1, AlwaysTracked, PTL DEF Spec, Channel!SafeSpec
=============================================================================
