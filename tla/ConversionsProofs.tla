-------------------------- MODULE ConversionsProofs -------------------------
(***************************************************************************)
(* Theorems about the conversions: of paths and URIs, for every path and   *)
(* every spelling; of semantic tokens, for lists of any length; and of     *)
(* protocol structs, for objects and values with any number of members out *)
(* of the ordinary.                                                        *)
(***************************************************************************)
EXTENDS Uri, SemanticTokens, ProtocolTypes, DataLemmas

-----------------------------------------------------------------------------
(* Escapes *)

Byte == 0 .. 255

\* The escape at the start of a text that is one.
Escape(h, l) == <<16 * HexValue(h) + HexValue(l)>>

\* The digits of an escape have values, and no digit is a percent sign.
LEMMA HexDigits ==
  /\ \A c \in Byte : HexValue(c) >= 0 => HexValue(c) \in 0 .. 15
  /\ \A v, w \in 0 .. 15 : 16 * v + w \in Byte
  /\ \A v \in 0 .. 15 : Hex(v) \in Byte /\ HexValue(Hex(v)) = v
  /\ \A v \in 10 .. 15 : 87 + v \in Byte /\ HexValue(87 + v) = v
  /\ \A c \in Byte : c \div 16 \in 0 .. 15 /\ c % 16 \in 0 .. 15
                     /\ 16 * (c \div 16) + (c % 16) = c
BY DEF Byte, HexValue, Hex, Digit

\* What percentDecode does at a place of a text.
Decodes(in, f) ==
  \A i \in 1 .. Len(in) :
    f[i] = IF IsEscape(in, i) THEN Escape(in[i + 1], in[i + 2]) \o f[i + 3]
           ELSE <<in[i]>> \o f[i + 1]

\* percentDecode is its loop, from the first character to the last.
LEMMA Decoding ==
  ASSUME NEW in \in Seq(Byte)
  PROVE  \E f \in [1 .. Len(in) + 1 -> Seq(Byte)] :
           /\ f[Len(in) + 1] = <<>> /\ Decodes(in, f)
           /\ PercentDecode(in) = f[1]
<1> DEFINE X == 1 .. Len(in) + 1
           V == Seq(Byte)
           size == [i \in X |-> Len(in) + 1 - i]
           before == [i \in X |-> IF i > Len(in) THEN i
                                  ELSE IF IsEscape(in, i) THEN i + 3 ELSE i + 1]
           base == [i \in X |-> <<>>]
           First(i) == IF IsEscape(in, i) THEN Escape(in[i + 1], in[i + 2]) ELSE <<in[i]>>
           step == [p \in X \X V |-> IF p[1] > Len(in) THEN <<>> ELSE First(p[1]) \o p[2]]
           Def(f) == [i \in X |->
             IF i > Len(in) THEN <<>>
             ELSE IF IsEscape(in, i)
                  THEN <<16 * HexValue(in[i + 1]) + HexValue(in[i + 2])>> \o f[i + 3]
             ELSE <<in[i]>> \o f[i + 1]]
           Is(f) == f[Len(in) + 1] = <<>> /\ Decodes(in, f)
<1>1. Len(in) \in Nat /\ \A i \in 1 .. Len(in) : in[i] \in Byte
  BY LenProperties, ElementOfSeq
<1>2. \A i \in 1 .. Len(in) : First(i) \in V /\ before[i] \in X /\ before[i] > i
  <2> SUFFICES ASSUME NEW i \in 1 .. Len(in)
               PROVE  First(i) \in V /\ before[i] \in X /\ before[i] > i
    OBVIOUS
  <2>1. i \in X /\ ~(i > Len(in))
    BY <1>1
  <2>2. CASE IsEscape(in, i)
    <3>1. i + 2 <= Len(in) /\ HexValue(in[i + 1]) >= 0 /\ HexValue(in[i + 2]) >= 0
      BY <2>2 DEF IsEscape
    <3>2. in[i + 1] \in Byte /\ in[i + 2] \in Byte
      BY <1>1, <3>1
    <3>3. HexValue(in[i + 1]) \in 0 .. 15 /\ HexValue(in[i + 2]) \in 0 .. 15
      BY <3>1, <3>2, HexDigits
    <3>4. 16 * HexValue(in[i + 1]) + HexValue(in[i + 2]) \in Byte
      BY <3>3, HexDigits
    <3>5. First(i) \in V
      BY <2>2, <3>4 DEF Escape
    <3>6. before[i] = i + 3
      BY <2>1, <2>2
    <3>7. QED
      BY <1>1, <3>1, <3>5, <3>6
  <2>3. CASE ~IsEscape(in, i)
    <3>1. First(i) \in V
      BY <1>1, <2>3
    <3>2. before[i] = i + 1
      BY <2>1, <2>3
    <3>3. QED
      BY <1>1, <3>1, <3>2
  <2>4. QED
    BY <2>2, <2>3
<1>3. RecursionOn(X, V, size, before, base, step)
  <2>1. size \in [X -> Nat]
    BY <1>1
  <2>2. before \in [X -> X]
    <3>1. before = [i \in X |-> before[i]]
      BY Zenon
    <3>2. \A i \in X : before[i] \in X
      <4>1. \A i \in X : i \in 1 .. Len(in) \/ before[i] = i
        BY <1>1
      <4> HIDE DEF before
      <4>2. QED
        BY <1>2, <4>1
    <3> HIDE DEF before
    <3>3. QED
      BY <3>1, <3>2
  <2>3. base \in [X -> V]
    OBVIOUS
  <2>4. step \in [X \X V -> V]
    <3>1. \A p \in X \X V : (IF p[1] > Len(in) THEN <<>> ELSE First(p[1]) \o p[2]) \in V
      <4> HIDE DEF First, before
      <4>1. \A p \in X \X V : p[1] > Len(in) \/ p[1] \in 1 .. Len(in)
        BY <1>1
      <4>2. QED
        BY <1>2, <4>1, ConcatProperties
    <3>2. QED
      BY <3>1, Zenon
  <2>5. \A i \in X : size[i] # 0 => size[before[i]] < size[i]
    <3> SUFFICES ASSUME NEW i \in X, size[i] # 0 PROVE size[before[i]] < size[i]
      OBVIOUS
    <3>1. i \in 1 .. Len(in)
      BY <1>1
    <3>2. before[i] \in X /\ before[i] > i
      BY <1>2, <3>1
    <3> HIDE DEF before
    <3>3. size[before[i]] = Len(in) + 1 - before[i] /\ size[i] = Len(in) + 1 - i
      BY <3>2
    <3>4. QED
      BY <1>1, <3>2, <3>3
  <2> HIDE DEF size, before, base, step, X, V
  <2>6. QED
    BY <2>1, <2>2, <2>3, <2>4, <2>5 DEF RecursionOn
<1>4. PICK f \in [X -> V] : Follows(f, X, size, before, base, step)
  <2> HIDE DEF size, before, base, step, X, V
  <2>1. QED
    BY <1>3, Recursion
<1>5. f = Def(f)
  <2> SUFFICES ASSUME NEW i \in X PROVE f[i] = Def(f)[i]
    BY Zenon
  <2>1. f[i] = IF size[i] = 0 THEN base[i] ELSE step[<<i, f[before[i]]>>]
    <3> HIDE DEF size, before, base, step
    <3>1. QED
      BY <1>4 DEF Follows
  <2>2. CASE i > Len(in)
    <3>1. size[i] = 0 /\ base[i] = <<>>
      BY <1>1, <2>2
    <3> HIDE DEF size, base, step, before
    <3>2. QED
      BY <2>1, <2>2, <3>1
  <2>3. CASE ~(i > Len(in))
    <3>1. i \in 1 .. Len(in) /\ size[i] # 0
      BY <1>1, <2>3
    <3>2. before[i] \in X
      BY <1>2, <3>1
    <3>3. f[before[i]] \in V
      <4> HIDE DEF before
      <4>1. QED
        BY <3>2
    <3>4. step[<<i, f[before[i]]>>] = First(i) \o f[before[i]]
      <4> HIDE DEF before, First
      <4>1. QED
        BY <2>3, <3>3
    <3>5. f[i] = First(i) \o f[before[i]]
      <4> HIDE DEF size, base, step, before, First
      <4>1. QED
        BY <2>1, <3>1, <3>4
    <3>6. CASE IsEscape(in, i)
      <4>1. before[i] = i + 3
        BY <2>3, <3>6
      <4>2. QED
        BY <2>3, <3>5, <3>6, <4>1 DEF Escape
    <3>7. CASE ~IsEscape(in, i)
      <4>1. before[i] = i + 1
        BY <2>3, <3>7
      <4>2. QED
        BY <2>3, <3>5, <3>7, <4>1
    <3>8. QED
      BY <3>6, <3>7
  <2>4. QED
    BY <2>2, <2>3
<1> HIDE DEF size, before, base, step, First
<1> DEFINE g == CHOOSE h : h = Def(h)
<1>6. g = Def(g)
  <2> HIDE DEF Def
  <2>1. QED
    BY <1>5
<1>7. PercentDecode(in) = g[1]
  BY DEF PercentDecode
<1>8. \A h : h = Def(h) => Is(h)
  <2> SUFFICES ASSUME NEW h, h = Def(h) PROVE Is(h)
    OBVIOUS
  <2>1. \A i \in X : h[i] = Def(h)[i]
    OBVIOUS
  <2>2. h[Len(in) + 1] = <<>>
    <3>1. Len(in) + 1 \in X /\ Len(in) + 1 > Len(in)
      BY <1>1
    <3>2. \A i \in X : i > Len(in) => Def(h)[i] = <<>>
      OBVIOUS
    <3> HIDE DEF Def, X
    <3>3. QED
      BY <2>1, <3>1, <3>2
  <2>3. \A i \in 1 .. Len(in) : i \in X /\ ~(i > Len(in))
    BY <1>1
  <2>4. QED
    BY <2>1, <2>2, <2>3 DEF Decodes, Escape
<1> HIDE DEF Def, g
<1>9. Is(f) /\ Is(g)
  BY <1>5, <1>6, <1>8
<1>10. \A i \in X : g[i] = f[i]
  <2> DEFINE Fails == {n \in Nat : \E i \in X : n = Len(in) + 1 - i /\ g[i] # f[i]}
  <2>1. SUFFICES ASSUME Fails # {} PROVE FALSE
    <3>1. \A i \in X : Len(in) + 1 - i \in Nat
      BY <1>1
    <3>2. QED
      BY <3>1
  <2>2. PICK n \in Fails : \A m \in Fails : n <= m
    <3>1. Fails \subseteq Nat
      OBVIOUS
    <3> HIDE DEF Fails
    <3>2. QED
      BY <2>1, <3>1, Least
  <2>3. PICK i \in X : n = Len(in) + 1 - i /\ g[i] # f[i]
    BY <2>2
  <2>4. \A j \in X : j > i => g[j] = f[j]
    <3> SUFFICES ASSUME NEW j \in X, j > i, g[j] # f[j] PROVE FALSE
      OBVIOUS
    <3>1. Len(in) + 1 - j \in Fails /\ ~(n <= Len(in) + 1 - j)
      BY <1>1, <2>3
    <3>2. QED
      BY <2>2, <3>1
  <2>5. i \in 1 .. Len(in)
    BY <1>1, <1>9, <2>3
  <2>6. CASE IsEscape(in, i)
    <3>1. i + 3 \in X /\ i + 3 > i
      BY <1>1, <2>5, <2>6 DEF IsEscape
    <3>2. g[i + 3] = f[i + 3]
      BY <2>4, <3>1
    <3>3. QED
      BY <1>9, <2>3, <2>5, <2>6, <3>2 DEF Decodes
  <2>7. CASE ~IsEscape(in, i)
    <3>1. i + 1 \in X /\ i + 1 > i
      BY <1>1, <2>5
    <3>2. g[i + 1] = f[i + 1]
      BY <2>4, <3>1
    <3>3. QED
      BY <1>9, <2>3, <2>5, <2>7, <3>2 DEF Decodes
  <2>8. QED
    BY <2>6, <2>7
<1>11. 1 \in X
  BY <1>1
<1>12. QED
  BY <1>7, <1>9, <1>10, <1>11

\* What percentDecode makes of the end of a text does not depend on what is
\* before it.
LEMMA DecodingRest ==
  ASSUME NEW a \in Seq(Byte), NEW r \in Seq(Byte),
         NEW f \in [1 .. Len(a \o r) + 1 -> Seq(Byte)],
         f[Len(a \o r) + 1] = <<>>, Decodes(a \o r, f)
  PROVE  f[Len(a) + 1] = PercentDecode(r)
<1> DEFINE in == a \o r
           k == Len(a)
           X == 1 .. Len(r) + 1
<1>1. /\ in \in Seq(Byte) /\ k \in Nat /\ Len(r) \in Nat /\ Len(in) = k + Len(r)
      /\ \A i \in 1 .. Len(r) : in[k + i] = r[i]
  BY ConcatProperties, LenProperties
<1>2. f[Len(in) + 1] = <<>> /\ Decodes(in, f)
  OBVIOUS
<1>3. PICK g \in [1 .. Len(r) + 1 -> Seq(Byte)] :
        /\ g[Len(r) + 1] = <<>> /\ Decodes(r, g)
        /\ PercentDecode(r) = g[1]
  BY Decoding
<1> HIDE DEF in, k
<1>4. \A i \in 1 .. Len(r) : IsEscape(in, k + i) <=> IsEscape(r, i)
  <2> SUFFICES ASSUME NEW i \in 1 .. Len(r)
               PROVE  IsEscape(in, k + i) <=> IsEscape(r, i)
    OBVIOUS
  <2>1. (k + i) + 2 <= Len(in) <=> i + 2 <= Len(r)
    BY <1>1
  <2>2. in[k + i] = r[i]
    BY <1>1
  <2>3. ASSUME i + 2 <= Len(r)
        PROVE  in[(k + i) + 1] = r[i + 1] /\ in[(k + i) + 2] = r[i + 2]
    <3>1. i + 1 \in 1 .. Len(r) /\ i + 2 \in 1 .. Len(r)
      BY <1>1, <2>3
    <3>2. (k + i) + 1 = k + (i + 1) /\ (k + i) + 2 = k + (i + 2)
      BY <1>1
    <3>3. in[k + (i + 1)] = r[i + 1] /\ in[k + (i + 2)] = r[i + 2]
      BY <1>1, <3>1
    <3>4. QED
      BY <3>2, <3>3
  <2>4. QED
    BY <2>1, <2>2, <2>3 DEF IsEscape
<1>5. \A i \in X : f[k + i] = g[i]
  <2> DEFINE Fails == {n \in Nat : \E i \in X : n = Len(r) + 1 - i /\ f[k + i] # g[i]}
  <2>1. SUFFICES ASSUME Fails # {} PROVE FALSE
    <3>1. \A i \in X : Len(r) + 1 - i \in Nat
      BY <1>1
    <3>2. QED
      BY <3>1
  <2>2. PICK n \in Fails : \A m \in Fails : n <= m
    <3>1. Fails \subseteq Nat
      OBVIOUS
    <3> HIDE DEF Fails
    <3>2. QED
      BY <2>1, <3>1, Least
  <2>3. PICK i \in X : n = Len(r) + 1 - i /\ f[k + i] # g[i]
    BY <2>2
  <2>4. \A j \in X : j > i => f[k + j] = g[j]
    <3> SUFFICES ASSUME NEW j \in X, j > i, f[k + j] # g[j] PROVE FALSE
      OBVIOUS
    <3>1. Len(r) + 1 - j \in Fails /\ ~(n <= Len(r) + 1 - j)
      BY <1>1, <2>3
    <3>2. QED
      BY <2>2, <3>1
  <2>5. i \in 1 .. Len(r)
    <3>1. i = Len(r) + 1 => k + i = Len(in) + 1
      BY <1>1
    <3>2. i # Len(r) + 1
      BY <1>2, <1>3, <2>3, <3>1
    <3>3. QED
      BY <1>1, <3>2
  <2>6. k + i \in 1 .. Len(in) /\ in[k + i] = r[i]
    BY <1>1, <2>5
  <2>7. CASE IsEscape(r, i)
    <3>1. i + 3 \in X /\ i + 3 > i /\ i + 1 \in 1 .. Len(r) /\ i + 2 \in 1 .. Len(r)
      <4>1. i + 2 <= Len(r)
        BY <2>7 DEF IsEscape
      <4>2. i \in 1 .. Len(r) /\ Len(r) \in Nat
        BY <1>1, <2>5
      <4>3. QED
        BY <4>1, <4>2
    <3>2. /\ (k + i) + 3 = k + (i + 3) /\ (k + i) + 1 = k + (i + 1)
          /\ (k + i) + 2 = k + (i + 2)
      <4>1. k \in Nat /\ i \in Nat
        BY <1>1, <2>5
      <4> HIDE DEF X
      <4>2. QED
        BY <4>1
    <3>3. IsEscape(in, k + i)
      BY <1>4, <2>5, <2>7
    <3>4. f[k + i] = Escape(in[k + (i + 1)], in[k + (i + 2)]) \o f[k + (i + 3)]
      BY <1>2, <2>6, <3>2, <3>3 DEF Decodes
    <3>5. g[i] = Escape(r[i + 1], r[i + 2]) \o g[i + 3]
      BY <1>3, <2>5, <2>7 DEF Decodes
    <3>6. QED
      BY <1>1, <2>3, <2>4, <3>1, <3>4, <3>5
  <2>8. CASE ~IsEscape(r, i)
    <3>1. i + 1 \in X /\ i + 1 > i
      BY <1>1, <2>5
    <3>2. (k + i) + 1 = k + (i + 1)
      BY <1>1
    <3>3. ~IsEscape(in, k + i)
      BY <1>4, <2>5, <2>8
    <3>4. f[k + i] = <<in[k + i]>> \o f[k + (i + 1)]
      BY <1>2, <2>6, <3>2, <3>3 DEF Decodes
    <3>5. g[i] = <<r[i]>> \o g[i + 1]
      BY <1>3, <2>5, <2>8 DEF Decodes
    <3>6. QED
      BY <2>3, <2>4, <2>6, <3>1, <3>4, <3>5
  <2>9. QED
    BY <2>7, <2>8
<1>6. 1 \in X
  BY <1>1
<1>7. QED
  BY <1>3, <1>5, <1>6 DEF k

\* percentDecode of a text that starts with a character that is no percent
\* sign, or with an escape.
LEMMA DecodingFirst ==
  /\ PercentDecode(<<>>) = <<>>
  /\ \A r \in Seq(Byte) : PercentDecode(r) \in Seq(Byte)
  /\ \A c \in Byte \ {Percent}, r \in Seq(Byte) :
       PercentDecode(<<c>> \o r) = <<c>> \o PercentDecode(r)
  /\ \A h, l \in Byte, r \in Seq(Byte) :
       HexValue(h) >= 0 /\ HexValue(l) >= 0 =>
         PercentDecode(<<Percent, h, l>> \o r) = Escape(h, l) \o PercentDecode(r)
<1>1. PercentDecode(<<>>) = <<>>
  <2>1. <<>> \in Seq(Byte) /\ Len(<<>>) + 1 = 1
    OBVIOUS
  <2>2. QED
    BY <2>1, Decoding
<1>2. \A r \in Seq(Byte) : PercentDecode(r) \in Seq(Byte)
  <2> SUFFICES ASSUME NEW r \in Seq(Byte) PROVE PercentDecode(r) \in Seq(Byte)
    OBVIOUS
  <2>1. 1 \in 1 .. Len(r) + 1
    BY LenProperties
  <2>2. QED
    BY <2>1, Decoding
<1>3. ASSUME NEW c \in Byte \ {Percent}, NEW r \in Seq(Byte)
      PROVE  PercentDecode(<<c>> \o r) = <<c>> \o PercentDecode(r)
  <2> DEFINE a == <<c>>
             in == a \o r
  <2>1. /\ a \in Seq(Byte) /\ Len(a) = 1 /\ in \in Seq(Byte)
        /\ 1 \in 1 .. Len(in) /\ in[1] = c
    BY LenProperties
  <2> HIDE DEF a
  <2>2. PICK f \in [1 .. Len(in) + 1 -> Seq(Byte)] :
          f[Len(in) + 1] = <<>> /\ Decodes(in, f) /\ PercentDecode(in) = f[1]
    BY <2>1, Decoding
  <2>3. f[2] = PercentDecode(r)
    <3>1. f[Len(a) + 1] = PercentDecode(r)
      BY <2>1, <2>2, DecodingRest
    <3>2. QED
      BY <2>1, <3>1
  <2> HIDE DEF in
  <2>4. f[1] = <<c>> \o f[1 + 1]
    BY <2>1, <2>2 DEF Decodes, IsEscape
  <2>5. QED
    BY <2>2, <2>3, <2>4 DEF in, a
<1>4. ASSUME NEW h \in Byte, NEW l \in Byte, NEW r \in Seq(Byte),
             HexValue(h) >= 0, HexValue(l) >= 0
      PROVE  PercentDecode(<<Percent, h, l>> \o r) = Escape(h, l) \o PercentDecode(r)
  <2> DEFINE a == <<Percent, h, l>>
             in == a \o r
  <2>1. /\ a \in Seq(Byte) /\ Len(a) = 3 /\ in \in Seq(Byte)
        /\ 1 \in 1 .. Len(in) /\ 1 + 2 <= Len(in)
        /\ in[1] = Percent /\ in[1 + 1] = h /\ in[1 + 2] = l
    <3>1. a \in Seq(Byte) /\ Len(a) = 3 /\ a[1] = Percent /\ a[2] = h /\ a[3] = l
      BY DEF Byte, Percent
    <3> HIDE DEF a
    <3>2. /\ in \in Seq(Byte) /\ Len(in) = 3 + Len(r) /\ Len(r) \in Nat
          /\ \A i \in 1 .. Len(a) : in[i] = a[i]
      <4>1. Len(r) \in Nat
        BY LenProperties
      <4>2. /\ in \in Seq(Byte) /\ Len(in) = Len(a) + Len(r)
            /\ \A i \in 1 .. Len(a) + Len(r) :
                 in[i] = IF i <= Len(a) THEN a[i] ELSE r[i - Len(a)]
        BY <3>1, ConcatProperties
      <4> HIDE DEF in
      <4>3. QED
        BY <3>1, <4>1, <4>2
    <3>3. QED
      BY <3>1, <3>2
  <2> HIDE DEF a
  <2>2. PICK f \in [1 .. Len(in) + 1 -> Seq(Byte)] :
          f[Len(in) + 1] = <<>> /\ Decodes(in, f) /\ PercentDecode(in) = f[1]
    BY <2>1, Decoding
  <2>3. f[4] = PercentDecode(r)
    <3>1. f[Len(a) + 1] = PercentDecode(r)
      BY <2>1, <2>2, DecodingRest
    <3>2. QED
      BY <2>1, <3>1
  <2> HIDE DEF in
  <2>4. IsEscape(in, 1)
    BY <1>4, <2>1 DEF IsEscape
  <2>5. f[1] = Escape(h, l) \o f[4]
    <3>1. f[1] = Escape(in[1 + 1], in[1 + 2]) \o f[1 + 3]
      BY <2>1, <2>2, <2>4 DEF Decodes
    <3>2. 1 + 3 = 4
      OBVIOUS
    <3>3. QED
      BY <2>1, <3>1, <3>2
  <2>6. PercentDecode(in) = Escape(h, l) \o PercentDecode(r)
    <3> HIDE DEF a
    <3>1. QED
      BY <2>2, <2>3, <2>5, Zenon
  <2>7. QED
    BY <2>6 DEF in, a
<1>5. QED
  BY <1>1, <1>2, <1>3, <1>4

-----------------------------------------------------------------------------
(* Encoding *)

\* What percentEncode makes of a character, and the ways a client has.
EncodeChar(c) ==
  IF IsPathPassThrough(c) THEN <<c>> ELSE <<Percent, Hex(c \div 16), Hex(c % 16)>>

Spelled(c) == Escaped(c) \cup (IF IsPathPassThrough(c) THEN {<<c>>} ELSE {})

\* A text that decodes as this path, whatever follows.
Spells(u, p) ==
  u \in Seq(Byte) /\ \A r \in Seq(Byte) : PercentDecode(u \o r) = p \o PercentDecode(r)

\* However a character is spelled, it is decoded.
LEMMA Spelling ==
  ASSUME NEW c \in Byte
  PROVE  /\ EncodeChar(c) \in Spelled(c)
         /\ \A s \in Spelled(c) : Spells(s, <<c>>)
<1> DEFINE h == Hex(c \div 16)
           l == Hex(c % 16)
           low == IF c % 16 < 10 THEN Hex(c % 16) ELSE 87 + (c % 16)
<1>1. EncodeChar(c) \in Spelled(c)
  BY DEF EncodeChar, Spelled, Escaped
<1>2. /\ h \in Byte /\ l \in Byte /\ low \in Byte
      /\ HexValue(h) = c \div 16 /\ HexValue(l) = c % 16 /\ HexValue(low) = c % 16
      /\ c \div 16 \in 0 .. 15 /\ c % 16 \in 0 .. 15 /\ 16 * (c \div 16) + (c % 16) = c
  <2>1. /\ c \div 16 \in 0 .. 15 /\ c % 16 \in 0 .. 15
        /\ 16 * (c \div 16) + (c % 16) = c
    BY HexDigits
  <2>2. ~(c % 16 < 10) => c % 16 \in 10 .. 15
    BY <2>1
  <2>3. low \in Byte /\ HexValue(low) = c % 16
    BY <2>1, <2>2, HexDigits
  <2>4. QED
    BY <2>1, <2>3, HexDigits
<1> HIDE DEF h, l, low
<1>3. ASSUME NEW d \in {l, low} PROVE Spells(<<Percent, h, d>>, <<c>>)
  <2>1. d \in Byte /\ HexValue(d) = c % 16 /\ HexValue(d) >= 0 /\ HexValue(h) >= 0
    BY <1>2
  <2>2. Escape(h, d) = <<c>>
    BY <1>2, <2>1 DEF Escape
  <2>3. <<Percent, h, d>> \in Seq(Byte)
    BY <1>2, <2>1 DEF Percent, Byte
  <2>4. ASSUME NEW r \in Seq(Byte)
        PROVE  PercentDecode(<<Percent, h, d>> \o r) = <<c>> \o PercentDecode(r)
    <3>1. PercentDecode(<<Percent, h, d>> \o r) = Escape(h, d) \o PercentDecode(r)
      BY <1>2, <2>1, DecodingFirst
    <3>2. QED
      BY <2>2, <3>1
  <2>5. QED
    BY <2>3, <2>4 DEF Spells
<1>4. IsPathPassThrough(c) => Spells(<<c>>, <<c>>)
  <2>1. IsPathPassThrough(c) => c # Percent
    BY DEF IsPathPassThrough, Percent, Digit, Alpha, Slash, Colon
  <2>2. <<c>> \in Seq(Byte)
    OBVIOUS
  <2>3. QED
    BY <2>1, <2>2, DecodingFirst DEF Spells
<1>5. \A s \in Spelled(c) :
        s \in {<<Percent, h, l>>, <<Percent, h, low>>} \/ (IsPathPassThrough(c) /\ s = <<c>>)
  BY DEF Spelled, Escaped, h, l, low
<1>6. QED
  BY <1>1, <1>3, <1>4, <1>5

\* One character more, in any spelling.
LEMMA SpellingMore ==
  ASSUME NEW u, NEW p \in Seq(Byte), Spells(u, p),
         NEW c \in Byte, NEW s \in Spelled(c)
  PROVE  Spells(u \o s, Append(p, c))
<1>1. u \in Seq(Byte) /\ s \in Seq(Byte) /\ <<c>> \in Seq(Byte)
  <2>1. Spells(s, <<c>>)
    BY Spelling
  <2>2. <<c>> \in Seq(Byte)
    OBVIOUS
  <2>3. QED
    BY <2>1, <2>2 DEF Spells
<1>2. u \o s \in Seq(Byte)
  BY <1>1, ConcatProperties
<1>3. ASSUME NEW r \in Seq(Byte)
      PROVE  PercentDecode((u \o s) \o r) = Append(p, c) \o PercentDecode(r)
  <2>1. s \o r \in Seq(Byte) /\ PercentDecode(r) \in Seq(Byte)
    BY <1>1, ConcatProperties, DecodingFirst
  <2>2. PercentDecode(u \o (s \o r)) = p \o PercentDecode(s \o r)
    BY <2>1 DEF Spells
  <2>3. PercentDecode(s \o r) = <<c>> \o PercentDecode(r)
    BY Spelling DEF Spells
  <2>4. (u \o s) \o r = u \o (s \o r)
    BY <1>1, ConcatAssociative
  <2>5. (p \o <<c>>) \o PercentDecode(r) = p \o (<<c>> \o PercentDecode(r))
    BY <1>1, <2>1, ConcatAssociative
  <2>6. Append(p, c) = p \o <<c>>
    BY AppendIsConcat
  <2>7. QED
    BY <2>2, <2>3, <2>4, <2>5, <2>6
<1>4. QED
  BY <1>2, <1>3 DEF Spells

\* A path is encoded character by character.
LEMMA EncodingPath ==
  /\ PercentEncode(<<>>) = <<>>
  /\ \A p \in Seq(Byte) : PercentEncode(p) \in Seq(Byte)
  /\ \A p \in Seq(Byte), c \in Byte :
       PercentEncode(Append(p, c)) = PercentEncode(p) \o EncodeChar(c)
<1> DEFINE Unit(p) == [i \in DOMAIN p |-> EncodeChar(p[i])]
<1>1. \A p : PercentEncode(p) = FlattenSeq(Unit(p))
  BY DEF PercentEncode, EncodeChar
<1>2. PercentEncode(<<>>) = <<>>
  <2>1. Unit(<<>>) \in Seq({}) /\ Len(Unit(<<>>)) = 0
    OBVIOUS
  <2>2. Unit(<<>>) = <<>>
    BY <2>1, EmptySeq
  <2> HIDE DEF Unit
  <2>3. QED
    BY <1>1, <2>2, Flattening
<1>3. \A p \in Seq(Byte) : /\ Unit(p) \in Seq(Seq(Byte)) /\ Len(Unit(p)) = Len(p)
                           /\ \A i \in 1 .. Len(p) : Unit(p)[i] = EncodeChar(p[i])
  <2> SUFFICES ASSUME NEW p \in Seq(Byte)
               PROVE  /\ Unit(p) \in Seq(Seq(Byte)) /\ Len(Unit(p)) = Len(p)
                      /\ \A i \in 1 .. Len(p) : Unit(p)[i] = EncodeChar(p[i])
    OBVIOUS
  <2>1. /\ Len(p) \in Nat /\ DOMAIN p = 1 .. Len(p)
        /\ \A i \in 1 .. Len(p) : p[i] \in Byte
    BY LenProperties, ElementOfSeq
  <2>2. \A i \in 1 .. Len(p) : EncodeChar(p[i]) \in Seq(Byte)
    BY <2>1, Spelling DEF Spells
  <2>3. Unit(p) = [i \in 1 .. Len(p) |-> EncodeChar(p[i])]
    BY <2>1
  <2>4. [i \in 1 .. Len(p) |-> EncodeChar(p[i])] \in Seq(Seq(Byte))
    BY <2>1, <2>2, IsASeq
  <2>5. QED
    BY <2>1, <2>3, <2>4
<1>4. \A p \in Seq(Byte) : PercentEncode(p) \in Seq(Byte)
  <2> HIDE DEF Unit
  <2>1. QED
    BY <1>1, <1>3, Flattening
<1>5. ASSUME NEW p \in Seq(Byte), NEW c \in Byte
      PROVE  PercentEncode(Append(p, c)) = PercentEncode(p) \o EncodeChar(c)
  <2>1. EncodeChar(c) \in Seq(Byte)
    BY Spelling DEF Spells
  <2>2. Unit(Append(p, c)) = Append(Unit(p), EncodeChar(c))
    <3>1. /\ Append(p, c) \in Seq(Byte) /\ Len(Append(p, c)) = Len(p) + 1
          /\ Len(p) \in Nat
          /\ \A i \in 1 .. Len(p) : Append(p, c)[i] = p[i]
          /\ Append(p, c)[Len(p) + 1] = c
      BY AppendProperties, LenProperties
    <3> DEFINE v == Append(Unit(p), EncodeChar(c))
    <3> HIDE DEF Unit
    <3>2. /\ v \in Seq(Seq(Byte)) /\ Len(v) = Len(Unit(p)) + 1
          /\ \A i \in 1 .. Len(Unit(p)) : v[i] = Unit(p)[i]
          /\ v[Len(Unit(p)) + 1] = EncodeChar(c)
      BY <1>3, <2>1, AppendProperties
    <3>3. \A i \in 1 .. Len(p) + 1 : Unit(Append(p, c))[i] = v[i]
      <4> SUFFICES ASSUME NEW i \in 1 .. Len(p) + 1
                   PROVE  Unit(Append(p, c))[i] = v[i]
        OBVIOUS
      <4>1. i \in 1 .. Len(p) \/ i = Len(p) + 1
        BY <3>1
      <4>2. Unit(Append(p, c))[i] = EncodeChar(Append(p, c)[i])
        BY <1>3, <3>1
      <4> HIDE DEF v
      <4>3. QED
        BY <1>3, <3>1, <3>2, <4>1, <4>2
    <3> HIDE DEF v
    <3>4. Unit(Append(p, c)) = v
      <4>1. /\ Unit(Append(p, c)) \in Seq(Seq(Byte))
            /\ Len(Unit(Append(p, c))) = Len(p) + 1 /\ Len(v) = Len(p) + 1
        BY <1>3, <3>1, <3>2
      <4>2. QED
        BY <3>2, <3>3, <4>1, SeqEqual
    <3>5. QED
      BY <3>4 DEF v
  <2> HIDE DEF Unit
  <2>3. QED
    BY <1>1, <1>3, <2>1, <2>2, Flattening
<1>6. QED
  BY <1>2, <1>4, <1>5

\* The start of a path that passes through is the start of its encoding.
Straight(u, p) ==
  /\ \A k \in 1 .. Len(p) : (\A j \in 1 .. k : IsPathPassThrough(p[j])) =>
       k <= Len(u) /\ \A j \in 1 .. k : u[j] = p[j]
  /\ (\A j \in 1 .. Len(p) : IsPathPassThrough(p[j])) => u = p

\* What percentEncode makes of a path percentDecode turns back.
LEMMA EncodedPath ==
  \A p \in Seq(Byte) : Spells(PercentEncode(p), p) /\ Straight(PercentEncode(p), p)
<1> DEFINE Right(p) == Spells(PercentEncode(p), p) /\ Straight(PercentEncode(p), p)
           Fails == {n \in Nat : \E p \in Seq(Byte) : Len(p) = n /\ ~Right(p)}
<1>1. SUFFICES ASSUME Fails # {} PROVE FALSE
  BY LenProperties
<1>2. PICK n \in Fails : \A k \in Fails : n <= k
  <2>1. Fails \subseteq Nat
    OBVIOUS
  <2> HIDE DEF Fails
  <2>2. QED
    BY <1>1, <2>1, Least
<1>3. PICK q \in Seq(Byte) : Len(q) = n /\ ~Right(q)
  BY <1>2
<1>4. CASE q = <<>>
  <2>1. <<>> \in Seq(Byte) /\ Len(<<>>) = 0
    OBVIOUS
  <2>2. \A r \in Seq(Byte) : <<>> \o r = r
    BY ConcatEmptySeq
  <2>3. Spells(<<>>, <<>>)
    BY <2>1, <2>2, DecodingFirst DEF Spells
  <2>4. Straight(<<>>, <<>>)
    BY <2>1 DEF Straight
  <2>5. QED
    BY <1>3, <1>4, <2>3, <2>4, EncodingPath
<1>5. CASE q # <<>>
  <2>1. PICK p \in Seq(Byte), c \in Byte : q = Append(p, c)
    BY <1>5, SequenceEmptyOrAppend
  <2>2. /\ Len(p) = n - 1 /\ Len(p) \in Nat /\ n = Len(p) + 1
        /\ \A i \in 1 .. Len(p) : q[i] = p[i]
        /\ q[Len(p) + 1] = c
    BY <1>3, <2>1, AppendProperties, LenProperties
  <2>3. Right(p)
    <3>1. n - 1 \in Nat /\ ~(n <= n - 1)
      BY <2>2
    <3>2. n - 1 \notin Fails
      BY <1>2, <3>1
    <3> HIDE DEF Right
    <3>3. QED
      BY <2>2, <3>1, <3>2
  <2> DEFINE u == PercentEncode(p)
             s == EncodeChar(c)
  <2>4. PercentEncode(q) = u \o s /\ s \in Spelled(c) /\ u \in Seq(Byte) /\ s \in Seq(Byte)
    BY <2>1, EncodingPath, Spelling DEF Spells
  <2>5. Spells(u \o s, q)
    BY <2>1, <2>3, <2>4, SpellingMore
  <2>6. \A i \in 1 .. Len(u) : (u \o s)[i] = u[i] /\ Len(u) <= Len(u \o s)
    BY <2>4, ConcatProperties, LenProperties
  <2>7. ASSUME \A j \in 1 .. Len(q) : IsPathPassThrough(q[j])
        PROVE  u \o s = q
    <3>1. \A j \in 1 .. Len(p) : IsPathPassThrough(p[j])
      BY <1>3, <2>2, <2>7
    <3>2. u = p
      BY <2>3, <3>1 DEF Straight
    <3>3. IsPathPassThrough(c)
      BY <1>3, <2>2, <2>7
    <3>4. s = <<c>>
      BY <3>3 DEF EncodeChar
    <3>5. QED
      BY <2>1, <3>2, <3>4, AppendIsConcat
  <2>8. ASSUME NEW k \in 1 .. Len(q), \A j \in 1 .. k : IsPathPassThrough(q[j])
        PROVE  k <= Len(u \o s) /\ \A j \in 1 .. k : (u \o s)[j] = q[j]
    <3>1. CASE k = Len(q)
      <4>1. u \o s = q
        BY <2>7, <2>8, <3>1
      <4>2. QED
        BY <1>3, <2>2, <3>1, <4>1
    <3>2. CASE k # Len(q)
      <4>1. k \in 1 .. Len(p) /\ 1 .. k \subseteq 1 .. Len(p)
        BY <1>3, <2>2, <3>2
      <4>2. \A j \in 1 .. k : q[j] = p[j]
        BY <2>2, <4>1
      <4>3. k <= Len(u) /\ \A j \in 1 .. k : u[j] = p[j]
        BY <2>3, <2>8, <4>1, <4>2 DEF Straight
      <4>4. Len(u) \in Nat /\ Len(u \o s) = Len(u) + Len(s) /\ Len(s) \in Nat
        BY <2>4, ConcatProperties, LenProperties
      <4> HIDE DEF u, s
      <4>5. \A j \in 1 .. k : j \in 1 .. Len(u)
        BY <4>1, <4>3, <4>4
      <4>6. QED
        BY <2>6, <4>2, <4>3, <4>4, <4>5
    <3>3. QED
      BY <3>1, <3>2
  <2>9. Straight(u \o s, q)
    <3> HIDE DEF u, s
    <3>1. QED
      BY <2>7, <2>8 DEF Straight
  <2>10. QED
    BY <1>3, <2>4, <2>5, <2>9
<1>6. QED
  BY <1>4, <1>5

-----------------------------------------------------------------------------
(* toPath *)

\* No letter of a drive, colon or slash is a percent sign.
LEMMA NoPercent ==
  /\ \A c \in Alpha \cup {Slash, Colon} : c \in Byte \ {Percent}
  /\ \A r \in Seq(Byte) : PercentDecode(<<Slash>> \o r) = <<Slash>> \o PercentDecode(r)
<1>1. \A c \in Alpha \cup {Slash, Colon} : c \in Byte \ {Percent}
  BY DEF Alpha, Slash, Colon, Byte, Percent
<1>2. QED
  BY <1>1, DecodingFirst

\* The first character of a text that is no percent sign is decoded as itself.
LEMMA DecodingHead ==
  ASSUME NEW u \in Seq(Byte), u # <<>>, u[1] # Percent
  PROVE  /\ Tail(u) \in Seq(Byte)
         /\ PercentDecode(u) = <<u[1]>> \o PercentDecode(Tail(u))
<1>1. Tail(u) \in Seq(Byte) /\ u = <<Head(u)>> \o Tail(u) /\ Head(u) \in Byte
  BY HeadTailProperties
<1>2. Head(u) = u[1]
  OBVIOUS
<1>3. Head(u) \in Byte \ {Percent}
  BY <1>1, <1>2
<1>4. PercentDecode(<<Head(u)>> \o Tail(u)) = <<Head(u)>> \o PercentDecode(Tail(u))
  BY <1>1, <1>3, DecodingFirst
<1>5. QED
  BY <1>1, <1>2, <1>4

\* A text with a character put in front.
LEMMA InFront ==
  ASSUME NEW c \in Byte, NEW q \in Seq(Byte)
  PROVE  /\ Len(<<c>> \o q) = Len(q) + 1 /\ Len(q) \in Nat
         /\ <<c>> \o q \in Seq(Byte)
         /\ (<<c>> \o q)[1] = c /\ Tail(<<c>> \o q) = q
         /\ Len(q) >= 1 => (<<c>> \o q)[2] = q[1]
         /\ Len(q) >= 2 => (<<c>> \o q)[3] = q[2]
<1>1. Len(q) \in Nat
  BY LenProperties
<1>2. QED
  BY <1>1

\* Where toPath sees a drive there is one, and without the slash the rest is
\* decoded as before.
LEMMA ToPathDecodes ==
  ASSUME NEW u \in Seq(Byte)
  PROVE  /\ StartsWithDrive(u) => StartsWithDrive(PercentDecode(u))
         /\ ToPath(FileUri(u)) =
              IF StartsWithDrive(u) THEN Tail(PercentDecode(u)) ELSE PercentDecode(u)
<1>1. ToPath(FileUri(u)) =
        PercentDecode(IF StartsWithDrive(u) THEN Tail(u) ELSE u)
  BY DEF ToPath, FileUri
<1>2. ASSUME StartsWithDrive(u)
      PROVE  /\ StartsWithDrive(PercentDecode(u))
             /\ PercentDecode(Tail(u)) = Tail(PercentDecode(u))
  <2> DEFINE v == Tail(u)
             w == Tail(v)
  <2>1. /\ Len(u) >= 3 /\ u[1] = Slash /\ u[2] \in Alpha /\ u[3] = Colon
    BY <1>2 DEF StartsWithDrive
  <2>2. /\ u # <<>> /\ v \in Seq(Byte) /\ Len(v) >= 2 /\ v[1] = u[2] /\ v[2] = u[3]
    BY <2>1
  <2> HIDE DEF v
  <2>3. /\ v # <<>> /\ w \in Seq(Byte) /\ Len(w) >= 1 /\ w[1] = u[3]
    BY <2>2
  <2> HIDE DEF w
  <2>4. w # <<>>
    BY <2>3
  <2>5. u[1] # Percent /\ u[2] # Percent /\ u[3] # Percent
    BY <2>1, NoPercent
  <2>6. PercentDecode(u) = <<u[1]>> \o PercentDecode(v)
    BY <2>2, <2>5, DecodingHead DEF v
  <2>7. PercentDecode(v) = <<u[2]>> \o PercentDecode(w)
    BY <2>2, <2>3, <2>5, DecodingHead DEF w
  <2>8. PercentDecode(w) = <<u[3]>> \o PercentDecode(Tail(w)) /\ Tail(w) \in Seq(Byte)
    BY <2>3, <2>4, <2>5, DecodingHead
  <2>9. /\ PercentDecode(w) \in Seq(Byte) /\ PercentDecode(v) \in Seq(Byte)
        /\ PercentDecode(u) \in Seq(Byte) /\ PercentDecode(Tail(w)) \in Seq(Byte)
        /\ u[1] \in Byte /\ u[2] \in Byte /\ u[3] \in Byte
    <3>1. u[1] \in Byte /\ u[2] \in Byte /\ u[3] \in Byte
      BY <2>1, ElementOfSeq, LenProperties
    <3>2. QED
      BY <2>2, <2>3, <2>8, <3>1, DecodingFirst
  <2> DEFINE du == PercentDecode(u)
             dv == PercentDecode(v)
             dw == PercentDecode(w)
  <2> HIDE DEF du, dv, dw
  <2>10. /\ Len(dw) >= 1 /\ dw[1] = u[3]
    BY <2>8, <2>9, InFront DEF dw
  <2>11. /\ Len(dv) >= 2 /\ dv[1] = u[2] /\ dv[2] = u[3]
    <3>1. Len(dv) = Len(dw) + 1 /\ dv[1] = u[2] /\ (Len(dw) >= 1 => dv[2] = dw[1])
          /\ Len(dw) \in Nat
      <4> DEFINE x == u[2]
      <4>1. dv = <<x>> \o dw /\ x \in Byte /\ dw \in Seq(Byte)
        BY <2>7, <2>9 DEF dv, dw
      <4> HIDE DEF x
      <4>2. Len(dv) = Len(dw) + 1 /\ dv[1] = x /\ (Len(dw) >= 1 => dv[2] = dw[1])
            /\ Len(dw) \in Nat
        BY <4>1, InFront
      <4>3. QED
        BY <4>2 DEF x
    <3>2. QED
      BY <2>10, <3>1
  <2>12. /\ Len(du) >= 3 /\ du[1] = u[1] /\ du[2] = u[2] /\ du[3] = u[3]
         /\ Tail(du) = dv
    <3>1. /\ Len(du) = Len(dv) + 1 /\ du[1] = u[1] /\ Tail(du) = dv
          /\ Len(dv) >= 1 => du[2] = dv[1]
          /\ Len(dv) >= 2 => du[3] = dv[2]
          /\ Len(dv) \in Nat
      <4> DEFINE x == u[1]
      <4>1. du = <<x>> \o dv /\ x \in Byte /\ dv \in Seq(Byte)
        BY <2>6, <2>9 DEF du, dv
      <4> HIDE DEF x
      <4>2. /\ Len(du) = Len(dv) + 1 /\ du[1] = x /\ Tail(du) = dv
            /\ Len(dv) >= 1 => du[2] = dv[1]
            /\ Len(dv) >= 2 => du[3] = dv[2]
            /\ Len(dv) \in Nat
        BY <4>1, InFront
      <4>3. QED
        BY <4>2 DEF x
    <3>2. QED
      BY <2>11, <3>1
  <2>13. QED
    BY <2>1, <2>12 DEF StartsWithDrive, v, du, dv
<1>3. QED
  BY <1>1, <1>2

\* Where a path has a drive, with a slash before it or without.
LEMMA SlashDrive ==
  ASSUME NEW p \in Seq(Byte)
  PROVE  /\ <<Slash>> \o p \in Seq(Byte)
         /\ Tail(<<Slash>> \o p) = p
         /\ StartsWithDrive(<<Slash>> \o p) <=> IsDrive(p)
         /\ StartsWithDrive(p) <=> IsRooted(p) /\ IsDrive(Tail(p))
<1>1. Slash \in Byte /\ Len(p) \in Nat
  BY LenProperties DEF Slash, Byte
<1> DEFINE v == <<Slash>> \o p
<1>2. /\ v \in Seq(Byte) /\ Len(v) = Len(p) + 1 /\ v[1] = Slash /\ Tail(v) = p
      /\ Len(p) >= 1 => v[2] = p[1]
      /\ Len(p) >= 2 => v[3] = p[2]
  BY <1>1, InFront
<1> HIDE DEF v
<1>3. StartsWithDrive(v) <=> IsDrive(p)
  BY <1>1, <1>2 DEF StartsWithDrive, IsDrive
<1>4. StartsWithDrive(p) <=> IsRooted(p) /\ IsDrive(Tail(p))
  <2>1. CASE p = <<>>
    BY <2>1 DEF StartsWithDrive, IsRooted
  <2>2. CASE p # <<>>
    <3>1. /\ Tail(p) \in Seq(Byte) /\ Len(Tail(p)) = Len(p) - 1
          /\ Len(p) >= 2 => Tail(p)[1] = p[2]
          /\ Len(p) >= 3 => Tail(p)[2] = p[3]
      BY <2>2
    <3>2. QED
      BY <1>1, <2>2, <3>1 DEF StartsWithDrive, IsDrive, IsRooted
  <2>3. QED
    BY <2>1, <2>2
<1>5. QED
  BY <1>2, <1>3, <1>4 DEF v

\* What percentEncode makes of a path decodes as the path.
LEMMA DecodedEncoded ==
  ASSUME NEW u, NEW p \in Seq(Byte), Spells(u, p)
  PROVE  u \in Seq(Byte) /\ PercentDecode(u) = p
<1>1. u \in Seq(Byte) /\ <<>> \in Seq(Byte)
  BY DEF Spells
<1>2. PercentDecode(u \o <<>>) = p \o <<>>
  BY <1>1, DecodingFirst DEF Spells
<1>3. QED
  BY <1>1, <1>2, ConcatEmptySeq

\* A drive and the slash before it pass through percentEncode.
LEMMA DriveStraight ==
  ASSUME NEW p \in Seq(Byte)
  PROVE  /\ StartsWithDrive(p) => StartsWithDrive(PercentEncode(p))
         /\ IsDrive(p) => IsDrive(PercentEncode(p))
<1>1. Straight(PercentEncode(p), p) /\ PercentEncode(p) \in Seq(Byte)
  BY EncodedPath, EncodingPath
<1>2. Len(p) \in Nat /\ Len(PercentEncode(p)) \in Nat
  BY <1>1, LenProperties
<1>3. \A c \in Alpha \cup {Slash, Colon} : IsPathPassThrough(c)
  BY DEF IsPathPassThrough
<1> DEFINE u == PercentEncode(p)
<1>4. ASSUME NEW k \in {2, 3}, k <= Len(p),
             \A j \in 1 .. k : p[j] \in Alpha \cup {Slash, Colon}
      PROVE  k <= Len(u) /\ \A j \in 1 .. k : u[j] = p[j]
  <2>1. k \in 1 .. Len(p) /\ \A j \in 1 .. k : IsPathPassThrough(p[j])
    BY <1>2, <1>3, <1>4
  <2>2. QED
    BY <1>1, <2>1 DEF Straight
<1> HIDE DEF u
<1>5. ASSUME StartsWithDrive(p) PROVE StartsWithDrive(u)
  <2>1. 3 <= Len(p) /\ p[1] = Slash /\ p[2] \in Alpha /\ p[3] = Colon
    BY <1>2, <1>5 DEF StartsWithDrive
  <2>2. \A j \in 1 .. 3 : j = 1 \/ j = 2 \/ j = 3
    OBVIOUS
  <2>3. \A j \in 1 .. 3 : p[j] \in Alpha \cup {Slash, Colon}
    BY <2>1, <2>2
  <2>4. 3 <= Len(u) /\ \A j \in 1 .. 3 : u[j] = p[j]
    BY <1>4, <2>1, <2>3
  <2>5. 1 \in 1 .. 3 /\ 2 \in 1 .. 3 /\ 3 \in 1 .. 3 /\ Len(u) >= 3
    BY <1>2, <2>4 DEF u
  <2>6. QED
    BY <2>1, <2>4, <2>5 DEF StartsWithDrive
<1>6. ASSUME IsDrive(p) PROVE IsDrive(u)
  <2>1. 2 <= Len(p) /\ p[1] \in Alpha /\ p[2] = Colon
    BY <1>2, <1>6 DEF IsDrive
  <2>2. \A j \in 1 .. 2 : j = 1 \/ j = 2
    OBVIOUS
  <2>3. \A j \in 1 .. 2 : p[j] \in Alpha \cup {Slash, Colon}
    BY <2>1, <2>2
  <2>4. 2 <= Len(u) /\ \A j \in 1 .. 2 : u[j] = p[j]
    BY <1>4, <2>1, <2>3
  <2>5. 1 \in 1 .. 2 /\ 2 \in 1 .. 2 /\ Len(u) >= 2
    BY <1>2, <2>4 DEF u
  <2>6. QED
    BY <2>1, <2>4, <2>5 DEF IsDrive
<1>7. QED
  BY <1>5, <1>6 DEF u

-----------------------------------------------------------------------------
(* Paths *)

\* What a client has typed so far spells the path.
UInv == path \in Seq(Byte) /\ Spells(uri, path)

\* It does, character by character.
LEMMA AlwaysSpelled == UriSpec => []UInv
<1>1. UriInit => UInv
  <2>1. <<>> \in Seq(Byte) /\ \A r \in Seq(Byte) : <<>> \o r = r
    BY ConcatEmptySeq
  <2>2. QED
    BY <2>1, DecodingFirst DEF UriInit, UInv, Spells
<1>2. UInv /\ [UriNext]_uriVars => UInv'
  <2> SUFFICES ASSUME UInv, [UriNext]_uriVars PROVE UInv'
    OBVIOUS
  <2>1. CASE UriNext
    <3>1. PICK c \in Alphabet : TypeChar(c)
      BY <2>1 DEF UriNext
    <3>2. c \in Byte
      BY UriAssumption DEF Byte
    <3>3. PICK s \in Spelled(c) : uri' = uri \o s
      BY <3>1 DEF TypeChar, Spelled
    <3>4. path' = Append(path, c) /\ Append(path, c) \in Seq(Byte)
      BY <3>1, <3>2, AppendProperties DEF TypeChar, UInv
    <3>5. QED
      BY <3>2, <3>3, <3>4, SpellingMore DEF UInv
  <2>2. CASE UNCHANGED uriVars
    BY <2>2 DEF UInv, uriVars
  <2>3. QED
    BY <2>1, <2>2
<1>3. QED
  BY <1>1, <1>2, PTL DEF UriSpec

\* A path survives its URI: whatever fromPath escapes toPath turns back, and a
\* drive is found with the slash that fromPath put before it.
THEOREM PathsSurvive == UriSpec => []PathSurvivesUri
<1>1. UInv => PathSurvivesUri
  <2> SUFFICES ASSUME UInv PROVE PathSurvivesUri
    OBVIOUS
  <2> DEFINE u == PercentEncode(path)
  <2>1. /\ path \in Seq(Byte) /\ Spells(u, path) /\ u \in Seq(Byte)
        /\ PercentDecode(u) = path
    BY EncodedPath, DecodedEncoded DEF UInv
  <2> HIDE DEF u
  <2>2. CASE path = <<>> \/ IsRooted(path)
    <3>1. FromPath(path) = FileUri(u)
      <4>1. ~(path # <<>> /\ path[1] # Slash)
        BY <2>2 DEF IsRooted
      <4>2. <<>> \o u = u
        BY <2>1, ConcatEmptySeq
      <4>3. QED
        BY <4>1, <4>2 DEF FromPath, FileUri, u
    <3>2. StartsWithDrive(u) <=> StartsWithDrive(path)
      BY <2>1, ToPathDecodes, DriveStraight DEF u
    <3>3. StartsWithDrive(path) <=> IsRooted(path) /\ IsDrive(Tail(path))
      BY <2>1, SlashDrive
    <3>4. ToPath(FromPath(path)) = IF StartsWithDrive(path) THEN Tail(path) ELSE path
      BY <2>1, <3>1, <3>2, ToPathDecodes
    <3>5. QED
      BY <2>2, <3>3, <3>4 DEF PathSurvivesUri
  <2>3. CASE path # <<>> /\ ~IsRooted(path)
    <3> DEFINE v == <<Slash>> \o u
    <3>1. FromPath(path) = FileUri(v)
      BY <2>3 DEF FromPath, FileUri, IsRooted, u
    <3>2. v \in Seq(Byte) /\ (StartsWithDrive(v) <=> IsDrive(u))
      BY <2>1, SlashDrive
    <3>3. PercentDecode(v) = <<Slash>> \o path
      BY <2>1, NoPercent
    <3>4. /\ Tail(<<Slash>> \o path) = path
          /\ StartsWithDrive(<<Slash>> \o path) <=> IsDrive(path)
      BY <2>1, SlashDrive
    <3> HIDE DEF v
    <3>5. IsDrive(path) => IsDrive(u)
      BY <2>1, DriveStraight DEF u
    <3>6. StartsWithDrive(v) <=> IsDrive(path)
      BY <3>2, <3>3, <3>4, <3>5, ToPathDecodes
    <3>7. ToPath(FromPath(path)) = IF IsDrive(path) THEN path ELSE <<Slash>> \o path
      BY <3>1, <3>2, <3>3, <3>4, <3>6, ToPathDecodes
    <3>8. QED
      BY <2>3, <3>7 DEF PathSurvivesUri
  <2>4. QED
    BY <2>2, <2>3
<1>2. QED
  BY <1>1, AlwaysSpelled, PTL

\* However a client spells a path, toPath gives the path; where the slash before
\* a drive stays, the drive was escaped.
THEOREM SpellingsAgree == UriSpec => []SpellingDoesNotMatter
<1>1. UInv => SpellingDoesNotMatter
  <2> SUFFICES ASSUME UInv PROVE SpellingDoesNotMatter
    OBVIOUS
  <2> DEFINE v == <<Slash>> \o uri
             plain == Len(uri) >= 2 /\ uri[1] = path[1] /\ uri[2] = Colon
  <2>1. /\ path \in Seq(Byte) /\ uri \in Seq(Byte) /\ PercentDecode(uri) = path
    BY DecodedEncoded DEF UInv
  <2>2. /\ v \in Seq(Byte) /\ (StartsWithDrive(v) <=> IsDrive(uri))
        /\ PercentDecode(v) = <<Slash>> \o path
    BY <2>1, SlashDrive, NoPercent
  <2>3. /\ Tail(<<Slash>> \o path) = path
        /\ StartsWithDrive(<<Slash>> \o path) <=> IsDrive(path)
        /\ StartsWithDrive(path) <=> IsRooted(path) /\ IsDrive(Tail(path))
    BY <2>1, SlashDrive
  <2> HIDE DEF v
  <2>4. ASSUME IsDrive(path)
        PROVE  ToPath(FileUri(v)) = IF plain THEN path ELSE <<Slash>> \o path
    <3>1. IsDrive(uri) <=> plain
      <4>1. ASSUME plain PROVE IsDrive(uri)
        BY <2>4, <4>1 DEF IsDrive
      <4>2. ASSUME IsDrive(uri) PROVE plain
        <5>1. Len(uri) >= 2 /\ uri[1] \in Alpha /\ uri[2] = Colon
          BY <4>2 DEF IsDrive
        <5>2. uri # <<>> /\ uri[1] # Percent /\ uri[1] \in Byte
          BY <2>1, <5>1, NoPercent
        <5>3. path = <<uri[1]>> \o PercentDecode(Tail(uri)) /\ Tail(uri) \in Seq(Byte)
          BY <2>1, <5>2, DecodingHead
        <5>4. PercentDecode(Tail(uri)) \in Seq(Byte)
          BY <5>3, DecodingFirst
        <5>5. path[1] = uri[1]
          BY <5>2, <5>3, <5>4
        <5>6. QED
          BY <5>1, <5>5
      <4>3. QED
        BY <4>1, <4>2
    <3>2. QED
      BY <2>2, <2>3, <3>1, ToPathDecodes
  <2>5. ASSUME IsRooted(path), ~IsDrive(Tail(path))
        PROVE  ToPath(FileUri(uri)) = path
    BY <2>1, <2>3, <2>5, ToPathDecodes
  <2>6. QED
    BY <2>4, <2>5 DEF SpellingDoesNotMatter, v
<1>2. QED
  BY <1>1, AlwaysSpelled, PTL

-----------------------------------------------------------------------------
(* Semantic tokens *)

\* A number below the modulus is its own remainder.
LEMMA Remainder ==
  ASSUME NEW m \in Nat \ {0}, NEW a \in 0 .. m - 1
  PROVE  a % m = a
BY SMT

\* A token's place is a pair of uint32_t.
LEMMA Places32 ==
  \A t \in Token : t.line \in 0 .. Modulus - 1 /\ t.startChar \in 0 .. Modulus - 1
BY TokenAssumption DEF Token

-----------------------------------------------------------------------------
(* What a client decodes *)

\* A token with its place replaced.
Moved(t, line, char) == [t EXCEPT !.line = line, !.startChar = char]

At(line, char, length, kind) ==
  [line |-> line, startChar |-> char, length |-> length, type |-> kind]

\* What such a record holds.
LEMMA MovedAt ==
  ASSUME NEW a, NEW b, NEW c, NEW e, NEW x, NEW y
  PROVE  /\ At(a, b, c, e).line = a /\ At(a, b, c, e).startChar = b
         /\ Moved(At(a, b, c, e), x, y) = At(x, y, c, e)
<1> DEFINE A == {a, x}
           B == {b, y}
           C == {c}
           D == {e}
           r == At(a, b, c, e)
           q == Moved(r, x, y)
           w == At(x, y, c, e)
<1>1. /\ x \in A /\ y \in B /\ r \in [line : A, startChar : B, length : C, type : D]
      /\ w \in [line : A, startChar : B, length : C, type : D]
      /\ r.line = a /\ r.startChar = b /\ r.length = c /\ r.type = e
  BY DEF At
<1>2. w.line = x /\ w.startChar = y /\ w.length = c /\ w.type = e
  BY DEF At
<1> HIDE DEF A, B, C, D, r, w
<1>3. q \in [line : A, startChar : B, length : C, type : D]
  BY <1>1 DEF Moved
<1>4. q.line = x /\ q.startChar = y /\ q.length = c /\ q.type = e
  BY <1>1 DEF Moved
<1> HIDE DEF q
<1>5. q = w
  BY <1>1, <1>2, <1>3, <1>4
<1>6. QED
  BY <1>1, <1>5 DEF q, w, r

\* The deltas of a token after another, and what a client makes of them.
EncodeOne(p, t) == Moved(t, DeltaLine(p, t), DeltaChar(p, t))

DecodeOne(p, d) ==
  Moved(d, p.line + d.line, IF d.line = 0 THEN p.startChar + d.startChar ELSE d.startChar)

\* A token that is not before the one it is encoded after is decoded.
LEMMA OneToken ==
  ASSUME NEW t \in Token, NEW p,
         p.line \in 0 .. Modulus - 1, p.startChar \in 0 .. Modulus - 1,
         ~TokenBefore(t, p)
  PROVE  DecodeOne(p, EncodeOne(p, t)) = t
<1> DEFINE dl == DeltaLine(p, t)
           dc == DeltaChar(p, t)
<1>1. /\ t.line \in 0 .. Modulus - 1 /\ t.startChar \in 0 .. Modulus - 1
      /\ Modulus \in Nat \ {0}
  BY Places32, TokenAssumption
<1>2. p.line <= t.line /\ (p.line = t.line => p.startChar <= t.startChar)
  BY <1>1 DEF TokenBefore
<1>3. t.line - p.line \in 0 .. Modulus - 1
  BY <1>1, <1>2
<1>4. dl = t.line - p.line
  BY <1>1, <1>3, Remainder DEF DeltaLine
<1>5. dc = IF t.line # p.line THEN t.startChar ELSE t.startChar - p.startChar
  <2>1. CASE t.line # p.line
    BY <1>1, <1>4, <2>1 DEF DeltaChar
  <2>2. CASE t.line = p.line
    <3>1. t.startChar - p.startChar \in 0 .. Modulus - 1
      BY <1>1, <1>2, <2>2
    <3>2. (t.startChar - p.startChar) % Modulus = t.startChar - p.startChar
      BY <1>1, <3>1, Remainder
    <3>3. dl = 0
      BY <1>1, <1>4, <2>2
    <3>4. QED
      BY <2>2, <3>2, <3>3 DEF DeltaChar
  <2>3. QED
    BY <2>1, <2>2
<1> HIDE DEF dl, dc
<1>6. /\ p.line + dl = t.line
      /\ (IF dl = 0 THEN p.startChar + dc ELSE dc) = t.startChar
  BY <1>1, <1>4, <1>5
<1>7. t = At(t.line, t.startChar, t.length, t.type)
  BY DEF Token, At
<1>8. EncodeOne(p, t) = At(dl, dc, t.length, t.type)
  <2>1. Moved(t, dl, dc) = At(dl, dc, t.length, t.type)
    BY <1>7, MovedAt
  <2>2. QED
    BY <2>1 DEF EncodeOne, dl, dc
<1> DEFINE d == At(dl, dc, t.length, t.type)
<1>9. d.line = dl /\ d.startChar = dc
      /\ Moved(d, t.line, t.startChar) = At(t.line, t.startChar, t.length, t.type)
  BY MovedAt
<1> HIDE DEF d
<1>10. DecodeOne(p, d) = Moved(d, t.line, t.startChar)
  BY <1>6, <1>9 DEF DecodeOne
<1>11. QED
  BY <1>7, <1>8, <1>9, <1>10 DEF d

Ordered(s) == \A i, j \in DOMAIN s : i < j => ~TokenBefore(s[j], s[i])

\* A client decodes the deltas of a sorted list as that list.
LEMMA Decoded ==
  ASSUME NEW s \in Seq(Token), Ordered(s)
  PROVE  Decode(Deltas(s)) = s
<1> DEFINE n == Len(s)
           d == Deltas(s)
           Prev(f, i) == IF i = 1 THEN [line |-> 0, startChar |-> 0] ELSE f[i - 1]
           Next(f, i) == DecodeOne(Prev(f, i), d[i])
           Def(f) == [i \in 1 .. n |-> Next(f, i)]
<1>1. n \in Nat /\ DOMAIN s = 1 .. n /\ \A i \in 1 .. n : s[i] \in Token
  BY LenProperties, ElementOfSeq
<1>2. /\ DOMAIN d = 1 .. n
      /\ \A i \in 1 .. n :
           d[i] = EncodeOne(Prev(s, i), s[i])
  BY <1>1 DEF Deltas, EncodeOne, Moved
<1> HIDE DEF d
<1>3. \A i \in 1 .. n : Next(s, i) = s[i]
  <2> SUFFICES ASSUME NEW i \in 1 .. n PROVE Next(s, i) = s[i]
    OBVIOUS
  <2> DEFINE p == Prev(s, i)
  <2>1. /\ p.line \in 0 .. Modulus - 1 /\ p.startChar \in 0 .. Modulus - 1
        /\ ~TokenBefore(s[i], p)
    <3>1. CASE i = 1
      <4>1. p.line = 0 /\ p.startChar = 0
        BY <3>1
      <4>2. s[i].line \in 0 .. Modulus - 1 /\ s[i].startChar \in 0 .. Modulus - 1
            /\ Modulus \in Nat \ {0}
        BY <1>1, Places32, TokenAssumption
      <4> HIDE DEF p
      <4>3. QED
        BY <4>1, <4>2 DEF TokenBefore
    <3>2. CASE i # 1
      <4>1. p = s[i - 1] /\ i - 1 \in 1 .. n /\ i - 1 < i
        BY <1>1, <3>2
      <4> HIDE DEF p
      <4>2. QED
        BY <1>1, <4>1, Places32 DEF Ordered
    <3>3. QED
      BY <3>1, <3>2
  <2>2. s[i] \in Token /\ d[i] = EncodeOne(p, s[i])
    BY <1>1, <1>2
  <2> HIDE DEF p
  <2>3. DecodeOne(p, d[i]) = s[i]
    BY <2>1, <2>2, OneToken
  <2>4. QED
    BY <2>3 DEF p
<1>4. s = Def(s)
  <2> HIDE DEF Next
  <2>1. s = [i \in 1 .. n |-> s[i]]
    BY <1>1
  <2>2. QED
    BY <1>3, <2>1
<1> DEFINE g == CHOOSE f : f = Def(f)
<1>5. g = Def(g)
  <2> HIDE DEF Def
  <2>1. QED
    BY <1>4
<1>6. Decode(d) = g
  BY <1>2 DEF Decode, DecodeOne, Moved
<1> HIDE DEF g
<1>7. \A i \in 1 .. n : g[i] = s[i]
  <2> DEFINE Fails == {i \in 1 .. n : g[i] # s[i]}
  <2>1. SUFFICES ASSUME Fails # {} PROVE FALSE
    OBVIOUS
  <2>2. PICK i \in Fails : \A j \in Fails : i <= j
    <3>1. Fails \subseteq Nat
      OBVIOUS
    <3> HIDE DEF Fails
    <3>2. QED
      BY <2>1, <3>1, Least
  <2>3. i \in 1 .. n /\ g[i] # s[i]
    BY <2>2
  <2>4. i # 1 => g[i - 1] = s[i - 1]
    <3>1. SUFFICES ASSUME i # 1 PROVE g[i - 1] = s[i - 1]
      OBVIOUS
    <3>2. i - 1 \in 1 .. n /\ ~(i <= i - 1)
      BY <1>1, <2>3, <3>1
    <3>3. i - 1 \notin Fails
      <4> HIDE DEF Fails
      <4>1. QED
        BY <2>2, <3>2
    <3>4. QED
      BY <3>2, <3>3
  <2>5. Prev(g, i) = Prev(s, i)
    BY <2>4
  <2>6. g[i] = Next(g, i)
    BY <1>5, <2>3
  <2> HIDE DEF Prev
  <2>7. Next(g, i) = Next(s, i)
    BY <2>5
  <2> HIDE DEF Next
  <2>8. QED
    BY <1>3, <2>3, <2>6, <2>7
<1>8. g = [i \in 1 .. n |-> g[i]]
  <2> HIDE DEF Next
  <2>1. QED
    BY <1>5
<1>9. g = s
  <2>1. s = [i \in 1 .. n |-> s[i]]
    BY <1>1
  <2>2. QED
    BY <1>7, <1>8, <2>1
<1>10. QED
  BY <1>6, <1>9 DEF d

-----------------------------------------------------------------------------
(* How often a token is in a list *)

\* A list has a token once more after it was appended.
LEMMA Counting ==
  /\ \A t : Count(<<>>, t) = 0
  /\ \A s \in Seq(Token) : \A t : Count(s, t) \in Nat
  /\ \A s \in Seq(Token), x \in Token : \A t :
       Count(Append(s, x), t) = IF x = t THEN Count(s, t) + 1 ELSE Count(s, t)
<1> DEFINE Places(s, t) == {i \in DOMAIN s : s[i] = t}
<1>1. \A t : Count(<<>>, t) = 0
  <2>1. \A t : Places(<<>>, t) = {}
    OBVIOUS
  <2>2. QED
    BY <2>1, FS_EmptySet DEF Count
<1>2. ASSUME NEW s \in Seq(Token), NEW t PROVE IsFiniteSet(Places(s, t)) /\ Count(s, t) \in Nat
  <2>1. DOMAIN s = 1 .. Len(s) /\ Len(s) \in Nat
    BY LenProperties
  <2>2. IsFiniteSet(1 .. Len(s)) /\ Places(s, t) \in SUBSET (1 .. Len(s))
    BY <2>1, FS_Interval
  <2> HIDE DEF Places
  <2>3. IsFiniteSet(Places(s, t))
    BY <2>2, FS_Subset
  <2>4. Cardinality(Places(s, t)) \in Nat
    BY <2>3, FS_CardinalityType
  <2>5. QED
    BY <2>3, <2>4 DEF Count, Places
<1>3. ASSUME NEW s \in Seq(Token), NEW x \in Token, NEW t
      PROVE  Count(Append(s, x), t) = IF x = t THEN Count(s, t) + 1 ELSE Count(s, t)
  <2> DEFINE b == Append(s, x)
             n == Len(s)
  <2>1. /\ n \in Nat /\ DOMAIN s = 1 .. n /\ DOMAIN b = 1 .. (n + 1)
        /\ \A i \in 1 .. n : b[i] = s[i]
        /\ b[n + 1] = x
    BY LenProperties, AppendProperties
  <2> HIDE DEF b, n
  <2>2. \A i : i \in 1 .. (n + 1) <=> i \in 1 .. n \/ i = n + 1
    BY <2>1
  <2>3. n + 1 \notin 1 .. n
    BY <2>1
  <2>4. Places(b, t) = IF x = t THEN Places(s, t) \cup {n + 1} ELSE Places(s, t)
    BY <2>1, <2>2, <2>3
  <2>5. n + 1 \notin Places(s, t)
    BY <2>1, <2>3
  <2>6. IsFiniteSet(Places(s, t))
    BY <1>2
  <2>7. Count(s, t) = Cardinality(Places(s, t)) /\ Count(b, t) = Cardinality(Places(b, t))
    BY DEF Count
  <2> HIDE DEF Places
  <2>8. Cardinality(Places(s, t) \cup {n + 1}) = Cardinality(Places(s, t)) + 1
    BY <2>5, <2>6, FS_AddElement
  <2>9. QED
    BY <2>4, <2>7, <2>8 DEF b
<1>4. QED
  BY <1>1, <1>2, <1>3

\* A sorting is an ordered list of the same tokens.
LEMMA Rearranged ==
  ASSUME NEW s \in Seq(Token), NEW r \in Sortings(s)
  PROVE  /\ r \in Seq(Token) /\ Ordered(r)
         /\ \A t : Count(r, t) = Count(s, t)
<1> DEFINE n == Len(s)
           D == 1 .. n
<1>1. n \in Nat /\ DOMAIN s = D /\ \A i \in D : s[i] \in Token
  BY LenProperties, ElementOfSeq
<1>2. PICK f \in [D -> D] :
        /\ r = [i \in D |-> s[f[i]]]
        /\ \A i, j \in D : i < j => f[i] # f[j] /\ ~TokenBefore(s[f[j]], s[f[i]])
  <2> HIDE DEF D
  <2>1. QED
    BY <1>1 DEF Sortings
<1>3. r \in Seq(Token)
  <2>1. \A i \in D : s[f[i]] \in Token
    BY <1>1
  <2>2. [i \in 1 .. n |-> s[f[i]]] \in Seq(Token)
    BY <1>1, <2>1, IsASeq
  <2>3. QED
    BY <1>2, <2>2
<1>4. Ordered(r)
  BY <1>2 DEF Ordered
<1>5. f \in Surjection(D, D) /\ f \in Injection(D, D)
  <2>1. \A i, j \in D : f[i] = f[j] => i = j
    <3>1. \A i, j \in D : i = j \/ i < j \/ j < i
      BY <1>1
    <3>2. QED
      BY <1>2, <3>1
  <2>2. f \in Injection(D, D)
    BY <2>1 DEF Injection, IsInjective
  <2>3. IsFiniteSet(D)
    BY <1>1, FS_Interval
  <2> HIDE DEF D
  <2>4. QED
    BY <2>2, <2>3, FS_Injection
<1>6. ASSUME NEW t PROVE Count(r, t) = Count(s, t)
  <2> DEFINE A == {i \in D : r[i] = t}
             B == {i \in D : s[i] = t}
             g == [i \in A |-> f[i]]
  <2>1. g \in [A -> B]
    BY <1>2
  <2>2. \A i, j \in A : g[i] = g[j] => i = j
    BY <1>5 DEF Injection, IsInjective
  <2>3. \A k \in B : \E i \in A : g[i] = k
    <3> SUFFICES ASSUME NEW k \in B PROVE \E i \in A : g[i] = k
      OBVIOUS
    <3>1. PICK i \in D : f[i] = k
      <4> HIDE DEF D
      <4>1. QED
        BY <1>5 DEF Surjection
    <3>2. i \in A
      BY <1>2, <3>1
    <3>3. QED
      BY <3>1, <3>2
  <2>4. IsFiniteSet(A)
    <3>1. IsFiniteSet(D) /\ A \in SUBSET D
      BY <1>1, FS_Interval
    <3> HIDE DEF A, D
    <3>2. QED
      BY <3>1, FS_Subset
  <2> HIDE DEF A, B, g
  <2>5. g \in Bijection(A, B)
    BY <2>1, <2>2, <2>3 DEF Bijection, Injection, Surjection, IsInjective
  <2>6. ExistsBijection(A, B)
    BY <2>5 DEF ExistsBijection
  <2>7. Cardinality(A) = Cardinality(B)
    BY <2>4, <2>6, FS_Bijection
  <2>8. Count(r, t) = Cardinality(A) /\ Count(s, t) = Cardinality(B)
    <3>1. DOMAIN r = D /\ DOMAIN s = D
      BY <1>1, <1>2
    <3> HIDE DEF D
    <3>2. QED
      BY <3>1 DEF Count, A, B
  <2>9. QED
    BY <2>7, <2>8
<1>7. QED
  BY <1>3, <1>4, <1>6

-----------------------------------------------------------------------------
(* The builder *)

\* A list has the tokens that were asked for, but for those without length.
Carries(s, h) ==
  \A t \in Token : Count(s, t) = IF t.length = 0 THEN 0 ELSE Count(h, t)

\* The builder has what was pushed since it was cleared; what it built are the
\* deltas of a sorted list of what had been pushed then.
KInv ==
  /\ tokens \in Seq(Token) /\ asked \in Seq(Token) /\ told \in Seq(Token)
  /\ Carries(tokens, asked)
  /\ \E s \in Seq(Token) : Ordered(s) /\ Carries(s, told) /\ data = Deltas(s)

\* Each call keeps that.
LEMMA AlwaysCarried == TokenSpec => []KInv
<1>1. TokenInit => KInv
  <2> SUFFICES ASSUME TokenInit PROVE KInv
    OBVIOUS
  <2>1. <<>> \in Seq(Token) /\ Ordered(<<>>) /\ Carries(<<>>, <<>>)
    BY Counting DEF Ordered, Carries
  <2>2. Deltas(<<>>) \in Seq({}) /\ Len(Deltas(<<>>)) = 0
    BY DEF Deltas
  <2>3. Deltas(<<>>) = <<>>
    BY <2>2, EmptySeq
  <2>4. QED
    BY <2>1, <2>3 DEF TokenInit, KInv
<1>2. KInv /\ [TokenNext]_tokenVars => KInv'
  <2> SUFFICES ASSUME KInv, [TokenNext]_tokenVars PROVE KInv'
    OBVIOUS
  <2>1. ASSUME NEW token \in Token, Push(token) PROVE KInv'
    <3>1. /\ asked' = Append(asked, token)
          /\ tokens' = IF token.length = 0 THEN tokens ELSE Append(tokens, token)
          /\ data' = data /\ told' = told
      BY <2>1 DEF Push
    <3>2. tokens' \in Seq(Token) /\ asked' \in Seq(Token)
      BY <3>1, AppendProperties DEF KInv
    <3>3. Carries(tokens', asked')
      <4> SUFFICES ASSUME NEW t \in Token
                   PROVE  Count(tokens', t) =
                            IF t.length = 0 THEN 0 ELSE Count(asked', t)
        BY DEF Carries
      <4>1. Count(tokens, t) = IF t.length = 0 THEN 0 ELSE Count(asked, t)
        BY DEF KInv, Carries
      <4>2. /\ Count(Append(tokens, token), t) =
                 IF token = t THEN Count(tokens, t) + 1 ELSE Count(tokens, t)
            /\ Count(asked', t) = IF token = t THEN Count(asked, t) + 1 ELSE Count(asked, t)
        BY <3>1, Counting DEF KInv
      <4>3. QED
        BY <3>1, <4>1, <4>2
    <3>4. QED
      BY <3>1, <3>2, <3>3 DEF KInv
  <2>2. CASE Clear
    <3>1. tokens' = <<>> /\ asked' = <<>> /\ data' = data /\ told' = told
      BY <2>2 DEF Clear
    <3>2. <<>> \in Seq(Token) /\ Carries(<<>>, <<>>)
      BY Counting DEF Carries
    <3>3. QED
      BY <3>1, <3>2 DEF KInv
  <2>3. CASE Build
    <3>1. PICK s \in Sortings(tokens) :
            tokens' = s /\ data' = Deltas(s) /\ told' = asked /\ asked' = asked
      BY <2>3 DEF Build
    <3>2. s \in Seq(Token) /\ Ordered(s) /\ \A t : Count(s, t) = Count(tokens, t)
      BY Rearranged DEF KInv
    <3>3. Carries(s, asked)
      BY <3>2 DEF KInv, Carries
    <3>4. QED
      BY <3>1, <3>2, <3>3 DEF KInv
  <2>4. CASE UNCHANGED tokenVars
    BY <2>4 DEF KInv, tokenVars
  <2>5. QED
    BY <2>1, <2>2, <2>3, <2>4 DEF TokenNext
<1>3. QED
  BY <1>1, <1>2, PTL DEF TokenSpec

\* A client decodes what was pushed, whenever build was called: its sums undo the
\* deltas of a sorted list, and sorting neither loses nor repeats a token.
THEOREM TokensReachClient == TokenSpec => []ClientDecodesPushed
<1>1. KInv => ClientDecodesPushed
  <2> SUFFICES ASSUME KInv PROVE ClientDecodesPushed
    OBVIOUS
  <2>1. PICK s \in Seq(Token) : Ordered(s) /\ Carries(s, told) /\ data = Deltas(s)
    BY DEF KInv
  <2>2. Decode(data) = s
    BY <2>1, Decoded
  <2>3. DOMAIN s = 1 .. Len(s) /\ \A i \in DOMAIN s : s[i] \in Token
    BY ElementOfSeq, LenProperties
  <2>4. told \in Seq(Token) /\ \A i \in DOMAIN told : told[i] \in Token
    BY ElementOfSeq, LenProperties DEF KInv
  <2>5. ASSUME NEW t \in Range(s) \cup Range(told)
        PROVE  Count(s, t) = IF t.length = 0 THEN 0 ELSE Count(told, t)
    <3>1. t \in Token
      BY <2>3, <2>4 DEF Range
    <3>2. QED
      BY <2>1, <3>1 DEF Carries
  <2>6. ASSUME NEW i \in DOMAIN s, NEW j \in DOMAIN s, i < j
        PROVE  \/ s[i].line < s[j].line
               \/ s[i].line = s[j].line /\ s[i].startChar <= s[j].startChar
    <3>1. ~TokenBefore(s[j], s[i])
      BY <2>1, <2>6 DEF Ordered
    <3>2. /\ s[i].line \in 0 .. Modulus - 1 /\ s[i].startChar \in 0 .. Modulus - 1
          /\ s[j].line \in 0 .. Modulus - 1 /\ s[j].startChar \in 0 .. Modulus - 1
          /\ Modulus \in Nat
      BY <2>3, Places32, TokenAssumption
    <3>3. QED
      BY <3>1, <3>2 DEF TokenBefore
  <2>7. QED
    BY <2>2, <2>5, <2>6 DEF ClientDecodesPushed
<1>2. QED
  BY <1>1, AlwaysCarried, PTL

-----------------------------------------------------------------------------
(* The members of the structs *)

\* What to_json writes from_json reads as the same.
Kept(row) ==
  /\ \A shape \in Held(row.type) :
       ReadMember(row, shape) = shape /\ shape \notin {Absent, "throws"}
  /\ row.skipped # {} => ReadMember(row, row.blank) = Absent

\* A member that may be left out may be null.
NullSkipped(row) == Absent \in row.skipped => "null" \in row.skipped

Good(row) == Kept(row) /\ NullSkipped(row)

\* Data of any shape, where null is nothing.
AnyData == {<<"Diagnostic", "data">>, <<"InitializeParams", "initializationOptions">>}

\* What is known of a member: nothing out of the ordinary, or which exception.
Regular(struct, m, row) ==
  /\ <<struct, m>> \in AnyData => row = Optional("any")
  /\ <<struct, m>> \in NullIsKept => row = IfPresent("any")
  /\ <<struct, m>> \in NullThrows =>
       \E t \in {"object", "string", "array"} : row = IfPresent(t)
  /\ <<struct, m>> \notin AnyData \cup NullIsKept \cup NullThrows => Good(row)

RegularStruct(struct, rows) == \A m \in DOMAIN rows : Regular(struct, m, rows[m])

AllRegular(structs) ==
  \A struct \in DOMAIN structs :
    struct # "none" /\ RegularStruct(struct, structs[struct])

\* The header files use from_json and to_json in a few forms only, with six
\* exceptions.
LEMMA Rows ==
  AllRegular(Structs) /\ "InitializeParams" \notin DOMAIN (BothWays ++ OnlyWritten)
<1>1. \A t \in {"int", "bool", "string", "array", "object"} : Good(Required(t))
  BY DEF Good, Kept, NullSkipped, Required, Row, ReadMember, Takes, Made, Held, Absent
<1>2. \A t \in {"int", "bool", "string", "array", "object", "list", "text"} :
        Good(Optional(t))
  BY DEF Good, Kept, NullSkipped, Optional, Row, ReadMember, Takes, Made, Held, Absent
<1>3. Good(IfArray) /\ Good(IfObject)
  BY DEF Good, Kept, NullSkipped, IfArray, IfObject, If, Row, ReadMember, Takes,
     Made, Held, Absent, Shapes
<1>4. \A row \in {If({"int", "string", "unknown"}, "code"),
                  If({"string", "unknown"}, "string"), MarkupContent.kind} : Good(row)
  BY DEF Good, Kept, NullSkipped, MarkupContent, If, Row, ReadMember, Takes, Made,
     Held, Absent, Shapes
<1> DEFINE Peculiar == {"CompletionItem", "Diagnostic", "InitializeParams", "ClientInfo", "General", "none"}
           Plainly(structs) == \A s \in DOMAIN structs :
             s \notin Peculiar /\ \A m \in DOMAIN structs[s] : Good(structs[s][m])
           NotRead(structs) ==
             AllRegular(structs) /\ "InitializeParams" \notin DOMAIN structs
<1>5. ASSUME NEW structs, Plainly(structs)
      PROVE  NotRead(structs)
  BY <1>5 DEF Regular, RegularStruct, AllRegular, AnyData, NullIsKept, NullThrows
<1>6. ASSUME NEW f, NEW g
      PROVE  /\ AllRegular(f) /\ AllRegular(g) => AllRegular(f ++ g)
             /\ NotRead(f) /\ NotRead(g) => NotRead(f ++ g)
  BY DEF AllRegular, ++
<1>7. NotRead(BothWays)
  <2>1. Plainly(Basic)
    BY <1>1 DEF Basic
  <2>2. Plainly(HoverTypes)
    BY <1>1, <1>2, <1>4 DEF HoverTypes, MarkupContent, PlaceParams
  <2>3. Plainly(Completion)
    BY <1>1, <1>2 DEF Completion, PlaceParams, ++
  <2>4. Plainly(Diagnostics) /\ Plainly(Publishing)
    BY <1>1, <1>2 DEF Diagnostics, Publishing
  <2>5. Plainly(Tokens)
    BY <1>1, <1>4 DEF Tokens
  <2>6. RegularStruct("CompletionItem", CompletionItem)
    BY <1>1, <1>2, <1>3 DEF CompletionItem, RegularStruct, Regular, AnyData,
       NullIsKept, NullThrows
  <2>7. RegularStruct("Diagnostic", Diagnostic)
    BY <1>1, <1>2, <1>4 DEF Diagnostic, RegularStruct, Regular, AnyData, NullIsKept, NullThrows
  <2>8. /\ RegularStruct("CompletionList", CompletionList)
        /\ RegularStruct("TextDocumentIdentifier", Documents.TextDocumentIdentifier)
    BY <1>1 DEF CompletionList, Documents, RegularStruct, Regular, AnyData, NullIsKept, NullThrows
  <2>9. NotRead([TextDocumentIdentifier |-> Documents.TextDocumentIdentifier,
          CompletionItem |-> CompletionItem, CompletionList |-> CompletionList,
          Diagnostic |-> Diagnostic])
    BY <2>6, <2>7, <2>8 DEF AllRegular
  <2>10. QED
    <3> HIDE DEF Plainly, NotRead
    <3> QED
      BY <2>1, <2>2, <2>3, <2>4, <2>5, <2>9, <1>5, <1>6 DEF BothWays
<1>8. AllRegular(OnlyRead)
  <2>1. Plainly(Documents)
    BY <1>1, <1>2 DEF Documents, TextDocumentItem
  <2>2. Plainly(Sync)
    BY <1>1, <1>2 DEF Sync
  <2>3. AllRegular(Initialize)
    BY <1>1, <1>2, <1>3 DEF Initialize, AllRegular, RegularStruct, Regular, AnyData,
       NullIsKept, NullThrows
  <2>4. AllRegular(ClientCapabilities)
    BY <1>3 DEF ClientCapabilities, AllRegular, RegularStruct, Regular, AnyData,
       NullIsKept, NullThrows
  <2>5. QED
    BY <2>1, <2>2, <2>3, <2>4, <1>5, <1>6 DEF OnlyRead
<1>9. NotRead(OnlyWritten)
  <2>1. Plainly(ProviderOptions)
    BY <1>1, <1>2 DEF ProviderOptions
  <2>2. Plainly(InitializeResult)
    BY <1>1, <1>2 DEF InitializeResult
  <2>3. \A m \in DOMAIN ServerCapabilities : Good(ServerCapabilities[m])
    BY <1>2 DEF ServerCapabilities, ++
  <2>4. Plainly([ServerCapabilities |-> ServerCapabilities])
    BY <2>3
  <2>5. QED
    <3> HIDE DEF Plainly, NotRead
    <3> QED
      BY <2>1, <2>2, <2>4, <1>5, <1>6 DEF OnlyWritten
<1>10. NotRead(BothWays ++ OnlyWritten)
  <2> HIDE DEF NotRead
  <2> QED
    BY <1>6, <1>7, <1>9
<1>11. QED
  BY <1>6, <1>7, <1>8, <1>9, <1>10 DEF Structs

-----------------------------------------------------------------------------
(* The invariant *)

\* An object, or a value, has the members of its struct.
HasMembers ==
  type # "none" =>
    /\ type \in DOMAIN Structs
    /\ members = [m \in DOMAIN Structs[type] |-> members[m]]

LEMMA Inductive == TypeSpec => []HasMembers
<1>1. TypeInit => HasMembers
  BY DEF TypeInit, HasMembers
<1>2. HasMembers /\ [TypeNext]_typeVars => HasMembers'
  <2> SUFFICES ASSUME HasMembers, [TypeNext]_typeVars PROVE HasMembers'
    OBVIOUS
  <2>1. CASE Choose
    BY <2>1 DEF Choose, Plain, HasMembers
  <2>2. CASE SetMember
    BY <2>2 DEF SetMember, HasMembers
  <2>3. CASE UNCHANGED typeVars
    BY <2>3 DEF typeVars, HasMembers
  <2>4. QED
    BY <2>1, <2>2, <2>3 DEF TypeNext
<1>3. QED
  BY <1>1, <1>2, PTL DEF TypeSpec

-----------------------------------------------------------------------------
(* Theorems *)

(***************************************************************************)
(* Whatever members of a struct are set, and whichever alternatives they   *)
(* hold, what to_json writes from_json reads as the same value, but for a  *)
(* Diagnostic's data that is null.                                         *)
(***************************************************************************)
THEOREM RoundTrip == TypeSpec => []WrittenIsRead
<1>1. ASSUME HasMembers PROVE WrittenIsRead
  <2> DEFINE struct == Structs[type]
             json == ToJson(struct, members)
  <2> SUFFICES ASSUME type \in DOMAIN (BothWays ++ OnlyWritten), IsValue(struct)
               PROVE  FromJson(struct, json) =
                        IF type = "Diagnostic" /\ members["data"] = "null"
                        THEN [members EXCEPT !["data"] = Absent] ELSE members
    BY DEF WrittenIsRead
  <2>1. type \in DOMAIN Structs /\ type # "InitializeParams"
    BY Rows DEF Structs, ++
  <2>2. members = [m \in DOMAIN struct |-> members[m]]
    BY <1>1, <2>1, Rows DEF HasMembers, AllRegular
  <2> DEFINE lost(m) == type = "Diagnostic" /\ m = "data" /\ members[m] = "null"
  <2>3. ASSUME NEW m \in DOMAIN struct
        PROVE  /\ ReadMember(struct[m], json[m]) = IF lost(m) THEN Absent ELSE members[m]
               /\ ReadMember(struct[m], json[m]) # "throws"
    <3>1. Regular(type, m, struct[m])
      BY <2>1, Rows DEF AllRegular, RegularStruct
    <3>2. \/ members[m] \in Held(struct[m].type)
          \/ members[m] = Absent /\ struct[m].skipped # {}
      BY DEF IsValue
    <3>3. json[m] = IF members[m] = Absent THEN struct[m].blank ELSE members[m]
      BY DEF ToJson
    <3>4. CASE Kept(struct[m]) /\ ~lost(m)
      BY <3>2, <3>3, <3>4 DEF Kept, Absent
    <3>5. CASE <<type, m>> \in AnyData
      <4>1. struct[m] = Optional("any") /\ type = "Diagnostic" /\ m = "data"
        BY <3>1, <3>5, <2>1 DEF Regular, AnyData
      <4>2. members[m] \in Shapes \/ members[m] = Absent
        BY <3>2, <4>1 DEF Optional, Row, Held, Made, Takes
      <4>3. QED
        BY <3>3, <4>1, <4>2 DEF Optional, Row, ReadMember, Made, Takes, Shapes, Absent
    <3>6. ASSUME NEW t \in {"string", "array", "object", "any"} PROVE Kept(IfPresent(t))
      BY DEF Kept, IfPresent, Row, ReadMember, Takes, Made, Held, Absent, Shapes
    <3>7. QED
      BY <3>1, <3>4, <3>5, <3>6 DEF Regular, Good, AnyData, NullIsKept
  <2>4. FromJson(struct, json) = [m \in DOMAIN struct |-> IF lost(m) THEN Absent ELSE members[m]]
    BY <2>3 DEF FromJson, Throws
  <2>5. QED
    BY <2>2, <2>4
<1>2. QED
  BY <1>1, Inductive, PTL

(***************************************************************************)
(* Whatever else is in an object, null for a member that may be left out   *)
(* is read as if it were not there, but for the members whose presence     *)
(* alone is tested: a CompletionItem's data stays null, and three members  *)
(* of what initialize reads throw.                                         *)
(***************************************************************************)
THEOREM NullAsAbsent == TypeSpec => []NullIsAbsent
<1>1. ASSUME HasMembers PROVE NullIsAbsent
  <2> DEFINE struct == Structs[type]
             with(m, shape) == [members EXCEPT ![m] = shape]
             With(m, shape) == FromJson(struct, with(m, shape))
  <2> SUFFICES ASSUME type \in DOMAIN (BothWays ++ OnlyRead),
                      NEW m \in DOMAIN struct, Absent \in struct[m].skipped
               PROVE  With(m, "null") =
                        CASE <<type, m>> \in NullThrows -> [k \in DOMAIN struct |-> "throws"]
                          [] <<type, m>> \in NullIsKept ->
                               IF With(m, Absent)[m] = "throws" THEN With(m, Absent)
                               ELSE [With(m, Absent) EXCEPT ![m] = "null"]
                          [] OTHER -> With(m, Absent)
    BY DEF NullIsAbsent
  <2>1. type \in DOMAIN Structs /\ type # "none"
    BY Rows DEF Structs, AllRegular, ++
  <2>2. Regular(type, m, struct[m])
    BY <2>1, Rows DEF AllRegular, RegularStruct
  <2>3. \A shape, k : k \in DOMAIN struct =>
          with(m, shape)[k] = IF k = m THEN shape ELSE members[k]
    BY <1>1, <2>1 DEF HasMembers
  <2> HIDE DEF with, struct
  <2>4. ReadMember(struct[m], Absent) = Absent
    BY DEF ReadMember
  <2>5. CASE <<type, m>> \in NullThrows
    <3>1. ReadMember(struct[m], "null") = "throws"
      BY <2>2, <2>5 DEF Regular, IfPresent, Row, ReadMember, Takes, Absent
    <3>2. With(m, "null") = [k \in DOMAIN struct |-> "throws"]
      BY <2>3, <3>1 DEF FromJson, Throws
    <3>3. <<type, m>> \notin NullIsKept
      BY <2>5 DEF NullIsKept, NullThrows
    <3>4. QED
      BY <2>5, <3>2, <3>3
  <2>6. CASE <<type, m>> \in NullIsKept
    <3>1. ReadMember(struct[m], "null") = "null"
      BY <2>2, <2>6 DEF Regular, IfPresent, Row, ReadMember, Takes, Made, Shapes, Absent
    <3>2. Throws(struct, with(m, "null")) <=> Throws(struct, with(m, Absent))
      BY <2>3, <2>4, <3>1 DEF Throws, Absent
    <3>3. <<type, m>> \notin NullThrows
      BY <2>6 DEF NullIsKept, NullThrows
    <3>4. CASE Throws(struct, with(m, Absent))
      <4>1. With(m, "null") = With(m, Absent) /\ With(m, Absent)[m] = "throws"
        BY <3>2, <3>4 DEF FromJson
      <4>2. QED
        BY <2>6, <3>3, <4>1
    <3>5. CASE ~Throws(struct, with(m, Absent))
      <4>1. With(m, "null") = [With(m, Absent) EXCEPT ![m] = "null"]
        <5>1. \A k \in DOMAIN struct :
                ReadMember(struct[k], with(m, "null")[k]) =
                  IF k = m THEN "null" ELSE ReadMember(struct[k], with(m, Absent)[k])
          BY <2>3, <3>1
        <5>2. /\ With(m, "null") =
                   [k \in DOMAIN struct |-> ReadMember(struct[k], with(m, "null")[k])]
              /\ With(m, Absent) =
                   [k \in DOMAIN struct |-> ReadMember(struct[k], with(m, Absent)[k])]
          BY <3>2, <3>5 DEF FromJson
        <5> HIDE DEF With
        <5>3. QED
          BY <5>1, <5>2
      <4>2. With(m, Absent)[m] # "throws"
        BY <2>3, <2>4, <3>5 DEF FromJson, Absent
      <4>3. QED
        BY <2>6, <3>3, <4>1, <4>2
    <3>6. QED
      BY <3>4, <3>5
  <2>7. CASE <<type, m>> \notin NullIsKept \cup NullThrows
    <3>1. "null" \in struct[m].skipped
      BY <2>2, <2>7 DEF Regular, Good, NullSkipped, Optional, Row
    <3>2. ReadMember(struct[m], "null") = Absent
      BY <3>1 DEF ReadMember
    <3>3. \A k \in DOMAIN struct : ReadMember(struct[k], with(m, "null")[k]) =
                                  ReadMember(struct[k], with(m, Absent)[k])
      BY <2>3, <2>4, <3>2
    <3>4. With(m, "null") = With(m, Absent)
      BY <3>3 DEF FromJson, Throws
    <3>5. QED
      BY <2>7, <3>4
  <2>8. QED
    BY <2>5, <2>6, <2>7
<1>2. QED
  BY <1>1, Inductive, PTL
=============================================================================
