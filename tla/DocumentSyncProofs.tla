------------------------- MODULE DocumentSyncProofs -------------------------
(***************************************************************************)
(* Theorems of DocumentSync, for any documents, handlers, notifications    *)
(* and changes: its types, the pointers that IDocumentStore::get returns,  *)
(* and what the store and onDocumentSaved have to do with the text of the  *)
(* client.  DInv is inductive, and SInv is with it.                        *)
(***************************************************************************)
EXTENDS DocumentSync, TextPositionsProofs

-----------------------------------------------------------------------------
(* Edits *)

\* What an edit is in the characters of a client, it is in the bytes of the store.
LEMMA ReplaceEncoded ==
  ASSUME NEW c \in Seq(Characters), NEW new \in Seq(Characters),
         NEW i \in 0 .. Len(c), NEW j \in 0 .. Len(c), i <= j
  PROVE  /\ ReplaceChars(c, i, j, new) \in Seq(Characters)
         /\ ReplaceBytes(Encode(c), OffsetAt(c, i), OffsetAt(c, j), Encode(new)) =
              Encode(ReplaceChars(c, i, j, new))
<1> DEFINE n == Len(c)
           a == SubSeq(c, 1, i)
           b == SubSeq(c, j + 1, n)
           t == Encode(c)
           from == OffsetAt(c, i)
           to == OffsetAt(c, j)
<1>1. n \in Nat
  BY LenProperties
<1>2. /\ a \in Seq(Characters) /\ b \in Seq(Characters) /\ SubSeq(c, 1, j) \in Seq(Characters)
      /\ SubSeq(c, i + 1, n) \in Seq(Characters)
  <2>1. \A k \in 1 .. n : c[k] \in Characters
    BY ElementOfSeq
  <2>2. QED
    BY <1>1, <2>1, SubSeqProperties
<1>3. c = a \o SubSeq(c, i + 1, n) /\ c = SubSeq(c, 1, j) \o b
  <2>1. ASSUME NEW k \in 0 .. n PROVE c = SubSeq(c, 1, k) \o SubSeq(c, k + 1, n)
    <3>1. 1 \in 1 .. n + 1 /\ k \in 1 - 1 .. n /\ n \in k .. n
      BY <1>1
    <3>2. SubSeq(c, 1, k) \o SubSeq(c, k + 1, n) = SubSeq(c, 1, n)
      BY <3>1, ConcatAdjacentSubSeq
    <3>3. SubSeq(c, 1, n) = c
      BY SubSeqFull
    <3>4. QED
      BY <3>2, <3>3
  <2>2. QED
    BY <2>1
<1> HIDE DEF a, b
<1>4. /\ t = Encode(a) \o Encode(SubSeq(c, i + 1, n))
      /\ t = Encode(SubSeq(c, 1, j)) \o Encode(b)
      /\ Encode(a) \in Seq(Bytes) /\ Encode(b) \in Seq(Bytes) /\ Encode(new) \in Seq(Bytes)
      /\ Encode(SubSeq(c, i + 1, n)) \in Seq(Bytes) /\ Encode(SubSeq(c, 1, j)) \in Seq(Bytes)
      /\ Encode(a \o new \o b) = Encode(a) \o Encode(new) \o Encode(b)
      /\ a \o new \o b \in Seq(Characters)
  <2>1. /\ t = Encode(a) \o Encode(SubSeq(c, i + 1, n))
        /\ t = Encode(SubSeq(c, 1, j)) \o Encode(b)
    BY <1>2, <1>3, Encoding
  <2>2. a \o new \in Seq(Characters) /\ (a \o new) \o b \in Seq(Characters)
    BY <1>2, ConcatProperties
  <2>3. Encode((a \o new) \o b) = (Encode(a) \o Encode(new)) \o Encode(b)
    BY <1>2, <2>2, Encoding
  <2>4. QED
    BY <1>2, <2>1, <2>2, <2>3, Encoding
<1>5. from = Len(Encode(a)) /\ to = Len(Encode(SubSeq(c, 1, j)))
  BY DEF OffsetAt, a
<1>6. from \in Nat /\ to \in Nat /\ from <= to /\ to <= Len(t) /\ Len(t) \in Nat /\ t \in Seq(Bytes)
  BY <1>1, Offsets, LenProperties
<1> HIDE DEF t, from, to
<1>7. ASSUME NEW x \in Seq(Bytes), NEW y \in Seq(Bytes)
      PROVE  /\ SubSeq(x \o y, 1, Len(x)) = x
             /\ SubSeq(x \o y, Len(x) + 1, Len(x \o y)) = y
  OBVIOUS
<1>8. SubSeq(t, 1, from) = Encode(a) /\ SubSeq(t, to + 1, Len(t)) = Encode(b)
  <2> DEFINE x == Encode(a)
             y == Encode(SubSeq(c, i + 1, n))
             v == Encode(SubSeq(c, 1, j))
             w == Encode(b)
  <2>1. /\ x \in Seq(Bytes) /\ y \in Seq(Bytes) /\ v \in Seq(Bytes) /\ w \in Seq(Bytes)
        /\ t = x \o y /\ t = v \o w /\ from = Len(x) /\ to = Len(v)
    BY <1>4, <1>5
  <2> HIDE DEF x, y, v, w
  <2>2. SubSeq(x \o y, 1, Len(x)) = x /\ SubSeq(v \o w, Len(v) + 1, Len(v \o w)) = w
    BY <1>7, <2>1
  <2>3. QED
    BY <2>1, <2>2 DEF x, w
<1>9. from + (IF to < from THEN Len(t) - from ELSE Min({to - from, Len(t) - from})) = to
  <2>1. Min({to - from, Len(t) - from}) = to - from
    BY <1>6 DEF Min
  <2>2. QED
    BY <1>6, <2>1
<1>10. ReplaceBytes(t, from, to, Encode(new)) = Encode(a) \o Encode(new) \o Encode(b)
  BY <1>8, <1>9 DEF ReplaceBytes
<1>11. ReplaceChars(c, i, j, new) = a \o new \o b
  BY DEF ReplaceChars, a, b
<1>12. QED
  BY <1>4, <1>10, <1>11 DEF t, from, to

\* A change of a client leaves it a text.
LEMMA EditIsText ==
  ASSUME agreed \in Encodings, NEW c \in Seq(Characters), NEW change \in Changes
  PROVE  Edit(c, change) \in Seq(Characters)
<1>1. change.range \in Ranges \cup {Whole} /\ change.text \in Seq(Characters)
  BY SyncAssumption DEF Changes
<1>2. CASE change.range = Whole
  BY <1>1, <1>2 DEF Edit
<1>3. CASE change.range # Whole
  <2> DEFINE p == change.range[1]
             q == change.range[2]
  <2>1. /\ p \in [line : Nat, character : Nat] /\ q \in [line : Nat, character : Nat]
        /\ Before(p, q)
    BY <1>1, <1>3, SyncAssumption DEF Ranges
  <2> HIDE DEF p, q
  <2>2. /\ PlaceOf(c, p, agreed) \in 0 .. Len(c) /\ PlaceOf(c, q, agreed) \in 0 .. Len(c)
        /\ PlaceOf(c, p, agreed) <= PlaceOf(c, q, agreed)
    BY <2>1, PlaceNamed
  <2>3. ReplaceChars(c, PlaceOf(c, p, agreed), PlaceOf(c, q, agreed), change.text) \in
          Seq(Characters)
    BY <1>1, <2>2, ReplaceEncoded
  <2>4. QED
    BY <1>3, <2>3 DEF Edit, p, q
<1>4. QED
  BY <1>2, <1>3

\* The text after some changes is that after one less, changed once more.
LEMMA EditedStep ==
  ASSUME agreed \in Encodings, NEW c \in Seq(Characters), NEW m \in Nat,
         NEW ch \in [1 .. m -> Changes]
  PROVE  /\ Edited(c, ch, 0) = c
         /\ \A k \in 0 .. m : Edited(c, ch, k) \in Seq(Characters)
         /\ \A k \in 1 .. m : Edited(c, ch, k) = Edit(Edited(c, ch, k - 1), ch[k])
<1> DEFINE V == Seq(Characters)
           Def(f, k) == [i \in 0 .. k |-> IF i = 0 THEN c ELSE Edit(f[i - 1], ch[i])]
           Is(f, k) == \A i \in 0 .. k : f[i] = IF i = 0 THEN c ELSE Edit(f[i - 1], ch[i])
           Draft(k) == CHOOSE f : f = Def(f, k)
<1>1. \A x \in V, k \in 1 .. m : Edit(x, ch[k]) \in V
  BY EditIsText
<1> HIDE DEF V
<1>2. ASSUME NEW k \in 0 .. m
      PROVE  /\ Is(Draft(k), k) /\ Edited(c, ch, k) = Draft(k)[k]
             /\ \A i \in 0 .. k : Draft(k)[i] \in V
  <2> DEFINE X == 0 .. k
             size == [i \in X |-> i]
             before == [i \in X |-> IF i = 0 THEN 0 ELSE i - 1]
             base == [i \in X |-> c]
             step == [p \in X \X V |-> IF p[1] = 0 THEN c ELSE Edit(p[2], ch[p[1]])]
  <2>1. RecursionOn(X, V, size, before, base, step)
    <3>1. size \in [X -> Nat] /\ before \in [X -> X] /\ base \in [X -> V]
      BY DEF V
    <3>2. step \in [X \X V -> V]
      <4>1. ASSUME NEW p \in X \X V
            PROVE  (IF p[1] = 0 THEN c ELSE Edit(p[2], ch[p[1]])) \in V
        <5>1. p[1] \in X /\ p[2] \in V /\ c \in V
          BY DEF V
        <5>2. p[1] # 0 => Edit(p[2], ch[p[1]]) \in V
          BY <1>1, <5>1
        <5>3. QED
          BY <5>1, <5>2
      <4>2. QED
        BY <4>1, Zenon
    <3>3. \A i \in X : size[i] # 0 => size[before[i]] < size[i]
      OBVIOUS
    <3> HIDE DEF size, before, base, step, X
    <3>4. QED
      BY <3>1, <3>2, <3>3 DEF RecursionOn
  <2>2. PICK f \in [X -> V] : Follows(f, X, size, before, base, step)
    <3> HIDE DEF size, before, base, step, X
    <3>1. QED
      BY <2>1, Recursion
  <2>3. Is(f, k)
    <3> SUFFICES ASSUME NEW i \in X
                 PROVE  f[i] = IF i = 0 THEN c ELSE Edit(f[i - 1], ch[i])
      OBVIOUS
    <3>1. f[i] = IF size[i] = 0 THEN base[i] ELSE step[<<i, f[before[i]]>>]
      <4> HIDE DEF size, before, base, step
      <4>1. QED
        BY <2>2 DEF Follows
    <3>2. base[i] = c /\ size[i] = i
      OBVIOUS
    <3>3. ASSUME i # 0 PROVE step[<<i, f[before[i]]>>] = Edit(f[i - 1], ch[i])
      <4>1. before[i] = i - 1 /\ f[i - 1] \in V
        BY <3>3
      <4> HIDE DEF before
      <4>2. QED
        BY <3>3, <4>1
    <3> HIDE DEF size, before, base, step
    <3>4. QED
      BY <3>1, <3>2, <3>3
  <2>4. f = Def(f, k)
    BY <2>3
  <2>5. Draft(k) = Def(Draft(k), k)
    <3> HIDE DEF Def
    <3>1. QED
      BY <2>4
  <2>6. Edited(c, ch, k) = Draft(k)[k]
    BY DEF Edited
  <2> HIDE DEF Draft
  <2>7. Is(Draft(k), k)
    BY <2>5
  <2>8. \A i \in 0 .. k : Draft(k)[i] \in V
    <3> DEFINE Fails == {i \in 0 .. k : Draft(k)[i] \notin V}
    <3>1. SUFFICES ASSUME Fails # {} PROVE FALSE
      OBVIOUS
    <3>2. PICK i \in Fails : \A n \in Fails : i <= n
      <4>1. Fails \subseteq Nat
        OBVIOUS
      <4> HIDE DEF Fails
      <4>2. QED
        BY <3>1, <4>1, Least
    <3>3. Draft(k)[i] = IF i = 0 THEN c ELSE Edit(Draft(k)[i - 1], ch[i])
      BY <2>7
    <3>4. i # 0 => i - 1 \in 0 .. k /\ i - 1 \notin Fails
      BY <3>2
    <3>5. i # 0 => Draft(k)[i - 1] \in V /\ i \in 1 .. m
      BY <3>4
    <3>6. Draft(k)[i] \in V
      <4>1. c \in V
        BY DEF V
      <4>2. QED
        BY <1>1, <3>3, <3>5, <4>1
    <3>7. QED
      BY <3>2, <3>6
  <2>9. QED
    BY <2>6, <2>7, <2>8
<1> HIDE DEF Draft
<1>3. ASSUME NEW k \in 0 .. m, NEW n \in 0 .. k
      PROVE  Draft(n)[n] = Draft(k)[n]
  <2> DEFINE Fails == {i \in 0 .. n : Draft(n)[i] # Draft(k)[i]}
  <2>1. SUFFICES ASSUME Fails # {} PROVE FALSE
    OBVIOUS
  <2>2. PICK i \in Fails : \A j \in Fails : i <= j
    <3>1. Fails \subseteq Nat
      OBVIOUS
    <3> HIDE DEF Fails
    <3>2. QED
      BY <2>1, <3>1, Least
  <2>3. Is(Draft(n), n) /\ Is(Draft(k), k)
    BY <1>2
  <2>4. i # 0 => i - 1 \in 0 .. n /\ i - 1 \notin Fails
    BY <2>2
  <2>5. i # 0 => Draft(n)[i - 1] = Draft(k)[i - 1]
    BY <2>4
  <2>6. Draft(n)[i] = Draft(k)[i]
    BY <2>3, <2>5
  <2>7. QED
    BY <2>2, <2>6
<1>4. ASSUME NEW k \in 1 .. m
      PROVE  Edited(c, ch, k) = Edit(Edited(c, ch, k - 1), ch[k])
  <2>1. k \in 0 .. m /\ k - 1 \in 0 .. m /\ k - 1 \in 0 .. k /\ k # 0
    OBVIOUS
  <2>2. /\ Edited(c, ch, k) = Draft(k)[k] /\ Edited(c, ch, k - 1) = Draft(k - 1)[k - 1]
        /\ Draft(k)[k] = Edit(Draft(k)[k - 1], ch[k])
    BY <1>2, <2>1
  <2>3. QED
    BY <1>3, <2>1, <2>2
<1>5. QED
  BY <1>2, <1>4 DEF V

-----------------------------------------------------------------------------
(* The executor's queue, the entries of the store and the pointers to them *)

\* syncExecutor_ has the notifications that were not handled, in order: one
\* that it runs, and after it those in its queue.
InLog ==
  /\ log \in Seq(Notifications) /\ queue \in Seq(Nat) /\ Len(queue) <= Len(log)
  /\ \A i \in 1 .. Len(queue) : queue[i] = Len(log) - Len(queue) + i
  /\ running \in [{SyncWorker} -> Nat]
  /\ Current \in {None, Len(log) - Len(queue)}
  /\ Current = None <=> syncPc = "idle"
  /\ syncPc \in {"idle", "begin", "writing", "done"}
  /\ phase = "open"

Stored ==
  /\ documents = [uri \in Uris |-> documents[uri]]
  /\ \A uri \in Uris :
       /\ documents[uri] = [version |-> documents[uri].version,
                            text |-> documents[uri].text, node |-> documents[uri].node]
       /\ documents[uri].node \in Nat

\* Where a pointer no longer leads to the entry, the document was closed.
Pointed ==
  /\ pointer = [r \in Readers |-> pointer[r]]
  /\ \A r \in Readers : pointer[r] # Closed =>
       /\ pointer[r].uri \in Uris
       /\ pointer[r].node \in Nat \ {None}
       /\ pointer[r].since \in 0 .. Handled
       /\ \/ documents[pointer[r].uri].node = pointer[r].node
          \/ \E n \in pointer[r].since + 1 .. Handled :
               log[n].op = "close" /\ log[n].uri = pointer[r].uri

DInv == InLog /\ Stored /\ Pointed

LEMMA StrayChange ==
  \A t \in Inserts : <<[range |-> Whole, text |-> t]>> \in ChangeLists
<1> SUFFICES ASSUME NEW t \in Inserts PROVE <<[range |-> Whole, text |-> t]>> \in ChangeLists
  OBVIOUS
<1>1. [range |-> Whole, text |-> t] \in Changes
  BY DEF Changes
<1>2. <<[range |-> Whole, text |-> t]>> \in [1 .. 1 -> Changes]
  BY <1>1
<1>3. 1 \in 1 .. MaxChanges
  BY SyncAssumption
<1>4. QED
  BY <1>2, <1>3 DEF ChangeLists

LEMMA Inductive == Spec => []DInv
<1>1. Init => DInv
  <2>1. SUFFICES ASSUME Init PROVE DInv
    OBVIOUS
  <2>2. InLog
    BY <2>1 DEF Init, SyncExecutor!Init, InLog, Current, None
  <2>3. Stored
    BY <2>1 DEF Init, Stored, Closed, None
  <2>4. Pointed
    BY <2>1 DEF Init, Pointed, Closed
  <2>5. QED
    BY <2>2, <2>3, <2>4 DEF DInv
<1>2. DInv /\ [Next]_vars => DInv'
  <2> SUFFICES ASSUME DInv, [Next]_vars PROVE DInv'
    OBVIOUS
  <2>1. /\ InLog /\ Stored /\ Pointed
        /\ Len(log) \in Nat /\ Len(queue) \in Nat /\ Handled \in 0 .. Len(log)
    BY DEF DInv, InLog, Handled, None
  <2>2. ASSUME pointer' = pointer, Handled' \in Nat, Handled' >= Handled,
               \A n \in 1 .. Handled : log'[n] = log[n],
               \A uri \in Uris :
                 \/ documents'[uri].node = documents[uri].node
                 \/ documents[uri].node = None
                 \/ \E n \in Handled + 1 .. Handled' :
                      log'[n].op = "close" /\ log'[n].uri = uri
        PROVE  Pointed'
    <3>1. ASSUME NEW r \in Readers, pointer[r] # Closed
          PROVE  /\ pointer[r].since \in 0 .. Handled'
                 /\ \/ documents'[pointer[r].uri].node = pointer[r].node
                    \/ \E n \in pointer[r].since + 1 .. Handled' :
                         log'[n].op = "close" /\ log'[n].uri = pointer[r].uri
      <4> DEFINE uri == pointer[r].uri
                 since == pointer[r].since
      <4>1. /\ uri \in Uris /\ since \in 0 .. Handled /\ pointer[r].node # None
            /\ \/ documents[uri].node = pointer[r].node
               \/ \E n \in since + 1 .. Handled : log[n].op = "close" /\ log[n].uri = uri
        BY <2>1, <3>1 DEF Pointed
      <4> HIDE DEF uri, since
      <4>2. since \in 0 .. Handled'
        BY <2>1, <2>2, <4>1
      <4>3. CASE \E n \in since + 1 .. Handled : log[n].op = "close" /\ log[n].uri = uri
        <5>1. PICK n \in since + 1 .. Handled : log[n].op = "close" /\ log[n].uri = uri
          BY <4>3
        <5>2. n \in 1 .. Handled /\ n \in since + 1 .. Handled'
          BY <2>1, <2>2, <4>1, <5>1
        <5>3. QED
          BY <2>2, <4>2, <5>1, <5>2 DEF uri, since
      <4>4. CASE documents[uri].node = pointer[r].node /\
                 \E n \in Handled + 1 .. Handled' :
                   log'[n].op = "close" /\ log'[n].uri = uri
        <5>1. PICK n \in Handled + 1 .. Handled' :
                     log'[n].op = "close" /\ log'[n].uri = uri
          BY <4>4
        <5>2. n \in since + 1 .. Handled'
          BY <2>1, <2>2, <4>1, <5>1
        <5>3. QED
          BY <4>2, <5>1, <5>2 DEF uri, since
      <4>5. CASE documents[uri].node = pointer[r].node /\
                 documents'[uri].node = documents[uri].node
        BY <4>2, <4>5 DEF uri, since
      <4>6. QED
        BY <2>2, <4>1, <4>3, <4>4, <4>5
    <3>2. QED
      BY <2>1, <2>2, <3>1 DEF Pointed
  <2>3. ASSUME NEW announced \in Announced, Initialize(announced) PROVE DInv'
    <3>1. UNCHANGED <<documents, syncVars, queueVars, log, pointer>>
      BY <2>3 DEF Initialize
    <3>2. InLog' /\ Stored'
      BY <2>1, <3>1 DEF InLog, Stored, Current, syncVars, queueVars
    <3>3. Handled' = Handled
      BY <3>1 DEF Handled, Current, syncVars, queueVars
    <3>4. QED
      BY <2>1, <2>2, <3>1, <3>2, <3>3 DEF DInv
  <2>4. CASE ClientStep
    <3>1. PICK entry \in Notifications :
            /\ log' = Append(log, entry) /\ SyncExecutor!Submit(Num)
            /\ UNCHANGED <<storeVars, syncVars, pointer>>
      <4>1. ASSUME NEW op \in {"open", "change", "close", "save"}, NEW uri \in Uris,
                   NEW written \in Texts \cup {<<>>}, NEW changes \in ChangeLists \cup {<<>>},
                   Notify(op, uri, written, changes)
            PROVE  \E entry \in Notifications :
                     /\ log' = Append(log, entry) /\ SyncExecutor!Submit(Num)
                     /\ UNCHANGED <<storeVars, syncVars, pointer>>
        <5> DEFINE entry == [op |-> op, uri |-> uri, text |-> written, changes |-> changes]
        <5>1. entry \in Notifications
          BY DEF Notifications
        <5>2. QED
          BY <4>1, <5>1 DEF Notify
      <4>2. \E uri \in Uris :
              \/ \E t \in Texts : Notify("open", uri, t, <<>>)
              \/ \E changes \in ChangeLists : Notify("change", uri, <<>>, changes)
              \/ Notify("close", uri, <<>>, <<>>)
              \/ Notify("save", uri, <<>>, <<>>)
              \/ \E op \in {"change", "close", "save"}, t \in Inserts :
                   Notify(op, uri, <<>>,
                          IF op = "change" THEN <<[range |-> Whole, text |-> t]>> ELSE <<>>)
        BY <2>4 DEF ClientStep, DidOpen, DidChange, DidClose, DidSave, DidStray
      <4>3. QED
        BY <4>1, <4>2, StrayChange
    <3>2. /\ log' \in Seq(Notifications) /\ Len(log') = Len(log) + 1
          /\ \A n \in 1 .. Len(log) : log'[n] = log[n]
      BY <2>1, <3>1, AppendProperties DEF InLog
    <3>3. queue' = Append(queue, Len(log) + 1) /\ running' = running /\ phase' = phase
      BY <2>1, <3>1 DEF InLog, SyncExecutor!Submit, Num
    <3>4. /\ queue' \in Seq(Nat) /\ Len(queue') = Len(queue) + 1
          /\ \A i \in 1 .. Len(queue) : queue'[i] = queue[i]
          /\ queue'[Len(queue) + 1] = Len(log) + 1
      BY <2>1, <3>3, AppendProperties DEF InLog
    <3>5. InLog'
      <4>1. Len(log') - Len(queue') = Len(log) - Len(queue)
        BY <2>1, <3>2, <3>4
      <4>2. ASSUME NEW i \in 1 .. Len(queue') PROVE queue'[i] = Len(log') - Len(queue') + i
        <5>1. CASE i \in 1 .. Len(queue)
          BY <3>4, <4>1, <5>1 DEF InLog, DInv
        <5>2. CASE i = Len(queue) + 1
          BY <2>1, <3>4, <4>1, <5>2
        <5>3. QED
          BY <2>1, <3>4, <5>1, <5>2
      <4>3. /\ Len(queue') <= Len(log') /\ running' = running /\ syncPc' = syncPc
            /\ phase' = phase
        BY <2>1, <3>1, <3>2, <3>3, <3>4 DEF InLog, syncVars
      <4>4. QED
        BY <2>1, <3>2, <3>4, <4>1, <4>2, <4>3 DEF InLog, Current
    <3>6. Stored'
      BY <2>1, <3>1 DEF Stored, storeVars
    <3>7. Handled' = Handled
      BY <2>1, <3>1, <3>2, <3>3, <3>4 DEF Handled, Current, syncVars
    <3>8. Pointed'
      BY <2>1, <2>2, <3>1, <3>2, <3>7 DEF storeVars
    <3>9. QED
      BY <3>5, <3>6, <3>8 DEF DInv
  <2>5. CASE SyncStart
    <3>1. /\ queue # <<>> /\ Current = None
          /\ running' = [running EXCEPT ![SyncWorker] = Head(queue)]
          /\ queue' = Tail(queue) /\ syncPc' = "begin"
          /\ UNCHANGED <<phase, documents, log, pointer>>
      BY <2>5 DEF SyncStart, SyncExecutor!Start, Current, storeVars, clientVars
    <3>2. /\ Head(queue) = queue[1] /\ Len(queue) >= 1
          /\ queue' \in Seq(Nat) /\ Len(queue') = Len(queue) - 1
          /\ \A i \in 1 .. Len(queue') : queue'[i] = queue[i + 1]
      BY <2>1, <3>1, HeadTailProperties DEF InLog
    <3>3. /\ Head(queue) = Len(log) - Len(queue) + 1 /\ Head(queue) \in Nat \ {0}
          /\ Current' = Head(queue)
      BY <2>1, <3>1, <3>2 DEF InLog, Current
    <3>4. InLog'
      <4>1. running' \in [{SyncWorker} -> Nat]
        BY <2>1, <3>1, <3>3 DEF InLog
      <4>2. \A i \in 1 .. Len(queue') : queue'[i] = Len(log) - Len(queue') + i
        BY <2>1, <3>2 DEF InLog
      <4>3. QED
        BY <2>1, <3>1, <3>2, <3>3, <4>1, <4>2 DEF InLog, None
    <3>5. Handled' = Handled
      BY <2>1, <3>1, <3>2, <3>3 DEF Handled, None
    <3>6. Stored' /\ Pointed'
      BY <2>1, <2>2, <3>1, <3>5 DEF Stored
    <3>7. QED
      BY <3>4, <3>6 DEF DInv
  <2>6. CASE SyncFinish
    <3>1. /\ syncPc = "done" /\ syncPc' = "idle" /\ Current # None
          /\ running' = [running EXCEPT ![SyncWorker] = None]
          /\ UNCHANGED <<queue, phase, documents, log, pointer>>
      BY <2>6 DEF SyncFinish, SyncExecutor!Finish, Current, storeVars, clientVars
    <3>2. running' \in [{SyncWorker} -> Nat] /\ Current' = None
      BY <2>1, <3>1 DEF InLog, Current, None
    <3>3. InLog'
      BY <2>1, <3>1, <3>2 DEF InLog
    <3>4. Handled' = Handled
      BY <3>1, <3>2 DEF Handled
    <3>5. Stored' /\ Pointed'
      BY <2>1, <2>2, <3>1, <3>4 DEF Stored
    <3>6. QED
      BY <3>3, <3>5 DEF DInv
  \* The thread of syncExecutor_ goes on with its notification.
  <2>7. ASSUME UNCHANGED <<queueVars, log>>, syncPc \in {"begin", "writing"},
               syncPc' \in {"writing", "done"}
        PROVE  /\ InLog' /\ Current \in 1 .. Len(log) /\ log[Current] \in Notifications
               /\ Handled = Current - 1
               /\ Handled' = IF syncPc' = "done" THEN Current ELSE Handled
    <3>1. Current # None /\ Current = Len(log) - Len(queue) /\ Current' = Current
      BY <2>1, <2>7 DEF InLog, Current, queueVars
    <3>2. Current \in 1 .. Len(log) /\ log[Current] \in Notifications
      BY <2>1, <3>1, ElementOfSeq DEF InLog, None
    <3>3. /\ Handled = Current - 1
          /\ Handled' = IF syncPc' = "done" THEN Current ELSE Handled
      <4>1. /\ Handled = Len(log) - Len(queue) - 1
            /\ Handled' = Len(log) - Len(queue) - (IF syncPc' = "done" THEN 0 ELSE 1)
        BY <2>7, <3>1 DEF Handled, queueVars
      <4>2. QED
        BY <2>1, <3>1, <4>1
    <3>4. InLog'
      BY <2>1, <2>7, <3>1 DEF InLog, queueVars
    <3>5. QED
      BY <3>2, <3>3, <3>4
  <2>8. CASE LockStore \/ ChangeNothing \/ ChangeThrows \/ HandleSave
    <3>1. /\ UNCHANGED <<queueVars, log, documents, pointer>>
          /\ syncPc \in {"begin", "writing"} /\ syncPc' \in {"writing", "done"}
      BY <2>8 DEF LockStore, ChangeNothing, ChangeThrows, HandleSave, Changing, Unwind,
         StoreFrame, clientVars, storeVars
    <3>2. Handled' \in {Handled, Handled + 1}
      BY <2>7, <3>1
    <3>3. Stored' /\ Pointed'
      BY <2>1, <2>2, <3>1, <3>2 DEF Stored
    <3>4. QED
      BY <2>7, <3>1, <3>3 DEF DInv
  <2>9. CASE StoreOpen
    <3> DEFINE uri == log[Current].uri
               old == documents[uri].node
               item == [version |-> Current, text |-> Encode(log[Current].text),
                        node |-> IF old = None THEN Current ELSE old]
    <3>1. /\ UNCHANGED <<queueVars, log, pointer>>
          /\ syncPc = "writing" /\ syncPc' = "done"
      BY <2>9 DEF StoreOpen, Unwind, StoreFrame, clientVars
    <3>2. /\ Current \in 1 .. Len(log) /\ uri \in Uris
          /\ Handled = Current - 1 /\ Handled' = Current
      BY <2>7, <3>1 DEF Notifications
    <3>3. documents' = [documents EXCEPT ![uri] = item]
      BY <2>9 DEF StoreOpen, StoreItem
    <3>4. old \in Nat
      BY <2>1, <3>2 DEF Stored
    <3> HIDE DEF uri, old
    <3>5. \A u \in Uris : documents'[u] = IF u = uri THEN item ELSE documents[u]
      BY <2>1, <3>2, <3>3 DEF Stored
    <3>6. Stored'
      <4>1. documents' = [u \in Uris |-> documents'[u]]
        BY <2>1, <3>2, <3>3 DEF Stored
      <4>2. item.node \in Nat
        BY <3>2, <3>4
      <4>3. item = [version |-> item.version, text |-> item.text, node |-> item.node]
        OBVIOUS
      <4> HIDE DEF item
      <4>4. QED
        BY <2>1, <3>5, <4>1, <4>2, <4>3 DEF Stored
    <3>7. \A u \in Uris : documents'[u].node = documents[u].node \/ documents[u].node = None
      BY <3>5 DEF old
    <3>8. Pointed'
      BY <2>1, <2>2, <3>1, <3>2, <3>7
    <3>9. QED
      BY <2>7, <3>1, <3>6, <3>8 DEF DInv
  <2>10. CASE StoreClose
    <3> DEFINE uri == log[Current].uri
    <3>1. /\ UNCHANGED <<queueVars, log, pointer>>
          /\ syncPc = "writing" /\ syncPc' = "done" /\ log[Current].op = "close"
          /\ documents' = [documents EXCEPT ![uri] = Closed]
      BY <2>10 DEF StoreClose, Unwind, StoreFrame, clientVars
    <3>2. /\ Current \in 1 .. Len(log) /\ uri \in Uris
          /\ Handled = Current - 1 /\ Handled' = Current
      BY <2>7, <3>1 DEF Notifications
    <3>3. \A u \in Uris : documents'[u] = IF u = uri THEN Closed ELSE documents[u]
      BY <2>1, <3>1, <3>2 DEF Stored
    <3>4. Stored'
      BY <2>1, <3>1, <3>2, <3>3 DEF Stored, Closed, None
    <3>5. log'[Current].op = "close" /\ log'[Current].uri = uri
      BY <3>1
    <3> HIDE DEF uri
    <3>6. ASSUME NEW u \in Uris, documents'[u].node # documents[u].node
          PROVE  \E n \in Handled + 1 .. Handled' : log'[n].op = "close" /\ log'[n].uri = u
      <4>1. u = uri /\ Current \in Handled + 1 .. Handled'
        BY <3>2, <3>3, <3>6
      <4>2. QED
        BY <3>5, <4>1
    <3>7. Pointed'
      BY <2>1, <2>2, <3>1, <3>2, <3>6
    <3>8. QED
      BY <2>7, <3>1, <3>4, <3>7 DEF DInv
  <2>11. ASSUME documents' = [u \in Uris |-> documents'[u]],
                \A u \in Uris :
                  /\ documents'[u] = [version |-> documents'[u].version,
                                      text |-> documents'[u].text,
                                      node |-> documents'[u].node]
                  /\ documents'[u].node = documents[u].node,
                UNCHANGED <<queueVars, log, pointer>>,
                syncPc = "writing", syncPc' \in {"writing", "done"}
         PROVE  DInv'
    <3>1. Stored'
      BY <2>1, <2>11 DEF Stored
    <3>2. Handled' \in {Handled, Handled + 1}
      BY <2>7, <2>11
    <3>3. Pointed'
      BY <2>1, <2>2, <2>11, <3>2
    <3>4. QED
      BY <2>7, <2>11, <3>1, <3>3 DEF DInv
  <2>12. CASE ApplyOneChange
    <3> DEFINE uri == log[Current].uri
               changed == Changed(documents[uri].text, ChangesOf(Current)[next])
    <3>1. /\ UNCHANGED <<queueVars, log, pointer>>
          /\ syncPc = "writing" /\ syncPc' = "writing"
          /\ documents' = [documents EXCEPT ![uri].text = changed]
      BY <2>12 DEF ApplyOneChange, Changing, StoreFrame, clientVars
    <3>2. uri \in Uris
      BY <2>7, <3>1 DEF Notifications
    <3> HIDE DEF uri, changed
    <3>3. documents' = [u \in Uris |->
            IF u = uri THEN [version |-> documents[uri].version, text |-> changed,
                             node |-> documents[u].node]
            ELSE documents[u]]
      BY <2>1, <3>1, <3>2 DEF Stored
    <3>4. \A u \in Uris :
            /\ documents'[u] = [version |-> documents'[u].version,
                                text |-> documents'[u].text, node |-> documents'[u].node]
            /\ documents'[u].node = documents[u].node
      BY <2>1, <3>3 DEF Stored
    <3>5. documents' = [u \in Uris |-> documents'[u]]
      BY <3>3
    <3>6. QED
      BY <2>11, <3>1, <3>4, <3>5
  <2>13. CASE SetVersion
    <3> DEFINE uri == log[Current].uri
    <3>1. /\ UNCHANGED <<queueVars, log, pointer>>
          /\ syncPc = "writing" /\ syncPc' = "done"
          /\ documents' = [documents EXCEPT ![uri].version = Current]
      BY <2>13 DEF SetVersion, Changing, Unwind, StoreFrame, clientVars
    <3>2. uri \in Uris
      BY <2>7, <3>1 DEF Notifications
    <3> HIDE DEF uri
    <3>3. documents' = [u \in Uris |->
            IF u = uri THEN [version |-> Current, text |-> documents[uri].text,
                             node |-> documents[u].node]
            ELSE documents[u]]
      BY <2>1, <3>1, <3>2 DEF Stored
    <3>4. \A u \in Uris :
            /\ documents'[u] = [version |-> documents'[u].version,
                                text |-> documents'[u].text, node |-> documents'[u].node]
            /\ documents'[u].node = documents[u].node
      BY <2>1, <3>3 DEF Stored
    <3>5. documents' = [u \in Uris |-> documents'[u]]
      BY <3>3
    <3>6. QED
      BY <2>11, <3>1, <3>4, <3>5
  <2>14. CASE ReaderStep
    <3>1. UNCHANGED <<documents, syncPc, queueVars, log>>
      BY <2>14 DEF ReaderStep, Get, Forget, storeVars, syncVars, clientVars
    <3>2. InLog' /\ Stored' /\ Handled' = Handled
      BY <2>1, <3>1 DEF InLog, Stored, Handled, Current, queueVars
    <3>3. PICK r \in Readers : Forget(r) \/ \E uri \in Uris : Get(r, uri)
      BY <2>14 DEF ReaderStep
    <3>4. CASE Forget(r)
      <4>1. pointer' = [pointer EXCEPT ![r] = Closed]
        BY <3>4 DEF Forget
      <4>2. Pointed'
        BY <2>1, <3>1, <3>2, <4>1 DEF Pointed
      <4>3. QED
        BY <3>2, <4>2 DEF DInv
    <3>5. ASSUME NEW uri \in Uris, Get(r, uri) PROVE DInv'
      <4> DEFINE p == [uri |-> uri, node |-> documents[uri].node, since |-> Handled]
      <4>1. /\ documents[uri].node # None /\ pointer' = [pointer EXCEPT ![r] = p]
            /\ documents[uri].node \in Nat
        BY <2>1, <3>5 DEF Get, Contained, Stored
      <4>2. \A k \in Readers : pointer'[k] = IF k = r THEN p ELSE pointer[k]
        BY <2>1, <4>1 DEF Pointed
      <4>3. pointer' = [k \in Readers |-> pointer'[k]]
        BY <2>1, <4>1 DEF Pointed
      <4>4. p.uri \in Uris /\ p.node \in Nat \ {None} /\ p.since \in 0 .. Handled
            /\ documents[p.uri].node = p.node
        BY <2>1, <4>1
      <4> HIDE DEF p
      <4>5. Pointed'
        BY <2>1, <3>1, <3>2, <4>2, <4>3, <4>4 DEF Pointed
      <4>6. QED
        BY <3>2, <4>5 DEF DInv
    <3>6. QED
      BY <3>3, <3>4, <3>5
  <2>15. CASE UNCHANGED vars
    <3>1. UNCHANGED <<documents, syncVars, queueVars, log, pointer>>
      BY <2>15 DEF vars, storeVars, clientVars
    <3>2. InLog' /\ Stored' /\ Handled' = Handled
      BY <2>1, <3>1 DEF InLog, Stored, Handled, Current, syncVars, queueVars
    <3>3. Pointed'
      BY <2>1, <2>2, <3>1, <3>2
    <3>4. QED
      BY <3>2, <3>3 DEF DInv
  <2>16. QED
    BY <2>3, <2>4, <2>5, <2>6, <2>8, <2>9, <2>10, <2>12, <2>13, <2>14, <2>15
       DEF Next, SyncStep
<1>3. QED
  BY <1>1, <1>2, PTL DEF Spec

(***************************************************************************)
(* DocumentStore.cpp:7-10, for any interleaving of syncExecutor_ with the  *)
(* handlers: no edit and no didOpen makes a pointer dangle, only a         *)
(* didClose of its document does.                                          *)
(***************************************************************************)
THEOREM PointersStayValid == Spec => []PointersOutliveChanges
<1>1. DInv => PointersOutliveChanges
  BY DEF DInv, Pointed, PointersOutliveChanges
<1>2. QED
  BY <1>1, Inductive, PTL

-----------------------------------------------------------------------------
(* The store and the text of the client *)

\* The client's text of a document after each of the changes of a notification.
Drafts ==
  [n \in 1 .. Len(log) |-> [k \in 0 .. Len(ChangesOf(n)) |->
     Edited(mirror[n][log[n].uri].text, ChangesOf(n), k)]]

\* Where the store and the client may part, and which documents they differ in.
Missed == {n \in 1 .. Len(log) : Misplaces(n)}
Strays == [n \in 0 .. Len(log) |-> {uri \in Uris : Astray(uri, n)}]

\* What a notification makes of the client's documents.
After(n, uri) ==
  IF log[n].uri # uri \/ log[n].op = "save" THEN mirror[n][uri]
  ELSE IF log[n].op = "open" THEN [version |-> n, text |-> log[n].text]
  ELSE IF mirror[n][uri].version = None THEN mirror[n][uri]
  ELSE IF log[n].op = "close" THEN [version |-> None, text |-> <<>>]
  ELSE [version |-> n, text |-> Drafts[n][Len(ChangesOf(n))]]

Client == [version : Nat, text : Seq(Characters)]

\* The client's documents are what its notifications made of them, and each
\* range it sent was about the text it had.
Mirrored ==
  /\ Len(log) <= MaxNotifications
  /\ mirror \in Seq([Uris -> Client]) /\ Len(mirror) = Len(log) + 1
  /\ \A uri \in Uris : mirror[1][uri] = [version |-> None, text |-> <<>>]
  /\ \A n \in 1 .. Len(log) :
       /\ \A uri \in Uris : mirror[n + 1][uri] = After(n, uri)
       /\ log[n].op = "change" /\ mirror[n][log[n].uri].version # None =>
            \A k \in 1 .. Len(ChangesOf(n)) : ChangesOf(n)[k].range # Whole =>
              /\ IsPosition(Drafts[n][k - 1], ChangesOf(n)[k].range[1], agreed)
              /\ IsPosition(Drafts[n][k - 1], ChangesOf(n)[k].range[2], agreed)

\* Both sides count alike.
Agreement ==
  /\ encoding \in Encodings
  /\ IF agreed = NoEncoding THEN encoding = "utf-16" /\ log = <<>> ELSE agreed = encoding

\* mu_ is held by the thread of syncExecutor_ alone, and a document is in the
\* store while the client has it open.
Held ==
  /\ mu \in BOOLEAN /\ (mu <=> syncPc = "writing")
  /\ next \in 1 .. MaxChanges + 1
  /\ syncPc = "writing" =>
       /\ log[Current].op \in {"open", "change", "close"}
       /\ log[Current].op = "change" => next <= Len(ChangesOf(Current)) + 1
  /\ \A uri \in Uris :
       /\ documents[uri].version \in 0 .. Len(log)
       /\ documents[uri].text \in Seq(Bytes)
       /\ documents[uri].node \in 0 .. Len(log)
       /\ documents[uri].node = None => documents[uri] = Closed
       /\ documents[uri].node # None <=> mirror[Handled + 1][uri].version # None

\* How many changes of the notification under way a document has.
Made(uri) ==
  IF syncPc = "writing" /\ log[Current].uri = uri /\ log[Current].op = "change"
     /\ documents[uri].node # None
  THEN next - 1 ELSE 0

\* The store has what the client had, and of the notification under way the
\* changes made so far.
Following ==
  \A uri \in Uris : uri \notin Strays[Handled] =>
    /\ documents[uri].version = mirror[Handled + 1][uri].version
    /\ IF Made(uri) = 0 THEN documents[uri].text = Encode(mirror[Handled + 1][uri].text)
       ELSE Current \notin Missed => documents[uri].text = Encode(Drafts[Current][Made(uri)])

\* A reader's pointer is one that get returned after a notification.
Lent ==
  pointer \in [Readers -> [uri : Uris, node : 1 .. Len(log), since : 1 .. Len(log)] \cup
                          {Closed}]

SavedRight ==
  /\ saved \in Seq([num : Nat, text : Seq(Bytes)])
  /\ \A i \in 1 .. Len(saved) :
       LET n == saved[i].num
       IN  /\ n \in 1 .. Handled
           /\ log[n].uri \notin Strays[n] =>
                saved[i].text = Encode(mirror[n][log[n].uri].text)

SInv == Mirrored /\ Agreement /\ Held /\ Following /\ Lent /\ SavedRight

\* The thread of syncExecutor_ has a notification, the next to be handled.
LEMMA Working ==
  ASSUME InLog
  PROVE  /\ Len(log) \in Nat /\ Handled \in 0 .. Len(log)
         /\ \A n \in 1 .. Len(log) : log[n] \in Notifications
         /\ syncPc = "done" => Current \in 1 .. Len(log) /\ Handled = Current
         /\ syncPc \in {"begin", "writing"} =>
              Current \in 1 .. Len(log) /\ Handled = Current - 1
<1>1. /\ Len(log) \in Nat /\ Len(queue) \in Nat /\ Len(queue) <= Len(log)
      /\ \A n \in 1 .. Len(log) : log[n] \in Notifications
  BY LenProperties, ElementOfSeq DEF InLog
<1>2. Handled \in 0 .. Len(log)
  BY <1>1 DEF InLog, Handled, None
<1>3. ASSUME syncPc # "idle"
      PROVE  /\ Current \in 1 .. Len(log)
             /\ Handled = IF syncPc = "done" THEN Current ELSE Current - 1
  BY <1>1, <1>3 DEF InLog, Handled, None
<1>4. QED
  BY <1>1, <1>2, <1>3

\* What was sent is not changed by what is sent after it.
LEMMA Steady ==
  ASSUME agreed' = agreed, Len(log) \in Nat, Len(log') \in Nat, Len(log) <= Len(log'),
         \A n \in 1 .. Len(log) : log'[n] = log[n] /\ mirror'[n] = mirror[n]
  PROVE  /\ \A n \in 1 .. Len(log) :
              /\ Drafts'[n] = Drafts[n] /\ (n \in Missed' <=> n \in Missed)
              /\ \A uri \in Uris : After(n, uri)' = After(n, uri)
         /\ \A n \in 0 .. Len(log) : Strays'[n] = Strays[n]
<1>1. ASSUME NEW n \in 1 .. Len(log)
      PROVE  Drafts'[n] = Drafts[n] /\ (Misplaces(n)' <=> Misplaces(n))
  <2>1. n \in 1 .. Len(log') /\ log'[n] = log[n] /\ mirror'[n] = mirror[n]
    OBVIOUS
  <2>2. Drafts'[n] = Drafts[n]
    <3> DEFINE c == mirror[n][log[n].uri].text
               ch == log[n].changes
    <3>1. /\ Drafts[n] = [k \in 0 .. Len(ch) |-> Edited(c, ch, k)]
          /\ Drafts'[n] = [k \in 0 .. Len(ch') |-> Edited(c, ch, k)']
      BY <2>1 DEF Drafts, ChangesOf
    <3>2. c' = c /\ ch' = ch
      BY <2>1
    <3>3. ASSUME NEW k PROVE Edited(c, ch, k)' = Edited(c, ch, k)
      <4> HIDE DEF c, ch
      <4>1. QED
        BY <3>2 DEF Edited, Edit
    <3> HIDE DEF c, ch
    <3>4. QED
      BY <3>1, <3>2, <3>3
  <2>3. Misplaces(n)' <=> Misplaces(n)
    BY <2>1 DEF Misplaces, Edited, Edit
  <2>4. QED
    BY <2>2, <2>3
<1>2. ASSUME NEW n \in 1 .. Len(log) PROVE (n \in Missed' <=> n \in Missed)
  <2>1. n \in 1 .. Len(log')
    OBVIOUS
  <2>2. QED
    BY <1>1, <2>1 DEF Missed
<1>3. ASSUME NEW n \in 1 .. Len(log), NEW uri \in Uris PROVE After(n, uri)' = After(n, uri)
  BY <1>1 DEF After, ChangesOf
<1>4. ASSUME NEW n \in 0 .. Len(log) PROVE Strays'[n] = Strays[n]
  <2>1. ASSUME NEW uri \in Uris PROVE Astray(uri, n)' <=> Astray(uri, n)
    <3>1. \A k \in 1 .. n :
            k \in 1 .. Len(log) /\ log'[k] = log[k] /\ (Misplaces(k)' <=> Misplaces(k))
      BY <1>1
    <3>2. \A k \in 1 .. n : \A j \in k + 1 .. n : log'[j] = log[j]
      OBVIOUS
    <3>3. \A k \in 1 .. n :
            log'[k].uri = uri /\ Misplaces(k)' <=> log[k].uri = uri /\ Misplaces(k)
      BY <3>1
    <3>4. \A k \in 1 .. n :
            (\A j \in k + 1 .. n : ~(log'[j].uri = uri /\ log'[j].op = "open")) <=>
              (\A j \in k + 1 .. n : ~(log[j].uri = uri /\ log[j].op = "open"))
      BY <3>2
    <3>5. QED
      BY <3>3, <3>4 DEF Astray
  <2>2. n \in 0 .. Len(log')
    OBVIOUS
  <2>3. QED
    BY <2>1, <2>2 DEF Strays
<1>5. QED
  BY <1>1, <1>2, <1>3, <1>4

\* A document goes astray with a notification, or was astray and is not opened.
LEMMA StraysAre ==
  ASSUME Len(log) \in Nat
  PROVE  /\ Strays[0] = {}
         /\ \A n \in 1 .. Len(log), uri \in Uris :
              uri \in Strays[n] <=>
                \/ log[n].uri = uri /\ n \in Missed
                \/ uri \in Strays[n - 1] /\ ~(log[n].uri = uri /\ log[n].op = "open")
         /\ \A n \in 1 .. Len(log) : n \in Missed => log[n].op = "change"
<1>1. Strays[0] = {}
  BY DEF Strays, Astray
<1>2. ASSUME NEW n \in 1 .. Len(log), NEW uri \in Uris
      PROVE  Astray(uri, n) <=>
               \/ log[n].uri = uri /\ Misplaces(n)
               \/ Astray(uri, n - 1) /\ ~(log[n].uri = uri /\ log[n].op = "open")
  <2> DEFINE Reopened(j) == log[j].uri = uri /\ log[j].op = "open"
             Goes(k) == log[k].uri = uri /\ Misplaces(k)
  <2> HIDE DEF Reopened, Goes
  <2>1. /\ Astray(uri, n) <=> \E k \in 1 .. n : Goes(k) /\ \A j \in k + 1 .. n : ~Reopened(j)
        /\ Astray(uri, n - 1) <=>
             \E k \in 1 .. n - 1 : Goes(k) /\ \A j \in k + 1 .. n - 1 : ~Reopened(j)
    BY DEF Astray, Goes, Reopened
  <2>2. Goes(n) => Astray(uri, n)
    BY <2>1
  <2>3. Astray(uri, n - 1) /\ ~Reopened(n) => Astray(uri, n)
    <3> SUFFICES ASSUME Astray(uri, n - 1), ~Reopened(n) PROVE Astray(uri, n)
      OBVIOUS
    <3>1. PICK k \in 1 .. n - 1 : Goes(k) /\ \A j \in k + 1 .. n - 1 : ~Reopened(j)
      BY <2>1
    <3>2. k \in 1 .. n /\ \A j \in k + 1 .. n : j = n \/ j \in k + 1 .. n - 1
      OBVIOUS
    <3>3. QED
      BY <2>1, <3>1, <3>2
  <2>4. Astray(uri, n) => Goes(n) \/ (Astray(uri, n - 1) /\ ~Reopened(n))
    <3> SUFFICES ASSUME Astray(uri, n), ~Goes(n) PROVE Astray(uri, n - 1) /\ ~Reopened(n)
      OBVIOUS
    <3>1. PICK k \in 1 .. n : Goes(k) /\ \A j \in k + 1 .. n : ~Reopened(j)
      BY <2>1
    <3>2. k \in 1 .. n - 1 /\ n \in k + 1 .. n
      BY <3>1
    <3>3. \A j \in k + 1 .. n - 1 : j \in k + 1 .. n
      OBVIOUS
    <3>4. QED
      BY <2>1, <3>1, <3>2, <3>3
  <2>5. QED
    BY <2>2, <2>3, <2>4 DEF Goes, Reopened
<1>3. ASSUME NEW n \in 1 .. Len(log), NEW uri \in Uris
      PROVE  uri \in Strays[n] <=>
               \/ log[n].uri = uri /\ n \in Missed
               \/ uri \in Strays[n - 1] /\ ~(log[n].uri = uri /\ log[n].op = "open")
  <2>1. n \in 0 .. Len(log) /\ n - 1 \in 0 .. Len(log)
    OBVIOUS
  <2>2. /\ uri \in Strays[n] <=> Astray(uri, n)
        /\ uri \in Strays[n - 1] <=> Astray(uri, n - 1)
        /\ n \in Missed <=> Misplaces(n)
    BY <2>1 DEF Strays, Missed
  <2>3. QED
    BY <1>2, <2>2
<1>4. \A n \in 1 .. Len(log) : n \in Missed => log[n].op = "change"
  BY DEF Missed, Misplaces
<1>5. QED
  BY <1>1, <1>3, <1>4

\* What the drafts are.
LEMMA DraftsAre ==
  ASSUME agreed \in Encodings, InLog, Mirrored, NEW n \in 1 .. Len(log)
  PROVE  /\ ChangesOf(n) \in [1 .. Len(ChangesOf(n)) -> Changes]
         /\ Len(ChangesOf(n)) \in 0 .. MaxChanges
         /\ Drafts[n][0] = mirror[n][log[n].uri].text
         /\ \A k \in 0 .. Len(ChangesOf(n)) : Drafts[n][k] \in Seq(Characters)
         /\ \A k \in 1 .. Len(ChangesOf(n)) :
              Drafts[n][k] = Edit(Drafts[n][k - 1], ChangesOf(n)[k])
<1> DEFINE ch == ChangesOf(n)
           c == mirror[n][log[n].uri].text
<1>1. log[n].uri \in Uris /\ ch \in ChangeLists \cup {<<>>}
  BY Working DEF ChangesOf, Notifications
<1>2. ch \in [1 .. Len(ch) -> Changes] /\ Len(ch) \in 0 .. MaxChanges
  <2>1. CASE ch \in ChangeLists
    <3>1. PICK k \in 1 .. MaxChanges : ch \in [1 .. k -> Changes]
      BY <2>1 DEF ChangeLists
    <3>2. Len(ch) = k
      BY <3>1
    <3>3. QED
      BY <3>1, <3>2, SyncAssumption
  <2>2. CASE ch = <<>>
    BY <2>2, SyncAssumption
  <2>3. QED
    BY <1>1, <2>1, <2>2
<1>3. c \in Seq(Characters)
  <2>1. n \in 1 .. Len(mirror)
    BY Working DEF Mirrored
  <2>2. mirror[n] \in [Uris -> Client]
    BY <2>1, ElementOfSeq DEF Mirrored
  <2>3. QED
    BY <1>1, <2>2 DEF Client
<1>4. \A k \in 0 .. Len(ch) : Drafts[n][k] = Edited(c, ch, k)
  BY DEF Drafts
<1> HIDE DEF ch, c
<1>5. /\ Edited(c, ch, 0) = c
      /\ \A k \in 0 .. Len(ch) : Edited(c, ch, k) \in Seq(Characters)
      /\ \A k \in 1 .. Len(ch) : Edited(c, ch, k) = Edit(Edited(c, ch, k - 1), ch[k])
  <2>1. Len(ch) \in Nat
    BY <1>2
  <2>2. QED
    BY <1>2, <1>3, <2>1, EditedStep
<1>6. /\ 0 \in 0 .. Len(ch)
      /\ \A k \in 1 .. Len(ch) : k \in 0 .. Len(ch) /\ k - 1 \in 0 .. Len(ch)
  BY <1>2
<1>7. QED
  BY <1>2, <1>4, <1>5, <1>6 DEF ch, c

LEMMA ClientTyped ==
  ASSUME InLog, Mirrored, NEW n \in 1 .. Len(log) + 1
  PROVE  /\ mirror[n] \in [Uris -> Client]
         /\ \A uri \in Uris :
              mirror[n][uri].version \in Nat /\ mirror[n][uri].text \in Seq(Characters)
<1>1. n \in 1 .. Len(mirror)
  BY Working DEF Mirrored
<1>2. mirror[n] \in [Uris -> Client]
  BY <1>1, ElementOfSeq DEF Mirrored
<1>3. QED
  BY <1>2 DEF Client

\* A notification is sent with what becomes of the client's documents.
LEMMA Sent ==
  ASSUME InLog, Mirrored, NEW entry \in Notifications, NEW m \in [Uris -> Client],
         log' = Append(log, entry), mirror' = Append(mirror, m), agreed' = agreed,
         Num <= MaxNotifications,
         \A uri \in Uris : m[uri] =
           IF entry.uri # uri \/ entry.op = "save" THEN Mine(uri)
           ELSE IF entry.op = "open" THEN [version |-> Num, text |-> entry.text]
           ELSE IF ~IsOpen(uri) THEN Mine(uri)
           ELSE IF entry.op = "close" THEN [version |-> None, text |-> <<>>]
           ELSE [version |-> Num, text |-> EditAll(Mine(uri).text, entry.changes)],
         entry.op = "change" /\ IsOpen(entry.uri) =>
           Legal(Mine(entry.uri).text, entry.changes)
  PROVE  /\ Mirrored' /\ Len(log') = Len(log) + 1
         /\ \A n \in 1 .. Len(log) : log'[n] = log[n] /\ mirror'[n] = mirror[n]
         /\ mirror'[Len(log) + 1] = mirror[Len(log) + 1]
<1>1. /\ Len(log) \in Nat /\ log \in Seq(Notifications) /\ Num = Len(log) + 1
      /\ mirror \in Seq([Uris -> Client]) /\ Len(mirror) = Num
  BY Working DEF InLog, Mirrored, Num
<1>2. /\ Len(log') = Num /\ log'[Num] = entry
      /\ \A n \in 1 .. Len(log) : log'[n] = log[n]
      /\ mirror' \in Seq([Uris -> Client]) /\ Len(mirror') = Num + 1 /\ mirror'[Num + 1] = m
      /\ \A n \in 1 .. Num : mirror'[n] = mirror[n]
  <2>1. /\ Len(log') = Len(log) + 1 /\ log'[Len(log) + 1] = entry
        /\ \A n \in 1 .. Len(log) : log'[n] = log[n]
    BY <1>1, AppendProperties
  <2>2. /\ mirror' \in Seq([Uris -> Client]) /\ Len(mirror') = Len(mirror) + 1
        /\ mirror'[Len(mirror) + 1] = m
        /\ \A n \in 1 .. Len(mirror) : mirror'[n] = mirror[n]
    BY <1>1, AppendProperties
  <2>3. QED
    BY <1>1, <2>1, <2>2
<1>3. \A n \in 1 .. Len(log) : n \in 1 .. Num /\ n + 1 \in 1 .. Num
  BY <1>1
<1>4. /\ \A n \in 1 .. Len(log) : Drafts'[n] = Drafts[n]
      /\ \A n \in 1 .. Len(log), uri \in Uris : After(n, uri)' = After(n, uri)
  BY <1>1, <1>2, <1>3, Steady
<1>5. Drafts'[Num] = [k \in 0 .. Len(entry.changes) |->
                        Edited(Mine(entry.uri).text, entry.changes, k)]
  <2> DEFINE c == mirror[Num][entry.uri].text
             ch == entry.changes
  <2>1. Num \in 1 .. Len(log')
    BY <1>1, <1>2
  <2>2. PICK num : num = Num
    OBVIOUS
  <2>3. /\ num \in 1 .. Len(log') /\ log'[num] = entry /\ mirror'[num] = mirror[num]
        /\ c = mirror[num][entry.uri].text
    BY <1>1, <1>2, <2>1, <2>2
  <2>4. PICK d : d = c
    OBVIOUS
  <2>5. Drafts'[num] = [k \in 0 .. Len(ch) |-> Edited(d, ch, k)']
    BY <2>3, <2>4 DEF Drafts, ChangesOf
  <2>6. ASSUME NEW k PROVE Edited(d, ch, k)' = Edited(d, ch, k)
    BY DEF Edited, Edit
  <2> HIDE DEF ch
  <2>7. Drafts'[num] = [k \in 0 .. Len(ch) |-> Edited(d, ch, k)]
    BY <2>5, <2>6
  <2>8. QED
    BY <2>2, <2>4, <2>7 DEF Mine, ch
<1>6. ASSUME NEW uri \in Uris, NEW num, num = Num PROVE After(num, uri)' = m[uri]
  <2>1. /\ num \in 1 .. Len(log') /\ log'[num] = entry /\ mirror'[num] = mirror[num]
        /\ num = Num
    BY <1>1, <1>2, <1>6
  <2>2. After(num, uri)' =
          IF entry.uri # uri \/ entry.op = "save" THEN mirror[num][uri]
          ELSE IF entry.op = "open" THEN [version |-> num, text |-> entry.text]
          ELSE IF mirror[num][uri].version = None THEN mirror[num][uri]
          ELSE IF entry.op = "close" THEN [version |-> None, text |-> <<>>]
          ELSE [version |-> num, text |-> Drafts'[num][Len(entry.changes)]]
    BY <2>1, Zenon DEF After, ChangesOf
  <2>3. entry.uri = uri => Drafts'[num][Len(entry.changes)] = EditAll(Mine(uri).text, entry.changes)
    <3>1. Len(entry.changes) \in 0 .. Len(entry.changes)
      <4>1. entry.changes \in ChangeLists \cup {<<>>}
        BY DEF Notifications
      <4>2. CASE entry.changes \in ChangeLists
        <5>1. PICK k \in 1 .. MaxChanges : entry.changes \in [1 .. k -> Changes]
          BY <4>2 DEF ChangeLists
        <5>2. Len(entry.changes) = k
          BY <5>1
        <5>3. QED
          BY <5>2, SyncAssumption
      <4>3. QED
        BY <4>1, <4>2
    <3>2. QED
      BY <1>5, <2>1, <3>1 DEF EditAll
  <2>4. QED
    BY <2>1, <2>2, <2>3 DEF Mine, IsOpen
<1>7. ASSUME entry.op = "change", Mine(entry.uri).version # None,
             NEW k \in 1 .. Len(entry.changes), entry.changes[k].range # Whole
      PROVE  /\ IsPosition(Drafts'[Num][k - 1], entry.changes[k].range[1], agreed)
             /\ IsPosition(Drafts'[Num][k - 1], entry.changes[k].range[2], agreed)
  <2>1. Legal(Mine(entry.uri).text, entry.changes)
    BY <1>7 DEF IsOpen
  <2>2. Drafts'[Num][k - 1] = Edited(Mine(entry.uri).text, entry.changes, k - 1)
    BY <1>5
  <2>3. QED
    BY <1>7, <2>1, <2>2 DEF Legal
<1>8. Mirrored'
  <2>1. \A uri \in Uris : mirror'[1][uri] = [version |-> None, text |-> <<>>]
    BY <1>1, <1>2 DEF Mirrored
  <2>2. ASSUME NEW n \in 1 .. Len(log'), NEW uri \in Uris
        PROVE  mirror'[n + 1][uri] = After(n, uri)'
    <3>1. CASE n = Num
      BY <1>2, <1>6, <3>1
    <3>2. CASE n # Num
      <4>1. n \in 1 .. Len(log)
        BY <1>1, <1>2, <3>2
      <4>2. mirror'[n + 1] = mirror[n + 1] /\ After(n, uri)' = After(n, uri)
        BY <1>2, <1>3, <1>4, <4>1
      <4>3. QED
        BY <4>1, <4>2 DEF Mirrored
    <3>3. QED
      BY <3>1, <3>2
  <2>3. ASSUME NEW n \in 1 .. Len(log'), log'[n].op = "change",
               mirror'[n][log'[n].uri].version # None,
               NEW k \in 1 .. Len(log'[n].changes), log'[n].changes[k].range # Whole
        PROVE  /\ IsPosition(Drafts'[n][k - 1], log'[n].changes[k].range[1], agreed)
               /\ IsPosition(Drafts'[n][k - 1], log'[n].changes[k].range[2], agreed)
    <3>1. CASE n = Num
      <4>1. log'[n] = entry /\ mirror'[n] = mirror[Num]
        BY <1>1, <1>2, <3>1
      <4>2. QED
        BY <1>7, <2>3, <3>1, <4>1 DEF Mine
    <3>2. CASE n # Num
      <4>1. n \in 1 .. Len(log)
        BY <1>1, <1>2, <3>2
      <4>2. log'[n] = log[n] /\ mirror'[n] = mirror[n] /\ Drafts'[n] = Drafts[n]
        BY <1>2, <1>3, <1>4, <4>1
      <4>3. QED
        BY <2>3, <4>1, <4>2 DEF Mirrored, ChangesOf
    <3>3. QED
      BY <3>1, <3>2
  <2>4. Len(log') <= MaxNotifications /\ Len(mirror') = Len(log') + 1
    BY <1>2
  <2>5. QED
    BY <1>2, <2>1, <2>2, <2>3, <2>4 DEF Mirrored, ChangesOf
<1>9. QED
  BY <1>1, <1>2, <1>8

\* A step that has nothing to do with the store keeps what is true of it.
LEMMA Carried ==
  ASSUME InLog, InLog', Held, Following, SavedRight, agreed' = agreed,
         Len(log) <= Len(log'), Handled' = Handled,
         \A n \in 1 .. Len(log) : log'[n] = log[n] /\ mirror'[n] = mirror[n],
         mirror'[Len(log) + 1] = mirror[Len(log) + 1],
         UNCHANGED <<documents, mu, next, saved>>,
         \/ UNCHANGED <<syncPc, running>>
         \/ syncPc # "writing" /\ syncPc' # "writing"
  PROVE  Held' /\ Following' /\ SavedRight'
<1>1. /\ Len(log) \in Nat /\ Len(log') \in Nat /\ Handled \in 0 .. Len(log)
      /\ syncPc = "writing" => Current \in 1 .. Len(log) /\ Current' = Current
  <2>1. Len(log') \in Nat
    BY LenProperties DEF InLog
  <2>2. QED
    BY <2>1, Working DEF Current
<1>2. /\ \A n \in 1 .. Len(log) :
           Drafts'[n] = Drafts[n] /\ (n \in Missed' <=> n \in Missed)
      /\ \A n \in 0 .. Len(log) : Strays'[n] = Strays[n]
  BY <1>1, Steady
<1>3. /\ mirror'[Handled' + 1] = mirror[Handled + 1] /\ Strays'[Handled'] = Strays[Handled]
      /\ syncPc = "writing" =>
           /\ log'[Current'] = log[Current] /\ Drafts'[Current'] = Drafts[Current]
           /\ (Current' \in Missed' <=> Current \in Missed)
  <2>1. Handled + 1 \in 1 .. Len(log) \/ Handled + 1 = Len(log) + 1
    BY <1>1
  <2>2. QED
    BY <1>1, <1>2, <2>1
<1>4. (syncPc' = "writing" <=> syncPc = "writing") /\ mu' = mu /\ next' = next
  OBVIOUS
<1>5. Held'
  <2>1. \A uri \in Uris :
          /\ documents'[uri] = documents[uri]
          /\ documents[uri].version \in 0 .. Len(log')
          /\ documents[uri].node \in 0 .. Len(log')
    BY <1>1 DEF Held
  <2>2. /\ syncPc' = "writing" =>
             /\ log'[Current'].op \in {"open", "change", "close"}
             /\ log'[Current'].op = "change" => next' <= Len(log'[Current'].changes) + 1
    BY <1>3, <1>4 DEF Held, ChangesOf
  <2>3. QED
    BY <1>3, <1>4, <2>1, <2>2 DEF Held, ChangesOf
<1>6. ASSUME NEW uri \in Uris PROVE Made(uri)' = Made(uri)
  BY <1>3, <1>4 DEF Made
<1>7. Following'
  <2>1. SUFFICES ASSUME NEW uri \in Uris, uri \notin Strays'[Handled']
                 PROVE  /\ documents'[uri].version = mirror'[Handled' + 1][uri].version
                        /\ IF Made(uri)' = 0
                           THEN documents'[uri].text = Encode(mirror'[Handled' + 1][uri].text)
                           ELSE Current' \notin Missed' =>
                                  documents'[uri].text = Encode(Drafts'[Current'][Made(uri)'])
    BY DEF Following
  <2>2. uri \notin Strays[Handled] /\ documents' = documents
    BY <1>3, <2>1
  <2>3. /\ documents[uri].version = mirror[Handled + 1][uri].version
        /\ IF Made(uri) = 0 THEN documents[uri].text = Encode(mirror[Handled + 1][uri].text)
           ELSE Current \notin Missed => documents[uri].text = Encode(Drafts[Current][Made(uri)])
    BY <2>2 DEF Following
  <2>4. Made(uri) # 0 => syncPc = "writing"
    BY DEF Made
  <2>5. QED
    BY <1>3, <1>6, <2>2, <2>3, <2>4
<1>8. SavedRight'
  <2>1. SUFFICES ASSUME NEW i \in 1 .. Len(saved), NEW n, n = saved[i].num
                 PROVE  /\ n \in 1 .. Handled
                        /\ log'[n].uri \notin Strays'[n] =>
                             saved[i].text = Encode(mirror'[n][log'[n].uri].text)
    BY DEF SavedRight
  <2>2. /\ n \in 1 .. Handled
        /\ log[n].uri \notin Strays[n] => saved[i].text = Encode(mirror[n][log[n].uri].text)
    BY <2>1 DEF SavedRight
  <2>3. n \in 1 .. Len(log) /\ n \in 0 .. Len(log)
    BY <1>1, <2>2
  <2>4. log'[n] = log[n] /\ mirror'[n] = mirror[n] /\ Strays'[n] = Strays[n]
    BY <1>2, <2>3
  <2>5. QED
    BY <2>2, <2>4
<1>9. QED
  BY <1>5, <1>7, <1>8

\* What the client sends is known to both sides before anything is done about it.
LEMMA ClientKeeps ==
  ASSUME InLog, InLog', SInv, ClientStep
  PROVE  SInv'
<1>1. /\ Mirrored /\ Agreement /\ Held /\ Following /\ Lent /\ SavedRight
      /\ agreed # NoEncoding /\ agreed = encoding /\ agreed \in Encodings
      /\ Len(log) \in Nat /\ Num = Len(log) + 1 /\ Num \in 1 .. Len(log) + 1
      /\ Num <= MaxNotifications
  <2>1. Len(log) \in Nat /\ Len(log) < MaxNotifications
    BY Working DEF ClientStep
  <2>2. QED
    BY <2>1, SyncAssumption DEF SInv, ClientStep, Agreement, Num
<1>2. \A uri \in Uris : Mine(uri) \in Client
  <2>1. mirror[Num] \in [Uris -> Client]
    BY <1>1, ClientTyped
  <2>2. QED
    BY <2>1 DEF Mine
<1>3. /\ \A t \in Texts \cup Inserts : t \in Seq(Characters)
      /\ <<>> \in Seq(Characters) /\ <<>> \in ChangeLists \cup {<<>>}
      /\ <<>> \in Texts \cup {<<>>}
  BY SyncAssumption
\* What a step of the client comes down to.
<1> DEFINE Becomings(entry, uri) ==
      IF entry.uri # uri \/ entry.op = "save" THEN Mine(uri)
      ELSE IF entry.op = "open" THEN [version |-> Num, text |-> entry.text]
      ELSE IF ~IsOpen(uri) THEN Mine(uri)
      ELSE IF entry.op = "close" THEN [version |-> None, text |-> <<>>]
      ELSE [version |-> Num, text |-> EditAll(Mine(uri).text, entry.changes)]
    Sends(entry, m) ==
      /\ entry \in Notifications /\ m \in [Uris -> Client]
      /\ log' = Append(log, entry) /\ mirror' = Append(mirror, m)
      /\ SyncExecutor!Submit(Num) /\ UNCHANGED <<agreed, storeVars, syncVars, pointer, saved>>
      /\ \A uri \in Uris : m[uri] = Becomings(entry, uri)
      /\ entry.op = "change" /\ IsOpen(entry.uri) =>
           Legal(Mine(entry.uri).text, entry.changes)
<1>4. ASSUME NEW entry, NEW m, Sends(entry, m) PROVE SInv'
  <2>1. /\ Mirrored' /\ Len(log') = Len(log) + 1
        /\ \A n \in 1 .. Len(log) : log'[n] = log[n] /\ mirror'[n] = mirror[n]
        /\ mirror'[Len(log) + 1] = mirror[Len(log) + 1]
    BY <1>1, <1>4, Sent
  <2>2. /\ agreed' = agreed /\ UNCHANGED <<storeVars, syncVars, pointer, saved>>
        /\ running' = running /\ queue' = Append(queue, Num)
    BY <1>4 DEF SyncExecutor!Submit, InLog
  <2> HIDE DEF Sends
  <2>3. Handled' = Handled
    <3>1. queue \in Seq(Nat) /\ Num \in Nat
      BY <1>1 DEF InLog
    <3>2. Len(queue') = Len(queue) + 1 /\ Len(queue) \in Nat
      BY <2>2, <3>1, AppendProperties
    <3>3. QED
      BY <1>1, <2>1, <2>2, <3>2 DEF Handled, Current, syncVars
  <2>4. Held' /\ Following' /\ SavedRight'
    <3>1. UNCHANGED <<documents, mu, next, saved, syncPc, running>> /\ Len(log) <= Len(log')
      BY <1>1, <2>1, <2>2 DEF storeVars, syncVars
    <3>2. QED
      BY <1>1, <2>1, <2>2, <2>3, <3>1, Carried
  <2>5. Agreement'
    BY <1>1, <2>2 DEF Agreement, storeVars
  <2>6. Lent'
    <3>1. 1 .. Len(log) \subseteq 1 .. Len(log')
      BY <1>1, <2>1
    <3>2. pointer' = pointer
      BY <2>2
    <3>3. QED
      BY <1>1, <3>1, <3>2 DEF Lent
  <2>7. QED
    BY <2>1, <2>4, <2>5, <2>6 DEF SInv
\* Most steps change one document of the client, or none.
<1>5. ASSUME NEW op \in {"open", "change", "close", "save"}, NEW uri \in Uris,
             NEW text_ \in Texts \cup {<<>>}, NEW changes \in ChangeLists \cup {<<>>},
             Notify(op, uri, text_, changes), NEW x \in Client,
             mirror' = Append(mirror, [mirror[Num] EXCEPT ![uri] = x]),
             x = Becomings([op |-> op, uri |-> uri, text |-> text_, changes |-> changes], uri),
             op = "change" /\ IsOpen(uri) => Legal(Mine(uri).text, changes)
      PROVE  SInv'
  <2> DEFINE entry == [op |-> op, uri |-> uri, text |-> text_, changes |-> changes]
             m == [mirror[Num] EXCEPT ![uri] = x]
  <2>1. entry \in Notifications /\ entry.uri = uri
    BY DEF Notifications
  <2>2. mirror[Num] \in [Uris -> Client]
    BY <1>1, ClientTyped
  <2>3. m \in [Uris -> Client] /\ \A u \in Uris : m[u] = IF u = uri THEN x ELSE Mine(u)
    BY <2>2 DEF Mine
  <2>4. \A u \in Uris : u # uri => Becomings(entry, u) = Mine(u)
    BY <2>1
  <2>5. \A u \in Uris : m[u] = Becomings(entry, u)
    <3> HIDE DEF Becomings, m, entry
    <3>1. x = Becomings(entry, uri)
      BY <1>5 DEF entry
    <3>2. QED
      BY <2>3, <2>4, <3>1
  <2>6. /\ log' = Append(log, entry) /\ mirror' = Append(mirror, m)
        /\ SyncExecutor!Submit(Num) /\ UNCHANGED <<agreed, storeVars, syncVars, pointer, saved>>
    BY <1>5 DEF Notify
  <2>7. entry.op = "change" /\ IsOpen(entry.uri) => Legal(Mine(entry.uri).text, entry.changes)
    BY <1>5
  <2> HIDE DEF Becomings, m, entry
  <2>8. Sends(entry, m)
    BY <2>1, <2>3, <2>5, <2>6, <2>7
  <2> HIDE DEF Sends
  <2>9. QED
    BY <1>4, <2>8
<1>6. PICK uri \in Uris :
        \/ \E t \in Texts : DidOpen(uri, t)
        \/ \E changes \in ChangeLists : DidChange(uri, changes)
        \/ DidClose(uri)
        \/ DidSave(uri)
        \/ \E op \in {"change", "close", "save"} : DidStray(op, uri)
  BY DEF ClientStep
<1>7. /\ Mine(uri) \in Client /\ Mine(uri).text \in Seq(Characters)
      /\ [mirror[Num] EXCEPT ![uri] = Mine(uri)] = mirror[Num]
  <2>1. mirror[Num] \in [Uris -> Client]
    BY <1>1, ClientTyped
  <2>2. QED
    BY <2>1 DEF Mine, Client
<1>8. ASSUME NEW t \in Texts, DidOpen(uri, t) PROVE SInv'
  <2> DEFINE x == [version |-> Num, text |-> t]
  <2>1. x \in Client
    BY <1>1, <1>3 DEF Client
  <2>2. Notify("open", uri, t, <<>>) /\ mirror' = Append(mirror, [mirror[Num] EXCEPT ![uri] = x])
    BY <1>8 DEF DidOpen, Becomes
  <2>3. x = Becomings([op |-> "open", uri |-> uri, text |-> t, changes |-> <<>>], uri)
    OBVIOUS
  <2> HIDE DEF Becomings, x
  <2>4. QED
    BY <1>3, <1>5, <2>1, <2>2, <2>3
<1>9. ASSUME NEW changes \in ChangeLists, DidChange(uri, changes) PROVE SInv'
  <2> DEFINE x == [version |-> Num, text |-> EditAll(Mine(uri).text, changes)]
  <2>1. x \in Client
    <3>1. PICK k \in 1 .. MaxChanges : changes \in [1 .. k -> Changes]
      BY DEF ChangeLists
    <3>2. Len(changes) = k /\ k \in Nat
      BY <3>1, SyncAssumption
    <3>3. Edited(Mine(uri).text, changes, k) \in Seq(Characters)
      BY <1>1, <1>7, <3>1, <3>2, EditedStep
    <3>4. QED
      BY <1>1, <3>2, <3>3 DEF EditAll, Client
  <2>2. /\ Notify("change", uri, <<>>, changes)
        /\ mirror' = Append(mirror, [mirror[Num] EXCEPT ![uri] = x])
        /\ IsOpen(uri) /\ Legal(Mine(uri).text, changes)
    BY <1>9 DEF DidChange, Becomes
  <2>3. x = Becomings([op |-> "change", uri |-> uri, text |-> <<>>, changes |-> changes], uri)
    BY <2>2
  <2> HIDE DEF Becomings, x
  <2>4. QED
    BY <1>3, <1>5, <2>1, <2>2, <2>3
<1>10. CASE DidClose(uri)
  <2> DEFINE x == [version |-> None, text |-> <<>>]
  <2>1. x \in Client
    BY <1>3 DEF Client, None
  <2>2. /\ Notify("close", uri, <<>>, <<>>)
        /\ mirror' = Append(mirror, [mirror[Num] EXCEPT ![uri] = x])
        /\ IsOpen(uri)
    BY <1>10 DEF DidClose, Becomes
  <2>3. x = Becomings([op |-> "close", uri |-> uri, text |-> <<>>, changes |-> <<>>], uri)
    BY <2>2
  <2> HIDE DEF Becomings, x
  <2>4. QED
    BY <1>3, <1>5, <2>1, <2>2, <2>3
<1>11. CASE DidSave(uri)
  <2>1. /\ Notify("save", uri, <<>>, <<>>)
        /\ mirror' = Append(mirror, [mirror[Num] EXCEPT ![uri] = Mine(uri)])
    BY <1>7, <1>11 DEF DidSave
  <2>2. Mine(uri) = Becomings([op |-> "save", uri |-> uri, text |-> <<>>, changes |-> <<>>], uri)
    OBVIOUS
  <2> HIDE DEF Becomings
  <2>3. QED
    BY <1>3, <1>5, <1>7, <2>1, <2>2
<1>12. ASSUME NEW op \in {"change", "close", "save"}, DidStray(op, uri) PROVE SInv'
  <2>1. PICK t \in Inserts :
          Notify(op, uri, <<>>,
                 IF op = "change" THEN <<[range |-> Whole, text |-> t]>> ELSE <<>>)
    BY <1>12 DEF DidStray
  <2> DEFINE changes == IF op = "change" THEN <<[range |-> Whole, text |-> t]>> ELSE <<>>
  <2>2. changes \in ChangeLists \cup {<<>>}
    BY StrayChange
  <2>3. /\ Notify(op, uri, <<>>, changes) /\ ~IsOpen(uri)
        /\ mirror' = Append(mirror, [mirror[Num] EXCEPT ![uri] = Mine(uri)])
    BY <1>7, <1>12, <2>1 DEF DidStray, Stray
  <2> HIDE DEF changes
  <2>4. Mine(uri) = Becomings([op |-> op, uri |-> uri, text |-> <<>>, changes |-> changes], uri)
    BY <2>3
  <2>5. /\ op \in {"open", "change", "close", "save"} /\ <<>> \in Texts \cup {<<>>}
        /\ Mine(uri) \in Client
        /\ op = "change" /\ IsOpen(uri) => Legal(Mine(uri).text, changes)
    BY <1>7, <2>3
  <2> HIDE DEF Becomings
  <2>6. QED
    BY <1>5, <2>2, <2>3, <2>4, <2>5
<1> HIDE DEF Becomings, Sends
<1>13. QED
  BY <1>6, <1>8, <1>9, <1>10, <1>11, <1>12

\* When a notification has been handled, its document is the client's.
LEMMA Settled ==
  ASSUME InLog, InLog', SInv, syncPc \in {"begin", "writing"}, syncPc' = "done", mu' = FALSE,
         UNCHANGED <<agreed, log, mirror, queueVars, next>>,
         NEW u \in Uris, u = log[Current].uri, NEW item,
         \A uri \in Uris : documents'[uri] = IF uri = u THEN item ELSE documents[uri],
         item.version \in 0 .. Len(log), item.text \in Seq(Bytes), item.node \in 0 .. Len(log),
         item.node = None => item = Closed,
         item.node # None <=> After(Current, u).version # None,
         u \notin Strays[Current] =>
           /\ item.version = After(Current, u).version
           /\ item.text = Encode(After(Current, u).text)
  PROVE  Held' /\ Following'
<1>1. /\ Mirrored /\ Held /\ Following /\ Len(log) \in Nat
      /\ Current \in 1 .. Len(log) /\ Handled = Current - 1
      /\ Current' = Current /\ Handled' = Current
  <2>1. syncPc' = "done" => Handled' = Current'
    BY Working DEF Handled, InLog, Current, None
  <2>2. QED
    BY <2>1, Working DEF SInv, Current, queueVars
<1>2. Strays'[Handled'] = Strays[Current] /\ mirror'[Handled' + 1] = mirror[Current + 1]
  <2>1. Current \in 0 .. Len(log)
    BY <1>1
  <2>2. \A n \in 0 .. Len(log) : Strays'[n] = Strays[n]
    BY <1>1, Steady
  <2>3. QED
    BY <1>1, <2>1, <2>2
<1>3. ASSUME NEW uri \in Uris, uri # u
      PROVE  /\ mirror[Current + 1][uri] = mirror[Handled + 1][uri]
             /\ Made(uri) = 0
             /\ uri \notin Strays[Current] => uri \notin Strays[Handled]
  <2>1. mirror[Current + 1][uri] = mirror[Current][uri]
    BY <1>1, <1>3 DEF Mirrored, After
  <2>2. Current - 1 = Handled /\ Handled + 1 = Current
    BY <1>1
  <2>3. uri \notin Strays[Current] => uri \notin Strays[Handled]
    BY <1>1, <1>3, <2>2, StraysAre
  <2>4. QED
    BY <1>3, <2>1, <2>2, <2>3 DEF Made
<1>4. mirror[Current + 1][u] = After(Current, u)
  BY <1>1 DEF Mirrored
<1>5. Held'
  <2>1. ASSUME NEW uri \in Uris
        PROVE  /\ documents'[uri].version \in 0 .. Len(log')
               /\ documents'[uri].text \in Seq(Bytes)
               /\ documents'[uri].node \in 0 .. Len(log')
               /\ documents'[uri].node = None => documents'[uri] = Closed
               /\ documents'[uri].node # None <=> mirror'[Handled' + 1][uri].version # None
    <3>1. CASE uri = u
      <4>1. documents'[uri] = item
        BY <3>1
      <4>2. QED
        BY <1>2, <1>4, <3>1, <4>1
    <3>2. CASE uri # u
      <4>1. documents'[uri] = documents[uri]
        BY <3>2
      <4>2. QED
        BY <1>1, <1>2, <1>3, <3>2, <4>1 DEF Held
    <3>3. QED
      BY <3>1, <3>2
  <2>2. next' \in 1 .. MaxChanges + 1 /\ mu' \in BOOLEAN /\ (mu' <=> syncPc' = "writing")
    BY <1>1 DEF Held
  <2>3. QED
    BY <2>1, <2>2 DEF Held
<1>6. Following'
  <2>1. SUFFICES ASSUME NEW uri \in Uris, uri \notin Strays'[Handled']
                 PROVE  /\ documents'[uri].version = mirror'[Handled' + 1][uri].version
                        /\ documents'[uri].text = Encode(mirror'[Handled' + 1][uri].text)
    <3>1. \A uri \in Uris : Made(uri)' = 0
      BY DEF Made
    <3>2. QED
      BY <3>1 DEF Following
  <2>2. uri \notin Strays[Current]
    BY <1>2, <2>1
  <2>3. CASE uri = u
    <3>1. documents'[uri] = item
      BY <2>3
    <3>2. QED
      BY <1>2, <1>4, <2>2, <2>3, <3>1
  <2>4. CASE uri # u
    <3>1. documents'[uri] = documents[uri]
      BY <2>4
    <3>2. /\ documents[uri].version = mirror[Handled + 1][uri].version
          /\ documents[uri].text = Encode(mirror[Handled + 1][uri].text)
      BY <1>1, <1>3, <2>2, <2>4 DEF Following
    <3>3. QED
      BY <1>2, <1>3, <2>4, <3>1, <3>2
  <2>5. QED
    BY <2>3, <2>4
<1>7. QED
  BY <1>5, <1>6

\* What onDocumentSaved was called with is not called in question later.
LEMMA SavedKept ==
  ASSUME InLog, SInv, UNCHANGED <<agreed, log, mirror, saved>>,
         Handled' \in Nat, Handled <= Handled'
  PROVE  SavedRight'
<1>1. SavedRight /\ Len(log) \in Nat /\ Handled \in 0 .. Len(log)
  BY Working DEF SInv
<1>2. \A n \in 0 .. Len(log) : Strays'[n] = Strays[n]
  BY <1>1, Steady
<1>3. ASSUME NEW i \in 1 .. Len(saved), NEW n, n = saved[i].num
      PROVE  /\ n \in 1 .. Handled'
             /\ log[n].uri \notin Strays'[n] => saved[i].text = Encode(mirror[n][log[n].uri].text)
  <2>1. /\ n \in 1 .. Handled
        /\ log[n].uri \notin Strays[n] => saved[i].text = Encode(mirror[n][log[n].uri].text)
    BY <1>1, <1>3 DEF SavedRight
  <2>2. n \in 0 .. Len(log) /\ n \in 1 .. Handled'
    BY <1>1, <2>1
  <2>3. QED
    BY <1>2, <2>1, <2>2
<1>4. QED
  BY <1>1, <1>3 DEF SavedRight

\* A change that can be made leaves bytes.
LEMMA ChangeIsText ==
  ASSUME NEW t \in Seq(Bytes), NEW change \in Changes, t = Doc(Current).text,
         encoding \in Encodings, ~OutOfRange(change)
  PROVE  Changed(t, change) \in Seq(Bytes)
<1>1. /\ change.range \in Ranges \cup {Whole} /\ change.text \in Seq(Characters)
      /\ Encode(change.text) \in Seq(Bytes)
  <2>1. change.range \in Ranges \cup {Whole} /\ change.text \in Seq(Characters)
    BY SyncAssumption DEF Changes
  <2>2. QED
    BY <2>1, Encoding
<1>2. CASE change.range = Whole
  BY <1>1, <1>2 DEF Changed
<1>3. CASE change.range # Whole
  <2> DEFINE from == Start(change)
             to == End(change)
             rest == Len(t) - from
             count == IF to < from THEN rest ELSE Min({to - from, rest})
  <2>1. /\ change.range[1] \in [line : Nat, character : Nat]
        /\ change.range[2] \in [line : Nat, character : Nat]
    BY <1>1, <1>3, SyncAssumption DEF Ranges
  <2>2. from \in Nat /\ to \in Nat /\ Len(t) \in Nat
    BY <2>1, OffsetBounds, LenProperties DEF Start, End
  <2>3. from <= Len(t)
    BY <1>3, <2>2 DEF OutOfRange
  <2> HIDE DEF from, to
  <2>4. count \in 0 .. rest
    <3>1. CASE to < from
      BY <2>2, <2>3, <3>1
    <3>2. CASE ~(to < from)
      <4>1. ASSUME NEW a \in Nat, NEW b \in Nat PROVE Min({a, b}) = IF a <= b THEN a ELSE b
        <5>1. CASE a <= b
          BY <5>1 DEF Min
        <5>2. CASE ~(a <= b)
          BY <5>2 DEF Min
        <5>3. QED
          BY <5>1, <5>2
      <4>2. to - from \in Nat /\ rest \in Nat
        BY <2>2, <2>3, <3>2
      <4> HIDE DEF rest
      <4>3. Min({to - from, rest}) \in 0 .. rest
        BY <4>1, <4>2
      <4>4. QED
        BY <3>2, <4>3 DEF count
    <3>3. QED
      BY <3>1, <3>2
  <2> HIDE DEF count
  <2>5. SubSeq(t, 1, from) \in Seq(Bytes) /\ SubSeq(t, from + count + 1, Len(t)) \in Seq(Bytes)
    <3>1. \A i \in 1 .. Len(t) : t[i] \in Bytes
      BY ElementOfSeq
    <3>2. /\ \A i \in 1 .. from : t[i] \in Bytes
          /\ \A i \in from + count + 1 .. Len(t) : t[i] \in Bytes
      BY <2>2, <2>3, <2>4, <3>1
    <3>3. QED
      BY <2>2, <2>3, <2>4, <3>2, SubSeqProperties
  <2>6. Changed(t, change) =
          (SubSeq(t, 1, from) \o Encode(change.text)) \o SubSeq(t, from + count + 1, Len(t))
    BY <1>3 DEF Changed, ReplaceBytes, from, to, count
  <2>7. SubSeq(t, 1, from) \o Encode(change.text) \in Seq(Bytes)
    BY <1>1, <2>5, ConcatProperties
  <2>8. QED
    BY <2>5, <2>6, <2>7, ConcatProperties
<1>4. QED
  BY <1>2, <1>3

\* Where nothing is missed, a change does to the bytes what the client meant.
LEMMA ChangeMeant ==
  ASSUME InLog, SInv, Changing, Doc(Current).node # None, next <= Len(ChangesOf(Current)),
         log[Current].uri \notin Strays[Handled], Current \notin Missed
  PROVE  LET change == ChangesOf(Current)[next]
         IN  /\ ~OutOfRange(change)
             /\ Changed(Doc(Current).text, change) = Encode(Drafts[Current][next])
<1> DEFINE n == Current
           uri == log[n].uri
           ch == ChangesOf(n)
           change == ch[next]
           c == Drafts[n][next - 1]
           t == Doc(n).text
<1>1. /\ Mirrored /\ Held /\ Following /\ n \in 1 .. Len(log) /\ Handled = n - 1
      /\ uri \in Uris /\ log[n].op = "change" /\ syncPc = "writing" /\ Len(log) \in Nat
  BY Working DEF SInv, Changing, Notifications
<1>2. agreed \in Encodings /\ encoding = agreed
  BY <1>1 DEF SInv, Agreement
<1>3. /\ next \in 1 .. Len(ch) /\ change \in Changes
      /\ c \in Seq(Characters) /\ Drafts[n][next] = Edit(c, change)
  <2>1. /\ ch \in [1 .. Len(ch) -> Changes] /\ Len(ch) \in 0 .. MaxChanges
        /\ \A k \in 0 .. Len(ch) : Drafts[n][k] \in Seq(Characters)
        /\ \A k \in 1 .. Len(ch) : Drafts[n][k] = Edit(Drafts[n][k - 1], ch[k])
    <3> HIDE DEF n
    <3>1. QED
      BY <1>1, <1>2, DraftsAre
  <2>2. next \in 1 .. Len(ch) /\ next - 1 \in 0 .. Len(ch)
    BY <1>1, <2>1, SyncAssumption DEF Held
  <2>3. QED
    BY <2>1, <2>2
<1>4. t = Encode(c) /\ Len(t) \in Nat /\ t \in Seq(Bytes)
  <2>1. Made(uri) = next - 1
    BY <1>1 DEF Made, Doc
  <2>2. CASE next = 1
    <3>1. documents[uri].text = Encode(mirror[Handled + 1][uri].text)
      BY <1>1, <2>1, <2>2 DEF Following
    <3>2. mirror[Handled + 1][uri].text = Drafts[n][0]
      BY <1>1, <1>2, DraftsAre
    <3>3. QED
      BY <1>3, <2>2, <3>1, <3>2, Encoding, LenProperties DEF Doc
  <2>3. CASE next # 1
    <3>1. Made(uri) # 0
      BY <1>3, <2>1, <2>3
    <3>2. documents[uri].text = Encode(Drafts[n][next - 1])
      BY <1>1, <2>1, <3>1 DEF Following
    <3>3. QED
      BY <1>3, <3>2, Encoding, LenProperties DEF Doc
  <2>4. QED
    BY <2>2, <2>3
<1>5. change.range \in Ranges \cup {Whole} /\ change.text \in Seq(Characters)
  BY <1>3, SyncAssumption DEF Changes
<1>6. CASE change.range = Whole
  BY <1>3, <1>6 DEF OutOfRange, Changed, Edit
<1>7. CASE change.range # Whole
  <2> DEFINE p == change.range[1]
             q == change.range[2]
             i == PlaceOf(c, p, agreed)
             j == PlaceOf(c, q, agreed)
  <2>1. /\ p \in [line : Nat, character : Nat] /\ q \in [line : Nat, character : Nat]
        /\ Before(p, q)
    BY <1>5, <1>7, SyncAssumption DEF Ranges
  <2>2. IsPosition(c, p, agreed) /\ IsPosition(c, q, agreed)
    <3>1. mirror[n][uri].version # None
      BY <1>1 DEF Held, Doc
    <3>2. QED
      BY <1>1, <1>3, <1>7, <3>1 DEF Mirrored
  <2>3. /\ ~(agreed = "utf-8" /\ InLine(c, p, agreed) = {})
        /\ ~(agreed = "utf-8" /\ InLine(c, q, agreed) = {})
    <3>1. c = Edited(mirror[n][uri].text, ch, next - 1)
      <4>1. next - 1 \in 0 .. Len(ch)
        BY <1>3
      <4>2. QED
        BY <1>1, <4>1 DEF Drafts
    <3>2. ~Misplaces(n)
      BY <1>1 DEF Missed
    <3>3. ASSUME agreed = "utf-8", NEW k \in {1, 2} PROVE InLine(c, change.range[k], agreed) # {}
      BY <1>1, <1>3, <1>7, <3>1, <3>2, <3>3 DEF Misplaces, ChangesOf
    <3>4. QED
      BY <3>3
  <2> HIDE DEF p, q, i, j, c, t
  <2>4. i \in 0 .. Len(c) /\ j \in 0 .. Len(c) /\ i <= j
    BY <1>2, <1>3, <2>1, PlaceNamed DEF i, j
  <2>5. PositionToOffset(t, p, agreed) = OffsetAt(c, i) /\
        PositionToOffset(t, q, agreed) = OffsetAt(c, j)
    BY <1>2, <1>3, <1>4, <2>1, <2>2, <2>3, PlaceFound DEF i, j
  <2>6. Start(change) = OffsetAt(c, i) /\ End(change) = OffsetAt(c, j)
    BY <1>2, <2>5 DEF Start, End, p, q, t
  <2>7. ~OutOfRange(change)
    <3>1. OffsetAt(c, i) \in 0 .. Len(t)
      BY <1>3, <1>4, <2>4, Offsets
    <3>2. QED
      BY <1>4, <2>6, <3>1 DEF OutOfRange, t
  <2>8. Changed(t, change) = Encode(ReplaceChars(c, i, j, change.text))
    BY <1>3, <1>4, <1>5, <1>7, <2>4, <2>6, ReplaceEncoded DEF Changed
  <2>9. Edit(c, change) = ReplaceChars(c, i, j, change.text)
    BY <1>7 DEF Edit, i, j, p, q
  <2>10. QED
    BY <1>3, <2>7, <2>8, <2>9 DEF t, c
<1>8. QED
  BY <1>6, <1>7

LEMMA MirrorKept ==
  ASSUME InLog, SInv, UNCHANGED <<agreed, log, mirror>>
  PROVE  Mirrored'
<1>1. Len(log) \in Nat /\ Mirrored
  BY Working DEF SInv
<1>2. \A n \in 1 .. Len(log) :
        Drafts'[n] = Drafts[n] /\ \A uri \in Uris : After(n, uri)' = After(n, uri)
  BY <1>1, Steady
<1>3. \A n \in 1 .. Len(log), uri \in Uris : mirror'[n + 1][uri] = After(n, uri)'
  BY <1>1, <1>2 DEF Mirrored
<1>4. QED
  BY <1>1, <1>2, <1>3 DEF Mirrored, ChangesOf

\* The same of all that is claimed, for the operations that take mu_.
LEMMA Unwound ==
  ASSUME InLog, InLog', SInv, syncPc = "writing", Unwind, StoreFrame, UNCHANGED next,
         NEW u \in Uris, u = log[Current].uri, NEW item,
         \A uri \in Uris : documents'[uri] = IF uri = u THEN item ELSE documents[uri],
         item.version \in 0 .. Len(log), item.text \in Seq(Bytes), item.node \in 0 .. Len(log),
         item.node = None => item = Closed,
         item.node # None <=> After(Current, u).version # None,
         u \notin Strays[Current] =>
           /\ item.version = After(Current, u).version
           /\ item.text = Encode(After(Current, u).text)
  PROVE  SInv'
<1>1. /\ UNCHANGED <<encoding, queueVars, agreed, log, mirror, pointer, saved, next>>
      /\ syncPc' = "done" /\ mu' = FALSE
  BY DEF Unwind, StoreFrame, clientVars
<1>2. Held' /\ Following'
  BY <1>1, Settled
<1>3. Mirrored'
  BY <1>1, MirrorKept
<1>4. SavedRight'
  <2>1. /\ Handled = Current - 1 /\ Current \in 1 .. Len(log) /\ Len(log) \in Nat
        /\ Handled' = Current'
    BY <1>1, Working DEF Handled, InLog, Current, None
  <2>2. Handled' \in Nat /\ Handled <= Handled'
    BY <1>1, <2>1 DEF Current, queueVars
  <2>3. QED
    BY <1>1, <2>2, SavedKept
<1>5. Agreement' /\ Lent'
  BY <1>1 DEF SInv, Agreement, Lent
<1>6. QED
  BY <1>2, <1>3, <1>4, <1>5 DEF SInv

LEMMA StoreOpenKeeps ==
  ASSUME InLog, InLog', Stored, SInv, StoreOpen
  PROVE  SInv'
<1> DEFINE n == Current
           u == log[n].uri
           item == [version |-> n, text |-> Encode(log[n].text),
                    node |-> IF documents[u].node = None THEN n ELSE documents[u].node]
<1>1. /\ syncPc = "writing" /\ log[n].op = "open" /\ Unwind /\ StoreFrame /\ UNCHANGED next
      /\ documents' = [documents EXCEPT ![u] = item]
  BY DEF StoreOpen, StoreItem
<1>2. /\ n \in 1 .. Len(log) /\ Len(log) \in Nat /\ u \in Uris /\ n # None
      /\ log[n].text \in Seq(Characters) /\ Encode(log[n].text) \in Seq(Bytes)
      /\ documents[u].node \in 0 .. Len(log)
  <2>1. n \in 1 .. Len(log) /\ Len(log) \in Nat /\ log[n] \in Notifications
    BY <1>1, Working
  <2>2. u \in Uris /\ log[n].text \in Texts \cup {<<>>}
    BY <2>1 DEF Notifications
  <2>3. log[n].text \in Seq(Characters)
    <3>1. Texts \subseteq Seq(Characters) /\ <<>> \in Seq(Characters)
      BY SyncAssumption
    <3>2. QED
      BY <2>2, <3>1
  <2>4. QED
    BY <2>1, <2>2, <2>3, Encoding DEF SInv, Held, None
<1>3. After(n, u) = [version |-> n, text |-> log[n].text]
  BY <1>1 DEF After
<1>4. \A uri \in Uris : documents'[uri] = IF uri = u THEN item ELSE documents[uri]
  BY <1>1, <1>2 DEF Stored
<1>5. /\ item.version = n /\ item.text = Encode(log[n].text)
      /\ item.node \in 0 .. Len(log) /\ item.node # None
  BY <1>2 DEF None
<1> HIDE DEF item, n
<1>6. /\ item.version \in 0 .. Len(log) /\ item.text \in Seq(Bytes)
      /\ item.version = After(n, u).version /\ item.text = Encode(After(n, u).text)
      /\ After(n, u).version # None
  BY <1>2, <1>3, <1>5
<1>7. QED
  BY <1>1, <1>2, <1>4, <1>5, <1>6, Unwound DEF n

LEMMA StoreCloseKeeps ==
  ASSUME InLog, InLog', Stored, SInv, StoreClose
  PROVE  SInv'
<1> DEFINE n == Current
           u == log[n].uri
<1>1. /\ syncPc = "writing" /\ log[n].op = "close" /\ Unwind /\ StoreFrame /\ UNCHANGED next
      /\ documents' = [documents EXCEPT ![u] = Closed]
  BY DEF StoreClose
<1>2. /\ n \in 1 .. Len(log) /\ Len(log) \in Nat /\ u \in Uris /\ Handled = n - 1
      /\ Held /\ Following
  BY <1>1, Working DEF SInv, Notifications
<1>3. \A uri \in Uris : documents'[uri] = IF uri = u THEN Closed ELSE documents[uri]
  BY <1>1, <1>2 DEF Stored
<1>4. Closed.version = 0 /\ Closed.text = <<>> /\ Closed.node = None /\ None = 0
  BY DEF Closed, None
<1>5. After(n, u).version = None
  BY <1>1 DEF After
<1>6. u \notin Strays[n] => Encode(After(n, u).text) = <<>>
  <2>1. CASE mirror[n][u].version # None
    <3>1. After(n, u).text = <<>>
      BY <1>1, <2>1 DEF After
    <3>2. QED
      BY <3>1, Encoding
  <2>2. CASE mirror[n][u].version = None
    <3>1. SUFFICES ASSUME u \notin Strays[n] PROVE Encode(After(n, u).text) = <<>>
      OBVIOUS
    <3>2. Handled + 1 = n /\ u \notin Strays[Handled]
      <4>1. u \notin Strays[n - 1]
        BY <1>1, <1>2, <3>1, StraysAre
      <4>2. QED
        BY <1>2, <4>1
    <3>3. documents[u] = Closed
      BY <1>2, <2>2, <3>2 DEF Held
    <3>4. Made(u) = 0
      BY <1>1 DEF Made
    <3>5. documents[u].text = Encode(mirror[n][u].text)
      BY <1>2, <3>2, <3>4 DEF Following
    <3>6. After(n, u) = mirror[n][u]
      BY <1>1, <2>2 DEF After
    <3>7. QED
      BY <1>4, <3>3, <3>5, <3>6
  <2>3. QED
    BY <2>1, <2>2
<1>7. /\ Closed.version \in 0 .. Len(log) /\ Closed.text \in Seq(Bytes)
      /\ Closed.node \in 0 .. Len(log)
      /\ u \notin Strays[n] =>
           Closed.version = After(n, u).version /\ Closed.text = Encode(After(n, u).text)
  BY <1>2, <1>4, <1>5, <1>6
<1>8. Closed.node # None <=> After(n, u).version # None
  BY <1>4, <1>5
<1> HIDE DEF n
<1>9. QED
  BY <1>1, <1>2, <1>3, <1>7, <1>8, Unwound DEF n

LEMMA ChangeNothingKeeps ==
  ASSUME InLog, InLog', SInv, ChangeNothing
  PROVE  SInv'
<1> DEFINE n == Current
           u == log[n].uri
<1>1. /\ syncPc = "writing" /\ log[n].op = "change" /\ Unwind /\ StoreFrame
      /\ UNCHANGED <<next, documents>> /\ documents[u].node = None
  BY DEF ChangeNothing, Changing, Doc
<1>2. /\ n \in 1 .. Len(log) /\ Len(log) \in Nat /\ u \in Uris /\ Handled + 1 = n
      /\ Held /\ Following
  BY <1>1, Working DEF SInv, Notifications
<1>3. After(n, u) = mirror[n][u] /\ mirror[n][u].version = None
  BY <1>1, <1>2 DEF After, Held
<1>4. /\ documents[u].version \in 0 .. Len(log) /\ documents[u].text \in Seq(Bytes)
      /\ documents[u].node \in 0 .. Len(log)
      /\ documents[u].node = None => documents[u] = Closed
  BY <1>2 DEF Held
<1>5. u \notin Strays[n] =>
        /\ documents[u].version = mirror[n][u].version
        /\ documents[u].text = Encode(mirror[n][u].text)
  <2>1. u \notin Strays[n] => u \notin Strays[Handled]
    <3>1. u \in Strays[n - 1] => u \in Strays[n]
      BY <1>1, <1>2, StraysAre
    <3>2. Handled = n - 1
      BY <1>1, Working
    <3>3. QED
      BY <3>1, <3>2
  <2>2. Made(u) = 0
    BY <1>1 DEF Made
  <2>3. QED
    BY <1>2, <2>1, <2>2 DEF Following
<1>6. \A uri \in Uris : documents'[uri] = IF uri = u THEN documents[u] ELSE documents[uri]
  BY <1>1
<1> HIDE DEF n
<1>7. QED
  BY <1>1, <1>2, <1>3, <1>4, <1>5, <1>6, Unwound DEF n

\* What is known of a document when its changes are being made.
LEMMA UnderChange ==
  ASSUME InLog, SInv, Changing, Doc(Current).node # None
  PROVE  LET n == Current
             u == log[Current].uri
         IN  /\ n \in 1 .. Len(log) /\ Len(log) \in Nat /\ u \in Uris /\ Handled + 1 = n
             /\ syncPc = "writing" /\ log[n].op = "change" /\ documents[u].node # None
             /\ After(n, u) = [version |-> n, text |-> Drafts[n][Len(ChangesOf(n))]]
             /\ documents[u].version \in 0 .. Len(log) /\ documents[u].text \in Seq(Bytes)
             /\ documents[u].node \in 0 .. Len(log)
             /\ u \notin Strays[n] => u \notin Strays[Handled] /\ n \notin Missed
             /\ Len(ChangesOf(n)) \in 0 .. MaxChanges /\ next \in 1 .. Len(ChangesOf(n)) + 1
             /\ \A k \in 1 .. Len(ChangesOf(n)) : ChangesOf(n)[k] \in Changes
<1> DEFINE n == Current
           u == log[n].uri
<1>1. /\ syncPc = "writing" /\ log[n].op = "change" /\ documents[u].node # None
      /\ n \in 1 .. Len(log) /\ Len(log) \in Nat /\ u \in Uris /\ Handled = n - 1
      /\ Held /\ Mirrored
  BY Working DEF SInv, Notifications, Changing, Doc
<1>2. After(n, u) = [version |-> n, text |-> Drafts[n][Len(ChangesOf(n))]]
  BY <1>1 DEF After, Held
<1>3. /\ documents[u].version \in 0 .. Len(log) /\ documents[u].text \in Seq(Bytes)
      /\ documents[u].node \in 0 .. Len(log)
  BY <1>1 DEF Held
<1>4. u \notin Strays[n] => u \notin Strays[Handled] /\ n \notin Missed
  BY <1>1, StraysAre
<1>5. agreed \in Encodings
  BY <1>1 DEF SInv, Agreement
<1>6. ChangesOf(n) \in [1 .. Len(ChangesOf(n)) -> Changes] /\ Len(ChangesOf(n)) \in 0 .. MaxChanges
  <2> HIDE DEF n
  <2>1. QED
    BY <1>1, <1>5, DraftsAre
<1>7. next \in 1 .. Len(ChangesOf(n)) + 1
  BY <1>1, <1>6, SyncAssumption DEF Held
<1>8. QED
  BY <1>1, <1>2, <1>3, <1>4, <1>6, <1>7

LEMMA ChangeThrowsKeeps ==
  ASSUME InLog, InLog', SInv, ChangeThrows
  PROVE  SInv'
<1> DEFINE n == Current
           u == log[n].uri
<1>1. /\ Changing /\ Doc(n).node # None /\ next <= Len(ChangesOf(n))
      /\ OutOfRange(ChangesOf(n)[next])
      /\ Unwind /\ StoreFrame /\ UNCHANGED <<next, documents>>
  BY DEF ChangeThrows
<1>2. /\ n \in 1 .. Len(log) /\ u \in Uris /\ syncPc = "writing" /\ documents[u].node # None
      /\ After(n, u).version = n
      /\ documents[u].version \in 0 .. Len(log) /\ documents[u].text \in Seq(Bytes)
      /\ documents[u].node \in 0 .. Len(log)
      /\ u \notin Strays[n] => u \notin Strays[Handled] /\ n \notin Missed
  BY <1>1, UnderChange
<1>3. u \in Strays[n]
  BY <1>1, <1>2, ChangeMeant
<1>4. \A uri \in Uris : documents'[uri] = IF uri = u THEN documents[u] ELSE documents[uri]
  BY <1>1
<1>5. n # None
  BY <1>2, Working DEF None
<1> HIDE DEF n
<1>6. QED
  BY <1>1, <1>2, <1>3, <1>4, <1>5, Unwound DEF n

LEMMA SetVersionKeeps ==
  ASSUME InLog, InLog', Stored, SInv, SetVersion
  PROVE  SInv'
<1> DEFINE n == Current
           u == log[n].uri
           item == [version |-> n, text |-> documents[u].text, node |-> documents[u].node]
<1>1. /\ Changing /\ Doc(n).node # None /\ next > Len(ChangesOf(n))
      /\ documents' = [documents EXCEPT ![u].version = n]
      /\ Unwind /\ StoreFrame /\ UNCHANGED next
  BY DEF SetVersion
<1>2. /\ n \in 1 .. Len(log) /\ Len(log) \in Nat /\ u \in Uris /\ Handled + 1 = n
      /\ syncPc = "writing" /\ log[n].op = "change" /\ documents[u].node # None
      /\ After(n, u) = [version |-> n, text |-> Drafts[n][Len(ChangesOf(n))]]
      /\ documents[u].text \in Seq(Bytes) /\ documents[u].node \in 0 .. Len(log)
      /\ u \notin Strays[n] => u \notin Strays[Handled] /\ n \notin Missed
      /\ Len(ChangesOf(n)) \in Nat /\ next = Len(ChangesOf(n)) + 1
  BY <1>1, UnderChange, SyncAssumption
<1>3. \A uri \in Uris : documents'[uri] = IF uri = u THEN item ELSE documents[uri]
  <2>1. documents[u] = [version |-> documents[u].version, text |-> documents[u].text,
                        node |-> documents[u].node]
    BY <1>2 DEF Stored
  <2>2. [documents[u] EXCEPT !.version = n] = item
    BY <2>1
  <2>3. documents' = [documents EXCEPT ![u] = [documents[u] EXCEPT !.version = n]]
    BY <1>1
  <2> HIDE DEF u, item
  <2>4. QED
    BY <1>2, <2>2, <2>3 DEF Stored
<1>4. u \notin Strays[n] => documents[u].text = Encode(Drafts[n][Len(ChangesOf(n))])
  <2>1. Made(u) = Len(ChangesOf(n))
    BY <1>2 DEF Made
  <2>2. CASE Made(u) = 0
    <3>1. Drafts[n][0] = mirror[n][u].text
      <4>1. agreed \in Encodings /\ Mirrored
        BY <1>2 DEF SInv, Agreement
      <4> HIDE DEF n
      <4>2. QED
        BY <1>2, <4>1, DraftsAre
    <3>2. QED
      BY <1>2, <2>1, <2>2, <3>1 DEF SInv, Following
  <2>3. CASE Made(u) # 0
    BY <1>2, <2>1, <2>3 DEF SInv, Following
  <2>4. QED
    BY <2>2, <2>3
<1>5. /\ item.version = n /\ n \in 0 .. Len(log) /\ item.text = documents[u].text
      /\ item.node = documents[u].node /\ n # None
  BY <1>2 DEF None
<1> HIDE DEF n, item
<1>6. QED
  BY <1>1, <1>2, <1>3, <1>4, <1>5, Unwound DEF n

LEMMA ApplyOneChangeKeeps ==
  ASSUME InLog, InLog', Stored, SInv, ApplyOneChange
  PROVE  SInv'
<1> DEFINE n == Current
           u == log[n].uri
           change == ChangesOf(n)[next]
           t == documents[u].text
           item == [version |-> documents[u].version, text |-> Changed(t, change),
                    node |-> documents[u].node]
<1>1. /\ Changing /\ Doc(n).node # None /\ next <= Len(ChangesOf(n)) /\ ~OutOfRange(change)
      /\ documents' = [documents EXCEPT ![u].text = Changed(@, change)]
      /\ next' = next + 1
      /\ UNCHANGED <<encoding, mu, syncPc, queueVars, agreed, log, mirror, pointer, saved>>
  BY DEF ApplyOneChange, StoreFrame, clientVars
<1>2. /\ n \in 1 .. Len(log) /\ Len(log) \in Nat /\ u \in Uris /\ Handled + 1 = n
      /\ syncPc = "writing" /\ log[n].op = "change" /\ documents[u].node # None
      /\ t \in Seq(Bytes) /\ change \in Changes
      /\ Len(ChangesOf(n)) \in 0 .. MaxChanges /\ next \in 1 .. Len(ChangesOf(n))
  <2>1. /\ n \in 1 .. Len(log) /\ Len(log) \in Nat /\ u \in Uris /\ Handled + 1 = n
        /\ syncPc = "writing" /\ log[n].op = "change" /\ documents[u].node # None
        /\ documents[u].text \in Seq(Bytes)
        /\ Len(ChangesOf(n)) \in 0 .. MaxChanges /\ next \in 1 .. Len(ChangesOf(n)) + 1
        /\ \A k \in 1 .. Len(ChangesOf(n)) : ChangesOf(n)[k] \in Changes
    BY <1>1, UnderChange
  <2>2. next \in 1 .. Len(ChangesOf(n))
    BY <1>1, <2>1, SyncAssumption
  <2>3. QED
    BY <2>1, <2>2
<1>3. \A uri \in Uris : documents'[uri] = IF uri = u THEN item ELSE documents[uri]
  <2>1. documents[u] = [version |-> documents[u].version, text |-> documents[u].text,
                        node |-> documents[u].node]
    BY <1>2 DEF Stored
  <2>2. [documents[u] EXCEPT !.text = Changed(t, change)] = item
    BY <2>1
  <2>3. documents' = [documents EXCEPT ![u] = [documents[u] EXCEPT !.text = Changed(t, change)]]
    BY <1>1
  <2> HIDE DEF u, item, t, change
  <2>4. QED
    BY <1>2, <2>2, <2>3 DEF Stored
<1>4. Changed(t, change) \in Seq(Bytes)
  <2>1. t = Doc(Current).text /\ encoding \in Encodings
    BY DEF Doc, SInv, Agreement
  <2>2. QED
    BY <1>1, <1>2, <2>1, ChangeIsText
<1>5. /\ Held /\ Following /\ Mirrored
      /\ Handled' = Handled /\ Current' = Current /\ syncPc' = "writing"
      /\ Handled \in 0 .. Len(log)
  BY <1>1, <1>2, Working DEF SInv, Handled, Current, queueVars
<1>6. /\ Drafts'[n] = Drafts[n] /\ (n \in Missed' <=> n \in Missed)
      /\ Strays'[Handled] = Strays[Handled]
  <2> HIDE DEF n
  <2>1. QED
    BY <1>1, <1>2, <1>5, Steady
<1>7. Held'
  <2>1. ASSUME NEW uri \in Uris
        PROVE  /\ documents'[uri].version \in 0 .. Len(log)
               /\ documents'[uri].text \in Seq(Bytes)
               /\ documents'[uri].node \in 0 .. Len(log)
               /\ documents'[uri].node = None => documents'[uri] = Closed
               /\ documents'[uri].node # None <=> mirror[Handled + 1][uri].version # None
    <3>1. CASE uri = u
      <4>1. documents'[uri] = item
        BY <1>3, <3>1
      <4>2. /\ item.version = documents[u].version /\ item.node = documents[u].node
            /\ item.text = Changed(t, change)
        OBVIOUS
      <4> HIDE DEF item, t, change
      <4>3. QED
        BY <1>2, <1>4, <1>5, <3>1, <4>1, <4>2 DEF Held
    <3>2. CASE uri # u
      BY <1>3, <1>5, <3>2 DEF Held
    <3>3. QED
      BY <3>1, <3>2
  <2>2. next' \in 1 .. MaxChanges + 1 /\ next' <= Len(ChangesOf(n)) + 1
    BY <1>1, <1>2, SyncAssumption
  <2>3. QED
    BY <1>1, <1>2, <1>5, <2>1, <2>2 DEF Held, ChangesOf
<1>8. Following'
  <2>1. SUFFICES ASSUME NEW uri \in Uris, uri \notin Strays[Handled]
                 PROVE  /\ documents'[uri].version = mirror[Handled + 1][uri].version
                        /\ IF Made(uri)' = 0
                           THEN documents'[uri].text = Encode(mirror[Handled + 1][uri].text)
                           ELSE n \notin Missed =>
                                  documents'[uri].text = Encode(Drafts[n][Made(uri)'])
    BY <1>1, <1>5, <1>6 DEF Following
  <2>2. CASE uri = u
    <3>1. documents'[u] = item
      BY <1>3, <2>2
    <3>2. /\ item.version = documents[u].version /\ item.node = documents[u].node
          /\ item.text = Changed(t, change)
      OBVIOUS
    <3>3. Made(uri)' = next
      <4>1. documents'[uri].node # None /\ log'[Current'].uri = uri /\ log'[Current'].op = "change"
        BY <1>1, <1>2, <1>5, <2>2, <3>1, <3>2
      <4>2. next' - 1 = next
        BY <1>1, <1>2
      <4>3. QED
        BY <1>5, <4>1, <4>2 DEF Made
    <3>4. n \notin Missed => Changed(t, change) = Encode(Drafts[n][next])
      BY <1>1, <2>1, <2>2, ChangeMeant DEF Doc
    <3>5. documents[u].version = mirror[Handled + 1][u].version
      BY <1>5, <2>1, <2>2 DEF Following
    <3>6. next # 0
      BY <1>2
    <3> HIDE DEF item, t, change, n
    <3>7. QED
      BY <2>2, <3>1, <3>2, <3>3, <3>4, <3>5, <3>6
  <2>3. CASE uri # u
    <3>1. documents'[uri] = documents[uri]
      BY <1>3, <2>3
    <3>2. Made(uri) = 0 /\ Made(uri)' = 0
      BY <1>1, <1>5, <2>3 DEF Made
    <3>3. QED
      BY <1>5, <2>1, <3>1, <3>2 DEF Following
  <2>4. QED
    BY <2>2, <2>3
<1>9. Mirrored' /\ SavedRight'
  BY <1>1, <1>2, <1>5, MirrorKept, SavedKept
<1>10. Agreement' /\ Lent'
  BY <1>1 DEF SInv, Agreement, Lent
<1>11. QED
  BY <1>7, <1>8, <1>9, <1>10 DEF SInv

LEMMA LockStoreKeeps ==
  ASSUME InLog, InLog', SInv, LockStore
  PROVE  SInv'
<1>1. /\ syncPc = "begin" /\ syncPc' = "writing" /\ mu' = TRUE /\ next' = 1
      /\ log[Current].op \in {"open", "change", "close"}
      /\ UNCHANGED <<encoding, documents, queueVars, agreed, log, mirror, pointer, saved>>
  BY DEF LockStore, clientVars
<1>2. /\ Held /\ Following /\ Mirrored /\ Len(log) \in Nat /\ Current \in 1 .. Len(log)
      /\ Handled' = Handled /\ Current' = Current /\ Handled \in 0 .. Len(log)
  BY <1>1, Working DEF SInv, Handled, Current, queueVars
<1>3. Strays'[Handled] = Strays[Handled]
  BY <1>1, <1>2, Steady
<1>4. Held'
  <2>1. next' \in 1 .. MaxChanges + 1 /\ next' <= Len(ChangesOf(Current)) + 1
    <3>1. Len(ChangesOf(Current)) \in Nat
      <4>1. agreed \in Encodings
        BY <1>2 DEF SInv, Agreement
      <4>2. Len(ChangesOf(Current)) \in 0 .. MaxChanges
        BY <1>2, <4>1, DraftsAre
      <4>3. QED
        BY <4>2, SyncAssumption
    <3>2. QED
      BY <1>1, <3>1, SyncAssumption
  <2>2. QED
    BY <1>1, <1>2, <2>1 DEF Held, ChangesOf
<1>5. Following'
  <2>1. \A uri \in Uris : Made(uri) = 0 /\ Made(uri)' = 0
    BY <1>1 DEF Made
  <2>2. QED
    BY <1>1, <1>2, <1>3, <2>1 DEF Following
<1>6. Mirrored' /\ SavedRight'
  BY <1>1, <1>2, MirrorKept, SavedKept
<1>7. Agreement' /\ Lent'
  BY <1>1 DEF SInv, Agreement, Lent
<1>8. QED
  BY <1>4, <1>5, <1>6, <1>7 DEF SInv

LEMMA HandleSaveKeeps ==
  ASSUME InLog, InLog', SInv, HandleSave
  PROVE  SInv'
<1> DEFINE n == Current
           u == log[n].uri
           item == documents[u]
           entry == [num |-> n, text |-> documents[u].text]
<1>1. /\ syncPc = "begin" /\ syncPc' = "done" /\ log[n].op = "save" /\ ~mu
      /\ saved' = IF documents[u].node = None THEN saved ELSE Append(saved, entry)
      /\ UNCHANGED <<next, encoding, documents, mu, queueVars, agreed, log, mirror, pointer>>
  BY DEF HandleSave, storeVars, clientVars, Doc
<1>2. /\ n \in 1 .. Len(log) /\ Len(log) \in Nat /\ u \in Uris /\ Handled = n - 1
      /\ Handled + 1 = n /\ Held /\ Following /\ Mirrored /\ SavedRight
      /\ Handled' = n /\ Current' = n /\ mu' = FALSE
  <2>1. /\ n \in 1 .. Len(log) /\ Len(log) \in Nat /\ u \in Uris /\ Handled = n - 1
        /\ Held /\ Following /\ Mirrored /\ SavedRight /\ Current' = n
    BY <1>1, Working DEF SInv, Notifications, Current, queueVars
  <2>2. Handled' = Current'
    BY <1>1, Working DEF Handled, InLog, Current, None
  <2>3. QED
    BY <1>1, <2>1, <2>2 DEF Held
<1>3. After(n, u) = mirror[n][u]
  BY <1>1 DEF After
<1>4. /\ item.version \in 0 .. Len(log) /\ item.text \in Seq(Bytes) /\ item.node \in 0 .. Len(log)
      /\ item.node = None => item = Closed
      /\ item.node # None <=> mirror[n][u].version # None
  BY <1>2 DEF Held
<1>5. u \notin Strays[n] =>
        item.version = mirror[n][u].version /\ item.text = Encode(mirror[n][u].text)
  <2>1. u \notin Strays[n] => u \notin Strays[n - 1]
    BY <1>1, <1>2, StraysAre
  <2>2. Made(u) = 0
    BY <1>1 DEF Made
  <2>3. QED
    BY <1>2, <2>1, <2>2 DEF Following
<1>6. Held' /\ Following'
  <2>1. \A uri \in Uris : documents'[uri] = IF uri = u THEN item ELSE documents[uri]
    BY <1>1
  <2>2. /\ item.node # None <=> After(n, u).version # None
        /\ u \notin Strays[n] =>
             item.version = After(n, u).version /\ item.text = Encode(After(n, u).text)
    BY <1>3, <1>4, <1>5
  <2>3. syncPc \in {"begin", "writing"} /\ UNCHANGED <<agreed, log, mirror, queueVars, next>>
    BY <1>1
  <2> HIDE DEF item, n
  <2>4. QED
    BY <1>1, <1>2, <1>4, <2>1, <2>2, <2>3, Settled DEF n
<1>7. SavedRight'
  <2>1. Strays'[n] = Strays[n] /\ \A k \in 0 .. Len(log) : Strays'[k] = Strays[k]
    <3>1. n \in 0 .. Len(log)
      BY <1>2
    <3>2. \A k \in 0 .. Len(log) : Strays'[k] = Strays[k]
      BY <1>1, <1>2, Steady
    <3>3. QED
      BY <3>1, <3>2
  <2>2. ASSUME NEW i \in 1 .. Len(saved), NEW k, k = saved[i].num
        PROVE  /\ k \in 1 .. n
               /\ log[k].uri \notin Strays'[k] => saved[i].text = Encode(mirror[k][log[k].uri].text)
    <3>1. /\ k \in 1 .. Handled
          /\ log[k].uri \notin Strays[k] => saved[i].text = Encode(mirror[k][log[k].uri].text)
      BY <1>2, <2>2 DEF SavedRight
    <3>2. k \in 1 .. n /\ k \in 0 .. Len(log)
      BY <1>2, <3>1
    <3>3. QED
      BY <2>1, <3>1, <3>2
  <2>3. CASE documents[u].node = None
    BY <1>1, <1>2, <2>2, <2>3 DEF SavedRight
  <2>4. CASE documents[u].node # None
    <3>1. entry \in [num : Nat, text : Seq(Bytes)] /\ entry.num = n
          /\ entry.text = documents[u].text
      BY <1>2, <1>4
    <3>2. saved \in Seq([num : Nat, text : Seq(Bytes)]) /\ saved' = Append(saved, entry)
      BY <1>1, <1>2, <2>4 DEF SavedRight
    <3> HIDE DEF entry, n
    <3>3. /\ saved' \in Seq([num : Nat, text : Seq(Bytes)]) /\ Len(saved) \in Nat
          /\ Len(saved') = Len(saved) + 1 /\ saved'[Len(saved) + 1] = entry
          /\ \A i \in 1 .. Len(saved) : saved'[i] = saved[i]
      BY <3>1, <3>2, AppendProperties, LenProperties
    <3>4. ASSUME NEW i \in 1 .. Len(saved'), NEW k, k = saved'[i].num
          PROVE  /\ k \in 1 .. n
                 /\ log[k].uri \notin Strays'[k] =>
                      saved'[i].text = Encode(mirror[k][log[k].uri].text)
      <4>1. CASE i \in 1 .. Len(saved)
        BY <2>2, <3>3, <3>4, <4>1
      <4>2. CASE i = Len(saved) + 1
        <5>1. k = n /\ saved'[i].text = documents[u].text
          BY <3>1, <3>3, <3>4, <4>2
        <5>2. n \in 1 .. n
          BY <1>2
        <5>3. u \notin Strays'[n] => documents[u].text = Encode(mirror[n][u].text)
          BY <1>5, <2>1
        <5>4. QED
          BY <5>1, <5>2, <5>3
      <4>3. QED
        BY <3>3, <4>1, <4>2
    <3>5. Handled' = n /\ log' = log /\ mirror' = mirror
      BY <1>1, <1>2
    <3>6. QED
      BY <3>3, <3>4, <3>5 DEF SavedRight
  <2>5. QED
    BY <2>3, <2>4
<1>8. Mirrored'
  BY <1>1, MirrorKept
<1>9. Agreement' /\ Lent'
  BY <1>1 DEF SInv, Agreement, Lent
<1>10. QED
  BY <1>6, <1>7, <1>8, <1>9 DEF SInv

LEMMA InitializeKeeps ==
  ASSUME InLog, InLog', SInv, NEW announced \in Announced, Initialize(announced)
  PROVE  SInv'
<1>1. /\ agreed = NoEncoding
      /\ encoding' = IF announced \in Encodings THEN announced ELSE encoding
      /\ agreed' = IF announced \in Encodings THEN announced ELSE "utf-16"
      /\ UNCHANGED <<documents, mu, syncPc, next, queueVars, log, mirror, pointer, saved>>
  BY DEF Initialize, Known, syncVars
<1>2. /\ log = <<>> /\ encoding = "utf-16" /\ Len(log) = 0
      /\ Handled = 0 /\ Handled' = 0 /\ syncPc \notin {"begin", "writing"}
  <2>1. log = <<>> /\ encoding = "utf-16"
    BY <1>1 DEF SInv, Agreement
  <2>2. Len(log) = 0
    BY <2>1
  <2>3. Handled = 0 /\ syncPc \notin {"begin", "writing"}
    BY <2>2, Working
  <2>4. Handled' = Handled
    BY <1>1 DEF Handled, Current, queueVars
  <2>5. QED
    BY <2>1, <2>2, <2>3, <2>4
<1>3. Agreement'
  BY <1>1, <1>2 DEF Agreement, NoEncoding, Encodings
<1>4. Mirrored'
  BY <1>1, <1>2 DEF SInv, Mirrored
<1>5. Held' /\ Lent'
  BY <1>1, <1>2 DEF SInv, Held, Lent
<1>6. Following'
  <2>1. Strays[0] = {}
    BY <1>2, StraysAre
  <2>2. \A uri \in Uris : Made(uri) = 0 /\ Made(uri)' = 0
    BY <1>1, <1>2 DEF Made
  <2>3. \A uri \in Uris :
          /\ documents[uri].version = mirror[1][uri].version
          /\ documents[uri].text = Encode(mirror[1][uri].text)
    BY <1>2, <2>1, <2>2 DEF SInv, Following
  <2>4. QED
    BY <1>1, <1>2, <2>2, <2>3 DEF Following
<1>7. SavedRight'
  <2>1. ASSUME NEW i \in 1 .. Len(saved) PROVE FALSE
    BY <1>2 DEF SInv, SavedRight
  <2>2. QED
    BY <1>1, <2>1 DEF SInv, SavedRight
<1>8. QED
  BY <1>3, <1>4, <1>5, <1>6, <1>7 DEF SInv

LEMMA ReaderKeeps ==
  ASSUME InLog, InLog', Stored, SInv, ReaderStep
  PROVE  SInv'
<1>1. UNCHANGED <<encoding, documents, mu, syncPc, next, queueVars, agreed, log, mirror, saved>>
  BY DEF ReaderStep, Get, Forget, storeVars, syncVars, clientVars
<1>2. /\ Len(log) \in Nat /\ Handled \in 0 .. Len(log) /\ Handled' = Handled
      /\ Held /\ Mirrored /\ Lent
  BY <1>1, Working DEF Handled, Current, queueVars, SInv
<1>3. Held' /\ Following' /\ SavedRight'
  BY <1>1, <1>2, Carried DEF SInv, queueVars
<1>4. Mirrored'
  BY <1>1, MirrorKept
<1>5. Agreement'
  BY <1>1 DEF SInv, Agreement
<1>6. Lent'
  <2>1. PICK r \in Readers : Forget(r) \/ \E uri \in Uris : Get(r, uri)
    BY DEF ReaderStep
  <2>2. CASE Forget(r)
    BY <1>1, <1>2, <2>2 DEF Forget, Lent
  <2>3. ASSUME NEW uri \in Uris, Get(r, uri) PROVE Lent'
    <3> DEFINE p == [uri |-> uri, node |-> documents[uri].node, since |-> Handled]
    <3>1. documents[uri].node # None /\ pointer' = [pointer EXCEPT ![r] = p]
      BY <2>3 DEF Get, Contained
    <3>2. documents[uri].node \in 1 .. Len(log)
      BY <1>2, <3>1 DEF Held, None
    <3>3. Handled \in 1 .. Len(log)
      <4>1. mirror[Handled + 1][uri].version # None
        BY <1>2, <3>1 DEF Held
      <4>2. Handled # 0
        BY <1>2, <4>1 DEF Mirrored
      <4>3. QED
        BY <1>2, <4>2
    <3>4. p \in [uri : Uris, node : 1 .. Len(log), since : 1 .. Len(log)]
      BY <3>2, <3>3
    <3> HIDE DEF p
    <3>5. QED
      BY <1>1, <1>2, <3>1, <3>4 DEF Lent
  <2>4. QED
    BY <2>1, <2>2, <2>3
<1>7. QED
  BY <1>3, <1>4, <1>5, <1>6 DEF SInv

LEMMA ExecutorKeeps ==
  ASSUME InLog, InLog', SInv, SyncStart \/ SyncFinish \/ UNCHANGED vars
  PROVE  SInv'
<1>1. UNCHANGED <<encoding, documents, mu, next, agreed, log, mirror, pointer, saved>>
  BY DEF SyncStart, SyncFinish, vars, storeVars, syncVars, clientVars
<1>2. /\ Handled' = Handled
      /\ UNCHANGED <<syncPc, running>> \/ (syncPc # "writing" /\ syncPc' # "writing")
  <2>1. CASE SyncStart
    <3>1. /\ queue # <<>> /\ Current = None /\ queue' = Tail(queue) /\ syncPc' = "begin"
      BY <2>1 DEF SyncStart, SyncExecutor!Start, Current
    <3>2. Len(queue) \in Nat /\ Len(queue') = Len(queue) - 1
      BY <3>1, HeadTailProperties, LenProperties DEF InLog
    <3>3. Current' # None /\ syncPc = "idle"
      BY <3>1 DEF InLog
    <3>4. QED
      BY <1>1, <3>1, <3>2, <3>3, Working DEF Handled
  <2>2. CASE SyncFinish
    <3>1. /\ syncPc = "done" /\ syncPc' = "idle" /\ queue' = queue
      BY <2>2 DEF SyncFinish, SyncExecutor!Finish
    <3>2. Current' = None
      BY <3>1 DEF InLog
    <3>3. QED
      BY <1>1, <3>1, <3>2 DEF Handled
  <2>3. CASE UNCHANGED vars
    BY <2>3 DEF vars, syncVars, queueVars, clientVars, Handled, Current
  <2>4. QED
    BY <2>1, <2>2, <2>3
<1>3. Len(log) \in Nat
  BY Working
<1>4. Held' /\ Following' /\ SavedRight'
  BY <1>1, <1>2, <1>3, Carried DEF SInv
<1>5. Mirrored'
  BY <1>1, MirrorKept
<1>6. Agreement' /\ Lent'
  BY <1>1 DEF SInv, Agreement, Lent
<1>7. QED
  BY <1>4, <1>5, <1>6 DEF SInv

LEMMA Simulated == Spec => []SInv
<1>1. Init => SInv
  <2>1. SUFFICES ASSUME Init PROVE SInv
    OBVIOUS
  <2>2. /\ log = <<>> /\ Len(log) = 0 /\ Handled = 0 /\ agreed = NoEncoding /\ encoding = "utf-16"
        /\ mirror = <<[uri \in Uris |-> [version |-> None, text |-> <<>>]]>>
        /\ documents = [uri \in Uris |-> Closed] /\ saved = <<>> /\ syncPc = "idle"
        /\ mu = FALSE /\ next = 1 /\ pointer = [r \in Readers |-> Closed]
    <3>1. /\ log = <<>> /\ queue = <<>> /\ running = [slot \in {SyncWorker} |-> None]
          /\ Len(log) = 0 /\ Len(queue) = 0
      BY <2>1 DEF Init, SyncExecutor!Init
    <3>2. Handled = 0
      <4>1. Current = None
        BY <3>1 DEF Current
      <4>2. QED
        BY <3>1, <4>1 DEF Handled
    <3>3. QED
      BY <2>1, <3>1, <3>2 DEF Init
  <2>3. Mirrored
    <3>1. [uri \in Uris |-> [version |-> None, text |-> <<>>]] \in [Uris -> Client]
      <4>1. [version |-> None, text |-> <<>>] \in Client
        BY DEF Client, None
      <4>2. QED
        BY <4>1
    <3> HIDE DEF Client
    <3>2. /\ mirror \in Seq([Uris -> Client]) /\ Len(mirror) = 1
          /\ mirror[1] = [uri \in Uris |-> [version |-> None, text |-> <<>>]]
      BY <2>2, <3>1
    <3>3. QED
      BY <2>2, <3>2, SyncAssumption DEF Mirrored
  <2>4. Agreement
    BY <2>2 DEF Agreement, Encodings
  <2>5. Held
    <3>1. next \in 1 .. MaxChanges + 1
      BY <2>2, SyncAssumption
    <3>2. mirror[1] = [uri \in Uris |-> [version |-> None, text |-> <<>>]]
      BY <2>2
    <3>3. \A uri \in Uris :
            documents[uri] = Closed /\ mirror[Handled + 1][uri].version = None
      BY <2>2, <3>2
    <3>4. /\ Closed.version = None /\ Closed.text \in Seq(Bytes) /\ Closed.node = None
          /\ None \in 0 .. Len(log)
      BY <2>2 DEF Closed, None
    <3>5. QED
      BY <2>2, <3>1, <3>3, <3>4 DEF Held
  <2>6. Following
    BY <2>2, Encoding DEF Following, Made, Closed
  <2>7. Lent /\ SavedRight
    BY <2>2 DEF Lent, SavedRight
  <2>8. QED
    BY <2>3, <2>4, <2>5, <2>6, <2>7 DEF SInv
<1>2. DInv /\ DInv' /\ SInv /\ [Next]_vars => SInv'
  <2> SUFFICES ASSUME InLog, InLog', Stored, SInv, [Next]_vars PROVE SInv'
    BY DEF DInv
  <2>1. CASE \E announced \in Announced : Initialize(announced)
    BY <2>1, InitializeKeeps
  <2>2. CASE ClientStep
    BY <2>2, ClientKeeps
  <2>3. CASE SyncStart \/ SyncFinish \/ UNCHANGED vars
    BY <2>3, ExecutorKeeps
  <2>4. CASE LockStore
    BY <2>4, LockStoreKeeps
  <2>5. CASE StoreOpen
    BY <2>5, StoreOpenKeeps
  <2>6. CASE StoreClose
    BY <2>6, StoreCloseKeeps
  <2>7. CASE ChangeNothing
    BY <2>7, ChangeNothingKeeps
  <2>8. CASE ApplyOneChange
    BY <2>8, ApplyOneChangeKeeps
  <2>9. CASE ChangeThrows
    BY <2>9, ChangeThrowsKeeps
  <2>10. CASE SetVersion
    BY <2>10, SetVersionKeeps
  <2>11. CASE HandleSave
    BY <2>11, HandleSaveKeeps
  <2>12. CASE ReaderStep
    BY <2>12, ReaderKeeps
  <2>13. QED
    BY <2>1, <2>2, <2>3, <2>4, <2>5, <2>6, <2>7, <2>8, <2>9, <2>10, <2>11, <2>12
       DEF Next, SyncStep
<1>3. QED
  BY <1>1, <1>2, Inductive, PTL DEF Spec

(***************************************************************************)
(* The data of both sides is what the code takes it for, whatever the      *)
(* client sends and wherever the threads are.                              *)
(***************************************************************************)
THEOREM TypesKept == Spec => []TypeOK
<1>1. DInv /\ SInv => TypeOK
  <2> SUFFICES ASSUME DInv, SInv PROVE TypeOK
    OBVIOUS
  <2>1. /\ InLog /\ Mirrored /\ Agreement /\ Held /\ Lent /\ SavedRight
        /\ Len(log) \in Nat /\ Len(log) <= MaxNotifications /\ Handled \in 0 .. Len(log)
    BY Working DEF DInv, SInv, Mirrored
  <2>2. 1 .. Len(log) \subseteq Nums /\ 0 .. Len(log) \subseteq Nums \cup {None}
    BY <2>1, SyncAssumption DEF Nums, None
  <2>3. /\ encoding \in Encodings /\ agreed \in Encodings \cup {NoEncoding}
        /\ mu \in BOOLEAN /\ phase = "open" /\ syncPc \in {"idle", "begin", "writing", "done"}
        /\ next \in 1 .. MaxChanges + 1 /\ Len(log) <= MaxNotifications
        /\ \A n \in 1 .. Len(log) : log[n] \in Notifications
        /\ Len(mirror) = Len(log) + 1
    BY <2>1, Working DEF Agreement, Held, InLog, Mirrored
  <2>4. \A uri \in Uris :
          /\ documents[uri].version \in Nums \cup {None}
          /\ documents[uri].text \in Seq(Bytes)
          /\ documents[uri].node \in Nums \cup {None}
    BY <2>1, <2>2 DEF Held
  <2>5. queue \in Seq(Nums)
    <3>1. Len(queue) \in Nat /\ Len(queue) <= Len(log) /\ queue \in Seq(Nat)
      BY <2>1, LenProperties DEF InLog
    <3>2. \A i \in 1 .. Len(queue) : queue[i] \in Nums
      BY <2>1, <2>2, <3>1 DEF InLog
    <3>3. QED
      BY <3>1, <3>2, SeqDef
  <2>6. running \in [{SyncWorker} -> Nums \cup {None}]
    <3>1. Len(queue) \in Nat /\ Len(queue) <= Len(log)
      BY <2>1, LenProperties DEF InLog
    <3>2. Current \in Nums \cup {None}
      <4>1. Len(log) - Len(queue) \in 0 .. Len(log)
        BY <2>1, <3>1
      <4>2. QED
        BY <2>1, <2>2, <4>1 DEF InLog
    <3>3. QED
      BY <2>1, <3>2 DEF InLog, Current
  <2>7. pointer \in [Readers -> [uri : Uris, node : Nums, since : Nums] \cup {Closed}]
    <3>1. [uri : Uris, node : 1 .. Len(log), since : 1 .. Len(log)] \subseteq
            [uri : Uris, node : Nums, since : Nums]
      BY <2>2
    <3>2. QED
      BY <2>1, <3>1 DEF Lent
  <2>8. saved \in Seq([num : Nums, text : Seq(Bytes)])
    <3> DEFINE Saves == [num : Nums, text : Seq(Bytes)]
    <3>1. saved \in Seq([num : Nat, text : Seq(Bytes)]) /\ Len(saved) \in Nat
      BY <2>1, LenProperties DEF SavedRight
    <3>2. ASSUME NEW i \in 1 .. Len(saved)
          PROVE  saved[i] \in Saves
      <4>1. saved[i] \in [num : Nat, text : Seq(Bytes)]
        BY <3>1, ElementOfSeq
      <4>2. saved[i].num \in Nums
        <5>1. saved[i].num \in 1 .. Handled
          BY <2>1 DEF SavedRight
        <5>2. QED
          BY <2>1, <2>2, <5>1
      <4>3. QED
        BY <4>1, <4>2
    <3>3. saved = [i \in 1 .. Len(saved) |-> saved[i]]
      BY <3>1
    <3> HIDE DEF Saves
    <3>4. saved \in Seq(Saves)
      BY <3>1, <3>2, <3>3, SeqDef
    <3>5. QED
      BY <3>4 DEF Saves
  <2>9. QED
    BY <2>3, <2>4, <2>5, <2>6, <2>7, <2>8 DEF TypeOK
<1>2. QED
  BY <1>1, Inductive, Simulated, PTL

(***************************************************************************)
(* The store, when mu_ is free, is the client's set of documents after the *)
(* notifications handled so far: for any notifications, of any documents,  *)
(* with any number of changes, and any interleaving of the read thread,    *)
(* syncExecutor_ and the handlers.                                         *)
(***************************************************************************)
THEOREM StoreIsClients == Spec => []StoreFollowsClient
<1>1. DInv /\ SInv => StoreFollowsClient
  <2> SUFFICES ASSUME DInv, SInv, ~mu, NEW uri \in Uris, ~Astray(uri, Handled)
               PROVE  /\ documents[uri].version = mirror[Handled + 1][uri].version
                      /\ documents[uri].text = Encode(mirror[Handled + 1][uri].text)
                      /\ uri \in Contained <=> mirror[Handled + 1][uri].version # None
    BY DEF StoreFollowsClient
  <2>1. Handled \in 0 .. Len(log) /\ Held /\ Following /\ syncPc # "writing"
    BY Working DEF DInv, SInv, Held
  <2>2. uri \notin Strays[Handled]
    BY <2>1 DEF Strays
  <2>3. Made(uri) = 0
    BY <2>1 DEF Made
  <2>4. QED
    BY <2>1, <2>2, <2>3 DEF Following, Held, Contained
<1>2. QED
  BY <1>1, Inductive, Simulated, PTL

(***************************************************************************)
(* What onDocumentSaved was called with stays the text that the client had *)
(* when it saved.                                                          *)
(***************************************************************************)
THEOREM SavesAreClients == Spec => []SavedIsWhatClientSaved
<1>1. DInv /\ SInv => SavedIsWhatClientSaved
  <2> SUFFICES ASSUME DInv, SInv, NEW i \in 1 .. Len(saved), NEW n, n = saved[i].num,
                      ~Astray(log[n].uri, n)
               PROVE  saved[i].text = Encode(mirror[n][log[n].uri].text)
    BY DEF SavedIsWhatClientSaved
  <2>1. /\ Handled \in 0 .. Len(log) /\ Len(log) \in Nat /\ n \in 1 .. Handled
        /\ log[n].uri \notin Strays[n] =>
             saved[i].text = Encode(mirror[n][log[n].uri].text)
    BY Working DEF DInv, SInv, SavedRight
  <2>2. log[n].uri \notin Strays[n]
    BY <2>1 DEF Strays
  <2>3. QED
    BY <2>1, <2>2
<1>2. QED
  BY <1>1, Inductive, Simulated, PTL
=============================================================================
