---------------------------- MODULE JsonRpcProofs ----------------------------
(***************************************************************************)
(* Theorems about the messages of JsonRpc, for any width of an int, any    *)
(* ids of the client and any number of messages.                           *)
(***************************************************************************)
EXTENDS JsonRpc, SequenceTheorems, FiniteSetTheorems, TLAPS

-----------------------------------------------------------------------------
(* Parsing *)

\* An id survives get<int> if it is an int, and whatever is counted stays one.
LEMMA IntsKept ==
  /\ \A n \in Ints : ToInt(n) = n
  /\ \A n \in Int : ToInt(n) \in Ints
  /\ \A id \in ClientIds : Readable(id) /\ ParseId(id) = id
<1>1. IntMax \in Nat \ {0} /\ 2 ^ IntBits = 2 * (IntMax + 1)
  BY WidthAssumption
<1>2. \A a, b \in Int : b > 0 => a % b \in 0 .. (b - 1)
  OBVIOUS
<1>3. \A a, b \in Int : a \in 0 .. (b - 1) => a % b = a
  OBVIOUS
<1>4. \A n \in Ints : ToInt(n) = n
  BY <1>1, <1>3 DEF ToInt, Ints
<1>5. \A n \in Int : ToInt(n) \in Ints
  BY <1>1, <1>2 DEF ToInt, Ints
<1>6. ASSUME NEW id \in ClientIds PROVE Readable(id) /\ ParseId(id) = id
  <2>1. CASE id = StringId(id.value)
    BY <2>1 DEF StringId, Readable, ParseId
  <2>2. CASE id = IntId(id.value) /\ id.value \in Ints
    BY <1>4, <2>2 DEF IntId, Readable, ParseId
  <2>3. QED
    BY <2>1, <2>2, WireAssumption
<1>7. QED
  BY <1>4, <1>5, <1>6

\* Numbers with one remainder still have one when both are counted on, and are a
\* whole divisor apart.
LEMMA Remainders ==
  ASSUME NEW m \in Nat, m > 0, NEW a \in Int, NEW b \in Int, a % m = b % m
  PROVE  /\ (a + 1) % m = (b + 1) % m
         /\ a > b => a - b >= m
         /\ a % m \in 0 .. m - 1 /\ (a % m) % m = a % m
<1>1. PICK p \in Int, q \in Int, r \in 0 .. m - 1 : a = m * p + r /\ b = m * q + r
  <2>1. ASSUME NEW n \in Int PROVE n \div m \in Int /\ n % m \in 0 .. m - 1
    OBVIOUS
  <2>2. ASSUME NEW n \in Int PROVE n = m * (n \div m) + (n % m)
    OBVIOUS
  <2>3. QED
    BY <2>1, <2>2
<1>2. ASSUME NEW k \in Int, NEW s \in 0 .. m - 1 PROVE (m * k + s) % m = s
  OBVIOUS
<1>3. ASSUME NEW k \in Int, NEW n \in Int, n = m * k + r
      PROVE  (n + 1) % m = IF r = m - 1 THEN 0 ELSE r + 1
  <2>1. CASE r # m - 1
    <3>1. r + 1 \in 0 .. m - 1 /\ n + 1 = m * k + (r + 1)
      BY <1>3, <2>1
    <3>2. QED
      BY <1>2, <2>1, <3>1
  <2>2. CASE r = m - 1
    <3>1. k + 1 \in Int /\ 0 \in 0 .. m - 1 /\ n + 1 = m * (k + 1) + 0
      BY <1>3, <2>2
    <3>2. QED
      BY <1>2, <2>2, <3>1
  <2>3. QED
    BY <2>1, <2>2
<1>4. ASSUME a > b PROVE a - b >= m
  <2>1. p > q
    <3>1. ASSUME NEW d \in Nat PROVE m * d \in Nat
      OBVIOUS
    <3>2. ASSUME p <= q PROVE FALSE
      <4>1. q - p \in Nat /\ m * (q - p) = m * q - m * p
        BY <3>2
      <4>2. QED
        BY <1>1, <1>4, <3>1, <4>1
    <3>3. QED
      BY <3>2
  <2>2. m * p >= m * q + m
    BY <2>1
  <2>3. m * p \in Int /\ m * q \in Int
    OBVIOUS
  <2>4. QED
    BY <1>1, <2>2, <2>3
<1>5. a % m \in 0 .. m - 1 /\ (a % m) % m = a % m
  <2>1. ASSUME NEW n \in Int PROVE n % m \in 0 .. m - 1
    OBVIOUS
  <2>2. ASSUME NEW n \in 0 .. m - 1 PROVE n % m = n
    OBVIOUS
  <2>3. QED
    BY <2>1, <2>2
<1>6. QED
  BY <1>1, <1>3, <1>4, <1>5

\* Ids are counted as numbers are, and two counts that give the same id are a full
\* turn of the counter apart.
LEMMA ComingRound ==
  ASSUME NEW a \in Nat, NEW b \in Nat
  PROVE  /\ ToInt(ToInt(a) + 1) = ToInt(a + 1)
         /\ b < a /\ ToInt(a) = ToInt(b) => a - b >= 2 ^ IntBits
<1> DEFINE M == 2 ^ IntBits
           half == IntMax + 1
<1>1. half \in Nat /\ IntMax \in Nat /\ M = 2 * half /\ M \in Nat /\ M > 0
  BY WidthAssumption
<1>2. ASSUME NEW n \in Int PROVE ToInt(n) = ((n + half) % M) - half
  <2>1. n + IntMax + 1 = n + half
    BY <1>1
  <2>2. ToInt(n) = ((n + IntMax + 1) % M) - half
    BY DEF ToInt
  <2>3. QED
    BY <2>1, <2>2
<1> HIDE DEF M, half
<1>3. ASSUME NEW n \in Int
      PROVE  /\ (n + half) % M \in 0 .. M - 1
             /\ ((n + half) % M) % M = (n + half) % M
  <2>1. n + half \in Int
    BY <1>1
  <2>2. QED
    BY <1>1, <2>1, Remainders
<1>4. a + half \in Int /\ b + half \in Int
  BY <1>1
<1>5. (((a + half) % M) + 1) % M = (a + half + 1) % M
  <2>1. (a + half) % M \in Int /\ ((a + half) % M) % M = (a + half) % M
    BY <1>1, <1>3
  <2>2. QED
    BY <1>1, <1>4, <2>1, Remainders
<1>6. ToInt(a) \in Int /\ ToInt(a) + 1 + half = ((a + half) % M) + 1
  BY <1>1, <1>2, <1>3
<1>7. a + 1 + half = a + half + 1
  BY <1>1
<1>8. ToInt(ToInt(a) + 1) = ToInt(a + 1)
  BY <1>2, <1>5, <1>6, <1>7
<1>9. ASSUME b < a, ToInt(a) = ToInt(b) PROVE a - b >= M
  <2>1. (a + half) % M = (b + half) % M
    BY <1>1, <1>2, <1>3, <1>9
  <2>2. a + half \in Int /\ b + half \in Int /\ a + half > b + half
    BY <1>1, <1>9
  <2>3. (a + half) - (b + half) >= M
    BY <1>1, <2>1, <2>2, Remainders
  <2>4. QED
    BY <1>1, <2>3
<1>10. QED
  BY <1>8, <1>9 DEF M

\* What the client may write.
ClientRaws ==
  [text : {"object", "array", "garbled", "overflow"}, jsonrpc : {"2.0", "1.0"},
   method : {"absent", "number", "string"},
   id : ClientIds \cup {Absent, Null, OtherId}, params : Nums \cup {Missing},
   result : Nums \cup {Missing}, error : Nums \cup {Missing}]

\* parseMessage follows JSON-RPC 2.0 for requests and notifications, and takes
\* more texts for responses than it should.
LEMMA Parsing ==
  ASSUME NEW raw \in ClientRaws
  PROVE  LET m == ParseMessage(raw)
         IN  /\ m.kind = "request" <=> IsRequest(raw)
             /\ m.kind = "request" => m.id = raw.id /\ raw.id \in ClientIds
             /\ m.kind = "response" =>
                  /\ m.id = raw.id /\ raw.id \in ClientIds
                  /\ m.isError \in BOOLEAN /\ (m.isError <=> raw.error # Missing)
             /\ m.kind = "invalid" => m \in [kind : {"invalid"},
                                             code : {"ParseError", "InvalidRequest"}]
             /\ IsNotification(raw) => m.kind = "notification"
             /\ IsResponse(raw) => m.kind = "response"
             /\ m.kind = "throws" => ~Spoken(raw)
<1> DEFINE m == ParseMessage(raw)
<1> USE DEF ClientRaws, Invalid
<1>1. raw.id \in ClientIds \/ raw.id \in {Absent, Null, OtherId}
  OBVIOUS
<1>2. raw.id \in {Absent, Null, OtherId} => ~Readable(raw.id)
  BY DEF Absent, Null, OtherId, Readable
<1>3. Readable(raw.id) <=> raw.id \in ClientIds
  BY <1>1, <1>2, IntsKept
<1>4. raw.id = Absent => ~Readable(raw.id)
  BY <1>2
<1>5. raw.id \in ClientIds => ParseId(raw.id) = raw.id
  BY IntsKept
<1>6. CASE Spoken(raw) /\ raw.method = "string"
  <2>1. m = IF raw.id = Absent THEN [kind |-> "notification", params |-> raw.params]
            ELSE IF Readable(raw.id)
                 THEN [kind |-> "request", id |-> ParseId(raw.id), params |-> raw.params]
            ELSE Invalid("InvalidRequest")
    BY <1>6 DEF Spoken, ParseMessage
  <2>2. QED
    BY <1>3, <1>4, <1>5, <1>6, <2>1 DEF IsRequest, IsNotification, IsResponse
<1>7. CASE Spoken(raw) /\ raw.method # "string"
  <2>1. m = ParseResponse(raw)
    BY <1>7 DEF Spoken, ParseMessage
  <2>2. ~IsRequest(raw) /\ ~IsNotification(raw)
    BY <1>7 DEF IsRequest, IsNotification
  <2>3. CASE Readable(raw.id) /\ raw.error # Missing
    <3>1. m = [kind |-> "response", id |-> ParseId(raw.id), isError |-> TRUE,
               payload |-> raw.error]
      BY <2>1, <2>3 DEF ParseResponse
    <3>2. QED
      BY <1>3, <1>5, <2>2, <2>3, <3>1
  <2>4. CASE Readable(raw.id) /\ raw.error = Missing /\ raw.result # Missing
    <3>1. m = [kind |-> "response", id |-> ParseId(raw.id), isError |-> FALSE,
               payload |-> raw.result]
      BY <2>1, <2>4 DEF ParseResponse
    <3>2. QED
      BY <1>3, <1>5, <2>2, <2>4, <3>1
  <2>5. CASE ~Readable(raw.id) \/ (raw.error = Missing /\ raw.result = Missing)
    <3>1. m = Invalid("InvalidRequest") /\ ~IsResponse(raw)
      BY <2>1, <2>5 DEF ParseResponse, IsResponse
    <3>2. QED
      BY <2>2, <3>1
  <2>6. QED
    BY <2>3, <2>4, <2>5
<1>8. CASE ~Spoken(raw)
  <2>1. \/ m = Invalid("ParseError") \/ m = Invalid("InvalidRequest")
        \/ m = [kind |-> "throws"]
    BY <1>8 DEF Spoken, ParseMessage
  <2>2. QED
    BY <1>8, <2>1 DEF IsRequest, IsNotification, IsResponse
<1>9. QED
  BY <1>6, <1>7, <1>8

-----------------------------------------------------------------------------
(* The invariant *)

\* What the server writes, and what it means.
ServerRaws ==
  [text : {"object"}, jsonrpc : {"2.0"}, method : {"absent", "string"},
   id : ClientIds \cup {IntId(n) : n \in Ints} \cup {Absent, Null},
   params : Nat, result : Nat, error : Nat]

Meanings ==
  [kind : {"invalid"}, code : {"ParseError", "InvalidRequest"}]
    \cup [kind : {"notification"}, params : Nat]
    \cup [kind : {"request"}, id : {IntId(n) : n \in Ints}, params : Nat]
    \cup [kind : {"response"}, id : ClientIds, isError : BOOLEAN, payload : Nat]

Types == TypeOK /\ written \in Seq([raw : ServerRaws, means : Meanings])

\* What is being handled is a request of the client, under its own id.
Request(n) == [id |-> sent[n].id, num |-> n]
Handled == \A r \in handling : r = Request(r.num) /\ IsRequest(sent[r.num])

\* An answer is for one message, with its result or its error.
ReplyTo(raw, n) ==
  /\ \/ raw.result = n /\ raw.error = Missing
     \/ raw.result = Missing /\ raw.error = n
  /\ raw.id = IF IsRequest(sent[n]) THEN sent[n].id ELSE Null
  /\ ~IsNotification(sent[n]) /\ ~IsResponse(sent[n])

Replied == \A i \in Positions :
  written[i].raw.method = "absent" => \E n \in 1 .. read : ReplyTo(written[i].raw, n)

\* A request that was read is being handled or has its one answer.
Answers(n) == {i \in Positions : IsAnswerTo(i, n)}
Answered == \A n \in 1 .. read : IsRequest(sent[n]) =>
  IF Request(n) \in handling THEN Answers(n) = {}
  ELSE \E i \in Positions : Answers(n) = {i}

\* A callback waits for the answer to its own request, and no other callback
\* does, nor has one that is gone.
Asked == \A entry \in pending :
  /\ entry.ask \in Requests
  /\ written[entry.ask].raw.method = "string"
  /\ written[entry.ask].raw.id = IntId(entry.id)
  /\ \A other \in pending : other.ask = entry.ask => other = entry
  /\ \A i \in 1 .. Len(fired) : fired[i].ask # entry.ask

\* The ids of the server are counted through: the count gives the next one, and
\* the id of each request.
Earlier(i) == {k \in Requests : k < i}
Between(j, i) == {k \in Requests : j <= k /\ k < i}
Counted ==
  /\ nextOutgoingId = ToInt(Cardinality(Requests) + 1)
  /\ \A i \in Requests : written[i].raw.id = IntId(ToInt(Cardinality(Earlier(i)) + 1))

JInv ==
  /\ Types
  /\ Handled
  /\ Replied
  /\ Answered
  /\ Asked
  /\ Counted
  /\ OwnResponse
  /\ NoneLost
  /\ PeerUnderstands

\* Every serializer writes what parseMessage reads as it was meant.
LEMMA Serializing ==
  /\ \A n \in Nat :
       /\ SerializeNotification(n) \in ServerRaws
       /\ ParseMessage(SerializeNotification(n)) = [kind |-> "notification", params |-> n]
       /\ SerializeError(Null, n) \in ServerRaws
  /\ \A i \in Ints, n \in Nat :
       /\ SerializeRequest(i, n) \in ServerRaws
       /\ ParseMessage(SerializeRequest(i, n))
            = [kind |-> "request", id |-> IntId(i), params |-> n]
  /\ \A id \in ClientIds, n \in Nat \ {0} :
       /\ SerializeResult(id, n) \in ServerRaws
       /\ ParseMessage(SerializeResult(id, n))
            = [kind |-> "response", id |-> id, isError |-> FALSE, payload |-> n]
       /\ SerializeError(id, n) \in ServerRaws
       /\ ParseMessage(SerializeError(id, n))
            = [kind |-> "response", id |-> id, isError |-> TRUE, payload |-> n]
<1> USE DEF Empty, Missing, ServerRaws
<1>1. ASSUME NEW n \in Nat
      PROVE  /\ SerializeNotification(n) \in ServerRaws
             /\ ParseMessage(SerializeNotification(n)) = [kind |-> "notification", params |-> n]
             /\ SerializeError(Null, n) \in ServerRaws
  BY DEF SerializeNotification, SerializeError, ParseMessage
<1>2. ASSUME NEW i \in Ints, NEW n \in Nat
      PROVE  /\ SerializeRequest(i, n) \in ServerRaws
             /\ ParseMessage(SerializeRequest(i, n))
                  = [kind |-> "request", id |-> IntId(i), params |-> n]
  <2>1. ToInt(i) = i
    BY IntsKept
  <2>2. Readable(IntId(i)) /\ ParseId(IntId(i)) = IntId(i) /\ IntId(i) # Absent
    BY <2>1 DEF IntId, Readable, ParseId, Absent
  <2>3. QED
    BY <2>2 DEF SerializeRequest, ParseMessage
<1>3. ASSUME NEW id \in ClientIds, NEW n \in Nat \ {0}
      PROVE  /\ SerializeResult(id, n) \in ServerRaws
             /\ ParseMessage(SerializeResult(id, n))
                  = [kind |-> "response", id |-> id, isError |-> FALSE, payload |-> n]
             /\ SerializeError(id, n) \in ServerRaws
             /\ ParseMessage(SerializeError(id, n))
                  = [kind |-> "response", id |-> id, isError |-> TRUE, payload |-> n]
  <2>1. Readable(id) /\ ParseId(id) = id
    BY IntsKept
  <2>2. QED
    BY <2>1 DEF SerializeResult, SerializeError, ParseMessage, ParseResponse
<1>4. QED
  BY <1>1, <1>2, <1>3

-----------------------------------------------------------------------------
(* Every step keeps it *)

LEMMA Inductive == Spec => []JInv
<1>1. Init => JInv
  <2>1. SUFFICES ASSUME Init PROVE JInv
    OBVIOUS
  <2>2. Types
    BY <2>1, IntsKept, WidthAssumption DEF Init, Types, TypeOK, Positions, Ints
  <2>3. Handled /\ Replied /\ Answered /\ Asked /\ OwnResponse /\ PeerUnderstands
    BY <2>1 DEF Init, Handled, Replied, Answered, Asked, OwnResponse,
       PeerUnderstands, Positions
  <2>4. NoneLost /\ Counted
    <3>1. Requests = {}
      BY <2>1 DEF Init, Requests, Asks
    <3>2. Cardinality(Requests) = 0
      BY <3>1, FS_EmptySet
    <3>3. 1 \in Ints
      BY WidthAssumption DEF Ints
    <3>4. QED
      BY <2>1, <3>1, <3>2, <3>3, IntsKept DEF Init, NoneLost, Counted
  <2>5. QED
    BY <2>2, <2>3, <2>4 DEF JInv
<1>2. JInv /\ [Next]_vars => JInv'
  <2> SUFFICES ASSUME JInv, [Next]_vars PROVE JInv'
    OBVIOUS
  <2> USE DEF JInv
  <2>1. /\ sent \in Seq(ClientRaws) /\ read \in 0 .. Len(sent) /\ Len(sent) \in Nat
        /\ handling \subseteq [id : ClientIds, num : 1 .. read]
        /\ nextOutgoingId \in Ints
        /\ pending \subseteq [id : Ints, ask : 1 .. Len(written)]
        /\ fired \in Seq([ask : 1 .. Len(written), num : 1 .. read, isError : BOOLEAN])
        /\ Len(fired) \in Nat
        /\ written \in Seq([raw : ServerRaws, means : Meanings]) /\ Len(written) \in Nat
    BY DEF Types, TypeOK, ClientRaws, Positions
  <2>2. /\ \A n \in 1 .. read : n \in 1 .. Len(sent) /\ sent[n] \in ClientRaws
        /\ \A i \in 1 .. Len(fired) :
             /\ fired[i].ask \in 1 .. Len(written) /\ fired[i].num \in 1 .. read
             /\ fired[i].isError \in BOOLEAN
    <3>1. ASSUME NEW i \in 1 .. Len(fired)
          PROVE  fired[i] \in [ask : 1 .. Len(written), num : 1 .. read, isError : BOOLEAN]
      BY <2>1, ElementOfSeq
    <3>2. ASSUME NEW n \in 1 .. read PROVE n \in 1 .. Len(sent) /\ sent[n] \in ClientRaws
      BY <2>1, ElementOfSeq
    <3>3. QED
      BY <3>1, <3>2
  <2>3. ASSUME UNCHANGED <<nextOutgoingId, written, pending, fired>>
         PROVE  Counted' /\ NoneLost'
    <3>1. Requests' = Requests
      BY <2>3 DEF Requests, Asks
    <3>2. /\ \A i : Earlier(i)' = Earlier(i)
          /\ \A i, j : FullTurn(j, i)' <=> FullTurn(j, i)
      BY <2>3, <3>1 DEF Earlier, FullTurn
    <3>3. QED
      BY <2>3, <3>1, <3>2 DEF Counted, NoneLost
  <2>4. ASSUME NEW raw \in RawMessages, ClientWrites(raw) PROVE JInv'
    <3>1. raw \in ClientRaws
      <4>1. Num \in Nums
        BY <2>1, <2>4, WireAssumption DEF ClientWrites, Num, Nums
      <4>2. QED
        BY <4>1, WireAssumption DEF RawMessages, ClientRaws, Shapes
    <3>2. /\ sent' \in Seq(ClientRaws) /\ Len(sent') = Len(sent) + 1
          /\ \A n \in 1 .. Len(sent) : sent'[n] = sent[n]
      BY <2>1, <2>4, <3>1, AppendProperties DEF ClientWrites
    <3>3. UNCHANGED <<read, handling, written, nextOutgoingId, pending, fired>>
      BY <2>4 DEF ClientWrites
    <3>4. \A n \in 1 .. read : sent'[n] = sent[n]
      BY <2>1, <3>2
    <3>5. Types'
      BY <2>1, <3>2, <3>3 DEF Types, TypeOK, ClientRaws, Positions
    <3>6. Handled'
      BY <2>1, <3>3, <3>4 DEF Handled, Request
    <3>7. Replied'
      <4>1. \A x, n : n \in 1 .. read /\ ReplyTo(x, n) => ReplyTo(x, n)'
        BY <3>4 DEF ReplyTo
      <4>2. QED
        BY <3>3, <4>1 DEF Replied, Positions
    <3>8. Answered'
      <4> SUFFICES ASSUME NEW n \in 1 .. read', IsRequest(sent[n])'
                   PROVE  (IF Request(n) \in handling THEN Answers(n) = {}
                           ELSE \E i \in Positions : Answers(n) = {i})'
        BY DEF Answered
      <4>1. n \in 1 .. read /\ sent'[n] = sent[n]
        BY <3>3, <3>4
      <4>2. Request(n)' = Request(n) /\ Answers(n)' = Answers(n) /\ Positions' = Positions
        BY <3>3, <4>1 DEF Request, Answers, IsAnswerTo, Positions
      <4>3. QED
        BY <3>3, <4>1, <4>2 DEF Answered
    <3>9. Asked' /\ PeerUnderstands'
      BY <3>3 DEF Asked, PeerUnderstands, Positions, Requests, Asks
    <3>10. OwnResponse'
      BY <2>1, <2>2, <3>3, <3>4 DEF OwnResponse
    <3>11. QED
      BY <2>3, <3>3, <3>5, <3>6, <3>7, <3>8, <3>9, <3>10
  <2>5. ASSUME read < Len(sent)
        PROVE  /\ read + 1 \in 1 .. Len(sent) /\ sent[read + 1] \in ClientRaws
               /\ Answers(read + 1) = {}
    <3>1. sent[read + 1] \in ClientRaws
      BY <2>1, <2>5, ElementOfSeq
    <3>2. ASSUME NEW i \in Positions, IsAnswerTo(i, read + 1) PROVE FALSE
      <4>1. PICK n \in 1 .. read : {written[i].raw.result, written[i].raw.error} = {0, n}
        BY <3>2 DEF Replied, ReplyTo, IsAnswerTo, Missing
      <4>2. read + 1 = n \/ read + 1 = 0
        BY <3>2, <4>1 DEF IsAnswerTo
      <4>3. QED
        BY <2>1, <4>2
    <3>3. QED
      BY <2>1, <2>5, <3>1, <3>2 DEF Answers
  <2>6. ASSUME read < Len(sent), read' = read + 1, sent' = sent
        PROVE  /\ read' \in 0 .. Len(sent)
               /\ \A n \in 1 .. read : n \in 1 .. read' /\ n # read + 1
               /\ \A n \in 1 .. read' : n \in 1 .. read \/ n = read + 1
               /\ \A n : Request(n)' = Request(n)
               /\ handling \subseteq [id : ClientIds, num : 1 .. read']
               /\ fired \in Seq([ask : 1 .. Len(written), num : 1 .. read',
                                 isError : BOOLEAN])
    <3> DEFINE Before == [ask : 1 .. Len(written), num : 1 .. read, isError : BOOLEAN]
               After == [ask : 1 .. Len(written), num : 1 .. read', isError : BOOLEAN]
    <3>1. /\ read' \in 0 .. Len(sent)
          /\ \A n \in 1 .. read : n \in 1 .. read' /\ n # read + 1
          /\ \A n \in 1 .. read' : n \in 1 .. read \/ n = read + 1
      BY <2>1, <2>6
    <3>2. Before \subseteq After
      BY <3>1
    <3>3. handling \subseteq [id : ClientIds, num : 1 .. read']
      BY <2>1, <3>1
    <3>4. fired \in Seq(Before)
      BY <2>1
    <3> HIDE DEF Before, After
    <3>5. fired \in Seq(After)
      BY <3>2, <3>4, SeqMonotonic
    <3>6. QED
      BY <2>6, <3>1, <3>3, <3>5 DEF Request, After
  <2>7. ASSUME read < Len(sent), read' = read + 1, sent' = sent, written' = written
        PROVE  /\ Replied'
               /\ \A n : Answers(n)' = Answers(n)
               /\ PeerUnderstands'
    <3>1. Replied'
      BY <2>6, <2>7 DEF Replied, ReplyTo, Positions
    <3>2. QED
      BY <2>7, <3>1 DEF Answers, IsAnswerTo, Positions, PeerUnderstands
  <2>8. ASSUME read < Len(sent), read' = read + 1, sent' = sent, written' = written,
               handling' = handling, ~IsRequest(sent[read + 1])
        PROVE  Handled' /\ Answered'
    <3>1. Handled'
      BY <2>6, <2>8 DEF Handled
    <3>2. Answered'
      <4> SUFFICES ASSUME NEW n \in 1 .. read', IsRequest(sent[n])'
                   PROVE  (IF Request(n) \in handling THEN Answers(n) = {}
                           ELSE \E i \in Positions : Answers(n) = {i})'
        BY DEF Answered
      <4>1. n \in 1 .. read /\ IsRequest(sent[n])
        BY <2>6, <2>8
      <4>2. QED
        BY <2>6, <2>7, <2>8, <4>1 DEF Answered, Positions
    <3>3. QED
      BY <3>1, <3>2
  <2>9. CASE TakeRequest
    <3>1. /\ read < Len(sent) /\ read' = read + 1 /\ Next1.kind = "request"
          /\ handling' = handling \cup {[id |-> Next1.id, num |-> read + 1]}
          /\ UNCHANGED <<sent, written, nextOutgoingId, pending, fired>>
      BY <2>9 DEF TakeRequest, Take
    <3>2. /\ IsRequest(sent[read + 1]) /\ sent[read + 1].id \in ClientIds
          /\ handling' = handling \cup {Request(read + 1)}
      BY <2>5, <3>1, Parsing DEF Next1, Request
    <3>3. handling' \subseteq [id : ClientIds, num : 1 .. read']
      <4>1. Request(read + 1) \in [id : ClientIds, num : 1 .. read']
        BY <2>1, <3>1, <3>2 DEF Request
      <4>2. QED
        BY <2>6, <3>1, <3>2, <4>1
    <3>4. Types'
      BY <2>1, <2>6, <3>1, <3>3 DEF Types, TypeOK, ClientRaws, Positions
    <3>5. Handled'
      <4>1. ASSUME NEW r \in handling'
            PROVE  r = Request(r.num) /\ IsRequest(sent[r.num])
        <5>1. CASE r \in handling
          BY <5>1 DEF Handled
        <5>2. CASE r = Request(read + 1)
          BY <3>2, <5>2 DEF Request
        <5>3. QED
          BY <3>2, <5>1, <5>2
      <4>2. QED
        BY <2>6, <3>1, <4>1 DEF Handled
    <3>6. Answered'
      <4> SUFFICES ASSUME NEW n \in 1 .. read', IsRequest(sent[n])'
                   PROVE  (IF Request(n) \in handling THEN Answers(n) = {}
                           ELSE \E i \in Positions : Answers(n) = {i})'
        BY DEF Answered
      <4>1. CASE n = read + 1
        BY <2>5, <2>6, <2>7, <3>1, <3>2, <4>1
      <4>2. CASE n \in 1 .. read
        <5>1. Request(n) \in handling' <=> Request(n) \in handling
          BY <2>6, <3>1, <3>2, <4>2 DEF Request
        <5>2. QED
          BY <2>6, <2>7, <3>1, <4>2, <5>1 DEF Answered, Positions
      <4>3. QED
        BY <2>6, <3>1, <4>1, <4>2
    <3>7. Asked' /\ OwnResponse'
      BY <3>1 DEF Asked, OwnResponse, Requests, Asks
    <3>8. QED
      BY <2>3, <2>7, <3>1, <3>4, <3>5, <3>6, <3>7
  <2>10. CASE TakeNotification \/ TakeThrows
    <3>1. /\ read < Len(sent) /\ read' = read + 1
          /\ Next1.kind \in {"notification", "throws"}
          /\ UNCHANGED <<sent, handling, written, nextOutgoingId, pending, fired>>
      BY <2>10 DEF TakeNotification, TakeThrows, Take
    <3>2. ~IsRequest(sent[read + 1])
      BY <2>5, <3>1, Parsing DEF Next1
    <3>3. Types'
      BY <2>1, <2>6, <3>1 DEF Types, TypeOK, ClientRaws, Positions
    <3>4. Asked' /\ OwnResponse'
      BY <3>1 DEF Asked, OwnResponse, Requests, Asks
    <3>5. QED
      BY <2>3, <2>7, <2>8, <3>1, <3>2, <3>3, <3>4
  <2>11. CASE TakeResponse
    <3>1. /\ read < Len(sent) /\ read' = read + 1 /\ Next1.kind = "response"
          /\ UNCHANGED <<sent, handling, written, nextOutgoingId>>
      BY <2>11 DEF TakeResponse, Take
    <3>2. /\ ~IsRequest(sent[read + 1]) /\ Next1.id = sent[read + 1].id
          /\ Next1.isError \in BOOLEAN
          /\ Next1.isError <=> sent[read + 1].error # Missing
      BY <2>5, <3>1, Parsing DEF Next1
    <3>3. Handled' /\ Answered' /\ Replied' /\ PeerUnderstands'
      BY <2>7, <2>8, <3>1, <3>2
    <3>4. CASE UNCHANGED <<pending, fired>>
      <4>1. Types'
        BY <2>1, <2>6, <3>1, <3>4 DEF Types, TypeOK, ClientRaws, Positions
      <4>2. Asked' /\ OwnResponse'
        BY <3>1, <3>4 DEF Asked, OwnResponse, Requests, Asks
      <4>3. QED
        BY <2>3, <3>1, <3>3, <3>4, <4>1, <4>2
    <3>5. ASSUME NEW entry \in pending, Next1.id = IntId(entry.id), Route(Next1, entry)
          PROVE  JInv'
      <4> DEFINE call == [ask |-> entry.ask, num |-> read + 1, isError |-> Next1.isError]
                 Calls == [ask : 1 .. Len(written), num : 1 .. read', isError : BOOLEAN]
      <4>1. fired' = Append(fired, call) /\ pending' = pending \ {entry}
        BY <3>5 DEF Route
      <4>2. fired \in Seq(Calls) /\ call \in Calls
        BY <2>1, <2>6, <3>1, <3>2
      <4> HIDE DEF call, Calls
      <4>3. /\ fired' \in Seq(Calls) /\ Len(fired') = Len(fired) + 1
            /\ \A i \in 1 .. Len(fired) : fired'[i] = fired[i]
            /\ fired'[Len(fired) + 1] = call
        BY <4>1, <4>2, AppendProperties
      <4>4. Types'
        BY <2>1, <3>1, <4>1, <4>3 DEF Types, TypeOK, ClientRaws, Positions, Calls
      <4>5. Asked'
        <5>1. ASSUME NEW e \in pending', NEW i \in 1 .. Len(fired')
              PROVE  fired'[i].ask # e.ask
          <6>1. e \in pending /\ e.ask # entry.ask
            BY <4>1 DEF Asked
          <6>2. CASE i \in 1 .. Len(fired)
            BY <4>3, <6>1, <6>2 DEF Asked
          <6>3. CASE i = Len(fired) + 1
            BY <4>3, <6>1, <6>3 DEF call
          <6>4. QED
            BY <2>1, <4>3, <6>2, <6>3
        <5>2. QED
          BY <3>1, <4>1, <5>1 DEF Asked, Requests, Asks
      <4>6. OwnResponse'
        <5>1. \A i \in 1 .. Len(fired) : fired[i].ask # entry.ask
          BY DEF Asked
        <5>2. ASSUME NEW i \in 1 .. Len(fired'), NEW j \in 1 .. Len(fired'),
                     fired'[i].ask = fired'[j].ask
              PROVE  i = j
          <6>1. CASE i \in 1 .. Len(fired) /\ j \in 1 .. Len(fired)
            BY <4>3, <5>2, <6>1 DEF OwnResponse
          <6>2. CASE i = Len(fired) + 1 /\ j \in 1 .. Len(fired)
            BY <4>3, <5>1, <5>2, <6>2 DEF call
          <6>3. CASE i \in 1 .. Len(fired) /\ j = Len(fired) + 1
            BY <4>3, <5>1, <5>2, <6>3 DEF call
          <6>4. QED
            BY <2>1, <4>3, <6>1, <6>2, <6>3
        <5>3. ASSUME NEW i \in 1 .. Len(fired')
              PROVE  LET response == sent[fired'[i].num]
                         request == written[fired'[i].ask].raw
                     IN  /\ ~IsRequest(response)
                         /\ request.method = "string" /\ request.id = response.id
                         /\ fired'[i].isError <=> response.error # Missing
          <6>1. CASE i \in 1 .. Len(fired)
            BY <4>3, <6>1 DEF OwnResponse
          <6>2. CASE i = Len(fired) + 1
            <7>1. fired'[i].ask = entry.ask /\ fired'[i].num = read + 1
                  /\ fired'[i].isError = Next1.isError
              BY <4>3, <6>2 DEF call
            <7>2. QED
              BY <3>2, <3>5, <7>1 DEF Asked
          <6>3. QED
            BY <2>1, <4>3, <6>1, <6>2
        <5>4. QED
          BY <3>1, <5>2, <5>3 DEF OwnResponse
      <4>7. Counted' /\ NoneLost'
        <5>1. Requests' = Requests
          BY <3>1 DEF Requests, Asks
        <5>2. /\ \A i : Earlier(i)' = Earlier(i)
              /\ \A i, j : FullTurn(j, i)' <=> FullTurn(j, i)
          BY <3>1, <5>1 DEF Earlier, FullTurn
        <5>3. Counted'
          BY <3>1, <5>1, <5>2 DEF Counted
        <5>4. ASSUME NEW i \in Requests
              PROVE  \/ \E e \in pending' : e.ask = i
                     \/ \E k \in 1 .. Len(fired') : fired'[k].ask = i
                     \/ \E j \in Requests : FullTurn(j, i)
          <6>1. CASE \E e \in pending : e.ask = i
            <7>1. PICK e \in pending : e.ask = i
              BY <6>1
            <7>2. CASE e = entry
              <8>1. Len(fired) + 1 \in 1 .. Len(fired') /\ fired'[Len(fired) + 1].ask = i
                BY <2>1, <4>3, <7>1, <7>2 DEF call
              <8>2. QED
                BY <8>1
            <7>3. CASE e # entry
              BY <4>1, <7>1, <7>3
            <7>4. QED
              BY <7>2, <7>3
          <6>2. CASE \E k \in 1 .. Len(fired) : fired[k].ask = i
            <7>1. PICK k \in 1 .. Len(fired) : fired[k].ask = i
              BY <6>2
            <7>2. k \in 1 .. Len(fired') /\ fired'[k].ask = i
              BY <2>1, <4>3, <7>1
            <7>3. QED
              BY <7>2
          <6>3. QED
            BY <6>1, <6>2 DEF NoneLost
        <5>5. QED
          BY <5>1, <5>2, <5>3, <5>4 DEF NoneLost
      <4>8. QED
        BY <3>3, <4>4, <4>5, <4>6, <4>7
    <3>6. QED
      BY <2>11, <3>4, <3>5 DEF TakeResponse
  <2> DEFINE Last == Len(written) + 1
             Named(raw) == IF raw.method = "absent" THEN {raw.result, raw.error} ELSE {}
  <2>12. ASSUME NEW x \in [raw : ServerRaws, means : Meanings],
                written' = Append(written, x), sent' = sent,
                read' \in {read, read + 1},
                x.means.kind # "invalid" => ParseMessage(x.raw) = x.means
         PROVE  /\ written' \in Seq([raw : ServerRaws, means : Meanings])
                /\ Positions' = Positions \cup {Last} /\ Last \notin Positions
                /\ \A i \in Positions : written'[i] = written[i]
                /\ written'[Last] = x
                /\ pending \subseteq [id : Ints, ask : Positions']
                /\ fired \in Seq([ask : Positions', num : 1 .. read', isError : BOOLEAN])
                /\ \A n : /\ Request(n)' = Request(n)
                          /\ Answers(n)' = IF n \in Named(x.raw) THEN Answers(n) \cup {Last}
                                           ELSE Answers(n)
                /\ PeerUnderstands'
                /\ fired' = fired => OwnResponse'
    <3>1. /\ written' \in Seq([raw : ServerRaws, means : Meanings])
          /\ Len(written') = Last
          /\ \A i \in 1 .. Len(written) : written'[i] = written[i]
          /\ written'[Last] = x
      BY <2>1, <2>12, AppendProperties
    <3>2. Positions' = Positions \cup {Last} /\ Last \notin Positions
      BY <2>1, <3>1 DEF Positions
    <3>3. \A i \in Positions : written'[i] = written[i]
      BY <3>1 DEF Positions
    <3>4. pending \subseteq [id : Ints, ask : Positions']
      BY <2>1, <3>2 DEF Positions
    <3> DEFINE Before == [ask : Positions, num : 1 .. read, isError : BOOLEAN]
               After == [ask : Positions', num : 1 .. read', isError : BOOLEAN]
    <3>5. Before \subseteq After
      <4>1. \A n \in 1 .. read : n \in 1 .. read'
        BY <2>1, <2>12
      <4>2. QED
        BY <3>2, <4>1
    <3>6. fired \in Seq(Before)
      BY <2>1 DEF Positions
    <3> HIDE DEF Before, After, Last
    <3>7. fired \in Seq(After)
      BY <3>5, <3>6, SeqMonotonic
    <3>8. ASSUME NEW n
          PROVE  /\ Request(n)' = Request(n)
                 /\ Answers(n)' = IF n \in Named(x.raw) THEN Answers(n) \cup {Last}
                                  ELSE Answers(n)
      <4> DEFINE For(raw) == n \in Named(raw)
      <4>1. Answers(n) = {i \in Positions : For(written[i].raw)}
        BY DEF Answers, IsAnswerTo
      <4>2. Answers(n)' = {i \in Positions' : For(written'[i].raw)}
        BY DEF Answers, IsAnswerTo
      <4>3. For(written'[Last].raw) <=> For(x.raw)
        BY <3>1
      <4>4. \A i \in Positions : For(written'[i].raw) <=> For(written[i].raw)
        BY <3>3
      <4>5. Request(n)' = Request(n)
        BY <2>12 DEF Request
      <4> HIDE DEF For
      <4>6. Answers(n)' = IF For(x.raw) THEN Answers(n) \cup {Last} ELSE Answers(n)
        BY <3>2, <4>1, <4>2, <4>3, <4>4
      <4>7. QED
        BY <4>5, <4>6 DEF For
    <3>9. PeerUnderstands'
      BY <2>12, <3>1, <3>2, <3>3 DEF PeerUnderstands
    <3>10. ASSUME fired' = fired PROVE OwnResponse'
      <4>1. \A i \in 1 .. Len(fired) : written'[fired[i].ask] = written[fired[i].ask]
        BY <2>2, <3>3 DEF Positions
      <4>2. QED
        BY <2>12, <3>10, <4>1 DEF OwnResponse
    <3>11. QED
      BY <3>1, <3>2, <3>3, <3>4, <3>7, <3>8, <3>9, <3>10 DEF After
  <2> DEFINE Writes(x) == /\ written' = Append(written, x) /\ sent' = sent
                          /\ read' \in {read, read + 1}
                          /\ x.means.kind # "invalid" => ParseMessage(x.raw) = x.means
  <2>13. ASSUME NEW x \in [raw : ServerRaws, means : Meanings], Writes(x)
         PROVE  /\ UNCHANGED <<pending, fired>> => Asked'
                /\ (x.raw.method = "absent" => \E n \in 1 .. read' : ReplyTo(x.raw, n))
                     => Replied'
    <3>1. \A i \in Positions : written'[i] = written[i]
      BY <2>12, <2>13
    <3>2. ASSUME UNCHANGED <<pending, fired>> PROVE Asked'
      <4>1. \A entry \in pending : entry.ask \in Positions /\ entry.ask \in Requests
        BY <2>1 DEF Positions, Asked
      <4>2. Requests \subseteq Requests'
        <5>1. Positions \subseteq Positions'
          BY <2>12, <2>13
        <5>2. QED
          BY <3>1, <5>1 DEF Requests, Asks, Positions
      <4>3. QED
        BY <3>1, <3>2, <4>1, <4>2 DEF Asked
    <3>3. \A n \in 1 .. read : n \in 1 .. read'
      BY <2>1, <2>13
    <3>4. ASSUME x.raw.method = "absent" => \E n \in 1 .. read' : ReplyTo(x.raw, n)
          PROVE  Replied'
      <4>1. ASSUME NEW i \in Positions', written'[i].raw.method = "absent"
            PROVE  \E n \in 1 .. read' : ReplyTo(written'[i].raw, n)
        <5>1. CASE i \in Positions
          BY <3>1, <3>3, <4>1, <5>1 DEF Replied
        <5>2. CASE i = Last
          <6>1. written'[i] = x
            BY <2>12, <2>13, <5>2
          <6>2. QED
            BY <3>4, <4>1, <6>1
        <5>3. QED
          BY <2>12, <2>13, <5>1, <5>2
      <4>2. \A i : (\E n \in 1 .. read' : ReplyTo(written'[i].raw, n))
                    => (\E n \in 1 .. read : ReplyTo(written[i].raw, n))'
        BY <2>13 DEF ReplyTo
      <4>3. QED
        BY <4>1, <4>2 DEF Replied
    <3>5. QED
      BY <3>2, <3>4
  <2>14. ASSUME NEW x \in [raw : ServerRaws, means : Meanings], Writes(x)
         PROVE  /\ Requests' = IF x.means.kind = "request" THEN Requests \cup {Last}
                               ELSE Requests
                /\ \A i \in Requests : /\ i \in Positions /\ i < Last
                                       /\ written'[i] = written[i]
                /\ \A i, j \in Requests :
                     /\ Earlier(i)' = Earlier(i)
                     /\ FullTurn(j, i) => FullTurn(j, i)'
    <3>1. /\ Positions' = Positions \cup {Last} /\ Last \notin Positions
          /\ \A i \in Positions : written'[i] = written[i]
          /\ written'[Last] = x
      BY <2>12, <2>14
    <3>2. Requests = {i \in Positions : written[i].means.kind = "request"}
      BY DEF Requests, Asks, Positions
    <3>3. Requests' = {i \in Positions' : written'[i].means.kind = "request"}
      BY DEF Requests, Asks, Positions
    <3>4. \A i \in Positions : i < Last
      BY <2>1 DEF Positions
    <3> HIDE DEF Last
    <3>5. Requests' = IF x.means.kind = "request" THEN Requests \cup {Last} ELSE Requests
      BY <3>1, <3>2, <3>3
    <3>6. \A i \in Requests : i \in Positions /\ i < Last /\ written'[i] = written[i]
      BY <3>1, <3>2, <3>4
    <3>7. ASSUME NEW i \in Requests, NEW j \in Requests
          PROVE  /\ Earlier(i)' = Earlier(i)
                 /\ FullTurn(j, i) => FullTurn(j, i)'
      <4>1. ~(Last < i) /\ i \in Nat /\ Last \in Nat
        BY <2>1, <3>6, <3>7 DEF Positions, Last
      <4>2. Earlier(i)' = Earlier(i)
        BY <3>5, <4>1 DEF Earlier
      <4>3. {k \in Requests' : j <= k /\ k < i} = {k \in Requests : j <= k /\ k < i}
        BY <3>5, <4>1
      <4>4. FullTurn(j, i) => FullTurn(j, i)'
        BY <3>6, <4>3 DEF FullTurn
      <4>5. QED
        BY <4>2, <4>4
    <3>8. QED
      BY <3>5, <3>6, <3>7
  <2>15. ASSUME NEW x \in [raw : ServerRaws, means : Meanings], Writes(x),
                x.means.kind # "request", UNCHANGED <<nextOutgoingId, pending, fired>>
         PROVE  Counted' /\ NoneLost'
    <3>1. Requests' = Requests
      BY <2>14, <2>15
    <3>2. Counted'
      BY <2>14, <2>15, <3>1 DEF Counted
    <3>3. NoneLost'
      BY <2>14, <2>15, <3>1 DEF NoneLost
    <3>4. QED
      BY <3>2, <3>3
  <2>16. ASSUME NEW x \in [raw : ServerRaws, means : Meanings], Writes(x),
                x.raw.method = "string", read' = read, handling' = handling
         PROVE  Handled' /\ Replied' /\ Answered'
    <3>1. Handled'
      BY <2>12, <2>16 DEF Handled
    <3>2. Replied'
      BY <2>13, <2>16
    <3>3. Answered'
      <4>1. \A n : Answers(n)' = Answers(n)
        BY <2>12, <2>16
      <4>2. \A n : Request(n)' = Request(n)
        BY <2>12, <2>16
      <4>3. Positions \subseteq Positions'
        BY <2>12, <2>16
      <4>4. ASSUME NEW n \in 1 .. read', IsRequest(sent[n])'
            PROVE  (IF Request(n) \in handling THEN Answers(n) = {}
                    ELSE \E i \in Positions : Answers(n) = {i})'
        BY <2>16, <4>1, <4>2, <4>3, <4>4 DEF Answered
      <4>5. QED
        BY <4>4 DEF Answered
    <3>4. QED
      BY <3>1, <3>2, <3>3
  <2>17. CASE TakeInvalid
    <3> DEFINE m == Next1
               x == [raw |-> SerializeError(Null, read + 1), means |-> Invalid(m.code)]
    <3>1. /\ read < Len(sent) /\ read' = read + 1 /\ m.kind = "invalid"
          /\ written' = Append(written, x)
          /\ UNCHANGED <<sent, handling, nextOutgoingId, pending, fired>>
      BY <2>17 DEF TakeInvalid, Take, Write
    <3>2. /\ ~IsRequest(sent[read + 1]) /\ m.code \in {"ParseError", "InvalidRequest"}
          /\ ~IsNotification(sent[read + 1]) /\ ~IsResponse(sent[read + 1])
      BY <2>5, <3>1, Parsing DEF Next1
    <3>3. /\ x.raw \in ServerRaws /\ x.means \in Meanings /\ x.means.kind = "invalid"
          /\ x \in [raw : ServerRaws, means : Meanings]
      BY <2>1, <3>2, Serializing DEF Meanings, Invalid
    <3>4. /\ x.raw.method = "absent" /\ x.raw.id = Null
          /\ x.raw.result = Missing /\ x.raw.error = read + 1
      BY DEF SerializeError, Empty
    <3> HIDE DEF x, m
    <3>5. Writes(x)
      BY <3>1, <3>3
    <3>6. Types'
      BY <2>1, <2>6, <2>12, <3>1, <3>3, <3>5 DEF Types, TypeOK, ClientRaws
    <3>7. Handled'
      BY <2>6, <3>1 DEF Handled
    <3>8. Replied'
      <4>1. read + 1 \in 1 .. read' /\ ReplyTo(x.raw, read + 1)
        BY <2>1, <3>1, <3>2, <3>4 DEF ReplyTo
      <4>2. QED
        BY <2>13, <3>3, <3>5, <4>1
    <3>9. Answered'
      <4>1. ASSUME NEW n \in 1 .. read', IsRequest(sent[n])'
            PROVE  (IF Request(n) \in handling THEN Answers(n) = {}
                    ELSE \E i \in Positions : Answers(n) = {i})'
        <5>1. n \in 1 .. read /\ IsRequest(sent[n])
          BY <2>6, <3>1, <3>2, <4>1
        <5>2. n \notin {x.raw.result, x.raw.error}
          BY <2>6, <3>1, <3>4, <5>1 DEF Missing
        <5>3. Answers(n)' = Answers(n) /\ Request(n)' = Request(n) /\ Positions \subseteq Positions'
          BY <2>12, <3>3, <3>5, <5>2
        <5>4. QED
          BY <3>1, <5>1, <5>3 DEF Answered
      <4>2. QED
        BY <4>1 DEF Answered
    <3>10. Counted' /\ NoneLost'
      BY <2>15, <3>1, <3>3, <3>5
    <3>11. QED
      BY <2>12, <2>13, <3>1, <3>3, <3>5, <3>6, <3>7, <3>8, <3>9, <3>10
  <2>18. ASSUME NEW request \in handling, Answer(request) PROVE JInv'
    <3> DEFINE n == request.num
    <3>1. /\ request = Request(n) /\ IsRequest(sent[n]) /\ request.id = sent[n].id
          /\ n \in 1 .. read /\ request.id \in ClientIds /\ n \in Nat \ {0}
      BY <2>1 DEF Handled, Request
    <3>2. /\ handling' = handling \ {request}
          /\ UNCHANGED <<sent, read, nextOutgoingId, pending, fired>>
      BY <2>18 DEF Answer
    <3>3. PICK x \in [raw : ServerRaws, means : Meanings] :
            /\ written' = Append(written, x)
            /\ ParseMessage(x.raw) = x.means /\ x.means.kind = "response"
            /\ x.raw.method = "absent" /\ x.raw.id = request.id
            /\ \/ x.raw.result = n /\ x.raw.error = Missing
               \/ x.raw.result = Missing /\ x.raw.error = n
      <4> DEFINE means(e) == [kind |-> "response", id |-> request.id, isError |-> e,
                              payload |-> n]
                 result == [raw |-> SerializeResult(request.id, n), means |-> means(FALSE)]
                 error == [raw |-> SerializeError(request.id, n), means |-> means(TRUE)]
      <4>1. written' = Append(written, result) \/ written' = Append(written, error)
        BY <2>18 DEF Answer, Write
      <4>2. \A e \in BOOLEAN : means(e) \in Meanings
        BY <3>1 DEF Meanings
      <4>3. /\ result \in [raw : ServerRaws, means : Meanings]
            /\ error \in [raw : ServerRaws, means : Meanings]
            /\ ParseMessage(result.raw) = result.means
            /\ ParseMessage(error.raw) = error.means
            /\ result.means.kind = "response" /\ error.means.kind = "response"
        BY <3>1, <4>2, Serializing
      <4>4. \A r \in {result.raw, error.raw} :
              /\ r.method = "absent" /\ r.id = request.id
              /\ \/ r.result = n /\ r.error = Missing
                 \/ r.result = Missing /\ r.error = n
        BY DEF SerializeResult, SerializeError, Empty
      <4> HIDE DEF result, error
      <4>5. QED
        BY <4>1, <4>3, <4>4
    <3>4. Writes(x)
      BY <3>2, <3>3
    <3>5. Types'
      BY <2>1, <2>12, <3>2, <3>4 DEF Types, TypeOK, ClientRaws
    <3>6. Handled'
      BY <2>12, <3>2, <3>4 DEF Handled
    <3>7. Replied'
      <4>1. ReplyTo(x.raw, n)
        BY <3>1, <3>3 DEF ReplyTo, IsRequest, IsNotification, IsResponse, Readable, Absent
      <4>2. QED
        BY <2>13, <3>1, <3>2, <3>4, <4>1
    <3>8. Answered'
      <4>1. ASSUME NEW k \in 1 .. read', IsRequest(sent[k])'
            PROVE  (IF Request(k) \in handling THEN Answers(k) = {}
                    ELSE \E i \in Positions : Answers(k) = {i})'
        <5>1. k \in 1 .. read /\ IsRequest(sent[k]) /\ Request(k)' = Request(k)
          BY <2>12, <3>2, <3>4, <4>1
        <5>2. CASE k = n
          <6>1. Answers(n) = {} /\ Request(n) \notin handling'
            BY <3>1, <3>2 DEF Answered
          <6>2. Answers(n)' = {Last} /\ Last \in Positions'
            BY <2>12, <3>3, <3>4, <6>1
          <6>3. QED
            BY <5>1, <5>2, <6>1, <6>2
        <5>3. CASE k # n
          <6>1. Request(k) \in handling' <=> Request(k) \in handling
            BY <3>1, <3>2, <5>3 DEF Request
          <6>2. k \notin Named(x.raw)
            BY <3>3, <5>1, <5>3 DEF Missing
          <6>3. Answers(k)' = Answers(k) /\ Positions \subseteq Positions'
            BY <2>12, <3>4, <6>2
          <6>4. QED
            BY <5>1, <6>1, <6>3 DEF Answered
        <5>4. QED
          BY <5>2, <5>3
      <4>2. QED
        BY <4>1 DEF Answered
    <3>9. Counted' /\ NoneLost'
      BY <2>15, <3>2, <3>3, <3>4
    <3>10. QED
      BY <2>12, <2>13, <3>2, <3>4, <3>5, <3>6, <3>7, <3>8, <3>9
  <2>19. CASE SendRequest
    <3> DEFINE x == [raw |-> SerializeRequest(nextOutgoingId, Last),
                     means |-> [kind |-> "request", id |-> IntId(nextOutgoingId),
                                params |-> Last]]
               new == [id |-> nextOutgoingId, ask |-> Last]
    <3>1. /\ nextOutgoingId' = ToInt(nextOutgoingId + 1)
          /\ \/ pending' = pending \cup {new}
             \/ /\ pending' = pending
                /\ \E entry \in pending : entry.id = nextOutgoingId
          /\ written' = Append(written, x)
          /\ UNCHANGED <<sent, read, handling, fired>>
      BY <2>19 DEF SendRequest, Register, Write, Place
    <3>2. /\ x.raw \in ServerRaws /\ x.means \in Meanings
          /\ ParseMessage(x.raw) = x.means
          /\ x \in [raw : ServerRaws, means : Meanings]
      BY <2>1, Serializing DEF Meanings
    <3>3. /\ x.raw.method = "string" /\ x.raw.id = IntId(nextOutgoingId)
          /\ x.means.kind = "request"
      BY DEF SerializeRequest, Empty
    <3> HIDE DEF x
    <3>4. Writes(x)
      BY <3>1, <3>2
    <3>5. nextOutgoingId' \in Ints
      <4>1. nextOutgoingId + 1 \in Int
        BY <2>1, WidthAssumption DEF Ints
      <4>2. QED
        BY <3>1, <4>1, IntsKept
    <3>6. Types'
      <4>1. pending' \subseteq [id : Ints, ask : Positions']
        BY <2>1, <2>12, <3>1, <3>2, <3>4
      <4>2. QED
        BY <2>1, <2>12, <3>1, <3>2, <3>4, <3>5, <4>1 DEF Types, TypeOK, ClientRaws
    <3>7. Asked'
      <4>1. \A entry \in pending : entry.ask \in Positions /\ entry.ask # Last
        BY <2>1 DEF Positions
      <4>2. \A i \in 1 .. Len(fired) : fired[i].ask # Last
        BY <2>1, <2>2
      <4>3. \A i \in Positions : written'[i] = written[i]
        BY <2>12, <3>2, <3>4
      <4>4. written'[Last] = x /\ Requests' = Requests \cup {Last}
        BY <2>12, <2>14, <3>2, <3>3, <3>4
      <4>5. ASSUME NEW e \in pending'
            PROVE  /\ e.ask \in Requests'
                   /\ written'[e.ask].raw.method = "string"
                   /\ written'[e.ask].raw.id = IntId(e.id)
                   /\ \A other \in pending' : other.ask = e.ask => other = e
                   /\ \A i \in 1 .. Len(fired) : fired[i].ask # e.ask
        <5>1. \A other \in pending' : other \in pending \/ other = new
          BY <3>1
        <5>2. new.ask = Last /\ new.id = nextOutgoingId
          OBVIOUS
        <5> HIDE DEF new, Last
        <5>3. CASE e \in pending
          <6>1. e.ask \in Positions /\ e.ask # Last /\ written'[e.ask] = written[e.ask]
            BY <4>1, <4>3, <5>3
          <6>2. QED
            BY <4>4, <5>1, <5>2, <5>3, <6>1 DEF Asked
        <5>4. CASE e = new
          BY <3>3, <4>1, <4>2, <4>4, <5>1, <5>2, <5>4
        <5>5. QED
          BY <5>1, <5>3, <5>4
      <4>6. QED
        BY <3>1, <4>5 DEF Asked
    <3>8. /\ Requests' = Requests \cup {Last} /\ Last \notin Requests
          /\ Requests \subseteq Nat /\ IsFiniteSet(Requests)
          /\ Cardinality(Requests) \in Nat
      <4>1. Requests' = Requests \cup {Last} /\ Requests \subseteq 1 .. Len(written)
        BY <2>14, <3>2, <3>3, <3>4 DEF Positions
      <4>2. IsFiniteSet(1 .. Len(written))
        BY <2>1, FS_Interval
      <4>3. IsFiniteSet(Requests)
        BY <4>1, <4>2, FS_Subset
      <4>4. QED
        BY <2>1, <4>1, <4>3, FS_CardinalityType
    <3>9. Counted'
      <4>1. Cardinality(Requests') = Cardinality(Requests) + 1
        BY <3>8, FS_AddElement
      <4>2. nextOutgoingId' = ToInt(Cardinality(Requests') + 1)
        <5>1. nextOutgoingId = ToInt(Cardinality(Requests) + 1)
          BY DEF Counted
        <5>2. Cardinality(Requests) + 1 \in Nat
          BY <3>8
        <5>3. ToInt(nextOutgoingId + 1) = ToInt(Cardinality(Requests) + 1 + 1)
          BY <5>1, <5>2, ComingRound
        <5>4. QED
          BY <3>1, <4>1, <5>3
      <4>3. ASSUME NEW i \in Requests'
            PROVE  written'[i].raw.id = IntId(ToInt(Cardinality(Earlier(i)') + 1))
        <5>1. CASE i \in Requests
          BY <2>14, <3>2, <3>4, <5>1 DEF Counted
        <5>2. CASE i = Last
          <6>1. written'[i] = x
            BY <2>12, <3>2, <3>4, <5>2
          <6>2. Earlier(i)' = Requests
            <7>1. \A k \in Requests : k < i
              BY <2>14, <3>2, <3>4, <5>2
            <7>2. ~(i < i) /\ i \notin Requests
              BY <2>1, <3>8, <5>2
            <7>3. Requests' = Requests \cup {i}
              BY <3>8, <5>2
            <7>4. QED
              BY <7>1, <7>2, <7>3 DEF Earlier
          <6>3. QED
            BY <3>3, <6>1, <6>2 DEF Counted
        <5>3. QED
          BY <3>8, <4>3, <5>1, <5>2
      <4>4. QED
        BY <4>2, <4>3 DEF Counted
    <3>10. NoneLost'
      <4>1. ASSUME NEW i, i = Last, NEW entry \in pending, entry.id = nextOutgoingId
            PROVE  entry.ask \in Requests /\ FullTurn(entry.ask, i)'
        <5> DEFINE j == entry.ask
                   c == Cardinality(Earlier(j))
                   d == Cardinality(Between(j, i))
        <5>1. j \in Requests /\ written[j].raw.id = IntId(nextOutgoingId)
          BY <4>1 DEF Asked
        <5>2. written'[j].raw.id = written'[i].raw.id
          BY <2>12, <2>14, <3>2, <3>3, <3>4, <4>1, <5>1
        <5>3. /\ \A k \in Requests : k \in Nat /\ k < i
              /\ i \in Nat /\ j \in Nat /\ Requests' = Requests \cup {i}
          <6>1. i \in Nat /\ j \in Nat /\ \A k \in Requests : k \in Nat
            BY <2>1, <3>8, <4>1, <5>1
          <6>2. \A k \in Requests : k < i
            BY <2>14, <3>2, <3>4, <4>1
          <6>3. Requests' = Requests \cup {i}
            BY <3>8, <4>1
          <6>4. QED
            BY <6>1, <6>2, <6>3
        <5>4. \A k \in Requests : (j <= k) <=> ~(k < j)
          BY <5>3
        <5> HIDE DEF j
        <5>5. Requests = Earlier(j) \cup Between(j, i) /\ Earlier(j) \cap Between(j, i) = {}
          BY <5>3, <5>4 DEF Earlier, Between
        <5>6. j \in Between(j, i)
          BY <5>1, <5>3 DEF Between
        <5>7. IsFiniteSet(Earlier(j)) /\ IsFiniteSet(Between(j, i))
          BY <3>8, <5>5, FS_Subset
        <5>8. c \in Nat /\ d \in Nat /\ d # 0
          BY <5>6, <5>7, FS_CardinalityType, FS_EmptySet
        <5>9. Cardinality(Requests) = c + d
          <6> DEFINE E == Earlier(j)
                     B == Between(j, i)
          <6>1. Cardinality(E \cap B) = 0
            BY <5>5, FS_EmptySet
          <6>2. IsFiniteSet(E) /\ IsFiniteSet(B)
            BY <5>7
          <6> HIDE DEF E, B
          <6>3. Cardinality(E \cup B) = Cardinality(E) + Cardinality(B) - Cardinality(E \cap B)
            BY <6>2, FS_Union
          <6>4. Requests = E \cup B /\ c = Cardinality(E) /\ d = Cardinality(B)
            BY <5>5 DEF E, B
          <6> HIDE DEF c, d
          <6>5. QED
            BY <5>8, <6>1, <6>3, <6>4
        <5>10. ToInt(Cardinality(Requests) + 1) = ToInt(c + 1)
          <6>1. /\ written[j].raw.id = IntId(ToInt(c + 1))
                /\ nextOutgoingId = ToInt(Cardinality(Requests) + 1)
            BY <5>1 DEF Counted
          <6> HIDE DEF c
          <6>2. QED
            BY <5>1, <6>1 DEF IntId
        <5> HIDE DEF c, d
        <5>11. d >= 2 ^ IntBits
          <6>1. /\ Cardinality(Requests) + 1 \in Nat /\ c + 1 \in Nat
                /\ c + 1 < Cardinality(Requests) + 1
                /\ (Cardinality(Requests) + 1) - (c + 1) = d
            BY <5>8, <5>9
          <6>2. QED
            BY <5>10, <6>1, ComingRound
        <5>12. {k \in Requests' : j <= k /\ k < i} = Between(j, i)
          BY <5>3 DEF Between
        <5>13. FullTurn(j, i)'
          BY <5>2, <5>11, <5>12 DEF FullTurn, d
        <5>14. QED
          BY <5>1, <5>13 DEF j
      <4>2. ASSUME NEW i \in Requests'
            PROVE  \/ \E entry \in pending' : entry.ask = i
                   \/ \E k \in 1 .. Len(fired) : fired[k].ask = i
                   \/ \E j \in Requests' : FullTurn(j, i)'
        <5>1. Requests \subseteq Requests'
          BY <3>8
        <5>2. CASE i \in Requests
          <6>1. pending \subseteq pending'
            BY <3>1
          <6>2. QED
            BY <2>14, <3>2, <3>4, <5>1, <5>2, <6>1 DEF NoneLost
        <5>3. CASE i = Last
          <6>1. CASE pending' = pending \cup {new}
            <7>1. new \in pending' /\ new.ask = i
              BY <5>3, <6>1
            <7>2. QED
              BY <7>1
          <6>2. CASE \E entry \in pending : entry.id = nextOutgoingId
            BY <4>1, <5>1, <5>3, <6>2
          <6>3. QED
            BY <3>1, <6>1, <6>2
        <5>4. QED
          BY <3>8, <5>2, <5>3
      <4>3. QED
        BY <3>1, <4>2 DEF NoneLost
    <3>11. QED
      BY <2>12, <2>16, <3>1, <3>2, <3>3, <3>4, <3>6, <3>7, <3>9, <3>10
  <2>20. CASE SendNotification
    <3> DEFINE x == [raw |-> SerializeNotification(Last),
                     means |-> [kind |-> "notification", params |-> Last]]
    <3>1. /\ written' = Append(written, x)
          /\ UNCHANGED <<sent, read, handling, nextOutgoingId, pending, fired>>
      BY <2>20 DEF SendNotification, Write, Place
    <3>2. /\ x.raw \in ServerRaws /\ x.means \in Meanings
          /\ ParseMessage(x.raw) = x.means
          /\ x \in [raw : ServerRaws, means : Meanings]
      BY <2>1, Serializing DEF Meanings
    <3>3. x.raw.method = "string" /\ x.means.kind = "notification"
      BY DEF SerializeNotification, Empty
    <3> HIDE DEF x
    <3>4. Writes(x)
      BY <3>1, <3>2
    <3>5. Types'
      BY <2>1, <2>12, <3>1, <3>2, <3>4 DEF Types, TypeOK, ClientRaws
    <3>6. Counted' /\ NoneLost'
      BY <2>15, <3>1, <3>2, <3>3, <3>4
    <3>7. QED
      BY <2>12, <2>13, <2>16, <3>1, <3>2, <3>3, <3>4, <3>5, <3>6
  <2>21. CASE UNCHANGED vars
    <3>1. Types' /\ Handled' /\ Asked'
      BY <2>21 DEF vars, Types, TypeOK, Handled, Request, Asked, Positions, Requests, Asks
    <3>2. Replied' /\ Answered'
      BY <2>21 DEF vars, Replied, ReplyTo, Answered, Request, Answers, IsAnswerTo, Positions
    <3>3. OwnResponse' /\ PeerUnderstands'
      BY <2>21 DEF vars, OwnResponse, PeerUnderstands, Positions
    <3>4. Counted' /\ NoneLost'
      BY <2>3, <2>21 DEF vars
    <3>5. QED
      BY <3>1, <3>2, <3>3, <3>4
  <2>22. QED
    BY <2>4, <2>9, <2>10, <2>11, <2>17, <2>18, <2>19, <2>20, <2>21 DEF Next
<1>3. QED
  BY <1>1, <1>2, PTL DEF Spec

-----------------------------------------------------------------------------
(* Theorems *)

(***************************************************************************)
(* Type correctness, with the least int of any width among the ids.        *)
(***************************************************************************)
THEOREM TypeCorrect == Spec => []TypeOK
<1>1. JInv => TypeOK
  BY DEF JInv, Types
<1>2. QED
  BY <1>1, Inductive, PTL

(***************************************************************************)
(* However many messages cross, and with the ids of the two sides equal, a *)
(* callback of handleResponse runs at most once and only with the client's *)
(* response to its own request.                                            *)
(***************************************************************************)
THEOREM CallbackOwnResponse == Spec => []CallbackGetsItsResponse
<1>1. JInv => CallbackGetsItsResponse
  BY DEF JInv, CallbackGetsItsResponse
<1>2. QED
  BY <1>1, Inductive, PTL

(***************************************************************************)
(* What a serializer writes is read by parseMessage as what it meant.      *)
(***************************************************************************)
THEOREM PeerReads == Spec => []PeerUnderstands
<1>1. JInv => PeerUnderstands
  BY DEF JInv
<1>2. QED
  BY <1>1, Inductive, PTL

(***************************************************************************)
(* Every request of the client that run() has read is being handled or has *)
(* exactly one answer, under its own id; nothing else is answered, but for *)
(* the replies that have no id.                                            *)
(***************************************************************************)
THEOREM AnswersNamed == Spec => []AnswersNameTheirRequests
<1>1. JInv => AnswersNameTheirRequests
  <2> SUFFICES ASSUME JInv, NEW n \in 1 .. read
               PROVE  LET being == {request \in handling : request.num = n}
                      IN  /\ IsRequest(sent[n]) =>
                               /\ Cardinality(Answers(n)) + Cardinality(being) = 1
                               /\ \A i \in Answers(n) :
                                    /\ written[i].raw.id = sent[n].id
                                    /\ {written[i].raw.result, written[i].raw.error}
                                         = {Missing, n}
                          /\ ~IsRequest(sent[n]) =>
                               being = {} /\ \A i \in Answers(n) : written[i].raw.id = Null
                          /\ IsNotification(sent[n]) \/ IsResponse(sent[n])
                               => Answers(n) = {}
    BY DEF AnswersNameTheirRequests, Answers
  <2> DEFINE being == {request \in handling : request.num = n}
  <2>1. ASSUME NEW i \in Answers(n)
        PROVE  /\ ReplyTo(written[i].raw, n)
               /\ {written[i].raw.result, written[i].raw.error} = {Missing, n}
    <3>1. PICK k \in 1 .. read : ReplyTo(written[i].raw, k)
      BY <2>1 DEF JInv, Replied, Answers, IsAnswerTo
    <3>2. n \in {written[i].raw.result, written[i].raw.error}
      BY <2>1 DEF Answers, IsAnswerTo
    <3>3. k = n
      BY <3>1, <3>2 DEF ReplyTo, Missing
    <3>4. QED
      BY <3>1, <3>3 DEF ReplyTo
  <2>2. being = IF Request(n) \in handling THEN {Request(n)} ELSE {}
    BY DEF JInv, Handled, Request
  <2>3. ASSUME IsRequest(sent[n])
        PROVE  Cardinality(Answers(n)) + Cardinality(being) = 1
    <3>1. CASE Request(n) \in handling
      <4>1. Answers(n) = {} /\ being = {Request(n)}
        BY <2>2, <2>3, <3>1 DEF JInv, Answered
      <4>2. Cardinality(Answers(n)) = 0 /\ Cardinality(being) = 1
        BY <4>1, FS_EmptySet, FS_Singleton, Zenon
      <4>3. QED
        BY <4>2
    <3>2. CASE Request(n) \notin handling
      <4>1. PICK i : Answers(n) = {i}
        BY <2>3, <3>2 DEF JInv, Answered
      <4>2. being = {}
        BY <2>2, <3>2
      <4>3. Cardinality(Answers(n)) = 1 /\ Cardinality(being) = 0
        BY <4>1, <4>2, FS_EmptySet, FS_Singleton, Zenon
      <4>4. QED
        BY <4>3
    <3>3. QED
      BY <3>1, <3>2
  <2>4. ASSUME ~IsRequest(sent[n]) PROVE being = {}
    BY <2>2, <2>4 DEF JInv, Handled, Request
  <2>5. QED
    BY <2>1, <2>3, <2>4 DEF ReplyTo
<1>2. QED
  BY <1>1, Inductive, PTL
=============================================================================
