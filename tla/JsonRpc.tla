------------------------------ MODULE JsonRpc ------------------------------
(***************************************************************************)
(* JSON-RPC messages on the wire: parseMessage and the serializers of      *)
(* src/src/JsonRpc.cpp, between a client and the loop of                   *)
(* ILanguageServer::run.  LanguageServer has the order of events inside    *)
(* the server; this module has the fields of each message, and the two     *)
(* id spaces: the client numbers its requests, the server its own.         *)
(*                                                                         *)
(* A raw message is a JSON text with the fields that parseMessage looks    *)
(* at.  Its params, result or error stands for the whole value: the number *)
(* of the message, or Missing.                                             *)
(***************************************************************************)
EXTENDS Integers, Sequences, FiniteSets

CONSTANTS
  IntBits,       \* the width of an int
  ClientIds,     \* ids a client gives its requests and answers
  Vocabulary,    \* the shapes of message this client writes
  MaxMessages,   \* bound: messages of the client
  MaxRequests,   \* bound: requests of the server
  MaxNotifications   \* bound: its notifications

Missing == 0

IntId(n) == [type |-> "int", value |-> n]
StringId(s) == [type |-> "string", value |-> s]
Absent == [type |-> "absent"]
Null == [type |-> "null"]
OtherId == [type |-> "other"]     \* a fraction, a list, ...

IntMax == 2 ^ (IntBits - 1) - 1
Ints == -(IntMax + 1) .. IntMax

\* Of a JSON text: what parseMessage looks at, and which payloads are there.
Shapes ==
  [text : {"object", "array", "garbled", "overflow"}, jsonrpc : {"2.0", "1.0"},
   method : {"absent", "number", "string"}, id : ClientIds \cup {Absent, Null, OtherId},
   result : BOOLEAN, error : BOOLEAN]

\* LSP: an id is a string or an integer of 32 bits.
ASSUME WireAssumption ==
  /\ IntBits \in Nat \ {0, 1}
  /\ \A id \in ClientIds : \/ id = StringId(id.value)
                           \/ id = IntId(id.value) /\ id.value \in Ints
  /\ Vocabulary \subseteq Shapes
  /\ MaxMessages \in Nat /\ MaxRequests \in Nat /\ MaxNotifications \in Nat

\* Arithmetic, true of every width: what a proof has to know of powers of two.
ASSUME WidthAssumption == IntMax \in Nat \ {0} /\ 2 ^ IntBits = 2 * (IntMax + 1)

VARIABLES
  sent,            \* raw messages of the client, in order
  read,            \* how many of them run() has taken
  handling,        \* requests not answered yet: their ids and numbers
  written,         \* raw messages of the server, each with what it means
  nextOutgoingId,  \* nextOutgoingId_
  pending,         \* pendingRequests_: ids, each with the place in written
  fired            \* callbacks: the place of their request, and the response

vars == <<sent, read, handling, written, nextOutgoingId, pending, fired>>

\* The fields that a serializer does not set are not there.
Empty == [text |-> "object", jsonrpc |-> "2.0", method |-> "absent", id |-> Absent,
          params |-> Missing, result |-> Missing, error |-> Missing]

-----------------------------------------------------------------------------
(***************************************************************************)
(* Mutated forms.  Each one is a mistake this code could have had; the     *)
(* property it is paired with in PROJECT.json must then fail.              *)
(***************************************************************************)

\* Keeps counting past the greatest int.
ToIntUnwrapped(n) == n

\* Reads a string as a number.
ParseIdAsInt(id) == IF id.type = "string" THEN IntId(1) ELSE id

\* Gives a notification the id null.
SerializeNotificationNull(params) ==
  [Empty EXCEPT !.method = "string", !.params = params, !.id = Null]

\* Assigns the callback, over one that waits under the same id.
RegisterOver(id, ask) ==
  pending' = {entry \in pending : entry.id # id} \cup {[id |-> id, ask |-> ask]}

-----------------------------------------------------------------------------
(* Messages *)

Invalid(code) == [kind |-> "invalid", code |-> code]

\* get<int> keeps the low bits of a JSON integer.
ToInt(n) == ((n + IntMax + 1) % (2 ^ IntBits)) - (IntMax + 1)

ParseId(id) == IF id.type = "int" THEN IntId(ToInt(id.value)) ELSE id

Readable(id) == id.type \in {"int", "string"}

ParseResponse(raw) ==
  IF ~Readable(raw.id) THEN Invalid("InvalidRequest")
  ELSE IF raw.error # Missing
       THEN [kind |-> "response", id |-> ParseId(raw.id), isError |-> TRUE,
             payload |-> raw.error]
  ELSE IF raw.result # Missing
       THEN [kind |-> "response", id |-> ParseId(raw.id), isError |-> FALSE,
             payload |-> raw.result]
  ELSE Invalid("InvalidRequest")

\* Only parse_error is caught: a number that no double holds is out_of_range, and
\* the exception leaves run.
ParseMessage(raw) ==
  IF raw.text = "overflow" THEN [kind |-> "throws"]
  ELSE IF raw.text = "garbled" THEN Invalid("ParseError")
  ELSE IF raw.text # "object" \/ raw.jsonrpc # "2.0" THEN Invalid("InvalidRequest")
  ELSE IF raw.method # "string" THEN ParseResponse(raw)
  ELSE IF raw.id = Absent THEN [kind |-> "notification", params |-> raw.params]
  ELSE IF Readable(raw.id)
       THEN [kind |-> "request", id |-> ParseId(raw.id), params |-> raw.params]
  ELSE Invalid("InvalidRequest")

SerializeResult(id, result) == [Empty EXCEPT !.id = id, !.result = result]
SerializeError(id, error) == [Empty EXCEPT !.id = id, !.error = error]
SerializeRequest(n, params) ==
  [Empty EXCEPT !.id = IntId(n), !.method = "string", !.params = params]
SerializeNotification(params) == [Empty EXCEPT !.method = "string", !.params = params]

-----------------------------------------------------------------------------
(* The client *)

Num == Len(sent) + 1

\* External: any text a client may write.
RawMessages ==
  {[text |-> shape.text, jsonrpc |-> shape.jsonrpc, method |-> shape.method,
    id |-> shape.id, params |-> Num,
    result |-> IF shape.result THEN Num ELSE Missing,
    error |-> IF shape.error THEN Num ELSE Missing] : shape \in Vocabulary}

ClientWrites(raw) ==
  /\ Len(sent) < MaxMessages
  /\ sent' = Append(sent, raw)
  /\ UNCHANGED <<read, handling, written, nextOutgoingId, pending, fired>>

-----------------------------------------------------------------------------
(* The server *)

Init ==
  /\ sent = <<>>
  /\ read = 0
  /\ handling = {}
  /\ written = <<>>
  /\ nextOutgoingId = 1
  /\ pending = {}
  /\ fired = <<>>

\* What run() gets from the next message.
Next1 == ParseMessage(sent[read + 1])

\* No exception has ended it.
Running == \A n \in 1 .. read : ParseMessage(sent[n]).kind # "throws"

Take(kind) ==
  /\ Running
  /\ read < Len(sent)
  /\ Next1.kind = kind
  /\ read' = read + 1
  /\ UNCHANGED sent

Write(raw, meaning) == written' = Append(written, [raw |-> raw, means |-> meaning])

\* handleRequest: an answer to it is sent now or later.
TakeRequest ==
  /\ Take("request")
  /\ handling' = handling \cup {[id |-> Next1.id, num |-> read + 1]}
  /\ UNCHANGED <<written, nextOutgoingId, pending, fired>>

TakeNotification ==
  /\ Take("notification")
  /\ UNCHANGED <<handling, written, nextOutgoingId, pending, fired>>

\* The visitor answers a ParsedError by an error without an id.
TakeInvalid ==
  /\ Take("invalid")
  /\ Write(SerializeError(Null, read + 1), Invalid(Next1.code))
  /\ UNCHANGED <<handling, nextOutgoingId, pending, fired>>

\* run is left; what was handed to the workers is still answered, by the destructor
\* at the latest.
TakeThrows ==
  /\ Take("throws")
  /\ UNCHANGED <<handling, written, nextOutgoingId, pending, fired>>

Route(response, entry) ==
  /\ fired' = Append(fired, [ask |-> entry.ask, num |-> read + 1,
                             isError |-> response.isError])
  /\ pending' = pending \ {entry}

\* handleResponse: the callback under an int id, if there is one.
TakeResponse ==
  /\ Take("response")
  /\ \/ \E entry \in pending :
          /\ Next1.id = IntId(entry.id)
          /\ Route(Next1, entry)
     \/ /\ \A entry \in pending : Next1.id # IntId(entry.id)
        /\ UNCHANGED <<pending, fired>>
  /\ UNCHANGED <<handling, written, nextOutgoingId>>

\* A handler returned, threw, or the request was refused.
Answer(request) ==
  /\ \/ Write(SerializeResult(request.id, request.num),
              [kind |-> "response", id |-> request.id, isError |-> FALSE,
               payload |-> request.num])
     \/ Write(SerializeError(request.id, request.num),
              [kind |-> "response", id |-> request.id, isError |-> TRUE,
               payload |-> request.num])
  /\ handling' = handling \ {request}
  /\ UNCHANGED <<sent, read, nextOutgoingId, pending, fired>>

Asks(kind) == {i \in 1 .. Len(written) : written[i].means.kind = kind}

Place == Len(written) + 1

\* emplace leaves an entry that is there.
Register(id, ask) ==
  pending' = IF \E entry \in pending : entry.id = id THEN pending
             ELSE pending \cup {[id |-> id, ask |-> ask]}

SendRequest ==
  /\ Cardinality(Asks("request")) < MaxRequests
  /\ nextOutgoingId' = ToInt(nextOutgoingId + 1)
  /\ Register(nextOutgoingId, Place)
  /\ Write(SerializeRequest(nextOutgoingId, Place),
           [kind |-> "request", id |-> IntId(nextOutgoingId), params |-> Place])
  /\ UNCHANGED <<sent, read, handling, fired>>

SendNotification ==
  /\ Cardinality(Asks("notification")) < MaxNotifications
  /\ Write(SerializeNotification(Place), [kind |-> "notification", params |-> Place])
  /\ UNCHANGED <<sent, read, handling, nextOutgoingId, pending, fired>>

Next ==
  \/ \E raw \in RawMessages : ClientWrites(raw)
  \/ TakeRequest
  \/ TakeNotification
  \/ TakeInvalid
  \/ TakeThrows
  \/ TakeResponse
  \/ \E request \in handling : Answer(request)
  \/ SendRequest
  \/ SendNotification

Spec == Init /\ [][Next]_vars

-----------------------------------------------------------------------------
(* Properties *)

Positions == 1 .. Len(written)
Nums == 1 .. MaxMessages

TypeOK ==
  /\ sent \in Seq([text : {"object", "array", "garbled", "overflow"},
                   jsonrpc : {"2.0", "1.0"}, method : {"absent", "number", "string"},
                   id : ClientIds \cup {Absent, Null, OtherId}, params : Nums \cup {Missing},
                   result : Nums \cup {Missing}, error : Nums \cup {Missing}])
  /\ read \in 0 .. Len(sent)
  /\ handling \subseteq [id : ClientIds, num : 1 .. read]
  /\ nextOutgoingId \in Ints
  /\ pending \subseteq [id : Ints, ask : Positions]
  /\ fired \in Seq([ask : Positions, num : 1 .. read, isError : BOOLEAN])

\* JSON-RPC 2.0's definitions of the three kinds of message.
Spoken(raw) == raw.text = "object" /\ raw.jsonrpc = "2.0"
IsRequest(raw) == Spoken(raw) /\ raw.method = "string" /\ Readable(raw.id)
IsNotification(raw) == Spoken(raw) /\ raw.method = "string" /\ raw.id = Absent
IsResponse(raw) ==
  /\ Spoken(raw) /\ raw.method = "absent" /\ Readable(raw.id)
  /\ (raw.result # Missing) # (raw.error # Missing)

(***************************************************************************)
(* A request of the client is being handled or has one answer, with its    *)
(* own id and either a result or an error, never both; the reply to a text *)
(* with no id in it has the id null; and nothing else is answered.         *)
(***************************************************************************)
IsAnswerTo(i, n) ==
  LET raw == written[i].raw
  IN  raw.method = "absent" /\ n \in {raw.result, raw.error}

AnswersNameTheirRequests ==
  \A n \in 1 .. read :
    LET answers == {i \in Positions : IsAnswerTo(i, n)}
        being == {request \in handling : request.num = n}
    IN  /\ IsRequest(sent[n]) =>
             /\ Cardinality(answers) + Cardinality(being) = 1
             /\ \A i \in answers : /\ written[i].raw.id = sent[n].id
                                   /\ {written[i].raw.result, written[i].raw.error}
                                        = {Missing, n}
        /\ ~IsRequest(sent[n]) =>
             being = {} /\ \A i \in answers : written[i].raw.id = Null
        /\ IsNotification(sent[n]) \/ IsResponse(sent[n]) => answers = {}

Requests == Asks("request")

\* A callback runs at most once, with a response to its own request.
OwnResponse ==
  /\ \A i, j \in 1 .. Len(fired) : fired[i].ask = fired[j].ask => i = j
  /\ \A i \in 1 .. Len(fired) :
       LET response == sent[fired[i].num]
           request == written[fired[i].ask].raw
       IN  /\ ~IsRequest(response)
           /\ request.method = "string" /\ request.id = response.id
           /\ fired[i].isError <=> response.error # Missing

\* The ids of the server have come round from request j to request i.
FullTurn(j, i) ==
  /\ written[j].raw.id = written[i].raw.id
  /\ Cardinality({k \in Requests : j <= k /\ k < i}) >= 2 ^ IntBits

\* A callback waits or has run, unless there was an older one under its id.
NoneLost ==
  \A i \in Requests :
    \/ \E entry \in pending : entry.ask = i
    \/ \E k \in 1 .. Len(fired) : fired[k].ask = i
    \/ \E j \in Requests : FullTurn(j, i)

(***************************************************************************)
(* A callback runs at most once, with a response the client gave to the    *)
(* id of its own request: a request or an answer of the client under the   *)
(* same number in its own id space never reaches it.  And no callback is   *)
(* lost but to an older one under its id, when nextOutgoingId_ has gone    *)
(* through every int: emplace then keeps the older one.                    *)
(***************************************************************************)
CallbackGetsItsResponse == OwnResponse /\ NoneLost

(***************************************************************************)
(* Round trip: a peer with the same parser reads every message of the      *)
(* server as what the server meant.  Replies without an id are left out:   *)
(* parseMessage itself takes them for invalid.                             *)
(***************************************************************************)
PeerUnderstands ==
  \A i \in Positions :
    written[i].means.kind # "invalid" =>
      ParseMessage(written[i].raw) = written[i].means
=============================================================================
