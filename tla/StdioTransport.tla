--------------------------- MODULE StdioTransport ---------------------------
(***************************************************************************)
(* src/src/StdioTransport.cpp: Content-Length framing over a byte stream,  *)
(* from the threads that call ILanguageServer::sendFrame to the loop that  *)
(* calls readMessage.  In the server one end of each stream belongs to the *)
(* client, which frames its messages in the same way; both ends are        *)
(* checked together here, on one stream.                                   *)
(*                                                                         *)
(* A byte is what readHeaders distinguishes: a carriage return, a line     *)
(* feed, a digit or something else.  The text "Content-Length: " counts as *)
(* one byte.                                                               *)
(***************************************************************************)
EXTENDS Integers, SequencesExt, FiniteSetsExt

CONSTANTS
  Writers,    \* threads that send
  NoWriter,
  Bodies,     \* the messages they send
  Fields,     \* other header fields a client may send before Content-Length
  Malformed,  \* header blocks a client may send that give no usable length
  MaxFrames,  \* bound: messages sent
  MaxHeader,  \* bound: the length headers reaches after the end of the input
  IntBits     \* width of int32_t

Digits == <<"0", "1", "2", "3", "4", "5", "6", "7", "8", "9">>
Bytes == Range(Digits) \cup {"key", "cr", "lf", "other"}
Blank == <<"cr", "lf", "cr", "lf">>

-----------------------------------------------------------------------------
(* Numbers and header blocks *)

\* operator<< of a size
Decimal[n \in Nat] ==
  IF n < 10 THEN <<Digits[n + 1]>>
  ELSE Append(Decimal[n \div 10], Digits[(n % 10) + 1])

ValueOf(digit) == CHOOSE v \in 0 .. 9 : Digits[v + 1] = digit

\* The conversion to int32_t keeps the low bits.
Wrap(n) == ((n + 2 ^ (IntBits - 1)) % 2 ^ IntBits) - 2 ^ (IntBits - 1)

\* The loop over the digits.
ToInt[digits \in Seq(Range(Digits))] ==
  IF digits = <<>> THEN 0
  ELSE Wrap(Wrap(ToInt[Front(digits)] * 10) + ValueOf(Last(digits)))

Positions(bytes, byte) == {i \in 1 .. Len(bytes) : bytes[i] = byte}

\* The bytes between the first key and the next carriage return.
LengthField(block) ==
  LET keys == Positions(block, "key")
      end(key) == Min({i \in Positions(block, "cr") : i > key})
  IN  IF keys = {} THEN <<>>
      ELSE SubSeq(block, Min(keys) + 1, end(Min(keys)) - 1)

IsNumber(value) == value # <<>> /\ Range(value) \subseteq Range(Digits)

\* There is no blank line in the bytes up to position last.
NoBlankWithin(bytes, last) == \A i \in 4 .. last : SubSeq(bytes, i - 3, i) # Blank

ASSUME TransportAssumption ==
  /\ NoWriter \notin Writers
  /\ Bodies \subseteq Seq(Bytes)
  /\ \A field \in Fields :
       /\ field \in Seq(Bytes) /\ "key" \notin Range(field)
       /\ NoBlankWithin(field, Len(field))
  /\ \A block \in Malformed :
       /\ block \in Seq(Bytes)
       /\ NoBlankWithin(block, Len(block) - 1)
       /\ IsNumber(LengthField(block)) => ToInt[LengthField(block)] < 0
  /\ MaxFrames \in Nat /\ MaxHeader \in Nat

\* How many values an int32_t has, and that a body's length is one of them.
ASSUME LengthAssumption ==
  /\ IntBits \in Nat \ {0}
  /\ 2 ^ (IntBits - 1) \in Nat \ {0} /\ 2 ^ IntBits = 2 * 2 ^ (IntBits - 1)
  /\ \A body \in Bodies : Len(body) < 2 ^ (IntBits - 1)

-----------------------------------------------------------------------------
VARIABLES
  sendMutex,  \* the thread that holds ILanguageServer::sendMutex_
  pieces,     \* what each thread still has to insert into out_
  buffered,   \* bytes in out_ that were not flushed
  stream,     \* bytes on their way
  open,       \* the writing end is open
  failed,     \* in_->eof() or in_->fail()
  readerPc,   \* "idle" between calls, "headers", "parse", "body"; "nullopt" or
              \* "thrown" once readMessage has ended the loop that calls it
  headers,    \* headers in readHeaders
  length,     \* contentLength in readMessage
  sent,       \* history: messages sent, but not one that the end cut short
  received    \* history: messages readMessage returned

writerVars == <<sendMutex, pieces, buffered, open, sent>>
readerVars == <<failed, readerPc, headers, length, received>>
vars == <<writerVars, stream, readerVars>>

TypeOK ==
  /\ sendMutex \in Writers \cup {NoWriter}
  /\ pieces \in [Writers -> Seq(Seq(Bytes))]
  /\ buffered \in Seq(Bytes)
  /\ stream \in Seq(Bytes)
  /\ open \in BOOLEAN
  /\ failed \in BOOLEAN
  /\ readerPc \in {"idle", "headers", "parse", "body", "nullopt", "thrown"}
  /\ headers \in Seq(Bytes)
  /\ length \in 0 .. 2 ^ (IntBits - 1) - 1
  /\ sent \in Seq(Bodies)
  /\ received \in Seq(Seq(Bytes))

Init ==
  /\ sendMutex = NoWriter
  /\ pieces = [t \in Writers |-> <<>>]
  /\ buffered = <<>>
  /\ stream = <<>>
  /\ open = TRUE
  /\ failed = FALSE
  /\ readerPc = "idle"
  /\ headers = <<>>
  /\ length = 0
  /\ sent = <<>>
  /\ received = <<>>

-----------------------------------------------------------------------------
(***************************************************************************)
(* Mutated forms.  Each one is a mistake this code could have had; the     *)
(* property it is paired with in PROJECT.json must then fail.              *)
(***************************************************************************)

\* Takes a length below zero for one that can be read.
ParseHeadersUnchecked ==
  /\ readerPc = "parse"
  /\ LET value == LengthField(headers)
     IN  IF IsNumber(value)
           THEN readerPc' = "body" /\ length' = ToInt[value]
           ELSE readerPc' = "nullopt" /\ UNCHANGED length
  /\ UNCHANGED <<failed, headers, received, stream, writerVars>>

\* Sends without taking the lock.
BeginUnlocked(t, frame, body) ==
  /\ open
  /\ Len(sent) < MaxFrames
  /\ pieces[t] = <<>>
  /\ sendMutex' = t
  /\ pieces' = [pieces EXCEPT ![t] = frame]
  /\ sent' = Append(sent, body)
  /\ UNCHANGED <<buffered, stream, open, readerVars>>

\* Stops at the end of a header line instead of a blank one.
EndsWithLine(bytes) ==
  Len(bytes) >= 2 /\ SubSeq(bytes, Len(bytes) - 1, Len(bytes)) = <<"cr", "lf">>

-----------------------------------------------------------------------------
(* The writing end: sendFrame and sendMessage *)

\* The four insertions of sendMessage.
Frame(body) == <<<<"key">>, Decimal[Len(body)], Blank, body>>

\* Takes the lock and starts to send.
Begin(t, frame, body) ==
  /\ open
  /\ Len(sent) < MaxFrames
  /\ sendMutex = NoWriter
  /\ sendMutex' = t
  /\ pieces' = [pieces EXCEPT ![t] = frame]
  /\ sent' = Append(sent, body)
  /\ UNCHANGED <<buffered, stream, open, readerVars>>

\* sendFrame: the lock, and the call of sendMessage.
Send(t, body) == Begin(t, Frame(body), body)

\* External: a client sends more header fields than sendMessage does.
SendWithField(t, field, body) == Begin(t, <<field>> \o Frame(body), body)

\* External: a client ends with a header block that is of no use.  The reader
\* does not get past it; one on an empty stream is enough.
SendMalformed(block) ==
  /\ open
  /\ sendMutex = NoWriter
  /\ stream = <<>>
  /\ stream' = block
  /\ open' = FALSE
  /\ UNCHANGED <<sendMutex, pieces, buffered, sent, readerVars>>

Insert(t) ==
  /\ open
  /\ pieces[t] # <<>>
  /\ buffered' = buffered \o Head(pieces[t])
  /\ pieces' = [pieces EXCEPT ![t] = Tail(@)]
  /\ UNCHANGED <<sendMutex, stream, open, sent, readerVars>>

\* A full buffer is written out without a flush.
Spill ==
  /\ open
  /\ buffered # <<>>
  /\ stream' = stream \o buffered
  /\ buffered' = <<>>
  /\ UNCHANGED <<sendMutex, pieces, open, sent, readerVars>>

\* flush, and the end of sendFrame
Flush(t) ==
  /\ open
  /\ sendMutex = t
  /\ pieces[t] = <<>>
  /\ stream' = stream \o buffered
  /\ buffered' = <<>>
  /\ sendMutex' = NoWriter
  /\ UNCHANGED <<pieces, open, sent, readerVars>>

\* A frame lacks bytes that were not inserted or not written out.
CutShort ==
  \/ buffered # <<>>
  \/ \E t \in Writers : \E i \in 1 .. Len(pieces[t]) : pieces[t][i] # <<>>

\* The writing process closes its end or dies, wherever it is.
Close ==
  /\ open
  /\ open' = FALSE
  /\ sent' = IF CutShort THEN Front(sent) ELSE sent
  /\ UNCHANGED <<sendMutex, pieces, buffered, stream, readerVars>>

-----------------------------------------------------------------------------
(* The reading end: readMessage and readHeaders *)

EndsWithBlank(bytes) ==
  Len(bytes) >= 4 /\ SubSeq(bytes, Len(bytes) - 3, Len(bytes)) = Blank

\* What follows an iteration of the loop in readHeaders.
AfterByte == readerPc' = IF EndsWithBlank(headers') THEN "parse" ELSE "headers"

\* The test at the start of readHeaders.
CallRead ==
  /\ readerPc = "idle"
  /\ readerPc' = IF failed THEN "nullopt" ELSE "headers"
  /\ headers' = <<>>
  /\ UNCHANGED <<failed, length, received, stream, writerVars>>

ReadHeaderByte ==
  /\ readerPc = "headers"
  /\ stream # <<>>
  /\ headers' = Append(headers, Head(stream))
  /\ stream' = Tail(stream)
  /\ AfterByte
  /\ UNCHANGED <<failed, length, received, writerVars>>

(***************************************************************************)
(* At the end of the input read leaves c alone, and the loop appends it    *)
(* all the same: the byte before, or whatever c held if there was none.    *)
(* MaxHeader only keeps the states finite: the loop goes on.               *)
(***************************************************************************)
ReadHeaderAtEnd ==
  /\ readerPc = "headers"
  /\ stream = <<>> /\ ~open
  /\ failed' = TRUE
  /\ \E c \in IF headers = <<>> THEN Bytes ELSE {Last(headers)} :
       headers' = IF Len(headers) < MaxHeader THEN Append(headers, c) ELSE headers
  /\ AfterByte
  /\ UNCHANGED <<stream, length, received, writerVars>>

\* The rest of readHeaders: no number, a number, or one below zero, for which
\* the string in readMessage cannot be made.
ParseHeaders ==
  /\ readerPc = "parse"
  /\ LET value == LengthField(headers)
     IN  \/ /\ ~IsNumber(value)
            /\ readerPc' = "nullopt"
            /\ UNCHANGED length
         \/ /\ IsNumber(value)
            /\ IF ToInt[value] < 0
                 THEN readerPc' = "thrown" /\ UNCHANGED length
                 ELSE readerPc' = "body" /\ length' = ToInt[value]
  /\ UNCHANGED <<failed, headers, received, stream, writerVars>>

\* read waits for all bytes of the body or for the end of the input.
ReadBody ==
  /\ readerPc = "body"
  /\ Len(stream) >= length
  /\ received' = Append(received, SubSeq(stream, 1, length))
  /\ stream' = SubSeq(stream, length + 1, Len(stream))
  /\ readerPc' = "idle"
  /\ UNCHANGED <<failed, headers, length, writerVars>>

ReadBodyAtEnd ==
  /\ readerPc = "body"
  /\ Len(stream) < length /\ ~open
  /\ stream' = <<>>
  /\ failed' = TRUE
  /\ readerPc' = "nullopt"
  /\ UNCHANGED <<headers, length, received, writerVars>>

-----------------------------------------------------------------------------
Read ==
  \/ CallRead
  \/ ReadHeaderByte
  \/ ReadHeaderAtEnd
  \/ ParseHeaders
  \/ ReadBody
  \/ ReadBodyAtEnd

Next ==
  \/ \E t \in Writers : Insert(t) \/ Flush(t)
  \/ \E t \in Writers, body \in Bodies :
       Send(t, body) \/ \E field \in Fields : SendWithField(t, field, body)
  \/ \E block \in Malformed : SendMalformed(block)
  \/ Spill
  \/ Close
  \/ Read

Spec == Init /\ [][Next]_vars

\* A thread in sendFrame goes on, and so does the thread in readMessage.
FairSpec ==
  /\ Spec
  /\ WF_vars(Read)
  /\ \A t \in Writers : WF_vars(Insert(t) \/ Flush(t))

-----------------------------------------------------------------------------
(* Properties *)

(***************************************************************************)
(* However the threads interleave and whatever the bodies contain, the     *)
(* loop that calls readMessage goes on: it stops only at the end of the    *)
(* input, with nothing left to read, or at a header block that came in     *)
(* without a usable length.                                                *)
(***************************************************************************)
GivesUpForCause ==
  readerPc \in {"nullopt", "thrown"} =>
    (~open /\ stream = <<>>) \/ headers \in Malformed

(***************************************************************************)
(* Messages of several threads arrive whole, in order, each one once, and  *)
(* all of them, but for the one the end of the stream cut short.           *)
(***************************************************************************)
Channel == INSTANCE MessageChannel WITH Messages <- Bodies

ImplementsChannel == Channel!Spec

(***************************************************************************)
(* ITransport.hpp:16-17: readMessage blocks until a complete message is    *)
(* available and returns nothing at the end of the input.                  *)
(***************************************************************************)
EndOfInputReturns == ~open ~> readerPc = "nullopt"
=============================================================================
