------------------------------ MODULE Utf8Text ------------------------------
(***************************************************************************)
(* Positions in a text kept in UTF-8: positionToOffset and decodeUtf8 of   *)
(* src/src/DocumentStore.cpp, and the edit applyChange makes with them.    *)
(* A byte is what decodeUtf8 tells apart.  Offsets start at 0, so the byte *)
(* at an offset is text[offset + 1].                                       *)
(***************************************************************************)
EXTENDS Integers, SequencesExt, FiniteSetsExt

Bytes == {"ascii", "nl", "lead2", "lead3", "lead4", "cont"}
Encodings == {"utf-8", "utf-16", "utf-32"}

\* What the first byte says of its sequence; a malformed one counts alone.
FullLength == [ascii |-> 1, nl |-> 1, cont |-> 1, lead2 |-> 2, lead3 |-> 3, lead4 |-> 4]
CodeUnits == [ascii |-> 1, nl |-> 1, cont |-> 1, lead2 |-> 1, lead3 |-> 1, lead4 |-> 2]

-----------------------------------------------------------------------------
(* Mutated forms: mistakes this code could have had. *)

\* Does not cut a sequence that the end of the text cuts short.
DecodeUncut(text, offset) ==
  LET b0 == text[offset + 1]
  IN  [byteLen |-> FullLength[b0], units |-> CodeUnits[b0]]

\* Counts a surrogate pair as one code unit.
DecodeOneUnit(text, offset) ==
  [byteLen |-> Min({FullLength[text[offset + 1]], Len(text) - offset}), units |-> 1]

\* Measures the column from the start of the text.
LineIgnored(text, line) == 0

-----------------------------------------------------------------------------
(* The code *)

\* decodeUtf8: the bytes and the UTF-16 code units of the code point at offset.
DecodeUtf8(text, offset) ==
  LET b0 == text[offset + 1]
  IN  [byteLen |-> Min({FullLength[b0], Len(text) - offset}), units |-> CodeUnits[b0]]

\* The first loop of positionToOffset.
LineStart(text, line) ==
  LET from[at \in [offset : 0 .. Len(text), line : 0 .. line]] ==
        IF at.line < line /\ at.offset < Len(text)
        THEN from[[offset |-> at.offset + 1,
                   line |-> at.line + IF text[at.offset + 1] = "nl" THEN 1 ELSE 0]]
        ELSE at.offset
  IN  from[[offset |-> 0, line |-> 0]]

\* The second loop.
Advance(text, start, character, encoding) ==
  LET from[at \in [offset : 0 .. Len(text) + 3, consumed : 0 .. character + 1]] ==
        IF at.consumed < character /\ at.offset < Len(text) /\ text[at.offset + 1] # "nl"
        THEN LET d == DecodeUtf8(text, at.offset)
             IN  from[[offset |-> at.offset + d.byteLen,
                       consumed |-> at.consumed +
                                      IF encoding = "utf-16" THEN d.units ELSE 1]]
        ELSE at.offset
  IN  from[[offset |-> start, consumed |-> 0]]

PositionToOffset(text, position, encoding) ==
  LET start == LineStart(text, position.line)
  IN  IF encoding = "utf-8" THEN start + position.character
      ELSE Advance(text, start, position.character, encoding)

(***************************************************************************)
(* text.replace(start, end - start, new) of a std::string, for a start     *)
(* within the text (it throws out_of_range for any other).  The difference *)
(* is a size_t: below zero it wraps to more bytes than there are.          *)
(***************************************************************************)
ReplaceBytes(text, start, end, new) ==
  LET rest == Len(text) - start
      count == IF end < start THEN rest ELSE Min({end - start, rest})
  IN  SubSeq(text, 1, start) \o new \o SubSeq(text, start + count + 1, Len(text))

-----------------------------------------------------------------------------
(***************************************************************************)
(* External: the same in a client, which keeps a text as characters: one   *)
(* of each length in UTF-8, and the newline.                               *)
(***************************************************************************)
Utf8Of == [a |-> <<"ascii">>, nl |-> <<"nl">>, e |-> <<"lead2", "cont">>,
           w |-> <<"lead3", "cont", "cont">>, g |-> <<"lead4", "cont", "cont", "cont">>]
Characters == DOMAIN Utf8Of

Encode(chars) == FlattenSeq([i \in 1 .. Len(chars) |-> Utf8Of[chars[i]]])

\* The units that a character takes in a line.
Width(char, encoding) ==
  IF encoding = "utf-8" THEN Len(Utf8Of[char])
  ELSE IF encoding = "utf-16" /\ char = "g" THEN 2 ELSE 1

\* The order of positions, which a range keeps.
Before(p, q) == p.line < q.line \/ (p.line = q.line /\ p.character <= q.character)

\* The line and the column of the place after the first i characters.
LineOf(chars, i) == Cardinality({j \in 1 .. i : chars[j] = "nl"})

ColumnOf(chars, i, encoding) ==
  LET column[j \in 0 .. i] ==
        IF j = 0 \/ chars[j] = "nl" THEN 0
        ELSE column[j - 1] + Width(chars[j], encoding)
  IN  column[i]

PlacesOfLine(chars, line) == {i \in 0 .. Len(chars) : LineOf(chars, i) = line}

\* The places of a line end before its newline or at the end of the text.
InLine(chars, position, encoding) ==
  {i \in PlacesOfLine(chars, position.line) :
     ColumnOf(chars, i, encoding) = position.character}

\* The position lies beyond its line, or the line beyond the text.
PastEnd(chars, position, encoding) ==
  \A i \in PlacesOfLine(chars, position.line) :
    ColumnOf(chars, i, encoding) < position.character

\* A client sends a position that is a place in the text, or one past the end.
IsPosition(chars, position, encoding) ==
  InLine(chars, position, encoding) # {} \/ PastEnd(chars, position, encoding)

\* The place a position names: one past the end is the end of its line.
PlaceOf(chars, position, encoding) ==
  IF PlacesOfLine(chars, position.line) = {} THEN Len(chars)
  ELSE Max({i \in PlacesOfLine(chars, position.line) :
              ColumnOf(chars, i, encoding) <= position.character})

ReplaceChars(chars, from, to, new) ==
  SubSeq(chars, 1, from) \o new \o SubSeq(chars, to + 1, Len(chars))
=============================================================================
