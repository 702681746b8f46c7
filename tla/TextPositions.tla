--------------------------- MODULE TextPositions ---------------------------
(***************************************************************************)
(* positionToOffset over every text of some length: the text grows by one  *)
(* character of a client, or by one byte of any kind.                      *)
(***************************************************************************)
EXTENDS Utf8Text

CONSTANTS MaxBytes,      \* bound: length of a text
          MaxLine,       \* bound: lines asked for
          MaxCharacter   \* bound: characters asked for

ASSUME PositionsAssumption == MaxBytes \in Nat /\ MaxLine \in Nat /\ MaxCharacter \in Nat

Asked == [line : 0 .. MaxLine, character : 0 .. MaxCharacter]

VARIABLES text,   \* the text of a stored document
          chars,  \* the same as characters, if it is well formed
          wellFormed

textVars == <<text, chars, wellFormed>>

TextInit == text = <<>> /\ chars = <<>> /\ wellFormed = TRUE

TypeCharacter(char) ==
  /\ wellFormed
  /\ Len(text) + Len(Utf8Of[char]) <= MaxBytes
  /\ text' = text \o Utf8Of[char]
  /\ chars' = Append(chars, char)
  /\ UNCHANGED wellFormed

TypeByte(byte) ==
  /\ Len(text) < MaxBytes
  /\ text' = Append(text, byte)
  /\ chars' = <<>>
  /\ wellFormed' = FALSE

TextNext ==
  \/ \E char \in Characters : TypeCharacter(char)
  \/ \E byte \in Bytes : TypeByte(byte)

TextSpec == TextInit /\ [][TextNext]_textVars

-----------------------------------------------------------------------------
(* Properties *)

Offset(position, encoding) == PositionToOffset(text, position, encoding)

\* The offset of the place a position names.
OffsetOfPlace(position, encoding) ==
  Len(Encode(SubSeq(chars, 1, PlaceOf(chars, position, encoding))))

(***************************************************************************)
(* A position that names a place in a well-formed text is taken for the    *)
(* offset of that place, in every encoding; in UTF-16 and UTF-32 one past  *)
(* the end of its line is taken for the end of the line.                   *)
(***************************************************************************)
OffsetIsPlace ==
  wellFormed =>
    \A position \in Asked, encoding \in Encodings :
      \/ ~IsPosition(chars, position, encoding)
      \/ encoding = "utf-8" /\ InLine(chars, position, encoding) = {}
      \/ Offset(position, encoding) = OffsetOfPlace(position, encoding)

(***************************************************************************)
(* In UTF-16 and UTF-32 no position reaches beyond a text, even one that   *)
(* is not well-formed UTF-8: text.replace never throws.                    *)
(***************************************************************************)
OffsetWithinText ==
  \A position \in Asked, encoding \in Encodings \ {"utf-8"} :
    Offset(position, encoding) <= Len(text)

(***************************************************************************)
(* In UTF-16 and UTF-32 a range in a well-formed text that starts before   *)
(* it ends has an end offset at or after its start offset, even between    *)
(* the halves of a surrogate pair or past a line: end - start never wraps. *)
(***************************************************************************)
OffsetsInOrder ==
  wellFormed =>
    \A p, q \in Asked, encoding \in Encodings \ {"utf-8"} :
      Before(p, q) => Offset(p, encoding) <= Offset(q, encoding)

(***************************************************************************)
(* PositionEncodingTest.cpp:126: "Character offset past line end clamps at *)
(* newline".                                                               *)
(***************************************************************************)
PastEndClamps ==
  wellFormed =>
    \A position \in Asked, encoding \in Encodings :
      PastEnd(chars, position, encoding) =>
        Offset(position, encoding) = OffsetOfPlace(position, encoding)
=============================================================================
