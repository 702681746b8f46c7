--------------------------- MODULE MCDocumentSync ---------------------------
(* An instance of DocumentSync for TLC. *)
EXTENDS DocumentSync

CONSTANTS u1, u2, r1

MCUris == {u1, u2}
MCReaders == {r1}
\* UTF-32 counts differ from UTF-16 ones in offsets only: TextPositions has them.
MCAnnounced == {"utf-8", "utf-16", "utf-7", NoEncoding}

\* A line with a surrogate pair and a line after it.
MCTexts == {<<"g", "a", "nl", "e">>}
MCInserts == {<<"w", "nl">>}

At(line, character) == [line |-> line, character |-> character]

\* The place after the pair in UTF-8, which in UTF-16 is past the end of the line,
\* and one past the end of any line.
MCPositions == {At(0, 4), At(1, 9)}
=============================================================================
