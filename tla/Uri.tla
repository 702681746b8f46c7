-------------------------------- MODULE Uri --------------------------------
(***************************************************************************)
(* Paths as file URIs: src/src/Uri.cpp, over every short path and every    *)
(* way a client may spell it.  A character is its code; std::filesystem    *)
(* is POSIX's, where generic_string and the constructor change nothing.    *)
(***************************************************************************)
EXTENDS Integers, SequencesExt

CONSTANTS Alphabet,  \* codes of the characters of a path
          MaxPath    \* bound: length of a path

ASSUME UriAssumption == Alphabet \subseteq 0 .. 255

VARIABLES path,  \* a path of this program or of a client
          uri    \* how the client spells it after the scheme

uriVars == <<path, uri>>

Slash == 47
Colon == 58
Percent == 37

Digit == 48 .. 57
Alpha == 65 .. 90 \cup 97 .. 122

-----------------------------------------------------------------------------
(* Mutated forms: mistakes this code could have had. *)

\* Leaves the escape character itself alone.
PassesPercent(c) == c \in Digit \cup Alpha \cup {Slash, Colon, Percent, 45, 46, 95, 126}

\* Knows upper-case digits only.
UpperHexValue(c) ==
  CASE c \in Digit -> c - 48
    [] c \in 65 .. 70 -> c - 55
    [] OTHER -> -1

-----------------------------------------------------------------------------
(* The code *)

\* isUnreserved and isPathPassThrough: also the RFC's sub-delims and "@".
IsPathPassThrough(c) ==
  c \in Digit \cup Alpha \cup {Slash, Colon, 64, 45, 46, 95, 126}
          \cup {33, 36, 38, 39, 40, 41, 42, 43, 44, 59, 61}

HexValue(c) ==
  CASE c \in Digit -> c - 48
    [] c \in 97 .. 102 -> c - 87
    [] c \in 65 .. 70 -> c - 55
    [] OTHER -> -1

Hex(v) == IF v < 10 THEN 48 + v ELSE 55 + v

PercentEncode(in) ==
  FlattenSeq([i \in DOMAIN in |->
    IF IsPathPassThrough(in[i]) THEN <<in[i]>>
    ELSE <<Percent, Hex(in[i] \div 16), Hex(in[i] % 16)>>])

\* An escape: a percent sign and two hexadecimal digits.
IsEscape(in, i) ==
  /\ in[i] = Percent /\ i + 2 <= Len(in)
  /\ HexValue(in[i + 1]) >= 0 /\ HexValue(in[i + 2]) >= 0

PercentDecode(in) ==
  LET from[i \in 1 .. Len(in) + 1] ==
        IF i > Len(in) THEN <<>>
        ELSE IF IsEscape(in, i)
             THEN <<16 * HexValue(in[i + 1]) + HexValue(in[i + 2])>> \o from[i + 3]
        ELSE <<in[i]>> \o from[i + 1]
  IN  from[1]

kFileScheme == "file://"

\* A slash is put in front of a path that has none.
FromPath(p) ==
  [scheme |-> kFileScheme,
   rest   |-> (IF p # <<>> /\ p[1] # Slash THEN <<Slash>> ELSE <<>>) \o PercentEncode(p)]

StartsWithDrive(rest) ==
  Len(rest) >= 3 /\ rest[1] = Slash /\ rest[2] \in Alpha /\ rest[3] = Colon

\* The drive letter is looked for before the escapes are replaced.
ToPath(u) ==
  IF u.scheme # kFileScheme THEN <<>>
  ELSE PercentDecode(IF StartsWithDrive(u.rest) THEN Tail(u.rest) ELSE u.rest)

-----------------------------------------------------------------------------
UriInit == path = <<>> /\ uri = <<>>

\* External: a client escapes what it must, and anything else if it likes, with
\* digits of either case.
Escaped(c) ==
  {<<Percent, Hex(c \div 16), Hex(c % 16)>>,
   <<Percent, Hex(c \div 16), IF c % 16 < 10 THEN Hex(c % 16) ELSE 87 + (c % 16)>>}

TypeChar(c) ==
  /\ Len(path) < MaxPath
  /\ path' = Append(path, c)
  /\ \E spelled \in Escaped(c) \cup (IF IsPathPassThrough(c) THEN {<<c>>} ELSE {}) :
       uri' = uri \o spelled

UriNext == \E c \in Alphabet : TypeChar(c)

UriSpec == UriInit /\ [][UriNext]_uriVars

-----------------------------------------------------------------------------
(* Properties *)

IsDrive(p) == Len(p) >= 2 /\ p[1] \in Alpha /\ p[2] = Colon
IsRooted(p) == p # <<>> /\ p[1] = Slash
FileUri(rest) == [scheme |-> kFileScheme, rest |-> rest]

(***************************************************************************)
(* A path that fromPath made a URI of comes back from toPath, whatever     *)
(* percent signs, digits or bytes above 127 are in it.  Two kinds do not:  *)
(* a relative path gets a root, and a POSIX path whose first directory     *)
(* looks like a drive loses its.                                           *)
(***************************************************************************)
PathSurvivesUri ==
  ToPath(FromPath(path)) =
    IF IsRooted(path) /\ IsDrive(Tail(path)) THEN Tail(path)
    ELSE IF path = <<>> \/ IsRooted(path) \/ IsDrive(path) THEN path
    ELSE <<Slash>> \o path

(***************************************************************************)
(* However a client spells the URI of a rooted path or a drive, toPath     *)
(* gives that path: what it escapes, and in which case, does not matter.   *)
(* The exception is Uri.cpp:94-98: the slash before a drive stays if the   *)
(* client escapes the letter or the colon, as in file:///c%3A/x.           *)
(***************************************************************************)
SpellingDoesNotMatter ==
  LET plain == Len(uri) >= 2 /\ uri[1] = path[1] /\ uri[2] = Colon
  IN  /\ IsDrive(path) =>
           ToPath(FileUri(<<Slash>> \o uri)) = IF plain THEN path ELSE <<Slash>> \o path
      /\ IsRooted(path) /\ ~IsDrive(Tail(path)) => ToPath(FileUri(uri)) = path
=============================================================================
