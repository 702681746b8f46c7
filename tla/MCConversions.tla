--------------------------- MODULE MCConversions ---------------------------
(***************************************************************************)
(* An instance of the conversions for TLC: texts and positions, paths and  *)
(* URIs, semantic tokens, protocol structs.  They share nothing, so in a   *)
(* behaviour one of them moves and the others stay at the start.           *)
(***************************************************************************)
EXTENDS TextPositions, Uri, SemanticTokens, ProtocolTypes

VARIABLE subject   \* the one that moves

\* The slash, the colon, the percent sign, a letter that is a digit, a digit,
\* a space and a byte above 127.
MCAlphabet == {47, 58, 37, 67, 50, 32, 233}

MCTokenLines == {0, 2}
MCStartChars == {0, 1}
MCLengths == {0, 1, 2}
MCTokenTypes == {1}

MCInit ==
  /\ subject \in {"text", "path", "tokens", "struct"}
  /\ TextInit /\ UriInit /\ TokenInit /\ TypeInit

MCNext ==
  /\ UNCHANGED subject
  /\ \/ subject = "text" /\ TextNext /\ UNCHANGED <<uriVars, tokenVars, typeVars>>
     \/ subject = "path" /\ UriNext /\ UNCHANGED <<textVars, tokenVars, typeVars>>
     \/ subject = "tokens" /\ TokenNext /\ UNCHANGED <<textVars, uriVars, typeVars>>
     \/ subject = "struct" /\ TypeNext /\ UNCHANGED <<textVars, uriVars, tokenVars>>

MCSpec == MCInit /\ [][MCNext]_<<textVars, uriVars, tokenVars, typeVars, subject>>
=============================================================================
