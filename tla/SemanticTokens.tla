--------------------------- MODULE SemanticTokens ---------------------------
(***************************************************************************)
(* SemanticTokensBuilder (src/include/clsp/protocol/SemanticTokens.hpp)    *)
(* and the client that decodes what it builds.  A token's type and         *)
(* modifiers are copied, so one number stands for both.                    *)
(***************************************************************************)
EXTENDS Integers, SequencesExt

CONSTANTS TokenLines, StartChars, Lengths, TokenTypes,
          Modulus,     \* 2^32: deltas are uint32_t
          MaxPushes,   \* bound: calls of push
          MaxBuilds    \* bound: calls of build

\* Places are uint32_t too.
ASSUME TokenAssumption ==
  /\ Modulus \in Nat \ {0}
  /\ TokenLines \subseteq 0 .. Modulus - 1 /\ StartChars \subseteq 0 .. Modulus - 1

Token == [line : TokenLines, startChar : StartChars, length : Lengths, type : TokenTypes]

VARIABLES
  tokens,  \* tokens_
  data,    \* the data of the last build
  pushes, builds,  \* how many calls there were
  asked,   \* history: the tokens pushed since the last clear, in order
  told     \* history: the same at the last build

tokenVars == <<tokens, data, pushes, builds, asked, told>>

TokenInit ==
  /\ tokens = <<>> /\ data = <<>>
  /\ pushes = 0 /\ builds = 0
  /\ asked = <<>> /\ told = <<>>

-----------------------------------------------------------------------------
(* Mutated forms: mistakes this code could have had. *)

\* Subtracts the previous character on a new line too.
DeltaCharAlways(prev, t) == (t.startChar - prev.startChar) % Modulus

-----------------------------------------------------------------------------
(* The code *)

Push(token) ==
  /\ pushes < MaxPushes
  /\ pushes' = pushes + 1
  /\ asked' = Append(asked, token)
  /\ tokens' = IF token.length = 0 THEN tokens ELSE Append(tokens, token)
  /\ UNCHANGED <<data, builds, told>>

Clear ==
  /\ tokens # <<>>
  /\ tokens' = <<>> /\ asked' = <<>>
  /\ UNCHANGED <<data, pushes, builds, told>>

\* The comparison build sorts with.
TokenBefore(a, b) == a.line < b.line \/ (a.line = b.line /\ a.startChar < b.startChar)

\* std::sort leaves tokens at the same place in any order.
Sortings(seq) ==
  {[i \in DOMAIN seq |-> seq[order[i]]] :
     order \in {f \in [DOMAIN seq -> DOMAIN seq] :
                  /\ \A i, j \in DOMAIN seq : i < j =>
                       f[i] # f[j] /\ ~TokenBefore(seq[f[j]], seq[f[i]])}}

DeltaLine(prev, t) == (t.line - prev.line) % Modulus
DeltaChar(prev, t) ==
  IF DeltaLine(prev, t) # 0 THEN t.startChar ELSE (t.startChar - prev.startChar) % Modulus

\* The loop of build; prevLine and prevChar are 0 before the first token.
Deltas(seq) ==
  [i \in DOMAIN seq |->
     LET prev == IF i = 1 THEN [line |-> 0, startChar |-> 0] ELSE seq[i - 1]
     IN  [seq[i] EXCEPT !.line = DeltaLine(prev, seq[i]),
                        !.startChar = DeltaChar(prev, seq[i])]]

\* The tokens stay in the builder, sorted.
Build ==
  /\ builds < MaxBuilds
  /\ builds' = builds + 1
  /\ \E sorted \in Sortings(tokens) : tokens' = sorted /\ data' = Deltas(sorted)
  /\ told' = asked
  /\ UNCHANGED <<pushes, asked>>

TokenNext ==
  \/ \E token \in Token : Push(token)
  \/ Clear
  \/ Build

TokenSpec == TokenInit /\ [][TokenNext]_tokenVars

-----------------------------------------------------------------------------
(* Properties *)

\* External: a client's running sums.
Decode(seq) ==
  LET decoded[i \in DOMAIN seq] ==
        LET last == IF i = 1 THEN [line |-> 0, startChar |-> 0] ELSE decoded[i - 1]
        IN  [seq[i] EXCEPT !.line = last.line + @,
                           !.startChar = IF seq[i].line = 0 THEN last.startChar + @ ELSE @]
  IN  decoded

Count(seq, t) == Cardinality({i \in DOMAIN seq : seq[i] = t})

(***************************************************************************)
(* The client decodes the tokens that were pushed, each as often as it was *)
(* pushed, those of length 0 left out, in any order of the calls and in    *)
(* the order of the text: also from a builder that was built before,       *)
(* cleared or used on.                                                     *)
(***************************************************************************)
ClientDecodesPushed ==
  LET seen == Decode(data)
  IN  /\ \A t \in Range(seen) \cup Range(told) :
           Count(seen, t) = IF t.length = 0 THEN 0 ELSE Count(told, t)
      /\ \A i, j \in DOMAIN seen : i < j =>
           \/ seen[i].line < seen[j].line
           \/ seen[i].line = seen[j].line /\ seen[i].startChar <= seen[j].startChar
=============================================================================
