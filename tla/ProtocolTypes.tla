--------------------------- MODULE ProtocolTypes ---------------------------
(***************************************************************************)
(* The structs of src/include/clsp/protocol and their to_json and          *)
(* from_json, one row for each member.  A value is known by its shape: two *)
(* values of one shape are treated alike.  An object has the members that  *)
(* its type asks for, and a string; a broken one, or a broken array, has   *)
(* something in it that cannot be converted.  "unknown" is a string that   *)
(* is not "markdown".  A member without a value, of an object or of a      *)
(* struct (nullopt, or its default), is absent.                            *)
(***************************************************************************)
EXTENDS Integers, FiniteSets

Shapes == {"null", "bool", "int", "string", "unknown", "array", "object",
           "brokenArray", "brokenObject"}
Absent == "absent"

-----------------------------------------------------------------------------
(* External: nlohmann::json's get, a value's shapes for each type *)

\* What it takes; it throws for the others.  A list is read with a for loop,
\* which goes once round for a scalar; an integer may be a Boolean.
Takes ==
  [bool |-> {"bool"}, int |-> {"int", "bool"}, string |-> {"string", "unknown"},
   array |-> {"array"}, object |-> {"object"}, any |-> Shapes,
   list |-> {"array", "int", "bool"}, markup |-> {"string"},
   code |-> {"int", "string", "unknown"}, text |-> {"string", "unknown", "object"}]

\* What it makes.
Made(type, shape) ==
  CASE type = "int" -> "int"
    [] type = "list" -> "array"
    [] OTHER -> shape

\* What a member of the type holds in C++.
Held(type) == {Made(type, shape) : shape \in Takes[type]}

-----------------------------------------------------------------------------
(***************************************************************************)
(* How from_json reads a member: what it skips without a look at its type. *)
(* to_json writes a member that has a value, and blank for one without.    *)
(***************************************************************************)
Row(type, skipped) == [type |-> type, skipped |-> skipped, blank |-> Absent]

\* at(name).get: no value is an exception.
Required(type) == Row(type, {})

\* Mutated form: lacks "&& !is_null()".
OptionalPresent(type) == Row(type, {Absent})

\* contains(name) && !is_null()
Optional(type) == Row(type, {Absent, "null"})

\* contains(name)
IfPresent(type) == Row(type, {Absent})

\* contains(name) and a test of the shape
If(shapes, type) == Row(type, {Absent} \cup (Shapes \ shapes))
IfArray == If({"array", "brokenArray"}, "array")
IfObject == If({"object", "brokenObject"}, "object")

-----------------------------------------------------------------------------
(* The structs, by header *)

\* What either has; f's where both have it.
f ++ g ==
  [x \in DOMAIN f \cup DOMAIN g |-> IF x \in DOMAIN f THEN f[x] ELSE g[x]]

Basic ==
  [Position |-> [line |-> Required("int"), character |-> Required("int")],
   Range    |-> [start |-> Required("object"), end |-> Required("object")]]

TextDocumentItem ==
  [uri |-> Required("string"), languageId |-> Required("string"),
   version |-> Required("int"), text |-> Required("string")]

Documents ==
  [TextDocumentItem |-> TextDocumentItem,
   TextDocumentIdentifier |-> [uri |-> Required("string")],
   VersionedTextDocumentIdentifier |->
     [uri |-> Required("string"), version |-> Required("int")],
   TextDocumentChangeEvent |-> [range |-> Optional("object"), text |-> Required("string")]]

Sync ==
  [DidOpenParams   |-> [textDocument |-> Required("object")],
   DidChangeParams |-> [textDocument |-> Required("object"),
                        contentChanges |-> Required("array")],
   DidCloseParams  |-> [textDocument |-> Required("object")],
   DidSaveParams   |-> [textDocument |-> Required("object"), text |-> Optional("string")]]

\* An unknown kind is PlainText, which is written by its name.
MarkupContent ==
  [kind |-> [If({"string"}, "markup") EXCEPT !.blank = "unknown"],
   value |-> Required("string")]

PlaceParams == [textDocument |-> Required("object"), position |-> Required("object")]

HoverTypes ==
  [MarkupContent |-> MarkupContent,
   HoverParams |-> PlaceParams,
   Hover |-> [contents |-> Required("object"), range |-> Optional("object")]]

Completion ==
  [CompletionContext |-> [triggerKind |-> Required("int"),
                          triggerCharacter |-> Optional("string")],
   CompletionParams |-> PlaceParams ++ [context |-> Optional("object")],
   TextEdit |-> [range |-> Required("object"), newText |-> Required("string")]]

CompletionItem ==
  [label |-> Required("string"), kind |-> Optional("int"), tags |-> IfArray,
   detail |-> Optional("string"), documentation |-> Optional("text"),
   preselect |-> Optional("bool"), sortText |-> Optional("string"),
   filterText |-> Optional("string"), insertText |-> Optional("string"),
   insertTextFormat |-> Optional("int"), textEdit |-> Optional("object"),
   additionalTextEdits |-> IfArray, commitCharacters |-> IfArray,
   data |-> IfPresent("any")]

CompletionList == [isIncomplete |-> Required("bool"), items |-> Required("array")]

Diagnostic ==
  [range |-> Required("object"), message |-> Required("string"),
   severity |-> Optional("int"), code |-> If({"int", "string", "unknown"}, "code"),
   codeDescription |-> Optional("object"), source |-> Optional("string"),
   tags |-> Optional("list"), relatedInformation |-> Optional("array"),
   data |-> Optional("any")]

Diagnostics ==
  [Location |-> [uri |-> Required("string"), range |-> Required("object")],
   DiagnosticRelatedInformation |->
     [location |-> Required("object"), message |-> Required("string")],
   CodeDescription |-> [href |-> Required("string")]]

Publishing ==
  [PublishDiagnosticsParams |->
     [uri |-> Required("string"), diagnostics |-> Required("array"),
      version |-> Optional("int")]]

Tokens ==
  [SemanticTokensLegend |->
     [tokenTypes |-> Required("array"), tokenModifiers |-> Required("array")],
   SemanticTokensParams |-> [textDocument |-> Required("object")],
   SemanticTokensRangeParams |->
     [textDocument |-> Required("object"), range |-> Required("object")],
   SemanticTokens |-> [resultId |-> If({"string", "unknown"}, "string"),
                       data |-> Required("array")]]

\* Only from_json.
Initialize ==
  [InitializeParams |->
     [processId |-> Optional("int"), clientInfo |-> IfPresent("object"),
      rootPath |-> Optional("string"), rootUri |-> Optional("string"),
      initializationOptions |-> Optional("any"), trace |-> Optional("string"),
      capabilities |-> IfObject],
   ClientInfo |-> [name |-> Required("string"), version |-> IfPresent("string")]]

ClientCapabilities ==
  [ClientCapabilities |-> [general |-> IfObject],
   General |-> [positionEncodings |-> IfPresent("array")]]

(***************************************************************************)
(* Only to_json; External: a client takes every member that is not always  *)
(* written for optional, as the protocol has it.                           *)
(***************************************************************************)
ProviderOptions ==
  [CompletionOptions |-> [triggerCharacters |-> Optional("array"),
     allCommitCharacters |-> Optional("array"), resolveProvider |-> Optional("bool")],
   SignatureHelpOptions |-> [triggerCharacters |-> Optional("array"),
     retriggerCharacters |-> Optional("array")],
   CodeActionOptions |-> [codeActionKinds |-> Optional("array"),
     resolveProvider |-> Optional("bool")],
   RenameOptions |-> [prepareProvider |-> Optional("bool")],
   DiagnosticOptions |-> [identifier |-> Optional("string"),
     interFileDependencies |-> Required("bool"), workspaceDiagnostics |-> Required("bool")],
   SemanticTokensOptions |-> [legend |-> Required("object"),
     range |-> Optional("bool"), full |-> Optional("bool")]]

ServerCapabilities ==
  [textDocumentSync |-> Optional("int"), positionEncoding |-> Optional("string")]
    ++ [provider \in {"hoverProvider", "definitionProvider", "referencesProvider",
                      "documentSymbolProvider", "documentFormattingProvider"} |->
          Optional("bool")]
    ++ [provider \in {"completionProvider", "signatureHelpProvider",
                      "codeActionProvider", "renameProvider", "diagnosticProvider",
                      "semanticTokensProvider"} |-> Optional("object")]

InitializeResult ==
  [InitializeResult |-> [capabilities |-> Required("object"),
                         serverInfo |-> Optional("object")],
   ServerInfo |-> [name |-> Required("string"), version |-> Optional("string")]]

BothWays ==
  Basic ++ HoverTypes ++ Completion ++ Diagnostics ++ Publishing ++ Tokens
    ++ [TextDocumentIdentifier |-> Documents.TextDocumentIdentifier,
        CompletionItem |-> CompletionItem, CompletionList |-> CompletionList,
        Diagnostic |-> Diagnostic]
OnlyRead == Documents ++ Sync ++ Initialize ++ ClientCapabilities
OnlyWritten ==
  ProviderOptions ++ InitializeResult ++ [ServerCapabilities |-> ServerCapabilities]

Structs == BothWays ++ OnlyRead ++ OnlyWritten

-----------------------------------------------------------------------------
(* from_json and to_json *)

ReadMember(row, shape) ==
  IF shape \in row.skipped THEN Absent
  ELSE IF shape \in Takes[row.type] THEN Made(row.type, shape)
  ELSE "throws"

Throws(struct, json) == \E m \in DOMAIN struct : ReadMember(struct[m], json[m]) = "throws"

\* An exception leaves nothing of the struct.
FromJson(struct, json) ==
  IF Throws(struct, json) THEN [m \in DOMAIN struct |-> "throws"]
  ELSE [m \in DOMAIN struct |-> ReadMember(struct[m], json[m])]

\* Mutated form: writes null for a member without a value.
ToJsonNull(struct, value) ==
  [m \in DOMAIN struct |-> IF value[m] = Absent THEN "null" ELSE value[m]]

ToJson(struct, value) ==
  [m \in DOMAIN struct |-> IF value[m] = Absent THEN struct[m].blank ELSE value[m]]

-----------------------------------------------------------------------------
CONSTANT MaxOdd   \* bound: members that are not as in the plainest value

VARIABLES type,    \* a struct, or "none" yet
          members  \* a JSON object for it, or a value of it

typeVars == <<type, members>>

TypeInit == type = "none" /\ members = <<>>

\* The plainest value: what is required, and nothing else.
Plain(struct) ==
  [m \in DOMAIN struct |->
    IF struct[m].skipped = {} THEN CHOOSE shape \in Held(struct[m].type) : TRUE ELSE Absent]

Choose ==
  /\ type = "none"
  /\ type' \in DOMAIN Structs
  /\ members' = Plain(Structs[type'])

Odd ==
  LET plain == Plain(Structs[type])
  IN  {m \in DOMAIN members : members[m] # plain[m]}

\* External: the peer writes another object, or the program sets a member.
SetMember ==
  /\ type # "none"
  /\ Cardinality(Odd) < MaxOdd
  /\ \E m \in DOMAIN members \ Odd, shape \in Shapes \cup {Absent} :
       members' = [members EXCEPT ![m] = shape]
  /\ UNCHANGED type

TypeNext == Choose \/ SetMember

TypeSpec == TypeInit /\ [][TypeNext]_typeVars

-----------------------------------------------------------------------------
(* Properties *)

\* members is a value that the struct can have.
IsValue(struct) ==
  \A m \in DOMAIN struct :
    \/ members[m] \in Held(struct[m].type)
    \/ members[m] = Absent /\ struct[m].skipped # {}

(***************************************************************************)
(* What one side writes with to_json the other reads with from_json as the *)
(* same value: whichever members are set, whichever alternative they hold, *)
(* and data of any shape.  Only a Diagnostic's data that is null is lost   *)
(* (Diagnostics.hpp:136).                                                  *)
(***************************************************************************)
WrittenIsRead ==
  type \in DOMAIN (BothWays ++ OnlyWritten) =>
    LET struct == Structs[type]
    IN  IsValue(struct) =>
          FromJson(struct, ToJson(struct, members)) =
            IF type = "Diagnostic" /\ members["data"] = "null"
            THEN [members EXCEPT !["data"] = Absent] ELSE members

\* The members whose presence alone is tested, and what null does to them.
NullIsKept == {<<"CompletionItem", "data">>}
NullThrows == {<<"InitializeParams", "clientInfo">>, <<"ClientInfo", "version">>,
               <<"General", "positionEncodings">>}

(***************************************************************************)
(* A member that may be left out may also be null, and an object then      *)
(* reads the same, whatever else is in it.  The exceptions: a              *)
(* CompletionItem keeps null as its data, and null as the clientInfo or    *)
(* its version, or as the positionEncodings, makes initialize fail.        *)
(***************************************************************************)
NullIsAbsent ==
  type \in DOMAIN (BothWays ++ OnlyRead) =>
    LET struct == Structs[type]
        With(m, shape) == FromJson(struct, [members EXCEPT ![m] = shape])
    IN  \A m \in DOMAIN struct : Absent \in struct[m].skipped =>
          With(m, "null") =
            CASE <<type, m>> \in NullThrows -> [k \in DOMAIN struct |-> "throws"]
              [] <<type, m>> \in NullIsKept ->
                   LET read == With(m, Absent)
                   IN  IF read[m] = "throws" THEN read ELSE [read EXCEPT ![m] = "null"]
              [] OTHER -> With(m, Absent)
=============================================================================
