---------------------------- MODULE DocumentSync ----------------------------
(***************************************************************************)
(* Documents from the client to their readers: the notifications of a      *)
(* client, syncExecutor_ that handles them (src/src/ILanguageServer.cpp,   *)
(* registerSyncHandlers and the default hooks), the DocumentStore they     *)
(* change, and handlers on worker threads that read it.                    *)
(*                                                                         *)
(* syncExecutor_ is an instance of TaskQueue; a task is the number of its  *)
(* notification in log.  Versions are these numbers too: they grow.        *)
(***************************************************************************)
EXTENDS Utf8Text

CONSTANTS
  Uris,
  SyncWorker,        \* the thread of syncExecutor_
  Readers,           \* threads with handlers that call IDocumentStore::get
  Announced,         \* what onInitialize may put in positionEncoding, or NoEncoding
  Texts,             \* texts a client opens, as characters
  Inserts,           \* texts it inserts
  Positions,         \* positions it sends
  MaxNotifications,  \* bound: notifications
  MaxChanges         \* bound: changes in one notification

Nums == 1 .. MaxNotifications
None == 0
NoEncoding == "none"
Closed == [version |-> None, text |-> <<>>, node |-> None]
Whole == <<>>   \* the range of a change without one

Ranges == {range \in Positions \X Positions : Before(range[1], range[2])}
Changes == [range : Ranges \cup {Whole}, text : Inserts]
ChangeLists == UNION {[1 .. k -> Changes] : k \in 1 .. MaxChanges}

Notifications ==
  [op : {"open", "change", "close", "save"}, uri : Uris, text : Texts \cup {<<>>},
   changes : ChangeLists \cup {<<>>}]

ASSUME SyncAssumption ==
  /\ Announced \subseteq STRING
  /\ Texts \cup Inserts \subseteq Seq(Characters)
  /\ Positions \subseteq [line : Nat, character : Nat]
  /\ MaxNotifications \in Nat /\ MaxChanges \in Nat \ {0}

VARIABLES
  encoding,   \* encoding_
  agreed,     \* the encoding the client counts in, or NoEncoding before initialize
  documents,  \* documents_; node tells which insertion made the entry
  mu,         \* mu_ is held exclusively
  queue, running, phase,   \* syncExecutor_
  syncPc,     \* its thread: "idle", "begin", "writing" (mu_ held), "done"
  next,       \* the loop over changes in applyChange
  pointer,    \* what get returned to each reader, while it is used
  log,        \* notifications read
  mirror,     \* the client's documents before and after each notification
  saved       \* history: what onDocumentSaved was called with

storeVars == <<encoding, documents, mu>>
syncVars == <<syncPc, next>>
queueVars == <<queue, running, phase>>
clientVars == <<agreed, log, mirror>>
vars == <<storeVars, syncVars, queueVars, clientVars, pointer, saved>>

TypeOK ==
  /\ encoding \in Encodings
  /\ agreed \in Encodings \cup {NoEncoding}
  /\ \A uri \in Uris :
       /\ documents[uri].version \in Nums \cup {None}
       /\ documents[uri].text \in Seq(Bytes)
       /\ documents[uri].node \in Nums \cup {None}
  /\ mu \in BOOLEAN
  /\ queue \in Seq(Nums)
  /\ running \in [{SyncWorker} -> Nums \cup {None}]
  /\ phase = "open"
  /\ syncPc \in {"idle", "begin", "writing", "done"}
  /\ next \in 1 .. MaxChanges + 1
  /\ pointer \in [Readers -> [uri : Uris, node : Nums, since : Nums] \cup {Closed}]
  /\ Len(log) <= MaxNotifications
  /\ \A n \in 1 .. Len(log) : log[n] \in Notifications
  /\ Len(mirror) = Len(log) + 1
  /\ saved \in Seq([num : Nums, text : Seq(Bytes)])

SyncExecutor == INSTANCE TaskQueue WITH
  Tasks <- Nums, Slots <- {SyncWorker}, Idle <- None

Init ==
  /\ encoding = "utf-16"
  /\ agreed = NoEncoding
  /\ documents = [uri \in Uris |-> Closed]
  /\ mu = FALSE
  /\ SyncExecutor!Init
  /\ syncPc = "idle"
  /\ next = 1
  /\ pointer = [r \in Readers |-> Closed]
  /\ log = <<>>
  /\ mirror = <<[uri \in Uris |-> [version |-> None, text |-> <<>>]]>>
  /\ saved = <<>>

-----------------------------------------------------------------------------
(***************************************************************************)
(* Mutated forms.  Each one is a mistake this code could have had; the     *)
(* property it is paired with in PROJECT.json must then fail.              *)
(***************************************************************************)

\* Keeps the characters of the JSON string instead of their UTF-8 bytes.
StoreUnencoded(n) ==
  documents' = [documents EXCEPT
    ![log[n].uri] = [version |-> n, text |-> log[n].text, node |-> n]]

\* Erases the entry of a document that is opened again, and makes a new one.
StoreReinserted(n) ==
  documents' = [documents EXCEPT
    ![log[n].uri] = [version |-> n, text |-> Encode(log[n].text), node |-> n]]

\* Applies the changes from the last to the first.
ChangesReversed(n) == Reverse(log[n].changes)

\* An exception leaves mu_ locked.
UnwindLocked ==
  /\ syncPc' = "done"
  /\ UNCHANGED mu

\* Takes the newest notification first.
StartNewest ==
  /\ queue # <<>> /\ running[SyncWorker] = None
  /\ running' = [running EXCEPT ![SyncWorker] = Last(queue)]
  /\ queue' = Front(queue)
  /\ syncPc' = "begin"
  /\ UNCHANGED <<phase, next, storeVars, clientVars, pointer, saved>>

-----------------------------------------------------------------------------
(* The client and the read thread *)

\* positionEncodingFromString: a name it does not know counts for none.
Known(announced) == announced \in Encodings

\* initialize is handled and its result read; a client that is told nothing it
\* knows counts in UTF-16.
Initialize(announced) ==
  /\ agreed = NoEncoding
  /\ encoding' = IF Known(announced) THEN announced ELSE encoding
  /\ agreed' = IF announced \in Encodings THEN announced ELSE "utf-16"
  /\ UNCHANGED <<documents, mu, syncVars, queueVars, log, mirror, pointer, saved>>

Num == Len(log) + 1
Mine(uri) == mirror[Num][uri]
IsOpen(uri) == Mine(uri).version # None

\* A document is not open, and the client sends something about it all the same.
Stray(op, uri) == op \in {"change", "close", "save"} /\ ~IsOpen(uri)

\* External: one change of the client's own text.
Edit(chars, change) ==
  IF change.range = Whole THEN change.text
  ELSE ReplaceChars(chars, PlaceOf(chars, change.range[1], agreed),
                    PlaceOf(chars, change.range[2], agreed), change.text)

\* The text after the first k changes.
Edited(chars, changes, k) ==
  LET edited[i \in 0 .. k] == IF i = 0 THEN chars ELSE Edit(edited[i - 1], changes[i])
  IN  edited[k]

EditAll(chars, changes) == Edited(chars, changes, Len(changes))

\* External: each range is about the text that the changes before it left.
Legal(chars, changes) ==
  \A k \in 1 .. Len(changes) :
    changes[k].range # Whole =>
      LET before == Edited(chars, changes, k - 1)
      IN  /\ IsPosition(before, changes[k].range[1], agreed)
          /\ IsPosition(before, changes[k].range[2], agreed)

\* The client sends a notification and the read thread hands it to the executor.
Notify(op, uri, text, changes) ==
  /\ log' = Append(log, [op |-> op, uri |-> uri, text |-> text, changes |-> changes])
  /\ SyncExecutor!Submit(Num)
  /\ UNCHANGED <<agreed, storeVars, syncVars, pointer, saved>>

Becomes(uri, version, text) ==
  mirror' = Append(mirror,
    [mirror[Num] EXCEPT ![uri] = [version |-> version, text |-> text]])

\* Also of a document that is open.
DidOpen(uri, text) ==
  /\ Notify("open", uri, text, <<>>)
  /\ Becomes(uri, Num, text)

DidChange(uri, changes) ==
  /\ IsOpen(uri)
  /\ Legal(Mine(uri).text, changes)
  /\ Notify("change", uri, <<>>, changes)
  /\ Becomes(uri, Num, EditAll(Mine(uri).text, changes))

DidClose(uri) ==
  /\ IsOpen(uri)
  /\ Notify("close", uri, <<>>, <<>>)
  /\ Becomes(uri, None, <<>>)

DidSave(uri) ==
  /\ IsOpen(uri)
  /\ Notify("save", uri, <<>>, <<>>)
  /\ mirror' = Append(mirror, mirror[Num])

\* About a document that is not open: nothing becomes of it.
DidStray(op, uri) ==
  /\ Stray(op, uri)
  /\ \E text \in Inserts :
       Notify(op, uri, <<>>,
              IF op = "change" THEN <<[range |-> Whole, text |-> text]>> ELSE <<>>)
  /\ mirror' = Append(mirror, mirror[Num])

-----------------------------------------------------------------------------
(* The serial executor: the handlers, the hooks and the store *)

Current == running[SyncWorker]
Doc(n) == documents[log[n].uri]

\* How many notifications have had their effect.
Handled ==
  Len(log) - Len(queue) - IF Current # None /\ syncPc # "done" THEN 1 ELSE 0

SyncStart ==
  /\ SyncExecutor!Start(SyncWorker)
  /\ syncPc' = "begin"
  /\ UNCHANGED <<next, storeVars, clientVars, pointer, saved>>

SyncFinish ==
  /\ syncPc = "done"
  /\ SyncExecutor!Finish(SyncWorker)
  /\ syncPc' = "idle"
  /\ UNCHANGED <<next, storeVars, clientVars, pointer, saved>>

\* open, applyChange and close take mu_ ...
LockStore ==
  /\ syncPc = "begin"
  /\ log[Current].op \in {"open", "change", "close"}
  /\ ~mu
  /\ mu' = TRUE
  /\ next' = 1
  /\ syncPc' = "writing"
  /\ UNCHANGED <<encoding, documents, queueVars, clientVars, pointer, saved>>

\* ... and release it when they return or throw.  The handler then returns:
\* runHandler swallows what it throws.
Unwind ==
  /\ syncPc' = "done"
  /\ mu' = FALSE

StoreFrame == UNCHANGED <<encoding, queueVars, clientVars, pointer, saved>>

\* insert_or_assign: the entry of a document that is there is kept.
StoreItem(n) ==
  documents' = [documents EXCEPT ![log[n].uri] =
    [version |-> n, text |-> Encode(log[n].text),
     node |-> IF @.node = None THEN n ELSE @.node]]

StoreOpen ==
  /\ syncPc = "writing" /\ log[Current].op = "open"
  /\ StoreItem(Current)
  /\ Unwind
  /\ UNCHANGED next
  /\ StoreFrame

StoreClose ==
  /\ syncPc = "writing" /\ log[Current].op = "close"
  /\ documents' = [documents EXCEPT ![log[Current].uri] = Closed]
  /\ Unwind
  /\ UNCHANGED next
  /\ StoreFrame

Changing == syncPc = "writing" /\ log[Current].op = "change"

\* applyChange of a document that is not there.
ChangeNothing ==
  /\ Changing
  /\ Doc(Current).node = None
  /\ Unwind
  /\ UNCHANGED <<next, documents>>
  /\ StoreFrame

ChangesOf(n) == log[n].changes

Start(change) == PositionToOffset(Doc(Current).text, change.range[1], encoding)
End(change) == PositionToOffset(Doc(Current).text, change.range[2], encoding)

\* The text after a change that can be made.
Changed(text, change) ==
  IF change.range = Whole THEN Encode(change.text)
  ELSE ReplaceBytes(text, Start(change), End(change), Encode(change.text))

OutOfRange(change) ==
  change.range # Whole /\ Start(change) > Len(Doc(Current).text)

ApplyOneChange ==
  /\ Changing
  /\ Doc(Current).node # None
  /\ next <= Len(ChangesOf(Current))
  /\ ~OutOfRange(ChangesOf(Current)[next])
  /\ documents' = [documents EXCEPT
       ![log[Current].uri].text = Changed(@, ChangesOf(Current)[next])]
  /\ next' = next + 1
  /\ UNCHANGED <<mu, syncPc>>
  /\ StoreFrame

\* text.replace throws: the changes before stay made, the version stays old.
ChangeThrows ==
  /\ Changing
  /\ Doc(Current).node # None
  /\ next <= Len(ChangesOf(Current))
  /\ OutOfRange(ChangesOf(Current)[next])
  /\ Unwind
  /\ UNCHANGED <<next, documents>>
  /\ StoreFrame

SetVersion ==
  /\ Changing
  /\ Doc(Current).node # None
  /\ next > Len(ChangesOf(Current))
  /\ documents' = [documents EXCEPT ![log[Current].uri].version = Current]
  /\ Unwind
  /\ UNCHANGED next
  /\ StoreFrame

\* didSave: get, and onDocumentSaved if the document is there.
HandleSave ==
  /\ syncPc = "begin"
  /\ log[Current].op = "save"
  /\ ~mu
  /\ saved' = IF Doc(Current).node = None THEN saved
              ELSE Append(saved, [num |-> Current, text |-> Doc(Current).text])
  /\ syncPc' = "done"
  /\ UNCHANGED <<next, storeVars, queueVars, clientVars, pointer>>

-----------------------------------------------------------------------------
(* Handlers on worker threads *)

\* What contains, uris and size are about.
Contained == {uri \in Uris : documents[uri].node # None}

\* get holds mu_ shared until it returns; the pointer outlives that.  Reads through
\* it are no steps of the model: they take no lock, and race the edits of the text.
Get(r, uri) ==
  /\ pointer[r] = Closed
  /\ ~mu
  /\ uri \in Contained
  /\ pointer' = [pointer EXCEPT ![r] =
       [uri |-> uri, node |-> documents[uri].node, since |-> Handled]]
  /\ UNCHANGED <<storeVars, syncVars, queueVars, clientVars, saved>>

\* The handler has used the pointer for the last time.
Forget(r) ==
  /\ pointer[r] # Closed
  /\ pointer' = [pointer EXCEPT ![r] = Closed]
  /\ UNCHANGED <<storeVars, syncVars, queueVars, clientVars, saved>>

-----------------------------------------------------------------------------
ClientStep ==
  /\ agreed # NoEncoding
  /\ Len(log) < MaxNotifications
  /\ \E uri \in Uris :
       \/ \E text \in Texts : DidOpen(uri, text)
       \/ \E changes \in ChangeLists : DidChange(uri, changes)
       \/ DidClose(uri)
       \/ DidSave(uri)
       \/ \E op \in {"change", "close", "save"} : DidStray(op, uri)

SyncStep ==
  \/ SyncStart
  \/ SyncFinish
  \/ LockStore
  \/ StoreOpen
  \/ StoreClose
  \/ ChangeNothing
  \/ ApplyOneChange
  \/ ChangeThrows
  \/ SetVersion
  \/ HandleSave

ReaderStep == \E r \in Readers : Forget(r) \/ \E uri \in Uris : Get(r, uri)

Next == (\E announced \in Announced : Initialize(announced)) \/ ClientStep \/ SyncStep \/ ReaderStep

Spec == Init /\ [][Next]_vars

\* The executor's thread goes on.
FairSpec == Spec /\ WF_vars(SyncStep)

-----------------------------------------------------------------------------
(* Properties *)

(***************************************************************************)
(* In UTF-8 the store does not take a position past the end of its line    *)
(* for the end of the line, as the client does.                            *)
(***************************************************************************)
Misplaces(n) ==
  /\ agreed = "utf-8" /\ log[n].op = "change"
  /\ \E k \in 1 .. Len(log[n].changes), i \in {1, 2} :
       /\ log[n].changes[k].range # Whole
       /\ InLine(Edited(mirror[n][log[n].uri].text, log[n].changes, k - 1),
                 log[n].changes[k].range[i], agreed) = {}

\* Nor is the text right after that, until the document is opened again.
Astray(uri, n) ==
  \E k \in 1 .. n :
    /\ log[k].uri = uri /\ Misplaces(k)
    /\ \A j \in k + 1 .. n : ~(log[j].uri = uri /\ log[j].op = "open")

(***************************************************************************)
(* Whenever mu_ is free, the store is the client's set of documents, with  *)
(* their texts and versions, after the notifications handled so far: what  *)
(* get finds was at some moment the whole document, and contains and uris  *)
(* list what was open.  Both sides count in the encoding that initialize   *)
(* announced, or in UTF-16 if it announced none that is known.             *)
(***************************************************************************)
StoreFollowsClient ==
  ~mu =>
    \A uri \in Uris : ~Astray(uri, Handled) =>
      LET mine == mirror[Handled + 1][uri]
      IN  /\ documents[uri].version = mine.version
          /\ documents[uri].text = Encode(mine.text)
          /\ uri \in Contained <=> mine.version # None

(***************************************************************************)
(* onDocumentSaved sees the text the client had when it saved, whatever    *)
(* the client has sent since.                                              *)
(***************************************************************************)
SavedIsWhatClientSaved ==
  \A i \in 1 .. Len(saved) :
    LET n == saved[i].num
    IN  ~Astray(log[n].uri, n) => saved[i].text = Encode(mirror[n][log[n].uri].text)

(***************************************************************************)
(* Every notification is handled, also after one that failed.              *)
(***************************************************************************)
NotificationsHandled == \A n \in Nums : Len(log) >= n ~> Handled >= n

(***************************************************************************)
(* A pointer that get returned stays the document's entry through every    *)
(* edit and every didOpen of any document: only a didClose of its own      *)
(* document, handled since get returned, makes it dangle                   *)
(* (DocumentStore.cpp:7-10).                                               *)
(***************************************************************************)
PointersOutliveChanges ==
  \A r \in Readers :
    pointer[r] # Closed /\ documents[pointer[r].uri].node # pointer[r].node =>
      \E n \in pointer[r].since + 1 .. Handled :
        log[n].op = "close" /\ log[n].uri = pointer[r].uri
=============================================================================
