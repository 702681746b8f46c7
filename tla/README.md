# CLSP in TLA+

TLA+ models of [CLSP](../src/README.md), a C++ library for language servers:
its thread pool, the dispatcher of `ILanguageServer`, the `Content-Length`
transport, the document store, the JSON-RPC layer, and the conversions of
positions, paths, semantic tokens and protocol structs. TLC checks the models on
small instances; TLAPS proves every safety property that a run checks, for every
value of the constants.

    tlc -workers 2 -config MCThreadPool.cfg MCThreadPool.tla
    tlapm ThreadPoolProofs.tla

`PROJECT.json` lists the runs, the mutated definitions that break each
property, the source lines each definition models, the findings, the hazards
and the theorems.

## The system

A server is a subclass of `ILanguageServer`. The thread that calls `run` (the
read thread) reads frames from an `ITransport`, parses them, and classifies
them. What it does not handle itself goes to one of two `ThreadPool`s.

| Component | State | Operations | Correct if |
|---|---|---|---|
| `ThreadPool` | `tasks_`, `stopping_`, `mu_`, `cv_`, the threads | constructor, `submit`, `shutdown`, `workerLoop` | each accepted task runs once, in order of submission; no task waits behind a sleeper; `shutdown` returns, with the queue drained |
| `ILanguageServer` | `state_`, `shutdownRequested_`, `cancellationTokens_`, `pendingRequests_`, `nextOutgoingId_`, two pools, `sendMutex_` | `run`, `handleRequest`, `handleNotification`, `handleResponse`, lifecycle, `$/cancelRequest`, `sendRequest`, the destructor | one answer to each request; a cancellation reaches the request it is for; a callback runs once; notifications about documents keep their order; `run` returns, or throws and the destructor ends, and only after its work |
| `StdioTransport` | two streams | `readMessage`, `sendMessage` | messages arrive whole and in order, whatever they contain |
| `DocumentStore` | `documents_`, `encoding_`, `mu_` | `setPositionEncoding`, `open`, `applyChange`, `close`, `get`, `contains`, `size`, `uris` | the store holds the client's text after the notifications handled so far, in the position encoding both sides agreed on |
| `JsonRpc` | none | `parseMessage`, the serializers | an answer bears the id of its request; both sides agree what a message is |
| `PositionEncoding` | none | names of the encodings | a name that is none of them does not change the encoding |
| `Uri` | none | percent encoding, `fromPath`, `toPath` | a path survives its URI, and a client's spelling of one does not matter |
| `SemanticTokensBuilder` | `tokens_` | `push`, `clear`, `build` | a client decodes what was pushed, in any order of the calls |
| protocol types | none | `to_json`, `from_json` of each struct | what is written is read as the same value; null counts as absent |
| build and packaging | none | | |

How they interact:

    client --bytes--> StdioTransport --text--> JsonRpc --message--> run (read thread)
       run --requests, notifications, responses--> workerPool_   (n threads)
       run --didOpen/Change/Close/Save----------> syncExecutor_ (1 thread) --> DocumentStore
       every thread --sendFrame under sendMutex_--> StdioTransport --bytes--> client
       handlers on worker threads --get--> DocumentStore

What is hard in it: both notifications of the condition variable happen after
the mutex is released; a response leaves before the request's token is erased;
the answer to a server request can come before `sendRequest` has returned;
handlers read the store while the serial executor changes it; the state changes
before a hook that may throw; an exception can leave `run` in the middle of the
loop, and the destructor then stops the pools in the other order than `run`; a
stream can end anywhere; offsets, lengths, ids and token deltas are computed in
fixed widths; and a conversion is right only together with what the other side
does.

## Modules

| Module | What it is |
|---|---|
| `TaskQueue` | abstract: a FIFO queue, slots that run tasks, and open / closing / joined |
| `ThreadPool` | detailed: `ThreadPool.cpp`, one step per critical section of `mu_` or statement outside it |
| `DataLemmas` | lemmas on queues, induction, recursion and sequences put end to end, for the proofs of all the others |
| `ThreadPoolProofs` | the theorems about `ThreadPool` |
| `RpcContract` | abstract: every request read is answered once, and the workers are not joined before |
| `LanguageServer` | detailed: `ILanguageServer.cpp`, over two instances of `TaskQueue` |
| `LanguageServerProofs` | the theorems about `LanguageServer`: one answer per request and the contract, tokens and cancellation; the session, the order of documents, routing and the end |
| `MessageChannel` | abstract: a FIFO channel that may lose its last message when it ends |
| `StdioTransport` | detailed: framing byte by byte, and `sendMutex_` |
| `StdioTransportProofs` | the theorems about it |
| `Utf8Text` | `positionToOffset`, `decodeUtf8`, the replacement of a range, and the same as a client does it |
| `TextPositions`, `TextPositionsProofs` | `Utf8Text` over all texts; the theorems about both |
| `DocumentSync` | client, negotiation of the encoding, `syncExecutor_` (a `TaskQueue`), `DocumentStore`, and handlers that read it |
| `DocumentSyncProofs` | the theorems about it: the text of the store, what is saved, the pointers of `get` |
| `JsonRpc`, `JsonRpcProofs` | messages on the wire, both id spaces; the theorems about them |
| `Uri` | `percentEncode`, `percentDecode`, `fromPath`, `toPath`, and a client that spells URIs |
| `SemanticTokens` | `SemanticTokensBuilder`, and a client that decodes |
| `ProtocolTypes` | every struct of `protocol/`, member by member, and its `to_json` and `from_json` |
| `ConversionsProofs` | the theorems about `Uri`, `SemanticTokens` and `ProtocolTypes` |
| `MCConversions` | `TextPositions`, `Uri`, `SemanticTokens` and `ProtocolTypes` side by side: they share nothing, so in a behaviour one of them moves |
| `MC*` | instances for TLC |

Each detailed module has a section of *mutated forms*: versions of a definition
with a plausible mistake in it. They are not part of the specification; each
shows that some property can fail.

### ThreadPool

`tasks`, `stopping` are the members. `workerPc` says where each worker is in
`workerLoop`: about to lock and test the predicate (`top`), in `cv_.wait`
(`parked`), in the task (`running`), or returned (`exited`). `callerPc` has the
statements of `submit` and `shutdown` that follow the lock: `notify_one`,
`notify_all`, `join`. A condition variable may wake a waiter for no reason
(`SpuriousWake`). `accepted`, `started` and `finished` are history. Tasks do not
use the pool that runs them, which is how the server uses it.

### LanguageServer

A message is its number in `log`. `ReadMessage` is the body of the read loop for
one message; each disjunct is one path through `handleRequest`,
`handleNotification` or `handleResponse`, in the order the code tests. Handlers
that the code runs on the read thread are part of that step, but for
`onInitialized`, which may call `sendRequest` and has a step of its own for
each part (`readerPc = "hook"`). A worker that has a request looks at its token
(`AnswerCancelled`, `EnterHandler`), ends the handler with a response
(`HandlerEnds`), and erases the token by id (`EraseToken`), in separate steps.
`sendRequest` has three: allocate the id, register the callback, send. The
client (`ClientMaySend`) is external. It does not cancel or answer what it has
not sent or received, but it may send a response twice or for an unknown id.
Four constants restrict it or the user's code where a property depends on it:
`UniqueIds`, `OrderlyClient`, `HooksMayThrow` and `RunMayThrow`. Input that has been sent and
not read is not kept, since nothing but the read thread can tell.

`readerPc` also says how the loop was left. After `exit` or the end of the input
`run` closes and joins `syncExecutor_`, then `workerPool_`, and returns. If
`readMessage` or `onExit` throws (`RunThrows`, `Exit`), `run` is gone with the
exception; its caller catches it and destroys the server, and the destructor
closes and joins `workerPool_` first. `After` holds both orders, so one action
stands for each call of `shutdown`. `Over` is the end of either way.

The pools are instances of `TaskQueue`. That is sound because `ThreadPool`
implements it: the run `pool` checks it with liveness, and the theorem
`Refines` proves the safety part.

### StdioTransport

One stream from the threads that send to the loop that reads. A byte is what
`readHeaders` distinguishes; the key `Content-Length: ` counts as one.
`sendMessage` inserts its four pieces one by one (`Insert`), the buffer may be
written out at any time (`Spill`), and the stream may end at any moment
(`Close`). At the end of the input `in_->read(&c, 1)` leaves `c` unchanged, and
the first time `c` is uninitialised: `ReadHeaderAtEnd` takes any byte then.
`ToInt` computes the length in `IntBits` bits and wraps, as the conversion to
`int32_t` does. A client may put a header field before the length (`Fields`) and
end with a header block that is of no use (`Malformed`): a useful block is what
`sendMessage` writes, after such a field, so no field has the key or a blank
line, and a malformed block has none before its end and no length that can be
used. A body is any sequence of bytes at all, as long as an `int32_t` holds its
length.

### Utf8Text, TextPositions, DocumentSync

A text is a sequence of bytes, by class: ASCII, newline, the three lead bytes
and continuation. The client side keeps characters and computes its own places;
it is external and independent of the code's loops. `DocumentSync` has the four
notifications, the executor, the handlers and default hooks, the store under
`mu_` and one step per change of a change list, so that an exception can come in
the middle of it. Before any notification `Initialize` settles the encoding: what
`onInitialize` put in `positionEncoding`, if the library knows that name, for
the store (`encoding`), and what the answer says for the client (`agreed`). A
pointer from `get` is the node of the map it points to, with
the number of notifications handled when `get` returned. The client may open a document twice,
and name one that is not open (`DidStray`).

### JsonRpc

A raw message has the fields `parseMessage` looks at; params, result and error
are represented by the number of the message they belong to. `means` records
what the server meant by what it wrote. Client ids are strings or 32-bit
integers, as LSP requires. A client writes texts of any shape in `Vocabulary`; the
proofs have any, the run those that `MCVocabulary` lists. `parseMessage` catches
`parse_error` only, so a number too large for a double leaves `run` as
`out_of_range`: `TakeThrows`, after which nothing more is read. What that does to
the pools is the exception that `LanguageServer` has at any read. `Register` is
`emplace`, which leaves a callback that waits under the same id.

### Uri, SemanticTokens, ProtocolTypes

`Uri` works on character codes, so that the digits of an escape are the code's.
`TypeChar` lets a client spell a path in every way it may: any character
escaped, in digits of either case. `SemanticTokens` has the builder's list, which
`build` sorts in place; tokens at one place may come out in any order, as
`std::sort` leaves them. Deltas wrap at `Modulus`, for `uint32_t`.

`ProtocolTypes` is a table: for each member of each struct what type it has,
what `from_json` skips (nothing for `at(name).get`, an absent member for
`contains`, null too for `contains && !is_null`, other shapes for a test like
`is_array`) and what `to_json` writes for a member without a value. A value is its
shape: two strings are converted alike, a string and a number are not. `Takes`
and `Made` say what nlohmann's `get` accepts for each C++ type; they are
external, as are the clients' halves of structs that the library only writes.

## Runs

All runs pass within the five-minute limit on two workers. `CHECK_DEADLOCK
FALSE` is set where the system may stop: the server after `run` has returned,
and the bounded clients. The runs of `ThreadPool` check deadlock.

| Run | Shows | Bounds |
|---|---|---|
| `pool` | nothing lost, repeated, reordered or left behind; no deadlock; `shutdown` returns; `TaskQueue` is implemented, with its fairness: accepted tasks finish | 2 workers, 2 callers, 4 tasks: more tasks than workers, two calls at once, one worker asleep while the other works |
| `server_requests` | tokens match requests in flight, cancellations are honoured, one answer per request, the exit code | 2 workers, 2 ids, 5 messages in any order, hooks that throw: initialize, two requests and their cancellations, or a shutdown and a second initialize between |
| `server_tasks` | dispatch only in a session; callbacks found once; order of document notifications; the end of `run` or of the destructor, everything drained and quiet after it; `RpcContract`, with its fairness: every request is answered, also if `run` throws | 2 workers, 2 ids, 4 messages, 1 server request, which may be answered twice: initialize, a notification or request, and two that race it; an exception at any read, or from `onExit` |
| `transport` | the read loop stops only for cause; `MessageChannel` is implemented | 2 threads, 2 frames, bodies that are empty, hold blank lines and digits, or have a two-digit length; lengths of 6 bits |
| `conversions` | offsets are places, within the text, in order; paths survive their URIs, in every spelling; clients decode the tokens that were pushed; structs survive JSON, and null is absent | every text up to 6 bytes, lines 0-2, characters 0-4: each sequence length, cut short at any byte, with a line before or after. Every path up to 4 characters of 7 kinds: a drive and a character more, an escape that is a literal. 3 pushes, 2 builds, 12 tokens, deltas of 3 bits: two tokens at one place and one before them. Every struct with up to 2 members out of the ordinary |
| `sync` | the store follows the client, also after stray notifications and exceptions; saves; pointers outlive changes; every notification is handled | 2 documents, 3 notifications of up to 2 edits, 1 reader, `onInitialize` that names UTF-8, UTF-16, nothing, or an encoding the library does not know, positions at places of the text and past its end (UTF-32 differs in offsets only, which `conversions` checks) |
| `json_rpc` | ids, callbacks, round trips | 2 texts of the client, one that throws among them, 5 requests and 1 notification of the server, `int` of 2 bits: the fifth request has the id of the first, whose callback may still wait |

The bounds are small because the hazards are: a lost wakeup needs two workers
and a notifier; a token or a callback is confused by two requests and one
message more; a frame is torn by one other sender; a store goes wrong between
two changes, or by a third notification that overtakes one; and members of a
struct are read one by one, so that two of them are enough to show whether one
that is skipped hides one that throws (the proofs have any number). The type
invariants are not empty where a width or an encoding could be left: a length
that wraps, an id beyond `int`, text that is not UTF-8.

Fairness. Threads are scheduled, a handler or a task returns, and a mutex that
is released again and again is obtained in the end: weak fairness of each
thread's own steps. For two workers with one queue the fairness is of the pair,
since `notify_one` and the mutex choose; a single worker may be passed over for
ever. Nothing is assumed of the client: it need not send anything, nor close its
end. `StdioTransport` assumes that `read` goes on and that a thread in
`sendFrame` goes on; `DocumentSync` that the executor's thread does. The
destructor runs under the same fairness as `run`: it is the same thread. That an
answer comes to every request is not a property of its own but the fairness of
`RpcContract`, and that an accepted task finishes is that of `TaskQueue`.

### Where code and documentation disagree

Five runs are expected to find a violation.

| Run | What it shows |
|---|---|
| `pool_abandon` | `ThreadPool.hpp:35-36` says queued tasks are abandoned by `shutdown`; the workers drain the queue (and `run` depends on it) |
| `server_cancel_reuse` | the response is sent before `cancellationTokens_.erase(id)`: a client that uses the id again at once can lose the new request's token, and its cancellation |
| `server_initialize_fails` | an `onInitialize` that throws leaves the server "already initialized" |
| `transport_eof` | at the end of the input `readHeaders` never returns |
| `positions_past_end` | in UTF-8 a character past its line is not clamped |

Some texts are at odds with the code where no run says so. `DocumentStore.cpp:8-9`
calls the pointers of `get` stable while only the serial executor changes the
store; `PointersOutliveChanges` is as far as that goes, since a `didClose` on
that executor erases the entry under a handler. `DocumentStore.cpp:46-47` says a
malformed sequence counts as a single byte; `decodeUtf8` looks at the first byte
alone, so a lead byte without its continuation bytes swallows what follows
(`OffsetWithinText` shows that the scan still ends within the text).
`Uri.hpp:18-20` has a path encoded but for its unreserved characters and slashes;
`isPathPassThrough` also leaves the sub-delimiters, the colon and the at sign,
which a URI allows there. Three conversions have exceptions that their
properties name rather than hide: the slash before an escaped drive
(`SpellingDoesNotMatter`), the root of a path like `/c:/x` (`PathSurvivesUri`),
and null as `clientInfo`, its `version` or `positionEncodings`, which makes
`initialize` fail for good (`NullIsAbsent`).

`StoreFollowsClient` and `SavedIsWhatClientSaved` leave out documents that were
changed at a position past its line in UTF-8 (`Astray`), which is the finding
`positions_past_end`. `TokensMatchInFlight` and `CancelHonoured` are checked for
clients that never use an id again, which is the boundary of
`server_cancel_reuse`. `DispatchNeedsSession` needs hooks that do not throw and
a client that sends `initialized` once and in time: the code goes to Running in
whatever state it receives it, also after a shutdown.

## Proofs

All proofs are for arbitrary constants that satisfy the named assumptions.
`PoolAssumption`, `ServerAssumption`, `TransportAssumption`, `WireAssumption`,
`SyncAssumption`, `PositionsAssumption`, `UriAssumption` and `TokenAssumption` say
what kind of value a constant is, that the set of callers is finite, that
an `int` has two bits at least (`nextOutgoingId_` starts at 1), that the characters
of a path are bytes, and that the place of a token fits in the width of a delta.
`WidthAssumption` and `LengthAssumption` say that 2^w is 2(2^(w-1)), which no
`IntBits` violates; the provers know nothing of powers. The bounds (`MaxMessages`, `MaxOdd` and so on)
are arbitrary too, so that the theorems hold for behaviours of every length.

**ThreadPool.** `Inductive` proves the invariant `IInv`:
types and disjoint places (`Base`); a worker exits only when the pool is
stopping and the queue is empty, and a joined pool has only exited workers
(`Lifecycle`); `accepted = started \o tasks`, and the started tasks are those
finished and those on workers, once each (`Accounting`); with one worker
`started` is `finished` and at most one task more (`SerialAccounting`); and
`WorkConserving` and `NoSleeperLeftBehind`. Neither of the last two follows from
the types: `WorkConserving` counts awake workers and notifications that are
still to come, and each action changes at most one of each. `FifoDispatch`,
`RunOnce`, `DrainedOnJoin` and `SerialOrder` follow. `SerialOrder` is proved, for
every `NumWorkers <= 1` (`ThreadPool(0)` has one worker too), and no run has it.
`Refines` proves that each step is a step of `TaskQueue` or leaves it unchanged, with `phase` derived from
`stopping` and `joined`.

**LanguageServer.** `IInv` is `Base` (types), `Phases` (the phase of the worker
pool is what `run`, or the destructor, has made it), and `Accounted`:
the messages in the pool's queue and on its workers are pairwise different,
known and requests where a request's stage says so, and every message has as
many replies as `OneReply` says. `Effects` groups the actions by what they do to
that account: those that touch no request, that read a message without answering it, that answer at once, that hand to the
pool, take, answer or erase. `EachRequestOneReply` and `RefinesContract` follow; the latter
needs `Phases` to know that nothing is in flight when the pool has been joined,
whichever of `run` and the destructor joined it.

**Cancellation.** With `UniqueIds`, `LanguageServerProofs` adds `CInv` to the
invariant. `Tokens` says that a request on its way has its token, and that every
entry of the table belongs to such a request; `Handed`, that the serial
executor gets document notifications only and that a handler that runs was
entered; `Cancels`, that a request cancelled in time has its token set. `Tokens`
needs unique ids and one place for each message (`Accounted`), or the erase by
id could hit another request; `Cancels` needs both others and `OneReply`: an
unanswered request is on its way, so the cancellation finds its token, and then
the handler cannot be entered. `TokensFollowRequests` and `CancellationHonoured`
follow. Without `UniqueIds` the second is false: that is the finding
`server_cancel_reuse`.

**The life of a server.** `LInv` is added to both. `Stopped` ties
the phase of each pool to `readerPc`, for both orders in which `run` and the
destructor stop them, and says that a joined pool is empty; `SubmittedRead` that
only what was read is in a pool. Each theorem has one more part on top of them:

- `QuietAtEnd` needs `Calling`, that only user code sends requests: with both pools
  empty no step of the server is left.
- `ExitCode` needs `Obeyed`: the flag stands for a shutdown request that was
  obeyed, in whatever state it came.
- `RequestsInSession` needs `InSession`, which remembers with `state` what was
  obeyed before. Its hypotheses are those of `DispatchNeedsSession`.
- `DocumentsInOrder` needs `InLine`: what was handled, what the executor has and its
  queue are together exactly the document notifications handed over, in rising
  order. With `Stopped` the queue is empty once the workers are being stopped.
- `NothingLeftBehind` needs `Waited`: what was handed to a pool waits there, was
  entered or was answered `RequestCancelled`. `Tokens` gives the empty table.
- `ResponsesRouted` needs `Routed`: an outgoing id is used by one thread, and its
  callback waits from before it is on the wire until the first response, which
  is the one handed to the workers. This is why `emplace` must come before the
  frame is sent.

**StdioTransport.** What is on its way is spread over the pieces a thread has not
inserted, the buffer, the stream and what the reader has of a header block. The
proof joins them again: it speaks of a *log*, all bytes that were ever sent, in
which every frame has a place that never changes. `Frames` says that the log is a
frame for each message, end to end; `Reading` says of the reader how many bytes
it has taken and where in a frame that is, by its place in the code; `Writing`
that stream, buffer and remaining pieces, in this order, are the log after that
point, and that only the holder of `sendMutex_` has pieces left; `Ended` what the
end of the stream may have taken away. `Tracked` is that there is such a log, and
`AlwaysTracked` proves with it, in one induction, `GivesUpForCause` and that each
step is a step of `MessageChannel` or none. The lemmas under it are about
bytes: `HeaderBlocks`, that the reader stops at the end of a header block and not
before, and reads the length of the body there; `Decimals`, that digits written
for a number are read as that number again if an `int32_t` holds it; `Places` and
`Tiling`, on sequences put end to end. A body may be anything, also a header
block: the reader counts its bytes and never looks at them.

**Data.** `Decimal`, `ToInt`, `PositionToOffset`, `Encode`, `percentDecode` and what a
client decodes are recursive functions over texts of any length, and the library's
theorems on induction and recursion, which have an operator as a parameter, cannot
be used. `Least`, that a set of naturals has a least element, follows from the
library's theorem on finite sets, and a proof by induction takes the least
counterexample. `Recursion` shows that there is a function that satisfies a
recursive definition on a size that decreases, and each proof that uses it shows
that it is the one the definition chooses. `Flattening` says of `FlattenSeq` that one
sequence more is put at the end.

**JSON-RPC.** `JInv` strengthens the properties with what both sides know of each
other: every text of the server is one of `ServerRaws` (`Types`); what is being
handled is a request under its own id (`Handled`); every answer is for a message
that was read, and is not an answer to a notification or a response
(`Replied`); a request that was read has its one answer unless it is being
handled (`Answered`); and a callback in `pending` belongs to a request written
under the same id, is the only one for it, and has not been called (`Asked`).
`Parsing` says what `parseMessage` makes of any text, `Serializing` what it makes of
the server's own. The ids of the two sides may coincide, and the id counter may
wrap: `emplace` then keeps the callback that is there, whose own request has the
same id, and the new one is lost. `NoneLost` says that this is the only way: a
callback waits, has run, or there is an older request under its id a full turn of
the counter before it. `Counted` is why: the id of a request is the number of
requests before it, wrapped, and by `Remainders` and `ComingRound` two of them have
one id only if they are at least 2^IntBits requests apart.

**Positions.** `Letters` and `Encoding` say what the bytes of a character are and that
texts are encoded character by character, `Columns` and `Offsets` that a column and an
offset grow with each. `FirstLoop` and `SecondLoop` are about the loops of
`positionToOffset`: the first stops at the start of the line asked for, or at the
end of the text; the second at the first character whose column is not below the
one asked for, or at the end of the line. `PlaceFound` puts them against the places
that a client computes from its characters. `TInv` is only that the bytes are the
encoding of the characters. `PositionsUnderstood`, `WithinText` and
`RangesKeepTheirOrder` hold for texts, lines and columns of any size. The last two
are about UTF-16 and UTF-32 only, as the finding `positions_past_end` makes them.

**Pointers into the store.** `DInv` of `DocumentSyncProofs` says that the executor has
exactly the last notifications of the log (`InLog`), so that `Handled` only grows;
that entries have nodes (`Stored`); and that a pointer leads to its node unless a
close of its document has been handled since (`Pointed`). Edits and a second
`didOpen` keep the node; a document opened after a close has another, which is
why the close must be found in the log. Nothing is needed of the texts, so the
loops over them do not stand in the way.

**The text of the store.** `StoreFollowsClient` is about the moments when `mu_` is free,
but the store is changed one change at a time, by the positions of a text that the
client no longer has. `SInv` therefore remembers what the client had on its way.
`Drafts` are the texts between the changes of each notification; `Mirrored` says that
the client's documents are what its notifications made of them, and that each range
it sent names places of the draft before it; `Agreement`, that both sides count in
the same encoding once there is anything to count; `Held`, that only the executor's
thread writes, and that an entry is there exactly while the client has the document
open; and `Following`, that a document has the client's text after the
notifications handled and, of the one under way, the draft after the changes made
so far. Documents that a position led astray (`Missed`, `Strays`) are left out of
`Following` until they are opened again. With `PlaceFound`, an edit at the
offsets of two places is the edit of the client (`ReplaceEncoded`), and the new bytes
are the encoding of the next draft. `SavedRight` is kept for `SavedIsWhatClientSaved`, and
`Lent` for the types. `SInv` was checked by TLC on the instance of the run `sync` before
it was proved. `StoreIsClients`, `SavesAreClients` and `TypesKept` follow. That
`text.replace` may throw between two changes needs no case of its own: it does so only
where the document is astray.

**Paths.** `DecodingRest` says that what `percentDecode` makes of the end of a text does
not depend on what is before it, `DecodingFirst` what it makes of the first character
or escape. A text *spells* a path if it decodes as the path followed by whatever the
rest decodes as: `UInv` says that of what a client has typed (`SpellingMore`), and
`EncodedPath` of what `percentEncode` makes of any path. `ToPathDecodes` is the drive:
where `toPath` sees one before it decodes there is one, since neither letters nor colon
are percent signs; `DriveStraight` is the converse for `percentEncode`, which lets them
pass. `PathsSurvive` and `SpellingsAgree` follow, with their exceptions.

**Semantic tokens.** `OneToken` is the arithmetic: a token that is not before the one
it is encoded after is what the client adds up, although the deltas wrap. `Decoded`
is that of a sorted list, and `Rearranged` that sorting keeps how often each token is
there. `KInv` says that the builder has what was pushed since it was cleared, and that
what it built last are the deltas of a sorted list of what had been pushed then;
`TokensReachClient` follows for any calls.

**Protocol types.** `Rows` proves of each member of each struct that it is written
so that it is read back, and skipped when null if it may be absent, or that it
is one of the six members named as exceptions. `RoundTrip` and `NullAsAbsent` follow
for objects and values with any number of members out of the ordinary.

**Model-checked only.** Liveness under fairness, which needs `ENABLED`: `ShutdownReturns`,
`RunReturns`, `NotificationsHandled`, and the fairness that `ImplementsTaskQueue`,
`ImplementsContract` and `ImplementsChannel` add to the steps, which are proved. Every
other property of a passing run is stated by a theorem.

## Not modelled

- User code that blocks for ever, and exceptions that end the process: a
  callback that throws, a thread that cannot be created, a `run` that throws
  where nobody catches it.
- What a subclass does. Hooks that it overrides are its code; the models have
  the default hooks, and `onDocumentChanged` gets an item without text, so the
  `analyze(doc)` of the library's README sees an empty text after each change.
  After a `run` that threw, handlers still run on the workers while the
  subclass's own members are already destroyed, since the pools are joined in the
  destructor of the base: C++ leaves that to the subclass.
- What a handler reads through the pointer from `get`. It takes no lock, and the
  serial executor may be in the middle of an edit of the same text: a data race,
  in which the handler may read half of each. `DocumentSync` has the call of `get`
  and where its pointer leads; its properties of texts are about the moments when
  `mu_` is free.
- Callbacks of server requests that are pending when the loop ends: nothing
  reads their responses, and they are destroyed with the server without a call.
- `syncKind_`: the code stores it and never looks at it, so documents are
  synchronised also when the server did not ask for it.
- The value of `ErrorCodes::InternalError`, which lacks its minus sign, the names
  of the standard token types and modifiers, and the wording of messages.
- `std::filesystem` on Windows, where `generic_string` and the constructor of a
  path change separators.
- The build files, which have no run-time behaviour.

## Plan

1. *Done:* the thread pool, the dispatcher with its destructor, the transport,
   the store with the negotiation of its encoding, JSON-RPC, URIs, semantic
   tokens and the protocol types; proofs of every safety property of each.
2. *Next models:* a composition of `LanguageServer` with `MessageChannel`, for
   input that has been sent and not read when the loop ends.
3. *Next proofs:* the server over two `ThreadPool`s rather than two `TaskQueue`s, from
   `Refines`.
