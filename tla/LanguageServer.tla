--------------------------- MODULE LanguageServer ---------------------------
(***************************************************************************)
(* src/src/ILanguageServer.cpp: the read thread that classifies messages,  *)
(* the worker pool that runs handlers and response callbacks, the serial   *)
(* executor that runs document notifications, and the tables they share:   *)
(* state_, cancellationTokens_ and pendingRequests_.                       *)
(*                                                                         *)
(* The two pools are instances of TaskQueue, which ThreadPool implements.  *)
(* A message is its number in log, and a task is the message it came from. *)
(* What the client has sent and the server not yet read is not kept: the   *)
(* read thread reads any message ClientMaySend allows.  A frame is written *)
(* under sendMutex_, so sending is one step.                               *)
(***************************************************************************)
EXTENDS Integers, FiniteSets, SequencesExt

CONSTANTS
  Workers,        \* threads of workerPool_
  SyncWorker,     \* the thread of syncExecutor_
  Reader,         \* the thread that called run
  Ids,            \* ids a client gives its requests
  NoId,           \* the id of every other message
  MaxMessages,    \* bound: messages read
  MaxOutgoing,    \* bound: requests the server sends
  Vocabulary,     \* the kinds of message this client sends
  Senders,        \* threads whose user code calls sendRequest
  UniqueIds,      \* the client never uses a request id again
  OrderlyClient,  \* the client sends initialized once, when it should
  HooksMayThrow,  \* onInitialize and onShutdown may throw
  RunMayThrow     \* onExit and readMessage may throw, and so does run

Threads == Workers \cup {SyncWorker, Reader}
Nums == 1 .. MaxMessages
None == 0                     \* no message
OutIds == 0 .. MaxOutgoing    \* ids of outgoing requests start at 1

RequestKinds == {"initialize", "shutdown", "request", "unknownRequest"}
NotificationKinds ==
  {"initialized", "exit", "cancel", "sync", "notification", "unknownNotification"}
Kinds == RequestKinds \cup NotificationKinds \cup {"response", "invalid"}

\* The ids of the other requests are not looked at, only sent back.
Messages ==
  [kind : {"request", "cancel"}, id : Ids]
    \cup [kind : {"response"}, id : OutIds]
    \cup [kind : Kinds \ {"request", "cancel", "response"}, id : {NoId}]

Replies == {"result", "error", "cancelled", "notInitialized", "shuttingDown",
            "alreadyInitialized", "methodNotFound", "parseError"}

ASSUME ServerAssumption ==
  /\ SyncWorker \notin Workers
  /\ Reader \notin Workers \cup {SyncWorker}
  /\ MaxMessages \in Nat
  /\ MaxOutgoing \in Nat
  /\ Vocabulary \subseteq Kinds
  /\ Senders \subseteq Threads
  /\ UniqueIds \in BOOLEAN /\ OrderlyClient \in BOOLEAN
  /\ HooksMayThrow \in BOOLEAN /\ RunMayThrow \in BOOLEAN

VARIABLES
  state,              \* state_
  shutdownRequested,  \* shutdownRequested_
  readerPc,           \* where run is: "read", "hook" (in onInitialized), "closeSync",
                      \* "joinSync", "closeWorkers", "joinWorkers", "returned"; and
                      \* where the destructor is if run throws: "endWorkers",
                      \* "awaitWorkers", "endSync", "awaitSync", "destroyed"
  exitCode,           \* what run returned, or -1
  cancellationTokens, \* cancellationTokens_: the request that owns the token of an id
  cancelled,          \* requests whose token is set
  workQueue, working, workPhase,   \* workerPool_
  stage,              \* a worker's progress through its task: "begin", "user",
                      \* "erase"; "idle" between tasks
  syncQueue, syncing, syncPhase,   \* syncExecutor_
  call, callId,       \* a thread's progress through sendRequest, and its local id
  nextOutgoingId,     \* nextOutgoingId_
  pendingRequests,    \* the keys of pendingRequests_
  wire,               \* outgoing requests the client has received
  log,                \* messages read
  replies,            \* the responses sent to each message
  submitted,          \* history: messages handed to a pool
  entered,            \* history: messages whose handler or callback was called
  synced,             \* history: document notifications handled, in order
  cancelSeen          \* history: requests cancelled before their handler was called

lifeVars == <<state, shutdownRequested, readerPc, exitCode>>
tokenVars == <<cancellationTokens, cancelled>>
workVars == <<workQueue, working, workPhase, stage>>
syncVars == <<syncQueue, syncing, syncPhase>>
callVars == <<call, callId, nextOutgoingId, wire>>
historyVars == <<submitted, entered, synced, cancelSeen>>
vars == <<lifeVars, tokenVars, workVars, syncVars, callVars, pendingRequests,
          log, replies, historyVars>>

TypeOK ==
  /\ state \in {"uninitialized", "initializing", "running", "shuttingDown", "exited"}
  /\ shutdownRequested \in BOOLEAN
  /\ readerPc \in {"read", "hook", "closeSync", "joinSync", "closeWorkers",
                   "joinWorkers", "returned", "endWorkers", "awaitWorkers",
                   "endSync", "awaitSync", "destroyed"}
  /\ exitCode \in {-1, 0, 1}
  /\ cancellationTokens \in [Ids -> Nums \cup {None}]
  /\ cancelled \subseteq Nums
  /\ workQueue \in Seq(Nums)
  /\ working \in [Workers -> Nums \cup {None}]
  /\ workPhase \in {"open", "closing", "joined"}
  /\ stage \in [Workers -> {"idle", "begin", "user", "erase"}]
  /\ syncQueue \in Seq(Nums)
  /\ syncing \in [{SyncWorker} -> Nums \cup {None}]
  /\ syncPhase \in {"open", "closing", "joined"}
  /\ call \in [Threads -> {"none", "allocated", "registered"}]
  /\ callId \in [Threads -> OutIds]
  /\ nextOutgoingId \in 1 .. MaxOutgoing + 1
  /\ pendingRequests \subseteq OutIds
  /\ wire \subseteq OutIds
  /\ log \in Seq(Messages) /\ Len(log) <= MaxMessages
  /\ replies \in [Nums -> Seq(Replies)]
  /\ submitted \subseteq Nums
  /\ entered \subseteq Nums
  /\ synced \in Seq(Nums)
  /\ cancelSeen \subseteq Nums

WorkerPool == INSTANCE TaskQueue WITH
  Tasks <- Nums, Slots <- Workers, Idle <- None,
  queue <- workQueue, running <- working, phase <- workPhase

SyncExecutor == INSTANCE TaskQueue WITH
  Tasks <- Nums, Slots <- {SyncWorker}, Idle <- None,
  queue <- syncQueue, running <- syncing, phase <- syncPhase

Init ==
  /\ state = "uninitialized"
  /\ shutdownRequested = FALSE
  /\ readerPc = "read"
  /\ exitCode = -1
  /\ cancellationTokens = [i \in Ids |-> None]
  /\ cancelled = {}
  /\ WorkerPool!Init
  /\ stage = [w \in Workers |-> "idle"]
  /\ SyncExecutor!Init
  /\ call = [t \in Threads |-> "none"]
  /\ callId = [t \in Threads |-> 0]
  /\ nextOutgoingId = 1
  /\ pendingRequests = {}
  /\ wire = {}
  /\ log = <<>>
  /\ replies = [n \in Nums |-> <<>>]
  /\ submitted = {}
  /\ entered = {}
  /\ synced = <<>>
  /\ cancelSeen = {}

-----------------------------------------------------------------------------
(* The client and the read loop *)

IsKind(n, kind) == n \in 1 .. Len(log) /\ log[n].kind = kind
Answered(n) == replies[n] # <<>>

\* A request is answered with a result if its handler returned.
Succeeded(n, kind) == IsKind(n, kind) /\ replies[n] = <<"result">>

(***************************************************************************)
(* External: what a client may send.  A request id is fresh, or at least   *)
(* not the id of a request without an answer; a response is for a request  *)
(* it received, or for an unknown id (0); a response may be sent twice.    *)
(***************************************************************************)
ClientMaySend(m) ==
  /\ m.kind \in Vocabulary
  /\ m.kind = "request" =>
       \A n \in 1 .. Len(log) :
         IsKind(n, "request") /\ log[n].id = m.id => ~UniqueIds /\ Answered(n)
  /\ m.kind = "response" => m.id \in wire \cup {0}
  /\ m.kind = "initialized" /\ OrderlyClient =>
       /\ \E n \in 1 .. Len(log) : Succeeded(n, "initialize")
       /\ \A n \in 1 .. Len(log) : ~IsKind(n, "initialized") /\ ~IsKind(n, "shutdown")

\* The number of the message being read.
Num == Len(log) + 1

\* run: the loop condition and readMessage.
Read(m) ==
  /\ readerPc = "read"
  /\ state # "exited"
  /\ Len(log) < MaxMessages
  /\ ClientMaySend(m)
  /\ log' = Append(log, m)

Reply(n, r) == replies' = [replies EXCEPT ![n] = Append(@, r)]

\* The handler that is running returns a value or throws.
Outcomes == IF HooksMayThrow THEN {"result", "error"} ELSE {"result"}

\* parseMessage found no message: an error without an id.
InvalidMessage(m) ==
  /\ Read(m)
  /\ m.kind = "invalid"
  /\ Reply(Num, "parseError")
  /\ UNCHANGED <<lifeVars, tokenVars, workVars, syncVars, callVars,
                 pendingRequests, historyVars>>

-----------------------------------------------------------------------------
(* What several steps share *)

\* A step of run outside a handler.
ReaderGoes(pc) ==
  /\ readerPc' = pc
  /\ UNCHANGED <<state, shutdownRequested>>

\* The order in which run, and the destructor if run has thrown, stop the pools.
\* After a run that has returned the destructor finds nothing to stop.
After ==
  [closeSync |-> "joinSync", joinSync |-> "closeWorkers",
   closeWorkers |-> "joinWorkers", joinWorkers |-> "returned",
   endWorkers |-> "awaitWorkers", awaitWorkers |-> "endSync",
   endSync |-> "awaitSync", awaitSync |-> "destroyed"]

Over == readerPc \in {"returned", "destroyed"}

\* What run returns.
Result == IF shutdownRequested THEN 0 ELSE 1

\* The rest of a task step: the pool itself does not move.
TaskFrame ==
  UNCHANGED <<lifeVars, tokenVars, workQueue, working, workPhase, syncVars, callVars,
              pendingRequests, log, submitted, synced, cancelSeen>>

\* The rest of a step of sendRequest.
CallFrame ==
  UNCHANGED <<lifeVars, tokenVars, workVars, syncVars, log, replies, historyVars>>

\* The thread runs a hook, a handler or a callback, which may call sendRequest.
InUserCode(t) ==
  \/ t = Reader /\ readerPc = "hook"
  \/ t = SyncWorker /\ syncing[SyncWorker] # None
  \/ t \in Workers /\ stage[t] = "user"

-----------------------------------------------------------------------------
(***************************************************************************)
(* Mutated forms.  Each one is a mistake this code could have had; the     *)
(* property it is paired with in PROJECT.json must then fail.              *)
(***************************************************************************)

\* Dereferences the result of find without comparing it with end.
CancelWithoutFind(m) ==
  /\ Read(m) /\ m.kind = "cancel" /\ state # "uninitialized"
  /\ cancelled' = cancelled \cup {cancellationTokens[m.id]}
  /\ UNCHANGED <<lifeVars, cancellationTokens, workVars, syncVars, callVars,
                 pendingRequests, replies, historyVars>>

\* Does not erase the token after the response.
EraseForgotten(w) ==
  /\ stage[w] = "erase"
  /\ WorkerPool!Finish(w)
  /\ stage' = [stage EXCEPT ![w] = "idle"]
  /\ UNCHANGED <<lifeVars, tokenVars, syncVars, callVars, pendingRequests, log,
                 replies, historyVars>>

\* Calls the handler without looking at the token.
EnterUnchecked(w) ==
  /\ stage[w] = "begin"
  /\ stage' = [stage EXCEPT ![w] = "user"]
  /\ entered' = entered \cup {working[w]}
  /\ UNCHANGED replies
  /\ TaskFrame

\* Lacks the test for ShuttingDown.
DispatchAfterShutdown(m) ==
  /\ Read(m) /\ m.kind = "request" /\ state # "uninitialized"
  /\ cancellationTokens' = [cancellationTokens EXCEPT ![m.id] = Num]
  /\ WorkerPool!Submit(Num)
  /\ submitted' = submitted \cup {Num}
  /\ UNCHANGED <<lifeVars, cancelled, stage, syncVars, callVars, pendingRequests,
                 replies, entered, synced, cancelSeen>>

\* Lacks the catch of std::exception: a throwing handler sends nothing.
HandlerEndsSilently(w) ==
  /\ stage[w] = "user" /\ IsKind(working[w], "request") /\ call[w] = "none"
  /\ Reply(working[w], "result") \/ UNCHANGED replies
  /\ stage' = [stage EXCEPT ![w] = "erase"]
  /\ UNCHANGED entered
  /\ TaskFrame

\* Sets shutdownRequested_ only after onShutdown has returned.
ShutdownFlagLate(m) ==
  /\ Read(m) /\ m.kind = "shutdown" /\ state \notin {"uninitialized", "shuttingDown"}
  /\ state' = "shuttingDown"
  /\ \E r \in Outcomes :
       Reply(Num, r) /\ shutdownRequested' = (shutdownRequested \/ r = "result")
  /\ UNCHANGED <<readerPc, exitCode, tokenVars, workVars, syncVars, callVars,
                 pendingRequests, historyVars>>

\* Sends the request before the callback is in the table.
AllocateAndSend(t) ==
  /\ t \in Senders /\ InUserCode(t) /\ call[t] = "none"
  /\ nextOutgoingId <= MaxOutgoing
  /\ callId' = [callId EXCEPT ![t] = nextOutgoingId]
  /\ nextOutgoingId' = nextOutgoingId + 1
  /\ call' = [call EXCEPT ![t] = "allocated"]
  /\ wire' = wire \cup {nextOutgoingId}
  /\ UNCHANGED pendingRequests
  /\ CallFrame

\* Goes on without joining the serial executor.
SyncNotJoined ==
  /\ readerPc \in {"joinSync", "awaitSync"}
  /\ syncPhase' = "joined"
  /\ ReaderGoes(After[readerPc])
  /\ UNCHANGED <<exitCode, tokenVars, workVars, syncQueue, syncing, callVars,
                 pendingRequests, log, replies, historyVars>>

\* Joins workers that nobody has told to stop.
WorkersNotStopped ==
  /\ readerPc \in {"closeWorkers", "endWorkers"}
  /\ ReaderGoes(After[readerPc])
  /\ UNCHANGED <<exitCode, tokenVars, workVars, syncVars, callVars,
                 pendingRequests, log, replies, historyVars>>

\* Goes on without joining the workers.
WorkersNotJoined ==
  /\ readerPc \in {"joinWorkers", "awaitWorkers"}
  /\ workPhase' = "joined"
  /\ ReaderGoes(After[readerPc])
  /\ exitCode' = IF readerPc = "joinWorkers" THEN Result ELSE exitCode
  /\ UNCHANGED <<tokenVars, workQueue, working, stage, syncVars, callVars,
                 pendingRequests, log, replies, historyVars>>

-----------------------------------------------------------------------------
(* handleRequest: the refusals in the order the code tests them *)

Uninitialized(m) == state = "uninitialized" /\ m.kind # "initialize"
AlreadyInitialized(m) == state # "uninitialized" /\ m.kind = "initialize"

Refuse(m, r) ==
  /\ Reply(Num, r)
  /\ UNCHANGED <<lifeVars, tokenVars, workVars, syncVars, callVars,
                 pendingRequests, historyVars>>

RefuseUninitialized(m) ==
  /\ Read(m)
  /\ m.kind \in RequestKinds
  /\ Uninitialized(m)
  /\ Refuse(m, "notInitialized")

RefuseShuttingDown(m) ==
  /\ Read(m)
  /\ m.kind \in RequestKinds
  /\ state = "shuttingDown"
  /\ Refuse(m, "shuttingDown")

RefuseInitialized(m) ==
  /\ Read(m)
  /\ state # "shuttingDown"
  /\ AlreadyInitialized(m)
  /\ Refuse(m, "alreadyInitialized")

RefuseUnknown(m) ==
  /\ Read(m)
  /\ m.kind = "unknownRequest"
  /\ state \notin {"uninitialized", "shuttingDown"}
  /\ Refuse(m, "methodNotFound")

(***************************************************************************)
(* The lifecycle requests run on the read thread.  The state changes       *)
(* before the hook is called, and stays changed if the hook throws.        *)
(***************************************************************************)
Initialize(m) ==
  /\ Read(m)
  /\ m.kind = "initialize"
  /\ state = "uninitialized"
  /\ state' = "initializing"
  /\ \E r \in Outcomes : Reply(Num, r)
  /\ UNCHANGED <<shutdownRequested, readerPc, exitCode, tokenVars, workVars,
                 syncVars, callVars, pendingRequests, historyVars>>

Shutdown(m) ==
  /\ Read(m)
  /\ m.kind = "shutdown"
  /\ state \notin {"uninitialized", "shuttingDown"}
  /\ shutdownRequested' = TRUE
  /\ state' = "shuttingDown"
  /\ \E r \in Outcomes : Reply(Num, r)
  /\ UNCHANGED <<readerPc, exitCode, tokenVars, workVars, syncVars, callVars,
                 pendingRequests, historyVars>>

\* A registered method: a new token under the request's id, then submit.
DispatchRequest(m) ==
  /\ Read(m)
  /\ m.kind = "request"
  /\ state \notin {"uninitialized", "shuttingDown"}
  /\ cancellationTokens' = [cancellationTokens EXCEPT ![m.id] = Num]
  /\ WorkerPool!Submit(Num)
  /\ submitted' = submitted \cup {Num}
  /\ UNCHANGED <<lifeVars, cancelled, stage, syncVars, callVars, pendingRequests,
                 replies, entered, synced, cancelSeen>>

-----------------------------------------------------------------------------
(* handleNotification *)

\* exit is obeyed in every state, before anything else is looked at.  Nobody
\* catches what onExit throws.
Exit(m) ==
  /\ Read(m)
  /\ m.kind = "exit"
  /\ state' = "exited"
  /\ readerPc' \in {"read"} \cup (IF RunMayThrow THEN {"endWorkers"} ELSE {})
  /\ UNCHANGED <<shutdownRequested, exitCode, tokenVars, workVars,
                 syncVars, callVars, pendingRequests, replies, historyVars>>

\* Before initialize, or without a handler.
DropNotification(m) ==
  /\ Read(m)
  /\ m.kind \in NotificationKinds \ {"exit"}
  /\ state = "uninitialized" \/ m.kind = "unknownNotification"
  /\ UNCHANGED <<lifeVars, tokenVars, workVars, syncVars, callVars,
                 pendingRequests, replies, historyVars>>

\* Inline: Running whatever the state was, then the hook.
Initialized(m) ==
  /\ Read(m)
  /\ m.kind = "initialized"
  /\ state # "uninitialized"
  /\ state' = "running"
  /\ readerPc' = "hook"
  /\ UNCHANGED <<shutdownRequested, exitCode, tokenVars, workVars, syncVars,
                 callVars, pendingRequests, replies, historyVars>>

\* Inline: set the token in the table under this id, if there is one.
Cancel(m) ==
  /\ Read(m)
  /\ m.kind = "cancel"
  /\ state # "uninitialized"
  /\ cancelled' = cancelled \cup ({cancellationTokens[m.id]} \ {None})
  /\ cancelSeen' = cancelSeen \cup
       {n \in submitted \ entered :
          IsKind(n, "request") /\ log[n].id = m.id /\ ~Answered(n)}
  /\ UNCHANGED <<lifeVars, cancellationTokens, workVars, syncVars, callVars,
                 pendingRequests, replies, submitted, entered, synced>>

\* didOpen, didChange, didClose and didSave go to the serial executor.
DispatchSync(m) ==
  /\ Read(m)
  /\ m.kind = "sync"
  /\ state # "uninitialized"
  /\ SyncExecutor!Submit(Num)
  /\ submitted' = submitted \cup {Num}
  /\ UNCHANGED <<lifeVars, tokenVars, workVars, callVars, pendingRequests,
                 replies, entered, synced, cancelSeen>>

\* Every other notification with a handler goes to the worker pool.
DispatchNotification(m) ==
  /\ Read(m)
  /\ m.kind = "notification"
  /\ state # "uninitialized"
  /\ WorkerPool!Submit(Num)
  /\ submitted' = submitted \cup {Num}
  /\ UNCHANGED <<lifeVars, tokenVars, stage, syncVars, callVars,
                 pendingRequests, replies, entered, synced, cancelSeen>>

-----------------------------------------------------------------------------
(* handleResponse *)

IgnoreResponse(m) ==
  /\ Read(m)
  /\ m.kind = "response"
  /\ m.id \notin pendingRequests
  /\ UNCHANGED <<lifeVars, tokenVars, workVars, syncVars, callVars,
                 pendingRequests, replies, historyVars>>

\* Take the callback out of the table and give it to the pool.
DispatchResponse(m) ==
  /\ Read(m)
  /\ m.kind = "response"
  /\ m.id \in pendingRequests
  /\ pendingRequests' = pendingRequests \ {m.id}
  /\ WorkerPool!Submit(Num)
  /\ submitted' = submitted \cup {Num}
  /\ UNCHANGED <<lifeVars, tokenVars, stage, syncVars, callVars, replies,
                 entered, synced, cancelSeen>>

-----------------------------------------------------------------------------
(* run: leaving the loop *)

HookReturns ==
  /\ readerPc = "hook"
  /\ call[Reader] = "none"
  /\ ReaderGoes("read")
  /\ UNCHANGED <<exitCode, tokenVars, workVars, syncVars, callVars,
                 pendingRequests, log, replies, historyVars>>

\* The loop ends in state Exited.
LeaveLoop ==
  /\ readerPc = "read"
  /\ state = "exited"
  /\ ReaderGoes("closeSync")
  /\ UNCHANGED <<exitCode, tokenVars, workVars, syncVars, callVars,
                 pendingRequests, log, replies, historyVars>>

\* readMessage returns nullopt.
EndOfInput ==
  /\ readerPc = "read"
  /\ state # "exited"
  /\ ReaderGoes("closeSync")
  /\ UNCHANGED <<exitCode, tokenVars, workVars, syncVars, callVars,
                 pendingRequests, log, replies, historyVars>>

\* readMessage throws; the owner of the server catches it and destroys it.
RunThrows ==
  /\ RunMayThrow
  /\ readerPc = "read"
  /\ state # "exited"
  /\ ReaderGoes("endWorkers")
  /\ UNCHANGED <<exitCode, tokenVars, workVars, syncVars, callVars,
                 pendingRequests, log, replies, historyVars>>

\* syncExecutor_->shutdown() begins, and returns.
CloseSync ==
  /\ readerPc \in {"closeSync", "endSync"}
  /\ SyncExecutor!Close
  /\ ReaderGoes(After[readerPc])
  /\ UNCHANGED <<exitCode, tokenVars, workVars, callVars, pendingRequests, log,
                 replies, historyVars>>

JoinSync ==
  /\ readerPc \in {"joinSync", "awaitSync"}
  /\ SyncExecutor!Join
  /\ ReaderGoes(After[readerPc])
  /\ UNCHANGED <<exitCode, tokenVars, workVars, callVars, pendingRequests, log,
                 replies, historyVars>>

\* workerPool_->shutdown() begins, and returns: then run returns too.
CloseWorkers ==
  /\ readerPc \in {"closeWorkers", "endWorkers"}
  /\ WorkerPool!Close
  /\ ReaderGoes(After[readerPc])
  /\ UNCHANGED <<exitCode, tokenVars, stage, syncVars, callVars, pendingRequests,
                 log, replies, historyVars>>

JoinWorkers ==
  /\ readerPc \in {"joinWorkers", "awaitWorkers"}
  /\ WorkerPool!Join
  /\ ReaderGoes(After[readerPc])
  /\ exitCode' = IF readerPc = "joinWorkers" THEN Result ELSE exitCode
  /\ UNCHANGED <<tokenVars, stage, syncVars, callVars, pendingRequests, log,
                 replies, historyVars>>

-----------------------------------------------------------------------------
(* Tasks on the worker pool *)

\* A worker takes a task.  A request's task has a token to look at first.
Start(w) ==
  /\ WorkerPool!Start(w)
  /\ IF IsKind(Head(workQueue), "request")
       THEN stage' = [stage EXCEPT ![w] = "begin"] /\ UNCHANGED entered
       ELSE /\ stage' = [stage EXCEPT ![w] = "user"]
            /\ entered' = entered \cup {Head(workQueue)}
  /\ UNCHANGED <<lifeVars, tokenVars, syncVars, callVars, pendingRequests, log,
                 replies, submitted, synced, cancelSeen>>

\* runRequestHandler: the token is set before the handler is called.
AnswerCancelled(w) ==
  /\ stage[w] = "begin"
  /\ working[w] \in cancelled
  /\ Reply(working[w], "cancelled")
  /\ stage' = [stage EXCEPT ![w] = "erase"]
  /\ UNCHANGED entered
  /\ TaskFrame

EnterHandler(w) ==
  /\ stage[w] = "begin"
  /\ working[w] \notin cancelled
  /\ stage' = [stage EXCEPT ![w] = "user"]
  /\ entered' = entered \cup {working[w]}
  /\ UNCHANGED replies
  /\ TaskFrame

\* The handler returns, throws, or sees its token and throws RequestCancelled.
HandlerEnds(w) ==
  /\ stage[w] = "user"
  /\ IsKind(working[w], "request")
  /\ call[w] = "none"
  /\ \/ Reply(working[w], "result")
     \/ Reply(working[w], "error")
     \/ working[w] \in cancelled /\ Reply(working[w], "cancelled")
  /\ stage' = [stage EXCEPT ![w] = "erase"]
  /\ UNCHANGED entered
  /\ TaskFrame

\* After the response: erase by id, whoever owns the entry now.
EraseToken(w) ==
  /\ stage[w] = "erase"
  /\ cancellationTokens' = [cancellationTokens EXCEPT ![log[working[w]].id] = None]
  /\ WorkerPool!Finish(w)
  /\ stage' = [stage EXCEPT ![w] = "idle"]
  /\ UNCHANGED <<lifeVars, cancelled, syncVars, callVars, pendingRequests, log,
                 replies, historyVars>>

\* A notification handler or a response callback returns.
TaskEnds(w) ==
  /\ stage[w] = "user"
  /\ ~IsKind(working[w], "request")
  /\ call[w] = "none"
  /\ WorkerPool!Finish(w)
  /\ stage' = [stage EXCEPT ![w] = "idle"]
  /\ UNCHANGED <<lifeVars, tokenVars, syncVars, callVars, pendingRequests, log,
                 replies, historyVars>>

-----------------------------------------------------------------------------
(* Tasks on the serial executor *)

SyncStart ==
  /\ SyncExecutor!Start(SyncWorker)
  /\ entered' = entered \cup {Head(syncQueue)}
  /\ UNCHANGED <<lifeVars, tokenVars, workVars, callVars, pendingRequests, log,
                 replies, submitted, synced, cancelSeen>>

SyncFinish ==
  /\ call[SyncWorker] = "none"
  /\ SyncExecutor!Finish(SyncWorker)
  /\ synced' = Append(synced, syncing[SyncWorker])
  /\ UNCHANGED <<lifeVars, tokenVars, workVars, callVars, pendingRequests, log,
                 replies, submitted, entered, cancelSeen>>

-----------------------------------------------------------------------------
(* sendRequest, called by user code on any thread *)

\* nextOutgoingId_.fetch_add
AllocateId(t) ==
  /\ t \in Senders
  /\ InUserCode(t)
  /\ call[t] = "none"
  /\ nextOutgoingId <= MaxOutgoing
  /\ callId' = [callId EXCEPT ![t] = nextOutgoingId]
  /\ nextOutgoingId' = nextOutgoingId + 1
  /\ call' = [call EXCEPT ![t] = "allocated"]
  /\ UNCHANGED <<wire, pendingRequests>>
  /\ CallFrame

\* pendingRequests_.emplace under pendingMutex_
RegisterCallback(t) ==
  /\ call[t] = "allocated"
  /\ pendingRequests' = pendingRequests \cup {callId[t]}
  /\ call' = [call EXCEPT ![t] = "registered"]
  /\ UNCHANGED <<callId, nextOutgoingId, wire>>
  /\ CallFrame

\* sendFrame: only now can the client answer.
SendRequest(t) ==
  /\ call[t] = "registered"
  /\ wire' = wire \cup {callId[t]}
  /\ call' = [call EXCEPT ![t] = "none"]
  /\ callId' = [callId EXCEPT ![t] = 0]
  /\ UNCHANGED <<nextOutgoingId, pendingRequests>>
  /\ CallFrame

-----------------------------------------------------------------------------
ReadMessage(m) ==
  \/ InvalidMessage(m)
  \/ RefuseUninitialized(m)
  \/ RefuseShuttingDown(m)
  \/ RefuseInitialized(m)
  \/ RefuseUnknown(m)
  \/ Initialize(m)
  \/ Shutdown(m)
  \/ DispatchRequest(m)
  \/ Exit(m)
  \/ DropNotification(m)
  \/ Initialized(m)
  \/ Cancel(m)
  \/ DispatchSync(m)
  \/ DispatchNotification(m)
  \/ IgnoreResponse(m)
  \/ DispatchResponse(m)

StopServing ==
  \/ LeaveLoop
  \/ CloseSync
  \/ JoinSync
  \/ CloseWorkers
  \/ JoinWorkers

CallStep(t) == AllocateId(t) \/ RegisterCallback(t) \/ SendRequest(t)

TaskStep(w) ==
  \/ AnswerCancelled(w)
  \/ EnterHandler(w)
  \/ HandlerEnds(w)
  \/ EraseToken(w)
  \/ TaskEnds(w)

Next ==
  \/ \E m \in Messages : ReadMessage(m)
  \/ EndOfInput
  \/ RunThrows
  \/ HookReturns
  \/ StopServing
  \/ \E w \in Workers : Start(w) \/ TaskStep(w)
  \/ SyncStart
  \/ SyncFinish
  \/ \E t \in Threads : CallStep(t)

Spec == Init /\ [][Next]_vars

(***************************************************************************)
(* Handlers, hooks and callbacks return; a pool with work and an idle      *)
(* worker starts a task (TaskQueue); run goes on once its loop has ended.  *)
(* Nothing makes the client send a message or close its end.               *)
(***************************************************************************)
Fairness ==
  /\ WF_vars(HookReturns \/ StopServing \/ CallStep(Reader))
  /\ WF_vars(\E w \in Workers : Start(w))
  /\ \A w \in Workers : WF_vars(TaskStep(w) \/ CallStep(w))
  /\ WF_vars(SyncStart \/ SyncFinish \/ CallStep(SyncWorker))

FairSpec == Spec /\ Fairness

-----------------------------------------------------------------------------
(* Properties *)

ReadOf(kind) == {n \in 1 .. Len(log) : log[n].kind = kind}

NeedsReply(n) == log[n].kind \in RequestKinds \cup {"invalid"}

\* The request waits for a worker, or a worker has not answered it yet.
InFlight(n) ==
  \/ n \in Range(workQueue)
  \/ \E w \in Workers : working[w] = n /\ stage[w] # "erase"

(***************************************************************************)
(* A request has no answer while it waits or runs and exactly one from     *)
(* then on, whatever path answered it: a refusal, the token, the handler   *)
(* or an exception.                                                        *)
(***************************************************************************)
OneReply ==
  \A n \in 1 .. Len(log) :
    Len(replies[n]) = IF NeedsReply(n) /\ ~InFlight(n) THEN 1 ELSE 0

(***************************************************************************)
(* As long as ids are not used again, the token table holds exactly the    *)
(* requests that are queued or on a worker: a cancellation finds the       *)
(* request it is for, and nothing stays in the table.                      *)
(***************************************************************************)
TokensMatchInFlight ==
  UniqueIds =>
    /\ \A n \in ReadOf("request") \cap submitted :
         cancellationTokens[log[n].id] = n
           <=> n \in Range(workQueue) \cup Range(working)
    /\ \A i \in Ids : cancellationTokens[i] # None =>
         cancellationTokens[i] \in submitted /\ log[cancellationTokens[i]].id = i

(***************************************************************************)
(* A request cancelled while it waits never reaches its handler and is     *)
(* answered RequestCancelled.                                              *)
(***************************************************************************)
CancelHonoured ==
  \A n \in cancelSeen :
    n \notin entered /\ replies[n] \in {<<>>, <<"cancelled">>}

\* A shutdown request was obeyed, whether or not its hook threw.
ShutdownObeyed(n) ==
  IsKind(n, "shutdown") /\ replies[n] \in {<<"result">>, <<"error">>}

(***************************************************************************)
(* For a client that sends initialized when it should, and hooks that do   *)
(* not throw, a request reaches a worker only after a successful           *)
(* initialize and before a shutdown.                                       *)
(***************************************************************************)
DispatchNeedsSession ==
  OrderlyClient /\ ~HooksMayThrow =>
    \A n \in ReadOf("request") \cap submitted :
      /\ \E k \in 1 .. n : Succeeded(k, "initialize")
      /\ \A k \in 1 .. n : ~ShutdownObeyed(k)

(***************************************************************************)
(* run returns 0 exactly if a shutdown request was obeyed, whatever was    *)
(* read after it (LifecycleTest: CleanShutdownReturnsZero and              *)
(* ExitWithoutShutdownReturnsOne).                                         *)
(***************************************************************************)
ExitCodeTellsShutdown ==
  readerPc = "returned" =>
    exitCode = IF \E n \in Nums : ShutdownObeyed(n) THEN 0 ELSE 1

Responses(id) == {n \in ReadOf("response") : log[n].id = id}

(***************************************************************************)
(* Once the client has an outgoing request, its first response finds the   *)
(* callback and every later one does not, however soon it comes and on     *)
(* whatever thread the request was sent.                                   *)
(***************************************************************************)
ResponseRoutedOnce ==
  \A id \in wire : Responses(id) # {} =>
    Cardinality(Responses(id) \cap submitted) = 1

(***************************************************************************)
(* When run has returned, or the destructor if run has thrown, every       *)
(* handler and every callback handed to a pool has been called, that of a  *)
(* cancelled request excepted, and every token is gone.                    *)
(***************************************************************************)
DrainedOnReturn ==
  Over =>
    /\ \A n \in submitted : n \in entered \/ replies[n] = <<"cancelled">>
    /\ UniqueIds => \A i \in Ids : cancellationTokens[i] = None

(***************************************************************************)
(* After run has returned, or the destructor if run has thrown, nothing of *)
(* the server runs: it can be destroyed.                                   *)
(***************************************************************************)
QuietAfterReturn == [][~Over]_vars

SyncSubmitted == ReadOf("sync") \cap submitted

(***************************************************************************)
(* Document notifications are handled in the order they were read, none is *)
(* passed over, and all of them are handled before run shuts the worker    *)
(* pool down or the destructor ends.                                       *)
(***************************************************************************)
SyncInOrder ==
  /\ \A i, j \in 1 .. Len(synced) : i < j => synced[i] < synced[j]
  /\ Range(synced) \subseteq SyncSubmitted
  /\ \A n \in SyncSubmitted \ Range(synced), i \in 1 .. Len(synced) : synced[i] < n
  /\ readerPc \in {"closeWorkers", "joinWorkers", "returned", "destroyed"} =>
       SyncSubmitted \subseteq Range(synced)

(***************************************************************************)
(* exit, or the end of the input, makes run return, and if it throws the   *)
(* destructor returns.                                                     *)
(***************************************************************************)
RunReturns ==
  (state = "exited" \/ readerPc \in {"closeSync", "endWorkers"}) ~> Over

\* The workers have not been joined.
Serving == workPhase # "joined"

(***************************************************************************)
(* The server implements the contract of run, liveness included: a request *)
(* handed to the pool is answered, even if the input ends first or run     *)
(* throws.                                                                 *)
(***************************************************************************)
Contract == INSTANCE RpcContract WITH
  Requests <- Nums,
  asked    <- {n \in 1 .. Len(log) : NeedsReply(n)},
  answers  <- [n \in Nums |-> Len(replies[n])],
  serving  <- Serving

ImplementsContract == Contract!Spec

(***************************************************************************)
(* A cancellation that arrives before the handler starts is honoured, also *)
(* for an id used before (CancellationTest.cpp:182-183: "If pre-cancelled  *)
(* it should be short-circuited and never enter").                         *)
(***************************************************************************)
PreCancelledNeverEnters == cancelSeen \cap entered = {}

(***************************************************************************)
(* ILanguageServer.cpp:306-307 refuses an initialize because the server is *)
(* "already initialized": an earlier one has succeeded.                    *)
(***************************************************************************)
RefusesOnlySecondInitialize ==
  \A n \in Nums : replies[n] = <<"alreadyInitialized">> =>
    \E k \in 1 .. n : Succeeded(k, "initialize")
=============================================================================
