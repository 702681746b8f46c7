------------------------ MODULE LanguageServerProofs ------------------------
(***************************************************************************)
(* Theorems about LanguageServer, for any number of workers, ids, messages *)
(* and outgoing requests, and any client ClientMaySend describes: one      *)
(* answer per request, the contract of RpcContract, cancellation, and the  *)
(* life of the server from initialize to the end of run or of the          *)
(* destructor.                                                             *)
(***************************************************************************)
EXTENDS LanguageServer, DataLemmas, FiniteSetTheorems

-----------------------------------------------------------------------------
(* Types *)

\* A worker is between tasks exactly when the pool has nothing on it.
StageBusy == \A w \in Workers : stage[w] = "idle" <=> working[w] = None

Base == TypeOK /\ StageBusy

\* Reading a message adds it to log and leaves the earlier ones alone.
LEMMA ReadGrows ==
  ASSUME TypeOK, NEW m \in Messages, Read(m)
  PROVE  /\ Num \in Nums /\ Len(log) \in Nat /\ Num = Len(log) + 1
         /\ log' \in Seq(Messages)
         /\ Len(log') = Num /\ Len(log') <= MaxMessages
         /\ 1 .. Len(log') = (1 .. Len(log)) \cup {Num}
         /\ Num \notin 1 .. Len(log)
         /\ log'[Num] = m
         /\ \A n \in 1 .. Len(log) :
              /\ log'[n] = log[n]
              /\ \A kind : IsKind(n, kind)' <=> IsKind(n, kind)
              /\ NeedsReply(n)' <=> NeedsReply(n)
<1>1. log \in Seq(Messages) /\ Len(log) \in Nat /\ Len(log) < MaxMessages
  BY LenProperties DEF TypeOK, Read
<1>2. log' = Append(log, m)
  BY DEF Read
<1>3. /\ log' \in Seq(Messages) /\ Len(log') = Len(log) + 1
      /\ log'[Len(log) + 1] = m /\ \A n \in 1 .. Len(log) : log'[n] = log[n]
  BY <1>1, <1>2, AppendProperties
<1>4. Num \in Nums /\ Num = Len(log) + 1
  BY <1>1, ServerAssumption DEF Nums, Num
<1>5. /\ 1 .. (Len(log) + 1) = (1 .. Len(log)) \cup {Len(log) + 1}
      /\ Len(log) + 1 \notin 1 .. Len(log)
  BY <1>1, SMT
<1>6. /\ Len(log') = Num /\ Len(log') <= MaxMessages /\ log'[Num] = m
      /\ 1 .. Len(log') = (1 .. Len(log)) \cup {Num} /\ Num \notin 1 .. Len(log)
  BY <1>1, <1>3, <1>4, <1>5, ServerAssumption
<1>7. \A n \in 1 .. Len(log) :
        /\ \A kind : IsKind(n, kind)' <=> IsKind(n, kind)
        /\ NeedsReply(n)' <=> NeedsReply(n)
  BY <1>3, <1>6 DEF IsKind, NeedsReply
<1>8. QED
  BY <1>1, <1>3, <1>4, <1>6, <1>7

\* A reply is one more in the table, and the others stay.
LEMMA OneMore ==
  ASSUME TypeOK, NEW n, NEW r \in Replies, Reply(n, r)
  PROVE  /\ replies' \in [Nums -> Seq(Replies)]
         /\ n \in Nums => Len(replies'[n]) = Len(replies[n]) + 1
         /\ \A k \in Nums : k # n => replies'[k] = replies[k]
<1>1. CASE n \in Nums
  <2>1. replies[n] \in Seq(Replies) /\ replies'[n] = Append(replies[n], r)
    BY <1>1 DEF TypeOK, Reply
  <2>2. /\ Append(replies[n], r) \in Seq(Replies)
        /\ Len(Append(replies[n], r)) = Len(replies[n]) + 1
    BY <2>1, AppendProperties
  <2>3. QED
    BY <1>1, <2>1, <2>2 DEF Reply, TypeOK
<1>2. CASE n \notin Nums
  BY <1>2 DEF Reply, TypeOK
<1>3. QED
  BY <1>1, <1>2

-----------------------------------------------------------------------------
(***************************************************************************)
(* The steps of the server, by what they do to messages, tasks and replies.*)
(* The 35 disjuncts of Next come down to these nine.                       *)
(***************************************************************************)

\* Nothing happens to a message, a task or a reply.
Quiet == UNCHANGED <<workQueue, working, stage, replies, log, Serving>>

\* A message is read that needs no answer and no worker.
Noted(m) ==
  /\ Read(m)
  /\ m.kind \notin RequestKinds \cup {"invalid"}
  /\ UNCHANGED <<workQueue, working, stage, replies, Serving>>

\* A message is read and answered by the read thread.
AnsweredAtOnce(m) ==
  /\ Read(m)
  /\ m.kind \in RequestKinds \cup {"invalid"}
  /\ \E r \in Replies : Reply(Num, r)
  /\ UNCHANGED <<workQueue, working, stage, Serving>>

\* A message is read and queued for the workers.
Queued(m) ==
  /\ Read(m)
  /\ m.kind \in {"request", "notification", "response"}
  /\ workQueue' = Append(workQueue, Num)
  /\ UNCHANGED <<working, stage, replies, Serving>>

\* A worker takes the first task.
Taken(w) ==
  /\ workQueue # <<>>
  /\ working[w] = None
  /\ working' = [working EXCEPT ![w] = Head(workQueue)]
  /\ workQueue' = Tail(workQueue)
  /\ \/ IsKind(Head(workQueue), "request") /\ stage' = [stage EXCEPT ![w] = "begin"]
     \/ stage' = [stage EXCEPT ![w] = "user"]
  /\ UNCHANGED <<replies, log, Serving>>

\* A worker calls a request handler.
Called(w) ==
  /\ stage[w] = "begin"
  /\ stage' = [stage EXCEPT ![w] = "user"]
  /\ UNCHANGED <<workQueue, working, replies, log, Serving>>

\* A worker answers its request.
AnsweredBy(w) ==
  /\ stage[w] \in {"begin", "user"}
  /\ IsKind(working[w], "request")
  /\ \E r \in Replies : Reply(working[w], r)
  /\ stage' = [stage EXCEPT ![w] = "erase"]
  /\ UNCHANGED <<workQueue, working, log, Serving>>

\* A worker is done with its task.
Left(w) ==
  /\ stage[w] = "erase" \/ ~IsKind(working[w], "request")
  /\ working' = [working EXCEPT ![w] = None]
  /\ stage' = [stage EXCEPT ![w] = "idle"]
  /\ UNCHANGED <<workQueue, replies, log, Serving>>

\* The workers are joined.
Returned ==
  /\ Serving /\ ~Serving'
  /\ workQueue = <<>>
  /\ \A w \in Workers : working[w] = None
  /\ UNCHANGED <<workQueue, working, stage, replies, log>>

\* The pool accepts tasks as long as run has not closed it.
Phases ==
  workPhase =
    CASE readerPc \in {"returned", "endSync", "awaitSync", "destroyed"} -> "joined"
      [] readerPc \in {"joinWorkers", "awaitWorkers"} -> "closing"
      [] OTHER -> "open"

\* Only requests go through the stages that look at a token.
Stages == \A w \in Workers :
  stage[w] \in {"begin", "erase"} => IsKind(working[w], "request")

\* Every step is one of the nine.
LEMMA Effects ==
  ASSUME Base, Phases, Stages, [Next]_vars
  PROVE  \/ Quiet \/ Returned
         \/ \E m \in Messages : Noted(m) \/ AnsweredAtOnce(m) \/ Queued(m)
         \/ \E w \in Workers : Taken(w) \/ Called(w) \/ AnsweredBy(w) \/ Left(w)
<1> DEFINE Effect ==
      \/ Quiet \/ Returned
      \/ \E m \in Messages : Noted(m) \/ AnsweredAtOnce(m) \/ Queued(m)
      \/ \E w \in Workers : Taken(w) \/ Called(w) \/ AnsweredBy(w) \/ Left(w)
<1> USE DEF lifeVars, workVars, Serving
<1>1. ASSUME NEW m \in Messages,
             InvalidMessage(m) \/ RefuseUninitialized(m) \/ RefuseShuttingDown(m)
               \/ RefuseInitialized(m) \/ RefuseUnknown(m) \/ Initialize(m)
               \/ Shutdown(m)
      PROVE  AnsweredAtOnce(m)
  <2>1. Read(m) /\ UNCHANGED <<workQueue, working, stage, Serving>>
    BY <1>1 DEF InvalidMessage, RefuseUninitialized, RefuseShuttingDown,
       RefuseInitialized, RefuseUnknown, Refuse, Initialize, Shutdown
  <2>2. m.kind \in RequestKinds \cup {"invalid"}
    BY <1>1 DEF InvalidMessage, RefuseUninitialized, RefuseShuttingDown,
       RefuseInitialized, AlreadyInitialized, RefuseUnknown, Initialize, Shutdown,
       RequestKinds
  <2>3. \E r \in Replies : Reply(Num, r)
    BY <1>1 DEF InvalidMessage, RefuseUninitialized, RefuseShuttingDown,
       RefuseInitialized, RefuseUnknown, Refuse, Initialize, Shutdown, Outcomes,
       Replies
  <2>4. QED
    BY <2>1, <2>2, <2>3 DEF AnsweredAtOnce
<1>2. ASSUME NEW m \in Messages,
             Exit(m) \/ DropNotification(m) \/ Initialized(m) \/ Cancel(m)
               \/ DispatchSync(m) \/ IgnoreResponse(m)
      PROVE  Noted(m)
  <2>1. Read(m) /\ UNCHANGED <<workQueue, working, stage, replies, Serving>>
    BY <1>2 DEF Exit, DropNotification, Initialized, Cancel, DispatchSync,
       IgnoreResponse, Read
  <2>2. m.kind \notin RequestKinds \cup {"invalid"}
    BY <1>2 DEF Exit, DropNotification, Initialized, Cancel, DispatchSync,
       IgnoreResponse, RequestKinds, NotificationKinds
  <2>3. QED
    BY <2>1, <2>2 DEF Noted
<1>3. ASSUME NEW m \in Messages,
             DispatchRequest(m) \/ DispatchNotification(m) \/ DispatchResponse(m)
      PROVE  Queued(m)
  <2>1. Read(m) /\ WorkerPool!Submit(Num)
    BY <1>3 DEF DispatchRequest, DispatchNotification, DispatchResponse
  <2>2. workPhase = "open"
    BY <2>1 DEF Phases, Read
  <2>3. QED
    BY <1>3, <2>1, <2>2 DEF DispatchRequest, DispatchNotification, DispatchResponse,
       WorkerPool!Submit, Queued
<1>4. ASSUME NEW m \in Messages, ReadMessage(m) PROVE Effect
  BY <1>1, <1>2, <1>3, <1>4 DEF ReadMessage
<1>5. ASSUME EndOfInput \/ RunThrows \/ HookReturns \/ LeaveLoop \/ CloseSync
               \/ JoinSync \/ CloseWorkers
      PROVE  Quiet
  BY <1>5 DEF EndOfInput, RunThrows, HookReturns, LeaveLoop, CloseSync, JoinSync, CloseWorkers,
     ReaderGoes, WorkerPool!Close, Quiet
<1>6. ASSUME JoinWorkers PROVE Returned
  BY <1>6 DEF JoinWorkers, WorkerPool!Join, WorkerPool!Drained, Returned
<1>7. ASSUME NEW w \in Workers, Start(w) PROVE Taken(w)
  BY <1>7 DEF Start, WorkerPool!Start, Taken
<1>8. ASSUME NEW w \in Workers, TaskStep(w)
      PROVE  Called(w) \/ AnsweredBy(w) \/ Left(w)
  <2>1. ASSUME AnswerCancelled(w) PROVE AnsweredBy(w)
    BY <2>1 DEF AnswerCancelled, TaskFrame, AnsweredBy, Stages, Replies
  <2>2. ASSUME EnterHandler(w) PROVE Called(w)
    BY <2>2 DEF EnterHandler, TaskFrame, Called
  <2>3. ASSUME HandlerEnds(w) PROVE AnsweredBy(w)
    <3>1. \E r \in Replies : Reply(working[w], r)
      BY <2>3 DEF HandlerEnds, Replies
    <3>2. QED
      BY <2>3, <3>1 DEF HandlerEnds, TaskFrame, AnsweredBy
  <2>4. ASSUME EraseToken(w) \/ TaskEnds(w) PROVE Left(w)
    BY <2>4 DEF EraseToken, TaskEnds, WorkerPool!Finish, Left
  <2>5. QED
    BY <1>8, <2>1, <2>2, <2>3, <2>4 DEF TaskStep
<1>9. ASSUME SyncStart \/ SyncFinish PROVE Quiet
  BY <1>9 DEF SyncStart, SyncFinish, Quiet
<1>10. ASSUME NEW t \in Threads, CallStep(t) PROVE Quiet
  BY <1>10 DEF CallStep, AllocateId, RegisterCallback, SendRequest, CallFrame, Quiet
<1>11. CASE UNCHANGED vars
  BY <1>11 DEF vars, Quiet
<1>12. QED
  BY <1>4, <1>5, <1>6, <1>7, <1>8, <1>9, <1>10, <1>11 DEF Next, StopServing

-----------------------------------------------------------------------------
(* Accounting: where each message is *)

Queue == Range(workQueue)

\* The workers only ever see messages that were read and are for them.
ForWorkers ==
  {n \in 1 .. Len(log) : log[n].kind \in {"request", "notification", "response"}}

Known ==
  /\ Queue \subseteq ForWorkers
  /\ \A w \in Workers : working[w] # None => working[w] \in ForWorkers

\* A message is at one place only.
OnePlace ==
  /\ IsInjective(workQueue)
  /\ \A w \in Workers : working[w] # None =>
       /\ working[w] \notin Queue
       /\ \A v \in Workers : v # w => working[v] # working[w]

\* What has not been read has not been answered.
Unread == \A n \in Nums : n > Len(log) => replies[n] = <<>>

Accounted == Stages /\ Known /\ OnePlace /\ Unread /\ OneReply

\* A task on a worker is nowhere else.
LEMMA OnlyHere ==
  ASSUME OnePlace, NEW w \in Workers, working[w] # None
  PROVE  InFlight(working[w]) <=> stage[w] # "erase"
BY DEF OnePlace, InFlight, Queue

-----------------------------------------------------------------------------
(* The inductive invariant *)

IInv == Base /\ Phases /\ Accounted

\* The inductive invariant holds at first and every step keeps it.
THEOREM Inductive == Spec => []IInv
<1>1. Init => IInv
  <2> SUFFICES ASSUME Init PROVE IInv
    OBVIOUS
  <2>1. Base
    <3>1. <<>> \in Seq(Nums) /\ <<>> \in Seq(Messages) /\ <<>> \in Seq(Replies)
      BY EmptySeq
    <3>2. 0 \in OutIds /\ 1 \in 1 .. MaxOutgoing + 1 /\ 0 <= MaxMessages
      BY ServerAssumption DEF OutIds
    <3>3. workQueue = <<>> /\ working = [w \in Workers |-> None] /\ workPhase = "open"
      BY DEF Init, WorkerPool!Init
    <3>4. /\ syncQueue = <<>> /\ syncing = [w \in {SyncWorker} |-> None]
          /\ syncPhase = "open"
      BY DEF Init, SyncExecutor!Init
    <3>5. TypeOK
      BY <3>1, <3>2, <3>3, <3>4 DEF Init, TypeOK
    <3>6. StageBusy
      BY <3>3 DEF Init, StageBusy
    <3>7. QED
      BY <3>5, <3>6 DEF Base
  <2>2. Phases
    BY DEF Init, Phases, WorkerPool!Init
  <2>3. Accounted
    <3>1. /\ workQueue = <<>> /\ working = [w \in Workers |-> None] /\ log = <<>>
          /\ stage = [w \in Workers |-> "idle"] /\ replies = [n \in Nums |-> <<>>]
      BY DEF Init, WorkerPool!Init
    <3>2. Range(workQueue) = {} /\ IsInjective(workQueue) /\ 1 .. Len(log) = {}
      BY <3>1 DEF Range, IsInjective
    <3>3. QED
      BY <3>1, <3>2 DEF Accounted, Stages, Known, OnePlace, Unread, OneReply, Queue
  <2>4. QED
    BY <2>1, <2>2, <2>3 DEF IInv
<1>2. IInv /\ [Next]_vars => IInv'
  <2> SUFFICES ASSUME IInv, [Next]_vars PROVE IInv'
    OBVIOUS
  \* Every step of the read thread, the workers and the sync thread keeps the types.
  <2>1. Base /\ [Next]_vars => Base'
    <3> SUFFICES ASSUME Base, [Next]_vars PROVE Base'
      OBVIOUS
    <3> USE DEF Base, StageBusy, lifeVars, tokenVars, workVars, syncVars, callVars,
                historyVars
    <3>1. ASSUME NEW m \in Messages, InvalidMessage(m) PROVE Base'
      <4>1. Read(m) /\ \E r \in Replies : Reply(Num, r)
        BY <3>1 DEF InvalidMessage, Refuse, Replies
      <4>2. log' \in Seq(Messages) /\ Len(log') <= MaxMessages
        BY <4>1, ReadGrows
      <4>3. replies' \in [Nums -> Seq(Replies)]
        BY <4>1, OneMore
      <4>4. QED
        BY <3>1, <4>1, <4>2, <4>3 DEF Read, InvalidMessage, Refuse, TypeOK
    <3>2. ASSUME NEW m \in Messages, RefuseUninitialized(m) PROVE Base'
      <4>1. Read(m) /\ \E r \in Replies : Reply(Num, r)
        BY <3>2 DEF RefuseUninitialized, Refuse, Replies
      <4>2. log' \in Seq(Messages) /\ Len(log') <= MaxMessages
        BY <4>1, ReadGrows
      <4>3. replies' \in [Nums -> Seq(Replies)]
        BY <4>1, OneMore
      <4>4. QED
        BY <3>2, <4>1, <4>2, <4>3 DEF Read, RefuseUninitialized, Refuse, TypeOK
    <3>3. ASSUME NEW m \in Messages, RefuseShuttingDown(m) PROVE Base'
      <4>1. Read(m) /\ \E r \in Replies : Reply(Num, r)
        BY <3>3 DEF RefuseShuttingDown, Refuse, Replies
      <4>2. log' \in Seq(Messages) /\ Len(log') <= MaxMessages
        BY <4>1, ReadGrows
      <4>3. replies' \in [Nums -> Seq(Replies)]
        BY <4>1, OneMore
      <4>4. QED
        BY <3>3, <4>1, <4>2, <4>3 DEF Read, RefuseShuttingDown, Refuse, TypeOK
    <3>4. ASSUME NEW m \in Messages, RefuseInitialized(m) PROVE Base'
      <4>1. Read(m) /\ \E r \in Replies : Reply(Num, r)
        BY <3>4 DEF RefuseInitialized, Refuse, Replies
      <4>2. log' \in Seq(Messages) /\ Len(log') <= MaxMessages
        BY <4>1, ReadGrows
      <4>3. replies' \in [Nums -> Seq(Replies)]
        BY <4>1, OneMore
      <4>4. QED
        BY <3>4, <4>1, <4>2, <4>3 DEF Read, RefuseInitialized, Refuse, TypeOK
    <3>5. ASSUME NEW m \in Messages, RefuseUnknown(m) PROVE Base'
      <4>1. Read(m) /\ \E r \in Replies : Reply(Num, r)
        BY <3>5 DEF RefuseUnknown, Refuse, Replies
      <4>2. log' \in Seq(Messages) /\ Len(log') <= MaxMessages
        BY <4>1, ReadGrows
      <4>3. replies' \in [Nums -> Seq(Replies)]
        BY <4>1, OneMore
      <4>4. QED
        BY <3>5, <4>1, <4>2, <4>3 DEF Read, RefuseUnknown, Refuse, TypeOK
    <3>6. ASSUME NEW m \in Messages, Initialize(m) PROVE Base'
      <4>1. Read(m) /\ \E r \in Replies : Reply(Num, r)
        BY <3>6 DEF Initialize, Outcomes, Replies
      <4>2. log' \in Seq(Messages) /\ Len(log') <= MaxMessages
        BY <4>1, ReadGrows
      <4>3. replies' \in [Nums -> Seq(Replies)]
        BY <4>1, OneMore
      <4>4. QED
        BY <3>6, <4>1, <4>2, <4>3 DEF Read, Initialize, TypeOK
    <3>7. ASSUME NEW m \in Messages, Shutdown(m) PROVE Base'
      <4>1. Read(m) /\ \E r \in Replies : Reply(Num, r)
        BY <3>7 DEF Shutdown, Outcomes, Replies
      <4>2. log' \in Seq(Messages) /\ Len(log') <= MaxMessages
        BY <4>1, ReadGrows
      <4>3. replies' \in [Nums -> Seq(Replies)]
        BY <4>1, OneMore
      <4>4. QED
        BY <3>7, <4>1, <4>2, <4>3 DEF Read, Shutdown, TypeOK
    <3>8. ASSUME NEW m \in Messages, DispatchRequest(m) PROVE Base'
      <4>1. Read(m) /\ m.id \in Ids
        BY <3>8 DEF DispatchRequest, Messages
      <4>2. workQueue' \in Seq(Nums)
        BY <3>8, <4>1, ReadGrows, AppendProperties DEF DispatchRequest, WorkerPool!Submit, TypeOK
      <4>3. QED
        BY <3>8, <4>1, <4>2, ReadGrows DEF DispatchRequest, WorkerPool!Submit, TypeOK
    <3>9. ASSUME NEW m \in Messages, Exit(m) PROVE Base'
      <4>1. Read(m)
        BY <3>9 DEF Exit
      <4>2. QED
        BY <3>9, <4>1, ReadGrows DEF Exit, TypeOK
    <3>10. ASSUME NEW m \in Messages, DropNotification(m) PROVE Base'
      <4>1. Read(m)
        BY <3>10 DEF DropNotification
      <4>2. QED
        BY <3>10, <4>1, ReadGrows DEF DropNotification, TypeOK
    <3>11. ASSUME NEW m \in Messages, Initialized(m) PROVE Base'
      <4>1. Read(m)
        BY <3>11 DEF Initialized
      <4>2. QED
        BY <3>11, <4>1, ReadGrows DEF Initialized, TypeOK
    <3>12. ASSUME NEW m \in Messages, IgnoreResponse(m) PROVE Base'
      <4>1. Read(m)
        BY <3>12 DEF IgnoreResponse
      <4>2. QED
        BY <3>12, <4>1, ReadGrows DEF IgnoreResponse, TypeOK
    <3>13. ASSUME NEW m \in Messages, Cancel(m) PROVE Base'
      <4>1. Read(m) /\ m.id \in Ids
        BY <3>13 DEF Cancel, Messages
      <4>2. cancelled' \subseteq Nums /\ cancelSeen' \subseteq Nums
        BY <3>13, <4>1 DEF Cancel, TypeOK
      <4>3. QED
        BY <3>13, <4>1, <4>2, ReadGrows DEF Cancel, TypeOK
    <3>14. ASSUME NEW m \in Messages, DispatchSync(m) PROVE Base'
      <4>1. Read(m)
        BY <3>14 DEF DispatchSync
      <4>2. syncQueue' \in Seq(Nums)
        BY <3>14, <4>1, ReadGrows, AppendProperties DEF DispatchSync, SyncExecutor!Submit, TypeOK
      <4>3. QED
        BY <3>14, <4>1, <4>2, ReadGrows DEF DispatchSync, SyncExecutor!Submit, TypeOK
    <3>15. ASSUME NEW m \in Messages, DispatchNotification(m) PROVE Base'
      <4>1. Read(m)
        BY <3>15 DEF DispatchNotification
      <4>2. workQueue' \in Seq(Nums)
        BY <3>15, <4>1, ReadGrows, AppendProperties DEF DispatchNotification, WorkerPool!Submit, TypeOK
      <4>3. QED
        BY <3>15, <4>1, <4>2, ReadGrows DEF DispatchNotification, WorkerPool!Submit, TypeOK
    <3>16. ASSUME NEW m \in Messages, DispatchResponse(m) PROVE Base'
      <4>1. Read(m)
        BY <3>16 DEF DispatchResponse
      <4>2. workQueue' \in Seq(Nums)
        BY <3>16, <4>1, ReadGrows, AppendProperties DEF DispatchResponse, WorkerPool!Submit, TypeOK
      <4>3. QED
        BY <3>16, <4>1, <4>2, ReadGrows DEF DispatchResponse, WorkerPool!Submit, TypeOK
    <3>17. ASSUME EndOfInput \/ RunThrows PROVE Base'
      BY <3>17 DEF EndOfInput, RunThrows, ReaderGoes, TypeOK
    <3>18. ASSUME HookReturns PROVE Base'
      BY <3>18 DEF HookReturns, ReaderGoes, TypeOK
    <3>19. ASSUME LeaveLoop PROVE Base'
      BY <3>19 DEF LeaveLoop, ReaderGoes, TypeOK
    <3>20. ASSUME CloseSync PROVE Base'
      BY <3>20 DEF CloseSync, ReaderGoes, After, TypeOK, SyncExecutor!Close
    <3>21. ASSUME JoinSync PROVE Base'
      BY <3>21 DEF JoinSync, ReaderGoes, After, TypeOK, SyncExecutor!Join
    <3>22. ASSUME CloseWorkers PROVE Base'
      BY <3>22 DEF CloseWorkers, ReaderGoes, After, TypeOK, WorkerPool!Close
    <3>23. ASSUME JoinWorkers PROVE Base'
      BY <3>23 DEF JoinWorkers, ReaderGoes, After, Result, TypeOK, WorkerPool!Join
    <3>24. ASSUME NEW w \in Workers, Start(w) PROVE Base'
      <4>1. Head(workQueue) \in Nums /\ Tail(workQueue) \in Seq(Nums)
        BY <3>24, HeadTailProperties DEF Start, WorkerPool!Start, TypeOK
      <4>2. Head(workQueue) # None
        BY <4>1, ServerAssumption DEF Nums, None
      <4>3. /\ workQueue' \in Seq(Nums)
            /\ working' \in [Workers -> Nums \cup {None}]
            /\ workPhase' = workPhase
        BY <3>24, <4>1 DEF Start, WorkerPool!Start, TypeOK
      <4>4. stage' \in [Workers -> {"idle", "begin", "user", "erase"}]
        BY <3>24 DEF Start, TypeOK
      <4>5. entered' \subseteq Nums
        BY <3>24, <4>1 DEF Start, TypeOK
      <4>6. TypeOK'
        BY <3>24, <4>3, <4>4, <4>5 DEF Start, TypeOK
      <4>7. StageBusy'
        BY <3>24, <4>1, <4>2 DEF Start, WorkerPool!Start, TypeOK
      <4>8. QED
        BY <4>6, <4>7
    <3>25. ASSUME NEW w \in Workers, AnswerCancelled(w) PROVE Base'
      <4>1. replies' \in [Nums -> Seq(Replies)]
        BY <3>25, OneMore DEF AnswerCancelled, Replies
      <4>2. QED
        BY <3>25, <4>1 DEF AnswerCancelled, TaskFrame, TypeOK
    <3>26. ASSUME NEW w \in Workers, EnterHandler(w) PROVE Base'
      <4>1. working[w] \in Nums
        BY <3>26 DEF EnterHandler, TypeOK
      <4>2. QED
        BY <3>26, <4>1 DEF EnterHandler, TaskFrame, TypeOK
    <3>27. ASSUME NEW w \in Workers, HandlerEnds(w) PROVE Base'
      <4>1. replies' \in [Nums -> Seq(Replies)]
        BY <3>27, OneMore DEF HandlerEnds, Replies
      <4>2. QED
        BY <3>27, <4>1 DEF HandlerEnds, TaskFrame, TypeOK
    <3>28. ASSUME NEW w \in Workers, EraseToken(w) PROVE Base'
      <4>1. /\ cancellationTokens' \in [Ids -> Nums \cup {None}]
            /\ working' \in [Workers -> Nums \cup {None}]
            /\ stage' \in [Workers -> {"idle", "begin", "user", "erase"}]
            /\ UNCHANGED <<workQueue, workPhase>>
        BY <3>28 DEF EraseToken, WorkerPool!Finish, TypeOK
      <4>2. UNCHANGED <<lifeVars, cancelled, syncVars, callVars, pendingRequests, log,
                        replies, historyVars>>
        BY <3>28 DEF EraseToken
      <4>3. TypeOK'
        BY <4>1, <4>2 DEF TypeOK
      <4>4. StageBusy'
        BY <3>28 DEF EraseToken, WorkerPool!Finish, TypeOK
      <4>5. QED
        BY <4>3, <4>4
    <3>29. ASSUME NEW w \in Workers, TaskEnds(w) PROVE Base'
      BY <3>29 DEF TaskEnds, WorkerPool!Finish, TypeOK
    <3>30. ASSUME SyncStart PROVE Base'
      <4>1. Head(syncQueue) \in Nums /\ Tail(syncQueue) \in Seq(Nums)
        BY <3>30, HeadTailProperties DEF SyncStart, SyncExecutor!Start, TypeOK
      <4>2. QED
        BY <3>30, <4>1 DEF SyncStart, SyncExecutor!Start, TypeOK
    <3>31. ASSUME SyncFinish PROVE Base'
      <4>1. syncing[SyncWorker] \in Nums
        BY <3>31 DEF SyncFinish, SyncExecutor!Finish, TypeOK
      <4>2. synced' \in Seq(Nums)
        BY <3>31, <4>1, AppendProperties DEF SyncFinish, TypeOK
      <4>3. /\ syncing' \in [{SyncWorker} -> Nums \cup {None}]
            /\ UNCHANGED <<syncQueue, syncPhase>>
        BY <3>31 DEF SyncFinish, SyncExecutor!Finish, TypeOK
      <4>4. UNCHANGED <<lifeVars, tokenVars, workVars, callVars, pendingRequests, log,
                        replies, submitted, entered, cancelSeen>>
        BY <3>31 DEF SyncFinish
      <4>5. TypeOK'
        BY <4>2, <4>3, <4>4 DEF TypeOK
      <4>6. StageBusy'
        BY <4>4
      <4>7. QED
        BY <4>5, <4>6
    <3>32. ASSUME NEW t \in Threads, AllocateId(t) PROVE Base'
      BY <3>32, ServerAssumption DEF AllocateId, CallFrame, TypeOK, OutIds
    <3>33. ASSUME NEW t \in Threads, RegisterCallback(t) PROVE Base'
      BY <3>33 DEF RegisterCallback, CallFrame, TypeOK
    <3>34. ASSUME NEW t \in Threads, SendRequest(t) PROVE Base'
      <4>1. 0 \in OutIds /\ callId[t] \in OutIds
        BY ServerAssumption DEF TypeOK, OutIds
      <4>2. QED
        BY <3>34, <4>1 DEF SendRequest, CallFrame, TypeOK
    <3>35. ASSUME UNCHANGED vars PROVE Base'
      BY <3>35 DEF vars, TypeOK
    <3>36. QED
      BY <3>1, <3>2, <3>3, <3>4, <3>5, <3>6, <3>7, <3>8, <3>9, <3>10, <3>11,
         <3>12, <3>13, <3>14, <3>15, <3>16, <3>17, <3>18, <3>19, <3>20,
         <3>21, <3>22, <3>23, <3>24, <3>25, <3>26, <3>27, <3>28, <3>29,
         <3>30, <3>31, <3>32, <3>33, <3>34, <3>35
         DEF Next, ReadMessage, StopServing, TaskStep, CallStep
  <2>2. Phases'
    <3> USE DEF IInv, Phases, lifeVars, workVars
    <3>1. ASSUME NEW m \in Messages, ReadMessage(m) PROVE Phases'
      BY <3>1 DEF ReadMessage, InvalidMessage, RefuseUninitialized, RefuseShuttingDown,
         RefuseInitialized, RefuseUnknown, Refuse, Initialize, Shutdown, DispatchRequest,
         Exit, DropNotification, Initialized, Cancel, DispatchSync, DispatchNotification,
         IgnoreResponse, DispatchResponse, WorkerPool!Submit, Read
    <3>2. ASSUME StopServing \/ EndOfInput \/ RunThrows \/ HookReturns PROVE Phases'
      BY <3>2 DEF StopServing, EndOfInput, RunThrows, HookReturns, LeaveLoop, CloseSync,
         JoinSync, CloseWorkers, JoinWorkers, ReaderGoes, After, WorkerPool!Close,
         WorkerPool!Join
    <3>3. ASSUME NEW w \in Workers, Start(w) \/ TaskStep(w) PROVE Phases'
      BY <3>3 DEF Start, TaskStep, AnswerCancelled, EnterHandler, HandlerEnds, EraseToken,
         TaskEnds, TaskFrame, WorkerPool!Start, WorkerPool!Finish
    <3>4. ASSUME SyncStart \/ SyncFinish PROVE Phases'
      BY <3>4 DEF SyncStart, SyncFinish
    <3>5. ASSUME NEW t \in Threads, CallStep(t) PROVE Phases'
      BY <3>5 DEF CallStep, AllocateId, RegisterCallback, SendRequest, CallFrame
    <3>6. CASE UNCHANGED vars
      BY <3>6 DEF vars
    <3>7. QED
      BY <3>1, <3>2, <3>3, <3>4, <3>5, <3>6 DEF Next
  <2>3. Accounted'
    <3> USE DEF IInv
    <3>1. \/ Quiet \/ Returned
          \/ \E m \in Messages : Noted(m) \/ AnsweredAtOnce(m) \/ Queued(m)
          \/ \E w \in Workers : Taken(w) \/ Called(w) \/ AnsweredBy(w) \/ Left(w)
      BY Effects DEF Accounted
    <3>2. CASE Quiet \/ Returned
      BY <3>2 DEF Quiet, Returned, Accounted, Stages, Known, OnePlace, Unread, OneReply,
         Queue, IsKind, NeedsReply, InFlight, ForWorkers
    <3>3. ASSUME NEW w \in Workers, Called(w) PROVE Accounted'
      <4> USE DEF Accounted, Base
      <4>1. /\ UNCHANGED <<workQueue, working, replies, log>>
            /\ stage[w] = "begin" /\ stage'[w] = "user"
            /\ \A v \in Workers : v # w => stage'[v] = stage[v]
        BY <3>3 DEF Called, TypeOK
      <4>2. Stages' /\ Known' /\ OnePlace' /\ Unread'
        BY <4>1 DEF Stages, IsKind, Known, ForWorkers, OnePlace, Queue, Unread
      <4>3. ASSUME NEW n PROVE InFlight(n)' <=> InFlight(n)
        BY <4>1 DEF InFlight
      <4>4. OneReply'
        BY <4>1, <4>3 DEF OneReply, NeedsReply
      <4>5. QED
        BY <4>2, <4>4
    \* Reading a message moves no task.
    <3>4. ASSUME NEW m \in Messages, Read(m),
                 UNCHANGED <<workQueue, working, stage>>
          PROVE  Stages' /\ Known' /\ OnePlace'
      <4> USE <3>4
      <4>1. /\ 1 .. Len(log) \subseteq 1 .. Len(log')
            /\ \A n \in 1 .. Len(log) : log'[n] = log[n]
        BY ReadGrows DEF Base
      <4>2. Stages'
        <5>1. ASSUME NEW w \in Workers, stage[w] \in {"begin", "erase"}
              PROVE  working[w] \in 1 .. Len(log') /\ log'[working[w]].kind = "request"
          BY <5>1, <4>1 DEF Accounted, Stages, IsKind
        <5>2. QED
          BY <5>1 DEF Stages, IsKind
      <4>3. Known'
        BY <4>1 DEF Accounted, Known, Queue, ForWorkers
      <4>4. OnePlace'
        BY DEF Accounted, OnePlace, Queue
      <4>5. QED
        BY <4>2, <4>3, <4>4
    \* A message that needs no answer was read.
    <3>5. ASSUME NEW m \in Messages, Noted(m) PROVE Accounted'
      <4> USE DEF Accounted, Base
      <4>1. Read(m) /\ UNCHANGED <<workQueue, working, stage, replies>>
        BY <3>5 DEF Noted
      <4>2. Stages' /\ Known' /\ OnePlace' /\ Unread'
        <5>1. Stages' /\ Known' /\ OnePlace'
          BY <4>1, <3>4
        <5>2. Len(log') = Len(log) + 1 /\ Len(log) \in Nat
          BY <4>1, ReadGrows
        <5>3. Unread'
          BY <4>1, <5>2 DEF Unread, Nums
        <5>4. QED
          BY <5>1, <5>3
      <4>3. ASSUME NEW n \in 1 .. Len(log')
            PROVE  Len(replies'[n]) = IF NeedsReply(n)' /\ ~InFlight(n)' THEN 1 ELSE 0
        <5>1. InFlight(n)' = InFlight(n) /\ replies'[n] = replies[n]
          BY <4>1 DEF InFlight
        <5>2. CASE n \in 1 .. Len(log)
          BY <5>1, <5>2, <4>1, ReadGrows DEF OneReply
        <5>3. CASE n = Num
          <6>1. replies[n] = <<>> /\ ~NeedsReply(n)'
            BY <4>1, <5>3, <3>5, ReadGrows DEF Unread, Noted, NeedsReply
          <6>2. QED
            BY <5>1, <6>1
        <5>4. QED
          BY <4>1, <4>3, <5>2, <5>3, ReadGrows
      <4>4. QED
        BY <4>2, <4>3 DEF OneReply
    \* A step that answers a request on the read thread keeps the account.
    <3>6. ASSUME NEW m \in Messages, AnsweredAtOnce(m) PROVE Accounted'
      <4> USE <3>6
      <4> USE DEF Accounted, Base
      <4>1. Read(m) /\ UNCHANGED <<workQueue, working, stage>>
        BY DEF AnsweredAtOnce
      <4>2. PICK r \in Replies : Reply(Num, r)
        BY DEF AnsweredAtOnce
      <4>3. /\ Len(replies'[Num]) = Len(replies[Num]) + 1
            /\ \A k \in Nums : k # Num => replies'[k] = replies[k]
        BY <4>1, <4>2, ReadGrows, OneMore
      <4>4. 1 .. Len(log) \subseteq Nums
        <5>1. Len(log) \in Nat /\ Len(log) <= MaxMessages
          BY <4>1, ReadGrows DEF TypeOK
        <5>2. QED
          BY <5>1, ServerAssumption DEF Nums
      <4>5. Stages' /\ Known' /\ OnePlace'
        BY <4>1, <3>4
      <4>6. Unread'
        <5>1. Len(log') = Len(log) + 1 /\ Len(log) \in Nat /\ Num = Len(log) + 1
          BY <4>1, ReadGrows
        <5>2. ASSUME NEW n \in Nums, n > Len(log') PROVE replies'[n] = <<>>
          BY <5>1, <5>2, <4>3 DEF Unread, Nums
        <5>3. QED
          BY <5>2 DEF Unread
      <4>7. ASSUME NEW n \in 1 .. Len(log')
            PROVE  Len(replies'[n]) = IF NeedsReply(n)' /\ ~InFlight(n)' THEN 1 ELSE 0
        <5>1. InFlight(n)' <=> InFlight(n)
          BY <4>1 DEF InFlight
        <5>2. CASE n \in 1 .. Len(log)
          <6>1. replies'[n] = replies[n]
            BY <4>1, <4>3, <4>4, <5>2, ReadGrows
          <6>2. QED
            BY <5>1, <5>2, <6>1, <4>1, ReadGrows DEF OneReply
        <5>3. CASE n = Num
          <6>1. replies[n] = <<>> /\ NeedsReply(n)'
            BY <4>1, <5>3, ReadGrows DEF Unread, AnsweredAtOnce, NeedsReply
          <6>2. n \notin 1 .. Len(log) /\ n # None
            BY <4>1, <5>3, ReadGrows DEF None
          <6>3. ~InFlight(n)
            BY <6>2 DEF InFlight, Known, Queue, ForWorkers
          <6>4. Len(replies'[n]) = 1
            BY <4>3, <5>3, <6>1
          <6>5. QED
            BY <5>1, <6>1, <6>3, <6>4
        <5>4. QED
          BY <4>1, <4>7, <5>2, <5>3, ReadGrows
      <4>8. QED
        BY <4>5, <4>6, <4>7 DEF OneReply
    \* Queueing a message puts it in flight without an answer.
    <3>7. ASSUME NEW m \in Messages, Queued(m) PROVE Accounted'
      <4> USE <3>7
      <4> USE DEF Accounted, Base
      <4>1. /\ Read(m) /\ UNCHANGED <<working, stage, replies>>
            /\ workQueue' = Append(workQueue, Num)
            /\ m.kind \in {"request", "notification", "response"}
        BY DEF Queued
      <4>2. /\ Num \notin 1 .. Len(log) /\ Num \in 1 .. Len(log') /\ log'[Num] = m
            /\ 1 .. Len(log) \subseteq 1 .. Len(log')
            /\ \A n \in 1 .. Len(log) : log'[n] = log[n]
        BY <4>1, ReadGrows
      <4>3. workQueue \in Seq(Nums) /\ Num \in Nums
        BY <4>1, ReadGrows DEF TypeOK
      <4>4. Queue' = Queue \cup {Num} /\ Num \notin Queue
        BY <4>1, <4>2, <4>3, RangeAppend DEF Queue, Known, ForWorkers
      <4>5. Stages'
        <5>1. ASSUME NEW w \in Workers, stage[w] \in {"begin", "erase"}
              PROVE  working[w] \in 1 .. Len(log') /\ log'[working[w]].kind = "request"
          BY <5>1, <4>2 DEF Stages, IsKind
        <5>2. QED
          BY <5>1, <4>1 DEF Stages, IsKind
      <4>6. Known'
        BY <4>1, <4>2, <4>4 DEF Known, ForWorkers
      <4>7. OnePlace'
        <5>1. IsInjective(workQueue')
          BY <4>1, <4>3, <4>4, RangeAppend DEF OnePlace, Queue
        <5>2. \A w \in Workers : working[w] # None => working[w] # Num
          BY <4>2 DEF Known, ForWorkers
        <5>3. QED
          BY <4>1, <4>4, <5>1, <5>2 DEF OnePlace
      <4>8. Unread'
        <5>1. Len(log') = Len(log) + 1 /\ Len(log) \in Nat
          BY <4>1, ReadGrows
        <5>2. QED
          BY <4>1, <5>1 DEF Unread, Nums
      <4>9. ASSUME NEW n \in 1 .. Len(log')
            PROVE  Len(replies'[n]) = IF NeedsReply(n)' /\ ~InFlight(n)' THEN 1 ELSE 0
        <5>1. CASE n \in 1 .. Len(log)
          <6>1. InFlight(n)' <=> InFlight(n)
            BY <4>1, <4>2, <4>4, <5>1 DEF InFlight, Queue
          <6>2. QED
            BY <4>1, <5>1, <6>1, ReadGrows DEF OneReply
        <5>2. CASE n = Num
          <6>1. InFlight(n)'
            BY <4>4, <5>2 DEF InFlight, Queue
          <6>2. replies[n] = <<>>
            BY <4>1, <5>2, ReadGrows DEF Unread
          <6>3. QED
            BY <4>1, <6>1, <6>2
        <5>3. QED
          BY <4>1, <4>9, <5>1, <5>2, ReadGrows
      <4>10. QED
        BY <4>5, <4>6, <4>7, <4>8, <4>9 DEF OneReply
    \* Taking a task moves it from the queue to the worker.
    <3>8. ASSUME NEW w \in Workers, Taken(w) PROVE Accounted'
      <4> USE <3>8
      <4> USE DEF Accounted, Base
      <4> DEFINE h == Head(workQueue)
      <4>1. /\ working[w] = None /\ working' = [working EXCEPT ![w] = h]
            /\ workQueue # <<>> /\ workQueue' = Tail(workQueue)
            /\ UNCHANGED <<replies, log>>
        BY DEF Taken
      <4>2. workQueue \in Seq(Nums) /\ working \in [Workers -> Nums \cup {None}]
        BY DEF TypeOK
      <4>3. /\ IsInjective(workQueue') /\ h \in Queue /\ h \notin Queue'
            /\ Queue = Queue' \cup {h}
        BY <4>1, <4>2, RangeTail DEF OnePlace, Queue
      <4>4. h \in ForWorkers /\ h # None
        <5>1. h \in ForWorkers
          BY <4>3 DEF Known
        <5>2. \A n \in ForWorkers : n # None
          BY DEF ForWorkers, None
        <5>3. QED
          BY <5>1, <5>2
      <4>5. working'[w] = h /\ \A v \in Workers : v # w => working'[v] = working[v]
        BY <4>1, <4>2
      <4>6. /\ stage'[w] \in {"begin", "user"}
            /\ stage'[w] = "begin" => IsKind(h, "request")
            /\ \A v \in Workers : v # w => stage'[v] = stage[v]
        BY DEF Taken, TypeOK
      <4>7. Stages'
        BY <4>1, <4>5, <4>6 DEF Stages, IsKind
      <4>8. Known'
        BY <4>1, <4>3, <4>4, <4>5 DEF Known, ForWorkers
      <4>9. OnePlace'
        <5>1. \A v \in Workers : v # w => working[v] # h
          BY <4>3, <4>4 DEF OnePlace
        <5>2. QED
          BY <4>3, <4>5, <5>1 DEF OnePlace
      <4>10. Unread'
        BY <4>1 DEF Unread
      <4>11. ASSUME NEW n \in 1 .. Len(log) PROVE InFlight(n)' <=> InFlight(n)
        <5>1. n # None
          BY <4>11 DEF None
        <5>2. CASE n = h
          BY <4>3, <4>5, <4>6, <5>2 DEF InFlight, Queue
        <5>3. CASE n # h
          BY <4>1, <4>3, <4>5, <4>6, <5>1, <5>3 DEF InFlight, Queue
        <5>4. QED
          BY <5>2, <5>3
      <4>12. OneReply'
        BY <4>1, <4>11 DEF OneReply, NeedsReply
      <4>13. QED
        BY <4>7, <4>8, <4>9, <4>10, <4>12
    \* A worker's answer takes its request out of flight.
    <3>9. ASSUME NEW w \in Workers, AnsweredBy(w) PROVE Accounted'
      <4> USE <3>9
      <4> USE DEF Accounted, Base
      <4> DEFINE k == working[w]
      <4>1. /\ UNCHANGED <<workQueue, working, log>>
            /\ stage[w] # "erase" /\ stage'[w] = "erase"
            /\ IsKind(k, "request")
            /\ \A v \in Workers : v # w => stage'[v] = stage[v]
        BY DEF AnsweredBy, TypeOK
      <4>2. k \in 1 .. Len(log) /\ log[k].kind = "request" /\ k # None
        <5>1. k \in 1 .. Len(log) /\ log[k].kind = "request"
          BY <4>1 DEF IsKind
        <5>2. QED
          BY <5>1 DEF None
      <4>3. k \in Nums
        BY <4>2 DEF TypeOK
      <4>4. PICK r \in Replies : Reply(k, r)
        BY DEF AnsweredBy
      <4>5. /\ Len(replies'[k]) = Len(replies[k]) + 1
            /\ \A n \in Nums : n # k => replies'[n] = replies[n]
        BY <4>3, <4>4, OneMore
      <4>6. Stages' /\ Known' /\ OnePlace'
        BY <4>1 DEF Stages, IsKind, Known, ForWorkers, OnePlace, Queue
      <4>7. 1 .. Len(log) \subseteq Nums /\ \A n \in Nums : n > Len(log) => n # k
        <5>1. Len(log) \in Nat /\ Len(log) <= MaxMessages
          BY LenProperties DEF TypeOK
        <5>2. QED
          BY <4>2, <5>1, ServerAssumption DEF Nums
      <4>8. Unread'
        BY <4>1, <4>5, <4>7 DEF Unread
      <4>9. ASSUME NEW n \in 1 .. Len(log)
            PROVE  Len(replies'[n]) = IF NeedsReply(n)' /\ ~InFlight(n)' THEN 1 ELSE 0
        <5>1. CASE n = k
          <6>1. InFlight(n) /\ NeedsReply(n)
            BY <4>1, <4>2, <5>1, OnlyHere DEF NeedsReply, RequestKinds
          <6>2. ~InFlight(n)'
            BY <4>1, <4>2, <5>1 DEF OnePlace, InFlight, Queue
          <6>3. Len(replies[n]) = 0
            BY <6>1 DEF OneReply
          <6>4. Len(replies'[n]) = 1
            BY <4>5, <5>1, <6>3
          <6>5. NeedsReply(n)'
            BY <4>1, <6>1 DEF NeedsReply
          <6>6. QED
            BY <6>2, <6>4, <6>5
        <5>2. CASE n # k
          <6>1. InFlight(n)' <=> InFlight(n)
            BY <4>1, <5>2 DEF InFlight
          <6>2. replies'[n] = replies[n]
            BY <4>5, <4>7, <5>2
          <6>3. QED
            BY <4>1, <6>1, <6>2 DEF OneReply, NeedsReply
        <5>3. QED
          BY <5>1, <5>2
      <4>10. OneReply'
        BY <4>1, <4>9 DEF OneReply
      <4>11. QED
        BY <4>6, <4>8, <4>10
    \* What leaves a worker has been answered, or needs no answer.
    <3>10. ASSUME NEW w \in Workers, Left(w) PROVE Accounted'
      <4> USE <3>10
      <4> USE DEF Accounted, Base
      <4>1. /\ UNCHANGED <<workQueue, replies, log>>
            /\ stage[w] = "erase" \/ ~IsKind(working[w], "request")
            /\ working'[w] = None /\ stage'[w] = "idle"
            /\ \A v \in Workers : v # w => stage'[v] = stage[v] /\ working'[v] = working[v]
        BY DEF Left, TypeOK
      <4>2. Stages' /\ Known' /\ OnePlace' /\ Unread'
        BY <4>1 DEF Stages, IsKind, Known, ForWorkers, OnePlace, Queue, Unread
      <4>3. ASSUME NEW n \in 1 .. Len(log)
            PROVE  NeedsReply(n) /\ ~InFlight(n) <=> (NeedsReply(n) /\ ~InFlight(n))'
        <5>1. n # None /\ (NeedsReply(n)' <=> NeedsReply(n))
          BY <4>1, <4>3 DEF None, NeedsReply
        <5>2. CASE n # working[w]
          <6>1. InFlight(n)' <=> InFlight(n)
            BY <4>1, <5>1, <5>2 DEF InFlight
          <6>2. QED
            BY <5>1, <6>1
        <5>3. CASE n = working[w] /\ stage[w] = "erase"
          <6>1. ~InFlight(n)
            BY <5>1, <5>3, OnlyHere
          <6>2. ~InFlight(n)'
            BY <4>1, <5>1, <5>3 DEF OnePlace, InFlight, Queue
          <6>3. QED
            BY <5>1, <6>1, <6>2
        <5>4. CASE n = working[w] /\ ~IsKind(working[w], "request")
          <6>1. log[n].kind \in {"notification", "response"}
            BY <4>3, <5>1, <5>4 DEF Known, ForWorkers, IsKind
          <6>2. ~NeedsReply(n)
            BY <6>1 DEF NeedsReply, RequestKinds
          <6>3. QED
            BY <5>1, <6>2
        <5>5. QED
          BY <4>1, <5>2, <5>3, <5>4
      <4>4. OneReply'
        BY <4>1, <4>3 DEF OneReply
      <4>5. QED
        BY <4>2, <4>4
    <3>11. QED
      BY <3>1, <3>2, <3>3, <3>5, <3>6, <3>7, <3>8, <3>9, <3>10
  <2>4. QED
    BY <2>1, <2>2, <2>3 DEF IInv
<1>3. QED
  BY <1>1, <1>2, PTL DEF Spec

\* The state of the server has its type.
THEOREM TypeCorrect == Spec => []TypeOK
<1>1. IInv => TypeOK
  BY DEF IInv, Base
<1>2. QED
  BY <1>1, Inductive, PTL

\* Every request that is not queued or on a worker has exactly one answer.
THEOREM EachRequestOneReply == Spec => []OneReply
<1>1. IInv => OneReply
  BY DEF IInv, Accounted
<1>2. QED
  BY <1>1, Inductive, PTL

-----------------------------------------------------------------------------
(* The server implements RpcContract *)

\* The requests read so far, and how often each message was answered.
Asked == {n \in 1 .. Len(log) : NeedsReply(n)}
Answers == [n \in Nums |-> Len(replies[n])]

Mapped == <<Asked, Answers, Serving>>

(***************************************************************************)
(* Every request the server reads is answered at most once, and the        *)
(* workers are not joined before each has its answer, whether run returns  *)
(* or throws: the safety part of ImplementsContract.                       *)
(***************************************************************************)
THEOREM RefinesContract == Spec => Contract!SafeSpec
<1>1. Init => Contract!Init
  <2> SUFFICES ASSUME Init PROVE Contract!Init
    OBVIOUS
  <2>1. log = <<>> /\ replies = [n \in Nums |-> <<>>] /\ workPhase = "open"
    BY DEF Init, WorkerPool!Init
  <2>2. 1 .. Len(log) = {} /\ Len(<<>>) = 0
    BY <2>1
  <2>3. [n \in Nums |-> Len(replies[n])] = [n \in Nums |-> 0]
    BY <2>1, <2>2
  <2>4. QED
    BY <2>1, <2>2, <2>3 DEF Contract!Init, Serving
<1>2. IInv /\ [Next]_vars => [Contract!Next]_Mapped
  <2> SUFFICES ASSUME IInv, [Next]_vars PROVE [Contract!Next]_Mapped
    OBVIOUS
  <2> USE DEF Mapped
  \* Reading a message adds it to the requests, if it needs a reply.
  <2>1. ASSUME NEW m \in Messages, Read(m)
        PROVE  /\ Num \in Nums
               /\ Num \notin Asked
               /\ Answers[Num] = 0
               /\ Serving
               /\ Asked' = IF m.kind \in RequestKinds \cup {"invalid"}
                             THEN Asked \cup {Num} ELSE Asked
    <3>1. /\ Num \in Nums /\ Num \notin 1 .. Len(log) /\ log'[Num] = m
          /\ 1 .. Len(log') = (1 .. Len(log)) \cup {Num}
          /\ Num > Len(log)
      BY <2>1, ReadGrows DEF IInv, Base
    <3>2. \A n \in 1 .. Len(log) : NeedsReply(n)' <=> NeedsReply(n)
      BY <2>1, ReadGrows DEF IInv, Base
    <3>3. Num \notin Asked
      BY <3>1 DEF Asked
    <3>4. Answers[Num] = 0
      BY <3>1 DEF Answers, IInv, Accounted, Unread
    <3>5. Serving
      BY <2>1 DEF Serving, Read, IInv, Phases
    <3>6. \A n \in 1 .. Len(log') :
            NeedsReply(n)' <=>
              IF n = Num THEN m.kind \in RequestKinds \cup {"invalid"} ELSE NeedsReply(n)
      BY <3>1, <3>2 DEF NeedsReply
    <3>7. Asked' = IF m.kind \in RequestKinds \cup {"invalid"}
                     THEN Asked \cup {Num} ELSE Asked
      BY <3>1, <3>6 DEF Asked
    <3>8. QED
      BY <3>1, <3>3, <3>4, <3>5, <3>7
  \* A reply to a message without one counts once.
  <2>2. ASSUME NEW n \in Nums, NEW r \in Replies, Reply(n, r), Answers[n] = 0
        PROVE  Answers' = [Answers EXCEPT ![n] = 1]
    <3>1. /\ Len(replies'[n]) = Len(replies[n]) + 1
          /\ \A k \in Nums : k # n => replies'[k] = replies[k]
      BY <2>2, OneMore DEF IInv, Base
    <3>2. Len(replies[n]) = 0
      BY <2>2 DEF Answers
    <3>3. Len(replies'[n]) = 1 /\ \A k \in Nums : k # n => Len(replies'[k]) = Len(replies[k])
      BY <3>1, <3>2
    <3>4. Answers' = [k \in Nums |-> IF k = n THEN 1 ELSE Answers[k]]
      BY <3>3 DEF Answers
    <3>5. QED
      BY <3>4 DEF Answers
  <2>3. \/ Quiet \/ Returned
        \/ \E m \in Messages : Noted(m) \/ AnsweredAtOnce(m) \/ Queued(m)
        \/ \E w \in Workers : Taken(w) \/ Called(w) \/ AnsweredBy(w) \/ Left(w)
    BY Effects DEF IInv, Accounted
  <2>4. ASSUME UNCHANGED <<replies, log, Serving>> PROVE UNCHANGED Mapped
    BY <2>4 DEF Asked, Answers, NeedsReply
  <2>5. CASE Quiet \/ \E w \in Workers : Taken(w) \/ Called(w) \/ Left(w)
    BY <2>4, <2>5 DEF Quiet, Taken, Called, Left
  <2>6. ASSUME NEW m \in Messages, Noted(m) PROVE UNCHANGED Mapped
    <3>1. Asked' = Asked /\ Serving
      BY <2>1, <2>6 DEF Noted
    <3>2. Answers' = Answers /\ Serving' = Serving
      BY <2>6, <3>1 DEF Noted, Answers, Serving
    <3>3. QED
      BY <3>1, <3>2
  <2>7. ASSUME NEW m \in Messages, AnsweredAtOnce(m) PROVE Contract!Next
    <3>1. PICK r \in Replies : Reply(Num, r)
      BY <2>7 DEF AnsweredAtOnce
    <3>2. /\ Num \in Nums /\ Num \notin Asked /\ Asked' = Asked \cup {Num}
          /\ Answers[Num] = 0 /\ Serving /\ UNCHANGED Serving
      BY <2>1, <2>7 DEF AnsweredAtOnce
    <3>3. Answers' = [Answers EXCEPT ![Num] = 1]
      BY <2>1, <2>2, <2>7, <3>1, <3>2 DEF AnsweredAtOnce
    <3>4. QED
      BY <3>2, <3>3 DEF Contract!Next, Contract!AskAndAnswer, Asked, Answers, Serving
  <2>8. ASSUME NEW m \in Messages, Queued(m)
        PROVE  Contract!Next \/ UNCHANGED Mapped
    <3>1. /\ Num \in Nums /\ Num \notin Asked /\ Serving /\ UNCHANGED Serving
          /\ Asked' = IF m.kind \in RequestKinds \cup {"invalid"}
                        THEN Asked \cup {Num} ELSE Asked
      BY <2>1, <2>8 DEF Queued
    <3>2. Answers' = Answers
      BY <2>8 DEF Queued, Answers
    <3>3. QED
      BY <3>1, <3>2 DEF Contract!Next, Contract!Ask, Asked, Answers, Serving
  <2>9. ASSUME NEW w \in Workers, AnsweredBy(w) PROVE Contract!Next
    <3>1. PICK r \in Replies : Reply(working[w], r)
      BY <2>9 DEF AnsweredBy
    <3>2. /\ working[w] \in 1 .. Len(log) /\ log[working[w]].kind = "request"
          /\ working[w] # None /\ stage[w] # "erase"
      BY <2>9 DEF AnsweredBy, IsKind, None
    <3>3. working[w] \in Nums /\ working[w] \in Asked
      BY <3>2 DEF IInv, Base, TypeOK, Asked, NeedsReply, RequestKinds
    <3>4. Answers[working[w]] = 0
      <4>1. InFlight(working[w])
        BY <3>2, OnlyHere DEF IInv, Accounted
      <4>2. Len(replies[working[w]]) = 0
        BY <3>2, <4>1 DEF IInv, Accounted, OneReply
      <4>3. QED
        BY <3>3, <4>2 DEF Answers
    <3>5. Answers' = [Answers EXCEPT ![working[w]] = 1]
      BY <2>2, <3>1, <3>3, <3>4
    <3>6. Asked' = Asked /\ Serving' = Serving
      BY <2>9 DEF AnsweredBy, Asked, NeedsReply
    <3>7. QED
      BY <3>3, <3>4, <3>5, <3>6 DEF Contract!Next, Contract!Answer, Asked, Answers, Serving
  <2>10. ASSUME Returned PROVE Contract!Next
    <3>1. \A n \in 1 .. Len(log) : ~InFlight(n)
      BY <2>10 DEF Returned, InFlight, Range, None
    <3>2. \A n \in Asked : n \in Nums /\ Answers[n] = 1
      <4>1. 1 .. Len(log) \subseteq Nums
        <5>1. Len(log) \in Nat /\ Len(log) <= MaxMessages
          BY LenProperties DEF IInv, Base, TypeOK
        <5>2. QED
          BY <5>1, ServerAssumption DEF Nums
      <4>2. QED
        BY <3>1, <4>1 DEF Asked, Answers, IInv, Accounted, OneReply
    <3>3. Asked' = Asked /\ Answers' = Answers /\ Serving /\ Serving' = FALSE
      BY <2>10 DEF Returned, Asked, Answers, NeedsReply, Serving
    <3>4. QED
      BY <3>2, <3>3 DEF Contract!Next, Contract!Stop, Asked, Answers, Serving
  <2>11. QED
    BY <2>3, <2>5, <2>6, <2>7, <2>8, <2>9, <2>10
<1>3. [Contract!Next]_Mapped => [Contract!Next]_(Contract!vars)
  BY DEF Mapped, Contract!vars, Asked, Answers, Serving
<1>4. QED
  BY <1>1, <1>2, <1>3, Inductive, PTL DEF Spec, Contract!SafeSpec
-----------------------------------------------------------------------------
(***************************************************************************)
(* Cancellation, with a client that never uses an id again: the table      *)
(* holds the requests that are queued or on a worker, and a request that   *)
(* is cancelled while it waits never reaches its handler.                  *)
(***************************************************************************)

\* The message is queued or on a worker.
Placed(n) == n \in Queue \/ \E w \in Workers : working[w] = n

Requested == ReadOf("request")

-----------------------------------------------------------------------------
(* The account of tokens and cancellations, next to IInv *)

\* The serial executor gets document notifications, and who is in user code
\* has been entered.
Handed ==
  /\ \A i \in 1 .. Len(syncQueue) : syncQueue[i] \in ReadOf("sync")
  /\ \A w \in Workers : stage[w] = "user" => working[w] \in entered

\* Every request on its way has its token, and every token its request.
Tokens ==
  /\ \A n \in Requested : Placed(n) => cancellationTokens[log[n].id] = n
  /\ \A i \in Ids : cancellationTokens[i] # None =>
       /\ cancellationTokens[i] \in Requested \cap submitted
       /\ Placed(cancellationTokens[i])
       /\ log[cancellationTokens[i]].id = i
  /\ \A n \in Requested : log[n].id \in Ids
  /\ \A n, k \in Requested : log[n].id = log[k].id => n = k

\* A request cancelled before its handler was called has its token set.
Cancels ==
  \A n \in cancelSeen :
    /\ n \in Requested \cap cancelled
    /\ n \notin entered
    /\ replies[n] \in {<<>>, <<"cancelled">>}

-----------------------------------------------------------------------------
(* The steps, by what they do to this account *)

\* The steps that end run, the steps of sendRequest, the end of a sync task.
Apart ==
  UNCHANGED <<cancellationTokens, cancelled, workQueue, working, stage, syncQueue,
              log, replies, submitted, entered, cancelSeen>>

\* What reading a message may do.
Reading(m) ==
  /\ Read(m)
  /\ UNCHANGED <<working, stage, entered>>
  /\ \/ UNCHANGED syncQueue
     \/ m.kind = "sync" /\ syncQueue' = Append(syncQueue, Num)
  /\ submitted' \in {submitted, submitted \cup {Num}}
  /\ \/ UNCHANGED <<workQueue, cancellationTokens>>
     \/ /\ m.kind \in {"notification", "response"}
        /\ workQueue' = Append(workQueue, Num)
        /\ UNCHANGED cancellationTokens
     \/ /\ m.kind = "request"
        /\ workQueue' = Append(workQueue, Num)
        /\ submitted' = submitted \cup {Num}
        /\ cancellationTokens' = [cancellationTokens EXCEPT ![m.id] = Num]
  /\ UNCHANGED <<cancelled, cancelSeen>> \/ Cancel(m)
  /\ UNCHANGED replies \/ \E r \in Replies : Reply(Num, r)

\* Every step is one of these.
LEMMA Actions ==
  ASSUME IInv, [Next]_vars
  PROVE  \/ Apart \/ SyncStart
         \/ \E m \in Messages : Reading(m)
         \/ \E w \in Workers : Start(w) \/ TaskStep(w)
<1> USE DEF lifeVars, tokenVars, workVars, syncVars, callVars, historyVars
<1>1. ASSUME NEW m \in Messages,
             InvalidMessage(m) \/ RefuseUninitialized(m) \/ RefuseShuttingDown(m)
               \/ RefuseInitialized(m) \/ RefuseUnknown(m) \/ Initialize(m)
               \/ Shutdown(m)
      PROVE  Reading(m)
  <2>1. /\ Read(m)
        /\ UNCHANGED <<working, stage, entered, syncQueue, submitted, workQueue,
                       cancellationTokens, cancelled, cancelSeen>>
    BY <1>1 DEF InvalidMessage, RefuseUninitialized, RefuseShuttingDown,
       RefuseInitialized, RefuseUnknown, Refuse, Initialize, Shutdown
  <2>2. \E r \in Replies : Reply(Num, r)
    BY <1>1 DEF InvalidMessage, RefuseUninitialized, RefuseShuttingDown,
       RefuseInitialized, RefuseUnknown, Refuse, Initialize, Shutdown, Outcomes,
       Replies
  <2>3. QED
    BY <2>1, <2>2 DEF Reading
<1>2. ASSUME NEW m \in Messages,
             Exit(m) \/ DropNotification(m) \/ Initialized(m) \/ IgnoreResponse(m)
               \/ Cancel(m)
      PROVE  Reading(m)
  BY <1>2 DEF Exit, DropNotification, Initialized, IgnoreResponse, Cancel, Reading
<1>3. ASSUME NEW m \in Messages, DispatchSync(m) PROVE Reading(m)
  BY <1>3 DEF DispatchSync, SyncExecutor!Submit, Reading
<1>4. ASSUME NEW m \in Messages,
             DispatchRequest(m) \/ DispatchNotification(m) \/ DispatchResponse(m)
      PROVE  Reading(m)
  <2>1. Read(m) /\ WorkerPool!Submit(Num)
    BY <1>4 DEF DispatchRequest, DispatchNotification, DispatchResponse
  <2>2. workPhase = "open"
    BY <2>1 DEF IInv, Phases, Read
  <2>3. workQueue' = Append(workQueue, Num) /\ working' = working
    BY <2>1, <2>2 DEF WorkerPool!Submit
  <2>4. QED
    BY <1>4, <2>1, <2>3 DEF DispatchRequest, DispatchNotification, DispatchResponse,
       Reading
<1>5. ASSUME EndOfInput \/ RunThrows \/ HookReturns \/ StopServing PROVE Apart
  BY <1>5 DEF EndOfInput, RunThrows, HookReturns, StopServing, LeaveLoop, CloseSync,
     JoinSync, CloseWorkers, JoinWorkers, WorkerPool!Close, WorkerPool!Join,
     SyncExecutor!Close, SyncExecutor!Join, Apart
<1>6. ASSUME NEW t \in Threads, CallStep(t) PROVE Apart
  BY <1>6 DEF CallStep, AllocateId, RegisterCallback, SendRequest, CallFrame, Apart
<1>7. ASSUME SyncFinish PROVE Apart
  BY <1>7 DEF SyncFinish, SyncExecutor!Finish, Apart
<1>8. CASE UNCHANGED vars
  BY <1>8 DEF vars, Apart
<1>9. QED
  BY <1>1, <1>2, <1>3, <1>4, <1>5, <1>6, <1>7, <1>8 DEF Next, ReadMessage
-----------------------------------------------------------------------------
(* The serial executor and the handlers *)

\* Only DispatchSync feeds the serial executor, and only a step that enters
\* user code makes a worker be in it.
LEMMA NextHanded == IInv /\ Handed /\ [Next]_vars => Handed'
<1> SUFFICES ASSUME IInv, Handed, [Next]_vars PROVE Handed'
  OBVIOUS
<1> USE DEF IInv, Base, ReadOf
<1>1. CASE Apart
  BY <1>1 DEF Apart, Handed
<1>2. ASSUME NEW m \in Messages, Reading(m) PROVE Handed'
  <2>1. Read(m) /\ UNCHANGED <<working, stage, entered>>
    BY <1>2 DEF Reading
  <2>2. /\ 1 .. Len(log') = (1 .. Len(log)) \cup {Num}
        /\ \A n \in 1 .. Len(log) : log'[n] = log[n]
        /\ log'[Num] = m
    BY <2>1, ReadGrows
  <2>4. \A n \in ReadOf("sync") : n \in ReadOf("sync")'
    BY <2>2
  <2>5. \A i \in 1 .. Len(syncQueue') : syncQueue'[i] \in ReadOf("sync")'
    <3>1. CASE UNCHANGED syncQueue
      BY <3>1, <2>4 DEF Handed
    <3>2. CASE m.kind = "sync" /\ syncQueue' = Append(syncQueue, Num)
      <4>1. /\ Len(syncQueue) \in Nat /\ Len(syncQueue') = Len(syncQueue) + 1
            /\ \A i \in 1 .. Len(syncQueue) : syncQueue'[i] = syncQueue[i]
            /\ syncQueue'[Len(syncQueue) + 1] = Num
        BY <2>1, <3>2, ReadGrows, AppendProperties, LenProperties DEF TypeOK
      <4>2. Num \in ReadOf("sync")'
        BY <2>2, <3>2
      <4>3. QED
        BY <2>4, <4>1, <4>2 DEF Handed
    <3>3. QED
      BY <1>2, <3>1, <3>2 DEF Reading
  <2>6. QED
    BY <2>1, <2>5 DEF Handed
<1>3. CASE SyncStart
  <2>1. /\ UNCHANGED <<log, working, stage>>
        /\ entered \subseteq entered'
        /\ syncQueue # <<>> /\ syncQueue' = Tail(syncQueue)
    BY <1>3 DEF SyncStart, SyncExecutor!Start, workVars
  <2>2. \A i \in 1 .. Len(syncQueue') :
          i + 1 \in 1 .. Len(syncQueue) /\ syncQueue'[i] = syncQueue[i + 1]
    <3>1. syncQueue \in Seq(Nums) /\ syncQueue # <<>>
      BY <2>1 DEF TypeOK
    <3>2. /\ Len(Tail(syncQueue)) = Len(syncQueue) - 1
          /\ \A i \in 1 .. Len(Tail(syncQueue)) : Tail(syncQueue)[i] = syncQueue[i + 1]
      BY <3>1, HeadTailProperties
    <3>3. Len(syncQueue) \in Nat
      BY <3>1, LenProperties
    <3>4. QED
      BY <2>1, <3>2, <3>3
  <2>3. QED
    BY <2>1, <2>2 DEF Handed
<1>4. ASSUME NEW w \in Workers, Start(w) PROVE Handed'
  <2>1. /\ UNCHANGED <<log, syncQueue>>
        /\ entered \subseteq entered'
        /\ working' = [working EXCEPT ![w] = Head(workQueue)]
        /\ \A v \in Workers : v # w => stage'[v] = stage[v]
        /\ stage'[w] = "user" => Head(workQueue) \in entered'
    BY <1>4 DEF Start, WorkerPool!Start, TypeOK, syncVars
  <2>2. \A v \in Workers : stage'[v] = "user" => working'[v] \in entered'
    BY <2>1 DEF Handed, TypeOK
  <2>3. QED
    BY <2>1, <2>2 DEF Handed
<1>5. ASSUME NEW w \in Workers, TaskStep(w) PROVE Handed'
  <2>1. /\ UNCHANGED <<log, syncQueue>>
        /\ entered \subseteq entered'
        /\ \A v \in Workers : v # w => stage'[v] = stage[v] /\ working'[v] = working[v]
        /\ stage'[w] = "user" => working'[w] \in entered'
    BY <1>5 DEF TaskStep, AnswerCancelled, EnterHandler, HandlerEnds, EraseToken,
       TaskEnds, TaskFrame, WorkerPool!Finish, TypeOK, syncVars, historyVars
  <2>2. \A v \in Workers : stage'[v] = "user" => working'[v] \in entered'
    BY <2>1 DEF Handed
  <2>3. QED
    BY <2>1, <2>2 DEF Handed
<1>6. QED
  BY <1>1, <1>2, <1>3, <1>4, <1>5, Actions

-----------------------------------------------------------------------------
(* The theorems about cancellation *)

\* The whole account for a client that never uses an id again.
CInv == Handed /\ Tokens /\ Cancels

\* The account holds at first, and every step keeps it.
LEMMA AlwaysAccounted == ASSUME UniqueIds PROVE Spec => [](IInv /\ CInv)
<1>1. Init => CInv
  <2> SUFFICES ASSUME Init PROVE CInv
    OBVIOUS
  <2>1. /\ syncQueue = <<>> /\ log = <<>> /\ cancelSeen = {}
        /\ cancellationTokens = [i \in Ids |-> None]
        /\ stage = [w \in Workers |-> "idle"]
    BY DEF Init, SyncExecutor!Init
  <2>2. Len(log) = 0 /\ Len(syncQueue) = 0
    BY <2>1
  <2>3. Requested = {} /\ \A i \in 1 .. Len(syncQueue) : FALSE
    BY <2>2 DEF Requested, ReadOf
  <2>4. QED
    BY <2>1, <2>3 DEF CInv, Handed, Tokens, Cancels
\* A new request gets its token, a task that leaves takes its own along, and
\* nothing else changes the table.
<1>2. ASSUME IInv, Tokens, [Next]_vars PROVE Tokens'
  <2> USE <1>2
  <2> USE DEF IInv, Base, ReadOf, Requested
  <2>1. cancellationTokens \in [Ids -> Nums \cup {None}] /\ 1 .. Len(log) \subseteq Nums
    <3>1. Len(log) \in Nat /\ Len(log) <= MaxMessages
      BY LenProperties DEF TypeOK
    <3>2. QED
      BY <3>1, ServerAssumption DEF TypeOK, Nums
  <2>2. ASSUME UNCHANGED <<cancellationTokens, log, submitted>>,
               \A n \in Requested : Placed(n)' <=> Placed(n)
        PROVE  Tokens'
    BY <2>1, <2>2 DEF Tokens
  <2>3. CASE Apart
    BY <2>2, <2>3 DEF Apart, Placed, Queue
  <2>4. CASE SyncStart
    BY <2>2, <2>4 DEF SyncStart, SyncExecutor!Start, Placed, Queue, tokenVars, workVars
  <2>5. ASSUME NEW m \in Messages, Reading(m) PROVE Tokens'
    <3>1. Read(m) /\ working' = working /\ submitted \subseteq submitted'
      BY <2>5 DEF Reading
    <3>2. /\ 1 .. Len(log') = (1 .. Len(log)) \cup {Num}
          /\ Num \notin 1 .. Len(log) /\ Num \in Nums
          /\ \A n \in 1 .. Len(log) : log'[n] = log[n]
          /\ log'[Num] = m
      BY <3>1, ReadGrows
    <3>3. /\ m.kind = "request" => m.id \in Ids
          /\ m.kind = "request" => \A n \in Requested : log[n].id # m.id
      <4>1. m.kind = "request" => m.id \in Ids
        BY DEF Messages
      <4>2. m.kind = "request" =>
              \A n \in 1 .. Len(log) : IsKind(n, "request") => log[n].id # m.id
        BY <3>1 DEF Read, ClientMaySend
      <4>3. QED
        BY <4>1, <4>2 DEF IsKind
    <3>4. /\ \A n \in Requested' : log'[n].id \in Ids
          /\ \A n, k \in Requested' : log'[n].id = log'[k].id => n = k
      BY <3>2, <3>3 DEF Tokens
    <3>5. Requested' = Requested \cup (IF m.kind = "request" THEN {Num} ELSE {})
      BY <3>2
    <3>6. ~Placed(Num)
      BY <3>2 DEF Placed, Queue, Accounted, Known, ForWorkers, None, Nums
    <3>7. CASE UNCHANGED <<workQueue, cancellationTokens>>
      <4>1. \A n : Placed(n)' <=> Placed(n)
        BY <3>1, <3>7 DEF Placed, Queue
      <4>2. QED
        BY <2>1, <3>1, <3>2, <3>4, <3>5, <3>6, <3>7, <4>1 DEF Tokens
    <3>8. ASSUME workQueue' = Append(workQueue, Num)
          PROVE  \A n : Placed(n)' <=> Placed(n) \/ n = Num
      <4>1. Queue' = Queue \cup {Num}
        BY <3>2, <3>8, RangeAppend DEF Queue, TypeOK
      <4>2. QED
        BY <3>1, <4>1 DEF Placed
    <3>9. CASE /\ m.kind \in {"notification", "response"}
               /\ workQueue' = Append(workQueue, Num)
               /\ UNCHANGED cancellationTokens
      <4>1. Requested' = Requested /\ Num \notin Requested
        BY <3>2, <3>5, <3>9
      <4>2. \A n \in Requested : Placed(n)' <=> Placed(n)
        BY <3>8, <3>9, <4>1
      <4>3. \A n \in Requested' : Placed(n)' => cancellationTokens'[log'[n].id] = n
        BY <3>2, <3>9, <4>1, <4>2 DEF Tokens
      <4>4. ASSUME NEW i \in Ids, NEW n, n = cancellationTokens[i], n # None
            PROVE  n \in Requested' /\ n \in submitted' /\ Placed(n)' /\ log'[n].id = i
        <5>1. n \in Requested /\ n \in submitted /\ Placed(n) /\ log[n].id = i
          BY <4>4 DEF Tokens
        <5>2. log'[n] = log[n] /\ n \in submitted'
          BY <3>1, <3>2, <5>1
        <5> HIDE DEF Requested
        <5>3. Placed(n)' /\ n \in Requested'
          BY <4>1, <4>2, <5>1
        <5>4. QED
          BY <5>1, <5>2, <5>3
      <4>5. QED
        BY <3>4, <3>9, <4>3, <4>4 DEF Tokens
    <3>10. CASE /\ m.kind = "request"
                /\ workQueue' = Append(workQueue, Num)
                /\ submitted' = submitted \cup {Num}
                /\ cancellationTokens' = [cancellationTokens EXCEPT ![m.id] = Num]
      <4>1. /\ cancellationTokens'[m.id] = Num
            /\ \A i \in Ids : i # m.id => cancellationTokens'[i] = cancellationTokens[i]
        BY <2>1, <3>3, <3>10
      <4>2. \A n \in Requested : n # Num /\ log'[n] = log[n] /\ log[n].id \in Ids \ {m.id}
        BY <3>2, <3>3, <3>10 DEF Tokens
      <4>3. \A n \in Requested' : Placed(n)' => cancellationTokens'[log'[n].id] = n
        BY <3>2, <3>5, <3>8, <3>10, <4>1, <4>2 DEF Tokens
      <4>4. ASSUME NEW i \in Ids, cancellationTokens'[i] # None
            PROVE  /\ cancellationTokens'[i] \in Requested' \cap submitted'
                   /\ Placed(cancellationTokens[i])'
                   /\ log'[cancellationTokens'[i]].id = i
        <5>1. CASE i = m.id
          BY <3>2, <3>5, <3>8, <3>10, <4>1, <5>1
        <5>2. CASE i # m.id
          BY <3>1, <3>2, <3>5, <3>8, <3>10, <4>1, <4>2, <4>4, <5>2 DEF Tokens
        <5>3. QED
          BY <5>1, <5>2
      <4>5. QED
        BY <3>4, <4>3, <4>4 DEF Tokens
    <3>11. QED
      BY <2>5, <3>7, <3>9, <3>10 DEF Reading
  <2>6. ASSUME NEW w \in Workers, Start(w) PROVE Tokens'
    <3>1. /\ UNCHANGED <<cancellationTokens, log, submitted>>
          /\ working[w] = None /\ working' = [working EXCEPT ![w] = Head(workQueue)]
          /\ workQueue # <<>> /\ workQueue' = Tail(workQueue)
      BY <2>6 DEF Start, WorkerPool!Start, tokenVars
    <3>2. Queue = Queue' \cup {Head(workQueue)}
      BY <3>1, RangeTail DEF TypeOK, Accounted, OnePlace, Queue
    <3>3. working'[w] = Head(workQueue) /\ \A v \in Workers : v # w => working'[v] = working[v]
      BY <3>1 DEF TypeOK
    <3>4. ASSUME NEW n \in Requested PROVE Placed(n)' <=> Placed(n)
      <4>1. n # None
        BY DEF None
      <4>2. QED
        BY <3>1, <3>2, <3>3, <4>1 DEF Placed
    <3>5. QED
      BY <2>2, <3>1, <3>4
  <2>7. ASSUME NEW w \in Workers, AnswerCancelled(w) \/ EnterHandler(w) \/ HandlerEnds(w)
        PROVE  Tokens'
    BY <2>2, <2>7 DEF AnswerCancelled, EnterHandler, HandlerEnds, TaskFrame, tokenVars,
       Placed, Queue
  <2>8. ASSUME NEW w \in Workers, EraseToken(w) \/ TaskEnds(w)
        PROVE  \A n \in Requested : Placed(n)' <=> Placed(n) /\ n # working[w]
    <3>1. /\ workQueue' = workQueue
          /\ working'[w] = None /\ working[w] # None
          /\ \A v \in Workers : v # w => working'[v] = working[v]
      BY <2>8 DEF EraseToken, TaskEnds, WorkerPool!Finish, TypeOK
    <3>2. ASSUME NEW n \in Requested PROVE Placed(n)' <=> Placed(n) /\ n # working[w]
      <4>1. n # None
        BY DEF None
      <4>2. QED
        BY <3>1, <4>1 DEF Placed, Queue, Accounted, OnePlace
    <3>3. QED
      BY <3>2
  <2>9. ASSUME NEW w \in Workers, EraseToken(w) PROVE Tokens'
    <3> DEFINE r == working[w]
    <3>1. r \in Requested
      BY <2>9 DEF EraseToken, Accounted, Stages, IsKind
    <3>2. /\ cancellationTokens' = [cancellationTokens EXCEPT ![log[r].id] = None]
          /\ UNCHANGED <<log, submitted>>
      BY <2>9 DEF EraseToken, historyVars
    <3>3. /\ cancellationTokens'[log[r].id] = None
          /\ \A i \in Ids : i # log[r].id => cancellationTokens'[i] = cancellationTokens[i]
      BY <2>1, <3>1, <3>2 DEF Tokens
    <3>4. \A n \in Requested : Placed(n)' => cancellationTokens'[log[n].id] = n
      BY <2>8, <2>9, <3>1, <3>3 DEF Tokens
    <3>5. ASSUME NEW i \in Ids, cancellationTokens'[i] # None
          PROVE  /\ cancellationTokens'[i] \in Requested \cap submitted
                 /\ Placed(cancellationTokens[i])'
                 /\ log[cancellationTokens'[i]].id = i
      BY <2>8, <2>9, <3>1, <3>3, <3>5 DEF Tokens
    <3>6. QED
      BY <3>2, <3>4, <3>5 DEF Tokens
  <2>10. ASSUME NEW w \in Workers, TaskEnds(w) PROVE Tokens'
    <3>1. working[w] \notin Requested
      BY <2>10 DEF TaskEnds, IsKind
    <3>2. UNCHANGED <<cancellationTokens, log, submitted>>
      BY <2>10 DEF TaskEnds, tokenVars, historyVars
    <3>3. QED
      BY <2>2, <2>8, <2>10, <3>1, <3>2
  <2>11. QED
    BY <2>3, <2>4, <2>5, <2>6, <2>7, <2>9, <2>10, Actions DEF TaskStep
\* A cancellation finds the token of a request that waits, and from then on
\* the only way out is the answer RequestCancelled.
<1>3. ASSUME IInv, Handed, Tokens, Cancels, [Next]_vars PROVE Cancels'
  <2> USE <1>3
  <2> USE DEF IInv, Base, ReadOf, Requested
  <2>1. \A n \in cancelSeen :
          /\ n \in Requested /\ n \in cancelled /\ n \notin entered /\ n \in Nums
          /\ replies[n] \in {<<>>, <<"cancelled">>}
    BY DEF Cancels, TypeOK
  <2>2. ASSUME UNCHANGED <<cancelled, cancelSeen, entered, replies, log>> PROVE Cancels'
    BY <2>2 DEF Cancels
  <2>3. CASE Apart
    BY <2>2, <2>3 DEF Apart
  <2>4. CASE SyncStart
    <3>1. Head(syncQueue) \in ReadOf("sync")
      <4>1. syncQueue \in Seq(Nums) /\ syncQueue # <<>>
        BY <2>4 DEF SyncStart, SyncExecutor!Start, TypeOK
      <4>2. 1 \in 1 .. Len(syncQueue) /\ Head(syncQueue) = syncQueue[1]
        BY <4>1, SMT
      <4>3. QED
        BY <4>2 DEF Handed
    <3>2. Head(syncQueue) \notin Requested
      BY <3>1
    <3>3. UNCHANGED <<cancelled, cancelSeen, replies, log>>
      BY <2>4 DEF SyncStart, tokenVars
    <3>4. entered' = entered \cup {Head(syncQueue)}
      BY <2>4 DEF SyncStart
    <3>5. QED
      BY <2>1, <3>2, <3>3, <3>4 DEF Cancels
  <2>5. ASSUME NEW m \in Messages, Reading(m) PROVE Cancels'
    <3>1. Read(m) /\ entered' = entered
      BY <2>5 DEF Reading
    <3>2. /\ 1 .. Len(log') = (1 .. Len(log)) \cup {Num}
          /\ Num \notin 1 .. Len(log) /\ Num \in Nums
          /\ \A n \in 1 .. Len(log) : log'[n] = log[n]
      BY <3>1, ReadGrows
    <3>3. \A n \in Requested : n \in Requested' /\ n # Num
      BY <3>2
    <3>4. ASSUME NEW n \in Requested, n \in Nums PROVE replies'[n] = replies[n]
      <4>1. CASE UNCHANGED replies
        BY <4>1
      <4>2. CASE \E r \in Replies : Reply(Num, r)
        BY <3>2, <3>3, <3>4, <4>2, OneMore
      <4>3. QED
        BY <2>5, <4>1, <4>2 DEF Reading
    <3>5. CASE UNCHANGED <<cancelled, cancelSeen>>
      BY <2>1, <3>1, <3>3, <3>4, <3>5 DEF Cancels
    <3>6. CASE Cancel(m)
      <4>1. ASSUME NEW n \in submitted \ entered, IsKind(n, "request"),
                   log[n].id = m.id, ~Answered(n)
            PROVE  n \in Requested /\ n \in Nums /\ n \in cancelled' /\ replies[n] = <<>>
        <5>1. n \in Requested /\ n \in Nums /\ NeedsReply(n) /\ n # None
          BY <4>1 DEF IsKind, TypeOK, NeedsReply, RequestKinds, None
        <5>2. replies[n] = <<>> /\ Len(replies[n]) = 0
          BY <4>1 DEF Answered
        <5>3. InFlight(n)
          BY <5>1, <5>2 DEF Accounted, OneReply
        <5>4. Placed(n)
          BY <5>3 DEF InFlight, Placed, Queue
        <5>5. cancellationTokens[m.id] = n
          BY <4>1, <5>1, <5>4 DEF Tokens
        <5>6. QED
          BY <3>6, <5>1, <5>2, <5>5 DEF Cancel
      <4>2. cancelled \subseteq cancelled'
        BY <3>6 DEF Cancel
      <4>3. ASSUME NEW n \in cancelSeen'
            PROVE  /\ n \in Requested /\ n \in Nums /\ n \in cancelled' /\ n \notin entered
                   /\ replies[n] \in {<<>>, <<"cancelled">>}
        <5>1. CASE n \in cancelSeen
          BY <2>1, <4>2, <5>1
        <5>2. CASE n \notin cancelSeen
          BY <3>6, <4>1, <4>3, <5>2 DEF Cancel
        <5>3. QED
          BY <5>1, <5>2
      <4>4. QED
        BY <3>1, <3>3, <3>4, <4>3 DEF Cancels
    <3>7. QED
      BY <2>5, <3>5, <3>6 DEF Reading
  <2>6. ASSUME NEW w \in Workers, Start(w) PROVE Cancels'
    <3>1. /\ UNCHANGED <<cancelled, cancelSeen, replies, log>>
          /\ entered' = entered \/ /\ ~IsKind(Head(workQueue), "request")
                                   /\ entered' = entered \cup {Head(workQueue)}
      BY <2>6 DEF Start, tokenVars
    <3>2. \A n \in Requested : IsKind(n, "request")
      BY DEF IsKind
    <3>3. QED
      BY <2>1, <3>1, <3>2 DEF Cancels
  <2>7. ASSUME NEW w \in Workers, AnswerCancelled(w) PROVE Cancels'
    <3>1. /\ Reply(working[w], "cancelled") /\ stage[w] = "begin"
          /\ UNCHANGED <<cancelled, cancelSeen, entered, log>>
      BY <2>7 DEF AnswerCancelled, TaskFrame, tokenVars
    <3>2. working[w] \in Requested /\ working[w] \in Nums /\ working[w] # None
      BY <3>1 DEF Accounted, Stages, IsKind, TypeOK, None
    <3>3. replies[working[w]] = <<>>
      <4>1. InFlight(working[w])
        BY <3>1, <3>2, OnlyHere DEF Accounted
      <4>2. Len(replies[working[w]]) = 0 /\ replies[working[w]] \in Seq(Replies)
        BY <3>2, <4>1 DEF Accounted, OneReply, TypeOK
      <4>3. QED
        BY <4>2, EmptySeq
    <3>4. replies' = [replies EXCEPT ![working[w]] = <<"cancelled">>]
      <4>1. Append(<<>>, "cancelled") = <<"cancelled">>
        OBVIOUS
      <4>2. QED
        BY <3>1, <3>3, <4>1 DEF Reply
    <3>5. \A n \in Nums : replies'[n] = replies[n] \/ replies'[n] = <<"cancelled">>
      BY <3>4 DEF TypeOK
    <3>6. QED
      BY <2>1, <3>1, <3>5 DEF Cancels
  <2>8. ASSUME NEW w \in Workers, EnterHandler(w) PROVE Cancels'
    BY <2>1, <2>8 DEF EnterHandler, TaskFrame, tokenVars, Cancels
  <2>9. ASSUME NEW w \in Workers, HandlerEnds(w) PROVE Cancels'
    <3>1. /\ \E r \in Replies : Reply(working[w], r)
          /\ UNCHANGED <<cancelled, cancelSeen, entered, log>>
      BY <2>9 DEF HandlerEnds, TaskFrame, tokenVars, Replies
    <3>2. working[w] \in entered
      BY <2>9 DEF HandlerEnds, Handed
    <3>3. \A n \in cancelSeen : replies'[n] = replies[n]
      BY <2>1, <3>1, <3>2 DEF Reply, TypeOK
    <3>4. QED
      BY <2>1, <3>1, <3>3 DEF Cancels
  <2>10. ASSUME NEW w \in Workers, EraseToken(w) \/ TaskEnds(w) PROVE Cancels'
    BY <2>2, <2>10 DEF EraseToken, TaskEnds, tokenVars, historyVars
  <2>11. QED
    BY <2>3, <2>4, <2>5, <2>6, <2>7, <2>8, <2>9, <2>10, Actions DEF TaskStep
<1>4. IInv /\ CInv /\ [Next]_vars => CInv'
  BY NextHanded, <1>2, <1>3 DEF CInv
<1>5. QED
  BY <1>1, <1>4, Inductive, PTL DEF Spec

(***************************************************************************)
(* The token table holds exactly the requests that are queued or on a      *)
(* worker, for any number of workers and requests, however tasks start,    *)
(* answer and end.                                                         *)
(***************************************************************************)
THEOREM TokensFollowRequests == Spec => []TokensMatchInFlight
<1>1. CASE UniqueIds
  <2>1. IInv /\ CInv => TokensMatchInFlight
    <3> SUFFICES ASSUME IInv, CInv PROVE TokensMatchInFlight
      OBVIOUS
    <3>1. working \in [Workers -> Nums \cup {None}]
      BY DEF IInv, Base, TypeOK
    <3>2. \A n : Placed(n) <=> n \in Range(workQueue) \cup Range(working)
      BY <3>1 DEF Placed, Queue, Range
    <3>3. ASSUME NEW n \in Requested
          PROVE  cancellationTokens[log[n].id] = n <=> Placed(n)
      <4>1. n # None /\ log[n].id \in Ids
        BY DEF Requested, ReadOf, None, CInv, Tokens
      <4>2. QED
        BY <4>1 DEF CInv, Tokens
    <3>4. QED
      BY <3>2, <3>3 DEF TokensMatchInFlight, CInv, Tokens, Requested
  <2>2. QED
    BY <1>1, <2>1, AlwaysAccounted, PTL
<1>2. CASE ~UniqueIds
  <2>1. TokensMatchInFlight
    BY <1>2 DEF TokensMatchInFlight
  <2>2. QED
    BY <2>1, PTL
<1>3. QED
  BY <1>1, <1>2

(***************************************************************************)
(* A request cancelled while it waits never reaches its handler and is     *)
(* answered RequestCancelled, if the client never uses an id again: a      *)
(* client that does can have its cancellation lost.                        *)
(***************************************************************************)
THEOREM CancellationHonoured == ASSUME UniqueIds PROVE Spec => []CancelHonoured
<1>1. CInv => CancelHonoured
  BY DEF CInv, Cancels, CancelHonoured
<1>2. QED
  BY <1>1, AlwaysAccounted, PTL

-----------------------------------------------------------------------------
(* The life of the server: what is dispatched and when, what is done before *)
(* the end, and which response finds its callback.                          *)

\* The serial executor takes notifications as long as nobody has closed it.
SyncPhases ==
  syncPhase =
    CASE readerPc \in {"closeWorkers", "joinWorkers", "returned", "destroyed"} -> "joined"
      [] readerPc \in {"joinSync", "awaitSync"} -> "closing"
      [] OTHER -> "open"

\* A pool that has been joined has nothing left.
Emptied ==
  /\ workPhase = "joined" => workQueue = <<>> /\ \A w \in Workers : working[w] = None
  /\ syncPhase = "joined" => syncQueue = <<>> /\ syncing[SyncWorker] = None

Stopped == SyncPhases /\ Emptied

\* Only messages that were read are given to a pool.
SubmittedRead == submitted \subseteq 1 .. Len(log)

LInv == IInv /\ Handed /\ Stopped /\ SubmittedRead

\* The flag remembers the shutdown request, and run returns what it says.
Obeyed ==
  /\ shutdownRequested <=> \E n \in 1 .. Len(log) : ShutdownObeyed(n)
  /\ readerPc = "returned" => exitCode = Result

\* Between a successful initialize and a shutdown, and only then, the server
\* takes requests.
InSession ==
  /\ state \notin {"uninitialized", "exited"} =>
       \E k \in 1 .. Len(log) : Succeeded(k, "initialize")
  /\ state \notin {"shuttingDown", "exited"} =>
       \A k \in 1 .. Len(log) : ~ShutdownObeyed(k)
  /\ \A n \in ReadOf("request") \cap submitted :
       /\ \E k \in 1 .. n : Succeeded(k, "initialize")
       /\ \A k \in 1 .. n : ~ShutdownObeyed(k)

\* Notifications handled, on the executor and in its queue, in this order.
OnExecutor == IF syncing[SyncWorker] = None THEN <<>> ELSE <<syncing[SyncWorker]>>
Line == (synced \o OnExecutor) \o syncQueue

InLine ==
  /\ Range(Line) = SyncSubmitted
  /\ \A i, j \in 1 .. Len(Line) : i < j => Line[i] < Line[j]

\* What a pool has been given still waits, has been called or was cancelled.
Waited == \A n \in submitted :
  \/ n \in entered
  \/ replies[n] = <<"cancelled">>
  \/ n \in Queue \cup Range(syncQueue)
  \/ \E w \in Workers : working[w] = n /\ stage[w] = "begin"

\* A thread sends requests from user code only.
Calling == \A t \in Threads : call[t] # "none" => InUserCode(t)

\* Outgoing ids are given out once; a callback waits from its registration to
\* the first response; only what was sent is answered.
Routed ==
  /\ \A t \in Threads : call[t] # "none" =>
       /\ callId[t] \in 1 .. nextOutgoingId - 1 /\ callId[t] \notin wire
       /\ call[t] = "registered" => callId[t] \in pendingRequests
       /\ \A u \in Threads : call[u] # "none" /\ u # t => callId[u] # callId[t]
  /\ wire \cup pendingRequests \subseteq 1 .. nextOutgoingId - 1
  /\ \A n \in ReadOf("response") : log[n].id \in wire \cup {0}
  /\ \A id \in pendingRequests : Responses(id) = {}
  /\ \A id \in wire \ pendingRequests : \E n \in Nums : Responses(id) \cap submitted = {n}

-----------------------------------------------------------------------------
(* The end of the two pools *)

\* The constructor makes two open pools, they end as Stopped says, and a pool
\* that has been joined gets nothing more.
LEMMA AlwaysStopped == Spec => []LInv
<1>1. Init => Handed /\ Stopped /\ SubmittedRead
  BY DEF Init, WorkerPool!Init, SyncExecutor!Init, Handed, Stopped, SyncPhases,
     Emptied, SubmittedRead
<1>2. IInv /\ SubmittedRead /\ [Next]_vars => SubmittedRead'
  <2> SUFFICES ASSUME IInv, SubmittedRead, [Next]_vars PROVE SubmittedRead'
    OBVIOUS
  <2>1. ASSUME NEW m \in Messages, Reading(m) PROVE SubmittedRead'
    BY <2>1, ReadGrows DEF Reading, SubmittedRead, IInv, Base
  <2>2. CASE Apart \/ SyncStart
    BY <2>2 DEF Apart, SyncStart, SubmittedRead
  <2>3. ASSUME NEW w \in Workers, Start(w) \/ TaskStep(w) PROVE SubmittedRead'
    BY <2>3 DEF Start, TaskStep, AnswerCancelled, EnterHandler, HandlerEnds,
       EraseToken, TaskEnds, TaskFrame, historyVars, SubmittedRead
  <2>4. QED
    BY <2>1, <2>2, <2>3, Actions
<1>3. IInv /\ Stopped /\ [Next]_vars => Stopped'
  <2> SUFFICES ASSUME IInv, Stopped, [Next]_vars PROVE Stopped'
    OBVIOUS
  <2> USE DEF IInv, Base, Stopped, SyncPhases, Emptied, lifeVars, workVars, syncVars
  <2>1. ASSUME NEW m \in Messages, ReadMessage(m) PROVE Stopped'
    <3>1. readerPc = "read" /\ readerPc' \in {"read", "hook", "endWorkers"}
      BY <2>1 DEF ReadMessage, InvalidMessage, RefuseUninitialized, RefuseShuttingDown,
         RefuseInitialized, RefuseUnknown, Refuse, Initialize, Shutdown, DispatchRequest,
         Exit, DropNotification, Initialized, Cancel, DispatchSync, DispatchNotification,
         IgnoreResponse, DispatchResponse, Read
    <3>2. /\ UNCHANGED <<working, workPhase, syncing, syncPhase>>
          /\ workPhase = "open" \/ UNCHANGED workQueue
          /\ syncPhase = "open" \/ UNCHANGED syncQueue
      BY <2>1 DEF ReadMessage, InvalidMessage, RefuseUninitialized, RefuseShuttingDown,
         RefuseInitialized, RefuseUnknown, Refuse, Initialize, Shutdown, DispatchRequest,
         Exit, DropNotification, Initialized, Cancel, DispatchSync, DispatchNotification,
         IgnoreResponse, DispatchResponse, WorkerPool!Submit, SyncExecutor!Submit
    <3>3. QED
      BY <3>1, <3>2
  <2>2. ASSUME EndOfInput \/ RunThrows \/ HookReturns \/ LeaveLoop PROVE Stopped'
    BY <2>2 DEF EndOfInput, RunThrows, HookReturns, LeaveLoop, ReaderGoes
  <2>3. ASSUME CloseSync \/ JoinSync PROVE Stopped'
    BY <2>3 DEF CloseSync, JoinSync, ReaderGoes, After, SyncExecutor!Close,
       SyncExecutor!Join, SyncExecutor!Drained
  <2>4. ASSUME CloseWorkers \/ JoinWorkers PROVE Stopped'
    BY <2>4 DEF CloseWorkers, JoinWorkers, ReaderGoes, After, WorkerPool!Close,
       WorkerPool!Join, WorkerPool!Drained
  <2>5. ASSUME NEW w \in Workers, Start(w) PROVE Stopped'
    BY <2>5 DEF Start, WorkerPool!Start
  <2>6. ASSUME NEW w \in Workers, TaskStep(w) PROVE Stopped'
    BY <2>6 DEF TaskStep, AnswerCancelled, EnterHandler, HandlerEnds, EraseToken,
       TaskEnds, TaskFrame, WorkerPool!Finish, TypeOK
  <2>7. ASSUME SyncStart \/ SyncFinish PROVE Stopped'
    BY <2>7 DEF SyncStart, SyncFinish, SyncExecutor!Start, SyncExecutor!Finish, TypeOK
  <2>8. ASSUME NEW t \in Threads, CallStep(t) PROVE Stopped'
    BY <2>8 DEF CallStep, AllocateId, RegisterCallback, SendRequest, CallFrame
  <2>9. CASE UNCHANGED vars
    BY <2>9 DEF vars
  <2>10. QED
    BY <2>1, <2>2, <2>3, <2>4, <2>5, <2>6, <2>7, <2>8, <2>9 DEF Next, StopServing
<1>4. QED
  BY <1>1, <1>2, <1>3, NextHanded, Inductive, PTL DEF Spec, LInv

-----------------------------------------------------------------------------
(* Nothing runs after the end *)

(***************************************************************************)
(* When run has returned, or the destructor has ended, no thread of the    *)
(* server takes another step: what it uses can be freed.                   *)
(***************************************************************************)
THEOREM QuietAtEnd == Spec => QuietAfterReturn
<1> USE DEF Calling, Threads
<1>1. Init => Calling
  BY DEF Init
<1>2. IInv /\ Calling /\ [Next]_vars => Calling'
  <2> SUFFICES ASSUME IInv, Calling, [Next]_vars PROVE Calling'
    OBVIOUS
  <2> USE DEF IInv, Base, InUserCode, lifeVars, workVars, syncVars, callVars
  <2>1. ASSUME NEW m \in Messages, ReadMessage(m) PROVE Calling'
    <3>1. readerPc = "read" /\ UNCHANGED <<stage, syncing, call>>
      BY <2>1 DEF ReadMessage, InvalidMessage, RefuseUninitialized, RefuseShuttingDown,
         RefuseInitialized, RefuseUnknown, Refuse, Initialize, Shutdown, DispatchRequest,
         Exit, DropNotification, Initialized, Cancel, DispatchSync, DispatchNotification,
         IgnoreResponse, DispatchResponse, Read, SyncExecutor!Submit
    <3>2. QED
      BY <3>1
  <2>2. ASSUME EndOfInput \/ RunThrows \/ HookReturns \/ StopServing PROVE Calling'
    BY <2>2, ServerAssumption DEF EndOfInput, RunThrows, HookReturns, StopServing,
       LeaveLoop, CloseSync, JoinSync, CloseWorkers, JoinWorkers, SyncExecutor!Close,
       SyncExecutor!Join
  <2>3. ASSUME NEW w \in Workers, Start(w) PROVE Calling'
    <3>1. working[w] = None /\ stage[w] = "idle"
      BY <2>3 DEF Start, WorkerPool!Start, StageBusy
    <3>2. /\ UNCHANGED <<readerPc, syncing, call>>
          /\ \A v \in Workers : v # w => stage'[v] = stage[v]
      BY <2>3 DEF Start, TypeOK
    <3>3. \A t \in Threads : InUserCode(t) => InUserCode(t)'
      BY <3>1, <3>2
    <3>4. QED
      BY <3>2, <3>3
  <2>4. ASSUME NEW w \in Workers, TaskStep(w) PROVE Calling'
    BY <2>4, ServerAssumption DEF TaskStep, AnswerCancelled, EnterHandler, HandlerEnds,
       EraseToken, TaskEnds, TaskFrame, TypeOK
  <2>5. ASSUME SyncStart \/ SyncFinish PROVE Calling'
    BY <2>5, ServerAssumption DEF SyncStart, SyncFinish, SyncExecutor!Start,
       SyncExecutor!Finish, TypeOK
  <2>6. ASSUME NEW t \in Threads, CallStep(t) PROVE Calling'
    BY <2>6 DEF CallStep, AllocateId, RegisterCallback, SendRequest, CallFrame, TypeOK
  <2>7. CASE UNCHANGED vars
    BY <2>7 DEF vars
  <2>8. QED
    BY <2>1, <2>2, <2>3, <2>4, <2>5, <2>6, <2>7 DEF Next
<1>3. IInv /\ Stopped /\ Calling /\ [Next]_vars => [~Over]_vars
  <2> SUFFICES ASSUME IInv, Stopped, Calling, Over, Next PROVE FALSE
    OBVIOUS
  <2>1. /\ workQueue = <<>> /\ \A w \in Workers : working[w] = None /\ stage[w] = "idle"
        /\ syncQueue = <<>> /\ syncing[SyncWorker] = None
        /\ readerPc \in {"returned", "destroyed"}
    BY DEF IInv, Base, StageBusy, Phases, Stopped, SyncPhases, Emptied, Over
  <2>2. \A t \in Threads : ~InUserCode(t) /\ call[t] = "none"
    BY <2>1, ServerAssumption DEF InUserCode
  <2>3. \A m \in Messages : ~ReadMessage(m)
    BY <2>1 DEF ReadMessage, InvalidMessage, RefuseUninitialized, RefuseShuttingDown,
       RefuseInitialized, RefuseUnknown, Initialize, Shutdown, DispatchRequest, Exit,
       DropNotification, Initialized, Cancel, DispatchSync, DispatchNotification,
       IgnoreResponse, DispatchResponse, Read
  <2>4. ~(EndOfInput \/ RunThrows \/ HookReturns \/ StopServing)
    BY <2>1 DEF EndOfInput, RunThrows, HookReturns, StopServing, LeaveLoop, CloseSync,
       JoinSync, CloseWorkers, JoinWorkers
  <2>5. \A w \in Workers : ~Start(w) /\ ~TaskStep(w)
    BY <2>1 DEF Start, WorkerPool!Start, TaskStep, AnswerCancelled, EnterHandler,
       HandlerEnds, EraseToken, TaskEnds
  <2>6. ~SyncStart /\ ~SyncFinish
    BY <2>1 DEF SyncStart, SyncFinish, SyncExecutor!Start, SyncExecutor!Finish
  <2>7. \A t \in Threads : ~CallStep(t)
    BY <2>2 DEF CallStep, AllocateId, RegisterCallback, SendRequest
  <2>8. QED
    BY <2>3, <2>4, <2>5, <2>6, <2>7 DEF Next
<1>4. QED
  BY <1>1, <1>2, <1>3, AlwaysStopped, PTL DEF Spec, QuietAfterReturn, LInv

-----------------------------------------------------------------------------
(* Messages that the read thread has dealt with *)

\* A message keeps its number, and its answer too unless it is a request that
\* a worker answers.
LEMMA Settled ==
  ASSUME IInv, [Next]_vars
  PROVE  /\ Len(log) \in Nat
         /\ 1 .. Len(log) \subseteq 1 .. Len(log')
         /\ \A n \in 1 .. Len(log) :
              /\ log'[n] = log[n]
              /\ log[n].kind # "request" => replies'[n] = replies[n]
<1> USE DEF IInv, Base
<1>1. Len(log) \in Nat /\ 1 .. Len(log) \subseteq Nums
  <2>1. Len(log) \in Nat /\ Len(log) <= MaxMessages
    BY LenProperties DEF TypeOK
  <2>2. QED
    BY <2>1, ServerAssumption DEF Nums
<1>2. CASE UNCHANGED <<log, replies>>
  BY <1>1, <1>2
<1>3. ASSUME NEW m \in Messages, Read(m),
             UNCHANGED replies \/ \E r \in Replies : Reply(Num, r)
      PROVE  /\ 1 .. Len(log) \subseteq 1 .. Len(log')
             /\ \A n \in 1 .. Len(log) : log'[n] = log[n] /\ replies'[n] = replies[n]
  <2>1. /\ Num \in Nums /\ Num \notin 1 .. Len(log)
        /\ 1 .. Len(log) \subseteq 1 .. Len(log')
        /\ \A n \in 1 .. Len(log) : log'[n] = log[n]
    BY <1>3, ReadGrows
  <2>2. QED
    BY <1>1, <1>3, <2>1, OneMore
<1>4. ASSUME NEW w \in Workers, AnsweredBy(w)
      PROVE  /\ log' = log
             /\ \A n \in 1 .. Len(log) :
                  log[n].kind # "request" => replies'[n] = replies[n]
  <2>1. /\ log' = log /\ IsKind(working[w], "request")
        /\ \E r \in Replies : Reply(working[w], r)
    BY <1>4 DEF AnsweredBy
  <2>2. QED
    BY <1>1, <2>1 DEF Reply, IsKind, TypeOK
<1>5. QED
  BY <1>1, <1>2, <1>3, <1>4, Effects
     DEF Accounted, Quiet, Returned, Noted, AnsweredAtOnce, Queued, Taken, Called, Left

\* The message being read is the only new one.  A shutdown that is not refused
\* is obeyed, and initialize succeeds unless its hook throws.
LEMMA JustRead ==
  ASSUME IInv, NEW m \in Messages, ReadMessage(m), NEW n, n = Num
  PROVE  /\ Read(m)
         /\ n \in Nat /\ n = Len(log) + 1
         /\ 1 .. Len(log') = (1 .. Len(log)) \cup {n}
         /\ log'[n] = m
         /\ ShutdownObeyed(n)' <=> Shutdown(m)
         /\ Initialize(m) /\ ~HooksMayThrow => Succeeded(n, "initialize")'
<1>1. Read(m)
  BY DEF ReadMessage, InvalidMessage, RefuseUninitialized, RefuseShuttingDown,
     RefuseInitialized, RefuseUnknown, Initialize, Shutdown, DispatchRequest, Exit,
     DropNotification, Initialized, Cancel, DispatchSync, DispatchNotification,
     IgnoreResponse, DispatchResponse
<1>2. /\ n \in Nums /\ n \in Nat /\ n = Len(log) + 1 /\ n > Len(log)
      /\ 1 .. Len(log') = (1 .. Len(log)) \cup {n} /\ log'[n] = m
  BY <1>1, ReadGrows DEF IInv, Base, Nums
<1>3. \A r \in Replies : Reply(n, r) => replies'[n] = <<r>>
  <2>1. replies[n] = <<>> /\ replies \in [Nums -> Seq(Replies)]
    BY <1>2 DEF IInv, Base, TypeOK, Accounted, Unread
  <2>2. \A r : Append(<<>>, r) = <<r>>
    OBVIOUS
  <2>3. QED
    BY <1>2, <2>1, <2>2 DEF Reply
<1>4. ASSUME Shutdown(m) PROVE ShutdownObeyed(n)'
  <2>1. replies'[n] = <<"result">> \/ replies'[n] = <<"error">>
    BY <1>3, <1>4 DEF Shutdown, Outcomes, Replies
  <2>2. QED
    BY <1>2, <1>4, <2>1 DEF Shutdown, ShutdownObeyed, IsKind
<1>5. ASSUME ~Shutdown(m) PROVE ~ShutdownObeyed(n)'
  <2>1. m.kind = "shutdown" => Reply(n, "notInitialized") \/ Reply(n, "shuttingDown")
    BY <1>5 DEF ReadMessage, InvalidMessage, RefuseUninitialized, RefuseShuttingDown,
       RefuseInitialized, AlreadyInitialized, RefuseUnknown, Refuse, Initialize,
       DispatchRequest, Exit, DropNotification, Initialized, Cancel, DispatchSync,
       DispatchNotification, IgnoreResponse, DispatchResponse, NotificationKinds
  <2>2. m.kind = "shutdown" =>
          replies'[n] = <<"notInitialized">> \/ replies'[n] = <<"shuttingDown">>
    BY <1>3, <2>1 DEF Replies
  <2>3. QED
    BY <1>2, <2>2 DEF ShutdownObeyed, IsKind
<1>6. ASSUME Initialize(m), ~HooksMayThrow PROVE Succeeded(n, "initialize")'
  BY <1>2, <1>3, <1>6 DEF Initialize, Outcomes, Replies, Succeeded, IsKind
<1>7. QED
  BY <1>1, <1>2, <1>4, <1>5, <1>6

-----------------------------------------------------------------------------
(* The exit code *)

(***************************************************************************)
(* run returns 0 exactly if a shutdown request was obeyed, however many    *)
(* messages came after it and whatever its hook did.                       *)
(***************************************************************************)
THEOREM ExitCode == Spec => []ExitCodeTellsShutdown
<1>1. Init => Obeyed
  BY DEF Init, Obeyed
<1>2. IInv /\ Obeyed /\ [Next]_vars => Obeyed'
  <2> SUFFICES ASSUME IInv, Obeyed, [Next]_vars PROVE Obeyed'
    OBVIOUS
  <2> USE DEF lifeVars
  <2>1. \A n \in 1 .. Len(log) :
          n \in 1 .. Len(log') /\ (ShutdownObeyed(n)' <=> ShutdownObeyed(n))
    BY Settled DEF ShutdownObeyed, IsKind
  <2>2. ASSUME NEW m \in Messages, ReadMessage(m) PROVE Obeyed'
    <3>1. PICK n : n = Num
      OBVIOUS
    <3>2. readerPc' # "returned"
      BY <2>2 DEF ReadMessage, InvalidMessage, RefuseUninitialized,
         RefuseShuttingDown, RefuseInitialized, RefuseUnknown, Refuse, Initialize,
         Shutdown, DispatchRequest, Exit, DropNotification, Initialized, Cancel,
         DispatchSync, DispatchNotification, IgnoreResponse, DispatchResponse, Read
    <3>3. /\ 1 .. Len(log') = (1 .. Len(log)) \cup {n}
          /\ ShutdownObeyed(n)' <=> Shutdown(m)
      BY <2>2, <3>1, JustRead
    <3>4. Shutdown(m) => shutdownRequested'
      BY DEF Shutdown
    <3>5. ~Shutdown(m) => shutdownRequested' = shutdownRequested
      BY <2>2 DEF ReadMessage, InvalidMessage, RefuseUninitialized,
         RefuseShuttingDown, RefuseInitialized, RefuseUnknown, Refuse, Initialize,
         DispatchRequest, Exit, DropNotification, Initialized, Cancel, DispatchSync,
         DispatchNotification, IgnoreResponse, DispatchResponse
    <3>6. QED
      BY <2>1, <3>2, <3>3, <3>4, <3>5 DEF Obeyed
  <2>3. ASSUME UNCHANGED <<log, shutdownRequested>>,
               readerPc' = "returned" => exitCode' = Result
        PROVE  Obeyed'
    BY <2>1, <2>3 DEF Obeyed, Result
  <2>4. ASSUME StopServing \/ EndOfInput \/ RunThrows \/ HookReturns PROVE Obeyed'
    BY <2>3, <2>4 DEF StopServing, EndOfInput, RunThrows, HookReturns, LeaveLoop,
       CloseSync, JoinSync, CloseWorkers, JoinWorkers, ReaderGoes, After
  <2>5. ASSUME NEW w \in Workers, Start(w) \/ TaskStep(w) PROVE Obeyed'
    BY <2>3, <2>5 DEF Obeyed, Start, TaskStep, AnswerCancelled, EnterHandler,
       HandlerEnds, EraseToken, TaskEnds, TaskFrame
  <2>6. ASSUME SyncStart \/ SyncFinish PROVE Obeyed'
    BY <2>3, <2>6 DEF Obeyed, SyncStart, SyncFinish
  <2>7. ASSUME NEW t \in Threads, CallStep(t) PROVE Obeyed'
    BY <2>3, <2>7 DEF Obeyed, CallStep, AllocateId, RegisterCallback, SendRequest,
       CallFrame
  <2>8. CASE UNCHANGED vars
    BY <2>3, <2>8 DEF Obeyed, vars
  <2>9. QED
    BY <2>2, <2>4, <2>5, <2>6, <2>7, <2>8 DEF Next
<1>3. IInv /\ Obeyed => ExitCodeTellsShutdown
  <2> SUFFICES ASSUME IInv, Obeyed PROVE ExitCodeTellsShutdown
    OBVIOUS
  <2>1. (\E n \in 1 .. Len(log) : ShutdownObeyed(n)) <=>
          \E n \in Nums : ShutdownObeyed(n)
    <3>1. Len(log) \in Nat /\ Len(log) <= MaxMessages
      BY LenProperties DEF IInv, Base, TypeOK
    <3>2. 1 .. Len(log) \subseteq Nums
      BY <3>1, ServerAssumption DEF Nums
    <3>3. QED
      BY <3>2 DEF ShutdownObeyed, IsKind
  <2>2. QED
    BY <2>1 DEF Obeyed, ExitCodeTellsShutdown, Result
<1>4. QED
  BY <1>1, <1>2, <1>3, Inductive, PTL DEF Spec

-----------------------------------------------------------------------------
(* The session *)

(***************************************************************************)
(* For a client that sends initialized when it should, and hooks that do   *)
(* not throw, a request is dispatched only after a successful initialize   *)
(* and before a shutdown.  Neither assumption can be dropped: a second     *)
(* initialized would end the state ShuttingDown, and an initialize that    *)
(* failed has left the state Initializing all the same.                    *)
(***************************************************************************)
THEOREM RequestsInSession == Spec => []DispatchNeedsSession
<1>1. ASSUME OrderlyClient, ~HooksMayThrow
      PROVE  LInv /\ InSession /\ [Next]_vars => InSession'
  <2> SUFFICES ASSUME LInv, InSession, [Next]_vars PROVE InSession'
    OBVIOUS
  <2> USE DEF LInv, SubmittedRead, lifeVars, historyVars
  <2>1. /\ \A k \in 1 .. Len(log) :
             /\ k \in 1 .. Len(log')
             /\ Succeeded(k, "initialize")' <=> Succeeded(k, "initialize")
             /\ ShutdownObeyed(k)' <=> ShutdownObeyed(k)
             /\ log'[k] = log[k]
        /\ \A k \in submitted : 1 .. k \subseteq 1 .. Len(log)
    <3>1. Len(log) \in Nat /\ submitted \subseteq 1 .. Len(log)
      BY Settled
    <3>2. ASSUME NEW k \in 1 .. Len(log)
          PROVE  /\ k \in 1 .. Len(log') /\ log'[k] = log[k]
                 /\ log[k].kind # "request" => replies'[k] = replies[k]
      BY Settled
    <3>3. \A k \in 1 .. Len(log) :
            /\ Succeeded(k, "initialize")' <=> Succeeded(k, "initialize")
            /\ ShutdownObeyed(k)' <=> ShutdownObeyed(k)
      BY <3>2 DEF ShutdownObeyed, Succeeded, IsKind
    <3>4. \A k \in submitted : 1 .. k \subseteq 1 .. Len(log)
      BY <3>1
    <3>5. QED
      BY <3>2, <3>3, <3>4
  <2>2. ASSUME UNCHANGED <<state, log, submitted>> PROVE InSession'
    BY <2>1, <2>2 DEF InSession, ReadOf
  <2>3. ASSUME NEW m \in Messages, ReadMessage(m) PROVE InSession'
    <3>1. PICK n : n = Num
      OBVIOUS
    <3>2. /\ Read(m) /\ n \in Nat /\ n = Len(log) + 1
          /\ 1 .. Len(log') = (1 .. Len(log)) \cup {n} /\ log'[n] = m
          /\ ShutdownObeyed(n)' <=> Shutdown(m)
          /\ Initialize(m) => Succeeded(n, "initialize")'
      BY <1>1, <2>3, <3>1, JustRead
    <3>3. ASSUME ReadOf("request")' \cap submitted' \subseteq
                   (ReadOf("request") \cap submitted)
          PROVE  \A k \in (ReadOf("request") \cap submitted)' :
                   /\ \E i \in 1 .. k : Succeeded(i, "initialize")'
                   /\ \A i \in 1 .. k : ~ShutdownObeyed(i)'
      BY <2>1, <3>3 DEF InSession
    <3>4. CASE DispatchRequest(m)
      <4>1. /\ state' = state /\ state \notin {"uninitialized", "shuttingDown", "exited"}
            /\ submitted' = submitted \cup {n} /\ ~Shutdown(m)
        BY <3>1, <3>2, <3>4 DEF DispatchRequest, Shutdown, Read
      <4>2. /\ \E k \in 1 .. Len(log) : Succeeded(k, "initialize")
            /\ \A k \in 1 .. Len(log) : ~ShutdownObeyed(k)
        BY <4>1 DEF InSession
      <4>3. 1 .. n = 1 .. Len(log')
        BY <3>2, Settled
      <4>4. /\ \E k \in 1 .. n : Succeeded(k, "initialize")'
            /\ \A k \in 1 .. n : ~ShutdownObeyed(k)'
        BY <2>1, <3>2, <4>1, <4>2, <4>3
      <4>5. \A k \in ReadOf("request")' \cap submitted' :
              k = n \/ k \in ReadOf("request") \cap submitted
        BY <2>1, <3>2, <4>1 DEF ReadOf
      <4>6. \A k \in ReadOf("request") \cap submitted :
              /\ \E i \in 1 .. k : Succeeded(i, "initialize")'
              /\ \A i \in 1 .. k : ~ShutdownObeyed(i)'
        BY <2>1 DEF InSession
      <4>7. QED
        BY <4>1, <4>3, <4>4, <4>5, <4>6 DEF InSession
    <3>5. CASE ~DispatchRequest(m)
      <4>1. \A k \in ReadOf("request")' \cap submitted' :
              k \in ReadOf("request") \cap submitted
        <5>1. \/ submitted' = submitted
              \/ submitted' = submitted \cup {n} /\ m.kind # "request"
          BY <2>3, <3>1, <3>5 DEF ReadMessage, InvalidMessage, RefuseUninitialized,
             RefuseShuttingDown, RefuseInitialized, RefuseUnknown, Refuse, Initialize,
             Shutdown, Exit, DropNotification, Initialized, Cancel, DispatchSync,
             DispatchNotification, IgnoreResponse, DispatchResponse
        <5>2. n \notin submitted
          BY <3>2, Settled
        <5>3. QED
          BY <2>1, <3>2, <5>1, <5>2 DEF ReadOf
      <4>2. /\ state' \notin {"uninitialized", "exited"} =>
                 \E k \in 1 .. Len(log') : Succeeded(k, "initialize")'
            /\ state' \notin {"shuttingDown", "exited"} =>
                 \A k \in 1 .. Len(log') : ~ShutdownObeyed(k)'
        <5>1. CASE Initialize(m)
          BY <2>1, <3>2, <5>1 DEF Initialize, Shutdown, InSession
        <5>2. CASE Shutdown(m)
          BY <2>1, <3>2, <5>2 DEF Shutdown, InSession, Read
        <5>3. CASE Exit(m)
          BY <5>3 DEF Exit
        <5>4. CASE Initialized(m)
          <6>1. /\ \E k \in 1 .. Len(log) : Succeeded(k, "initialize")
                /\ \A k \in 1 .. Len(log) : ~IsKind(k, "shutdown")
            BY <1>1, <3>2, <5>4 DEF Initialized, Read, ClientMaySend
          <6>2. \A k \in 1 .. Len(log) : ~ShutdownObeyed(k)
            BY <6>1 DEF ShutdownObeyed
          <6>3. ~Shutdown(m)
            BY <5>4 DEF Initialized, Shutdown
          <6>4. QED
            BY <2>1, <3>2, <6>1, <6>2, <6>3
        <5>5. CASE ~(Initialize(m) \/ Shutdown(m) \/ Exit(m) \/ Initialized(m))
          <6>1. state' = state
            BY <2>3, <3>5, <5>5 DEF ReadMessage, InvalidMessage, RefuseUninitialized,
               RefuseShuttingDown, RefuseInitialized, RefuseUnknown, Refuse,
               DropNotification, Cancel, DispatchSync, DispatchNotification,
               IgnoreResponse, DispatchResponse
          <6>2. QED
            BY <2>1, <3>2, <5>5, <6>1 DEF InSession
        <5>6. QED
          BY <5>1, <5>2, <5>3, <5>4, <5>5
      <4>3. QED
        BY <3>3, <4>1, <4>2 DEF InSession
    <3>6. QED
      BY <3>4, <3>5
  <2>4. ASSUME StopServing \/ EndOfInput \/ RunThrows \/ HookReturns PROVE InSession'
    BY <2>2, <2>4 DEF StopServing, EndOfInput, RunThrows, HookReturns, LeaveLoop,
       CloseSync, JoinSync, CloseWorkers, JoinWorkers, ReaderGoes
  <2>5. ASSUME NEW w \in Workers, Start(w) \/ TaskStep(w) PROVE InSession'
    BY <2>2, <2>5 DEF Start, TaskStep, AnswerCancelled, EnterHandler, HandlerEnds,
       EraseToken, TaskEnds, TaskFrame
  <2>6. ASSUME SyncStart \/ SyncFinish PROVE InSession'
    BY <2>2, <2>6 DEF SyncStart, SyncFinish
  <2>7. ASSUME NEW t \in Threads, CallStep(t) PROVE InSession'
    BY <2>2, <2>7 DEF CallStep, AllocateId, RegisterCallback, SendRequest, CallFrame
  <2>8. CASE UNCHANGED vars
    BY <2>2, <2>8 DEF vars
  <2>9. QED
    BY <2>3, <2>4, <2>5, <2>6, <2>7, <2>8 DEF Next
<1>2. Init => InSession
  <2> SUFFICES ASSUME Init PROVE InSession
    OBVIOUS
  <2>1. state = "uninitialized" /\ 1 .. Len(log) = {}
    BY DEF Init
  <2>2. QED
    BY <2>1 DEF InSession, ReadOf
<1>3. InSession /\ OrderlyClient /\ ~HooksMayThrow => DispatchNeedsSession
  BY DEF InSession, DispatchNeedsSession
<1>4. ~(OrderlyClient /\ ~HooksMayThrow) => DispatchNeedsSession
  BY DEF DispatchNeedsSession
<1>5. CASE OrderlyClient /\ ~HooksMayThrow
  BY <1>1, <1>2, <1>3, <1>5, AlwaysStopped, PTL DEF Spec
<1>6. CASE ~(OrderlyClient /\ ~HooksMayThrow)
  <2>1. DispatchNeedsSession
    BY <1>4, <1>6
  <2>2. QED
    BY <2>1, PTL
<1>7. QED
  BY <1>5, <1>6

-----------------------------------------------------------------------------
(* Document notifications *)

(***************************************************************************)
(* The serial executor keeps the order of the document notifications and   *)
(* passes none over, and they are all handled before the next pool is shut *)
(* down.                                                                   *)
(***************************************************************************)
THEOREM DocumentsInOrder == Spec => []SyncInOrder
<1>1. ASSUME LInv
      PROVE  /\ Line \in Seq(Nums)
             /\ synced \in Seq(Nums) /\ OnExecutor \in Seq(Nums)
             /\ syncQueue \in Seq(Nums)
             /\ synced \o OnExecutor \in Seq(Nums)
  <2>1. /\ synced \in Seq(Nums) /\ syncQueue \in Seq(Nums)
        /\ syncing[SyncWorker] \in Nums \cup {None}
    BY <1>1 DEF LInv, IInv, Base, TypeOK
  <2>2. OnExecutor \in Seq(Nums)
    BY <2>1, EmptySeq DEF OnExecutor
  <2>3. QED
    BY <2>1, <2>2, ConcatProperties DEF Line
<1>2. LInv /\ InLine /\ [Next]_vars => InLine'
  <2> SUFFICES ASSUME LInv, InLine, [Next]_vars PROVE InLine'
    OBVIOUS
  <2> USE DEF lifeVars, workVars, syncVars, historyVars
  <2>1. ASSUME Line' = Line, SyncSubmitted' = SyncSubmitted PROVE InLine'
    BY <2>1 DEF InLine
  <2>2. ASSUME UNCHANGED <<log, submitted>> PROVE SyncSubmitted' = SyncSubmitted
    BY <2>2 DEF SyncSubmitted, ReadOf
  <2>3. ASSUME UNCHANGED <<synced, syncing, syncQueue>> PROVE Line' = Line
    BY <2>3 DEF Line, OnExecutor
  <2>4. ASSUME NEW m \in Messages, ReadMessage(m) PROVE InLine'
    <3>1. PICK n : n = Num
      OBVIOUS
    <3>2. /\ Read(m) /\ n \in Nums /\ n \in Nat /\ n = Len(log) + 1
          /\ 1 .. Len(log') = (1 .. Len(log)) \cup {n} /\ log'[n] = m
          /\ \A k \in 1 .. Len(log) : log'[k] = log[k]
      BY <2>4, <3>1, JustRead, ReadGrows DEF LInv, IInv, Base
    <3>3. n \notin submitted /\ \A k \in submitted : k < n /\ k \in Int
      BY <3>2, Settled DEF LInv, SubmittedRead
    <3>4. UNCHANGED <<synced, syncing>>
      BY <2>4 DEF ReadMessage, InvalidMessage, RefuseUninitialized,
         RefuseShuttingDown, RefuseInitialized, RefuseUnknown, Refuse, Initialize,
         Shutdown, DispatchRequest, Exit, DropNotification, Initialized, Cancel,
         DispatchSync, DispatchNotification, IgnoreResponse, DispatchResponse,
         SyncExecutor!Submit
    <3>5. CASE DispatchSync(m)
      <4>1. syncQueue' = Append(syncQueue, n) /\ submitted' = submitted \cup {n}
        BY <3>1, <3>2, <3>5
           DEF DispatchSync, SyncExecutor!Submit, LInv, Stopped, SyncPhases, Read
      <4>2. SyncSubmitted' = SyncSubmitted \cup {n}
        <5>1. m.kind = "sync"
          BY <3>5 DEF DispatchSync
        <5>2. QED
          BY <3>2, <3>3, <4>1, <5>1 DEF SyncSubmitted, ReadOf
      <4>3. Line' = Append(Line, n)
        <5>1. Line' = (synced \o OnExecutor) \o Append(syncQueue, n)
          BY <3>4, <4>1 DEF Line, OnExecutor
        <5>2. Append(syncQueue, n) = syncQueue \o <<n>> /\ <<n>> \in Seq(Nums)
              /\ Append(Line, n) = Line \o <<n>>
          BY <1>1, <3>2, AppendIsConcat
        <5>3. QED
          BY <1>1, <5>1, <5>2, ConcatAssociative DEF Line
      <4>4. Range(Line') = Range(Line) \cup {n}
        BY <1>1, <3>2, <4>3, RangeAppend
      <4>5. /\ Len(Line) \in Nat /\ Len(Line') = Len(Line) + 1 /\ Line'[Len(Line) + 1] = n
            /\ \A i \in 1 .. Len(Line) : Line'[i] = Line[i]
        BY <1>1, <3>2, <4>3, AppendProperties, LenProperties
      <4>6. \A i \in 1 .. Len(Line) : Line[i] \in submitted
        BY <1>1, LenProperties DEF InLine, SyncSubmitted, Range
      <4>7. \A i, j \in 1 .. Len(Line') : i < j => Line'[i] < Line'[j]
        BY <3>3, <4>5, <4>6 DEF InLine
      <4>8. QED
        BY <4>2, <4>4, <4>7 DEF InLine
    <3>6. CASE ~DispatchSync(m)
      <4>1. /\ syncQueue' = syncQueue
            /\ \/ submitted' = submitted
               \/ submitted' = submitted \cup {n} /\ m.kind # "sync"
        BY <2>4, <3>1, <3>6 DEF ReadMessage, InvalidMessage, RefuseUninitialized,
           RefuseShuttingDown, RefuseInitialized, RefuseUnknown, Refuse, Initialize,
           Shutdown, DispatchRequest, Exit, DropNotification, Initialized, Cancel,
           DispatchNotification, IgnoreResponse, DispatchResponse
      <4>2. SyncSubmitted' = SyncSubmitted
        BY <3>2, <3>3, <4>1 DEF SyncSubmitted, ReadOf
      <4>3. QED
        BY <2>1, <2>3, <3>4, <4>1, <4>2
    <3>7. QED
      BY <3>5, <3>6
  <2>5. CASE SyncStart
    <3>1. /\ UNCHANGED <<log, submitted, synced>>
          /\ syncQueue # <<>> /\ syncQueue' = Tail(syncQueue)
          /\ syncing[SyncWorker] = None /\ syncing'[SyncWorker] = Head(syncQueue)
      BY <2>5 DEF SyncStart, SyncExecutor!Start, LInv, IInv, Base, TypeOK
    <3>2. /\ Head(syncQueue) \in Nums /\ Tail(syncQueue) \in Seq(Nums)
          /\ Append(synced, Head(syncQueue)) \o Tail(syncQueue) = synced \o syncQueue
      BY <1>1, <3>1, MoveHead
    <3>3. Line = synced \o syncQueue
      BY <1>1, <3>1, ConcatEmptySeq DEF Line, OnExecutor
    <3>4. Line' = (synced \o <<Head(syncQueue)>>) \o Tail(syncQueue)
      <4>1. Head(syncQueue) # None
        BY <3>2 DEF Nums, None
      <4>2. OnExecutor' = <<Head(syncQueue)>>
        BY <3>1, <4>1 DEF OnExecutor
      <4>3. QED
        BY <3>1, <4>2 DEF Line
    <3>5. synced \o <<Head(syncQueue)>> = Append(synced, Head(syncQueue))
      BY <1>1, <3>2, AppendIsConcat
    <3>6. QED
      BY <2>1, <2>2, <3>1, <3>2, <3>3, <3>4, <3>5
  <2>6. CASE SyncFinish
    <3>1. /\ UNCHANGED <<log, submitted, syncQueue>>
          /\ syncing[SyncWorker] # None /\ syncing'[SyncWorker] = None
          /\ syncing[SyncWorker] \in Nums
          /\ synced' = Append(synced, syncing[SyncWorker])
      BY <2>6 DEF SyncFinish, SyncExecutor!Finish, LInv, IInv, Base, TypeOK
    <3>2. Append(synced, syncing[SyncWorker]) = synced \o <<syncing[SyncWorker]>>
      BY <1>1, <3>1, AppendIsConcat
    <3>3. Line' = (synced' \o <<>>) \o syncQueue
      BY <3>1 DEF Line, OnExecutor
    <3>4. synced' \o <<>> = synced'
      BY <1>1, <3>1, AppendProperties, ConcatEmptySeq
    <3>5. QED
      BY <2>1, <2>2, <3>1, <3>2, <3>3, <3>4 DEF Line, OnExecutor
  <2>7. ASSUME StopServing \/ EndOfInput \/ RunThrows \/ HookReturns PROVE InLine'
    BY <2>1, <2>2, <2>3, <2>7 DEF StopServing, EndOfInput, RunThrows, HookReturns,
       LeaveLoop, CloseSync, JoinSync, CloseWorkers, JoinWorkers, SyncExecutor!Close,
       SyncExecutor!Join
  <2>8. ASSUME NEW w \in Workers, Start(w) \/ TaskStep(w) PROVE InLine'
    BY <2>1, <2>2, <2>3, <2>8 DEF Start, TaskStep, AnswerCancelled, EnterHandler,
       HandlerEnds, EraseToken, TaskEnds, TaskFrame
  <2>9. ASSUME NEW t \in Threads, CallStep(t) PROVE InLine'
    BY <2>1, <2>2, <2>3, <2>9 DEF CallStep, AllocateId, RegisterCallback,
       SendRequest, CallFrame
  <2>10. CASE UNCHANGED vars
    BY <2>1, <2>2, <2>3, <2>10 DEF vars
  <2>11. QED
    BY <2>4, <2>5, <2>6, <2>7, <2>8, <2>9, <2>10 DEF Next
<1>3. Init => InLine
  <2> SUFFICES ASSUME Init PROVE InLine
    OBVIOUS
  <2>1. Line = <<>> /\ submitted = {}
    <3>1. /\ synced = <<>> /\ syncQueue = <<>> /\ syncing[SyncWorker] = None
          /\ submitted = {}
      BY DEF Init, SyncExecutor!Init
    <3>2. QED
      BY <3>1 DEF Line, OnExecutor
  <2>2. QED
    BY <2>1 DEF InLine, SyncSubmitted, Range
<1>4. LInv /\ InLine => SyncInOrder
  <2> SUFFICES ASSUME LInv, InLine PROVE SyncInOrder
    OBVIOUS
  <2>1. /\ Line \in Seq(Nums) /\ Len(Line) \in Nat /\ DOMAIN Line = 1 .. Len(Line)
        /\ synced \in Seq(Nums) /\ Len(synced) \in Nat
        /\ DOMAIN synced = 1 .. Len(synced)
    BY <1>1, LenProperties
  <2>2. /\ Len(synced) <= Len(Line)
        /\ \A i \in 1 .. Len(synced) : Line[i] = synced[i]
    <3>1. OnExecutor \o syncQueue \in Seq(Nums)
          /\ Line = synced \o (OnExecutor \o syncQueue)
      BY <1>1, ConcatProperties, ConcatAssociative DEF Line
    <3>2. QED
      BY <2>1, <3>1, ConcatProperties, LenProperties
  <2>3. \A i, j \in 1 .. Len(synced) : i < j => synced[i] < synced[j]
    BY <2>1, <2>2 DEF InLine
  <2>4. Range(synced) \subseteq SyncSubmitted
    BY <2>1, <2>2 DEF InLine, Range
  <2>5. ASSUME NEW n \in SyncSubmitted \ Range(synced), NEW i \in 1 .. Len(synced)
        PROVE  synced[i] < n
    <3>1. PICK j \in 1 .. Len(Line) : Line[j] = n
      BY <2>1, <2>5 DEF InLine, Range
    <3>2. j \notin 1 .. Len(synced)
      BY <2>1, <2>2, <2>5, <3>1 DEF Range
    <3>3. QED
      BY <2>1, <2>2, <3>1, <3>2 DEF InLine
  <2>6. ASSUME readerPc \in {"closeWorkers", "joinWorkers", "returned", "destroyed"}
        PROVE  SyncSubmitted \subseteq Range(synced)
    <3>1. syncQueue = <<>> /\ OnExecutor = <<>>
      BY <2>6 DEF LInv, Stopped, SyncPhases, Emptied, OnExecutor
    <3>2. Line = synced
      BY <2>1, <3>1, ConcatEmptySeq DEF Line
    <3>3. QED
      BY <3>2 DEF InLine
  <2>7. QED
    BY <2>3, <2>4, <2>5, <2>6 DEF SyncInOrder
<1>5. QED
  BY <1>2, <1>3, <1>4, AlwaysStopped, PTL DEF Spec

-----------------------------------------------------------------------------
(* What is left at the end *)

(***************************************************************************)
(* run, and the destructor if run has thrown, do not end before every task *)
(* handed to a pool has been called, except that of a cancelled request,   *)
(* and, for a client that never uses an id again, every token is gone.     *)
(***************************************************************************)
THEOREM NothingLeftBehind == Spec => []DrainedOnReturn
<1>1. LInv /\ Waited /\ [Next]_vars => Waited'
  <2> SUFFICES ASSUME LInv, Waited, [Next]_vars PROVE Waited'
    OBVIOUS
  <2> USE DEF LInv, IInv, Base, Queue, workVars, syncVars, historyVars
  <2>1. ASSUME UNCHANGED <<submitted, replies, workQueue, working, stage, syncQueue>>,
               entered \subseteq entered'
        PROVE  Waited'
    BY <2>1 DEF Waited
  <2>2. submitted \subseteq 1 .. Len(log) /\ submitted \subseteq Nums
    BY DEF SubmittedRead, TypeOK
  <2>3. ASSUME NEW m \in Messages, ReadMessage(m) PROVE Waited'
    <3>1. PICK n : n = Num
      OBVIOUS
    <3>2. Read(m) /\ n \in Nums /\ n \notin submitted
      BY <2>2, <2>3, <3>1, JustRead, ReadGrows
    <3>3. UNCHANGED <<working, stage, entered>>
      BY <2>3 DEF ReadMessage, InvalidMessage, RefuseUninitialized,
         RefuseShuttingDown, RefuseInitialized, RefuseUnknown, Refuse, Initialize,
         Shutdown, DispatchRequest, Exit, DropNotification, Initialized, Cancel,
         DispatchSync, DispatchNotification, IgnoreResponse, DispatchResponse,
         WorkerPool!Submit
    <3>4. ASSUME NEW k \in submitted PROVE replies'[k] = replies[k]
      <4>1. UNCHANGED replies \/ \E r \in Replies : Reply(n, r)
        BY <2>3, <3>1 DEF ReadMessage, InvalidMessage, RefuseUninitialized,
           RefuseShuttingDown, RefuseInitialized, RefuseUnknown, Refuse, Initialize,
           Shutdown, Outcomes, DispatchRequest, Exit, DropNotification, Initialized,
           Cancel, DispatchSync, DispatchNotification, IgnoreResponse,
           DispatchResponse, Replies
      <4>2. QED
        BY <2>2, <3>2, <4>1 DEF Reply, TypeOK
    <3>5. /\ Range(Append(workQueue, n)) = Range(workQueue) \cup {n}
          /\ Range(Append(syncQueue, n)) = Range(syncQueue) \cup {n}
      <4>1. workQueue \in Seq(Nums) /\ syncQueue \in Seq(Nums)
        BY DEF TypeOK
      <4>2. QED
        BY <3>2, <4>1, RangeAppend
    <3>6. CASE DispatchRequest(m) \/ DispatchNotification(m) \/ DispatchResponse(m)
      <4>1. /\ submitted' = submitted \cup {n} /\ syncQueue' = syncQueue
            /\ workQueue' = Append(workQueue, n)
        BY <3>1, <3>2, <3>6 DEF DispatchRequest, DispatchNotification,
           DispatchResponse, WorkerPool!Submit, Phases, Read
      <4>2. QED
        BY <3>3, <3>4, <3>5, <4>1 DEF Waited
    <3>7. CASE DispatchSync(m)
      <4>1. /\ submitted' = submitted \cup {n} /\ workQueue' = workQueue
            /\ syncQueue' = Append(syncQueue, n)
        BY <3>1, <3>2, <3>7
           DEF DispatchSync, SyncExecutor!Submit, Stopped, SyncPhases, Read
      <4>2. QED
        BY <3>3, <3>4, <3>5, <4>1 DEF Waited
    <3>8. CASE UNCHANGED <<submitted, workQueue, syncQueue>>
      BY <3>3, <3>4, <3>8 DEF Waited
    <3>9. QED
      BY <2>3, <3>6, <3>7, <3>8 DEF ReadMessage, InvalidMessage, RefuseUninitialized,
         RefuseShuttingDown, RefuseInitialized, RefuseUnknown, Refuse, Initialize,
         Shutdown, Exit, DropNotification, Initialized, Cancel, IgnoreResponse
  <2>4. ASSUME NEW w \in Workers, Start(w) PROVE Waited'
    <3>1. /\ UNCHANGED <<submitted, replies, syncQueue>> /\ entered \subseteq entered'
          /\ workQueue # <<>> /\ workQueue' = Tail(workQueue)
          /\ working[w] = None /\ working' = [working EXCEPT ![w] = Head(workQueue)]
          /\ \A v \in Workers : v # w => stage'[v] = stage[v]
          /\ stage'[w] = "begin" \/ Head(workQueue) \in entered'
      BY <2>4 DEF Start, WorkerPool!Start, TypeOK
    <3>2. Range(workQueue) = Range(workQueue') \cup {Head(workQueue)}
      BY <3>1, RangeTail DEF TypeOK, Accounted, OnePlace
    <3>3. /\ working'[w] = Head(workQueue)
          /\ \A v \in Workers : v # w => working'[v] = working[v]
      BY <3>1 DEF TypeOK
    <3>4. stage[w] = "idle"
      BY <3>1 DEF StageBusy
    <3>5. QED
      BY <3>1, <3>2, <3>3, <3>4 DEF Waited
  <2>5. ASSUME NEW w \in Workers, TaskStep(w) PROVE Waited'
    <3>1. /\ UNCHANGED <<submitted, workQueue, syncQueue>> /\ entered \subseteq entered'
          /\ \A v \in Workers : v # w => stage'[v] = stage[v] /\ working'[v] = working[v]
      BY <2>5 DEF TaskStep, AnswerCancelled, EnterHandler, HandlerEnds, EraseToken,
         TaskEnds, TaskFrame, WorkerPool!Finish, TypeOK
    <3>2. CASE AnswerCancelled(w)
      <4>1. /\ stage[w] = "begin" /\ working[w] # None /\ working[w] \in Nums
        BY <3>2 DEF AnswerCancelled, StageBusy, TypeOK
      <4>2. replies[working[w]] = <<>>
        <5>1. InFlight(working[w]) /\ working[w] \in 1 .. Len(log)
          BY <4>1, OnlyHere DEF Accounted, Stages, IsKind
        <5>2. Len(replies[working[w]]) = 0 /\ replies[working[w]] \in Seq(Replies)
          BY <4>1, <5>1 DEF Accounted, OneReply, TypeOK
        <5>3. QED
          BY <5>2, EmptySeq
      <4>3. replies' = [replies EXCEPT ![working[w]] = <<"cancelled">>]
        <5>1. Append(<<>>, "cancelled") = <<"cancelled">>
          OBVIOUS
        <5>2. QED
          BY <3>2, <4>2, <5>1 DEF AnswerCancelled, Reply
      <4>4. /\ replies'[working[w]] = <<"cancelled">>
            /\ \A n \in Nums : n # working[w] => replies'[n] = replies[n]
        BY <4>1, <4>3 DEF TypeOK
      <4>5. QED
        BY <2>2, <3>1, <4>4 DEF Waited
    <3>3. CASE EnterHandler(w)
      BY <3>1, <3>3 DEF EnterHandler, Waited
    <3>4. CASE HandlerEnds(w)
      <4>1. working[w] \in entered
        BY <3>4 DEF HandlerEnds, Handed
      <4>2. \A n \in Nums : n # working[w] => replies'[n] = replies[n]
        BY <3>4 DEF HandlerEnds, Reply, TypeOK
      <4>3. QED
        BY <2>2, <3>1, <4>1, <4>2 DEF Waited
    <3>5. CASE EraseToken(w) \/ TaskEnds(w)
      <4>1. stage[w] # "begin" /\ replies' = replies
        BY <3>5 DEF EraseToken, TaskEnds
      <4>2. QED
        BY <3>1, <4>1 DEF Waited
    <3>6. QED
      BY <2>5, <3>2, <3>3, <3>4, <3>5 DEF TaskStep
  <2>6. CASE SyncStart
    <3>1. /\ UNCHANGED <<submitted, replies, workQueue, working, stage>>
          /\ entered' = entered \cup {Head(syncQueue)}
          /\ syncQueue # <<>> /\ syncQueue' = Tail(syncQueue)
      BY <2>6 DEF SyncStart, SyncExecutor!Start
    <3>2. Range(syncQueue) \subseteq Range(syncQueue') \cup {Head(syncQueue)}
      <4>1. /\ Len(syncQueue) \in Nat \ {0} /\ DOMAIN syncQueue = 1 .. Len(syncQueue)
            /\ syncQueue[1] = Head(syncQueue)
            /\ DOMAIN Tail(syncQueue) = 1 .. (Len(syncQueue) - 1)
            /\ \A i \in 1 .. (Len(syncQueue) - 1) : Tail(syncQueue)[i] = syncQueue[i + 1]
        <5>1. syncQueue \in Seq(Nums) /\ syncQueue # <<>>
          BY <3>1 DEF TypeOK
        <5>2. QED
          BY <5>1, SMT
      <4>2. \A i \in 1 .. Len(syncQueue) :
              i = 1 \/ (i - 1 \in 1 .. (Len(syncQueue) - 1) /\ (i - 1) + 1 = i)
        BY <4>1
      <4>3. ASSUME NEW i \in 1 .. Len(syncQueue), i # 1
            PROVE  syncQueue[i] \in Range(syncQueue')
        <5>1. i - 1 \in DOMAIN syncQueue' /\ syncQueue'[i - 1] = syncQueue[i]
          BY <3>1, <4>1, <4>2, <4>3
        <5>2. QED
          BY <5>1 DEF Range
      <4>4. \A x \in Range(syncQueue) : x = Head(syncQueue) \/ x \in Range(syncQueue')
        BY <4>1, <4>3 DEF Range
      <4>5. QED
        BY <4>4
    <3>3. QED
      BY <3>1, <3>2 DEF Waited
  <2>7. ASSUME SyncFinish \/ StopServing \/ EndOfInput \/ RunThrows \/ HookReturns
        PROVE  Waited'
    BY <2>1, <2>7 DEF SyncFinish, StopServing, EndOfInput, RunThrows, HookReturns,
       LeaveLoop, CloseSync, JoinSync, CloseWorkers, JoinWorkers, SyncExecutor!Finish,
       SyncExecutor!Close, SyncExecutor!Join, WorkerPool!Close, WorkerPool!Join
  <2>8. ASSUME NEW t \in Threads, CallStep(t) PROVE Waited'
    BY <2>1, <2>8 DEF CallStep, AllocateId, RegisterCallback, SendRequest, CallFrame
  <2>9. CASE UNCHANGED vars
    BY <2>1, <2>9 DEF vars
  <2>10. QED
    BY <2>3, <2>4, <2>5, <2>6, <2>7, <2>8, <2>9 DEF Next
<1>2. Init => Waited
  BY DEF Init, Waited
<1>3. ASSUME LInv, Over
      PROVE  /\ workQueue = <<>> /\ syncQueue = <<>>
             /\ \A w \in Workers : working[w] = None /\ stage[w] = "idle"
  BY <1>3 DEF LInv, IInv, Base, StageBusy, Phases, Stopped, SyncPhases, Emptied, Over
<1>4. LInv /\ Waited =>
        (Over => \A n \in submitted : n \in entered \/ replies[n] = <<"cancelled">>)
  BY <1>3 DEF Waited, Queue, Range
<1>5. ASSUME UniqueIds
      PROVE  Spec => [](Over => \A i \in Ids : cancellationTokens[i] = None)
  <2>1. LInv /\ CInv => (Over => \A i \in Ids : cancellationTokens[i] = None)
    <3> SUFFICES ASSUME LInv, CInv, Over, NEW i \in Ids
                 PROVE  cancellationTokens[i] = None
      OBVIOUS
    <3>1. \A n \in Nums : ~Placed(n)
      BY <1>3 DEF Placed, Queue, Range, Nums, None
    <3>2. cancellationTokens[i] \in Nums \cup {None}
      BY DEF LInv, IInv, Base, TypeOK
    <3>3. QED
      BY <3>1, <3>2 DEF CInv, Tokens
  <2>2. QED
    BY <1>5, <2>1, AlwaysStopped, AlwaysAccounted, PTL
<1>6. Spec => [](LInv /\ Waited)
  BY <1>1, <1>2, AlwaysStopped, PTL DEF Spec
<1>7. CASE UniqueIds
  <2>1. /\ LInv /\ Waited
        /\ Over => \A i \in Ids : cancellationTokens[i] = None
        => DrainedOnReturn
    BY <1>4 DEF DrainedOnReturn
  <2>2. QED
    BY <1>5, <1>6, <1>7, <2>1, PTL
<1>8. CASE ~UniqueIds
  <2>1. LInv /\ Waited => DrainedOnReturn
    BY <1>4, <1>8 DEF DrainedOnReturn
  <2>2. QED
    BY <1>6, <2>1, PTL
<1>9. QED
  BY <1>7, <1>8

-----------------------------------------------------------------------------
(* Responses *)

(***************************************************************************)
(* The first response to an outgoing request finds its callback and every  *)
(* later one does not, for any number of threads that send requests at the *)
(* same time and however soon the client answers.                          *)
(***************************************************************************)
THEOREM ResponsesRouted == Spec => []ResponseRoutedOnce
<1>1. LInv /\ Routed /\ [Next]_vars => Routed'
  <2> SUFFICES ASSUME LInv, Routed, [Next]_vars PROVE Routed'
    OBVIOUS
  <2> USE DEF LInv, IInv, Base, callVars, historyVars
  <2>1. ASSUME UNCHANGED <<call, callId, nextOutgoingId, wire, pendingRequests, log,
                           submitted>>
        PROVE  Routed'
    BY <2>1 DEF Routed, Responses, ReadOf
  <2>2. nextOutgoingId \in Nat \ {0}
    BY ServerAssumption DEF TypeOK
  <2>3. ASSUME NEW m \in Messages, ReadMessage(m) PROVE Routed'
    <3>1. PICK n : n = Num
      OBVIOUS
    <3>2. /\ Read(m) /\ n \in Nums /\ n \notin 1 .. Len(log)
          /\ 1 .. Len(log') = (1 .. Len(log)) \cup {n} /\ log'[n] = m
          /\ \A k \in 1 .. Len(log) : log'[k] = log[k]
      BY <2>3, <3>1, JustRead, ReadGrows
    <3>3. n \notin submitted
      BY <3>2 DEF SubmittedRead
    <3>4. UNCHANGED <<call, callId, nextOutgoingId, wire>>
      BY <2>3 DEF ReadMessage, InvalidMessage, RefuseUninitialized,
         RefuseShuttingDown, RefuseInitialized, RefuseUnknown, Refuse, Initialize,
         Shutdown, DispatchRequest, Exit, DropNotification, Initialized, Cancel,
         DispatchSync, DispatchNotification, IgnoreResponse, DispatchResponse
    <3>5. \A id : Responses(id)' =
            IF m.kind = "response" /\ m.id = id THEN Responses(id) \cup {n}
                                                ELSE Responses(id)
      BY <3>2 DEF Responses, ReadOf
    <3>6. m.kind = "response" => m.id \in wire \cup {0}
      BY <3>2 DEF Read, ClientMaySend
    <3>7. \A k \in ReadOf("response")' : log'[k].id \in wire \cup {0}
      BY <3>2, <3>6 DEF Routed, ReadOf
    <3>8. \A id : Responses(id) \subseteq 1 .. Len(log)
      BY DEF Responses, ReadOf
    <3>9. CASE DispatchResponse(m)
      <4>1. /\ m.kind = "response" /\ m.id \in pendingRequests
            /\ pendingRequests' = pendingRequests \ {m.id}
            /\ submitted' = submitted \cup {n}
        BY <3>1, <3>9 DEF DispatchResponse
      <4>2. Responses(m.id)' \cap submitted' = {n}
        BY <3>5, <4>1 DEF Routed
      <4>3. ASSUME NEW id, id # m.id
            PROVE  /\ Responses(id)' = Responses(id)
                   /\ Responses(id)' \cap submitted' = Responses(id) \cap submitted
        BY <3>2, <3>5, <3>8, <4>1, <4>3
      <4>4. \A id \in wire \ pendingRequests' :
              \E k \in Nums : Responses(id)' \cap submitted' = {k}
        BY <3>2, <4>1, <4>2, <4>3 DEF Routed
      <4>5. \A id \in pendingRequests' : Responses(id)' = {}
        BY <4>1, <4>3 DEF Routed
      <4>6. \A t \in Threads : call[t] = "registered" => callId[t] # m.id
        BY <2>2, <3>6, <4>1 DEF Routed
      <4>7. QED
        BY <3>4, <3>7, <4>1, <4>4, <4>5, <4>6 DEF Routed
    <3>10. CASE ~DispatchResponse(m)
      <4>1. /\ pendingRequests' = pendingRequests
            /\ m.kind = "response" => m.id \notin pendingRequests /\ submitted' = submitted
            /\ submitted' \in {submitted, submitted \cup {n}}
        BY <2>3, <3>1, <3>10 DEF ReadMessage, InvalidMessage, RefuseUninitialized,
           RefuseShuttingDown, RefuseInitialized, AlreadyInitialized, RefuseUnknown,
           Refuse, Initialize, Shutdown, DispatchRequest, Exit, DropNotification,
           Initialized, Cancel, DispatchSync, DispatchNotification, IgnoreResponse,
           RequestKinds, NotificationKinds
      <4>2. \A id \in pendingRequests : Responses(id)' = {}
        BY <3>5, <4>1 DEF Routed
      <4>3. \A id : Responses(id)' \cap submitted' = Responses(id) \cap submitted
        BY <3>2, <3>3, <3>5, <3>8, <4>1
      <4>4. QED
        BY <3>4, <3>7, <4>1, <4>2, <4>3 DEF Routed
    <3>11. QED
      BY <3>9, <3>10
  <2>4. ASSUME NEW t \in Threads, CallStep(t) PROVE Routed'
    <3>1. UNCHANGED <<log, submitted>>
      BY <2>4 DEF CallStep, AllocateId, RegisterCallback, SendRequest, CallFrame
    <3>2. \A id : Responses(id)' = Responses(id) /\ ReadOf("response")' = ReadOf("response")
      BY <3>1 DEF Responses, ReadOf
    <3>3. call \in [Threads -> {"none", "allocated", "registered"}]
          /\ callId \in [Threads -> OutIds]
      BY DEF TypeOK
    <3>4. CASE AllocateId(t)
      <4>1. /\ call'[t] = "allocated" /\ callId'[t] = nextOutgoingId
            /\ \A u \in Threads : u # t => call'[u] = call[u] /\ callId'[u] = callId[u]
            /\ nextOutgoingId' = nextOutgoingId + 1
            /\ UNCHANGED <<wire, pendingRequests>>
        BY <3>3, <3>4 DEF AllocateId
      <4>2. nextOutgoingId \notin wire /\ nextOutgoingId \in 1 .. nextOutgoingId
            /\ 1 .. (nextOutgoingId - 1) \subseteq 1 .. nextOutgoingId
            /\ nextOutgoingId \notin 1 .. (nextOutgoingId - 1)
            /\ nextOutgoingId' - 1 = nextOutgoingId
        BY <2>2, <4>1 DEF Routed
      <4>3. QED
        BY <3>1, <3>2, <4>1, <4>2 DEF Routed
    <3>5. CASE RegisterCallback(t)
      <4>1. /\ call[t] = "allocated" /\ call'[t] = "registered"
            /\ \A u \in Threads : u # t => call'[u] = call[u]
            /\ pendingRequests' = pendingRequests \cup {callId[t]}
            /\ UNCHANGED <<callId, nextOutgoingId, wire>>
        BY <3>3, <3>5 DEF RegisterCallback
      <4>2. Responses(callId[t]) = {}
        BY <2>2, <4>1 DEF Routed, Responses
      <4>3. QED
        BY <3>1, <3>2, <4>1, <4>2 DEF Routed
    <3>6. CASE SendRequest(t)
      <4>1. /\ call[t] = "registered" /\ call'[t] = "none"
            /\ \A u \in Threads : u # t => call'[u] = call[u] /\ callId'[u] = callId[u]
            /\ wire' = wire \cup {callId[t]}
            /\ UNCHANGED <<nextOutgoingId, pendingRequests>>
        BY <3>3, <3>6 DEF SendRequest
      <4>2. QED
        BY <3>1, <3>2, <4>1 DEF Routed
    <3>7. QED
      BY <2>4, <3>4, <3>5, <3>6 DEF CallStep
  <2>5. ASSUME \/ StopServing \/ EndOfInput \/ RunThrows \/ HookReturns
               \/ SyncStart \/ SyncFinish
               \/ \E w \in Workers : Start(w) \/ TaskStep(w)
        PROVE  Routed'
    BY <2>1, <2>5 DEF StopServing, EndOfInput, RunThrows, HookReturns, LeaveLoop,
       CloseSync, JoinSync, CloseWorkers, JoinWorkers, SyncStart, SyncFinish, Start,
       TaskStep, AnswerCancelled, EnterHandler, HandlerEnds, EraseToken, TaskEnds,
       TaskFrame
  <2>6. CASE UNCHANGED vars
    BY <2>1, <2>6 DEF vars
  <2>7. QED
    BY <2>3, <2>4, <2>5, <2>6 DEF Next
<1>2. Init => Routed
  <2> SUFFICES ASSUME Init PROVE Routed
    OBVIOUS
  <2>1. /\ \A t \in Threads : call[t] = "none"
        /\ wire = {} /\ pendingRequests = {} /\ 1 .. Len(log) = {}
    BY DEF Init
  <2>2. QED
    BY <2>1 DEF Routed, ReadOf
<1>3. Routed => ResponseRoutedOnce
  <2> SUFFICES ASSUME Routed, NEW id \in wire, Responses(id) # {}
               PROVE  Cardinality(Responses(id) \cap submitted) = 1
    BY DEF ResponseRoutedOnce
  <2>1. PICK n \in Nums : Responses(id) \cap submitted = {n}
    BY DEF Routed
  <2>2. QED
    BY <2>1, FS_Singleton
<1>4. QED
  BY <1>1, <1>2, <1>3, AlwaysStopped, PTL DEF Spec
=============================================================================
