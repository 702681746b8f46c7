----------------------------- MODULE ThreadPool -----------------------------
(***************************************************************************)
(* src/src/ThreadPool.cpp: worker threads that share one queue under mu_   *)
(* and sleep on cv_.  A step is a critical section of mu_ or a statement   *)
(* that touches the shared state outside one: notify_one, notify_all, the  *)
(* task itself, join.  In particular both notifications come AFTER the     *)
(* lock is released, so every other thread can run in between.             *)
(*                                                                         *)
(* Callers are the threads that use the pool from outside; a task does not *)
(* use the pool that runs it.  A task stands for one submitted             *)
(* std::function and is submitted once.                                    *)
(***************************************************************************)
EXTENDS Integers, FiniteSets, SequencesExt

CONSTANTS NumWorkers, \* the constructor's argument
          Callers,    \* threads that call submit and shutdown
          Tasks,      \* tasks they may submit
          Idle        \* a worker's cur when it runs nothing

ASSUME PoolAssumption ==
  /\ NumWorkers \in Nat
  /\ IsFiniteSet(Callers)
  /\ Idle \notin Tasks

\* The constructor starts one worker when it is asked for none.
Workers == 1 .. (IF NumWorkers = 0 THEN 1 ELSE NumWorkers)

VARIABLES
  tasks,      \* tasks_
  stopping,   \* stopping_
  workerPc,   \* "top": about to lock mu_ and test the predicate; "parked": in
              \* cv_.wait; "running": in task(); "exited": returned
  cur,        \* the local variable task of each worker
  callerPc,   \* "idle", or the next statement: "notifyOne", "notifyAll", "join"
  joined,     \* a shutdown has joined every worker
  accepted,   \* history: tasks pushed, in order
  started,    \* history: tasks popped, in order
  finished    \* history: tasks that returned, in order

vars == <<tasks, stopping, workerPc, cur, callerPc, joined,
          accepted, started, finished>>

TypeOK ==
  /\ tasks \in Seq(Tasks)
  /\ stopping \in BOOLEAN
  /\ workerPc \in [Workers -> {"top", "parked", "running", "exited"}]
  /\ cur \in [Workers -> Tasks \cup {Idle}]
  /\ callerPc \in [Callers -> {"idle", "notifyOne", "notifyAll", "join"}]
  /\ joined \in BOOLEAN
  /\ accepted \in Seq(Tasks)
  /\ started \in Seq(Tasks)
  /\ finished \in Seq(Tasks)

At(pc) == {w \in Workers : workerPc[w] = pc}

Notifying == {c \in Callers : callerPc[c] = "notifyOne"}

Init ==
  /\ tasks = <<>>
  /\ stopping = FALSE
  /\ workerPc = [w \in Workers |-> "top"]
  /\ cur = [w \in Workers |-> Idle]
  /\ callerPc = [c \in Callers |-> "idle"]
  /\ joined = FALSE
  /\ accepted = <<>>
  /\ started = <<>>
  /\ finished = <<>>

-----------------------------------------------------------------------------
(***************************************************************************)
(* Mutated forms.  Each one is a mistake this code could have had; the     *)
(* property it is paired with in PROJECT.json must then fail.              *)
(***************************************************************************)

\* Pushes to the front.
SubmitToFront(c, t) ==
  /\ callerPc[c] = "idle" /\ t \notin Range(accepted) /\ ~stopping
  /\ tasks' = <<t>> \o tasks
  /\ accepted' = Append(accepted, t)
  /\ callerPc' = [callerPc EXCEPT ![c] = "notifyOne"]
  /\ UNCHANGED <<stopping, workerPc, cur, joined, started, finished>>

\* notify_one where notify_all is needed.
NotifyAllWakesOne(c) ==
  /\ callerPc[c] = "notifyAll"
  /\ callerPc' = [callerPc EXCEPT ![c] = "join"]
  /\ \/ \E w \in At("parked") : workerPc' = [workerPc EXCEPT ![w] = "top"]
     \/ At("parked") = {} /\ UNCHANGED workerPc
  /\ UNCHANGED <<tasks, stopping, cur, joined, accepted, started, finished>>

\* Returns from shutdown without joining.
JoinWithoutWaiting(c) ==
  /\ callerPc[c] = "join"
  /\ callerPc' = [callerPc EXCEPT ![c] = "idle"]
  /\ joined' = TRUE
  /\ UNCHANGED <<tasks, stopping, workerPc, cur, accepted, started, finished>>

\* cv_.wait without a predicate.
ParkWithoutPredicate(w) ==
  /\ workerPc[w] = "top"
  /\ workerPc' = [workerPc EXCEPT ![w] = "parked"]
  /\ UNCHANGED <<tasks, stopping, cur, callerPc, joined,
                 accepted, started, finished>>

\* Returns as soon as the pool stops, whatever is queued.
ExitAbandoning(w) ==
  /\ workerPc[w] = "top"
  /\ stopping
  /\ workerPc' = [workerPc EXCEPT ![w] = "exited"]
  /\ UNCHANGED <<tasks, stopping, cur, callerPc, joined,
                 accepted, started, finished>>

\* Forgets tasks_.pop().
TakeWithoutPop(w) ==
  /\ workerPc[w] = "top" /\ tasks # <<>>
  /\ cur' = [cur EXCEPT ![w] = Head(tasks)]
  /\ started' = Append(started, Head(tasks))
  /\ workerPc' = [workerPc EXCEPT ![w] = "running"]
  /\ UNCHANGED <<tasks, stopping, callerPc, joined, accepted, finished>>

\* Lets go of the task before running it.
FinishAfterReset(w) ==
  /\ workerPc[w] = "running"
  /\ finished' = Append(finished, Idle)
  /\ cur' = [cur EXCEPT ![w] = Idle]
  /\ workerPc' = [workerPc EXCEPT ![w] = "top"]
  /\ UNCHANGED <<tasks, stopping, callerPc, joined, accepted, started>>

-----------------------------------------------------------------------------
(* submit *)

\* The critical section, the pool open: push, then notify outside the lock.
Submit(c, t) ==
  /\ callerPc[c] = "idle"
  /\ t \notin Range(accepted)
  /\ ~stopping
  /\ tasks' = Append(tasks, t)
  /\ accepted' = Append(accepted, t)
  /\ callerPc' = [callerPc EXCEPT ![c] = "notifyOne"]
  /\ UNCHANGED <<stopping, workerPc, cur, joined, started, finished>>

\* The early return: the task is dropped.
SubmitDropped(c, t) ==
  /\ callerPc[c] = "idle"
  /\ t \notin Range(accepted)
  /\ stopping
  /\ UNCHANGED vars

\* cv_.notify_one: some waiter, if there is one, leaves the wait.
NotifyOne(c) ==
  /\ callerPc[c] = "notifyOne"
  /\ callerPc' = [callerPc EXCEPT ![c] = "idle"]
  /\ \/ \E w \in At("parked") : workerPc' = [workerPc EXCEPT ![w] = "top"]
     \/ At("parked") = {} /\ UNCHANGED workerPc
  /\ UNCHANGED <<tasks, stopping, cur, joined, accepted, started, finished>>

-----------------------------------------------------------------------------
(* shutdown *)

ShutdownBegin(c) ==
  /\ callerPc[c] = "idle"
  /\ ~stopping
  /\ stopping' = TRUE
  /\ callerPc' = [callerPc EXCEPT ![c] = "notifyAll"]
  /\ UNCHANGED <<tasks, workerPc, cur, joined, accepted, started, finished>>

\* The early return of every later call, joined or not.
ShutdownAgain(c) ==
  /\ callerPc[c] = "idle"
  /\ stopping
  /\ UNCHANGED vars

NotifyAll(c) ==
  /\ callerPc[c] = "notifyAll"
  /\ callerPc' = [callerPc EXCEPT ![c] = "join"]
  /\ workerPc' = [w \in Workers |->
                    IF workerPc[w] = "parked" THEN "top" ELSE workerPc[w]]
  /\ UNCHANGED <<tasks, stopping, cur, joined, accepted, started, finished>>

\* The loop of joins returns when the last worker has.
Join(c) ==
  /\ callerPc[c] = "join"
  /\ \A w \in Workers : workerPc[w] = "exited"
  /\ callerPc' = [callerPc EXCEPT ![c] = "idle"]
  /\ joined' = TRUE
  /\ UNCHANGED <<tasks, stopping, workerPc, cur, accepted, started, finished>>

-----------------------------------------------------------------------------
(* workerLoop *)

\* The predicate of cv_.wait is false: release mu_ and sleep, atomically.
Park(w) ==
  /\ workerPc[w] = "top"
  /\ ~stopping
  /\ tasks = <<>>
  /\ workerPc' = [workerPc EXCEPT ![w] = "parked"]
  /\ UNCHANGED <<tasks, stopping, cur, callerPc, joined,
                 accepted, started, finished>>

\* A condition variable may wake without being notified.
SpuriousWake(w) ==
  /\ workerPc[w] = "parked"
  /\ workerPc' = [workerPc EXCEPT ![w] = "top"]
  /\ UNCHANGED <<tasks, stopping, cur, callerPc, joined,
                 accepted, started, finished>>

\* Stopping and nothing left: return.
Exit(w) ==
  /\ workerPc[w] = "top"
  /\ stopping
  /\ tasks = <<>>
  /\ workerPc' = [workerPc EXCEPT ![w] = "exited"]
  /\ UNCHANGED <<tasks, stopping, cur, callerPc, joined,
                 accepted, started, finished>>

\* Pop the front, stopping or not.
Take(w) ==
  /\ workerPc[w] = "top"
  /\ tasks # <<>>
  /\ cur' = [cur EXCEPT ![w] = Head(tasks)]
  /\ tasks' = Tail(tasks)
  /\ started' = Append(started, Head(tasks))
  /\ workerPc' = [workerPc EXCEPT ![w] = "running"]
  /\ UNCHANGED <<stopping, callerPc, joined, accepted, finished>>

\* task() returns; the worker goes round its loop.
Finish(w) ==
  /\ workerPc[w] = "running"
  /\ finished' = Append(finished, cur[w])
  /\ cur' = [cur EXCEPT ![w] = Idle]
  /\ workerPc' = [workerPc EXCEPT ![w] = "top"]
  /\ UNCHANGED <<tasks, stopping, callerPc, joined, accepted, started>>

-----------------------------------------------------------------------------
CallerStep(c) ==
  \/ \E t \in Tasks : Submit(c, t) \/ SubmitDropped(c, t)
  \/ NotifyOne(c)
  \/ ShutdownBegin(c)
  \/ ShutdownAgain(c)
  \/ NotifyAll(c)
  \/ Join(c)

WorkerStep(w) == Park(w) \/ Exit(w) \/ Take(w) \/ Finish(w)

Next ==
  \/ \E c \in Callers : CallerStep(c)
  \/ \E w \in Workers : WorkerStep(w) \/ SpuriousWake(w)

Spec == Init /\ [][Next]_vars

(***************************************************************************)
(* A thread that can run does: a caller inside submit or shutdown goes on, *)
(* a worker that wants mu_ gets it in the end, a task returns.  Nothing    *)
(* makes a caller submit or shut down, or a sleeper wake by itself.        *)
(***************************************************************************)
Fairness ==
  /\ \A c \in Callers : WF_vars(NotifyOne(c) \/ NotifyAll(c) \/ Join(c))
  /\ \A w \in Workers : WF_vars(WorkerStep(w))

FairSpec == Spec /\ Fairness

-----------------------------------------------------------------------------
(* Properties *)

(***************************************************************************)
(* Workers start tasks exactly in the order of submission, and what is not *)
(* started yet is still queued: no lock gap loses or reorders a task.      *)
(***************************************************************************)
FifoDispatch == accepted = started \o tasks

(***************************************************************************)
(* Every task a worker popped either has returned, once, or is being run   *)
(* by exactly one worker.                                                  *)
(***************************************************************************)
RunOnce ==
  /\ IsInjective(finished)
  /\ Range(started) = Range(finished) \cup (Range(cur) \ {Idle})
  /\ \A w \in Workers : cur[w] # Idle =>
       /\ cur[w] \notin Range(finished)
       /\ \A v \in Workers : v # w => cur[v] # cur[w]

(***************************************************************************)
(* When shutdown has joined the workers, every task that was ever accepted *)
(* has run to its end: run() relies on it to answer what is in flight.     *)
(***************************************************************************)
DrainedOnJoin ==
  joined => tasks = <<>> /\ Range(accepted) = Range(finished)

(***************************************************************************)
(* A worker sleeps only if every queued task already has an awake worker   *)
(* or a notification on its way.  This is what notifying after the lock is *)
(* released could break: a wakeup spent on nobody while a task stays       *)
(* behind.                                                                 *)
(***************************************************************************)
WorkConserving ==
  At("parked") # {} =>
    Len(tasks) <= Cardinality(At("top")) + Cardinality(Notifying)

(***************************************************************************)
(* A worker still asleep in a stopping pool has the notify_all of shutdown *)
(* ahead of it, so join cannot wait for a sleeper.                         *)
(***************************************************************************)
NoSleeperLeftBehind ==
  stopping /\ At("parked") # {} => \E c \in Callers : callerPc[c] = "notifyAll"

(***************************************************************************)
(* A pool made for one worker, or for none, is a serial executor: tasks    *)
(* end in the order they were submitted (ThreadPool.hpp:16-18).            *)
(***************************************************************************)
SerialOrder == NumWorkers <= 1 => IsPrefix(finished, accepted)

(***************************************************************************)
(* A shutdown that is the first to stop the pool returns.                  *)
(***************************************************************************)
ShutdownReturns == stopping ~> joined

(***************************************************************************)
(* The pool implements the abstract task queue, liveness included: every   *)
(* accepted task is run to its end, shut down or not.                      *)
(***************************************************************************)
Abstract == INSTANCE TaskQueue WITH
  Slots   <- Workers,
  queue   <- tasks,
  running <- cur,
  phase   <- IF joined THEN "joined" ELSE IF stopping THEN "closing" ELSE "open"

ImplementsTaskQueue == Abstract!Spec

(***************************************************************************)
(* ThreadPool.hpp:35-36 says that tasks queued when shutdown is called and *)
(* not yet started are abandoned: nothing is started after stopping_.      *)
(***************************************************************************)
AbandonsQueuedTasks == [][stopping => started' = started]_vars
=============================================================================
