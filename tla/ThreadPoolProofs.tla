-------------------------- MODULE ThreadPoolProofs --------------------------
(***************************************************************************)
(* Theorems about ThreadPool, for any number of workers, callers and tasks.*)
(***************************************************************************)
EXTENDS ThreadPool, DataLemmas, FiniteSetTheorems

-----------------------------------------------------------------------------
(* The inductive invariant *)

\* A worker runs something exactly while it is in task().  TypeOK needs it:
\* what Finish records is a task.
RunningHasTask == \A w \in Workers : workerPc[w] = "running" <=> cur[w] # Idle

Base == TypeOK /\ RunningHasTask

\* How far a shutdown has come: a worker only returns from a stopping pool
\* that has nothing left, and only after all of them have is the pool joined.
Lifecycle ==
  /\ joined => stopping /\ \A w \in Workers : workerPc[w] = "exited"
  /\ \A w \in Workers : workerPc[w] = "exited" => stopping /\ tasks = <<>>
  /\ \A c \in Callers : callerPc[c] \in {"notifyAll", "join"} => stopping

\* Every accepted task is in one place: queued, running or finished.
Accounting == FifoDispatch /\ IsInjective(accepted) /\ RunOnce

\* With one worker nothing but the task being run separates what was started
\* from what has finished.
SerialAccounting ==
  NumWorkers <= 1 =>
    started = finished \o (IF cur[1] = Idle THEN <<>> ELSE <<cur[1]>>)

IInv ==
  /\ Base
  /\ Lifecycle
  /\ Accounting
  /\ SerialAccounting
  /\ WorkConserving
  /\ NoSleeperLeftBehind

\* There is at least one worker, and there are finitely many.
LEMMA SomeWorker == 1 \in Workers /\ IsFiniteSet(Workers)
<1>1. Workers = 1 .. (IF NumWorkers = 0 THEN 1 ELSE NumWorkers)
  BY DEF Workers
<1>2. (IF NumWorkers = 0 THEN 1 ELSE NumWorkers) \in Nat \ {0}
  BY PoolAssumption
<1>3. QED
  BY <1>1, <1>2, FS_Interval

-----------------------------------------------------------------------------
(* Theorems *)

\* IInv is an inductive invariant.
THEOREM Inductive == Spec => []IInv
<1>1. Init => IInv
  <2> SUFFICES ASSUME Init PROVE IInv
    OBVIOUS
  <2>1. Base
    BY PoolAssumption, EmptySeq DEF Init, Base, TypeOK, RunningHasTask
  <2>2. Lifecycle /\ NoSleeperLeftBehind
    BY DEF Init, Lifecycle, NoSleeperLeftBehind
  <2>3. WorkConserving
    BY DEF Init, WorkConserving, At
  <2>4. SerialAccounting
    BY SomeWorker DEF Init, SerialAccounting
  <2>5. Accounting
    <3>1. FifoDispatch
      BY DEF Init, FifoDispatch
    <3>2. IsInjective(accepted) /\ IsInjective(finished)
      BY DEF Init, IsInjective
    <3>3. Range(started) = {} /\ Range(finished) = {} /\ Range(cur) \ {Idle} = {}
      BY DEF Init, Range
    <3>4. RunOnce
      BY <3>2, <3>3 DEF RunOnce, Init
    <3>5. QED
      BY <3>1, <3>2, <3>4 DEF Accounting
  <2>6. QED
    BY <2>1, <2>2, <2>3, <2>4, <2>5 DEF IInv
<1>2. IInv /\ [Next]_vars => IInv'
  <2>1. Base /\ Lifecycle /\ [Next]_vars => Lifecycle'
    <3> SUFFICES ASSUME Base, Lifecycle, [Next]_vars PROVE Lifecycle'
      OBVIOUS
    <3> USE DEF Lifecycle, Base, TypeOK
    <3>1. ASSUME NEW c \in Callers, NEW t \in Tasks, Submit(c, t) PROVE Lifecycle'
      BY <3>1 DEF Submit
    <3>2. ASSUME UNCHANGED vars PROVE Lifecycle'
      BY <3>2 DEF vars
    <3>3. ASSUME NEW c \in Callers, NotifyOne(c) PROVE Lifecycle'
      BY <3>3 DEF NotifyOne, At
    <3>4. ASSUME NEW c \in Callers, ShutdownBegin(c) PROVE Lifecycle'
      BY <3>4 DEF ShutdownBegin
    <3>5. ASSUME NEW c \in Callers, NotifyAll(c) PROVE Lifecycle'
      BY <3>5 DEF NotifyAll
    <3>6. ASSUME NEW c \in Callers, Join(c) PROVE Lifecycle'
      BY <3>6 DEF Join
    <3>7. ASSUME NEW w \in Workers, Park(w) PROVE Lifecycle'
      BY <3>7 DEF Park
    <3>8. ASSUME NEW w \in Workers, SpuriousWake(w) PROVE Lifecycle'
      BY <3>8 DEF SpuriousWake
    <3>9. ASSUME NEW w \in Workers, Exit(w) PROVE Lifecycle'
      BY <3>9 DEF Exit
    <3>10. ASSUME NEW w \in Workers, Take(w) PROVE Lifecycle'
      BY <3>10 DEF Take
    <3>11. ASSUME NEW w \in Workers, Finish(w) PROVE Lifecycle'
      BY <3>11 DEF Finish
    <3>12. QED
      BY <3>1, <3>2, <3>3, <3>4, <3>5, <3>6, <3>7, <3>8, <3>9, <3>10, <3>11
         DEF Next, CallerStep, WorkerStep, SubmitDropped, ShutdownAgain
  <2>2. Base /\ NoSleeperLeftBehind /\ [Next]_vars => NoSleeperLeftBehind'
    <3> SUFFICES ASSUME Base, NoSleeperLeftBehind, [Next]_vars
                 PROVE  NoSleeperLeftBehind'
      OBVIOUS
    <3> USE DEF NoSleeperLeftBehind, Base, TypeOK, At
    <3>1. ASSUME NEW c \in Callers, NEW t \in Tasks, Submit(c, t)
          PROVE  NoSleeperLeftBehind'
      BY <3>1 DEF Submit
    <3>2. ASSUME UNCHANGED vars PROVE NoSleeperLeftBehind'
      BY <3>2 DEF vars
    <3>3. ASSUME NEW c \in Callers, NotifyOne(c) PROVE NoSleeperLeftBehind'
      BY <3>3 DEF NotifyOne
    <3>4. ASSUME NEW c \in Callers, ShutdownBegin(c) PROVE NoSleeperLeftBehind'
      BY <3>4 DEF ShutdownBegin
    <3>5. ASSUME NEW c \in Callers, NotifyAll(c) PROVE NoSleeperLeftBehind'
      BY <3>5 DEF NotifyAll
    <3>6. ASSUME NEW c \in Callers, Join(c) PROVE NoSleeperLeftBehind'
      BY <3>6 DEF Join
    <3>7. ASSUME NEW w \in Workers, Park(w) PROVE NoSleeperLeftBehind'
      BY <3>7 DEF Park
    <3>8. ASSUME NEW w \in Workers, SpuriousWake(w) PROVE NoSleeperLeftBehind'
      BY <3>8 DEF SpuriousWake
    <3>9. ASSUME NEW w \in Workers, Exit(w) PROVE NoSleeperLeftBehind'
      BY <3>9 DEF Exit
    <3>10. ASSUME NEW w \in Workers, Take(w) PROVE NoSleeperLeftBehind'
      BY <3>10 DEF Take
    <3>11. ASSUME NEW w \in Workers, Finish(w) PROVE NoSleeperLeftBehind'
      BY <3>11 DEF Finish
    <3>12. QED
      BY <3>1, <3>2, <3>3, <3>4, <3>5, <3>6, <3>7, <3>8, <3>9, <3>10, <3>11
         DEF Next, CallerStep, WorkerStep, SubmitDropped, ShutdownAgain
  <2>3. Base /\ SerialAccounting /\ [Next]_vars => SerialAccounting'
    <3> SUFFICES ASSUME Base, SerialAccounting, [Next]_vars, NumWorkers <= 1
                 PROVE  (started = finished \o
                           (IF cur[1] = Idle THEN <<>> ELSE <<cur[1]>>))'
      BY DEF SerialAccounting
    <3> USE DEF Base, TypeOK
    <3>1. Workers = {1}
      BY PoolAssumption DEF Workers
    <3>2. CASE UNCHANGED <<started, finished, cur>>
      BY <3>2 DEF SerialAccounting
    <3>3. ASSUME NEW w \in Workers, Take(w)
          PROVE  started' = finished' \o (IF cur'[1] = Idle THEN <<>> ELSE <<cur'[1]>>)
      <4>1. /\ w = 1 /\ cur[1] = Idle
            /\ Head(tasks) \in Tasks
            /\ cur'[1] = Head(tasks) /\ cur'[1] # Idle
            /\ started' = Append(started, Head(tasks)) /\ finished' = finished
        BY <3>1, <3>3, HeadTailProperties, PoolAssumption DEF Take, RunningHasTask
      <4>2. started = finished
        BY <4>1, ConcatEmptySeq DEF SerialAccounting
      <4>3. Append(finished, Head(tasks)) = finished \o <<Head(tasks)>>
        BY <4>1, AppendIsConcat
      <4>4. QED
        BY <4>1, <4>2, <4>3
    <3>4. ASSUME NEW w \in Workers, Finish(w)
          PROVE  started' = finished' \o (IF cur'[1] = Idle THEN <<>> ELSE <<cur'[1]>>)
      <4>1. /\ w = 1 /\ cur[1] \in Tasks
            /\ cur[1] # Idle /\ cur'[1] = Idle
            /\ finished' = Append(finished, cur[1]) /\ started' = started
        BY <3>1, <3>4, PoolAssumption DEF Finish, RunningHasTask
      <4>2. started = finished \o <<cur[1]>>
        BY <4>1 DEF SerialAccounting
      <4>3. finished' = finished \o <<cur[1]>>
        BY <4>1, AppendIsConcat
      <4>4. finished' \o <<>> = finished'
        BY <4>1, AppendProperties, ConcatEmptySeq
      <4>5. QED
        BY <4>1, <4>2, <4>3, <4>4
    <3>5. QED
      BY <3>2, <3>3, <3>4
         DEF Next, CallerStep, WorkerStep, SubmitDropped, ShutdownAgain, vars, Submit,
             NotifyOne, ShutdownBegin, NotifyAll, Join, Park, SpuriousWake, Exit
  \* Every step keeps the types, and no task is in two places.
  <2>4. Base /\ [Next]_vars => Base'
    <3> SUFFICES ASSUME Base, [Next]_vars PROVE Base'
      OBVIOUS
    <3> USE DEF Base, TypeOK, RunningHasTask
    <3>1. ASSUME NEW c \in Callers, NEW t \in Tasks, Submit(c, t) PROVE Base'
      BY <3>1, AppendProperties DEF Submit
    <3>2. ASSUME UNCHANGED vars PROVE Base'
      BY <3>2 DEF vars
    <3>3. ASSUME NEW c \in Callers, NotifyOne(c) PROVE Base'
      BY <3>3 DEF NotifyOne, At
    <3>4. ASSUME NEW c \in Callers, ShutdownBegin(c) PROVE Base'
      BY <3>4 DEF ShutdownBegin
    <3>5. ASSUME NEW c \in Callers, NotifyAll(c) PROVE Base'
      BY <3>5 DEF NotifyAll
    <3>6. ASSUME NEW c \in Callers, Join(c) PROVE Base'
      BY <3>6 DEF Join
    <3>7. ASSUME NEW w \in Workers, Park(w) PROVE Base'
      BY <3>7 DEF Park
    <3>8. ASSUME NEW w \in Workers, SpuriousWake(w) PROVE Base'
      BY <3>8 DEF SpuriousWake
    <3>9. ASSUME NEW w \in Workers, Exit(w) PROVE Base'
      BY <3>9 DEF Exit
    <3>10. ASSUME NEW w \in Workers, Take(w) PROVE Base'
      <4>1. Head(tasks) \in Tasks /\ Tail(tasks) \in Seq(Tasks)
        BY <3>10, HeadTailProperties DEF Take
      <4>2. Append(started, Head(tasks)) \in Seq(Tasks)
        BY <4>1, AppendProperties
      <4>3. QED
        BY <3>10, <4>1, <4>2, PoolAssumption DEF Take
    <3>11. ASSUME NEW w \in Workers, Finish(w) PROVE Base'
      <4>1. cur[w] \in Tasks
        BY <3>11 DEF Finish
      <4>2. Append(finished, cur[w]) \in Seq(Tasks)
        BY <4>1, AppendProperties
      <4>3. QED
        BY <3>11, <4>2 DEF Finish
    <3>12. QED
      BY <3>1, <3>2, <3>3, <3>4, <3>5, <3>6, <3>7, <3>8, <3>9, <3>10, <3>11
         DEF Next, CallerStep, WorkerStep, SubmitDropped, ShutdownAgain
  \* Every task that submit took is queued, running or done, and in that order.
  <2>5. Base /\ Accounting /\ [Next]_vars => Accounting'
    <3> SUFFICES ASSUME Base, Accounting, [Next]_vars PROVE Accounting'
      OBVIOUS
    <3> USE DEF Accounting, Base, TypeOK
    <3>1. ASSUME NEW c \in Callers, NEW t \in Tasks, Submit(c, t) PROVE Accounting'
      <4>1. FifoDispatch'
        <5>1. /\ started \in Seq(Tasks) /\ tasks \in Seq(Tasks)
              /\ accepted = started \o tasks
              /\ accepted' = Append(accepted, t)
              /\ tasks' = Append(tasks, t) /\ started' = started
          BY <3>1 DEF Submit, FifoDispatch
        <5>2. Append(started \o tasks, t) = started \o Append(tasks, t)
          <6>1. started \o tasks \in Seq(Tasks) /\ <<t>> \in Seq(Tasks)
            BY <5>1, ConcatProperties
          <6>2. Append(started \o tasks, t) = (started \o tasks) \o <<t>>
            BY <6>1, AppendIsConcat
          <6>3. Append(tasks, t) = tasks \o <<t>>
            BY <5>1, AppendIsConcat
          <6>4. (started \o tasks) \o <<t>> = started \o (tasks \o <<t>>)
            BY <5>1, <6>1, ConcatAssociative
          <6>5. QED
            BY <6>2, <6>3, <6>4
        <5>3. QED
          BY <5>1, <5>2, Zenon DEF FifoDispatch
      <4>2. IsInjective(accepted)'
        BY <3>1, RangeAppend DEF Submit
      <4>3. RunOnce'
        BY <3>1 DEF Submit, RunOnce
      <4>4. QED
        BY <4>1, <4>2, <4>3
    <3>2. ASSUME UNCHANGED <<tasks, accepted, started, finished, cur>>
          PROVE  Accounting'
      BY <3>2 DEF FifoDispatch, RunOnce
    <3>3. ASSUME NEW w \in Workers, Take(w) PROVE Accounting'
      <4> DEFINE h == Head(tasks)
      <4>1. /\ h \in Tasks
            /\ tasks' = Tail(tasks)
            /\ started' = Append(started, h)
            /\ cur' = [cur EXCEPT ![w] = h]
            /\ accepted' = accepted /\ finished' = finished
            /\ tasks # <<>> /\ cur[w] = Idle
        BY <3>3, HeadTailProperties DEF Take, RunningHasTask
      <4>2. FifoDispatch'
        BY <4>1, MoveHead DEF FifoDispatch
      <4>3. h \notin Range(started)
        BY <4>1, MoveHead DEF FifoDispatch
      <4>4. Range(started)' = Range(started) \cup {h}
        BY <4>1, RangeAppend
      <4>5. Range(cur)' \ {Idle} = (Range(cur) \ {Idle}) \cup {h}
        BY <4>1, PoolAssumption DEF Range
      <4>6. RunOnce'
        <5>1. IsInjective(finished)'
          BY <4>1 DEF RunOnce
        <5>2. (Range(started) = Range(finished) \cup (Range(cur) \ {Idle}))'
          BY <4>1, <4>4, <4>5 DEF RunOnce
        <5>3. \A v \in Workers : cur[v] # h
          BY <4>1, <4>3, PoolAssumption DEF RunOnce, Range
        <5>4. h \notin Range(finished)
          BY <4>3 DEF RunOnce
        <5>5. ASSUME NEW u \in Workers, cur'[u] # Idle
              PROVE  /\ cur'[u] \notin Range(finished)
                     /\ \A v \in Workers : v # u => cur'[v] # cur'[u]
          BY <4>1, <5>3, <5>4, <5>5 DEF RunOnce
        <5>6. QED
          BY <4>1, <5>1, <5>2, <5>5 DEF RunOnce
      <4>7. QED
        BY <4>1, <4>2, <4>6
    <3>4. ASSUME NEW w \in Workers, Finish(w) PROVE Accounting'
      <4>1. /\ cur[w] \in Tasks
            /\ finished' = Append(finished, cur[w])
            /\ cur' = [cur EXCEPT ![w] = Idle]
            /\ accepted' = accepted /\ started' = started /\ tasks' = tasks
        BY <3>4 DEF Finish, RunningHasTask
      <4>2. cur[w] # Idle
        BY <4>1, PoolAssumption
      <4>3. Range(finished)' = Range(finished) \cup {cur[w]}
        BY <4>1, RangeAppend
      <4>4. \A v \in Workers : v # w => cur[v] # cur[w]
        BY <4>2 DEF RunOnce
      <4>5. Range(cur) \ {Idle} = (Range(cur)' \ {Idle}) \cup {cur[w]}
        BY <4>1, <4>2 DEF Range
      <4>6. IsInjective(finished)'
        BY <4>1, <4>2, RangeAppend DEF RunOnce
      <4>7. ASSUME NEW u \in Workers, cur'[u] # Idle
            PROVE  /\ cur'[u] \notin Range(finished)'
                   /\ \A v \in Workers : v # u => cur'[v] # cur'[u]
        <5>1. u # w /\ cur'[u] = cur[u]
          BY <4>1, <4>7
        <5>2. QED
          BY <4>1, <4>3, <4>4, <4>7, <5>1 DEF RunOnce
      <4>8. (Range(started) = Range(finished) \cup (Range(cur) \ {Idle}))'
        BY <4>1, <4>3, <4>5 DEF RunOnce
      <4>9. RunOnce'
        BY <4>6, <4>7, <4>8 DEF RunOnce
      <4>10. QED
        BY <4>1, <4>9 DEF FifoDispatch
    <3>5. QED
      BY <3>1, <3>2, <3>3, <3>4
         DEF Next, CallerStep, WorkerStep, SubmitDropped, ShutdownAgain, vars,
             NotifyOne, ShutdownBegin, NotifyAll, Join, Park, SpuriousWake, Exit
  \* notify_one of every submit and the loop of every awake thread leave no task
  \* queued while nobody is about to take it.
  <2>6. Base /\ WorkConserving /\ [Next]_vars => WorkConserving'
    <3> SUFFICES ASSUME Base, WorkConserving, [Next]_vars, At("parked")' # {}
                 PROVE  Len(tasks') <= Cardinality(At("top")') + Cardinality(Notifying')
      BY DEF WorkConserving
    <3> DEFINE Covered ==
          Len(tasks') <= Cardinality(At("top")') + Cardinality(Notifying')
    <3> USE DEF Base, TypeOK
    <3>1. /\ IsFiniteSet(At("top")) /\ Cardinality(At("top")) \in Nat
          /\ IsFiniteSet(At("top")') /\ Cardinality(At("top")') \in Nat
          /\ IsFiniteSet(Notifying) /\ Cardinality(Notifying) \in Nat
          /\ IsFiniteSet(Notifying') /\ Cardinality(Notifying') \in Nat
          /\ Len(tasks) \in Nat
      <4>1. \A pc : At(pc) \subseteq Workers /\ At(pc)' \subseteq Workers
        BY DEF At
      <4>2. Notifying \subseteq Callers /\ Notifying' \subseteq Callers
        BY DEF Notifying
      <4>3. QED
        BY <4>1, <4>2, SomeWorker, PoolAssumption, FS_Subset,
           FS_CardinalityType
    <3>2. ASSUME NEW c \in Callers, NEW t \in Tasks, Submit(c, t) PROVE Covered
      <4>1. At("parked") # {} /\ At("top")' = At("top")
        BY <3>2 DEF Submit, At
      <4>2. c \notin Notifying /\ Notifying' = Notifying \cup {c}
        BY <3>2 DEF Submit, Notifying
      <4>3. Cardinality(Notifying') = Cardinality(Notifying) + 1
        BY <3>1, <4>2, FS_AddElement
      <4>4. Len(tasks') = Len(tasks) + 1
        BY <3>2, AppendProperties DEF Submit
      <4>5. QED
        BY <3>1, <4>1, <4>3, <4>4 DEF WorkConserving
    <3>3. ASSUME NEW c \in Callers, NotifyOne(c) PROVE Covered
      <4>1. PICK w \in At("parked") : workerPc' = [workerPc EXCEPT ![w] = "top"]
        BY <3>3 DEF NotifyOne, At
      <4>2. w \notin At("top") /\ At("top")' = At("top") \cup {w}
        BY <4>1 DEF At
      <4>3. c \in Notifying /\ Notifying' = Notifying \ {c}
        BY <3>3 DEF NotifyOne, Notifying
      <4>4. Cardinality(At("top")') = Cardinality(At("top")) + 1
        BY <3>1, <4>2, FS_AddElement
      <4>5. Cardinality(Notifying') = Cardinality(Notifying) - 1
        BY <3>1, <4>3, FS_RemoveElement
      <4>6. tasks' = tasks
        BY <3>3 DEF NotifyOne
      <4>7. QED
        BY <3>1, <4>1, <4>4, <4>5, <4>6 DEF WorkConserving
    <3>4. ASSUME NEW c \in Callers, ShutdownBegin(c) PROVE Covered
      <4>1. Notifying' = Notifying /\ tasks' = tasks /\ workerPc' = workerPc
        BY <3>4 DEF ShutdownBegin, Notifying
      <4>2. QED
        BY <4>1 DEF WorkConserving, At
    <3>5. ASSUME NEW c \in Callers, NotifyAll(c) PROVE Covered
      BY <3>5 DEF NotifyAll, At
    <3>6. ASSUME NEW c \in Callers, Join(c) PROVE Covered
      <4>1. Notifying' = Notifying /\ tasks' = tasks /\ workerPc' = workerPc
        BY <3>6 DEF Join, Notifying
      <4>2. QED
        BY <4>1 DEF WorkConserving, At
    <3>7. ASSUME NEW w \in Workers, Park(w) \/ Exit(w) PROVE Covered
      <4>1. tasks' = <<>>
        BY <3>7 DEF Park, Exit
      <4>2. QED
        BY <3>1, <4>1
    <3>8. ASSUME NEW w \in Workers, SpuriousWake(w) \/ Finish(w) PROVE Covered
      <4>1. /\ At("parked") # {}
            /\ w \notin At("top") /\ At("top")' = At("top") \cup {w}
            /\ tasks' = tasks /\ Notifying' = Notifying
        BY <3>8 DEF SpuriousWake, Finish, At, Notifying
      <4>2. Cardinality(At("top")') = Cardinality(At("top")) + 1
        BY <3>1, <4>1, FS_AddElement
      <4>3. QED
        BY <3>1, <4>1, <4>2 DEF WorkConserving
    <3>9. ASSUME NEW w \in Workers, Take(w) PROVE Covered
      <4>1. /\ At("parked") # {}
            /\ w \in At("top") /\ At("top")' = At("top") \ {w}
            /\ Notifying' = Notifying
        BY <3>9 DEF Take, At, Notifying
      <4>2. Cardinality(At("top")') = Cardinality(At("top")) - 1
        BY <3>1, <4>1, FS_RemoveElement
      <4>3. Len(tasks') = Len(tasks) - 1
        BY <3>9, HeadTailProperties DEF Take
      <4>4. QED
        BY <3>1, <4>1, <4>2, <4>3 DEF WorkConserving
    <3>10. CASE UNCHANGED vars
      BY <3>10 DEF vars, WorkConserving, At, Notifying
    <3>11. QED
      BY <3>2, <3>3, <3>4, <3>5, <3>6, <3>7, <3>8, <3>9, <3>10
         DEF Next, CallerStep, WorkerStep, SubmitDropped, ShutdownAgain
  <2>7. QED
    BY <2>1, <2>2, <2>3, <2>4, <2>5, <2>6 DEF IInv
<1>3. QED
  BY <1>1, <1>2, PTL DEF Spec

\* The variables keep their types.
THEOREM TypeCorrect == Spec => []TypeOK
BY Inductive, PTL DEF IInv, Base

\* Tasks start in the order submit accepted them; what has not started is
\* queued.
THEOREM Fifo == Spec => []FifoDispatch
BY Inductive, PTL DEF IInv, Accounting

\* No task runs twice, on one worker or on two, and none that was popped is
\* lost.
THEOREM EachTaskRunsOnce == Spec => []RunOnce
BY Inductive, PTL DEF IInv, Accounting

\* A worker sleeps only if every queued task has an awake worker or a
\* notification coming.
THEOREM NoLostWakeup == Spec => []WorkConserving
BY Inductive, PTL DEF IInv

\* A sleeper in a stopping pool has notify_all ahead of it.
THEOREM ShutdownWakesAll == Spec => []NoSleeperLeftBehind
BY Inductive, PTL DEF IInv

\* shutdown returns from the joins only after every accepted task has run.
THEOREM Drained == Spec => []DrainedOnJoin
<1>1. IInv => DrainedOnJoin
  <2> SUFFICES ASSUME IInv, joined PROVE tasks = <<>> /\ Range(accepted) = Range(finished)
    BY DEF DrainedOnJoin
  <2>1. tasks = <<>> /\ \A w \in Workers : cur[w] = Idle
    BY SomeWorker DEF IInv, Lifecycle, Base, RunningHasTask
  <2>2. accepted = started
    BY <2>1, ConcatEmptySeq DEF IInv, Accounting, FifoDispatch, Base, TypeOK
  <2>3. Range(cur) \ {Idle} = {}
    BY <2>1 DEF Range, IInv, Base, TypeOK
  <2>4. QED
    BY <2>1, <2>2, <2>3 DEF IInv, Accounting, RunOnce
<1>2. QED
  BY <1>1, Inductive, PTL

\* One worker, or none asked for: tasks end in the order of submission.
THEOREM Serial == Spec => []SerialOrder
<1>1. IInv => SerialOrder
  <2> SUFFICES ASSUME IInv, NumWorkers <= 1 PROVE IsPrefix(finished, accepted)
    BY DEF SerialOrder
  <2> DEFINE last == IF cur[1] = Idle THEN <<>> ELSE <<cur[1]>>
  <2>1. /\ finished \in Seq(Tasks) /\ tasks \in Seq(Tasks) /\ last \in Seq(Tasks)
        /\ started = finished \o last /\ accepted = started \o tasks
    BY SomeWorker DEF IInv, Base, TypeOK, SerialAccounting, Accounting, FifoDispatch
  <2> HIDE DEF last
  <2>2. /\ last \o tasks \in Seq(Tasks)
        /\ accepted = finished \o (last \o tasks)
    <3>1. last \o tasks \in Seq(Tasks)
      BY <2>1, ConcatProperties
    <3>2. (finished \o last) \o tasks = finished \o (last \o tasks)
      BY <2>1, ConcatAssociative
    <3>3. QED
      BY <2>1, <3>1, <3>2
  <2>3. Len(finished) <= Len(accepted)
    BY <2>1, <2>2, ConcatProperties, LenProperties
  <2>4. SubSeq(accepted, 1, Len(finished)) = finished
    BY <2>1, <2>2, SubSeqOfConcat1, SubSeqFull, LenProperties
  <2>5. SubSeq(finished, 1, Len(finished)) = finished
    BY <2>1, SubSeqFull
  <2>6. QED
    BY <2>3, <2>4, <2>5 DEF IsPrefix
<1>2. QED
  BY <1>1, Inductive, PTL

-----------------------------------------------------------------------------
(* Refinement *)

\* Every run of the pool is a run of the abstract task queue.
THEOREM Refines == Spec => Abstract!SafeSpec
<1>1. Init => Abstract!Init
  BY DEF Init, Abstract!Init
<1>2. IInv /\ [Next]_vars => [Abstract!Next]_Abstract!vars
  <2> SUFFICES ASSUME IInv, [Next]_vars PROVE [Abstract!Next]_Abstract!vars
    OBVIOUS
  <2> USE DEF IInv, Base, TypeOK
  <2>1. ASSUME NEW c \in Callers, NEW t \in Tasks, Submit(c, t)
        PROVE  Abstract!Submit(t)
    BY <2>1 DEF Submit, Lifecycle, Abstract!Submit
  <2>2. CASE UNCHANGED <<tasks, cur, joined, stopping>>
    BY <2>2 DEF Abstract!vars
  <2>3. ASSUME NEW c \in Callers, ShutdownBegin(c) PROVE Abstract!Close
    BY <2>3 DEF ShutdownBegin, Lifecycle, Abstract!Close
  <2>4. ASSUME NEW c \in Callers, Join(c), ~joined PROVE Abstract!Join
    <3>1. tasks = <<>> /\ \A w \in Workers : cur[w] = Idle
      BY <2>4, SomeWorker DEF Join, Lifecycle, RunningHasTask
    <3>2. stopping
      BY <2>4 DEF Join, Lifecycle
    <3>3. QED
      BY <2>4, <3>1, <3>2 DEF Join, Abstract!Join, Abstract!Drained
  <2>5. ASSUME NEW c \in Callers, Join(c), joined
        PROVE  UNCHANGED <<tasks, cur, joined, stopping>>
    BY <2>5 DEF Join
  <2>6. ASSUME NEW w \in Workers, Take(w) PROVE Abstract!Start(w)
    BY <2>6, PoolAssumption DEF Take, RunningHasTask, Abstract!Start
  <2>7. ASSUME NEW w \in Workers, Finish(w) PROVE Abstract!Finish(w)
    BY <2>7, PoolAssumption DEF Finish, RunningHasTask, Abstract!Finish
  <2>8. QED
    BY <2>1, <2>2, <2>3, <2>4, <2>5, <2>6, <2>7
       DEF Next, CallerStep, WorkerStep, SubmitDropped, ShutdownAgain, vars,
           NotifyOne, NotifyAll, Park, SpuriousWake, Exit, Abstract!Next
<1>3. QED
  BY <1>1, <1>2, Inductive, PTL DEF Spec, Abstract!SafeSpec
=============================================================================
