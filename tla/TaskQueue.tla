----------------------------- MODULE TaskQueue -----------------------------
(***************************************************************************)
(* What a ThreadPool promises its user, without locks, condition variables *)
(* or threads: a FIFO queue of tasks, a fixed number of slots that run     *)
(* tasks, and a life cycle.  Once closed the queue takes nothing more, but *)
(* what it took before is still run; it is joined when nothing is left.    *)
(*                                                                         *)
(* ThreadPool.tla is shown to implement this module, and LanguageServer    *)
(* uses two instances of it (workerPool_ and syncExecutor_).               *)
(***************************************************************************)
EXTENDS Sequences

CONSTANTS Tasks,  \* everything that may be submitted
          Slots,  \* one per worker thread
          Idle    \* what an idle slot runs, not a task

VARIABLES queue,    \* tasks submitted and not yet started, oldest first
          running,  \* the task each slot runs, or Idle
          phase     \* "open", then "closing", then "joined"

vars == <<queue, running, phase>>

TypeOK ==
  /\ queue \in Seq(Tasks)
  /\ running \in [Slots -> Tasks \cup {Idle}]
  /\ phase \in {"open", "closing", "joined"}

Init ==
  /\ queue = <<>>
  /\ running = [s \in Slots |-> Idle]
  /\ phase = "open"

\* A submission to a queue that is not open is dropped.
Submit(t) ==
  /\ queue' = IF phase = "open" THEN Append(queue, t) ELSE queue
  /\ UNCHANGED <<running, phase>>

Start(s) ==
  /\ queue # <<>>
  /\ running[s] = Idle
  /\ running' = [running EXCEPT ![s] = Head(queue)]
  /\ queue' = Tail(queue)
  /\ UNCHANGED phase

Finish(s) ==
  /\ running[s] # Idle
  /\ running' = [running EXCEPT ![s] = Idle]
  /\ UNCHANGED <<queue, phase>>

Close ==
  /\ phase = "open"
  /\ phase' = "closing"
  /\ UNCHANGED <<queue, running>>

Drained == queue = <<>> /\ \A s \in Slots : running[s] = Idle

Join ==
  /\ phase = "closing"
  /\ Drained
  /\ phase' = "joined"
  /\ UNCHANGED <<queue, running>>

Next ==
  \/ \E t \in Tasks : Submit(t)
  \/ \E s \in Slots : Start(s) \/ Finish(s)
  \/ Close
  \/ Join

(***************************************************************************)
(* Which slot takes the next task is left open: a particular slot may be   *)
(* passed over for ever, a waiting task may not.                           *)
(***************************************************************************)
Fairness ==
  /\ WF_vars(\E s \in Slots : Start(s))
  /\ \A s \in Slots : WF_vars(Finish(s))
  /\ WF_vars(Join)

SafeSpec == Init /\ [][Next]_vars

Spec == SafeSpec /\ Fairness
=============================================================================
