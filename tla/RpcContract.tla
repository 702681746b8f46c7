---------------------------- MODULE RpcContract ----------------------------
(***************************************************************************)
(* What run() promises a client: every request it reads is answered, once, *)
(* and the workers are not joined before, however run ends.                *)
(***************************************************************************)
EXTENDS Naturals

CONSTANT Requests  \* identities of the requests a client may send

VARIABLES asked,    \* requests read
          answers,  \* how often each one was answered
          serving   \* the workers have not been joined

vars == <<asked, answers, serving>>

Init ==
  /\ asked = {}
  /\ answers = [n \in Requests |-> 0]
  /\ serving = TRUE

Ask(n) ==
  /\ serving
  /\ n \notin asked
  /\ asked' = asked \cup {n}
  /\ UNCHANGED <<answers, serving>>

Answer(n) ==
  /\ n \in asked
  /\ answers[n] = 0
  /\ answers' = [answers EXCEPT ![n] = 1]
  /\ UNCHANGED <<asked, serving>>

\* A request may be answered as it is read.
AskAndAnswer(n) ==
  /\ serving
  /\ n \notin asked
  /\ answers[n] = 0
  /\ asked' = asked \cup {n}
  /\ answers' = [answers EXCEPT ![n] = 1]
  /\ UNCHANGED serving

Stop ==
  /\ serving
  /\ \A n \in asked : answers[n] = 1
  /\ serving' = FALSE
  /\ UNCHANGED <<asked, answers>>

Next ==
  \/ \E n \in Requests : Ask(n) \/ Answer(n) \/ AskAndAnswer(n)
  \/ Stop

SafeSpec == Init /\ [][Next]_vars

\* An answer does not wait for the client to do anything more.
Spec == SafeSpec /\ \A n \in Requests : WF_vars(Answer(n))
=============================================================================
