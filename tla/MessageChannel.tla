--------------------------- MODULE MessageChannel ---------------------------
(***************************************************************************)
(* What ITransport promises: messages arrive whole and in the order they   *)
(* were sent.  When the stream ends, a message that is being sent is lost. *)
(***************************************************************************)
EXTENDS Naturals, Sequences

CONSTANT Messages

VARIABLES sent,      \* messages sent, those lost at the end excepted
          received,  \* messages received
          open       \* the stream has not ended

vars == <<sent, received, open>>

Init ==
  /\ sent = <<>>
  /\ received = <<>>
  /\ open = TRUE

Send(m) ==
  /\ open
  /\ sent' = Append(sent, m)
  /\ UNCHANGED <<received, open>>

Receive ==
  /\ Len(received) < Len(sent)
  /\ received' = Append(received, sent[Len(received) + 1])
  /\ UNCHANGED <<sent, open>>

\* At most the last message is lost, and only if it was not received.
End ==
  /\ open
  /\ open' = FALSE
  /\ \/ UNCHANGED sent
     \/ /\ Len(received) < Len(sent)
        /\ sent' = SubSeq(sent, 1, Len(sent) - 1)
  /\ UNCHANGED received

Next == Receive \/ End \/ \E m \in Messages : Send(m)

SafeSpec == Init /\ [][Next]_vars

\* What was sent arrives, whether or not anything more is sent.
Spec == SafeSpec /\ WF_vars(Receive)
=============================================================================
