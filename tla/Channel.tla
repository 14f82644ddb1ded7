------------------------------ MODULE Channel -------------------------------
(***************************************************************************)
(* What framing promises: the receiver gets the messages that were sent,   *)
(* whole, once and in order. This is how Server and Client see a pipe.     *)
(***************************************************************************)
EXTENDS Naturals, Sequences

CONSTANT Message

VARIABLES sent, received

vars == <<sent, received>>

Init == sent = <<>> /\ received = <<>>

Send(m) == sent' = Append(sent, m) /\ UNCHANGED received

Deliver ==
  /\ Len(received) < Len(sent)
  /\ received' = Append(received, sent[Len(received) + 1])
  /\ UNCHANGED sent

Next == (\E m \in Message : Send(m)) \/ Deliver

Spec == Init /\ [][Next]_vars
=============================================================================
