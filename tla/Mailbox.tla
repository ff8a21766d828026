------------------------------- MODULE Mailbox -------------------------------
(***************************************************************************)
(* What an unbounded channel promises its users: elements come out in the  *)
(* order in which they went in, none lost and none twice, and every        *)
(* element that went in comes out.  The models of the components that talk *)
(* through such a channel (Membership, Streams) use this abstraction.      *)
(***************************************************************************)
EXTENDS Naturals, Sequences

CONSTANT Element

VARIABLES
  sent,       \* everything that was put, in order
  received    \* everything that was taken out and dealt with, in order

mailbox == <<sent, received>>

Init == sent = <<>> /\ received = <<>>

Send(e) ==
  /\ sent' = Append(sent, e)
  /\ UNCHANGED received

Receive ==
  /\ Len(received) < Len(sent)
  /\ received' = Append(received, sent[Len(received) + 1])
  /\ UNCHANGED sent

Next == (\E e \in Element : Send(e)) \/ Receive

SafeSpec == Init /\ [][Next]_mailbox

Spec == SafeSpec /\ WF_mailbox(Receive)

=============================================================================
