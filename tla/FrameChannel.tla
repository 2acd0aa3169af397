----------------------------- MODULE FrameChannel -----------------------------
(***************************************************************************)
(* What framing promises: whole frames arrive, in the order in which their *)
(* senders began them, whoever the senders are.                            *)
(***************************************************************************)
EXTENDS Naturals, Sequences

CONSTANT Frames
VARIABLES sent, received

Init == sent = <<>> /\ received = <<>>

Send(f) == sent' = Append(sent, f) /\ UNCHANGED received

Deliver ==
  /\ Len(received) < Len(sent)
  /\ received' = Append(received, sent[Len(received) + 1])
  /\ UNCHANGED sent

Next == Deliver \/ \E f \in Frames : Send(f)

Spec == Init /\ [][Next]_<<sent, received>>
=============================================================================
