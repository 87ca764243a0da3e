---------------------------- MODULE FrameChannel ----------------------------
(* What one direction of a framed stream promises: a bounded FIFO of frames  *)
(* that may be cut short but never has a gap, and that ends cleanly only     *)
(* when nothing is missing.  FramedStream implements it twice: outbound,     *)
(* from send() to the peer, and inbound, from the peer to next_message().    *)
EXTENDS Naturals, Sequences

CONSTANTS
  Capacity,   \* frames between the sender's Ok and the receiver
  Lengths     \* payload lengths

VARIABLES
  sent,   \* number of frames the sending side was told are accepted
  got,    \* the frames the receiving side has, in order
  ended   \* the receiving side has seen a clean end

vars == <<sent, got, ended>>

Init == sent = 0 /\ got = <<>> /\ ended = FALSE

Accept == /\ ~ended /\ sent - Len(got) < Capacity
          /\ sent' = sent + 1
          /\ UNCHANGED <<got, ended>>

Deliver == /\ ~ended /\ Len(got) < sent
           /\ \E f \in [seq : {Len(got) + 1}, len : Lengths] : got' = Append(got, f)
           /\ UNCHANGED <<sent, ended>>

End == /\ ~ended /\ Len(got) = sent
       /\ ended' = TRUE
       /\ UNCHANGED <<sent, got>>

Next == Accept \/ Deliver \/ End

Spec == Init /\ [][Next]_vars
=============================================================================
