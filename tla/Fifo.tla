-------------------------------- MODULE Fifo --------------------------------
(***************************************************************************)
(* What one direction of a connection promises: whole messages, in the order *)
(* in which they were sent, each once, until it is over.  Those that were not *)
(* received by then are lost.                                               *)
(***************************************************************************)
EXTENDS Naturals, Sequences

VARIABLES sent, got, over

fifoVars == <<sent, got, over>>

FifoInit == sent = <<>> /\ got = <<>> /\ over = FALSE

Send ==
  /\ Len(sent') = Len(sent) + 1 /\ SubSeq(sent', 1, Len(sent)) = sent
  /\ UNCHANGED <<got, over>>

Receive ==
  /\ ~over
  /\ \E n \in Len(got) + 1 .. Len(sent) : got' = SubSeq(sent, 1, n)
  /\ UNCHANGED <<sent, over>>

End == ~over /\ over' = TRUE /\ UNCHANGED <<sent, got>>

FifoSpec == FifoInit /\ [][Send \/ Receive \/ End]_fifoVars
=============================================================================
