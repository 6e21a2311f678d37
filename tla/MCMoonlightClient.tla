------------------------- MODULE MCMoonlightClient -------------------------
(* Instances of MoonlightClient for TLC.                                    *)
EXTENDS MoonlightClient, TLC

CONSTANTS r1, r2, m1

OneMail  == [r \in Requests |-> m1]
R1 == {r1}
R2 == {r1, r2}
PulseKind == (r1 :> "pulse")
\* a fetch and a pulse: the transaction ids of both are taken from 0 up
TxnKind == (r1 :> "next") @@ (r2 :> "pulse")
============================================================================
