--------------------------- MODULE MCClientLogic ---------------------------
(* Instances of ClientLogic for TLC: who asks what, all about one mail.     *)
EXTENDS ClientLogic, TLC

CONSTANTS r1, r2, r3, m1

R2 == {r1, r2}
R3 == {r1, r2, r3}
OneMail == [r \in Requests |-> m1]

\* more transactions than ids
TxnKind == (r1 :> "pulse") @@ (r2 :> "next") @@ (r3 :> "pulse")
\* two operations on one mail
MailKind == (r1 :> "reject") @@ (r2 :> "requeue")
============================================================================
