----------------------------- MODULE Connection -----------------------------
(***************************************************************************)
(* What the agent lets the rest of the process know of its connection, over  *)
(* one session after another: the flag that connected() reads and the        *)
(* notifications in notify_chan.  The flag lags behind the notification of a *)
(* connection and is ahead of the notification of its end.                   *)
(***************************************************************************)
EXTENDS Naturals, Sequences

VARIABLES
  link,           \* "down", "announced", "up" or "closing"
  authenticated,  \* what connected() returns
  notify          \* everything sent to notify_chan (history)

connectionVars == <<link, authenticated, notify>>

Notices == {"connected", "new_mail", "disconnected"}

ConnectionInit == link = "down" /\ authenticated = FALSE /\ notify = <<>>

\* The Connected packet is handled.
Announce ==
  /\ link = "down" /\ link' = "announced"
  /\ \/ notify' = notify \o <<"connected">>
     \/ notify' = notify \o <<"connected", "new_mail">>
  /\ UNCHANGED authenticated

Mail ==
  /\ link \in {"announced", "up"}
  /\ notify' = Append(notify, "new_mail")
  /\ UNCHANGED <<link, authenticated>>

\* The rest of the read and the buffered commands are dealt with first.
GoUp ==
  /\ link = "announced" /\ link' = "up"
  /\ authenticated' = TRUE
  /\ UNCHANGED notify

\* mutant: the flag of the last session is left as it was
LoseKeepsFlag ==
  /\ link # "closing" /\ link' = "closing"
  /\ UNCHANGED <<authenticated, notify>>

\* A session is over, whether or not it was ever connected.
Lose ==
  /\ link # "closing" /\ link' = "closing"
  /\ authenticated' = FALSE
  /\ UNCHANGED notify

Farewell ==
  /\ link = "closing" /\ link' = "down"
  /\ notify' = Append(notify, "disconnected")
  /\ UNCHANGED authenticated

ConnectionNext == Announce \/ Mail \/ GoUp \/ Lose \/ Farewell

ConnectionSpec == ConnectionInit /\ [][ConnectionNext]_connectionVars
=============================================================================
