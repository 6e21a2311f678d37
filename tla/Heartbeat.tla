------------------------------ MODULE Heartbeat ------------------------------
(***************************************************************************)
(* timer_proc of device-agent/src/moonlight_codec.rs, the thread that goes  *)
(* with a session: every 100 ms it takes one acknowledgement from           *)
(* ping_chan, asks for a heartbeat every 30 s and again 5 s after one that  *)
(* was not acknowledged, gives the session up after 90 s without any, and   *)
(* asks for a refresh every 500 ms.                                         *)
(*                                                                         *)
(* An Instant is represented by the time that has passed since (elapsed()), *)
(* in units of some length.  The thread may run late, by up to Lag.  What   *)
(* lies between a HeartbeatTick and its acknowledgement in ping_chan (the   *)
(* session thread, the transport, the server) takes up to Delay as long as  *)
(* the server is up; an acknowledgement does not say of which heartbeat it  *)
(* is.                                                                      *)
(***************************************************************************)
EXTENDS Naturals

CONSTANTS
  Tick,            \* sleep of timer_proc: 100 ms
  Lag,             \* longest time between two runs of timer_logic
  RefreshEvery,    \* 500 ms
  HeartbeatEvery,  \* 30 s
  ResendAfter,     \* 5 s
  GiveUpAfter,     \* 90 s
  Delay            \* longest time a live server's acknowledgement takes

ASSUME ClockAssumption ==
  /\ Tick \in Nat \ {0} /\ Lag \in Nat /\ Tick <= Lag
  /\ {RefreshEvery, HeartbeatEvery, ResendAfter} \subseteq Nat \ {0}
  /\ GiveUpAfter \in Nat /\ Delay \in Nat
\* The code's own numbers leave a live server almost a minute.
ASSUME DelayAssumption == HeartbeatEvery + Lag + Delay <= GiveUpAfter
ASSUME ResendAssumption == HeartbeatEvery + Lag + ResendAfter + Lag <= GiveUpAfter
\* A heartbeat is asked for again before the next one is due.
ASSUME RetryAssumption == ResendAfter <= HeartbeatEvery

VARIABLES
  since_run,      \* since the last timer_logic
  since_refresh,  \* last_refresh_sent
  since_sent,     \* last_heartbeat_sent
  since_ack,      \* last_heartbeat_ack
  awaiting,       \* last_heartbeat_sent > last_heartbeat_ack
  pings,          \* acknowledgements in ping_chan
  over,           \* has the timer set shutdown_flag? "no", "gave_up"
  flight,         \* ages of the heartbeats the server is going to acknowledge
  server,         \* "up" or "silent"
  silent_for,     \* since the last acknowledgement arrived (history)
  tries           \* heartbeats since the last one was read (history)

clocks  == <<since_run, since_refresh, since_sent, since_ack, awaiting>>
peer    == <<flight, server, silent_for>>
beatVars == <<clocks, peer, pings, over, tries>>

\* mutant: the clock of acknowledgements goes on from the session before
StartTimerKeepsAck ==
  /\ since_run' = 0 /\ since_refresh' = 0 /\ since_sent' = 0
  /\ UNCHANGED since_ack
  /\ awaiting' = FALSE /\ pings' = 0 /\ over' = "no"
  /\ flight' = {} /\ server' = "up" /\ silent_for' = 0 /\ tries' = 0

StartTimer ==
  /\ since_run' = 0 /\ since_refresh' = 0 /\ since_sent' = 0 /\ since_ack' = 0
  /\ awaiting' = FALSE /\ pings' = 0 /\ over' = "no"
  /\ flight' = {} /\ server' = "up" /\ silent_for' = 0 /\ tries' = 0

BeatInit ==
  /\ since_run = 0 /\ since_refresh = 0 /\ since_sent = 0 /\ since_ack = 0
  /\ awaiting = FALSE /\ pings = 0 /\ over = "no"
  /\ flight = {} /\ server = "up" /\ silent_for = 0 /\ tries = 0

(***************************************************************************)
(* timer_logic                                                             *)
(***************************************************************************)
Acked   == pings > 0
\* mutant: the acknowledgement is taken and forgotten
AckAgeIgnored == since_ack
\* mutant: a heartbeat counts as its answer
AckAgeSent == IF Acked \/ awaiting THEN 0 ELSE since_ack
AckAge  == IF Acked THEN 0 ELSE since_ack
Due     == since_sent >= HeartbeatEvery
Missed  == ~Due /\ since_sent >= ResendAfter /\ awaiting /\ ~Acked
Send    == Due \/ Missed

TimerLogic ==
  /\ over = "no" /\ since_run >= Tick
  /\ since_run' = 0
  /\ pings' = IF Acked THEN pings - 1 ELSE pings
  /\ since_ack' = AckAge
  /\ since_sent' = IF Send THEN 0 ELSE since_sent
  /\ awaiting' = (Send \/ (awaiting /\ ~Acked))
  /\ flight' = IF Send /\ server = "up" THEN flight \cup {0} ELSE flight
  /\ tries' = (IF Acked THEN 0 ELSE tries) + (IF Send THEN 1 ELSE 0)
  /\ over' = IF AckAge >= GiveUpAfter THEN "gave_up" ELSE "no"
  /\ since_refresh' = IF since_refresh >= RefreshEvery THEN 0 ELSE since_refresh
  /\ UNCHANGED <<server, silent_for>>

(***************************************************************************)
(* The rest of the session                                                 *)
(***************************************************************************)
\* handle_server_resp passes the acknowledgement on.
Pong(a) ==
  /\ over = "no" /\ a \in flight
  /\ flight' = flight \ {a}
  /\ pings' = pings + 1 /\ silent_for' = 0
  /\ UNCHANGED <<clocks, over, server, tries>>

\* What is under way is not acknowledged any more.
FallSilent ==
  /\ over = "no" /\ server = "up"
  /\ server' = "silent" /\ flight' = {}
  /\ UNCHANGED <<clocks, pings, over, silent_for, tries>>

Pass ==
  /\ over = "no" /\ since_run < Lag /\ \A a \in flight : a < Delay
  /\ since_run' = since_run + 1 /\ since_refresh' = since_refresh + 1
  /\ since_sent' = since_sent + 1 /\ since_ack' = since_ack + 1
  /\ silent_for' = silent_for + 1
  /\ flight' = {a + 1 : a \in flight}
  /\ UNCHANGED <<awaiting, pings, over, server, tries>>

Beat == TimerLogic \/ (\E a \in flight : Pong(a)) \/ FallSilent \/ Pass

(***************************************************************************)
(* Properties                                                              *)
(***************************************************************************)
BeatTypeOK ==
  /\ since_run \in 0 .. Lag /\ since_refresh \in Nat
  /\ since_sent \in Nat /\ since_ack \in Nat /\ awaiting \in BOOLEAN
  /\ pings \in Nat /\ over \in {"no", "gave_up"}
  /\ flight \subseteq 0 .. Delay /\ server \in {"up", "silent"}
  /\ silent_for \in Nat /\ tries \in Nat

\* The timer never closes the session of a server that acknowledges every
\* heartbeat in time, however late the thread runs within Lag, whichever
\* heartbeat an acknowledgement is of, and with one read of ping_chan a run.
LiveServerKept == server = "up" => over # "gave_up"

\* "Missed multiple heartbeats, shutdown everything": one lost heartbeat or
\* one late run is not enough to give the session up.
GivesUpAfterSeveral == over = "gave_up" => tries >= 2

\* A server that is gone is noticed, after the ninety seconds and the time it
\* takes to read the acknowledgements it left, one a run.
Backlog == Delay \div ResendAfter + 1
SilentServerNoticed ==
  over = "no" => silent_for < GiveUpAfter + Lag * (1 + Backlog)
=============================================================================
