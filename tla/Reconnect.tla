------------------------------ MODULE Reconnect ------------------------------
(***************************************************************************)
(* Time in the life of a MoonlightClient (device-agent/src/                *)
(* moonlight_codec.rs): the ten seconds of authentication, the heartbeats   *)
(* of a session, the intervals between sessions, and what the client says   *)
(* of them.  MoonlightClient has the same thread without its clocks; what   *)
(* the session does with commands and packets is there.                     *)
(***************************************************************************)
EXTENDS Heartbeat

CONSTANTS
  AuthTimeout,  \* 10 s of wait_for_authentication
  MaxEvents     \* bound: events during authentication that do not decide it

ASSUME AuthAssumption == AuthTimeout \in Nat \ {0} /\ MaxEvents \in Nat

VARIABLES
  pc,             \* "connect", "auth", "loop", "sleep", "stopped"
  since_event,    \* what recv_timeout has waited
  auth_for,       \* since Connect was written (history)
  events,         \* undecided events since then (history)
  reconnect_in,   \* milliseconds, 0 for None
  sleep_time,     \* of the sleep it is in, else 0
  told,           \* reconnecting_in_ms of the notification before it
  reason,         \* disconnected_reason, "none" for None
  stopping,       \* the client's shutdown_flag
  row,            \* sessions that ended since one was authenticated (history)
  refusal         \* was one of them unauthorized? "never", "last", "before",
                  \* "earlier" (history)

authVars == <<since_event, auth_for, events>>
waitVars == <<reconnect_in, sleep_time, told, row, refusal>>
vars == <<beatVars, authVars, waitVars, pc, reason, stopping>>

Reasons == {"force_close", "disconnected", "unauthorized", "connect_failed"}

Init ==
  /\ BeatInit /\ pc = "connect"
  /\ since_event = 0 /\ auth_for = 0 /\ events = 0
  /\ reconnect_in = 0 /\ sleep_time = 0 /\ told = 0
  /\ reason = "none" /\ stopping = FALSE /\ row = 0 /\ refusal = "never"

(***************************************************************************)
(* backoff: the interval of this time is returned, the next one stored.     *)
(***************************************************************************)
Refused == 5 * 60 * 1000
Longer(r) == CASE r = 0     -> 1000   [] r = 1000 -> 2500   [] r = 2500  -> 5000
               [] r = 5000  -> 10000  [] r = 10000 -> 15000 [] OTHER -> 30000
\* mutant: the stored interval is the one that is slept
BackoffStored(unauthorized) ==
  /\ sleep_time' = IF unauthorized THEN Refused ELSE Longer(reconnect_in)
  /\ reconnect_in' = sleep_time'

Backoff(unauthorized) ==
  IF unauthorized
  THEN sleep_time' = Refused /\ reconnect_in' = Refused
  ELSE sleep_time' = reconnect_in /\ reconnect_in' = Longer(reconnect_in)

\* start, from the return of session_lifecycle to the sleep
Ended(why) ==
  /\ reason' = why
  /\ Backoff(why = "unauthorized")
  /\ told' = sleep_time'
  /\ row' = IF row < 7 THEN row + 1 ELSE row
  /\ refusal' = CASE why = "unauthorized" -> "last"
                  [] why # "unauthorized" /\ refusal = "last" -> "before"
                  [] why # "unauthorized" /\ refusal = "before" -> "earlier"
                  [] OTHER -> refusal
  /\ pc' = IF stopping THEN "stopped" ELSE "sleep"

(***************************************************************************)
(* start and session_lifecycle                                             *)
(***************************************************************************)
Connect ==
  /\ pc = "connect"
  /\ \/ Ended("force_close")
     \/ /\ pc' = "auth"
        /\ UNCHANGED <<waitVars, reason>>
  /\ UNCHANGED <<beatVars, authVars, stopping>>

AuthOver == since_event' = 0 /\ auth_for' = 0 /\ events' = 0

\* A command, or bytes that complete no packet: recv_timeout starts anew.
AuthEvent ==
  /\ pc = "auth" /\ events < MaxEvents
  /\ events' = events + 1 /\ since_event' = 0
  /\ UNCHANGED <<beatVars, waitVars, auth_for, pc, reason, stopping>>

\* mutant: the wait has no end
AuthPassOn ==
  /\ pc = "auth" /\ auth_for < 10 * AuthTimeout
  /\ since_event' = (since_event + 1) % (AuthTimeout + 1)
  /\ auth_for' = auth_for + 1
  /\ UNCHANGED <<beatVars, waitVars, events, pc, reason, stopping>>

AuthPass ==
  /\ pc = "auth" /\ since_event < AuthTimeout
  /\ since_event' = since_event + 1 /\ auth_for' = auth_for + 1
  /\ UNCHANGED <<beatVars, waitVars, events, pc, reason, stopping>>

\* Refused by a packet, cut off, or timed out.
AuthFails ==
  /\ pc = "auth"
  /\ \/ \E why \in Reasons : Ended(why)
     \/ since_event = AuthTimeout /\ Ended("force_close")
  /\ AuthOver
  /\ UNCHANGED <<beatVars, stopping>>

Authenticated ==
  /\ pc = "auth"
  /\ pc' = "loop" /\ reconnect_in' = 0 /\ reason' = "none"
  /\ row' = 0 /\ refusal' = "never"
  /\ StartTimer /\ AuthOver
  /\ UNCHANGED <<sleep_time, told, stopping>>

Beats == pc = "loop" /\ Beat /\ UNCHANGED <<authVars, waitVars, pc, reason, stopping>>

\* Told by the timer or by the server; the timer thread is joined.
SessionEnds ==
  /\ pc = "loop"
  /\ \E why \in Reasons : Ended(why)
  /\ StartTimer /\ AuthOver
  /\ UNCHANGED stopping

WakeUp ==
  /\ pc = "sleep"
  /\ pc' = IF stopping THEN "stopped" ELSE "connect"
  /\ sleep_time' = 0 /\ told' = 0
  /\ UNCHANGED <<beatVars, authVars, reconnect_in, row, refusal, reason, stopping>>

Stop ==
  /\ ~stopping /\ stopping' = TRUE
  /\ UNCHANGED <<beatVars, authVars, waitVars, pc, reason>>

Next == Connect \/ AuthEvent \/ AuthPass \/ AuthFails \/ Authenticated
          \/ Beats \/ SessionEnds \/ WakeUp \/ Stop

Spec == Init /\ [][Next]_vars

(***************************************************************************)
(* status, for a reader that finds the thread where it is; only a server    *)
(* that said "connect failed" makes it say when the client is back.         *)
(***************************************************************************)
Status ==
  [connected |-> pc = "loop",
   error |-> CASE pc = "loop" \/ reason = "none" -> "none"
               [] pc # "loop" /\ reason = "unauthorized" -> "unauthorized"
               [] OTHER -> "connect_failed",
   reconnecting_in |->
     IF pc # "loop" /\ reason = "connect_failed" THEN {reconnect_in} ELSE {}]

(***************************************************************************)
(* Type invariant                                                          *)
(***************************************************************************)
TypeOK ==
  /\ BeatTypeOK
  /\ pc \in {"connect", "auth", "loop", "sleep", "stopped"}
  /\ since_event \in 0 .. AuthTimeout /\ auth_for \in Nat /\ events \in 0 .. MaxEvents
  /\ {reconnect_in, sleep_time, told} \subseteq Nat /\ row \in 0 .. 7
  /\ reason \in Reasons \cup {"none"} /\ stopping \in BOOLEAN
  /\ refusal \in {"never", "last", "before", "earlier"}

(***************************************************************************)
(* Properties                                                              *)
(***************************************************************************)
Ladder == <<0, 1000, 2500, 5000, 10000, 15000, 30000>>

\* The n-th failure in a row waits for the n-th step of the ladder, at once
\* after a session that was authenticated; a refusal waits five minutes, and
\* so does the failure after it, since backoff kept its interval.
Pace == CASE refusal \in {"last", "before"} -> Refused
          [] refusal = "earlier" -> 30000
          [] refusal = "never"   -> Ladder[row]

\* What the notification promises is what is slept.  What status reports is
\* the next interval, so that the client is back no later than it says, but
\* for the failure after a refusal.
PromiseKept ==
  /\ told = sleep_time
  /\ sleep_time # Refused =>
       \A ms \in Status.reconnecting_in : sleep_time <= ms

PacedRetries == pc = "sleep" => sleep_time = Pace /\ PromiseKept

\* Authentication takes ten seconds for each event that puts it off.
AuthBounded == pc = "auth" => auth_for <= AuthTimeout * (1 + events)
=============================================================================
