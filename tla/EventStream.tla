---------------------------- MODULE EventStream ----------------------------
(***************************************************************************)
(* The way of a notification from the client to the programs on the device:  *)
(* the listener thread of device-agent/src/notifycast.rs copies it to the    *)
(* channel of every listener, and one thread per event stream                *)
(* (http_server/events.rs) writes it to its socket, after two events of its   *)
(* own that tell how things stand.  The client is the Connection.            *)
(*                                                                         *)
(* Any write to a stream may fail, when the program at its other end is gone. *)
(* A stream is opened once; a program that reconnects opens another one.     *)
(***************************************************************************)
EXTENDS Connection

CONSTANTS
  Streams,     \* the event streams
  MaxNotices   \* bound: notifications sent

ASSUME NoticesAssumption == MaxNotices \in Nat

VARIABLES
  cast,       \* how many notifications the listener thread has copied
  listeners,  \* NotifyCast.listeners
  chan,       \* chan[s]: copied for s and not yet received
  stream,     \* stream[s]: where the thread of s is
  told,       \* told[s]: the events written to s
  shutdown_flag,
  unaware     \* streams that subscribed too late for "connected" (history)

castVars   == <<cast, chan>>
streamVars == <<listeners, stream, told>>
vars == <<connectionVars, castVars, streamVars, shutdown_flag, unaware>>

Listening    == {"subscribed", "greeted", "loop", "recv"}
StreamPhases == Listening \cup {"idle", "closed"}

Init ==
  /\ ConnectionInit
  /\ cast = 0 /\ listeners = {} /\ shutdown_flag = FALSE /\ unaware = {}
  /\ chan = [s \in Streams |-> <<>>]
  /\ stream = [s \in Streams |-> "idle"]
  /\ told = [s \in Streams |-> <<>>]

Client ==
  /\ ConnectionNext
  /\ Len(notify') <= MaxNotices
  /\ UNCHANGED <<castVars, streamVars, shutdown_flag, unaware>>

\* NotifyCast::start_listener, one notification
Distribute ==
  /\ cast < Len(notify)
  /\ cast' = cast + 1
  /\ chan' = [s \in Streams |-> IF s \in listeners
                                THEN Append(chan[s], notify[cast + 1])
                                ELSE chan[s]]
  /\ UNCHANGED <<connectionVars, streamVars, shutdown_flag, unaware>>

(***************************************************************************)
(* handle_event_stream                                                     *)
(***************************************************************************)
Go(s, phase) == stream' = [stream EXCEPT ![s] = phase]
Tell(s, event, phase) ==
  /\ told' = [told EXCEPT ![s] = Append(@, event)]
  /\ Go(s, phase)
  /\ UNCHANGED listeners

\* The write failed: unsubscribe and return.
Close(s) ==
  /\ Go(s, "closed")
  /\ listeners' = listeners \ {s}
  /\ UNCHANGED told

\* The notification of the connection that is being made has gone by.
ConnectedGone ==
  link = "announced" /\ ~\E i \in cast + 1 .. Len(notify) : notify[i] = "connected"

Subscribe(s) ==
  /\ stream[s] = "idle"
  /\ Go(s, "subscribed")
  /\ listeners' = listeners \cup {s}
  /\ unaware' = IF ConnectedGone THEN unaware \cup {s} ELSE unaware
  /\ UNCHANGED <<connectionVars, castVars, told, shutdown_flag>>

FirstEvent(s) ==
  /\ stream[s] = "subscribed"
  /\ \/ Tell(s, IF authenticated THEN "connected" ELSE "disconnected", "greeted")
     \/ Close(s)
  /\ UNCHANGED <<connectionVars, castVars, shutdown_flag, unaware>>

\* mutant: no new_mail of the stream's own
MailEventNever(s) ==
  /\ stream[s] = "greeted"
  /\ Go(s, "loop")
  /\ UNCHANGED <<connectionVars, castVars, listeners, told, shutdown_flag, unaware>>

\* connected() is read a second time.
MailEvent(s) ==
  /\ stream[s] = "greeted"
  /\ IF authenticated
     THEN Tell(s, "new_mail", "loop") \/ Close(s)
     ELSE Go(s, "loop") /\ UNCHANGED <<told, listeners>>
  /\ UNCHANGED <<connectionVars, castVars, shutdown_flag, unaware>>

CheckFlag(s) ==
  /\ stream[s] = "loop"
  /\ IF shutdown_flag THEN Close(s)
     ELSE Go(s, "recv") /\ UNCHANGED <<told, listeners>>
  /\ UNCHANGED <<connectionVars, castVars, shutdown_flag, unaware>>

Forward(s) ==
  /\ stream[s] = "recv" /\ chan[s] # <<>>
  /\ chan' = [chan EXCEPT ![s] = Tail(@)]
  /\ \/ /\ Tell(s, Head(chan[s]), "loop")
        /\ unaware' = IF Head(chan[s]) = "connected" THEN unaware \ {s} ELSE unaware
     \/ Close(s) /\ UNCHANGED unaware
  /\ UNCHANGED <<connectionVars, cast, shutdown_flag>>

\* Half a second went by, and a keep_alive event was due and written, was not
\* due, or could not be written.
KeepAlive(s) ==
  /\ stream[s] = "recv" /\ chan[s] = <<>>
  /\ \/ Go(s, "loop") /\ UNCHANGED <<told, listeners>>
     \/ Close(s)
  /\ UNCHANGED <<connectionVars, castVars, shutdown_flag, unaware>>

\* stop-agent or a signal
Shutdown ==
  /\ ~shutdown_flag /\ shutdown_flag' = TRUE
  /\ UNCHANGED <<connectionVars, castVars, streamVars, unaware>>

Handler(s) == \/ FirstEvent(s) \/ MailEvent(s)
              \/ CheckFlag(s) \/ Forward(s) \/ KeepAlive(s)

Next ==
  \/ Client \/ Distribute \/ Shutdown
  \/ \E s \in Streams : Subscribe(s) \/ Handler(s)

Spec == Init /\ [][Next]_vars

\* The listener thread and the threads of the streams run.
Fairness == WF_vars(Distribute) /\ \A s \in Streams : WF_vars(Handler(s))

FairSpec == Spec /\ Fairness

(***************************************************************************)
(* Type invariant                                                          *)
(***************************************************************************)
TypeOK ==
  /\ link \in {"down", "announced", "up", "closing"}
  /\ authenticated \in BOOLEAN /\ shutdown_flag \in BOOLEAN
  /\ notify \in Seq(Notices) /\ cast \in 0 .. Len(notify)
  /\ chan \in [Streams -> Seq(Notices)] /\ told \in [Streams -> Seq(Notices)]
  /\ stream \in [Streams -> StreamPhases]
  /\ listeners = {s \in Streams : stream[s] \in Listening}
  /\ unaware \subseteq Streams

(***************************************************************************)
(* Safety                                                                  *)
(***************************************************************************)
\* Nothing is on its way to s.
Quiet(s) == stream[s] \in {"loop", "recv"} /\ cast = Len(notify) /\ chan[s] = <<>>

LastWordIs(s, event) ==
  \E i \in 1 .. Len(told[s]) :
    /\ told[s][i] = event
    /\ \A j \in i + 1 .. Len(told[s]) : told[s][j] = "new_mail"

\* However the two reads of connected(), the subscription and the copying of
\* notifications interleave, the last a stream said of the connection is
\* true once nothing is on its way to it.  The exception is a stream that
\* subscribed between the notification of a connection and the store of
\* authenticated: it missed the one and may not see the other.
LastWord ==
  \A s \in Streams : Quiet(s) =>
    /\ link = "down" => LastWordIs(s, "disconnected")
    /\ link = "up" /\ s \notin unaware => LastWordIs(s, "connected")

\* Mail that was announced in the present connection is told of on every
\* stream, also on one that was opened after the announcement: the programs
\* fetch mail on new_mail alone.  The exception is the same.
MailTold ==
  \A s \in Streams :
    /\ Quiet(s) /\ link = "up" /\ s \notin unaware
    /\ notify[Len(notify)] = "new_mail"
    => \E i \in 1 .. Len(told[s]) :
         /\ told[s][i] = "new_mail"
         /\ \A j \in i + 1 .. Len(told[s]) : told[s][j] # "disconnected"
=============================================================================
