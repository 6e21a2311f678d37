-------------------------- MODULE MoonlightClient --------------------------
(***************************************************************************)
(* The MoonlightClient of device-agent/src/moonlight_codec.rs: the thread    *)
(* that runs one session after another until it is told to stop, the HTTP    *)
(* threads of http_server/cmd.rs that make requests of whichever session     *)
(* there is, and the thread that stops the client.  A session itself is the  *)
(* ClientLogic, whose variables describe the current one.                    *)
(*                                                                         *)
(* Left to other modules: the clocks and the length of the backoff           *)
(* (Reconnect), and what the SSE streams make of notify (EventStream).       *)
(***************************************************************************)
EXTENDS ClientLogic

CONSTANT MaxSessions   \* bound: sessions started

ASSUME SessionsAssumption == MaxSessions \in Nat \ {0}

VARIABLES
  shutdown_flag,        \* the client's own, set by stop()
  stop,                 \* the thread in stop(): "idle", "flagged", "done"
  mailbox_chan,         \* is a mailbox published in MoonlightClient?
  authenticated,        \* what connected() returns
  disconnected_reason,  \* what status() reports
  session,              \* number of the current session (history)
  http,                 \* http[r]: the HTTP thread of request r
  via                   \* via[r]: the session that took r (history)

clientVars == <<shutdown_flag, stop, mailbox_chan, authenticated,
                disconnected_reason, session, http, via>>
vars == <<logicVars, clientVars>>

Phases == LogicPhases \cup {"idle", "connecting", "connected", "unpublished",
                            "backoff", "sleep", "stopped"}
Final  == {"answered", "403", "408", "500"}

Init ==
  /\ pc = "idle" /\ reason = "none"
  /\ mailbox = <<>> /\ batch = <<>> /\ buffered_cmds = <<>>
  /\ pending_txns = NoPending /\ old = {} /\ next_txn_id = 0
  /\ replies = [r \in Requests |-> <<>>]
  /\ submitted = <<>> /\ sent = <<>>
  /\ outstanding = {} /\ connect = "unsent" /\ socket = "down"
  /\ halt = FALSE /\ notify = <<>> /\ pushes = 0
  /\ ticks = 0 /\ unacked = 0 /\ pings = 0
  /\ shutdown_flag = FALSE /\ stop = "idle"
  /\ mailbox_chan = FALSE /\ authenticated = FALSE
  /\ disconnected_reason = "none"
  /\ session = 0 /\ via = [r \in Requests |-> 0]
  /\ http = [r \in Requests |-> "idle"]

(***************************************************************************)
(* start and session_lifecycle                                             *)
(***************************************************************************)
\* A new ClientLogic with channels of its own.
StartSession ==
  /\ pc = "idle" /\ session < MaxSessions
  /\ pc' = "connecting" /\ reason' = "none"
  /\ session' = session + 1
  /\ mailbox' = <<>> /\ batch' = <<>> /\ buffered_cmds' = <<>>
  /\ pending_txns' = NoPending /\ old' = {} /\ next_txn_id' = 0
  /\ sent' = <<>> /\ outstanding' = {} /\ connect' = "unsent"
  /\ halt' = FALSE /\ ticks' = 0 /\ unacked' = 0 /\ pings' = 0
  /\ UNCHANGED <<socket, pushes, replies, submitted, notify, shutdown_flag,
                 stop, mailbox_chan, authenticated, disconnected_reason, http,
                 via>>

NewSessionAlways == StartSession   \* mutant: shutdown_flag is not looked at
NewSession == ~shutdown_flag /\ StartSession

EndStart ==
  /\ pc = "idle" /\ shutdown_flag
  /\ pc' = "stopped"
  /\ UNCHANGED <<reason, batch, buffered_cmds, txnVars, serverVars, beats,
                 mailbox, replies, submitted, sent, halt, notify, clientVars>>

restUnchanged == <<batch, buffered_cmds, txnVars, outstanding, connect,
                   pushes, beats, mailbox, replies, submitted, sent, halt>>

\* moonlight_socket::connect; its thread runs before the mailbox is published.
ConnectOk ==
  /\ pc = "connecting"
  /\ pc' = "connected" /\ socket' = "up"
  /\ UNCHANGED <<restUnchanged, reason, notify, clientVars>>

ConnectFails ==
  /\ pc = "connecting"
  /\ pc' = "dropped" /\ reason' = "force_close"
  /\ UNCHANGED <<restUnchanged, socket, notify, clientVars>>

PublishMailbox ==
  /\ pc = "connected"
  /\ pc' = "hello" /\ mailbox_chan' = TRUE
  /\ UNCHANGED <<restUnchanged, reason, socket, notify, shutdown_flag, stop,
                 authenticated, disconnected_reason, session, http, via>>

\* wait_for_authentication returned Ok; reconnect_in is reset here too.
Authenticated ==
  /\ StartLoop
  /\ authenticated' = TRUE /\ disconnected_reason' = "none"
  /\ UNCHANGED <<shutdown_flag, stop, mailbox_chan, session, http, via>>

SessionThread ==
  /\ LogicThread /\ pc # "authed"
  /\ UNCHANGED clientVars

\* start, after session_lifecycle returned
Unpublish ==
  /\ pc = "dropped"
  /\ pc' = "unpublished"
  /\ disconnected_reason' = reason /\ mailbox_chan' = FALSE
  /\ UNCHANGED <<restUnchanged, reason, socket, notify, shutdown_flag, stop,
                 authenticated, session, http, via>>

Deauthenticate ==
  /\ pc = "unpublished"
  /\ pc' = "backoff" /\ authenticated' = FALSE
  /\ UNCHANGED <<restUnchanged, reason, socket, notify, shutdown_flag, stop,
                 mailbox_chan, disconnected_reason, session, http, via>>

\* mutant: start ends with a session that was refused
NotifyDisconnectedFinal ==
  /\ pc = "backoff"
  /\ notify' = Append(notify, "disconnected")
  /\ pc' = IF reason = "unauthorized" THEN "stopped"
           ELSE IF shutdown_flag THEN "idle" ELSE "sleep"
  /\ UNCHANGED <<restUnchanged, reason, socket, clientVars>>

NotifyDisconnected ==
  /\ pc = "backoff"
  /\ notify' = Append(notify, "disconnected")
  /\ pc' = IF shutdown_flag THEN "idle" ELSE "sleep"
  /\ UNCHANGED <<restUnchanged, reason, socket, clientVars>>

\* The sleep is not interrupted by stop().
WakeUp ==
  /\ pc = "sleep"
  /\ pc' = "idle"
  /\ UNCHANGED <<restUnchanged, reason, socket, notify, clientVars>>

(***************************************************************************)
(* stop, called by the HTTP thread of "stop-agent" or the signal handler    *)
(***************************************************************************)
StopFlag ==
  /\ stop = "idle"
  /\ stop' = "flagged" /\ shutdown_flag' = TRUE
  /\ UNCHANGED <<logicVars, mailbox_chan, authenticated, disconnected_reason,
                 session, http, via>>

\* A published mailbox has a receiver until the logic is dropped.
MailboxAlive == mailbox_chan /\ pc # "dropped"

StopSend ==
  /\ stop = "flagged"
  /\ stop' = "done"
  /\ mailbox' = IF MailboxAlive THEN Append(mailbox, Event("close")) ELSE mailbox
  /\ UNCHANGED <<sessionVars, txnVars, serverVars, beats, replies, submitted,
                 sent, halt, notify, shutdown_flag, mailbox_chan,
                 authenticated, disconnected_reason, session, http, via>>

(***************************************************************************)
(* cmd.rs: wait_for_connected, send_cmd, and the wait for the result        *)
(***************************************************************************)
Become(r, s) == http' = [http EXCEPT ![r] = s]
callerUnchanged == <<shutdown_flag, stop, mailbox_chan, authenticated,
                     disconnected_reason, session>>

SeesConnected(r) ==
  /\ http[r] = "idle" /\ authenticated
  /\ Become(r, "ready")
  /\ UNCHANGED <<logicVars, callerUnchanged, via>>

\* ten seconds of polling, and the last look
NotConnected(r) ==
  /\ http[r] = "idle" /\ ~authenticated
  /\ Become(r, "403")
  /\ UNCHANGED <<logicVars, callerUnchanged, via>>

SendCmd(r) ==
  /\ http[r] = "ready"
  /\ Become(r, "waiting")
  /\ IF MailboxAlive
     THEN Accept(r) /\ via' = [via EXCEPT ![r] = session]
     ELSE Refuse(r) /\ UNCHANGED via
  /\ UNCHANGED callerUnchanged

ReceiveReply(r) ==
  /\ http[r] = "waiting" /\ replies[r] # <<>>
  /\ LET res == replies[r][1].res IN
       Become(r, CASE res = RespType(r)  -> "answered"
                   [] res = "timeout"    -> "408"
                   [] res \in Responses  -> "500"
                   [] OTHER              -> "403")
  /\ UNCHANGED <<logicVars, callerUnchanged, via>>

\* recv_timeout: ten seconds without a reply
ReceiveTimeout(r) ==
  /\ http[r] = "waiting" /\ replies[r] = <<>>
  /\ Become(r, "408")
  /\ UNCHANGED <<logicVars, callerUnchanged, via>>

\* recv_timeout: every sender is gone
ReceiveClosed(r) ==
  /\ http[r] = "waiting" /\ replies[r] = <<>> /\ ~Held(r)
  /\ Become(r, "500")
  /\ UNCHANGED <<logicVars, callerUnchanged, via>>

(***************************************************************************)
(* The client                                                              *)
(***************************************************************************)
StartThread ==
  \/ NewSession \/ EndStart \/ ConnectOk \/ ConnectFails \/ PublishMailbox
  \/ Authenticated \/ SessionThread
  \/ Unpublish \/ Deauthenticate \/ NotifyDisconnected \/ WakeUp

Caller(r) == \/ SeesConnected(r) \/ NotConnected(r) \/ SendCmd(r)
             \/ ReceiveReply(r) \/ ReceiveTimeout(r) \/ ReceiveClosed(r)

Environment == (Timer \/ Server \/ \E k \in Keys : Age(k)) /\ UNCHANGED clientVars

Next == \/ StartThread
        \/ StopFlag \/ StopSend
        \/ \E r \in Requests : Caller(r)
        \/ Environment

Spec == Init /\ [][Next]_vars

(***************************************************************************)
(* Every thread of the agent runs, the timer ticks and time passes; nothing *)
(* is assumed of the server or the network.  The caller's own ten seconds   *)
(* (ReceiveTimeout) are not assumed to end, which makes CallersReleased      *)
(* stronger than what the caller needs.                                     *)
(***************************************************************************)
Fairness ==
  /\ WF_vars(StartThread)
  /\ WF_vars(StopSend)
  /\ WF_vars(TimerRefresh /\ UNCHANGED clientVars)
  /\ \A k \in Keys : WF_vars(Age(k) /\ UNCHANGED clientVars)
  /\ \A r \in Requests : WF_vars(SendCmd(r))
  /\ \A r \in Requests : WF_vars(ReceiveReply(r) \/ ReceiveClosed(r))

FairSpec == Spec /\ Fairness

(***************************************************************************)
(* Type invariant                                                          *)
(***************************************************************************)
ClientTypeOK ==
  /\ pc \in Phases /\ reason \in Reasons
  /\ batch \in Seq(Packets) /\ buffered_cmds \in Seq(Requests)
  /\ TxnType /\ ServerType /\ TimerType
  /\ RepliesType /\ MailboxType /\ HistoryType /\ NotifyType
  /\ shutdown_flag \in BOOLEAN /\ stop \in {"idle", "flagged", "done"}
  /\ mailbox_chan \in BOOLEAN /\ authenticated \in BOOLEAN
  /\ disconnected_reason \in Reasons
  /\ session \in 0 .. MaxSessions
  /\ http \in [Requests -> {"idle", "ready", "waiting"} \cup Final]
  /\ via \in [Requests -> 0 .. MaxSessions]

(***************************************************************************)
(* Safety                                                                  *)
(***************************************************************************)
\* A caller is cut off ("Failed to receive response") only because the
\* session that took its command is over; while that session runs, it keeps
\* the channel or has answered on it.
CutOffOnlyBySessionEnd ==
  \A r \in Requests :
    via[r] # 0 /\ replies[r] = <<>> /\ ~Held(r) =>
      via[r] # session \/ pc \notin {"hello", "auth", "replay", "authed", "loop"}

\* To the event streams the client is a Connection.
Link == INSTANCE Connection WITH
  link <- IF pc = "backoff" THEN "closing"
          ELSE IF authenticated THEN "up"
          ELSE IF notify # <<>> /\ notify[Len(notify)] # "disconnected" THEN "announced"
          ELSE "down"

\* connected() and the notifications go together as EventStream assumes, over
\* all sessions and at every point of each: the flag is never set without a
\* "connected" before it and never left set after the "disconnected".
ImplementsConnection == Link!ConnectionSpec

(***************************************************************************)
(* Liveness                                                                *)
(***************************************************************************)
\* A caller that sent its command is released by a reply or by the end of
\* the session, without having to wait for its own timeout.
CallersReleased ==
  \A r \in Requests : http[r] = "waiting" ~> http[r] \in Final

\* stop() ends the client once its TransportClose is in the mailbox of the
\* session, whatever that session is doing, and at once when there is none.
ClosePending == ~NoEvent("close") /\ pc \in {"hello", "auth", "replay", "authed", "loop"}
BetweenSessions == pc \in {"unpublished", "backoff", "sleep", "idle"}
StopObeyed == (shutdown_flag /\ (ClosePending \/ BetweenSessions)) ~> (pc = "stopped")

\* After a session there is another one, unless the client was stopped.
Reconnects ==
  (pc = "dropped") ~> (pc = "connecting" \/ shutdown_flag \/ session = MaxSessions)

(***************************************************************************)
(* What the command line reports of it: "stopped: The agent has been        *)
(* stopped." (cli/stop.rs), for a client that ends.                         *)
(***************************************************************************)
StopStops == (stop = "done") ~> (pc = "stopped")


============================================================================
