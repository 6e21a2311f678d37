---------------------------- MODULE ClientLogic ----------------------------
(***************************************************************************)
(* One session of the agent's connection to the Fostrom server: the        *)
(* ClientLogic event loop of device-agent/src/moonlight_codec.rs with the   *)
(* channels around it.  The logic is one thread that owns a FIFO mailbox;   *)
(* HTTP threads put commands in it, the socket thread puts received bytes   *)
(* and its own end in it, the timer thread puts Refresh and HeartbeatTick   *)
(* in it.  Each command carries the sending half of a private channel on    *)
(* which one HTTP thread awaits one reply.                                  *)
(*                                                                         *)
(* Abstractions.  A request is identified with its return channel, and      *)
(* replies[r] is everything ever sent on that channel.  A read of the       *)
(* socket is the sequence of packets the codec decodes from it, or          *)
(* "garbage" when the codec returns an error; a read that completes no      *)
(* packet changes nothing and is left out.  Refresh and HeartbeatTick       *)
(* cannot reach the mailbox during authentication (the timer thread of a    *)
(* session starts after it), so the code's branch that skips them is left   *)
(* out.  The server is the environment: it may answer any packet it got,    *)
(* late, in any order, or never.                                            *)
(***************************************************************************)
EXTENDS Naturals, Sequences, FiniteSets

CONSTANTS
  Requests,      \* the requests of the HTTP threads, one ClientCmd each
  Kind,          \* Kind[r]: which ClientCmd (and MailAckType) r carries
  MailIds,       \* mail identifiers (UUIDv7 as u128)
  MailOf,        \* MailOf[r]: the mail a mail operation is about
  NoReq,         \* "no request"
  TxnMod,        \* number of transaction ids: 2^64 in the code
  MaxPushes,     \* bound: packets the server sends unasked
  MaxHeartbeats, \* bound: heartbeats the timer asks for
  MaxBatch       \* bound: packets one socket read yields

MailOps  == {"ack", "reject", "requeue"}
TxnKinds == {"pulse", "next"}
Kinds    == MailOps \cup TxnKinds
TxnIds   == 0 .. TxnMod - 1
Keys     == TxnIds \cup MailIds

\* A mail id has the UUID version nibble 7 above bit 64, so it is no u64.
ASSUME MailIdAssumption == MailIds \cap Nat = {}
ASSUME RequestAssumption == NoReq \notin Requests
ASSUME KindAssumption ==
  /\ Kind \in [Requests -> Kinds]
  /\ MailOf \in [Requests -> MailIds]
ASSUME BoundAssumption ==
  /\ TxnMod \in Nat \ {0}
  /\ MaxPushes \in Nat /\ MaxHeartbeats \in Nat
  /\ MaxBatch \in Nat \ {0}

VARIABLES
  pc,             \* where the session thread is
  reason,         \* DisconnectedReason of a session that is over
  mailbox,        \* proc_mailbox_chan
  batch,          \* packets of the read being processed
  buffered_cmds,  \* commands put aside while authenticating
  pending_txns,   \* Keys -> the request whose return channel is stored
  old,            \* keys stored more than 10 seconds ago
  next_txn_id,
  replies,        \* what was sent on each return channel
  submitted,      \* commands accepted by the mailbox, in order (history)
  sent,           \* commands written to the transport, in order (history)
  outstanding,    \* command packets the server has not answered
  connect,        \* the Connect packet
  socket,         \* is the socket thread running?
  halt,           \* the session's shutdown_flag, set by the timer
  notify,         \* notify_chan
  pushes,         \* unasked packets so far
  ticks,          \* HeartbeatTicks the timer has sent
  unacked,        \* heartbeat packets the server has not acknowledged
  pings           \* ping_chan: acknowledgements passed to the timer

sessionVars == <<pc, reason, batch, buffered_cmds>>
txnVars     == <<pending_txns, old, next_txn_id>>
serverVars  == <<outstanding, connect, socket, pushes>>
beats       == <<ticks, unacked, pings>>
logicVars   == <<sessionVars, txnVars, serverVars, beats, mailbox, replies,
                 submitted, sent, halt, notify>>

PacketTypes == {"connected", "connected_mail", "disconnected", "unauthorized",
                "connect_failed", "heartbeat_ack", "new_mail", "unknown"}
Responses   == {"pulse_resp", "mail_next_resp", "ack_mail_resp"}
Welcomes    == {"connected", "connected_mail"}
Goodbyes    == {"disconnected", "unauthorized", "connect_failed"}
Reasons     == Goodbyes \cup {"force_close", "none"}
LogicPhases == {"hello", "auth", "replay", "authed", "loop", "ended",
                "dropped"}
Results     == Responses \cup {"timeout", "invalid_name", "duplicate_req",
                               "txn_failed", "mailbox_write_failed"}

\* key, from: the request a response answers
Packets == [type : PacketTypes, key : {NoReq}, from : {NoReq}]
             \cup [type : Responses, key : Keys, from : Requests]
Events  ==
  [type : {"cmd"}, req : Requests, packets : {<<>>}]
    \cup [type : {"recv"}, req : {NoReq}, packets : Seq(Packets) \ {<<>>}]
    \cup [type : {"garbage", "close", "refresh", "heartbeat"}, req : {NoReq},
          packets : {<<>>}]
Replies == [res : Results, from : Requests \cup {NoReq}]

Packet(type)        == [type |-> type, key |-> NoReq, from |-> NoReq]
Event(type)         == [type |-> type, req |-> NoReq, packets |-> <<>>]
CmdEvent(r)         == [type |-> "cmd", req |-> r, packets |-> <<>>]
RecvEvent(p)        == [type |-> "recv", req |-> NoReq, packets |-> <<p>>]
Failure(res)        == [res |-> res, from |-> NoReq]

Queued(r)    == \E i \in 1 .. Len(mailbox) : mailbox[i].req = r
Buffered(r)  == \E i \in 1 .. Len(buffered_cmds) : buffered_cmds[i] = r
Pending(r)   == \E k \in Keys : pending_txns[k] = r
\* Some sender of r's return channel is alive.
Held(r)      == Queued(r) \/ Buffered(r) \/ Pending(r)
Submitted(r) == \E i \in 1 .. Len(submitted) : submitted[i] = r
NoEvent(type) == \A i \in 1 .. Len(mailbox) : mailbox[i].type # type
\* Bound: what is put behind an end of the session is never read; the timer
\* and the server put nothing there.
Open == pc # "ended" /\ NoEvent("close") /\ NoEvent("garbage")

NoPending == [k \in Keys |-> NoReq]
Reply(r, v) == replies' = [replies EXCEPT ![r] = Append(@, v)]

LogicInit ==
  /\ pc = "hello" /\ reason = "none"
  /\ mailbox = <<>> /\ batch = <<>> /\ buffered_cmds = <<>>
  /\ pending_txns = NoPending /\ old = {} /\ next_txn_id = 0
  /\ replies = [r \in Requests |-> <<>>]
  /\ submitted = <<>> /\ sent = <<>>
  /\ outstanding = {} /\ connect = "unsent" /\ socket = "up"
  /\ halt = FALSE /\ notify = <<>> /\ pushes = 0
  /\ ticks = 0 /\ unacked = 0 /\ pings = 0

(***************************************************************************)
(* Writing to the transport.  The send fails only once the socket thread is *)
(* gone; between its last read of the channel and its end a write succeeds  *)
(* and is lost.                                                             *)
(***************************************************************************)
WriteOutcomes == IF socket = "up" THEN {TRUE} ELSE {TRUE, FALSE}

EndSession(why) ==
  /\ pc' = "ended" /\ reason' = why
  /\ batch' = <<>> /\ buffered_cmds' = <<>>

\* The command was handled; rest is what is left of buffered_cmds.
Continue(rest) ==
  /\ buffered_cmds' = rest
  /\ UNCHANGED <<pc, reason, batch>>

\* mutant: the error of the send is dropped
WriteCmdUnchecked(r, k, rest) ==
  /\ sent' = IF socket = "up" THEN Append(sent, r) ELSE sent
  /\ outstanding' = IF socket = "up"
                    THEN outstanding \cup {[key |-> k, from |-> r]}
                    ELSE outstanding
  /\ Continue(rest)
  /\ UNCHANGED <<connect, socket, pushes>>

WriteCmd(r, k, rest) ==
  \E ok \in WriteOutcomes :
    /\ sent' = IF ok THEN Append(sent, r) ELSE sent
    /\ outstanding' = IF ok /\ socket = "up"
                      THEN outstanding \cup {[key |-> k, from |-> r]}
                      ELSE outstanding
    /\ IF ok THEN Continue(rest) ELSE EndSession("force_close")
    /\ UNCHANGED <<connect, socket, pushes>>

(***************************************************************************)
(* handle_cmd                                                              *)
(***************************************************************************)
Probe(i) == (next_txn_id + i) % TxnMod
\* push_txn takes the next id and skips at most three occupied ones.
FreeProbes == {i \in 0 .. 3 : pending_txns[Probe(i)] = NoReq}

\* The name of a pulse may be too long.
RejectName(r, rest) ==
  /\ Kind[r] = "pulse"
  /\ Reply(r, Failure("invalid_name"))
  /\ Continue(rest)
  /\ UNCHANGED <<txnVars, serverVars, sent>>

\* mutant: an addition that does not wrap
PushTxnUnwrapped(r, rest) ==
  /\ Kind[r] \in TxnKinds
  /\ \E i \in FreeProbes :
       /\ \A j \in FreeProbes : i <= j
       /\ pending_txns' = [pending_txns EXCEPT ![Probe(i)] = r]
       /\ next_txn_id' = next_txn_id + i + 1
       /\ WriteCmd(r, Probe(i), rest)
  /\ UNCHANGED <<old, replies>>

\* mutant: next_txn_id is read, not taken
PushTxnSameId(r, rest) ==
  /\ Kind[r] \in TxnKinds
  /\ \E i \in FreeProbes :
       /\ \A j \in FreeProbes : i <= j
       /\ pending_txns' = [pending_txns EXCEPT ![Probe(i)] = r]
       /\ next_txn_id' = Probe(i)
       /\ WriteCmd(r, Probe(i), rest)
  /\ UNCHANGED <<old, replies>>

PushTxn(r, rest) ==
  /\ Kind[r] \in TxnKinds
  /\ \E i \in FreeProbes :
       /\ \A j \in FreeProbes : i <= j
       /\ pending_txns' = [pending_txns EXCEPT ![Probe(i)] = r]
       /\ next_txn_id' = Probe(i + 1)
       /\ WriteCmd(r, Probe(i), rest)
  /\ UNCHANGED <<old, replies>>

TxnExhausted(r) ==
  /\ Kind[r] \in TxnKinds
  /\ FreeProbes = {}
  /\ next_txn_id' = Probe(4)
  /\ Reply(r, Failure("txn_failed"))
  /\ EndSession("force_close")
  /\ UNCHANGED <<pending_txns, old, serverVars, sent>>

DuplicateMailOp(r, rest) ==
  /\ Kind[r] \in MailOps
  /\ pending_txns[MailOf[r]] # NoReq
  /\ Reply(r, Failure("duplicate_req"))
  /\ Continue(rest)
  /\ UNCHANGED <<txnVars, serverVars, sent>>

\* mutant: no look for an operation pending on the same mail
PushMailOpOver(r, rest) ==
  /\ Kind[r] \in MailOps
  /\ pending_txns' = [pending_txns EXCEPT ![MailOf[r]] = r]
  /\ WriteCmd(r, MailOf[r], rest)
  /\ UNCHANGED <<old, next_txn_id, replies>>

PushMailOp(r, rest) ==
  /\ Kind[r] \in MailOps
  /\ pending_txns[MailOf[r]] = NoReq
  /\ pending_txns' = [pending_txns EXCEPT ![MailOf[r]] = r]
  /\ WriteCmd(r, MailOf[r], rest)
  /\ UNCHANGED <<old, next_txn_id, replies>>

HandleCmd(r, rest) ==
  \/ RejectName(r, rest)
  \/ PushTxn(r, rest)
  \/ TxnExhausted(r)
  \/ DuplicateMailOp(r, rest)
  \/ PushMailOp(r, rest)

(***************************************************************************)
(* Authentication: wait_for_authentication_with_timeout                    *)
(***************************************************************************)
SendConnect ==
  /\ pc = "hello"
  /\ \E ok \in WriteOutcomes :
       IF ok
       THEN /\ pc' = "auth"
            /\ connect' = IF socket = "up" THEN "sent" ELSE "unsent"
            /\ UNCHANGED <<reason, batch, buffered_cmds>>
       ELSE /\ EndSession("force_close")
            /\ UNCHANGED connect
  /\ UNCHANGED <<txnVars, outstanding, socket, pushes, mailbox, replies,
                 submitted, sent, halt, notify, beats>>

AuthEvent(type) ==
  /\ pc = "auth" /\ mailbox # <<>>
  /\ Head(mailbox).type = type
  /\ mailbox' = Tail(mailbox)
  /\ UNCHANGED <<txnVars, serverVars, replies, submitted, sent, halt, beats>>

\* mutant: the commands are kept last first
AuthBufferInFront ==
  /\ AuthEvent("cmd")
  /\ buffered_cmds' = <<Head(mailbox).req>> \o buffered_cmds
  /\ UNCHANGED <<pc, reason, batch, notify>>

\* mutant: a command is handled as it comes
AuthBufferNothing ==
  /\ pc = "auth" /\ mailbox # <<>> /\ Head(mailbox).type = "cmd"
  /\ mailbox' = Tail(mailbox)
  /\ HandleCmd(Head(mailbox).req, buffered_cmds)
  /\ UNCHANGED <<submitted, halt, notify, beats>>

AuthBuffer ==
  /\ AuthEvent("cmd")
  /\ buffered_cmds' = Append(buffered_cmds, Head(mailbox).req)
  /\ UNCHANGED <<pc, reason, batch, notify>>

MailNoticeFirst(type) ==   \* mutant: the mail is told of first
  IF type = "connected" THEN <<"connected">> ELSE <<"new_mail", "connected">>
Notices(type) ==
  IF type = "connected" THEN <<"connected">> ELSE <<"connected", "new_mail">>

AuthConnected ==
  /\ AuthEvent("recv")
  /\ LET type == Head(Head(mailbox).packets).type IN
       /\ type \in Welcomes
       /\ notify' = notify \o Notices(type)
  /\ pc' = "replay"
  /\ batch' = Tail(Head(mailbox).packets)
  /\ UNCHANGED <<reason, buffered_cmds>>

\* handle_packet: what is no packet of the server closes the socket.
ReasonOf(type) == IF type \in Goodbyes THEN type ELSE "force_close"

AuthRefused ==
  /\ AuthEvent("recv")
  /\ LET type == Head(Head(mailbox).packets).type IN
       /\ type \notin Welcomes
       /\ EndSession(ReasonOf(type))
  /\ UNCHANGED notify

AuthBroken ==
  /\ AuthEvent("garbage") \/ AuthEvent("close")
  /\ EndSession("force_close")
  /\ UNCHANGED notify

\* recv_timeout: ten seconds without any event, not ten seconds in all
AuthTimeout ==
  /\ pc = "auth" /\ mailbox = <<>>
  /\ EndSession("force_close")
  /\ UNCHANGED <<txnVars, serverVars, mailbox, replies, submitted, sent,
                 halt, notify, beats>>

Replay ==
  /\ pc = "replay" /\ batch = <<>> /\ buffered_cmds # <<>>
  /\ HandleCmd(Head(buffered_cmds), Tail(buffered_cmds))
  /\ UNCHANGED <<mailbox, submitted, halt, notify, beats>>

ReplayDone ==
  /\ pc = "replay" /\ batch = <<>> /\ buffered_cmds = <<>>
  /\ pc' = "authed"
  /\ UNCHANGED <<reason, batch, buffered_cmds, txnVars, serverVars, mailbox,
                 replies, submitted, sent, halt, notify, beats>>

\* Back in session_lifecycle: a fresh shutdown_flag, the timer thread starts.
StartLoop ==
  /\ pc = "authed"
  /\ pc' = "loop" /\ halt' = FALSE
  /\ UNCHANGED <<reason, batch, buffered_cmds, txnVars, serverVars, mailbox,
                 replies, submitted, sent, notify, beats>>

(***************************************************************************)
(* handle_server_resp, one packet of a read at a time                      *)
(***************************************************************************)
TakePacket(type) ==
  /\ pc \in {"replay", "loop"} /\ batch # <<>>
  /\ Head(batch).type = type
  /\ UNCHANGED <<next_txn_id, serverVars, mailbox, submitted, sent, halt>>

NextPacket == batch' = Tail(batch) /\ UNCHANGED <<pc, reason, buffered_cmds>>

\* mutant: the entry stays after its answer
ResolveKeepsEntry ==
  LET r == pending_txns[Head(batch).key] IN
  /\ IF r # NoReq
     THEN Reply(r, [res |-> Head(batch).type, from |-> Head(batch).from])
     ELSE UNCHANGED replies
  /\ UNCHANGED <<pending_txns, old>>

\* resolve_txn and resolve_mail
Resolve ==
  LET packet == Head(batch)
      r == pending_txns[packet.key] IN
  IF r # NoReq
  THEN /\ Reply(r, [res |-> packet.type, from |-> packet.from])
       /\ pending_txns' = [pending_txns EXCEPT ![packet.key] = NoReq]
       /\ old' = old \ {packet.key}
  ELSE UNCHANGED <<replies, pending_txns, old>>

RespPulse   == TakePacket("pulse_resp")     /\ Resolve /\ NextPacket /\ UNCHANGED <<notify, beats>>
RespNext    == TakePacket("mail_next_resp") /\ Resolve /\ NextPacket /\ UNCHANGED <<notify, beats>>
RespAckMail == TakePacket("ack_mail_resp")  /\ Resolve /\ NextPacket /\ UNCHANGED <<notify, beats>>

RespHeartbeatAck ==
  /\ TakePacket("heartbeat_ack")
  /\ pings' = pings + 1
  /\ NextPacket
  /\ UNCHANGED <<replies, pending_txns, old, notify, ticks, unacked>>

RespNewMail ==
  /\ TakePacket("new_mail")
  /\ notify' = Append(notify, "new_mail")
  /\ NextPacket
  /\ UNCHANGED <<replies, pending_txns, old, beats>>

RespGoodbye ==
  /\ \E type \in Goodbyes \cup {"unknown"} :
       TakePacket(type) /\ EndSession(ReasonOf(type))
  /\ UNCHANGED <<replies, pending_txns, old, notify, beats>>

(***************************************************************************)
(* start_loop and process_client_event                                     *)
(***************************************************************************)
LoopEvent(type) ==
  /\ pc = "loop" /\ batch = <<>> /\ ~halt
  /\ mailbox # <<>> /\ Head(mailbox).type = type
  /\ mailbox' = Tail(mailbox)
  /\ UNCHANGED <<submitted, halt, notify>>

LoopCmd ==
  /\ LoopEvent("cmd")
  /\ HandleCmd(Head(mailbox).req, buffered_cmds)
  /\ UNCHANGED beats

LoopRecv ==
  /\ LoopEvent("recv")
  /\ batch' = Head(mailbox).packets
  /\ UNCHANGED <<pc, reason, buffered_cmds, txnVars, serverVars, replies,
                 sent, beats>>

\* mutant: old entries are removed and nobody is told
LoopRefreshSilent ==
  /\ LoopEvent("refresh")
  /\ pending_txns' = [k \in Keys |-> IF k \in old THEN NoReq ELSE pending_txns[k]]
  /\ old' = {}
  /\ UNCHANGED <<sessionVars, serverVars, next_txn_id, sent, beats, replies>>

\* mutant: the waiting callers are told, their entries stay
LoopRefreshKeeps ==
  /\ LoopEvent("refresh")
  /\ replies' = [r \in Requests |->
                   IF \E k \in old : pending_txns[k] = r
                   THEN Append(replies[r], Failure("timeout"))
                   ELSE replies[r]]
  /\ old' = {}
  /\ UNCHANGED <<sessionVars, serverVars, pending_txns, next_txn_id, sent, beats>>

\* mutant: nothing is ever old enough
LoopRefreshNothing ==
  /\ LoopEvent("refresh")
  /\ UNCHANGED <<sessionVars, txnVars, serverVars, replies, sent, beats>>

\* refresh: every entry older than ten seconds is removed and told so.
LoopRefresh ==
  /\ LoopEvent("refresh")
  /\ replies' = [r \in Requests |->
                   IF \E k \in old : pending_txns[k] = r
                   THEN Append(replies[r], Failure("timeout"))
                   ELSE replies[r]]
  /\ pending_txns' = [k \in Keys |-> IF k \in old THEN NoReq ELSE pending_txns[k]]
  /\ old' = {}
  /\ UNCHANGED <<sessionVars, serverVars, next_txn_id, sent, beats>>

LoopHeartbeat ==
  /\ LoopEvent("heartbeat")
  /\ \E ok \in WriteOutcomes :
       /\ unacked' = IF ok /\ socket = "up" THEN unacked + 1 ELSE unacked
       /\ IF ok THEN UNCHANGED sessionVars ELSE EndSession("force_close")
  /\ UNCHANGED <<txnVars, serverVars, replies, sent, ticks, pings>>

LoopBroken ==
  /\ LoopEvent("close") \/ LoopEvent("garbage")
  /\ EndSession("force_close")
  /\ UNCHANGED <<txnVars, serverVars, replies, sent, beats>>

LoopHalted ==
  /\ pc = "loop" /\ batch = <<>> /\ halt
  /\ EndSession("force_close")
  /\ UNCHANGED <<txnVars, serverVars, mailbox, replies, submitted, sent,
                 halt, notify, beats>>

(***************************************************************************)
(* The socket thread is closed and joined, then session_lifecycle returns   *)
(* and drops the logic with its mailbox and its pending transactions.       *)
(***************************************************************************)
DropLogic ==
  /\ pc = "ended"
  /\ pc' = "dropped"
  /\ mailbox' = <<>> /\ pending_txns' = NoPending /\ old' = {}
  /\ socket' = "down" /\ outstanding' = {} /\ unacked' = 0
  /\ UNCHANGED <<reason, batch, buffered_cmds, next_txn_id, connect, pushes,
                 replies, submitted, sent, halt, notify, ticks, pings>>

(***************************************************************************)
(* MoonlightClient::send_cmd for a request that was not made before.        *)
(***************************************************************************)
Fresh(r) == ~Submitted(r) /\ replies[r] = <<>>

Accept(r) ==
  /\ Fresh(r)
  /\ pc # "dropped"
  /\ mailbox' = Append(mailbox, CmdEvent(r))
  /\ submitted' = Append(submitted, r)
  /\ UNCHANGED <<sessionVars, txnVars, serverVars, beats, replies, sent, halt,
                 notify>>

Refuse(r) ==
  /\ Fresh(r)
  /\ Reply(r, Failure("mailbox_write_failed"))
  /\ UNCHANGED <<sessionVars, txnVars, serverVars, beats, mailbox, submitted,
                 sent, halt, notify>>

(***************************************************************************)
(* timer_logic, as far as the session sees it: what it sends, at any time.  *)
(* A Refresh that waits behind another one changes nothing.                 *)
(***************************************************************************)
timerUnchanged == <<sessionVars, next_txn_id, pending_txns, serverVars,
                    replies, submitted, sent, notify, unacked, pings>>

TimerRefresh ==
  /\ pc = "loop" /\ Open /\ NoEvent("refresh")
  /\ mailbox' = Append(mailbox, Event("refresh"))
  /\ UNCHANGED <<timerUnchanged, old, halt, ticks>>

TimerHeartbeat ==
  /\ pc = "loop" /\ Open /\ ticks < MaxHeartbeats
  /\ mailbox' = Append(mailbox, Event("heartbeat"))
  /\ ticks' = ticks + 1
  /\ UNCHANGED <<timerUnchanged, old, halt>>

\* no acknowledgement for 90 seconds
TimerGiveUp ==
  /\ pc = "loop" /\ ~halt
  /\ mailbox' = Append(mailbox, Event("close"))
  /\ halt' = TRUE
  /\ UNCHANGED <<timerUnchanged, old, ticks>>

\* Ten seconds have passed since the entry under k was stored.
Age(k) ==
  /\ pc = "loop"
  /\ pending_txns[k] # NoReq /\ k \notin old
  /\ old' = old \cup {k}
  /\ UNCHANGED <<timerUnchanged, mailbox, halt, ticks>>

(***************************************************************************)
(* The socket thread and the server behind it (the server is external).     *)
(***************************************************************************)
\* Bytes of several packets may be read at once.
Deliver(p) ==
  /\ socket = "up" /\ Open
  /\ \/ mailbox' = Append(mailbox, RecvEvent(p))
     \/ /\ mailbox # <<>>
        /\ mailbox[Len(mailbox)].type = "recv"
        /\ Len(mailbox[Len(mailbox)].packets) < MaxBatch
        /\ mailbox' = [mailbox EXCEPT ![Len(mailbox)].packets = Append(@, p)]
  /\ UNCHANGED <<sessionVars, txnVars, replies, submitted, sent, halt, notify,
                 socket, ticks, pings>>

ServerConnect ==
  /\ connect = "sent"
  /\ connect' = "answered"
  /\ \E type \in Welcomes \cup Goodbyes : Deliver(Packet(type))
  /\ UNCHANGED <<outstanding, pushes, unacked>>

RespType(r) == CASE Kind[r] = "next"     -> "mail_next_resp"
                 [] Kind[r] \in MailOps  -> "ack_mail_resp"
                 [] OTHER                -> "pulse_resp"

ServerAnswer ==
  /\ \E p \in outstanding :
       /\ outstanding' = outstanding \ {p}
       /\ Deliver([type |-> RespType(p.from), key |-> p.key, from |-> p.from])
  /\ UNCHANGED <<connect, pushes, unacked>>

ServerHeartbeatAck ==
  /\ unacked > 0
  /\ unacked' = unacked - 1
  /\ Deliver(Packet("heartbeat_ack"))
  /\ UNCHANGED <<outstanding, connect, pushes>>

ServerPush ==
  /\ connect = "answered" /\ pushes < MaxPushes
  /\ pushes' = pushes + 1
  /\ \E type \in {"new_mail", "disconnected", "unknown"} :
       Deliver(Packet(type))
  /\ UNCHANGED <<outstanding, connect, unacked>>

\* Bytes on which process_packets returns an error.
Garbage ==
  /\ socket = "up" /\ Open /\ pushes < MaxPushes
  /\ pushes' = pushes + 1
  /\ mailbox' = Append(mailbox, Event("garbage"))
  /\ UNCHANGED <<sessionVars, txnVars, beats, outstanding, connect, socket,
                 replies, submitted, sent, halt, notify>>

\* mutant: no TransportClose after the transport loop
SocketEndsSilently ==
  /\ socket = "up" /\ pc # "ended"
  /\ socket' = "down"
  /\ outstanding' = {} /\ unacked' = 0
  /\ UNCHANGED <<sessionVars, txnVars, connect, pushes, ticks, pings, mailbox,
                 replies, submitted, sent, halt, notify>>

\* The transport loop of moonlight_socket::connect breaks.
SocketEnds ==
  /\ socket = "up" /\ pc # "ended"
  /\ socket' = "down"
  /\ outstanding' = {} /\ unacked' = 0
  /\ mailbox' = Append(mailbox, Event("close"))
  /\ UNCHANGED <<sessionVars, txnVars, connect, pushes, ticks, pings, replies,
                 submitted, sent, halt, notify>>

(***************************************************************************)
(* One session, from a connected socket to the dropped logic.               *)
(***************************************************************************)
LogicThread ==
  \/ SendConnect
  \/ AuthBuffer \/ AuthConnected \/ AuthRefused \/ AuthBroken \/ AuthTimeout
  \/ Replay \/ ReplayDone \/ StartLoop
  \/ RespPulse \/ RespNext \/ RespAckMail \/ RespHeartbeatAck \/ RespNewMail
  \/ RespGoodbye
  \/ LoopCmd \/ LoopRecv \/ LoopRefresh \/ LoopHeartbeat \/ LoopBroken
  \/ LoopHalted \/ DropLogic

Timer  == TimerRefresh \/ TimerHeartbeat \/ TimerGiveUp
Server == \/ ServerConnect \/ ServerAnswer \/ ServerHeartbeatAck \/ ServerPush
          \/ Garbage \/ SocketEnds

LogicNext ==
  \/ LogicThread
  \/ Timer \/ Server
  \/ \E k \in Keys : Age(k)
  \/ \E r \in Requests : Accept(r) \/ (pc = "dropped" /\ Refuse(r))

LogicSpec == LogicInit /\ [][LogicNext]_logicVars

\* The session thread runs, the timer thread ticks, and time passes.
LogicFairness ==
  /\ WF_logicVars(LogicThread)
  /\ WF_logicVars(TimerRefresh)
  /\ \A k \in Keys : WF_logicVars(Age(k))

LogicFairSpec == LogicSpec /\ LogicFairness

(***************************************************************************)
(* Type invariant                                                          *)
(***************************************************************************)
SessionType ==
  /\ pc \in LogicPhases /\ reason \in Reasons
  /\ batch \in Seq(Packets)
  /\ buffered_cmds \in Seq(Requests)
TxnType ==
  /\ pending_txns \in [Keys -> Requests \cup {NoReq}]
  /\ old \subseteq Keys
  /\ next_txn_id \in TxnIds
ServerType ==
  /\ outstanding \subseteq [key : Keys, from : Requests]
  /\ connect \in {"unsent", "sent", "answered"} /\ socket \in {"up", "down"}
  /\ pushes \in Nat
TimerType == halt \in BOOLEAN /\ ticks \in Nat /\ unacked \in Nat /\ pings \in Nat
RepliesType == replies \in [Requests -> Seq(Replies)]
MailboxType == mailbox \in Seq(Events)
HistoryType == submitted \in Seq(Requests) /\ sent \in Seq(Requests)
NotifyType  == notify \in Seq({"connected", "new_mail", "disconnected"})

TypeOK == /\ SessionType /\ TxnType /\ ServerType /\ TimerType
          /\ RepliesType /\ MailboxType /\ HistoryType /\ NotifyType

(***************************************************************************)
(* Safety                                                                  *)
(***************************************************************************)
Sessionless == pc \in {"ended", "dropped"}

\* A return channel never carries a second reply, whichever of the server,
\* the timeout and the error paths of handle_cmd get to answer it: every one
\* of them gives the channel up (pending_txns.remove after each send).
AtMostOneReply == \A r \in Requests : Len(replies[r]) <= 1

\* The return channel of a command is in one place at a time: the mailbox,
\* buffered_cmds or one entry of pending_txns.  handle_cmd, the replay of
\* buffered_cmds and push_txn move it, and none of them may copy it.
QueuedOnce ==
  \A i, j \in 1 .. Len(mailbox) :
    mailbox[i].req = mailbox[j].req /\ mailbox[i].req # NoReq => i = j
BufferedOnce ==
  \A i, j \in 1 .. Len(buffered_cmds) :
    buffered_cmds[i] = buffered_cmds[j] => i = j
PendingOnce ==
  \A k, l \in Keys :
    pending_txns[k] = pending_txns[l] /\ pending_txns[k] # NoReq => k = l
InOnePlace(r) == /\ ~(Queued(r) /\ Buffered(r))
                 /\ ~(Queued(r) /\ Pending(r))
                 /\ ~(Buffered(r) /\ Pending(r))
SoleOwner ==
  /\ QueuedOnce /\ BufferedOnce /\ PendingOnce
  /\ \A r \in Requests : InOnePlace(r)

\* ... where it belongs to a command the mailbox took and nobody answered.
Ownership ==
  /\ SoleOwner
  /\ AtMostOneReply
  /\ \A r \in Requests : Held(r) => Submitted(r) /\ replies[r] = <<>>

\* An answer of the server reaches the request it was given for, as an answer
\* of that request's kind (cmd.rs would turn another into "Unexpected
\* Response").  Mail operations are keyed by the mail, so the late answer to
\* an operation that timed out may settle a later one, but only on its mail.
AnswerMatches ==
  \A r \in Requests : \A i \in 1 .. Len(replies[r]) :
    LET from == replies[r][i].from IN
    from # NoReq =>
      /\ replies[r][i].res = RespType(r)
      /\ IF Kind[r] \in MailOps THEN Kind[from] \in MailOps /\ MailOf[from] = MailOf[r]
                                ELSE from = r

\* Mail operations are keyed by the mail and transaction ids come round, so a
\* late answer may settle another request than the one it was given for, but
\* never before that one was given up: it had timed out, or was itself settled
\* by such a stray answer.
GivenUp(r) ==
  \E i \in 1 .. Len(replies[r]) :
    replies[r][i].res = "timeout" \/ replies[r][i].from \notin {NoReq, r}
OnlyLateAnswersStray ==
  \A r \in Requests : \A i \in 1 .. Len(replies[r]) :
    LET from == replies[r][i].from IN from \in {NoReq, r} \/ GivenUp(from)

\* Commands leave for the server in the order the mailbox took them, also
\* those buffered during authentication, which are replayed before any that
\* came later (the comments on buffered_cmds).
WrittenInOrder ==
  \A i, j \in 1 .. Len(sent) : i < j =>
    \E a, b \in 1 .. Len(submitted) :
      a < b /\ submitted[a] = sent[i] /\ submitted[b] = sent[j]

\* No command is written before the server confirmed the connection ("ensure
\* the transport stream gets authenticated before any other events happen").
WrittenAfterConnected ==
  sent # <<>> => connect = "answered" /\ notify # <<>> /\ notify[1] = "connected"

\* In a live session an entry of pending_txns waits for a packet that was
\* written: a failed write ends the session instead of leaving an entry behind.
PendingWasWritten ==
  ~Sessionless => \A k \in Keys : pending_txns[k] # NoReq =>
                    \E i \in 1 .. Len(sent) : sent[i] = pending_txns[k]

\* The session implements the request/reply contract.
Status(r) == IF replies[r] # <<>> THEN "answered"
             ELSE IF Held(r) THEN "open"
             ELSE IF Submitted(r) THEN "lost" ELSE "new"
Contract == INSTANCE RequestReply
              WITH st <- [r \in Requests |-> Status(r)], closed <- Sessionless
ImplementsRequestReply == Contract!Spec

(***************************************************************************)
(* Liveness                                                                *)
(***************************************************************************)
\* A command the mailbox took is answered as long as its session lives: the
\* server may never answer, but the timer's Refresh gives up for it.
RequestSettled ==
  \A r \in Requests : Submitted(r) ~> (replies[r] # <<>> \/ pc = "dropped")

\* A session whose socket thread ended is torn down, wherever its thread is:
\* the loop blocks on its mailbox alone, so the TransportClose must be read.
LostSocketEndsSession == (socket = "down") ~> (pc = "dropped")

===========================================================================
