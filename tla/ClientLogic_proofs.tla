------------------------- MODULE ClientLogic_proofs -------------------------
(***************************************************************************)
(* Proofs about ClientLogic, for all values of its constants.  First          *)
(* where a return channel may be, and that it is used once; then what a       *)
(* session writes, when and in which order; which answers may reach another   *)
(* request than their own; last that a session implements its contract with   *)
(* the HTTP threads, RequestReply.                                         *)
(***************************************************************************)
EXTENDS ClientLogic, TLAPS

(* A transaction id, however far it is advanced, stays a transaction id.    *)
LEMMA ProbeIsTxnId ==
  ASSUME next_txn_id \in TxnIds, NEW i \in Nat
  PROVE  Probe(i) \in TxnIds
<1>1. TxnMod \in Nat /\ TxnMod > 0 /\ next_txn_id \in Nat
  BY BoundAssumption DEF TxnIds
<1>2. (next_txn_id + i) % TxnMod \in 0 .. TxnMod - 1
  BY <1>1
<1> QED BY <1>2 DEF Probe, TxnIds

(* Taking an event from the mailbox leaves events in it.                    *)
LEMMA MailboxHead ==
  ASSUME MailboxType, mailbox # <<>>
  PROVE  /\ Head(mailbox) \in Events
         /\ Tail(mailbox) \in Seq(Events)
  BY DEF MailboxType

LEMMA EventShape ==
  ASSUME NEW e \in Events
  PROVE  /\ e.type = "cmd" => e.req \in Requests
         /\ e.type # "cmd" => e.req = NoReq
         /\ e.type = "recv" => e.packets \in Seq(Packets) /\ e.packets # <<>>
  BY DEF Events

(* What the constructors of events and packets make.                        *)
LEMMA Constructors ==
  /\ \A type \in PacketTypes : Packet(type) \in Packets
  /\ \A type \in {"garbage", "close", "refresh", "heartbeat"} : Event(type) \in Events
  /\ \A r \in Requests : CmdEvent(r) \in Events
  /\ \A p \in Packets : RecvEvent(p) \in Events
<1>1. \A type \in PacketTypes : Packet(type) \in Packets
  BY DEF Packet, Packets
<1>2. \A type \in {"garbage", "close", "refresh", "heartbeat"} : Event(type) \in Events
  BY DEF Event, Events
<1>3. \A r \in Requests : CmdEvent(r) \in Events
  BY DEF CmdEvent, Events
<1>4. \A p \in Packets : RecvEvent(p) \in Events
  <2> TAKE p \in Packets
  <2>1. <<p>> \in Seq(Packets) \ {<<>>}
    OBVIOUS
  <2> QED BY <2>1 DEF RecvEvent, Events
<1> QED BY <1>1, <1>2, <1>3, <1>4

(***************************************************************************)
(* The initial state                                                       *)
(***************************************************************************)
LEMMA InitType == LogicInit => TypeOK
<1> SUFFICES ASSUME LogicInit PROVE TypeOK
  OBVIOUS
<1>1. SessionType
  BY DEF LogicInit, SessionType, LogicPhases, Reasons
<1>2. TxnType
  <2>1. pending_txns \in [Keys -> Requests \cup {NoReq}]
    BY DEF LogicInit, NoPending
  <2>2. next_txn_id \in TxnIds
    BY BoundAssumption DEF LogicInit, TxnIds
  <2> QED BY <2>1, <2>2 DEF LogicInit, TxnType
<1>3. ServerType
  BY DEF LogicInit, ServerType
<1>4. TimerType
  BY DEF LogicInit, TimerType
<1>5. RepliesType
  BY DEF LogicInit, RepliesType
<1>6. MailboxType /\ HistoryType /\ NotifyType
  BY DEF LogicInit, MailboxType, HistoryType, NotifyType
<1> QED BY <1>1, <1>2, <1>3, <1>4, <1>5, <1>6 DEF TypeOK

(***************************************************************************)
(* What the pieces of the handlers do to the types                         *)
(***************************************************************************)
LEMMA EndSessionType ==
  ASSUME NEW why \in Reasons, EndSession(why)
  PROVE  SessionType'
  BY DEF EndSession, SessionType, LogicPhases

LEMMA ContinueType ==
  ASSUME SessionType, NEW rest \in Seq(Requests), Continue(rest)
  PROVE  SessionType'
  BY DEF Continue, SessionType

LEMMA ReplyType ==
  ASSUME RepliesType, NEW r, NEW v \in Replies, Reply(r, v)
  PROVE  RepliesType'
<1>1. CASE r \in Requests
  <2>1. Append(replies[r], v) \in Seq(Replies)
    BY <1>1 DEF RepliesType
  <2> QED BY <1>1, <2>1 DEF RepliesType, Reply
<1>2. CASE r \notin Requests
  BY <1>2 DEF RepliesType, Reply
<1> QED BY <1>1, <1>2

LEMMA FailureType ==
  \A res \in Results : Failure(res) \in Replies
  BY DEF Failure, Replies

LEMMA WriteCmdType ==
  ASSUME SessionType, ServerType, HistoryType,
         NEW r \in Requests, NEW k \in Keys, NEW rest \in Seq(Requests),
         WriteCmd(r, k, rest)
  PROVE  SessionType' /\ ServerType' /\ sent' \in Seq(Requests)
<1>1. PICK ok \in WriteOutcomes :
        /\ sent' = IF ok THEN Append(sent, r) ELSE sent
        /\ outstanding' = IF ok /\ socket = "up"
                          THEN outstanding \cup {[key |-> k, from |-> r]}
                          ELSE outstanding
        /\ IF ok THEN Continue(rest) ELSE EndSession("force_close")
        /\ UNCHANGED <<connect, socket, pushes>>
  BY DEF WriteCmd
<1>2. SessionType'
  BY <1>1, EndSessionType, ContinueType DEF Reasons
<1>3. ServerType'
  BY <1>1 DEF ServerType
<1>4. sent' \in Seq(Requests)
  BY <1>1 DEF HistoryType
<1> QED BY <1>2, <1>3, <1>4

LEMMA HandleCmdType ==
  ASSUME TypeOK, NEW r \in Requests, NEW rest \in Seq(Requests),
         HandleCmd(r, rest)
  PROVE  SessionType' /\ TxnType' /\ ServerType' /\ RepliesType'
           /\ sent' \in Seq(Requests)
<1> USE DEF TypeOK
<1>1. CASE RejectName(r, rest)
  <2>1. SessionType'
    BY <1>1, ContinueType DEF RejectName
  <2>2. RepliesType'
    BY <1>1, ReplyType, FailureType DEF RejectName, Results
  <2> QED BY <1>1, <2>1, <2>2
          DEF RejectName, txnVars, serverVars, TxnType, ServerType, HistoryType
<1>2. CASE PushTxn(r, rest)
  <2>1. PICK i \in FreeProbes :
          /\ pending_txns' = [pending_txns EXCEPT ![Probe(i)] = r]
          /\ next_txn_id' = Probe(i + 1)
          /\ WriteCmd(r, Probe(i), rest)
    BY <1>2 DEF PushTxn
  <2>2. i \in Nat /\ i + 1 \in Nat
    BY DEF FreeProbes
  <2>3. Probe(i) \in TxnIds /\ Probe(i + 1) \in TxnIds
    BY <2>2, ProbeIsTxnId DEF TxnType
  <2>4. TxnType'
    BY <1>2, <2>1, <2>3 DEF TxnType, PushTxn
  <2>5. SessionType' /\ ServerType' /\ sent' \in Seq(Requests)
    BY <2>1, <2>3, WriteCmdType DEF Keys
  <2> QED BY <1>2, <2>4, <2>5 DEF PushTxn, RepliesType
<1>3. CASE TxnExhausted(r)
  <2>1. SessionType'
    BY <1>3, EndSessionType DEF TxnExhausted, Reasons
  <2>2. RepliesType'
    BY <1>3, ReplyType, FailureType DEF TxnExhausted, Results
  <2>3. Probe(4) \in TxnIds
    BY ProbeIsTxnId DEF TxnType
  <2> QED BY <1>3, <2>1, <2>2, <2>3
          DEF TxnExhausted, serverVars, TxnType, ServerType, HistoryType
<1>4. CASE DuplicateMailOp(r, rest)
  <2>1. SessionType'
    BY <1>4, ContinueType DEF DuplicateMailOp
  <2>2. RepliesType'
    BY <1>4, ReplyType, FailureType DEF DuplicateMailOp, Results
  <2> QED BY <1>4, <2>1, <2>2
          DEF DuplicateMailOp, txnVars, serverVars, TxnType, ServerType, HistoryType
<1>5. CASE PushMailOp(r, rest)
  <2>1. MailOf[r] \in Keys
    BY KindAssumption DEF Keys
  <2>2. SessionType' /\ ServerType' /\ sent' \in Seq(Requests)
    BY <1>5, <2>1, WriteCmdType DEF PushMailOp
  <2> QED BY <1>5, <2>1, <2>2 DEF PushMailOp, TxnType, RepliesType
<1> QED BY <1>1, <1>2, <1>3, <1>4, <1>5 DEF HandleCmd

LEMMA ResolveType ==
  ASSUME TypeOK, batch # <<>>, Resolve, 
         Head(batch).type \in Responses,
         UNCHANGED next_txn_id
  PROVE  TxnType' /\ RepliesType'
<1>1. Head(batch) \in Packets
  BY DEF TypeOK, SessionType
<1>2. [res |-> Head(batch).type, from |-> Head(batch).from] \in Replies
  BY <1>1 DEF Packets, Replies, Results
<1>3. RepliesType'
  BY <1>2, ReplyType DEF Resolve, TypeOK, RepliesType
<1>4. TxnType'
  BY DEF Resolve, TypeOK, TxnType
<1> QED BY <1>3, <1>4

LEMMA DeliverType ==
  ASSUME TypeOK, NEW p \in Packets, Deliver(p)
  PROVE  MailboxType'
<1>1. CASE mailbox' = Append(mailbox, RecvEvent(p))
  BY <1>1, Constructors DEF TypeOK, MailboxType
<1>2. CASE /\ mailbox # <<>>
           /\ mailbox[Len(mailbox)].type = "recv"
           /\ mailbox' = [mailbox EXCEPT ![Len(mailbox)].packets = Append(@, p)]
  <2> DEFINE n == Len(mailbox)
             e == mailbox[n]
  <2>1. n \in 1 .. Len(mailbox) /\ e \in Events
    BY <1>2 DEF TypeOK, MailboxType
  <2>2. [e EXCEPT !.packets = Append(@, p)] \in Events
    <3>1. e \in [type : {"recv"}, req : {NoReq}, packets : Seq(Packets) \ {<<>>}]
      BY <1>2, <2>1 DEF Events
    <3>2. Append(e.packets, p) \in Seq(Packets) \ {<<>>}
      BY <3>1
    <3> QED BY <3>1, <3>2 DEF Events
  <2> QED BY <1>2, <2>1, <2>2 DEF TypeOK, MailboxType
<1> QED BY <1>1, <1>2 DEF Deliver

(***************************************************************************)
(* Every step preserves the types: one lemma per thread.                    *)
(***************************************************************************)
LEMMA UnchangedType ==
  ASSUME TypeOK
  PROVE  /\ UNCHANGED sessionVars => SessionType'
         /\ UNCHANGED txnVars => TxnType'
         /\ UNCHANGED serverVars => ServerType'
         /\ UNCHANGED <<halt, ticks, unacked, pings>> => TimerType'
         /\ UNCHANGED replies => RepliesType'
         /\ UNCHANGED mailbox => MailboxType'
         /\ UNCHANGED <<submitted, sent>> => HistoryType'
         /\ UNCHANGED notify => NotifyType'
  BY DEF TypeOK, SessionType, TxnType, ServerType, TimerType, RepliesType,
         MailboxType, HistoryType, NotifyType, sessionVars, txnVars, serverVars

LEMMA AuthEventType ==
  ASSUME TypeOK, NEW type, AuthEvent(type)
  PROVE  /\ Head(mailbox) \in Events /\ Head(mailbox).type = type
         /\ TxnType' /\ ServerType' /\ TimerType'
         /\ RepliesType' /\ MailboxType' /\ HistoryType'
<1>1. MailboxType' /\ Head(mailbox) \in Events
  BY MailboxHead DEF AuthEvent, TypeOK, MailboxType
<1> QED BY <1>1, UnchangedType DEF AuthEvent, beats

LEMMA AuthType ==
  ASSUME TypeOK,
         SendConnect \/ AuthBuffer \/ AuthConnected \/ AuthRefused
           \/ AuthBroken \/ AuthTimeout
  PROVE  TypeOK'
<1>1. CASE SendConnect
  <2>1. SessionType' /\ connect' \in {"unsent", "sent", "answered"}
    <3>1. PICK ok \in WriteOutcomes :
            IF ok
            THEN /\ pc' = "auth"
                 /\ connect' = IF socket = "up" THEN "sent" ELSE "unsent"
                 /\ UNCHANGED <<reason, batch, buffered_cmds>>
            ELSE EndSession("force_close") /\ UNCHANGED connect
      BY <1>1 DEF SendConnect
    <3>2. CASE ok
      BY <3>1, <3>2 DEF TypeOK, SessionType, LogicPhases
    <3>3. CASE ~ok
      BY <3>1, <3>3, EndSessionType DEF TypeOK, ServerType, Reasons
    <3> QED BY <3>2, <3>3
  <2> QED BY <1>1, <2>1, UnchangedType
          DEF SendConnect, beats, TypeOK, ServerType
<1>2. CASE AuthBuffer
  <2>1. AuthEvent("cmd")
    BY <1>2 DEF AuthBuffer
  <2>2. Head(mailbox).req \in Requests
    BY <2>1, AuthEventType, EventShape
  <2>3. SessionType' /\ NotifyType'
    BY <1>2, <2>2 DEF AuthBuffer, TypeOK, SessionType, NotifyType
  <2> QED BY <2>1, <2>3, AuthEventType DEF TypeOK
<1>3. CASE AuthConnected
  <2>1. AuthEvent("recv")
    BY <1>3 DEF AuthConnected
  <2>2. Tail(Head(mailbox).packets) \in Seq(Packets)
    BY <2>1, AuthEventType, EventShape
  <2>3. SessionType'
    BY <1>3, <2>2 DEF AuthConnected, TypeOK, SessionType, LogicPhases
  <2>4. NotifyType'
    <3> DEFINE N == {"connected", "new_mail", "disconnected"}
    <3>1. <<"connected">> \in Seq(N) /\ <<"connected", "new_mail">> \in Seq(N)
      OBVIOUS
    <3>2. \A s \in Seq(N) : notify \o s \in Seq(N)
      BY DEF TypeOK, NotifyType
    <3> QED BY <1>3, <3>1, <3>2 DEF AuthConnected, Notices, NotifyType
  <2> QED BY <2>1, <2>3, <2>4, AuthEventType DEF TypeOK
<1>4. CASE AuthRefused
  <2>1. AuthEvent("recv") /\ NotifyType'
    BY <1>4, UnchangedType DEF AuthRefused
  <2>2. SessionType'
    BY <1>4, EndSessionType DEF AuthRefused, ReasonOf, Reasons
  <2> QED BY <2>1, <2>2, AuthEventType DEF TypeOK
<1>5. CASE AuthBroken
  <2>1. NotifyType' /\ SessionType'
    BY <1>5, UnchangedType, EndSessionType DEF AuthBroken, Reasons
  <2> QED BY <1>5, <2>1, AuthEventType DEF AuthBroken, TypeOK
<1>6. CASE AuthTimeout
  <2>1. SessionType'
    BY <1>6, EndSessionType DEF AuthTimeout, Reasons
  <2> QED BY <1>6, <2>1, UnchangedType DEF AuthTimeout, TypeOK, beats
<1> QED BY <1>1, <1>2, <1>3, <1>4, <1>5, <1>6

LEMMA ReplayType ==
  ASSUME TypeOK, Replay \/ ReplayDone \/ StartLoop
  PROVE  TypeOK'
<1>1. CASE Replay
  <2>1. Head(buffered_cmds) \in Requests /\ Tail(buffered_cmds) \in Seq(Requests)
    BY <1>1 DEF Replay, TypeOK, SessionType
  <2>2. SessionType' /\ TxnType' /\ ServerType' /\ RepliesType'
          /\ sent' \in Seq(Requests)
    BY <1>1, <2>1, HandleCmdType DEF Replay
  <2> QED BY <1>1, <2>2, UnchangedType DEF Replay, TypeOK, beats, HistoryType
<1>2. CASE ReplayDone
  BY <1>2, UnchangedType
  DEF ReplayDone, TypeOK, beats, SessionType, LogicPhases
<1>3. CASE StartLoop
  BY <1>3, UnchangedType
  DEF StartLoop, TypeOK, beats, SessionType, TimerType, LogicPhases
<1> QED BY <1>1, <1>2, <1>3

LEMMA TakePacketType ==
  ASSUME TypeOK, NEW type, TakePacket(type)
  PROVE  /\ Tail(batch) \in Seq(Packets)
         /\ ServerType' /\ MailboxType' /\ HistoryType'
  BY UnchangedType DEF TakePacket, TypeOK, SessionType

LEMMA PacketStepType ==
  ASSUME TypeOK,
         RespPulse \/ RespNext \/ RespAckMail \/ RespHeartbeatAck
           \/ RespNewMail \/ RespGoodbye
  PROVE  TypeOK'
<1>1. ASSUME NEW type \in Responses, TakePacket(type), Resolve, NextPacket, UNCHANGED <<notify, beats>>
      PROVE  TypeOK'
  <2>1. TxnType' /\ RepliesType'
    BY <1>1, ResolveType DEF TakePacket
  <2>2. SessionType'
    BY <1>1, TakePacketType DEF NextPacket, TypeOK, SessionType
  <2> QED BY <1>1, <2>1, <2>2, TakePacketType, UnchangedType
          DEF TypeOK, TakePacket, beats
<1>2. CASE RespPulse \/ RespNext \/ RespAckMail
  BY <1>1, <1>2 DEF RespPulse, RespNext, RespAckMail, Responses
<1>3. CASE RespHeartbeatAck
  <2>1. SessionType'
    BY <1>3, TakePacketType DEF RespHeartbeatAck, NextPacket, TypeOK, SessionType
  <2> QED BY <1>3, <2>1, TakePacketType, UnchangedType
          DEF RespHeartbeatAck, TakePacket, TypeOK, TimerType, TxnType
<1>4. CASE RespNewMail
  <2>1. SessionType' /\ NotifyType'
    BY <1>4, TakePacketType
    DEF RespNewMail, NextPacket, TypeOK, SessionType, NotifyType
  <2> QED BY <1>4, <2>1, TakePacketType, UnchangedType
          DEF RespNewMail, TakePacket, TypeOK, TxnType, beats
<1>5. CASE RespGoodbye
  <2>1. SessionType'
    BY <1>5, EndSessionType DEF RespGoodbye, ReasonOf, Reasons
  <2> QED BY <1>5, <2>1, TakePacketType, UnchangedType
          DEF RespGoodbye, TakePacket, TypeOK, TxnType, beats
<1> QED BY <1>2, <1>3, <1>4, <1>5

LEMMA LoopEventType ==
  ASSUME TypeOK, NEW type, LoopEvent(type)
  PROVE  /\ Head(mailbox) \in Events /\ Head(mailbox).type = type
         /\ MailboxType' /\ NotifyType'
  BY MailboxHead, UnchangedType DEF LoopEvent, TypeOK, MailboxType

LEMMA LoopType ==
  ASSUME TypeOK,
         LoopCmd \/ LoopRecv \/ LoopRefresh \/ LoopHeartbeat \/ LoopBroken
           \/ LoopHalted \/ DropLogic
  PROVE  TypeOK'
<1>1. CASE LoopCmd
  <2>1. LoopEvent("cmd")
    BY <1>1 DEF LoopCmd
  <2>2. Head(mailbox).req \in Requests
    BY <2>1, LoopEventType, EventShape
  <2>3. SessionType' /\ TxnType' /\ ServerType' /\ RepliesType'
          /\ sent' \in Seq(Requests)
    BY <1>1, <2>2, HandleCmdType DEF LoopCmd, TypeOK, SessionType
  <2> QED BY <1>1, <2>1, <2>3, LoopEventType, UnchangedType
          DEF LoopCmd, LoopEvent, TypeOK, beats, HistoryType
<1>2. CASE LoopRecv
  <2>1. LoopEvent("recv")
    BY <1>2 DEF LoopRecv
  <2>2. Head(mailbox).packets \in Seq(Packets)
    BY <2>1, LoopEventType, EventShape
  <2>3. SessionType'
    BY <1>2, <2>2 DEF LoopRecv, TypeOK, SessionType
  <2> QED BY <1>2, <2>1, <2>3, LoopEventType, UnchangedType
          DEF LoopRecv, LoopEvent, TypeOK, beats
<1>3. CASE LoopRefresh
  <2>1. LoopEvent("refresh")
    BY <1>3 DEF LoopRefresh
  <2>2. RepliesType'
    <3>1. Failure("timeout") \in Replies
      BY FailureType DEF Results
    <3>2. \A r \in Requests : Append(replies[r], Failure("timeout")) \in Seq(Replies)
      BY <3>1 DEF TypeOK, RepliesType
    <3> QED BY <1>3, <3>2 DEF LoopRefresh, TypeOK, RepliesType
  <2>3. TxnType'
    BY <1>3 DEF LoopRefresh, TypeOK, TxnType
  <2> QED BY <1>3, <2>1, <2>2, <2>3, LoopEventType, UnchangedType
          DEF LoopRefresh, LoopEvent, TypeOK, beats
<1>4. CASE LoopHeartbeat
  <2>1. LoopEvent("heartbeat")
    BY <1>4 DEF LoopHeartbeat
  <2>2. PICK ok \in WriteOutcomes :
          /\ unacked' = IF ok /\ socket = "up" THEN unacked + 1 ELSE unacked
          /\ IF ok THEN UNCHANGED sessionVars ELSE EndSession("force_close")
    BY <1>4 DEF LoopHeartbeat
  <2>3. SessionType'
    BY <2>2, EndSessionType, UnchangedType DEF Reasons
  <2>4. TimerType'
    BY <1>4, <2>1, <2>2 DEF LoopHeartbeat, LoopEvent, TypeOK, TimerType
  <2> QED BY <1>4, <2>1, <2>3, <2>4, LoopEventType, UnchangedType
          DEF LoopHeartbeat, LoopEvent, TypeOK
<1>5. CASE LoopBroken
  <2>1. PICK type \in {"close", "garbage"} : LoopEvent(type)
    BY <1>5 DEF LoopBroken
  <2>2. SessionType'
    BY <1>5, EndSessionType DEF LoopBroken, Reasons
  <2> QED BY <1>5, <2>1, <2>2, LoopEventType, UnchangedType
          DEF LoopBroken, LoopEvent, TypeOK, beats
<1>6. CASE LoopHalted
  <2>1. SessionType'
    BY <1>6, EndSessionType DEF LoopHalted, Reasons
  <2> QED BY <1>6, <2>1, UnchangedType DEF LoopHalted, TypeOK, beats
<1>7. CASE DropLogic
  <2>1. SessionType' /\ TxnType' /\ MailboxType'
    BY <1>7
    DEF DropLogic, TypeOK, SessionType, TxnType, MailboxType, NoPending, LogicPhases
  <2>2. ServerType' /\ TimerType'
    BY <1>7 DEF DropLogic, TypeOK, ServerType, TimerType
  <2> QED BY <1>7, <2>1, <2>2, UnchangedType DEF DropLogic, TypeOK
<1> QED BY <1>1, <1>2, <1>3, <1>4, <1>5, <1>6, <1>7

LEMMA CallersType ==
  ASSUME TypeOK, NEW r \in Requests, Accept(r) \/ Refuse(r)
  PROVE  TypeOK'
<1>1. CASE Accept(r)
  <2>1. MailboxType' /\ HistoryType'
    BY <1>1, Constructors DEF Accept, TypeOK, MailboxType, HistoryType
  <2> QED BY <1>1, <2>1, UnchangedType DEF Accept, TypeOK, beats
<1>2. CASE Refuse(r)
  <2>1. RepliesType'
    BY <1>2, ReplyType, FailureType DEF Refuse, TypeOK, Results
  <2> QED BY <1>2, <2>1, UnchangedType DEF Refuse, TypeOK, beats
<1> QED BY <1>1, <1>2

LEMMA TimerStepType ==
  ASSUME TypeOK, Timer \/ \E k \in Keys : Age(k)
  PROVE  TypeOK'
<1> USE DEF timerUnchanged
<1>1. CASE TimerRefresh
  <2>1. MailboxType'
    BY <1>1, Constructors DEF TimerRefresh, TypeOK, MailboxType
  <2> QED BY <1>1, <2>1, UnchangedType DEF TimerRefresh, TypeOK, txnVars
<1>2. CASE TimerHeartbeat
  <2>1. MailboxType' /\ TimerType'
    BY <1>2, Constructors DEF TimerHeartbeat, TypeOK, MailboxType, TimerType
  <2> QED BY <1>2, <2>1, UnchangedType DEF TimerHeartbeat, TypeOK, txnVars
<1>3. CASE TimerGiveUp
  <2>1. MailboxType' /\ TimerType'
    BY <1>3, Constructors DEF TimerGiveUp, TypeOK, MailboxType, TimerType
  <2> QED BY <1>3, <2>1, UnchangedType DEF TimerGiveUp, TypeOK, txnVars
<1>4. ASSUME NEW k \in Keys, Age(k) PROVE TypeOK'
  <2>1. TxnType'
    BY <1>4 DEF Age, TypeOK, TxnType
  <2> QED BY <1>4, <2>1, UnchangedType DEF Age, TypeOK
<1> QED BY <1>1, <1>2, <1>3, <1>4 DEF Timer

LEMMA ServerStepType ==
  ASSUME TypeOK, Server
  PROVE  TypeOK'
<1>1. ASSUME NEW p \in Packets, Deliver(p), ServerType', unacked' \in Nat
      PROVE  TypeOK'
  <2>1. MailboxType'
    BY <1>1, DeliverType
  <2>2. TimerType'
    BY <1>1 DEF Deliver, TypeOK, TimerType
  <2> QED BY <1>1, <2>1, <2>2, UnchangedType DEF Deliver, TypeOK
<1>2. CASE ServerConnect
  <2>1. PICK type \in Welcomes \cup Goodbyes : Deliver(Packet(type))
    BY <1>2 DEF ServerConnect
  <2>2. Packet(type) \in Packets
    BY Constructors DEF Welcomes, Goodbyes, PacketTypes
  <2>3. ServerType' /\ unacked' \in Nat
    BY <1>2, <2>1 DEF ServerConnect, Deliver, TypeOK, ServerType, TimerType
  <2> QED BY <1>1, <2>1, <2>2, <2>3
<1>3. CASE ServerAnswer
  <2>1. PICK p \in outstanding :
          /\ outstanding' = outstanding \ {p}
          /\ Deliver([type |-> RespType(p.from), key |-> p.key, from |-> p.from])
    BY <1>3 DEF ServerAnswer
  <2>2. p.key \in Keys /\ p.from \in Requests
    BY DEF TypeOK, ServerType
  <2>3. [type |-> RespType(p.from), key |-> p.key, from |-> p.from] \in Packets
    BY <2>2 DEF Packets, RespType, Responses
  <2>4. ServerType' /\ unacked' \in Nat
    BY <1>3, <2>1 DEF ServerAnswer, Deliver, TypeOK, ServerType, TimerType
  <2> QED BY <1>1, <2>1, <2>3, <2>4
<1>4. CASE ServerHeartbeatAck
  <2>1. Packet("heartbeat_ack") \in Packets
    BY Constructors DEF PacketTypes
  <2>2. ServerType' /\ unacked' \in Nat
    BY <1>4 DEF ServerHeartbeatAck, Deliver, TypeOK, ServerType, TimerType
  <2> QED BY <1>1, <1>4, <2>1, <2>2 DEF ServerHeartbeatAck
<1>5. CASE ServerPush
  <2>1. PICK type \in {"new_mail", "disconnected", "unknown"} :
          Deliver(Packet(type))
    BY <1>5 DEF ServerPush
  <2>2. Packet(type) \in Packets
    BY Constructors DEF PacketTypes
  <2>3. ServerType' /\ unacked' \in Nat
    BY <1>5, <2>1 DEF ServerPush, Deliver, TypeOK, ServerType, TimerType
  <2> QED BY <1>1, <2>1, <2>2, <2>3
<1>6. CASE Garbage
  <2>1. MailboxType' /\ ServerType'
    BY <1>6, Constructors DEF Garbage, TypeOK, MailboxType, ServerType
  <2> QED BY <1>6, <2>1, UnchangedType DEF Garbage, TypeOK, beats
<1>7. CASE SocketEnds
  <2>1. MailboxType' /\ ServerType' /\ TimerType'
    BY <1>7, Constructors
    DEF SocketEnds, TypeOK, MailboxType, ServerType, TimerType
  <2> QED BY <1>7, <2>1, UnchangedType DEF SocketEnds, TypeOK
<1> QED BY <1>2, <1>3, <1>4, <1>5, <1>6, <1>7 DEF Server

(* Each of these steps of the server puts one packet in the mailbox.         *)
LEMMA ServerDelivers ==
  ASSUME TypeOK,
         ServerConnect \/ ServerAnswer \/ ServerHeartbeatAck \/ ServerPush
  PROVE  \E p \in Packets : Deliver(p)
<1>1. CASE ServerConnect \/ ServerHeartbeatAck \/ ServerPush
  <2>1. PICK type \in PacketTypes : Deliver(Packet(type))
    BY <1>1
    DEF ServerConnect, ServerHeartbeatAck, ServerPush, PacketTypes, Welcomes, Goodbyes
  <2> QED BY <2>1, Constructors
<1>2. CASE ServerAnswer
  <2>1. PICK p \in outstanding :
          Deliver([type |-> RespType(p.from), key |-> p.key, from |-> p.from])
    BY <1>2 DEF ServerAnswer
  <2>2. [type |-> RespType(p.from), key |-> p.key, from |-> p.from] \in Packets
    BY DEF TypeOK, ServerType, Packets, RespType, Responses
  <2> QED BY <2>1, <2>2
<1> QED BY <1>1, <1>2

LEMMA NextType == TypeOK /\ [LogicNext]_logicVars => TypeOK'
<1> SUFFICES ASSUME TypeOK, [LogicNext]_logicVars PROVE TypeOK'
  OBVIOUS
<1>1. CASE LogicThread
  BY <1>1, AuthType, ReplayType, PacketStepType, LoopType DEF LogicThread
<1>2. CASE Timer \/ \E k \in Keys : Age(k)
  BY <1>2, TimerStepType
<1>3. CASE Server
  BY <1>3, ServerStepType
<1>4. CASE \E r \in Requests : Accept(r) \/ (pc = "dropped" /\ Refuse(r))
  BY <1>4, CallersType
<1>5. CASE UNCHANGED logicVars
  BY <1>5, UnchangedType DEF logicVars, TypeOK, beats
<1> QED BY <1>1, <1>2, <1>3, <1>4, <1>5 DEF LogicNext

(* Every variable of a session keeps its type: the handlers of              *)
(* moonlight_codec.rs put nothing but what they should into the mailbox,    *)
(* the pending transactions and the return channels.                        *)
THEOREM TypeCorrect == LogicSpec => []TypeOK
<1>1. LogicInit => TypeOK
  BY InitType
<1>2. TypeOK /\ [LogicNext]_logicVars => TypeOK'
  BY NextType
<1> QED BY <1>1, <1>2, PTL DEF LogicSpec

(***************************************************************************)
(* Ownership of the return channels.                                       *)
(*                                                                         *)
(* Transfer reduces a step to what it does to each request: its channel     *)
(* stays where it was (or is dropped), or it is given up for the one reply, *)
(* or it moves to one other place.                                         *)
(***************************************************************************)
Stays(r) ==
  /\ Queued(r)' => Queued(r)
  /\ Buffered(r)' => Buffered(r)
  /\ Pending(r)' => Pending(r)
  /\ replies'[r] = replies[r]
Answered(r) == ~Held(r)' /\ replies[r] = <<>> /\ Len(replies'[r]) <= 1
Moves(r)    == InOnePlace(r)' /\ replies'[r] = <<>> /\ Submitted(r)'

LEMMA Transfer ==
  ASSUME Ownership,
         QueuedOnce', BufferedOnce', PendingOnce',
         \A r \in Requests : Submitted(r) => Submitted(r)',
         \A r \in Requests : Stays(r) \/ Answered(r) \/ Moves(r)
  PROVE  Ownership'
<1>1. ASSUME NEW r \in Requests
      PROVE  /\ InOnePlace(r)' /\ Len(replies'[r]) <= 1
             /\ Held(r)' => Submitted(r)' /\ replies'[r] = <<>>
  <2>1. CASE Stays(r)
    BY <2>1 DEF Stays, Ownership, SoleOwner, AtMostOneReply, InOnePlace, Held
  <2>2. CASE Answered(r)
    BY <2>2 DEF Answered, InOnePlace, Held
  <2>3. CASE Moves(r)
    BY <2>3 DEF Moves
  <2> QED BY <2>1, <2>2, <2>3
<1> QED BY <1>1 DEF Ownership, SoleOwner, AtMostOneReply

(* The mailbox loses its head.                                             *)
LEMMA TakeHead ==
  ASSUME MailboxType, QueuedOnce, mailbox # <<>>, mailbox' = Tail(mailbox)
  PROVE  /\ QueuedOnce'
         /\ \A r \in Requests : Queued(r)' => Queued(r) /\ Head(mailbox).req # r
         /\ \A r \in Requests : Head(mailbox).req = r => Queued(r)
<1>1. /\ Len(mailbox) \in Nat /\ Len(mailbox) >= 1
      /\ Len(mailbox') = Len(mailbox) - 1
      /\ \A i \in 1 .. Len(mailbox') : mailbox'[i] = mailbox[i + 1]
      /\ Head(mailbox) = mailbox[1]
  BY DEF MailboxType
<1>2. QueuedOnce'
  BY <1>1 DEF QueuedOnce
<1>3. ASSUME NEW r \in Requests, Queued(r)'
      PROVE  Queued(r) /\ Head(mailbox).req # r
  <2>1. PICK i \in 1 .. Len(mailbox') : mailbox'[i].req = r
    BY <1>3 DEF Queued
  <2>2. i + 1 \in 1 .. Len(mailbox) /\ i + 1 # 1 /\ mailbox[i + 1].req = r
    BY <1>1, <2>1
  <2>3. r # NoReq
    BY RequestAssumption
  <2>4. Head(mailbox).req # r
    BY <1>1, <2>2, <2>3 DEF QueuedOnce
  <2> QED BY <2>2, <2>4 DEF Queued
<1>4. \A r \in Requests : Head(mailbox).req = r => Queued(r)
  BY <1>1 DEF Queued
<1> QED BY <1>2, <1>3, <1>4

(* An event that carries no command joins the mailbox, or a packet joins     *)
(* the last read.                                                          *)
LEMMA AddEvent ==
  ASSUME MailboxType, QueuedOnce, NEW e \in Events, e.req = NoReq,
         mailbox' = Append(mailbox, e)
  PROVE  QueuedOnce' /\ \A r \in Requests : Queued(r)' => Queued(r)
<1>1. /\ Len(mailbox) \in Nat /\ Len(mailbox') = Len(mailbox) + 1
      /\ \A i \in 1 .. Len(mailbox) : mailbox'[i] = mailbox[i]
      /\ mailbox'[Len(mailbox) + 1] = e
  BY DEF MailboxType
<1>2. QueuedOnce'
  BY <1>1 DEF QueuedOnce
<1>3. \A r \in Requests : Queued(r)' => Queued(r)
  BY <1>1, RequestAssumption DEF Queued
<1> QED BY <1>2, <1>3

LEMMA AddPacket ==
  ASSUME MailboxType, QueuedOnce, NEW p, Deliver(p), p \in Packets
  PROVE  QueuedOnce' /\ \A r \in Requests : Queued(r)' => Queued(r)
<1>1. CASE mailbox' = Append(mailbox, RecvEvent(p))
  <2>1. RecvEvent(p) \in Events /\ RecvEvent(p).req = NoReq
    BY Constructors DEF RecvEvent
  <2> QED BY <1>1, <2>1, AddEvent
<1>2. CASE /\ mailbox # <<>>
           /\ mailbox[Len(mailbox)].type = "recv"
           /\ mailbox' = [mailbox EXCEPT ![Len(mailbox)].packets = Append(@, p)]
  <2>1. /\ Len(mailbox') = Len(mailbox)
        /\ \A i \in 1 .. Len(mailbox) : mailbox'[i].req = mailbox[i].req
    <3>1. mailbox \in Seq(Events) /\ Len(mailbox) \in 1 .. Len(mailbox)
      BY <1>2 DEF MailboxType
    <3>2. mailbox[Len(mailbox)] \in Events
      BY <3>1
    <3>3. DOMAIN mailbox = 1 .. Len(mailbox) /\ DOMAIN mailbox' = DOMAIN mailbox
      BY <1>2, <3>1
    <3>4. [mailbox[Len(mailbox)] EXCEPT !.packets = Append(@, p)].req
            = mailbox[Len(mailbox)].req
      BY <3>2 DEF Events
    <3> QED BY <1>2, <3>1, <3>3, <3>4
  <2>2. QueuedOnce'
    BY <2>1 DEF QueuedOnce
  <2> QED BY <2>1, <2>2 DEF Queued
<1> QED BY <1>1, <1>2 DEF Deliver

(* buffered_cmds loses its head, or is dropped.                            *)
LEMMA TakeBuffered ==
  ASSUME SessionType, BufferedOnce,
         buffered_cmds # <<>>,
         buffered_cmds' = Tail(buffered_cmds) \/ buffered_cmds' = <<>>
  PROVE  /\ BufferedOnce'
         /\ \A r \in Requests :
              Buffered(r)' => Buffered(r) /\ Head(buffered_cmds) # r
         /\ \A r \in Requests : Head(buffered_cmds) = r => Buffered(r)
<1>1. /\ Len(buffered_cmds) \in Nat /\ Len(buffered_cmds) >= 1
      /\ Head(buffered_cmds) = buffered_cmds[1]
  BY DEF SessionType
<1>2. \A r \in Requests : Head(buffered_cmds) = r => Buffered(r)
  BY <1>1 DEF Buffered
<1>3. CASE buffered_cmds' = Tail(buffered_cmds)
  <2>1. /\ Len(buffered_cmds') = Len(buffered_cmds) - 1
        /\ \A i \in 1 .. Len(buffered_cmds') : buffered_cmds'[i] = buffered_cmds[i + 1]
    BY <1>3 DEF SessionType
  <2>2. BufferedOnce'
    BY <1>1, <2>1 DEF BufferedOnce
  <2>3. ASSUME NEW r \in Requests, Buffered(r)'
        PROVE  Buffered(r) /\ Head(buffered_cmds) # r
    <3>1. PICK i \in 1 .. Len(buffered_cmds') : buffered_cmds'[i] = r
      BY <2>3 DEF Buffered
    <3>2. i + 1 \in 1 .. Len(buffered_cmds) /\ i + 1 # 1 /\ buffered_cmds[i + 1] = r
      BY <1>1, <2>1, <3>1
    <3> QED BY <1>1, <3>2 DEF Buffered, BufferedOnce
  <2> QED BY <1>2, <2>2, <2>3
<1>4. CASE buffered_cmds' = <<>>
  BY <1>2, <1>4 DEF BufferedOnce, Buffered
<1> QED BY <1>3, <1>4

LEMMA DropBuffered ==
  ASSUME buffered_cmds' = <<>>
  PROVE  BufferedOnce' /\ \A r \in Requests : ~Buffered(r)'
  BY DEF BufferedOnce, Buffered

(* One key stops or starts to hold a request.                              *)
LEMMA StorePending ==
  ASSUME TxnType, PendingOnce, NEW k \in Keys, NEW r \in Requests,
         pending_txns[k] = NoReq, ~Pending(r),
         pending_txns' = [pending_txns EXCEPT ![k] = r]
  PROVE  /\ PendingOnce'
         /\ \A q \in Requests : q # r /\ Pending(q)' => Pending(q)
  BY DEF TxnType, PendingOnce, Pending

LEMMA ClearPending ==
  ASSUME TxnType, PendingOnce, NEW k \in Keys,
         pending_txns' = [pending_txns EXCEPT ![k] = NoReq]
  PROVE  /\ PendingOnce'
         /\ \A q \in Requests : Pending(q)' => Pending(q)
         /\ \A q \in Requests : pending_txns[k] = q => ~Pending(q)'
  BY RequestAssumption DEF TxnType, PendingOnce, Pending

LEMMA SamePending ==
  ASSUME PendingOnce, UNCHANGED pending_txns
  PROVE  PendingOnce' /\ \A q \in Requests : Pending(q)' <=> Pending(q)
  BY DEF PendingOnce, Pending

(* The first reply on a channel that nobody answered.                      *)
LEMMA FirstReply ==
  ASSUME RepliesType, NEW r \in Requests, NEW v, replies[r] = <<>>, Reply(r, v)
  PROVE  /\ Len(replies'[r]) = 1
         /\ \A q \in Requests : q # r => replies'[q] = replies[q]
  BY DEF RepliesType, Reply

(* handle_cmd takes the channel of its command over: it either keeps it in  *)
(* one entry of pending_txns or answers on it, and touches no other channel.*)
LEMMA HandleCmdOwns ==
  ASSUME TypeOK, PendingOnce, NEW r \in Requests, NEW rest \in Seq(Requests),
         HandleCmd(r, rest), ~Pending(r), replies[r] = <<>>
  PROVE  /\ PendingOnce'
         /\ buffered_cmds' = rest \/ buffered_cmds' = <<>>
         /\ \A q \in Requests : q # r => /\ Pending(q)' => Pending(q)
                                         /\ replies'[q] = replies[q]
         /\ \/ replies'[r] = <<>>
            \/ ~Pending(r)' /\ Len(replies'[r]) = 1
<1> USE DEF TypeOK
<1>1. ASSUME NEW res, Reply(r, Failure(res)), UNCHANGED pending_txns,
             Continue(rest) \/ EndSession("force_close")
      PROVE  /\ PendingOnce'
             /\ buffered_cmds' = rest \/ buffered_cmds' = <<>>
             /\ \A q \in Requests : q # r => /\ Pending(q)' => Pending(q)
                                             /\ replies'[q] = replies[q]
             /\ ~Pending(r)' /\ Len(replies'[r]) = 1
  BY <1>1, SamePending, FirstReply DEF Continue, EndSession
<1>2. ASSUME NEW k \in Keys, pending_txns[k] = NoReq, WriteCmd(r, k, rest),
             pending_txns' = [pending_txns EXCEPT ![k] = r], UNCHANGED replies
      PROVE  /\ PendingOnce'
             /\ buffered_cmds' = rest \/ buffered_cmds' = <<>>
             /\ \A q \in Requests : q # r => /\ Pending(q)' => Pending(q)
                                             /\ replies'[q] = replies[q]
             /\ replies'[r] = <<>>
  <2>1. Continue(rest) \/ EndSession("force_close")
    BY <1>2 DEF WriteCmd
  <2> QED BY <1>2, <2>1, StorePending DEF Continue, EndSession
<1>3. CASE RejectName(r, rest)
  BY <1>1, <1>3 DEF RejectName, txnVars
<1>4. CASE PushTxn(r, rest)
  <2>1. PICK i \in FreeProbes :
          /\ pending_txns' = [pending_txns EXCEPT ![Probe(i)] = r]
          /\ WriteCmd(r, Probe(i), rest)
    BY <1>4 DEF PushTxn
  <2>2. i \in Nat /\ pending_txns[Probe(i)] = NoReq
    BY DEF FreeProbes
  <2>3. Probe(i) \in Keys
    BY <2>2, ProbeIsTxnId DEF TxnType, Keys
  <2> QED BY <1>2, <1>4, <2>1, <2>2, <2>3 DEF PushTxn
<1>5. CASE TxnExhausted(r)
  BY <1>1, <1>5 DEF TxnExhausted
<1>6. CASE DuplicateMailOp(r, rest)
  BY <1>1, <1>6 DEF DuplicateMailOp, txnVars
<1>7. CASE PushMailOp(r, rest)
  <2>1. MailOf[r] \in Keys
    BY KindAssumption DEF Keys
  <2> QED BY <1>2, <1>7, <2>1 DEF PushMailOp
<1> QED BY <1>3, <1>4, <1>5, <1>6, <1>7 DEF HandleCmd

(***************************************************************************)
(* Every step preserves Ownership.                                         *)
(***************************************************************************)
LEMMA Quiet ==
  ASSUME Ownership, QueuedOnce', \A r \in Requests : Queued(r)' => Queued(r),
         UNCHANGED buffered_cmds \/ buffered_cmds' = <<>>,
         UNCHANGED <<pending_txns, replies, submitted>>
  PROVE  Ownership'
<1>1. BufferedOnce' /\ \A r \in Requests : Buffered(r)' => Buffered(r)
  <2>1. CASE UNCHANGED buffered_cmds
    BY <2>1 DEF Ownership, SoleOwner, BufferedOnce, Buffered
  <2>2. CASE buffered_cmds' = <<>>
    BY <2>2, DropBuffered
  <2> QED BY <2>1, <2>2
<1>2. PendingOnce' /\ \A r \in Requests : Pending(r)' <=> Pending(r)
  BY SamePending DEF Ownership, SoleOwner
<1>3. \A r \in Requests : Stays(r)
  BY <1>1, <1>2 DEF Stays
<1>4. \A r \in Requests : Submitted(r) => Submitted(r)'
  BY DEF Submitted
<1> QED BY <1>1, <1>2, <1>3, <1>4, Transfer

LEMMA SameMailbox ==
  ASSUME QueuedOnce, UNCHANGED mailbox
  PROVE  QueuedOnce' /\ \A r \in Requests : Queued(r)' <=> Queued(r)
  BY DEF QueuedOnce, Queued

LEMMA AuthOwns ==
  ASSUME TypeOK, Ownership,
         SendConnect \/ AuthBuffer \/ AuthConnected \/ AuthRefused
           \/ AuthBroken \/ AuthTimeout
  PROVE  Ownership'
<1> USE DEF TypeOK, Ownership, SoleOwner
<1>1. CASE SendConnect \/ AuthTimeout
  <2>1. QueuedOnce' /\ \A r \in Requests : Queued(r)' => Queued(r)
    BY <1>1, SameMailbox DEF SendConnect, AuthTimeout
  <2>2. UNCHANGED buffered_cmds \/ buffered_cmds' = <<>>
    BY <1>1 DEF SendConnect, AuthTimeout, EndSession
  <2>3. UNCHANGED <<pending_txns, replies, submitted>>
    BY <1>1 DEF SendConnect, AuthTimeout, txnVars
  <2> QED BY <2>1, <2>2, <2>3, Quiet
<1>2. CASE AuthConnected \/ AuthRefused \/ AuthBroken
  <2>1. PICK type : AuthEvent(type)
    BY <1>2 DEF AuthConnected, AuthRefused, AuthBroken
  <2>2. QueuedOnce' /\ \A r \in Requests : Queued(r)' => Queued(r)
    BY <2>1, TakeHead DEF AuthEvent
  <2>3. UNCHANGED buffered_cmds \/ buffered_cmds' = <<>>
    BY <1>2 DEF AuthConnected, AuthRefused, AuthBroken, EndSession
  <2>4. UNCHANGED <<pending_txns, replies, submitted>>
    BY <2>1 DEF AuthEvent, txnVars
  <2> QED BY <2>2, <2>3, <2>4, Quiet
<1>3. CASE AuthBuffer
  <2>0. AuthEvent("cmd") /\ Head(mailbox).req \in Requests
    BY <1>3, AuthEventType, EventShape DEF AuthBuffer
  <2> PICK r \in Requests : r = Head(mailbox).req
    BY <2>0
  <2>1. AuthEvent("cmd") /\ buffered_cmds' = Append(buffered_cmds, r)
    BY <1>3 DEF AuthBuffer
  <2>2. /\ QueuedOnce'
        /\ \A q \in Requests : Queued(q)' => Queued(q) /\ r # q
        /\ Queued(r)
    BY <2>1, TakeHead DEF AuthEvent
  <2>3. ~Buffered(r) /\ ~Pending(r) /\ replies[r] = <<>> /\ Submitted(r)
    BY <2>1, <2>2 DEF InOnePlace, Held
  <2>4. PendingOnce' /\ \A q \in Requests : Pending(q)' <=> Pending(q)
    BY <2>1, SamePending DEF AuthEvent, txnVars
  <2>5. replies' = replies /\ \A q \in Requests : Submitted(q) => Submitted(q)'
    BY <2>1 DEF AuthEvent, Submitted
  <2>6. BufferedOnce' /\ \A q \in Requests : Buffered(q)' => Buffered(q) \/ q = r
    <3>1. /\ Len(buffered_cmds) \in Nat
          /\ Len(buffered_cmds') = Len(buffered_cmds) + 1
          /\ \A i \in 1 .. Len(buffered_cmds) : buffered_cmds'[i] = buffered_cmds[i]
          /\ buffered_cmds'[Len(buffered_cmds) + 1] = r
      BY <2>1 DEF SessionType
    <3>2. BufferedOnce'
      BY <2>3, <3>1 DEF BufferedOnce, Buffered
    <3> QED BY <3>1, <3>2 DEF Buffered
  <2>7. Moves(r)
    BY <2>1, <2>2, <2>3, <2>4, <2>5 DEF Moves, InOnePlace
  <2>8. \A q \in Requests : q # r => Stays(q)
    BY <2>2, <2>4, <2>5, <2>6 DEF Stays
  <2> QED BY <2>2, <2>4, <2>5, <2>6, <2>7, <2>8, Transfer
<1> QED BY <1>1, <1>2, <1>3

(* The step that hands command r to handle_cmd, from wherever r was.        *)
LEMMA HandOver ==
  ASSUME TypeOK, Ownership, NEW r \in Requests, NEW rest \in Seq(Requests),
         HandleCmd(r, rest), Held(r), ~Pending(r),
         QueuedOnce', \A q \in Requests : Queued(q)' => Queued(q),
         BufferedOnce', \A q \in Requests : Buffered(q)' => Buffered(q),
         ~Queued(r)', ~Buffered(r)', UNCHANGED submitted
  PROVE  Ownership'
<1>1. replies[r] = <<>> /\ Submitted(r)
  BY DEF Ownership
<1>2. /\ PendingOnce'
      /\ \A q \in Requests : q # r => /\ Pending(q)' => Pending(q)
                                      /\ replies'[q] = replies[q]
      /\ \/ replies'[r] = <<>>
         \/ ~Pending(r)' /\ Len(replies'[r]) = 1
  BY <1>1, HandleCmdOwns DEF Ownership, SoleOwner
<1>3. \A q \in Requests : Submitted(q) => Submitted(q)'
  BY DEF Submitted
<1>4. \A q \in Requests : q # r => Stays(q)
  BY <1>2 DEF Stays
<1>5. CASE replies'[r] = <<>>
  <2>1. Moves(r)
    BY <1>1, <1>3, <1>5 DEF Moves, InOnePlace
  <2> QED BY <1>2, <1>3, <1>4, <2>1, Transfer
<1>6. CASE ~Pending(r)' /\ Len(replies'[r]) = 1
  <2>1. Answered(r)
    BY <1>1, <1>6 DEF Answered, Held
  <2> QED BY <1>2, <1>3, <1>4, <2>1, Transfer
<1> QED BY <1>2, <1>5, <1>6

LEMMA ReplayOwns ==
  ASSUME TypeOK, Ownership, Replay \/ ReplayDone \/ StartLoop
  PROVE  Ownership'
<1> USE DEF TypeOK, Ownership, SoleOwner
<1>1. CASE Replay
  <2>0. Head(buffered_cmds) \in Requests
    BY <1>1 DEF Replay, SessionType
  <2> PICK r \in Requests : r = Head(buffered_cmds)
    BY <2>0
  <2>1. Tail(buffered_cmds) \in Seq(Requests)
    BY <1>1 DEF Replay, SessionType
  <2>2. HandleCmd(r, Tail(buffered_cmds)) /\ buffered_cmds # <<>>
    BY <1>1 DEF Replay
  <2>3. buffered_cmds' = Tail(buffered_cmds) \/ buffered_cmds' = <<>>
    BY <2>2
    DEF HandleCmd, RejectName, PushTxn, TxnExhausted, DuplicateMailOp,
        PushMailOp, WriteCmd, Continue, EndSession
  <2>4. /\ BufferedOnce' /\ Buffered(r) /\ ~Buffered(r)'
        /\ \A q \in Requests : Buffered(q)' => Buffered(q)
    BY <2>1, <2>2, <2>3, TakeBuffered
  <2>5. ~Queued(r) /\ ~Pending(r) /\ Held(r)
    BY <2>1, <2>4 DEF InOnePlace, Held
  <2>6. /\ QueuedOnce' /\ UNCHANGED submitted /\ ~Queued(r)'
        /\ \A q \in Requests : Queued(q)' => Queued(q)
    BY <1>1, <2>1, <2>5, SameMailbox DEF Replay
  <2> QED BY <2>1, <2>2, <2>4, <2>5, <2>6, HandOver
<1>2. CASE ReplayDone \/ StartLoop
  <2>1. QueuedOnce' /\ \A r \in Requests : Queued(r)' => Queued(r)
    BY <1>2, SameMailbox DEF ReplayDone, StartLoop
  <2>2. UNCHANGED <<buffered_cmds, pending_txns, replies, submitted>>
    BY <1>2 DEF ReplayDone, StartLoop, txnVars
  <2> QED BY <2>1, <2>2, Quiet
<1> QED BY <1>1, <1>2

LEMMA PacketOwns ==
  ASSUME TypeOK, Ownership,
         RespPulse \/ RespNext \/ RespAckMail \/ RespHeartbeatAck
           \/ RespNewMail \/ RespGoodbye
  PROVE  Ownership'
<1> USE DEF TypeOK, Ownership, SoleOwner
<1>0. /\ QueuedOnce' /\ \A r \in Requests : Queued(r)' => Queued(r)
      /\ UNCHANGED submitted
  BY SameMailbox
  DEF RespPulse, RespNext, RespAckMail, RespHeartbeatAck, RespNewMail,
      RespGoodbye, TakePacket
<1>1. CASE RespPulse \/ RespNext \/ RespAckMail
  <2> PICK k : k = Head(batch).key
    OBVIOUS
  <2> PICK r : r = pending_txns[k]
    OBVIOUS
  <2>1. Resolve /\ UNCHANGED buffered_cmds
    BY <1>1 DEF RespPulse, RespNext, RespAckMail, NextPacket
  <2>K. k \in Keys
    <3>1. Head(batch) \in Packets
      BY <1>1 DEF RespPulse, RespNext, RespAckMail, TakePacket, SessionType
    <3>2. Head(batch).type \in Responses
      BY <1>1 DEF RespPulse, RespNext, RespAckMail, TakePacket, Responses
    <3> QED BY <3>1, <3>2 DEF Packets, Responses, PacketTypes
  <2>2. CASE r = NoReq
    BY <1>0, <2>1, <2>2, Quiet DEF Resolve
  <2>3. CASE r # NoReq /\ k \in Keys
    <3>1. PICK v : Reply(r, v) /\ pending_txns' = [pending_txns EXCEPT ![k] = NoReq]
      BY <2>1, <2>3 DEF Resolve
    <3>2. r \in Requests /\ Pending(r)
      BY <2>3 DEF TxnType, Pending
    <3>3. replies[r] = <<>> /\ ~Queued(r) /\ ~Buffered(r)
      BY <3>2 DEF Held, InOnePlace
    <3>4. /\ PendingOnce' /\ ~Pending(r)'
          /\ \A q \in Requests : Pending(q)' => Pending(q)
      BY <2>3, <3>1, <3>2, ClearPending
    <3>5. /\ Len(replies'[r]) = 1
          /\ \A q \in Requests : q # r => replies'[q] = replies[q]
      BY <3>1, <3>2, <3>3, FirstReply
    <3>6. BufferedOnce' /\ \A q \in Requests : Buffered(q)' <=> Buffered(q)
      BY <2>1 DEF BufferedOnce, Buffered
    <3>7. \A q \in Requests : Submitted(q) => Submitted(q)'
      BY <1>0 DEF Submitted
    <3>8. Answered(r)
      BY <1>0, <3>2, <3>3, <3>4, <3>5, <3>6 DEF Answered, Held
    <3>9. \A q \in Requests : q # r => Stays(q)
      BY <1>0, <3>4, <3>5, <3>6 DEF Stays
    <3> QED BY <1>0, <3>4, <3>6, <3>7, <3>8, <3>9, Transfer
  <2> QED BY <2>K, <2>2, <2>3
<1>2. CASE RespHeartbeatAck \/ RespNewMail \/ RespGoodbye
  <2>1. UNCHANGED buffered_cmds \/ buffered_cmds' = <<>>
    BY <1>2 DEF RespHeartbeatAck, RespNewMail, RespGoodbye, NextPacket, EndSession
  <2>2. UNCHANGED <<pending_txns, replies>>
    BY <1>2 DEF RespHeartbeatAck, RespNewMail, RespGoodbye
  <2> QED BY <1>0, <2>1, <2>2, Quiet
<1> QED BY <1>1, <1>2

LEMMA RefreshOwns ==
  ASSUME TypeOK, Ownership, LoopRefresh
  PROVE  Ownership'
<1> USE DEF TypeOK, Ownership, SoleOwner
<1>1. /\ QueuedOnce' /\ \A r \in Requests : Queued(r)' => Queued(r)
  BY TakeHead DEF LoopRefresh, LoopEvent
<1>2. BufferedOnce' /\ \A r \in Requests : Buffered(r)' <=> Buffered(r)
  BY DEF LoopRefresh, sessionVars, BufferedOnce, Buffered
<1>3. \A k \in Keys : pending_txns'[k] = IF k \in old THEN NoReq ELSE pending_txns[k]
  BY DEF LoopRefresh
<1>4. PendingOnce' /\ \A r \in Requests : Pending(r)' => Pending(r)
  BY <1>3, RequestAssumption DEF PendingOnce, Pending
<1>5. \A r \in Requests : Submitted(r) => Submitted(r)'
  BY DEF LoopRefresh, LoopEvent, Submitted
<1>6. ASSUME NEW r \in Requests, NEW k \in old, pending_txns[k] = r
      PROVE  Answered(r)
  <2>1. k \in Keys /\ Pending(r)
    BY <1>6 DEF TxnType, Pending
  <2>2. replies[r] = <<>> /\ ~Queued(r) /\ ~Buffered(r)
    BY <2>1 DEF Held, InOnePlace
  <2>3. ~Pending(r)'
    <3> SUFFICES ASSUME NEW l \in Keys, pending_txns'[l] = r PROVE FALSE
      BY DEF Pending
    <3>1. l \notin old /\ pending_txns[l] = r
      BY <1>3, RequestAssumption
    <3> QED BY <1>6, <2>1, <3>1, RequestAssumption DEF PendingOnce
  <2>4. replies'[r] = Append(replies[r], Failure("timeout"))
    BY <1>6 DEF LoopRefresh
  <2>5. Len(replies'[r]) = 1
    BY <2>2, <2>4
  <2> QED BY <1>1, <1>2, <2>2, <2>3, <2>5 DEF Answered, Held
<1>7. ASSUME NEW r \in Requests, \A k \in old : pending_txns[k] # r
      PROVE  Stays(r)
  <2>1. replies'[r] = replies[r]
    BY <1>7 DEF LoopRefresh
  <2> QED BY <1>1, <1>2, <1>4, <2>1 DEF Stays
<1> QED BY <1>1, <1>2, <1>4, <1>5, <1>6, <1>7, Transfer

LEMMA LoopOwns ==
  ASSUME TypeOK, Ownership,
         LoopCmd \/ LoopRecv \/ LoopRefresh \/ LoopHeartbeat \/ LoopBroken
           \/ LoopHalted \/ DropLogic
  PROVE  Ownership'
<1> USE DEF TypeOK, Ownership, SoleOwner
<1>1. CASE LoopCmd
  <2>0. LoopEvent("cmd") /\ Head(mailbox).req \in Requests
    BY <1>1, LoopEventType, EventShape DEF LoopCmd
  <2> PICK r \in Requests : r = Head(mailbox).req
    BY <2>0
  <2>1. /\ QueuedOnce' /\ Queued(r) /\ ~Queued(r)'
        /\ \A q \in Requests : Queued(q)' => Queued(q)
    BY <2>0, TakeHead DEF LoopEvent
  <2>2. ~Buffered(r) /\ ~Pending(r) /\ Held(r)
    BY <2>1 DEF InOnePlace, Held
  <2>3. HandleCmd(r, buffered_cmds)
    BY <1>1 DEF LoopCmd
  <2>4. buffered_cmds' = buffered_cmds \/ buffered_cmds' = <<>>
    BY <2>3
    DEF HandleCmd, RejectName, PushTxn, TxnExhausted, DuplicateMailOp,
        PushMailOp, WriteCmd, Continue, EndSession
  <2>5. /\ BufferedOnce' /\ ~Buffered(r)'
        /\ \A q \in Requests : Buffered(q)' => Buffered(q)
    BY <2>2, <2>4, DropBuffered DEF BufferedOnce, Buffered
  <2>6. buffered_cmds \in Seq(Requests) /\ UNCHANGED submitted
    BY <2>0 DEF SessionType, LoopEvent
  <2> QED BY <2>1, <2>2, <2>3, <2>5, <2>6, HandOver
<1>2. CASE LoopRecv \/ LoopHeartbeat \/ LoopBroken
  <2>1. PICK type : LoopEvent(type)
    BY <1>2 DEF LoopRecv, LoopHeartbeat, LoopBroken
  <2>2. QueuedOnce' /\ \A r \in Requests : Queued(r)' => Queued(r)
    BY <2>1, TakeHead DEF LoopEvent
  <2>3. UNCHANGED buffered_cmds \/ buffered_cmds' = <<>>
    BY <1>2 DEF LoopRecv, LoopHeartbeat, LoopBroken, EndSession, sessionVars
  <2>4. UNCHANGED <<pending_txns, replies, submitted>>
    BY <1>2, <2>1 DEF LoopRecv, LoopHeartbeat, LoopBroken, LoopEvent, txnVars
  <2> QED BY <2>2, <2>3, <2>4, Quiet
<1>3. CASE LoopHalted
  <2>1. QueuedOnce' /\ \A r \in Requests : Queued(r)' => Queued(r)
    BY <1>3, SameMailbox DEF LoopHalted
  <2> QED BY <1>3, <2>1, Quiet DEF LoopHalted, EndSession, txnVars
<1>4. CASE DropLogic
  <2>1. QueuedOnce' /\ \A r \in Requests : ~Queued(r)'
    BY <1>4 DEF DropLogic, QueuedOnce, Queued
  <2>2. BufferedOnce' /\ \A r \in Requests : Buffered(r)' <=> Buffered(r)
    BY <1>4 DEF DropLogic, BufferedOnce, Buffered
  <2>3. PendingOnce' /\ \A r \in Requests : ~Pending(r)'
    BY <1>4, RequestAssumption DEF DropLogic, NoPending, PendingOnce, Pending
  <2>4. \A r \in Requests : Stays(r)
    BY <1>4, <2>1, <2>2, <2>3 DEF DropLogic, Stays
  <2>5. \A r \in Requests : Submitted(r) => Submitted(r)'
    BY <1>4 DEF DropLogic, Submitted
  <2> QED BY <2>1, <2>2, <2>3, <2>4, <2>5, Transfer
<1> QED BY <1>1, <1>2, <1>3, <1>4, RefreshOwns

LEMMA CallersOwn ==
  ASSUME TypeOK, Ownership, NEW r \in Requests, Accept(r) \/ Refuse(r)
  PROVE  Ownership'
<1> USE DEF TypeOK, Ownership, SoleOwner
<1>0. ~Held(r) /\ replies[r] = <<>> /\ r # NoReq
  BY RequestAssumption DEF Accept, Refuse, Fresh
<1>1. BufferedOnce' /\ \A q \in Requests : Buffered(q)' <=> Buffered(q)
  BY DEF Accept, Refuse, sessionVars, BufferedOnce, Buffered
<1>2. PendingOnce' /\ \A q \in Requests : Pending(q)' <=> Pending(q)
  BY SamePending DEF Accept, Refuse, txnVars
<1>3. CASE Accept(r)
  <2>1. /\ Len(mailbox) \in Nat /\ Len(mailbox') = Len(mailbox) + 1
        /\ \A i \in 1 .. Len(mailbox) : mailbox'[i] = mailbox[i]
        /\ mailbox'[Len(mailbox) + 1].req = r
    BY <1>3 DEF Accept, MailboxType, CmdEvent
  <2>2. QueuedOnce' /\ \A q \in Requests : q # r /\ Queued(q)' => Queued(q)
    <3>1. \A i \in 1 .. Len(mailbox) : mailbox[i].req # r
      BY <1>0 DEF Held, Queued
    <3> QED BY <2>1, <3>1 DEF QueuedOnce, Queued
  <2>3. Submitted(r)' /\ \A q \in Requests : Submitted(q) => Submitted(q)'
    <3>1. /\ Len(submitted) \in Nat /\ Len(submitted') = Len(submitted) + 1
          /\ \A i \in 1 .. Len(submitted) : submitted'[i] = submitted[i]
          /\ submitted'[Len(submitted) + 1] = r
      BY <1>3 DEF Accept, HistoryType
    <3> QED BY <3>1 DEF Submitted
  <2>4. replies' = replies
    BY <1>3 DEF Accept
  <2>5. Moves(r)
    BY <1>0, <1>1, <1>2, <2>3, <2>4 DEF Moves, InOnePlace, Held
  <2>6. \A q \in Requests : q # r => Stays(q)
    BY <1>1, <1>2, <2>2, <2>4 DEF Stays
  <2> QED BY <1>1, <1>2, <2>2, <2>3, <2>5, <2>6, Transfer
<1>4. CASE Refuse(r)
  <2>1. QueuedOnce' /\ \A q \in Requests : Queued(q)' <=> Queued(q)
    BY <1>4, SameMailbox DEF Refuse
  <2>2. /\ Len(replies'[r]) = 1
        /\ \A q \in Requests : q # r => replies'[q] = replies[q]
    BY <1>0, <1>4, FirstReply DEF Refuse
  <2>3. \A q \in Requests : Submitted(q) => Submitted(q)'
    BY <1>4 DEF Refuse, Submitted
  <2>4. Answered(r)
    BY <1>0, <1>1, <1>2, <2>1, <2>2 DEF Answered, Held
  <2>5. \A q \in Requests : q # r => Stays(q)
    BY <1>1, <1>2, <2>1, <2>2 DEF Stays
  <2> QED BY <1>1, <1>2, <2>1, <2>3, <2>4, <2>5, Transfer
<1> QED BY <1>3, <1>4

LEMMA EnvironmentOwns ==
  ASSUME TypeOK, Ownership, Timer \/ Server \/ \E k \in Keys : Age(k)
  PROVE  Ownership'
<1> USE DEF TypeOK, Ownership, SoleOwner
<1>1. UNCHANGED <<buffered_cmds, pending_txns, replies, submitted>>
  BY DEF Timer, TimerRefresh, TimerHeartbeat, TimerGiveUp, timerUnchanged, Age,
         Server, ServerConnect, ServerAnswer, ServerHeartbeatAck, ServerPush,
         Garbage, SocketEnds, Deliver, sessionVars, txnVars
<1>2. ASSUME NEW type \in {"garbage", "close", "refresh", "heartbeat"},
             mailbox' = Append(mailbox, Event(type))
      PROVE  QueuedOnce' /\ \A r \in Requests : Queued(r)' => Queued(r)
  <2>1. Event(type) \in Events /\ Event(type).req = NoReq
    BY Constructors DEF Event
  <2> QED BY <1>2, <2>1, AddEvent
<1>3. CASE Timer
  <2>1. PICK type \in {"close", "refresh", "heartbeat"} :
          mailbox' = Append(mailbox, Event(type))
    BY <1>3 DEF Timer, TimerRefresh, TimerHeartbeat, TimerGiveUp
  <2> QED BY <1>1, <1>2, <2>1, Quiet
<1>4. CASE \E k \in Keys : Age(k)
  <2>1. UNCHANGED mailbox
    BY <1>4 DEF Age
  <2> QED BY <1>1, <2>1, SameMailbox, Quiet
<1>5. CASE Garbage \/ SocketEnds
  <2>1. PICK type \in {"garbage", "close"} :
          mailbox' = Append(mailbox, Event(type))
    BY <1>5 DEF Garbage, SocketEnds
  <2> QED BY <1>1, <1>2, <2>1, Quiet
<1>6. CASE ServerConnect \/ ServerAnswer \/ ServerHeartbeatAck \/ ServerPush
  <2>1. PICK p \in Packets : Deliver(p)
    BY <1>6, ServerDelivers
  <2>2. QueuedOnce' /\ \A r \in Requests : Queued(r)' => Queued(r)
    BY <2>1, AddPacket
  <2> QED BY <1>1, <2>2, Quiet
<1> QED BY <1>3, <1>4, <1>5, <1>6 DEF Server

LEMMA InitOwns == LogicInit => Ownership
<1> SUFFICES ASSUME LogicInit PROVE Ownership
  OBVIOUS
<1>1. \A r \in Requests : ~Held(r) /\ Len(replies[r]) = 0
  BY RequestAssumption DEF LogicInit, Held, Queued, Buffered, Pending, NoPending
<1>2. QueuedOnce /\ BufferedOnce /\ PendingOnce
  BY DEF LogicInit, QueuedOnce, BufferedOnce, PendingOnce, NoPending
<1> QED BY <1>1, <1>2
        DEF Ownership, SoleOwner, AtMostOneReply, InOnePlace, Held

LEMMA NextOwns == TypeOK /\ Ownership /\ [LogicNext]_logicVars => Ownership'
<1> SUFFICES ASSUME TypeOK, Ownership, [LogicNext]_logicVars PROVE Ownership'
  OBVIOUS
<1>1. CASE LogicThread
  BY <1>1, AuthOwns, ReplayOwns, PacketOwns, LoopOwns DEF LogicThread
<1>2. CASE Timer \/ Server \/ \E k \in Keys : Age(k)
  BY <1>2, EnvironmentOwns
<1>3. CASE \E r \in Requests : Accept(r) \/ (pc = "dropped" /\ Refuse(r))
  BY <1>3, CallersOwn
<1>4. CASE UNCHANGED logicVars
  <2>1. /\ UNCHANGED mailbox
        /\ UNCHANGED <<buffered_cmds, pending_txns, replies, submitted>>
    BY <1>4 DEF logicVars, sessionVars, txnVars
  <2>2. QueuedOnce' /\ \A r \in Requests : Queued(r)' <=> Queued(r)
    BY <2>1, SameMailbox DEF Ownership, SoleOwner
  <2> QED BY <2>1, <2>2, Quiet
<1> QED BY <1>1, <1>2, <1>3, <1>4 DEF LogicNext

(* Whatever the number of requests, mails and transaction ids, and whatever  *)
(* the server, the timer and the socket do: the channel of every command is  *)
(* in one place, belongs to an accepted command, and is not yet answered.    *)
THEOREM OwnershipInvariant == LogicSpec => []Ownership
<1>1. LogicInit => TypeOK /\ Ownership
  BY InitType, InitOwns
<1>2. TypeOK /\ Ownership /\ [LogicNext]_logicVars => (TypeOK /\ Ownership)'
  BY NextType, NextOwns
<1> QED BY <1>1, <1>2, PTL DEF LogicSpec

(* No HTTP thread is ever sent two replies to its one command: not by a late *)
(* response after a timeout, not by a transaction id that wrapped around,    *)
(* not by two operations on one mail.                                        *)
THEOREM AtMostOnce == LogicSpec => []AtMostOneReply
<1>1. Ownership => AtMostOneReply
  BY DEF Ownership
<1> QED BY <1>1, OwnershipInvariant, PTL

-----------------------------------------------------------------------------
(***************************************************************************)
(* Order.  None of WrittenInOrder, WrittenAfterConnected and                *)
(* PendingWasWritten speaks of what is about to be written, so none is       *)
(* inductive.  Line says it for the order: what was written, what was put    *)
(* aside and what waits in the mailbox stand in one line, in the order of    *)
(* submission.  Greeted says it for the connection: as long as the server    *)
(* has not answered, no welcome is under way.                               *)
(***************************************************************************)

(***************************************************************************)
(* The histories submitted and sent                                        *)
(***************************************************************************)
\* x was accepted before y.
Before(x, y) ==
  \E a, b \in 1 .. Len(submitted) :
    a < b /\ submitted[a] = x /\ submitted[b] = y
Written(r) == \E i \in 1 .. Len(sent) : sent[i] = r

(* What was accepted stays accepted, and its order does not change.         *)
LEMMA SubmittedGrows ==
  ASSUME HistoryType,
         UNCHANGED submitted \/ \E r \in Requests : submitted' = Append(submitted, r)
  PROVE  /\ \A x, y \in Requests : Before(x, y) => Before(x, y)'
         /\ \A r \in Requests : Submitted(r) => Submitted(r)'
<1>1. CASE UNCHANGED submitted
  BY <1>1 DEF Before, Submitted
<1>2. ASSUME NEW r \in Requests, submitted' = Append(submitted, r)
      PROVE  /\ \A x, y \in Requests : Before(x, y) => Before(x, y)'
             /\ \A q \in Requests : Submitted(q) => Submitted(q)'
  <2>1. /\ Len(submitted) \in Nat /\ Len(submitted') = Len(submitted) + 1
        /\ \A i \in 1 .. Len(submitted) : submitted'[i] = submitted[i]
    BY <1>2 DEF HistoryType
  <2> QED BY <2>1 DEF Before, Submitted
<1> QED BY <1>1, <1>2

LEMMA NewestIsLast ==
  ASSUME HistoryType, NEW r \in Requests, submitted' = Append(submitted, r)
  PROVE  /\ Submitted(r)'
         /\ \A x \in Requests : Submitted(x) => Before(x, r)'
<1>1. /\ Len(submitted) \in Nat /\ Len(submitted') = Len(submitted) + 1
      /\ \A i \in 1 .. Len(submitted) : submitted'[i] = submitted[i]
      /\ submitted'[Len(submitted) + 1] = r
  BY DEF HistoryType
<1> QED BY <1>1 DEF Before, Submitted

(* WrittenInOrder, said with Before.                                       *)
LEMMA SentInOrder ==
  WrittenInOrder <=> \A i, j \in 1 .. Len(sent) : i < j => Before(sent[i], sent[j])
<1> QED BY DEF WrittenInOrder, Before

LEMMA SentInOrderNext ==
  ASSUME UNCHANGED submitted,
         \A i, j \in 1 .. Len(sent') : i < j => Before(sent'[i], sent'[j])
  PROVE  WrittenInOrder'
<1> SUFFICES ASSUME NEW i \in 1 .. Len(sent'), NEW j \in 1 .. Len(sent'), i < j
             PROVE  \E a, b \in 1 .. Len(submitted') :
                      /\ a < b
                      /\ submitted'[a] = sent'[i] /\ submitted'[b] = sent'[j]
  BY DEF WrittenInOrder
<1>1. Before(sent'[i], sent'[j])
  OBVIOUS
<1> QED BY <1>1 DEF Before

(* One more command is written, after all those it stands behind.           *)
LEMMA WriteNext ==
  ASSUME HistoryType, WrittenInOrder, NEW r \in Requests,
         sent' = sent \/ sent' = Append(sent, r),
         UNCHANGED submitted,
         \A x \in Requests : Written(x) => Before(x, r)
  PROVE  /\ WrittenInOrder'
         /\ \A x \in Requests : Written(x)' => Written(x) \/ x = r
         /\ \A x \in Requests : Written(x) => Written(x)'
         /\ sent' = Append(sent, r) => Written(r)'
<1>1. CASE sent' = sent
  <2>1. sent' # Append(sent, r)
    BY <1>1 DEF HistoryType
  <2>2. WrittenInOrder'
    BY <1>1, SentInOrder, SentInOrderNext
  <2> QED BY <1>1, <2>1, <2>2 DEF Written
<1>2. CASE sent' = Append(sent, r)
  <2>1. /\ Len(sent) \in Nat /\ Len(sent') = Len(sent) + 1
        /\ \A i \in 1 .. Len(sent) : sent'[i] = sent[i] /\ sent[i] \in Requests
        /\ sent'[Len(sent) + 1] = r
    BY <1>2 DEF HistoryType
  <2>2. ASSUME NEW i \in 1 .. Len(sent'), NEW j \in 1 .. Len(sent'), i < j
        PROVE  Before(sent'[i], sent'[j])
    <3>1. i \in 1 .. Len(sent) /\ sent'[i] = sent[i] /\ sent[i] \in Requests
      BY <2>1, <2>2
    <3>2. CASE j = Len(sent) + 1
      <4>1. Written(sent[i]) /\ sent'[j] = r
        BY <2>1, <3>1, <3>2 DEF Written
      <4> QED BY <3>1, <4>1
    <3>3. CASE j # Len(sent) + 1
      <4>1. j \in 1 .. Len(sent) /\ sent'[j] = sent[j]
        BY <2>1, <2>2, <3>3
      <4> QED BY <2>2, <3>1, <4>1, SentInOrder
    <3> QED BY <3>2, <3>3
  <2>3. WrittenInOrder'
    BY <2>2, SentInOrderNext
  <2> QED BY <2>1, <2>3 DEF Written
<1> QED BY <1>1, <1>2

(***************************************************************************)
(* The line                                                                *)
(***************************************************************************)
\* Only authentication and the replay after it have commands put aside.
BufferEmptied ==
  pc \in {"authed", "loop", "ended", "dropped"} => buffered_cmds = <<>>
BufferOrdered ==
  \A i, j \in 1 .. Len(buffered_cmds) :
    i < j => Before(buffered_cmds[i], buffered_cmds[j])
MailboxOrdered ==
  \A i, j \in 1 .. Len(mailbox) :
    i < j /\ mailbox[i].req # NoReq /\ mailbox[j].req # NoReq
      => Before(mailbox[i].req, mailbox[j].req)
\* The written ones, then those put aside, then those in the mailbox.
InLine ==
  \A x \in Requests :
    /\ Written(x) => Submitted(x)
    /\ \A y \in Requests :
         /\ Written(x) /\ Buffered(y) => Before(x, y)
         /\ Written(x) /\ Queued(y)   => Before(x, y)
         /\ Buffered(x) /\ Queued(y)  => Before(x, y)
Line == /\ BufferEmptied /\ BufferOrdered /\ MailboxOrdered /\ InLine
        /\ WrittenInOrder

LEMMA KeepInOrder ==
  ASSUME MailboxOrdered, UNCHANGED <<mailbox, submitted>>
  PROVE  MailboxOrdered' /\ \A r \in Requests : Queued(r)' <=> Queued(r)
<1>1. \A x, y : Before(x, y)' <=> Before(x, y)
  BY DEF Before
<1>2. MailboxOrdered'
  BY <1>1 DEF MailboxOrdered
<1> QED BY <1>2 DEF Queued

(* The mailbox loses its head, which stood before all that stay.            *)
LEMMA TakeInOrder ==
  ASSUME MailboxType, MailboxOrdered, mailbox # <<>>, mailbox' = Tail(mailbox),
         UNCHANGED submitted
  PROVE  /\ MailboxOrdered'
         /\ \A r \in Requests : Queued(r)' => Queued(r)
         /\ \A r \in Requests : Head(mailbox).req # NoReq /\ Queued(r)'
                                  => Before(Head(mailbox).req, r)
<1>1. /\ Len(mailbox) \in Nat /\ Len(mailbox) >= 1
      /\ Len(mailbox') = Len(mailbox) - 1
      /\ \A i \in 1 .. Len(mailbox') : mailbox'[i] = mailbox[i + 1]
      /\ Head(mailbox) = mailbox[1]
  BY DEF MailboxType
<1>2. MailboxOrdered'
  <2>1. \A x, y : Before(x, y)' <=> Before(x, y)
    BY DEF Before
  <2> QED BY <1>1, <2>1 DEF MailboxOrdered
<1>3. ASSUME NEW r \in Requests, Queued(r)'
      PROVE  Queued(r) /\ (Head(mailbox).req # NoReq => Before(Head(mailbox).req, r))
  <2>1. PICK i \in 1 .. Len(mailbox') : mailbox'[i].req = r
    BY <1>3 DEF Queued
  <2>2. i + 1 \in 1 .. Len(mailbox) /\ 1 < i + 1 /\ mailbox[i + 1].req = r /\ r # NoReq
    BY <1>1, <2>1, RequestAssumption
  <2> QED BY <1>1, <2>2 DEF Queued, MailboxOrdered
<1> QED BY <1>2, <1>3

(* What joins the mailbox joins it at the end.                              *)
LEMMA AddInOrder ==
  ASSUME MailboxType, MailboxOrdered, NEW e, e.req = NoReq,
         mailbox' = Append(mailbox, e), UNCHANGED submitted
  PROVE  MailboxOrdered' /\ \A r \in Requests : Queued(r)' => Queued(r)
<1>1. /\ Len(mailbox) \in Nat /\ Len(mailbox') = Len(mailbox) + 1
      /\ \A i \in 1 .. Len(mailbox) : mailbox'[i] = mailbox[i]
      /\ mailbox'[Len(mailbox) + 1] = e
  BY DEF MailboxType
<1>2. MailboxOrdered'
  <2>1. \A x, y : Before(x, y)' <=> Before(x, y)
    BY DEF Before
  <2> QED BY <1>1, <2>1 DEF MailboxOrdered
<1> QED BY <1>1, <1>2, RequestAssumption DEF Queued

LEMMA DeliverInOrder ==
  ASSUME MailboxType, MailboxOrdered, NEW p \in Packets, Deliver(p)
  PROVE  MailboxOrdered' /\ \A r \in Requests : Queued(r)' => Queued(r)
<1>0. UNCHANGED submitted
  BY DEF Deliver
<1>1. CASE mailbox' = Append(mailbox, RecvEvent(p))
  <2>1. RecvEvent(p).req = NoReq
    BY DEF RecvEvent
  <2> QED BY <1>0, <1>1, <2>1, AddInOrder
<1>2. CASE /\ mailbox # <<>>
           /\ mailbox' = [mailbox EXCEPT ![Len(mailbox)].packets = Append(@, p)]
  <2>1. mailbox \in Seq(Events) /\ Len(mailbox) \in 1 .. Len(mailbox)
    BY <1>2 DEF MailboxType
  <2>2. DOMAIN mailbox = 1 .. Len(mailbox) /\ Len(mailbox') = Len(mailbox)
    BY <1>2, <2>1
  <2>3. [mailbox[Len(mailbox)] EXCEPT !.packets = Append(@, p)].req
          = mailbox[Len(mailbox)].req
    BY <2>1 DEF Events
  <2>4. \A i \in 1 .. Len(mailbox) : mailbox'[i].req = mailbox[i].req
    BY <1>2, <2>1, <2>2, <2>3
  <2>5. MailboxOrdered'
    BY <1>0, <2>2, <2>4 DEF MailboxOrdered, Before
  <2> QED BY <2>2, <2>4, <2>5 DEF Queued
<1> QED BY <1>1, <1>2 DEF Deliver

(* A step that moves no command, except that it may drop buffered_cmds.     *)
LEMMA LineStill ==
  ASSUME Line, UNCHANGED <<sent, submitted>>,
         MailboxOrdered', \A r \in Requests : Queued(r)' => Queued(r),
         UNCHANGED buffered_cmds \/ buffered_cmds' = <<>>,
         BufferEmptied'
  PROVE  Line'
<1>1. \A x, y : Before(x, y)' <=> Before(x, y)
  BY DEF Before
<1>2. BufferOrdered' /\ \A r \in Requests : Buffered(r)' => Buffered(r)
  <2>1. CASE UNCHANGED buffered_cmds
    BY <1>1, <2>1 DEF Line, BufferOrdered, Buffered
  <2>2. CASE buffered_cmds' = <<>>
    BY <2>2 DEF BufferOrdered, Buffered
  <2> QED BY <2>1, <2>2
<1>3. \A r \in Requests : (Written(r)' <=> Written(r)) /\ (Submitted(r)' <=> Submitted(r))
  BY DEF Written, Submitted
<1>4. InLine'
  BY <1>1, <1>2, <1>3 DEF Line, InLine
<1>5. WrittenInOrder'
  BY SentInOrder, SentInOrderNext DEF Line
<1> QED BY <1>2, <1>4, <1>5 DEF Line

(* A step that writes r, or gives it up unwritten.                          *)
LEMMA LineWrites ==
  ASSUME HistoryType, Line, NEW r \in Requests,
         sent' = sent \/ sent' = Append(sent, r), UNCHANGED submitted,
         MailboxOrdered', \A q \in Requests : Queued(q)' => Queued(q),
         BufferOrdered', \A q \in Requests : Buffered(q)' => Buffered(q),
         BufferEmptied', Submitted(r),
         \A x \in Requests : Written(x) => Before(x, r),
         \A y \in Requests : Buffered(y)' \/ Queued(y)' => Before(r, y)
  PROVE  Line'
<1>1. /\ WrittenInOrder'
      /\ \A x \in Requests : Written(x)' => Written(x) \/ x = r
  BY WriteNext DEF Line
<1>2. \A x, y : Before(x, y)' <=> Before(x, y)
  BY DEF Before
<1>3. \A x \in Requests : Submitted(x)' <=> Submitted(x)
  BY DEF Submitted
<1>4. InLine'
  BY <1>1, <1>2, <1>3 DEF Line, InLine
<1> QED BY <1>1, <1>4 DEF Line

(* What handle_cmd writes, and where it leaves the session.                 *)
LEMMA HandleCmdWrites ==
  ASSUME NEW r \in Requests, NEW rest, HandleCmd(r, rest)
  PROVE  /\ sent' = sent \/ sent' = Append(sent, r)
         /\ \/ pc' = pc /\ buffered_cmds' = rest
            \/ pc' = "ended" /\ buffered_cmds' = <<>>
         /\ UNCHANGED connect
  BY DEF HandleCmd, RejectName, PushTxn, TxnExhausted, DuplicateMailOp,
         PushMailOp, WriteCmd, Continue, EndSession, serverVars

LEMMA HandlesCommand ==
  ASSUME TypeOK, Replay \/ LoopCmd
  PROVE  \E r \in Requests : \E rest : HandleCmd(r, rest)
<1>1. CASE Replay
  <2>1. Head(buffered_cmds) \in Requests
    BY <1>1 DEF Replay, TypeOK, SessionType
  <2> QED BY <1>1, <2>1 DEF Replay
<1>2. CASE LoopCmd
  <2>1. Head(mailbox).req \in Requests
    BY <1>2, LoopEventType, EventShape DEF LoopCmd, TypeOK
  <2> QED BY <1>2, <2>1 DEF LoopCmd
<1> QED BY <1>1, <1>2

LEMMA AuthLine ==
  ASSUME TypeOK, Ownership, Line,
         SendConnect \/ AuthBuffer \/ AuthConnected \/ AuthRefused
           \/ AuthBroken \/ AuthTimeout
  PROVE  Line'
<1> USE DEF TypeOK
<1>1. CASE SendConnect \/ AuthTimeout
  <2>1. UNCHANGED <<sent, submitted, mailbox>>
    BY <1>1 DEF SendConnect, AuthTimeout
  <2>2. UNCHANGED buffered_cmds \/ buffered_cmds' = <<>>
    BY <1>1 DEF SendConnect, AuthTimeout, EndSession
  <2>3. BufferEmptied'
    BY <1>1 DEF SendConnect, AuthTimeout, EndSession, BufferEmptied
  <2>4. MailboxOrdered' /\ \A r \in Requests : Queued(r)' => Queued(r)
    BY <2>1, KeepInOrder DEF Line
  <2> QED BY <2>1, <2>2, <2>3, <2>4, LineStill
<1>2. CASE AuthConnected \/ AuthRefused \/ AuthBroken
  <2>1. PICK type : AuthEvent(type)
    BY <1>2 DEF AuthConnected, AuthRefused, AuthBroken
  <2>2. UNCHANGED buffered_cmds \/ buffered_cmds' = <<>>
    BY <1>2 DEF AuthConnected, AuthRefused, AuthBroken, EndSession
  <2>3. BufferEmptied'
    BY <1>2 DEF AuthConnected, AuthRefused, AuthBroken, EndSession, BufferEmptied
  <2>4. MailboxOrdered' /\ \A r \in Requests : Queued(r)' => Queued(r)
    BY <2>1, TakeInOrder DEF AuthEvent, Line
  <2> QED BY <2>1, <2>2, <2>3, <2>4, LineStill DEF AuthEvent
<1>3. CASE AuthBuffer
  <2>0. AuthEvent("cmd") /\ Head(mailbox).req \in Requests
    BY <1>3, AuthEventType, EventShape DEF AuthBuffer
  <2> PICK r \in Requests : r = Head(mailbox).req
    BY <2>0
  <2>1. buffered_cmds' = Append(buffered_cmds, r) /\ UNCHANGED <<pc, sent, submitted>>
    BY <1>3, <2>0 DEF AuthBuffer, AuthEvent
  <2>2. /\ MailboxOrdered'
        /\ \A q \in Requests : Queued(q)' => Queued(q) /\ Before(r, q)
    BY <2>0, TakeInOrder, RequestAssumption DEF AuthEvent, Line
  <2>3. Queued(r)
    BY <2>0, TakeHead DEF AuthEvent, Ownership, SoleOwner
  <2>4. /\ Len(buffered_cmds) \in Nat
        /\ Len(buffered_cmds') = Len(buffered_cmds) + 1
        /\ \A i \in 1 .. Len(buffered_cmds) : /\ buffered_cmds'[i] = buffered_cmds[i]
                                              /\ buffered_cmds[i] \in Requests
        /\ buffered_cmds'[Len(buffered_cmds) + 1] = r
    BY <2>1 DEF SessionType
  <2>5. \A q \in Requests : Buffered(q)' => Buffered(q) \/ q = r
    BY <2>4 DEF Buffered
  <2>6. \A x, y : Before(x, y)' <=> Before(x, y)
    BY <2>1 DEF Before
  <2>7. \A q \in Requests : (Written(q)' <=> Written(q)) /\ (Submitted(q)' <=> Submitted(q))
    BY <2>1 DEF Written, Submitted
  <2>8. \A x \in Requests : Written(x) \/ Buffered(x) => Before(x, r)
    BY <2>3 DEF Line, InLine
  <2>9. InLine'
    BY <2>2, <2>5, <2>6, <2>7, <2>8 DEF Line, InLine
  <2>10. BufferOrdered'
    <3> SUFFICES ASSUME NEW i \in 1 .. Len(buffered_cmds'),
                        NEW j \in 1 .. Len(buffered_cmds'), i < j
                 PROVE  Before(buffered_cmds'[i], buffered_cmds'[j])
      BY <2>6 DEF BufferOrdered
    <3>1. i \in 1 .. Len(buffered_cmds)
      BY <2>4
    <3>2. CASE j = Len(buffered_cmds) + 1
      <4>1. Buffered(buffered_cmds[i]) /\ buffered_cmds[i] \in Requests
        BY <2>4, <3>1 DEF Buffered
      <4> QED BY <2>4, <2>8, <3>1, <3>2, <4>1
    <3>3. CASE j # Len(buffered_cmds) + 1
      <4>1. j \in 1 .. Len(buffered_cmds)
        BY <2>4, <3>3
      <4> QED BY <2>4, <3>1, <4>1 DEF Line, BufferOrdered
    <3> QED BY <3>2, <3>3
  <2>11. WrittenInOrder'
    BY <2>1, SentInOrder, SentInOrderNext DEF Line
  <2>12. BufferEmptied'
    BY <2>0, <2>1 DEF AuthEvent, BufferEmptied
  <2> QED BY <2>2, <2>9, <2>10, <2>11, <2>12 DEF Line
<1> QED BY <1>1, <1>2, <1>3

(* buffered_cmds loses its head, which stood before all that stay.          *)
LEMMA ReplayInOrder ==
  ASSUME SessionType, BufferOrdered, buffered_cmds # <<>>, UNCHANGED submitted,
         buffered_cmds' = Tail(buffered_cmds) \/ buffered_cmds' = <<>>
  PROVE  /\ BufferOrdered'
         /\ Buffered(Head(buffered_cmds))
         /\ \A r \in Requests : Buffered(r)' => Buffered(r)
         /\ \A r \in Requests : Buffered(r)' => Before(Head(buffered_cmds), r)
<1>1. CASE buffered_cmds' = Tail(buffered_cmds)
  <2>1. /\ Len(buffered_cmds) \in Nat /\ Len(buffered_cmds) >= 1
        /\ Len(buffered_cmds') = Len(buffered_cmds) - 1
        /\ \A i \in 1 .. Len(buffered_cmds') : buffered_cmds'[i] = buffered_cmds[i + 1]
        /\ Head(buffered_cmds) = buffered_cmds[1]
    BY <1>1 DEF SessionType
  <2>2. BufferOrdered'
    <3>1. \A x, y : Before(x, y)' <=> Before(x, y)
      BY DEF Before
    <3> QED BY <2>1, <3>1 DEF BufferOrdered
  <2>3. ASSUME NEW r \in Requests, Buffered(r)'
        PROVE  Buffered(r) /\ Before(Head(buffered_cmds), r)
    <3>1. PICK i \in 1 .. Len(buffered_cmds') : buffered_cmds'[i] = r
      BY <2>3 DEF Buffered
    <3>2. i + 1 \in 1 .. Len(buffered_cmds) /\ 1 < i + 1 /\ buffered_cmds[i + 1] = r
      BY <2>1, <3>1
    <3> QED BY <2>1, <3>2 DEF Buffered, BufferOrdered
  <2>4. Buffered(Head(buffered_cmds))
    BY <2>1 DEF Buffered
  <2> QED BY <2>2, <2>3, <2>4
<1>2. CASE buffered_cmds' = <<>>
  <2>1. Buffered(Head(buffered_cmds))
    <3>1. Len(buffered_cmds) \in Nat /\ Len(buffered_cmds) >= 1
      BY DEF SessionType
    <3> QED BY <3>1 DEF Buffered, SessionType
  <2> QED BY <1>2, <2>1 DEF BufferOrdered, Buffered
<1> QED BY <1>1, <1>2

LEMMA ReplayLine ==
  ASSUME TypeOK, Ownership, Line, Replay \/ ReplayDone \/ StartLoop
  PROVE  Line'
<1> USE DEF TypeOK
<1>0. /\ UNCHANGED <<submitted, mailbox>>
      /\ MailboxOrdered' /\ \A r \in Requests : Queued(r)' <=> Queued(r)
  BY KeepInOrder DEF Replay, ReplayDone, StartLoop, Line
<1>1. CASE Replay
  <2>0. Head(buffered_cmds) \in Requests
    BY <1>1 DEF Replay, SessionType
  <2> PICK r \in Requests : r = Head(buffered_cmds)
    BY <2>0
  <2>1. HandleCmd(r, Tail(buffered_cmds)) /\ buffered_cmds # <<>> /\ pc = "replay"
    BY <1>1 DEF Replay
  <2>2. /\ sent' = sent \/ sent' = Append(sent, r)
        /\ \/ pc' = pc /\ buffered_cmds' = Tail(buffered_cmds)
           \/ pc' = "ended" /\ buffered_cmds' = <<>>
    BY <2>1, HandleCmdWrites
  <2>3. /\ BufferOrdered' /\ Buffered(r)
        /\ \A q \in Requests : Buffered(q)' => Buffered(q)
        /\ \A q \in Requests : Buffered(q)' => Before(r, q)
    BY <1>0, <2>1, <2>2, ReplayInOrder DEF Line
  <2>4. Submitted(r)
    BY <2>3 DEF Ownership, Held
  <2>5. \A x \in Requests : (Written(x) => Before(x, r)) /\ (Queued(x)' => Before(r, x))
    BY <1>0, <2>3 DEF Line, InLine
  <2>6. BufferEmptied'
    BY <2>1, <2>2 DEF BufferEmptied
  <2>7. \A q \in Requests : Queued(q)' => Queued(q)
    BY <1>0
  <2> QED BY <1>0, <2>2, <2>3, <2>4, <2>5, <2>6, <2>7, LineWrites
<1>2. CASE ReplayDone \/ StartLoop
  <2>1. UNCHANGED <<sent, buffered_cmds>>
    BY <1>2 DEF ReplayDone, StartLoop
  <2>2. BufferEmptied'
    BY <1>2 DEF ReplayDone, StartLoop, BufferEmptied, Line
  <2> QED BY <1>0, <2>1, <2>2, LineStill
<1> QED BY <1>1, <1>2

LEMMA PacketLine ==
  ASSUME Line,
         RespPulse \/ RespNext \/ RespAckMail \/ RespHeartbeatAck
           \/ RespNewMail \/ RespGoodbye
  PROVE  Line'
<1>1. UNCHANGED <<sent, submitted, mailbox>>
  BY DEF RespPulse, RespNext, RespAckMail, RespHeartbeatAck, RespNewMail,
         RespGoodbye, TakePacket
<1>2. MailboxOrdered' /\ \A r \in Requests : Queued(r)' => Queued(r)
  BY <1>1, KeepInOrder DEF Line
<1>3. \/ UNCHANGED <<pc, buffered_cmds>>
      \/ buffered_cmds' = <<>>
  BY DEF RespPulse, RespNext, RespAckMail, RespHeartbeatAck, RespNewMail,
         RespGoodbye, NextPacket, EndSession
<1>4. BufferEmptied'
  BY <1>3 DEF Line, BufferEmptied
<1> QED BY <1>1, <1>2, <1>3, <1>4, LineStill

LEMMA LoopLine ==
  ASSUME TypeOK, Ownership, Line,
         LoopCmd \/ LoopRecv \/ LoopRefresh \/ LoopHeartbeat \/ LoopBroken
           \/ LoopHalted \/ DropLogic
  PROVE  Line'
<1> USE DEF TypeOK
<1>1. CASE LoopCmd
  <2>0. LoopEvent("cmd") /\ Head(mailbox).req \in Requests
    BY <1>1, LoopEventType, EventShape DEF LoopCmd
  <2> PICK r \in Requests : r = Head(mailbox).req
    BY <2>0
  <2>1. HandleCmd(r, buffered_cmds) /\ buffered_cmds = <<>> /\ UNCHANGED submitted
    BY <1>1, <2>0 DEF LoopCmd, LoopEvent, Line, BufferEmptied
  <2>2. (sent' = sent \/ sent' = Append(sent, r)) /\ buffered_cmds' = <<>>
    BY <2>1, HandleCmdWrites
  <2>3. /\ MailboxOrdered'
        /\ \A q \in Requests : Queued(q)' => Queued(q)
        /\ \A q \in Requests : Queued(q)' => Before(r, q)
    BY <2>0, TakeInOrder, RequestAssumption DEF LoopEvent, Line
  <2>4. Queued(r)
    BY <2>0, TakeHead DEF LoopEvent, Ownership, SoleOwner
  <2>5. Submitted(r) /\ \A x \in Requests : Written(x) => Before(x, r)
    BY <2>4 DEF Ownership, Held, Line, InLine
  <2>6. BufferOrdered' /\ BufferEmptied' /\ \A q \in Requests : ~Buffered(q)'
    BY <2>2 DEF BufferOrdered, BufferEmptied, Buffered
  <2>7. \A y \in Requests : Buffered(y)' \/ Queued(y)' => Before(r, y)
    BY <2>3, <2>6
  <2>8. \A q \in Requests : Buffered(q)' => Buffered(q)
    BY <2>6
  <2> QED BY <2>1, <2>2, <2>3, <2>5, <2>6, <2>7, <2>8, LineWrites
<1>2. CASE LoopRecv \/ LoopRefresh \/ LoopHeartbeat \/ LoopBroken
  <2>1. PICK type : LoopEvent(type)
    BY <1>2 DEF LoopRecv, LoopRefresh, LoopHeartbeat, LoopBroken
  <2>2. UNCHANGED <<sent, submitted>>
    BY <1>2, <2>1 DEF LoopRecv, LoopRefresh, LoopHeartbeat, LoopBroken, LoopEvent
  <2>3. UNCHANGED <<pc, buffered_cmds>> \/ buffered_cmds' = <<>>
    BY <1>2
    DEF LoopRecv, LoopRefresh, LoopHeartbeat, LoopBroken, EndSession, sessionVars
  <2>4. BufferEmptied'
    BY <2>3 DEF Line, BufferEmptied
  <2>5. MailboxOrdered' /\ \A r \in Requests : Queued(r)' => Queued(r)
    BY <2>1, TakeInOrder DEF LoopEvent, Line
  <2> QED BY <2>2, <2>3, <2>4, <2>5, LineStill
<1>3. CASE LoopHalted
  <2>1. UNCHANGED <<sent, submitted, mailbox>> /\ buffered_cmds' = <<>>
    BY <1>3 DEF LoopHalted, EndSession
  <2>2. MailboxOrdered' /\ \A r \in Requests : Queued(r)' => Queued(r)
    BY <2>1, KeepInOrder DEF Line
  <2> QED BY <2>1, <2>2, LineStill DEF BufferEmptied
<1>4. CASE DropLogic
  <2>1. UNCHANGED <<sent, submitted, buffered_cmds>> /\ mailbox' = <<>>
    BY <1>4 DEF DropLogic
  <2>2. MailboxOrdered' /\ \A r \in Requests : Queued(r)' => Queued(r)
    BY <2>1 DEF MailboxOrdered, Queued
  <2>3. BufferEmptied'
    BY <1>4 DEF DropLogic, Line, BufferEmptied
  <2> QED BY <2>1, <2>2, <2>3, LineStill
<1> QED BY <1>1, <1>2, <1>3, <1>4

LEMMA CallersLine ==
  ASSUME TypeOK, Ownership, Line, NEW r \in Requests, Accept(r) \/ Refuse(r)
  PROVE  Line'
<1> USE DEF TypeOK
<1>1. UNCHANGED <<pc, sent, buffered_cmds>>
  BY DEF Accept, Refuse, sessionVars
<1>2. BufferEmptied'
  BY <1>1 DEF Line, BufferEmptied
<1>3. CASE Refuse(r)
  <2>1. UNCHANGED <<submitted, mailbox>>
    BY <1>3 DEF Refuse
  <2> QED BY <1>1, <1>2, <2>1, KeepInOrder, LineStill DEF Line
<1>4. CASE Accept(r)
  <2>1. submitted' = Append(submitted, r)
    BY <1>4 DEF Accept
  <2>2. /\ \A x, y \in Requests : Before(x, y) => Before(x, y)'
        /\ \A x \in Requests : Submitted(x) => Submitted(x)' /\ Before(x, r)'
    BY <2>1, SubmittedGrows, NewestIsLast
  <2>3. \A x \in Requests : Written(x) \/ Buffered(x) \/ Queued(x) => Submitted(x)
    BY DEF Ownership, Held, Line, InLine
  <2>4. \A x \in Requests : (Written(x)' <=> Written(x)) /\ (Buffered(x)' <=> Buffered(x))
    BY <1>1 DEF Written, Buffered
  <2>5. /\ Len(mailbox) \in Nat /\ Len(mailbox') = Len(mailbox) + 1
        /\ \A i \in 1 .. Len(mailbox) : mailbox'[i] = mailbox[i]
        /\ mailbox'[Len(mailbox) + 1].req = r
    BY <1>4 DEF Accept, MailboxType, CmdEvent
  <2>6. \A x \in Requests : Queued(x)' => Queued(x) \/ x = r
    BY <2>5 DEF Queued
  <2>7. InLine'
    BY <2>2, <2>3, <2>4, <2>6 DEF Line, InLine
  <2>8. MailboxOrdered'
    <3>1. \A i \in 1 .. Len(mailbox') : mailbox'[i].req \in Requests \cup {NoReq}
      <4>1. \A i \in 1 .. Len(mailbox) : mailbox[i].req \in Requests \cup {NoReq}
        BY DEF MailboxType, Events
      <4> QED BY <2>5, <4>1
    <3> SUFFICES ASSUME NEW i \in 1 .. Len(mailbox'), NEW j \in 1 .. Len(mailbox'),
                        i < j, NEW x \in Requests, NEW y \in Requests,
                        x = mailbox'[i].req, y = mailbox'[j].req
                 PROVE  Before(x, y)'
      BY <3>1 DEF MailboxOrdered, Before
    <3>2. i \in 1 .. Len(mailbox) /\ mailbox[i].req = x
      BY <2>5
    <3>3. CASE j = Len(mailbox) + 1
      BY <2>2, <2>3, <2>5, <3>2, <3>3 DEF Queued
    <3>4. CASE j # Len(mailbox) + 1
      <4>1. j \in 1 .. Len(mailbox) /\ mailbox[j].req = y
        BY <2>5, <3>4
      <4> QED BY <2>2, <3>2, <4>1, RequestAssumption DEF Line, MailboxOrdered
    <3> QED BY <3>3, <3>4
  <2>9. WrittenInOrder'
    <3>1. \A i \in 1 .. Len(sent) : sent[i] \in Requests
      BY DEF HistoryType
    <3> SUFFICES ASSUME NEW i \in 1 .. Len(sent), NEW j \in 1 .. Len(sent), i < j,
                        NEW x \in Requests, NEW y \in Requests,
                        x = sent[i], y = sent[j]
                 PROVE  Before(x, y)'
      BY <1>1, <3>1 DEF WrittenInOrder, Before
    <3> QED BY <2>2, SentInOrder DEF Line
  <2>10. BufferOrdered'
    <3>1. \A i \in 1 .. Len(buffered_cmds) : buffered_cmds[i] \in Requests
      BY DEF SessionType
    <3> SUFFICES ASSUME NEW i \in 1 .. Len(buffered_cmds),
                        NEW j \in 1 .. Len(buffered_cmds), i < j,
                        NEW x \in Requests, NEW y \in Requests,
                        x = buffered_cmds[i], y = buffered_cmds[j]
                 PROVE  Before(x, y)'
      BY <1>1, <3>1 DEF BufferOrdered, Before
    <3> QED BY <2>2 DEF Line, BufferOrdered
  <2> QED BY <1>2, <2>7, <2>8, <2>9, <2>10 DEF Line
<1> QED BY <1>3, <1>4

LEMMA EnvironmentLine ==
  ASSUME TypeOK, Line, Timer \/ Server \/ \E k \in Keys : Age(k)
  PROVE  Line'
<1> USE DEF TypeOK
<1>1. UNCHANGED <<pc, buffered_cmds, sent, submitted>>
  BY DEF Timer, TimerRefresh, TimerHeartbeat, TimerGiveUp, timerUnchanged, Age,
         Server, ServerConnect, ServerAnswer, ServerHeartbeatAck, ServerPush,
         Garbage, SocketEnds, Deliver, sessionVars
<1>2. BufferEmptied'
  BY <1>1 DEF Line, BufferEmptied
<1>3. CASE UNCHANGED mailbox
  BY <1>1, <1>2, <1>3, KeepInOrder, LineStill DEF Line
<1>4. ASSUME NEW type, mailbox' = Append(mailbox, Event(type)) PROVE Line'
  <2>1. Event(type).req = NoReq
    BY DEF Event
  <2> QED BY <1>1, <1>2, <1>4, <2>1, AddInOrder, LineStill DEF Line
<1>5. ASSUME NEW p \in Packets, Deliver(p) PROVE Line'
  BY <1>1, <1>2, <1>5, DeliverInOrder, LineStill DEF Line
<1>6. CASE Timer \/ Garbage \/ SocketEnds
  BY <1>4, <1>6
  DEF Timer, TimerRefresh, TimerHeartbeat, TimerGiveUp, Garbage, SocketEnds
<1>7. CASE \E k \in Keys : Age(k)
  BY <1>3, <1>7 DEF Age
<1>8. CASE ServerConnect \/ ServerAnswer \/ ServerHeartbeatAck \/ ServerPush
  BY <1>5, <1>8, ServerDelivers
<1> QED BY <1>6, <1>7, <1>8 DEF Server

LEMMA LineStep ==
  TypeOK /\ Ownership /\ Line /\ [LogicNext]_logicVars => Line'
<1> SUFFICES ASSUME TypeOK, Ownership, Line, [LogicNext]_logicVars PROVE Line'
  OBVIOUS
<1>1. CASE LogicThread
  BY <1>1, AuthLine, ReplayLine, PacketLine, LoopLine DEF LogicThread
<1>2. CASE Timer \/ Server \/ \E k \in Keys : Age(k)
  BY <1>2, EnvironmentLine
<1>3. CASE \E r \in Requests : Accept(r) \/ (pc = "dropped" /\ Refuse(r))
  BY <1>3, CallersLine
<1>4. CASE UNCHANGED logicVars
  <2>1. UNCHANGED <<pc, buffered_cmds, sent, submitted, mailbox>>
    BY <1>4 DEF logicVars, sessionVars
  <2>2. BufferEmptied'
    BY <2>1 DEF Line, BufferEmptied
  <2> QED BY <2>1, <2>2, KeepInOrder, LineStill DEF Line
<1> QED BY <1>1, <1>2, <1>3, <1>4 DEF LogicNext

LEMMA InitLine == LogicInit => Line
  BY DEF LogicInit, Line, BufferEmptied, BufferOrdered, MailboxOrdered, InLine,
         WrittenInOrder, Written, Buffered

(* Commands leave for the server in the order in which the mailbox took      *)
(* them, also those put aside during authentication.                        *)
THEOREM WrittenInOrderInvariant == LogicSpec => []WrittenInOrder
<1>1. LogicInit => TypeOK /\ Ownership /\ Line
  BY InitType, InitOwns, InitLine
<1>2. TypeOK /\ Ownership /\ Line /\ [LogicNext]_logicVars
        => (TypeOK /\ Ownership /\ Line)'
  BY NextType, NextOwns, LineStep
<1>3. Line => WrittenInOrder
  BY DEF Line
<1> QED BY <1>1, <1>2, <1>3, PTL DEF LogicSpec

(***************************************************************************)
(* Nothing before the server's welcome                                     *)
(***************************************************************************)
Welcomed == connect = "answered" /\ notify # <<>> /\ notify[1] = "connected"
NoWelcome ==
  \A i \in 1 .. Len(mailbox) : \A j \in 1 .. Len(mailbox[i].packets) :
    mailbox[i].packets[j].type \notin Welcomes
Greeted ==
  /\ pc = "hello" => connect = "unsent"
  /\ connect # "answered" => NoWelcome
  /\ pc \in {"hello", "auth"} => sent = <<>> /\ notify = <<>>
  /\ pc \in {"replay", "authed", "loop"} => Welcomed
  /\ WrittenAfterConnected

(* The mailbox without a welcome, after each thing that can happen to it.    *)
LEMMA TakeNoWelcome ==
  ASSUME MailboxType, NoWelcome, mailbox # <<>>, mailbox' = Tail(mailbox)
  PROVE  NoWelcome'
<1>1. /\ Len(mailbox) \in Nat /\ Len(mailbox') = Len(mailbox) - 1
      /\ \A i \in 1 .. Len(mailbox') : mailbox'[i] = mailbox[i + 1]
  BY DEF MailboxType
<1> QED BY <1>1 DEF NoWelcome

LEMMA AddNoWelcome ==
  ASSUME MailboxType, NoWelcome, NEW e, mailbox' = Append(mailbox, e),
         \A j \in 1 .. Len(e.packets) : e.packets[j].type \notin Welcomes
  PROVE  NoWelcome'
<1>1. /\ Len(mailbox) \in Nat /\ Len(mailbox') = Len(mailbox) + 1
      /\ \A i \in 1 .. Len(mailbox) : mailbox'[i] = mailbox[i]
      /\ mailbox'[Len(mailbox) + 1] = e
  BY DEF MailboxType
<1> QED BY <1>1 DEF NoWelcome

LEMMA DeliverNoWelcome ==
  ASSUME MailboxType, NoWelcome, NEW p \in Packets, Deliver(p),
         p.type \notin Welcomes
  PROVE  NoWelcome'
<1>1. CASE mailbox' = Append(mailbox, RecvEvent(p))
  <2>1. \A j \in 1 .. Len(RecvEvent(p).packets) :
          RecvEvent(p).packets[j].type \notin Welcomes
    BY DEF RecvEvent
  <2> QED BY <1>1, <2>1, AddNoWelcome
<1>2. CASE /\ mailbox # <<>>
           /\ mailbox[Len(mailbox)].type = "recv"
           /\ mailbox' = [mailbox EXCEPT ![Len(mailbox)].packets = Append(@, p)]
  <2> DEFINE last == mailbox[Len(mailbox)]
  <2>1. mailbox \in Seq(Events) /\ Len(mailbox) \in 1 .. Len(mailbox)
    BY <1>2 DEF MailboxType
  <2>2. DOMAIN mailbox = 1 .. Len(mailbox) /\ Len(mailbox') = Len(mailbox)
    BY <1>2, <2>1
  <2>3. last \in Events
    BY <2>1
  <2>4. last.packets \in Seq(Packets)
    BY <1>2, <2>3, EventShape
  <2>5. [last EXCEPT !.packets = Append(@, p)].packets = Append(last.packets, p)
    BY <2>3 DEF Events
  <2>6. /\ mailbox'[Len(mailbox)].packets = Append(last.packets, p)
        /\ \A i \in 1 .. Len(mailbox) - 1 : mailbox'[i] = mailbox[i]
    BY <1>2, <2>1, <2>2, <2>5
  <2>7. \A j \in 1 .. Len(Append(last.packets, p)) :
          Append(last.packets, p)[j].type \notin Welcomes
    BY <2>1, <2>4 DEF NoWelcome
  <2> QED BY <2>1, <2>2, <2>6, <2>7 DEF NoWelcome
<1> QED BY <1>1, <1>2 DEF Deliver

(* A step that neither connects nor writes.                                 *)
LEMMA GreetedStill ==
  ASSUME TypeOK, Greeted, UNCHANGED <<connect, sent>>,
         connect # "answered" => NoWelcome',
         notify' = notify \/ (notify # <<>> /\ notify'[1] = notify[1] /\ notify' # <<>>),
         pc' = pc \/ pc' = "ended" \/ (pc = "replay" /\ pc' = "authed")
           \/ (pc = "authed" /\ pc' = "loop") \/ pc' = "dropped"
  PROVE  Greeted'
<1>1. Welcomed => Welcomed'
  BY DEF Welcomed
<1>2. WrittenAfterConnected'
  BY DEF Greeted, WrittenAfterConnected
<1>3. pc' \in {"hello", "auth"} => notify' = notify
  BY DEF Greeted
<1> QED BY <1>1, <1>2, <1>3 DEF Greeted

LEMMA AuthGreeted ==
  ASSUME TypeOK, Greeted,
         SendConnect \/ AuthBuffer \/ AuthConnected \/ AuthRefused
           \/ AuthBroken \/ AuthTimeout
  PROVE  Greeted'
<1> USE DEF TypeOK
<1>1. CASE SendConnect
  <2>1. UNCHANGED <<sent, notify, mailbox>> /\ connect' # "answered"
    BY <1>1 DEF SendConnect, Greeted
  <2>2. NoWelcome' /\ sent = <<>> /\ notify = <<>> /\ pc' \in {"auth", "ended"}
    BY <1>1, <2>1 DEF SendConnect, Greeted, NoWelcome, EndSession
  <2> QED BY <2>1, <2>2 DEF Greeted, WrittenAfterConnected
<1>2. CASE AuthTimeout
  <2>1. UNCHANGED <<connect, sent, notify, mailbox>> /\ pc' = "ended"
    BY <1>2 DEF AuthTimeout, serverVars, EndSession
  <2>2. connect # "answered" => NoWelcome'
    BY <2>1 DEF Greeted, NoWelcome
  <2> QED BY <2>1, <2>2, GreetedStill
<1>3. ASSUME NEW type, AuthEvent(type)
      PROVE  /\ UNCHANGED <<connect, sent>>
             /\ connect # "answered" => NoWelcome'
  <2>1. UNCHANGED <<connect, sent>> /\ mailbox # <<>> /\ mailbox' = Tail(mailbox)
    BY <1>3 DEF AuthEvent, serverVars
  <2> QED BY <2>1, TakeNoWelcome DEF Greeted
<1>4. CASE AuthBuffer \/ AuthRefused \/ AuthBroken
  <2>1. PICK type : AuthEvent(type)
    BY <1>4 DEF AuthBuffer, AuthRefused, AuthBroken
  <2>2. notify' = notify /\ (pc' = pc \/ pc' = "ended")
    BY <1>4 DEF AuthBuffer, AuthRefused, AuthBroken, EndSession
  <2> QED BY <1>3, <2>1, <2>2, GreetedStill
<1>5. CASE AuthConnected
  <2>1. AuthEvent("recv") /\ pc' = "replay"
    BY <1>5 DEF AuthConnected
  <2>2. /\ Head(mailbox).packets \in Seq(Packets) /\ Head(mailbox).packets # <<>>
        /\ Head(mailbox) = mailbox[1] /\ 1 \in 1 .. Len(mailbox)
    BY <2>1, MailboxHead, EventShape DEF AuthEvent, MailboxType
  <2>3. mailbox[1].packets[1].type \in Welcomes
    BY <1>5, <2>2 DEF AuthConnected
  <2>4. connect = "answered"
    <3>1. 1 \in 1 .. Len(mailbox[1].packets)
      BY <2>2
    <3> QED BY <2>2, <2>3, <3>1 DEF Greeted, NoWelcome
  <2>5. notify' # <<>> /\ notify'[1] = "connected"
    <3>1. PICK type : notify' = notify \o Notices(type)
      BY <1>5 DEF AuthConnected
    <3>2. notify = <<>>
      BY <2>1 DEF AuthEvent, Greeted
    <3> QED BY <3>1, <3>2 DEF Notices
  <2>6. UNCHANGED <<connect, sent>> /\ Welcomed'
    BY <1>3, <2>1, <2>4, <2>5 DEF Welcomed
  <2> QED BY <2>1, <2>4, <2>6 DEF Greeted, Welcomed, WrittenAfterConnected
<1> QED BY <1>1, <1>2, <1>4, <1>5

(* handle_cmd writes only after the welcome.                                *)
LEMMA HandleCmdGreeted ==
  ASSUME TypeOK, Greeted, pc \in {"replay", "loop"}, NEW r \in Requests, NEW rest,
         HandleCmd(r, rest), UNCHANGED notify
  PROVE  Greeted'
<1>1. (pc' = pc \/ pc' = "ended") /\ connect' = connect
  BY HandleCmdWrites
<1>2. Welcomed /\ Welcomed'
  BY <1>1 DEF Greeted, Welcomed
<1> QED BY <1>1, <1>2 DEF Greeted, Welcomed, WrittenAfterConnected

LEMMA ThreadGreeted ==
  ASSUME TypeOK, Greeted, LogicThread
  PROVE  Greeted'
<1> USE DEF TypeOK
<1>1. CASE Replay \/ LoopCmd
  <2>1. PICK r \in Requests : \E rest : HandleCmd(r, rest)
    BY <1>1, HandlesCommand
  <2>2. pc \in {"replay", "loop"} /\ UNCHANGED notify
    BY <1>1 DEF Replay, LoopCmd, LoopEvent
  <2> QED BY <2>1, <2>2, HandleCmdGreeted
<1>2. CASE ReplayDone \/ StartLoop
  <2>1. UNCHANGED <<connect, sent, notify, mailbox>>
    BY <1>2 DEF ReplayDone, StartLoop, serverVars
  <2>2. connect # "answered" => NoWelcome'
    BY <2>1 DEF Greeted, NoWelcome
  <2> QED BY <1>2, <2>1, <2>2, GreetedStill DEF ReplayDone, StartLoop
<1>3. CASE RespPulse \/ RespNext \/ RespAckMail \/ RespHeartbeatAck \/ RespNewMail
             \/ RespGoodbye
  <2>1. UNCHANGED <<connect, sent, mailbox>> /\ pc \in {"replay", "loop"}
    BY <1>3
    DEF RespPulse, RespNext, RespAckMail, RespHeartbeatAck, RespNewMail,
        RespGoodbye, TakePacket, serverVars
  <2>2. notify' = notify \/ notify' = Append(notify, "new_mail")
    BY <1>3
    DEF RespPulse, RespNext, RespAckMail, RespHeartbeatAck, RespNewMail, RespGoodbye
  <2>3. notify # <<>> /\ (notify' = notify
                           \/ (notify'[1] = notify[1] /\ notify' # <<>>))
    BY <2>1, <2>2 DEF Greeted, Welcomed, NotifyType
  <2>4. pc' = pc \/ pc' = "ended"
    BY <1>3
    DEF RespPulse, RespNext, RespAckMail, RespHeartbeatAck, RespNewMail,
        RespGoodbye, NextPacket, EndSession
  <2>5. connect # "answered" => NoWelcome'
    BY <2>1 DEF Greeted, NoWelcome
  <2> QED BY <2>1, <2>3, <2>4, <2>5, GreetedStill
<1>4. CASE LoopRecv \/ LoopRefresh \/ LoopHeartbeat \/ LoopBroken
  <2>1. PICK type : LoopEvent(type)
    BY <1>4 DEF LoopRecv, LoopRefresh, LoopHeartbeat, LoopBroken
  <2>2. UNCHANGED <<connect, sent, notify>> /\ (pc' = pc \/ pc' = "ended")
    BY <1>4, <2>1
    DEF LoopRecv, LoopRefresh, LoopHeartbeat, LoopBroken, LoopEvent, EndSession,
        sessionVars, serverVars
  <2>3. connect # "answered" => NoWelcome'
    BY <2>1, TakeNoWelcome DEF LoopEvent, Greeted
  <2> QED BY <2>2, <2>3, GreetedStill
<1>5. CASE LoopHalted
  <2>1. UNCHANGED <<connect, sent, notify, mailbox>> /\ pc' = "ended"
    BY <1>5 DEF LoopHalted, serverVars, EndSession
  <2>2. connect # "answered" => NoWelcome'
    BY <2>1 DEF Greeted, NoWelcome
  <2> QED BY <2>1, <2>2, GreetedStill
<1>6. CASE DropLogic
  <2>1. UNCHANGED <<connect, sent, notify>> /\ pc' = "dropped" /\ mailbox' = <<>>
    BY <1>6 DEF DropLogic
  <2> QED BY <2>1, GreetedStill DEF NoWelcome
<1> QED BY <1>1, <1>2, <1>3, <1>4, <1>5, <1>6, AuthGreeted DEF LogicThread

LEMMA OthersGreeted ==
  ASSUME TypeOK, Greeted,
         \/ Timer \/ Server \/ \E k \in Keys : Age(k)
         \/ \E r \in Requests : Accept(r) \/ Refuse(r)
  PROVE  Greeted'
<1> USE DEF TypeOK
<1>1. UNCHANGED <<pc, sent, notify>>
  BY DEF Timer, TimerRefresh, TimerHeartbeat, TimerGiveUp, timerUnchanged, Age,
         Server, ServerConnect, ServerAnswer, ServerHeartbeatAck, ServerPush,
         Garbage, SocketEnds, Deliver, Accept, Refuse, sessionVars
<1>2. CASE ServerConnect
  <2>1. connect = "sent" /\ connect' = "answered"
    BY <1>2 DEF ServerConnect
  <2> QED BY <1>1, <2>1 DEF Greeted, Welcomed, WrittenAfterConnected
<1>3. ASSUME NEW p \in Packets, Deliver(p), p.type \notin Welcomes, UNCHANGED connect
      PROVE  Greeted'
  BY <1>1, <1>3, DeliverNoWelcome, GreetedStill DEF Greeted
<1>4. CASE ServerAnswer
  <2>1. PICK p \in outstanding :
          Deliver([type |-> RespType(p.from), key |-> p.key, from |-> p.from])
    BY <1>4 DEF ServerAnswer
  <2>2. /\ [type |-> RespType(p.from), key |-> p.key, from |-> p.from] \in Packets
        /\ RespType(p.from) \notin Welcomes
    BY DEF ServerType, Packets, RespType, Responses, Welcomes
  <2> QED BY <1>3, <1>4, <2>1, <2>2 DEF ServerAnswer
<1>5. CASE ServerHeartbeatAck \/ ServerPush
  <2>1. PICK type \in PacketTypes \ Welcomes : Deliver(Packet(type))
    BY <1>5 DEF ServerHeartbeatAck, ServerPush, PacketTypes, Welcomes
  <2>2. Packet(type) \in Packets /\ Packet(type).type \notin Welcomes
    BY Constructors DEF Packet
  <2> QED BY <1>3, <1>5, <2>1, <2>2 DEF ServerHeartbeatAck, ServerPush
<1>6. ASSUME NEW e, mailbox' = Append(mailbox, e), e.packets = <<>>, UNCHANGED connect
      PROVE  Greeted'
  <2>1. connect # "answered" => NoWelcome'
    BY <1>6, AddNoWelcome DEF Greeted
  <2> QED BY <1>1, <1>6, <2>1, GreetedStill
<1>7. CASE Timer \/ Garbage \/ SocketEnds
  <2>1. PICK type : mailbox' = Append(mailbox, Event(type))
    BY <1>7
    DEF Timer, TimerRefresh, TimerHeartbeat, TimerGiveUp, Garbage, SocketEnds
  <2>2. UNCHANGED connect
    BY <1>7
    DEF Timer, TimerRefresh, TimerHeartbeat, TimerGiveUp, Garbage, SocketEnds,
        timerUnchanged, serverVars
  <2> QED BY <1>6, <2>1, <2>2 DEF Event
<1>8. CASE (\E k \in Keys : Age(k)) \/ \E r \in Requests : Refuse(r)
  <2>1. UNCHANGED <<connect, mailbox>>
    BY <1>8 DEF Age, Refuse, timerUnchanged, serverVars
  <2>2. connect # "answered" => NoWelcome'
    BY <2>1 DEF Greeted, NoWelcome
  <2> QED BY <1>1, <2>1, <2>2, GreetedStill
<1>9. CASE \E r \in Requests : Accept(r)
  <2>1. PICK r \in Requests : Accept(r)
    BY <1>9
  <2> QED BY <1>6, <2>1 DEF Accept, serverVars, CmdEvent
<1> QED BY <1>2, <1>4, <1>5, <1>7, <1>8, <1>9 DEF Server

LEMMA GreetedStep == TypeOK /\ Greeted /\ [LogicNext]_logicVars => Greeted'
<1> SUFFICES ASSUME TypeOK, Greeted, [LogicNext]_logicVars PROVE Greeted'
  OBVIOUS
<1>1. CASE UNCHANGED logicVars
  <2>1. UNCHANGED <<pc, connect, sent, notify, mailbox>>
    BY <1>1 DEF logicVars, sessionVars, serverVars
  <2>2. connect # "answered" => NoWelcome'
    BY <2>1 DEF Greeted, NoWelcome
  <2> QED BY <2>1, <2>2, GreetedStill
<1> QED BY <1>1, ThreadGreeted, OthersGreeted DEF LogicNext

LEMMA InitGreeted == LogicInit => Greeted
  BY DEF LogicInit, Greeted, NoWelcome, WrittenAfterConnected

(* No command leaves for the server before the server's welcome, and the     *)
(* callers of the notifications were told of the connection first.          *)
THEOREM NothingBeforeWelcome == LogicSpec => []WrittenAfterConnected
<1>1. LogicInit => TypeOK /\ Greeted
  BY InitType, InitGreeted
<1>2. TypeOK /\ Greeted /\ [LogicNext]_logicVars => (TypeOK /\ Greeted)'
  BY NextType, GreetedStep
<1>3. Greeted => WrittenAfterConnected
  BY DEF Greeted
<1> QED BY <1>1, <1>2, <1>3, PTL DEF LogicSpec

(***************************************************************************)
(* Every entry of pending_txns waits for a packet that was written          *)
(***************************************************************************)
(* A step that stores nothing.                                             *)
LEMMA NothingStored ==
  ASSUME PendingWasWritten, UNCHANGED sent, Sessionless => Sessionless',
         \A k \in Keys : pending_txns'[k] \in {pending_txns[k], NoReq}
  PROVE  PendingWasWritten'
  BY DEF PendingWasWritten

(* handle_cmd stores a channel only with a packet that it wrote, unless the  *)
(* session is over.                                                        *)
LEMMA StoredWithWrite ==
  ASSUME TypeOK, PendingWasWritten, ~Sessionless,
         NEW r \in Requests, NEW rest, HandleCmd(r, rest)
  PROVE  PendingWasWritten'
<1> USE DEF TypeOK
<1>1. ASSUME UNCHANGED <<pending_txns, sent>> PROVE PendingWasWritten'
  BY <1>1, NothingStored
<1>2. ASSUME NEW k \in Keys, WriteCmd(r, k, rest),
             pending_txns' = [pending_txns EXCEPT ![k] = r]
      PROVE  PendingWasWritten'
  <2>1. CASE pc' = "ended"
    BY <2>1 DEF PendingWasWritten, Sessionless
  <2>2. CASE pc' # "ended"
    <3>1. sent' = Append(sent, r)
      BY <1>2, <2>2 DEF WriteCmd, EndSession
    <3>2. /\ Len(sent) \in Nat /\ Len(sent') = Len(sent) + 1
          /\ \A i \in 1 .. Len(sent) : sent'[i] = sent[i]
          /\ sent'[Len(sent) + 1] = r
      BY <3>1 DEF HistoryType
    <3>3. \A l \in Keys : pending_txns'[l] = IF l = k THEN r ELSE pending_txns[l]
      BY <1>2 DEF TxnType
    <3>4. ASSUME NEW l \in Keys, pending_txns'[l] # NoReq
          PROVE  \E i \in 1 .. Len(sent') : sent'[i] = pending_txns'[l]
      <4>1. CASE l = k
        BY <3>2, <3>3, <4>1
      <4>2. CASE l # k
        BY <3>2, <3>3, <3>4, <4>2 DEF PendingWasWritten
      <4> QED BY <4>1, <4>2
    <3> QED BY <3>4 DEF PendingWasWritten
  <2> QED BY <2>1, <2>2
<1>3. CASE RejectName(r, rest)
  BY <1>1, <1>3 DEF RejectName, txnVars
<1>4. CASE PushTxn(r, rest)
  <2>1. PICK i \in FreeProbes :
          /\ pending_txns' = [pending_txns EXCEPT ![Probe(i)] = r]
          /\ WriteCmd(r, Probe(i), rest)
    BY <1>4 DEF PushTxn
  <2>2. i \in Nat
    BY DEF FreeProbes
  <2>3. Probe(i) \in Keys
    BY <2>2, ProbeIsTxnId DEF TxnType, Keys
  <2> QED BY <1>2, <2>1, <2>3
<1>5. CASE TxnExhausted(r)
  BY <1>1, <1>5 DEF TxnExhausted
<1>6. CASE DuplicateMailOp(r, rest)
  BY <1>1, <1>6 DEF DuplicateMailOp, txnVars
<1>7. CASE PushMailOp(r, rest)
  <2>1. MailOf[r] \in Keys
    BY KindAssumption DEF Keys
  <2> QED BY <1>2, <1>7, <2>1 DEF PushMailOp
<1> QED BY <1>3, <1>4, <1>5, <1>6, <1>7 DEF HandleCmd

LEMMA PendingStep ==
  TypeOK /\ PendingWasWritten /\ [LogicNext]_logicVars => PendingWasWritten'
<1> SUFFICES ASSUME TypeOK, PendingWasWritten, [LogicNext]_logicVars
             PROVE  PendingWasWritten'
  OBVIOUS
<1> USE DEF TypeOK
<1>1. CASE Replay \/ LoopCmd
  <2>1. PICK r \in Requests : \E rest : HandleCmd(r, rest)
    BY <1>1, HandlesCommand
  <2>2. ~Sessionless
    BY <1>1 DEF Replay, LoopCmd, LoopEvent, Sessionless
  <2> QED BY <2>1, <2>2, StoredWithWrite
<1>2. CASE SendConnect \/ AuthBuffer \/ AuthConnected \/ AuthRefused \/ AuthBroken
             \/ AuthTimeout \/ ReplayDone \/ StartLoop
  <2>1. ~Sessionless /\ UNCHANGED <<pending_txns, sent>>
    BY <1>2
    DEF SendConnect, AuthBuffer, AuthConnected, AuthRefused, AuthBroken, AuthEvent,
        AuthTimeout, ReplayDone, StartLoop, txnVars, Sessionless
  <2> QED BY <2>1, NothingStored
<1>3. CASE RespPulse \/ RespNext \/ RespAckMail
  <2>1. ~Sessionless /\ UNCHANGED sent /\ Resolve
    BY <1>3 DEF RespPulse, RespNext, RespAckMail, TakePacket, Sessionless
  <2>2. \A k \in Keys : pending_txns'[k] \in {pending_txns[k], NoReq}
    BY <2>1 DEF Resolve, TxnType
  <2> QED BY <2>1, <2>2, NothingStored
<1>4. CASE RespHeartbeatAck \/ RespNewMail \/ RespGoodbye
  <2>1. ~Sessionless /\ UNCHANGED <<pending_txns, sent>>
    BY <1>4 DEF RespHeartbeatAck, RespNewMail, RespGoodbye, TakePacket, Sessionless
  <2> QED BY <2>1, NothingStored
<1>5. CASE LoopRecv \/ LoopHeartbeat \/ LoopBroken \/ LoopHalted
  <2>1. ~Sessionless /\ UNCHANGED <<pending_txns, sent>>
    BY <1>5
    DEF LoopRecv, LoopHeartbeat, LoopBroken, LoopHalted, LoopEvent, txnVars, Sessionless
  <2> QED BY <2>1, NothingStored
<1>6. CASE LoopRefresh
  <2>1. /\ ~Sessionless /\ UNCHANGED sent
        /\ \A k \in Keys : pending_txns'[k] \in {pending_txns[k], NoReq}
    BY <1>6 DEF LoopRefresh, LoopEvent, Sessionless
  <2> QED BY <2>1, NothingStored
<1>7. CASE DropLogic
  BY <1>7 DEF DropLogic, PendingWasWritten, Sessionless
<1>8. CASE \/ Timer \/ Server \/ \E k \in Keys : Age(k)
           \/ \E r \in Requests : Accept(r) \/ (pc = "dropped" /\ Refuse(r))
           \/ UNCHANGED logicVars
  <2>1. UNCHANGED <<pc, pending_txns, sent>>
    BY <1>8
    DEF Timer, TimerRefresh, TimerHeartbeat, TimerGiveUp, timerUnchanged, Age,
        Server, ServerConnect, ServerAnswer, ServerHeartbeatAck, ServerPush,
        Garbage, SocketEnds, Deliver, Accept, Refuse, sessionVars, txnVars, logicVars
  <2> QED BY <2>1, NothingStored DEF Sessionless
<1> QED BY <1>1, <1>2, <1>3, <1>4, <1>5, <1>6, <1>7, <1>8 DEF LogicNext, LogicThread

(* In a live session nobody waits for a packet that was never written.       *)
THEOREM PendingWasWrittenInvariant == LogicSpec => []PendingWasWritten
<1>1. LogicInit => TypeOK /\ PendingWasWritten
  BY InitType DEF LogicInit, PendingWasWritten, NoPending
<1>2. TypeOK /\ PendingWasWritten /\ [LogicNext]_logicVars
        => (TypeOK /\ PendingWasWritten)'
  BY NextType, PendingStep
<1> QED BY <1>1, <1>2, PTL DEF LogicSpec

(***************************************************************************)
(* Which answers may stray                                                 *)
(*                                                                         *)
(* Each answer is on its way once, in one of three places: owed by the     *)
(* server, in a read that waits in the mailbox, or in the batch.  The      *)
(* request it was given for still has the entry under the answer's key, or *)
(* was given up.                                                           *)
(***************************************************************************)
\* No command is taken by the mailbox twice.
AcceptedOnce ==
  \A i, j \in 1 .. Len(submitted) : submitted[i] = submitted[j] => i = j

LEMMA AcceptOnce ==
  ASSUME HistoryType, AcceptedOnce, NEW r \in Requests, Accept(r)
  PROVE  AcceptedOnce'
<1>1. /\ Len(submitted) \in Nat /\ Len(submitted') = Len(submitted) + 1
      /\ \A i \in 1 .. Len(submitted) : submitted'[i] = submitted[i]
      /\ submitted'[Len(submitted) + 1] = r
  BY DEF Accept, HistoryType
<1>2. \A i \in 1 .. Len(submitted) : submitted[i] # r
  BY DEF Accept, Fresh, Submitted
<1> QED BY <1>1, <1>2 DEF AcceptedOnce

(* What was written has left the mailbox and buffered_cmds.                 *)
LEMMA WrittenIsGone ==
  ASSUME HistoryType, AcceptedOnce, Line, NEW r \in Requests, Written(r)
  PROVE  Submitted(r) /\ ~Queued(r) /\ ~Buffered(r)
<1>1. ~Before(r, r)
  <2>1. Len(submitted) \in Nat
    BY DEF HistoryType
  <2> QED BY <2>1 DEF AcceptedOnce, Before
<1> QED BY <1>1 DEF Line, InLine

Gone == {r \in Requests : GivenUp(r)}

Inside(ps)  == {ps[i] : i \in 1 .. Len(ps)}
Carried(mb) == UNION {Inside(mb[i].packets) : i \in 1 .. Len(mb)}
Flying      == outstanding \cup Carried(mailbox) \cup Inside(batch)

\* No request has an answer in both of two sets of packets.
Apart(a, b) == \A p \in a, q \in b : p.from = q.from => p.from = NoReq
OneEach(ps) ==
  \A i, j \in 1 .. Len(ps) : ps[i].from = ps[j].from /\ ps[i].from # NoReq => i = j
MailOneEach(mb) ==
  /\ \A i \in 1 .. Len(mb) : OneEach(mb[i].packets)
  /\ \A i, j \in 1 .. Len(mb) :
       i # j => Apart(Inside(mb[i].packets), Inside(mb[j].packets))
\* out, mb, ps: outstanding, mailbox and batch, or what they become
Once(out, mb, ps) ==
  /\ \A p, q \in out : p.from = q.from => p = q
  /\ OneEach(ps) /\ MailOneEach(mb)
  /\ Apart(out, Carried(mb)) /\ Apart(out, Inside(ps)) /\ Apart(Carried(mb), Inside(ps))

Awaited(p) == pending_txns[p.key] = p.from \/ p.from \in Gone
Strays ==
  /\ Once(outstanding, mailbox, batch)
  /\ \A p \in Flying : p.from # NoReq => Awaited(p) /\ Written(p.from)
  /\ Sessionless => batch = <<>>
  /\ OnlyLateAnswersStray

(* The packets of a read.                                                  *)
LEMMA TakePacketInside ==
  ASSUME NEW ps \in Seq(Packets), ps # <<>>, OneEach(ps)
  PROVE  /\ Head(ps) \in Inside(ps) /\ Inside(Tail(ps)) \subseteq Inside(ps)
         /\ OneEach(Tail(ps)) /\ Apart({Head(ps)}, Inside(Tail(ps)))
<1>1. /\ Len(ps) \in Nat /\ Len(ps) >= 1 /\ Len(Tail(ps)) = Len(ps) - 1
      /\ \A i \in 1 .. Len(Tail(ps)) : Tail(ps)[i] = ps[i + 1]
      /\ Head(ps) = ps[1]
  OBVIOUS
<1>2. \A i \in 1 .. Len(Tail(ps)) : i + 1 \in 1 .. Len(ps) /\ i + 1 # 1
  BY <1>1
<1>3. 1 \in 1 .. Len(ps)
  BY <1>1
<1>4. Inside(Tail(ps)) \subseteq Inside(ps) /\ Head(ps) \in Inside(ps)
  BY <1>1, <1>2, <1>3 DEF Inside
<1>5. OneEach(Tail(ps))
  <2> SUFFICES ASSUME NEW i \in 1 .. Len(Tail(ps)), NEW j \in 1 .. Len(Tail(ps)),
                      Tail(ps)[i].from = Tail(ps)[j].from, Tail(ps)[i].from # NoReq
               PROVE  i = j
    BY DEF OneEach
  <2>1. i + 1 = j + 1
    BY <1>1, <1>2 DEF OneEach
  <2> QED BY <1>1, <2>1
<1>6. Apart({Head(ps)}, Inside(Tail(ps)))
  <2> SUFFICES ASSUME NEW i \in 1 .. Len(Tail(ps)), ps[1].from = Tail(ps)[i].from
               PROVE  ps[1].from = NoReq
    BY <1>1 DEF Apart, Inside
  <2>1. ps[1].from = ps[i + 1].from
    BY <1>1
  <2> QED BY <1>2, <1>3, <2>1 DEF OneEach
<1> QED BY <1>4, <1>5, <1>6

LEMMA AddPacketInside ==
  ASSUME NEW ps \in Seq(Packets), NEW p, OneEach(ps), Apart({p}, Inside(ps))
  PROVE  Inside(Append(ps, p)) = Inside(ps) \cup {p} /\ OneEach(Append(ps, p))
<1> DEFINE after == Append(ps, p)
<1>1. /\ Len(ps) \in Nat /\ Len(after) = Len(ps) + 1
      /\ \A i \in 1 .. Len(ps) : after[i] = ps[i]
      /\ after[Len(ps) + 1] = p
  OBVIOUS
<1> HIDE DEF after
<1>2. \A i \in 1 .. Len(after) : i \in 1 .. Len(ps) \/ i = Len(ps) + 1
  BY <1>1
<1>3. Len(ps) + 1 \in 1 .. Len(after) /\ \A i \in 1 .. Len(ps) : i \in 1 .. Len(after)
  BY <1>1
<1>4. Inside(after) = Inside(ps) \cup {p}
  BY <1>1, <1>2, <1>3 DEF Inside
<1>5. \A i \in 1 .. Len(ps) : ps[i].from = p.from => p.from = NoReq
  BY DEF Apart, Inside
<1>6. OneEach(after)
  <2> SUFFICES ASSUME NEW i \in 1 .. Len(after), NEW j \in 1 .. Len(after),
                      after[i].from = after[j].from, after[i].from # NoReq
               PROVE  i = j
    BY DEF OneEach
  <2> QED BY <1>1, <1>2, <1>5 DEF OneEach
<1> QED BY <1>4, <1>6 DEF after

(* The reads in the mailbox.                                               *)
LEMMA EventPackets ==
  ASSUME NEW e \in Events
  PROVE  e.packets \in Seq(Packets)
<1>1. CASE e.type = "recv"
  BY <1>1, EventShape
<1>2. CASE e.type # "recv"
  <2>1. e.packets = <<>>
    BY <1>2 DEF Events
  <2> QED BY <2>1
<1> QED BY <1>1, <1>2

LEMMA TakeEventCarried ==
  ASSUME NEW mb \in Seq(Events), mb # <<>>, MailOneEach(mb)
  PROVE  /\ Inside(Head(mb).packets) \subseteq Carried(mb) /\ OneEach(Head(mb).packets)
         /\ Carried(Tail(mb)) \subseteq Carried(mb) /\ MailOneEach(Tail(mb))
         /\ Apart(Carried(Tail(mb)), Inside(Head(mb).packets))
<1>1. /\ Len(mb) \in Nat /\ Len(mb) >= 1 /\ Len(Tail(mb)) = Len(mb) - 1
      /\ \A i \in 1 .. Len(Tail(mb)) : Tail(mb)[i] = mb[i + 1]
      /\ Head(mb) = mb[1]
  OBVIOUS
<1>2. 1 \in 1 .. Len(mb) /\ \A i \in 1 .. Len(Tail(mb)) : i + 1 \in 1 .. Len(mb) /\ i + 1 # 1
  BY <1>1
<1>3. Inside(Head(mb).packets) \subseteq Carried(mb) /\ OneEach(Head(mb).packets)
  BY <1>1, <1>2 DEF Carried, MailOneEach
<1>4. Carried(Tail(mb)) \subseteq Carried(mb)
  BY <1>1, <1>2 DEF Carried
<1>5. MailOneEach(Tail(mb))
  <2>1. \A i \in 1 .. Len(Tail(mb)) : OneEach(Tail(mb)[i].packets)
    BY <1>1, <1>2 DEF MailOneEach
  <2>2. ASSUME NEW i \in 1 .. Len(Tail(mb)), NEW j \in 1 .. Len(Tail(mb)), i # j
        PROVE  Apart(Inside(Tail(mb)[i].packets), Inside(Tail(mb)[j].packets))
    <3>1. i + 1 # j + 1
      BY <1>1, <2>2
    <3>2. Apart(Inside(mb[i + 1].packets), Inside(mb[j + 1].packets))
      BY <1>2, <3>1 DEF MailOneEach
    <3> QED BY <1>1, <3>2
  <2> QED BY <2>1, <2>2 DEF MailOneEach
<1>6. ASSUME NEW p \in Carried(Tail(mb)), NEW q \in Inside(Head(mb).packets), p.from = q.from
      PROVE  p.from = NoReq
  <2>1. PICK i \in 1 .. Len(Tail(mb)) : p \in Inside(mb[i + 1].packets)
    BY <1>1 DEF Carried
  <2>2. Apart(Inside(mb[i + 1].packets), Inside(mb[1].packets))
    BY <1>2 DEF MailOneEach
  <2> QED BY <1>1, <1>6, <2>1, <2>2 DEF Apart
<1> QED BY <1>3, <1>4, <1>5, <1>6 DEF Apart

LEMMA AddEventCarried ==
  ASSUME NEW mb \in Seq(Events), NEW e, MailOneEach(mb),
         OneEach(e.packets), Apart(Inside(e.packets), Carried(mb))
  PROVE  /\ Carried(Append(mb, e)) = Carried(mb) \cup Inside(e.packets)
         /\ MailOneEach(Append(mb, e))
<1> DEFINE after == Append(mb, e)
           last == Len(mb) + 1
<1>1. /\ Len(mb) \in Nat /\ Len(after) = last
      /\ \A i \in 1 .. Len(mb) : after[i] = mb[i]
      /\ after[last] = e
  OBVIOUS
<1> HIDE DEF after
<1>2. \A i \in 1 .. Len(after) : i \in 1 .. Len(mb) \/ i = last
  BY <1>1
<1>3. last \in 1 .. Len(after) /\ \A i \in 1 .. Len(mb) : i \in 1 .. Len(after)
  BY <1>1
<1> HIDE DEF last
<1>4. ASSUME NEW p PROVE p \in Carried(after) <=> p \in Carried(mb) \cup Inside(e.packets)
  BY <1>1, <1>2, <1>3 DEF Carried
<1>5. \A i \in 1 .. Len(mb) : Inside(mb[i].packets) \subseteq Carried(mb)
  BY DEF Carried
<1>6. \A i \in 1 .. Len(after) : OneEach(after[i].packets)
  BY <1>1, <1>2 DEF MailOneEach
<1>7. ASSUME NEW i \in 1 .. Len(after), NEW j \in 1 .. Len(after), i # j
      PROVE  Apart(Inside(after[i].packets), Inside(after[j].packets))
  <2>1. CASE i \in 1 .. Len(mb) /\ j \in 1 .. Len(mb)
    BY <1>1, <1>7, <2>1 DEF MailOneEach
  <2>2. CASE i = last
    <3>1. j \in 1 .. Len(mb)
      BY <1>2, <1>7, <2>2
    <3> QED BY <1>1, <1>5, <2>2, <3>1 DEF Apart
  <2>3. CASE j = last
    <3>1. i \in 1 .. Len(mb)
      BY <1>2, <1>7, <2>3
    <3> QED BY <1>1, <1>5, <2>3, <3>1 DEF Apart
  <2> QED BY <1>2, <2>1, <2>2, <2>3
<1> QED BY <1>4, <1>6, <1>7 DEF after, MailOneEach

LEMMA PutPacketCarried ==
  ASSUME NEW mb \in Seq(Events), mb # <<>>, NEW p, MailOneEach(mb), Apart({p}, Carried(mb)),
         NEW put, put = [mb EXCEPT ![Len(mb)].packets = Append(@, p)]
  PROVE  Carried(put) \subseteq Carried(mb) \cup {p} /\ MailOneEach(put)
<1> PICK last : last = Len(mb)
  OBVIOUS
<1>1. last \in 1 .. Len(mb) /\ mb[last] \in Events /\ DOMAIN mb = 1 .. last
  OBVIOUS
<1> PICK ps : ps = mb[last].packets
  OBVIOUS
<1>2. ps \in Seq(Packets) /\ OneEach(ps) /\ Inside(ps) \subseteq Carried(mb)
  BY <1>1, EventPackets DEF MailOneEach, Carried
<1>3. Inside(Append(ps, p)) = Inside(ps) \cup {p} /\ OneEach(Append(ps, p))
  <2>1. Apart({p}, Inside(ps))
    BY <1>2 DEF Apart
  <2> QED BY <1>2, <2>1, AddPacketInside
<1>4. put[last].packets = Append(ps, p)
  <2>1. put[last] = [mb[last] EXCEPT !.packets = Append(@, p)]
    BY <1>1
  <2>2. [mb[last] EXCEPT !.packets = Append(@, p)].packets = Append(mb[last].packets, p)
    BY <1>1 DEF Events
  <2> QED BY <2>1, <2>2
<1>5. Len(put) = last /\ \A i \in 1 .. last : i # last => put[i] = mb[i]
  BY <1>1
<1>6. /\ Inside(put[last].packets) = Inside(mb[last].packets) \cup {p}
      /\ OneEach(put[last].packets)
  BY <1>3, <1>4
<1>7. \A i \in 1 .. Len(mb) : Inside(mb[i].packets) \subseteq Carried(mb)
  BY DEF Carried
<1>8. \A i \in 1 .. last : Inside(put[i].packets) \subseteq Carried(mb) \cup {p}
  BY <1>1, <1>5, <1>6, <1>7
<1>9. Carried(put) \subseteq Carried(mb) \cup {p}
  BY <1>5, <1>8 DEF Carried
<1>10. \A i \in 1 .. last : OneEach(put[i].packets)
  BY <1>5, <1>6 DEF MailOneEach
<1>11. ASSUME NEW i \in 1 .. last, NEW j \in 1 .. last, i # j
       PROVE  Apart(Inside(put[i].packets), Inside(put[j].packets))
  <2>1. Apart(Inside(mb[i].packets), Inside(mb[j].packets))
    BY <1>11 DEF MailOneEach
  <2>2. CASE i # last /\ j # last
    BY <1>5, <2>1, <2>2
  <2>3. CASE i = last
    <3>1. put[j] = mb[j] /\ j \in 1 .. Len(mb)
      BY <1>5, <1>11, <2>3
    <3> QED BY <1>6, <1>7, <2>1, <2>3, <3>1 DEF Apart
  <2>4. CASE j = last
    <3>1. put[i] = mb[i] /\ i \in 1 .. Len(mb)
      BY <1>5, <1>11, <2>4
    <3> QED BY <1>6, <1>7, <2>1, <2>4, <3>1 DEF Apart
  <2> QED BY <2>2, <2>3, <2>4
<1> QED BY <1>5, <1>9, <1>10, <1>11 DEF MailOneEach

(***************************************************************************)
(* What a step must not do                                                 *)
(***************************************************************************)
\* A reply is added, and it strays only if what it answers was given up.
RepliesGrow ==
  \A r \in Requests :
    \/ replies'[r] = replies[r]
    \/ \E v : replies'[r] = Append(replies[r], v) /\ v.from \in {NoReq, r} \cup Gone
\* What flies flew before, or its entry was stored and it was written.
Moved ==
  \A p \in Flying' : p.from # NoReq =>
    \/ \E q \in Flying : q.from = p.from /\ q.key = p.key
    \/ pending_txns'[p.key] = p.from /\ Written(p.from)'
\* An entry whose answer flies stays, or its request is given up.
EntriesKept ==
  \A p \in Flying' : p.from # NoReq /\ pending_txns[p.key] = p.from =>
    pending_txns'[p.key] = p.from \/ p.from \in Gone'

LEMMA GoneGrows ==
  ASSUME RepliesType, RepliesGrow
  PROVE  Gone \subseteq Gone'
<1> SUFFICES ASSUME NEW r \in Requests, GivenUp(r) PROVE GivenUp(r)'
  BY DEF Gone
<1>1. PICK i \in 1 .. Len(replies[r]) :
        replies[r][i].res = "timeout" \/ replies[r][i].from \notin {NoReq, r}
  BY DEF GivenUp
<1>2. i \in 1 .. Len(replies'[r]) /\ replies'[r][i] = replies[r][i]
  <2>1. CASE replies'[r] = replies[r]
    BY <2>1
  <2>2. ASSUME NEW v, replies'[r] = Append(replies[r], v)
        PROVE  i \in 1 .. Len(replies'[r]) /\ replies'[r][i] = replies[r][i]
    <3>1. /\ Len(replies[r]) \in Nat
          /\ Len(Append(replies[r], v)) = Len(replies[r]) + 1
          /\ \A j \in 1 .. Len(replies[r]) : Append(replies[r], v)[j] = replies[r][j]
      BY DEF RepliesType
    <3> QED BY <2>2, <3>1
  <2> QED BY <2>1, <2>2 DEF RepliesGrow
<1> QED BY <1>1, <1>2 DEF GivenUp

LEMMA RepliesStrayLate ==
  ASSUME RepliesType, RepliesGrow, OnlyLateAnswersStray
  PROVE  OnlyLateAnswersStray'
<1>1. ASSUME NEW r \in Requests, NEW j \in 1 .. Len(replies[r]), NEW f,
             f = replies[r][j].from, f \notin {NoReq, r}
      PROVE  f \in Gone
  <2>1. replies[r][j] \in Replies
    BY DEF RepliesType
  <2>2. f \in Requests
    BY <1>1, <2>1 DEF Replies
  <2>3. GivenUp(f)
    BY <1>1 DEF OnlyLateAnswersStray, GivenUp
  <2> QED BY <2>2, <2>3 DEF Gone
<1>2. ASSUME NEW r \in Requests, NEW i \in 1 .. Len(replies'[r]), NEW f,
             f = replies'[r][i].from, f \notin {NoReq, r}
      PROVE  f \in Gone
  <2>1. CASE replies'[r] = replies[r]
    BY <1>1, <1>2, <2>1
  <2>2. ASSUME NEW v, replies'[r] = Append(replies[r], v), v.from \in {NoReq, r} \cup Gone
        PROVE  f \in Gone
    <3>1. /\ Len(replies[r]) \in Nat
          /\ Len(Append(replies[r], v)) = Len(replies[r]) + 1
          /\ \A j \in 1 .. Len(replies[r]) : Append(replies[r], v)[j] = replies[r][j]
          /\ Append(replies[r], v)[Len(replies[r]) + 1] = v
      BY DEF RepliesType
    <3>2. i \in 1 .. Len(replies[r]) \/ i = Len(replies[r]) + 1
      BY <1>2, <2>2, <3>1
    <3> QED BY <1>1, <1>2, <2>2, <3>1, <3>2
  <2> QED BY <2>1, <2>2 DEF RepliesGrow
<1>3. ASSUME NEW r \in Requests, NEW i \in 1 .. Len(replies'[r]), NEW f,
             f = replies'[r][i].from, f \notin {NoReq, r}
      PROVE  GivenUp(f)'
  BY <1>2, <1>3, GoneGrows DEF Gone
<1> QED BY <1>3 DEF OnlyLateAnswersStray, GivenUp

LEMMA StraysKept ==
  ASSUME TypeOK, Strays, Once(outstanding', mailbox', batch'), Sessionless' => batch' = <<>>,
         \A r : Written(r) => Written(r)', Moved, EntriesKept, RepliesGrow
  PROVE  Strays'
<1>1. Gone \subseteq Gone' /\ OnlyLateAnswersStray'
  BY GoneGrows, RepliesStrayLate DEF TypeOK, Strays
<1>2. ASSUME NEW p \in Flying', p.from # NoReq
      PROVE  (pending_txns'[p.key] = p.from \/ p.from \in Gone') /\ Written(p.from)'
  <2>1. CASE pending_txns'[p.key] = p.from /\ Written(p.from)'
    BY <2>1
  <2>2. ASSUME NEW q \in Flying, q.from = p.from, q.key = p.key
        PROVE  (pending_txns'[p.key] = p.from \/ p.from \in Gone') /\ Written(p.from)'
    <3>1. (pending_txns[p.key] = p.from \/ p.from \in Gone) /\ Written(p.from)
      BY <1>2, <2>2 DEF Strays, Awaited
    <3> QED BY <1>1, <1>2, <3>1 DEF EntriesKept
  <2> QED BY <1>2, <2>1, <2>2 DEF Moved
<1> QED BY <1>1, <1>2 DEF Strays, Awaited

(***************************************************************************)
(* How packets move                                                        *)
(***************************************************************************)
LEMMA OnceFewer ==
  ASSUME NEW out, NEW mb, NEW ps, Once(out, mb, ps), NEW out2, NEW mb2, NEW ps2,
         out2 \subseteq out, Carried(mb2) \subseteq Carried(mb), MailOneEach(mb2),
         Inside(ps2) \subseteq Inside(ps), OneEach(ps2)
  PROVE  Once(out2, mb2, ps2)
  BY DEF Once, Apart

\* Nothing joins what was read, or all that was read.
FewerReads ==
  /\ \/ batch' \in {batch, <<>>}
     \/ batch # <<>> /\ batch' = Tail(batch)
  /\ \/ mailbox' \in {mailbox, <<>>}
     \/ mailbox # <<>> /\ mailbox' = Tail(mailbox)
     \/ \E e : e.packets = <<>> /\ mailbox' = Append(mailbox, e)
Fewer == outstanding' \subseteq outstanding /\ FewerReads

LEMMA NothingInside ==
  /\ Inside(<<>>) = {} /\ OneEach(<<>>) /\ Carried(<<>>) = {} /\ MailOneEach(<<>>)
  BY DEF Inside, OneEach, Carried, MailOneEach

LEMMA FewerAreRead ==
  ASSUME TypeOK, Strays, FewerReads
  PROVE  /\ Inside(batch') \subseteq Inside(batch) /\ OneEach(batch')
         /\ Carried(mailbox') \subseteq Carried(mailbox) /\ MailOneEach(mailbox')
         /\ Once(outstanding, mailbox', batch')
<1>0. /\ batch \in Seq(Packets) /\ mailbox \in Seq(Events)
      /\ OneEach(batch) /\ MailOneEach(mailbox) /\ Once(outstanding, mailbox, batch)
  BY DEF TypeOK, SessionType, MailboxType, Strays, Once
<1>1. Inside(batch') \subseteq Inside(batch) /\ OneEach(batch')
  <2>1. CASE batch' \in {batch, <<>>}
    BY <1>0, <2>1, NothingInside
  <2>2. CASE batch # <<>> /\ batch' = Tail(batch)
    BY <1>0, <2>2, TakePacketInside
  <2> QED BY <2>1, <2>2 DEF FewerReads
<1>2. Carried(mailbox') \subseteq Carried(mailbox) /\ MailOneEach(mailbox')
  <2>1. CASE mailbox' \in {mailbox, <<>>}
    BY <1>0, <2>1, NothingInside
  <2>2. CASE mailbox # <<>> /\ mailbox' = Tail(mailbox)
    BY <1>0, <2>2, TakeEventCarried
  <2>3. ASSUME NEW e, e.packets = <<>>, mailbox' = Append(mailbox, e)
        PROVE  Carried(mailbox') \subseteq Carried(mailbox) /\ MailOneEach(mailbox')
    <3>1. Inside(e.packets) = {} /\ OneEach(e.packets) /\ Apart(Inside(e.packets), Carried(mailbox))
      BY <2>3, NothingInside DEF Apart
    <3> QED BY <1>0, <2>3, <3>1, AddEventCarried
  <2> QED BY <2>1, <2>2, <2>3 DEF FewerReads
<1> QED BY <1>0, <1>1, <1>2, OnceFewer

LEMMA FewerFly ==
  ASSUME TypeOK, Strays, Fewer
  PROVE  Once(outstanding', mailbox', batch') /\ Flying' \subseteq Flying
<1>1. Once(outstanding', mailbox', batch')
  BY FewerAreRead, OnceFewer DEF Fewer
<1> QED BY <1>1, FewerAreRead DEF Flying, Fewer

(* A step that moves nothing but events and packets, or drops them.         *)
LEMMA FewerStrays ==
  ASSUME TypeOK, Strays, Fewer, UNCHANGED sent, Sessionless' => batch' = <<>>,
         EntriesKept, RepliesGrow
  PROVE  Strays'
<1>1. \A r : Written(r) => Written(r)'
  BY DEF Written
<1>2. Moved
  BY FewerFly DEF Moved
<1> QED BY <1>1, <1>2, FewerFly, StraysKept

LEMMA QuietStrays ==
  ASSUME TypeOK, Strays, Fewer, UNCHANGED <<sent, pending_txns, replies>>,
         Sessionless' => batch' = <<>>
  PROVE  Strays'
<1>1. EntriesKept /\ RepliesGrow
  BY DEF EntriesKept, RepliesGrow
<1> QED BY <1>1, FewerStrays

(* What flies and is an answer has a key and is of a request.              *)
LEMMA FlyingType ==
  ASSUME TypeOK, NEW p \in Flying, p.from # NoReq
  PROVE  p.key \in Keys /\ p.from \in Requests
<1>1. CASE p \in outstanding
  BY <1>1 DEF TypeOK, ServerType
<1>2. CASE p \in Packets
  BY <1>2 DEF Packets
<1>3. Inside(batch) \subseteq Packets
  BY DEF Inside, TypeOK, SessionType
<1>4. Carried(mailbox) \subseteq Packets
  <2> SUFFICES ASSUME NEW i \in 1 .. Len(mailbox) PROVE Inside(mailbox[i].packets) \subseteq Packets
    BY DEF Carried
  <2>1. mailbox[i].packets \in Seq(Packets)
    BY EventPackets DEF TypeOK, MailboxType
  <2> QED BY <2>1 DEF Inside
<1> QED BY <1>1, <1>2, <1>3, <1>4 DEF Flying

(***************************************************************************)
(* The steps                                                               *)
(***************************************************************************)
(* What handle_cmd refuses is answered without a packet.                    *)
LEMMA FailureGrows ==
  ASSUME RepliesType, NEW r \in Requests, NEW res, Reply(r, Failure(res))
  PROVE  RepliesGrow
<1>1. /\ replies'[r] = Append(replies[r], Failure(res)) /\ Failure(res).from = NoReq
      /\ \A q \in Requests : q # r => replies'[q] = replies[q]
  BY DEF Reply, Failure, RepliesType
<1> QED BY <1>1 DEF RepliesGrow

LEMMA StoreStrays ==
  ASSUME TypeOK, Strays, ~Sessionless, NEW r \in Requests, ~Written(r), NEW k \in Keys,
         NEW rest, pending_txns[k] = NoReq, pending_txns' = [pending_txns EXCEPT ![k] = r],
         WriteCmd(r, k, rest), UNCHANGED replies,
         mailbox' = mailbox \/ (mailbox # <<>> /\ mailbox' = Tail(mailbox))
  PROVE  Strays'
<1> DEFINE new == [key |-> k, from |-> r]
<1>1. /\ \/ UNCHANGED outstanding /\ sent' \in {sent, Append(sent, r)}
         \/ outstanding' = outstanding \cup {new} /\ sent' = Append(sent, r)
      /\ batch' \in {batch, <<>>} /\ (Sessionless' => batch' = <<>>)
  BY DEF WriteCmd, Continue, EndSession, Sessionless
<1>2. new.key = k /\ new.from = r /\ r # NoReq
  BY RequestAssumption
<1> HIDE DEF new
<1>3. /\ Inside(batch') \subseteq Inside(batch) /\ Carried(mailbox') \subseteq Carried(mailbox)
      /\ Once(outstanding, mailbox', batch')
  BY <1>1, FewerAreRead DEF FewerReads
<1>4. \A p \in Flying : p.from # r
  BY <1>2 DEF Strays
<1>5. /\ \A p \in outstanding \cup Carried(mailbox') \cup Inside(batch') : p.from # r
      /\ outstanding' \subseteq outstanding \cup {new}
  BY <1>1, <1>3, <1>4 DEF Flying
<1>6. Once(outstanding', mailbox', batch')
  <2>1. Apart({new}, Carried(mailbox')) /\ Apart({new}, Inside(batch'))
    BY <1>2, <1>5 DEF Apart
  <2>2. Apart(outstanding', Carried(mailbox')) /\ Apart(outstanding', Inside(batch'))
    BY <1>3, <1>5, <2>1 DEF Once, Apart
  <2>3. \A p, q \in outstanding' : p.from = q.from => p = q
    BY <1>2, <1>3, <1>5 DEF Once
  <2> QED BY <1>3, <2>2, <2>3 DEF Once
<1>7. /\ \A q : Written(q) => Written(q)'
      /\ sent' = Append(sent, r) => Written(r)'
  <2>1. CASE UNCHANGED sent
    <3>1. sent # Append(sent, r)
      BY DEF TypeOK, HistoryType
    <3> QED BY <2>1, <3>1 DEF Written
  <2>2. CASE sent' = Append(sent, r)
    <3>1. /\ Len(sent) \in Nat /\ Len(sent') = Len(sent) + 1
          /\ \A i \in 1 .. Len(sent) : sent'[i] = sent[i]
          /\ sent'[Len(sent) + 1] = r
      BY <2>2 DEF TypeOK, HistoryType
    <3> QED BY <2>2, <3>1 DEF Written
  <2> QED BY <1>1, <2>1, <2>2
<1>8. pending_txns'[k] = r /\ \A l \in Keys : l # k => pending_txns'[l] = pending_txns[l]
  BY DEF TypeOK, TxnType
<1>9. ASSUME NEW p \in Flying'
      PROVE  p \in Flying \/ (p = new /\ sent' = Append(sent, r))
  BY <1>1, <1>3 DEF Flying
<1>10. Moved
  BY <1>2, <1>7, <1>8, <1>9 DEF Moved
<1>11. EntriesKept
  <2> SUFFICES ASSUME NEW p \in Flying', p.from # NoReq, pending_txns[p.key] = p.from
               PROVE  pending_txns'[p.key] = p.from
    BY DEF EntriesKept
  <2>1. CASE p = new
    BY <1>2, <1>8, <2>1
  <2>2. CASE p \in Flying
    <3>1. p.key \in Keys /\ p.key # k
      BY <2>2, FlyingType
    <3> QED BY <1>8, <3>1
  <2> QED BY <1>9, <2>1, <2>2
<1>12. RepliesGrow
  BY DEF RepliesGrow
<1> QED BY <1>1, <1>6, <1>7, <1>10, <1>11, <1>12, StraysKept

LEMMA HandleCmdStrays ==
  ASSUME TypeOK, Strays, ~Sessionless, NEW r \in Requests, ~Written(r), NEW rest,
         HandleCmd(r, rest),
         mailbox' = mailbox \/ (mailbox # <<>> /\ mailbox' = Tail(mailbox))
  PROVE  Strays'
<1>1. CASE RejectName(r, rest) \/ DuplicateMailOp(r, rest) \/ TxnExhausted(r)
  <2>1. PICK res : Reply(r, Failure(res))
    BY <1>1 DEF RejectName, DuplicateMailOp, TxnExhausted
  <2>2. RepliesGrow
    BY <2>1, FailureGrows DEF TypeOK
  <2>3. /\ UNCHANGED <<sent, pending_txns, outstanding>> /\ batch' \in {batch, <<>>}
        /\ Sessionless' => batch' = <<>>
    BY <1>1 DEF RejectName, DuplicateMailOp, TxnExhausted, Continue, EndSession, txnVars,
                serverVars, Sessionless
  <2>4. Fewer /\ EntriesKept
    BY <2>3 DEF Fewer, FewerReads, EntriesKept
  <2> QED BY <2>2, <2>3, <2>4, FewerStrays
<1>2. CASE PushTxn(r, rest)
  <2> PICK i \in FreeProbes :
        /\ pending_txns' = [pending_txns EXCEPT ![Probe(i)] = r]
        /\ WriteCmd(r, Probe(i), rest)
    BY <1>2 DEF PushTxn
  <2>1. Probe(i) \in Keys /\ pending_txns[Probe(i)] = NoReq
    BY ProbeIsTxnId DEF FreeProbes, TypeOK, TxnType, Keys
  <2> QED BY <1>2, <2>1, StoreStrays DEF PushTxn
<1>3. CASE PushMailOp(r, rest)
  <2>1. MailOf[r] \in Keys
    BY KindAssumption DEF Keys
  <2> QED BY <1>3, <2>1, StoreStrays DEF PushMailOp
<1> QED BY <1>1, <1>2, <1>3 DEF HandleCmd

(* A read is taken from the mailbox.                                       *)
LEMMA ReadStrays ==
  ASSUME TypeOK, Strays, ~Sessionless', mailbox # <<>>, mailbox' = Tail(mailbox),
         Head(mailbox).packets # <<>>,
         batch' \in {Head(mailbox).packets, Tail(Head(mailbox).packets)},
         UNCHANGED <<outstanding, sent, pending_txns, replies>>
  PROVE  Strays'
<1> PICK ps : ps = Head(mailbox).packets
  OBVIOUS
<1>0. ps \in Seq(Packets) /\ mailbox \in Seq(Events)
  BY MailboxHead, EventPackets DEF TypeOK, MailboxType
<1>1. /\ Inside(ps) \subseteq Carried(mailbox) /\ OneEach(ps)
      /\ Carried(mailbox') \subseteq Carried(mailbox) /\ MailOneEach(mailbox')
      /\ Apart(Carried(mailbox'), Inside(ps))
  BY <1>0, TakeEventCarried DEF Strays, Once
<1>2. Inside(batch') \subseteq Inside(ps) /\ OneEach(batch')
  BY <1>0, <1>1, TakePacketInside
<1>3. Once(outstanding', mailbox', batch')
  BY <1>1, <1>2 DEF Strays, Once, Apart
<1>4. Flying' \subseteq Flying
  BY <1>1, <1>2 DEF Flying
<1>5. Moved /\ EntriesKept /\ RepliesGrow /\ \A q : Written(q) => Written(q)'
  BY <1>4 DEF Moved, EntriesKept, RepliesGrow, Written
<1> QED BY <1>3, <1>5, StraysKept

(* An answer is given to whoever has the entry under its key: if that is not *)
(* the request it was given for, then that one was given up, and the one     *)
(* that gets it is given up from now on.                                   *)
LEMMA ResolveStrays ==
  ASSUME TypeOK, Strays, NEW type \in Responses, TakePacket(type), Resolve, NextPacket
  PROVE  Strays'
<1> PICK p : p = Head(batch)
  OBVIOUS
<1>0. /\ batch # <<>> /\ batch' = Tail(batch) /\ UNCHANGED <<outstanding, mailbox, sent, pc>>
      /\ pc \in {"replay", "loop"}
  BY DEF TakePacket, NextPacket, serverVars
<1>1. /\ p \in Inside(batch) /\ Apart({p}, Inside(batch'))
      /\ Inside(batch') \subseteq Inside(batch)
  BY <1>0, TakePacketInside DEF TypeOK, SessionType, Strays, Once
<1>2. p.key \in Keys /\ p.from \in Requests /\ p.from # NoReq /\ p.type \in Responses
  <2>1. p \in Packets /\ p.type = type
    BY <1>0 DEF TakePacket, TypeOK, SessionType
  <2>2. type \notin PacketTypes
    BY DEF Responses, PacketTypes
  <2> QED BY <2>1, <2>2, RequestAssumption DEF Packets
<1>3. pending_txns[p.key] = p.from \/ p.from \in Gone
  BY <1>1, <1>2 DEF Strays, Flying, Awaited
<1>4. \A q \in Flying' : q.from # p.from
  <2>1. \A q \in outstanding \cup Carried(mailbox) : q.from # p.from
    BY <1>1, <1>2 DEF Strays, Once, Apart
  <2>2. \A q \in Inside(batch') : q.from # p.from
    BY <1>1, <1>2 DEF Apart
  <2> QED BY <1>0, <2>1, <2>2 DEF Flying
<1> PICK r : r = pending_txns[p.key]
  OBVIOUS
<1>5. r \in Requests \cup {NoReq}
  BY <1>2 DEF TypeOK, TxnType
<1>6. CASE r = NoReq
  <2>1. UNCHANGED <<replies, pending_txns>>
    BY <1>6 DEF Resolve
  <2>2. Fewer /\ ~Sessionless'
    BY <1>0 DEF Fewer, FewerReads, Sessionless
  <2> QED BY <1>0, <2>1, <2>2, QuietStrays
<1>7. CASE r # NoReq
  <2> PICK v : v = [res |-> p.type, from |-> p.from]
    OBVIOUS
  <2>1. /\ Reply(r, v) /\ v.from = p.from /\ r \in Requests
        /\ pending_txns' = [pending_txns EXCEPT ![p.key] = NoReq]
    BY <1>5, <1>7 DEF Resolve
  <2>2. /\ replies'[r] = Append(replies[r], v)
        /\ \A q \in Requests : q # r => replies'[q] = replies[q]
    BY <2>1 DEF Reply, TypeOK, RepliesType
  <2>3. RepliesGrow
    BY <1>3, <2>1, <2>2 DEF RepliesGrow
  <2>4. p.from # r => r \in Gone'
    <3> SUFFICES ASSUME p.from # r PROVE GivenUp(r)'
      BY <2>1 DEF Gone
    <3>1. replies[r] \in Seq(Replies)
      BY <2>1 DEF TypeOK, RepliesType
    <3>2. /\ Len(replies'[r]) = Len(replies[r]) + 1 /\ Len(replies[r]) \in Nat
          /\ replies'[r][Len(replies[r]) + 1] = v
      BY <2>2, <3>1
    <3>3. Len(replies[r]) + 1 \in 1 .. Len(replies'[r])
      BY <3>2
    <3> QED BY <1>2, <2>1, <3>2, <3>3 DEF GivenUp
  <2>5. \A k \in Keys : k # p.key => pending_txns'[k] = pending_txns[k]
    BY <2>1 DEF TypeOK, TxnType
  <2>6. Fewer /\ ~Sessionless'
    BY <1>0 DEF Fewer, FewerReads, Sessionless
  <2>7. EntriesKept
    <3> SUFFICES ASSUME NEW q \in Flying', q.from # NoReq, pending_txns[q.key] = q.from
                 PROVE  pending_txns'[q.key] = q.from \/ q.from \in Gone'
      BY DEF EntriesKept
    <3>1. q.key \in Keys
      BY <2>6, FewerFly, FlyingType
    <3>2. CASE q.key = p.key
      BY <1>4, <2>4, <3>2
    <3> QED BY <2>5, <3>1, <3>2
  <2> QED BY <1>0, <2>3, <2>6, <2>7, FewerStrays
<1> QED BY <1>6, <1>7

LEMMA PacketStrays ==
  ASSUME TypeOK, Strays,
         RespPulse \/ RespNext \/ RespAckMail \/ RespHeartbeatAck
           \/ RespNewMail \/ RespGoodbye
  PROVE  Strays'
<1>1. CASE RespPulse \/ RespNext \/ RespAckMail
  <2>1. PICK type \in Responses : TakePacket(type) /\ Resolve /\ NextPacket
    BY <1>1 DEF RespPulse, RespNext, RespAckMail, Responses
  <2> QED BY <2>1, ResolveStrays
<1>2. CASE RespHeartbeatAck \/ RespNewMail \/ RespGoodbye
  <2>1. /\ UNCHANGED <<outstanding, mailbox, sent, pending_txns, replies>> /\ batch # <<>>
        /\ batch' \in {Tail(batch), <<>>} /\ (Sessionless' => batch' = <<>>)
    BY <1>2 DEF RespHeartbeatAck, RespNewMail, RespGoodbye, TakePacket, NextPacket,
                EndSession, serverVars, Sessionless
  <2>2. Fewer
    BY <2>1 DEF Fewer, FewerReads
  <2> QED BY <2>1, <2>2, QuietStrays
<1> QED BY <1>1, <1>2

LEMMA AuthStrays ==
  ASSUME TypeOK, Strays,
         SendConnect \/ AuthBuffer \/ AuthConnected \/ AuthRefused
           \/ AuthBroken \/ AuthTimeout
  PROVE  Strays'
<1>0. UNCHANGED <<outstanding, sent, pending_txns, replies>>
  BY DEF SendConnect, AuthBuffer, AuthConnected, AuthRefused, AuthBroken, AuthTimeout,
         AuthEvent, txnVars, serverVars
<1>1. CASE AuthConnected
  <2>1. /\ mailbox # <<>> /\ mailbox' = Tail(mailbox) /\ Head(mailbox).type = "recv"
        /\ batch' = Tail(Head(mailbox).packets) /\ ~Sessionless'
    BY <1>1 DEF AuthConnected, AuthEvent, Sessionless
  <2>2. Head(mailbox).packets # <<>>
    BY <2>1, MailboxHead, EventShape DEF TypeOK
  <2> QED BY <1>0, <2>1, <2>2, ReadStrays
<1>2. CASE SendConnect \/ AuthBuffer \/ AuthRefused \/ AuthBroken \/ AuthTimeout
  <2>1. /\ batch' \in {batch, <<>>} /\ (Sessionless' => batch' = <<>>)
        /\ mailbox' = mailbox \/ (mailbox # <<>> /\ mailbox' = Tail(mailbox))
    BY <1>2 DEF SendConnect, AuthBuffer, AuthRefused, AuthBroken, AuthTimeout, AuthEvent,
                EndSession, Sessionless
  <2>2. Fewer
    BY <1>0, <2>1 DEF Fewer, FewerReads
  <2> QED BY <1>0, <2>1, <2>2, QuietStrays
<1> QED BY <1>1, <1>2

(* A command that is buffered or in the mailbox was not written yet.        *)
LEMMA ReplayStrays ==
  ASSUME TypeOK, AcceptedOnce, Line, Strays, Replay \/ ReplayDone \/ StartLoop
  PROVE  Strays'
<1>0. UNCHANGED mailbox /\ ~Sessionless
  BY DEF Replay, ReplayDone, StartLoop, Sessionless
<1>1. CASE Replay
  <2>1. /\ HandleCmd(Head(buffered_cmds), Tail(buffered_cmds)) /\ buffered_cmds # <<>>
        /\ Head(buffered_cmds) \in Requests
    BY <1>1 DEF Replay, TypeOK, SessionType
  <2> PICK r \in Requests : r = Head(buffered_cmds)
    BY <2>1
  <2> PICK rest : rest = Tail(buffered_cmds)
    OBVIOUS
  <2>2. Buffered(r)
    <3>1. 1 \in 1 .. Len(buffered_cmds) /\ buffered_cmds[1] = r
      BY <2>1 DEF TypeOK, SessionType
    <3> QED BY <3>1 DEF Buffered
  <2>3. ~Written(r)
    BY <2>2, WrittenIsGone DEF TypeOK
  <2> QED BY <1>0, <2>1, <2>3, HandleCmdStrays
<1>2. CASE ReplayDone \/ StartLoop
  <2>1. /\ UNCHANGED <<outstanding, sent, pending_txns, replies, batch>> /\ ~Sessionless'
    BY <1>2 DEF ReplayDone, StartLoop, txnVars, serverVars, Sessionless
  <2>2. Fewer
    BY <1>0, <2>1 DEF Fewer, FewerReads
  <2> QED BY <2>1, <2>2, QuietStrays
<1> QED BY <1>1, <1>2

(* Who is told of a timeout is given up.                                   *)
LEMMA RefreshStrays ==
  ASSUME TypeOK, Strays, LoopRefresh
  PROVE  Strays'
<1>1. /\ mailbox # <<>> /\ mailbox' = Tail(mailbox) /\ UNCHANGED <<outstanding, sent, batch>>
      /\ ~Sessionless'
  BY DEF LoopRefresh, LoopEvent, sessionVars, serverVars, Sessionless
<1>2. Fewer
  BY <1>1 DEF Fewer, FewerReads
<1>3. RepliesGrow
  <2>1. Failure("timeout").from = NoReq
    BY DEF Failure
  <2> QED BY <2>1 DEF LoopRefresh, RepliesGrow
<1>4. EntriesKept
  <2> SUFFICES ASSUME NEW p \in Flying', p.from # NoReq, pending_txns[p.key] = p.from
               PROVE  pending_txns'[p.key] = p.from \/ p.from \in Gone'
    BY DEF EntriesKept
  <2> PICK r : r = p.from
    OBVIOUS
  <2>1. p.key \in Keys /\ r \in Requests
    BY <1>2, FewerFly, FlyingType
  <2>2. CASE p.key \notin old
    BY <2>1, <2>2 DEF LoopRefresh
  <2>3. CASE p.key \in old
    <3>1. replies'[r] = Append(replies[r], Failure("timeout"))
      BY <2>1, <2>3 DEF LoopRefresh
    <3>2. /\ Len(replies'[r]) = Len(replies[r]) + 1 /\ Len(replies[r]) \in Nat
          /\ replies'[r][Len(replies[r]) + 1] = Failure("timeout")
      BY <2>1, <3>1 DEF TypeOK, RepliesType
    <3>3. Len(replies[r]) + 1 \in 1 .. Len(replies'[r])
      BY <3>2
    <3>4. GivenUp(r)'
      BY <3>2, <3>3 DEF GivenUp, Failure
    <3> QED BY <2>1, <3>4 DEF Gone
  <2> QED BY <2>2, <2>3
<1> QED BY <1>1, <1>2, <1>3, <1>4, FewerStrays

LEMMA LoopStrays ==
  ASSUME TypeOK, AcceptedOnce, Line, Strays,
         LoopCmd \/ LoopRecv \/ LoopRefresh \/ LoopHeartbeat \/ LoopBroken
           \/ LoopHalted \/ DropLogic
  PROVE  Strays'
<1>1. CASE LoopCmd
  <2>0. /\ mailbox # <<>> /\ mailbox' = Tail(mailbox) /\ LoopEvent("cmd") /\ ~Sessionless
    BY <1>1 DEF LoopCmd, LoopEvent, Sessionless
  <2>1. HandleCmd(Head(mailbox).req, buffered_cmds) /\ Head(mailbox).req \in Requests
    BY <1>1, <2>0, LoopEventType, EventShape DEF LoopCmd
  <2> PICK r \in Requests : r = Head(mailbox).req
    BY <2>1
  <2> PICK rest : rest = buffered_cmds
    OBVIOUS
  <2>2. Queued(r)
    <3>1. 1 \in 1 .. Len(mailbox) /\ mailbox[1].req = r
      BY <2>0 DEF TypeOK, MailboxType
    <3> QED BY <3>1 DEF Queued
  <2>3. ~Written(r)
    BY <2>2, WrittenIsGone DEF TypeOK
  <2> QED BY <2>0, <2>1, <2>3, HandleCmdStrays
<1>2. CASE LoopRecv
  <2>1. /\ mailbox # <<>> /\ mailbox' = Tail(mailbox) /\ Head(mailbox).type = "recv"
        /\ batch' = Head(mailbox).packets /\ ~Sessionless'
        /\ UNCHANGED <<outstanding, sent, pending_txns, replies>>
    BY <1>2 DEF LoopRecv, LoopEvent, Sessionless, txnVars, serverVars
  <2>2. Head(mailbox).packets # <<>>
    BY <2>1, MailboxHead, EventShape DEF TypeOK
  <2> QED BY <2>1, <2>2, ReadStrays
<1>3. CASE LoopHeartbeat \/ LoopBroken \/ LoopHalted
  <2>1. /\ batch' \in {batch, <<>>} /\ (Sessionless' => batch' = <<>>)
        /\ mailbox' = mailbox \/ (mailbox # <<>> /\ mailbox' = Tail(mailbox))
        /\ UNCHANGED <<outstanding, sent, pending_txns, replies>>
    BY <1>3 DEF LoopHeartbeat, LoopBroken, LoopHalted, LoopEvent, EndSession, sessionVars,
                Sessionless, txnVars, serverVars
  <2>2. Fewer
    BY <2>1 DEF Fewer, FewerReads
  <2> QED BY <2>1, <2>2, QuietStrays
<1>4. CASE DropLogic
  <2>1. /\ batch' = <<>> /\ mailbox' = <<>> /\ outstanding' = {}
        /\ UNCHANGED <<sent, replies>>
    BY <1>4 DEF DropLogic, Strays, Sessionless
  <2>2. Fewer
    BY <2>1 DEF Fewer, FewerReads
  <2>3. Flying' = {}
    BY <2>1, NothingInside DEF Flying
  <2>4. EntriesKept /\ RepliesGrow
    BY <2>1, <2>3 DEF EntriesKept, RepliesGrow
  <2> QED BY <2>1, <2>2, <2>4, FewerStrays
<1> QED BY <1>1, <1>2, <1>3, <1>4, RefreshStrays

(* The server sends each answer once, and its other packets answer nobody.  *)
LEMMA DeliverStrays ==
  ASSUME TypeOK, Strays, NEW p, Deliver(p), outstanding' \subseteq outstanding,
         \/ p.from = NoReq
         \/ \E q \in outstanding : /\ p.from = q.from /\ p.key = q.key
                                   /\ q \notin outstanding'
  PROVE  Strays'
<1>0. /\ UNCHANGED <<pc, batch, pending_txns, replies, sent>> /\ mailbox \in Seq(Events)
      /\ MailOneEach(mailbox)
  BY DEF Deliver, sessionVars, txnVars, TypeOK, MailboxType, Strays, Once
<1>1. /\ Apart({p}, Carried(mailbox)) /\ Apart(outstanding', {p}) /\ Apart({p}, Inside(batch))
  BY DEF Strays, Once, Apart
<1>2. Carried(mailbox') \subseteq Carried(mailbox) \cup {p} /\ MailOneEach(mailbox')
  <2>1. CASE mailbox' = Append(mailbox, RecvEvent(p))
    <3> PICK e : e = RecvEvent(p)
      OBVIOUS
    <3>1. Inside(e.packets) = {p} /\ OneEach(e.packets)
      BY DEF RecvEvent, Inside, OneEach
    <3>2. Apart(Inside(e.packets), Carried(mailbox))
      BY <1>1, <3>1
    <3> QED BY <1>0, <2>1, <3>1, <3>2, AddEventCarried
  <2>2. CASE /\ mailbox # <<>>
             /\ mailbox' = [mailbox EXCEPT ![Len(mailbox)].packets = Append(@, p)]
    <3> PICK put : put = mailbox'
      OBVIOUS
    <3>1. put = [mailbox EXCEPT ![Len(mailbox)].packets = Append(@, p)]
      BY <2>2
    <3>2. Carried(put) \subseteq Carried(mailbox) \cup {p} /\ MailOneEach(put)
      BY <1>0, <1>1, <2>2, <3>1, PutPacketCarried
    <3> QED BY <3>2
  <2> QED BY <2>1, <2>2 DEF Deliver
<1>3. Once(outstanding', mailbox', batch')
  BY <1>0, <1>1, <1>2 DEF Strays, Once, Apart
<1>4. Flying' \subseteq Flying \cup {p}
  BY <1>0, <1>2 DEF Flying
<1>5. Moved
  BY <1>4 DEF Moved, Flying
<1>6. EntriesKept /\ RepliesGrow /\ \A q : Written(q) => Written(q)'
  BY <1>0 DEF EntriesKept, RepliesGrow, Written
<1>7. Sessionless' => batch' = <<>>
  BY <1>0 DEF Strays, Sessionless
<1> QED BY <1>3, <1>5, <1>6, <1>7, StraysKept

LEMMA OthersStray ==
  ASSUME TypeOK, Strays,
         \/ Timer \/ Server \/ \E k \in Keys : Age(k)
         \/ \E r \in Requests : Accept(r) \/ Refuse(r)
         \/ UNCHANGED logicVars
  PROVE  Strays'
<1>1. CASE Timer \/ Garbage \/ SocketEnds
  <2>1. PICK type : mailbox' = Append(mailbox, Event(type))
    BY <1>1 DEF Timer, TimerRefresh, TimerHeartbeat, TimerGiveUp, Garbage, SocketEnds
  <2>2. Event(type).packets = <<>>
    BY DEF Event
  <2>3. UNCHANGED <<pc, batch, sent, pending_txns, replies>> /\ outstanding' \subseteq outstanding
    BY <1>1 DEF Timer, TimerRefresh, TimerHeartbeat, TimerGiveUp, timerUnchanged, Garbage,
                SocketEnds, sessionVars, txnVars, serverVars
  <2>4. Fewer /\ (Sessionless' => batch' = <<>>)
    BY <2>1, <2>2, <2>3 DEF Fewer, FewerReads, Strays, Sessionless
  <2> QED BY <2>3, <2>4, QuietStrays
<1>2. CASE (\E k \in Keys : Age(k)) \/ UNCHANGED logicVars
  <2>1. UNCHANGED <<pc, batch, mailbox, sent, pending_txns, replies, outstanding>>
    BY <1>2 DEF Age, timerUnchanged, logicVars, sessionVars, txnVars, serverVars
  <2>2. Fewer /\ (Sessionless' => batch' = <<>>)
    BY <2>1 DEF Fewer, FewerReads, Strays, Sessionless
  <2> QED BY <2>1, <2>2, QuietStrays
<1>3. ASSUME NEW r \in Requests, Accept(r) PROVE Strays'
  <2>1. /\ UNCHANGED <<pc, batch, sent, pending_txns, replies, outstanding>>
        /\ mailbox' = Append(mailbox, CmdEvent(r)) /\ CmdEvent(r).packets = <<>>
    BY <1>3 DEF Accept, sessionVars, txnVars, serverVars, CmdEvent
  <2>2. Fewer /\ (Sessionless' => batch' = <<>>)
    BY <2>1 DEF Fewer, FewerReads, Strays, Sessionless
  <2> QED BY <2>1, <2>2, QuietStrays
<1>4. ASSUME NEW r \in Requests, Refuse(r) PROVE Strays'
  <2>1. UNCHANGED <<pc, batch, mailbox, sent, pending_txns, outstanding>>
    BY <1>4 DEF Refuse, sessionVars, txnVars, serverVars
  <2>2. Fewer /\ (Sessionless' => batch' = <<>>) /\ EntriesKept
    BY <2>1 DEF Fewer, FewerReads, Strays, Sessionless, EntriesKept
  <2>3. RepliesGrow
    BY <1>4, FailureGrows DEF Refuse, TypeOK
  <2> QED BY <2>1, <2>2, <2>3, FewerStrays
<1>5. CASE ServerConnect \/ ServerHeartbeatAck \/ ServerPush
  <2>1. PICK type : Deliver(Packet(type)) /\ UNCHANGED outstanding
    BY <1>5 DEF ServerConnect, ServerHeartbeatAck, ServerPush
  <2>2. Packet(type).from = NoReq
    BY DEF Packet
  <2> QED BY <2>1, <2>2, DeliverStrays
<1>6. CASE ServerAnswer
  <2> PICK q \in outstanding :
        /\ outstanding' = outstanding \ {q}
        /\ Deliver([type |-> RespType(q.from), key |-> q.key, from |-> q.from])
    BY <1>6 DEF ServerAnswer
  <2> PICK p : p = [type |-> RespType(q.from), key |-> q.key, from |-> q.from]
    OBVIOUS
  <2>1. p.from = q.from /\ p.key = q.key
    OBVIOUS
  <2> QED BY <2>1, DeliverStrays
<1> QED BY <1>1, <1>2, <1>3, <1>4, <1>5, <1>6 DEF Server

LEMMA StrayStep ==
  TypeOK /\ AcceptedOnce /\ Line /\ Strays /\ [LogicNext]_logicVars
    => (AcceptedOnce /\ Strays)'
<1> SUFFICES ASSUME TypeOK, AcceptedOnce, Line, Strays, [LogicNext]_logicVars
             PROVE  AcceptedOnce' /\ Strays'
  OBVIOUS
<1>1. AcceptedOnce'
  <2>1. UNCHANGED submitted \/ \E r \in Requests : Accept(r)
    <3>1. LogicThread => UNCHANGED submitted
      BY DEF LogicThread, SendConnect, AuthBuffer, AuthConnected, AuthRefused, AuthBroken,
             AuthTimeout, AuthEvent, Replay, ReplayDone, StartLoop, RespPulse, RespNext,
             RespAckMail, RespHeartbeatAck, RespNewMail, RespGoodbye, TakePacket, LoopCmd,
             LoopRecv, LoopRefresh, LoopHeartbeat, LoopBroken, LoopHalted, LoopEvent, DropLogic
    <3>2. Timer \/ Server \/ (\E k \in Keys : Age(k)) => UNCHANGED submitted
      BY DEF Timer, TimerRefresh, TimerHeartbeat, TimerGiveUp, timerUnchanged, Age, Server,
             ServerConnect, ServerAnswer, ServerHeartbeatAck, ServerPush, Garbage, SocketEnds,
             Deliver
    <3> QED BY <3>1, <3>2 DEF LogicNext, Refuse, logicVars
  <2> QED BY <2>1, AcceptOnce DEF TypeOK, AcceptedOnce
<1>2. CASE LogicThread
  BY <1>1, <1>2, AuthStrays, ReplayStrays, PacketStrays, LoopStrays DEF LogicThread
<1>3. CASE ~LogicThread
  BY <1>1, <1>3, OthersStray DEF LogicNext
<1> QED BY <1>1, <1>2, <1>3

LEMMA InitStrays == LogicInit => AcceptedOnce /\ Strays
  BY NothingInside
  DEF LogicInit, AcceptedOnce, Strays, Once, Apart, Flying, Sessionless, OnlyLateAnswersStray

(* Mail operations are keyed by the mail and transaction ids come round, and *)
(* yet an answer settles another request than its own only once that one was *)
(* given up, for any number of requests, mails and ids, and however late the *)
(* answers are.                                                            *)
THEOREM OnlyLateAnswersStrayInvariant == LogicSpec => []OnlyLateAnswersStray
<1>1. LogicInit => TypeOK /\ Ownership /\ Line /\ AcceptedOnce /\ Strays
  BY InitType, InitOwns, InitLine, InitStrays
<1>2. TypeOK /\ Ownership /\ Line /\ AcceptedOnce /\ Strays /\ [LogicNext]_logicVars
        => (TypeOK /\ Ownership /\ Line /\ AcceptedOnce /\ Strays)'
  BY NextType, NextOwns, LineStep, StrayStep
<1>3. Strays => OnlyLateAnswersStray
  BY DEF Strays
<1> QED BY <1>1, <1>2, <1>3, PTL DEF LogicSpec

-----------------------------------------------------------------------------
(***************************************************************************)
(* The contract.  Every step of LogicSpec is a step of RequestReply or       *)
(* leaves its variables alone.  That no return channel is ever in two places  *)
(* was shown above; what is new here is the other direction: no step of a    *)
(* live session lets one go without an answer.                              *)
(***************************************************************************)

(***************************************************************************)
(* Nothing gets lost on the way                                            *)
(***************************************************************************)
(* Taking the head of the mailbox takes that channel alone.                 *)
LEMMA TakeKeepsQueued ==
  ASSUME MailboxType, mailbox # <<>>, mailbox' = Tail(mailbox)
  PROVE  \A r \in Requests : Queued(r) => Queued(r)' \/ Head(mailbox).req = r
<1>1. /\ Len(mailbox) \in Nat /\ Len(mailbox) >= 1
      /\ Len(mailbox') = Len(mailbox) - 1
      /\ \A i \in 1 .. Len(mailbox') : mailbox'[i] = mailbox[i + 1]
      /\ Head(mailbox) = mailbox[1]
  BY DEF MailboxType
<1> TAKE r \in Requests
<1> SUFFICES ASSUME Queued(r), Head(mailbox).req # r PROVE Queued(r)'
  OBVIOUS
<1>2. PICK i \in 1 .. Len(mailbox) : mailbox[i].req = r
  BY DEF Queued
<1>3. i - 1 \in 1 .. Len(mailbox') /\ mailbox'[i - 1].req = r
  BY <1>1, <1>2
<1> QED BY <1>3 DEF Queued

(* What joins the mailbox moves nothing that is in it.                      *)
LEMMA AddKeepsQueued ==
  ASSUME MailboxType, NEW e, mailbox' = Append(mailbox, e)
  PROVE  /\ \A r \in Requests : Queued(r) => Queued(r)'
         /\ \A r \in Requests : e.req = r => Queued(r)'
<1>1. /\ Len(mailbox) \in Nat /\ Len(mailbox') = Len(mailbox) + 1
      /\ \A i \in 1 .. Len(mailbox) : mailbox'[i] = mailbox[i]
      /\ mailbox'[Len(mailbox) + 1] = e
  BY DEF MailboxType
<1> QED BY <1>1 DEF Queued

LEMMA DeliverKeepsQueued ==
  ASSUME MailboxType, NEW p \in Packets, Deliver(p)
  PROVE  \A r \in Requests : Queued(r) => Queued(r)'
<1>1. CASE mailbox' = Append(mailbox, RecvEvent(p))
  BY <1>1, AddKeepsQueued
<1>2. CASE /\ mailbox # <<>>
           /\ mailbox' = [mailbox EXCEPT ![Len(mailbox)].packets = Append(@, p)]
  <2>1. mailbox \in Seq(Events) /\ Len(mailbox) \in 1 .. Len(mailbox)
    BY <1>2 DEF MailboxType
  <2>2. DOMAIN mailbox = 1 .. Len(mailbox) /\ Len(mailbox') = Len(mailbox)
    BY <1>2, <2>1
  <2>3. [mailbox[Len(mailbox)] EXCEPT !.packets = Append(@, p)].req
          = mailbox[Len(mailbox)].req
    BY <2>1 DEF Events
  <2>4. \A i \in 1 .. Len(mailbox) : mailbox'[i].req = mailbox[i].req
    BY <1>2, <2>1, <2>2, <2>3
  <2> QED BY <2>2, <2>4 DEF Queued
<1> QED BY <1>1, <1>2 DEF Deliver

(* The same for buffered_cmds.                                             *)
LEMMA TakeKeepsBuffered ==
  ASSUME SessionType, buffered_cmds # <<>>, buffered_cmds' = Tail(buffered_cmds)
  PROVE  \A r \in Requests :
           Buffered(r) => Buffered(r)' \/ Head(buffered_cmds) = r
<1>1. /\ Len(buffered_cmds) \in Nat /\ Len(buffered_cmds) >= 1
      /\ Len(buffered_cmds') = Len(buffered_cmds) - 1
      /\ \A i \in 1 .. Len(buffered_cmds') : buffered_cmds'[i] = buffered_cmds[i + 1]
      /\ Head(buffered_cmds) = buffered_cmds[1]
  BY DEF SessionType
<1> TAKE r \in Requests
<1> SUFFICES ASSUME Buffered(r), Head(buffered_cmds) # r PROVE Buffered(r)'
  OBVIOUS
<1>2. PICK i \in 1 .. Len(buffered_cmds) : buffered_cmds[i] = r
  BY DEF Buffered
<1>3. i - 1 \in 1 .. Len(buffered_cmds') /\ buffered_cmds'[i - 1] = r
  BY <1>1, <1>2
<1> QED BY <1>3 DEF Buffered

(* handle_cmd answers its command or stores the channel, and gives up none   *)
(* of the other entries.                                                   *)
LEMMA HandleCmdKeeps ==
  ASSUME TypeOK, NEW r \in Requests, NEW rest, HandleCmd(r, rest),
         replies[r] = <<>>
  PROVE  /\ \A q \in Requests : Pending(q) => Pending(q)'
         /\ Pending(r)' \/ replies'[r] # <<>>
         /\ pc' = "ended" \/ (pc' = pc /\ buffered_cmds' = rest)
<1> USE DEF TypeOK
<1>1. ASSUME NEW res, Reply(r, Failure(res)), UNCHANGED pending_txns,
             Continue(rest) \/ EndSession("force_close")
      PROVE  /\ \A q \in Requests : Pending(q) => Pending(q)'
             /\ replies'[r] # <<>>
             /\ pc' = "ended" \/ (pc' = pc /\ buffered_cmds' = rest)
  <2>1. Len(replies'[r]) = 1
    BY <1>1, FirstReply
  <2> QED BY <1>1, <2>1 DEF Pending, Continue, EndSession
<1>2. ASSUME NEW k \in Keys, pending_txns[k] = NoReq, WriteCmd(r, k, rest),
             pending_txns' = [pending_txns EXCEPT ![k] = r]
      PROVE  /\ \A q \in Requests : Pending(q) => Pending(q)'
             /\ Pending(r)'
             /\ pc' = "ended" \/ (pc' = pc /\ buffered_cmds' = rest)
  <2>1. Pending(r)' /\ \A q \in Requests : Pending(q) => Pending(q)'
    BY <1>2, RequestAssumption DEF TxnType, Pending
  <2> QED BY <1>2, <2>1 DEF WriteCmd, Continue, EndSession
<1>3. CASE RejectName(r, rest)
  BY <1>1, <1>3 DEF RejectName, txnVars
<1>4. CASE PushTxn(r, rest)
  <2>1. PICK i \in FreeProbes :
          /\ pending_txns' = [pending_txns EXCEPT ![Probe(i)] = r]
          /\ WriteCmd(r, Probe(i), rest)
    BY <1>4 DEF PushTxn
  <2>2. i \in Nat /\ pending_txns[Probe(i)] = NoReq
    BY DEF FreeProbes
  <2>3. Probe(i) \in Keys
    BY <2>2, ProbeIsTxnId DEF TxnType, Keys
  <2> QED BY <1>2, <2>1, <2>2, <2>3
<1>5. CASE TxnExhausted(r)
  BY <1>1, <1>5 DEF TxnExhausted
<1>6. CASE DuplicateMailOp(r, rest)
  BY <1>1, <1>6 DEF DuplicateMailOp, txnVars
<1>7. CASE PushMailOp(r, rest)
  <2>1. MailOf[r] \in Keys
    BY KindAssumption DEF Keys
  <2> QED BY <1>2, <1>7, <2>1 DEF PushMailOp
<1> QED BY <1>3, <1>4, <1>5, <1>6, <1>7 DEF HandleCmd

(***************************************************************************)
(* What a step does to one request                                         *)
(***************************************************************************)
\* a step that accepts nothing: the channel is kept, answered or dropped ...
Served(r) ==
  /\ Submitted(r)' <=> Submitted(r)
  /\ Held(r)' => Held(r)
  /\ \/ replies'[r] = replies[r]
     \/ Held(r) /\ replies'[r] # <<>>
\* ... and not dropped without an answer
NotLost(r) == Held(r) => Held(r)' \/ replies'[r] # <<>>
Untouched(r) ==
  /\ Submitted(r)' <=> Submitted(r)
  /\ Held(r)' <=> Held(r)
  /\ replies'[r] = replies[r]

(* A step that leaves the commands where they are.                          *)
LEMMA Still ==
  ASSUME UNCHANGED <<buffered_cmds, pending_txns, replies, submitted>>,
         \A r \in Requests : Queued(r)' <=> Queued(r)
  PROVE  \A r \in Requests : Untouched(r)
<1>1. \A r \in Requests : Buffered(r)' <=> Buffered(r)
  BY DEF Buffered
<1>2. \A r \in Requests : Pending(r)' <=> Pending(r)
  BY DEF Pending
<1>3. \A r \in Requests : Submitted(r)' <=> Submitted(r)
  BY DEF Submitted
<1> QED BY <1>1, <1>2, <1>3 DEF Untouched, Held

(* A step that ends the session and answers nobody.                         *)
LEMMA Ending ==
  ASSUME EndSession(reason'), UNCHANGED <<pending_txns, replies, submitted>>,
         \A r \in Requests : Queued(r)' => Queued(r)
  PROVE  Sessionless' /\ \A r \in Requests : Served(r)
<1>1. Sessionless' /\ \A r \in Requests : ~Buffered(r)'
  BY DropBuffered DEF EndSession, Sessionless
<1>2. \A r \in Requests : Pending(r)' <=> Pending(r)
  BY DEF Pending
<1>3. \A r \in Requests : Submitted(r)' <=> Submitted(r)
  BY DEF Submitted
<1> QED BY <1>1, <1>2, <1>3 DEF Served, Held

(* A live session's thread                                                 *)
LEMMA AuthServes ==
  ASSUME TypeOK, Ownership,
         SendConnect \/ AuthBuffer \/ AuthConnected \/ AuthRefused
           \/ AuthBroken \/ AuthTimeout
  PROVE  /\ ~Sessionless
         /\ \A r \in Requests : Served(r)
         /\ ~Sessionless' => \A r \in Requests : NotLost(r)
<1> USE DEF TypeOK, Ownership, SoleOwner
<1>1. ~Sessionless
  BY DEF SendConnect, AuthBuffer, AuthConnected, AuthRefused, AuthBroken,
         AuthTimeout, AuthEvent, Sessionless
<1>2. ASSUME UNCHANGED <<buffered_cmds, pending_txns, replies, submitted>>,
             \A r \in Requests : Queued(r)' <=> Queued(r)
      PROVE  \A r \in Requests : Served(r) /\ NotLost(r)
  BY <1>2, Still DEF Untouched, Served, NotLost
<1>3. CASE SendConnect
  <2>1. UNCHANGED <<pending_txns, replies, submitted, mailbox>>
    BY <1>3 DEF SendConnect, txnVars
  <2>2. \A r \in Requests : Queued(r)' <=> Queued(r)
    BY <2>1, SameMailbox
  <2>3. UNCHANGED buffered_cmds \/ EndSession(reason')
    BY <1>3 DEF SendConnect, EndSession
  <2> QED BY <1>1, <1>2, <2>1, <2>2, <2>3, Ending
<1>4. CASE AuthTimeout
  <2>1. EndSession(reason') /\ UNCHANGED <<pending_txns, replies, submitted, mailbox>>
    BY <1>4 DEF AuthTimeout, txnVars, EndSession
  <2> QED BY <1>1, <2>1, Ending, SameMailbox
<1>5. CASE AuthRefused \/ AuthBroken
  <2>1. PICK type : AuthEvent(type)
    BY <1>5 DEF AuthRefused, AuthBroken
  <2>2. EndSession(reason')
    BY <1>5 DEF AuthRefused, AuthBroken, EndSession
  <2>3. \A r \in Requests : Queued(r)' => Queued(r)
    BY <2>1, TakeHead DEF AuthEvent
  <2> QED BY <1>1, <2>1, <2>2, <2>3, Ending DEF AuthEvent, txnVars
<1>6. CASE AuthConnected
  <2>1. AuthEvent("recv") /\ UNCHANGED buffered_cmds
    BY <1>6 DEF AuthConnected
  <2>2. Head(mailbox).req = NoReq
    BY <2>1, MailboxHead, EventShape DEF AuthEvent
  <2>3. \A r \in Requests : Queued(r)' <=> Queued(r)
    BY <2>1, <2>2, TakeHead, TakeKeepsQueued, RequestAssumption DEF AuthEvent
  <2>4. UNCHANGED <<pending_txns, replies, submitted>>
    BY <2>1 DEF AuthEvent, txnVars
  <2> QED BY <1>1, <1>2, <2>1, <2>3, <2>4
<1>7. CASE AuthBuffer
  <2>1. AuthEvent("cmd") /\ buffered_cmds' = Append(buffered_cmds, Head(mailbox).req)
    BY <1>7 DEF AuthBuffer
  <2>2. /\ Len(buffered_cmds) \in Nat
        /\ Len(buffered_cmds') = Len(buffered_cmds) + 1
        /\ \A i \in 1 .. Len(buffered_cmds) : buffered_cmds'[i] = buffered_cmds[i]
        /\ buffered_cmds'[Len(buffered_cmds) + 1] = Head(mailbox).req
    <3>1. Head(mailbox).req \in Requests
      BY <2>1, MailboxHead, EventShape DEF AuthEvent
    <3> QED BY <2>1, <3>1 DEF SessionType
  <2>3. \A r \in Requests : Buffered(r)' <=> Buffered(r) \/ Head(mailbox).req = r
    BY <2>2 DEF Buffered
  <2>4. \A r \in Requests : Queued(r) <=> Queued(r)' \/ Head(mailbox).req = r
    BY <2>1, TakeHead, TakeKeepsQueued DEF AuthEvent
  <2>5. \A r \in Requests : Pending(r)' <=> Pending(r)
    BY <2>1 DEF AuthEvent, txnVars, Pending
  <2>6. \A r \in Requests : Submitted(r)' <=> Submitted(r)
    BY <2>1 DEF AuthEvent, Submitted
  <2>7. UNCHANGED replies
    BY <2>1 DEF AuthEvent
  <2> QED BY <1>1, <2>3, <2>4, <2>5, <2>6, <2>7 DEF Served, NotLost, Held
<1> QED BY <1>3, <1>4, <1>5, <1>6, <1>7

(* The step that hands command r to handle_cmd, from wherever r was.        *)
LEMMA HandOverServes ==
  ASSUME TypeOK, Ownership, NEW r \in Requests, NEW rest \in Seq(Requests),
         HandleCmd(r, rest), Held(r), ~Pending(r), UNCHANGED submitted,
         \A q \in Requests : Queued(q)' => Queued(q),
         \A q \in Requests : Queued(q) => Queued(q)' \/ q = r,
         \A q \in Requests : Buffered(q)' => Buffered(q),
         buffered_cmds' = rest =>
           \A q \in Requests : Buffered(q) => Buffered(q)' \/ q = r
  PROVE  /\ \A q \in Requests : Served(q)
         /\ ~Sessionless' => \A q \in Requests : NotLost(q)
<1>1. replies[r] = <<>> /\ PendingOnce
  BY DEF Ownership, SoleOwner
<1>2. /\ \A q \in Requests : Pending(q) => Pending(q)'
      /\ Pending(r)' \/ replies'[r] # <<>>
      /\ pc' = "ended" \/ buffered_cmds' = rest
  BY <1>1, HandleCmdKeeps
<1>3. /\ \A q \in Requests : q # r => /\ Pending(q)' => Pending(q)
                                      /\ replies'[q] = replies[q]
      /\ replies'[r] = <<>> \/ Len(replies'[r]) = 1
  BY <1>1, HandleCmdOwns
<1>4. \A q \in Requests : Submitted(q)' <=> Submitted(q)
  BY DEF Submitted
<1>5. Served(r)
  BY <1>1, <1>3, <1>4 DEF Served
<1>6. \A q \in Requests : q # r => Served(q)
  BY <1>3, <1>4 DEF Served, Held
<1>7. ASSUME ~Sessionless', NEW q \in Requests PROVE NotLost(q)
  <2>1. buffered_cmds' = rest
    BY <1>2, <1>7 DEF Sessionless
  <2> QED BY <1>2, <2>1 DEF NotLost, Held
<1> QED BY <1>5, <1>6, <1>7

LEMMA ReplayServes ==
  ASSUME TypeOK, Ownership, Replay \/ ReplayDone \/ StartLoop
  PROVE  /\ ~Sessionless
         /\ \A r \in Requests : Served(r)
         /\ ~Sessionless' => \A r \in Requests : NotLost(r)
<1> USE DEF TypeOK, Ownership, SoleOwner
<1>1. ~Sessionless
  BY DEF Replay, ReplayDone, StartLoop, Sessionless
<1>2. CASE Replay
  <2>0. Head(buffered_cmds) \in Requests
    BY <1>2 DEF Replay, SessionType
  <2> PICK r \in Requests : r = Head(buffered_cmds)
    BY <2>0
  <2>1. Tail(buffered_cmds) \in Seq(Requests)
    BY <1>2 DEF Replay, SessionType
  <2>2. HandleCmd(r, Tail(buffered_cmds)) /\ buffered_cmds # <<>>
    BY <1>2 DEF Replay
  <2>3. buffered_cmds' = Tail(buffered_cmds) \/ buffered_cmds' = <<>>
    BY <2>2
    DEF HandleCmd, RejectName, PushTxn, TxnExhausted, DuplicateMailOp,
        PushMailOp, WriteCmd, Continue, EndSession
  <2>4. Buffered(r) /\ \A q \in Requests : Buffered(q)' => Buffered(q)
    BY <2>1, <2>2, <2>3, TakeBuffered
  <2>5. ~Pending(r) /\ Held(r)
    BY <2>1, <2>4 DEF InOnePlace, Held
  <2>6. UNCHANGED submitted /\ \A q \in Requests : Queued(q)' <=> Queued(q)
    BY <1>2, <2>1, <2>5, SameMailbox DEF Replay
  <2>7. buffered_cmds' = Tail(buffered_cmds) =>
          \A q \in Requests : Buffered(q) => Buffered(q)' \/ q = r
    BY <2>2, TakeKeepsBuffered
  <2>8. \A q \in Requests : Queued(q)' => Queued(q)
    BY <2>6
  <2>9. \A q \in Requests : Queued(q) => Queued(q)' \/ q = r
    BY <2>6
  <2> HIDE DEF TypeOK, Ownership, SoleOwner
  <2> QED BY <1>1, <2>1, <2>2, <2>4, <2>5, <2>6, <2>7, <2>8, <2>9, HandOverServes
<1>3. CASE ReplayDone \/ StartLoop
  <2>1. UNCHANGED <<buffered_cmds, pending_txns, replies, submitted>>
    BY <1>3 DEF ReplayDone, StartLoop, txnVars
  <2>2. \A r \in Requests : Queued(r)' <=> Queued(r)
    BY <1>3, SameMailbox DEF ReplayDone, StartLoop
  <2> QED BY <1>1, <2>1, <2>2, Still DEF Untouched, Served, NotLost
<1> QED BY <1>2, <1>3

LEMMA PacketServes ==
  ASSUME TypeOK, Ownership,
         RespPulse \/ RespNext \/ RespAckMail \/ RespHeartbeatAck
           \/ RespNewMail \/ RespGoodbye
  PROVE  /\ ~Sessionless
         /\ \A r \in Requests : Served(r)
         /\ ~Sessionless' => \A r \in Requests : NotLost(r)
<1> USE DEF TypeOK, Ownership, SoleOwner
<1>1. /\ ~Sessionless /\ UNCHANGED submitted
      /\ \A r \in Requests : Queued(r)' <=> Queued(r)
  BY SameMailbox
  DEF RespPulse, RespNext, RespAckMail, RespHeartbeatAck, RespNewMail,
      RespGoodbye, TakePacket, Sessionless
<1>2. CASE RespPulse \/ RespNext \/ RespAckMail
  <2>1. Resolve /\ UNCHANGED buffered_cmds
    BY <1>2 DEF RespPulse, RespNext, RespAckMail, NextPacket
  <2>2. Head(batch).key \in Keys
    <3>1. Head(batch) \in Packets /\ Head(batch).type \in Responses
      BY <1>2
      DEF RespPulse, RespNext, RespAckMail, TakePacket, SessionType, Responses
    <3> QED BY <3>1 DEF Packets, Responses, PacketTypes
  <2> PICK k \in Keys : k = Head(batch).key
    BY <2>2
  <2>3. CASE pending_txns[k] = NoReq
    BY <1>1, <2>1, <2>3, Still DEF Resolve, Untouched, Served, NotLost
  <2>4. CASE pending_txns[k] # NoReq
    <3> PICK r : r = pending_txns[k]
      OBVIOUS
    <3>1. PICK v : Reply(r, v) /\ pending_txns' = [pending_txns EXCEPT ![k] = NoReq]
      BY <2>1, <2>4 DEF Resolve
    <3>2. r \in Requests /\ Pending(r)
      BY <2>4 DEF TxnType, Pending
    <3>3. \A q \in Requests : Pending(q)' => Pending(q)
      BY <3>1, ClearPending
    <3>4. \A q \in Requests : Pending(q) => Pending(q)' \/ q = r
      BY <3>1, <3>2 DEF TxnType, Pending
    <3>5. /\ Len(replies'[r]) = 1
          /\ \A q \in Requests : q # r => replies'[q] = replies[q]
      BY <3>1, <3>2, FirstReply DEF Held
    <3>6. \A q \in Requests : Buffered(q)' <=> Buffered(q)
      BY <2>1 DEF Buffered
    <3>7. \A q \in Requests : Submitted(q)' <=> Submitted(q)
      BY <1>1 DEF Submitted
    <3>8. replies'[r] # <<>>
      BY <3>5
    <3> HIDE DEF TypeOK, Ownership, SoleOwner
    <3> QED BY <1>1, <3>2, <3>3, <3>4, <3>5, <3>6, <3>7, <3>8
            DEF Served, NotLost, Held
  <2> QED BY <2>3, <2>4
<1>3. CASE RespHeartbeatAck \/ RespNewMail \/ RespGoodbye
  <2>1. UNCHANGED <<pending_txns, replies, submitted>>
    BY <1>1, <1>3 DEF RespHeartbeatAck, RespNewMail, RespGoodbye
  <2>2. UNCHANGED buffered_cmds \/ EndSession(reason')
    BY <1>3 DEF RespHeartbeatAck, RespNewMail, RespGoodbye, NextPacket, EndSession
  <2> QED BY <1>1, <2>1, <2>2, Still, Ending DEF Untouched, Served, NotLost
<1> QED BY <1>2, <1>3

LEMMA LoopServes ==
  ASSUME TypeOK, Ownership,
         LoopCmd \/ LoopRecv \/ LoopRefresh \/ LoopHeartbeat \/ LoopBroken
           \/ LoopHalted
  PROVE  /\ ~Sessionless
         /\ \A r \in Requests : Served(r)
         /\ ~Sessionless' => \A r \in Requests : NotLost(r)
<1> USE DEF TypeOK, Ownership, SoleOwner
<1>1. ~Sessionless
  BY DEF LoopCmd, LoopRecv, LoopRefresh, LoopHeartbeat, LoopBroken, LoopHalted,
         LoopEvent, Sessionless
<1>2. ASSUME NEW type, LoopEvent(type), type # "cmd"
      PROVE  \A r \in Requests : Queued(r)' <=> Queued(r)
  <2>1. Head(mailbox).req = NoReq
    BY <1>2, MailboxHead, EventShape DEF LoopEvent
  <2> QED BY <1>2, <2>1, TakeHead, TakeKeepsQueued, RequestAssumption DEF LoopEvent
<1>3. CASE LoopCmd
  <2>0. LoopEvent("cmd") /\ Head(mailbox).req \in Requests
    BY <1>3, LoopEventType, EventShape DEF LoopCmd
  <2> PICK r \in Requests : r = Head(mailbox).req
    BY <2>0
  <2>1. /\ Queued(r) /\ \A q \in Requests : Queued(q)' => Queued(q)
        /\ \A q \in Requests : Queued(q) => Queued(q)' \/ q = r
    BY <2>0, TakeHead, TakeKeepsQueued DEF LoopEvent
  <2>2. ~Pending(r) /\ Held(r)
    BY <2>1 DEF InOnePlace, Held
  <2>3. HandleCmd(r, buffered_cmds)
    BY <1>3 DEF LoopCmd
  <2>4. buffered_cmds' = buffered_cmds \/ buffered_cmds' = <<>>
    BY <2>3
    DEF HandleCmd, RejectName, PushTxn, TxnExhausted, DuplicateMailOp,
        PushMailOp, WriteCmd, Continue, EndSession
  <2>5. \A q \in Requests : Buffered(q)' => Buffered(q)
    BY <2>4, DropBuffered DEF Buffered
  <2>6. buffered_cmds' = buffered_cmds =>
          \A q \in Requests : Buffered(q) => Buffered(q)' \/ q = r
    BY DEF Buffered
  <2>7. buffered_cmds \in Seq(Requests) /\ UNCHANGED submitted
    BY <2>0 DEF SessionType, LoopEvent
  <2> HIDE DEF TypeOK, Ownership, SoleOwner
  <2> QED BY <1>1, <2>1, <2>2, <2>3, <2>5, <2>6, <2>7, HandOverServes
<1>4. CASE LoopRecv \/ LoopHeartbeat \/ LoopBroken
  <2>1. PICK type : LoopEvent(type) /\ type # "cmd"
    BY <1>4 DEF LoopRecv, LoopHeartbeat, LoopBroken
  <2>2. UNCHANGED <<pending_txns, replies, submitted>>
    BY <1>4, <2>1 DEF LoopRecv, LoopHeartbeat, LoopBroken, LoopEvent, txnVars
  <2>3. UNCHANGED buffered_cmds \/ EndSession(reason')
    BY <1>4 DEF LoopRecv, LoopHeartbeat, LoopBroken, EndSession, sessionVars
  <2>4. \A r \in Requests : Queued(r)' <=> Queued(r)
    BY <1>2, <2>1
  <2> QED BY <1>1, <2>2, <2>3, <2>4, Still, Ending DEF Untouched, Served, NotLost
<1>5. CASE LoopHalted
  <2>1. EndSession(reason') /\ UNCHANGED <<pending_txns, replies, submitted, mailbox>>
    BY <1>5 DEF LoopHalted, EndSession, txnVars
  <2> QED BY <1>1, <2>1, SameMailbox, Ending
<1>6. CASE LoopRefresh
  <2>1. \A r \in Requests : Queued(r)' <=> Queued(r)
    BY <1>2, <1>6 DEF LoopRefresh
  <2>2. /\ \A r \in Requests : Buffered(r)' <=> Buffered(r)
        /\ \A r \in Requests : Submitted(r)' <=> Submitted(r)
    BY <1>6 DEF LoopRefresh, LoopEvent, sessionVars, Buffered, Submitted
  <2>3. \A k \in Keys : pending_txns'[k] = IF k \in old THEN NoReq ELSE pending_txns[k]
    BY <1>6 DEF LoopRefresh
  <2>4. \A r \in Requests : Pending(r)' => Pending(r)
    BY <2>3, RequestAssumption DEF Pending
  <2>5. ASSUME NEW r \in Requests, NEW k \in old, pending_txns[k] = r
        PROVE  Served(r) /\ NotLost(r)
    <3>1. Pending(r) /\ replies[r] = <<>>
      BY <2>5 DEF TxnType, Pending, Held
    <3>2. replies'[r] # <<>>
      BY <1>6, <2>5, <3>1 DEF LoopRefresh
    <3> QED BY <2>1, <2>2, <2>4, <3>1, <3>2 DEF Served, NotLost, Held
  <2>6. ASSUME NEW r \in Requests, \A k \in old : pending_txns[k] # r
        PROVE  Served(r) /\ NotLost(r)
    <3>1. replies'[r] = replies[r]
      BY <1>6, <2>6 DEF LoopRefresh
    <3>2. Pending(r) => Pending(r)'
      BY <2>3, <2>6 DEF Pending
    <3> QED BY <2>1, <2>2, <2>4, <3>1, <3>2 DEF Served, NotLost, Held
  <2> QED BY <1>1, <2>5, <2>6
<1> QED BY <1>3, <1>4, <1>5, <1>6

(* The timer, the socket and the server reach no channel.                   *)
LEMMA EnvironmentTouchesNothing ==
  ASSUME TypeOK, Ownership, Timer \/ Server \/ \E k \in Keys : Age(k)
  PROVE  pc' = pc /\ \A r \in Requests : Untouched(r)
<1> USE DEF TypeOK
<1>1. UNCHANGED <<pc, buffered_cmds, pending_txns, replies, submitted>>
  BY DEF Timer, TimerRefresh, TimerHeartbeat, TimerGiveUp, timerUnchanged, Age,
         Server, ServerConnect, ServerAnswer, ServerHeartbeatAck, ServerPush,
         Garbage, SocketEnds, Deliver, sessionVars, txnVars
<1>2. ASSUME NEW type \in {"garbage", "close", "refresh", "heartbeat"},
             mailbox' = Append(mailbox, Event(type))
      PROVE  \A r \in Requests : Queued(r)' <=> Queued(r)
  <2>1. Event(type) \in Events /\ Event(type).req = NoReq
    BY Constructors DEF Event
  <2>2. /\ Len(mailbox) \in Nat /\ Len(mailbox') = Len(mailbox) + 1
        /\ \A i \in 1 .. Len(mailbox) : mailbox'[i] = mailbox[i]
        /\ mailbox'[Len(mailbox) + 1].req = NoReq
    BY <1>2, <2>1 DEF MailboxType
  <2> QED BY <2>2, RequestAssumption DEF Queued
<1>3. CASE Timer
  <2>1. PICK type \in {"close", "refresh", "heartbeat"} :
          mailbox' = Append(mailbox, Event(type))
    BY <1>3 DEF Timer, TimerRefresh, TimerHeartbeat, TimerGiveUp
  <2> QED BY <1>1, <1>2, <2>1, Still
<1>4. CASE \E k \in Keys : Age(k)
  <2>1. \A r \in Requests : Queued(r)' <=> Queued(r)
    BY <1>4 DEF Age, Queued
  <2> QED BY <1>1, <2>1, Still
<1>5. CASE Garbage \/ SocketEnds
  <2>1. PICK type \in {"garbage", "close"} :
          mailbox' = Append(mailbox, Event(type))
    BY <1>5 DEF Garbage, SocketEnds
  <2> QED BY <1>1, <1>2, <2>1, Still
<1>6. CASE ServerConnect \/ ServerAnswer \/ ServerHeartbeatAck \/ ServerPush
  <2>1. PICK p \in Packets : Deliver(p)
    BY <1>6, ServerDelivers
  <2>2. \A r \in Requests : Queued(r) => Queued(r)'
    BY <2>1, DeliverKeepsQueued
  <2>3. \A r \in Requests : Queued(r)' => Queued(r)
    BY <2>1, AddPacket DEF Ownership, SoleOwner
  <2> QED BY <1>1, <2>2, <2>3, Still
<1> QED BY <1>3, <1>4, <1>5, <1>6 DEF Server

(***************************************************************************)
(* The mapping                                                             *)
(***************************************************************************)
St == [r \in Requests |-> Status(r)]

(* Ownership makes Held the open requests of the contract.                  *)
LEMMA OpenIsHeld ==
  ASSUME Ownership, NEW r \in Requests
  PROVE  Status(r) = "open" <=> Held(r)
  BY DEF Ownership, Status

(* What happened to a request is what happened to its status.               *)
LEMMA ServedStatus ==
  ASSUME Ownership, Ownership', NEW r \in Requests, Served(r)
  PROVE  \/ Status(r)' = Status(r)
         \/ Status(r) = "open" /\ Status(r)' = "answered"
         \/ Status(r) = "open" /\ Status(r)' = "lost" /\ ~NotLost(r)
<1>1. CASE Held(r)
  BY <1>1 DEF Served, NotLost, Status, Ownership
<1>2. CASE ~Held(r)
  BY <1>2 DEF Served, Status, Ownership
<1> QED BY <1>1, <1>2

LEMMA UntouchedStatus ==
  ASSUME NEW r \in Requests, Untouched(r)
  PROVE  Status(r)' = Status(r)
  BY DEF Untouched, Status

LEMMA ContractStutter ==
  ASSUME Sessionless' <=> Sessionless, \A r \in Requests : Status(r)' = Status(r)
  PROVE  UNCHANGED Contract!vars
<1>1. Sessionless' = Sessionless
  BY DEF Sessionless
<1>2. St' = St
  BY DEF St
<1> QED BY <1>1, <1>2 DEF Contract!vars, St

(* A step of the thread of a live session.                                 *)
LEMMA ContractServes ==
  ASSUME Ownership, Ownership', ~Sessionless,
         \A r \in Requests : Served(r),
         ~Sessionless' => \A r \in Requests : NotLost(r)
  PROVE  Contract!Answer \/ Contract!Close
<1> DEFINE A == {r \in Requests : St[r] = "open" /\ Status(r)' = "answered"}
           L == {r \in Requests : St[r] = "open" /\ Status(r)' = "lost"}
<1>1. \A r \in Requests : St[r] = Status(r)
  BY DEF St
<1>2. A \in SUBSET Contract!With("open") /\ L \in SUBSET (Contract!With("open") \ A)
  BY <1>1 DEF Contract!With, St
<1>3. \A r \in Requests :
        Status(r)' = IF r \in A THEN "answered" ELSE IF r \in L THEN "lost" ELSE St[r]
  BY <1>1, ServedStatus
<1>4. Contract!Mark(A, L)
  <2>1. St' = [r \in Requests |-> IF r \in A THEN "answered"
                                  ELSE IF r \in L THEN "lost" ELSE St[r]]
    BY <1>3 DEF St
  <2> QED BY <2>1 DEF Contract!Mark, St
<1>5. CASE Sessionless'
  BY <1>2, <1>4, <1>5 DEF Contract!Close
<1>6. CASE ~Sessionless'
  <2>1. L = {}
    BY <1>1, <1>6, ServedStatus
  <2>2. Sessionless' = Sessionless
    BY <1>6 DEF Sessionless
  <2> QED BY <1>2, <1>4, <2>1, <2>2 DEF Contract!Answer
<1> QED BY <1>5, <1>6

(* A dropped session has no channel left: all that is open is lost.         *)
LEMMA ContractDrops ==
  ASSUME Ownership, Line, DropLogic
  PROVE  Contract!Lose
<1>1. Sessionless /\ Sessionless' = Sessionless
  BY DEF DropLogic, Sessionless
<1>2. ASSUME NEW r \in Requests
      PROVE  Status(r)' = IF Status(r) = "open" THEN "lost" ELSE Status(r)
  <2>1. ~Held(r)'
    BY <1>1, RequestAssumption
    DEF DropLogic, NoPending, Line, BufferEmptied, Held, Queued, Pending, Buffered
  <2>2. replies'[r] = replies[r] /\ (Submitted(r)' <=> Submitted(r))
    BY DEF DropLogic, Submitted
  <2> QED BY <2>1, <2>2 DEF Status, Ownership
<1>3. \A r \in Requests : St[r] = Status(r)
  BY DEF St
<1>4. St' = [r \in Requests |-> IF r \in {} THEN "answered"
                                ELSE IF r \in Contract!With("open") THEN "lost"
                                ELSE St[r]]
  BY <1>2, <1>3 DEF St, Contract!With
<1> QED BY <1>1, <1>4 DEF Contract!Lose, Contract!Mark, St

(* The callers: a command the mailbox takes is asked, one it does not take   *)
(* was refused by a session that is over.                                  *)
LEMMA ContractAsks ==
  ASSUME TypeOK, Ownership, NEW r \in Requests,
         Accept(r) \/ (pc = "dropped" /\ Refuse(r))
  PROVE  Contract!Ask(r) \/ Contract!Refuse(r)
<1>1. Status(r) = "new" /\ \A q \in Requests : St[q] = Status(q)
  BY DEF Accept, Refuse, Fresh, Status, Ownership, St
<1>2. Sessionless' = Sessionless
  BY DEF Accept, Refuse, sessionVars, Sessionless
<1>3. /\ \A q \in Requests : Buffered(q)' <=> Buffered(q)
      /\ \A q \in Requests : Pending(q)' <=> Pending(q)
  BY DEF Accept, Refuse, sessionVars, txnVars, Buffered, Pending
<1>4. CASE Accept(r)
  <2>1. /\ Len(mailbox) \in Nat /\ Len(mailbox') = Len(mailbox) + 1
        /\ \A i \in 1 .. Len(mailbox) : mailbox'[i] = mailbox[i]
        /\ mailbox'[Len(mailbox) + 1].req = r
    BY <1>4 DEF Accept, TypeOK, MailboxType, CmdEvent
  <2>2. /\ Len(submitted) \in Nat /\ Len(submitted') = Len(submitted) + 1
        /\ \A i \in 1 .. Len(submitted) : submitted'[i] = submitted[i]
        /\ submitted'[Len(submitted) + 1] = r
    BY <1>4 DEF Accept, TypeOK, HistoryType
  <2>3. \A q \in Requests : Queued(q)' <=> Queued(q) \/ q = r
    BY <2>1 DEF Queued
  <2>4. \A q \in Requests : Submitted(q)' <=> Submitted(q) \/ q = r
    BY <2>2 DEF Submitted
  <2>5. \A q \in Requests : Status(q)' = IF q = r THEN "open" ELSE Status(q)
    BY <1>3, <1>4, <2>3, <2>4 DEF Accept, Fresh, Status, Held
  <2>6. St' = [St EXCEPT ![r] = "open"]
    BY <1>1, <2>5 DEF St
  <2> QED BY <1>1, <1>2, <2>6 DEF Contract!Ask, St
<1>5. CASE pc = "dropped" /\ Refuse(r)
  <2>1. \A q \in Requests : Queued(q)' <=> Queued(q)
    BY <1>5 DEF Refuse, Queued
  <2>2. \A q \in Requests : Submitted(q)' <=> Submitted(q)
    BY <1>5 DEF Refuse, Submitted
  <2>3. Len(replies'[r]) = 1 /\ \A q \in Requests : q # r => replies'[q] = replies[q]
    BY <1>5, FirstReply DEF TypeOK, Refuse, Fresh
  <2>4. \A q \in Requests : Status(q)' = IF q = r THEN "answered" ELSE Status(q)
    BY <1>3, <2>1, <2>2, <2>3 DEF Status, Held
  <2>5. St' = [St EXCEPT ![r] = "answered"]
    BY <1>1, <2>4 DEF St
  <2> QED BY <1>1, <1>2, <1>5, <2>5 DEF Contract!Refuse, Sessionless, St
<1> QED BY <1>4, <1>5

(***************************************************************************)
(* The theorem                                                             *)
(***************************************************************************)
LEMMA ContractInit == LogicInit => Contract!Init
<1> SUFFICES ASSUME LogicInit PROVE Contract!Init
  OBVIOUS
<1>1. \A r \in Requests : Status(r) = "new"
  BY RequestAssumption
  DEF LogicInit, Status, Held, Queued, Buffered, Pending, NoPending, Submitted
<1>2. Sessionless = FALSE
  BY DEF LogicInit, Sessionless
<1> QED BY <1>1, <1>2 DEF Contract!Init

LEMMA ContractStep ==
  ASSUME TypeOK, Ownership, Ownership', Line, [LogicNext]_logicVars
  PROVE  [Contract!Next]_(Contract!vars)
<1>1. CASE DropLogic
  BY <1>1, ContractDrops DEF Contract!Next
<1>2. CASE LogicThread /\ ~DropLogic
  <2>1. /\ ~Sessionless
        /\ \A r \in Requests : Served(r)
        /\ ~Sessionless' => \A r \in Requests : NotLost(r)
    BY <1>2, AuthServes, ReplayServes, PacketServes, LoopServes DEF LogicThread
  <2> QED BY <2>1, ContractServes DEF Contract!Next
<1>3. CASE Timer \/ Server \/ \E k \in Keys : Age(k)
  <2>1. pc' = pc /\ \A r \in Requests : Untouched(r)
    BY <1>3, EnvironmentTouchesNothing
  <2> QED BY <2>1, UntouchedStatus, ContractStutter DEF Sessionless
<1>4. CASE \E r \in Requests : Accept(r) \/ (pc = "dropped" /\ Refuse(r))
  BY <1>4, ContractAsks DEF Contract!Next
<1>5. CASE UNCHANGED logicVars
  <2>1. \A r \in Requests : Untouched(r)
    BY <1>5 DEF logicVars, sessionVars, txnVars, Untouched, Submitted, Held,
                Queued, Buffered, Pending
  <2>2. pc' = pc
    BY <1>5 DEF logicVars, sessionVars
  <2> QED BY <2>1, <2>2, UntouchedStatus, ContractStutter DEF Sessionless
<1> QED BY <1>1, <1>2, <1>3, <1>4, <1>5 DEF LogicNext

(* A session keeps the contract, whatever the number of requests and of      *)
(* transaction ids: a command is answered once, stays open while the session *)
(* lives, and is lost only with the session that held it.                   *)
THEOREM SessionImplementsContract == LogicSpec => ImplementsRequestReply
<1>1. LogicInit => TypeOK /\ Ownership /\ Line /\ Contract!Init
  BY InitType, InitOwns, InitLine, ContractInit
<1>2. TypeOK /\ Ownership /\ Line /\ [LogicNext]_logicVars
        => /\ (TypeOK /\ Ownership /\ Line)'
           /\ [Contract!Next]_(Contract!vars)
  BY NextType, NextOwns, LineStep, ContractStep
<1> QED BY <1>1, <1>2, PTL DEF LogicSpec, ImplementsRequestReply, Contract!Spec
=============================================================================
