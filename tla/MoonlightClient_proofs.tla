----------------------- MODULE MoonlightClient_proofs -----------------------
(***************************************************************************)
(* Proofs about MoonlightClient, for all values of its constants: what      *)
(* holds across one session after another.  What a step inside a session    *)
(* does is shown in ClientLogic_proofs; here it is                           *)
(* joined to what the thread of start, the HTTP threads and stop do between  *)
(* the sessions.                                                           *)
(***************************************************************************)
EXTENDS MoonlightClient, ClientLogic_proofs, FiniteSetTheorems

(***************************************************************************)
(* The inductive invariant                                                 *)
(***************************************************************************)
Outside == {"idle", "connecting", "connected", "unpublished", "backoff", "sleep",
            "stopped"}

\* Without a session nothing is left of the last one, and nothing of the next
\* one is there yet but what its socket has to tell.
AtRest ==
  /\ pc \in Outside \cup {"dropped"} =>
       /\ pending_txns = NoPending /\ outstanding = {} /\ unacked = 0
       /\ \A i \in 1 .. Len(mailbox) : mailbox[i].req = NoReq
       /\ socket = "up" => pc = "connected"
  /\ pc \in Outside \cup {"dropped", "ended"} => batch = <<>> /\ buffered_cmds = <<>>
  /\ pc \in {"connecting", "connected"} =>
       /\ connect = "unsent" /\ sent = <<>> /\ next_txn_id = 0
       /\ \A i \in 1 .. Len(mailbox) : mailbox[i].packets = <<>>

\* A mailbox is published for as long as there is somebody to read it, and
\* until start has noticed that there is not.
Published ==
  /\ mailbox_chan => pc \in LogicPhases
  /\ pc \in LogicPhases \ {"dropped"} => mailbox_chan

\* via is the session that took a command.
TakenBy ==
  /\ session = 0 => pc \in {"idle", "stopped"}
  /\ \A r \in Requests :
       /\ via[r] # 0 <=> Submitted(r)
       /\ via[r] <= session
       /\ pc \in {"connecting", "connected"} => via[r] # session

\* The flag of connected() and the last notification, at every place of the
\* thread.
LastDown == notify = <<>> \/ notify[Len(notify)] = "disconnected"
FlagAndNotice ==
  /\ authenticated => pc \in {"loop", "ended", "dropped", "unpublished"} /\ ~LastDown
  /\ pc = "loop" => authenticated
  /\ pc \in {"replay", "authed", "loop"} => ~LastDown
  /\ pc \in {"idle", "connecting", "connected", "hello", "auth", "sleep", "stopped"}
       => LastDown

(***************************************************************************)
(* Types                                                                   *)
(***************************************************************************)
CallerType ==
  /\ shutdown_flag \in BOOLEAN /\ stop \in {"idle", "flagged", "done"}
  /\ mailbox_chan \in BOOLEAN /\ authenticated \in BOOLEAN
  /\ disconnected_reason \in Reasons
  /\ session \in 0 .. MaxSessions
  /\ http \in [Requests -> {"idle", "ready", "waiting"} \cup Final]
  /\ via \in [Requests -> 0 .. MaxSessions]

\* The types of the variables of a session, wherever the thread is.
DataType ==
  /\ reason \in Reasons /\ batch \in Seq(Packets) /\ buffered_cmds \in Seq(Requests)
  /\ TxnType /\ ServerType /\ TimerType
  /\ RepliesType /\ MailboxType /\ HistoryType /\ NotifyType

LEMMA ClientTypes == ClientTypeOK <=> pc \in Phases /\ DataType /\ CallerType
  BY DEF ClientTypeOK, DataType, CallerType

LEMMA ClientTypesNext == ClientTypeOK' <=> pc' \in Phases /\ DataType' /\ CallerType'
  BY DEF ClientTypeOK, DataType, CallerType

LEMMA SessionTypes == TypeOK <=> pc \in LogicPhases /\ DataType
  BY DEF TypeOK, SessionType, DataType

LEMMA SessionTypesNext == TypeOK' <=> pc' \in LogicPhases /\ DataType'
  BY DEF TypeOK, SessionType, DataType

LEMMA Places == Phases = LogicPhases \cup Outside
  BY DEF Phases, Outside

(* The steps of the thread of start between the sessions, and their types.   *)
BetweenStep ==
  \/ NewSession \/ EndStart \/ ConnectOk \/ ConnectFails \/ PublishMailbox
  \/ Unpublish \/ Deauthenticate \/ NotifyDisconnected \/ WakeUp

LEMMA SameData ==
  ASSUME DataType, UNCHANGED <<reason, batch, buffered_cmds, txnVars, serverVars, halt,
                               beats, replies, mailbox, submitted, sent, notify>>
  PROVE  DataType'
  BY DEF DataType, TxnType, ServerType, TimerType, RepliesType, MailboxType,
         HistoryType, NotifyType, txnVars, serverVars, beats

LEMMA BetweenType ==
  ASSUME ClientTypeOK, BetweenStep
  PROVE  ClientTypeOK'
<1> USE ClientTypes, ClientTypesNext DEF restUnchanged
<1>1. CASE NewSession
  <2>0. 0 \in TxnIds
    BY BoundAssumption DEF TxnIds
  <2>1. pending_txns' \in [Keys -> Requests \cup {NoReq}] /\ next_txn_id' \in TxnIds
    BY <1>1, <2>0 DEF NewSession, StartSession, NoPending
  <2>2. TxnType' /\ ServerType'
    <3>1. TxnType'
      BY <1>1, <2>1 DEF NewSession, StartSession, TxnType
    <3>2. UNCHANGED <<socket, pushes>> /\ outstanding' = {} /\ connect' = "unsent"
      BY <1>1 DEF NewSession, StartSession
    <3>3. ServerType'
      BY <3>2 DEF DataType, ServerType
    <3> QED BY <3>1, <3>3
  <2>4. TimerType' /\ HistoryType' /\ MailboxType' /\ RepliesType' /\ NotifyType'
    <3>1. /\ UNCHANGED <<replies, submitted, notify>>
          /\ mailbox' = <<>> /\ sent' = <<>>
          /\ halt' = FALSE /\ ticks' = 0 /\ unacked' = 0 /\ pings' = 0
      BY <1>1 DEF NewSession, StartSession
    <3>2. TimerType'
      BY <3>1 DEF TimerType
    <3>3. HistoryType' /\ MailboxType' /\ RepliesType' /\ NotifyType'
      BY <3>1 DEF DataType, HistoryType, MailboxType, RepliesType, NotifyType
    <3> QED BY <3>2, <3>3
  <2>5. DataType'
    BY <1>1, <2>2, <2>4 DEF NewSession, StartSession, DataType, Reasons
  <2>3. CallerType' /\ pc' \in Phases
    BY <1>1, SessionsAssumption DEF NewSession, StartSession, CallerType, Phases
  <2> QED BY <2>5, <2>3
<1>2. CASE EndStart \/ WakeUp \/ PublishMailbox \/ Deauthenticate
  <2>1. DataType'
    BY <1>2, SameData DEF EndStart, WakeUp, PublishMailbox, Deauthenticate,
                          txnVars, serverVars, beats
  <2>2. CallerType' /\ pc' \in Phases
    BY <1>2 DEF EndStart, WakeUp, PublishMailbox, Deauthenticate, clientVars, CallerType,
                Phases, LogicPhases
  <2> QED BY <2>1, <2>2
<1>3. CASE ConnectOk \/ ConnectFails
  <2>1. socket' \in {"up", "down"} /\ reason' \in Reasons
    BY <1>3 DEF ConnectOk, ConnectFails, DataType, ServerType, Reasons
  <2>2. DataType'
    BY <1>3, <2>1
    DEF ConnectOk, ConnectFails, DataType, TxnType, ServerType, TimerType, RepliesType,
        MailboxType, HistoryType, NotifyType, txnVars, beats
  <2>3. CallerType' /\ pc' \in Phases
    BY <1>3 DEF ConnectOk, ConnectFails, clientVars, CallerType, Phases, LogicPhases
  <2> QED BY <2>2, <2>3
<1>4. CASE Unpublish
  <2>1. DataType'
    BY <1>4, SameData DEF Unpublish, txnVars, serverVars, beats
  <2>2. CallerType' /\ pc' \in Phases
    BY <1>4 DEF Unpublish, CallerType, DataType, Phases
  <2> QED BY <2>1, <2>2
<1>5. CASE NotifyDisconnected
  <2>1. NotifyType'
    BY <1>5 DEF NotifyDisconnected, DataType, NotifyType
  <2>2. DataType'
    BY <1>5, <2>1
    DEF NotifyDisconnected, DataType, TxnType, ServerType, TimerType, RepliesType,
        MailboxType, HistoryType, txnVars, beats
  <2>3. CallerType' /\ pc' \in Phases
    BY <1>5 DEF NotifyDisconnected, clientVars, CallerType, Phases
  <2> QED BY <2>2, <2>3
<1> QED BY <1>1, <1>2, <1>3, <1>4, <1>5 DEF BetweenStep

(* Steps of a session, whoever takes them.                                  *)
LogicStep == \/ LogicThread \/ Timer \/ Server \/ \E k \in Keys : Age(k)
             \/ \E r \in Requests : Accept(r) \/ Refuse(r)

LEMMA LogicStepType ==
  ASSUME TypeOK, LogicStep
  PROVE  TypeOK'
  BY AuthType, ReplayType, PacketStepType, LoopType, TimerStepType, ServerStepType,
     CallersType DEF LogicStep, LogicThread

(* Before a session only its socket has something to say.                   *)
LEMMA OutsideEnvironment ==
  ASSUME AtRest, pc \in Outside \cup {"dropped"},
         Timer \/ Server \/ \E k \in Keys : Age(k)
  PROVE  pc = "connected" /\ (Garbage \/ SocketEnds)
<1>1. ~Timer /\ \A k \in Keys : ~Age(k)
  BY DEF Timer, TimerRefresh, TimerHeartbeat, TimerGiveUp, Age, Outside
<1>2. pc = "connected"
  BY <1>1 DEF AtRest, Server, ServerConnect, ServerAnswer, ServerHeartbeatAck, ServerPush,
              Deliver, Garbage, SocketEnds
<1>3. ~ServerConnect /\ ~ServerAnswer /\ ~ServerPush
  BY <1>2 DEF AtRest, ServerConnect, ServerAnswer, ServerPush, Outside
<1>4. ~ServerHeartbeatAck
  <2>1. unacked = 0
    BY DEF AtRest
  <2> QED BY <2>1 DEF ServerHeartbeatAck
<1> QED BY <1>1, <1>2, <1>3, <1>4 DEF Server

LEMMA OutsideEnvironmentType ==
  ASSUME DataType, Garbage \/ SocketEnds
  PROVE  pc' = pc /\ DataType'
<1>1. PICK type \in {"garbage", "close"} : mailbox' = Append(mailbox, Event(type))
  BY DEF Garbage, SocketEnds
<1>2. MailboxType'
  BY <1>1, Constructors DEF DataType, MailboxType
<1>3. ServerType' /\ TimerType'
  BY DEF Garbage, SocketEnds, DataType, ServerType, TimerType, beats
<1> QED BY <1>2, <1>3 DEF Garbage, SocketEnds, DataType, TxnType, RepliesType, HistoryType,
                          NotifyType, sessionVars, txnVars

LEMMA EnvironmentType ==
  ASSUME ClientTypeOK, AtRest, Environment
  PROVE  ClientTypeOK'
<1>1. CallerType'
  BY ClientTypes DEF Environment, clientVars, CallerType
<1>2. CASE pc \in LogicPhases
  <2>1. TypeOK /\ LogicStep
    BY <1>2, ClientTypes, SessionTypes DEF Environment, LogicStep
  <2>2. TypeOK'
    BY <2>1, LogicStepType
  <2> QED BY <1>1, <2>2, SessionTypesNext, ClientTypesNext, Places
<1>3. CASE pc \in Outside
  <2>1. Garbage \/ SocketEnds
    BY <1>3, OutsideEnvironment DEF Environment
  <2> QED BY <1>1, <1>3, <2>1, OutsideEnvironmentType, ClientTypes, ClientTypesNext, Places
<1> QED BY <1>2, <1>3, ClientTypes, Places

LEMMA StopType ==
  ASSUME ClientTypeOK, StopFlag \/ StopSend
  PROVE  ClientTypeOK'
<1> USE ClientTypes, ClientTypesNext
<1>1. CASE StopFlag
  <2>1. DataType' /\ pc' = pc
    BY <1>1, SameData DEF StopFlag, logicVars, sessionVars, beats
  <2>2. CallerType'
    BY <1>1 DEF StopFlag, CallerType
  <2> QED BY <2>1, <2>2
<1>2. CASE StopSend
  <2>1. MailboxType'
    BY <1>2, Constructors DEF StopSend, DataType, MailboxType
  <2>2. DataType' /\ pc' = pc
    BY <1>2, <2>1 DEF StopSend, DataType, TxnType, ServerType, TimerType, RepliesType,
                      HistoryType, NotifyType, sessionVars, txnVars, serverVars, beats
  <2>3. CallerType'
    BY <1>2 DEF StopSend, CallerType
  <2> QED BY <2>2, <2>3
<1> QED BY <1>1, <1>2

LEMMA SendCmdType ==
  ASSUME ClientTypeOK, NEW r \in Requests, SendCmd(r)
  PROVE  ClientTypeOK'
<1> USE ClientTypes, ClientTypesNext
<1>1. CallerType'
  BY DEF SendCmd, callerUnchanged, CallerType, Become
<1>2. DataType' /\ pc' = pc
  <2>1. CASE Accept(r)
    <3>1. MailboxType' /\ HistoryType'
      BY <2>1, Constructors DEF Accept, DataType, MailboxType, HistoryType
    <3> QED BY <2>1, <3>1 DEF Accept, DataType, TxnType, ServerType, TimerType, RepliesType,
                              NotifyType, sessionVars, txnVars, serverVars, beats
  <2>2. CASE Refuse(r)
    <3>1. RepliesType'
      BY <2>2, ReplyType, FailureType DEF Refuse, DataType, Results
    <3> QED BY <2>2, <3>1 DEF Refuse, DataType, TxnType, ServerType, TimerType, MailboxType,
                              HistoryType, NotifyType, sessionVars, txnVars, serverVars, beats
  <2> QED BY <2>1, <2>2 DEF SendCmd
<1> QED BY <1>1, <1>2

(* What an HTTP thread does without the client's help.                      *)
WaitStep(r) == \/ SeesConnected(r) \/ NotConnected(r)
               \/ ReceiveReply(r) \/ ReceiveTimeout(r) \/ ReceiveClosed(r)

LEMMA Waits ==
  ASSUME NEW r \in Requests, WaitStep(r)
  PROVE  /\ UNCHANGED logicVars /\ UNCHANGED callerUnchanged /\ UNCHANGED via
         /\ \E s \in {"ready"} \cup Final : Become(r, s)
<1>1. UNCHANGED logicVars /\ UNCHANGED callerUnchanged /\ UNCHANGED via
  BY DEF WaitStep, SeesConnected, NotConnected, ReceiveReply, ReceiveTimeout, ReceiveClosed
<1>2. CASE ReceiveReply(r)
  BY <1>2 DEF ReceiveReply, Final
<1>3. CASE ~ReceiveReply(r)
  BY <1>3 DEF WaitStep, SeesConnected, NotConnected, ReceiveTimeout, ReceiveClosed, Final
<1> QED BY <1>1, <1>2, <1>3

LEMMA WaitType ==
  ASSUME ClientTypeOK, (\E r \in Requests : WaitStep(r)) \/ UNCHANGED vars
  PROVE  ClientTypeOK'
<1> USE ClientTypes, ClientTypesNext
<1>1. UNCHANGED logicVars
  BY Waits DEF vars
<1>2. DataType' /\ pc' = pc
  BY <1>1, SameData DEF logicVars, sessionVars, beats
<1>3. CASE \E r \in Requests : WaitStep(r)
  <2>1. PICK r \in Requests, s \in {"ready"} \cup Final :
          Become(r, s) /\ UNCHANGED callerUnchanged /\ UNCHANGED via
    BY <1>3, Waits
  <2>2. CallerType'
    BY <2>1 DEF Become, callerUnchanged, CallerType
  <2> QED BY <1>2, <2>2
<1>4. CASE UNCHANGED vars
  BY <1>2, <1>4 DEF vars, clientVars, CallerType
<1> QED BY <1>3, <1>4

LEMMA StepCases ==
  ASSUME [Next]_vars
  PROVE  \/ BetweenStep \/ Authenticated \/ SessionThread \/ Environment
         \/ StopFlag \/ StopSend
         \/ \E r \in Requests : SendCmd(r)
         \/ (\E r \in Requests : WaitStep(r)) \/ UNCHANGED vars
  BY DEF Next, StartThread, BetweenStep, Caller, WaitStep

LEMMA ClientType ==
  ASSUME ClientTypeOK, AtRest, [Next]_vars
  PROVE  ClientTypeOK'
<1>1. CASE Authenticated \/ SessionThread
  <2>1. LogicThread /\ pc \in LogicPhases
    BY <1>1
    DEF Authenticated, SessionThread, LogicThread, LogicPhases, SendConnect, AuthEvent,
        AuthBuffer, AuthConnected, AuthRefused, AuthBroken, AuthTimeout, Replay, ReplayDone,
        StartLoop, TakePacket, RespPulse, RespNext, RespAckMail, RespHeartbeatAck,
        RespNewMail, RespGoodbye, LoopEvent, LoopCmd, LoopRecv, LoopRefresh, LoopHeartbeat,
        LoopBroken, LoopHalted, DropLogic
  <2>2. TypeOK'
    BY <2>1, ClientTypes, SessionTypes, LogicStepType DEF LogicStep
  <2>3. CallerType'
    BY <1>1, ClientTypes DEF Authenticated, SessionThread, clientVars, CallerType, Reasons
  <2> QED BY <2>2, <2>3, SessionTypesNext, ClientTypesNext, Places
<1> QED BY <1>1, StepCases, BetweenType, EnvironmentType, StopType, SendCmdType, WaitType

(***************************************************************************)
(* Where the thread is                                                     *)
(***************************************************************************)
(* The places of a session's thread, and how it gets from one to the next.   *)
LEMMA ThreadMoves ==
  ASSUME LogicThread
  PROVE  \/ pc = "hello" /\ pc' = "auth"
         \/ pc = "auth" /\ pc' = "auth"
         \/ pc = "auth" /\ pc' = "replay" /\ AuthConnected
         \/ pc = "replay" /\ pc' \in {"replay", "authed"}
         \/ pc = "authed" /\ pc' = "loop"
         \/ pc = "loop" /\ pc' = "loop"
         \/ pc \in {"hello", "auth", "replay", "loop"} /\ EndSession(reason')
         \/ pc = "ended" /\ DropLogic
<1>1. CASE SendConnect \/ AuthBuffer \/ AuthConnected \/ AuthRefused \/ AuthBroken
             \/ AuthTimeout
  BY <1>1 DEF SendConnect, AuthBuffer, AuthConnected, AuthRefused, AuthBroken, AuthTimeout,
              AuthEvent, EndSession
<1>2. CASE Replay \/ LoopCmd
  <2>1. pc \in {"replay", "loop"}
    BY <1>2 DEF Replay, LoopCmd, LoopEvent
  <2>2. pc' = pc \/ EndSession(reason')
    BY <1>2 DEF Replay, LoopCmd, HandleCmd, RejectName, PushTxn, TxnExhausted,
                DuplicateMailOp, PushMailOp, WriteCmd, Continue, EndSession
  <2> QED BY <2>1, <2>2
<1>3. CASE ReplayDone \/ StartLoop \/ DropLogic
  BY <1>3 DEF ReplayDone, StartLoop, DropLogic
<1>4. CASE RespPulse \/ RespNext \/ RespAckMail \/ RespHeartbeatAck \/ RespNewMail
             \/ RespGoodbye
  BY <1>4 DEF RespPulse, RespNext, RespAckMail, RespHeartbeatAck, RespNewMail, RespGoodbye,
              TakePacket, NextPacket, EndSession
<1>5. CASE LoopRecv \/ LoopRefresh \/ LoopHeartbeat \/ LoopBroken \/ LoopHalted
  BY <1>5 DEF LoopRecv, LoopRefresh, LoopHeartbeat, LoopBroken, LoopHalted, LoopEvent,
              sessionVars, EndSession
<1> QED BY <1>1, <1>2, <1>3, <1>4, <1>5 DEF LogicThread

(* The client's part of a step of the session's thread.                     *)
ClientThread == Authenticated \/ SessionThread

LEMMA ClientThreadIs ==
  ASSUME ClientThread
  PROVE  /\ LogicThread /\ pc \in LogicPhases \ {"dropped"}
         /\ UNCHANGED <<session, via, mailbox_chan, http>>
         /\ pc' = "loop" /\ pc # "loop" => authenticated'
         /\ pc' # "loop" \/ pc = "loop" => UNCHANGED authenticated
<1>1. LogicThread
  BY DEF ClientThread, Authenticated, SessionThread, LogicThread
<1>2. pc \in LogicPhases \ {"dropped"} /\ (pc' = "loop" => pc \in {"authed", "loop"})
  BY <1>1, ThreadMoves DEF LogicPhases, DropLogic, EndSession, AuthConnected
<1>3. Authenticated => pc = "authed" /\ pc' = "loop" /\ authenticated'
  BY DEF Authenticated, StartLoop
<1>4. SessionThread => pc # "authed" /\ UNCHANGED clientVars
  BY DEF SessionThread
<1>5. UNCHANGED <<session, via, mailbox_chan, http>>
  BY <1>4 DEF ClientThread, Authenticated, clientVars
<1>6. ~authenticated' => UNCHANGED authenticated
  BY <1>3, <1>4 DEF ClientThread, clientVars
<1> QED BY <1>1, <1>2, <1>3, <1>4, <1>5 DEF ClientThread, clientVars

LEMMA AtRestKept ==
  ASSUME AtRest,
         UNCHANGED <<pc, batch, buffered_cmds, pending_txns, next_txn_id, outstanding,
                     connect, socket, unacked, mailbox, sent>>
  PROVE  AtRest'
  BY DEF AtRest

LEMMA AtRestLive ==
  ASSUME pc' \in LogicPhases \ {"dropped"},
         pc' = "ended" => batch' = <<>> /\ buffered_cmds' = <<>>
  PROVE  AtRest'
  BY DEF AtRest, LogicPhases, Outside

LEMMA AtRestStep ==
  ASSUME DataType, AtRest, Published, [Next]_vars
  PROVE  AtRest'
<1>1. CASE NewSession
  BY <1>1 DEF NewSession, StartSession, AtRest, Outside
<1>2. CASE PublishMailbox
  BY <1>2, AtRestLive DEF PublishMailbox, LogicPhases
<1>3. CASE \/ EndStart \/ ConnectOk \/ ConnectFails
           \/ Unpublish \/ Deauthenticate \/ NotifyDisconnected \/ WakeUp
  <2>1. /\ UNCHANGED <<batch, buffered_cmds, pending_txns, next_txn_id, outstanding,
                       connect, unacked, mailbox, sent>>
        /\ pc \in Outside \cup {"dropped"} /\ pc' \in Outside \cup {"dropped"}
        /\ pc' \in {"connecting", "connected"} => pc = "connecting"
        /\ socket' = socket \/ pc' = "connected"
        /\ pc = "connected" => pc' = "connected"
    BY <1>3 DEF EndStart, ConnectOk, ConnectFails, Unpublish, Deauthenticate,
                NotifyDisconnected, WakeUp, restUnchanged, txnVars, serverVars, beats, Outside
  <2> QED BY <2>1 DEF AtRest
<1>4. CASE ClientThread
  <2>1. LogicThread
    BY <1>4, ClientThreadIs
  <2>2. CASE DropLogic /\ pc = "ended"
    BY <2>2 DEF DropLogic, AtRest, Outside
  <2>3. CASE ~(DropLogic /\ pc = "ended")
    <3>1. \/ pc' \in {"auth", "replay", "authed", "loop"}
          \/ EndSession(reason')
      BY <2>1, <2>3, ThreadMoves
    <3> QED BY <3>1, AtRestLive DEF EndSession, LogicPhases
  <2> QED BY <2>2, <2>3
<1>5. CASE Environment /\ pc \in Outside \cup {"dropped"}
  <2>1. pc = "connected" /\ (Garbage \/ SocketEnds)
    BY <1>5, OutsideEnvironment DEF Environment
  <2>2. PICK type : mailbox' = Append(mailbox, Event(type))
    BY <2>1 DEF Garbage, SocketEnds
  <2>3. \A i \in 1 .. Len(mailbox') :
          mailbox'[i].req = NoReq /\ mailbox'[i].packets = <<>>
    <3>1. Event(type).req = NoReq /\ Event(type).packets = <<>>
      BY DEF Event
    <3>2. /\ Len(mailbox) \in Nat /\ Len(mailbox') = Len(mailbox) + 1
          /\ \A i \in 1 .. Len(mailbox) : mailbox'[i] = mailbox[i]
          /\ mailbox'[Len(mailbox) + 1] = Event(type)
      BY <2>2 DEF DataType, MailboxType
    <3> QED BY <2>1, <3>1, <3>2 DEF AtRest, Outside
  <2>4. /\ UNCHANGED <<pc, batch, buffered_cmds, pending_txns, next_txn_id, connect, sent>>
        /\ outstanding' \in {outstanding, {}} /\ unacked' \in {unacked, 0}
    BY <2>1 DEF Garbage, SocketEnds, sessionVars, txnVars, beats
  <2> QED BY <2>1, <2>3, <2>4 DEF AtRest, Outside
<1>6. CASE Environment /\ pc \notin Outside \cup {"dropped"}
  <2>1. UNCHANGED <<pc, batch, buffered_cmds>>
    BY <1>6 DEF Environment, Timer, TimerRefresh, TimerHeartbeat, TimerGiveUp,
         timerUnchanged, Age, Server, ServerConnect, ServerAnswer, ServerHeartbeatAck,
         ServerPush, Garbage, SocketEnds, Deliver, sessionVars
  <2> QED BY <1>6, <2>1 DEF AtRest, Outside
<1>7. CASE (StopSend \/ \E r \in Requests : SendCmd(r)) /\ MailboxAlive
  <2>1. pc \notin Outside \cup {"dropped"}
    BY <1>7 DEF MailboxAlive, Published, LogicPhases, Outside
  <2>2. UNCHANGED <<pc, batch, buffered_cmds>>
    BY <1>7 DEF StopSend, SendCmd, Accept, Refuse, sessionVars
  <2> QED BY <2>1, <2>2 DEF AtRest, Outside
<1>8. CASE StopFlag \/ StopSend \/ \E r \in Requests : SendCmd(r)
  <2>1. CASE ~MailboxAlive
    BY <1>8, <2>1, AtRestKept
    DEF StopFlag, StopSend, SendCmd, Refuse, logicVars, sessionVars, txnVars, serverVars,
        beats
  <2>2. CASE StopFlag
    BY <2>2, AtRestKept DEF StopFlag, logicVars, sessionVars, txnVars, serverVars, beats
  <2> QED BY <1>7, <1>8, <2>1, <2>2
<1>9. CASE (\E r \in Requests : WaitStep(r)) \/ UNCHANGED vars
  <2>1. UNCHANGED logicVars
    BY <1>9, Waits DEF vars
  <2> QED BY <2>1, AtRestKept DEF logicVars, sessionVars, txnVars, serverVars, beats
<1> QED BY <1>1, <1>2, <1>3, <1>4, <1>5, <1>6, <1>8, <1>9, StepCases
        DEF BetweenStep, ClientThread

(* Environment, stop and the HTTP threads leave the thread where it is.      *)
LEMMA OthersStay ==
  ASSUME \/ Environment \/ StopFlag \/ StopSend
         \/ \E r \in Requests : SendCmd(r) \/ WaitStep(r)
         \/ UNCHANGED vars
  PROVE  UNCHANGED <<pc, notify, session, mailbox_chan, authenticated>>
<1>1. CASE Environment
  BY <1>1 DEF Environment, Timer, TimerRefresh, TimerHeartbeat, TimerGiveUp,
       timerUnchanged, Age, Server, ServerConnect, ServerAnswer, ServerHeartbeatAck,
       ServerPush, Garbage, SocketEnds, Deliver, sessionVars, clientVars
<1>2. CASE StopFlag \/ StopSend
  BY <1>2 DEF StopFlag, StopSend, logicVars, sessionVars
<1>3. CASE \E r \in Requests : SendCmd(r)
  BY <1>3 DEF SendCmd, Accept, Refuse, sessionVars, callerUnchanged
<1>4. CASE \E r \in Requests : WaitStep(r)
  BY <1>4, Waits DEF logicVars, sessionVars, callerUnchanged
<1>5. CASE UNCHANGED vars
  BY <1>5 DEF vars, logicVars, sessionVars, clientVars
<1> QED BY <1>1, <1>2, <1>3, <1>4, <1>5

LEMMA PublishedStep ==
  ASSUME Published, [Next]_vars
  PROVE  Published'
<1>1. CASE BetweenStep
  BY <1>1 DEF BetweenStep, NewSession, StartSession, EndStart, ConnectOk, ConnectFails,
              PublishMailbox, Unpublish, Deauthenticate, NotifyDisconnected, WakeUp,
              clientVars, Published, LogicPhases
<1>2. CASE ClientThread
  <2>1. LogicThread /\ pc \in LogicPhases \ {"dropped"} /\ UNCHANGED mailbox_chan
    BY <1>2, ClientThreadIs
  <2>2. pc' \in LogicPhases
    BY <2>1, ThreadMoves DEF LogicPhases, EndSession, DropLogic
  <2> QED BY <2>1, <2>2 DEF Published
<1>3. CASE UNCHANGED <<pc, mailbox_chan>>
  BY <1>3 DEF Published
<1> QED BY <1>1, <1>2, <1>3, StepCases, OthersStay DEF ClientThread

(* Only accepting a command submits it.                                     *)
LEMMA OnlyAcceptSubmits ==
  ASSUME [Next]_vars
  PROVE  \/ UNCHANGED <<via, submitted>>
         \/ \E r \in Requests : /\ MailboxAlive /\ Accept(r)
                                /\ via' = [via EXCEPT ![r] = session]
<1>1. CASE BetweenStep
  BY <1>1 DEF BetweenStep, NewSession, StartSession, EndStart, ConnectOk, ConnectFails,
              PublishMailbox, Unpublish, Deauthenticate, NotifyDisconnected, WakeUp,
              clientVars, restUnchanged
<1>2. CASE ClientThread
  <2>1. LogicThread /\ UNCHANGED via
    BY <1>2, ClientThreadIs
  <2>2. UNCHANGED submitted
    <3>1. CASE SendConnect \/ AuthBuffer \/ AuthConnected \/ AuthRefused \/ AuthBroken
                 \/ AuthTimeout
      BY <3>1 DEF SendConnect, AuthBuffer, AuthConnected, AuthRefused, AuthBroken,
                  AuthTimeout, AuthEvent
    <3>2. CASE Replay \/ ReplayDone \/ StartLoop \/ DropLogic
      BY <3>2 DEF Replay, ReplayDone, StartLoop, DropLogic
    <3>3. CASE RespPulse \/ RespNext \/ RespAckMail \/ RespHeartbeatAck \/ RespNewMail
                 \/ RespGoodbye
      BY <3>3 DEF RespPulse, RespNext, RespAckMail, RespHeartbeatAck, RespNewMail,
                  RespGoodbye, TakePacket
    <3>4. CASE LoopCmd \/ LoopRecv \/ LoopRefresh \/ LoopHeartbeat \/ LoopBroken
                 \/ LoopHalted
      BY <3>4 DEF LoopCmd, LoopRecv, LoopRefresh, LoopHeartbeat, LoopBroken, LoopHalted,
                  LoopEvent
    <3> QED BY <2>1, <3>1, <3>2, <3>3, <3>4 DEF LogicThread
  <2> QED BY <2>1, <2>2
<1>3. CASE Environment
  BY <1>3 DEF Environment, Timer, TimerRefresh, TimerHeartbeat, TimerGiveUp,
       timerUnchanged, Age, Server, ServerConnect, ServerAnswer, ServerHeartbeatAck,
       ServerPush, Garbage, SocketEnds, Deliver, clientVars
<1>4. CASE StopFlag \/ StopSend
  BY <1>4 DEF StopFlag, StopSend, logicVars
<1>5. CASE \E r \in Requests : SendCmd(r)
  BY <1>5 DEF SendCmd, Refuse
<1>6. CASE \E r \in Requests : WaitStep(r)
  BY <1>6, Waits DEF logicVars
<1>7. CASE UNCHANGED vars
  BY <1>7 DEF vars, logicVars, clientVars
<1> QED BY <1>1, <1>2, <1>3, <1>4, <1>5, <1>6, <1>7, StepCases DEF ClientThread

LEMMA SubmittedNext ==
  ASSUME HistoryType, NEW r \in Requests, Accept(r)
  PROVE  \A q \in Requests : Submitted(q)' <=> Submitted(q) \/ q = r
<1>1. /\ Len(submitted) \in Nat /\ Len(submitted') = Len(submitted) + 1
      /\ \A i \in 1 .. Len(submitted) : submitted'[i] = submitted[i]
      /\ submitted'[Len(submitted) + 1] = r
  BY DEF Accept, HistoryType
<1> QED BY <1>1 DEF Submitted

LEMMA TakenByStep ==
  ASSUME ClientTypeOK, Published, TakenBy, [Next]_vars
  PROVE  TakenBy'
<1>1. CASE NewSession
  <2>1. UNCHANGED <<via, submitted>> /\ session' = session + 1 /\ session' # 0
    BY <1>1 DEF NewSession, StartSession, ClientTypeOK
  <2>2. \A r \in Requests : Submitted(r)' <=> Submitted(r)
    BY <2>1 DEF Submitted
  <2>3. \A r \in Requests : via[r] \in Nat /\ session \in Nat
    BY DEF ClientTypeOK
  <2> QED BY <2>1, <2>2, <2>3 DEF TakenBy
<1>2. CASE ~NewSession /\ UNCHANGED <<via, submitted>>
  <2>1. /\ UNCHANGED session
        /\ pc' \in {"connecting", "connected"} => pc \in {"connecting", "connected"}
        /\ pc \in {"idle", "stopped"} => pc' \in {"idle", "stopped"}
    <3>1. CASE BetweenStep
      BY <1>2, <3>1
      DEF BetweenStep, EndStart, ConnectOk, ConnectFails, PublishMailbox, Unpublish,
          Deauthenticate, NotifyDisconnected, WakeUp, clientVars
    <3>2. CASE ClientThread
      <4>1. LogicThread /\ UNCHANGED session
        BY <3>2, ClientThreadIs
      <4> QED BY <4>1, ThreadMoves DEF EndSession, DropLogic
    <3> QED BY <3>1, <3>2, StepCases, OthersStay DEF ClientThread
  <2>2. \A r \in Requests : Submitted(r)' <=> Submitted(r)
    BY <1>2 DEF Submitted
  <2> QED BY <1>2, <2>1, <2>2 DEF TakenBy
<1>3. CASE \E r \in Requests : /\ MailboxAlive /\ Accept(r)
                               /\ via' = [via EXCEPT ![r] = session]
  <2> PICK r \in Requests : MailboxAlive /\ Accept(r) /\ via' = [via EXCEPT ![r] = session]
    BY <1>3
  <2>1. UNCHANGED pc /\ pc \in LogicPhases
    BY DEF Accept, sessionVars, MailboxAlive, Published
  <2>2. UNCHANGED session
    <3>1. ~BetweenStep
      BY <2>1 DEF BetweenStep, NewSession, StartSession, EndStart, ConnectOk, ConnectFails,
                  PublishMailbox, Unpublish, Deauthenticate, NotifyDisconnected, WakeUp,
                  MailboxAlive, LogicPhases
    <3> QED BY <3>1, StepCases, OthersStay, ClientThreadIs DEF ClientThread
  <2>3. session \in Nat /\ session # 0
    BY <2>1 DEF TakenBy, LogicPhases, ClientTypeOK
  <2>4. \A q \in Requests : Submitted(q)' <=> Submitted(q) \/ q = r
    BY SubmittedNext DEF ClientTypeOK
  <2>5. \A q \in Requests : via'[q] = IF q = r THEN session ELSE via[q]
    BY DEF ClientTypeOK
  <2> QED BY <2>1, <2>2, <2>3, <2>4, <2>5 DEF TakenBy, LogicPhases
<1> QED BY <1>1, <1>2, <1>3, OnlyAcceptSubmits

(***************************************************************************)
(* The flag and the notifications                                          *)
(***************************************************************************)
LEMMA ThreadNotices ==
  ASSUME LogicThread
  PROVE  \/ UNCHANGED notify
         \/ AuthConnected
         \/ RespNewMail
<1>1. CASE SendConnect \/ AuthBuffer \/ AuthRefused \/ AuthBroken \/ AuthTimeout
  BY <1>1 DEF SendConnect, AuthBuffer, AuthRefused, AuthBroken, AuthTimeout
<1>2. CASE Replay \/ ReplayDone \/ StartLoop \/ DropLogic
  BY <1>2 DEF Replay, ReplayDone, StartLoop, DropLogic
<1>3. CASE RespPulse \/ RespNext \/ RespAckMail \/ RespHeartbeatAck \/ RespGoodbye
  BY <1>3 DEF RespPulse, RespNext, RespAckMail, RespHeartbeatAck, RespGoodbye
<1>4. CASE LoopCmd \/ LoopRecv \/ LoopRefresh \/ LoopHeartbeat \/ LoopBroken \/ LoopHalted
  BY <1>4 DEF LoopCmd, LoopRecv, LoopRefresh, LoopHeartbeat, LoopBroken, LoopHalted,
              LoopEvent
<1> QED BY <1>1, <1>2, <1>3, <1>4 DEF LogicThread

(* Each kind of notice, as the last one.                                    *)
LEMMA LastNotice ==
  ASSUME NotifyType
  PROVE  /\ notify' = Append(notify, "disconnected") => LastDown'
         /\ RespNewMail => ~LastDown'
         /\ AuthConnected => ~LastDown'
<1>1. ASSUME NEW n, notify' = Append(notify, n)
      PROVE  notify' # <<>> /\ notify'[Len(notify')] = n
  BY <1>1 DEF NotifyType
<1>2. notify' = Append(notify, "disconnected") => LastDown'
  BY <1>1 DEF LastDown
<1>3. RespNewMail => ~LastDown'
  BY <1>1 DEF LastDown, RespNewMail
<1>4. AuthConnected => ~LastDown'
  <2> SUFFICES ASSUME AuthConnected PROVE ~LastDown'
    OBVIOUS
  <2>1. CASE notify' = notify \o <<"connected">>
    <3>1. notify' # <<>> /\ notify'[Len(notify')] = "connected"
      BY <2>1 DEF NotifyType
    <3> QED BY <3>1 DEF LastDown
  <2>2. CASE notify' = notify \o <<"connected", "new_mail">>
    <3>1. notify' # <<>> /\ notify'[Len(notify')] = "new_mail"
      BY <2>2 DEF NotifyType
    <3> QED BY <3>1 DEF LastDown
  <2> QED BY <2>1, <2>2 DEF AuthConnected, Notices
<1> QED BY <1>2, <1>3, <1>4

LEMMA FlagStep ==
  ASSUME ClientTypeOK, FlagAndNotice, [Next]_vars
  PROVE  FlagAndNotice'
<1>1. CASE BetweenStep /\ UNCHANGED notify
  <2>1. LastDown' <=> LastDown
    BY <1>1 DEF LastDown
  <2> QED BY <1>1, <2>1
    DEF BetweenStep, NewSession, StartSession, EndStart, ConnectOk, ConnectFails,
        PublishMailbox, Unpublish, Deauthenticate, NotifyDisconnected, WakeUp, clientVars,
        FlagAndNotice
<1>2. CASE NotifyDisconnected
  <2>1. LastDown'
    BY <1>2, LastNotice DEF NotifyDisconnected, ClientTypeOK
  <2> QED BY <1>2, <2>1 DEF NotifyDisconnected, clientVars, FlagAndNotice
<1>3. CASE ClientThread
  <2>1. /\ LogicThread
        /\ pc' = "loop" /\ pc # "loop" => authenticated'
        /\ pc' # "loop" \/ pc = "loop" => UNCHANGED authenticated
    BY <1>3, ClientThreadIs
  <2>2. CASE UNCHANGED notify
    <3>1. LastDown' <=> LastDown
      BY <2>2 DEF LastDown
    <3>2. ~AuthConnected
      BY <2>2 DEF AuthConnected, Notices, ClientTypeOK, NotifyType
    <3>3. \/ pc = "hello" /\ pc' = "auth"
          \/ pc = "auth" /\ pc' = "auth"
          \/ pc = "replay" /\ pc' \in {"replay", "authed"}
          \/ pc = "authed" /\ pc' = "loop"
          \/ pc = "loop" /\ pc' = "loop"
          \/ pc \in {"hello", "auth", "replay", "loop"} /\ pc' = "ended"
          \/ pc = "ended" /\ pc' = "dropped"
      BY <2>1, <3>2, ThreadMoves DEF EndSession, DropLogic
    <3> QED BY <2>1, <3>1, <3>3 DEF FlagAndNotice
  <2>3. CASE AuthConnected
    <3>1. ~LastDown' /\ pc = "auth" /\ pc' = "replay"
      BY <2>3, LastNotice DEF AuthConnected, AuthEvent, ClientTypeOK
    <3> QED BY <2>1, <3>1 DEF FlagAndNotice
  <2>4. CASE RespNewMail
    <3>1. ~LastDown' /\ pc \in {"replay", "loop"} /\ pc' = pc
      BY <2>4, LastNotice DEF RespNewMail, TakePacket, NextPacket, ClientTypeOK
    <3> QED BY <2>1, <3>1 DEF FlagAndNotice
  <2> QED BY <2>1, <2>2, <2>3, <2>4, ThreadNotices
<1>4. CASE UNCHANGED <<pc, notify, authenticated>>
  BY <1>4 DEF FlagAndNotice, LastDown
<1>5. BetweenStep => UNCHANGED notify \/ NotifyDisconnected
  BY DEF BetweenStep, NewSession, StartSession, EndStart, ConnectOk, ConnectFails,
         PublishMailbox, Unpublish, Deauthenticate, WakeUp
<1> QED BY <1>1, <1>2, <1>3, <1>4, <1>5, StepCases, OthersStay DEF ClientThread

(***************************************************************************)
(* The client is a Connection                                              *)
(***************************************************************************)
LinkState == IF pc = "backoff" THEN "closing"
             ELSE IF authenticated THEN "up"
             ELSE IF ~LastDown THEN "announced"
             ELSE "down"

LEMMA ConnectionStep ==
  ASSUME ClientTypeOK, FlagAndNotice, [Next]_vars
  PROVE  [Link!ConnectionNext]_(Link!connectionVars)
<1> USE DEF LinkState, LastDown
<1>1. ASSUME LinkState' = LinkState, UNCHANGED <<authenticated, notify>>
      PROVE  UNCHANGED Link!connectionVars
  BY <1>1 DEF Link!connectionVars
<1>2. CASE BetweenStep /\ ~Deauthenticate /\ ~NotifyDisconnected
  <2>1. UNCHANGED <<authenticated, notify>> /\ pc # "backoff" /\ pc' # "backoff"
    BY <1>2 DEF BetweenStep, NewSession, StartSession, EndStart, ConnectOk, ConnectFails,
                PublishMailbox, Unpublish, WakeUp, clientVars
  <2> QED BY <1>1, <2>1
<1>3. CASE Deauthenticate
  <2>1. Link!Lose
    BY <1>3 DEF Deauthenticate, Link!Lose
  <2> QED BY <2>1 DEF Link!ConnectionNext
<1>4. CASE NotifyDisconnected
  <2>1. LastDown'
    BY <1>4, LastNotice DEF NotifyDisconnected, ClientTypeOK
  <2>2. ~authenticated /\ UNCHANGED authenticated
    BY <1>4 DEF NotifyDisconnected, FlagAndNotice, clientVars
  <2>3. Link!Farewell
    BY <1>4, <2>1, <2>2 DEF NotifyDisconnected, Link!Farewell
  <2> QED BY <2>3 DEF Link!ConnectionNext
<1>5. CASE ClientThread
  <2>1. LogicThread /\ pc \in LogicPhases
    BY <1>5, ClientThreadIs
  <2>2. pc # "backoff" /\ pc' # "backoff"
    BY <2>1, ThreadMoves DEF LogicPhases, EndSession, DropLogic
  <2>3. CASE Authenticated
    <3>1. UNCHANGED notify /\ pc = "authed" /\ authenticated' = TRUE
      BY <2>3 DEF Authenticated, StartLoop
    <3>2. ~authenticated /\ ~LastDown
      BY <3>1 DEF FlagAndNotice
    <3>3. Link!GoUp
      BY <2>2, <3>1, <3>2 DEF Link!GoUp
    <3> QED BY <3>3 DEF Link!ConnectionNext
  <2>4. CASE SessionThread
    <3>1. UNCHANGED authenticated
      BY <2>4 DEF SessionThread, clientVars
    <3>2. CASE UNCHANGED notify
      BY <1>1, <2>2, <3>1, <3>2
    <3>3. CASE AuthConnected
      <4>1. ~LastDown' /\ LastDown /\ ~authenticated
        BY <3>3, LastNotice DEF AuthConnected, AuthEvent, ClientTypeOK, FlagAndNotice
      <4>2. \/ notify' = notify \o <<"connected">>
            \/ notify' = notify \o <<"connected", "new_mail">>
        BY <3>3 DEF AuthConnected, Notices
      <4>3. Link!Announce
        BY <2>2, <3>1, <4>1, <4>2 DEF Link!Announce
      <4> QED BY <4>3 DEF Link!ConnectionNext
    <3>4. CASE RespNewMail
      <4>1. ~LastDown' /\ ~LastDown /\ notify' = Append(notify, "new_mail")
        BY <3>4, LastNotice DEF RespNewMail, TakePacket, ClientTypeOK, FlagAndNotice
      <4>2. Link!Mail
        BY <2>2, <3>1, <4>1 DEF Link!Mail
      <4> QED BY <4>2 DEF Link!ConnectionNext
    <3> QED BY <2>1, <3>2, <3>3, <3>4, ThreadNotices
  <2> QED BY <1>5, <2>3, <2>4 DEF ClientThread
<1>6. CASE UNCHANGED <<pc, notify, authenticated>>
  BY <1>1, <1>6
<1> QED BY <1>2, <1>3, <1>4, <1>5, <1>6, StepCases, OthersStay DEF ClientThread

(***************************************************************************)
(* All of it together                                                      *)
(***************************************************************************)
ClientInv == ClientTypeOK /\ AtRest /\ Published /\ TakenBy /\ FlagAndNotice

LEMMA InitClientInv == Init => ClientInv
<1> SUFFICES ASSUME Init PROVE ClientInv
  OBVIOUS
<1>1. \A r \in Requests : ~Submitted(r)
  BY DEF Init, Submitted
<1>2. AtRest /\ Published /\ TakenBy /\ FlagAndNotice
  BY <1>1 DEF Init, AtRest, Published, TakenBy, FlagAndNotice, LastDown, LogicPhases,
              Outside
<1>3. DataType
  <2>0. 0 \in TxnIds
    BY BoundAssumption DEF TxnIds
  <2>1. TxnType
    BY <2>0 DEF Init, TxnType, NoPending
  <2>2. ServerType /\ TimerType
    BY DEF Init, ServerType, TimerType
  <2>3. replies = [r \in Requests |-> <<>>]
    BY DEF Init
  <2>4. RepliesType
    BY <2>3 DEF RepliesType
  <2>5. MailboxType /\ HistoryType /\ NotifyType
    BY DEF Init, MailboxType, HistoryType, NotifyType
  <2>6. reason \in Reasons /\ batch \in Seq(Packets) /\ buffered_cmds \in Seq(Requests)
    BY DEF Init, Reasons
  <2> QED BY <2>1, <2>2, <2>4, <2>5, <2>6 DEF DataType
<1>4. CallerType /\ pc \in Phases
  <2>1. via \in [Requests -> 0 .. MaxSessions] /\ session \in 0 .. MaxSessions
    <3>1. 0 \in 0 .. MaxSessions
      BY SessionsAssumption
    <3> QED BY <3>1 DEF Init
  <2>2. http \in [Requests -> {"idle", "ready", "waiting"} \cup Final]
    BY DEF Init
  <2>3. /\ shutdown_flag = FALSE /\ stop = "idle" /\ mailbox_chan = FALSE
        /\ authenticated = FALSE /\ disconnected_reason = "none" /\ pc = "idle"
    BY DEF Init
  <2> QED BY <2>1, <2>2, <2>3 DEF CallerType, Phases, Reasons
<1> QED BY <1>2, <1>3, <1>4, ClientTypes DEF ClientInv

LEMMA NextClientInv == ClientInv /\ [Next]_vars => ClientInv'
<1> SUFFICES ASSUME ClientInv, [Next]_vars PROVE ClientInv'
  OBVIOUS
<1>1. ClientTypeOK'
  BY ClientType DEF ClientInv
<1>2. AtRest'
  BY AtRestStep, ClientTypes DEF ClientInv
<1>3. Published' /\ TakenBy' /\ FlagAndNotice'
  BY PublishedStep, TakenByStep, FlagStep DEF ClientInv
<1> QED BY <1>1, <1>2, <1>3 DEF ClientInv

(* The variables keep their types, and between two sessions nothing is left  *)
(* of the first one.                                                       *)
THEOREM ClientTypeCorrect == Spec => []ClientInv
  BY InitClientInv, NextClientInv, PTL DEF Spec

(* connected() and the notifications agree over all sessions: what the event *)
(* streams rely on in the client is what Connection says.                   *)
THEOREM ClientImplementsConnection == Spec => ImplementsConnection
<1>1. Init => ClientInv /\ Link!ConnectionInit
  BY InitClientInv DEF Init, Link!ConnectionInit
<1>2. ClientInv /\ [Next]_vars => ClientInv' /\ [Link!ConnectionNext]_(Link!connectionVars)
  BY NextClientInv, ConnectionStep DEF ClientInv
<1> QED BY <1>1, <1>2, PTL DEF Spec, ImplementsConnection, Link!ConnectionSpec

(***************************************************************************)
(* The return channels, from one session to the next                       *)
(***************************************************************************)
LEMMA OwnershipKept ==
  ASSUME Ownership, UNCHANGED <<mailbox, buffered_cmds, pending_txns, replies, submitted>>
  PROVE  Ownership' /\ \A r \in Requests : Held(r)' <=> Held(r)
  BY DEF Ownership, SoleOwner, QueuedOnce, BufferedOnce, PendingOnce, InOnePlace,
         AtMostOneReply, Held, Queued, Buffered, Pending, Submitted

(* Without a session there is no channel to own.                            *)
LEMMA RestOwns ==
  ASSUME AtRest', pc' \in Outside \cup {"dropped"}, AtMostOneReply'
  PROVE  Ownership'
<1>1. /\ pending_txns' = NoPending /\ buffered_cmds' = <<>>
      /\ \A i \in 1 .. Len(mailbox') : mailbox'[i].req = NoReq
  BY DEF AtRest
<1>2. \A r \in Requests : ~Queued(r)' /\ ~Buffered(r)' /\ ~Pending(r)'
  BY <1>1, RequestAssumption DEF Queued, Buffered, Pending, NoPending
<1>3. QueuedOnce' /\ BufferedOnce' /\ PendingOnce'
  BY <1>1 DEF QueuedOnce, BufferedOnce, PendingOnce, NoPending
<1> QED BY <1>2, <1>3 DEF Ownership, SoleOwner, InOnePlace, Held

LEMMA LogicStepOwns ==
  ASSUME TypeOK, Ownership, LogicStep
  PROVE  Ownership'
<1>1. LogicThread => Ownership'
  BY AuthOwns, ReplayOwns, PacketOwns, LoopOwns DEF LogicThread
<1> QED BY <1>1, EnvironmentOwns, CallersOwn DEF LogicStep

LEMMA CloseAdded ==
  ASSUME MailboxType, mailbox' = Append(mailbox, Event("close")),
         UNCHANGED <<buffered_cmds, pending_txns, replies, submitted>>
  PROVE  /\ Ownership => Ownership'
         /\ \A r \in Requests : Held(r) => Held(r)'
<1>1. Event("close") \in Events /\ Event("close").req = NoReq
  BY Constructors DEF Event
<1>2. \A r \in Requests : Queued(r) => Queued(r)'
  BY AddKeepsQueued
<1>3. \A r \in Requests : (Buffered(r)' <=> Buffered(r)) /\ (Pending(r)' <=> Pending(r))
  BY DEF Buffered, Pending
<1>4. ASSUME Ownership PROVE Ownership'
  <2>1. QueuedOnce' /\ \A r \in Requests : Queued(r)' => Queued(r)
    BY <1>1, <1>4, AddEvent DEF Ownership, SoleOwner
  <2> QED BY <1>4, <2>1, Quiet
<1> QED BY <1>2, <1>3, <1>4 DEF Held

LEMMA OwnershipStep ==
  ASSUME ClientInv, ClientInv', Ownership, [Next]_vars
  PROVE  Ownership'
<1>0. pc \in LogicPhases => TypeOK
  BY ClientTypes, SessionTypes DEF ClientInv
<1>1. CASE BetweenStep /\ ~PublishMailbox
  <2>1. pc' \in Outside \cup {"dropped"} /\ UNCHANGED replies
    BY <1>1 DEF BetweenStep, NewSession, StartSession, EndStart, ConnectOk, ConnectFails,
                Unpublish, Deauthenticate, NotifyDisconnected, WakeUp, restUnchanged, Outside
  <2>2. AtMostOneReply'
    BY <2>1 DEF Ownership, AtMostOneReply
  <2> QED BY <2>1, <2>2, RestOwns DEF ClientInv
<1>2. CASE PublishMailbox
  BY <1>2, OwnershipKept DEF PublishMailbox, restUnchanged, txnVars
<1>3. CASE ClientThread
  BY <1>0, <1>3, ClientThreadIs, LogicStepOwns DEF LogicStep
<1>4. CASE Environment /\ pc \in LogicPhases
  BY <1>0, <1>4, LogicStepOwns DEF LogicStep, Environment
<1>5. CASE Environment /\ pc \in Outside
  <2>1. Garbage \/ SocketEnds
    BY <1>5, OutsideEnvironment DEF Environment, ClientInv
  <2>2. pc' = pc /\ UNCHANGED replies
    BY <2>1 DEF Garbage, SocketEnds, sessionVars
  <2>3. AtMostOneReply'
    BY <2>2 DEF Ownership, AtMostOneReply
  <2> QED BY <1>5, <2>2, <2>3, RestOwns DEF ClientInv
<1>6. CASE StopSend /\ MailboxAlive
  BY <1>6, CloseAdded DEF StopSend, sessionVars, txnVars, ClientInv, ClientTypeOK
<1>7. CASE (StopSend /\ ~MailboxAlive) \/ StopFlag \/ UNCHANGED vars
  BY <1>7, OwnershipKept DEF StopSend, StopFlag, vars, logicVars, sessionVars, txnVars
<1>8. CASE \E r \in Requests : WaitStep(r)
  BY <1>8, Waits, OwnershipKept DEF logicVars, sessionVars, txnVars
<1>9. CASE \E r \in Requests : SendCmd(r)
  <2> PICK r \in Requests : SendCmd(r)
    BY <1>9
  <2>1. CASE pc \in LogicPhases
    BY <1>0, <2>1, CallersOwn DEF SendCmd
  <2>2. CASE pc \in Outside
    <3>1. Refuse(r)
      BY <2>2 DEF SendCmd, MailboxAlive, ClientInv, Published, LogicPhases, Outside
    <3>2. AtMostOneReply'
      <4>1. /\ Len(replies'[r]) = 1
            /\ \A q \in Requests : q # r => replies'[q] = replies[q]
        BY <3>1, FirstReply DEF Refuse, Fresh, ClientInv, ClientTypeOK
      <4>2. ASSUME NEW q \in Requests PROVE Len(replies'[q]) <= 1
        <5>1. Len(replies[q]) <= 1
          BY DEF Ownership, AtMostOneReply
        <5>2. CASE q = r
          <6>1. Len(replies'[q]) = 1
            BY <4>1, <5>2, Zenon
          <6> QED BY <6>1
        <5>3. CASE q # r
          <6>1. replies'[q] = replies[q]
            BY <4>1, <5>3
          <6> QED BY <5>1, <6>1
        <5> QED BY <5>2, <5>3
      <4> QED BY <4>2 DEF AtMostOneReply
    <3>3. pc' = pc
      BY <3>1 DEF Refuse, sessionVars
    <3> QED BY <2>2, <3>2, <3>3, RestOwns DEF ClientInv
  <2> QED BY <2>1, <2>2, Places DEF ClientInv, ClientTypeOK
<1> QED BY <1>1, <1>2, <1>3, <1>4, <1>5, <1>6, <1>7, <1>8, <1>9, StepCases, Places
        DEF ClientThread, ClientInv, ClientTypeOK

(***************************************************************************)
(* Who is cut off                                                          *)
(***************************************************************************)
Live == {"hello", "auth", "replay", "authed", "loop"}

LEMMA CutOffStep ==
  ASSUME ClientInv, Ownership, CutOffOnlyBySessionEnd, [Next]_vars
  PROVE  CutOffOnlyBySessionEnd'
<1> SUFFICES ASSUME NEW r \in Requests, via'[r] # 0, via'[r] = session',
                    replies'[r] = <<>>, pc' \in Live
             PROVE  Held(r)'
  BY DEF CutOffOnlyBySessionEnd, Live
<1>0. pc \in LogicPhases => TypeOK
  BY ClientTypes, SessionTypes DEF ClientInv
<1>1. ASSUME UNCHANGED <<via, session>>, pc \in Live, replies[r] = <<>>
      PROVE  Held(r)
  BY <1>1 DEF CutOffOnlyBySessionEnd, Live
<1>2. CASE BetweenStep
  <2>1. PublishMailbox
    BY <1>2 DEF BetweenStep, NewSession, StartSession, EndStart, ConnectOk, ConnectFails,
                Unpublish, Deauthenticate, NotifyDisconnected, WakeUp, Live
  <2> QED BY <2>1 DEF PublishMailbox, ClientInv, TakenBy
<1>3. CASE ClientThread
  <2>1. LogicThread /\ pc \in LogicPhases /\ UNCHANGED <<via, session>>
    BY <1>3, ClientThreadIs
  <2>2. ~DropLogic /\ ~Sessionless'
    BY DEF DropLogic, Sessionless, Live
  <2>3. ~Sessionless /\ Served(r) /\ NotLost(r)
    <3>1. TypeOK
      BY <1>0, <2>1
    <3> QED BY <2>1, <2>2, <3>1, AuthServes, ReplayServes, PacketServes, LoopServes
            DEF LogicThread
  <2>4. pc \in Live
    BY <2>1, <2>3 DEF Sessionless, LogicPhases, Live
  <2>5. replies[r] = <<>>
    BY <2>3 DEF Served
  <2> QED BY <1>1, <2>1, <2>3, <2>4, <2>5 DEF NotLost
<1>4. CASE Environment
  <2>1. UNCHANGED <<pc, via, session>>
    BY <1>4, OthersStay DEF Environment, clientVars
  <2>2. TypeOK
    BY <1>0, <2>1 DEF Live, LogicPhases
  <2>3. Untouched(r)
    BY <1>4, <2>2, EnvironmentTouchesNothing DEF Environment
  <2> QED BY <1>1, <2>1, <2>3 DEF Untouched
<1>5. CASE \E q \in Requests : SendCmd(q)
  <2> PICK q \in Requests : SendCmd(q)
    BY <1>5
  <2>1. UNCHANGED <<pc, session>>
    BY OthersStay
  <2>2. Accept(q) /\ via' = [via EXCEPT ![q] = session]
    BY <2>1 DEF SendCmd, MailboxAlive, ClientInv, Published, Live, LogicPhases
  <2>3. \A p \in Requests : (Queued(p) => Queued(p)') /\ (p = q => Queued(p)')
    <3>1. mailbox' = Append(mailbox, CmdEvent(q)) /\ CmdEvent(q).req = q
      BY <2>2 DEF Accept, CmdEvent
    <3> QED BY <3>1, AddKeepsQueued DEF ClientInv, ClientTypeOK
  <2>4. CASE r = q
    BY <2>3, <2>4 DEF Held
  <2>5. CASE r # q
    <3>1. via'[r] = via[r] /\ replies[r] = <<>>
      BY <2>2, <2>5 DEF Accept, ClientInv, ClientTypeOK
    <3>2. Held(r)
      BY <2>1, <3>1 DEF CutOffOnlyBySessionEnd, Live
    <3>3. (Buffered(r)' <=> Buffered(r)) /\ (Pending(r)' <=> Pending(r))
      BY <2>2 DEF Accept, sessionVars, txnVars, Buffered, Pending
    <3> QED BY <2>3, <3>2, <3>3 DEF Held
  <2> QED BY <2>4, <2>5
<1>6. CASE StopSend /\ MailboxAlive
  <2>1. UNCHANGED <<pc, via, session, replies>> /\ (Held(r) => Held(r)')
    BY <1>6, CloseAdded DEF StopSend, sessionVars, txnVars, ClientInv, ClientTypeOK
  <2> QED BY <1>1, <2>1
<1>7. CASE (StopSend /\ ~MailboxAlive) \/ StopFlag \/ UNCHANGED vars
  <2>1. UNCHANGED <<pc, via, session, replies>> /\ (Held(r)' <=> Held(r))
    BY <1>7, OwnershipKept DEF StopSend, StopFlag, vars, logicVars, sessionVars, txnVars,
                               clientVars
  <2> QED BY <1>1, <2>1
<1>8. CASE \E q \in Requests : WaitStep(q)
  <2>1. UNCHANGED <<pc, via, session, replies>> /\ (Held(r)' <=> Held(r))
    BY <1>8, Waits, OwnershipKept DEF logicVars, sessionVars, txnVars, callerUnchanged
  <2> QED BY <1>1, <2>1
<1> QED BY <1>2, <1>3, <1>4, <1>5, <1>6, <1>7, <1>8, StepCases DEF ClientThread

LEMMA InitClientOwns == Init => Ownership /\ CutOffOnlyBySessionEnd
<1> SUFFICES ASSUME Init PROVE Ownership /\ CutOffOnlyBySessionEnd
  OBVIOUS
<1>1. \A r \in Requests : ~Held(r) /\ Len(replies[r]) = 0 /\ via[r] = 0
  BY RequestAssumption DEF Init, Held, Queued, Buffered, Pending, NoPending
<1>2. QueuedOnce /\ BufferedOnce /\ PendingOnce
  BY DEF Init, QueuedOnce, BufferedOnce, PendingOnce, NoPending
<1> QED BY <1>1, <1>2 DEF Ownership, SoleOwner, AtMostOneReply, InOnePlace, Held,
                          CutOffOnlyBySessionEnd

LEMMA AlwaysOwned == Spec => [](ClientInv /\ Ownership /\ CutOffOnlyBySessionEnd)
<1>1. Init => ClientInv /\ Ownership /\ CutOffOnlyBySessionEnd
  BY InitClientInv, InitClientOwns
<1>2. ClientInv /\ Ownership /\ CutOffOnlyBySessionEnd /\ [Next]_vars
        => (ClientInv /\ Ownership /\ CutOffOnlyBySessionEnd)'
  BY NextClientInv, OwnershipStep, CutOffStep
<1> QED BY <1>1, <1>2, PTL DEF Spec

(* Over all sessions, with the commands refused between two of them: a       *)
(* return channel is in one place at a time and is answered at most once.    *)
THEOREM OwnershipOverSessions == Spec => []Ownership
  BY AlwaysOwned, PTL

(* A caller is cut off only by the end of the session that took its command. *)
THEOREM CutOffByItsSession == Spec => []CutOffOnlyBySessionEnd
  BY AlwaysOwned, PTL

(***************************************************************************)
(* The order of the commands, from one session to the next: no command is    *)
(* accepted twice, and what was written has left the mailbox.               *)
(***************************************************************************)
LEMMA AcceptedOnceStep ==
  ASSUME HistoryType, AcceptedOnce, [Next]_vars
  PROVE  AcceptedOnce'
<1>1. CASE UNCHANGED submitted
  BY <1>1 DEF AcceptedOnce
<1> QED BY <1>1, AcceptOnce, OnlyAcceptSubmits

LEMMA RestLine ==
  ASSUME Line, AtRest', pc' \in Outside \cup {"dropped"}, UNCHANGED submitted,
         sent' = sent \/ sent' = <<>>
  PROVE  Line'
<1>1. /\ buffered_cmds' = <<>>
      /\ \A i \in 1 .. Len(mailbox') : mailbox'[i].req = NoReq
  BY DEF AtRest
<1>2. \A r \in Requests : ~Queued(r)' /\ ~Buffered(r)'
  BY <1>1, RequestAssumption DEF Queued, Buffered
<1>3. BufferEmptied' /\ BufferOrdered' /\ MailboxOrdered'
  BY <1>1 DEF BufferEmptied, BufferOrdered, MailboxOrdered
<1>4. \A r \in Requests : /\ Written(r)' => Written(r)
                          /\ Submitted(r)' <=> Submitted(r)
  BY DEF Written, Submitted
<1>5. InLine'
  BY <1>2, <1>4 DEF Line, InLine
<1>6. WrittenInOrder'
  BY DEF Line, WrittenInOrder
<1> QED BY <1>3, <1>5, <1>6 DEF Line

LEMMA LineKept ==
  ASSUME Line, UNCHANGED <<mailbox, buffered_cmds, sent, submitted>>, BufferEmptied'
  PROVE  Line'
  BY KeepInOrder, LineStill DEF Line

LEMMA LogicStepLine ==
  ASSUME TypeOK, Ownership, Line, LogicStep
  PROVE  Line'
<1>1. LogicThread => Line'
  BY AuthLine, ReplayLine, PacketLine, LoopLine DEF LogicThread
<1> QED BY <1>1, EnvironmentLine, CallersLine DEF LogicStep

LEMMA ClientLineStep ==
  ASSUME ClientInv, ClientInv', Ownership, Line, [Next]_vars
  PROVE  Line'
<1>0. pc \in LogicPhases => TypeOK
  BY ClientTypes, SessionTypes DEF ClientInv
<1>1. CASE BetweenStep /\ ~PublishMailbox
  <2>1. pc' \in Outside \cup {"dropped"} /\ UNCHANGED submitted /\ sent' \in {sent, <<>>}
    BY <1>1 DEF BetweenStep, NewSession, StartSession, EndStart, ConnectOk, ConnectFails,
                Unpublish, Deauthenticate, NotifyDisconnected, WakeUp, restUnchanged, Outside
  <2> QED BY <2>1, RestLine DEF ClientInv
<1>2. CASE PublishMailbox
  <2>1. BufferEmptied'
    BY <1>2 DEF PublishMailbox, BufferEmptied
  <2> QED BY <1>2, <2>1, LineKept DEF PublishMailbox, restUnchanged
<1>3. CASE ClientThread
  BY <1>0, <1>3, ClientThreadIs, LogicStepLine DEF LogicStep
<1>4. CASE Environment /\ pc \in LogicPhases
  BY <1>0, <1>4, LogicStepLine DEF LogicStep, Environment
<1>5. CASE Environment /\ pc \in Outside
  <2>1. Garbage \/ SocketEnds
    BY <1>5, OutsideEnvironment DEF Environment, ClientInv
  <2>2. pc' = pc /\ UNCHANGED <<sent, submitted>>
    BY <2>1 DEF Garbage, SocketEnds, sessionVars
  <2> QED BY <1>5, <2>2, RestLine DEF ClientInv
<1>6. CASE StopSend /\ MailboxAlive
  <2>1. MailboxOrdered' /\ \A r \in Requests : Queued(r)' => Queued(r)
    <3>1. Event("close").req = NoReq
      BY DEF Event
    <3> QED BY <1>6, <3>1, AddInOrder DEF StopSend, Line, ClientInv, ClientTypeOK
  <2>2. BufferEmptied'
    BY <1>6 DEF StopSend, sessionVars, Line, BufferEmptied
  <2> QED BY <1>6, <2>1, <2>2, LineStill DEF StopSend, sessionVars
<1>7. CASE (StopSend /\ ~MailboxAlive) \/ StopFlag \/ UNCHANGED vars
           \/ \E r \in Requests : WaitStep(r)
  <2>1. UNCHANGED <<pc, mailbox, buffered_cmds, sent, submitted>>
    BY <1>7, Waits DEF StopSend, StopFlag, vars, logicVars, sessionVars
  <2>2. BufferEmptied'
    BY <2>1 DEF Line, BufferEmptied
  <2> QED BY <2>1, <2>2, LineKept
<1>8. CASE \E r \in Requests : SendCmd(r)
  <2> PICK r \in Requests : SendCmd(r)
    BY <1>8
  <2>1. CASE pc \in LogicPhases
    BY <1>0, <2>1, CallersLine DEF SendCmd
  <2>2. CASE pc \in Outside
    <3>1. Refuse(r)
      BY <2>2 DEF SendCmd, MailboxAlive, ClientInv, Published, LogicPhases, Outside
    <3>2. UNCHANGED <<pc, sent, submitted>>
      BY <3>1 DEF Refuse, sessionVars
    <3> QED BY <2>2, <3>2, RestLine DEF ClientInv
  <2> QED BY <2>1, <2>2, Places DEF ClientInv, ClientTypeOK
<1> QED BY <1>1, <1>2, <1>3, <1>4, <1>5, <1>6, <1>7, <1>8, StepCases, Places
        DEF ClientThread, ClientInv, ClientTypeOK

LEMMA InitClientLine == Init => AcceptedOnce /\ Line
  BY DEF Init, AcceptedOnce, Line, BufferEmptied, BufferOrdered, MailboxOrdered, InLine,
         WrittenInOrder, Written, Buffered

(* The commands that a session writes are in the order in which its mailbox  *)
(* took them, whatever sessions went before.                                *)
THEOREM WrittenInOrderOverSessions == Spec => []WrittenInOrder
<1>1. Init => ClientInv /\ Ownership /\ Line
  BY InitClientInv, InitClientOwns, InitClientLine
<1>2. ClientInv /\ Ownership /\ Line /\ [Next]_vars => (ClientInv /\ Ownership /\ Line)'
  BY NextClientInv, OwnershipStep, ClientLineStep
<1>3. Line => WrittenInOrder
  BY DEF Line
<1> QED BY <1>1, <1>2, <1>3, PTL DEF Spec

(***************************************************************************)
(* Which answer reaches whom                                               *)
(*                                                                         *)
(* While a session has written fewer commands with transaction ids than      *)
(* there are ids, it gave out 0, 1, 2, ... in turn, and every answer on its  *)
(* way carries the id of its own request or the mail it is about.  An entry  *)
(* of pending_txns under an id that was given out is that request's, or gone.*)
(***************************************************************************)
IdRequests == {r \in Requests : Kind[r] \in TxnKinds}
FewIds     == IsFiniteSet(IdRequests) /\ Cardinality(IdRequests) <= TxnMod
WithId     == {r \in IdRequests : Written(r)}
Ids        == Cardinality(WithId)

\* pend, n: pending_txns and Ids, or what they become
FitsKey(k, r) ==
  IF k \in TxnIds THEN Kind[r] \in TxnKinds ELSE Kind[r] \in MailOps /\ MailOf[r] = k
Sound(k, r, pend, n) ==
  FitsKey(k, r) /\ (k \in TxnIds => k < n /\ pend[k] \in {NoReq, r})
Good(p, pend, n) ==
  p.type \in Responses => p.type = RespType(p.from) /\ Sound(p.key, p.from, pend, n)
AllGood(ps, pend, n)  == \A i \in 1 .. Len(ps) : Good(ps[i], pend, n)
MailGood(mb, pend, n) == \A i \in 1 .. Len(mb) : AllGood(mb[i].packets, pend, n)

Tracked ==
  /\ next_txn_id = Ids % TxnMod
  /\ \A k \in Keys : pending_txns[k] # NoReq =>
       FitsKey(k, pending_txns[k]) /\ (k \in TxnIds => k < Ids)
  /\ \A p \in outstanding : Sound(p.key, p.from, pending_txns, Ids)
  /\ AllGood(batch, pending_txns, Ids)
  /\ MailGood(mailbox, pending_txns, Ids)

(* Ids that are given out and entries that go away hurt no answer.          *)
LEMMA GoodKept ==
  ASSUME NEW pend, NEW n \in Nat, NEW pend2, NEW n2 \in Nat, n <= n2,
         \A k \in TxnIds : k < n => pend2[k] \in {NoReq, pend[k]}
  PROVE  /\ \A k, r : Sound(k, r, pend, n) => Sound(k, r, pend2, n2)
         /\ \A ps : AllGood(ps, pend, n) => AllGood(ps, pend2, n2)
         /\ \A mb : MailGood(mb, pend, n) => MailGood(mb, pend2, n2)
<1>1. ASSUME NEW k, NEW r, Sound(k, r, pend, n) PROVE Sound(k, r, pend2, n2)
  <2>1. CASE k \in TxnIds
    <3>1. k \in Int /\ k < n2
      BY <1>1, <2>1, BoundAssumption DEF TxnIds, Sound
    <3> QED BY <1>1, <2>1, <3>1 DEF Sound
  <2> QED BY <1>1, <2>1 DEF Sound
<1>2. \A p : Good(p, pend, n) => Good(p, pend2, n2)
  BY <1>1 DEF Good
<1>3. \A ps : AllGood(ps, pend, n) => AllGood(ps, pend2, n2)
  BY <1>2 DEF AllGood
<1> QED BY <1>1, <1>3 DEF MailGood

(* The sequences of packets.                                               *)
LEMMA GoodHead ==
  ASSUME NEW ps \in Seq(Packets), ps # <<>>, NEW pend, NEW n, AllGood(ps, pend, n)
  PROVE  Good(Head(ps), pend, n) /\ AllGood(Tail(ps), pend, n)
<1>1. /\ Len(ps) \in Nat /\ Len(ps) >= 1 /\ Len(Tail(ps)) = Len(ps) - 1
      /\ \A i \in 1 .. Len(Tail(ps)) : Tail(ps)[i] = ps[i + 1]
      /\ Head(ps) = ps[1]
  OBVIOUS
<1> QED BY <1>1 DEF AllGood

LEMMA MailGoodHead ==
  ASSUME NEW mb \in Seq(Events), mb # <<>>, NEW pend, NEW n, MailGood(mb, pend, n)
  PROVE  AllGood(Head(mb).packets, pend, n) /\ MailGood(Tail(mb), pend, n)
<1>1. /\ Len(mb) \in Nat /\ Len(mb) >= 1 /\ Len(Tail(mb)) = Len(mb) - 1
      /\ \A i \in 1 .. Len(Tail(mb)) : Tail(mb)[i] = mb[i + 1]
      /\ Head(mb) = mb[1]
  OBVIOUS
<1> QED BY <1>1 DEF MailGood

LEMMA MailGoodAdd ==
  ASSUME NEW mb \in Seq(Events), NEW e, NEW pend, NEW n, MailGood(mb, pend, n),
         AllGood(e.packets, pend, n)
  PROVE  MailGood(Append(mb, e), pend, n)
<1>1. /\ Len(mb) \in Nat /\ Len(Append(mb, e)) = Len(mb) + 1
      /\ \A i \in 1 .. Len(mb) : Append(mb, e)[i] = mb[i]
      /\ Append(mb, e)[Len(mb) + 1] = e
  OBVIOUS
<1> QED BY <1>1 DEF MailGood

LEMMA MailGoodPut ==
  ASSUME NEW mb \in Seq(Events), mb # <<>>, mb[Len(mb)].type = "recv",
         NEW p, NEW pend, NEW n, MailGood(mb, pend, n), Good(p, pend, n)
  PROVE  MailGood([mb EXCEPT ![Len(mb)].packets = Append(@, p)], pend, n)
<1> DEFINE last == Len(mb)
           put == [mb EXCEPT ![last].packets = Append(@, p)]
           ps == mb[last].packets
<1>1. last \in Nat /\ last >= 1 /\ mb[last] \in Events /\ DOMAIN mb = 1 .. last
  OBVIOUS
<1>2. ps \in Seq(Packets)
  BY <1>1, EventShape
<1>3. AllGood(ps, pend, n)
  BY <1>1 DEF MailGood
<1>4. AllGood(Append(ps, p), pend, n)
  <2>1. /\ Len(ps) \in Nat /\ Len(Append(ps, p)) = Len(ps) + 1
        /\ \A i \in 1 .. Len(ps) : Append(ps, p)[i] = ps[i]
        /\ Append(ps, p)[Len(ps) + 1] = p
    BY <1>2
  <2> HIDE DEF ps
  <2> QED BY <1>3, <2>1 DEF AllGood
<1>5. Len(put) = last /\ \A i \in 1 .. last : i # last => put[i] = mb[i]
  BY <1>1
<1>6. put[last].packets = Append(ps, p)
  <2>1. put[last] = [mb[last] EXCEPT !.packets = Append(@, p)]
    BY <1>1
  <2>2. [mb[last] EXCEPT !.packets = Append(@, p)].packets = Append(mb[last].packets, p)
    BY <1>1 DEF Events
  <2> QED BY <2>1, <2>2
<1>7. ASSUME NEW i \in 1 .. last PROVE AllGood(put[i].packets, pend, n)
  <2>1. CASE i = last
    BY <1>4, <1>6, <2>1
  <2>2. CASE i # last
    BY <1>5, <2>2 DEF MailGood
  <2> QED BY <2>1, <2>2
<1> HIDE DEF last, put, ps
<1>8. MailGood(put, pend, n)
  BY <1>5, <1>7 DEF MailGood
<1> QED BY <1>8 DEF put, last

(* How many ids are given out.                                             *)
LEMMA IdsType ==
  ASSUME FewIds
  PROVE  IsFiniteSet(WithId) /\ Ids \in Nat /\ Ids <= TxnMod
<1>1. WithId \subseteq IdRequests
  BY DEF WithId
<1>2. IsFiniteSet(WithId) /\ Cardinality(WithId) <= Cardinality(IdRequests)
  BY <1>1, FS_Subset DEF FewIds
<1>3. Cardinality(WithId) \in Nat /\ Cardinality(IdRequests) \in Nat
  BY <1>2, FS_CardinalityType DEF FewIds
<1> QED BY <1>2, <1>3, BoundAssumption DEF FewIds, Ids

LEMMA IdsKept ==
  ASSUME UNCHANGED sent
  PROVE  Ids' = Ids
<1>1. WithId' = WithId
  BY DEF WithId, Written
<1> QED BY <1>1 DEF Ids

LEMMA IdsNext ==
  ASSUME FewIds, HistoryType, NEW r \in Requests, ~Written(r), sent' = Append(sent, r)
  PROVE  /\ Kind[r] \in TxnKinds => Ids < TxnMod /\ Ids' = Ids + 1
         /\ Kind[r] \notin TxnKinds => Ids' = Ids
<1>1. \A q : Written(q)' <=> Written(q) \/ q = r
  <2>1. /\ Len(sent) \in Nat /\ Len(sent') = Len(sent) + 1
        /\ \A i \in 1 .. Len(sent) : sent'[i] = sent[i]
        /\ sent'[Len(sent) + 1] = r
    BY DEF HistoryType
  <2> QED BY <2>1 DEF Written
<1>2. CASE Kind[r] \in TxnKinds
  <2> DEFINE after == WithId \cup {r}
  <2>1. WithId' = after
    BY <1>1, <1>2 DEF WithId, IdRequests
  <2>2. r \notin WithId
    BY DEF WithId
  <2>3. Cardinality(after) = Ids + 1
    BY <2>2, IdsType, FS_AddElement DEF Ids
  <2>4. after \subseteq IdRequests
    BY <1>2 DEF WithId, IdRequests
  <2>5. Cardinality(after) <= Cardinality(IdRequests)
    BY <2>4, FS_Subset DEF FewIds
  <2>6. Ids + 1 <= TxnMod
    <3>1. Cardinality(IdRequests) \in Nat
      BY FS_CardinalityType DEF FewIds
    <3> QED BY <2>3, <2>5, <3>1, IdsType, BoundAssumption DEF FewIds
  <2> QED BY <1>2, <2>1, <2>3, <2>6, IdsType, BoundAssumption DEF Ids
<1>3. CASE Kind[r] \notin TxnKinds
  <2>1. WithId' = WithId
    BY <1>1, <1>3 DEF WithId, IdRequests
  <2> QED BY <1>3, <2>1 DEF Ids
<1> QED BY <1>2, <1>3

(* A step that writes nothing.                                             *)
LEMMA TrackedStill ==
  ASSUME FewIds, Tracked, UNCHANGED <<next_txn_id, sent>>,
         \A k \in Keys : pending_txns'[k] \in {NoReq, pending_txns[k]},
         outstanding' \subseteq outstanding,
         AllGood(batch', pending_txns, Ids), MailGood(mailbox', pending_txns, Ids)
  PROVE  Tracked'
<1>1. Ids' = Ids /\ Ids \in Nat
  BY IdsKept, IdsType
<1> PICK pend : pend = pending_txns
  OBVIOUS
<1> PICK n \in Nat : n = Ids
  BY <1>1
<1> PICK pend2 : pend2 = pending_txns'
  OBVIOUS
<1>2. \A k \in TxnIds : k < n => pend2[k] \in {NoReq, pend[k]}
  BY DEF Keys
<1>3. /\ \A k, r : Sound(k, r, pend, n) => Sound(k, r, pend2, n)
      /\ \A ps : AllGood(ps, pend, n) => AllGood(ps, pend2, n)
      /\ \A mb : MailGood(mb, pend, n) => MailGood(mb, pend2, n)
  BY <1>2, GoodKept
<1>4. \A p \in outstanding' : Sound(p.key, p.from, pend2, n)
  BY <1>3 DEF Tracked
<1>5. AllGood(batch', pend2, n) /\ MailGood(mailbox', pend2, n)
  BY <1>3
<1>6. \A k \in Keys : pend2[k] # NoReq =>
        FitsKey(k, pend2[k]) /\ (k \in TxnIds => k < n)
  BY DEF Tracked
<1> QED BY <1>1, <1>4, <1>5, <1>6 DEF Tracked

(* A step that stores request r under key k and writes it.                  *)
LEMMA TrackedWrites ==
  ASSUME FewIds, Tracked, NEW k \in Keys, NEW r \in Requests,
         Ids' \in Nat, Ids <= Ids', next_txn_id' = Ids' % TxnMod,
         FitsKey(k, r), k \in TxnIds => Ids <= k /\ k < Ids',
         pending_txns \in [Keys -> Requests \cup {NoReq}],
         pending_txns' = [pending_txns EXCEPT ![k] = r],
         outstanding' \subseteq outstanding \cup {[key |-> k, from |-> r]},
         UNCHANGED batch, MailGood(mailbox', pending_txns, Ids)
  PROVE  Tracked'
<1>0. Ids \in Nat
  BY IdsType
<1> PICK pend : pend = pending_txns
  OBVIOUS
<1> PICK n \in Nat : n = Ids
  BY <1>0
<1> PICK pend2 : pend2 = pending_txns'
  OBVIOUS
<1> PICK n2 \in Nat : n2 = Ids'
  OBVIOUS
<1>1. n <= n2 /\ pend2[k] = r /\ \A l \in Keys : l # k => pend2[l] = pend[l]
  OBVIOUS
<1>2. \A l \in TxnIds : l < n => pend2[l] \in {NoReq, pend[l]}
  <2> TAKE l \in TxnIds
  <2> HAVE l < n
  <2>1. l # k
    <3>1. CASE k \in TxnIds
      <4>1. n <= k /\ k \in Int /\ l \in Int
        BY <3>1, BoundAssumption DEF TxnIds
      <4> QED BY <4>1
    <3> QED BY <3>1
  <2> QED BY <1>1, <2>1 DEF Keys
<1>3. /\ \A l, q : Sound(l, q, pend, n) => Sound(l, q, pend2, n2)
      /\ \A ps : AllGood(ps, pend, n) => AllGood(ps, pend2, n2)
      /\ \A mb : MailGood(mb, pend, n) => MailGood(mb, pend2, n2)
  BY <1>1, <1>2, GoodKept
<1>4. Sound(k, r, pend2, n2)
  BY <1>1 DEF Sound
<1>5. ASSUME NEW p \in outstanding' PROVE Sound(p.key, p.from, pend2, n2)
  <2>1. CASE p \in outstanding
    BY <1>3, <2>1 DEF Tracked
  <2>2. CASE p = [key |-> k, from |-> r]
    <3>1. p.key = k /\ p.from = r
      BY <2>2
    <3> QED BY <1>4, <3>1
  <2> QED BY <2>1, <2>2
<1>6. AllGood(batch', pend2, n2) /\ MailGood(mailbox', pend2, n2)
  BY <1>3 DEF Tracked
<1>7. ASSUME NEW l \in Keys, pend2[l] # NoReq
      PROVE  FitsKey(l, pend2[l]) /\ (l \in TxnIds => l < n2)
  <2>1. CASE l = k
    BY <1>1, <2>1
  <2>2. CASE l # k
    <3>1. pend2[l] = pend[l]
      BY <1>1, <2>2
    <3>2. FitsKey(l, pend[l]) /\ (l \in TxnIds => l < n)
      BY <1>7, <3>1 DEF Tracked
    <3>3. l \in TxnIds => l \in Int
      BY BoundAssumption DEF TxnIds
    <3> QED BY <1>1, <3>1, <3>2, <3>3
  <2> QED BY <2>1, <2>2
<1> QED BY <1>5, <1>6, <1>7 DEF Tracked

LEMMA ModSmall ==
  ASSUME NEW m \in Nat \ {0}, NEW n \in Nat, n < m
  PROVE  n % m = n
  OBVIOUS

LEMMA KindsApart ==
  ASSUME NEW r \in Requests
  PROVE  /\ Kind[r] \in MailOps <=> Kind[r] \notin TxnKinds
         /\ MailOf[r] \in Keys /\ MailOf[r] \notin TxnIds
<1>1. Kind[r] \in Kinds /\ MailOf[r] \in MailIds
  BY KindAssumption
<1>2. MailOf[r] \notin TxnIds
  BY <1>1, MailIdAssumption, BoundAssumption DEF TxnIds
<1> QED BY <1>1, <1>2 DEF Kinds, MailOps, TxnKinds, Keys

LEMMA HandleCmdTracks ==
  ASSUME FewIds, TypeOK, Tracked, NEW r \in Requests, ~Written(r), NEW rest,
         HandleCmd(r, rest), pc' # "ended", MailGood(mailbox', pending_txns, Ids)
  PROVE  Tracked'
<1>1. CASE RejectName(r, rest) \/ DuplicateMailOp(r, rest)
  <2>1. UNCHANGED <<next_txn_id, sent, pending_txns, outstanding, batch>>
    BY <1>1 DEF RejectName, DuplicateMailOp, txnVars, serverVars, Continue
  <2>2. AllGood(batch', pending_txns, Ids)
    BY <2>1 DEF Tracked
  <2> QED BY <2>1, <2>2, TrackedStill
<1>2. ASSUME NEW k \in Keys, WriteCmd(r, k, rest)
      PROVE  /\ sent' = Append(sent, r) /\ UNCHANGED batch
             /\ outstanding' \subseteq outstanding \cup {[key |-> k, from |-> r]}
  BY <1>2 DEF WriteCmd, EndSession, Continue
<1>3. CASE PushTxn(r, rest)
  <2> PICK i \in FreeProbes :
        /\ \A j \in FreeProbes : i <= j
        /\ pending_txns' = [pending_txns EXCEPT ![Probe(i)] = r]
        /\ next_txn_id' = Probe(i + 1)
        /\ WriteCmd(r, Probe(i), rest)
    BY <1>3 DEF PushTxn
  <2>1. i \in Nat /\ Kind[r] \in TxnKinds
    BY <1>3 DEF PushTxn, FreeProbes
  <2>2. Probe(i) \in TxnIds /\ Probe(i) \in Keys
    BY <2>1, ProbeIsTxnId DEF TypeOK, TxnType, Keys
  <2>3. /\ sent' = Append(sent, r) /\ UNCHANGED batch
        /\ outstanding' \subseteq outstanding \cup {[key |-> Probe(i), from |-> r]}
    BY <1>2, <2>2
  <2>4. Ids \in Nat /\ Ids < TxnMod /\ Ids' = Ids + 1
    BY <2>1, <2>3, IdsNext, IdsType DEF TypeOK
  <2>5. next_txn_id = Ids
    BY <2>4, ModSmall, BoundAssumption DEF Tracked
  <2>6. Probe(0) = Ids
    BY <2>4, <2>5, ModSmall, BoundAssumption DEF Probe
  <2>7. Ids \in TxnIds
    BY <2>4, BoundAssumption DEF TxnIds
  <2>8. pending_txns[Ids] = NoReq
    BY <2>4, <2>7 DEF Tracked, Keys
  <2>9. i = 0
    <3>1. 0 \in FreeProbes
      BY <2>6, <2>8 DEF FreeProbes
    <3> QED BY <2>1, <3>1
  <2>10. next_txn_id' = Ids' % TxnMod
    BY <2>4, <2>5, <2>9 DEF Probe
  <2>11. Probe(i) = Ids /\ FitsKey(Probe(i), r)
    BY <2>1, <2>2, <2>6, <2>9 DEF FitsKey
  <2>12. Ids <= Probe(i) /\ Probe(i) < Ids' /\ Ids <= Ids' /\ Ids' \in Nat
    BY <2>4, <2>11
  <2> HIDE DEF Probe, FreeProbes
  <2> QED BY <2>2, <2>3, <2>10, <2>11, <2>12, TrackedWrites DEF TypeOK, TxnType
<1>4. CASE TxnExhausted(r)
  BY <1>4 DEF TxnExhausted, EndSession
<1>5. CASE PushMailOp(r, rest)
  <2>1. /\ MailOf[r] \in Keys /\ MailOf[r] \notin TxnIds
        /\ Kind[r] \in MailOps /\ Kind[r] \notin TxnKinds
    BY <1>5, KindsApart DEF PushMailOp
  <2>2. /\ sent' = Append(sent, r) /\ UNCHANGED batch
        /\ outstanding' \subseteq outstanding \cup {[key |-> MailOf[r], from |-> r]}
    BY <1>2, <1>5, <2>1 DEF PushMailOp
  <2>3. Ids' = Ids /\ Ids \in Nat
    BY <2>1, <2>2, IdsNext, IdsType DEF TypeOK
  <2>4. /\ pending_txns' = [pending_txns EXCEPT ![MailOf[r]] = r]
        /\ next_txn_id' = Ids' % TxnMod
    BY <1>5, <2>3 DEF PushMailOp, Tracked
  <2>5. FitsKey(MailOf[r], r)
    BY <2>1 DEF FitsKey
  <2>6. Ids <= Ids'
    BY <2>3
  <2> QED BY <2>1, <2>2, <2>3, <2>4, <2>5, <2>6, TrackedWrites DEF TypeOK, TxnType
<1> QED BY <1>1, <1>3, <1>4, <1>5 DEF HandleCmd

(* Steps of the session's thread, as long as the session goes on.           *)
LEMMA TakesEvent ==
  ASSUME TypeOK, Tracked, mailbox # <<>>, mailbox' = Tail(mailbox)
  PROVE  /\ AllGood(Head(mailbox).packets, pending_txns, Ids)
         /\ MailGood(mailbox', pending_txns, Ids)
  BY MailGoodHead DEF TypeOK, MailboxType, Tracked

LEMMA AuthTracks ==
  ASSUME FewIds, TypeOK, Tracked, pc' # "ended",
         SendConnect \/ AuthBuffer \/ AuthConnected \/ AuthRefused
           \/ AuthBroken \/ AuthTimeout
  PROVE  Tracked'
<1>1. UNCHANGED <<next_txn_id, sent, pending_txns, outstanding>>
  BY DEF SendConnect, AuthBuffer, AuthConnected, AuthRefused, AuthBroken, AuthTimeout,
         AuthEvent, txnVars, serverVars
<1>2. CASE SendConnect
  <2>1. UNCHANGED <<batch, mailbox>>
    BY <1>2 DEF SendConnect, EndSession
  <2>2. AllGood(batch', pending_txns, Ids) /\ MailGood(mailbox', pending_txns, Ids)
    BY <2>1 DEF Tracked
  <2> QED BY <1>1, <2>2, TrackedStill
<1>3. CASE AuthBuffer
  <2>1. mailbox # <<>> /\ mailbox' = Tail(mailbox) /\ UNCHANGED batch
    BY <1>3 DEF AuthBuffer, AuthEvent
  <2>2. AllGood(batch', pending_txns, Ids) /\ MailGood(mailbox', pending_txns, Ids)
    BY <2>1, TakesEvent DEF Tracked
  <2> QED BY <1>1, <2>2, TrackedStill
<1>4. CASE AuthConnected
  <2>1. /\ mailbox # <<>> /\ mailbox' = Tail(mailbox) /\ Head(mailbox).type = "recv"
        /\ batch' = Tail(Head(mailbox).packets)
    BY <1>4 DEF AuthConnected, AuthEvent
  <2> PICK e : e = Head(mailbox)
    OBVIOUS
  <2>2. e.packets \in Seq(Packets) /\ e.packets # <<>>
    BY <2>1, MailboxHead, EventShape DEF TypeOK
  <2>3. AllGood(Tail(e.packets), pending_txns, Ids)
    BY <2>1, <2>2, TakesEvent, GoodHead
  <2>4. AllGood(batch', pending_txns, Ids) /\ MailGood(mailbox', pending_txns, Ids)
    BY <2>1, <2>3, TakesEvent
  <2> QED BY <1>1, <2>4, TrackedStill
<1>5. ~AuthRefused /\ ~AuthBroken /\ ~AuthTimeout
  BY DEF AuthRefused, AuthBroken, AuthTimeout, EndSession
<1> QED BY <1>2, <1>3, <1>4, <1>5

LEMMA ReplayTracks ==
  ASSUME FewIds, TypeOK, AcceptedOnce, Line, Tracked, pc' # "ended",
         Replay \/ ReplayDone \/ StartLoop
  PROVE  Tracked'
<1>1. UNCHANGED mailbox
  BY DEF Replay, ReplayDone, StartLoop
<1>2. MailGood(mailbox', pending_txns, Ids)
  BY <1>1 DEF Tracked
<1>3. CASE Replay
  <2>1. /\ HandleCmd(Head(buffered_cmds), Tail(buffered_cmds)) /\ buffered_cmds # <<>>
        /\ Head(buffered_cmds) \in Requests
    BY <1>3 DEF Replay, TypeOK, SessionType
  <2> PICK r \in Requests : r = Head(buffered_cmds)
    BY <2>1
  <2> PICK rest : rest = Tail(buffered_cmds)
    OBVIOUS
  <2>2. Buffered(r)
    <3>1. 1 \in 1 .. Len(buffered_cmds) /\ buffered_cmds[1] = r
      BY <2>1 DEF TypeOK, SessionType
    <3> QED BY <3>1 DEF Buffered
  <2>3. ~Written(r)
    BY <2>2, WrittenIsGone DEF TypeOK
  <2> QED BY <1>2, <2>1, <2>3, HandleCmdTracks
<1>4. CASE ReplayDone \/ StartLoop
  <2>1. UNCHANGED <<next_txn_id, sent, pending_txns, outstanding, batch>>
    BY <1>4 DEF ReplayDone, StartLoop, txnVars, serverVars
  <2>2. AllGood(batch', pending_txns, Ids)
    BY <2>1 DEF Tracked
  <2> QED BY <1>2, <2>1, <2>2, TrackedStill
<1> QED BY <1>3, <1>4

LEMMA PacketTracks ==
  ASSUME FewIds, TypeOK, Tracked, pc' # "ended",
         RespPulse \/ RespNext \/ RespAckMail \/ RespHeartbeatAck
           \/ RespNewMail \/ RespGoodbye
  PROVE  Tracked'
<1>1. ~RespGoodbye
  BY DEF RespGoodbye, EndSession
<1>2. /\ batch # <<>> /\ UNCHANGED <<next_txn_id, outstanding, mailbox, sent>>
      /\ batch' = Tail(batch)
      /\ UNCHANGED pending_txns \/ Resolve
  BY <1>1 DEF RespPulse, RespNext, RespAckMail, RespHeartbeatAck, RespNewMail, TakePacket,
              NextPacket, serverVars
<1>3. \A k \in Keys : pending_txns'[k] \in {NoReq, pending_txns[k]}
  BY <1>2 DEF Resolve, TypeOK, TxnType
<1>4. AllGood(batch', pending_txns, Ids) /\ MailGood(mailbox', pending_txns, Ids)
  BY <1>2, GoodHead DEF Tracked, TypeOK, SessionType
<1> QED BY <1>2, <1>3, <1>4, TrackedStill

LEMMA LoopTracks ==
  ASSUME FewIds, TypeOK, AcceptedOnce, Line, Tracked, pc' \notin {"ended", "dropped"},
         LoopCmd \/ LoopRecv \/ LoopRefresh \/ LoopHeartbeat \/ LoopBroken
           \/ LoopHalted \/ DropLogic
  PROVE  Tracked'
<1>1. ~LoopBroken /\ ~LoopHalted /\ ~DropLogic
  BY DEF LoopBroken, LoopHalted, DropLogic, EndSession
<1>2. mailbox # <<>> /\ mailbox' = Tail(mailbox)
  BY <1>1 DEF LoopCmd, LoopRecv, LoopRefresh, LoopHeartbeat, LoopEvent
<1>3. /\ AllGood(Head(mailbox).packets, pending_txns, Ids)
      /\ MailGood(mailbox', pending_txns, Ids)
  BY <1>2, TakesEvent
<1>4. CASE LoopCmd
  <2>1. HandleCmd(Head(mailbox).req, buffered_cmds) /\ Head(mailbox).req \in Requests
    BY <1>4, LoopEventType, EventShape DEF LoopCmd
  <2> PICK r \in Requests : r = Head(mailbox).req
    BY <2>1
  <2> PICK rest : rest = buffered_cmds
    OBVIOUS
  <2>2. Queued(r)
    <3>1. 1 \in 1 .. Len(mailbox) /\ mailbox[1].req = r
      BY <1>2 DEF TypeOK, MailboxType
    <3> QED BY <3>1 DEF Queued
  <2>3. ~Written(r)
    BY <2>2, WrittenIsGone DEF TypeOK
  <2> QED BY <1>3, <2>1, <2>3, HandleCmdTracks
<1>5. CASE LoopRecv
  <2>1. /\ batch' = Head(mailbox).packets
        /\ UNCHANGED <<next_txn_id, sent, pending_txns, outstanding>>
    BY <1>5 DEF LoopRecv, txnVars, serverVars
  <2>2. AllGood(batch', pending_txns, Ids)
    BY <1>3, <2>1
  <2> QED BY <1>3, <2>1, <2>2, TrackedStill
<1>6. CASE LoopRefresh
  <2>1. /\ UNCHANGED <<next_txn_id, sent, outstanding, batch>>
        /\ \A k \in Keys : pending_txns'[k] \in {NoReq, pending_txns[k]}
    BY <1>6 DEF LoopRefresh, sessionVars, serverVars
  <2>2. AllGood(batch', pending_txns, Ids)
    BY <2>1 DEF Tracked
  <2> QED BY <1>3, <2>1, <2>2, TrackedStill
<1>7. CASE LoopHeartbeat
  <2>1. UNCHANGED <<next_txn_id, sent, pending_txns, outstanding, batch>>
    BY <1>7 DEF LoopHeartbeat, txnVars, serverVars, sessionVars, EndSession
  <2>2. AllGood(batch', pending_txns, Ids)
    BY <2>1 DEF Tracked
  <2> QED BY <1>3, <2>1, <2>2, TrackedStill
<1> QED BY <1>1, <1>4, <1>5, <1>6, <1>7

(* What joins the mailbox from outside.                                     *)
LEMMA EventTracks ==
  ASSUME FewIds, TypeOK, Tracked, NEW e, e.packets = <<>>, mailbox' = Append(mailbox, e),
         UNCHANGED <<next_txn_id, sent, pending_txns, batch>>,
         outstanding' \subseteq outstanding
  PROVE  Tracked'
<1>1. AllGood(e.packets, pending_txns, Ids)
  BY DEF AllGood
<1>2. MailGood(mailbox', pending_txns, Ids)
  BY <1>1, MailGoodAdd DEF TypeOK, MailboxType, Tracked
<1>3. AllGood(batch', pending_txns, Ids)
  BY DEF Tracked
<1> QED BY <1>2, <1>3, TrackedStill

LEMMA DeliverTracks ==
  ASSUME FewIds, TypeOK, Tracked, NEW p, Deliver(p), Good(p, pending_txns, Ids),
         UNCHANGED sent, outstanding' \subseteq outstanding
  PROVE  Tracked'
<1>1. UNCHANGED <<next_txn_id, pending_txns, batch>>
  BY DEF Deliver, sessionVars, txnVars
<1>2. MailGood(mailbox', pending_txns, Ids)
  <2>1. CASE mailbox' = Append(mailbox, RecvEvent(p))
    <3>1. AllGood(RecvEvent(p).packets, pending_txns, Ids)
      BY DEF RecvEvent, AllGood
    <3> QED BY <2>1, <3>1, MailGoodAdd DEF TypeOK, MailboxType, Tracked
  <2>2. CASE /\ mailbox # <<>> /\ mailbox[Len(mailbox)].type = "recv"
             /\ mailbox' = [mailbox EXCEPT ![Len(mailbox)].packets = Append(@, p)]
    BY <2>2, MailGoodPut DEF TypeOK, MailboxType, Tracked
  <2> QED BY <2>1, <2>2 DEF Deliver
<1>3. AllGood(batch', pending_txns, Ids)
  BY <1>1 DEF Tracked
<1> QED BY <1>1, <1>2, <1>3, TrackedStill

LEMMA EnvironmentTracks ==
  ASSUME FewIds, TypeOK, Tracked, Timer \/ Server \/ \E k \in Keys : Age(k)
  PROVE  Tracked'
<1>1. UNCHANGED <<next_txn_id, sent, pending_txns, batch>> /\ outstanding' \subseteq outstanding
  BY DEF Timer, TimerRefresh, TimerHeartbeat, TimerGiveUp, timerUnchanged, Age, Server,
         ServerConnect, ServerAnswer, ServerHeartbeatAck, ServerPush, Garbage, SocketEnds,
         Deliver, sessionVars, txnVars, serverVars
<1>2. CASE Timer \/ Garbage \/ SocketEnds
  <2>1. PICK type : mailbox' = Append(mailbox, Event(type))
    BY <1>2 DEF Timer, TimerRefresh, TimerHeartbeat, TimerGiveUp, Garbage, SocketEnds
  <2>2. Event(type).packets = <<>>
    BY DEF Event
  <2> QED BY <1>1, <2>1, <2>2, EventTracks
<1>3. CASE \E k \in Keys : Age(k)
  <2>1. UNCHANGED mailbox
    BY <1>3 DEF Age
  <2>2. AllGood(batch', pending_txns, Ids) /\ MailGood(mailbox', pending_txns, Ids)
    BY <1>1, <2>1 DEF Tracked
  <2> QED BY <1>1, <2>2, TrackedStill
<1>4. CASE ServerConnect \/ ServerHeartbeatAck \/ ServerPush
  <2>1. PICK type \in PacketTypes : Deliver(Packet(type)) /\ type \notin Responses
    BY <1>4 DEF ServerConnect, ServerHeartbeatAck, ServerPush, PacketTypes, Welcomes,
                Goodbyes, Responses
  <2>2. Good(Packet(type), pending_txns, Ids)
    BY <2>1 DEF Good, Packet
  <2> QED BY <1>1, <2>1, <2>2, DeliverTracks
<1>5. CASE ServerAnswer
  <2>1. PICK p \in outstanding :
          Deliver([type |-> RespType(p.from), key |-> p.key, from |-> p.from])
    BY <1>5 DEF ServerAnswer
  <2>2. Sound(p.key, p.from, pending_txns, Ids)
    BY DEF Tracked
  <2> DEFINE q == [type |-> RespType(p.from), key |-> p.key, from |-> p.from]
  <2>3. q.type = RespType(q.from) /\ q.key = p.key /\ q.from = p.from
    OBVIOUS
  <2>4. Good(q, pending_txns, Ids)
    BY <2>2, <2>3 DEF Good
  <2> HIDE DEF q
  <2>5. Deliver(q)
    BY <2>1 DEF q
  <2> QED BY <1>1, <2>4, <2>5, DeliverTracks
<1> QED BY <1>2, <1>3, <1>4, <1>5 DEF Server

(* A session begins without any answer on its way.                          *)
LEMMA PublishTracks ==
  ASSUME FewIds, ClientInv, PublishMailbox
  PROVE  Tracked'
<1>1. /\ pending_txns' = NoPending /\ outstanding' = {} /\ batch' = <<>>
      /\ sent' = <<>> /\ next_txn_id' = 0
      /\ \A i \in 1 .. Len(mailbox') : mailbox'[i].packets = <<>>
  BY DEF PublishMailbox, restUnchanged, txnVars, ClientInv, AtRest, Outside
<1>2. Ids' = 0
  <2>1. WithId' = {}
    BY <1>1 DEF WithId, Written
  <2> QED BY <2>1, FS_EmptySet DEF Ids
<1>3. 0 = 0 % TxnMod
  BY ModSmall, BoundAssumption
<1>4. \A pend, n : /\ AllGood(batch', pend, n) 
                   /\ MailGood(mailbox', pend, n)
  BY <1>1 DEF AllGood, MailGood
<1>5. \A k \in Keys : pending_txns'[k] = NoReq
  BY <1>1 DEF NoPending
<1> QED BY <1>1, <1>2, <1>3, <1>4, <1>5 DEF Tracked

LEMMA TrackedStep ==
  ASSUME FewIds, ClientInv, AcceptedOnce, Line, pc \in Live => Tracked, [Next]_vars,
         pc' \in Live
  PROVE  Tracked'
<1>0. pc \in Live => TypeOK
  BY ClientTypes, SessionTypes DEF ClientInv, Live, LogicPhases
<1>1. CASE BetweenStep
  <2>1. PublishMailbox
    BY <1>1 DEF BetweenStep, NewSession, StartSession, EndStart, ConnectOk, ConnectFails,
                Unpublish, Deauthenticate, NotifyDisconnected, WakeUp, Live
  <2> QED BY <2>1, PublishTracks
<1>2. CASE ClientThread
  <2>1. LogicThread /\ pc \in LogicPhases \ {"dropped"}
    BY <1>2, ClientThreadIs
  <2>2. pc \in Live
    BY <2>1, ThreadMoves DEF DropLogic, Live
  <2>3. pc' # "ended" /\ pc' # "dropped" /\ TypeOK /\ Tracked
    BY <1>0, <2>2 DEF Live
  <2> QED BY <2>1, <2>3, AuthTracks, ReplayTracks, PacketTracks, LoopTracks DEF LogicThread
<1>3. CASE Environment
  <2>1. UNCHANGED pc
    BY <1>3, OthersStay
  <2> QED BY <1>0, <1>3, <2>1, EnvironmentTracks DEF Environment
<1>4. CASE \E r \in Requests : SendCmd(r)
  <2> PICK r \in Requests : SendCmd(r)
    BY <1>4
  <2>1. UNCHANGED pc
    BY OthersStay
  <2>2. Accept(r)
    BY <2>1 DEF SendCmd, MailboxAlive, ClientInv, Published, Live, LogicPhases
  <2>3. /\ mailbox' = Append(mailbox, CmdEvent(r)) /\ CmdEvent(r).packets = <<>>
        /\ UNCHANGED <<next_txn_id, sent, pending_txns, batch, outstanding>>
    BY <2>2 DEF Accept, CmdEvent, sessionVars, txnVars, serverVars
  <2> QED BY <1>0, <2>1, <2>3, EventTracks
<1>5. CASE StopSend /\ MailboxAlive
  <2>1. /\ mailbox' = Append(mailbox, Event("close")) /\ Event("close").packets = <<>>
        /\ UNCHANGED <<pc, next_txn_id, sent, pending_txns, batch, outstanding>>
    BY <1>5 DEF StopSend, Event, sessionVars, txnVars, serverVars
  <2> QED BY <1>0, <2>1, EventTracks
<1>6. CASE (StopSend /\ ~MailboxAlive) \/ StopFlag \/ UNCHANGED vars
           \/ \E r \in Requests : WaitStep(r)
  <2>1. UNCHANGED <<pc, next_txn_id, sent, pending_txns, batch, outstanding, mailbox>>
    BY <1>6, Waits DEF StopSend, StopFlag, vars, logicVars, sessionVars, txnVars, serverVars
  <2>2. AllGood(batch', pending_txns, Ids) /\ MailGood(mailbox', pending_txns, Ids)
    BY <2>1 DEF Tracked
  <2> QED BY <2>1, <2>2, TrackedStill
<1> QED BY <1>1, <1>2, <1>3, <1>4, <1>5, <1>6, StepCases DEF ClientThread

(***************************************************************************)
(* The replies                                                             *)
(***************************************************************************)
Matches(r, v) ==
  v.from # NoReq =>
    /\ v.res = RespType(r)
    /\ IF Kind[r] \in MailOps THEN Kind[v.from] \in MailOps /\ MailOf[v.from] = MailOf[r]
                              ELSE v.from = r

\* A step answers nobody, or with what Matches allows.
AnswersRight ==
  \A r \in Requests :
    \/ replies'[r] = replies[r]
    \/ \E v : Matches(r, v) /\ replies'[r] = Append(replies[r], v)

LEMMA MatchesNext ==
  ASSUME RepliesType, AnswerMatches, AnswersRight
  PROVE  AnswerMatches'
<1> SUFFICES ASSUME NEW r \in Requests, NEW i \in 1 .. Len(replies'[r])
             PROVE  Matches(r, replies'[r][i])
  BY DEF AnswerMatches, Matches
<1>1. \A j \in 1 .. Len(replies[r]) : Matches(r, replies[r][j])
  BY DEF AnswerMatches, Matches
<1>2. CASE replies'[r] = replies[r]
  BY <1>1, <1>2
<1>3. CASE \E v : Matches(r, v) /\ replies'[r] = Append(replies[r], v)
  <2> PICK v : Matches(r, v) /\ replies'[r] = Append(replies[r], v)
    BY <1>3
  <2>1. /\ Len(replies[r]) \in Nat /\ Len(replies'[r]) = Len(replies[r]) + 1
        /\ \A j \in 1 .. Len(replies[r]) : replies'[r][j] = replies[r][j]
        /\ replies'[r][Len(replies[r]) + 1] = v
    BY DEF RepliesType
  <2>2. CASE i = Len(replies[r]) + 1
    BY <2>1, <2>2
  <2>3. CASE i # Len(replies[r]) + 1
    <3>1. i \in 1 .. Len(replies[r])
      BY <2>1, <2>3
    <3>2. replies'[r][i] = replies[r][i]
      BY <2>1, <3>1
    <3> QED BY <1>1, <3>1, <3>2
  <2> QED BY <2>2, <2>3
<1> QED BY <1>2, <1>3 DEF AnswersRight

LEMMA FailureMatches == \A r, res : Matches(r, Failure(res))
  BY DEF Matches, Failure

LEMMA ReplyIsRight ==
  ASSUME RepliesType, NEW r \in Requests, NEW v, Matches(r, v), Reply(r, v)
  PROVE  AnswersRight
  BY DEF RepliesType, Reply, AnswersRight

LEMMA ResolveIsRight ==
  ASSUME TypeOK, Tracked, batch # <<>>, Head(batch).type \in Responses, Resolve
  PROVE  AnswersRight
<1>1. Head(batch) \in Packets /\ Good(Head(batch), pending_txns, Ids)
  BY GoodHead DEF TypeOK, SessionType, Tracked
<1> PICK p \in Packets : p = Head(batch)
  BY <1>1
<1>2. p.key \in Keys /\ p.from \in Requests
  BY DEF Packets, Responses, PacketTypes
<1>3. CASE pending_txns[p.key] = NoReq
  BY <1>3 DEF Resolve, AnswersRight
<1>4. CASE pending_txns[p.key] # NoReq
  <2> PICK r \in Requests : r = pending_txns[p.key]
    BY <1>2, <1>4 DEF TypeOK, TxnType
  <2> DEFINE v == [res |-> p.type, from |-> p.from]
  <2>1. v.res = p.type /\ v.from = p.from /\ Reply(r, v)
    BY <1>4 DEF Resolve
  <2>2. p.type = RespType(p.from) /\ Sound(p.key, p.from, pending_txns, Ids)
    BY <1>1 DEF Good
  <2>3. FitsKey(p.key, r)
    BY <1>2, <1>4 DEF Tracked
  <2>4. Matches(r, v)
    <3>1. CASE p.key \in TxnIds
      <4>1. p.from = r
        BY <1>4, <2>2, <3>1 DEF Sound
      <4>2. Kind[r] \notin MailOps
        BY <2>3, <3>1, KindsApart DEF FitsKey
      <4> HIDE DEF v
      <4> QED BY <2>1, <2>2, <4>1, <4>2 DEF Matches
    <3>2. CASE p.key \notin TxnIds
      <4>1. /\ Kind[p.from] \in MailOps /\ MailOf[p.from] = p.key
            /\ Kind[r] \in MailOps /\ MailOf[r] = p.key
        BY <2>2, <2>3, <3>2 DEF Sound, FitsKey
      <4>2. RespType(p.from) = "ack_mail_resp" /\ RespType(r) = "ack_mail_resp"
        BY <4>1 DEF RespType, MailOps
      <4> HIDE DEF v
      <4> QED BY <2>1, <2>2, <4>1, <4>2 DEF Matches
    <3> QED BY <3>1, <3>2
  <2> HIDE DEF v
  <2> QED BY <2>1, <2>4, ReplyIsRight DEF TypeOK
<1> QED BY <1>3, <1>4

LEMMA HandleCmdIsRight ==
  ASSUME RepliesType, NEW r \in Requests, NEW rest, HandleCmd(r, rest)
  PROVE  AnswersRight
<1>1. UNCHANGED replies \/ \E res : Reply(r, Failure(res))
  BY DEF HandleCmd, RejectName, PushTxn, TxnExhausted, DuplicateMailOp, PushMailOp
<1>2. UNCHANGED replies => AnswersRight
  BY DEF AnswersRight
<1> QED BY <1>1, <1>2, ReplyIsRight, FailureMatches

LEMMA ThreadIsRight ==
  ASSUME TypeOK, pc \in Live => Tracked, LogicThread
  PROVE  AnswersRight
<1>0. UNCHANGED replies => AnswersRight
  BY DEF AnswersRight
<1>1. CASE RespPulse \/ RespNext \/ RespAckMail
  <2>1. /\ pc \in Live /\ batch # <<>> /\ Head(batch).type \in Responses /\ Resolve
    BY <1>1 DEF RespPulse, RespNext, RespAckMail, TakePacket, Responses, Live
  <2> QED BY <2>1, ResolveIsRight
<1>2. CASE Replay \/ LoopCmd
  BY <1>2, HandlesCommand, HandleCmdIsRight DEF TypeOK
<1>3. CASE LoopRefresh
  <2> SUFFICES ASSUME NEW r \in Requests
               PROVE  \/ replies'[r] = replies[r]
                      \/ \E v : Matches(r, v) /\ replies'[r] = Append(replies[r], v)
    BY DEF AnswersRight
  <2>1. replies'[r] \in {replies[r], Append(replies[r], Failure("timeout"))}
    BY <1>3 DEF LoopRefresh
  <2> QED BY <2>1, FailureMatches
<1>4. CASE SendConnect \/ AuthBuffer \/ AuthConnected \/ AuthRefused \/ AuthBroken
             \/ AuthTimeout \/ ReplayDone \/ StartLoop \/ DropLogic
  BY <1>0, <1>4 DEF SendConnect, AuthBuffer, AuthConnected, AuthRefused, AuthBroken,
              AuthTimeout, AuthEvent, ReplayDone, StartLoop, DropLogic
<1>5. CASE RespHeartbeatAck \/ RespNewMail \/ RespGoodbye
             \/ LoopRecv \/ LoopHeartbeat \/ LoopBroken \/ LoopHalted
  BY <1>0, <1>5 DEF RespHeartbeatAck, RespNewMail, RespGoodbye, LoopRecv, LoopHeartbeat,
              LoopBroken, LoopHalted
<1> QED BY <1>1, <1>2, <1>3, <1>4, <1>5 DEF LogicThread

LEMMA StepIsRight ==
  ASSUME ClientInv, pc \in Live => Tracked, [Next]_vars
  PROVE  AnswersRight
<1>0. UNCHANGED replies => AnswersRight
  BY DEF AnswersRight
<1>1. CASE BetweenStep
  BY <1>0, <1>1 DEF BetweenStep, NewSession, StartSession, EndStart, ConnectOk,
       ConnectFails, PublishMailbox, Unpublish, Deauthenticate, NotifyDisconnected, WakeUp,
       restUnchanged
<1>2. CASE ClientThread
  <2>1. LogicThread /\ TypeOK
    BY <1>2, ClientThreadIs, ClientTypes, SessionTypes DEF ClientInv
  <2> QED BY <2>1, ThreadIsRight
<1>3. CASE Environment
  BY <1>0, <1>3 DEF Environment, Timer, TimerRefresh, TimerHeartbeat, TimerGiveUp,
       timerUnchanged, Age, Server, ServerConnect, ServerAnswer, ServerHeartbeatAck,
       ServerPush, Garbage, SocketEnds, Deliver
<1>4. CASE \E r \in Requests : SendCmd(r)
  <2> PICK r \in Requests : SendCmd(r)
    BY <1>4
  <2>1. CASE Accept(r)
    BY <1>0, <2>1 DEF Accept
  <2>2. CASE Refuse(r)
    BY <2>2, ReplyIsRight, FailureMatches DEF Refuse, ClientInv, ClientTypeOK
  <2> QED BY <2>1, <2>2 DEF SendCmd
<1>5. CASE StopSend \/ StopFlag \/ UNCHANGED vars \/ \E r \in Requests : WaitStep(r)
  BY <1>0, <1>5, Waits DEF StopSend, StopFlag, vars, logicVars
<1> QED BY <1>1, <1>2, <1>3, <1>4, <1>5, StepCases DEF ClientThread

(* Whatever is late, repeated by the server's choice or left over: an answer *)
(* reaches the request it was given for, in every session, as long as the    *)
(* requests that need a transaction id are no more than there are ids.  The  *)
(* hypothesis is needed: an id that is used again finds the answer to its    *)
(* first use.                                                              *)
THEOREM AnswerMatchesInvariant ==
  ASSUME IsFiniteSet({r \in Requests : Kind[r] \in TxnKinds}),
         Cardinality({r \in Requests : Kind[r] \in TxnKinds}) <= TxnMod
  PROVE  Spec => []AnswerMatches
<1>0. FewIds
  BY DEF FewIds, IdRequests
<1> DEFINE Inv == /\ ClientInv /\ Ownership /\ AcceptedOnce /\ Line
                  /\ pc \in Live => Tracked
                  /\ AnswerMatches
<1>1. Init => Inv
  <2>1. Init => AnswerMatches /\ pc \notin Live
    BY DEF Init, AnswerMatches, Live
  <2> QED BY <2>1, InitClientInv, InitClientOwns, InitClientLine
<1>2. Inv /\ [Next]_vars => Inv'
  <2> SUFFICES ASSUME Inv, [Next]_vars PROVE Inv'
    OBVIOUS
  <2>1. ClientInv' /\ Ownership' /\ AcceptedOnce' /\ Line'
    BY NextClientInv, OwnershipStep, AcceptedOnceStep, ClientLineStep
    DEF ClientInv, ClientTypeOK
  <2>2. pc' \in Live => Tracked'
    BY <1>0, TrackedStep
  <2>3. AnswerMatches'
    BY StepIsRight, MatchesNext DEF ClientInv, ClientTypeOK
  <2> QED BY <2>1, <2>2, <2>3
<1>3. Inv => AnswerMatches
  OBVIOUS
<1> QED BY <1>1, <1>2, <1>3, PTL DEF Spec
=============================================================================
