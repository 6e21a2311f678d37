----------------------------- MODULE Transport -----------------------------
(***************************************************************************)
(* The thread of device-agent/src/moonlight_socket.rs, which writes messages  *)
(* to the socket piece by piece and puts whatever it reads in the mailbox of  *)
(* the session, and the Codec of moonlight_codec.rs, which finds the packets   *)
(* in the reads.  Together they make the channel of packets that ClientLogic   *)
(* takes for granted.                                                      *)
(*                                                                         *)
(* A byte is known by the message it is of and its place there.  TLS and the  *)
(* kernel are the two wires; what is in them is lost when the connection      *)
(* breaks.  write_chan keeps a sender until the thread was joined, so that the *)
(* branch for a disconnected channel is never taken.                        *)
(***************************************************************************)
EXTENDS Naturals, Sequences

CONSTANTS
  OutLen,                    \* the lengths of the messages of the session
  InLen,                     \* the lengths of the packets of the server
  WRITE_TICK_MAX_BYTES, WRITE_TICK_MAX_MESSAGES, WRITE_CALL_MAX_BYTES,
  ReadMax,                   \* the size of the buffer of a read
  WireCapacity               \* bound: bytes a wire holds

ASSUME TransportAssumption ==
  /\ OutLen \in Seq(Nat \ {0}) /\ InLen \in Seq(Nat \ {0})
  /\ {WRITE_TICK_MAX_BYTES, WRITE_TICK_MAX_MESSAGES, WRITE_CALL_MAX_BYTES,
      ReadMax, WireCapacity} \subseteq Nat \ {0}

VARIABLES
  pc,                            \* where the socket thread is
  shutdown_flag,                 \* set by the closure that connect returns
  write_chan,                    \* messages to write
  pending_buf, pending_offset,   \* the message being written, 0 for none
  stalled,                       \* is pending_since over ten seconds ago?
  bytes_written, messages_completed,  \* in this call of push_bytes_to_socket
  wire_out, wire_in,             \* bytes under way
  broken,                        \* has the connection failed?
  server,                        \* "open" or "closed"
  mailbox,                       \* reads, and "close"
  buffer,                        \* Codec.buffer
  session,                       \* is the session "running" or "ended"?
  submitted, put,                \* how many messages and packets were sent
  server_got, delivered          \* bytes and packets received (history)

pushVars    == <<pending_buf, pending_offset, stalled, bytes_written, messages_completed>>
wireVars    == <<wire_out, wire_in, broken>>
sessionVars == <<shutdown_flag, buffer, session, submitted, delivered>>
serverVars  == <<server, put, server_got>>
vars == <<pc, write_chan, mailbox, pushVars, wireVars, sessionVars, serverVars>>

Smaller(m, n) == IF m < n THEN m ELSE n

Byte(k, i)   == [of |-> k, pos |-> i]
Bytes(k, n)  == [i \in 1 .. n |-> Byte(k, i)]
GarbageByte  == Byte(0, 1)

Init ==
  /\ pc = "check" /\ shutdown_flag = FALSE /\ write_chan = <<>>
  /\ pending_buf = 0 /\ pending_offset = 0 /\ stalled = FALSE
  /\ bytes_written = 0 /\ messages_completed = 0
  /\ wire_out = <<>> /\ wire_in = <<>> /\ broken = FALSE /\ server = "open"
  /\ mailbox = <<>> /\ buffer = <<>> /\ session = "running"
  /\ submitted = 0 /\ put = 0 /\ server_got = <<>> /\ delivered = <<>>

(***************************************************************************)
(* Codec::decode and Codec::process_packets.  The server is taken to find    *)
(* the messages of the session in the same way.  What is not the packet that  *)
(* was sent is packet 0, also a byte from the middle of one at the place of a *)
(* first byte.                                                             *)
(***************************************************************************)
Parse(b, len) ==
  LET after[i \in 0 .. Len(b)] ==
        IF i = Len(b)
        THEN [ok |-> TRUE, packets |-> <<>>, rest |-> <<>>]
        ELSE IF b[i + 1] = GarbageByte
        THEN [ok |-> FALSE, packets |-> <<>>, rest |-> <<>>]
        ELSE LET head   == b[i + 1]
                 n      == IF head.pos = 1 THEN len[head.of] ELSE 1
                 packet == IF SubSeq(b, i + 1, i + n) = Bytes(head.of, n)
                           THEN head.of ELSE 0
             IN IF n > Len(b) - i
                THEN [ok |-> TRUE, packets |-> <<>>, rest |-> SubSeq(b, i + 1, Len(b))]
                ELSE [after[i + n] EXCEPT !.packets = <<packet>> \o @]
  IN after[0]

(***************************************************************************)
(* The socket thread                                                       *)
(***************************************************************************)
threadUnchanged == <<broken, sessionVars, serverVars>>

\* mutant: the loop has no end but a failure
CheckFlagNever ==
  /\ pc = "check" /\ pc' = "push"
  /\ bytes_written' = 0 /\ messages_completed' = 0
  /\ UNCHANGED <<write_chan, mailbox, pending_buf, pending_offset, stalled,
                 wire_out, wire_in, threadUnchanged>>

CheckFlag ==
  /\ pc = "check" /\ pc' = IF shutdown_flag THEN "close" ELSE "push"
  /\ bytes_written' = 0 /\ messages_completed' = 0
  /\ UNCHANGED <<write_chan, mailbox, pending_buf, pending_offset, stalled,
                 wire_out, wire_in, threadUnchanged>>

PushTake ==
  /\ pc = "push" /\ pending_buf = 0 /\ write_chan # <<>>
  /\ pending_buf' = Head(write_chan) /\ write_chan' = Tail(write_chan)
  /\ pending_offset' = 0 /\ stalled' = FALSE
  /\ UNCHANGED <<pc, mailbox, bytes_written, messages_completed,
                 wire_out, wire_in, threadUnchanged>>

PushIdle ==
  /\ pc = "push" /\ pending_buf = 0 /\ write_chan = <<>>
  /\ pc' = "pull"
  /\ UNCHANGED <<write_chan, mailbox, pushVars, wire_out, wire_in, threadUnchanged>>

\* mutant: a stalled write is tried again for ever
PushFailsBroken ==
  /\ pc = "push" /\ (pending_buf # 0 \/ write_chan = <<>>)
  /\ broken
  /\ pc' = "close"
  /\ UNCHANGED <<write_chan, mailbox, pushVars, wire_out, wire_in, threadUnchanged>>

\* The message takes too long, or the write, or the flush at the end, fails.
PushFails ==
  /\ pc = "push" /\ (pending_buf # 0 \/ write_chan = <<>>)
  /\ stalled \/ broken
  /\ pc' = "close"
  /\ UNCHANGED <<write_chan, mailbox, pushVars, wire_out, wire_in, threadUnchanged>>

\* What one write may take of the message.
Slice == Smaller(OutLen[pending_buf] - pending_offset, WRITE_CALL_MAX_BYTES)
Room  == WireCapacity - Len(wire_out)

PushBlocked ==
  /\ pc = "push" /\ pending_buf # 0 /\ ~stalled /\ ~broken
  /\ Room = 0
  /\ pc' = "pull"
  /\ UNCHANGED <<write_chan, mailbox, pushVars, wire_out, wire_in, threadUnchanged>>

\* A write of n bytes that counts as one of "counted".
Written(n, counted) ==
  LET offset == pending_offset + counted
      whole  == offset >= OutLen[pending_buf]
  IN /\ wire_out' = wire_out \o SubSeq(Bytes(pending_buf, OutLen[pending_buf]),
                                       pending_offset + 1, pending_offset + n)
     /\ pending_buf' = IF whole THEN 0 ELSE pending_buf
     /\ pending_offset' = IF whole THEN 0 ELSE offset
     /\ bytes_written' = bytes_written + counted
     /\ messages_completed' = messages_completed + (IF whole THEN 1 ELSE 0)

TickOver == \/ bytes_written' >= WRITE_TICK_MAX_BYTES
            \/ messages_completed' >= WRITE_TICK_MAX_MESSAGES

\* mutant: a write is taken to be complete
PushWriteAll ==
  /\ pc = "push" /\ pending_buf # 0 /\ ~stalled /\ ~broken
  /\ \E n \in 1 .. Smaller(Slice, Room) : Written(n, Slice)
  /\ pc' = IF TickOver THEN "pull" ELSE "push"
  /\ UNCHANGED <<write_chan, mailbox, stalled, wire_in, threadUnchanged>>

\* mutant: a call goes on for as long as there is something to write
PushWriteOn ==
  /\ pc = "push" /\ pending_buf # 0 /\ ~stalled /\ ~broken
  /\ \E n \in 1 .. Smaller(Slice, Room) : Written(n, n)
  /\ UNCHANGED <<pc, write_chan, mailbox, stalled, wire_in, threadUnchanged>>

PushWrite ==
  /\ pc = "push" /\ pending_buf # 0 /\ ~stalled /\ ~broken
  /\ \E n \in 1 .. Smaller(Slice, Room) : Written(n, n)
  /\ pc' = IF TickOver THEN "pull" ELSE "push"
  /\ UNCHANGED <<write_chan, mailbox, stalled, wire_in, threadUnchanged>>

Read(bytes) == [event |-> "recv", bytes |-> bytes]
CloseEvent  == [event |-> "close", bytes |-> <<>>]

Pull ==
  /\ pc = "pull" /\ wire_in # <<>>
  /\ \E n \in 1 .. Smaller(Len(wire_in), ReadMax) :
       /\ mailbox' = Append(mailbox, Read(SubSeq(wire_in, 1, n)))
       /\ wire_in' = SubSeq(wire_in, n + 1, Len(wire_in))
  /\ pc' = "check"
  /\ UNCHANGED <<write_chan, pushVars, wire_out, threadUnchanged>>

\* 50 ms without a byte
PullNothing ==
  /\ pc = "pull" /\ wire_in = <<>> /\ server = "open" /\ ~broken
  /\ pc' = "check"
  /\ UNCHANGED <<write_chan, mailbox, pushVars, wire_out, wire_in, threadUnchanged>>

\* the end of the stream, or an error
PullFails ==
  /\ pc = "pull"
  /\ (server = "closed" /\ wire_in = <<>>) \/ broken
  /\ pc' = "close"
  /\ UNCHANGED <<write_chan, mailbox, pushVars, wire_out, wire_in, threadUnchanged>>

CloseSocket ==
  /\ pc = "close" /\ pc' = "done"
  /\ mailbox' = Append(mailbox, CloseEvent)
  /\ UNCHANGED <<write_chan, pushVars, wire_out, wire_in, threadUnchanged>>

(***************************************************************************)
(* The session                                                             *)
(***************************************************************************)
otherUnchanged == <<pc, pushVars, wireVars, serverVars>>

Submit ==
  /\ session = "running" /\ pc # "done" /\ submitted < Len(OutLen)
  /\ submitted' = submitted + 1
  /\ write_chan' = Append(write_chan, submitted')
  /\ UNCHANGED <<otherUnchanged, mailbox, shutdown_flag, buffer, session, delivered>>

\* mutant: the buffer does not outlive the read
RecvForgets ==
  /\ session = "running" /\ mailbox # <<>> /\ Head(mailbox).event = "recv"
  /\ mailbox' = Tail(mailbox)
  /\ LET found == Parse(Head(mailbox).bytes, InLen) IN
       IF found.ok
       THEN delivered' = delivered \o found.packets /\ UNCHANGED session
       ELSE session' = "ended" /\ UNCHANGED delivered
  /\ UNCHANGED <<otherUnchanged, write_chan, shutdown_flag, buffer, submitted>>

\* mutant: one packet is taken of each read
RecvOne ==
  /\ session = "running" /\ mailbox # <<>> /\ Head(mailbox).event = "recv"
  /\ mailbox' = Tail(mailbox)
  /\ LET fed   == buffer \o Head(mailbox).bytes
         found == Parse(fed, InLen)
     IN IF ~found.ok
        THEN session' = "ended" /\ UNCHANGED <<delivered, buffer>>
        ELSE /\ UNCHANGED session
             /\ IF found.packets = <<>>
                THEN buffer' = fed /\ UNCHANGED delivered
                ELSE /\ delivered' = Append(delivered, found.packets[1])
                     /\ buffer' = SubSeq(fed, InLen[found.packets[1]] + 1, Len(fed))
  /\ UNCHANGED <<otherUnchanged, write_chan, shutdown_flag, submitted>>

\* A read with an error in it yields nothing, and ends the session.
Recv ==
  /\ session = "running" /\ mailbox # <<>> /\ Head(mailbox).event = "recv"
  /\ mailbox' = Tail(mailbox)
  /\ LET found == Parse(buffer \o Head(mailbox).bytes, InLen) IN
       IF found.ok
       THEN /\ delivered' = delivered \o found.packets /\ buffer' = found.rest
            /\ UNCHANGED session
       ELSE session' = "ended" /\ UNCHANGED <<delivered, buffer>>
  /\ UNCHANGED <<otherUnchanged, write_chan, shutdown_flag, submitted>>

RecvClose ==
  /\ session = "running" /\ mailbox # <<>> /\ Head(mailbox).event = "close"
  /\ mailbox' = Tail(mailbox) /\ session' = "ended"
  /\ UNCHANGED <<otherUnchanged, write_chan, shutdown_flag, buffer, submitted, delivered>>

\* for a reason of its own
SessionEnds ==
  /\ session = "running" /\ session' = "ended"
  /\ UNCHANGED <<otherUnchanged, write_chan, mailbox, shutdown_flag, buffer,
                 submitted, delivered>>

\* session_lifecycle: socket_close(); it then joins the thread.
SocketClose ==
  /\ session = "ended" /\ ~shutdown_flag
  /\ shutdown_flag' = TRUE
  /\ UNCHANGED <<otherUnchanged, write_chan, mailbox, buffer, session, submitted, delivered>>

(***************************************************************************)
(* The server, the network and the clock                                   *)
(***************************************************************************)
\* Bytes that are no packet may come in the place of one.
ServerPut ==
  /\ server = "open" /\ ~broken /\ put < Len(InLen)
  /\ put' = put + 1
  /\ \E bytes \in {Bytes(put', InLen[put']), <<GarbageByte>>} :
       /\ Len(wire_in) + Len(bytes) <= WireCapacity
       /\ wire_in' = wire_in \o bytes
  /\ UNCHANGED <<pc, write_chan, mailbox, pushVars, wire_out, broken,
                 sessionVars, server, server_got>>

ServerRead ==
  /\ wire_out # <<>> /\ server = "open" /\ ~broken
  /\ server_got' = server_got \o wire_out /\ wire_out' = <<>>
  /\ UNCHANGED <<pc, write_chan, mailbox, pushVars, wire_in, broken,
                 sessionVars, server, put>>

ServerClose ==
  /\ server = "open" /\ server' = "closed"
  /\ UNCHANGED <<pc, write_chan, mailbox, pushVars, wireVars, sessionVars, put, server_got>>

Break ==
  /\ ~broken /\ broken' = TRUE
  /\ UNCHANGED <<pc, write_chan, mailbox, pushVars, wire_out, wire_in,
                 sessionVars, serverVars>>

Stall ==
  /\ pending_buf # 0 /\ ~stalled /\ stalled' = TRUE
  /\ UNCHANGED <<pc, write_chan, mailbox, pending_buf, pending_offset,
                 bytes_written, messages_completed, wireVars, sessionVars, serverVars>>

Thread ==
  \/ CheckFlag \/ PushTake \/ PushIdle \/ PushFails \/ PushBlocked \/ PushWrite
  \/ Pull \/ PullNothing \/ PullFails \/ CloseSocket

SessionReads == Recv \/ RecvClose \/ SocketClose

Next ==
  \/ Thread \/ SessionReads \/ Submit \/ SessionEnds
  \/ ServerPut \/ ServerRead \/ ServerClose \/ Break \/ Stall

Spec == Init /\ [][Next]_vars

\* The two threads run, the stream is read when there is something to read,
\* and time passes.  Nothing is assumed of the server.
Fairness == WF_vars(Thread) /\ WF_vars(SessionReads) /\ WF_vars(Stall)

FairSpec == Spec /\ Fairness

(***************************************************************************)
(* Type invariant                                                          *)
(***************************************************************************)
\* A call of push_bytes_to_socket writes no more than the limit and one write.
TypeOK ==
  /\ pc \in {"check", "push", "pull", "close", "done"}
  /\ {shutdown_flag, stalled, broken} \subseteq BOOLEAN
  /\ write_chan \in Seq(DOMAIN OutLen) /\ pending_buf \in {0} \cup DOMAIN OutLen
  /\ pending_buf = 0 => pending_offset = 0
  /\ pending_buf # 0 => pending_offset \in 0 .. OutLen[pending_buf] - 1
  /\ bytes_written \in 0 .. WRITE_TICK_MAX_BYTES + WRITE_CALL_MAX_BYTES - 1
  /\ messages_completed \in 0 .. WRITE_TICK_MAX_MESSAGES
  /\ Len(wire_out) <= WireCapacity /\ Len(wire_in) <= WireCapacity
  /\ server \in {"open", "closed"} /\ session \in {"running", "ended"}
  /\ submitted \in 0 .. Len(OutLen) /\ put \in 0 .. Len(InLen)
  /\ delivered \in Seq(DOMAIN InLen)

(***************************************************************************)
(* Both directions are channels of whole messages                          *)
(***************************************************************************)
Numbers(n) == [i \in 1 .. n |-> i]
Arrived == Parse(server_got, OutLen).packets

Outgoing == INSTANCE Fifo WITH sent <- Numbers(submitted), got <- Arrived, over <- FALSE
Incoming == INSTANCE Fifo WITH sent <- Numbers(put), got <- delivered,
                               over <- (session = "ended")

\* The server gets the messages of the session whole and in order, however
\* the writes are cut and whatever end the thread comes to.
MessagesInOrder == Outgoing!FifoSpec

\* The session gets the packets of the server, each once and in order, however
\* the reads are cut, and none after undecodable bytes or after the close.
PacketsInOrder == Incoming!FifoSpec

(***************************************************************************)
(* Liveness                                                                *)
(***************************************************************************)
\* A message is with the kernel some day or the thread gives up, also when
\* the server reads nothing.
MessageLeaves ==
  \A m \in DOMAIN OutLen :
    (submitted >= m) ~> (\/ pc = "done"
                         \/ m # pending_buf /\ \A i \in DOMAIN write_chan : write_chan[i] # m)

\* A packet reaches the session, however much there is to write, unless the
\* session or the connection ends.
PacketArrives ==
  \A k \in DOMAIN InLen :
    (put >= k) ~> (Len(delivered) >= k \/ session = "ended" \/ broken)

\* The join in session_lifecycle returns.
ThreadEnds == shutdown_flag ~> (pc = "done")
=============================================================================
