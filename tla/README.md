# Verification of the Fostrom Device Agent

TLA+ models of the agent in `device-agent/` (Rust), checked with TLC and, where
marked, proved with TLAPS. To check a run: `tlc -config X.cfg M.tla`, with the module
and the configuration `PROJECT.json` gives for it; to check the proofs: `tlapm M.tla`
with each of the modules whose name ends in `_proofs`.

## The system

One agent process per device keeps one connection to the Fostrom server and
serves the programs on the device over a local HTTP socket. All concurrency is
threads, `mpsc` channels, atomics and mutexes; nothing is persisted but the
PID, hash and socket files.

| Component | State | Operations | What makes it correct |
|---|---|---|---|
| **ClientLogic** (`moonlight_codec.rs` 920-1340): the event loop of one session | mailbox, `buffered_cmds`, `pending_txns` (key -> instant and return channel), `next_txn_id` | authenticate, replay, handle commands, server packets, Refresh, HeartbeatTick, TransportClose | each request is settled at most once and, in a live session, eventually; an answer reaches the request it is for; commands stay in order; nothing is written before Connected |
| **MoonlightClient** (1360-1684): sessions one after another, shared with the HTTP threads | `shutdown_flag`, `mailbox_chan`, `authenticated`, `disconnected_reason`, `reconnect_in` | `start`, `session_lifecycle`, `stop`, `send_cmd`, `status`, `backoff` | it reconnects, it stops, callers are cut off only by the end of their session, notifications alternate |
| **timer_proc** (1524-1585): one thread per session | three instants, the session's flag | every 100 ms: ack, heartbeat, give up, Refresh | a dead server is noticed, a live one is not given up |
| **moonlight_socket** : one thread per session | stream, half-written message | push up to 64 KiB, pull 8 KiB, end with TransportClose | bytes leave in order and whole; the end is always told |
| **Codec** (668-712) | bytes not yet decoded | feed, process_packets | packets do not depend on how the stream is cut |
| **cmd.rs**: one HTTP thread per request | a return channel | wait for a connection (10 s), send, wait for a reply (10 s) | every request gets one HTTP status that tells the truth |
| **notifycast, events.rs**: fan-out and one SSE thread per stream | listeners | subscribe, first event, forward, keep alive | a listener's last word on the connection is the right one |
| **HTTP server, router, parser** | listener, shutdown flag, one buffer per connection | accept, read and parse, route, respond | the answer does not depend on how the request is cut into reads; half a request does nothing; every connection ends |
| **CLI**: start, daemon, stop, status | PID, hash and socket files, processes | start, readiness, stop, kill | one agent at a time; stop leaves none |
| **SDKs** (Elixir, JavaScript, Python) | event stream, handler | on new_mail fetch, handle, ack; reconnect | each mail is handled and then acknowledged; no mail is forgotten |

How they interact: HTTP threads call `send_cmd`, which puts the command, with the
sending half of a fresh channel, in the mailbox `MoonlightClient` has published;
the socket thread puts what it reads, and its own end, in the same mailbox; the
timer thread puts Refresh and HeartbeatTick there. The session thread alone reads
it. It writes packets to a channel the socket thread empties, replies on the
return channels, and tells `notify_chan`, which the fan-out thread copies to the
SSE threads.

What is hard: the session thread blocks on one mailbox with four kinds of writers;
the end of a session races requests that are queued, buffered or pending;
timeouts race late answers; the transaction counter wraps and restarts with each
session; `stop` races the publication of the mailbox; flags are read in one
thread and stored in another. `PROJECT.json` lists these as hazards, each at its
line, with the properties aimed at it.

## Modules

| Module | Models |
|---|---|
| `RequestReply` | the contract of a session with its callers: a request is open until it is answered, once; it may be lost only when the session is over |
| `ClientLogic` | one session: ClientLogic, the channels around it, and timer, socket and server as its environment |
| `MoonlightClient` | extends it: the thread that runs session after session, the HTTP threads, `stop` |
| `Connection` | what the rest of the agent sees of the client: `connected()` and the notifications; `MoonlightClient` implements it |
| `EventStream` | extends `Connection`: the listener thread of `notifycast.rs` and the thread of each event stream |
| `Fifo` | what one direction of a connection promises: whole messages, in order, each once |
| `Transport` | the socket thread and the codec over a stream of bytes; each direction implements `Fifo` |
| `AgentLifecycle` | start, daemon and stop, and the agents they know by three files |
| `SdkMail` | the way of a mail through the Elixir, JavaScript and Python SDKs |
| `Heartbeat` | `timer_proc` with its clocks, and the server it listens for |
| `Reconnect` | extends it: time in the life of the client: authentication, session, backoff, and what `status` says of them |
| `HttpRequest` | one connection to the HTTP server: accept, read, parse, validate, route, respond |
| `MCClientLogic`, `MCMoonlightClient`, `MCEventStream`, `MCTransport`, `MCAgentLifecycle`, `MCSdkMail`, `MCHttpRequest` | the instances that TLC checks; `Reconnect` needs none |
| `ClientLogic_proofs` | the theorems about a session: ownership of the return channels; order of the commands; the contract `RequestReply` |
| `MoonlightClient_proofs`, `EventStream_proofs`, `Transport_proofs`, `AgentLifecycle_proofs`, `Reconnect_proofs`, `SdkMail_proofs`, `HttpRequest_proofs` | the theorems about the module each is named after |

### ClientLogic

`pc` is where the session thread is: `hello` (about to write Connect), `auth`
(in the `recv_timeout` loop), `replay` (rest of the first read, then
`buffered_cmds`), `authed` (back in `session_lifecycle`), `loop` (`start_loop`),
`ended` (threads are being joined), `dropped`. The other variables have the names
of the code. Each arm of the two `match` statements on events and of
`handle_server_resp` is one action; an action is atomic because only the session
thread touches `pending_txns`, `buffered_cmds` and the return channels, and its
effects on the outside (a send on an `mpsc` channel) are at most one per channel
and step. The packets of one read are handled one action each, so that a session
can end between two of them.

A request is identified with its return channel, `replies[r]` is all that was ever
sent on it, and `submitted` and `sent` record what the mailbox took and what was
given to the transport. A key of `pending_txns` is a transaction id (0 ..
`TxnMod` - 1, standing for u64) or a mail id; the two do not meet because
`uuidv7_u128` refuses ids without the version nibble above bit 64. Time is
abstract: `Age(k)` says that the entry under `k` is more than ten seconds old,
which may happen at any time, and `AuthTimeout` may happen whenever the mailbox is
empty. Any pulse may have a name over 255 bytes (`RejectName`).

A write fails only when the socket thread has dropped its receiver, which is after
its TransportClose is in the mailbox; between its last read of the channel and that
moment a write succeeds and is lost (`WriteOutcomes`, and a packet in
`outstanding` the server never answers).

The server is external. It answers Connect once, may answer any command it was
sent, late, out of order or never, and may send NewMail, CloseConnection, unknown
packets or undecodable bytes. Two things are assumed of it: it does not answer a
command it was not sent, and it does not send Connected twice (the code calls
`unreachable!` then, which aborts the process).

### MoonlightClient

Adds to `pc` the places of the thread in `start` and `session_lifecycle`, among them
the steps of the cleanup after a session, which other threads see one by one:
`mailbox_chan` (Unpublish), then `authenticated` (Deauthenticate), then the
notification. `via[r]` records the session that took a request. A mailbox that is
published but dropped refuses the command ("mailbox write failed"). `stop` is two
steps: the flag, then the message if there is a mailbox.

### Connection and EventStream

`Connection` has the flag `authenticated`, the history `notify` and a state `link`:
`announced` is the time from the notification to the store of the flag, which
lasts as long as the rest of the first read and the buffered commands take;
`closing` is the time from the clearing of the flag to the notification of the
end. `ImplementsConnection` shows that the client behaves so, with `link` computed
from `pc`, the flag and the last notice.

`EventStream` puts the listener thread between `notify` and the streams: `cast` is
how far it has come, `chan[s]` is the channel of a listener. A stream's thread
goes through `subscribed` (about to read the flag), `greeted` (about to read it
again), `loop` (about to read the shutdown flag), `recv` and `closed`; each of the
two reads of `connected()` is in the step that writes its event, as nothing the
thread does in between is seen by others. Any write may fail. `unaware` records the
streams that subscribed in the window of disagreement 3 below and were not told
since; `LastWord` and `MailTold` except them and nothing else.

### Transport

The thread of `moonlight_socket.rs`: `check` (the flag), `push` (one turn of the loop
in `push_bytes_to_socket` is one action), `pull`, `close`, `done`. A byte is known
by its message and its place there, so that a piece that is lost, repeated or
swapped is seen. A write takes some of what it is given and of the room in the
kernel, a read some of what is there. `Parse` is `process_packets`; what it makes of
bytes that are not a whole packet in its place is packet 0. `MessagesInOrder` and
`PacketsInOrder` state that each direction implements `Fifo`; `ClientLogic` takes
that for granted. `stalled` may become true at any time while a message is
pending: ten seconds is a property of the network.

The comment in `session_lifecycle` that dropping the sender ends the socket thread does
not bear on it: `ClientLogic` keeps a clone of the sender until the thread is joined, so
the flag alone ends it, and `Disconnected` never happens. `ThreadEnds` shows that the
flag is enough.

### AgentLifecycle

A process is one invocation of the program; that of `start` becomes the daemon while its
parent goes on polling. `at` follows the code from one access of a file, socket or
process to the next, each an action; `pid_file`, `hash_file` and `sock_file` say who
wrote what is there. The server thread (`srv`) unlinks, binds, accepts and removes the
socket file. An agent that was told to stop leaves its main loop only when its backoff
sleep is over (`ClientEnds`, at any time), so it may outlive the command that stopped it.
Faults are crashes at any step, signals, and errors of accept; `Broken` is an agent that
lost its server and goes on without one.

One command is given at a time. What the code waits for with a timeout (five seconds for
the socket file to go, ten for readiness) is long enough when nothing fails, and PIDs are
not used again.

### SdkMail

The same program three times: an event makes the SDK fetch the first mail, the handler
decides, the operation's response says whether to fetch another. `sdk` says which one a
behaviour is of. `stack[a]` holds the calls in progress of a process, thread or event; in
JavaScript and Python the handler of the next mail is called from inside the operation on
the last, which is `op_more` below it (`auto_more` in an automatic reject). As a handler
does one operation and returns, a return unwinds the whole stack, and a failure unwinds
to the innermost operation of a handler (`FailIn`). In Elixir `casts` takes the place
of the stack. The server's mailbox, the agent's link and its events are external,
after `ClientLogic` and `EventStream`: mail that arrives is told, a link that is made
again tells if there is any, a stream that is opened has a new_mail of its own.

### Heartbeat and Reconnect

An `Instant` is the time since it was taken. `TimerLogic` is one run of `timer_logic`:
it reads one acknowledgement from `ping_chan`, sends a heartbeat when 30 s have passed
since the last or 5 s since one that is not acknowledged, gives up when the last
acknowledgement is 90 s old, and asks for a refresh. The thread may run late, by up to
`Lag`. What a heartbeat goes through (mailbox, session thread, socket, server and back)
is the age of a member of `flight`: at most `Delay` while the server is up; an
acknowledgement does not say which heartbeat it answers. `FallSilent` ends all that for
the session. `silent_for` and `tries` are history.

`Reconnect` puts the timer in the thread of `start`: `connect`, `auth` (the loop of
`recv_timeout`, ten seconds each time), `loop`, `sleep`. `Ended` is what `start` does when
`session_lifecycle` returns: the reason, `backoff`, the notification with
`reconnecting_in_ms`, and the flag. `row` and `refusal` count what the interval should
depend on: failures since a session was authenticated, and how long ago one of them was
`unauthorized`. `Status` is `status` with its fields. Commands, packets and the other
threads are those of `MoonlightClient` and have no clock here. `stop` interrupts no sleep
in the code, nor here.

### HttpRequest

`Requests` are records of what matters to `request.rs` and `router.rs`: the length of each
line, its method, path, version, the headers in order, whether the empty line is sent, how
much body follows and whether it is JSON. `Stream` is the request as it is sent, a
sequence of characters of a line, CR, LF and characters of the body; `FillBuf` reads any
number of those that are there, so every way to cut the stream is a behaviour. The thread
goes through `line`, `headers`, `body`, `route`, `respond`; `TooLong`, `PartOfLine` and
`TakeLine` are the branches of `read_line`. `Verdict` is the reference: what the request
comes to when it is there at once and whole. A read may fail at any time (the client is
silent for five seconds, or gone), the listener may fail, and the agent may be stopped by
this request or another. `MCHttpRequest` has 39 requests: a good one of each route, and
each of the rejections, most of them just at and just beyond a limit.

What a command comes to is `MoonlightClient`'s: here it is any of the status codes of
`cmd.rs`. The UNIX listener is in `AgentLifecycle`; this one is the TCP listener, which has
no file. Pretty-printing, URLs beyond their routes and the texts of responses are left out.
So is the reset the kernel sends when a connection is closed with data unread, which may
take a refusal away from the client that gets it.

## Runs

| Run | Instance | Shows |
|---|---|---|
| `session` | reject and requeue of one mail; one unasked packet, one heartbeat, two packets a read | `AtMostOneReply`, `WrittenAfterConnected`, `OnlyLateAnswersStray`, `ImplementsRequestReply` |
| `session_txns` | pulse, fetch, pulse over two transaction ids, with fairness | `TypeOK`, `Ownership`, `PendingWasWritten`, `WrittenInOrder`, `RequestSettled`, `LostSocketEndsSession` |
| `client` | a fetch and a pulse over two sessions, with stop | `CutOffOnlyBySessionEnd`, `AnswerMatches`, `ImplementsConnection` |
| `client_live` | a pulse over two sessions, a heartbeat, with stop and fairness | `CallersReleased`, `StopObeyed`, `Reconnects` |
| `client_stop` | a pulse, one session, with fairness | `StopStops` is violated, see below |
| `reconnect` | the code's times in units of five seconds | `LiveServerKept`, `GivesUpAfterSeveral`, `SilentServerNoticed`, `PacedRetries`, `AuthBounded` |
| `streams` | two event streams, four notifications | `LastWord`, `MailTold` |
| `transport` | messages of three bytes and one, packets of two and one, buffers of two | `TypeOK`, `MessagesInOrder`, `PacketsInOrder`, `MessageLeaves`, `PacketArrives`, `ThreadEnds` |
| `http` | 39 requests, a line of two, four headers, a body of three, a buffer of four, with fairness | `SameHoweverCut`, `NothingUnlessWhole`, `Served` |
| `lifecycle` | three commands, two configurations, two faults, with fairness | `OneAgent`, `StopTruth`, `Reachable`, `AlreadyTruth`, `ReadyUnlessFault`, `CommandsEnd` |
| `lifecycle_kept` | four commands, no fault | `KeptIfSame` is violated, see below |
| `sdk_mail` | two mails, each SDK, one fault, with fairness | `OutcomeIsHandlers`, `NothingForgotten` |

The type invariants of `MoonlightClient`, `EventStream`, `AgentLifecycle` and `SdkMail` are
definitions of their modules and hold under the same configurations; the runs are spent on
what could be wrong. Those of `MoonlightClient`, `EventStream`, `AgentLifecycle`,
`SdkMail` and `Reconnect` are proved, with the invariants they are part of.

Bounds. Each request is made once; two or three are enough for every pair of
competing requests, and three over `TxnMod = 2` reach wraparound, skipped ids and
exhaustion (in the code exhaustion needs four neighbouring ids in use).
`AnswerMatches` assumes that ids do not wrap within a session, so the run that
checks it makes no more requests than there are ids: with 2^64 of them a
transaction is long forgotten when its id comes again. `MaxPushes` bounds unasked
packets and bad bytes, `MaxHeartbeats` the heartbeats, `MaxBatch` the packets of a
read, `MaxNotices` the notifications (four: a
whole connection and the next one), `MaxSessions` the sessions; two sessions show everything that is carried from
one to the next. In `Transport` the sizes are the smallest at which a message needs two
writes, a packet two reads, a read holds the end of one packet and the next one, and the
limits of a tick and the capacity of the wire are all reached. In `AgentLifecycle` three
commands give every agent a predecessor and a successor. In `SdkMail` two mails and two
chains suffice for a mail fetched twice and one behind it, `MaxDepth` two lets Python
fail on the third level, where the code does after some hundred, and a handler requeues
once so that the stack is bounded; `Decisions` leaves out an explicit reject, which takes
the same path as an ack. In `Reconnect` five seconds, the shortest interval that the verdict of
the timer depends on, is one unit, so `Lag` (two) is ten seconds, generous for a thread that
sleeps 100 ms, `Delay` (ten) is the largest `DelayAssumption` admits, and `MaxEvents` two. In
`HttpRequest` the limits are small enough that a line, the headers and the body lie on both
sides of them and need several reads. At most one Refresh waits in the mailbox (a second finds nothing
older than the first did) and the timer and the server put nothing behind an event
that ends the session, since it is never read. A session that was dropped, or a
client that stopped, is the end of the model, so deadlock is not checked.

Fairness. The threads of the agent run (`WF` of the session thread, of the reader of
a return channel, of `stop` between its two steps), the timer keeps sending
Refresh while the session is in its loop, and entries grow old. In `Transport` the stall timer
runs; in `AgentLifecycle` commands and servers go on, but an agent that was told to stop
may linger for ever; in `HttpRequest` the server thread and the thread of the connection run,
and a closed listener resets what it has not accepted; in `SdkMail` the program runs, handlers return and what was cut off is
connected again, as the agent retries for ever. Nothing is assumed
of the server, the network or new callers. The caller's own ten seconds are not
assumed to end, so `CallersReleased` shows that the agent itself releases it.

### Disagreements

1. `StopStops`: `stop` has no effect on a session whose socket is still connecting.
`mailbox_chan` is `None` until `moonlight_socket::connect` returns, so no TransportClose
is sent, and neither `wait_for_authentication` nor `start_loop` looks at the client's
`shutdown_flag`. The agent then stays connected although the command line has said
"stopped: The agent has been stopped." `StopObeyed` states what does hold.

2. `KeptIfSame`: the guards of the PID and hash files remove whatever is at their path
when they are dropped, which may be minutes after the stop, in the middle of the life of
the next agent. A `start` with the same configuration then finds no hash file, and stops
and replaces that agent, against "If the Device Agent is already running, compare the
credhash to check whether to restart or not." `OneAgent` still holds: the socket file is
the one the commands go by, and `Reachable` shows that it is not removed so.

The others are exceptions that a property which holds must make.

3. `LastWord` and `MailTold` (`unaware`): `connected` is notified before `authenticated` is
set. A stream that subscribes after the notification was copied and reads the flag before
it is set tells its program `disconnected`, and nothing else until the session ends. The
Elixir SDK promises that `connected()` is "Called when connection is established or
re-established to Fostrom." (handler.ex:61); it knows only what the stream says. Mail is
affected too: the `new_mail` of the stream's own is not sent either, so mail that was
announced before waits for the next `new_mail`.

4. `SameHoweverCut` (`split`): when a read ends between the CR and the LF of a line, the CR is
taken for a part of the line, against "Exclude trailing '\r' (or multiple '\r's), then
enforce max length" (request.rs:238): the empty line that ends the headers is then a header
without a colon, and a line of just the limit is too long. The request may be refused for
it; it is never taken for another one.

5. `PacedRetries`: `backoff` stores five minutes with a refusal, so that the next failure,
of whatever kind, also sleeps five minutes, while `status` reports the interval that will
follow it, 30 s (`PromiseKept`). Otherwise what `status` reports is an upper bound. It
reports one for `connect_failed` only.

6. `OutcomeIsHandlers` and `NothingForgotten`. In JavaScript and Python the fetch of the next
mail runs inside the operation on this one; when it fails, the exception reaches the
handler, and the SDK logs that the handler threw and rejects the mail. If the operation was
a requeue that the server has done, the mail is still in the mailbox and is lost by it.
`OutcomeIsHandlers` states this exception (`unsure`), and that there is no other, and
none for Elixir. `NothingForgotten` has two exceptions of the same kind: a failure the SDK
drops after a timeout leaves the mail behind it to the next event (`gave_up`), and in
JavaScript a fetch that fails after an event is an unhandled rejection, which ends the
program (`crashed`). A third is Elixir's: a callback that raises, such as `connected()`,
ends HandlerProc with the mails that were cast to it.

## Proofs

Every theorem is for all values of the constants that satisfy the named assumptions of the
modules, unless a hypothesis is given. The inductive invariants were checked by TLC, under
the configuration of the component's run, before they were proved; that of `Transport` was
not, because it quantifies over streams, and in that of `HttpRequest` the beginnings of the
lines, which the proof takes from a description of the stream, were computed.

### A session

`ClientLogic_proofs` has four parts.

Ownership of the return channels: `TypeCorrect`, `OwnershipInvariant`, `AtMostOnce`
(`LogicSpec => []TypeOK`, `[]Ownership`, `[]AtMostOneReply`). `AtMostOneReply` is not
inductive: a reply is sent because a channel was found in the mailbox, in `buffered_cmds` or
in `pending_txns`, and one must know that it is nowhere else and was not used before.
`Ownership` says that. Its proof reduces every action to one of a few moves of a channel (a
lemma for each: added to the mailbox, taken from it, buffered, stored, answered and cleared,
several answered by a refresh) and `Transfer` puts these together.

Order of the commands:

- `WrittenInOrderInvariant`. The invariant `Line` says that what was written comes
  before what is buffered, and both before what is in the mailbox, in the order of
  `submitted`, and that the buffer is empty once the loop has begun.
- `NothingBeforeWelcome` (`WrittenAfterConnected`). `Greeted` relates the place of the thread
  to the answer to Connect, wherever that is: with the server, in the mailbox, in the rest
  of a read, or taken.
- `PendingWasWrittenInvariant`.

Answers that stray: `OnlyLateAnswersStrayInvariant` (`OnlyLateAnswersStray`). The key of a mail
operation is its name, so an answer that comes after `Refresh` gave its request up settles
the next operation of that name; the theorem says that this is the only way an
answer reaches a request that is not its own, for every choice of keys and of the bound of
the transaction ids. `Strays`: the answer to a request is on its way at most once
(`Once`: owed by the server, in a read that waits in the mailbox, or in the batch that
is handled), and while it is, its request still has the entry under its key or was given
up. `Once` needs that nothing is written twice (`WrittenIsGone`, from `Line`).

The contract: `SessionImplementsContract`, the refinement of `RequestReply`
(`ImplementsRequestReply`). Every action is shown to do to a request one of four things:
accept it, leave it alone (`Untouched`), serve it (`Served`: kept, answered or dropped), or
serve it and drop it only with an answer (`NotLost`); all but the end of a session are of the last kind.

### The client over its sessions

`MoonlightClient_proofs` takes the steps of a session from `ClientLogic_proofs` and adds
what happens between two of them:

- `ClientTypeCorrect`: types, and the four invariants that carry the rest. `AtRest`:
  when no session runs, nothing of the last one is left in any of its variables, and the
  next one begins with the initial state `ClientLogic` assumes. `Published`: a mailbox is
  published while a session can read it, and until `start` noticed that none can.
  `TakenBy`: `via` is the session that took a request. `FlagAndNotice`: what the flag and the
  last notification are at each place of the thread.
- `ClientImplementsConnection` (`ImplementsConnection`), from `FlagAndNotice`.
- `OwnershipOverSessions`, `CutOffByItsSession` (`CutOffOnlyBySessionEnd`) and
  `WrittenInOrderOverSessions`; the last needs that no request is accepted twice
  (`AcceptedOnce`).
- `AnswerMatchesInvariant`, if there are at most `TxnMod` requests that take a transaction id.
  The hypothesis cannot be dropped: TLC finds `AnswerMatches` violated over two requests and
  one id, where the answer to the first use of an id that was forgotten is taken for the
  answer to the second. `Tracked` counts: the ids given out so far are 0, 1, 2 and so on up to the
  number of requests written with one (`Ids`), so that none is given out twice; an answer on its way, and an
  entry of `pending_txns`, under such an id belong to the one request it was given to.

### Event streams

`EventStream_proofs`: `LastWordIsTrue`, `MailIsTold`, for any number of streams. The
`Place` of a stream in the history is how far its thread has read; `Copied` says that its channel is just what
is between that and the listener thread. `DownTold`, `UpTold` and `MailWasTold` say of
each place what a stream has told by then, and where an event it has not told is still to come.

### The socket and the codec

`Transport_proofs`, for all lengths of messages and packets, all limits of a tick and all sizes of
reads, writes and wires:

- `TransportTypes`: `Spec => []TypeOK`;
- `MessagesWhole` (`MessagesInOrder`) and `PacketsWhole` (`PacketsInOrder`): each direction
  implements `Fifo`.

The invariant (`Streams`) says of each direction that one stream of whole messages runs
through all places that hold bytes. Outwards (`OutStream`): what the server has, what is on the
wire, and the rest of the message being written, which continues at the byte after the
last that a write took. Inwards (`InStream`): the packets delivered, the codec's buffer, the pieces in
the mailbox of the session (`Held`) and the wire, with garbage possibly in place of one packet.
`ParseFinds` is the lemma about `Codec`: begun at a boundary, it finds the packets that are
whole, no others, and keeps the rest, or refuses because of garbage. It is an induction over the packets,
and `Codec` is defined by recursion. Two lemmas make that possible: `AfterExists` shows that
the recursive function exists, so that it may be unfolded, and `SetInduction` is induction
with a set in place of the operator that the library's theorem takes and the provers cannot
instantiate; it follows from the pigeonhole principle.

### The agents of a device

`AgentLifecycle_proofs`: `OneAgentAtATime`, `StopTellsTheTruth`, `ServersAreReachable`,
`AlreadyTellsTheTruth`, `OnlyFaultsPreventReadiness`, and `LifecycleType`, for any number of
commands. All rest on one invariant. `Turns`: one command at a time. `Threads`: how the places of the
threads of a process go together. `Sockets`: a server that was bound has its file, and one
that is going to bind finds none, which is why no clean-up of an agent before it can
take the file away. `Starts` and `Stops`: which other servers there may be while a command
polls, connects or kills. `Configured`, `Readiness` and `StopTruth` follow the hash file, the
faults and the verdict of `stop`.

### Time

`Reconnect_proofs`, for all lengths of the intervals:

- `ReconnectType`: `Spec => []TypeOK`;
- `LiveServerIsKept`: `Spec => []LiveServerKept`, given
  `HeartbeatEvery + Lag + Delay <= GiveUpAfter` (30 s and 90 s: a server may take almost a
  minute, however late the thread runs within that);
- `SeveralMissed`: `Spec => []GivesUpAfterSeveral`, given
  `HeartbeatEvery + ResendAfter + 2 * Lag <= GiveUpAfter`;
- `SilenceIsNoticed`: `Spec => []SilentServerNoticed`, given
  `ResendAfter <= HeartbeatEvery` (5 s and 30 s);
- `RetriesArePaced`: `Spec => []PacedRetries`;
- `AuthIsBounded`: `Spec => []AuthBounded`.

That the timer did not give up is not inductive. The invariant says what its instants have
to do with each other: a heartbeat is never older than its period and the lateness of the
thread (`SentLately`); without one to wait for, the last acknowledgement is the younger
(`AckedLately`); the answer that is waited for is in `ping_chan` or on its way, and the older
the last acknowledgement is, the older is one on its way (`AnswerComes`); the first heartbeat
after an acknowledgement was sent soon after it (`FirstTry`). That a silent server is given up
needs the number of acknowledgements that can still come: heartbeats on their way are
`ResendAfter` apart (`Spaced`), so at most `Backlog` of them fit into `Delay`; with the
acknowledgements that wait in `ping_chan` they never are more (`FewAnswers`, by the pigeonhole
principle), and each acknowledgement puts the verdict off by one run of the timer (`Patience`).
For the intervals,
`OnTheLadder` says that `reconnect_in` is the step after the one that is slept.

### The mail in the SDKs

`SdkMail_proofs`: `MailIsHandlers` (`OutcomeIsHandlers`), `PythonHandlesOnce` (`NoRepeat`)
and `SdkTypes`, for any number of mails, events and faults and all depths of the calls. No
run checks `NoRepeat`: it speaks of the Python SDK alone, which has one thread, and is stated for
the proof.
`OutcomeIsHandlers` speaks of what was done; the invariant says it of what is going to be
done. `CallsRight`: at whatever depth, a call in progress is on a mail that arrived; an
operation about to be sent was decided on by the handler, and an automatic reject has its
excuse noted. `CastsRight` says it of the mails cast to HandlerProc. That each is true of
the top of a stack only is what makes the unwinding of nested calls safe: a failure
uncovers calls that only wait to go on. For Python the invariant adds that a mail in hand is
still in the mailbox, and one it was told is gone is not (`SettledGone`); both need that there is
one thread (`OneThread`) and that a mail is in the mailbox once (`OnceInMailbox`).

### Reading a request

`HttpRequest_proofs`: `ResponseOfTheWhole` (`SameHoweverCut`) and `OnlyTheWholeActs`
(`NothingUnlessWhole`), for all requests of the kind `IsRequest` describes, all limits and
all buffer sizes. `NothingUnlessWhole` is about what starts a command or a stream, not
about status and stop. Neither is inductive: a response is right because of what the thread has
read by then, over any number of reads. `Layout` describes the stream by the beginnings of its lines
(`Laid` shows that there are such, by induction over the headers). The invariant says that
the thread is `got` characters into line number `line`, or into the body (`InLine`,
`InBody`); that a `got` beyond the characters of a line, and a read that ends behind a CR,
are noted in `split` (`CrSeen`); and that the lines before passed their checks, with the headers
held being the last of each of them (`Passed`, `PassedHead`). `Scan` then gives what
`read_line` finds in the buffer, by where the last read ended, and `Verdicts` the response,
by the first check that fails.

### Model-checked only

The liveness properties, `RequestSettled`, `LostSocketEndsSession`, `CallersReleased`,
`StopObeyed`, `Reconnects`, `MessageLeaves`, `PacketArrives`, `ThreadEnds`,
`CommandsEnd`, `NothingForgotten` and `Served`: under fairness they are out of the prover's
reach. Every safety property of a passing run is a theorem.

## Not modelled, and the plan

In this order:

1. `JsEventStream`: reconnects with shutdown and start; the `close` event of a destroyed
   stream may come after the next one was opened.
2. `AgentLifecycle` with commands given at once; `status` and the command line's arguments.

Left out: wire formats, the HMAC of Connect, TLS, the texts of errors, the layout
of JSON, `test_conn`, and everything that builds and ships the agent. That the command of a
caller that got 408 may be sent later, and that a second Connected packet aborts the
process, are hazards without a property: nothing promises otherwise of the first, and the
second is the server's to avoid.
A panic in the session thread is not modelled; the code has none but the
`unreachable!` above and encoders that do not fail on the packets the agent builds.
