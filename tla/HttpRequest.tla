----------------------------- MODULE HttpRequest -----------------------------
(***************************************************************************)
(* One connection to the HTTP server of the agent: accepted by the loop of   *)
(* http_server/server.rs, read and parsed (request.rs) by a thread of its    *)
(* own (socket.rs), routed and answered (router.rs, response.rs).            *)
(*                                                                         *)
(* A request is a record, and what is sent of it a stream of characters:     *)
(* "x" of a line, "cr", "lf" and "b" of the body.  A read takes any of them  *)
(* that are there, so that the stream is cut anywhere.  What a command comes *)
(* to is MoonlightClient's, what follows on an event stream EventStream's.   *)
(***************************************************************************)
EXTENDS Integers, SequencesExt, FiniteSetsExt

CONSTANTS
  Requests,     \* what may be sent: see RequestType
  MaxLine,      \* MAX_LINE_LENGTH
  MaxHeaders,   \* MAX_HEADERS
  MaxBody,      \* 64 KiB
  BufSize,      \* of BufReader
  None          \* no value

Methods == {"GET", "HEAD", "POST", "PUT", "DELETE"}
Paths   == {"/", "/stop-agent", "/events", "/mailbox/next", "/mailbox/ack/id",
            "/mailbox/ack/no_id", "/pulse/msg/name", "/pulse/msg/no_name", "/other", "relative"}
Names   == {"x-fleet-id", "x-device-id", "content-length", "content-type",
            "transfer-encoding", "other", "no_name", "no_colon"}

\* end: the empty line is sent; body: how much is sent; json: it is
\* JSON as a whole, and no part of it is.  A length that is no number is -1.
IsRequest(r) ==
  /\ r.line.len \in Nat /\ r.line.method \in Methods \cup {"other"}
  /\ r.line.path \in Paths /\ r.line.version \in {"HTTP/1.1", "other"}
  /\ r.headers \in Seq(Range(r.headers))
  /\ \A h \in Range(r.headers) :
       /\ h.len \in Nat \ {0} /\ h.name \in Names
       /\ h.name = "content-length" => h.value \in Nat \cup {-1}
  /\ r.end \in BOOLEAN /\ r.body \in Nat /\ r.json \in BOOLEAN

ASSUME HttpAssumption ==
  /\ \A r \in Requests : IsRequest(r)
  /\ {MaxLine, MaxHeaders, MaxBody, BufSize} \subseteq Nat \ {0}

VARIABLES
  srv, flag,     \* the accept loop: "bind", "check", "accept", "gone"; shutdown_flag
  conn,          \* "none", "backlog", then where its thread is, and how it ended
  req,           \* what the client sends
  read, used,    \* how much of it was read into the buffer, and consumed
  got,           \* of the line or the body that is being read
  line,          \* lines read
  headers,       \* name -> value
  resp,          \* the response
  done,          \* what the request made the agent do (history)
  split,         \* a read ended between "cr" and "lf" (history)
  fault          \* the client stopped sending (history)

server == <<srv, flag>>
input  == <<read, used, got, line, headers, split, fault>>
vars   == <<server, conn, req, input, resp, done>>

Parsing == {"line", "headers", "body"}
Ended   == {"streaming", "closed", "dropped"}

Text(n)   == [i \in 1 .. n |-> "x"]
CRLF      == <<"cr", "lf">>
Stream == [r \in Requests |->
  Text(r.line.len) \o CRLF
    \o FlattenSeq([i \in DOMAIN r.headers |-> Text(r.headers[i].len) \o CRLF])
    \o (IF r.end THEN CRLF ELSE <<>>) \o [i \in 1 .. r.body |-> "b"]]

NoResp == [code |-> 0, stream |-> FALSE]

Init ==
  /\ srv = "bind" /\ flag = FALSE /\ conn = "none" /\ req \in Requests
  /\ read = 0 /\ used = 0 /\ got = 0 /\ line = 0 /\ headers = [n \in Names |-> None]
  /\ resp = NoResp /\ done = "nothing" /\ split = FALSE /\ fault = FALSE

(***************************************************************************)
(* The verdicts of request.rs and router.rs; 200 is a pass.                 *)
(***************************************************************************)
OK == 200
FirstFailure(verdicts) ==
  LET bad == SelectInSeq(verdicts, LAMBDA v : v # OK)
  IN  IF bad = 0 THEN OK ELSE verdicts[bad]
Unless(code, holds) == IF holds THEN OK ELSE code

RequestLine(l) == FirstFailure(<<
  Unless(400, l.len > 0), Unless(505, l.version = "HTTP/1.1"),
  Unless(400, l.path # "relative"), Unless(400, l.method \in Methods)>>)

\* map holds the headers before this one.
HeaderLine(h, map) == FirstFailure(<<
  Unless(400, h.name \notin {"no_colon", "no_name"}),
  Unless(400, Cardinality({n \in Names : map[n] # None}) < MaxHeaders)>>)

Unvalidated(l) == \/ l.method = "GET" /\ l.path = "/"
                  \/ l.method = "DELETE" /\ l.path = "/stop-agent"

ValidateHeaders(map) == FirstFailure(<<
  Unless(400, map["x-fleet-id"] \notin {None, "empty"}),
  Unless(401, map["x-fleet-id"] = "own"),
  Unless(400, map["x-device-id"] \notin {None, "empty"}),
  Unless(401, map["x-device-id"] = "own")>>)

HasBody(map) == map["content-length"] \notin {None, 0}
BodyHeaders(map) == FirstFailure(<<
  Unless(400, map["transfer-encoding"] # "chunked"),
  Unless(400, map["content-length"] # -1),
  Unless(400, ~HasBody(map) \/ map["content-length"] <= MaxBody),
  Unless(400, ~HasBody(map) \/ map["content-type"] = "application/json")>>)
ParseBody(r, length) == Unless(400, r.json /\ length = r.body)

Commands(l) ==
  \/ l.method \in {"GET", "HEAD"} /\ l.path = "/mailbox/next"
  \/ l.method = "PUT" /\ l.path = "/mailbox/ack/id"
  \/ l.method = "POST" /\ l.path = "/pulse/msg/name"
Route(l) ==
  CASE Commands(l) -> "command"
    [] l.method \in {"GET", "HEAD"} /\ l.path = "/" -> "status"
    [] l.method = "DELETE" /\ l.path = "/stop-agent" -> "stop"
    [] l.method = "GET" /\ l.path = "/events" -> "events"
    [] l.method = "PUT" /\ l.path = "/mailbox/ack/no_id" -> "bad"
    [] l.method = "POST" /\ l.path = "/pulse/msg/no_name" -> "bad"
    [] OTHER -> "not_found"
Codes(route) ==
  CASE route = "command" -> {200, 403, 408, 500}
    [] route = "bad" -> {400} [] route = "not_found" -> {404} [] OTHER -> {200}

(***************************************************************************)
(* server.rs, socket.rs                                                    *)
(***************************************************************************)
Bind ==
  /\ srv = "bind" /\ srv' \in {"check", "gone"}
  /\ UNCHANGED <<flag, conn, req, input, resp, done>>

CheckFlag ==
  /\ srv = "check" /\ srv' = IF flag THEN "gone" ELSE "accept"
  /\ UNCHANGED <<flag, conn, req, input, resp, done>>

\* A connection whose timeouts cannot be set is dropped; accept may fail.
AcceptConn ==
  /\ srv = "accept"
  /\ \/ /\ srv' = "check"
        /\ IF conn = "backlog" THEN conn' \in {"line", "dropped"} ELSE UNCHANGED conn
     \/ srv' = "gone" /\ UNCHANGED conn
  /\ UNCHANGED <<flag, req, input, resp, done>>

Connect ==
  /\ conn = "none" /\ srv \in {"check", "accept"} /\ conn' = "backlog"
  /\ UNCHANGED <<server, req, input, resp, done>>

\* The listener is closed, or the process ends.
Reset ==
  /\ srv = "gone" /\ conn \notin Ended \cup {"none"} /\ (conn # "backlog" => flag)
  /\ conn' = "dropped"
  /\ UNCHANGED <<server, req, input, resp, done>>

StoppedElsewhere ==
  /\ ~flag /\ flag' = TRUE
  /\ UNCHANGED <<srv, conn, req, input, resp, done>>

(***************************************************************************)
(* request.rs: read_line and read_exact                                    *)
(***************************************************************************)
Buf   == SubSeq(Stream[req], used + 1, read)
NlIdx == SelectInSeq(Buf, LAMBDA c : c = "lf")
\* Without the "cr"s before it, as far as they are in the buffer.
End   == Max({0} \cup {i \in 1 .. NlIdx - 1 : Buf[i] # "cr"})

Refuse(code) == conn' = "respond" /\ resp' = [code |-> code, stream |-> FALSE]
GoOn(code, next) == IF code = OK THEN conn' = next /\ UNCHANGED resp ELSE Refuse(code)

FillBuf ==
  /\ conn \in Parsing /\ read = used
  /\ \E n \in 1 .. Min({BufSize, Len(Stream[req]) - read}) :
       /\ read' = read + n
       /\ split' = (split \/ Stream[req][read + n] = "cr")
  /\ UNCHANGED <<server, conn, req, used, got, line, headers, resp, done, fault>>

\* mutant: the socket has no timeout, and its end is taken for an interruption
ReadFailsNot == FALSE /\ UNCHANGED vars

\* A timeout of five seconds, an error, or the end of the stream.
ReadFails ==
  /\ conn \in Parsing /\ read = used
  /\ Refuse(400)
  /\ fault' = (fault \/ read < Len(Stream[req]))
  /\ UNCHANGED <<server, req, read, used, got, line, headers, done, split>>

\* mutant: what is read without a line end is not counted
TooLongHere == (IF NlIdx = 0 THEN Len(Buf) ELSE End) > MaxLine
TooLong == got + (IF NlIdx = 0 THEN Len(Buf) ELSE End) > MaxLine
Reading == conn \in {"line", "headers"} /\ read > used

LineTooLong ==
  /\ Reading /\ TooLong /\ Refuse(400)
  /\ UNCHANGED <<server, req, input, done>>

PartOfLine ==
  /\ Reading /\ NlIdx = 0 /\ ~TooLong
  /\ got' = got + Len(Buf) /\ used' = read
  /\ UNCHANGED <<server, conn, req, read, line, headers, resp, done, split, fault>>

\* The rest of a line is consumed.
TakeLine ==
  /\ Reading /\ NlIdx > 0 /\ ~TooLong
  /\ used' = used + NlIdx /\ got' = 0 /\ line' = line + 1
  /\ UNCHANGED <<server, req, read, done, split, fault>>

\* A line of nothing but a "cr" that was read before has no version.
ReadRequestLine ==
  /\ conn = "line" /\ TakeLine
  /\ GoOn(IF req.line.len = 0 /\ got > 0 THEN 505 ELSE RequestLine(req.line), "headers")
  /\ UNCHANGED headers

\* An empty line of which a "cr" was read before is taken for a header.
ReadHeader ==
  /\ conn = "headers" /\ TakeLine /\ got + End > 0
  /\ IF line > Len(req.headers)
     THEN Refuse(400) /\ UNCHANGED headers
     ELSE LET h == req.headers[line]
          IN  /\ GoOn(HeaderLine(h, headers), "headers")
              /\ headers' = IF HeaderLine(h, headers) = OK
                            THEN [headers EXCEPT ![h.name] = h.value] ELSE headers

EndOfHeaders ==
  /\ conn = "headers" /\ TakeLine /\ got + End = 0
  /\ IF Unvalidated(req.line)
     THEN GoOn(OK, "route")
     ELSE GoOn(FirstFailure(<<ValidateHeaders(headers), BodyHeaders(headers)>>),
               IF HasBody(headers) THEN "body" ELSE "route")
  /\ UNCHANGED headers

\* mutant: what has arrived is taken for all
ReadBodyPart ==
  /\ conn = "body" /\ read > used
  /\ used' = read /\ got' = got + Len(Buf)
  /\ GoOn(Unless(400, req.json), "route")
  /\ UNCHANGED <<server, req, read, line, headers, done, split, fault>>

ReadBody ==
  /\ conn = "body" /\ read > used
  /\ LET length == headers["content-length"]
         n      == Min({Len(Buf), length - got})
     IN  /\ used' = used + n /\ got' = got + n
         /\ IF got + n = length THEN GoOn(ParseBody(req, length), "route")
            ELSE UNCHANGED <<conn, resp>>
  /\ UNCHANGED <<server, req, read, line, headers, done, split, fault>>

(***************************************************************************)
(* router.rs                                                               *)
(***************************************************************************)
Execute ==
  /\ conn = "route" /\ conn' = "respond"
  /\ done' = Route(req.line)
  /\ flag' = (flag \/ Route(req.line) = "stop")
  /\ \E code \in Codes(Route(req.line)) :
       resp' = [code |-> code, stream |-> Route(req.line) = "events"]
  /\ UNCHANGED <<srv, req, input>>

\* send may fail; handle_event_stream goes on with the socket.
Respond ==
  /\ conn = "respond"
  /\ conn' \in {"dropped", IF resp.stream THEN "streaming" ELSE "closed"}
  /\ UNCHANGED <<server, req, input, resp, done>>

Server == Bind \/ CheckFlag \/ AcceptConn
Thread == FillBuf \/ ReadFails \/ LineTooLong \/ PartOfLine \/ ReadRequestLine
            \/ ReadHeader \/ EndOfHeaders \/ ReadBody \/ Execute \/ Respond
Next == Server \/ Thread \/ Connect \/ Reset \/ StoppedElsewhere

\* The threads run, and a closed listener resets what it had not accepted.
Fairness == WF_vars(Server) /\ WF_vars(Thread) /\ WF_vars(conn = "backlog" /\ Reset)
Spec     == Init /\ [][Next]_vars
FairSpec == Spec /\ Fairness

(***************************************************************************)
(* Properties                                                              *)
(***************************************************************************)
\* What a request comes to when it is there at once and as a whole.
LastOf(r, k) == [n \in Names |->
  LET at == {i \in 1 .. k : r.headers[i].name = n}
  IN  IF at = {} THEN None ELSE r.headers[Max(at)].value]
HeaderVerdict(r, i) ==
  FirstFailure(<<Unless(400, r.headers[i].len <= MaxLine), HeaderLine(r.headers[i], LastOf(r, i - 1))>>)
Verdict(r) ==
  LET map == LastOf(r, Len(r.headers))
  IN  FirstFailure(
        <<Unless(400, r.line.len <= MaxLine), RequestLine(r.line)>>
          \o [i \in DOMAIN r.headers |-> HeaderVerdict(r, i)]
          \o <<Unless(400, r.end)>>
          \o (IF Unvalidated(r.line) THEN <<>>
              ELSE <<ValidateHeaders(map), BodyHeaders(map),
                     IF HasBody(map) THEN ParseBody(r, map["content-length"]) ELSE OK>>))
Expected(r) == IF Verdict(r) = OK THEN Codes(Route(r.line)) ELSE {Verdict(r)}

\* However the stream is cut into reads, the response is the one of the
\* request read at once.  A cut between the "cr" and the "lf" of a line is
\* the exception: it may have the request refused, never change the response
\* otherwise.
SameHoweverCut ==
  resp # NoResp /\ ~fault =>
    resp.code \in Expected(req) \cup (IF split THEN {400, 505} ELSE {})

\* A command goes to the client logic, and an event stream is opened, only for
\* a request of which all arrived, with the body it announced, and stands in
\* the last of each header as it must.  (Status and stop are not covered.)
NothingUnlessWhole ==
  done \in {"command", "events"} =>
    LET map == LastOf(req, Len(req.headers))
        head == Len(Stream[req]) - req.body
    IN  /\ req.end /\ ~fault
        /\ map["x-fleet-id"] = "own" /\ map["x-device-id"] = "own"
        /\ used = head + (IF HasBody(map) THEN map["content-length"] ELSE 0)

\* A connection is served or ended, whatever its client sends or does not
\* send, and whether or not the agent is stopped meanwhile.
Served == conn = "backlog" ~> conn \in Ended
=============================================================================
