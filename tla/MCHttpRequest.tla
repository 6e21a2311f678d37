---------------------------- MODULE MCHttpRequest ----------------------------
(* An instance of HttpRequest for TLC: the requests of the SDKs and the      *)
(* command line, and each with something wrong.                             *)
EXTENDS HttpRequest

Line(method, path) == [len |-> 1, method |-> method, path |-> path, version |-> "HTTP/1.1"]
H(name, value) == [len |-> 1, name |-> name, value |-> value]
Ids == <<H("x-fleet-id", "own"), H("x-device-id", "own")>>
Json(n) == <<H("content-type", "application/json"), H("content-length", n)>>
Req(l, hs, n) == [line |-> l, headers |-> hs, end |-> TRUE, body |-> n, json |-> TRUE]

Pulse == Req(Line("POST", "/pulse/msg/name"), Ids \o Json(2), 2)
Fetch == Req(Line("GET", "/mailbox/next"), Ids, 0)

Routes ==
  { Fetch, Pulse }
  \cup {Req(Line(m, "/"), Ids, 0) : m \in {"GET", "HEAD"}}
  \cup {Req(Line("DELETE", "/stop-agent"), <<>>, 0), Req(Line("GET", "/events"), Ids, 0),
        Req(Line("PUT", "/mailbox/ack/id"), Ids, 0), Req(Line("PUT", "/mailbox/ack/no_id"), Ids, 0),
        Req(Line("POST", "/pulse/msg/no_name"), Ids, 0), Req(Line("PUT", "/other"), Ids, 0)}

BadLines == {[Fetch EXCEPT !.line = l] : l \in
  {[Fetch.line EXCEPT !.len = 0], [Fetch.line EXCEPT !.len = 2], [Fetch.line EXCEPT !.len = 3],
   [Fetch.line EXCEPT !.version = "other"], [Fetch.line EXCEPT !.path = "relative"],
   [Fetch.line EXCEPT !.method = "other"]}}

BadHeaders == {[Fetch EXCEPT !.headers = hs] : hs \in
  {<<>>, <<Ids[1]>>, <<Ids[1], H("x-device-id", "empty")>>, <<H("x-fleet-id", "other"), Ids[2]>>,
   <<Ids[1], H("x-device-id", "other")>>, Ids \o <<H("x-device-id", "other")>>,
   <<H("x-device-id", "other")>> \o Ids, Ids \o <<H("no_colon", "none")>>,
   Ids \o <<H("no_name", "none")>>, <<[Ids[1] EXCEPT !.len = 2], [Ids[2] EXCEPT !.len = 3]>>,
   Ids \o Json(0) \o <<H("other", "none")>>, Ids \o Json(0) \o <<Ids[1]>>}}

BadBodies ==
  {[Pulse EXCEPT !.headers = Ids \o hs] : hs \in
    {Json(-1), Json(0), Json(1), Json(3), Json(4), <<H("content-length", 2)>>,
     <<H("content-length", 2), H("content-type", "text/plain")>>,
     <<H("transfer-encoding", "chunked"), H("content-length", 2)>>}}
  \cup {[Pulse EXCEPT !.json = FALSE], [Pulse EXCEPT !.body = 3]}

SomeRequests == Routes \cup BadLines \cup BadHeaders \cup BadBodies
                  \cup {[Fetch EXCEPT !.end = FALSE]}
=============================================================================
