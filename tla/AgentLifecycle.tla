--------------------------- MODULE AgentLifecycle ---------------------------
(***************************************************************************)
(* The commands of device-agent/src/cli and the agents they start and stop,  *)
(* which know of each other by three files in /tmp/fostrom only: the PID file *)
(* and the hash file, written and removed by the main thread of an agent      *)
(* (cli/start.rs), and the socket file of its HTTP server                     *)
(* (http_server/server.rs).                                                *)
(*                                                                         *)
(* A process is one invocation.  That of "start" becomes the daemon, whose    *)
(* parent goes on polling.  One command is given at a time, as by a script or *)
(* an SDK that waits for it; an agent that was told to stop may outlive its   *)
(* command by any time, since the client may be in its backoff sleep.        *)
(*                                                                         *)
(* Left out: "run" and "status", the TCP server, errors of the file system,   *)
(* and PIDs that are used again.                                            *)
(***************************************************************************)
EXTENDS Naturals, FiniteSets

CONSTANTS
  MaxProcs,    \* bound: commands given
  Hashes,      \* configurations, known by their hash
  MaxFaults,   \* bound: crashes, signals and failed servers
  None         \* no configuration

ASSUME LifecycleAssumption == MaxProcs \in Nat /\ MaxFaults \in Nat /\ None \notin Hashes

VARIABLES
  cmd, hash,   \* the command of a process and its configuration
  at,          \* where its main thread is
  srv,         \* where the thread of its HTTP server is
  flag,        \* its shutdown flag, and that of its client
  conv,        \* its request to stop another agent, as that one sees it
  other,       \* the agent it connected to or is about to kill
  said,        \* what the command reported
  parent,      \* of the daemon: "none", "poll", "started", "failed"
  pid_file, hash_file, sock_file,
  faults       \* processes that met a fault (history)

files == <<pid_file, hash_file, sock_file>>
procs == <<cmd, hash, at, srv, flag, conv, other, said, parent>>
vars  == <<procs, files, faults>>

Procs  == 1 .. MaxProcs
NoProc == 0

CliSteps   == {"p_sock", "p_hash", "p_connect", "p_read", "t_sock", "t_connect",
               "t_reply", "t_wait", "k_read", "k_kill", "k_sock", "k_pid", "k_hash"}
AgentSteps == {"write_pid", "write_hash", "client", "join", "drop_hash", "drop_pid"}
Verdicts   == {"already_started", "NotRunning", "Stopped", "ForceKilled", "Failed"}

Init ==
  /\ cmd = [p \in Procs |-> None] /\ hash = [p \in Procs |-> None]
  /\ at = [p \in Procs |-> "new"] /\ srv = [p \in Procs |-> "none"]
  /\ flag = [p \in Procs |-> FALSE] /\ conv = [p \in Procs |-> "none"]
  /\ other = [p \in Procs |-> NoProc] /\ said = [p \in Procs |-> "nothing"]
  /\ parent = [p \in Procs |-> "none"]
  /\ pid_file = NoProc /\ hash_file = None /\ sock_file = NoProc
  /\ faults = {}

Alive(p)      == at[p] \in CliSteps \cup AgentSteps
InProgress(p) == at[p] \in CliSteps \/ parent[p] = "poll"
Listening(q)  == q # NoProc /\ Alive(q) /\ srv[q] \in {"check", "accept", "remove"}

Goto(p, step) == at' = [at EXCEPT ![p] = step]

Begin(p) ==
  /\ at[p] = "new"
  /\ \A q \in Procs : q < p => at[q] # "new" /\ ~InProgress(q)
  /\ \/ \E h \in Hashes :
          /\ cmd' = [cmd EXCEPT ![p] = "start"] /\ hash' = [hash EXCEPT ![p] = h]
          /\ Goto(p, "p_sock")
     \/ /\ cmd' = [cmd EXCEPT ![p] = "stop"] /\ UNCHANGED hash
        /\ Goto(p, "t_sock")
  /\ UNCHANGED <<srv, flag, conv, other, said, parent, files, faults>>

(***************************************************************************)
(* cli/start.rs: preflight                                                 *)
(***************************************************************************)
cliUnchanged == <<cmd, hash, srv, flag, conv, files, faults>>

\* p is at one of the tests, which the code makes one after the other.
Test(p, step, holds, next) ==
  /\ at[p] = step
  /\ Goto(p, IF holds THEN next ELSE "t_sock")

PreflightFiles(p) ==
  /\ \/ Test(p, "p_sock", sock_file # NoProc, "p_hash")
     \/ Test(p, "p_hash", hash_file # None, "p_connect")
  /\ UNCHANGED <<cliUnchanged, other, said, parent>>

PreflightConnect(p) ==
  /\ Test(p, "p_connect", Listening(sock_file), "p_read")
  /\ other' = [other EXCEPT ![p] = sock_file]
  /\ UNCHANGED <<cliUnchanged, said, parent>>

\* mutant: a running agent is taken for the right one
PreflightReadAny(p) ==
  /\ Test(p, "p_read", hash_file # None, "exited")
  /\ said' = [said EXCEPT ![p] = IF hash_file # None THEN "already_started" ELSE @]
  /\ UNCHANGED <<cliUnchanged, other, parent>>

\* mutant: an agent with another configuration is left alone
PreflightReadStarts(p) ==
  /\ at[p] = "p_read"
  /\ said' = [said EXCEPT ![p] = IF hash_file = hash[p] THEN "already_started" ELSE @]
  /\ IF hash_file = hash[p]
     THEN Goto(p, "exited") /\ UNCHANGED parent
     ELSE Goto(p, "write_pid") /\ parent' = [parent EXCEPT ![p] = "poll"]
  /\ UNCHANGED <<cliUnchanged, other>>

PreflightRead(p) ==
  /\ Test(p, "p_read", hash_file = hash[p], "exited")
  /\ said' = [said EXCEPT ![p] = IF hash_file = hash[p] THEN "already_started" ELSE @]
  /\ UNCHANGED <<cliUnchanged, other, parent>>

(***************************************************************************)
(* cli/stop.rs: terminate_agent, for "stop" and for "start", which goes on   *)
(* to start the agent whatever comes of it                                  *)
(***************************************************************************)
Verdict(p, v) ==
  /\ said' = [said EXCEPT ![p] = v]
  /\ IF cmd[p] = "start"
     THEN Goto(p, "write_pid") /\ parent' = [parent EXCEPT ![p] = "poll"]
     ELSE Goto(p, "exited") /\ UNCHANGED parent

\* mutant: the PID file tells whether there is an agent
TerminateLookPid(p) ==
  /\ at[p] = "t_sock"
  /\ IF pid_file = NoProc
     THEN Verdict(p, "NotRunning")
     ELSE Goto(p, "t_connect") /\ UNCHANGED <<said, parent>>
  /\ UNCHANGED <<cliUnchanged, other>>

TerminateLook(p) ==
  /\ at[p] = "t_sock"
  /\ IF sock_file = NoProc
     THEN Verdict(p, "NotRunning")
     ELSE Goto(p, "t_connect") /\ UNCHANGED <<said, parent>>
  /\ UNCHANGED <<cliUnchanged, other>>

TerminateConnect(p) ==
  /\ at[p] = "t_connect"
  /\ IF Listening(sock_file)
     THEN /\ Goto(p, "t_reply")
          /\ conv' = [conv EXCEPT ![p] = "queued"]
          /\ other' = [other EXCEPT ![p] = sock_file]
     ELSE Goto(p, "k_read") /\ UNCHANGED <<conv, other>>
  /\ UNCHANGED <<cmd, hash, srv, flag, said, parent, files, faults>>

\* The agent ended, or its listener was closed, before it answered.
NoAnswer(p) ==
  /\ at[p] = "t_reply"
  /\ ~Alive(other[p]) \/ (conv[p] = "queued" /\ ~Listening(other[p]))
  /\ Goto(p, "k_read") /\ conv' = [conv EXCEPT ![p] = "none"]
  /\ UNCHANGED <<cmd, hash, srv, flag, other, said, parent, files, faults>>

\* wait_for_cleanup.  Five seconds are taken to be enough for a server thread
\* that is about to see the flag, which it looks at every 50 ms.
Cleared(p) ==
  /\ at[p] = "t_wait" /\ sock_file = NoProc
  /\ Verdict(p, "Stopped")
  /\ UNCHANGED <<cliUnchanged, other>>

WaitForever(p) == FALSE   \* mutant: the wait has no end
WaitTimeout(p) ==
  /\ at[p] = "t_wait" /\ sock_file # NoProc
  /\ ~(Listening(sock_file) /\ flag[sock_file])
  /\ Goto(p, "k_read")
  /\ UNCHANGED <<cliUnchanged, other, said, parent>>

\* force_kill_agent
ReadPid(p) ==
  /\ at[p] = "k_read"
  /\ IF pid_file = NoProc
     THEN Verdict(p, "Failed") /\ UNCHANGED other
     ELSE /\ Goto(p, "k_kill") /\ UNCHANGED <<said, parent>>
          /\ other' = [other EXCEPT ![p] = pid_file]
  /\ UNCHANGED cliUnchanged

KillPid(p) ==
  /\ at[p] = "k_kill"
  /\ IF Alive(other[p])
     THEN /\ at' = [at EXCEPT ![p] = "k_sock", ![other[p]] = "dead"]
          /\ UNCHANGED <<said, parent>>
     ELSE Verdict(p, "Failed")
  /\ UNCHANGED <<cliUnchanged, other>>

RemoveFiles(p) ==
  /\ \/ /\ at[p] = "k_sock" /\ sock_file' = NoProc /\ Goto(p, "k_pid")
        /\ UNCHANGED <<pid_file, hash_file, said, parent>>
     \/ /\ at[p] = "k_pid" /\ pid_file' = NoProc /\ Goto(p, "k_hash")
        /\ UNCHANGED <<sock_file, hash_file, said, parent>>
     \/ /\ at[p] = "k_hash" /\ hash_file' = None /\ Verdict(p, "ForceKilled")
        /\ UNCHANGED <<sock_file, pid_file>>
  /\ UNCHANGED <<cmd, hash, srv, flag, conv, other, faults>>

(***************************************************************************)
(* cli/start.rs: start_proc                                                *)
(***************************************************************************)
agentUnchanged == <<cmd, hash, flag, conv, other, said, parent, faults>>

WritePid(p) ==
  /\ at[p] = "write_pid" /\ Goto(p, "write_hash")
  /\ pid_file' = p
  /\ UNCHANGED <<agentUnchanged, srv, hash_file, sock_file>>

\* ... and the threads are started.
WriteHash(p) ==
  /\ at[p] = "write_hash" /\ Goto(p, "client")
  /\ hash_file' = hash[p]
  /\ srv' = [srv EXCEPT ![p] = "unlink"]
  /\ UNCHANGED <<agentUnchanged, pid_file, sock_file>>

\* MoonlightClient::start returns some time after its stop().
ClientEnds(p) ==
  /\ at[p] = "client" /\ flag[p] /\ Goto(p, "join")
  /\ UNCHANGED <<agentUnchanged, srv, files>>

Join(p) ==
  /\ at[p] = "join" /\ srv[p] = "gone" /\ Goto(p, "drop_hash")
  /\ UNCHANGED <<agentUnchanged, srv, files>>

DropHash(p) ==
  /\ at[p] = "drop_hash" /\ Goto(p, "drop_pid")
  /\ hash_file' = None
  /\ UNCHANGED <<agentUnchanged, srv, pid_file, sock_file>>

\* mutant: the main thread removes the socket file too
DropPidAndSock(p) ==
  /\ at[p] = "drop_pid" /\ Goto(p, "exited")
  /\ pid_file' = NoProc /\ sock_file' = NoProc
  /\ UNCHANGED <<agentUnchanged, srv, hash_file>>

DropPid(p) ==
  /\ at[p] = "drop_pid" /\ Goto(p, "exited")
  /\ pid_file' = NoProc
  /\ UNCHANGED <<agentUnchanged, srv, hash_file, sock_file>>

(***************************************************************************)
(* http_server/server.rs: unix_server; router.rs: exec_stop_agent           *)
(***************************************************************************)
Serve(p, step) == Alive(p) /\ srv' = [srv EXCEPT ![p] = step]
serverUnchanged == <<cmd, hash, at, other, said, parent, pid_file, hash_file>>

\* mutant: a socket file that was left behind is not removed
SrvUnlinkNot(p) ==
  /\ srv[p] = "unlink" /\ Serve(p, "bind")
  /\ UNCHANGED <<serverUnchanged, sock_file, flag, conv, faults>>

SrvUnlink(p) ==
  /\ srv[p] = "unlink" /\ Serve(p, "bind")
  /\ sock_file' = NoProc
  /\ UNCHANGED <<serverUnchanged, flag, conv, faults>>

SrvBind(p) ==
  /\ srv[p] = "bind"
  /\ IF sock_file = NoProc
     THEN Serve(p, "check") /\ sock_file' = p
     ELSE Serve(p, "gone") /\ UNCHANGED sock_file
  /\ UNCHANGED <<serverUnchanged, flag, conv, faults>>

SrvCheck(p) ==
  /\ srv[p] = "check" /\ Serve(p, IF flag[p] THEN "remove" ELSE "accept")
  /\ UNCHANGED <<serverUnchanged, sock_file, flag, conv, faults>>

Queued(p) == {c \in Procs : at[c] = "t_reply" /\ conv[c] = "queued" /\ other[c] = p}

SrvAccept(p) ==
  /\ srv[p] = "accept" /\ Serve(p, "check")
  /\ IF Queued(p) = {}
     THEN UNCHANGED conv
     ELSE \E c \in Queued(p) : conv' = [conv EXCEPT ![c] = "accepted"]
  /\ UNCHANGED <<serverUnchanged, sock_file, flag, faults>>

MayFail(p) == p \notin faults /\ Cardinality(faults) < MaxFaults
Fault(p)   == MayFail(p) /\ faults' = faults \cup {p}

\* accept returned an error: the thread ends, and the file stays.
AcceptFails(p) ==
  /\ srv[p] = "accept" /\ Serve(p, "gone")
  /\ Fault(p)
  /\ UNCHANGED <<serverUnchanged, sock_file, flag, conv>>

SrvRemove(p) ==
  /\ srv[p] = "remove" /\ Serve(p, "gone")
  /\ sock_file' = NoProc
  /\ UNCHANGED <<serverUnchanged, flag, conv, faults>>

\* The thread of the request of c; the response is read at once.
ExecStop(c) ==
  /\ at[c] = "t_reply" /\ conv[c] = "accepted" /\ Alive(other[c])
  /\ flag' = [flag EXCEPT ![other[c]] = TRUE]
  /\ conv' = [conv EXCEPT ![c] = "flagged"]
  /\ UNCHANGED <<serverUnchanged, srv, sock_file, faults>>

Respond(c) ==
  /\ at[c] = "t_reply" /\ conv[c] = "flagged" /\ Alive(other[c])
  /\ Goto(c, "t_wait") /\ conv' = [conv EXCEPT ![c] = "none"]
  /\ UNCHANGED <<cmd, hash, srv, flag, other, said, parent, files, faults>>

(***************************************************************************)
(* cli/daemon.rs: run_readiness_check, by the parent of p                   *)
(***************************************************************************)
parentUnchanged == <<cmd, hash, srv, flag, conv, other, said, files, faults>>

PollOk(p) ==
  /\ parent[p] = "poll"
  /\ Listening(sock_file) /\ srv[sock_file] # "remove"
  /\ parent' = [parent EXCEPT ![p] = "started"]
  /\ UNCHANGED <<parentUnchanged, at>>

\* Ten seconds are taken to be enough for a server that will come up.
PollTimeout(p) ==
  /\ parent[p] = "poll"
  /\ ~Alive(p) \/ srv[p] = "gone"
  /\ parent' = [parent EXCEPT ![p] = "failed"]
  /\ Goto(p, IF Alive(p) THEN "dead" ELSE at[p])
  /\ UNCHANGED parentUnchanged

(***************************************************************************)
(* Faults: kill -9 or a loss of power, and SIGINT or SIGTERM to an agent    *)
(***************************************************************************)
Crash(p) ==
  /\ Alive(p) /\ Fault(p) /\ Goto(p, "dead")
  /\ UNCHANGED <<cmd, hash, srv, flag, conv, other, said, parent, files>>

Signal(p) ==
  /\ at[p] = "client" /\ ~flag[p] /\ Fault(p)
  /\ flag' = [flag EXCEPT ![p] = TRUE]
  /\ UNCHANGED <<cmd, hash, at, srv, conv, other, said, parent, files>>

(***************************************************************************)
(* The system                                                              *)
(***************************************************************************)
Cli(p) ==
  \/ PreflightFiles(p) \/ PreflightConnect(p) \/ PreflightRead(p)
  \/ TerminateLook(p) \/ TerminateConnect(p) \/ NoAnswer(p) \/ Cleared(p)
  \/ WaitTimeout(p) \/ ReadPid(p) \/ KillPid(p) \/ RemoveFiles(p)
  \/ WritePid(p) \/ WriteHash(p)

Exit(p)   == ClientEnds(p) \/ Join(p) \/ DropHash(p) \/ DropPid(p)
Server(p) == SrvUnlink(p) \/ SrvBind(p) \/ SrvCheck(p) \/ SrvAccept(p) \/ SrvRemove(p)
Request(p) == ExecStop(p) \/ Respond(p)
Parent(p) == PollOk(p) \/ PollTimeout(p)

Next == \E p \in Procs :
  \/ Begin(p) \/ Cli(p) \/ Exit(p) \/ Server(p) \/ Request(p) \/ Parent(p)
  \/ AcceptFails(p) \/ Crash(p) \/ Signal(p)

Spec == Init /\ [][Next]_vars

(***************************************************************************)
(* Commands and servers run.  The client of an agent that was told to stop  *)
(* is not assumed to return.                                               *)
(***************************************************************************)
Fairness == \A p \in Procs : WF_vars(Cli(p)) /\ WF_vars(Server(p))
                             /\ WF_vars(Request(p)) /\ WF_vars(Parent(p))

FairSpec == Spec /\ Fairness

(***************************************************************************)
(* Properties                                                              *)
(***************************************************************************)
TypeOK ==
  /\ cmd \in [Procs -> {None, "start", "stop"}] /\ hash \in [Procs -> Hashes \cup {None}]
  /\ at \in [Procs -> CliSteps \cup AgentSteps \cup {"new", "exited", "dead"}]
  /\ srv \in [Procs -> {"none", "unlink", "bind", "check", "accept", "remove", "gone"}]
  /\ flag \in [Procs -> BOOLEAN] /\ other \in [Procs -> Procs \cup {NoProc}]
  /\ conv \in [Procs -> {"none", "queued", "accepted", "flagged"}]
  /\ said \in [Procs -> Verdicts \cup {"nothing"}]
  /\ parent \in [Procs -> {"none", "poll", "started", "failed"}]
  /\ {pid_file, sock_file} \subseteq Procs \cup {NoProc}
  /\ hash_file \in Hashes \cup {None} /\ faults \subseteq Procs
  /\ \A p \in Procs : at[p] \in AgentSteps => cmd[p] = "start"

\* An agent that was not told to stop.
Active(p) == at[p] \in {"write_pid", "write_hash", "client"} /\ ~flag[p]
Broken(p) == at[p] = "client" /\ srv[p] = "gone"

\* However agents end, linger or crash, and whatever they leave behind, there
\* is one agent at a time that means to stay connected, except for one that
\* has lost its server and that no command can find.
OneAgent ==
  \A p, q \in Procs : Active(p) /\ Active(q) => p = q \/ Broken(p) \/ Broken(q)

\* When "stop" reports success, no agent is left but such as are ending,
\* again except for one that has lost its server.
StopTruth ==
  \A p \in Procs :
    /\ cmd[p] = "stop" /\ said[p] \in {"NotRunning", "Stopped", "ForceKilled"}
    /\ \A q \in Procs : q > p => at[q] = "new"
    => \A q \in Procs : Active(q) => Broken(q)

\* The socket file of a server that accepts connections is there and is its
\* own: no other agent's exit, and no forced kill of another, removes it.
Reachable ==
  \A p \in Procs : Alive(p) /\ srv[p] \in {"check", "accept"} => sock_file = p

\* The agent that answers when "start" reports already_started is one with
\* the configuration it was given, though socket and hash are read apart.
AlreadyTruth ==
  \A p \in Procs : said[p] = "already_started" => hash[other[p]] = hash[p]

\* No file that an earlier agent left behind, in whatever way it ended, keeps
\* a new one from becoming ready.
ReadyUnlessFault ==
  \A p \in Procs : parent[p] = "failed" => p \in faults

\* Every command ends, also when the agent it asked crashes or lingers.
CommandsEnd == \A p \in Procs : InProgress(p) ~> ~InProgress(p)

(***************************************************************************)
(* What cli/start.rs says of preflight: "If the Device Agent is already      *)
(* running, compare the credhash to check whether to restart or not."        *)
(***************************************************************************)
KeptIfSame ==
  \A p, q \in Procs :
    cmd[p] = "start" /\ at[p] = "t_sock" /\ hash[q] = hash[p] =>
      ~(Active(q) /\ Listening(q) /\ parent[q] = "started")
=============================================================================
