------------------------ MODULE AgentLifecycle_proofs ------------------------
(***************************************************************************)
(* The safety properties of AgentLifecycle for any number of commands, of     *)
(* configurations and of faults.                                           *)
(*                                                                         *)
(* The files are written by whoever comes along, and removed by processes     *)
(* that do not know who wrote them.  What makes them tell the truth is when   *)
(* each may do so: the invariant says for each point of a command which       *)
(* agents may still have a server then.                                     *)
(***************************************************************************)
EXTENDS AgentLifecycle, TLAPS

(***************************************************************************)
(* The inductive invariant                                                 *)
(***************************************************************************)
Binding(q) == Alive(q) /\ srv[q] \in {"unlink", "bind"}
Bound(q)   == Alive(q) /\ srv[q] \in {"check", "accept", "remove"}
NoServerBut(p) == \A q \in Procs : q # p => ~Binding(q) /\ ~Bound(q)
NoServer       == \A q \in Procs : ~Binding(q) /\ ~Bound(q)

Starting  == {"write_pid", "write_hash"}
Ending    == {"join", "drop_hash", "drop_pid"}
KillSteps == {"k_read", "k_kill", "k_sock", "k_pid", "k_hash"}
Preflight == {"p_sock", "p_hash", "p_connect", "p_read"}

\* One command is given at a time.
Turns ==
  \A p \in Procs :
    /\ at[p] \in CliSteps \cup {"new"} => said[p] = "nothing"
    /\ at[p] = "new" \/ InProgress(p) => \A q \in Procs : q > p => at[q] = "new"

\* The threads of a process go together.
Threads ==
  \A p \in Procs :
    /\ at[p] \in CliSteps \cup {"new"} => srv[p] = "none" /\ parent[p] = "none"
    /\ at[p] \in Starting => srv[p] = "none"
    /\ at[p] \in Preflight => hash[p] \in Hashes
    /\ srv[p] = "none" => ~flag[p] /\ at[p] \notin {"client"} \cup Ending
    /\ srv[p] = "remove" \/ at[p] \in Ending => flag[p]

\* A server that was bound has its file; one that is going to bind finds none.
Sockets ==
  \A p \in Procs :
    /\ Bound(p) => sock_file = p
    /\ Alive(p) /\ srv[p] = "bind" => sock_file = NoProc

\* While an agent starts, its parent polls, and no other has a server.
Starts ==
  \A p \in Procs :
    /\ Binding(p) \/ at[p] \in Starting => parent[p] = "poll"
    /\ parent[p] = "poll" => NoServerBut(p)

\* While a command stops an agent, no other has a server, and none at all
\* when it comes to a kill.
Stops ==
  \A p \in Procs :
    /\ at[p] = "t_reply" =>
         /\ other[p] # NoProc /\ srv[other[p]] # "none"
         /\ \A q \in Procs : Bound(q) => q = other[p]
         /\ conv[p] = "flagged" => flag[other[p]]
    /\ at[p] = "t_wait" => \A q \in Procs : Bound(q) => flag[q]
    /\ at[p] \in KillSteps => NoServer

\* The hash file is that of the agent that has a server, or is gone.
HashOf(q) == q # NoProc /\ at[q] # "new" /\ hash_file \in {None, hash[q]}
Configured ==
  \A p \in Procs :
    /\ Binding(p) \/ Bound(p) => hash_file \in {None, hash[p]}
    /\ at[p] = "p_read" => HashOf(other[p])
    /\ said[p] = "already_started" =>
         other[p] # NoProc /\ at[other[p]] # "new" /\ hash[other[p]] = hash[p]

\* An agent that does not become ready met a fault.
Readiness ==
  \A p \in Procs :
    /\ parent[p] = "poll" /\ (~Alive(p) \/ flag[p] \/ srv[p] = "gone") => p \in faults
    /\ parent[p] = "failed" => p \in faults

IInv == /\ TypeOK /\ Turns /\ Threads /\ Sockets /\ Starts /\ Stops
        /\ Configured /\ Readiness /\ StopTruth

LEMMA Bounds == MaxProcs \in Nat /\ None \notin Hashes
  BY LifecycleAssumption DEF LifecycleAssumption

\* The step p makes, and the one that is made of it.
Step(p) ==
  \/ Begin(p) \/ Cli(p) \/ Exit(p) \/ Server(p) \/ Request(p) \/ Parent(p)
  \/ AcceptFails(p) \/ Crash(p) \/ Signal(p)

(***************************************************************************)
(* Types                                                                   *)
(***************************************************************************)
LEMMA InitType == Init => TypeOK
  BY DEF Init, TypeOK, Procs, NoProc, CliSteps, AgentSteps, Verdicts

LEMMA VerdictType ==
  ASSUME TypeOK, NEW p \in Procs, NEW v \in Verdicts, Verdict(p, v)
  PROVE  /\ at' \in [Procs -> CliSteps \cup AgentSteps \cup {"new", "exited", "dead"}]
         /\ said' \in [Procs -> Verdicts \cup {"nothing"}]
         /\ parent' \in [Procs -> {"none", "poll", "started", "failed"}]
         /\ \A q \in Procs : at'[q] \in AgentSteps => cmd[q] = "start"
<1>1. said' \in [Procs -> Verdicts \cup {"nothing"}]
  BY DEF Verdict, TypeOK
<1>2. CASE cmd[p] = "start"
  BY <1>1, <1>2 DEF Verdict, Goto, TypeOK, AgentSteps
<1>3. CASE cmd[p] # "start"
  BY <1>1, <1>3 DEF Verdict, Goto, TypeOK, AgentSteps, CliSteps
<1> QED BY <1>2, <1>3

\* A command that goes on.
LEMMA GotoType ==
  ASSUME TypeOK, NEW p \in Procs, NEW x \in CliSteps \cup {"exited", "dead"}, Goto(p, x)
  PROVE  /\ at' \in [Procs -> CliSteps \cup AgentSteps \cup {"new", "exited", "dead"}]
         /\ \A q \in Procs : at'[q] \in AgentSteps => cmd[q] = "start"
  BY DEF Goto, TypeOK, CliSteps, AgentSteps

LEMMA CliType ==
  ASSUME TypeOK, NEW p \in Procs, Cli(p)
  PROVE  TypeOK'
<1> USE DEF cliUnchanged, agentUnchanged, files
<1>v. {"NotRunning", "Stopped", "ForceKilled", "Failed", "already_started"} \subseteq Verdicts
  BY DEF Verdicts
<1>1. CASE PreflightFiles(p)
  <2>1. PICK x \in CliSteps : Goto(p, x)
    BY <1>1 DEF PreflightFiles, Test, CliSteps
  <2> QED BY <1>1, <2>1, GotoType DEF PreflightFiles, TypeOK
<1>2. CASE PreflightConnect(p)
  <2>1. PICK x \in CliSteps : Goto(p, x)
    BY <1>2 DEF PreflightConnect, Test, CliSteps
  <2> QED BY <1>2, <2>1, GotoType DEF PreflightConnect, TypeOK
<1>3. CASE PreflightRead(p)
  <2>1. PICK x \in CliSteps \cup {"exited"} : Goto(p, x)
    BY <1>3 DEF PreflightRead, Test, CliSteps
  <2>2. said' \in [Procs -> Verdicts \cup {"nothing"}]
    BY <1>3, <1>v DEF PreflightRead, TypeOK
  <2> QED BY <1>3, <2>1, <2>2, GotoType DEF PreflightRead, TypeOK
<1>4. CASE TerminateLook(p)
  <2>1. CASE Verdict(p, "NotRunning")
    BY <1>4, <1>v, <2>1, VerdictType DEF TerminateLook, TypeOK
  <2>2. CASE Goto(p, "t_connect") /\ UNCHANGED <<said, parent>>
    <3>1. "t_connect" \in CliSteps
      BY DEF CliSteps
    <3> QED BY <1>4, <2>2, <3>1, GotoType DEF TerminateLook, TypeOK
  <2> QED BY <1>4, <2>1, <2>2 DEF TerminateLook
<1>5. CASE TerminateConnect(p)
  <2>1. PICK x \in CliSteps : Goto(p, x)
    BY <1>5 DEF TerminateConnect, CliSteps
  <2>2. /\ conv' \in [Procs -> {"none", "queued", "accepted", "flagged"}]
        /\ other' \in [Procs -> Procs \cup {NoProc}]
    BY <1>5 DEF TerminateConnect, TypeOK
  <2> QED BY <1>5, <2>1, <2>2, GotoType DEF TerminateConnect, TypeOK
<1>6. CASE NoAnswer(p)
  <2>1. "k_read" \in CliSteps
    BY DEF CliSteps
  <2> QED BY <1>6, <2>1, GotoType DEF NoAnswer, TypeOK
<1>7. CASE Cleared(p)
  BY <1>7, <1>v, VerdictType DEF Cleared, TypeOK
<1>8. CASE WaitTimeout(p)
  <2>1. "k_read" \in CliSteps
    BY DEF CliSteps
  <2> QED BY <1>8, <2>1, GotoType DEF WaitTimeout, TypeOK
<1>9. CASE ReadPid(p)
  <2>1. CASE Verdict(p, "Failed") /\ UNCHANGED other
    BY <1>9, <1>v, <2>1, VerdictType DEF ReadPid, TypeOK
  <2>2. CASE Goto(p, "k_kill") /\ UNCHANGED <<said, parent>> /\ other' = [other EXCEPT ![p] = pid_file]
    <3>1. "k_kill" \in CliSteps
      BY DEF CliSteps
    <3>2. other' \in [Procs -> Procs \cup {NoProc}]
      BY <2>2 DEF TypeOK
    <3> QED BY <1>9, <2>2, <3>1, <3>2, GotoType DEF ReadPid, TypeOK
  <2> QED BY <1>9, <2>1, <2>2 DEF ReadPid
<1>10. CASE KillPid(p)
  <2>1. CASE Verdict(p, "Failed")
    BY <1>10, <1>v, <2>1, VerdictType DEF KillPid, TypeOK
  <2>2. CASE /\ at' = [at EXCEPT ![p] = "k_sock", ![other[p]] = "dead"]
             /\ UNCHANGED <<said, parent>>
    BY <1>10, <2>2 DEF KillPid, TypeOK, CliSteps, AgentSteps
  <2> QED BY <1>10, <2>1, <2>2 DEF KillPid
<1>11. CASE RemoveFiles(p)
  <2>1. CASE Verdict(p, "ForceKilled")
    BY <1>11, <1>v, <2>1, VerdictType DEF RemoveFiles, TypeOK
  <2>2. ASSUME NEW x \in CliSteps, Goto(p, x), UNCHANGED <<said, parent>>
        PROVE  TypeOK'
    BY <1>11, <2>2, GotoType DEF RemoveFiles, TypeOK
  <2> QED BY <1>11, <2>1, <2>2 DEF RemoveFiles, CliSteps
<1>12. CASE WritePid(p) \/ WriteHash(p)
  BY <1>12 DEF WritePid, WriteHash, Goto, TypeOK, AgentSteps, CliSteps
<1> QED BY <1>1, <1>2, <1>3, <1>4, <1>5, <1>6, <1>7, <1>8, <1>9, <1>10, <1>11, <1>12
        DEF Cli

LEMMA NextType == TypeOK /\ [Next]_vars => TypeOK'
<1> SUFFICES ASSUME TypeOK, [Next]_vars PROVE TypeOK'
  OBVIOUS
<1> USE DEF files, procs
<1>1. CASE UNCHANGED vars
  BY <1>1 DEF vars, TypeOK
<1>2. ASSUME NEW p \in Procs, Step(p) PROVE TypeOK'
  <2>1. CASE Begin(p)
    <3>1. PICK x \in CliSteps : Goto(p, x)
      BY <2>1 DEF Begin, CliSteps
    <3>2. /\ cmd' \in [Procs -> {None, "start", "stop"}]
          /\ hash' \in [Procs -> Hashes \cup {None}]
      BY <2>1 DEF Begin, TypeOK
    <3>3. at' = [at EXCEPT ![p] = x] /\ x \notin AgentSteps
      BY <3>1 DEF Goto, CliSteps, AgentSteps
    <3>4. \A q \in Procs : q # p => cmd'[q] = cmd[q]
      BY <2>1 DEF Begin, TypeOK
    <3> QED BY <2>1, <3>2, <3>3, <3>4 DEF Begin, TypeOK
  <2>2. CASE Cli(p)
    BY <2>2, CliType
  <2>3. CASE Exit(p)
    BY <2>3 DEF Exit, ClientEnds, Join, DropHash, DropPid, Goto, agentUnchanged,
                TypeOK, AgentSteps, CliSteps
  <2>4. CASE Server(p)
    <3>1. CASE SrvAccept(p)
      <4>1. conv' \in [Procs -> {"none", "queued", "accepted", "flagged"}]
        BY <3>1 DEF SrvAccept, Queued, TypeOK
      <4> QED BY <3>1, <4>1 DEF SrvAccept, Serve, serverUnchanged, TypeOK
    <3>2. CASE SrvUnlink(p)
      BY <3>2 DEF SrvUnlink, Serve, serverUnchanged, TypeOK
    <3>3. CASE SrvBind(p)
      BY <3>3 DEF SrvBind, Serve, serverUnchanged, TypeOK
    <3>4. CASE SrvCheck(p) \/ SrvRemove(p)
      BY <3>4 DEF SrvCheck, SrvRemove, Serve, serverUnchanged, TypeOK
    <3> QED BY <2>4, <3>1, <3>2, <3>3, <3>4 DEF Server
  <2>5. CASE Request(p)
    <3>1. CASE ExecStop(p)
      BY <3>1 DEF ExecStop, serverUnchanged, TypeOK
    <3>2. CASE Respond(p)
      BY <3>2, GotoType DEF Respond, TypeOK, CliSteps
    <3> QED BY <2>5, <3>1, <3>2 DEF Request
  <2>6. CASE Parent(p)
    BY <2>6 DEF Parent, PollOk, PollTimeout, Goto, parentUnchanged, TypeOK, AgentSteps
  <2>7. CASE AcceptFails(p)
    BY <2>7 DEF AcceptFails, Fault, Serve, serverUnchanged, TypeOK
  <2>8. CASE Crash(p)
    BY <2>8 DEF Crash, Fault, Goto, TypeOK, AgentSteps
  <2>9. CASE Signal(p)
    BY <2>9 DEF Signal, Fault, TypeOK
  <2> QED BY <1>2, <2>1, <2>2, <2>3, <2>4, <2>5, <2>6, <2>7, <2>8, <2>9 DEF Step
<1> QED BY <1>1, <1>2 DEF Next, Step

(***************************************************************************)
(* What may be going on while a command is in progress                     *)
(***************************************************************************)
LEMMA OneInProgress ==
  ASSUME IInv, NEW p \in Procs, NEW q \in Procs, InProgress(p), InProgress(q)
  PROVE  p = q
<1>1. \A r \in Procs : InProgress(r) => at[r] # "new"
  BY DEF IInv, Threads, InProgress, CliSteps
<1>2. p > q \/ q > p \/ p = q
  BY Bounds DEF Procs
<1> QED BY <1>1, <1>2 DEF IInv, Turns

LEMMA NoneStarts ==
  ASSUME IInv, NEW p \in Procs, at[p] \in CliSteps
  PROVE  \A q \in Procs : ~Binding(q) /\ at[q] \notin Starting /\ parent[q] # "poll"
<1> SUFFICES ASSUME NEW q \in Procs PROVE parent[q] # "poll"
  BY DEF IInv, Starts
<1>1. parent[q] = "poll" => q = p
  BY OneInProgress DEF InProgress
<1> QED BY <1>1 DEF IInv, Threads

\* Without a socket file there is no server.
LEMMA NoSocket ==
  ASSUME IInv, NEW p \in Procs, at[p] \in CliSteps, sock_file = NoProc
  PROVE  NoServer
  BY NoneStarts, Bounds DEF IInv, Sockets, NoServer, NoProc, Procs

(***************************************************************************)
(* The step of a command: it starts an agent only when there is no server,  *)
(* and reports success only then.  It may kill another process, and removes  *)
(* the socket file only when no server needs it.                            *)
(***************************************************************************)
MovesOn(p) ==
  /\ at'[p] \in CliSteps \cup {"exited", "dead"} /\ UNCHANGED parent
  /\ said'[p] \in {said[p], "already_started", "Failed"} \/ NoServer
  /\ at'[p] \in CliSteps => said'[p] = said[p]
Launches(p) ==
  /\ at'[p] = "write_pid" /\ parent' = [parent EXCEPT ![p] = "poll"]
  /\ cmd[p] = "start" /\ NoServer

Commands(p) ==
  /\ at[p] \in CliSteps /\ (at'[p] \in Preflight => at[p] \in Preflight)
  /\ UNCHANGED <<cmd, hash, srv, flag, faults>>
  /\ MovesOn(p) \/ Launches(p)
  /\ \A q \in Procs : q # p => at'[q] = at[q] \/ (Alive(q) /\ at'[q] = "dead")
  /\ \A q \in Procs : q # p => /\ said'[q] = said[q] /\ other'[q] = other[q]
                               /\ conv'[q] = conv[q]
  /\ sock_file' = sock_file \/ (sock_file' = NoProc /\ NoServer)
  /\ hash_file' \in {hash_file, None}

Command(p) == Cli(p) /\ ~WritePid(p) /\ ~WriteHash(p)

LEMMA VerdictCommands ==
  ASSUME IInv, NEW p \in Procs, at[p] \in CliSteps, NEW v, Verdict(p, v),
         NoServer, UNCHANGED <<cmd, hash, srv, flag, faults, other, conv>>,
         sock_file' = sock_file, hash_file' \in {hash_file, None}
  PROVE  Commands(p)
<1>1. CASE cmd[p] = "start"
  <2>1. Launches(p)
    BY <1>1 DEF Verdict, Goto, Launches, IInv, TypeOK
  <2> QED BY <1>1, <2>1 DEF Commands, Verdict, Goto, Preflight, IInv, TypeOK
<1>2. CASE cmd[p] # "start"
  <2>1. MovesOn(p)
    BY <1>2 DEF Verdict, Goto, MovesOn, CliSteps, IInv, TypeOK
  <2> QED BY <1>2, <2>1 DEF Commands, Verdict, Goto, Preflight, IInv, TypeOK
<1> QED BY <1>1, <1>2

LEMMA GotoCommands ==
  ASSUME IInv, NEW p \in Procs, at[p] \in CliSteps, NEW x \in CliSteps, Goto(p, x),
         x \in Preflight => at[p] \in Preflight,
         UNCHANGED <<cmd, hash, srv, flag, faults, parent, said>>,
         \A q \in Procs : q # p => other'[q] = other[q] /\ conv'[q] = conv[q],
         sock_file' = sock_file \/ (sock_file' = NoProc /\ NoServer),
         hash_file' = hash_file
  PROVE  Commands(p)
<1>1. MovesOn(p)
  BY DEF Goto, MovesOn, IInv, TypeOK
<1> QED BY <1>1 DEF Commands, Goto, IInv, TypeOK

LEMMA CommandStep ==
  ASSUME IInv, NEW p \in Procs, Command(p)
  PROVE  Commands(p)
<1> USE DEF cliUnchanged, files
<1>p. {"t_connect", "t_sock", "t_reply", "k_read", "k_kill", "k_pid", "k_hash"}
         \cap Preflight = {}
  BY DEF Preflight
<1>t. TypeOK
  BY DEF IInv
<1>s. at[p] \in CliSteps
  BY DEF Command, Cli, PreflightFiles, PreflightConnect, PreflightRead, Test, TerminateLook,
         TerminateConnect, NoAnswer, Cleared, WaitTimeout, ReadPid, KillPid, RemoveFiles, CliSteps
<1>1. CASE PreflightFiles(p)
  <2>1. PICK x \in CliSteps : Goto(p, x) /\ at[p] \in Preflight
    BY <1>1 DEF PreflightFiles, Test, CliSteps, Preflight
  <2> QED BY <1>1, <1>s, <2>1, GotoCommands DEF PreflightFiles
<1>2. CASE PreflightConnect(p)
  <2>1. PICK x \in CliSteps : Goto(p, x) /\ at[p] \in Preflight
    BY <1>2 DEF PreflightConnect, Test, CliSteps, Preflight
  <2>2. \A q \in Procs : q # p => other'[q] = other[q]
    BY <1>2, <1>t DEF PreflightConnect, TypeOK
  <2> QED BY <1>2, <1>s, <2>1, <2>2, GotoCommands DEF PreflightConnect
<1>3. CASE PreflightRead(p)
  <2>1. at'[p] \in CliSteps \cup {"exited"}
    BY <1>3, <1>t DEF PreflightRead, Test, Goto, TypeOK, CliSteps
  <2>2. MovesOn(p)
    <3>1. CASE hash_file = hash[p]
      BY <1>3, <1>t, <3>1 DEF PreflightRead, Test, Goto, MovesOn, CliSteps, TypeOK
    <3>2. CASE hash_file # hash[p]
      BY <1>3, <1>t, <2>1, <3>2 DEF PreflightRead, MovesOn, TypeOK
    <3> QED BY <3>1, <3>2
  <2> QED BY <1>3, <1>s, <1>t, <2>2 DEF PreflightRead, Test, Goto, Commands, Preflight, TypeOK
<1>4. CASE TerminateLook(p)
  <2>1. CASE Verdict(p, "NotRunning") /\ sock_file = NoProc
    BY <1>4, <1>s, <2>1, NoSocket, VerdictCommands DEF TerminateLook
  <2>2. CASE Goto(p, "t_connect") /\ UNCHANGED <<said, parent>>
    BY <1>4, <1>p, <1>s, <2>2, GotoCommands DEF TerminateLook, CliSteps
  <2> QED BY <1>4, <2>1, <2>2 DEF TerminateLook
<1>5. CASE TerminateConnect(p)
  <2>1. PICK x \in CliSteps \ Preflight : Goto(p, x)
    BY <1>5, <1>p DEF TerminateConnect, CliSteps
  <2>2. \A q \in Procs : q # p => other'[q] = other[q] /\ conv'[q] = conv[q]
    BY <1>5, <1>t DEF TerminateConnect, TypeOK
  <2> QED BY <1>5, <1>s, <2>1, <2>2, GotoCommands DEF TerminateConnect
<1>6. CASE NoAnswer(p)
  <2>1. \A q \in Procs : q # p => conv'[q] = conv[q]
    BY <1>6, <1>t DEF NoAnswer, TypeOK
  <2> QED BY <1>6, <1>p, <1>s, <2>1, GotoCommands DEF NoAnswer, CliSteps
<1>7. CASE Cleared(p)
  BY <1>7, <1>s, NoSocket, VerdictCommands DEF Cleared
<1>8. CASE WaitTimeout(p)
  BY <1>8, <1>p, <1>s, GotoCommands DEF WaitTimeout, CliSteps
<1>9. ASSUME at[p] \in KillSteps PROVE NoServer
  BY <1>9 DEF IInv, Stops
<1>10. CASE ReadPid(p)
  <2>1. CASE Verdict(p, "Failed") /\ UNCHANGED other
    BY <1>10, <1>s, <1>9, <2>1, VerdictCommands DEF ReadPid, KillSteps
  <2>2. CASE Goto(p, "k_kill") /\ UNCHANGED <<said, parent>> /\ other' = [other EXCEPT ![p] = pid_file]
    <3>1. \A q \in Procs : q # p => other'[q] = other[q]
      BY <2>2, <1>t DEF TypeOK
    <3> QED BY <1>10, <1>p, <1>s, <2>2, <3>1, GotoCommands DEF ReadPid, CliSteps
  <2> QED BY <1>10, <2>1, <2>2 DEF ReadPid
<1>11. CASE KillPid(p)
  <2>1. CASE Verdict(p, "Failed")
    BY <1>11, <1>s, <1>9, <2>1, VerdictCommands DEF KillPid, KillSteps
  <2>2. CASE /\ Alive(other[p]) /\ at' = [at EXCEPT ![p] = "k_sock", ![other[p]] = "dead"]
             /\ UNCHANGED <<said, parent>>
    <3>1. MovesOn(p)
      BY <1>t, <2>2 DEF MovesOn, TypeOK, CliSteps
    <3>2. \A q \in Procs : q # p => at'[q] = at[q] \/ (Alive(q) /\ at'[q] = "dead")
      BY <1>t, <2>2 DEF TypeOK
    <3>3. at'[p] \notin Preflight
      BY <1>t, <2>2 DEF TypeOK, Preflight
    <3> QED BY <1>11, <1>s, <2>2, <3>1, <3>2, <3>3 DEF KillPid, Commands
  <2> QED BY <1>11, <2>1, <2>2 DEF KillPid
<1>12. CASE RemoveFiles(p)
  <2>1. CASE Verdict(p, "ForceKilled") /\ at[p] = "k_hash"
    BY <1>12, <1>s, <1>9, <2>1, VerdictCommands DEF RemoveFiles, KillSteps
  <2>2. ASSUME at[p] # "k_hash" PROVE Commands(p)
    BY <1>12, <1>p, <1>s, <1>9, <2>2, GotoCommands DEF RemoveFiles, CliSteps, KillSteps
  <2> QED BY <1>12, <2>1, <2>2 DEF RemoveFiles
<1> QED BY <1>1, <1>2, <1>3, <1>4, <1>5, <1>6, <1>7, <1>8, <1>10, <1>11, <1>12
        DEF Command, Cli

(***************************************************************************)
(* The other steps, of agents, their servers and their parents             *)
(***************************************************************************)
Lives(p) ==
  \/ WritePid(p) \/ WriteHash(p)
  \/ ClientEnds(p) \/ Join(p) \/ DropHash(p) \/ DropPid(p)
Serves(p) ==
  \/ SrvUnlink(p) \/ SrvBind(p) \/ SrvCheck(p) \/ SrvAccept(p) \/ SrvRemove(p)
  \/ AcceptFails(p)
Watches(p) == PollOk(p) \/ PollTimeout(p) \/ Crash(p) \/ Signal(p)

LEMMA StepKinds ==
  ASSUME NEW p \in Procs, Step(p)
  PROVE  \/ Begin(p) \/ Command(p) \/ Lives(p) \/ Serves(p)
         \/ ExecStop(p) \/ Respond(p) \/ Watches(p)
  BY DEF Step, Command, Cli, Exit, Server, Request, Parent, Lives, Serves, Watches

LEMMA TurnsStep ==
  ASSUME IInv, NEW p \in Procs, Step(p)
  PROVE  Turns'
<1> USE Bounds DEF IInv, Turns, Threads, InProgress, Procs
<1>1. CASE Begin(p)
  BY <1>1 DEF Begin, Goto, TypeOK, CliSteps, AgentSteps
<1>2. CASE Command(p)
  <2>1. Commands(p)
    BY <1>2, CommandStep
  <2>2. ASSUME NEW q \in Procs
        PROVE  /\ at'[q] = "new" <=> at[q] = "new"
               /\ at'[q] \in CliSteps \cup {"new"} =>
                    at[q] \in CliSteps \cup {"new"} /\ said'[q] = said[q]
               /\ InProgress(q)' => InProgress(q)
    BY <2>1 DEF Commands, MovesOn, Launches, Alive, TypeOK, CliSteps, AgentSteps
  <2> QED BY <2>2
<1>3. CASE Lives(p)
  BY <1>3 DEF Lives, WritePid, WriteHash, ClientEnds, Join, DropHash, DropPid, Goto,
              agentUnchanged, TypeOK, CliSteps
<1>4. CASE Serves(p)
  BY <1>4 DEF Serves, SrvUnlink, SrvBind, SrvCheck, SrvAccept, SrvRemove, AcceptFails,
              serverUnchanged
<1>5. CASE ExecStop(p) \/ Respond(p)
  BY <1>5 DEF ExecStop, Respond, Goto, serverUnchanged, TypeOK, CliSteps
<1>6. CASE Watches(p)
  BY <1>6 DEF Watches, PollOk, PollTimeout, Crash, Signal, Goto, Alive, parentUnchanged,
              TypeOK, CliSteps, AgentSteps
<1> QED BY <1>1, <1>2, <1>3, <1>4, <1>5, <1>6, StepKinds

LEMMA ThreadsStep ==
  ASSUME IInv, NEW p \in Procs, Step(p)
  PROVE  Threads'
<1> USE DEF IInv, Threads, Starting, Ending, Preflight, CliSteps, AgentSteps
<1>1. CASE Begin(p)
  BY <1>1 DEF Begin, Goto, TypeOK
<1>2. CASE Command(p)
  <2>1. Commands(p)
    BY <1>2, CommandStep
  <2> QED BY <2>1 DEF Commands, MovesOn, Launches, Alive, TypeOK
<1>3. CASE Lives(p)
  BY <1>3 DEF Lives, WritePid, WriteHash, ClientEnds, Join, DropHash, DropPid, Goto,
              agentUnchanged, TypeOK
<1>4. CASE Serves(p)
  BY <1>4 DEF Serves, SrvUnlink, SrvBind, SrvCheck, SrvAccept, SrvRemove, AcceptFails,
              Serve, Alive, serverUnchanged, TypeOK
<1>5. CASE ExecStop(p)
  BY <1>5 DEF ExecStop, Stops, serverUnchanged, TypeOK
<1>6. CASE Respond(p)
  BY <1>6 DEF Respond, Goto, TypeOK
<1>7. CASE Watches(p)
  BY <1>7 DEF Watches, PollOk, PollTimeout, Crash, Signal, Goto, Alive, parentUnchanged, TypeOK
<1> QED BY <1>1, <1>2, <1>3, <1>4, <1>5, <1>6, <1>7, StepKinds

\* Only an agent starts or binds a server.
LEMMA NoNewServer ==
  ASSUME IInv, NEW p \in Procs,
         Begin(p) \/ Command(p) \/ ExecStop(p) \/ Respond(p) \/ Watches(p)
  PROVE  \A q \in Procs : (Binding(q)' => Binding(q)) /\ (Bound(q)' => Bound(q))
<1> SUFFICES ASSUME NEW q \in Procs PROVE srv' = srv /\ (Alive(q)' => Alive(q) \/ srv[q] = "none")
  BY DEF Binding, Bound
<1> USE DEF IInv, Threads, Alive, CliSteps, AgentSteps
<1>1. CASE Begin(p)
  BY <1>1 DEF Begin, Goto, TypeOK
<1>2. CASE Command(p)
  <2>1. Commands(p)
    BY <1>2, CommandStep
  <2> QED BY <2>1 DEF Commands, MovesOn, Launches
<1>3. CASE ExecStop(p)
  BY <1>3 DEF ExecStop, serverUnchanged
<1>4. CASE Respond(p)
  BY <1>4 DEF Respond, Goto, TypeOK
<1>5. CASE Watches(p)
  BY <1>5 DEF Watches, PollOk, PollTimeout, Crash, Signal, Goto, parentUnchanged, TypeOK
<1> QED BY <1>1, <1>2, <1>3, <1>4, <1>5

LEMMA SocketsStep ==
  ASSUME IInv, NEW p \in Procs, Step(p)
  PROVE  Sockets'
<1> USE DEF IInv, Sockets, Bound, Binding
<1>1. CASE Command(p)
  <2>1. Commands(p)
    BY <1>1, CommandStep
  <2>2. \A q \in Procs : (Binding(q)' => Binding(q)) /\ (Bound(q)' => Bound(q))
    BY <1>1, NoNewServer
  <2> QED BY <2>1, <2>2 DEF Commands, NoServer
<1>2. CASE Begin(p) \/ ExecStop(p) \/ Respond(p) \/ Watches(p)
  <2>1. \A q \in Procs : (Binding(q)' => Binding(q)) /\ (Bound(q)' => Bound(q))
    BY <1>2, NoNewServer
  <2>2. sock_file' = sock_file
    BY <1>2 DEF Begin, ExecStop, Respond, Watches, PollOk, PollTimeout, Crash, Signal,
                serverUnchanged, parentUnchanged, files
  <2>3. srv' = srv
    BY <1>2 DEF Begin, ExecStop, Respond, Watches, PollOk, PollTimeout, Crash, Signal,
                serverUnchanged, parentUnchanged
  <2> QED BY <2>1, <2>2, <2>3
<1>3. CASE Lives(p)
  BY <1>3 DEF Lives, WritePid, WriteHash, ClientEnds, Join, DropHash, DropPid, Goto, Alive,
              Threads, agentUnchanged, files, TypeOK, AgentSteps, CliSteps
<1>4. CASE SrvUnlink(p) \/ SrvBind(p)
  BY <1>4 DEF SrvUnlink, SrvBind, Serve, Alive, Starts, NoServerBut, serverUnchanged, TypeOK
<1>5. CASE SrvCheck(p) \/ SrvAccept(p) \/ SrvRemove(p) \/ AcceptFails(p)
  BY <1>5, Bounds DEF SrvCheck, SrvAccept, SrvRemove, AcceptFails, Serve, Alive, serverUnchanged,
                      TypeOK, NoProc, Procs
<1> QED BY <1>1, <1>2, <1>3, <1>4, <1>5, StepKinds DEF Serves

LEMMA StartsStep ==
  ASSUME IInv, NEW p \in Procs, Step(p)
  PROVE  Starts'
<1> USE DEF IInv, Starts, NoServerBut
<1>1. ASSUME Begin(p) \/ Command(p) \/ ExecStop(p) \/ Respond(p) \/ Watches(p)
      PROVE  \A q \in Procs : (Binding(q)' => Binding(q)) /\ (Bound(q)' => Bound(q))
  BY <1>1, NoNewServer
<1>2. CASE Begin(p)
  BY <1>1, <1>2 DEF Begin, Goto, Starting, TypeOK
<1>3. CASE Command(p)
  <2>1. Commands(p)
    BY <1>3, CommandStep
  <2>2. \A q \in Procs : ~Binding(q) /\ at[q] \notin Starting /\ parent[q] # "poll"
    BY <2>1, NoneStarts DEF Commands
  <2> QED BY <1>1, <1>3, <2>1, <2>2
          DEF Commands, MovesOn, Launches, NoServer, Starting, CliSteps, TypeOK
<1>4. CASE ExecStop(p) \/ Respond(p)
  <2>1. parent' = parent /\ (\A q \in Procs : at'[q] \in Starting => at[q] \in Starting)
    BY <1>4 DEF ExecStop, Respond, Goto, Starting, serverUnchanged, TypeOK
  <2> QED BY <1>1, <1>4, <2>1
<1>5. CASE Crash(p) \/ Signal(p)
  <2>1. parent' = parent /\ (\A q \in Procs : at'[q] \in Starting => at[q] \in Starting)
    BY <1>5 DEF Crash, Signal, Goto, Starting, TypeOK
  <2> QED BY <1>1, <1>5, <2>1 DEF Watches
<1>6. CASE PollTimeout(p)
  BY <1>1, <1>6 DEF Watches, PollTimeout, Goto, Starting, Binding, Alive, parentUnchanged, TypeOK
<1>7. CASE PollOk(p)
  <2>1. sock_file \in Procs /\ Bound(sock_file)
    BY <1>7 DEF PollOk, Listening, Bound, NoProc, TypeOK
  <2>2. sock_file = p
    BY <1>7, <2>1 DEF PollOk
  <2>3. ~Binding(p) /\ at[p] \notin Starting
    BY <2>1, <2>2 DEF Bound, Binding, Threads
  <2> QED BY <1>1, <1>7, <2>3 DEF Watches, PollOk, parentUnchanged, TypeOK, Binding, Alive
<1>8. CASE Lives(p)
  <2>1. CASE WriteHash(p)
    <3>1. parent[p] = "poll" /\ (\A q \in Procs : parent[q] = "poll" => q = p)
      BY <2>1, OneInProgress DEF WriteHash, Starting, InProgress
    <3> QED BY <2>1, <3>1 DEF WriteHash, Goto, Starting, Binding, Bound, Alive, agentUnchanged, TypeOK
  <2>2. CASE ~WriteHash(p)
    BY <1>8, <2>2 DEF Lives, WritePid, ClientEnds, Join, DropHash, DropPid, Goto,
                      Starting, Ending, Binding, Bound, Alive, agentUnchanged, TypeOK, AgentSteps
  <2> QED BY <2>1, <2>2
<1>9. CASE Serves(p)
  BY <1>9 DEF Serves, SrvUnlink, SrvBind, SrvCheck, SrvAccept, SrvRemove, AcceptFails, Serve,
              Binding, Bound, Alive, serverUnchanged, TypeOK
<1> QED BY <1>2, <1>3, <1>4, <1>5, <1>6, <1>7, <1>8, <1>9, StepKinds DEF Watches


\* What Stops says of one command.
StopsAt(c) ==
  /\ at[c] = "t_reply" =>
       /\ other[c] # NoProc /\ srv[other[c]] # "none"
       /\ \A q \in Procs : Bound(q) => q = other[c]
       /\ conv[c] = "flagged" => flag[other[c]]
  /\ at[c] = "t_wait" => \A q \in Procs : Bound(q) => flag[q]
  /\ at[c] \in KillSteps => NoServer

LEMMA StopsByCommand ==
  ASSUME IInv, NEW p \in Procs, Command(p)
  PROVE  StopsAt(p)'
<1> USE DEF IInv
<1>c. Commands(p)
  BY CommandStep
<1>s. at[p] \in CliSteps /\ (\A q \in Procs : ~Binding(q))
  BY <1>c, NoneStarts DEF Commands
<1>1. \A q \in Procs : (Binding(q)' => Binding(q)) /\ (Bound(q)' => Bound(q))
  BY NoNewServer
<1>2. NoServer => NoServer'
  BY <1>1 DEF NoServer
<1>3. at'[p] \in {"t_reply", "t_wait"} \cup KillSteps => at'[p] \in CliSteps
  BY DEF KillSteps, CliSteps
<1>4. CASE TerminateConnect(p)
  <2>1. CASE Listening(sock_file)
    <3>1. /\ at'[p] = "t_reply" /\ other'[p] = sock_file /\ conv'[p] = "queued" /\ srv' = srv
          /\ sock_file # NoProc /\ Bound(sock_file)
      BY <1>4, <2>1 DEF TerminateConnect, Goto, TypeOK, Listening, Bound
    <3>2. \A q \in Procs : Bound(q) => q = sock_file
      BY DEF Sockets
    <3> QED BY <1>1, <3>1, <3>2 DEF StopsAt, Bound, KillSteps
  <2>2. CASE ~Listening(sock_file)
    <3>1. NoServer
      BY <1>s, <2>2, Bounds DEF NoServer, Sockets, Listening, Bound, NoProc, Procs
    <3>2. at'[p] = "k_read"
      BY <1>4, <2>2 DEF TerminateConnect, Goto, TypeOK
    <3> QED BY <1>2, <3>1, <3>2 DEF StopsAt
  <2> QED BY <2>1, <2>2
<1>5. CASE NoAnswer(p)
  <2>1. NoServer
    BY <1>s, <1>5 DEF NoAnswer, NoServer, Stops, Listening, Bound
  <2>2. at'[p] = "k_read"
    BY <1>5 DEF NoAnswer, Goto, TypeOK
  <2> QED BY <1>2, <2>1, <2>2 DEF StopsAt
<1>6. CASE WaitTimeout(p)
  <2>1. NoServer
    BY <1>s, <1>6 DEF WaitTimeout, NoServer, Stops, Sockets, Listening, Bound
  <2>2. at'[p] = "k_read"
    BY <1>6 DEF WaitTimeout, Goto, TypeOK
  <2> QED BY <1>2, <2>1, <2>2 DEF StopsAt
<1>7. CASE ReadPid(p) \/ KillPid(p) \/ RemoveFiles(p)
  <2>1. NoServer
    BY <1>7 DEF ReadPid, KillPid, RemoveFiles, Stops, KillSteps
  <2>2. at'[p] \notin {"t_reply", "t_wait"}
    BY <1>7 DEF ReadPid, KillPid, RemoveFiles, Verdict, Goto, TypeOK
  <2> QED BY <1>2, <2>1, <2>2 DEF StopsAt
<1>8. CASE PreflightFiles(p) \/ PreflightConnect(p) \/ PreflightRead(p) \/ TerminateLook(p) \/ Cleared(p)
  <2>1. at'[p] \notin {"t_reply", "t_wait"} \cup KillSteps
    BY <1>8 DEF PreflightFiles, PreflightConnect, PreflightRead, TerminateLook, Cleared, Test,
                Verdict, Goto, KillSteps, TypeOK
  <2> QED BY <2>1 DEF StopsAt
<1> QED BY <1>4, <1>5, <1>6, <1>7, <1>8 DEF Command, Cli

LEMMA StopsStep ==
  ASSUME IInv, NEW p \in Procs, Step(p)
  PROVE  Stops'
<1> SUFFICES ASSUME NEW c \in Procs PROVE StopsAt(c)'
  BY DEF Stops, StopsAt
<1> USE DEF IInv
<1>1. ASSUME Begin(p) \/ Command(p) \/ ExecStop(p) \/ Respond(p) \/ Watches(p)
      PROVE  \A q \in Procs : (Binding(q)' => Binding(q)) /\ (Bound(q)' => Bound(q))
  BY <1>1, NoNewServer
<1>2. StopsAt(c)
  BY DEF Stops, StopsAt
<1>3. at[c] \in {"t_reply", "t_wait"} \cup KillSteps => at[c] \in CliSteps
  BY DEF KillSteps, CliSteps
<1>4. CASE Begin(p)
  BY <1>1, <1>2, <1>4 DEF Begin, Goto, StopsAt, KillSteps, NoServer, TypeOK
<1>5. CASE Command(p)
  <2>1. CASE c = p
    BY <1>5, <2>1, StopsByCommand
  <2>2. CASE c # p
    <3>1. Commands(p) /\ at[c] \notin CliSteps
      BY <1>5, <2>2, CommandStep, OneInProgress DEF Commands, InProgress
    <3>2. at'[c] \notin CliSteps
      BY <2>2, <3>1 DEF Commands, CliSteps
    <3> QED BY <3>2 DEF StopsAt, KillSteps, CliSteps
  <2> QED BY <2>1, <2>2
<1>6. CASE ExecStop(p)
  BY <1>1, <1>2, <1>6 DEF ExecStop, StopsAt, NoServer, serverUnchanged, TypeOK
<1>7. CASE Respond(p)
  BY <1>1, <1>2, <1>7 DEF Respond, Goto, StopsAt, NoServer, KillSteps, TypeOK
<1>8. CASE Watches(p)
  BY <1>1, <1>2, <1>8 DEF Watches, PollOk, PollTimeout, Crash, Signal, Goto, StopsAt, NoServer,
                          KillSteps, parentUnchanged, TypeOK
<1>9. CASE Lives(p) \/ Serves(p)
  <2>1. at'[c] \in CliSteps => at[c] \in CliSteps
    BY <1>9 DEF Lives, WritePid, WriteHash, ClientEnds, Join, DropHash, DropPid, Goto,
                Serves, SrvUnlink, SrvBind, SrvCheck, SrvAccept, SrvRemove, AcceptFails,
                serverUnchanged, CliSteps, TypeOK
  <2>2. SUFFICES ASSUME at[c] \in CliSteps PROVE StopsAt(c)'
    BY <2>1 DEF StopsAt, KillSteps, CliSteps
  <2>3. ~Binding(p) /\ at[p] \notin Starting
    BY <2>2, NoneStarts
  <2>4. CASE Lives(p)
    BY <1>2, <2>3, <2>4
    DEF Lives, WritePid, WriteHash, ClientEnds, Join, DropHash, DropPid, Goto, Starting,
        StopsAt, NoServer, Bound, Binding, Alive, KillSteps, agentUnchanged, TypeOK,
        AgentSteps, CliSteps
  <2>5. CASE Serves(p)
    BY <1>2, <2>3, <2>5
    DEF Serves, SrvUnlink, SrvBind, SrvCheck, SrvAccept, SrvRemove, AcceptFails, Serve, Queued,
        StopsAt, NoServer, Bound, Binding, Alive, KillSteps, serverUnchanged, TypeOK
  <2> QED BY <1>9, <2>4, <2>5
<1> QED BY <1>4, <1>5, <1>6, <1>7, <1>8, <1>9, StepKinds

LEMMA ConfiguredStep ==
  ASSUME IInv, NEW p \in Procs, Step(p)
  PROVE  Configured'
<1> USE DEF IInv, Configured, HashOf
<1>n. None \notin Hashes
  BY Bounds
<1>1. ASSUME Begin(p) \/ Command(p) \/ ExecStop(p) \/ Respond(p) \/ Watches(p)
      PROVE  \A q \in Procs : (Binding(q)' => Binding(q)) /\ (Bound(q)' => Bound(q))
  BY <1>1, NoNewServer
<1>2. CASE Begin(p)
  <2>1. \A q \in Procs : Binding(q) \/ Bound(q) => q # p
    BY <1>2 DEF Begin, Binding, Bound, Alive, CliSteps, AgentSteps
  <2>2. /\ at[p] = "new" /\ at'[p] \in {"p_sock", "t_sock"} /\ said' = said /\ said[p] = "nothing"
        /\ other' = other /\ hash_file' = hash_file
        /\ \A q \in Procs : q # p => at'[q] = at[q] /\ hash'[q] = hash[q]
    BY <1>2 DEF Begin, Goto, Turns, TypeOK, files
  <2>3. \A q \in Procs : other[q] \in Procs \cup {NoProc}
    BY DEF TypeOK
  <2> QED BY <1>1, <1>2, <2>1, <2>2, <2>3
<1>3. CASE Command(p)
  <2>1. Commands(p)
    BY <1>3, CommandStep
  <2>2. \A q \in Procs : other[q] # NoProc /\ at[other[q]] # "new" => at'[other[q]] # "new"
    BY <2>1 DEF Commands, MovesOn, Launches, CliSteps, TypeOK
  <2>3. ASSUME NEW q \in Procs
        PROVE  Binding(q)' \/ Bound(q)' => hash_file' \in {None, hash'[q]}
    BY <1>1, <1>3, <2>1 DEF Commands
  <2>4. ASSUME NEW q \in Procs, q # p
        PROVE  /\ at'[q] = "p_read" => HashOf(other[q])'
               /\ said'[q] = "already_started" =>
                    other'[q] # NoProc /\ at'[other'[q]] # "new" /\ hash'[other'[q]] = hash'[q]
    BY <2>1, <2>2, <2>4 DEF Commands
  <2>5. at'[p] = "p_read" => HashOf(other[p])'
    <3> SUFFICES ASSUME at'[p] = "p_read" PROVE HashOf(other[p])'
      OBVIOUS
    <3>1. PreflightConnect(p) /\ Listening(sock_file)
      BY <1>3 DEF Command, Cli, PreflightFiles, PreflightConnect, PreflightRead, Test, TerminateLook,
           TerminateConnect, NoAnswer, Cleared, WaitTimeout, ReadPid, KillPid, RemoveFiles, Verdict,
           Goto, TypeOK
    <3>2. /\ other'[p] = sock_file /\ hash_file' = hash_file /\ hash' = hash
          /\ sock_file \in Procs /\ sock_file # NoProc
      BY <3>1 DEF PreflightConnect, cliUnchanged, files, Listening, TypeOK
    <3>3. hash_file \in {None, hash[sock_file]}
      BY <3>1, <3>2 DEF Listening, Bound
    <3>4. at'[sock_file] # "new"
      BY <2>1, <3>1, <3>2 DEF Listening, Alive, Commands, MovesOn, Launches, CliSteps, AgentSteps
    <3> QED BY <3>2, <3>3, <3>4
  <2>6. said'[p] = "already_started" =>
          other'[p] # NoProc /\ at'[other'[p]] # "new" /\ hash'[other'[p]] = hash'[p]
    <3> SUFFICES ASSUME said'[p] = "already_started"
                 PROVE  /\ other'[p] # NoProc /\ at'[other'[p]] # "new"
                        /\ hash'[other'[p]] = hash'[p]
      OBVIOUS
    <3>1. CASE PreflightRead(p) /\ hash_file = hash[p]
      <4>1. at[p] = "p_read" /\ hash[p] # None /\ other' = other
        BY <1>n, <3>1 DEF PreflightRead, Test, Threads, Preflight
      <4> QED BY <2>1, <2>2, <3>1, <4>1 DEF Commands
    <3>2. CASE ~(PreflightRead(p) /\ hash_file = hash[p])
      <4>1. said[p] = "nothing" /\ said'[p] # "already_started"
        BY <1>3, <2>1, <3>2 DEF Commands, Turns, Command, Cli, PreflightFiles,
             PreflightConnect, PreflightRead, Test,
             TerminateLook, TerminateConnect, NoAnswer, Cleared, WaitTimeout, ReadPid, KillPid,
             RemoveFiles, Verdict, cliUnchanged, TypeOK
      <4> QED BY <4>1
    <3> QED BY <3>1, <3>2
  <2> QED BY <2>3, <2>4, <2>5, <2>6
<1>4. CASE ExecStop(p) \/ Respond(p)
  BY <1>1, <1>4 DEF ExecStop, Respond, Goto, serverUnchanged, files, TypeOK
<1>5. CASE Watches(p)
  BY <1>1, <1>5 DEF Watches, PollOk, PollTimeout, Crash, Signal, Goto, Alive, parentUnchanged,
                    files, TypeOK
<1>6. CASE WriteHash(p)
  <2>1. parent[p] = "poll"
    BY <1>6 DEF WriteHash, Starts, Starting
  <2>2. NoServerBut(p) /\ \A q \in Procs : at[q] # "p_read"
    BY <2>1, OneInProgress DEF Starts, InProgress, Threads, CliSteps
  <2> QED BY <1>6, <2>2 DEF WriteHash, Goto, NoServerBut, Binding, Bound, Alive, agentUnchanged, TypeOK
<1>7. CASE Lives(p) /\ ~WriteHash(p)
  BY <1>7 DEF Lives, WritePid, ClientEnds, Join, DropHash, DropPid, Goto, Binding, Bound, Alive,
              AgentSteps, CliSteps, agentUnchanged, files, TypeOK
<1>8. CASE Serves(p)
  BY <1>8 DEF Serves, SrvUnlink, SrvBind, SrvCheck, SrvAccept, SrvRemove, AcceptFails, Serve,
              Binding, Bound, Alive, serverUnchanged, TypeOK
<1> QED BY <1>2, <1>3, <1>4, <1>5, <1>6, <1>7, <1>8, StepKinds

LEMMA ReadinessStep ==
  ASSUME IInv, NEW p \in Procs, Step(p)
  PROVE  Readiness'
<1> USE DEF IInv, Readiness
<1>1. CASE Begin(p)
  BY <1>1 DEF Begin, Goto, Threads, Alive, TypeOK
<1>2. CASE Command(p)
  <2>1. Commands(p)
    BY <1>2, CommandStep
  <2>2. \A q \in Procs : parent[q] # "poll"
    BY <2>1, NoneStarts DEF Commands
  <2>3. srv[p] = "none" /\ ~flag[p]
    BY <2>1 DEF Commands, Threads
  <2> QED BY <2>1, <2>2, <2>3 DEF Commands, MovesOn, Launches, Alive, AgentSteps, TypeOK
<1>3. CASE Lives(p)
  BY <1>3 DEF Lives, WritePid, WriteHash, ClientEnds, Join, DropHash, DropPid, Goto, Alive,
              Threads, Ending, AgentSteps, CliSteps, agentUnchanged, TypeOK
<1>4. CASE Serves(p)
  BY <1>4 DEF Serves, SrvUnlink, SrvBind, SrvCheck, SrvAccept, SrvRemove, AcceptFails, Serve,
              Fault, Alive, Sockets, Threads, serverUnchanged, TypeOK
<1>5. CASE ExecStop(p)
  <2>1. \A q \in Procs : parent[q] # "poll"
    BY <1>5, NoneStarts DEF ExecStop, CliSteps
  <2> QED BY <1>5, <2>1 DEF ExecStop, serverUnchanged
<1>6. CASE Respond(p)
  <2>1. \A q \in Procs : parent[q] # "poll"
    BY <1>6, NoneStarts DEF Respond, CliSteps
  <2> QED BY <1>6, <2>1 DEF Respond
<1>7. CASE Watches(p)
  BY <1>7 DEF Watches, PollOk, PollTimeout, Crash, Signal, Fault, Goto, Alive, AgentSteps,
              CliSteps, parentUnchanged, TypeOK
<1> QED BY <1>1, <1>2, <1>3, <1>4, <1>5, <1>6, <1>7, StepKinds

\* An agent that means to stay connected is a new one, or was there before.
LEMMA ActiveStep ==
  ASSUME IInv, NEW p \in Procs, Step(p), NEW q \in Procs, Active(q)'
  PROVE  \/ Active(q) /\ (Broken(q) => Broken(q)')
         \/ q = p /\ Command(p) /\ Launches(p)
<1> USE DEF IInv, Active, Broken
<1>1. CASE Begin(p)
  BY <1>1 DEF Begin, Goto, TypeOK
<1>2. CASE Command(p)
  <2>1. Commands(p)
    BY <1>2, CommandStep
  <2> QED BY <1>2, <2>1 DEF Commands, MovesOn, CliSteps, TypeOK
<1>3. CASE Lives(p)
  BY <1>3 DEF Lives, WritePid, WriteHash, ClientEnds, Join, DropHash, DropPid, Goto,
              agentUnchanged, TypeOK
<1>4. CASE Serves(p)
  BY <1>4 DEF Serves, SrvUnlink, SrvBind, SrvCheck, SrvAccept, SrvRemove, AcceptFails, Serve,
              serverUnchanged, TypeOK
<1>5. CASE ExecStop(p) \/ Respond(p)
  BY <1>5 DEF ExecStop, Respond, Goto, serverUnchanged, TypeOK
<1>6. CASE Watches(p)
  BY <1>6 DEF Watches, PollOk, PollTimeout, Crash, Signal, Goto, parentUnchanged, TypeOK
<1> QED BY <1>1, <1>2, <1>3, <1>4, <1>5, <1>6, StepKinds

\* Without servers, an agent that means to stay connected has lost its own.
LEMMA NoServerBroken ==
  ASSUME IInv, NEW p \in Procs, at[p] \in CliSteps, NoServer
  PROVE  \A q \in Procs : Active(q) => Broken(q)
<1> SUFFICES ASSUME NEW q \in Procs, Active(q) PROVE srv[q] = "gone" /\ at[q] = "client"
  BY DEF Broken
<1>1. at[q] = "client"
  BY NoneStarts DEF Active, Starting
<1>2. Alive(q) /\ srv[q] # "none"
  BY <1>1 DEF Alive, AgentSteps, IInv, Threads
<1> QED BY <1>1, <1>2 DEF IInv, TypeOK, NoServer, Binding, Bound

LEMMA StopTruthStep ==
  ASSUME IInv, NEW p \in Procs, Step(p)
  PROVE  StopTruth'
<1> DEFINE Success == {"NotRunning", "Stopped", "ForceKilled"}
<1> SUFFICES ASSUME NEW c \in Procs, cmd'[c] = "stop", said'[c] \in Success,
                    \A q \in Procs : q > c => at'[q] = "new",
                    NEW q \in Procs, Active(q)'
             PROVE  Broken(q)'
  BY DEF StopTruth
<1> USE DEF IInv
<1>1. ASSUME Command(p), Launches(p) PROVE FALSE
  <2>1. Commands(p) /\ (\A r \in Procs : r > p => at[r] = "new")
    BY <1>1, CommandStep DEF Commands, Turns, InProgress
  <2>2. c # p
    BY <1>1, <2>1 DEF Launches, Commands
  <2>3. at[c] # "new"
    BY <2>1, <2>2 DEF Commands, Turns
  <2>4. c < p
    BY <2>1, <2>2, <2>3, Bounds DEF Procs
  <2> QED BY <1>1, <2>4 DEF Launches
<1>2. Active(q) /\ (Broken(q) => Broken(q)')
  BY <1>1, ActiveStep
<1>3. CASE Command(p) /\ c = p
  <2>1. Commands(p) /\ (\A r \in Procs : r > p => at[r] = "new")
    BY <1>3, CommandStep DEF Commands, Turns, InProgress
  <2>2. MovesOn(p)
    BY <1>1, <1>3, <2>1 DEF Commands
  <2>3. CASE NoServer
    BY <1>2, <2>1, <2>3, NoServerBroken DEF Commands
  <2>4. CASE said'[p] = said[p]
    BY <1>2, <1>3, <2>1, <2>4 DEF Commands, StopTruth
  <2> QED BY <1>3, <2>2, <2>3, <2>4 DEF MovesOn
<1>4. CASE ~(Command(p) /\ c = p)
  <2>1. cmd'[c] = cmd[c] /\ said'[c] = said[c] /\ at[c] # "new"
    <3>1. CASE Command(p)
      BY <1>4, <3>1, CommandStep DEF Commands, Turns
    <3>2. CASE Begin(p)
      BY <3>2 DEF Begin, Turns, TypeOK
    <3>3. CASE ~Command(p) /\ ~Begin(p)
      BY <3>3, StepKinds
      DEF Lives, WritePid, WriteHash, ClientEnds, Join, DropHash, DropPid, agentUnchanged, Turns,
          Serves, SrvUnlink, SrvBind, SrvCheck, SrvAccept, SrvRemove, AcceptFails, serverUnchanged,
          ExecStop, Respond, Watches, PollOk, PollTimeout, Crash, Signal, parentUnchanged
    <3> QED BY <3>1, <3>2, <3>3
  <2>2. \A r \in Procs : at'[r] = "new" => at[r] = "new"
    <3>1. CASE Command(p)
      BY <3>1, CommandStep DEF Commands, MovesOn, Launches, CliSteps
    <3>2. CASE ~Command(p)
      BY <3>2, StepKinds
      DEF Lives, WritePid, WriteHash, ClientEnds, Join, DropHash, DropPid, agentUnchanged, Goto,
          Serves, SrvUnlink, SrvBind, SrvCheck, SrvAccept, SrvRemove, AcceptFails, serverUnchanged,
          ExecStop, Respond, Watches, PollOk, PollTimeout, Crash, Signal, parentUnchanged,
          Begin, TypeOK
    <3> QED BY <3>1, <3>2
  <2> QED BY <1>2, <2>1, <2>2 DEF StopTruth
<1> QED BY <1>3, <1>4

(***************************************************************************)
(* The invariant and what it gives                                         *)
(***************************************************************************)
LEMMA InitInv == Init => IInv
<1> SUFFICES ASSUME Init PROVE IInv
  OBVIOUS
<1>1. TypeOK
  BY InitType
<1>2. /\ \A p \in Procs : /\ at[p] = "new" /\ srv[p] = "none" /\ ~flag[p] /\ parent[p] = "none"
                          /\ said[p] = "nothing"
  BY DEF Init
<1>3. Turns
  BY <1>2 DEF Turns
<1>4. Threads /\ Sockets /\ Starts /\ Stops /\ Configured /\ Readiness /\ StopTruth
  BY <1>2 DEF Threads, Sockets, Starts, Stops, Configured, Readiness, StopTruth, Bound, Binding,
              Alive, CliSteps, AgentSteps, Starting, Ending, Preflight, KillSteps, Active
<1> QED BY <1>1, <1>3, <1>4 DEF IInv

LEMMA NextInv == IInv /\ [Next]_vars => IInv'
<1> SUFFICES ASSUME IInv, [Next]_vars PROVE IInv'
  OBVIOUS
<1>1. TypeOK'
  BY NextType DEF IInv
<1>2. CASE UNCHANGED vars
  BY <1>2 DEF vars, procs, files, IInv, TypeOK, Turns, Threads, Sockets, Starts, Stops, Configured,
       Readiness, StopTruth, Bound, Binding, Alive, InProgress, NoServer, NoServerBut, HashOf,
       Active, Broken
<1>3. ASSUME NEW p \in Procs, Step(p) PROVE IInv'
  BY <1>1, <1>3, TurnsStep, ThreadsStep, SocketsStep, StartsStep, StopsStep, ConfiguredStep,
     ReadinessStep, StopTruthStep DEF IInv
<1> QED BY <1>2, <1>3 DEF Next, Step

LEMMA Invariant == Spec => []IInv
<1> QED BY InitInv, NextInv, PTL DEF Spec

(* Type correctness of the commands, the agents and the files.              *)
THEOREM LifecycleType == Spec => []TypeOK
<1>1. IInv => TypeOK
  BY DEF IInv
<1> QED BY <1>1, Invariant, PTL

(* However agents end, linger or crash, one at a time means to stay          *)
(* connected, except for one that has lost its server.                      *)
THEOREM OneAgentAtATime == Spec => []OneAgent
<1>1. IInv => OneAgent
  <2> SUFFICES ASSUME IInv, NEW p \in Procs, NEW q \in Procs, Active(p), Active(q),
                      ~Broken(p), ~Broken(q)
               PROVE  p = q
    BY DEF OneAgent
  <2>1. ASSUME NEW r \in Procs, Active(r), ~Broken(r)
        PROVE  at[r] \in Starting \/ Binding(r) \/ Bound(r)
    BY <2>1 DEF Active, Broken, Starting, Binding, Bound, Alive, AgentSteps, IInv, Threads, TypeOK
  <2>2. ASSUME NEW r \in Procs, at[r] \in Starting \/ Binding(r), NEW s \in Procs,
               at[s] \in Starting \/ Binding(s) \/ Bound(s)
        PROVE  r = s
    <3>1. parent[r] = "poll" /\ NoServerBut(r)
      BY <2>2 DEF IInv, Starts
    <3>2. CASE Bound(s)
      BY <3>1, <3>2 DEF NoServerBut
    <3>3. CASE at[s] \in Starting \/ Binding(s)
      BY <3>1, <3>3, OneInProgress DEF IInv, Starts, InProgress
    <3> QED BY <2>2, <3>2, <3>3
  <2>3. CASE Bound(p) /\ Bound(q)
    BY <2>3 DEF IInv, Sockets
  <2> QED BY <2>1, <2>2, <2>3
<1> QED BY <1>1, Invariant, PTL

(* When "stop" reports success, no agent is left but such as are ending or    *)
(* have lost their server.                                                  *)
THEOREM StopTellsTheTruth == Spec => []StopTruth
<1>1. IInv => StopTruth
  BY DEF IInv
<1> QED BY <1>1, Invariant, PTL

(* The socket file of a server that accepts connections is its own.         *)
THEOREM ServersAreReachable == Spec => []Reachable
<1>1. IInv => Reachable
  BY DEF IInv, Sockets, Bound, Reachable
<1> QED BY <1>1, Invariant, PTL

(* The agent that answers when "start" reports already_started has the        *)
(* configuration it was given.                                              *)
THEOREM AlreadyTellsTheTruth == Spec => []AlreadyTruth
<1>1. IInv => AlreadyTruth
  BY DEF IInv, Configured, AlreadyTruth
<1> QED BY <1>1, Invariant, PTL

(* Whatever earlier agents left behind, an agent that does not become ready  *)
(* met a fault of its own.                                                  *)
THEOREM OnlyFaultsPreventReadiness == Spec => []ReadyUnlessFault
<1>1. IInv => ReadyUnlessFault
  BY DEF IInv, Readiness, ReadyUnlessFault
<1> QED BY <1>1, Invariant, PTL
=============================================================================
