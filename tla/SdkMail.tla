------------------------------ MODULE SdkMail ------------------------------
(***************************************************************************)
(* How the three SDKs bring the mail of a device to its program: a new_mail   *)
(* event makes them fetch the first mail, its handler decides on an operation, *)
(* and the response to that says whether to fetch another one.               *)
(*                                                                         *)
(* Elixir has two processes, EventsProc and HandlerProc with its queue        *)
(* "casts"; Python has one thread; JavaScript runs every event on its own.    *)
(* Where Elixir casts, the other two call: the handler of a mail runs inside   *)
(* the operation on the mail before it, and an exception unwinds from there.   *)
(* "stack" has the calls in progress, the innermost first.                   *)
(*                                                                         *)
(* The mailbox is the server's.  The agent is reduced to its answers, its link *)
(* and the events it sends (ClientLogic, MoonlightClient and EventStream).    *)
(* A handler does one operation at most, and then returns.  Bound: a       *)
(* handler requeues its mail once in a behaviour.                          *)
(***************************************************************************)
EXTENDS Naturals, Sequences, SequencesExt

CONSTANTS
  Sdks,          \* those considered, of "elixir", "js", "python"
  MaxMails,      \* bound: mails sent to the device
  None,
  Decisions,     \* the operations that handlers decide on
  MaxChains,     \* bound: events a JavaScript program works on at a time
  MaxDepth,      \* Python: calls before a RecursionError, counted in mails
  MaxFaults      \* bound: timeouts, lost links, ended streams and failed callbacks

ASSUME SdkAssumption ==
  /\ Sdks \subseteq {"elixir", "js", "python"} /\ Decisions \subseteq {"ack", "reject", "requeue"}
  /\ MaxMails \in Nat /\ None \notin Nat /\ None \notin {"ack", "reject", "requeue"}
  /\ MaxChains \in Nat \ {0, 1} /\ MaxDepth \in Nat /\ MaxFaults \in Nat

VARIABLES
  sdk,        \* the SDK of this behaviour
  mailbox,    \* the mails at the server
  link,       \* is the agent connected?
  stream,     \* is the event stream open?
  events,     \* new_mail events to be read
  stack,      \* the calls in progress of each process, thread or event
  casts,      \* mails cast to HandlerProc
  lost,       \* whose request was cut off with the link
  crashed,    \* has an unhandled rejection ended the program?
  outcome,    \* by which operation the server removed a mail (history)
  chosen,     \* what the handler decided on it (history)
  handled,    \* mails whose handler was called (history)
  settled,    \* mails whose removal Python was told of (history)
  repeated,   \* mails handled after that (history)
  unsure,     \* mails with an operation, or the fetch in it, that failed (history)
  gave_up,    \* did it stop at a mail, or at a failure nothing follows, or
              \* lose what was cast? (history)
  faults

sdkVars     == <<stack, casts, crashed>>
agentVars   == <<link, stream, events, lost>>
historyVars == <<chosen, handled, settled, repeated, unsure, gave_up>>
vars == <<sdk, mailbox, outcome, sdkVars, agentVars, historyVars, faults>>

Mails       == 1 .. MaxMails    \* in the order in which they arrive
Chains      == 1 .. MaxChains
EventsProc  == 1
HandlerProc == 2

Call(step, m, op) == [step |-> step, mail |-> m, op |-> op]
NextCall    == Call("next", None, None)
AutoCall(m) == Call("auto", m, "reject")
MoreCall(c) == Call(IF c.step = "op" THEN "op_more" ELSE "auto_more", c.mail, None)

Idle(a)   == stack[a] = <<>>
Top(a)    == Head(stack[a])
Rest(a)   == Tail(stack[a])
Asking(a) == ~Idle(a) /\ Top(a).step \in {"next", "op", "auto"}

Goto(a, calls) == stack' = [stack EXCEPT ![a] = calls]
Return(a)      == Goto(a, <<>>)   \* every handler returns after its operation

Init ==
  /\ sdk \in Sdks
  /\ mailbox = <<>> /\ link = TRUE /\ stream = TRUE /\ events = 1
  /\ stack = [a \in Chains |-> <<>>] /\ casts = <<>> /\ lost = {} /\ crashed = FALSE
  /\ outcome = [m \in Mails |-> None] /\ chosen = [m \in Mails |-> {}]
  /\ handled = {} /\ settled = {} /\ repeated = {} /\ unsure = {}
  /\ gave_up = FALSE /\ faults = 0

(***************************************************************************)
(* The mailbox at the server                                               *)
(***************************************************************************)
Queued(m) == Contains(mailbox, m)

Apply(op, m) ==
  IF Queued(m)
  THEN /\ mailbox' = LET others == RemoveFirst(mailbox, m)
                     IN IF op = "requeue" THEN Append(others, m) ELSE others
       /\ outcome' = [outcome EXCEPT ![m] = IF op = "requeue" THEN @ ELSE op]
  ELSE UNCHANGED <<mailbox, outcome>>

\* An operation that fails may have been done all the same.
MayApply(a) ==
  \/ UNCHANGED <<mailbox, outcome>>
  \/ Top(a).step # "next" /\ Apply(Top(a).op, Top(a).mail)

(***************************************************************************)
(* Events and handlers                                                     *)
(***************************************************************************)
Starts(a) == \/ a = EventsProc
             \/ sdk = "js" /\ \A b \in 1 .. a - 1 : ~Idle(b)

Dispatch(a) ==
  /\ ~crashed /\ events > 0 /\ Starts(a) /\ Idle(a)
  /\ events' = events - 1 /\ Goto(a, <<NextCall>>)
  /\ UNCHANGED <<sdk, mailbox, outcome, casts, crashed, link, stream, lost,
                 historyVars, faults>>

\* The handler of m is called, below the calls of "below".
CallHandler(a, m, below) ==
  /\ Goto(a, <<Call("handle", m, None)>> \o below)
  /\ handled' = handled \cup {m}
  /\ repeated' = IF m \in settled THEN repeated \cup {m} ELSE repeated
  /\ UNCHANGED <<chosen, settled, unsure, gave_up>>

HandleCast ==
  /\ casts # <<>> /\ Idle(HandlerProc)
  /\ casts' = Tail(casts) /\ CallHandler(HandlerProc, Head(casts), <<>>)
  /\ UNCHANGED <<sdk, mailbox, outcome, crashed, agentVars, faults>>

\* The handler decides, fails, or leaves the mail where it is.
Handle(a) ==
  /\ ~crashed /\ ~Idle(a) /\ Top(a).step = "handle"
  /\ LET m == Top(a).mail IN
     \/ \E op \in Decisions :
          /\ op = "requeue" => \A n \in Mails : "requeue" \notin chosen[n]
          /\ Goto(a, <<Call("op", m, op)>> \o Rest(a))
          /\ chosen' = [chosen EXCEPT ![m] = @ \cup {op}] /\ UNCHANGED gave_up
     \/ /\ Goto(a, <<IF sdk = "elixir" THEN Call("op", m, "reject") ELSE AutoCall(m)>>
                   \o Rest(a))
        /\ chosen' = [chosen EXCEPT ![m] = @ \cup {"reject"}] /\ UNCHANGED gave_up
     \/ /\ Return(a) /\ gave_up' = TRUE /\ UNCHANGED chosen
  /\ UNCHANGED <<sdk, mailbox, outcome, casts, crashed, agentVars, handled, settled,
                 repeated, unsure, faults>>

\* A callback that raises, but for that of a mail, ends HandlerProc; the
\* supervisor starts another one, with an empty queue.
CallbackRaises ==
  /\ sdk = "elixir" /\ Idle(HandlerProc) /\ casts # <<>>
  /\ faults < MaxFaults /\ faults' = faults + 1
  /\ casts' = <<>> /\ gave_up' = TRUE
  /\ UNCHANGED <<sdk, mailbox, outcome, stack, crashed, agentVars, chosen, handled,
                 settled, repeated, unsure>>

(***************************************************************************)
(* Answers                                                                 *)
(***************************************************************************)
Answerable(a) == ~crashed /\ Asking(a) /\ a \notin lost /\ link

NextAnswer(a) ==
  /\ Answerable(a) /\ Top(a).step = "next"
  /\ LET m == IF mailbox = <<>> THEN None ELSE Head(mailbox)
     IN Goto(a, <<Call("fetched", m, None)>> \o Rest(a))
  /\ UNCHANGED <<sdk, mailbox, outcome, casts, crashed, agentVars, historyVars, faults>>

Fetched(a) ==
  /\ ~crashed /\ ~Idle(a) /\ Top(a).step = "fetched"
  /\ LET m == Top(a).mail IN
     CASE m = None -> Return(a) /\ UNCHANGED <<casts, historyVars>>
       [] m # None /\ sdk = "elixir" ->
            casts' = Append(casts, m) /\ Return(a) /\ UNCHANGED historyVars
       [] OTHER -> CallHandler(a, m, Rest(a)) /\ UNCHANGED casts
  /\ UNCHANGED <<sdk, mailbox, outcome, crashed, agentVars, faults>>

Settle(a) ==
  /\ settled' = IF sdk # "python" \/ Top(a).op = "requeue" THEN settled
                ELSE settled \cup {Top(a).mail}
  /\ UNCHANGED <<chosen, handled, repeated, unsure, gave_up>>

\* mutant: more mail is not asked for
OpAnswerStops(a) ==
  /\ Answerable(a) /\ Top(a).step \in {"op", "auto"}
  /\ Apply(Top(a).op, Top(a).mail) /\ Settle(a) /\ Return(a)
  /\ UNCHANGED <<sdk, casts, crashed, agentVars, faults>>

\* x-mail-available
OpAnswer(a) ==
  /\ Answerable(a) /\ Top(a).step \in {"op", "auto"}
  /\ Apply(Top(a).op, Top(a).mail) /\ Settle(a)
  /\ CASE mailbox' = <<>>  -> Return(a)
       [] mailbox' # <<>> /\ sdk = "elixir" -> Goto(a, <<NextCall>>)
       [] OTHER -> Goto(a, <<NextCall, MoreCall(Top(a))>> \o Rest(a))
  /\ UNCHANGED <<sdk, casts, crashed, agentVars, faults>>

(***************************************************************************)
(* Failures                                                                *)
(***************************************************************************)
\* Nothing catches the failure of the fetch that an event made.
Uncaught(a) ==
  /\ Return(a)
  /\ crashed' = (sdk = "js")
  /\ stream' = (sdk # "python" /\ stream)
  /\ events' = IF sdk = "python" THEN 0 ELSE events

Caught(a, calls) == Goto(a, calls) /\ UNCHANGED <<crashed, stream, events>>

\* Is the request part of an operation that a handler called?
OfOperation(a) ==
  \/ Top(a).step = "op"
  \/ Top(a).step = "next" /\ Rest(a) # <<>> /\ Head(Rest(a)).step = "op_more"

\* The request of a fails.  Where failures are raised, that of an operation of
\* the handler is taken for one of the handler; all others are dropped.
FailIn(a, excuse, raises) ==
  LET first == Top(a).step = "next" /\ Rest(a) = <<>>
      op    == IF Top(a).step = "op" THEN stack[a] ELSE Rest(a)
  IN /\ CASE raises /\ first          -> Uncaught(a)
          [] raises /\ OfOperation(a) ->
               Caught(a, <<AutoCall(Head(op).mail)>> \o Tail(op))
          [] OTHER                    -> Caught(a, <<>>)
     /\ gave_up' = (gave_up \/ (excuse /\ ~(raises /\ (first \/ OfOperation(a)))))
     /\ unsure' = IF OfOperation(a) THEN unsure \cup {Head(op).mail} ELSE unsure
     /\ UNCHANGED <<sdk, casts, chosen, handled, settled, repeated>>

\* mutant: Elixir raises as well
FailRaises(a, excuse) == FailIn(a, excuse, TRUE)

Fail(a, excuse) == FailIn(a, excuse, sdk # "elixir")

\* 408, for Elixir after Req has repeated the fetch
Timeout(a) ==
  /\ ~crashed /\ Asking(a) /\ a \notin lost
  /\ faults < MaxFaults /\ faults' = faults + 1
  /\ MayApply(a) /\ Fail(a, TRUE) /\ UNCHANGED <<link, lost>>

\* the answer of a session that has ended, or of an agent that is not connected
CutOff(a) ==
  /\ ~crashed /\ Asking(a)
  /\ a \in lost \/ ~link
  /\ lost' = lost \ {a}
  /\ Fail(a, FALSE) /\ UNCHANGED <<mailbox, outcome, link, faults>>

\* an operation on a mail that is not in the mailbox any more
Refused(a) ==
  /\ Answerable(a) /\ Top(a).step \in {"op", "auto"} /\ ~Queued(Top(a).mail)
  /\ Fail(a, Top(a).step = "auto") /\ UNCHANGED <<mailbox, outcome, link, lost, faults>>

\* RecursionError
TooDeep(a) ==
  /\ sdk = "python" /\ Asking(a) /\ Len(stack[a]) > MaxDepth
  /\ MayApply(a) /\ Fail(a, TRUE) /\ UNCHANGED <<link, lost, faults>>

(***************************************************************************)
(* The server, the link of the agent and its stream of events               *)
(***************************************************************************)
Told(n) == IF link /\ stream THEN n + 1 ELSE n

MailArrives ==
  /\ ~crashed
  /\ \E m \in Mails :
       /\ \A n \in Mails : (outcome[n] # None \/ Queued(n)) <=> n < m
       /\ mailbox' = Append(mailbox, m)
  /\ events' = Told(events)
  /\ UNCHANGED <<sdk, outcome, sdkVars, link, stream, lost, historyVars, faults>>

Cut ==
  /\ ~crashed /\ link /\ faults < MaxFaults /\ faults' = faults + 1
  /\ link' = FALSE /\ lost' = lost \cup {a \in Chains : Asking(a)}
  /\ \/ UNCHANGED <<mailbox, outcome>>
     \/ \E a \in Chains \ lost : /\ Asking(a) /\ Top(a).step # "next"
                                 /\ Apply(Top(a).op, Top(a).mail)
  /\ UNCHANGED <<sdk, sdkVars, stream, events, historyVars>>

\* The server says in its answer to Connect whether there is mail.
Relink ==
  /\ ~crashed /\ ~link /\ link' = TRUE
  /\ events' = IF stream /\ mailbox # <<>> THEN events + 1 ELSE events
  /\ UNCHANGED <<sdk, mailbox, outcome, sdkVars, stream, lost, historyVars, faults>>

StreamEnds ==
  /\ ~crashed /\ stream /\ faults < MaxFaults /\ faults' = faults + 1
  /\ stream' = FALSE /\ events' \in {0, events}
  /\ UNCHANGED <<sdk, mailbox, outcome, sdkVars, link, lost, historyVars>>

\* A stream that is opened has a new_mail of its own.
Reconnect ==
  /\ ~crashed /\ ~stream /\ (sdk = "js" \/ Idle(EventsProc))
  /\ stream' = TRUE
  /\ events' = IF link THEN events + 1 ELSE events
  /\ UNCHANGED <<sdk, mailbox, outcome, sdkVars, link, lost, historyVars, faults>>

Request(a) ==
  \/ NextAnswer(a) \/ Fetched(a) \/ OpAnswer(a)
  \/ Timeout(a) \/ CutOff(a) \/ Refused(a) \/ TooDeep(a)

\* One process, thread or event goes on.
Step(a) ==
  \/ Dispatch(a) \/ Handle(a) \/ Request(a)
  \/ a = HandlerProc /\ HandleCast

Next ==
  \/ \E a \in Chains : Step(a)
  \/ CallbackRaises \/ MailArrives \/ Cut \/ Relink \/ StreamEnds \/ Reconnect

Spec == Init /\ [][Next]_vars

\* The program runs, its handler returns, requests come to an end, and the
\* agent and the stream are connected again.  No mail need ever come.
Fairness == (\A a \in Chains : WF_vars(Step(a))) /\ WF_vars(Relink) /\ WF_vars(Reconnect)

FairSpec == Spec /\ Fairness

(***************************************************************************)
(* Properties                                                              *)
(***************************************************************************)
\* What is cast to HandlerProc is a mail, and calls nest as the code's do: a
\* fetch, a handler or an operation in operations that found more mail.
TypeOK ==
  /\ sdk \in Sdks /\ mailbox \in Seq(Mails) /\ casts \in Seq(Mails) /\ events \in Nat
  /\ {link, stream, crashed, gave_up} \subseteq BOOLEAN /\ lost \subseteq Chains
  /\ \A a \in Chains : \A i \in 1 .. Len(stack[a]) :
       IF i = 1 THEN stack[a][i].step \in {"next", "fetched", "handle", "op", "auto"}
                ELSE stack[a][i].step \in {"op_more", "auto_more"}
  /\ \A a \in Chains : ~Idle(a) => (Top(a).step \in {"handle", "op", "auto"} => Top(a).mail \in Mails)
  /\ sdk = "elixir" => \A a \in Chains : Len(stack[a]) <= 1

\* A mail leaves the mailbox by an operation its handler decided on (or
\* because it failed), with one exception: JavaScript and Python reject a mail
\* when the call of its operation failed, be it the operation itself or, after
\* that was done, the fetch of the next mail.  It may be a mail that was
\* requeued, or one whose ack was not done.
OutcomeIsHandlers ==
  \A m \in Mails :
    \/ outcome[m] \in chosen[m] \cup {None}
    \/ sdk # "elixir" /\ outcome[m] = "reject" /\ m \in unsure

\* In Python the handler of a mail is not called again once the server has
\* confirmed its removal.  (In the other two a second event may fetch a mail
\* while it is being handled.)  No run checks this; SdkMail_proofs proves it.
NoRepeat == sdk = "python" => repeated = {}

\* No mail is forgotten: its handler is called some day, though events are
\* lost, links are cut and an answer may say that there is no more mail when
\* there is by then.  It may wait for the next event after a timeout whose
\* failure was dropped, after a handler that did nothing, or when it was cast
\* to a HandlerProc that failed; and a JavaScript program may be gone.
NothingForgotten ==
  \A m \in Mails : Queued(m) ~> (m \in handled \/ gave_up \/ crashed)
=============================================================================
