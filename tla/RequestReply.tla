---------------------------- MODULE RequestReply ----------------------------
(***************************************************************************)
(* What a session promises the threads that send it commands: a command     *)
(* that was accepted stays open until it is answered, once, or until the    *)
(* session is over; only then may it be lost, and the caller, whose channel *)
(* has no sender any more, is told so at once.                              *)
(***************************************************************************)
CONSTANT Requests

VARIABLES
  st,      \* st[r]: "new", "open", "answered" or "lost"
  closed   \* is the session over?

vars == <<st, closed>>

With(s) == {r \in Requests : st[r] = s}
Mark(A, L) == st' = [r \in Requests |-> IF r \in A THEN "answered"
                                        ELSE IF r \in L THEN "lost" ELSE st[r]]

Init == st = [r \in Requests |-> "new"] /\ closed = FALSE

Ask(r) ==
  /\ st[r] = "new"
  /\ st' = [st EXCEPT ![r] = "open"]
  /\ UNCHANGED closed

Refuse(r) ==
  /\ closed /\ st[r] = "new"
  /\ st' = [st EXCEPT ![r] = "answered"]
  /\ UNCHANGED closed

\* Several at once: one refresh times out every old entry.
Answer ==
  /\ ~closed
  /\ \E A \in SUBSET With("open") : Mark(A, {})
  /\ UNCHANGED closed

Close ==
  /\ ~closed /\ closed' = TRUE
  /\ \E A \in SUBSET With("open") :
       \E L \in SUBSET (With("open") \ A) : Mark(A, L)

Lose == closed /\ Mark({}, With("open")) /\ UNCHANGED closed

Next == (\E r \in Requests : Ask(r) \/ Refuse(r)) \/ Answer \/ Close \/ Lose

Spec == Init /\ [][Next]_vars
=============================================================================
