-------------------------- MODULE Reconnect_proofs --------------------------
(* Proofs about Reconnect and the Heartbeat in it, for all lengths of the    *)
(* intervals that satisfy the assumptions.                                  *)
EXTENDS Reconnect, Integers, FiniteSetTheorems, TLAPS

(***************************************************************************)
(* The inductive invariant.  The timer keeps three instants, and what they   *)
(* say of each other is what makes its verdict right.                        *)
(***************************************************************************)
\* A heartbeat is due at every HeartbeatEvery, but for the lateness of the
\* thread; the next one sooner when the last was not acknowledged.
SentLately ==
  /\ since_sent < HeartbeatEvery + since_run
  /\ awaiting => since_sent < ResendAfter + since_run
\* Without a heartbeat to wait for, the last acknowledgement is the younger.
AckedLately == ~awaiting => since_ack <= since_sent
\* What is waited for is in ping_chan, or on its way and young enough.
AnswerComes ==
  server = "up" /\ awaiting /\ pings = 0 =>
    \E a \in flight : since_ack < HeartbeatEvery + Lag + a
\* The first heartbeat after an acknowledgement was sent soon after it.
FirstTry ==
  /\ awaiting <=> tries > 0
  /\ tries = 1 => since_ack < HeartbeatEvery + Lag + since_sent

BeatInv ==
  /\ SentLately /\ AckedLately /\ AnswerComes /\ FirstTry
  /\ LiveServerKept /\ GivesUpAfterSeveral

\* reconnect_in holds the step of the ladder after the one last slept.
OnTheLadder ==
  /\ refusal = "never" => reconnect_in = IF row = 0 THEN 0 ELSE
                                          IF row < 7 THEN Ladder[row + 1] ELSE 30000
  /\ refusal = "last" => reconnect_in = Refused
  /\ refusal \in {"before", "earlier"} => reconnect_in = 30000
  /\ pc = "sleep" /\ refusal = "never" => row > 0

AuthInv == auth_for <= AuthTimeout * events + since_event

Inv == TypeOK /\ BeatInv /\ OnTheLadder /\ PacedRetries /\ AuthInv

(***************************************************************************)
(* Types                                                                   *)
(***************************************************************************)
LEMMA Clocks ==
  /\ Tick \in Nat /\ Lag \in Nat /\ RefreshEvery \in Nat /\ GiveUpAfter \in Nat /\ Delay \in Nat
  /\ HeartbeatEvery \in Nat /\ HeartbeatEvery > 0 /\ ResendAfter \in Nat /\ ResendAfter > 0
  BY ClockAssumption DEF ClockAssumption

LEMMA Margins ==
  /\ HeartbeatEvery + Lag + Delay <= GiveUpAfter
  /\ HeartbeatEvery + Lag + ResendAfter + Lag <= GiveUpAfter
  BY DelayAssumption, ResendAssumption DEF DelayAssumption, ResendAssumption

(* A new timer starts with its invariant.                                   *)
LEMMA StartsWell ==
  ASSUME StartTimer
  PROVE  BeatTypeOK' /\ BeatInv'
<1>1. BeatTypeOK'
  <2>1. awaiting' \in BOOLEAN
    BY DEF StartTimer
  <2>2. flight' \subseteq 0 .. Delay
    BY DEF StartTimer
  <2> QED BY <2>1, <2>2, Clocks DEF StartTimer, BeatTypeOK
<1>2. SentLately' /\ AckedLately' /\ AnswerComes' /\ FirstTry'
  BY Clocks DEF StartTimer, SentLately, AckedLately, AnswerComes, FirstTry
<1>3. LiveServerKept' /\ GivesUpAfterSeveral'
  BY DEF StartTimer, LiveServerKept, GivesUpAfterSeveral
<1> QED BY <1>1, <1>2, <1>3 DEF BeatInv

(* ... as the first of all does.                                            *)
LEMMA BeginsWell == BeatInit => BeatTypeOK /\ BeatInv
<1> SUFFICES ASSUME BeatInit PROVE BeatTypeOK /\ BeatInv
  OBVIOUS
<1>1. BeatTypeOK
  <2>1. awaiting \in BOOLEAN
    BY DEF BeatInit
  <2>2. flight \subseteq 0 .. Delay
    BY DEF BeatInit
  <2> QED BY <2>1, <2>2, Clocks DEF BeatInit, BeatTypeOK
<1>2. SentLately /\ AckedLately /\ AnswerComes /\ FirstTry
  BY Clocks DEF BeatInit, SentLately, AckedLately, AnswerComes, FirstTry
<1>3. LiveServerKept /\ GivesUpAfterSeveral
  BY DEF BeatInit, LiveServerKept, GivesUpAfterSeveral
<1> QED BY <1>1, <1>2, <1>3 DEF BeatInv

LEMMA BeatType == BeatTypeOK /\ Beat => BeatTypeOK'
<1> SUFFICES ASSUME BeatTypeOK, Beat PROVE BeatTypeOK'
  OBVIOUS
<1> USE Clocks DEF BeatTypeOK
<1>1. CASE TimerLogic
  <2>1. AckAge \in Nat
    BY DEF AckAge
  <2>2. flight' \subseteq 0 .. Delay
    BY <1>1 DEF TimerLogic
  <2>3. pings' \in Nat
    BY <1>1 DEF TimerLogic, Acked
  <2>4. awaiting' \in BOOLEAN
    BY <1>1 DEF TimerLogic
  <2>5. tries' \in Nat
    BY <1>1 DEF TimerLogic
  <2> QED BY <1>1, <2>1, <2>2, <2>3, <2>4, <2>5 DEF TimerLogic
<1>2. CASE \E a \in flight : Pong(a)
  BY <1>2 DEF Pong, clocks
<1>3. CASE FallSilent
  BY <1>3 DEF FallSilent, clocks
<1>4. CASE Pass
  <2>1. flight' \subseteq 0 .. Delay
    BY <1>4 DEF Pass
  <2> QED BY <1>4, <2>1 DEF Pass
<1> QED BY <1>1, <1>2, <1>3, <1>4 DEF Beat

(***************************************************************************)
(* The timer and the server                                                *)
(***************************************************************************)
(* One run of timer_logic, with or without an acknowledgement to read.       *)
LEMMA TimerKeeps ==
  ASSUME BeatTypeOK, BeatInv, TimerLogic
  PROVE  BeatInv'
<1>1. awaiting' <=> Send \/ (awaiting /\ ~Acked)
  BY DEF TimerLogic
<1>2. /\ since_run' = 0 /\ pings' = (IF Acked THEN pings - 1 ELSE pings)
      /\ since_ack' = AckAge
      /\ since_sent' = (IF Send THEN 0 ELSE since_sent)
      /\ flight' = (IF Send /\ server = "up" THEN flight \cup {0} ELSE flight)
      /\ tries' = (IF Acked THEN 0 ELSE tries) + (IF Send THEN 1 ELSE 0)
      /\ over' = (IF AckAge >= GiveUpAfter THEN "gave_up" ELSE "no")
      /\ server' = server
  BY DEF TimerLogic
<1> USE Clocks, <1>1, <1>2 DEF BeatTypeOK, BeatInv, Acked, AckAge
<1>3. SentLately'
  BY DEF SentLately, Send, Due, Missed
<1>4. AckedLately'
  BY DEF AckedLately
<1>5. AnswerComes'
  <2> SUFFICES ASSUME server' = "up", awaiting', pings' = 0
               PROVE  \E a \in flight' : since_ack' < HeartbeatEvery + Lag + a
    BY DEF AnswerComes
  <2>1. CASE Acked \/ ~awaiting
    <3>1. 0 \in flight'
      BY <2>1
    <3>2. since_ack' < HeartbeatEvery + Lag + 0
      BY <2>1 DEF AckedLately, SentLately
    <3> QED BY <3>1, <3>2
  <2>2. CASE ~Acked /\ awaiting
    <3>1. pings = 0 /\ server = "up" /\ since_ack' = since_ack /\ flight \subseteq flight'
      BY <2>2
    <3>2. PICK a \in flight : since_ack < HeartbeatEvery + Lag + a
      BY <2>2, <3>1 DEF AnswerComes
    <3> QED BY <3>1, <3>2
  <2> QED BY <2>1, <2>2
<1>6. FirstTry'
  BY DEF FirstTry, AckedLately, SentLately
<1>7. CASE AckAge < GiveUpAfter
  <2>1. over' = "no"
    BY <1>7
  <2> QED BY <1>3, <1>4, <1>5, <1>6, <2>1 DEF LiveServerKept, GivesUpAfterSeveral
<1>8. CASE AckAge >= GiveUpAfter
  <2>1. ~Acked /\ since_ack >= GiveUpAfter
    BY <1>8, Margins
  <2>2. awaiting
    BY <2>1, Margins DEF AckedLately, SentLately
  <2>3. server # "up"
    <3> SUFFICES ASSUME server = "up" PROVE FALSE
      OBVIOUS
    <3>1. PICK a \in flight : since_ack < HeartbeatEvery + Lag + a
      BY <2>1, <2>2 DEF AnswerComes
    <3> QED BY <2>1, <3>1, Margins
  <2>4. tries' >= 2
    BY <2>1, <2>2, Margins DEF FirstTry, SentLately
  <2> QED BY <1>3, <1>4, <1>5, <1>6, <2>3, <2>4 DEF LiveServerKept, GivesUpAfterSeveral
<1> QED BY <1>7, <1>8

LEMMA PongKeeps ==
  ASSUME BeatTypeOK, BeatInv, NEW a \in flight, Pong(a)
  PROVE  BeatInv'
<1>1. AnswerComes'
  BY DEF Pong, AnswerComes, BeatTypeOK
<1>2. UNCHANGED <<clocks, over, server, tries>>
  BY DEF Pong
<1> QED BY <1>1, <1>2 DEF BeatInv, SentLately, AckedLately, FirstTry, LiveServerKept,
                          GivesUpAfterSeveral, clocks

LEMMA SilenceKeeps ==
  ASSUME BeatInv, FallSilent
  PROVE  BeatInv'
<1>1. server' = "silent" /\ UNCHANGED <<clocks, over, tries>> /\ over = "no"
  BY DEF FallSilent
<1> QED BY <1>1 DEF BeatInv, SentLately, AckedLately, AnswerComes, FirstTry, LiveServerKept,
                    GivesUpAfterSeveral, clocks

(* Time passes for all instants alike.                                      *)
LEMMA PassKeeps ==
  ASSUME BeatTypeOK, BeatInv, Pass
  PROVE  BeatInv'
<1> USE Clocks DEF BeatTypeOK, BeatInv, Pass
<1>1. SentLately' /\ AckedLately' /\ FirstTry'
  BY DEF SentLately, AckedLately, FirstTry
<1>2. AnswerComes'
  <2> SUFFICES ASSUME server' = "up", awaiting', pings' = 0
               PROVE  \E b \in flight' : since_ack' < HeartbeatEvery + Lag + b
    BY DEF AnswerComes
  <2>1. PICK a \in flight : since_ack < HeartbeatEvery + Lag + a
    BY DEF AnswerComes
  <2>2. a + 1 \in flight' /\ since_ack' = since_ack + 1 /\ a \in Nat
    OBVIOUS
  <2>3. since_ack' < HeartbeatEvery + Lag + (a + 1)
    BY <2>1, <2>2
  <2> QED BY <2>2, <2>3
<1>3. LiveServerKept' /\ GivesUpAfterSeveral'
  BY DEF LiveServerKept, GivesUpAfterSeveral
<1> QED BY <1>1, <1>2, <1>3

LEMMA BeatKeeps == BeatTypeOK /\ BeatInv /\ Beat => BeatInv'
  BY TimerKeeps, PongKeeps, SilenceKeeps, PassKeeps DEF Beat

(* A step that leaves the timer alone.                                      *)
LEMMA BeatStutters ==
  ASSUME BeatTypeOK, BeatInv, UNCHANGED beatVars
  PROVE  BeatTypeOK' /\ BeatInv'
<1>1. UNCHANGED <<clocks, peer, pings, over, tries>>
  BY DEF beatVars
<1>2. BeatTypeOK'
  BY <1>1 DEF BeatTypeOK, clocks, peer
<1>3. SentLately' /\ AckedLately' /\ AnswerComes' /\ FirstTry'
  BY <1>1 DEF BeatInv, SentLately, AckedLately, AnswerComes, FirstTry, clocks, peer
<1>4. LiveServerKept' /\ GivesUpAfterSeveral'
  BY <1>1 DEF BeatInv, LiveServerKept, GivesUpAfterSeveral, peer
<1> QED BY <1>2, <1>3, <1>4 DEF BeatInv

(***************************************************************************)
(* A silent server.  Heartbeats are ResendAfter apart, so that few of them   *)
(* are on their way at once, and no more acknowledgements can be left in     *)
(* ping_chan; each of these puts the verdict off by one run of the timer.    *)
(***************************************************************************)

Spaced ==
  /\ \A a \in flight : since_sent <= a
  /\ \A a, b \in flight : a < b => a + ResendAfter <= b
FewAnswers == pings + Cardinality(flight) <= Backlog
Patience ==
  /\ pings > 0 => silent_for <= (Backlog - pings) * Lag + since_run
  /\ pings = 0 => silent_for <= Backlog * Lag + since_ack
  /\ over = "no" => since_ack < GiveUpAfter + since_run

SilenceInv == Spaced /\ FewAnswers /\ Patience

LEMMA Room == 0 < GiveUpAfter
  BY Clocks, Margins

LEMMA BacklogType == Backlog \in Nat /\ Backlog > 0
<1>1. \A d, r \in Nat : r > 0 => d \div r \in Nat
  OBVIOUS
<1> QED BY <1>1, Clocks DEF Backlog

(* Heartbeats that are ResendAfter apart fall into different intervals.      *)
LEMMA Apart ==
  ASSUME NEW a \in Nat, NEW b \in Nat, NEW r \in Nat, r > 0, a + r <= b
  PROVE  a \div r # b \div r
<1> DEFINE p == a \div r
           q == b \div r
<1>1. p \in Nat /\ a < r * (p + 1)
  OBVIOUS
<1>2. q \in Nat /\ r * q <= b /\ b < r * (q + 1)
  OBVIOUS
<1> HIDE DEF p, q
<1>3. p # q
  <2> SUFFICES ASSUME p = q PROVE FALSE
    OBVIOUS
  <2>1. r * p <= a
    BY DEF p
  <2>2. r * (p + 1) = r * p + r
    BY <1>1
  <2> QED BY <1>1, <1>2, <2>1, <2>2
<1> QED BY <1>3 DEF p, q

LEMMA Within ==
  ASSUME NEW a \in Nat, NEW d \in Nat, NEW r \in Nat, r > 0, a <= d
  PROVE  a \div r \in 0 .. d \div r
  OBVIOUS

LEMMA FewInFlight ==
  ASSUME NEW S \in SUBSET (0 .. Delay), \A a, b \in S : a < b => a + ResendAfter <= b
  PROVE  IsFiniteSet(S) /\ Cardinality(S) \in Nat /\ Cardinality(S) <= Backlog
<1> USE Clocks
<1> DEFINE slots == 0 .. Delay \div ResendAfter
           slot  == [a \in S |-> a \div ResendAfter]
<1>1. IsFiniteSet(S) /\ Cardinality(S) \in Nat
  <2>1. IsFiniteSet(0 .. Delay)
    BY FS_Interval
  <2> QED BY <2>1, FS_Subset, FS_CardinalityType
<1>2. IsFiniteSet(slots) /\ Cardinality(slots) = Backlog
  <2>1. Delay \div ResendAfter \in Nat
    OBVIOUS
  <2>2. \A n \in Nat : IsFiniteSet(0 .. n) /\ Cardinality(0 .. n) = n + 1
    BY FS_Interval
  <2> QED BY <2>1, <2>2 DEF Backlog
<1>3. slot \in [S -> slots]
  <2>1. \A a \in S : a \div ResendAfter \in slots
    BY Within
  <2> QED BY <2>1
<1>4. \A a, b \in S : slot[a] = slot[b] => a = b
  <2> SUFFICES ASSUME NEW a \in S, NEW b \in S, a < b
               PROVE  slot[a] # slot[b]
    OBVIOUS
  <2>1. a \in Nat /\ b \in Nat /\ a + ResendAfter <= b
    OBVIOUS
  <2>2. a \div ResendAfter # b \div ResendAfter
    BY <2>1, Apart
  <2> QED BY <2>2
<1>5. ~(Backlog < Cardinality(S))
  <2> HIDE DEF slot, slots
  <2>1. SUFFICES ASSUME Backlog < Cardinality(S) PROVE FALSE
    OBVIOUS
  <2>2. \E x, y \in S : x # y /\ slot[x] = slot[y]
    BY <1>1, <1>2, <1>3, <2>1, FS_PigeonHole
  <2> QED BY <1>4, <2>2
<1> QED BY <1>1, <1>5, BacklogType

(* What the types and the spacing say of the heartbeats on their way.        *)
LEMMA Few ==
  ASSUME BeatTypeOK, Spaced
  PROVE  IsFiniteSet(flight) /\ Cardinality(flight) \in Nat /\ Cardinality(flight) <= Backlog
  BY FewInFlight DEF BeatTypeOK, Spaced

(* One run of the timer.                                                    *)
LEMMA TimerPatient ==
  ASSUME BeatTypeOK, SilenceInv, TimerLogic
  PROVE  SilenceInv'
<1> USE Clocks DEF BeatTypeOK
<1>1. /\ since_run' = 0 /\ silent_for' = silent_for
      /\ pings' = (IF Acked THEN pings - 1 ELSE pings)
      /\ since_ack' = AckAge
      /\ since_sent' = (IF Send THEN 0 ELSE since_sent)
      /\ flight' = (IF Send /\ server = "up" THEN flight \cup {0} ELSE flight)
      /\ over' = (IF AckAge >= GiveUpAfter THEN "gave_up" ELSE "no")
  BY DEF TimerLogic
<1>2. BeatTypeOK'
  BY BeatType DEF Beat
<1>3. Spaced'
  <2>1. CASE Send
    <3>1. since_sent >= ResendAfter
      BY <2>1, RetryAssumption DEF RetryAssumption, Send, Due, Missed
    <3>2. \A a \in flight : a >= ResendAfter
      BY <3>1 DEF SilenceInv, Spaced
    <3> QED BY <1>1, <2>1, <3>2 DEF SilenceInv, Spaced
  <2>2. CASE ~Send
    BY <1>1, <2>2 DEF SilenceInv, Spaced
  <2> QED BY <2>1, <2>2
<1>4. FewAnswers'
  <2>1. CASE Acked
    <3>1. Cardinality(flight') <= Cardinality(flight) + 1 /\ Cardinality(flight') \in Nat
      <4>1. IsFiniteSet(flight) /\ Cardinality(flight) \in Nat
        BY Few DEF SilenceInv
      <4>2. Cardinality(flight \cup {0}) \in {Cardinality(flight), Cardinality(flight) + 1}
        BY <4>1, FS_AddElement
      <4> QED BY <1>1, <4>1, <4>2
    <3>2. pings' = pings - 1
      BY <1>1, <2>1
    <3>3. Cardinality(flight) \in Nat
      BY Few DEF SilenceInv
    <3> QED BY <3>1, <3>2, <3>3, BacklogType DEF SilenceInv, FewAnswers, Backlog
  <2>2. CASE ~Acked
    <3>1. pings' = 0
      BY <1>1, <2>2 DEF Acked
    <3>2. (Cardinality(flight) \in Nat /\ Cardinality(flight) <= Backlog)'
      BY <1>2, <1>3, FewInFlight DEF Spaced
    <3> QED BY <3>1, <3>2 DEF FewAnswers, Backlog
  <2> QED BY <2>1, <2>2
<1>5. Patience'
  <2>1. silent_for' = silent_for /\ since_run' = 0 /\ Backlog' = Backlog
    BY <1>1 DEF Backlog
  <2>2. CASE Acked
    <3>1. /\ pings > 0 /\ pings' = pings - 1 /\ since_ack' = 0
          /\ silent_for <= (Backlog - pings) * Lag + since_run /\ since_run <= Lag
      BY <1>1, <2>2 DEF Acked, AckAge, SilenceInv, Patience
    <3>2. (Backlog - pings) * Lag + Lag = (Backlog - (pings - 1)) * Lag
      BY BacklogType
    <3>3. silent_for <= (Backlog - pings') * Lag
      <4>1. (Backlog - pings) * Lag \in Int
        BY BacklogType
      <4> HIDE DEF BeatTypeOK
      <4>2. silent_for \in Nat /\ since_run \in Nat /\ Lag \in Nat
        BY DEF BeatTypeOK
      <4> QED BY <3>1, <3>2, <4>1, <4>2
    <3>4. pings' = 0 => silent_for <= Backlog * Lag
      BY <3>3, BacklogType
    <3>5. since_ack' < GiveUpAfter
      BY <3>1, Room
    <3> QED BY <2>1, <3>1, <3>3, <3>4, <3>5, BacklogType DEF Patience
  <2>3. CASE ~Acked
    <3>1. pings = 0 /\ pings' = 0 /\ since_ack' = since_ack
      BY <1>1, <2>3 DEF Acked, AckAge
    <3>2. AckAge = since_ack
      BY <2>3 DEF AckAge
    <3>3. over' = "no" => since_ack' < GiveUpAfter
      BY <1>1, <3>1, <3>2
    <3> QED BY <2>1, <3>1, <3>3, BacklogType DEF SilenceInv, Patience
  <2> QED BY <2>2, <2>3
<1> QED BY <1>3, <1>4, <1>5 DEF SilenceInv

LEMMA PongPatient ==
  ASSUME BeatTypeOK, SilenceInv, NEW a \in flight, Pong(a)
  PROVE  SilenceInv'
<1> USE Clocks DEF BeatTypeOK
<1>1. /\ flight' = flight \ {a} /\ pings' = pings + 1 /\ silent_for' = 0
      /\ UNCHANGED <<since_run, since_sent, since_ack, over>> /\ Backlog' = Backlog
  BY DEF Pong, clocks, Backlog
<1>2. Spaced'
  BY <1>1 DEF SilenceInv, Spaced
<1>3. FewAnswers'
  <2>1. Cardinality(flight') = Cardinality(flight) - 1
    BY <1>1, Few, FS_RemoveElement DEF SilenceInv
  <2>2. Cardinality(flight) \in Nat
    BY Few DEF SilenceInv
  <2> QED BY <1>1, <2>1, <2>2, BacklogType DEF SilenceInv, FewAnswers
<1>4. Patience'
  <2>1. pings' <= Backlog
    <3>1. (IsFiniteSet(flight) /\ Cardinality(flight) \in Nat)'
      <4>1. BeatTypeOK'
        BY BeatType DEF Beat
      <4> QED BY <1>2, <4>1, FewInFlight DEF Spaced
    <3> QED BY <1>1, <1>3, <3>1, BacklogType DEF FewAnswers
  <2>2. (Backlog - pings') * Lag >= 0
    <3>1. \A m, n \in Nat : m * n >= 0
      OBVIOUS
    <3>2. Backlog - pings' \in Nat
      BY <1>1, <2>1, BacklogType
    <3> QED BY <3>1, <3>2
  <2>3. pings' > 0 /\ (over' = "no" => since_ack' < GiveUpAfter + since_run')
    BY <1>1 DEF SilenceInv, Patience
  <2> QED BY <1>1, <2>2, <2>3, BacklogType DEF Patience
<1> QED BY <1>2, <1>3, <1>4 DEF SilenceInv

LEMMA SilencePatient ==
  ASSUME BeatTypeOK, SilenceInv, FallSilent
  PROVE  SilenceInv'
<1>1. flight' = {} /\ UNCHANGED <<clocks, pings, over, silent_for>> /\ Backlog' = Backlog
  BY DEF FallSilent, Backlog
<1>2. Cardinality(flight) \in Nat /\ pings \in Nat
  BY Few DEF SilenceInv, BeatTypeOK
<1> QED BY <1>1, <1>2, BacklogType, FS_EmptySet
        DEF SilenceInv, Spaced, FewAnswers, Patience, clocks

LEMMA PassPatient ==
  ASSUME BeatTypeOK, SilenceInv, Pass
  PROVE  SilenceInv'
<1> USE Clocks DEF BeatTypeOK
<1>1. /\ since_run' = since_run + 1 /\ since_sent' = since_sent + 1
      /\ since_ack' = since_ack + 1 /\ silent_for' = silent_for + 1
      /\ flight' = {a + 1 : a \in flight}
      /\ UNCHANGED <<pings, over>> /\ Backlog' = Backlog
  BY DEF Pass, Backlog
<1>2. Spaced'
  <2>1. \A b \in flight' : \E a \in flight : b = a + 1
    BY <1>1
  <2> QED BY <1>1, <2>1 DEF SilenceInv, Spaced
<1>3. FewAnswers'
  <2>1. Cardinality(flight') = Cardinality(flight)
    <3> DEFINE later == [a \in flight |-> a + 1]
    <3>1. later \in Bijection(flight, flight')
      BY <1>1 DEF Bijection, Injection, Surjection, IsInjective
    <3>2. IsFiniteSet(flight)
      BY Few DEF SilenceInv
    <3> HIDE DEF later
    <3>3. ExistsBijection(flight, flight')
      BY <3>1 DEF ExistsBijection
    <3> QED BY <3>2, <3>3, FS_Bijection
  <2> QED BY <1>1, <2>1 DEF SilenceInv, FewAnswers
<1>4. Patience'
  <2>1. (Backlog - pings) * Lag \in Int /\ Backlog * Lag \in Int
    BY BacklogType
  <2> QED BY <1>1, <2>1 DEF SilenceInv, Patience
<1> QED BY <1>2, <1>3, <1>4 DEF SilenceInv

(***************************************************************************)
(* The intervals                                                           *)
(***************************************************************************)
LEMMA Steps ==
  /\ Ladder[1] = 0 /\ Ladder[2] = 1000 /\ Ladder[3] = 2500 /\ Ladder[4] = 5000
  /\ Ladder[5] = 10000 /\ Ladder[6] = 15000 /\ Ladder[7] = 30000
  BY DEF Ladder

LEMMA Climb ==
  /\ Longer(0) = 1000 /\ Longer(1000) = 2500 /\ Longer(2500) = 5000
  /\ Longer(5000) = 10000 /\ Longer(10000) = 15000 /\ Longer(15000) = 30000
  /\ Longer(30000) = 30000 /\ Longer(Refused) = 30000
  BY DEF Longer, Refused

(* The end of a session takes one step of the ladder.                       *)
LEMMA EndSteps ==
  ASSUME TypeOK, OnTheLadder, pc # "sleep", NEW why \in Reasons, Ended(why)
  PROVE  /\ OnTheLadder' /\ PacedRetries'
         /\ {reconnect_in, sleep_time, told}' \subseteq Nat /\ row' \in 0 .. 7
         /\ reason' \in Reasons /\ refusal' \in {"never", "last", "before", "earlier"}
         /\ pc' \in {"sleep", "stopped"}
<1>1. /\ row \in 0 .. 7 /\ reconnect_in \in Nat
      /\ refusal \in {"never", "last", "before", "earlier"}
  BY DEF TypeOK
<1>2. /\ reason' = why /\ told' = sleep_time'
      /\ row' = IF row < 7 THEN row + 1 ELSE row
      /\ pc' \in {"sleep", "stopped"}
  BY DEF Ended
<1>3. Refused = 300000
  BY DEF Refused
<1>4. CASE why = "unauthorized"
  <2>1. refusal' = "last" /\ sleep_time' = Refused /\ reconnect_in' = Refused
    BY <1>4 DEF Ended, Backoff
  <2>2. OnTheLadder'
    BY <2>1 DEF OnTheLadder
  <2>3. PacedRetries'
    BY <1>2, <2>1 DEF PacedRetries, Pace, PromiseKept
  <2> QED BY <1>1, <1>2, <1>3, <2>1, <2>2, <2>3
<1>5. CASE why # "unauthorized"
  <2>1. sleep_time' = reconnect_in /\ reconnect_in' = Longer(reconnect_in)
    BY <1>5 DEF Ended, Backoff
  <2>2. CASE refusal = "never"
    <3>1. refusal' = "never"
      BY <1>5, <2>2 DEF Ended
    <3>2. /\ sleep_time' \in Nat /\ reconnect_in' \in Nat /\ row' \in 1 .. 7
          /\ sleep_time' = Ladder[row'] /\ sleep_time' <= reconnect_in'
          /\ reconnect_in' = IF row' < 7 THEN Ladder[row' + 1] ELSE 30000
      <4>1. row \in {0, 1, 2, 3, 4, 5, 6, 7}
        BY <1>1
      <4> QED BY <1>2, <2>1, <2>2, <4>1, Steps, Climb DEF OnTheLadder
    <3>3. OnTheLadder'
      BY <3>1, <3>2 DEF OnTheLadder
    <3>4. PacedRetries'
      BY <1>2, <3>1, <3>2 DEF PacedRetries, Pace, PromiseKept, Status
    <3> QED BY <1>1, <1>2, <3>1, <3>2, <3>3, <3>4
  <2>3. CASE refusal = "last"
    <3>1. refusal' = "before" /\ sleep_time' = Refused /\ reconnect_in' = 30000
      BY <1>5, <2>1, <2>3, Climb DEF Ended, OnTheLadder
    <3>2. OnTheLadder' /\ PacedRetries'
      BY <1>2, <3>1 DEF OnTheLadder, PacedRetries, Pace, PromiseKept
    <3> QED BY <1>1, <1>2, <1>3, <3>1, <3>2
  <2>4. CASE refusal \in {"before", "earlier"}
    <3>1. refusal' = "earlier" /\ sleep_time' = 30000 /\ reconnect_in' = 30000
      BY <1>5, <2>1, <2>4, Climb DEF Ended, OnTheLadder
    <3>2. OnTheLadder' /\ PacedRetries'
      BY <1>2, <3>1 DEF OnTheLadder, PacedRetries, Pace, PromiseKept, Status
    <3> QED BY <1>1, <1>2, <3>1, <3>2
  <2> QED BY <1>1, <2>2, <2>3, <2>4
<1> QED BY <1>4, <1>5

(***************************************************************************)
(* The invariant holds                                                     *)
(***************************************************************************)
(* The types of what start and backoff keep between the sessions.            *)
WaitOK ==
  /\ {reconnect_in, sleep_time, told} \subseteq Nat /\ row \in 0 .. 7
  /\ reason \in Reasons \cup {"none"}
  /\ refusal \in {"never", "last", "before", "earlier"}

LEMMA Starts == Init => Inv
<1> SUFFICES ASSUME Init PROVE Inv
  OBVIOUS
<1>1. BeatTypeOK /\ BeatInv
  BY BeginsWell DEF Init
<1>2. TypeOK
  <2>1. stopping \in BOOLEAN
    BY DEF Init
  <2>2. AuthTimeout \in Nat /\ MaxEvents \in Nat
    BY AuthAssumption DEF AuthAssumption
  <2> QED BY <1>1, <2>1, <2>2 DEF Init, TypeOK
<1>3. OnTheLadder /\ PacedRetries
  BY DEF Init, OnTheLadder, PacedRetries
<1>4. AuthInv
  BY AuthAssumption DEF Init, AuthInv, AuthAssumption
<1> QED BY <1>1, <1>2, <1>3, <1>4 DEF Inv

(* The intervals are the same, and the thread does not go to sleep.          *)
LEMMA WaitStutters ==
  ASSUME TypeOK, OnTheLadder, PacedRetries, UNCHANGED <<waitVars, reason>>, pc' \in {pc, "auth"}
  PROVE  OnTheLadder' /\ PacedRetries' /\ WaitOK'
<1>1. UNCHANGED <<reconnect_in, sleep_time, told, row, refusal, reason>>
  BY DEF waitVars
<1>2. WaitOK'
  BY <1>1 DEF TypeOK, WaitOK
<1>3. OnTheLadder'
  BY <1>1 DEF OnTheLadder
<1>4. PacedRetries'
  <2> SUFFICES ASSUME pc' = "sleep" PROVE sleep_time' = Pace' /\ PromiseKept'
    BY DEF PacedRetries
  <2>1. pc = "sleep"
    OBVIOUS
  <2>2. Pace' = Pace
    BY <1>1 DEF Pace
  <2>3. Status' = Status
    BY <1>1, <2>1 DEF Status
  <2> QED BY <1>1, <2>1, <2>2, <2>3 DEF PacedRetries, PromiseKept
<1> QED BY <1>2, <1>3, <1>4

(* A session, or an attempt at one, ends.                                   *)
LEMMA EndKeeps ==
  ASSUME Inv, pc # "sleep", NEW why \in Reasons, Ended(why), UNCHANGED stopping,
         BeatTypeOK' /\ BeatInv', AuthOver \/ UNCHANGED authVars
  PROVE  Inv'
<1>1. /\ OnTheLadder' /\ PacedRetries'
      /\ {reconnect_in, sleep_time, told}' \subseteq Nat /\ row' \in 0 .. 7
      /\ reason' \in Reasons /\ refusal' \in {"never", "last", "before", "earlier"}
      /\ pc' \in {"sleep", "stopped"}
  BY EndSteps DEF Inv
<1>2. /\ since_event' \in 0 .. AuthTimeout /\ auth_for' \in Nat /\ events' \in 0 .. MaxEvents
      /\ AuthInv'
  BY AuthAssumption DEF AuthAssumption, Inv, TypeOK, AuthInv, AuthOver, authVars
<1>3. TypeOK'
  BY <1>1, <1>2 DEF TypeOK, Inv
<1> QED BY <1>1, <1>2, <1>3 DEF Inv

LEMMA ConnectKeeps == Inv /\ Connect => Inv'
<1> SUFFICES ASSUME Inv, Connect PROVE Inv'
  OBVIOUS
<1>1. BeatTypeOK' /\ BeatInv'
  BY BeatStutters DEF Inv, TypeOK, Connect
<1>2. CASE Ended("force_close")
  BY <1>1, <1>2, EndKeeps DEF Connect, Reasons
<1>3. CASE pc' = "auth" /\ UNCHANGED <<waitVars, reason>>
  <2>1. OnTheLadder' /\ PacedRetries' /\ WaitOK'
    BY <1>3, WaitStutters DEF Inv
  <2>2. TypeOK'
    BY <1>1, <1>3, <2>1 DEF Inv, TypeOK, WaitOK, Connect, authVars
  <2>3. AuthInv'
    BY DEF Inv, AuthInv, Connect, authVars
  <2> QED BY <1>1, <2>1, <2>2, <2>3 DEF Inv
<1> QED BY <1>2, <1>3 DEF Connect

LEMMA AuthEventKeeps == Inv /\ AuthEvent => Inv'
<1> SUFFICES ASSUME Inv, AuthEvent PROVE Inv'
  OBVIOUS
<1>1. BeatTypeOK' /\ BeatInv'
  BY BeatStutters DEF Inv, TypeOK, AuthEvent
<1>2. OnTheLadder' /\ PacedRetries' /\ WaitOK'
  BY WaitStutters DEF Inv, AuthEvent
<1>3. events \in Nat /\ since_event \in 0 .. AuthTimeout /\ auth_for \in Nat
      /\ AuthTimeout \in Nat /\ MaxEvents \in Nat
  BY AuthAssumption DEF Inv, TypeOK, AuthAssumption
<1>4. TypeOK'
  BY <1>1, <1>2, <1>3 DEF Inv, TypeOK, WaitOK, AuthEvent
<1>5. AuthInv'
  <2>1. AuthTimeout * (events + 1) = AuthTimeout * events + AuthTimeout
    BY <1>3
  <2>2. AuthTimeout * events \in Nat
    BY <1>3
  <2>3. auth_for <= AuthTimeout * events + since_event
    BY DEF Inv, AuthInv
  <2>4. auth_for <= AuthTimeout * (events + 1) + 0
    BY <1>3, <2>1, <2>2, <2>3
  <2> QED BY <2>4 DEF AuthInv, AuthEvent
<1> QED BY <1>1, <1>2, <1>4, <1>5 DEF Inv

LEMMA AuthPassKeeps == Inv /\ AuthPass => Inv'
<1> SUFFICES ASSUME Inv, AuthPass PROVE Inv'
  OBVIOUS
<1>1. BeatTypeOK' /\ BeatInv'
  BY BeatStutters DEF Inv, TypeOK, AuthPass
<1>2. OnTheLadder' /\ PacedRetries' /\ WaitOK'
  BY WaitStutters DEF Inv, AuthPass
<1>3. events \in Nat /\ since_event \in 0 .. AuthTimeout /\ auth_for \in Nat
      /\ AuthTimeout \in Nat
  BY AuthAssumption DEF Inv, TypeOK, AuthAssumption
<1>4. TypeOK'
  BY <1>1, <1>2, <1>3 DEF Inv, TypeOK, WaitOK, AuthPass
<1>5. AuthInv'
  <2>1. AuthTimeout * events \in Nat
    BY <1>3
  <2> QED BY <1>3, <2>1 DEF Inv, AuthInv, AuthPass
<1> QED BY <1>1, <1>2, <1>4, <1>5 DEF Inv

LEMMA AuthFailsKeeps == Inv /\ AuthFails => Inv'
<1> SUFFICES ASSUME Inv, AuthFails PROVE Inv'
  OBVIOUS
<1>1. BeatTypeOK' /\ BeatInv'
  BY BeatStutters DEF Inv, TypeOK, AuthFails
<1>2. PICK why \in Reasons : Ended(why)
  BY DEF AuthFails, Reasons
<1> QED BY <1>1, <1>2, EndKeeps DEF AuthFails

LEMMA AuthenticatedKeeps == Inv /\ Authenticated => Inv'
<1> SUFFICES ASSUME Inv, Authenticated PROVE Inv'
  OBVIOUS
<1>1. BeatTypeOK' /\ BeatInv'
  BY StartsWell DEF Authenticated
<1>2. TypeOK' /\ AuthInv'
  BY <1>1, AuthAssumption
     DEF Inv, TypeOK, AuthInv, Authenticated, AuthOver, AuthAssumption
<1>3. OnTheLadder' /\ PacedRetries'
  BY DEF Authenticated, OnTheLadder, PacedRetries
<1> QED BY <1>1, <1>2, <1>3 DEF Inv

LEMMA BeatsKeeps == Inv /\ Beats => Inv'
<1> SUFFICES ASSUME Inv, Beats PROVE Inv'
  OBVIOUS
<1>1. BeatTypeOK' /\ BeatInv'
  BY BeatType, BeatKeeps DEF Inv, TypeOK, Beats
<1>2. OnTheLadder' /\ PacedRetries' /\ WaitOK'
  BY WaitStutters DEF Inv, Beats
<1>3. TypeOK' /\ AuthInv'
  BY <1>1, <1>2 DEF Inv, TypeOK, WaitOK, AuthInv, Beats, authVars
<1> QED BY <1>1, <1>2, <1>3 DEF Inv

LEMMA SessionEndsKeeps == Inv /\ SessionEnds => Inv'
<1> SUFFICES ASSUME Inv, SessionEnds PROVE Inv'
  OBVIOUS
<1>1. BeatTypeOK' /\ BeatInv'
  BY StartsWell DEF SessionEnds
<1>2. PICK why \in Reasons : Ended(why)
  BY DEF SessionEnds
<1> QED BY <1>1, <1>2, EndKeeps DEF SessionEnds

LEMMA WakeUpKeeps == Inv /\ WakeUp => Inv'
<1> SUFFICES ASSUME Inv, WakeUp PROVE Inv'
  OBVIOUS
<1>1. BeatTypeOK' /\ BeatInv'
  BY BeatStutters DEF Inv, TypeOK, WakeUp
<1>2. TypeOK' /\ AuthInv'
  BY <1>1 DEF Inv, TypeOK, AuthInv, WakeUp, authVars
<1>3. OnTheLadder' /\ PacedRetries'
  BY DEF Inv, WakeUp, OnTheLadder, PacedRetries
<1> QED BY <1>1, <1>2, <1>3 DEF Inv

LEMMA StillKeeps == Inv /\ (Stop \/ UNCHANGED vars) => Inv'
<1> SUFFICES ASSUME Inv, Stop \/ UNCHANGED vars PROVE Inv'
  OBVIOUS
<1>1. /\ UNCHANGED beatVars /\ UNCHANGED authVars /\ UNCHANGED <<waitVars, reason>>
      /\ pc' = pc /\ stopping' \in BOOLEAN
  BY DEF Stop, vars, Inv, TypeOK
<1>2. BeatTypeOK' /\ BeatInv'
  BY <1>1, BeatStutters DEF Inv, TypeOK
<1>3. OnTheLadder' /\ PacedRetries' /\ WaitOK'
  BY <1>1, WaitStutters DEF Inv
<1>4. TypeOK' /\ AuthInv'
  BY <1>1, <1>2, <1>3 DEF Inv, TypeOK, WaitOK, AuthInv, authVars
<1> QED BY <1>2, <1>3, <1>4 DEF Inv

LEMMA StepKeeps == Inv /\ [Next]_vars => Inv'
  BY ConnectKeeps, AuthEventKeeps, AuthPassKeeps, AuthFailsKeeps, AuthenticatedKeeps,
     BeatsKeeps, SessionEndsKeeps, WakeUpKeeps, StillKeeps DEF Next

LEMMA Always == Spec => []Inv
  BY Starts, StepKeeps, PTL DEF Spec

(* The invariant of silence, on top of the others.                          *)
LEMMA StartsPatient ==
  ASSUME BeatInit
  PROVE  SilenceInv
  BY Clocks, BacklogType, Room, FS_EmptySet
  DEF BeatInit, SilenceInv, Spaced, FewAnswers, Patience

LEMMA RestartsPatient ==
  ASSUME StartTimer
  PROVE  SilenceInv'
<1>1. Backlog' = Backlog
  BY DEF Backlog
<1> QED BY <1>1, Clocks, BacklogType, Room, FS_EmptySet
        DEF StartTimer, SilenceInv, Spaced, FewAnswers, Patience

LEMMA StaysPatient ==
  ASSUME SilenceInv, UNCHANGED beatVars
  PROVE  SilenceInv'
  BY DEF beatVars, clocks, peer, SilenceInv, Spaced, FewAnswers, Patience, Backlog

LEMMA StepPatient == Inv /\ SilenceInv /\ [Next]_vars => SilenceInv'
<1> SUFFICES ASSUME Inv, SilenceInv, [Next]_vars PROVE SilenceInv'
  OBVIOUS
<1>1. CASE Beats
  <2>1. BeatTypeOK
    BY DEF Inv, TypeOK
  <2> QED BY <1>1, <2>1, TimerPatient, PongPatient, SilencePatient, PassPatient DEF Beats, Beat
<1>2. CASE Authenticated \/ SessionEnds
  BY <1>2, RestartsPatient DEF Authenticated, SessionEnds
<1>3. CASE ~(Beats \/ Authenticated \/ SessionEnds)
  <2>1. UNCHANGED beatVars
    BY <1>3 DEF Next, vars, Connect, AuthEvent, AuthPass, AuthFails, WakeUp, Stop
  <2> QED BY <2>1, StaysPatient
<1> QED BY <1>1, <1>2, <1>3

LEMMA AlwaysPatient == Spec => []SilenceInv
<1>1. Init => SilenceInv
  BY StartsPatient DEF Init
<1> QED BY <1>1, StepPatient, Always, PTL DEF Spec

(***************************************************************************)
(* Theorems                                                                *)
(***************************************************************************)
\* The variables of the client and of its timer keep to their ranges.
THEOREM ReconnectType == Spec => []TypeOK
<1>1. Inv => TypeOK
  BY DEF Inv
<1> QED BY <1>1, Always, PTL

\* timer_proc never ends the session of a server whose acknowledgements take
\* at most Delay, for all periods with HeartbeatEvery + Lag + Delay below
\* GiveUpAfter.
THEOREM LiveServerIsKept == Spec => []LiveServerKept
<1>1. Inv => LiveServerKept
  BY DEF Inv, BeatInv
<1> QED BY <1>1, Always, PTL

\* timer_proc gives a session up only after it asked for two heartbeats in
\* vain, whatever became of them.
THEOREM SeveralMissed == Spec => []GivesUpAfterSeveral
<1>1. Inv => GivesUpAfterSeveral
  BY DEF Inv, BeatInv
<1> QED BY <1>1, Always, PTL

\* A server that fell silent is given up after GiveUpAfter and one run of the
\* timer for each acknowledgement it can have left, which are no more than
\* the heartbeats that fit into Delay.
THEOREM SilenceIsNoticed == Spec => []SilentServerNoticed
<1>1. Inv /\ SilenceInv => SilentServerNoticed
  <2> SUFFICES ASSUME Inv, SilenceInv, over = "no"
               PROVE  silent_for < GiveUpAfter + Lag * (1 + Backlog)
    BY DEF SilentServerNoticed
  <2>1. /\ since_run \in 0 .. Lag /\ pings \in Nat /\ silent_for \in Nat /\ since_ack \in Nat
        /\ Patience
    BY DEF Inv, SilenceInv, TypeOK, BeatTypeOK
  <2>2. Backlog * Lag \in Nat /\ Lag * (1 + Backlog) = Backlog * Lag + Lag
    BY BacklogType, Clocks
  <2>3. CASE pings = 0
    BY <2>1, <2>2, <2>3, Clocks DEF Patience
  <2>4. CASE pings > 0
    <3>1. (Backlog - pings) * Lag + pings * Lag = Backlog * Lag /\ pings * Lag \in Nat
      BY <2>1, BacklogType, Clocks
    <3>2. (Backlog - pings) * Lag \in Int
      BY <2>1, BacklogType, Clocks
    <3> QED BY <2>1, <2>2, <2>4, <3>1, <3>2, Clocks, Room DEF Patience
  <2> QED BY <2>1, <2>3, <2>4
<1> QED BY <1>1, Always, AlwaysPatient, PTL

\* start sleeps the intervals of backoff in order, over any sequence of
\* refusals, failures and sessions, and what it tells of them is true.
THEOREM RetriesArePaced == Spec => []PacedRetries
<1>1. Inv => PacedRetries
  BY DEF Inv
<1> QED BY <1>1, Always, PTL

\* wait_for_authentication takes ten seconds for each event, and ten more.
THEOREM AuthIsBounded == Spec => []AuthBounded
<1>1. Inv => AuthBounded
  <2> SUFFICES ASSUME Inv PROVE AuthBounded
    OBVIOUS
  <2>1. events \in Nat /\ since_event \in 0 .. AuthTimeout /\ auth_for \in Nat
        /\ AuthTimeout \in Nat
    BY AuthAssumption DEF Inv, TypeOK, AuthAssumption
  <2>2. AuthTimeout * (1 + events) = AuthTimeout + AuthTimeout * events
    BY <2>1
  <2>3. AuthTimeout * events \in Nat
    BY <2>1
  <2> QED BY <2>1, <2>2, <2>3 DEF Inv, AuthInv, AuthBounded
<1> QED BY <1>1, Always, PTL
=============================================================================
