--------------------------- MODULE SdkMail_proofs ---------------------------
(***************************************************************************)
(* Proofs about SdkMail, for any number of mails, events and faults and all   *)
(* depths of the calls.                                                    *)
(*                                                                         *)
(* OutcomeIsHandlers speaks of what was done.  The invariant says it of what  *)
(* is going to be done: every call in progress, at whatever depth, is on a    *)
(* mail that arrived, for an operation that was decided on or a failure that  *)
(* was noted.  For Python it adds that a mail in hand is still in the mailbox, *)
(* and one that was settled is not, which needs that there is one thread.    *)
(***************************************************************************)
EXTENDS SdkMail, Integers, SequenceTheorems, TLAPS

(***************************************************************************)
(* The invariant                                                           *)
(***************************************************************************)
Ops   == {"ack", "reject", "requeue"}
Tops  == {"next", "fetched", "handle", "op", "auto"}
Mores == {"op_more", "auto_more"}
Calls == [step : Tops \cup Mores, mail : Mails \cup {None}, op : Ops \cup {None}]

Typed ==
  /\ sdk \in Sdks /\ mailbox \in Seq(Mails) /\ casts \in Seq(Mails)
  /\ stack \in [Chains -> Seq(Calls)]
  /\ outcome \in [Mails -> Ops \cup {None}] /\ chosen \in [Mails -> SUBSET Ops]
  /\ settled \subseteq Mails /\ unsure \subseteq Mails
Flags ==
  /\ link \in BOOLEAN /\ stream \in BOOLEAN /\ crashed \in BOOLEAN /\ gave_up \in BOOLEAN
  /\ events \in Nat /\ lost \subseteq Chains

\* No mail is in the mailbox twice.
OnceInMailbox == \A i, j \in 1 .. Len(mailbox) : mailbox[i] = mailbox[j] => i = j

Arrived(m) == outcome[m] # None \/ Queued(m)

\* May m be rejected by the code around the handler?
Excused(m) == "reject" \in chosen[m] \/ (sdk # "elixir" /\ m \in unsure)

TopRight(c) ==
  /\ c.step \in Tops
  /\ c.step \in {"handle", "op", "auto"} => c.mail \in Mails
  /\ c.mail \in Mails => Arrived(c.mail)
  /\ c.step = "op"   => c.op \in chosen[c.mail]
  /\ c.step = "auto" => c.op = "reject" /\ Excused(c.mail)
  /\ sdk = "python" /\ c.step \in {"fetched", "handle"} /\ c.mail \in Mails => Queued(c.mail)
MoreRight(c) == c.step \in Mores /\ c.mail \in Mails /\ Arrived(c.mail)

StackRight(s) ==
  /\ s # <<>> => TopRight(s[1])
  /\ \A i \in 2 .. Len(s) : MoreRight(s[i])
  /\ sdk = "elixir" => Len(s) <= 1

CallsRight == \A a \in Chains : StackRight(stack[a])
CastsRight == /\ sdk # "elixir" => casts = <<>>
              /\ \A i \in 1 .. Len(casts) : Arrived(casts[i])
OneThread  == sdk = "python" => \A a \in Chains \ {EventsProc} : stack[a] = <<>>
\* What Python was told is gone is gone for good.
SettledGone ==
  /\ \A m \in settled : outcome[m] # None /\ ~Queued(m)
  /\ sdk # "python" => settled = {}

IInv == /\ Typed /\ Flags /\ OnceInMailbox /\ CallsRight /\ CastsRight /\ OneThread
        /\ SettledGone /\ OutcomeIsHandlers /\ NoRepeat

(***************************************************************************)
(* The mailbox                                                             *)
(***************************************************************************)
LEMMA NoneIsNoOp == None \notin Ops /\ None \notin Mails /\ "reject" \in Ops /\ Decisions \subseteq Ops
  BY SdkAssumption DEF Ops, Mails

(* RemoveFirst takes the one place out at which the mail is.                *)
LEMMA RemoveOnly ==
  ASSUME NEW S, NEW s \in Seq(S), NEW j \in 1 .. Len(s),
         \A i \in 1 .. Len(s) : s[i] = s[j] => i = j
  PROVE  RemoveFirst(s, s[j]) = SubSeq(s, 1, j - 1) \o SubSeq(s, j + 1, Len(s))
<1> DEFINE at == {i \in 1 .. Len(s) : s[i] = s[j]}
<1>1. at = {j}
  OBVIOUS
<1>2. Min(at) = j
  <2> HIDE DEF at
  <2>1. \A x \in {j} : x <= j
    OBVIOUS
  <2> QED BY <1>1, <2>1 DEF Min
<1>3. SelectInSeq(s, LAMBDA v : v = s[j]) = j
  BY <1>1, <1>2 DEF SelectInSeq
<1>4. \E i \in 1 .. Len(s) : s[i] = s[j]
  OBVIOUS
<1> QED BY <1>3, <1>4 DEF RemoveFirst, RemoveAt

(* The sequence without its j-th element.                                   *)
LEMMA Gap ==
  ASSUME NEW n \in Nat, NEW j \in 1 .. n
  PROVE  /\ (IF 1 <= j - 1 THEN (j - 1) - 1 + 1 ELSE 0) = j - 1
         /\ (IF j + 1 <= n THEN n - (j + 1) + 1 ELSE 0) = n - j
         /\ (j - 1) + (n - j) = n - 1
         /\ \A i \in 1 .. n - 1 :
              /\ i < j => i <= j - 1 /\ i \in 1 .. (j - 1) - 1 + 1 /\ 1 + i - 1 = i
              /\ ~(i < j) => /\ ~(i <= j - 1) /\ i - (j - 1) \in 1 .. n - (j + 1) + 1
                             /\ j + 1 + (i - (j - 1)) - 1 = i + 1
  OBVIOUS

LEMMA Without ==
  ASSUME NEW S, NEW s \in Seq(S), NEW j \in 1 .. Len(s),
         NEW r, r = SubSeq(s, 1, j - 1) \o SubSeq(s, j + 1, Len(s))
  PROVE  /\ r \in Seq(S) /\ Len(r) = Len(s) - 1
         /\ \A i \in 1 .. Len(r) : r[i] = IF i < j THEN s[i] ELSE s[i + 1]
<1> DEFINE A == SubSeq(s, 1, j - 1)
           B == SubSeq(s, j + 1, Len(s))
<1>1. PICK n \in Nat : n = Len(s)
  OBVIOUS
<1>2. j \in 1 .. n /\ \A i \in 1 .. n : s[i] \in S
  BY <1>1
<1>3. /\ A \in Seq(S) /\ Len(A) = IF 1 <= j - 1 THEN (j - 1) - 1 + 1 ELSE 0
      /\ \A i \in 1 .. (j - 1) - 1 + 1 : A[i] = s[1 + i - 1]
  <2>1. 1 \in Int /\ j - 1 \in Int /\ \A i \in 1 .. j - 1 : s[i] \in S
    BY <1>2
  <2> QED BY <2>1, SubSeqProperties
<1>4. /\ B \in Seq(S) /\ Len(B) = IF j + 1 <= n THEN n - (j + 1) + 1 ELSE 0
      /\ \A i \in 1 .. n - (j + 1) + 1 : B[i] = s[j + 1 + i - 1]
  <2>1. j + 1 \in Int /\ n \in Int /\ \A i \in j + 1 .. n : s[i] \in S
    BY <1>2
  <2> QED BY <2>1, <1>1, SubSeqProperties
<1>5. /\ A \o B \in Seq(S) /\ Len(A \o B) = Len(A) + Len(B)
      /\ \A i \in 1 .. Len(A) + Len(B) : (A \o B)[i] = IF i <= Len(A) THEN A[i] ELSE B[i - Len(A)]
  <2> HIDE DEF A, B
  <2> QED BY <1>3, <1>4, ConcatProperties
<1>6. r = A \o B
  OBVIOUS
<1> HIDE DEF A, B
<1>7. Len(A) = j - 1 /\ Len(A) + Len(B) = n - 1
  BY <1>2, <1>3, <1>4, Gap
<1>8. r \in Seq(S) /\ Len(r) = n - 1
  BY <1>5, <1>6, <1>7
<1>9. ASSUME NEW i \in 1 .. n - 1 PROVE r[i] = IF i < j THEN s[i] ELSE s[i + 1]
  <2>1. r[i] = IF i <= j - 1 THEN A[i] ELSE B[i - (j - 1)]
    BY <1>5, <1>6, <1>7
  <2>2. CASE i < j
    <3>1. i <= j - 1 /\ i \in 1 .. (j - 1) - 1 + 1 /\ 1 + i - 1 = i
      BY <2>2, <1>2, Gap
    <3> QED BY <3>1, <2>1, <2>2, <1>3
  <2>3. CASE ~(i < j)
    <3>1. ~(i <= j - 1) /\ i - (j - 1) \in 1 .. n - (j + 1) + 1 /\ j + 1 + (i - (j - 1)) - 1 = i + 1
      BY <2>3, <1>2, Gap
    <3> QED BY <3>1, <2>1, <2>3, <1>4
  <2> QED BY <2>2, <2>3
<1> QED BY <1>1, <1>8, <1>9

LEMMA Removed ==
  ASSUME NEW m \in Mails, mailbox \in Seq(Mails), OnceInMailbox, Queued(m),
         NEW r, r = RemoveFirst(mailbox, m)
  PROVE  /\ r \in Seq(Mails)
         /\ \A i, j \in 1 .. Len(r) : r[i] = r[j] => i = j
         /\ \A x : Contains(r, x) <=> Contains(mailbox, x) /\ x # m
<1>1. PICK k \in 1 .. Len(mailbox) : mailbox[k] = m
  BY DEF Queued, Contains
<1>2. r = SubSeq(mailbox, 1, k - 1) \o SubSeq(mailbox, k + 1, Len(mailbox))
  BY <1>1, RemoveOnly DEF OnceInMailbox
<1>3. /\ r \in Seq(Mails) /\ Len(r) = Len(mailbox) - 1
      /\ \A i \in 1 .. Len(r) : r[i] = IF i < k THEN mailbox[i] ELSE mailbox[i + 1]
  <2>1. mailbox \in Seq(Mails)
    OBVIOUS
  <2> QED BY ONLY <1>2, <2>1, Without
<1>4. Len(mailbox) \in Nat /\ Len(r) \in Nat /\ k \in Nat
  BY <1>3
<1>5. \A i, j \in 1 .. Len(r) : r[i] = r[j] => i = j
  BY <1>3, <1>4 DEF OnceInMailbox
<1>6. ASSUME NEW x, Contains(r, x) PROVE Contains(mailbox, x) /\ x # m
  BY <1>1, <1>3, <1>4, <1>6 DEF OnceInMailbox, Contains
<1>7. ASSUME NEW x, Contains(mailbox, x), x # m PROVE Contains(r, x)
  <2>1. PICK i \in 1 .. Len(mailbox) : mailbox[i] = x
    BY <1>7 DEF Contains
  <2>2. CASE i < k
    BY <2>1, <2>2, <1>3, <1>4 DEF Contains
  <2>3. CASE i > k
    <3>1. i - 1 \in 1 .. Len(r) /\ ~(i - 1 < k) /\ (i - 1) + 1 = i
      BY <2>3, <1>3, <1>4
    <3> QED BY <3>1, <2>1, <1>3 DEF Contains
  <2> QED BY <2>1, <2>2, <2>3, <1>1, <1>4, <1>7
<1> QED BY <1>3, <1>5, <1>6, <1>7

LEMMA Appended ==
  ASSUME NEW s \in Seq(Mails), NEW m \in Mails
  PROVE  /\ Append(s, m) \in Seq(Mails)
         /\ \A x : Contains(Append(s, m), x) <=> Contains(s, x) \/ x = m
         /\ (\A i, j \in 1 .. Len(s) : s[i] = s[j] => i = j) /\ ~Contains(s, m)
              => \A i, j \in 1 .. Len(Append(s, m)) :
                   Append(s, m)[i] = Append(s, m)[j] => i = j
<1>1. /\ Append(s, m) \in Seq(Mails) /\ Len(s) \in Nat /\ Len(Append(s, m)) = Len(s) + 1
      /\ Append(s, m)[Len(s) + 1] = m
      /\ \A i \in 1 .. Len(s) : Append(s, m)[i] = s[i]
  OBVIOUS
<1>2. \A x : Contains(Append(s, m), x) <=> Contains(s, x) \/ x = m
  BY <1>1 DEF Contains
<1> QED BY <1>1, <1>2 DEF Contains

(***************************************************************************)
(* What an operation does at the server: nothing to other mails, and m is    *)
(* gone unless it was requeued; nothing comes back.                         *)
(***************************************************************************)
ServerDid(op, m) ==
  /\ mailbox' \in Seq(Mails) /\ OnceInMailbox' /\ outcome' \in [Mails -> Ops \cup {None}]
  /\ \A x \in Mails : /\ Queued(x)' => Queued(x)
                      /\ x # m /\ Queued(x) => Queued(x)'
                      /\ outcome'[x] # outcome[x] => x = m /\ outcome'[x] = op
                      /\ Arrived(x) => Arrived(x)'
                      /\ outcome[x] # None /\ ~Queued(x) => outcome'[x] # None

LEMMA ApplyDoes ==
  ASSUME Typed, OnceInMailbox, NEW op \in Ops, NEW m \in Mails, Apply(op, m)
  PROVE  /\ ServerDid(op, m)
         /\ op # "requeue" => ~Queued(m)' /\ (Arrived(m) => outcome'[m] # None)
<1> DEFINE r == RemoveFirst(mailbox, m)
<1>0. mailbox \in Seq(Mails) /\ outcome \in [Mails -> Ops \cup {None}]
  BY DEF Typed
<1>1. CASE ~Queued(m)
  BY <1>0, <1>1 DEF Apply, ServerDid, Queued, OnceInMailbox, Arrived
<1>2. CASE Queued(m) /\ op = "requeue"
  <2>1. mailbox' = Append(r, m) /\ outcome' = [outcome EXCEPT ![m] = outcome[m]]
    BY <1>2 DEF Apply
  <2>2. outcome' = outcome
    BY <2>1, <1>0
  <2>3. /\ r \in Seq(Mails) /\ \A i, j \in 1 .. Len(r) : r[i] = r[j] => i = j
        /\ \A x : Contains(r, x) <=> Contains(mailbox, x) /\ x # m
    BY <1>0, <1>2, Removed
  <2>4. /\ mailbox' \in Seq(Mails)
        /\ \A x : Contains(mailbox', x) <=> Contains(r, x) \/ x = m
        /\ \A i, j \in 1 .. Len(mailbox') : mailbox'[i] = mailbox'[j] => i = j
    <3> HIDE DEF r
    <3> QED BY <2>1, <2>3, Appended
  <2> QED BY <1>0, <1>2, <2>2, <2>3, <2>4 DEF ServerDid, Queued, OnceInMailbox, Arrived
<1>3. CASE Queued(m) /\ op # "requeue"
  <2>1. mailbox' = r /\ outcome' = [outcome EXCEPT ![m] = op]
    BY <1>3 DEF Apply
  <2>2. /\ r \in Seq(Mails) /\ \A i, j \in 1 .. Len(r) : r[i] = r[j] => i = j
        /\ \A x : Contains(r, x) <=> Contains(mailbox, x) /\ x # m
    BY <1>0, <1>3, Removed
  <2>3. outcome'[m] = op /\ op # None /\ \A x \in Mails : x # m => outcome'[x] = outcome[x]
    BY <2>1, <1>0, NoneIsNoOp
  <2>4. outcome' \in [Mails -> Ops \cup {None}]
    BY <2>1, <1>0
  <2> HIDE DEF r
  <2>5. ~Queued(m)' /\ \A x : x # m => (Queued(x)' <=> Queued(x))
    BY <2>1, <2>2 DEF Queued
  <2>6. mailbox' \in Seq(Mails) /\ OnceInMailbox'
    BY <2>1, <2>2 DEF OnceInMailbox
  <2>7. \A x \in Mails : Arrived(x) => Arrived(x)'
    BY <2>3, <2>5 DEF Arrived
  <2> QED BY <1>3, <2>3, <2>4, <2>5, <2>6, <2>7 DEF ServerDid
<1> QED BY <1>1, <1>2, <1>3

(***************************************************************************)
(* The calls                                                               *)
(***************************************************************************)
\* The histories only grow, and what arrived has arrived.
Grows ==
  /\ sdk' = sdk /\ unsure \subseteq unsure'
  /\ \A m \in Mails : chosen[m] \subseteq chosen'[m] /\ (Arrived(m) => Arrived(m)')

\* The calls below the innermost one.
MoresRight(t) ==
  /\ t \in Seq(Calls) /\ \A i \in 1 .. Len(t) : MoreRight(t[i])
  /\ sdk = "elixir" => t = <<>>

LEMMA MoresStay ==
  ASSUME NEW CONSTANT t, Grows, MoresRight(t)
  PROVE  MoresRight(t)'
  BY DEF Grows, MoresRight, MoreRight

LEMMA StackStays ==
  ASSUME NEW CONSTANT s, Grows, StackRight(s),
         sdk = "python" => s = <<>> \/ \A m \in Mails : Queued(m) => Queued(m)'
  PROVE  StackRight(s)'
<1>1. \A i \in 2 .. Len(s) : MoreRight(s[i])'
  BY DEF Grows, StackRight, MoreRight
<1>2. ASSUME s # <<>> PROVE TopRight(s[1])'
  <2>1. TopRight(s[1])
    BY <1>2 DEF StackRight
  <2> QED BY <2>1, <1>2 DEF TopRight, Grows, Excused
<1> QED BY <1>1, <1>2 DEF StackRight, Grows

LEMMA OneMore ==
  ASSUME NEW c \in Calls, NEW t \in Seq(Calls)
  PROVE  /\ \E s \in Seq(Calls) : s = <<c>>
         /\ \E s \in Seq(Calls) : s = <<c>> \o t
<1>1. <<c>> \in Seq(Calls) /\ <<c>> \o t \in Seq(Calls)
  OBVIOUS
<1> QED BY <1>1

LEMMA Stacked ==
  ASSUME NEW CONSTANT c \in Calls, NEW CONSTANT t, MoresRight(t)', TopRight(c)'
  PROVE  StackRight(<<c>> \o t)'
<1>1. t \in Seq(Calls) /\ Len(t) \in Nat
  BY DEF MoresRight
<1>2. /\ <<c>> \o t \in Seq(Calls) /\ Len(<<c>> \o t) = 1 + Len(t) /\ (<<c>> \o t)[1] = c
      /\ \A i \in 2 .. 1 + Len(t) : (<<c>> \o t)[i] = t[i - 1]
  BY <1>1
<1>3. ASSUME NEW i \in 2 .. 1 + Len(t) PROVE MoreRight((<<c>> \o t)[i])'
  <2>1. i - 1 \in 1 .. Len(t)
    BY <1>1
  <2>2. MoreRight(t[i - 1])'
    BY <2>1 DEF MoresRight
  <2> QED BY <2>2, <1>2
<1>4. sdk' = "elixir" => Len(t) = 0
  BY DEF MoresRight
<1> QED BY <1>1, <1>2, <1>3, <1>4 DEF StackRight

LEMMA Empty == MoresRight(<<>>) /\ StackRight(<<>>) /\ <<>> \in Seq(Calls)
  BY DEF MoresRight, StackRight

LEMMA Unstacked ==
  ASSUME Typed, CallsRight, NEW a \in Chains, ~Idle(a)
  PROVE  Top(a) \in Calls /\ TopRight(Top(a)) /\ MoresRight(Rest(a)) /\ Top(a).step \in Tops
<1>1. stack[a] \in Seq(Calls) /\ stack[a] # <<>> /\ StackRight(stack[a])
  BY DEF Typed, CallsRight, Idle
<1>2. Top(a) \in Calls /\ Top(a) = stack[a][1] /\ Rest(a) \in Seq(Calls)
      /\ Len(Rest(a)) = Len(stack[a]) - 1 /\ Len(stack[a]) \in Nat /\ Len(stack[a]) >= 1
      /\ \A i \in 1 .. Len(Rest(a)) : Rest(a)[i] = stack[a][i + 1]
  BY <1>1 DEF Top, Rest
<1>3. TopRight(Top(a))
  BY <1>1, <1>2 DEF StackRight
<1>4. \A i \in 1 .. Len(Rest(a)) : MoreRight(Rest(a)[i])
  <2> TAKE i \in 1 .. Len(Rest(a))
  <2>1. i + 1 \in 2 .. Len(stack[a])
    BY <1>2
  <2> QED BY <2>1, <1>1, <1>2 DEF StackRight
<1>5. ASSUME sdk = "elixir" PROVE Rest(a) = <<>>
  <2>1. Len(stack[a]) <= 1
    BY <1>1, <1>5 DEF StackRight
  <2>2. PICK n \in Nat : n = Len(stack[a])
    BY <1>2
  <2>3. n >= 1 /\ n <= 1 /\ Len(Rest(a)) = n - 1
    BY <1>2, <2>1, <2>2
  <2>4. Len(Rest(a)) = 0
    BY <2>3
  <2> QED BY <1>2, <2>4
<1> QED BY <1>2, <1>3, <1>4, <1>5 DEF MoresRight, TopRight

LEMMA MoresTail ==
  ASSUME NEW t, MoresRight(t), t # <<>>
  PROVE  MoreRight(Head(t)) /\ MoresRight(Tail(t)) /\ Head(t) \in Calls
<1>1. /\ t \in Seq(Calls) /\ Head(t) = t[1] /\ Tail(t) \in Seq(Calls) /\ Len(Tail(t)) = Len(t) - 1
      /\ Head(t) \in Calls /\ Len(t) \in Nat /\ Len(t) >= 1
      /\ \A i \in 1 .. Len(Tail(t)) : Tail(t)[i] = t[i + 1]
  BY DEF MoresRight
<1>2. \A i \in 1 .. Len(Tail(t)) : MoreRight(Tail(t)[i])
  <2> TAKE i \in 1 .. Len(Tail(t))
  <2>1. i + 1 \in 1 .. Len(t)
    BY <1>1
  <2> QED BY <2>1, <1>1 DEF MoresRight
<1>3. 1 \in 1 .. Len(t)
  BY <1>1
<1> QED BY <1>1, <1>2, <1>3 DEF MoresRight

(***************************************************************************)
(* One of them moves, or none.                                             *)
(***************************************************************************)
Moved == CallsRight' /\ OneThread' /\ stack' \in [Chains -> Seq(Calls)]

LEMMA OneMoves ==
  ASSUME Typed, CallsRight, OneThread, Grows,
         NEW CONSTANT a \in Chains, sdk = "python" => a = EventsProc,
         NEW CONSTANT s \in Seq(Calls), Goto(a, s), StackRight(s)'
  PROVE  Moved
<1>1. stack' = [stack EXCEPT ![a] = s] /\ stack \in [Chains -> Seq(Calls)] /\ sdk' = sdk
  BY DEF Goto, Typed, Grows
<1>2. stack' \in [Chains -> Seq(Calls)]
  BY <1>1
<1>3. ASSUME NEW b \in Chains PROVE StackRight(stack[b])'
  <2>1. CASE b = a
    <3>1. stack'[b] = s
      BY <1>1, <2>1
    <3> QED BY <3>1
  <2>2. CASE b # a
    <3>1. PICK u \in Seq(Calls) : u = stack[b]
      BY <1>1
    <3>2. stack'[b] = u
      BY <1>1, <2>2, <3>1
    <3>3. StackRight(u) /\ (sdk = "python" => u = <<>>)
      BY <2>2, <3>1 DEF CallsRight, OneThread
    <3>4. StackRight(u)'
      BY <3>3, StackStays
    <3> QED BY <3>2, <3>4
  <2> QED BY <2>1, <2>2
<1>4. OneThread'
  BY <1>1 DEF OneThread
<1> QED BY <1>2, <1>3, <1>4 DEF CallsRight, Moved

LEMMA NoneMoves ==
  ASSUME Typed, CallsRight, OneThread, Grows, UNCHANGED stack,
         \A m \in Mails : Queued(m) => Queued(m)'
  PROVE  Moved
<1>1. ASSUME NEW b \in Chains PROVE StackRight(stack[b])'
  <2>1. PICK u \in Seq(Calls) : u = stack[b]
    BY DEF Typed
  <2>2. stack'[b] = u /\ StackRight(u)
    BY <2>1 DEF CallsRight
  <2>3. StackRight(u)'
    BY <2>2, StackStays
  <2> QED BY <2>2, <2>3
<1> QED BY <1>1 DEF Moved, CallsRight, OneThread, Typed, Grows

(***************************************************************************)
(* The server and the histories                                            *)
(***************************************************************************)
\* What a step may do to the mails: a mail that is gone stays away, and one is
\* removed as it was decided, or by the code around the handler.
Steady ==
  /\ mailbox' \in Seq(Mails) /\ OnceInMailbox' /\ outcome' \in [Mails -> Ops \cup {None}]
  /\ \A x \in Mails :
       /\ Arrived(x) => Arrived(x)'
       /\ outcome[x] # None /\ ~Queued(x) => outcome'[x] # None /\ ~Queued(x)'
       /\ outcome'[x] # outcome[x] => \/ outcome'[x] \in chosen[x]
                                      \/ outcome'[x] = "reject" /\ Excused(x)

LEMMA StillSteady ==
  ASSUME Typed, OnceInMailbox, UNCHANGED <<mailbox, outcome>>
  PROVE  Steady /\ \A x \in Mails : Queued(x)' <=> Queued(x)
  BY DEF Typed, OnceInMailbox, Steady, Arrived, Queued

\* Is the call an operation on a mail?
IsOp(c) == c.step \in {"op", "auto"}

LEMMA OpSteady ==
  ASSUME Typed, OnceInMailbox, NEW c \in Calls, TopRight(c), IsOp(c), Apply(c.op, c.mail)
  PROVE  /\ Steady /\ c.mail \in Mails
         /\ c.op # "requeue" => outcome'[c.mail] # None /\ ~Queued(c.mail)'
<1>1. c.mail \in Mails /\ Arrived(c.mail)
  BY DEF TopRight, IsOp
<1>2. c.op \in Ops
  <2>1. CASE c.step = "op"
    BY <1>1, <2>1 DEF TopRight, Typed
  <2>2. CASE c.step = "auto"
    BY <2>2, NoneIsNoOp DEF TopRight
  <2> QED BY <2>1, <2>2 DEF IsOp
<1>3. ServerDid(c.op, c.mail) /\ (c.op # "requeue" => ~Queued(c.mail)' /\ outcome'[c.mail] # None)
  BY <1>1, <1>2, ApplyDoes
<1>4. \/ c.op \in chosen[c.mail]
      \/ c.op = "reject" /\ Excused(c.mail)
  BY DEF TopRight, IsOp
<1> QED BY <1>1, <1>3, <1>4 DEF ServerDid, Steady

LEMMA ServerKeeps ==
  ASSUME Typed, SettledGone, CastsRight, OutcomeIsHandlers, Steady, Grows
  PROVE  /\ settled' = settled => SettledGone'
         /\ casts' = casts => CastsRight'
         /\ OutcomeIsHandlers'
<1>1. settled' = settled => SettledGone'
  BY DEF Typed, SettledGone, Steady, Grows
<1>2. ASSUME casts' = casts PROVE CastsRight'
  BY <1>2 DEF Typed, CastsRight, Grows
<1>3. OutcomeIsHandlers'
  <2> SUFFICES ASSUME NEW m \in Mails
               PROVE  \/ outcome'[m] \in chosen'[m] \cup {None}
                      \/ sdk' # "elixir" /\ outcome'[m] = "reject" /\ m \in unsure'
    BY DEF OutcomeIsHandlers
  <2>1. CASE outcome'[m] = outcome[m]
    BY <2>1 DEF OutcomeIsHandlers, Grows
  <2>2. CASE outcome'[m] # outcome[m]
    BY <2>2 DEF Steady, Grows, Excused
  <2> QED BY <2>1, <2>2
<1> QED BY <1>1, <1>2, <1>3

(* Histories that only grow.                                                *)
LEMMA GrowsBy ==
  ASSUME Typed, Steady, sdk' = sdk, unsure \subseteq unsure',
         \A m \in Mails : chosen[m] \subseteq chosen'[m]
  PROVE  Grows
  BY DEF Grows, Steady

(* A step that moves one process and does nothing to the mails.             *)
LEMMA QuietMove ==
  ASSUME IInv, NEW CONSTANT a \in Chains, sdk = "python" => a = EventsProc,
         NEW CONSTANT s \in Seq(Calls), Goto(a, s), Grows /\ Steady => StackRight(s)',
         UNCHANGED <<sdk, mailbox, outcome, settled>>, unsure \subseteq unsure',
         \A m \in Mails : chosen[m] \subseteq chosen'[m]
  PROVE  Moved /\ OnceInMailbox' /\ SettledGone' /\ OutcomeIsHandlers' /\ (casts' = casts => CastsRight')
<1>1. Steady
  BY StillSteady DEF IInv
<1>2. Grows
  BY <1>1, GrowsBy DEF IInv
<1>3. Moved
  BY <1>1, <1>2, OneMoves DEF IInv
<1> QED BY <1>1, <1>2, <1>3, ServerKeeps DEF IInv, Steady

(* A step that moves none of them and does nothing to the mails.            *)
LEMMA QuietStay ==
  ASSUME IInv, UNCHANGED <<sdk, mailbox, outcome, stack, chosen, settled, unsure, repeated>>
  PROVE  /\ Moved /\ OnceInMailbox' /\ SettledGone' /\ OutcomeIsHandlers' /\ NoRepeat'
         /\ casts' = casts => CastsRight'
<1>1. Steady /\ \A x \in Mails : Queued(x)' <=> Queued(x)
  BY StillSteady DEF IInv
<1>2. Grows
  BY <1>1, GrowsBy DEF IInv
<1>3. Moved
  BY <1>1, <1>2, NoneMoves DEF IInv
<1> QED BY <1>1, <1>2, <1>3, ServerKeeps DEF IInv, Steady, NoRepeat

(* What of the types is left to each step.                                  *)
LEMMA Reassembled ==
  ASSUME IInv, Moved, OnceInMailbox', SettledGone', OutcomeIsHandlers', NoRepeat', CastsRight',
         sdk' = sdk, mailbox' \in Seq(Mails), outcome' \in [Mails -> Ops \cup {None}],
         casts' \in Seq(Mails), chosen' \in [Mails -> SUBSET Ops],
         settled' \subseteq Mails, unsure' \subseteq Mails, Flags'
  PROVE  IInv'
  BY DEF IInv, Moved, Typed

(***************************************************************************)
(* The steps                                                               *)
(***************************************************************************)
LEMMA Processes == EventsProc \in Chains /\ HandlerProc \in Chains
  BY SdkAssumption DEF EventsProc, HandlerProc, Chains

LEMMA CallTypes ==
  /\ NextCall \in Calls /\ TopRight(NextCall)
  /\ \A m \in Mails : \A op \in Ops : Call("op", m, op) \in Calls
  /\ \A m \in Mails : AutoCall(m) \in Calls
  /\ \A m \in Mails : Call("handle", m, None) \in Calls
  /\ \A m \in Mails \cup {None} : Call("fetched", m, None) \in Calls
  /\ \A c \in Calls : c.mail \in Mails => MoreCall(c) \in Calls
  BY NoneIsNoOp DEF Calls, Call, NextCall, AutoCall, MoreCall, Tops, Mores, TopRight

(* A process that is in the middle of something is the one of Python.        *)
LEMMA TheThread ==
  ASSUME OneThread, NEW a \in Chains, ~Idle(a)
  PROVE  sdk = "python" => a = EventsProc
  BY DEF OneThread, Idle

LEMMA DispatchStep ==
  ASSUME IInv, NEW CONSTANT a \in Chains, Dispatch(a)
  PROVE  IInv'
<1>1. Goto(a, <<NextCall>>) /\ UNCHANGED <<sdk, mailbox, outcome, casts, historyVars>>
  BY DEF Dispatch
<1>2. sdk = "python" => a = EventsProc
  BY DEF Dispatch, Starts
<1>3. <<NextCall>> \in Seq(Calls) /\ (Grows /\ Steady => StackRight(<<NextCall>>)')
  <2>1. NextCall \in Calls /\ TopRight(NextCall)'
    BY CallTypes, NoneIsNoOp DEF NextCall, Call, TopRight, Tops
  <2> QED BY <2>1 DEF StackRight
<1>4. PICK s \in Seq(Calls) : s = <<NextCall>>
  BY <1>3
<1>5. Moved /\ OnceInMailbox' /\ SettledGone' /\ OutcomeIsHandlers' /\ CastsRight'
  BY <1>1, <1>2, <1>3, <1>4, QuietMove DEF historyVars
<1>6. Flags' /\ NoRepeat'
  BY <1>1 DEF Dispatch, IInv, Flags, NoRepeat, historyVars
<1> QED BY <1>1, <1>5, <1>6, Reassembled DEF IInv, Typed, historyVars

LEMMA HandleCastStep ==
  ASSUME IInv, HandleCast
  PROVE  IInv'
<1>1. PICK m \in Mails : m = Head(casts)
  BY DEF HandleCast, IInv, Typed
<1>2. casts # <<>> /\ casts \in Seq(Mails) /\ casts' = Tail(casts) /\ sdk = "elixir" /\ Arrived(m)
  BY <1>1 DEF HandleCast, IInv, Typed, CastsRight
<1>3. PICK s \in Seq(Calls) : s = <<Call("handle", m, None)>>
  <2>1. PICK c \in Calls : c = Call("handle", m, None)
    BY CallTypes
  <2>2. <<c>> \in Seq(Calls)
    OBVIOUS
  <2> QED BY <2>1, <2>2
<1>4. Goto(HandlerProc, s) /\ UNCHANGED <<sdk, mailbox, outcome, chosen, settled, unsure, gave_up>>
  <2>1. Goto(HandlerProc, <<Call("handle", m, None)>> \o <<>>)
    BY <1>1 DEF HandleCast, CallHandler
  <2>2. <<Call("handle", m, None)>> \o <<>> = s
    BY <1>3
  <2> QED BY <2>1, <2>2 DEF HandleCast, CallHandler
<1>5. ASSUME Grows, Steady PROVE StackRight(s)'
  BY <1>2, <1>3, <1>5 DEF StackRight, TopRight, Call, Tops, Grows
<1>6. Moved /\ OnceInMailbox' /\ SettledGone' /\ OutcomeIsHandlers'
  BY <1>2, <1>4, <1>5, Processes, QuietMove
<1>7. casts' \in Seq(Mails) /\ CastsRight'
  <2>1. casts' \in Seq(Mails) /\ Len(casts') = Len(casts) - 1 /\ Len(casts) \in Nat
        /\ \A i \in 1 .. Len(casts') : casts'[i] = casts[i + 1]
    BY <1>2
  <2>2. \A x \in Mails : Arrived(x) => Arrived(x)'
    BY <1>4 DEF Arrived, Queued
  <2>3. ASSUME NEW i \in 1 .. Len(casts') PROVE Arrived(casts[i])'
    <3>1. i + 1 \in 1 .. Len(casts)
      BY <2>1
    <3>2. PICK x \in Mails : x = casts[i + 1]
      BY <1>2, <3>1
    <3>3. Arrived(x)
      BY <3>1, <3>2 DEF IInv, CastsRight
    <3>4. Arrived(x)'
      BY <2>2, <3>3
    <3> QED BY <2>1, <3>2, <3>4
  <2> QED BY <1>2, <1>4, <2>1, <2>3 DEF CastsRight
<1>8. Flags' /\ NoRepeat'
  BY <1>2, <1>4 DEF HandleCast, agentVars, IInv, Flags, NoRepeat
<1> QED BY <1>4, <1>6, <1>7, <1>8, Reassembled DEF IInv, Typed

LEMMA CallbackRaisesStep ==
  ASSUME IInv, CallbackRaises
  PROVE  IInv'
<1>1. UNCHANGED <<sdk, mailbox, outcome, stack, chosen, settled, unsure, repeated>> /\ casts' = <<>>
  BY DEF CallbackRaises
<1>2. Moved /\ OnceInMailbox' /\ SettledGone' /\ OutcomeIsHandlers' /\ NoRepeat'
  BY <1>1, QuietStay
<1>3. casts' \in Seq(Mails) /\ CastsRight'
  BY <1>1 DEF CastsRight
<1>4. Flags'
  BY DEF CallbackRaises, agentVars, IInv, Flags
<1> QED BY <1>1, <1>2, <1>3, <1>4, Reassembled DEF IInv, Typed

LEMMA HandleStep ==
  ASSUME IInv, NEW CONSTANT a \in Chains, Handle(a)
  PROVE  IInv'
<1>1. ~Idle(a) /\ Top(a).step = "handle" /\ UNCHANGED <<sdk, mailbox, outcome, casts, settled, unsure, repeated, agentVars, crashed>>
  BY DEF Handle
<1>2. Top(a) \in Calls /\ TopRight(Top(a)) /\ MoresRight(Rest(a))
  BY <1>1, Unstacked DEF IInv
<1>3. PICK m \in Mails : m = Top(a).mail /\ Arrived(m)
  BY <1>1, <1>2 DEF TopRight
<1>4. PICK t \in Seq(Calls) : t = Rest(a)
  BY <1>2 DEF MoresRight
<1>5. MoresRight(t)
  BY <1>2, <1>4
<1>6. sdk = "python" => a = EventsProc
  BY <1>1, TheThread DEF IInv
<1>7. chosen \in [Mails -> SUBSET Ops] /\ "reject" \in Ops /\ Decisions \subseteq Ops
  BY NoneIsNoOp DEF IInv, Typed
<1>8. ASSUME NEW CONSTANT c \in Calls, NEW op \in Ops, Goto(a, <<c>> \o Rest(a)),
             chosen' = [chosen EXCEPT ![m] = @ \cup {op}], UNCHANGED gave_up,
             c = Call("op", m, op) \/ (op = "reject" /\ c = AutoCall(m))
      PROVE  IInv'
  <2>1. /\ chosen' \in [Mails -> SUBSET Ops] /\ op \in chosen'[m]
        /\ \A x \in Mails : chosen[x] \subseteq chosen'[x]
    BY <1>7, <1>8
  <2>2. <<c>> \o t \in Seq(Calls)
    BY <1>4
  <2>3. PICK s \in Seq(Calls) : s = <<c>> \o t
    BY OneMore
  <2>4. ASSUME Grows, Steady PROVE StackRight(s)'
    <3>1. MoresRight(t)'
      BY <1>5, <2>4, MoresStay
    <3>2. Arrived(m)'
      BY <1>3, <2>4 DEF Grows
    <3>3. TopRight(c)'
      BY <1>8, <2>1, <3>2 DEF TopRight, Tops, Call, AutoCall, Excused
    <3>4. StackRight(<<c>> \o t)'
      BY <3>1, <3>3, Stacked
    <3> QED BY <2>3, <3>4
  <2>5. Goto(a, s)
    BY <1>4, <1>8, <2>3
  <2>6. Moved /\ OnceInMailbox' /\ SettledGone' /\ OutcomeIsHandlers' /\ CastsRight'
    BY <1>1, <1>6, <2>1, <2>4, <2>5, QuietMove
  <2>7. Flags' /\ NoRepeat'
    BY <1>1, <1>8 DEF agentVars, IInv, Flags, NoRepeat
  <2> QED BY <1>1, <2>1, <2>6, <2>7, Reassembled DEF IInv, Typed
<1>9. ASSUME Return(a), gave_up' = TRUE, UNCHANGED chosen PROVE IInv'
  <2>1. Goto(a, <<>>) /\ StackRight(<<>>)' /\ <<>> \in Seq(Calls)
    BY <1>9 DEF Return, StackRight
  <2>2. PICK s \in Seq(Calls) : s = <<>>
    BY <2>1
  <2>3. Moved /\ OnceInMailbox' /\ SettledGone' /\ OutcomeIsHandlers' /\ CastsRight'
    BY <1>1, <1>6, <1>9, <2>1, <2>2, QuietMove
  <2>4. Flags' /\ NoRepeat'
    BY <1>1, <1>9 DEF agentVars, IInv, Flags, NoRepeat
  <2> QED BY <1>1, <1>9, <2>3, <2>4, Reassembled DEF IInv, Typed
<1>10. CASE \E op \in Decisions : Goto(a, <<Call("op", m, op)>> \o Rest(a))
              /\ chosen' = [chosen EXCEPT ![m] = @ \cup {op}] /\ UNCHANGED gave_up
  <2>1. PICK op \in Decisions : Goto(a, <<Call("op", m, op)>> \o Rest(a))
              /\ chosen' = [chosen EXCEPT ![m] = @ \cup {op}] /\ UNCHANGED gave_up
    BY <1>10
  <2>2. PICK c \in Calls : c = Call("op", m, op)
    BY <1>7, CallTypes
  <2> QED BY <1>7, <1>8, <2>1, <2>2
<1>11. CASE /\ Goto(a, <<IF sdk = "elixir" THEN Call("op", m, "reject") ELSE AutoCall(m)>> \o Rest(a))
            /\ chosen' = [chosen EXCEPT ![m] = @ \cup {"reject"}] /\ UNCHANGED gave_up
  <2>1. PICK c \in Calls : c = IF sdk = "elixir" THEN Call("op", m, "reject") ELSE AutoCall(m)
    BY <1>7, CallTypes
  <2>2. Goto(a, <<c>> \o Rest(a)) /\ (c = Call("op", m, "reject") \/ c = AutoCall(m))
    BY <1>11, <2>1
  <2> QED BY <1>7, <1>8, <1>11, <2>2
<1> QED BY <1>3, <1>9, <1>10, <1>11 DEF Handle

(* A step that moves one process, whatever it does to the mails.            *)
LEMMA ServerMove ==
  ASSUME IInv, NEW CONSTANT a \in Chains, ~Idle(a), Steady,
         NEW CONSTANT s \in Seq(Calls), Goto(a, s), Grows => StackRight(s)',
         sdk' = sdk, unsure \subseteq unsure', chosen' = chosen
  PROVE  /\ Moved /\ OutcomeIsHandlers' /\ (settled' = settled => SettledGone')
         /\ casts' = casts => CastsRight'
<1>1. Grows
  BY GrowsBy DEF IInv
<1>2. sdk = "python" => a = EventsProc
  BY TheThread DEF IInv
<1>3. Moved
  BY <1>1, <1>2, OneMoves DEF IInv
<1> QED BY <1>1, <1>3, ServerKeeps DEF IInv

LEMMA NextAnswerStep ==
  ASSUME IInv, NEW CONSTANT a \in Chains, NextAnswer(a)
  PROVE  IInv'
<1>1. ~Idle(a) /\ UNCHANGED <<sdk, mailbox, outcome, casts, historyVars, agentVars, crashed>>
  BY DEF NextAnswer, Answerable, Asking
<1>2. PICK t \in Seq(Calls) : t = Rest(a) /\ MoresRight(t)
  BY <1>1, Unstacked DEF IInv, MoresRight
<1>3. PICK m \in Mails \cup {None} : m = IF mailbox = <<>> THEN None ELSE Head(mailbox)
  BY DEF IInv, Typed
<1>4. m \in Mails => Queued(m)
  <2>1. CASE mailbox = <<>>
    BY <2>1, <1>3, NoneIsNoOp
  <2>2. CASE mailbox # <<>>
    <3>1. mailbox \in Seq(Mails) /\ m = mailbox[1] /\ 1 \in 1 .. Len(mailbox)
      BY <2>2, <1>3 DEF IInv, Typed
    <3> QED BY <3>1 DEF Queued, Contains
  <2> QED BY <2>1, <2>2
<1>5. PICK c \in Calls : c = Call("fetched", m, None)
  BY CallTypes
<1>6. PICK s \in Seq(Calls) : s = <<c>> \o t
  BY OneMore
<1>7. Goto(a, s)
  BY <1>2, <1>3, <1>5, <1>6 DEF NextAnswer
<1>8. Steady /\ \A x \in Mails : Queued(x)' <=> Queued(x)
  BY <1>1, StillSteady DEF IInv
<1>9. ASSUME Grows PROVE StackRight(s)'
  <2>1. TopRight(c)'
    BY <1>4, <1>5, <1>8 DEF TopRight, Tops, Call, Arrived
  <2>2. MoresRight(t)'
    BY <1>2, <1>9, MoresStay
  <2> QED BY <1>6, <2>1, <2>2, Stacked
<1>10. Moved /\ OutcomeIsHandlers' /\ SettledGone' /\ CastsRight'
  BY <1>1, <1>7, <1>8, <1>9, ServerMove DEF historyVars
<1>11. Flags' /\ NoRepeat'
  BY <1>1 DEF agentVars, historyVars, IInv, Flags, NoRepeat
<1> QED BY <1>1, <1>8, <1>10, <1>11, Reassembled DEF IInv, Typed, Steady, historyVars

LEMMA FetchedStep ==
  ASSUME IInv, NEW CONSTANT a \in Chains, Fetched(a)
  PROVE  IInv'
<1>1. ~Idle(a) /\ Top(a).step = "fetched" /\ UNCHANGED <<sdk, mailbox, outcome, agentVars, crashed>>
  BY DEF Fetched
<1>2. TopRight(Top(a)) /\ Top(a) \in Calls
  BY <1>1, Unstacked DEF IInv
<1>3. PICK t \in Seq(Calls) : t = Rest(a) /\ MoresRight(t)
  BY <1>1, Unstacked DEF IInv, MoresRight
<1>4. PICK m \in Mails \cup {None} : m = Top(a).mail
  BY <1>2 DEF Calls
<1>5. Steady /\ \A x \in Mails : Queued(x)' <=> Queued(x)
  BY <1>1, StillSteady DEF IInv
<1>6. ASSUME Return(a), UNCHANGED historyVars, casts' \in Seq(Mails), casts' = casts \/ CastsRight'
      PROVE  IInv'
  <2>1. PICK s \in Seq(Calls) : s = <<>>
    BY Empty
  <2>2. Goto(a, s) /\ StackRight(s)'
    BY <2>1, <1>6 DEF Return, StackRight
  <2>3. Moved /\ OutcomeIsHandlers' /\ SettledGone' /\ CastsRight'
    BY <1>1, <1>5, <1>6, <2>2, ServerMove DEF historyVars
  <2>4. Flags' /\ NoRepeat'
    BY <1>1, <1>6 DEF agentVars, historyVars, IInv, Flags, NoRepeat
  <2> QED BY <1>1, <1>5, <1>6, <2>3, <2>4, Reassembled DEF IInv, Typed, Steady, historyVars
<1>7. CASE m = None
  BY <1>4, <1>6, <1>7 DEF Fetched, IInv, Typed
<1>8. CASE m # None /\ sdk = "elixir"
  <2>1. casts' = Append(casts, m) /\ Return(a) /\ UNCHANGED historyVars /\ m \in Mails
    BY <1>4, <1>8 DEF Fetched
  <2>2. casts \in Seq(Mails) /\ Arrived(m)
    BY <1>2, <1>4, <2>1 DEF IInv, Typed, TopRight
  <2>3. /\ casts' \in Seq(Mails) /\ Len(casts') = Len(casts) + 1 /\ casts'[Len(casts) + 1] = m
        /\ \A i \in 1 .. Len(casts) : casts'[i] = casts[i] /\ Len(casts) \in Nat
    BY <2>1, <2>2
  <2>4. ASSUME NEW i \in 1 .. Len(casts') PROVE Arrived(casts[i])'
    <3>1. PICK x : x = casts'[i]
      OBVIOUS
    <3>2. Arrived(x)
      <4>1. CASE i \in 1 .. Len(casts)
        BY <3>1, <4>1, <2>3 DEF IInv, CastsRight
      <4>2. CASE i = Len(casts) + 1
        BY <3>1, <4>2, <2>2, <2>3
      <4> QED BY <4>1, <4>2, <2>2, <2>3
    <3>3. Arrived(x)'
      BY <3>2, <1>1 DEF Arrived, Queued
    <3> QED BY <3>1, <3>3
  <2>5. CastsRight'
    BY <1>1, <1>8, <2>4 DEF CastsRight
  <2> QED BY <1>6, <2>1, <2>3, <2>5
<1>9. CASE m # None /\ sdk # "elixir"
  <2>1. CallHandler(a, m, Rest(a)) /\ UNCHANGED casts /\ m \in Mails
    BY <1>4, <1>9 DEF Fetched
  <2>2. PICK c \in Calls : c = Call("handle", m, None)
    BY <2>1, CallTypes
  <2>3. PICK s \in Seq(Calls) : s = <<c>> \o t
    BY OneMore
  <2>4. Goto(a, s) /\ UNCHANGED <<chosen, settled, unsure, gave_up>>
    BY <1>3, <2>1, <2>2, <2>3 DEF CallHandler
  <2>5. ASSUME Grows PROVE StackRight(s)'
    <3>1. TopRight(c)'
      BY <1>1, <1>2, <1>4, <1>5, <2>1, <2>2, <2>5 DEF TopRight, Tops, Call, Grows
    <3>2. MoresRight(t)'
      BY <1>3, <2>5, MoresStay
    <3> QED BY <2>3, <3>1, <3>2, Stacked
  <2>6. Moved /\ OutcomeIsHandlers' /\ SettledGone' /\ CastsRight'
    BY <1>1, <1>5, <2>1, <2>4, <2>5, ServerMove
  <2>7. NoRepeat'
    <3>1. sdk = "python" => m \notin settled
      BY <1>1, <1>2, <1>4, <2>1 DEF TopRight, IInv, SettledGone
    <3> QED BY <1>1, <2>1, <3>1 DEF CallHandler, IInv, NoRepeat
  <2>8. Flags'
    BY <1>1, <2>4 DEF agentVars, IInv, Flags
  <2> QED BY <1>1, <1>5, <2>1, <2>4, <2>6, <2>7, <2>8, Reassembled DEF IInv, Typed, Steady
<1> QED BY <1>7, <1>8, <1>9

LEMMA MoresCons ==
  ASSUME NEW CONSTANT c \in Calls, NEW CONSTANT t, MoresRight(t)', MoreRight(c)', sdk' # "elixir"
  PROVE  MoresRight(<<c>> \o t)'
<1>1. t \in Seq(Calls) /\ Len(t) \in Nat
  BY DEF MoresRight
<1>2. /\ <<c>> \o t \in Seq(Calls) /\ Len(<<c>> \o t) = 1 + Len(t) /\ (<<c>> \o t)[1] = c
      /\ \A i \in 2 .. 1 + Len(t) : (<<c>> \o t)[i] = t[i - 1]
  BY <1>1
<1>3. ASSUME NEW i \in 1 .. 1 + Len(t) PROVE MoreRight((<<c>> \o t)[i])'
  <2>1. CASE i = 1
    BY <2>1, <1>2
  <2>2. CASE i # 1
    <3>1. i \in 2 .. 1 + Len(t) /\ i - 1 \in 1 .. Len(t)
      BY <2>2, <1>1
    <3>2. MoreRight(t[i - 1])'
      BY <3>1 DEF MoresRight
    <3> QED BY <3>1, <3>2, <1>2
  <2> QED BY <2>1, <2>2
<1> QED BY <1>1, <1>2, <1>3 DEF MoresRight

LEMMA OpAnswerStep ==
  ASSUME IInv, NEW CONSTANT a \in Chains, OpAnswer(a)
  PROVE  IInv'
<1>1. ~Idle(a) /\ UNCHANGED <<sdk, casts, crashed, agentVars>>
  BY DEF OpAnswer, Answerable, Asking
<1>2. PICK c \in Calls : c = Top(a) /\ TopRight(c) /\ IsOp(c)
  BY <1>1, Unstacked DEF OpAnswer, IInv, IsOp
<1>3. PICK t \in Seq(Calls) : t = Rest(a) /\ MoresRight(t)
  BY <1>1, Unstacked DEF IInv, MoresRight
<1>4. /\ Steady /\ c.mail \in Mails
      /\ c.op # "requeue" => outcome'[c.mail] # None /\ ~Queued(c.mail)'
  BY <1>2, OpSteady DEF OpAnswer, IInv
<1>5. /\ settled' = IF sdk # "python" \/ c.op = "requeue" THEN settled ELSE settled \cup {c.mail}
      /\ UNCHANGED <<chosen, handled, repeated, unsure, gave_up>>
  BY <1>2 DEF OpAnswer, Settle
<1>6. ASSUME NEW CONSTANT s \in Seq(Calls), Goto(a, s), Grows => StackRight(s)'
      PROVE  IInv'
  <2>1. Moved /\ OutcomeIsHandlers' /\ (settled' = settled => SettledGone') /\ CastsRight'
    BY <1>1, <1>4, <1>5, <1>6, ServerMove
  <2>2. SettledGone'
    <3>1. CASE settled' = settled
      BY <2>1, <3>1
    <3>2. CASE settled' # settled
      BY <1>1, <1>4, <1>5, <3>2 DEF SettledGone, IInv, Typed, Steady
    <3> QED BY <3>1, <3>2
  <2>3. Flags' /\ NoRepeat' /\ settled' \subseteq Mails
    BY <1>1, <1>4, <1>5 DEF agentVars, IInv, Typed, Flags, NoRepeat
  <2> QED BY <1>1, <1>4, <1>5, <2>1, <2>2, <2>3, Reassembled DEF IInv, Typed, Steady
<1>7. CASE mailbox' = <<>>
  <2>1. PICK s \in Seq(Calls) : s = <<>>
    BY Empty
  <2>2. Goto(a, s) /\ StackRight(s)'
    BY <1>7, <2>1 DEF OpAnswer, Return, StackRight
  <2> QED BY <2>2, <1>6
<1>8. CASE mailbox' # <<>> /\ sdk = "elixir"
  <2>1. PICK n \in Calls : n = NextCall
    BY CallTypes
  <2>2. PICK s \in Seq(Calls) : s = <<n>>
    BY Empty, OneMore
  <2>3. Goto(a, s)
    BY <1>8, <2>1, <2>2 DEF OpAnswer
  <2>4. StackRight(s)'
    BY <2>1, <2>2, NoneIsNoOp DEF StackRight, TopRight, NextCall, Call, Tops
  <2> QED BY <2>3, <2>4, <1>6
<1>9. CASE mailbox' # <<>> /\ sdk # "elixir"
  <2>1. PICK n \in Calls : n = NextCall
    BY CallTypes
  <2>2. PICK d \in Calls : d = MoreCall(c)
    BY <1>4, CallTypes
  <2>3. PICK s \in Seq(Calls) : s = <<n>> \o (<<d>> \o t)
    <3>1. PICK u \in Seq(Calls) : u = <<d>> \o t
      BY OneMore
    <3>2. \E s \in Seq(Calls) : s = <<n>> \o u
      BY OneMore
    <3> QED BY <3>1, <3>2
  <2>4. Goto(a, s)
    <3>1. Goto(a, <<n, d>> \o t)
      BY <1>2, <1>3, <1>9, <2>1, <2>2 DEF OpAnswer
    <3>2. <<n, d>> \o t = <<n>> \o (<<d>> \o t)
      BY <1>3
    <3> QED BY <2>3, <3>1, <3>2
  <2>5. ASSUME Grows PROVE StackRight(s)'
    <3>1. MoresRight(t)'
      BY <1>3, <2>5, MoresStay
    <3>2. MoreRight(d)'
      BY <1>2, <1>4, <2>2, <2>5 DEF MoreRight, MoreCall, Call, Mores, TopRight, Grows
    <3>3. MoresRight(<<d>> \o t)'
      BY <1>1, <1>9, <3>1, <3>2, MoresCons
    <3>4. TopRight(n)'
      BY <2>1, NoneIsNoOp DEF TopRight, NextCall, Call, Tops
    <3> QED BY <2>3, <3>3, <3>4, Stacked
  <2> QED BY <2>4, <2>5, <1>6
<1> QED BY <1>7, <1>8, <1>9

(***************************************************************************)
(* Failures: what is called next is nothing, or a reject of the mail whose    *)
(* operation is noted as unsure in the same step.                           *)
(***************************************************************************)
LEMMA OperationOf ==
  ASSUME IInv, NEW a \in Chains, ~Idle(a), OfOperation(a),
         NEW o, o = IF Top(a).step = "op" THEN stack[a] ELSE Rest(a)
  PROVE  Head(o).mail \in Mails /\ Arrived(Head(o).mail) /\ MoresRight(Tail(o))
<1>1. TopRight(Top(a)) /\ MoresRight(Rest(a))
  BY Unstacked DEF IInv
<1>2. CASE Top(a).step = "op"
  BY <1>1, <1>2 DEF TopRight, Top, Rest
<1>3. CASE Top(a).step # "op"
  <2>1. o = Rest(a) /\ Rest(a) # <<>>
    BY <1>3 DEF OfOperation
  <2> QED BY <1>1, <2>1, MoresTail DEF MoreRight
<1> QED BY <1>2, <1>3

LEMMA FailStep ==
  ASSUME IInv, NEW CONSTANT a \in Chains, Asking(a), Steady, NEW CONSTANT e \in BOOLEAN, Fail(a, e),
         link' \in BOOLEAN, lost' \subseteq Chains
  PROVE  IInv'
<1>0. ~Idle(a) /\ UNCHANGED <<sdk, casts, chosen, handled, settled, repeated>>
  BY DEF Asking, Fail, FailIn
<1>1. PICK o : o = IF Top(a).step = "op" THEN stack[a] ELSE Rest(a)
  OBVIOUS
<1>2. unsure' = IF OfOperation(a) THEN unsure \cup {Head(o).mail} ELSE unsure
  BY <1>1 DEF Fail, FailIn
<1>3. OfOperation(a) => Head(o).mail \in Mails /\ Arrived(Head(o).mail) /\ MoresRight(Tail(o))
  BY <1>0, <1>1, OperationOf
<1>4. unsure \subseteq unsure' /\ unsure' \subseteq Mails
  BY <1>2, <1>3 DEF IInv, Typed
<1>5. Flags'
  <2>1. \/ crashed' = (sdk = "js") /\ stream' = (sdk # "python" /\ stream)
           /\ events' = IF sdk = "python" THEN 0 ELSE events
        \/ UNCHANGED <<crashed, stream, events>>
    BY DEF Fail, FailIn, Uncaught, Caught
  <2>2. gave_up' \in BOOLEAN
    BY DEF Fail, FailIn
  <2>3. events \in Nat /\ stream \in BOOLEAN /\ crashed \in BOOLEAN
    BY DEF IInv, Flags
  <2>4. events' \in Nat
    BY <2>1, <2>3
  <2>5. stream' \in BOOLEAN /\ crashed' \in BOOLEAN
    BY <2>1, <2>3, Zenon
  <2> QED BY <2>2, <2>4, <2>5 DEF Flags
<1>6. ASSUME NEW CONSTANT s \in Seq(Calls), Goto(a, s), Grows => StackRight(s)'
      PROVE  IInv'
  <2>1. Moved /\ OutcomeIsHandlers' /\ SettledGone' /\ CastsRight'
    BY <1>0, <1>4, <1>6, ServerMove
  <2>2. NoRepeat'
    BY <1>0 DEF IInv, NoRepeat
  <2> QED BY <1>0, <1>4, <1>5, <2>1, <2>2, Reassembled DEF IInv, Typed, Steady
<1>7. \/ Goto(a, <<>>)
      \/ sdk # "elixir" /\ OfOperation(a) /\ Goto(a, <<AutoCall(Head(o).mail)>> \o Tail(o))
  BY <1>1 DEF Fail, FailIn, Uncaught, Caught, Return
<1>8. CASE Goto(a, <<>>)
  <2>1. PICK s \in Seq(Calls) : s = <<>>
    BY Empty
  <2>2. Goto(a, s) /\ StackRight(s)'
    BY <1>8, <2>1 DEF StackRight
  <2> QED BY <1>6, <2>2
<1>9. CASE sdk # "elixir" /\ OfOperation(a) /\ Goto(a, <<AutoCall(Head(o).mail)>> \o Tail(o))
  <2>1. PICK m \in Mails : m = Head(o).mail
    BY <1>3, <1>9
  <2>2. PICK t \in Seq(Calls) : t = Tail(o) /\ MoresRight(t)
    BY <1>3, <1>9 DEF MoresRight
  <2>3. PICK c \in Calls : c = AutoCall(m)
    BY CallTypes
  <2>4. PICK s \in Seq(Calls) : s = <<c>> \o t
    BY OneMore
  <2>5. Goto(a, s)
    BY <1>9, <2>1, <2>2, <2>3, <2>4
  <2>6. ASSUME Grows PROVE StackRight(s)'
    <3>1. Arrived(m)' /\ Excused(m)'
      BY <1>0, <1>2, <1>3, <1>9, <2>1, <2>6 DEF Grows, Excused
    <3>2. TopRight(c)'
      BY <2>3, <3>1 DEF TopRight, AutoCall, Call, Tops
    <3>3. MoresRight(t)'
      BY <2>2, <2>6, MoresStay
    <3> QED BY <2>4, <3>2, <3>3, Stacked
  <2> QED BY <1>6, <2>5, <2>6
<1> QED BY <1>7, <1>8, <1>9

(* An operation that fails may have been done.                              *)
LEMMA MayApplySteady ==
  ASSUME IInv, NEW a \in Chains, Asking(a), MayApply(a)
  PROVE  Steady
<1>1. CASE UNCHANGED <<mailbox, outcome>>
  BY <1>1, StillSteady DEF IInv
<1>2. CASE Top(a).step # "next" /\ Apply(Top(a).op, Top(a).mail)
  <2>1. Top(a) \in Calls /\ TopRight(Top(a)) /\ IsOp(Top(a))
    BY <1>2, Unstacked DEF Asking, IsOp, IInv
  <2> QED BY <1>2, <2>1, OpSteady DEF IInv
<1> QED BY <1>1, <1>2 DEF MayApply

LEMMA FailureSteps ==
  ASSUME IInv, NEW CONSTANT a \in Chains, Timeout(a) \/ CutOff(a) \/ Refused(a) \/ TooDeep(a)
  PROVE  IInv'
<1>0. link \in BOOLEAN /\ lost \subseteq Chains
  BY DEF IInv, Flags
<1>1. CASE Timeout(a)
  <2>1. Asking(a) /\ Fail(a, TRUE) /\ UNCHANGED <<link, lost>> /\ Steady
    BY <1>1, MayApplySteady DEF Timeout
  <2> QED BY <1>0, <2>1, FailStep
<1>2. CASE CutOff(a)
  <2>1. Asking(a) /\ Fail(a, FALSE) /\ UNCHANGED <<mailbox, outcome, link>> /\ lost' \subseteq lost
    BY <1>2 DEF CutOff
  <2>2. Steady
    BY <2>1, StillSteady DEF IInv
  <2> QED BY <1>0, <2>1, <2>2, FailStep
<1>3. CASE Refused(a)
  <2>1. PICK e \in BOOLEAN : e = (Top(a).step = "auto")
    OBVIOUS
  <2>2. Asking(a) /\ Fail(a, e) /\ UNCHANGED <<mailbox, outcome, link, lost>>
    BY <1>3, <2>1 DEF Refused, Answerable
  <2>3. Steady
    BY <2>2, StillSteady DEF IInv
  <2> QED BY <1>0, <2>2, <2>3, FailStep
<1>4. CASE TooDeep(a)
  <2>1. Asking(a) /\ Fail(a, TRUE) /\ UNCHANGED <<link, lost>> /\ Steady
    BY <1>4, MayApplySteady DEF TooDeep
  <2> QED BY <1>0, <2>1, FailStep
<1> QED BY <1>1, <1>2, <1>3, <1>4

(***************************************************************************)
(* The server, the link and the stream                                     *)
(***************************************************************************)
LEMMA MailArrivesStep ==
  ASSUME IInv, MailArrives
  PROVE  IInv'
<1>1. UNCHANGED <<sdk, outcome, stack, casts, crashed, link, stream, lost, historyVars>>
      /\ events' = Told(events)
  BY DEF MailArrives, sdkVars
<1>2. PICK m \in Mails : /\ \A n \in Mails : (outcome[n] # None \/ Queued(n)) <=> n < m
                         /\ mailbox' = Append(mailbox, m)
  BY DEF MailArrives
<1>3. outcome[m] = None /\ ~Queued(m)
  <2>1. ~(m < m)
    BY DEF Mails
  <2> QED BY <1>2, <2>1
<1>4. /\ mailbox' \in Seq(Mails)
      /\ \A x : Queued(x)' <=> Queued(x) \/ x = m
      /\ OnceInMailbox'
  BY <1>2, <1>3, Appended DEF IInv, Typed, OnceInMailbox, Queued
<1>5. Steady /\ Grows /\ \A x \in Mails : Queued(x) => Queued(x)'
  <2>1. \A x \in Mails : Arrived(x) => Arrived(x)'
    BY <1>1, <1>4 DEF Arrived
  <2> QED BY <1>1, <1>3, <1>4, <2>1 DEF Steady, Grows, IInv, Typed, historyVars
<1>6. Moved /\ OutcomeIsHandlers' /\ SettledGone' /\ CastsRight'
  BY <1>1, <1>5, NoneMoves, ServerKeeps DEF IInv, historyVars
<1>7. Flags' /\ NoRepeat'
  BY <1>1 DEF Told, historyVars, IInv, Flags, NoRepeat
<1> QED BY <1>1, <1>4, <1>6, <1>7, Reassembled DEF IInv, Typed, historyVars

LEMMA CutStep ==
  ASSUME IInv, Cut
  PROVE  IInv'
<1>1. UNCHANGED <<sdk, stack, casts, crashed, stream, events, historyVars>>
      /\ link' = FALSE /\ lost' \subseteq Chains
  BY DEF Cut, sdkVars, IInv, Flags
<1>2. CASE UNCHANGED <<mailbox, outcome>>
  <2>1. Moved /\ OnceInMailbox' /\ SettledGone' /\ OutcomeIsHandlers' /\ NoRepeat' /\ CastsRight'
    BY <1>1, <1>2, QuietStay DEF historyVars
  <2>2. Flags'
    BY <1>1 DEF historyVars, IInv, Flags
  <2> QED BY <1>1, <1>2, <2>1, <2>2, Reassembled DEF IInv, Typed, historyVars
<1>3. CASE \E a \in Chains \ lost : Asking(a) /\ Top(a).step # "next" /\ Apply(Top(a).op, Top(a).mail)
  <2>1. PICK a \in Chains : Asking(a) /\ Top(a).step # "next" /\ Apply(Top(a).op, Top(a).mail)
    BY <1>3
  <2>2. Steady
    BY <2>1, MayApplySteady DEF MayApply
  <2>3. Grows
    BY <1>1, <2>2, GrowsBy DEF IInv, historyVars
  <2>4. PICK s \in Seq(Calls) : s = stack[a]
    BY DEF IInv, Typed
  <2>5. Goto(a, s)
    BY <1>1, <2>4 DEF Goto, IInv, Typed
  <2>6. ~Idle(a) /\ (sdk = "python" => a = EventsProc)
    BY <2>1, TheThread DEF Asking, IInv
  <2>7. Top(a).step \in {"op", "auto"} /\ s # <<>> /\ s[1] = Top(a)
    BY <2>1, <2>4 DEF Asking, Idle, Top, IInv, Typed
  <2>8. StackRight(s)'
    <3>1. StackRight(s)
      BY <2>4 DEF IInv, CallsRight
    <3>2. \A i \in 2 .. Len(s) : MoreRight(s[i])'
      BY <2>3, <3>1 DEF Grows, StackRight, MoreRight
    <3>3. PICK c : c = s[1]
      OBVIOUS
    <3>4. TopRight(c) /\ c.step \in {"op", "auto"}
      BY <2>7, <3>1, <3>3 DEF StackRight
    <3>5. TopRight(c)'
      BY <2>3, <3>4 DEF TopRight, Grows, Excused
    <3> QED BY <2>3, <3>1, <3>2, <3>3, <3>5 DEF StackRight, Grows
  <2>9. Moved /\ OutcomeIsHandlers' /\ SettledGone' /\ CastsRight'
    BY <1>1, <2>2, <2>5, <2>6, <2>8, ServerMove DEF historyVars
  <2>10. Flags' /\ NoRepeat'
    BY <1>1 DEF historyVars, IInv, Flags, NoRepeat
  <2> QED BY <1>1, <2>2, <2>9, <2>10, Reassembled DEF IInv, Typed, historyVars, Steady
<1> QED BY <1>2, <1>3 DEF Cut

LEMMA LinkSteps ==
  ASSUME IInv, Relink \/ StreamEnds \/ Reconnect \/ UNCHANGED vars
  PROVE  IInv'
<1>1. UNCHANGED <<sdk, mailbox, outcome, stack, casts, crashed, lost, historyVars>>
  BY DEF Relink, StreamEnds, Reconnect, sdkVars, agentVars, vars
<1>2. Moved /\ OnceInMailbox' /\ SettledGone' /\ OutcomeIsHandlers' /\ NoRepeat' /\ CastsRight'
  BY <1>1, QuietStay DEF historyVars
<1>3. link' \in BOOLEAN /\ stream' \in BOOLEAN /\ events' \in Nat
  <2>1. link \in BOOLEAN /\ stream \in BOOLEAN /\ events \in Nat
    BY DEF IInv, Flags
  <2>2. events + 1 \in Nat /\ 0 \in Nat
    BY <2>1
  <2>3. CASE Relink
    BY <2>1, <2>2, <2>3 DEF Relink
  <2>4. CASE StreamEnds
    BY <2>1, <2>2, <2>4 DEF StreamEnds
  <2>5. CASE Reconnect
    BY <2>1, <2>2, <2>5 DEF Reconnect
  <2>6. CASE UNCHANGED vars
    BY <2>1, <2>6 DEF vars, agentVars
  <2> QED BY <2>3, <2>4, <2>5, <2>6
<1>4. Flags'
  BY <1>1, <1>3 DEF historyVars, IInv, Flags
<1> QED BY <1>1, <1>2, <1>4, Reassembled DEF IInv, Typed, historyVars

(***************************************************************************)
(* What the SDKs promise                                                   *)
(***************************************************************************)
LEMMA AtFirst == Init => IInv
<1> SUFFICES ASSUME Init PROVE IInv
  OBVIOUS
<1>1. Typed /\ Flags
  <2>1. stack \in [Chains -> Seq(Calls)] /\ mailbox \in Seq(Mails) /\ casts \in Seq(Mails)
    BY Empty DEF Init
  <2> QED BY <2>1 DEF Init, Typed, Flags
<1>2. CallsRight
  BY Empty DEF Init, CallsRight
<1>3. OnceInMailbox /\ CastsRight /\ OneThread /\ SettledGone /\ OutcomeIsHandlers /\ NoRepeat
  BY DEF Init, OnceInMailbox, CastsRight, OneThread, SettledGone, OutcomeIsHandlers, NoRepeat
<1> QED BY <1>1, <1>2, <1>3 DEF IInv

LEMMA EveryStep == IInv /\ [Next]_vars => IInv'
<1> SUFFICES ASSUME IInv, [Next]_vars PROVE IInv'
  OBVIOUS
<1>1. ASSUME NEW a \in Chains, Step(a) PROVE IInv'
  BY <1>1, DispatchStep, HandleStep, HandleCastStep, NextAnswerStep, FetchedStep, OpAnswerStep,
     FailureSteps DEF Step, Request
<1> QED BY <1>1, CallbackRaisesStep, MailArrivesStep, CutStep, LinkSteps DEF Next

LEMMA Invariant == Spec => []IInv
  BY AtFirst, EveryStep, PTL DEF Spec

(* Every call in progress is one that the code nests, on a mail that is one.  *)
THEOREM SdkTypes == Spec => []TypeOK
<1>1. IInv => TypeOK
  <2> SUFFICES ASSUME IInv PROVE TypeOK
    OBVIOUS
  <2>1. ASSUME NEW a \in Chains, NEW i \in 1 .. Len(stack[a])
        PROVE  IF i = 1 THEN stack[a][i].step \in Tops ELSE stack[a][i].step \in Mores
    <3>1. stack[a] \in Seq(Calls) /\ StackRight(stack[a])
      BY DEF IInv, Typed, CallsRight
    <3>2. CASE i = 1
      BY <3>1, <3>2 DEF StackRight, TopRight
    <3>3. CASE i # 1
      <4>1. i \in 2 .. Len(stack[a])
        BY <3>1, <3>3
      <4> QED BY <3>1, <3>3, <4>1 DEF StackRight, MoreRight
    <3> QED BY <3>2, <3>3
  <2>2. ASSUME NEW a \in Chains, ~Idle(a), Top(a).step \in {"handle", "op", "auto"}
        PROVE  Top(a).mail \in Mails
    BY <2>2, Unstacked DEF IInv, TopRight
  <2>3. sdk = "elixir" => \A a \in Chains : Len(stack[a]) <= 1
    BY DEF IInv, CallsRight, StackRight
  <2> QED BY <2>1, <2>2, <2>3 DEF TypeOK, IInv, Typed, Flags, Tops, Mores
<1> QED BY <1>1, Invariant, PTL

(* A mail leaves the mailbox by what its handler decided; otherwise it was     *)
(* rejected, by JavaScript or Python, after an operation that failed.         *)
THEOREM MailIsHandlers == Spec => []OutcomeIsHandlers
<1>1. IInv => OutcomeIsHandlers
  BY DEF IInv
<1> QED BY <1>1, Invariant, PTL

(* Python does not handle a mail again that it was told is gone.              *)
THEOREM PythonHandlesOnce == Spec => []NoRepeat
<1>1. IInv => NoRepeat
  BY DEF IInv
<1> QED BY <1>1, Invariant, PTL
=============================================================================
