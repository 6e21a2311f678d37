-------------------------- MODULE Transport_proofs --------------------------
(***************************************************************************)
(* Proofs about Transport, for all lengths of messages, packets, buffers and *)
(* wires.  What Codec finds in the bytes is defined by recursion over them;   *)
(* that it is what was sent is shown by induction over the packets.          *)
(***************************************************************************)
EXTENDS Transport, FiniteSetTheorems, SequenceTheorems, TLAPS

(***************************************************************************)
(* Induction.  The theorems of the library have an operator for the formula; *)
(* here it is a set.  If n is missing, adding one to the members maps        *)
(* 0 .. n into 1 .. n, and two numbers must meet.                            *)
(***************************************************************************)
LEMMA SetInduction ==
  ASSUME NEW S, 0 \in S, \A n \in Nat : n \in S => n + 1 \in S
  PROVE  \A n \in Nat : n \in S
<1> SUFFICES ASSUME NEW n \in Nat, n \notin S PROVE FALSE
  OBVIOUS
<1> DEFINE A  == 0 .. n
           B  == 1 .. n
           up == [i \in A |-> IF i \in S THEN i + 1 ELSE i]
<1>1. up \in [A -> B]
  OBVIOUS
<1>2. IsFiniteSet(A) /\ IsFiniteSet(B) /\ Cardinality(B) < Cardinality(A)
  <2>1. IsFiniteSet(0 .. n) /\ Cardinality(0 .. n) = n + 1
    BY FS_Interval
  <2>2. IsFiniteSet(1 .. n) /\ Cardinality(1 .. n) = n
    BY FS_Interval
  <2> QED BY <2>1, <2>2
<1>3. \E x, y \in A : x # y /\ up[x] = up[y]
  <2> HIDE DEF up, A, B
  <2> QED BY <1>1, <1>2, FS_PigeonHole
<1>4. ASSUME NEW x \in A, NEW y \in A, x # y, up[x] = up[y] PROVE FALSE
  BY <1>4
<1> QED BY <1>3, <1>4

(***************************************************************************)
(* Pieces of a sequence: from behind a to b.                               *)
(***************************************************************************)
LEMMA Piece ==
  ASSUME NEW T, NEW W \in Seq(T), NEW a \in Nat, NEW b \in Nat, a <= b, b <= Len(W)
  PROVE  /\ SubSeq(W, a + 1, b) \in Seq(T)
         /\ Len(SubSeq(W, a + 1, b)) = b - a
         /\ \A i \in 1 .. b - a : SubSeq(W, a + 1, b)[i] = W[a + i]
<1> DEFINE P == SubSeq(W, a + 1, b)
<1>1. W \in [1 .. Len(W) -> T] /\ Len(W) \in Nat
  BY LenProperties
<1>2. Len(P) = b - a
  BY <1>1
<1>3. \A i \in 1 .. b - a : P[i] = W[a + i]
  BY <1>1
<1>4. P \in Seq(T)
  BY <1>1
<1> QED BY <1>2, <1>3, <1>4

LEMMA PieceOfPiece ==
  ASSUME NEW T, NEW W \in Seq(T), NEW a \in Nat, NEW b \in Nat, a <= b, b <= Len(W),
         NEW m \in Nat, NEW n \in Nat, m <= n, n <= b - a
  PROVE  SubSeq(SubSeq(W, a + 1, b), m + 1, n) = SubSeq(W, (a + m) + 1, a + n)
<1> DEFINE P == SubSeq(W, a + 1, b)
           X == SubSeq(P, m + 1, n)
           Y == SubSeq(W, (a + m) + 1, a + n)
<1>1. P \in Seq(T) /\ Len(P) = b - a /\ \A i \in 1 .. b - a : P[i] = W[a + i]
  BY Piece
<1>2. X \in Seq(T) /\ Len(X) = n - m /\ \A i \in 1 .. n - m : X[i] = P[m + i]
  <2> HIDE DEF P
  <2>1. n <= Len(P)
    BY <1>1
  <2> QED BY <1>1, <2>1, Piece
<1>3. Y \in Seq(T) /\ Len(Y) = n - m /\ \A i \in 1 .. n - m : Y[i] = W[(a + m) + i]
  <2>1. a + m \in Nat /\ a + n \in Nat /\ a + m <= a + n /\ a + n <= Len(W)
        /\ (a + n) - (a + m) = n - m
    OBVIOUS
  <2> QED BY <2>1, Piece
<1>4. \A i \in 1 .. n - m : X[i] = Y[i]
  <2> HIDE DEF P, X, Y
  <2> SUFFICES ASSUME NEW i \in 1 .. n - m PROVE X[i] = Y[i]
    OBVIOUS
  <2>1. m + i \in 1 .. b - a /\ a + (m + i) = (a + m) + i
    OBVIOUS
  <2> QED BY <1>1, <1>2, <1>3, <2>1
<1> QED
  <2> HIDE DEF P, X, Y
  <2>1. X = Y
    BY <1>2, <1>3, <1>4, SeqEqual
  <2> QED BY <2>1 DEF P, X, Y

LEMMA Adjacent ==
  ASSUME NEW T, NEW W \in Seq(T), NEW a \in Nat, NEW b \in Nat, NEW c \in Nat,
         a <= b, b <= c, c <= Len(W)
  PROVE  SubSeq(W, a + 1, b) \o SubSeq(W, b + 1, c) = SubSeq(W, a + 1, c)
<1>1. a + 1 \in 1 .. Len(W) + 1 /\ b \in (a + 1) - 1 .. Len(W) /\ c \in b .. Len(W)
  OBVIOUS
<1> QED BY <1>1, ConcatAdjacentSubSeq

(* What is added behind a sequence does not change its pieces.              *)
LEMMA Grown ==
  ASSUME NEW T, NEW W \in Seq(T), NEW V \in Seq(T)
  PROVE  /\ W \o V \in Seq(T)
         /\ Len(W \o V) = Len(W) + Len(V)
         /\ \A i \in 1 .. Len(W) : (W \o V)[i] = W[i]
         /\ \A i \in 1 .. Len(V) : (W \o V)[Len(W) + i] = V[i]
         /\ \A a, b \in Nat : a <= b /\ b <= Len(W) =>
              SubSeq(W \o V, a + 1, b) = SubSeq(W, a + 1, b)
         /\ \A a \in Nat : a <= Len(W) =>
              SubSeq(W \o V, a + 1, Len(W) + Len(V)) = SubSeq(W, a + 1, Len(W)) \o V
<1> DEFINE X == W \o V
<1>1. X \in Seq(T) /\ Len(X) = Len(W) + Len(V)
      /\ \A i \in 1 .. Len(W) + Len(V) :
           X[i] = IF i <= Len(W) THEN W[i] ELSE V[i - Len(W)]
  BY ConcatProperties
<1>2. Len(W) \in Nat /\ Len(V) \in Nat
  OBVIOUS
<1> HIDE DEF X
<1>3. \A i \in 1 .. Len(W) : X[i] = W[i]
  BY <1>1, <1>2
<1>4. ASSUME NEW i \in 1 .. Len(V) PROVE X[Len(W) + i] = V[i]
  <2>1. Len(W) + i \in 1 .. Len(W) + Len(V) /\ ~(Len(W) + i <= Len(W))
        /\ (Len(W) + i) - Len(W) = i
    BY <1>2
  <2> QED BY <1>1, <2>1
<1>5. ASSUME NEW a \in Nat, NEW b \in Nat, a <= b, b <= Len(W)
      PROVE  SubSeq(X, a + 1, b) = SubSeq(W, a + 1, b)
  <2> DEFINE P == SubSeq(X, a + 1, b)
             Q == SubSeq(W, a + 1, b)
  <2>1. P \in Seq(T) /\ Len(P) = b - a /\ \A i \in 1 .. b - a : P[i] = X[a + i]
    BY <1>1, <1>2, <1>5, Piece
  <2>2. Q \in Seq(T) /\ Len(Q) = b - a /\ \A i \in 1 .. b - a : Q[i] = W[a + i]
    BY <1>5, Piece
  <2> HIDE DEF P, Q
  <2>3. \A i \in 1 .. b - a : a + i \in 1 .. Len(W)
    BY <1>2, <1>5
  <2>4. P = Q
    BY <2>1, <2>2, <2>3, <1>3, SeqEqual
  <2> QED BY <2>4 DEF P, Q
<1>6. ASSUME NEW a \in Nat, a <= Len(W)
      PROVE  SubSeq(X, a + 1, Len(W) + Len(V)) = SubSeq(W, a + 1, Len(W)) \o V
  <2> DEFINE n == Len(W) + Len(V)
             P == SubSeq(X, a + 1, n)
             Q == SubSeq(W, a + 1, Len(W))
  <2>0. n \in Nat /\ a <= n /\ n <= Len(X)
    BY <1>1, <1>2, <1>6
  <2>1. P \in Seq(T) /\ Len(P) = n - a /\ \A i \in 1 .. n - a : P[i] = X[a + i]
    <3> HIDE DEF n
    <3> QED BY <1>1, <2>0, Piece
  <2>2. Q \in Seq(T) /\ Len(Q) = Len(W) - a /\ \A i \in 1 .. Len(W) - a : Q[i] = W[a + i]
    BY <1>2, <1>6, Piece
  <2> HIDE DEF P, Q
  <2> DEFINE R == Q \o V
  <2>3. R \in Seq(T) /\ Len(R) = Len(Q) + Len(V)
        /\ \A i \in 1 .. Len(Q) + Len(V) :
             R[i] = IF i <= Len(Q) THEN Q[i] ELSE V[i - Len(Q)]
    BY <2>2, ConcatProperties
  <2> HIDE DEF R
  <2>4. Len(R) = Len(P)
    BY <1>2, <2>1, <2>2, <2>3
  <2>5. ASSUME NEW i \in 1 .. Len(P) PROVE P[i] = R[i]
    <3>1. i \in 1 .. n - a /\ a + i \in 1 .. Len(W) + Len(V) /\ P[i] = X[a + i]
      BY <1>2, <1>6, <2>1
    <3>2. R[i] = IF i <= Len(W) - a THEN Q[i] ELSE V[i - (Len(W) - a)]
      BY <2>2, <2>3, <2>4
    <3>3. CASE i <= Len(W) - a
      <4>1. a + i <= Len(W) /\ i \in 1 .. Len(W) - a
        BY <1>2, <1>6, <3>1, <3>3
      <4> QED BY <1>1, <2>2, <3>1, <3>2, <3>3, <4>1
    <3>4. CASE ~(i <= Len(W) - a)
      <4>1. ~(a + i <= Len(W)) /\ (a + i) - Len(W) = i - (Len(W) - a)
        BY <1>2, <1>6, <3>1, <3>4
      <4> QED BY <1>1, <3>1, <3>2, <3>4, <4>1
    <3> QED BY <3>3, <3>4
  <2>6. P = R
    BY <2>1, <2>3, <2>4, <2>5, SeqEqual
  <2> QED BY <2>6 DEF P, Q, R
<1> QED BY <1>1, <1>3, <1>4, <1>5, <1>6 DEF X

(***************************************************************************)
(* Codec                                                                   *)
(***************************************************************************)
Octets(len) == [of : DOMAIN len, pos : Nat \ {0}] \cup {GarbageByte}

Decoded(packets, rest) == [ok |-> TRUE, packets |-> packets, rest |-> rest]
Refusal                == [ok |-> FALSE, packets |-> <<>>, rest |-> <<>>]
Prepend(packet, r)     == [r EXCEPT !.packets = <<packet>> \o @]

\* The equation of "after" in Parse: n is Width, packet is Packet.
Width(b, len, i) == IF b[i + 1].pos = 1 THEN len[b[i + 1].of] ELSE 1
Packet(b, i, n)  == IF SubSeq(b, i + 1, i + n) = Bytes(b[i + 1].of, n) THEN b[i + 1].of ELSE 0
After(b, len, f, i) ==
  IF i = Len(b)
  THEN Decoded(<<>>, <<>>)
  ELSE IF b[i + 1] = GarbageByte
  THEN Refusal
  ELSE IF Width(b, len, i) > Len(b) - i
  THEN Decoded(<<>>, SubSeq(b, i + 1, Len(b)))
  ELSE Prepend(Packet(b, i, Width(b, len, i)), f[i + Width(b, len, i)])

\* What Parse comes to.
Fields(r)      == r = [x \in {"ok", "packets", "rest"} |-> r[x]]
Finds(r, p, q) == Fields(r) /\ r.ok /\ r.packets = p /\ r.rest = q
Refuses(r)     == Fields(r) /\ ~r.ok

LEMMA Outcomes ==
  ASSUME NEW p, NEW q
  PROVE  Finds(Decoded(p, q), p, q) /\ Refuses(Refusal)
<1>1. Finds(Decoded(p, q), p, q)
  BY DEF Finds, Fields, Decoded
<1>2. Refuses(Refusal)
  BY DEF Refuses, Fields, Refusal
<1> QED BY <1>1, <1>2

LEMMA PutBefore ==
  ASSUME NEW k, NEW r
  PROVE  /\ \A p, q : Finds(r, p, q) => Finds(Prepend(k, r), <<k>> \o p, q)
         /\ Refuses(r) => Refuses(Prepend(k, r))
<1>1. ASSUME NEW p, NEW q, Finds(r, p, q) PROVE Finds(Prepend(k, r), <<k>> \o p, q)
  BY <1>1 DEF Prepend, Finds, Fields
<1>2. ASSUME Refuses(r) PROVE Refuses(Prepend(k, r))
  BY <1>2 DEF Prepend, Refuses, Fields
<1> QED BY <1>1, <1>2

(* A packet is found from what is found behind it.                          *)
LEMMA FromBehind ==
  ASSUME NEW len \in Seq(Nat \ {0}), NEW b \in Seq(Octets(len)),
         NEW i \in 0 .. Len(b), NEW f, NEW g, \A j \in i + 1 .. Len(b) : f[j] = g[j]
  PROVE  After(b, len, f, i) = After(b, len, g, i)
<1>1. CASE i = Len(b)
  BY <1>1 DEF After
<1>2. CASE i # Len(b) /\ b[i + 1] = GarbageByte
  BY <1>2 DEF After
<1>3. CASE i # Len(b) /\ b[i + 1] # GarbageByte
  <2>1. i + 1 \in 1 .. Len(b)
    BY <1>3
  <2>2. b[i + 1] \in [of : DOMAIN len, pos : Nat \ {0}]
    BY <1>3, <2>1, ElementOfSeq DEF Octets
  <2>3. PICK n \in Nat \ {0} : n = Width(b, len, i)
    <3>1. \A k \in DOMAIN len : len[k] \in Nat \ {0}
      OBVIOUS
    <3> QED BY <2>2, <3>1 DEF Width
  <2>4. CASE n > Len(b) - i
    BY <1>3, <2>3, <2>4 DEF After
  <2>5. CASE ~(n > Len(b) - i)
    <3>1. i + n \in i + 1 .. Len(b)
      BY <1>3, <2>5
    <3>2. f[i + n] = g[i + n]
      BY <3>1
    <3> QED BY <1>3, <2>3, <2>5, <3>2 DEF After
  <2> QED BY <2>4, <2>5
<1> QED BY <1>1, <1>2, <1>3

(* There is a function with this equation, and Parse is what it finds.       *)
LEMMA AfterExists ==
  ASSUME NEW len \in Seq(Nat \ {0}), NEW b \in Seq(Octets(len))
  PROVE  \E f : f = [i \in 0 .. Len(b) |-> After(b, len, f, i)]
<1> DEFINE L == Len(b)
           Up(f, m) == f = [i \in 0 .. L |-> IF L - i <= m THEN After(b, len, f, i) ELSE 0]
           S == {m \in Nat : \E f : Up(f, m)}
<1>0. L \in Nat
  OBVIOUS
<1>1. 0 \in S
  <2> DEFINE f == [i \in 0 .. L |-> IF i = L THEN Decoded(<<>>, <<>>) ELSE 0]
  <2>1. \A i \in 0 .. L : L - i <= 0 <=> i = L
    BY <1>0
  <2>2. After(b, len, f, L) = Decoded(<<>>, <<>>)
    BY DEF After
  <2>3. Up(f, 0)
    <3> HIDE DEF L
    <3>1. f = [i \in 0 .. L |-> IF i = L THEN After(b, len, f, L) ELSE 0]
      <4>1. After(b, len, f, L) = Decoded(<<>>, <<>>)
        BY <2>2
      <4> QED BY <4>1
    <3> HIDE DEF f
    <3>2. f = [i \in 0 .. L |-> IF L - i <= 0 THEN After(b, len, f, i) ELSE 0]
      BY <2>1, <3>1
    <3> QED BY <3>2
  <2> HIDE DEF f, Up
  <2> QED BY <2>3
<1>2. ASSUME NEW m \in Nat, m \in S PROVE m + 1 \in S
  <2> PICK f : Up(f, m)
    BY <1>2
  <2> DEFINE g == [i \in 0 .. L |-> IF L - i <= m + 1 THEN After(b, len, f, i) ELSE 0]
  <2> HIDE DEF L
  <2>1. \A i \in 0 .. L : L - i <= m => g[i] = f[i]
    BY <1>0
  <2>2. ASSUME NEW i \in 0 .. L, L - i <= m + 1
        PROVE  After(b, len, f, i) = After(b, len, g, i)
    <3>1. \A j \in i + 1 .. L : j \in 0 .. L /\ L - j <= m
      BY <1>0, <2>2
    <3>2. \A j \in i + 1 .. L : f[j] = g[j]
      BY <2>1, <3>1
    <3> HIDE DEF g, Up
    <3> QED BY <3>2, FromBehind DEF L
  <2>3. Up(g, m + 1)
    BY <2>2
  <2> HIDE DEF g, Up
  <2> QED BY <2>3
<1>3. L \in S
  <2> HIDE DEF S, L
  <2> QED BY <1>0, <1>1, <1>2, SetInduction
<1>4. PICK f : Up(f, L)
  BY <1>3
<1>5. f = [i \in 0 .. L |-> After(b, len, f, i)]
  <2>1. f = [i \in 0 .. L |-> IF L - i <= L THEN After(b, len, f, i) ELSE 0]
    BY <1>4
  <2> HIDE DEF L, Up
  <2>2. \A i \in 0 .. L : L - i <= L
    BY <1>0
  <2> QED BY <2>1, <2>2
<1> QED BY <1>5

LEMMA ParseUnfolds ==
  ASSUME NEW len \in Seq(Nat \ {0}), NEW b \in Seq(Octets(len))
  PROVE  \E f : /\ f = [i \in 0 .. Len(b) |-> After(b, len, f, i)]
                /\ Parse(b, len) = f[0]
<1> DEFINE f == CHOOSE f : f = [i \in 0 .. Len(b) |-> After(b, len, f, i)]
<1>1. f = [i \in 0 .. Len(b) |-> After(b, len, f, i)]
  BY AfterExists
<1>2. Parse(b, len) = f[0]
  BY DEF Parse, After, Width, Packet, Decoded, Refusal, Prepend
<1> QED BY <1>1, <1>2

(***************************************************************************)
(* Streams.  W is what was sent for n packets of the lengths len: packet k    *)
(* begins behind s[k], unless garbage came in its place.                     *)
(***************************************************************************)
Whole(W, s, k, l)  == s[k + 1] = s[k] + l /\ \A j \in 1 .. l : W[s[k] + j] = Byte(k, j)
Garbled(W, s, k)   == s[k + 1] = s[k] + 1 /\ W[s[k] + 1] = GarbageByte
Carries(W, s, n, len) ==
  /\ len \in Seq(Nat \ {0}) /\ W \in Seq(Octets(len)) /\ n \in 0 .. Len(len)
  /\ s \in [1 .. n + 1 -> Nat] /\ s[1] = 0 /\ s[n + 1] = Len(W)
  /\ \A k \in 1 .. n : Whole(W, s, k, len[k]) \/ Garbled(W, s, k)

\* Packets m and those behind it are not whole when the stream is read up to e.
UpTo(s, n, m, e) == s[m] <= e /\ (m <= n => e < s[m + 1])

\* packets k to m - 1
Run(k, m) == [i \in 1 .. m - k |-> k - 1 + i]

\* What is found in W from the beginning of packet k up to e.
Found(W, s, n, k, e, r) ==
  \/ \E m \in k .. n + 1 :
       /\ UpTo(s, n, m, e)
       /\ Finds(r, Run(k, m), SubSeq(W, s[m] + 1, e))
  \/ (\E g \in 1 .. n : Garbled(W, s, g)) /\ Refuses(r)

LEMMA Widths ==
  ASSUME NEW len, NEW W, NEW s, NEW n, Carries(W, s, n, len)
  PROVE  /\ n \in Nat
         /\ \A k \in 1 .. n + 1 : s[k] \in Nat
         /\ \A k \in 1 .. n : len[k] \in Nat \ {0} /\ s[k] < s[k + 1]
<1>0. len \in Seq(Nat \ {0})
  BY DEF Carries
<1>1. n \in Nat /\ n <= Len(len) /\ s \in [1 .. n + 1 -> Nat]
  BY <1>0 DEF Carries
<1>2. \A k \in 1 .. n : k \in 1 .. Len(len) /\ k \in 1 .. n + 1 /\ k + 1 \in 1 .. n + 1
  BY <1>1
<1>3. \A k \in 1 .. n : len[k] \in Nat \ {0}
  BY <1>0, <1>2
<1>4. ASSUME NEW k \in 1 .. n PROVE s[k] < s[k + 1]
  <2>1. s[k] \in Nat /\ s[k + 1] \in Nat /\ len[k] \in Nat \ {0}
    BY <1>1, <1>2, <1>3
  <2>2. s[k + 1] = s[k] + len[k] \/ s[k + 1] = s[k] + 1
    BY DEF Carries, Whole, Garbled
  <2> QED BY <2>1, <2>2
<1> QED BY <1>1, <1>3, <1>4

LEMMA Rising ==
  ASSUME NEW len, NEW W, NEW s, NEW n, Carries(W, s, n, len),
         NEW a \in 1 .. n + 1, NEW b \in 1 .. n + 1, a <= b
  PROVE  s[a] <= s[b]
<1> DEFINE S == {d \in Nat : a + d <= n + 1 => s[a] <= s[a + d]}
<1>0. n \in Nat /\ (\A k \in 1 .. n + 1 : s[k] \in Nat) /\ (\A k \in 1 .. n : s[k] < s[k + 1])
  BY Widths
<1>1. 0 \in S
  <2>1. a + 0 = a /\ s[a] \in Nat
    BY <1>0
  <2> QED BY <2>1
<1>2. ASSUME NEW d \in Nat, d \in S PROVE d + 1 \in S
  <2> SUFFICES ASSUME a + (d + 1) <= n + 1 PROVE s[a] <= s[a + (d + 1)]
    OBVIOUS
  <2>1. a + d \in 1 .. n /\ a + (d + 1) = (a + d) + 1 /\ a + d \in 1 .. n + 1
        /\ a + (d + 1) \in 1 .. n + 1
    BY <1>0
  <2>2. s[a] <= s[a + d]
    BY <1>2, <2>1
  <2>3. s[a + d] < s[a + (d + 1)]
    BY <1>0, <2>1
  <2>4. s[a] \in Nat /\ s[a + d] \in Nat /\ s[a + (d + 1)] \in Nat
    BY <1>0, <2>1
  <2> QED BY <2>2, <2>3, <2>4
<1>3. b - a \in S
  <2>1. b - a \in Nat
    BY <1>0
  <2> HIDE DEF S
  <2> QED BY <1>1, <1>2, <2>1, SetInduction
<1>4. a + (b - a) = b
  BY <1>0
<1> QED BY <1>0, <1>3, <1>4

(* What one turn of the loop in Codec finds.                                *)
LEMMA NothingLeft ==
  ASSUME NEW len, NEW b, NEW f
  PROVE  After(b, len, f, Len(b)) = Decoded(<<>>, <<>>)
  BY DEF After

LEMMA SeesGarbage ==
  ASSUME NEW len, NEW b, NEW f, NEW i, i # Len(b), b[i + 1] = GarbageByte
  PROVE  After(b, len, f, i) = Refusal
  BY DEF After

LEMMA FirstByte ==
  ASSUME NEW k \in Nat \ {0}
  PROVE  Byte(k, 1) # GarbageByte /\ Byte(k, 1).pos = 1 /\ Byte(k, 1).of = k
<1>1. Byte(k, 1).of = k /\ Byte(k, 1).pos = 1 /\ GarbageByte.of = 0
  BY DEF Byte, GarbageByte
<1> QED BY <1>1

LEMMA SeesPart ==
  ASSUME NEW len, NEW b, NEW f, NEW i \in Nat, NEW k \in Nat \ {0},
         NEW l \in Nat \ {0}, len[k] = l, NEW y \in Nat, Len(b) = y, i # y, l > y - i,
         b[i + 1] = Byte(k, 1)
  PROVE  After(b, len, f, i) = Decoded(<<>>, SubSeq(b, i + 1, y))
<1>1. b[i + 1] # GarbageByte /\ b[i + 1].pos = 1 /\ b[i + 1].of = k
  BY FirstByte
<1>2. Width(b, len, i) = l
  BY <1>1 DEF Width
<1> QED BY <1>1, <1>2 DEF After

LEMMA AllOfPacket ==
  ASSUME NEW k, NEW l \in Nat, NEW P, NEW T, P \in Seq(T), Len(P) = l,
         \A j \in 1 .. l : P[j] = Byte(k, j)
  PROVE  P = Bytes(k, l)
<1>1. P \in [1 .. l -> T]
  BY LenProperties
<1> QED BY <1>1 DEF Bytes

LEMMA SeesPacket ==
  ASSUME NEW len, NEW b, NEW f, NEW i \in Nat, NEW k \in Nat \ {0},
         NEW l \in Nat \ {0}, len[k] = l, NEW y \in Nat, Len(b) = y,
         NEW z \in Nat, z = i + l, z <= y,
         b[i + 1] = Byte(k, 1), SubSeq(b, i + 1, z) = Bytes(k, l)
  PROVE  After(b, len, f, i) = Prepend(k, f[z])
<1>1. b[i + 1] # GarbageByte /\ b[i + 1].pos = 1 /\ b[i + 1].of = k
  BY FirstByte
<1>2. i # y /\ ~(l > y - i)
  OBVIOUS
<1>3. Width(b, len, i) = l
  BY <1>1 DEF Width
<1>4. Packet(b, i, l) = k
  BY <1>1 DEF Packet
<1> QED BY <1>1, <1>2, <1>3, <1>4 DEF After

LEMMA RunOn ==
  ASSUME NEW k \in Nat, NEW m \in Nat, k + 1 <= m
  PROVE  <<k>> \o Run(k + 1, m) = Run(k, m)
<1>1. PICK d \in Nat : m - (k + 1) = d /\ m - k = d + 1
  OBVIOUS
<1>2. <<k>> \o [x \in 1 .. d |-> k + 1 - 1 + x] = [x \in 1 .. d + 1 |-> k - 1 + x]
  OBVIOUS
<1> QED BY <1>1, <1>2 DEF Run

LEMMA RunEmpty == ASSUME NEW k \in Nat PROVE Run(k, k) = <<>>
  BY DEF Run

(* What is found at a place of a stream, when it is read from behind a to e.  *)
LEMMA Window ==
  ASSUME NEW T, NEW W \in Seq(T), NEW a \in Nat, NEW c \in Nat, NEW e \in Nat,
         a <= c, c <= e, e <= Len(W), NEW b, b = SubSeq(W, a + 1, e)
  PROVE  /\ b \in Seq(T) /\ Len(b) = e - a /\ c - a \in 0 .. Len(b)
         /\ \A x \in 1 .. e - c : b[(c - a) + x] = W[c + x]
         /\ SubSeq(b, (c - a) + 1, Len(b)) = SubSeq(W, c + 1, e)
<1>1. a <= e
  OBVIOUS
<1>2. b \in Seq(T) /\ Len(b) = e - a /\ \A x \in 1 .. e - a : b[x] = W[a + x]
  BY <1>1, Piece
<1>3. PICK i \in Nat : i = c - a
  OBVIOUS
<1>4. PICK y \in Nat : y = e - a
  BY <1>1
<1>5. i <= y /\ a + i = c /\ a + y = e
  BY <1>3, <1>4
<1>6. ASSUME NEW x \in 1 .. e - c PROVE b[i + x] = W[c + x]
  <2>1. i + x \in 1 .. e - a /\ a + (i + x) = c + x
    BY <1>5
  <2> QED BY <1>2, <2>1
<1>7. SubSeq(SubSeq(W, a + 1, e), i + 1, y) = SubSeq(W, (a + i) + 1, a + y)
  BY <1>1, <1>4, <1>5, PieceOfPiece
<1>8. SubSeq(b, i + 1, Len(b)) = SubSeq(W, c + 1, e)
  BY <1>2, <1>4, <1>5, <1>7
<1>9. i \in 0 .. Len(b)
  BY <1>2, <1>4, <1>5
<1> QED BY <1>2, <1>3, <1>6, <1>8, <1>9

(* The next packet of a stream is garbage, is not all there, or is found.    *)
LEMMA FindsNext ==
  ASSUME NEW len, NEW W, NEW s, NEW n, Carries(W, s, n, len),
         NEW j \in 1 .. n + 1, NEW k \in j .. n, NEW e \in Nat, e <= Len(W), s[k] <= e,
         NEW f, s[k + 1] <= e => Found(W, s, n, k + 1, e, f[s[k + 1] - s[j]])
  PROVE  Found(W, s, n, k, e, After(SubSeq(W, s[j] + 1, e), len, f, s[k] - s[j]))
<1>1. W \in Seq(Octets(len))
  BY DEF Carries
<1>2. n \in Nat
  BY Widths
<1>3. k \in Nat \ {0} /\ k \in 1 .. n /\ k \in 1 .. n + 1 /\ k + 1 \in 1 .. n + 1 /\ j <= k
      /\ k \in k .. n + 1
  BY <1>2
<1>4. PICK a \in Nat : a = s[j]
  BY Widths
<1>5. PICK c \in Nat : c = s[k]
  BY <1>3, Widths
<1>6. PICK d \in Nat : d = s[k + 1]
  BY <1>3, Widths
<1>7. PICK l \in Nat \ {0} : l = len[k]
  BY <1>3, Widths
<1>8. a <= c /\ c < d /\ c <= e
  <2>1. a <= c
    BY <1>3, <1>4, <1>5, Rising
  <2>2. c < d
    BY <1>3, <1>5, <1>6, Widths
  <2> QED BY <1>5, <2>1, <2>2
<1>9. PICK b : b = SubSeq(W, a + 1, e)
  OBVIOUS
<1>10. PICK i \in Nat : i = c - a
  BY <1>8
<1>11. PICK y \in Nat : y = e - a
  BY <1>8
<1>12. PICK q : q = SubSeq(W, c + 1, e)
  OBVIOUS
<1>13. /\ b \in Seq(Octets(len)) /\ Len(b) = y /\ SubSeq(b, i + 1, y) = q
       /\ \A x \in 1 .. e - c : b[i + x] = W[c + x]
  <2>1. /\ b \in Seq(Octets(len)) /\ Len(b) = e - a
        /\ \A x \in 1 .. e - c : b[(c - a) + x] = W[c + x]
        /\ SubSeq(b, (c - a) + 1, Len(b)) = SubSeq(W, c + 1, e)
    BY <1>1, <1>8, <1>9, Window
  <2> QED BY <1>10, <1>11, <1>12, <2>1
<1>14. PICK r : r = After(b, len, f, i)
  OBVIOUS
<1>15. ASSUME e < d, r = Decoded(<<>>, q) PROVE Found(W, s, n, k, e, r)
  <2>1. Finds(r, Run(k, k), SubSeq(W, s[k] + 1, e))
    BY <1>3, <1>5, <1>12, <1>15, RunEmpty, Outcomes
  <2>2. UpTo(s, n, k, e)
    BY <1>5, <1>6, <1>8, <1>15 DEF UpTo
  <2> QED BY <1>3, <2>1, <2>2 DEF Found
<1>16. ASSUME c = e PROVE Found(W, s, n, k, e, r)
  <2>1. q = <<>>
    BY <1>1, <1>12, <1>16, SubSeqEmpty
  <2>2. i = Len(b)
    BY <1>10, <1>11, <1>13, <1>16
  <2>3. r = Decoded(<<>>, q)
    BY <1>14, <2>1, <2>2, NothingLeft
  <2> QED BY <1>8, <1>15, <1>16, <2>3
<1>17. ASSUME c < e, W[c + 1] = GarbageByte, \E g \in 1 .. n : Garbled(W, s, g)
       PROVE  Found(W, s, n, k, e, r)
  <2>1. 1 \in 1 .. e - c
    BY <1>17
  <2>2. b[i + 1] = GarbageByte
    BY <1>13, <1>17, <2>1
  <2>3. i # Len(b)
    BY <1>10, <1>11, <1>13, <1>17
  <2>4. r = Refusal
    BY <1>14, <2>2, <2>3, SeesGarbage
  <2>5. Refuses(r)
    BY <2>4, Outcomes
  <2> QED BY <1>17, <2>5 DEF Found
<1>18. ASSUME e < d, c < e, d = c + l, \A x \in 1 .. l : W[c + x] = Byte(k, x)
       PROVE  Found(W, s, n, k, e, r)
  <2>1. 1 \in 1 .. e - c /\ 1 \in 1 .. l
    BY <1>18
  <2>2. b[i + 1] = Byte(k, 1)
    BY <1>13, <1>18, <2>1
  <2>3. i # y /\ l > y - i
    BY <1>10, <1>11, <1>18
  <2>4. r = Decoded(<<>>, SubSeq(b, i + 1, y))
    BY <1>3, <1>7, <1>13, <1>14, <2>2, <2>3, SeesPart
  <2> QED BY <1>13, <1>15, <1>18, <2>4
<1>19. ASSUME d <= e, d = c + l, \A x \in 1 .. l : W[c + x] = Byte(k, x)
       PROVE  Found(W, s, n, k, e, r)
  <2>1. \A x \in 1 .. l : b[i + x] = Byte(k, x)
    <3>1. \A x \in 1 .. l : x \in 1 .. e - c
      BY <1>19
    <3> QED BY <1>13, <1>19, <3>1
  <2>2. PICK z \in Nat : z = d - a
    BY <1>8
  <2>3. PICK v : v = f[d - a]
    OBVIOUS
  <2>4. r = Prepend(k, v)
    <3>1. z = i + l /\ z <= y
      BY <1>10, <1>11, <1>19, <2>2
    <3>2. SubSeq(b, i + 1, z) = Bytes(k, l)
      <4>1. i <= z /\ z - i = l /\ z <= Len(b) /\ b \in Seq(Octets(len))
        BY <1>13, <3>1
      <4>2. PICK P : P = SubSeq(b, i + 1, z)
        OBVIOUS
      <4>3. P \in Seq(Octets(len)) /\ Len(P) = l /\ \A x \in 1 .. l : P[x] = b[i + x]
        <5>1. /\ SubSeq(b, i + 1, z) \in Seq(Octets(len)) /\ Len(SubSeq(b, i + 1, z)) = z - i
              /\ \A x \in 1 .. z - i : SubSeq(b, i + 1, z)[x] = b[i + x]
          BY <4>1, Piece
        <5> QED BY <4>1, <4>2, <5>1
      <4>4. \A x \in 1 .. l : P[x] = Byte(k, x)
        BY <2>1, <4>3
      <4> QED BY <4>2, <4>3, <4>4, AllOfPacket
    <3>3. b[i + 1] = Byte(k, 1)
      <4>1. 1 \in 1 .. l
        OBVIOUS
      <4> QED BY <2>1, <4>1
    <3>4. r = Prepend(k, f[z])
      <4>1. /\ i \in Nat /\ k \in Nat \ {0} /\ l \in Nat \ {0} /\ len[k] = l /\ y \in Nat /\ Len(b) = y
            /\ z \in Nat /\ z = i + l /\ z <= y
            /\ b[i + 1] = Byte(k, 1) /\ SubSeq(b, i + 1, z) = Bytes(k, l)
        BY <1>3, <1>7, <1>13, <3>1, <3>2, <3>3
      <4>2. After(b, len, f, i) = Prepend(k, f[z])
        BY <4>1, SeesPacket
      <4> QED BY <1>14, <4>2
    <3> QED BY <2>2, <2>3, <3>4
  <2>5. Found(W, s, n, k + 1, e, v)
    BY <1>4, <1>6, <1>19, <2>3
  <2>6. ASSUME NEW m \in k + 1 .. n + 1, UpTo(s, n, m, e),
               Finds(v, Run(k + 1, m), SubSeq(W, s[m] + 1, e))
        PROVE  Found(W, s, n, k, e, r)
    <3>1. Finds(r, <<k>> \o Run(k + 1, m), SubSeq(W, s[m] + 1, e))
      BY <2>4, <2>6, PutBefore
    <3>2. m \in Nat /\ m \in k .. n + 1 /\ k + 1 <= m
      BY <1>2, <1>3
    <3>3. <<k>> \o Run(k + 1, m) = Run(k, m)
      BY <1>3, <3>2, RunOn
    <3> QED BY <2>6, <3>1, <3>2, <3>3 DEF Found
  <2>7. ASSUME Refuses(v), \E g \in 1 .. n : Garbled(W, s, g)
        PROVE  Found(W, s, n, k, e, r)
    <3>1. Refuses(r)
      BY <2>4, <2>7, PutBefore
    <3> QED BY <2>7, <3>1 DEF Found
  <2> QED BY <2>5, <2>6, <2>7 DEF Found
<1>20. \/ d = c + l /\ \A x \in 1 .. l : W[c + x] = Byte(k, x)
       \/ W[c + 1] = GarbageByte /\ \E g \in 1 .. n : Garbled(W, s, g)
  <2>1. Whole(W, s, k, len[k]) \/ Garbled(W, s, k)
    BY <1>3 DEF Carries
  <2> QED BY <1>3, <1>5, <1>6, <1>7, <2>1 DEF Whole, Garbled
<1>21. (c = e \/ c < e) /\ (e < d \/ d <= e)
  BY <1>8
<1> QED BY <1>4, <1>5, <1>9, <1>10, <1>14, <1>16, <1>17, <1>18, <1>19, <1>20, <1>21

(* From a boundary on, Codec finds the packets that are there as a whole, and *)
(* keeps the rest; or it finds garbage.                                     *)
LEMMA ParseFinds ==
  ASSUME NEW len, NEW W, NEW s, NEW n, Carries(W, s, n, len),
         NEW j \in 1 .. n + 1, NEW e \in Nat, s[j] <= e, e <= Len(W)
  PROVE  Found(W, s, n, j, e, Parse(SubSeq(W, s[j] + 1, e), len))
<1>1. W \in Seq(Octets(len)) /\ n \in Nat /\ s[n + 1] = Len(W) /\ Len(W) \in Nat
  <2>1. n \in Nat
    BY Widths
  <2>2. W \in Seq(Octets(len)) /\ s[n + 1] = Len(W)
    BY DEF Carries
  <2> QED BY <2>1, <2>2
<1>2. PICK a \in Nat : a = s[j]
  BY Widths
<1>3. PICK b : b = SubSeq(W, a + 1, e)
  OBVIOUS
<1>4. b \in Seq(Octets(len)) /\ Len(b) = e - a
  BY <1>1, <1>2, <1>3, Piece
<1>5. PICK f : f = [i \in 0 .. Len(b) |-> After(b, len, f, i)] /\ Parse(b, len) = f[0]
  <2>1. len \in Seq(Nat \ {0})
    BY DEF Carries
  <2> QED BY <1>4, <2>1, ParseUnfolds
<1>6. \A i \in 0 .. e - a : f[i] = After(b, len, f, i)
  BY <1>4, <1>5
<1> DEFINE Good(k) == s[k] <= e => Found(W, s, n, k, e, f[s[k] - a])
           S == {d \in Nat : \A k \in j .. n + 1 : k + d = n + 1 => Good(k)}
<1>7. 0 \in S
  <2> SUFFICES ASSUME s[n + 1] <= e PROVE Found(W, s, n, n + 1, e, f[s[n + 1] - a])
    <3>1. \A k \in j .. n + 1 : k + 0 = n + 1 => k = n + 1
      BY <1>1
    <3> QED BY <3>1
  <2>1. s[n + 1] = e
    BY <1>1
  <2>2. f[e - a] = After(b, len, f, e - a)
    <3>1. e - a \in 0 .. e - a
      BY <1>2
    <3> QED BY <1>6, <3>1
  <2>3. f[e - a] = Decoded(<<>>, SubSeq(W, e + 1, e))
    <3>1. SubSeq(W, e + 1, e) = <<>>
      BY <1>1, SubSeqEmpty
    <3>2. PICK y : y = e - a
      OBVIOUS
    <3>3. After(b, len, f, y) = Decoded(<<>>, <<>>)
      BY <1>4, <3>2, NothingLeft
    <3> QED BY <2>2, <3>1, <3>2, <3>3
  <2>4. Run(n + 1, n + 1) = <<>> /\ n + 1 \in n + 1 .. n + 1
    BY <1>1, RunEmpty
  <2>5. UpTo(s, n, n + 1, e)
    BY <1>1, <2>1 DEF UpTo
  <2>6. Finds(f[e - a], Run(n + 1, n + 1), SubSeq(W, s[n + 1] + 1, e))
    BY <2>1, <2>3, <2>4, Outcomes
  <2> QED BY <2>1, <2>4, <2>5, <2>6 DEF Found
<1>8. ASSUME NEW d \in Nat, d \in S PROVE d + 1 \in S
  <2> SUFFICES ASSUME NEW k \in j .. n + 1, k + (d + 1) = n + 1, s[k] <= e
               PROVE  Found(W, s, n, k, e, f[s[k] - a])
    OBVIOUS
  <2>1. k \in j .. n /\ k + 1 \in j .. n + 1 /\ (k + 1) + d = n + 1 /\ k \in 1 .. n + 1 /\ j <= k
    BY <1>1
  <2>2. s[k + 1] <= e => Found(W, s, n, k + 1, e, f[s[k + 1] - s[j]])
    BY <1>2, <1>8, <2>1
  <2> HIDE DEF S
  <2>3. Found(W, s, n, k, e, After(SubSeq(W, s[j] + 1, e), len, f, s[k] - s[j]))
    BY <2>1, <2>2, FindsNext
  <2>4. PICK c \in Nat : c = s[k]
    BY <2>1, Widths
  <2>5. a <= c
    BY <1>2, <2>1, <2>4, Rising
  <2>6. c - a \in 0 .. e - a
    BY <1>2, <2>4, <2>5
  <2>7. f[s[k] - a] = After(b, len, f, s[k] - a)
    BY <1>6, <2>4, <2>6
  <2> QED BY <1>2, <1>3, <2>3, <2>7
<1>9. Good(j)
  <2>1. (n + 1) - j \in Nat /\ j \in j .. n + 1 /\ j + ((n + 1) - j) = n + 1
    BY <1>1
  <2>2. (n + 1) - j \in S
    <3> HIDE DEF S
    <3> QED BY <1>7, <1>8, <2>1, SetInduction
  <2> HIDE DEF Good
  <2> QED BY <2>1, <2>2
<1>10. s[j] - a = 0
  BY <1>2
<1> QED BY <1>2, <1>3, <1>5, <1>9, <1>10

(***************************************************************************)
(* A stream that grows                                                     *)
(***************************************************************************)
LEMMA BytesOfPacket ==
  ASSUME NEW len, NEW k \in Nat \ {0}, k \in DOMAIN len, NEW l \in Nat \ {0}
  PROVE  /\ Bytes(k, l) \in Seq(Octets(len)) /\ Len(Bytes(k, l)) = l
         /\ \A x \in 1 .. l : Bytes(k, l)[x] = Byte(k, x)
<1>1. \A x \in 1 .. l : Byte(k, x) \in Octets(len)
  BY DEF Byte, Octets
<1>2. Bytes(k, l) \in [1 .. l -> Octets(len)] /\ \A x \in 1 .. l : Bytes(k, l)[x] = Byte(k, x)
  BY <1>1 DEF Bytes
<1>3. Bytes(k, l) \in Seq(Octets(len))
  BY <1>2, SeqDef
<1>4. Len(Bytes(k, l)) = l
  BY <1>2, <1>3, LenProperties
<1> QED BY <1>2, <1>3, <1>4

(* The next packet, or garbage in its place.                                *)
SentNext(k, len, bytes) == bytes = Bytes(k, len[k]) \/ bytes = <<GarbageByte>>

LEMMA BytesSent ==
  ASSUME NEW len \in Seq(Nat \ {0}), NEW k \in 1 .. Len(len), NEW bytes, SentNext(k, len, bytes)
  PROVE  /\ bytes \in Seq(Octets(len))
         /\ \/ Len(bytes) = len[k] /\ \A x \in 1 .. len[k] : bytes[x] = Byte(k, x)
            \/ Len(bytes) = 1 /\ bytes[1] = GarbageByte
<1>1. PICK l \in Nat \ {0} : l = len[k]
  OBVIOUS
<1>2. ASSUME bytes = Bytes(k, l)
      PROVE  /\ bytes \in Seq(Octets(len)) /\ Len(bytes) = l
             /\ \A x \in 1 .. l : bytes[x] = Byte(k, x)
  BY <1>2, BytesOfPacket
<1>3. ASSUME bytes = <<GarbageByte>>
      PROVE  bytes \in Seq(Octets(len)) /\ Len(bytes) = 1 /\ bytes[1] = GarbageByte
  <2>1. GarbageByte \in Octets(len)
    BY DEF Octets
  <2> QED BY <1>3, <2>1
<1> QED BY <1>1, <1>2, <1>3 DEF SentNext

(* Both W and s are what they were in the part that was there.               *)
Extends(X, t, W, s, n) ==
  /\ \A k \in 1 .. n + 1 : t[k] = s[k]
  /\ \A k \in 1 .. n : Garbled(X, t, k) => Garbled(W, s, k)

LEMMA StreamGrows ==
  ASSUME NEW len, NEW W, NEW s, NEW n, Carries(W, s, n, len), n < Len(len),
         NEW bytes, SentNext(n + 1, len, bytes)
  PROVE  \E t : /\ Carries(W \o bytes, t, n + 1, len)
                /\ Extends(W \o bytes, t, W, s, n)
                /\ bytes = Bytes(n + 1, len[n + 1]) => ~Garbled(W \o bytes, t, n + 1)
<1>1. len \in Seq(Nat \ {0}) /\ W \in Seq(Octets(len))
  BY DEF Carries
<1>2. n \in Nat /\ s \in [1 .. n + 1 -> Nat] /\ s[1] = 0 /\ s[n + 1] = Len(W)
  BY <1>1 DEF Carries
<1>3. PICK L \in Nat : L = Len(W)
  BY <1>1
<1>4. n + 1 \in 1 .. Len(len)
  BY <1>1, <1>2
<1>5. PICK l \in Nat \ {0} : l = len[n + 1]
  BY <1>1, <1>4
<1>6. /\ bytes \in Seq(Octets(len))
      /\ \/ Len(bytes) = l /\ \A x \in 1 .. l : bytes[x] = Byte(n + 1, x)
         \/ Len(bytes) = 1 /\ bytes[1] = GarbageByte
  BY <1>1, <1>4, <1>5, BytesSent
<1>7. PICK c \in Nat \ {0} : c = Len(bytes)
  BY <1>6
<1>8. PICK X : X = W \o bytes
  OBVIOUS
<1>9. /\ X \in Seq(Octets(len)) /\ Len(X) = L + c
      /\ \A i \in 1 .. L : X[i] = W[i]
      /\ \A i \in 1 .. c : X[L + i] = bytes[i]
  <2>1. /\ W \o bytes \in Seq(Octets(len)) /\ Len(W \o bytes) = Len(W) + Len(bytes)
        /\ \A i \in 1 .. Len(W) : (W \o bytes)[i] = W[i]
        /\ \A i \in 1 .. Len(bytes) : (W \o bytes)[Len(W) + i] = bytes[i]
    BY <1>1, <1>6, Grown
  <2> QED BY <1>3, <1>7, <1>8, <2>1
<1>10. PICK t : t = [k \in 1 .. n + 2 |-> IF k <= n + 1 THEN s[k] ELSE L + c]
  OBVIOUS
<1>11. /\ t \in [1 .. (n + 1) + 1 -> Nat]
       /\ \A k \in 1 .. n + 1 : t[k] = s[k]
       /\ t[n + 1] = L /\ t[(n + 1) + 1] = L + c /\ t[1] = 0
  BY <1>2, <1>3, <1>10
<1>12. ASSUME NEW k \in 1 .. n
       PROVE  /\ Whole(W, s, k, len[k]) => Whole(X, t, k, len[k])
              /\ Garbled(W, s, k) <=> Garbled(X, t, k)
  <2>1. k \in 1 .. n + 1 /\ k + 1 \in 1 .. n + 1 /\ n + 1 \in 1 .. n + 1 /\ k + 1 <= n + 1
    BY <1>2
  <2>2. PICK a \in Nat : a = s[k]
    BY <2>1, Widths
  <2>3. PICK b \in Nat : b = s[k + 1]
    BY <2>1, Widths
  <2>4. PICK m \in Nat \ {0} : m = len[k]
    BY Widths
  <2>5. b <= L
    BY <1>2, <1>3, <2>1, <2>3, Rising
  <2>6. t[k] = a /\ t[k + 1] = b
    BY <1>11, <2>1, <2>2, <2>3
  <2>7. ASSUME b = a + m, \A j \in 1 .. m : W[a + j] = Byte(k, j)
        PROVE  \A j \in 1 .. m : X[a + j] = Byte(k, j)
    <3>1. \A j \in 1 .. m : a + j \in 1 .. L
      BY <2>5, <2>7
    <3> QED BY <1>9, <2>7, <3>1
  <2>8. ASSUME b = a + 1 PROVE X[a + 1] = W[a + 1]
    <3>1. a + 1 \in 1 .. L
      BY <2>5, <2>8
    <3> QED BY <1>9, <3>1
  <2>9. Whole(W, s, k, m) => Whole(X, t, k, m)
    BY <2>2, <2>3, <2>6, <2>7 DEF Whole
  <2>10. Garbled(W, s, k) <=> Garbled(X, t, k)
    BY <2>2, <2>3, <2>6, <2>8 DEF Garbled
  <2> QED BY <2>4, <2>9, <2>10
<1>13. \A k \in 1 .. n : Whole(X, t, k, len[k]) \/ Garbled(X, t, k)
  BY <1>12 DEF Carries
<1>14. Whole(X, t, n + 1, len[n + 1]) \/ Garbled(X, t, n + 1)
  <2>1. ASSUME Len(bytes) = l, \A x \in 1 .. l : bytes[x] = Byte(n + 1, x)
        PROVE  Whole(X, t, n + 1, l)
    <3>1. c = l
      BY <1>7, <2>1
    <3> QED BY <1>9, <1>11, <2>1, <3>1 DEF Whole
  <2>2. ASSUME Len(bytes) = 1, bytes[1] = GarbageByte PROVE Garbled(X, t, n + 1)
    <3>1. c = 1 /\ 1 \in 1 .. c
      BY <1>7, <2>2
    <3> QED BY <1>9, <1>11, <2>2, <3>1 DEF Garbled
  <2> QED BY <1>5, <1>6, <2>1, <2>2
<1>15. Carries(X, t, n + 1, len)
  <2>1. \A k \in 1 .. n + 1 : k \in 1 .. n \/ k = n + 1
    BY <1>2
  <2>2. n + 1 \in 0 .. Len(len)
    BY <1>4
  <2>3. \A k \in 1 .. n + 1 : Whole(X, t, k, len[k]) \/ Garbled(X, t, k)
    BY <1>13, <1>14, <2>1
  <2> QED BY <1>1, <1>9, <1>11, <2>2, <2>3 DEF Carries
<1>16. Extends(X, t, W, s, n)
  BY <1>11, <1>12 DEF Extends
<1>17. ASSUME bytes = Bytes(n + 1, len[n + 1]) PROVE ~Garbled(X, t, n + 1)
  <2>1. /\ bytes[1] = Byte(n + 1, 1) /\ n + 1 \in Nat \ {0}
    <3>1. n + 1 \in Nat \ {0} /\ n + 1 \in DOMAIN len /\ 1 \in 1 .. l
      BY <1>1, <1>2, <1>4
    <3> QED BY <1>5, <1>17, <3>1, BytesOfPacket
  <2>2. bytes[1] # GarbageByte
    BY <2>1, FirstByte
  <2>3. 1 \in 1 .. c
    OBVIOUS
  <2>4. X[L + 1] # GarbageByte
    BY <1>9, <2>2, <2>3
  <2> QED BY <1>11, <2>4 DEF Garbled
<1> QED BY <1>8, <1>15, <1>16, <1>17

(***************************************************************************)
(* The reads in the mailbox q are the pieces of W from behind e to w.         *)
(***************************************************************************)
Message == [event : {"recv", "close"}, bytes : Seq(Octets(InLen))]

CutAt(W, q, e, w, cut) ==
  /\ cut \in [1 .. Len(q) + 1 -> Nat] /\ cut[1] = e /\ cut[Len(q) + 1] = w
  /\ \A i \in 1 .. Len(q) : /\ cut[i] <= cut[i + 1] /\ cut[i + 1] <= w
                            /\ q[i].bytes = SubSeq(W, cut[i] + 1, cut[i + 1])
Held(W, q, e, w) == \E cut : CutAt(W, q, e, w, cut)

LEMMA HeldNone ==
  ASSUME NEW W, NEW e \in Nat
  PROVE  Held(W, <<>>, e, e)
<1> DEFINE cut == [i \in 1 .. 1 |-> e]
<1>1. CutAt(W, <<>>, e, e, cut)
  BY DEF CutAt
<1> QED BY <1>1 DEF Held

LEMMA HeldBehind ==
  ASSUME NEW W, NEW q \in Seq(Message), NEW e \in Nat, NEW w \in Nat, Held(W, q, e, w),
         NEW v \in Nat, w <= v, NEW m \in Message, m.bytes = SubSeq(W, w + 1, v)
  PROVE  Held(W, Append(q, m), e, v)
<1>1. PICK cut : CutAt(W, q, e, w, cut)
  BY DEF Held
<1>2. PICK n \in Nat : n = Len(q)
  OBVIOUS
<1>3. /\ cut \in [1 .. n + 1 -> Nat] /\ cut[1] = e /\ cut[n + 1] = w
      /\ \A i \in 1 .. n : /\ cut[i] <= cut[i + 1] /\ cut[i + 1] <= w
                           /\ q[i].bytes = SubSeq(W, cut[i] + 1, cut[i + 1])
  BY <1>1, <1>2 DEF CutAt
<1>4. PICK r : r = Append(q, m)
  OBVIOUS
<1>5. Len(r) = n + 1 /\ r[n + 1] = m /\ \A i \in 1 .. n : r[i] = q[i]
  BY <1>2, <1>4
<1>6. PICK new : new = [i \in 1 .. n + 2 |-> IF i <= n + 1 THEN cut[i] ELSE v]
  OBVIOUS
<1>7. /\ new \in [1 .. (n + 1) + 1 -> Nat] /\ new[1] = e /\ new[(n + 1) + 1] = v
      /\ new[n + 1] = w /\ \A i \in 1 .. n : new[i] = cut[i] /\ new[i + 1] = cut[i + 1]
  BY <1>3, <1>6
<1>8. ASSUME NEW i \in 1 .. n + 1
      PROVE  /\ new[i] <= new[i + 1] /\ new[i + 1] <= v
             /\ r[i].bytes = SubSeq(W, new[i] + 1, new[i + 1])
  <2>1. CASE i \in 1 .. n
    <3>1. cut[i + 1] \in Nat /\ cut[i + 1] <= v
      BY <1>3, <2>1
    <3> QED BY <1>3, <1>5, <1>7, <2>1, <3>1
  <2>2. CASE i = n + 1
    BY <1>5, <1>7, <2>2
  <2> QED BY <2>1, <2>2
<1>9. CutAt(W, r, e, v, new)
  BY <1>5, <1>7, <1>8 DEF CutAt
<1> QED BY <1>4, <1>9 DEF Held

LEMMA HeldBefore ==
  ASSUME NEW W, NEW q \in Seq(Message), q # <<>>, NEW e \in Nat, NEW w \in Nat, Held(W, q, e, w)
  PROVE  \E v \in Nat : /\ e <= v /\ v <= w /\ Head(q).bytes = SubSeq(W, e + 1, v)
                        /\ Held(W, Tail(q), v, w)
<1>1. PICK cut : CutAt(W, q, e, w, cut)
  BY DEF Held
<1>2. PICK n \in Nat : Len(q) = n + 1
  <2>1. Len(q) \in Nat /\ Len(q) # 0
    BY EmptySeq
  <2> QED BY <2>1
<1>3. /\ cut \in [1 .. (n + 1) + 1 -> Nat] /\ cut[1] = e /\ cut[(n + 1) + 1] = w
      /\ \A i \in 1 .. n + 1 : /\ cut[i] <= cut[i + 1] /\ cut[i + 1] <= w
                               /\ q[i].bytes = SubSeq(W, cut[i] + 1, cut[i + 1])
  BY <1>1, <1>2 DEF CutAt
<1>4. PICK r : r = Tail(q)
  OBVIOUS
<1>5. Len(r) = n /\ (\A i \in 1 .. n : r[i] = q[i + 1]) /\ Head(q) = q[1]
  BY <1>2, <1>4
<1>6. PICK v \in Nat : v = cut[2]
  BY <1>3
<1>7. PICK new : new = [i \in 1 .. n + 1 |-> cut[i + 1]]
  OBVIOUS
<1>8. new \in [1 .. n + 1 -> Nat] /\ new[1] = v /\ new[n + 1] = w
  <2>1. \A i \in 1 .. n + 1 : cut[i + 1] \in Nat
    BY <1>3
  <2>2. 1 + 1 = 2 /\ 1 \in 1 .. n + 1 /\ n + 1 \in 1 .. n + 1
    OBVIOUS
  <2> QED BY <1>3, <1>6, <1>7, <2>1, <2>2
<1>9. ASSUME NEW i \in 1 .. n
      PROVE  /\ new[i] <= new[i + 1] /\ new[i + 1] <= w
             /\ r[i].bytes = SubSeq(W, new[i] + 1, new[i + 1])
  <2>1. i + 1 \in 1 .. n + 1 /\ new[i] = cut[i + 1] /\ new[i + 1] = cut[(i + 1) + 1]
    BY <1>7
  <2> QED BY <1>3, <1>5, <2>1
<1>10. CutAt(W, r, v, w, new)
  BY <1>5, <1>8, <1>9 DEF CutAt
<1>11. e <= v /\ v <= w /\ Head(q).bytes = SubSeq(W, e + 1, v)
  <2>1. 1 \in 1 .. n + 1 /\ 1 + 1 = 2
    OBVIOUS
  <2> QED BY <1>3, <1>5, <1>6, <2>1
<1> QED BY <1>4, <1>10, <1>11 DEF Held

LEMMA HeldStill ==
  ASSUME NEW T, NEW W \in Seq(T), NEW V \in Seq(T), NEW q \in Seq(Message),
         NEW e \in Nat, NEW w \in Nat, w <= Len(W), Held(W, q, e, w)
  PROVE  Held(W \o V, q, e, w)
<1>1. PICK cut : CutAt(W, q, e, w, cut)
  BY DEF Held
<1>2. PICK n \in Nat : n = Len(q)
  OBVIOUS
<1>3. /\ cut \in [1 .. n + 1 -> Nat]
      /\ \A i \in 1 .. n : /\ cut[i] <= cut[i + 1] /\ cut[i + 1] <= w
                           /\ q[i].bytes = SubSeq(W, cut[i] + 1, cut[i + 1])
  BY <1>1, <1>2 DEF CutAt
<1>4. PICK X : X = W \o V
  OBVIOUS
<1>5. ASSUME NEW i \in 1 .. n
      PROVE  q[i].bytes = SubSeq(X, cut[i] + 1, cut[i + 1])
  <2>1. PICK a \in Nat : a = cut[i]
    BY <1>3
  <2>2. PICK b \in Nat : b = cut[i + 1]
    BY <1>3
  <2>3. a <= b /\ b <= w /\ q[i].bytes = SubSeq(W, a + 1, b)
    BY <1>3, <2>1, <2>2
  <2>4. a <= b /\ b <= Len(W)
    BY <2>3
  <2>5. SubSeq(W \o V, a + 1, b) = SubSeq(W, a + 1, b)
    BY <2>4, Grown
  <2> QED BY <1>4, <2>1, <2>2, <2>3, <2>5
<1>6. CutAt(X, q, e, w, cut)
  BY <1>1, <1>2, <1>5 DEF CutAt
<1> QED BY <1>4, <1>6 DEF Held

(***************************************************************************)
(* What Codec makes of a stream                                            *)
(***************************************************************************)
(* From behind packet d on: the packets up to m, and what is behind them.     *)
CanFeed(W, s, n, len, d, e, r) ==
  /\ Carries(W, s, n, len) /\ d \in 0 .. n /\ e \in Nat /\ s[d + 1] <= e /\ e <= Len(W)
  /\ r = Parse(SubSeq(W, s[d + 1] + 1, e), len) /\ r.ok
Fed(W, s, n, d, e, r) ==
  \E m \in d .. n : /\ s[m + 1] <= e
                    /\ r.packets = [i \in 1 .. m - d |-> d + i]
                    /\ r.rest = SubSeq(W, s[m + 1] + 1, e)

LEMMA Feeds ==
  ASSUME NEW len, NEW W, NEW s, NEW n, NEW d, NEW e, NEW r, CanFeed(W, s, n, len, d, e, r)
  PROVE  Fed(W, s, n, d, e, r)
<1>0. /\ Carries(W, s, n, len) /\ d \in 0 .. n /\ e \in Nat /\ s[d + 1] <= e /\ e <= Len(W)
      /\ r = Parse(SubSeq(W, s[d + 1] + 1, e), len) /\ r.ok
  BY DEF CanFeed
<1>1. n \in Nat
  BY <1>0, Widths
<1>2. d + 1 \in 1 .. n + 1
  BY <1>0, <1>1
<1>3. Found(W, s, n, d + 1, e, r)
  BY <1>0, <1>2, ParseFinds
<1>4. PICK k \in d + 1 .. n + 1 :
        UpTo(s, n, k, e) /\ Finds(r, Run(d + 1, k), SubSeq(W, s[k] + 1, e))
  BY <1>0, <1>3 DEF Found, Refuses
<1>5. PICK m \in d .. n : k = m + 1
  <2>1. k - 1 \in d .. n /\ k = (k - 1) + 1
    BY <1>0, <1>1
  <2> QED BY <2>1
<1>6. Run(d + 1, k) = [i \in 1 .. m - d |-> d + i]
  <2>1. k - (d + 1) = m - d /\ \A i \in 1 .. m - d : (d + 1) - 1 + i = d + i
    BY <1>0, <1>1, <1>5
  <2> QED BY <2>1 DEF Run
<1> QED BY <1>4, <1>5, <1>6 DEF UpTo, Finds, Fed

(* A longer part of a stream without garbage has no fewer packets.            *)
LEMMA ReadsOn ==
  ASSUME NEW len, NEW W, NEW s, NEW n, Carries(W, s, n, len),
         \A k \in 1 .. n : ~Garbled(W, s, k),
         NEW g \in Nat, NEW h \in Nat, g <= h, h <= Len(W)
  PROVE  \E a, b \in 0 .. n : /\ a <= b
                              /\ Parse(SubSeq(W, 1, g), len).packets = Numbers(a)
                              /\ Parse(SubSeq(W, 1, h), len).packets = Numbers(b)
<1>1. n \in Nat /\ 1 \in 1 .. n + 1
  BY Widths
<1>2. s[1] = 0 /\ s[1] + 1 = 1
  BY DEF Carries
<1>3. ASSUME NEW e \in Nat, e <= Len(W)
      PROVE  \E m \in 1 .. n + 1 : /\ UpTo(s, n, m, e)
                                   /\ Parse(SubSeq(W, 1, e), len).packets = Numbers(m - 1)
  <2>1. PICK r : r = Parse(SubSeq(W, s[1] + 1, e), len)
    OBVIOUS
  <2>2. s[1] <= e
    BY <1>2
  <2>3. Found(W, s, n, 1, e, r)
    BY <1>1, <1>3, <2>1, <2>2, ParseFinds
  <2>4. PICK m \in 1 .. n + 1 : UpTo(s, n, m, e) /\ r.packets = Run(1, m)
    BY <2>3 DEF Found, Finds
  <2>5. Run(1, m) = Numbers(m - 1)
    BY <1>1 DEF Run, Numbers
  <2> QED BY <1>2, <2>1, <2>4, <2>5
<1>4. g <= Len(W)
  <2>1. Len(W) \in Nat
    BY DEF Carries
  <2> QED BY <2>1
<1>5. PICK a \in 1 .. n + 1 : UpTo(s, n, a, g) /\ Parse(SubSeq(W, 1, g), len).packets = Numbers(a - 1)
  BY <1>3, <1>4
<1>6. PICK b \in 1 .. n + 1 : UpTo(s, n, b, h) /\ Parse(SubSeq(W, 1, h), len).packets = Numbers(b - 1)
  BY <1>3
<1>7. a <= b
  <2> SUFFICES ASSUME b < a PROVE FALSE
    BY <1>1
  <2>1. b \in 1 .. n /\ b + 1 \in 1 .. n + 1 /\ b + 1 <= a
    BY <1>1
  <2>2. s[b + 1] <= s[a]
    BY <2>1, Rising
  <2>3. h < s[b + 1] /\ s[a] <= g
    BY <1>5, <1>6, <2>1 DEF UpTo
  <2>4. s[a] \in Nat /\ s[b + 1] \in Nat
    BY <2>1, Widths
  <2> QED BY <2>2, <2>3, <2>4
<1>8. a - 1 \in 0 .. n /\ b - 1 \in 0 .. n /\ a - 1 <= b - 1
  BY <1>1, <1>7
<1> QED BY <1>5, <1>6, <1>8

(* A write of x bytes of the last message, of which y bytes were written.     *)
CanWrite(W, s, n, len, a, l, y, x, g) ==
  /\ Carries(W, s, n, len) /\ n # 0 /\ ~Garbled(W, s, n)
  /\ a = s[n] /\ l = len[n] /\ y + x <= l /\ g <= a + y

Wrote(W, n, a, l, y, x, g) ==
  /\ a + y + x <= Len(W)
  /\ y + x = l => a + y + x = Len(W)
  /\ SubSeq(W, g + 1, a + y) \o SubSeq(Bytes(n, l), y + 1, y + x) = SubSeq(W, g + 1, a + y + x)

LEMMA Writes ==
  ASSUME NEW len, NEW W, NEW s, NEW n, NEW a \in Nat, NEW l \in Nat \ {0},
         NEW y \in Nat, NEW x \in Nat \ {0}, NEW g \in Nat,
         CanWrite(W, s, n, len, a, l, y, x, g)
  PROVE  Wrote(W, n, a, l, y, x, g)
<1>0. Carries(W, s, n, len) /\ n # 0 /\ ~Garbled(W, s, n)
  BY DEF CanWrite
<1>1. n \in Nat /\ n \in 1 .. n /\ n \in 1 .. n + 1
  <2>1. n \in Nat
    BY <1>0, Widths
  <2> QED BY <1>0, <2>1
<1>2. W \in Seq(Octets(len)) /\ s[n + 1] = Len(W) /\ Whole(W, s, n, len[n])
  BY <1>0, <1>1 DEF Carries
<1>3. a = s[n] /\ g <= a + y
  BY DEF CanWrite
<1>4. l = len[n] /\ y + x <= l
  BY DEF CanWrite
<1>5. PICK L \in Nat : L = Len(W)
  BY <1>2
<1>6. L = a + l /\ \A j \in 1 .. l : W[a + j] = Byte(n, j)
  BY <1>2, <1>3, <1>4, <1>5 DEF Whole
<1>7. PICK P : P = SubSeq(W, a + 1, L)
  OBVIOUS
<1>8. P \in Seq(Octets(len)) /\ Len(P) = l /\ \A j \in 1 .. l : P[j] = W[a + j]
  <2>1. a <= L /\ L <= Len(W) /\ L - a = l
    BY <1>5, <1>6
  <2>2. /\ SubSeq(W, a + 1, L) \in Seq(Octets(len)) /\ Len(SubSeq(W, a + 1, L)) = L - a
        /\ \A i \in 1 .. L - a : SubSeq(W, a + 1, L)[i] = W[a + i]
    BY <1>2, <2>1, Piece
  <2> QED BY <1>7, <2>1, <2>2
<1>9. \A j \in 1 .. l : P[j] = Byte(n, j)
  BY <1>6, <1>8
<1>10. P = Bytes(n, l)
  BY <1>8, <1>9, AllOfPacket
<1>11. PICK b \in Nat : b = a + y
  OBVIOUS
<1>12. PICK c \in Nat : c = a + (y + x)
  OBVIOUS
<1>13. b <= c /\ c <= L /\ g <= b /\ c = a + y + x /\ (y + x = l => c = L)
  BY <1>3, <1>4, <1>6, <1>11, <1>12
<1>14. SubSeq(Bytes(n, l), y + 1, y + x) = SubSeq(W, b + 1, c)
  <2>1. /\ a <= L /\ L <= Len(W) /\ y \in Nat /\ y + x \in Nat /\ y <= y + x /\ y + x <= L - a
    BY <1>4, <1>5, <1>6
  <2>2. SubSeq(SubSeq(W, a + 1, L), y + 1, y + x) = SubSeq(W, (a + y) + 1, a + (y + x))
    BY <1>2, <2>1, PieceOfPiece
  <2> QED BY <1>7, <1>10, <1>11, <1>12, <2>2
<1>15. SubSeq(W, g + 1, b) \o SubSeq(W, b + 1, c) = SubSeq(W, g + 1, c)
  <2>1. c <= Len(W)
    BY <1>5, <1>13
  <2> QED BY <1>2, <1>13, <2>1, Adjacent
<1> QED BY <1>5, <1>11, <1>13, <1>14, <1>15 DEF Wrote

(***************************************************************************)
(* The inductive invariant                                                 *)
(***************************************************************************)
\* TypeOK, but for the sequences of numbers, which the streams tell; and a
\* call of push_bytes_to_socket that goes on is below both of its limits.
FlagShape == shutdown_flag \in BOOLEAN /\ stalled \in BOOLEAN /\ broken \in BOOLEAN
ThreadShape ==
  /\ pc \in {"check", "push", "pull", "close", "done"}
  /\ pending_buf \in {0} \cup DOMAIN OutLen
  /\ pending_buf = 0 => pending_offset = 0
  /\ pending_buf # 0 => pending_offset \in 0 .. OutLen[pending_buf] - 1
TickShape ==
  /\ bytes_written \in 0 .. WRITE_TICK_MAX_BYTES + WRITE_CALL_MAX_BYTES - 1
  /\ messages_completed \in 0 .. WRITE_TICK_MAX_MESSAGES
  /\ pc = "push" => /\ bytes_written < WRITE_TICK_MAX_BYTES
                    /\ messages_completed < WRITE_TICK_MAX_MESSAGES
WireShape ==
  /\ wire_out \in Seq(Octets(OutLen)) /\ Len(wire_out) <= WireCapacity
  /\ wire_in \in Seq(Octets(InLen)) /\ Len(wire_in) <= WireCapacity
  /\ mailbox \in Seq(Message)
CountShape ==
  /\ server \in {"open", "closed"} /\ session \in {"running", "ended"}
  /\ submitted \in 0 .. Len(OutLen) /\ put \in 0 .. Len(InLen)
Shape == FlagShape /\ ThreadShape /\ TickShape /\ WireShape /\ CountShape

\* W is made of the n messages that left write_chan, the last of them being
\* written.  The server has it up to g, and it was written up to h.
OutStream(W, s, n, g, h) ==
  /\ Carries(W, s, n, OutLen) /\ \A k \in 1 .. n : ~Garbled(W, s, k)
  /\ n <= submitted /\ write_chan = [i \in 1 .. submitted - n |-> n + i]
  /\ pending_buf # 0 => pending_buf = n /\ h = s[n] + pending_offset
  /\ pending_buf = 0 => h = Len(W)
  /\ g \in Nat /\ h \in Nat /\ g <= h /\ h <= Len(W)
  /\ server_got = SubSeq(W, 1, g) /\ wire_out = SubSeq(W, g + 1, h)
OutInv == \E W, s, n, g, h : OutStream(W, s, n, g, h)

\* W is made of the packets that the server put.  The session has delivered d
\* of them and buffered the rest up to e; the mailbox has it up to w.
InStream(W, s, d, e, w) ==
  /\ Carries(W, s, put, InLen)
  /\ e \in Nat /\ w \in Nat /\ s[d + 1] <= e /\ e <= w /\ w <= Len(W)
  /\ buffer = SubSeq(W, s[d + 1] + 1, e)
  /\ Held(W, mailbox, e, w)
  /\ wire_in = SubSeq(W, w + 1, Len(W))
InInv ==
  \E d \in 0 .. put :
    /\ delivered = Numbers(d)
    /\ session = "running" => \E W, s, e, w : InStream(W, s, d, e, w)

IInv == Shape /\ OutInv /\ InInv

outVars == <<write_chan, submitted, pending_buf, pending_offset, server_got, wire_out>>
inVars  == <<put, buffer, mailbox, wire_in, delivered, session>>

LEMMA Constants ==
  /\ OutLen \in Seq(Nat \ {0}) /\ InLen \in Seq(Nat \ {0})
  /\ Len(OutLen) \in Nat /\ Len(InLen) \in Nat
  /\ WRITE_TICK_MAX_BYTES \in Nat \ {0} /\ WRITE_TICK_MAX_MESSAGES \in Nat \ {0}
  /\ WRITE_CALL_MAX_BYTES \in Nat \ {0} /\ ReadMax \in Nat \ {0} /\ WireCapacity \in Nat \ {0}
  BY TransportAssumption

LEMMA NothingSent ==
  ASSUME NEW len \in Seq(Nat \ {0})
  PROVE  \E s : Carries(<<>>, s, 0, len) /\ s[1] = 0
<1> DEFINE s == [k \in 1 .. 1 |-> 0]
<1>1. <<>> \in Seq(Octets(len)) /\ Len(<<>>) = 0
  OBVIOUS
<1>2. s \in [1 .. 0 + 1 -> Nat] /\ s[1] = 0 /\ s[0 + 1] = 0
  OBVIOUS
<1>3. 0 \in 0 .. Len(len) /\ 1 .. 0 = {}
  OBVIOUS
<1> HIDE DEF s
<1>4. Carries(<<>>, s, 0, len)
  BY <1>1, <1>2, <1>3 DEF Carries
<1> QED BY <1>2, <1>4

LEMMA AtFirst == Init => IInv
<1> SUFFICES ASSUME Init PROVE IInv
  OBVIOUS
<1>0. FlagShape
  BY Zenon DEF Init, FlagShape
<1>1. ThreadShape /\ CountShape
  BY Constants DEF Init, ThreadShape, CountShape
<1>2. TickShape
  BY Constants DEF Init, TickShape
<1>3. WireShape
  <2>1. Len(<<>>) = 0 /\ \A T : <<>> \in Seq(T)
    OBVIOUS
  <2> QED BY <2>1, Constants DEF Init, WireShape
<1>4. OutInv
  <2>1. PICK s : Carries(<<>>, s, 0, OutLen) /\ s[1] = 0
    BY NothingSent, Constants
  <2>2. Len(<<>>) = 0 /\ SubSeq(<<>>, 1, 0) = <<>> /\ SubSeq(<<>>, 0 + 1, 0) = <<>>
    OBVIOUS
  <2>3. 1 .. 0 = {} /\ 0 - 0 = 0 /\ [i \in 1 .. 0 |-> 0 + i] = <<>>
    OBVIOUS
  <2>4. OutStream(<<>>, s, 0, 0, 0)
    BY <2>1, <2>2, <2>3 DEF Init, OutStream
  <2> QED BY <2>4 DEF OutInv
<1>5. InInv
  <2>1. PICK s : Carries(<<>>, s, 0, InLen) /\ s[1] = 0
    BY NothingSent, Constants
  <2>2. Len(<<>>) = 0 /\ SubSeq(<<>>, 0 + 1, 0) = <<>>
    OBVIOUS
  <2>3. Held(<<>>, <<>>, 0, 0)
    BY HeldNone
  <2>4. s[0 + 1] = 0
    BY <2>1
  <2>5. InStream(<<>>, s, 0, 0, 0)
    BY <2>1, <2>2, <2>3, <2>4 DEF Init, InStream
  <2>6. Numbers(0) = <<>>
    BY DEF Numbers
  <2>7. delivered = Numbers(0) /\ 0 \in 0 .. put
    BY <2>6 DEF Init
  <2> QED BY <2>5, <2>7 DEF InInv
<1> QED BY <1>0, <1>1, <1>2, <1>3, <1>4, <1>5 DEF IInv, Shape

(***************************************************************************)
(* The messages of the session                                             *)
(***************************************************************************)
LEMMA Queued ==
  ASSUME NEW n \in Nat, NEW m \in Nat, n <= m
  PROVE  /\ Append([i \in 1 .. m - n |-> n + i], m + 1) = [i \in 1 .. (m + 1) - n |-> n + i]
         /\ [i \in 1 .. m - n |-> n + i] # <<>> =>
              /\ n + 1 <= m
              /\ Head([i \in 1 .. m - n |-> n + i]) = n + 1
              /\ Tail([i \in 1 .. m - n |-> n + i]) = [i \in 1 .. m - (n + 1) |-> (n + 1) + i]
<1>1. PICK d \in Nat : d = m - n
  OBVIOUS
<1>2. PICK q : q = [i \in 1 .. d |-> n + i]
  OBVIOUS
<1>3. q \in Seq(Nat) /\ Len(q) = d /\ \A i \in 1 .. d : q[i] = n + i
  BY <1>2
<1>4. Append(q, m + 1) = [i \in 1 .. (m + 1) - n |-> n + i]
  <2>1. PICK a : a = Append(q, m + 1)
    OBVIOUS
  <2>2. a \in Seq(Nat) /\ Len(a) = d + 1 /\ a[d + 1] = m + 1 /\ \A i \in 1 .. d : a[i] = q[i]
    BY <1>3, <2>1
  <2>3. \A i \in 1 .. d + 1 : a[i] = n + i
    BY <1>1, <1>3, <2>2
  <2>4. a = [i \in 1 .. d + 1 |-> a[i]]
    BY <2>2
  <2>5. a = [i \in 1 .. d + 1 |-> n + i]
    BY <2>3, <2>4
  <2>6. d + 1 = (m + 1) - n
    BY <1>1
  <2> QED BY <2>1, <2>5, <2>6
<1>5. ASSUME q # <<>>
      PROVE  /\ n + 1 <= m /\ Head(q) = n + 1
             /\ Tail(q) = [i \in 1 .. m - (n + 1) |-> (n + 1) + i]
  <2>1. d # 0
    BY <1>3, <1>5, EmptySeq
  <2>2. n + 1 <= m /\ 1 \in 1 .. d
    BY <1>1, <2>1
  <2>3. Head(q) = n + 1
    BY <1>3, <1>5, <2>2
  <2>4. PICK c \in Nat : c = d - 1 /\ c = m - (n + 1) /\ d = c + 1
    BY <1>1, <2>1
  <2>5. PICK t : t = Tail(q)
    OBVIOUS
  <2>6. t \in Seq(Nat) /\ Len(t) = c /\ \A i \in 1 .. c : t[i] = q[i + 1]
    BY <1>3, <1>5, <2>4, <2>5
  <2>7. \A i \in 1 .. c : t[i] = (n + 1) + i
    <3>1. \A i \in 1 .. c : i + 1 \in 1 .. d /\ n + (i + 1) = (n + 1) + i
      BY <2>4
    <3> QED BY <1>3, <2>6, <3>1
  <2>8. t = [i \in 1 .. c |-> t[i]]
    BY <2>6
  <2>9. t = [i \in 1 .. c |-> (n + 1) + i]
    BY <2>7, <2>8
  <2> QED BY <2>2, <2>3, <2>4, <2>5, <2>9
<1> QED BY <1>1, <1>2, <1>4, <1>5

(* A step that leaves the messages alone.                                   *)
LEMMA OutStays ==
  ASSUME OutInv, UNCHANGED outVars
  PROVE  OutInv'
<1>1. PICK W, s, n, g, h : OutStream(W, s, n, g, h)
  BY DEF OutInv
<1>2. OutStream(W, s, n, g, h)'
  BY <1>1 DEF OutStream, outVars
<1> QED BY <1>2 DEF OutInv

LEMMA OutSubmit ==
  ASSUME IInv, Submit
  PROVE  OutInv'
<1>1. PICK W, s, n, g, h : OutStream(W, s, n, g, h)
  BY DEF IInv, OutInv
<1>2. n \in Nat
  <2>1. Carries(W, s, n, OutLen)
    BY <1>1 DEF OutStream
  <2> QED BY <2>1, Widths
<1>3. PICK m \in Nat : m = submitted
  BY Constants DEF IInv, Shape, CountShape
<1>4. n <= m /\ write_chan = [i \in 1 .. m - n |-> n + i]
  BY <1>1, <1>3 DEF OutStream
<1>5. submitted' = m + 1 /\ write_chan' = Append(write_chan, m + 1)
  BY <1>3 DEF Submit
<1>6. write_chan' = [i \in 1 .. (m + 1) - n |-> n + i]
  BY <1>2, <1>4, <1>5, Queued
<1>7. n <= m + 1
  BY <1>2, <1>4
<1>8. UNCHANGED <<pending_buf, pending_offset, server_got, wire_out>>
  BY DEF Submit, otherUnchanged, pushVars, wireVars, serverVars
<1>9. OutStream(W, s, n, g, h)'
  BY <1>1, <1>5, <1>6, <1>7, <1>8 DEF OutStream
<1> QED BY <1>9 DEF OutInv

LEMMA OutTake ==
  ASSUME IInv, PushTake
  PROVE  OutInv' /\ pending_buf' \in DOMAIN OutLen
<1>1. PICK W, s, n, g, h : OutStream(W, s, n, g, h)
  BY DEF IInv, OutInv
<1>2. Carries(W, s, n, OutLen) /\ \A k \in 1 .. n : ~Garbled(W, s, k)
  BY <1>1 DEF OutStream
<1>3. n \in Nat /\ W \in Seq(Octets(OutLen)) /\ s[n + 1] = Len(W)
  <2>1. n \in Nat
    BY <1>2, Widths
  <2> QED BY <1>2, <2>1 DEF Carries
<1>4. PICK m \in Nat : m = submitted /\ m <= Len(OutLen)
  BY Constants DEF IInv, Shape, CountShape
<1>5. n <= m /\ write_chan = [i \in 1 .. m - n |-> n + i] /\ write_chan # <<>>
  BY <1>1, <1>4 DEF OutStream, PushTake
<1>6. /\ n + 1 <= m /\ Head(write_chan) = n + 1
      /\ Tail(write_chan) = [i \in 1 .. m - (n + 1) |-> (n + 1) + i]
  BY <1>3, <1>5, Queued
<1>7. n < Len(OutLen) /\ n + 1 \in 1 .. Len(OutLen) /\ n + 1 # 0
  BY <1>3, <1>4, <1>6, Constants
<1>8. PICK B : B = Bytes(n + 1, OutLen[n + 1])
  OBVIOUS
<1>9. SentNext(n + 1, OutLen, B)
  BY <1>8 DEF SentNext
<1>10. B \in Seq(Octets(OutLen))
  BY <1>7, <1>9, Constants, BytesSent
<1>11. PICK X : X = W \o B
  OBVIOUS
<1>12. PICK t : Carries(X, t, n + 1, OutLen) /\ Extends(X, t, W, s, n) /\ ~Garbled(X, t, n + 1)
  BY <1>2, <1>7, <1>8, <1>9, <1>11, StreamGrows
<1>13. \A k \in 1 .. n + 1 : ~Garbled(X, t, k)
  <2>1. \A k \in 1 .. n + 1 : k \in 1 .. n \/ k = n + 1
    BY <1>3
  <2> QED BY <1>2, <1>12, <2>1 DEF Extends
<1>14. PICK L \in Nat : L = Len(W)
  BY <1>3
<1>15. g \in Nat /\ h = L /\ g <= L /\ server_got = SubSeq(W, 1, g) /\ wire_out = SubSeq(W, g + 1, h)
  BY <1>1, <1>14 DEF OutStream, PushTake
<1>16. L <= Len(X) /\ server_got = SubSeq(X, 1, g) /\ wire_out = SubSeq(X, g + 1, L)
  <2>1. Len(X) = L + Len(B) /\ Len(B) \in Nat
    BY <1>3, <1>10, <1>11, <1>14, Grown
  <2>2. /\ 0 \in Nat /\ 0 <= g /\ g <= Len(W) /\ L <= Len(W) /\ g <= L
    BY <1>14, <1>15
  <2>3. SubSeq(W \o B, 0 + 1, g) = SubSeq(W, 0 + 1, g)
    BY <1>3, <1>10, <1>15, <2>2, Grown
  <2>4. SubSeq(W \o B, g + 1, L) = SubSeq(W, g + 1, L)
    BY <1>3, <1>10, <1>14, <1>15, <2>2, Grown
  <2>5. 0 + 1 = 1
    OBVIOUS
  <2> QED BY <1>11, <1>14, <1>15, <2>1, <2>3, <2>4, <2>5
<1>17. t[n + 1] = L
  <2>1. n + 1 \in 1 .. n + 1
    BY <1>3
  <2> QED BY <1>3, <1>12, <1>14, <2>1 DEF Extends
<1>18. /\ pending_buf' = n + 1 /\ write_chan' = [i \in 1 .. m - (n + 1) |-> (n + 1) + i]
       /\ pending_offset' = 0 /\ submitted' = m
       /\ server_got' = server_got /\ wire_out' = wire_out
  BY <1>4, <1>6 DEF PushTake, threadUnchanged, sessionVars, serverVars
<1>19. L = t[n + 1] + 0
  BY <1>17
<1>20. OutStream(X, t, n + 1, g, L)'
  BY <1>6, <1>7, <1>12, <1>13, <1>15, <1>16, <1>18, <1>19 DEF OutStream
<1> QED BY <1>7, <1>18, <1>20, Constants DEF OutInv

(* A write of x bytes.                                                      *)
LEMMA WriteOf ==
  ASSUME IInv, PushWrite
  PROVE  \E x \in Nat \ {0} :
           /\ Written(x, x)
           /\ x <= OutLen[pending_buf] - pending_offset
           /\ x <= WRITE_CALL_MAX_BYTES
           /\ x <= WireCapacity - Len(wire_out)
<1>1. PICK x \in 1 .. Smaller(Slice, Room) : Written(x, x)
  BY DEF PushWrite
<1>2. pending_buf \in DOMAIN OutLen /\ pending_offset \in 0 .. OutLen[pending_buf] - 1
  BY DEF PushWrite, IInv, Shape, ThreadShape
<1>3. PICK l \in Nat \ {0} : l = OutLen[pending_buf]
  BY <1>2, Constants
<1>4. PICK y \in 0 .. l - 1 : y = pending_offset
  BY <1>2, <1>3
<1>5. PICK z \in Nat : z = Len(wire_out)
  BY DEF IInv, Shape, WireShape
<1>6. z <= WireCapacity
  BY <1>5 DEF IInv, Shape, WireShape
<1>7. x \in 1 .. Smaller(Smaller(l - y, WRITE_CALL_MAX_BYTES), WireCapacity - z)
  BY <1>3, <1>4, <1>5 DEF Slice, Room
<1>8. x \in Nat \ {0} /\ x <= l - y /\ x <= WRITE_CALL_MAX_BYTES /\ x <= WireCapacity - z
  BY <1>6, <1>7, Constants DEF Smaller
<1> QED BY <1>1, <1>3, <1>4, <1>5, <1>8

LEMMA OutWrite ==
  ASSUME IInv, PushWrite
  PROVE  OutInv'
<1>1. PICK W, s, n, g, h : OutStream(W, s, n, g, h)
  BY DEF IInv, OutInv
<1>2. PICK x \in Nat \ {0} : Written(x, x) /\ x <= OutLen[pending_buf] - pending_offset
  BY WriteOf
<1>3. Carries(W, s, n, OutLen) /\ \A k \in 1 .. n : ~Garbled(W, s, k)
  BY <1>1 DEF OutStream
<1>4. /\ pending_buf # 0 /\ pending_buf = n /\ pending_buf \in DOMAIN OutLen
      /\ pending_offset \in 0 .. OutLen[pending_buf] - 1
  BY <1>1 DEF PushWrite, OutStream, IInv, Shape, ThreadShape
<1>5. n \in Nat \ {0} /\ n \in 1 .. n /\ n \in 1 .. n + 1
  <2>1. n \in Nat
    BY <1>3, Widths
  <2> QED BY <1>4, <2>1
<1>6. PICK l \in Nat \ {0} : l = OutLen[n]
  BY <1>4, Constants
<1>7. PICK y \in Nat : y = pending_offset /\ y < l
  BY <1>4, <1>6
<1>8. PICK a \in Nat : a = s[n]
  BY <1>3, <1>5, Widths
<1>9. y + x <= l
  BY <1>2, <1>4, <1>6, <1>7
<1>10. PICK f \in Nat :
         /\ f <= a + y /\ n <= submitted
         /\ server_got = SubSeq(W, 1, f) /\ wire_out = SubSeq(W, f + 1, a + y)
         /\ write_chan = [i \in 1 .. submitted - n |-> n + i]
  BY <1>1, <1>4, <1>7, <1>8 DEF OutStream
<1>11. PICK c \in Nat : c = a + y + x
  OBVIOUS
<1>12. /\ c <= Len(W) /\ (y + x = l => c = Len(W))
       /\ SubSeq(W, f + 1, a + y) \o SubSeq(Bytes(n, l), y + 1, y + x) = SubSeq(W, f + 1, c)
  <2>1. ~Garbled(W, s, n) /\ n # 0
    BY <1>3, <1>5
  <2>2. CanWrite(W, s, n, OutLen, a, l, y, x, f)
    BY <1>3, <1>6, <1>8, <1>9, <1>10, <2>1 DEF CanWrite
  <2>3. Wrote(W, n, a, l, y, x, f)
    BY <2>2, Writes
  <2> QED BY <1>11, <2>3 DEF Wrote
<1>13. wire_out' = wire_out \o SubSeq(Bytes(n, l), y + 1, y + x)
  BY <1>2, <1>4, <1>6, <1>7 DEF Written
<1>14. /\ pending_buf' = (IF y + x >= l THEN 0 ELSE n)
       /\ pending_offset' = (IF y + x >= l THEN 0 ELSE y + x)
  BY <1>2, <1>4, <1>6, <1>7 DEF Written
<1>15. wire_out' = SubSeq(W, f + 1, c)
  BY <1>10, <1>12, <1>13
<1>16. UNCHANGED <<write_chan, submitted, server_got>>
  BY DEF PushWrite, threadUnchanged, sessionVars, serverVars
<1>17. pending_buf' = 0 => c = Len(W)
  BY <1>5, <1>9, <1>12, <1>14
<1>18. pending_buf' # 0 => pending_buf' = n /\ c = s[n] + pending_offset'
  BY <1>8, <1>11, <1>14
<1>19. f <= c
  BY <1>10, <1>11
<1>20. OutStream(W, s, n, f, c)'
  BY <1>3, <1>10, <1>12, <1>15, <1>16, <1>17, <1>18, <1>19 DEF OutStream
<1> QED BY <1>20 DEF OutInv

LEMMA OutRead ==
  ASSUME IInv, ServerRead
  PROVE  OutInv'
<1>1. PICK W, s, n, g, h : OutStream(W, s, n, g, h)
  BY DEF IInv, OutInv
<1>2. Carries(W, s, n, OutLen)
  BY <1>1 DEF OutStream
<1>3. W \in Seq(Octets(OutLen))
  BY <1>2 DEF Carries
<1>4. g \in Nat /\ h \in Nat /\ g <= h /\ h <= Len(W)
  BY <1>1 DEF OutStream
<1>5. server_got' = SubSeq(W, 1, g) \o SubSeq(W, g + 1, h) /\ wire_out' = <<>>
  BY <1>1 DEF OutStream, ServerRead
<1>6. server_got' = SubSeq(W, 1, h)
  <2>1. 0 \in Nat /\ 0 <= g /\ 0 + 1 = 1
    BY <1>4
  <2>2. SubSeq(W, 0 + 1, g) \o SubSeq(W, g + 1, h) = SubSeq(W, 0 + 1, h)
    BY <1>3, <1>4, <2>1, Adjacent
  <2> QED BY <1>5, <2>1, <2>2
<1>7. wire_out' = SubSeq(W, h + 1, h)
  <2>1. SubSeq(W, h + 1, h) = <<>>
    BY <1>3, <1>4, SubSeqEmpty
  <2> QED BY <1>5, <2>1
<1>8. UNCHANGED <<write_chan, submitted, pending_buf, pending_offset>>
  BY DEF ServerRead, pushVars, sessionVars
<1>9. h <= h
  BY <1>4
<1>10. OutStream(W, s, n, h, h)'
  BY <1>1, <1>4, <1>6, <1>7, <1>8, <1>9 DEF OutStream
<1> QED BY <1>10 DEF OutInv

(* The server finds the first of the messages, and no fewer than it did.      *)
LEMMA ArrivedRises ==
  ASSUME IInv
  PROVE  /\ \E a \in 0 .. submitted : Arrived = Numbers(a)
         /\ ServerRead => \E a, b \in 0 .. submitted :
                            a <= b /\ Arrived = Numbers(a) /\ Arrived' = Numbers(b)
<1>1. PICK W, s, n, g, h : OutStream(W, s, n, g, h)
  BY DEF IInv, OutInv
<1>2. Carries(W, s, n, OutLen) /\ \A k \in 1 .. n : ~Garbled(W, s, k)
  BY <1>1 DEF OutStream
<1>3. /\ g \in Nat /\ h \in Nat /\ g <= h /\ h <= Len(W)
      /\ server_got = SubSeq(W, 1, g) /\ wire_out = SubSeq(W, g + 1, h)
  BY <1>1 DEF OutStream
<1>4. PICK a \in 0 .. n, b \in 0 .. n :
        /\ a <= b
        /\ Parse(SubSeq(W, 1, g), OutLen).packets = Numbers(a)
        /\ Parse(SubSeq(W, 1, h), OutLen).packets = Numbers(b)
  BY <1>2, <1>3, ReadsOn
<1>5. a \in 0 .. submitted /\ b \in 0 .. submitted
  <2>1. n \in Nat /\ n <= submitted
    BY <1>1, <1>2, Widths DEF OutStream
  <2>2. submitted \in Nat
    BY Constants DEF IInv, Shape, CountShape
  <2> QED BY <2>1, <2>2
<1>6. Arrived = Numbers(a)
  BY <1>3, <1>4 DEF Arrived
<1>7. ASSUME ServerRead PROVE Arrived' = Numbers(b)
  <2>1. W \in Seq(Octets(OutLen))
    BY <1>2 DEF Carries
  <2>2. server_got' = SubSeq(W, 1, g) \o SubSeq(W, g + 1, h)
    BY <1>3, <1>7 DEF ServerRead
  <2>3. 0 \in Nat /\ 0 <= g /\ 0 + 1 = 1
    BY <1>3
  <2>4. SubSeq(W, 0 + 1, g) \o SubSeq(W, g + 1, h) = SubSeq(W, 0 + 1, h)
    BY <1>3, <2>1, <2>3, Adjacent
  <2>5. server_got' = SubSeq(W, 1, h)
    BY <2>2, <2>3, <2>4
  <2> QED BY <1>4, <2>5 DEF Arrived
<1> QED BY <1>4, <1>5, <1>6, <1>7

(***************************************************************************)
(* The packets of the server                                               *)
(***************************************************************************)
LEMMA NumbersOn ==
  ASSUME NEW d \in Nat, NEW m \in Nat, d <= m
  PROVE  Numbers(d) \o [i \in 1 .. m - d |-> d + i] = Numbers(m)
<1>1. PICK c \in Nat : m - d = c /\ m = d + c
  OBVIOUS
<1>2. [i \in 1 .. d |-> i] \o [i \in 1 .. c |-> d + i] = [i \in 1 .. d + c |-> i]
  OBVIOUS
<1> QED BY <1>1, <1>2 DEF Numbers

(* A step that leaves the packets alone.                                    *)
LEMMA InStays ==
  ASSUME InInv, UNCHANGED inVars
  PROVE  InInv'
<1>1. PICK d \in 0 .. put :
        /\ delivered = Numbers(d)
        /\ session = "running" => \E W, s, e, w : InStream(W, s, d, e, w)
  BY DEF InInv
<1>2. ASSUME session = "running" PROVE \E W, s, e, w : InStream(W, s, d, e, w)'
  <2>1. PICK W, s, e, w : InStream(W, s, d, e, w)
    BY <1>1, <1>2
  <2>2. InStream(W, s, d, e, w)'
    BY <2>1 DEF InStream, inVars
  <2> QED BY <2>2
<1> QED BY <1>1, <1>2 DEF InInv, inVars

(* The session ends, and delivers nothing.                                  *)
LEMMA InEnds ==
  ASSUME InInv, session' = "ended", UNCHANGED <<put, delivered>>
  PROVE  InInv'
  BY DEF InInv

LEMMA InPull ==
  ASSUME IInv, Pull
  PROVE  InInv'
<1>1. PICK d \in 0 .. put :
        /\ delivered = Numbers(d)
        /\ session = "running" => \E W, s, e, w : InStream(W, s, d, e, w)
  BY DEF IInv, InInv
<1>2. UNCHANGED <<put, delivered, session, buffer>>
  BY DEF Pull, threadUnchanged, sessionVars, serverVars
<1>3. ASSUME session = "running" PROVE \E W, s, e, w : InStream(W, s, d, e, w)'
  <2>1. PICK W, s, e, w : InStream(W, s, d, e, w)
    BY <1>1, <1>3
  <2>2. PICK a \in Nat : a = w /\ a <= Len(W)
    BY <2>1 DEF InStream
  <2>3. W \in Seq(Octets(InLen)) /\ Held(W, mailbox, e, a) /\ e \in Nat /\ e <= a
    BY <2>1, <2>2 DEF InStream, Carries
  <2>4. PICK L \in Nat : L = Len(W)
    BY <2>3
  <2>5. a <= L /\ wire_in = SubSeq(W, a + 1, L)
    BY <2>1, <2>2, <2>4 DEF InStream
  <2>6. Len(wire_in) = L - a
    BY <2>2, <2>3, <2>4, <2>5, Piece
  <2>7. PICK x \in 1 .. Smaller(Len(wire_in), ReadMax) :
          /\ mailbox' = Append(mailbox, Read(SubSeq(wire_in, 1, x)))
          /\ wire_in' = SubSeq(wire_in, x + 1, Len(wire_in))
    BY DEF Pull
  <2>8. x \in Nat /\ x <= L - a
    BY <2>5, <2>6, <2>7, Constants DEF Smaller
  <2>9. PICK v \in Nat : v = a + x /\ a <= v /\ v <= L
    BY <2>5, <2>8
  <2>10. PICK P : P = SubSeq(W, a + 1, v)
    OBVIOUS
  <2>11. P \in Seq(Octets(InLen))
    <3>1. v <= Len(W)
      BY <2>4, <2>9
    <3> QED BY <2>3, <2>9, <2>10, <3>1, Piece
  <2>12. SubSeq(wire_in, 1, x) = P
    <3>1. 0 \in Nat /\ 0 <= x /\ 0 + 1 = 1 /\ a + 0 = a /\ L <= Len(W) /\ x <= L - a /\ x \in Nat
      BY <2>4, <2>8
    <3>2. SubSeq(SubSeq(W, a + 1, L), 0 + 1, x) = SubSeq(W, (a + 0) + 1, a + x)
      BY <2>3, <2>5, <3>1, PieceOfPiece
    <3> QED BY <2>5, <2>9, <2>10, <3>1, <3>2
  <2>13. wire_in' = SubSeq(W, v + 1, L)
    <3>1. PICK c \in Nat : c = L - a
      BY <2>5
    <3>2. x \in Nat /\ x <= c /\ c <= L - a /\ L <= Len(W) /\ a + c = L
      BY <2>4, <2>8, <3>1
    <3>3. SubSeq(SubSeq(W, a + 1, L), x + 1, c) = SubSeq(W, (a + x) + 1, a + c)
      BY <2>3, <2>5, <3>2, PieceOfPiece
    <3> QED BY <2>5, <2>6, <2>7, <2>9, <3>1, <3>2, <3>3
  <2>14. Read(P) \in Message /\ Read(P).bytes = P
    BY <2>11 DEF Read, Message
  <2>15. Held(W, Append(mailbox, Read(P)), e, v)
    <3>1. mailbox \in Seq(Message)
      BY DEF IInv, Shape, WireShape
    <3> QED BY <2>3, <2>9, <2>10, <2>14, <3>1, HeldBehind
  <2>16. Held(W, mailbox, e, v)'
    BY <2>7, <2>12, <2>15
  <2>17. e <= v /\ v <= Len(W) /\ wire_in' = SubSeq(W, v + 1, Len(W))
    BY <2>3, <2>4, <2>9, <2>13
  <2>18. InStream(W, s, d, e, v)'
    BY <1>2, <2>1, <2>16, <2>17 DEF InStream
  <2> QED BY <2>18
<1> QED BY <1>1, <1>2, <1>3 DEF InInv

LEMMA InClose ==
  ASSUME IInv, CloseSocket
  PROVE  InInv'
<1>1. PICK d \in 0 .. put :
        /\ delivered = Numbers(d)
        /\ session = "running" => \E W, s, e, w : InStream(W, s, d, e, w)
  BY DEF IInv, InInv
<1>2. /\ UNCHANGED <<put, delivered, session, buffer, wire_in>>
      /\ mailbox' = Append(mailbox, CloseEvent)
  BY DEF CloseSocket, threadUnchanged, sessionVars, serverVars
<1>3. ASSUME session = "running" PROVE \E W, s, e, w : InStream(W, s, d, e, w)'
  <2>1. PICK W, s, e, w : InStream(W, s, d, e, w)
    BY <1>1, <1>3
  <2>2. W \in Seq(Octets(InLen)) /\ Held(W, mailbox, e, w) /\ e \in Nat /\ w \in Nat
    BY <2>1 DEF InStream, Carries
  <2>3. CloseEvent \in Message /\ CloseEvent.bytes = <<>>
    BY DEF CloseEvent, Message
  <2>4. SubSeq(W, w + 1, w) = <<>> /\ w <= w
    BY <2>2, SubSeqEmpty
  <2>5. mailbox \in Seq(Message)
    BY DEF IInv, Shape, WireShape
  <2>6. Held(W, Append(mailbox, CloseEvent), e, w)
    BY <2>2, <2>3, <2>4, <2>5, HeldBehind
  <2>7. InStream(W, s, d, e, w)'
    BY <1>2, <2>1, <2>6 DEF InStream
  <2> QED BY <2>7
<1> QED BY <1>1, <1>2, <1>3 DEF InInv

(* The packets that are whole now are delivered, and the rest is kept.        *)
LEMMA InRecv ==
  ASSUME IInv, Recv
  PROVE  /\ InInv'
         /\ \/ session' = "ended" /\ delivered' = delivered
            \/ /\ session' = session
               /\ \E d, m \in 0 .. put : d <= m /\ delivered = Numbers(d) /\ delivered' = Numbers(m)
<1>1. PICK d \in 0 .. put :
        /\ delivered = Numbers(d)
        /\ session = "running" => \E W, s, e, w : InStream(W, s, d, e, w)
  BY DEF IInv, InInv
<1>2. PICK W, s, e, w : InStream(W, s, d, e, w)
  BY <1>1 DEF Recv
<1>3. /\ mailbox # <<>> /\ mailbox' = Tail(mailbox) /\ UNCHANGED <<put, wire_in>>
  BY DEF Recv, otherUnchanged, wireVars, serverVars
<1>4. mailbox \in Seq(Message) /\ put \in Nat
  BY Constants DEF IInv, Shape, WireShape, CountShape
<1>5. /\ Carries(W, s, put, InLen) /\ W \in Seq(Octets(InLen)) /\ e \in Nat /\ w \in Nat
      /\ s[d + 1] <= e /\ e <= w /\ w <= Len(W) /\ Held(W, mailbox, e, w)
      /\ buffer = SubSeq(W, s[d + 1] + 1, e) /\ wire_in = SubSeq(W, w + 1, Len(W))
  BY <1>2 DEF InStream, Carries
<1>6. PICK v \in Nat : /\ e <= v /\ v <= w /\ Head(mailbox).bytes = SubSeq(W, e + 1, v)
                       /\ Held(W, Tail(mailbox), v, w)
  BY <1>3, <1>4, <1>5, HeldBefore
<1>7. PICK a \in Nat : a = s[d + 1]
  <2>1. d + 1 \in 1 .. put + 1
    BY <1>1, <1>4
  <2> QED BY <1>5, <2>1, Widths
<1>8. a <= e /\ a <= v /\ v <= Len(W)
  <2>1. Len(W) \in Nat
    BY <1>5
  <2> QED BY <1>5, <1>6, <1>7, <2>1
<1>9. PICK r : r = Parse(buffer \o Head(mailbox).bytes, InLen)
  OBVIOUS
<1>10. buffer \o Head(mailbox).bytes = SubSeq(W, a + 1, v)
  <2>1. SubSeq(W, a + 1, e) \o SubSeq(W, e + 1, v) = SubSeq(W, a + 1, v)
    BY <1>5, <1>6, <1>8, Adjacent
  <2> QED BY <1>5, <1>6, <1>7, <2>1
<1>11. \/ r.ok /\ delivered' = delivered \o r.packets /\ buffer' = r.rest /\ UNCHANGED session
       \/ session' = "ended" /\ UNCHANGED <<delivered, buffer>>
  BY <1>9 DEF Recv
<1>12. ASSUME r.ok, delivered' = delivered \o r.packets, buffer' = r.rest, UNCHANGED session
       PROVE  /\ InInv'
              /\ \E x, y \in 0 .. put : x <= y /\ delivered = Numbers(x) /\ delivered' = Numbers(y)
  <2>1. CanFeed(W, s, put, InLen, d, v, r)
    <3>1. s[d + 1] <= v
      BY <1>7, <1>8
    <3> QED BY <1>1, <1>5, <1>7, <1>8, <1>9, <1>10, <1>12, <3>1 DEF CanFeed
  <2>2. Fed(W, s, put, d, v, r)
    BY <2>1, Feeds
  <2>3. PICK m \in d .. put : /\ s[m + 1] <= v
                              /\ r.packets = [i \in 1 .. m - d |-> d + i]
                              /\ r.rest = SubSeq(W, s[m + 1] + 1, v)
    BY <2>2 DEF Fed
  <2>4. d \in Nat /\ m \in Nat /\ d <= m /\ m \in 0 .. put
    BY <1>1, <1>4
  <2>5. delivered' = Numbers(m)
    BY <1>1, <1>12, <2>3, <2>4, NumbersOn
  <2>6. InStream(W, s, m, v, w)'
    BY <1>3, <1>5, <1>6, <1>12, <2>3 DEF InStream
  <2>7. InInv'
    BY <1>3, <2>4, <2>5, <2>6 DEF InInv
  <2> QED BY <1>1, <2>4, <2>5, <2>7
<1>13. ASSUME session' = "ended", UNCHANGED <<delivered, buffer>> PROVE InInv'
  BY <1>3, <1>13, InEnds DEF IInv
<1> QED BY <1>11, <1>12, <1>13

LEMMA InPut ==
  ASSUME IInv, ServerPut
  PROVE  InInv'
<1>1. PICK d \in 0 .. put :
        /\ delivered = Numbers(d)
        /\ session = "running" => \E W, s, e, w : InStream(W, s, d, e, w)
  BY DEF IInv, InInv
<1>2. PICK n \in Nat : n = put
  BY Constants DEF IInv, Shape, CountShape
<1>3. PICK bytes \in {Bytes(n + 1, InLen[n + 1]), <<GarbageByte>>} : wire_in' = wire_in \o bytes
  BY <1>2 DEF ServerPut
<1>4. n < Len(InLen) /\ put' = n + 1 /\ UNCHANGED <<delivered, session, buffer, mailbox>>
  BY <1>2 DEF ServerPut, sessionVars
<1>5. d \in 0 .. n + 1 /\ d + 1 \in 1 .. n + 1
  BY <1>1, <1>2
<1>6. SentNext(n + 1, InLen, bytes)
  BY <1>3 DEF SentNext
<1>7. bytes \in Seq(Octets(InLen))
  <2>1. n + 1 \in 1 .. Len(InLen)
    BY <1>4, Constants
  <2> QED BY <1>6, <2>1, Constants, BytesSent
<1>8. ASSUME session = "running" PROVE \E W, s, e, w : InStream(W, s, d, e, w)'
  <2>1. PICK W, s, e, w : InStream(W, s, d, e, w)
    BY <1>1, <1>8
  <2>2. /\ Carries(W, s, n, InLen) /\ W \in Seq(Octets(InLen)) /\ e \in Nat /\ w \in Nat
        /\ s[d + 1] <= e /\ e <= w /\ w <= Len(W) /\ Held(W, mailbox, e, w)
        /\ buffer = SubSeq(W, s[d + 1] + 1, e) /\ wire_in = SubSeq(W, w + 1, Len(W))
    BY <1>2, <2>1 DEF InStream, Carries
  <2>3. PICK X : X = W \o bytes
    OBVIOUS
  <2>4. PICK t : Carries(X, t, n + 1, InLen) /\ Extends(X, t, W, s, n)
    BY <1>4, <1>6, <2>2, <2>3, StreamGrows
  <2>5. t[d + 1] = s[d + 1]
    BY <1>5, <2>4 DEF Extends
  <2>6. PICK a \in Nat : a = s[d + 1]
    BY <1>5, <2>2, Widths
  <2>7. PICK L \in Nat : L = Len(W)
    BY <2>2
  <2>8. a <= e /\ e <= w /\ w <= L /\ e <= L
    BY <2>2, <2>6, <2>7
  <2>9. Len(X) = L + Len(bytes) /\ Len(bytes) \in Nat /\ w <= Len(X)
    BY <1>7, <2>2, <2>3, <2>7, <2>8, Grown
  <2>10. SubSeq(X, a + 1, e) = SubSeq(W, a + 1, e)
    <3>1. W \in Seq(Octets(InLen)) /\ a \in Nat /\ e \in Nat /\ a <= e /\ e <= Len(W)
      BY <2>2, <2>6, <2>7, <2>8
    <3>2. SubSeq(W \o bytes, a + 1, e) = SubSeq(W, a + 1, e)
      BY <1>7, <3>1, Grown
    <3> QED BY <2>3, <3>2
  <2>11. SubSeq(X, w + 1, L + Len(bytes)) = SubSeq(W, w + 1, L) \o bytes
    <3>1. W \in Seq(Octets(InLen)) /\ w \in Nat /\ w <= Len(W)
      BY <2>2
    <3>2. SubSeq(W \o bytes, w + 1, Len(W) + Len(bytes)) = SubSeq(W, w + 1, Len(W)) \o bytes
      BY <1>7, <3>1, Grown
    <3> QED BY <2>3, <2>7, <3>2
  <2>12. Held(X, mailbox, e, w)
    <3>1. mailbox \in Seq(Message)
      BY DEF IInv, Shape, WireShape
    <3> QED BY <1>7, <2>2, <2>3, <3>1, HeldStill
  <2>13. buffer = SubSeq(X, t[d + 1] + 1, e) /\ t[d + 1] <= e
    BY <2>2, <2>5, <2>6, <2>10
  <2>14. wire_in' = SubSeq(X, w + 1, Len(X))
    BY <1>3, <2>2, <2>7, <2>9, <2>11
  <2>15. InStream(X, t, d, e, w)'
    BY <1>4, <2>2, <2>4, <2>9, <2>12, <2>13, <2>14 DEF InStream
  <2> QED BY <2>15
<1> QED BY <1>1, <1>4, <1>5, <1>8 DEF InInv

(***************************************************************************)
(* Every step                                                              *)
(***************************************************************************)
(* Which steps change what.                                                 *)
LEMMA Frames ==
  ASSUME [Next]_vars
  PROVE  /\ Submit \/ PushTake \/ PushWrite \/ ServerRead \/ UNCHANGED outVars
         /\ \/ Pull \/ CloseSocket \/ Recv \/ RecvClose \/ SessionEnds \/ ServerPut
            \/ UNCHANGED inVars
         /\ PushTake \/ SocketClose \/ Break \/ Stall \/ UNCHANGED <<shutdown_flag, stalled, broken>>
<1>1. CASE UNCHANGED vars
  BY <1>1 DEF vars, pushVars, wireVars, sessionVars, serverVars, outVars, inVars
<1>2. CASE CheckFlag \/ PushTake \/ PushIdle \/ PushFails \/ PushBlocked \/ PushWrite
  BY <1>2 DEF CheckFlag, PushTake, PushIdle, PushFails, PushBlocked, PushWrite, threadUnchanged,
              pushVars, sessionVars, serverVars, outVars, inVars
<1>3. CASE Pull \/ PullNothing \/ PullFails \/ CloseSocket
  BY <1>3 DEF Pull, PullNothing, PullFails, CloseSocket, threadUnchanged,
              pushVars, sessionVars, serverVars, outVars, inVars
<1>4. CASE SessionReads \/ Submit \/ SessionEnds
  BY <1>4 DEF SessionReads, Recv, RecvClose, SocketClose, Submit, SessionEnds, otherUnchanged,
              pushVars, wireVars, serverVars, outVars, inVars
<1>5. CASE ServerPut \/ ServerRead \/ ServerClose \/ Break \/ Stall
  BY <1>5 DEF ServerPut, ServerRead, ServerClose, Break, Stall,
              pushVars, wireVars, sessionVars, serverVars, outVars, inVars
<1> QED BY <1>1, <1>2, <1>3, <1>4, <1>5 DEF Next, Thread

LEMMA FlagStep ==
  ASSUME IInv, [Next]_vars
  PROVE  FlagShape'
<1>1. FlagShape
  BY DEF IInv, Shape
<1>2. CASE UNCHANGED <<shutdown_flag, stalled, broken>>
  BY <1>1, <1>2, Zenon DEF FlagShape
<1>3. CASE PushTake
  BY <1>1, <1>3, Zenon DEF FlagShape, PushTake, threadUnchanged, sessionVars
<1>4. CASE SocketClose
  BY <1>1, <1>4, Zenon DEF FlagShape, SocketClose, otherUnchanged, pushVars, wireVars
<1>5. CASE Break
  BY <1>1, <1>5, Zenon DEF FlagShape, Break, pushVars, sessionVars
<1>6. CASE Stall
  BY <1>1, <1>6, Zenon DEF FlagShape, Stall, wireVars, sessionVars
<1> QED BY <1>2, <1>3, <1>4, <1>5, <1>6, Frames

LEMMA ThreadStep ==
  ASSUME IInv, [Next]_vars
  PROVE  ThreadShape'
<1>1. ThreadShape
  BY DEF IInv, Shape
<1>2. CASE UNCHANGED <<pending_buf, pending_offset>> /\ (UNCHANGED pc \/ Thread)
  <2>1. pc' \in {"check", "push", "pull", "close", "done"}
    BY <1>1, <1>2 DEF ThreadShape, Thread, CheckFlag, PushTake, PushIdle, PushFails, PushBlocked,
                      PushWrite, Pull, PullNothing, PullFails, CloseSocket
  <2> QED BY <1>1, <1>2, <2>1 DEF ThreadShape
<1>3. CASE PushTake
  <2>1. pending_buf' \in DOMAIN OutLen
    BY <1>3, OutTake
  <2>2. OutLen[pending_buf'] \in Nat \ {0} /\ pending_buf' # 0
    BY <2>1, Constants
  <2>3. pending_offset' = 0 /\ pc' = pc
    BY <1>3 DEF PushTake
  <2>4. 0 \in 0 .. OutLen[pending_buf'] - 1
    BY <2>2
  <2> QED BY <1>1, <2>1, <2>2, <2>3, <2>4 DEF ThreadShape
<1>4. CASE PushWrite
  <2>1. PICK x \in Nat \ {0} : Written(x, x) /\ x <= OutLen[pending_buf] - pending_offset
    BY <1>4, WriteOf
  <2>2. /\ pending_buf # 0 /\ pending_buf \in DOMAIN OutLen
        /\ pending_offset \in 0 .. OutLen[pending_buf] - 1
    BY <1>1, <1>4 DEF PushWrite, ThreadShape
  <2>3. PICK l \in Nat \ {0} : l = OutLen[pending_buf]
    BY <2>2, Constants
  <2>4. PICK y \in 0 .. l - 1 : y = pending_offset
    BY <2>2, <2>3
  <2>5. /\ pending_buf' = (IF y + x >= l THEN 0 ELSE pending_buf)
        /\ pending_offset' = (IF y + x >= l THEN 0 ELSE y + x)
    BY <2>1, <2>3, <2>4 DEF Written
  <2>6. pc' \in {"push", "pull"}
    BY <1>4 DEF PushWrite
  <2>7. CASE y + x >= l
    BY <2>5, <2>6, <2>7 DEF ThreadShape
  <2>8. CASE ~(y + x >= l)
    <3>1. y + x \in 0 .. l - 1
      BY <2>3, <2>4, <2>8
    <3> QED BY <2>2, <2>3, <2>5, <2>6, <2>8, <3>1 DEF ThreadShape
  <2> QED BY <2>7, <2>8
<1>5. \/ UNCHANGED <<pending_buf, pending_offset>> /\ (UNCHANGED pc \/ Thread)
      \/ PushTake \/ PushWrite
  <2>1. CASE UNCHANGED vars
    BY <2>1 DEF vars, pushVars
  <2>2. CASE Thread
    BY <2>2 DEF Thread, CheckFlag, PushIdle, PushFails, PushBlocked, Pull, PullNothing, PullFails,
                CloseSocket, pushVars
  <2>3. CASE SessionReads \/ Submit \/ SessionEnds
    BY <2>3 DEF SessionReads, Recv, RecvClose, SocketClose, Submit, SessionEnds, otherUnchanged, pushVars
  <2>4. CASE ServerPut \/ ServerRead \/ ServerClose \/ Break \/ Stall
    BY <2>4 DEF ServerPut, ServerRead, ServerClose, Break, Stall, pushVars
  <2> QED BY <2>1, <2>2, <2>3, <2>4 DEF Next
<1> QED BY <1>2, <1>3, <1>4, <1>5

LEMMA TickStep ==
  ASSUME IInv, [Next]_vars
  PROVE  TickShape'
<1>1. TickShape
  BY DEF IInv, Shape
<1>2. CASE CheckFlag
  BY <1>1, <1>2, Constants DEF CheckFlag, TickShape
<1>3. CASE PushWrite
  <2>1. PICK x \in Nat \ {0} : Written(x, x) /\ x <= WRITE_CALL_MAX_BYTES
    BY <1>3, WriteOf
  <2>2. /\ bytes_written \in Nat /\ bytes_written < WRITE_TICK_MAX_BYTES
        /\ messages_completed \in Nat /\ messages_completed < WRITE_TICK_MAX_MESSAGES
    BY <1>1, <1>3, Constants DEF PushWrite, TickShape
  <2>3. /\ bytes_written' = bytes_written + x
        /\ \/ messages_completed' = messages_completed + 1
           \/ messages_completed' = messages_completed + 0
    BY <2>1 DEF Written
  <2>4. pc' = "push" => /\ ~(bytes_written' >= WRITE_TICK_MAX_BYTES)
                        /\ ~(messages_completed' >= WRITE_TICK_MAX_MESSAGES)
    BY <1>3 DEF PushWrite, TickOver
  <2>5. bytes_written' \in 0 .. WRITE_TICK_MAX_BYTES + WRITE_CALL_MAX_BYTES - 1
    BY <2>1, <2>2, <2>3, Constants
  <2>6. messages_completed' \in 0 .. WRITE_TICK_MAX_MESSAGES
    BY <2>2, <2>3, Constants
  <2>7. pc' = "push" => /\ bytes_written' < WRITE_TICK_MAX_BYTES
                        /\ messages_completed' < WRITE_TICK_MAX_MESSAGES
    BY <2>4, <2>5, <2>6, Constants
  <2> QED BY <2>5, <2>6, <2>7 DEF TickShape
<1>4. CASE UNCHANGED <<bytes_written, messages_completed>> /\ (UNCHANGED pc \/ pc' # "push")
  BY <1>1, <1>4 DEF TickShape
<1>5. \/ CheckFlag \/ PushWrite
      \/ UNCHANGED <<bytes_written, messages_completed>> /\ (UNCHANGED pc \/ pc' # "push")
  <2>1. CASE UNCHANGED vars
    BY <2>1 DEF vars, pushVars
  <2>2. CASE Thread
    BY <2>2 DEF Thread, PushTake, PushIdle, PushFails, PushBlocked, Pull, PullNothing, PullFails,
                CloseSocket, pushVars
  <2>3. CASE SessionReads \/ Submit \/ SessionEnds
    BY <2>3 DEF SessionReads, Recv, RecvClose, SocketClose, Submit, SessionEnds, otherUnchanged, pushVars
  <2>4. CASE ServerPut \/ ServerRead \/ ServerClose \/ Break \/ Stall
    BY <2>4 DEF ServerPut, ServerRead, ServerClose, Break, Stall, pushVars
  <2> QED BY <2>1, <2>2, <2>3, <2>4 DEF Next
<1> QED BY <1>2, <1>3, <1>4, <1>5

LEMMA CountStep ==
  ASSUME IInv, [Next]_vars
  PROVE  CountShape'
<1>1. CountShape /\ Len(OutLen) \in Nat /\ Len(InLen) \in Nat
  BY Constants DEF IInv, Shape
<1>2. CASE UNCHANGED vars
  BY <1>1, <1>2 DEF vars, sessionVars, serverVars, CountShape
<1>3. CASE Thread
  <2>1. UNCHANGED <<server, session, submitted, put>>
    BY <1>3 DEF Thread, CheckFlag, PushTake, PushIdle, PushFails, PushBlocked, PushWrite,
                Pull, PullNothing, PullFails, CloseSocket, threadUnchanged, sessionVars, serverVars
  <2> QED BY <1>1, <2>1 DEF CountShape
<1>4. CASE SessionReads \/ SessionEnds
  <2>1. UNCHANGED <<server, submitted, put>> /\ session' \in {session, "ended"}
    BY <1>4 DEF SessionReads, Recv, RecvClose, SocketClose, SessionEnds, otherUnchanged, serverVars
  <2> QED BY <1>1, <2>1 DEF CountShape
<1>5. CASE Submit
  BY <1>1, <1>5 DEF Submit, otherUnchanged, serverVars, CountShape
<1>6. CASE ServerPut
  BY <1>1, <1>6 DEF ServerPut, sessionVars, CountShape
<1>7. CASE ServerRead \/ ServerClose \/ Break \/ Stall
  <2>1. UNCHANGED <<session, submitted, put>> /\ server' \in {server, "closed"}
    BY <1>7 DEF ServerRead, ServerClose, Break, Stall, sessionVars, serverVars
  <2> QED BY <1>1, <2>1 DEF CountShape
<1> QED BY <1>2, <1>3, <1>4, <1>5, <1>6, <1>7 DEF Next

LEMMA WireStep ==
  ASSUME IInv, [Next]_vars
  PROVE  WireShape'
<1>1. WireShape
  BY DEF IInv, Shape
<1>2. CASE UNCHANGED <<wire_out, wire_in, mailbox>>
  BY <1>1, <1>2 DEF WireShape
<1>3. CASE PushWrite
  <2>1. PICK x \in Nat \ {0} : /\ Written(x, x) /\ x <= OutLen[pending_buf] - pending_offset
                               /\ x <= WireCapacity - Len(wire_out)
    BY <1>3, WriteOf
  <2>2. /\ pending_buf # 0 /\ pending_buf \in DOMAIN OutLen
        /\ pending_offset \in 0 .. OutLen[pending_buf] - 1
    BY <1>3 DEF PushWrite, IInv, Shape, ThreadShape
  <2>3. PICK l \in Nat \ {0} : l = OutLen[pending_buf]
    BY <2>2, Constants
  <2>4. PICK y \in Nat : y = pending_offset
    BY <2>2, <2>3
  <2>5. PICK P : P = SubSeq(Bytes(pending_buf, l), y + 1, y + x)
    OBVIOUS
  <2>6. P \in Seq(Octets(OutLen)) /\ Len(P) = x
    <3>1. pending_buf \in Nat \ {0}
      BY <2>2, Constants
    <3>2. Bytes(pending_buf, l) \in Seq(Octets(OutLen)) /\ Len(Bytes(pending_buf, l)) = l
      BY <2>2, <3>1, BytesOfPacket
    <3>3. PICK z \in Nat : z = y + x
      OBVIOUS
    <3>4. y <= z /\ z <= l /\ z - y = x
      BY <2>1, <2>3, <2>4, <3>3
    <3>5. SubSeq(Bytes(pending_buf, l), y + 1, z) \in Seq(Octets(OutLen))
          /\ Len(SubSeq(Bytes(pending_buf, l), y + 1, z)) = z - y
      BY <3>2, <3>4, Piece
    <3> QED BY <2>5, <3>3, <3>4, <3>5
  <2>7. wire_out' = wire_out \o P /\ UNCHANGED <<wire_in, mailbox>>
    BY <1>3, <2>1, <2>3, <2>4, <2>5 DEF Written, PushWrite
  <2>8. wire_out \in Seq(Octets(OutLen)) /\ Len(wire_out) <= WireCapacity
    BY <1>1 DEF WireShape
  <2>9. wire_out \o P \in Seq(Octets(OutLen)) /\ Len(wire_out \o P) = Len(wire_out) + x
    BY <2>6, <2>8, Grown
  <2>10. Len(wire_out) + x <= WireCapacity
    <3>1. Len(wire_out) \in Nat
      BY <2>8
    <3> QED BY <2>1, <3>1, Constants
  <2>11. wire_out' \in Seq(Octets(OutLen)) /\ Len(wire_out') <= WireCapacity
    BY <2>7, <2>9, <2>10
  <2> QED BY <1>1, <2>7, <2>11 DEF WireShape
<1>4. CASE Pull
  <2>1. PICK x \in 1 .. Smaller(Len(wire_in), ReadMax) :
          /\ mailbox' = Append(mailbox, Read(SubSeq(wire_in, 1, x)))
          /\ wire_in' = SubSeq(wire_in, x + 1, Len(wire_in))
    BY <1>4 DEF Pull
  <2>2. wire_in \in Seq(Octets(InLen)) /\ Len(wire_in) <= WireCapacity
    BY <1>1 DEF WireShape
  <2>3. PICK L \in Nat : L = Len(wire_in)
    BY <2>2
  <2>4. x \in Nat /\ x <= L
    BY <2>1, <2>3, Constants DEF Smaller
  <2>5. /\ SubSeq(wire_in, x + 1, L) \in Seq(Octets(InLen))
        /\ Len(SubSeq(wire_in, x + 1, L)) = L - x
    <3>1. L <= Len(wire_in)
      BY <2>3
    <3> QED BY <2>2, <2>4, <3>1, Piece
  <2>6. SubSeq(wire_in, 1, x) \in Seq(Octets(InLen))
    <3>1. 0 \in Nat /\ 0 <= x /\ x <= Len(wire_in) /\ 0 + 1 = 1
      BY <2>3, <2>4
    <3>2. SubSeq(wire_in, 0 + 1, x) \in Seq(Octets(InLen))
      BY <2>2, <2>4, <3>1, Piece
    <3> QED BY <3>1, <3>2
  <2>7. Read(SubSeq(wire_in, 1, x)) \in Message
    BY <2>6 DEF Read, Message
  <2>8. mailbox' \in Seq(Message)
    BY <1>1, <2>1, <2>7 DEF WireShape
  <2>9. wire_in' \in Seq(Octets(InLen)) /\ Len(wire_in') <= WireCapacity
    BY <2>1, <2>2, <2>3, <2>4, <2>5, Constants
  <2>10. wire_out' = wire_out
    BY <1>4 DEF Pull
  <2> QED BY <1>1, <2>8, <2>9, <2>10 DEF WireShape
<1>5. CASE CloseSocket
  <2>1. CloseEvent \in Message
    BY DEF CloseEvent, Message
  <2>2. mailbox' \in Seq(Message)
    BY <1>1, <1>5, <2>1 DEF CloseSocket, WireShape
  <2> QED BY <1>1, <1>5, <2>2 DEF CloseSocket, WireShape
<1>6. CASE Recv \/ RecvClose
  <2>1. mailbox # <<>> /\ mailbox' = Tail(mailbox) /\ UNCHANGED <<wire_out, wire_in>>
    BY <1>6 DEF Recv, RecvClose, otherUnchanged, wireVars
  <2>2. mailbox' \in Seq(Message)
    BY <1>1, <2>1 DEF WireShape
  <2> QED BY <1>1, <2>1, <2>2 DEF WireShape
<1>7. CASE ServerPut
  <2>1. PICK bytes \in {Bytes(put', InLen[put']), <<GarbageByte>>} :
          Len(wire_in) + Len(bytes) <= WireCapacity /\ wire_in' = wire_in \o bytes
    BY <1>7 DEF ServerPut
  <2>2. put' \in 1 .. Len(InLen)
    BY <1>7, Constants DEF ServerPut, IInv, Shape, CountShape
  <2>3. PICK k : k = put'
    OBVIOUS
  <2>4. bytes \in Seq(Octets(InLen))
    <3>1. SentNext(k, InLen, bytes)
      BY <2>1, <2>3 DEF SentNext
    <3> QED BY <2>2, <2>3, <3>1, Constants, BytesSent
  <2>5. wire_in \in Seq(Octets(InLen))
    BY <1>1 DEF WireShape
  <2>6. wire_in \o bytes \in Seq(Octets(InLen)) /\ Len(wire_in \o bytes) = Len(wire_in) + Len(bytes)
    BY <2>4, <2>5, Grown
  <2>7. wire_in' \in Seq(Octets(InLen)) /\ Len(wire_in') <= WireCapacity
    BY <2>1, <2>6
  <2> QED BY <1>1, <1>7, <2>7 DEF ServerPut, WireShape
<1>8. CASE ServerRead
  <2>1. Len(<<>>) = 0 /\ <<>> \in Seq(Octets(OutLen)) /\ 0 <= WireCapacity
    BY Constants
  <2> QED BY <1>1, <1>8, <2>1 DEF ServerRead, WireShape
<1>9. \/ PushWrite \/ Pull \/ CloseSocket \/ Recv \/ RecvClose \/ ServerPut \/ ServerRead
      \/ UNCHANGED <<wire_out, wire_in, mailbox>>
  <2>1. CASE UNCHANGED vars
    BY <2>1 DEF vars, wireVars
  <2>2. CASE Thread
    BY <2>2 DEF Thread, CheckFlag, PushTake, PushIdle, PushFails, PushBlocked, PullNothing, PullFails
  <2>3. CASE SessionReads \/ Submit \/ SessionEnds
    BY <2>3 DEF SessionReads, SocketClose, Submit, SessionEnds, otherUnchanged, wireVars
  <2>4. CASE ServerPut \/ ServerRead \/ ServerClose \/ Break \/ Stall
    BY <2>4 DEF ServerClose, Break, Stall, wireVars
  <2> QED BY <2>1, <2>2, <2>3, <2>4 DEF Next
<1> QED BY <1>2, <1>3, <1>4, <1>5, <1>6, <1>7, <1>8, <1>9

LEMMA EveryStep == IInv /\ [Next]_vars => IInv'
<1> SUFFICES ASSUME IInv, [Next]_vars PROVE IInv'
  OBVIOUS
<1>1. Shape'
  BY FlagStep, ThreadStep, TickStep, CountStep, WireStep DEF Shape
<1>2. OutInv'
  BY Frames, OutStays, OutSubmit, OutTake, OutWrite, OutRead DEF IInv
<1>3. InInv'
  <2>1. CASE RecvClose \/ SessionEnds
    <3>1. session' = "ended" /\ UNCHANGED <<put, delivered>>
      BY <2>1 DEF RecvClose, SessionEnds, otherUnchanged, serverVars
    <3> QED BY <3>1, InEnds DEF IInv
  <2> QED BY <2>1, Frames, InStays, InPull, InClose, InRecv, InPut DEF IInv
<1> QED BY <1>1, <1>2, <1>3 DEF IInv

(***************************************************************************)
(* What the socket promises                                                *)
(***************************************************************************)
(* The invariant holds throughout.                                          *)
THEOREM Streams == Spec => []IInv
<1>1. IInv /\ [Next]_vars => IInv'
  BY EveryStep
<1> QED BY <1>1, AtFirst, PTL DEF Spec

LEMMA WellTyped == IInv => TypeOK
<1> SUFFICES ASSUME IInv PROVE TypeOK
  OBVIOUS
<1>1. {shutdown_flag, stalled, broken} \subseteq BOOLEAN
  BY Zenon DEF IInv, Shape, FlagShape
<1>2. submitted \in 0 .. Len(OutLen) /\ put \in 0 .. Len(InLen)
  BY DEF IInv, Shape, CountShape
<1>3. write_chan \in Seq(DOMAIN OutLen)
  <2>1. PICK W, s, n, g, h : OutStream(W, s, n, g, h)
    BY DEF IInv, OutInv
  <2>2. n \in Nat
    <3>1. Carries(W, s, n, OutLen)
      BY <2>1 DEF OutStream
    <3> QED BY <3>1, Widths
  <2>3. n <= submitted /\ write_chan = [i \in 1 .. submitted - n |-> n + i]
    BY <2>1 DEF OutStream
  <2>4. submitted - n \in Nat /\ \A i \in 1 .. submitted - n : n + i \in DOMAIN OutLen
    BY <1>2, <2>2, <2>3, Constants
  <2>5. write_chan \in [1 .. submitted - n -> DOMAIN OutLen]
    BY <2>3, <2>4
  <2> QED BY <2>4, <2>5, SeqDef
<1>4. delivered \in Seq(DOMAIN InLen)
  <2>1. PICK d \in 0 .. put : delivered = Numbers(d)
    BY DEF IInv, InInv
  <2>2. d \in Nat /\ \A i \in 1 .. d : i \in DOMAIN InLen
    BY <1>2, Constants
  <2>3. delivered \in [1 .. d -> DOMAIN InLen]
    BY <2>1, <2>2 DEF Numbers
  <2> QED BY <2>2, <2>3, SeqDef
<1>5. ThreadShape /\ TickShape /\ WireShape /\ CountShape
  BY DEF IInv, Shape
<1> QED BY <1>1, <1>3, <1>4, <1>5 DEF ThreadShape, TickShape, WireShape, CountShape, TypeOK

(* The types of the state; above all, a call of push_bytes_to_socket writes no *)
(* more than its limit and one write, and the wires hold what they can.       *)
THEOREM TransportTypes == Spec => []TypeOK
  BY Streams, WellTyped, PTL

(* Sequences of numbers as what was sent and what was received.              *)
LEMMA FirstNumbers ==
  ASSUME NEW a \in Nat
  PROVE  /\ Len(Numbers(a)) = a
         /\ \A b \in Nat : b <= a => SubSeq(Numbers(a), 1, b) = Numbers(b)
<1>1. Numbers(a) \in Seq(Nat) /\ Len(Numbers(a)) = a
  BY DEF Numbers
<1>2. ASSUME NEW b \in Nat, b <= a PROVE SubSeq(Numbers(a), 1, b) = Numbers(b)
  BY <1>2 DEF Numbers
<1> QED BY <1>1, <1>2

LEMMA OutgoingStep ==
  ASSUME IInv, IInv', [Next]_vars
  PROVE  [Outgoing!Send \/ Outgoing!Receive \/ Outgoing!End]_(Outgoing!fifoVars)
<1>1. submitted \in Nat
  BY Constants DEF IInv, Shape, CountShape
<1>2. CASE Submit
  <2>1. submitted' = submitted + 1 /\ UNCHANGED server_got
    BY <1>2 DEF Submit, otherUnchanged, serverVars
  <2>2. Arrived' = Arrived
    BY <2>1 DEF Arrived
  <2>3. /\ Len(Numbers(submitted + 1)) = Len(Numbers(submitted)) + 1
        /\ SubSeq(Numbers(submitted + 1), 1, Len(Numbers(submitted))) = Numbers(submitted)
    BY <1>1, FirstNumbers
  <2>4. Outgoing!Send
    BY <2>1, <2>2, <2>3 DEF Outgoing!Send
  <2> QED BY <2>4
<1>3. CASE ServerRead
  <2>1. UNCHANGED submitted
    BY <1>3 DEF ServerRead, sessionVars
  <2>2. PICK a \in 0 .. submitted, b \in 0 .. submitted :
          a <= b /\ Arrived = Numbers(a) /\ Arrived' = Numbers(b)
    BY <1>3, ArrivedRises
  <2>3. CASE a = b
    BY <2>1, <2>2, <2>3 DEF Outgoing!fifoVars
  <2>4. CASE a # b
    <3>1. b \in Len(Numbers(a)) + 1 .. Len(Numbers(submitted))
      BY <1>1, <2>2, <2>4, FirstNumbers
    <3>2. Numbers(b) = SubSeq(Numbers(submitted), 1, b)
      BY <1>1, <2>2, FirstNumbers
    <3>3. Outgoing!Receive
      BY <2>1, <2>2, <3>1, <3>2 DEF Outgoing!Receive
    <3> QED BY <3>3
  <2> QED BY <2>3, <2>4
<1>4. CASE UNCHANGED <<submitted, server_got>>
  <2>1. Arrived' = Arrived
    BY <1>4 DEF Arrived
  <2> QED BY <1>4, <2>1 DEF Outgoing!fifoVars
<1>5. Submit \/ ServerRead \/ UNCHANGED <<submitted, server_got>>
  <2>1. CASE PushTake \/ PushWrite
    BY <2>1 DEF PushTake, PushWrite, threadUnchanged, sessionVars, serverVars
  <2> QED BY <2>1, Frames DEF outVars
<1> QED BY <1>2, <1>3, <1>4, <1>5

LEMMA IncomingStep ==
  ASSUME IInv, IInv', [Next]_vars
  PROVE  [Incoming!Send \/ Incoming!Receive \/ Incoming!End]_(Incoming!fifoVars)
<1>1. put \in Nat
  BY Constants DEF IInv, Shape, CountShape
<1>2. CASE ServerPut
  <2>1. put' = put + 1 /\ UNCHANGED <<delivered, session>>
    BY <1>2 DEF ServerPut, sessionVars
  <2>2. /\ Len(Numbers(put + 1)) = Len(Numbers(put)) + 1
        /\ SubSeq(Numbers(put + 1), 1, Len(Numbers(put))) = Numbers(put)
    BY <1>1, FirstNumbers
  <2>3. Incoming!Send
    BY <2>1, <2>2 DEF Incoming!Send
  <2> QED BY <2>3
<1>3. ASSUME session = "running", session' = "ended", UNCHANGED <<put, delivered>>
      PROVE  Incoming!End
  BY <1>3 DEF Incoming!End
<1>4. CASE Recv
  <2>1. session = "running" /\ UNCHANGED put
    BY <1>4 DEF Recv, otherUnchanged, serverVars
  <2>2. CASE session' = "ended" /\ delivered' = delivered
    BY <1>3, <2>1, <2>2
  <2>3. ASSUME session' = session, NEW d \in 0 .. put, NEW m \in 0 .. put, d <= m,
               delivered = Numbers(d), delivered' = Numbers(m)
        PROVE  [Incoming!Send \/ Incoming!Receive \/ Incoming!End]_(Incoming!fifoVars)
    <3>1. CASE d = m
      BY <2>1, <2>3, <3>1 DEF Incoming!fifoVars
    <3>2. CASE d # m
      <4>1. m \in Len(Numbers(d)) + 1 .. Len(Numbers(put))
        BY <1>1, <2>3, <3>2, FirstNumbers
      <4>2. Numbers(m) = SubSeq(Numbers(put), 1, m)
        BY <1>1, <2>3, FirstNumbers
      <4>3. Incoming!Receive
        BY <2>1, <2>3, <4>1, <4>2 DEF Incoming!Receive
      <4> QED BY <4>3
    <3> QED BY <3>1, <3>2
  <2> QED BY <1>4, <2>2, <2>3, InRecv
<1>5. CASE RecvClose \/ SessionEnds
  <2>1. session = "running" /\ session' = "ended" /\ UNCHANGED <<put, delivered>>
    BY <1>5 DEF RecvClose, SessionEnds, otherUnchanged, serverVars
  <2> QED BY <1>3, <2>1
<1>6. CASE UNCHANGED <<put, delivered, session>>
  BY <1>6 DEF Incoming!fifoVars
<1>7. \/ ServerPut \/ Recv \/ RecvClose \/ SessionEnds \/ UNCHANGED <<put, delivered, session>>
  <2>1. CASE Pull \/ CloseSocket
    BY <2>1 DEF Pull, CloseSocket, threadUnchanged, sessionVars, serverVars
  <2> QED BY <2>1, Frames DEF inVars
<1> QED BY <1>2, <1>4, <1>5, <1>6, <1>7

LEMMA FifosAtFirst == Init => Outgoing!FifoInit /\ Incoming!FifoInit
<1> SUFFICES ASSUME Init PROVE Outgoing!FifoInit /\ Incoming!FifoInit
  OBVIOUS
<1>1. Numbers(0) = <<>>
  BY DEF Numbers
<1>2. Arrived = <<>>
  <2>1. PICK a \in 0 .. submitted : Arrived = Numbers(a)
    BY AtFirst, ArrivedRises
  <2>2. a = 0
    BY <2>1 DEF Init
  <2> QED BY <1>1, <2>1, <2>2
<1>3. Outgoing!FifoInit
  BY <1>1, <1>2 DEF Init, Outgoing!FifoInit
<1>4. Incoming!FifoInit
  BY <1>1 DEF Init, Incoming!FifoInit
<1> QED BY <1>3, <1>4

(* The server finds the messages of the session, whole, in order and each      *)
(* once, for all lengths of the messages and all limits of a tick, however the *)
(* writes are cut: a write that took a part is continued at the next byte.     *)
THEOREM MessagesWhole == Spec => MessagesInOrder
<1>1. IInv /\ IInv' /\ [Next]_vars
        => [Outgoing!Send \/ Outgoing!Receive \/ Outgoing!End]_(Outgoing!fifoVars)
  BY OutgoingStep
<1>2. Init => Outgoing!FifoInit
  BY FifosAtFirst
<1> QED BY <1>1, <1>2, Streams, PTL DEF Spec, MessagesInOrder, Outgoing!FifoSpec

(* Codec finds the packets of the server, whole, in order and each once, for   *)
(* all lengths of the packets and all sizes of a read, and none after garbage  *)
(* or after the close of the socket.                                        *)
THEOREM PacketsWhole == Spec => PacketsInOrder
<1>1. IInv /\ IInv' /\ [Next]_vars
        => [Incoming!Send \/ Incoming!Receive \/ Incoming!End]_(Incoming!fifoVars)
  BY IncomingStep
<1>2. Init => Incoming!FifoInit
  BY FifosAtFirst
<1> QED BY <1>1, <1>2, Streams, PTL DEF Spec, PacketsInOrder, Incoming!FifoSpec
=============================================================================
