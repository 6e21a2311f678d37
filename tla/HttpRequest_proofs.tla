------------------------- MODULE HttpRequest_proofs -------------------------
(***************************************************************************)
(* Proofs about HttpRequest, for all requests of its kind and all sizes.      *)
(*                                                                         *)
(* What is sent is laid out once and for all: line k begins behind Start(k)   *)
(* (Layout).  The invariant ties the thread to that place: it stands got      *)
(* characters into a line or the body, the headers it holds are those of the  *)
(* lines before, and all of these passed.  What read_line finds in the buffer  *)
(* then follows from where the last read ended (Scan), and the response from  *)
(* the first verdict that is no pass (Verdicts).                             *)
(***************************************************************************)
EXTENDS HttpRequest, FiniteSetTheorems, SequenceTheorems, TLAPS

(***************************************************************************)
(* Induction.  The theorems of the library have an operator for the formula; *)
(* here it is a set.  If n is missing, adding one to the members maps        *)
(* 0 .. n into 1 .. n, and two numbers must meet.                            *)
(***************************************************************************)
LEMMA SetInduction ==
  ASSUME NEW S, 0 \in S, \A n \in Nat : n \in S => n + 1 \in S
  PROVE  \A n \in Nat : n \in S
<1> SUFFICES ASSUME NEW n \in Nat, n \notin S PROVE FALSE
  OBVIOUS
<1> DEFINE A  == 0 .. n
           B  == 1 .. n
           up == [i \in A |-> IF i \in S THEN i + 1 ELSE i]
<1>1. up \in [A -> B]
  OBVIOUS
<1>2. IsFiniteSet(A) /\ IsFiniteSet(B) /\ Cardinality(B) < Cardinality(A)
  <2>1. IsFiniteSet(0 .. n) /\ Cardinality(0 .. n) = n + 1
    BY FS_Interval
  <2>2. IsFiniteSet(1 .. n) /\ Cardinality(1 .. n) = n
    BY FS_Interval
  <2> QED BY <2>1, <2>2
<1>3. \E x, y \in A : x # y /\ up[x] = up[y]
  <2> HIDE DEF up, A, B
  <2> QED BY <1>1, <1>2, FS_PigeonHole
<1>4. ASSUME NEW x \in A, NEW y \in A, x # y, up[x] = up[y] PROVE FALSE
  BY <1>4
<1> QED BY <1>3, <1>4

LEMMA MinIs ==
  ASSUME NEW S, S \subseteq Int, NEW m \in S, \A i \in S : m <= i
  PROVE  Min(S) = m
<1>1. \A x \in S : (\A y \in S : x =< y) => x = m
  OBVIOUS
<1> QED BY <1>1 DEF Min

LEMMA MaxIs ==
  ASSUME NEW S, S \subseteq Int, NEW m \in S, \A i \in S : i <= m
  PROVE  Max(S) = m
<1>1. \A x \in S : (\A y \in S : x >= y) => x = m
  OBVIOUS
<1> QED BY <1>1 DEF Max

(***************************************************************************)
(* Streams.  A line of l characters begins behind s.                        *)
(***************************************************************************)
Chars == {"x", "cr", "lf", "b"}

LineAt(W, s, l) ==
  /\ s + l + 2 <= Len(W)
  /\ \A j \in 1 .. l : W[s + j] = "x"
  /\ W[s + l + 1] = "cr" /\ W[s + l + 2] = "lf"

LEMMA Joined ==
  ASSUME NEW T, NEW W \in Seq(T), NEW V \in Seq(T)
  PROVE  /\ W \o V \in Seq(T)
         /\ Len(W \o V) = Len(W) + Len(V)
         /\ \A i \in 1 .. Len(W) : (W \o V)[i] = W[i]
         /\ \A i \in 1 .. Len(V) : (W \o V)[Len(W) + i] = V[i]
<1> DEFINE X == W \o V
<1>1. X \in Seq(T) /\ Len(X) = Len(W) + Len(V)
      /\ \A i \in 1 .. Len(W) + Len(V) :
           X[i] = IF i <= Len(W) THEN W[i] ELSE V[i - Len(W)]
  BY ConcatProperties
<1>2. Len(W) \in Nat /\ Len(V) \in Nat
  OBVIOUS
<1> HIDE DEF X
<1>3. \A i \in 1 .. Len(W) : X[i] = W[i]
  BY <1>1, <1>2
<1>4. ASSUME NEW i \in 1 .. Len(V) PROVE X[Len(W) + i] = V[i]
  <2>1. Len(W) + i \in 1 .. Len(W) + Len(V) /\ ~(Len(W) + i <= Len(W))
        /\ (Len(W) + i) - Len(W) = i
    BY <1>2
  <2> QED BY <1>1, <2>1
<1> QED BY <1>1, <1>3, <1>4 DEF X

LEMMA LineStays ==
  ASSUME NEW W \in Seq(Chars), NEW V \in Seq(Chars), NEW s \in Nat, NEW l \in Nat,
         LineAt(W, s, l)
  PROVE  LineAt(W \o V, s, l)
<1> DEFINE X == W \o V
<1>1. Len(W) \in Nat /\ Len(V) \in Nat
  OBVIOUS
<1>2. Len(X) = Len(W) + Len(V) /\ \A i \in 1 .. Len(W) : X[i] = W[i]
  BY Joined
<1> HIDE DEF X
<1>3. PICK w \in Nat, v \in Nat : w = Len(W) /\ v = Len(V)
  BY <1>1
<1>4. s + l + 2 <= w /\ (\A j \in 1 .. l : W[s + j] = "x") /\ W[s + l + 1] = "cr" /\ W[s + l + 2] = "lf"
  BY <1>3 DEF LineAt
<1>5. s + l + 2 <= w + v /\ s + l + 1 \in 1 .. w /\ s + l + 2 \in 1 .. w /\ \A j \in 1 .. l : s + j \in 1 .. w
  BY <1>4
<1>6. \A j \in 1 .. l : X[s + j] = "x"
  BY <1>2, <1>3, <1>4, <1>5
<1>7. X[s + l + 1] = "cr" /\ X[s + l + 2] = "lf" /\ s + l + 2 <= Len(X)
  BY <1>2, <1>3, <1>4, <1>5
<1>8. LineAt(X, s, l)
  BY <1>6, <1>7 DEF LineAt
<1> QED BY <1>8 DEF X

LEMMA LineMoves ==
  ASSUME NEW W \in Seq(Chars), NEW V \in Seq(Chars), NEW s \in Nat, NEW l \in Nat,
         LineAt(V, s, l)
  PROVE  LineAt(W \o V, Len(W) + s, l)
<1> DEFINE X == W \o V
<1>1. Len(W) \in Nat /\ Len(V) \in Nat
  OBVIOUS
<1>2. Len(X) = Len(W) + Len(V) /\ \A i \in 1 .. Len(V) : X[Len(W) + i] = V[i]
  BY Joined
<1> HIDE DEF X
<1>3. PICK w \in Nat, v \in Nat : w = Len(W) /\ v = Len(V)
  BY <1>1
<1>4. s + l + 2 <= v /\ (\A j \in 1 .. l : V[s + j] = "x") /\ V[s + l + 1] = "cr" /\ V[s + l + 2] = "lf"
  BY <1>3 DEF LineAt
<1>5. /\ (w + s) + l + 2 <= w + v /\ s + l + 1 \in 1 .. v /\ s + l + 2 \in 1 .. v
      /\ w + (s + l + 1) = (w + s) + l + 1 /\ w + (s + l + 2) = (w + s) + l + 2
      /\ \A j \in 1 .. l : s + j \in 1 .. v /\ w + (s + j) = (w + s) + j
  BY <1>4
<1>6. \A j \in 1 .. l : X[(w + s) + j] = "x"
  <2> TAKE j \in 1 .. l
  <2>1. s + j \in 1 .. v /\ w + (s + j) = (w + s) + j
    BY <1>5
  <2>2. X[w + (s + j)] = V[s + j]
    BY <1>2, <1>3, <2>1
  <2> QED BY <1>4, <2>1, <2>2
<1>7. X[(w + s) + l + 1] = "cr" /\ X[(w + s) + l + 2] = "lf" /\ (w + s) + l + 2 <= Len(X)
  <2>1. X[w + (s + l + 1)] = V[s + l + 1] /\ X[w + (s + l + 2)] = V[s + l + 2]
    BY <1>2, <1>3, <1>5
  <2> QED BY <1>2, <1>3, <1>4, <1>5, <2>1
<1>8. LineAt(X, w + s, l)
  BY <1>6, <1>7 DEF LineAt
<1> QED BY <1>3, <1>8 DEF X

(* One line as it is sent.                                                  *)
LEMMA OneLine ==
  ASSUME NEW l \in Nat
  PROVE  /\ Text(l) \o CRLF \in Seq(Chars)
         /\ Len(Text(l) \o CRLF) = l + 2
         /\ LineAt(Text(l) \o CRLF, 0, l)
<1> DEFINE W == Text(l)
           V == CRLF
           X == W \o V
<1>1. W \in Seq(Chars) /\ Len(W) = l /\ \A i \in 1 .. l : W[i] = "x"
  BY DEF Text, Chars
<1>2. V \in Seq(Chars) /\ Len(V) = 2 /\ V[1] = "cr" /\ V[2] = "lf"
  BY DEF CRLF, Chars
<1> HIDE DEF W, V
<1>3. /\ X \in Seq(Chars) /\ Len(X) = l + 2
      /\ \A i \in 1 .. l : X[i] = W[i]
      /\ \A i \in 1 .. 2 : X[l + i] = V[i]
  <2>1. /\ X \in Seq(Chars) /\ Len(X) = Len(W) + Len(V)
        /\ \A i \in 1 .. Len(W) : X[i] = W[i]
        /\ \A i \in 1 .. Len(V) : X[Len(W) + i] = V[i]
    <3>1. W \in Seq(Chars) /\ V \in Seq(Chars)
      BY <1>1, <1>2
    <3> HIDE DEF X
    <3>2. X = W \o V
      BY DEF X
    <3> QED BY ONLY <3>1, <3>2, Joined
  <2>2. Len(W) + Len(V) = l + 2 /\ Len(W) = l /\ Len(V) = 2
    BY <1>1, <1>2
  <2> HIDE DEF X
  <2> QED BY ONLY <2>1, <2>2
<1> HIDE DEF X
<1>4. LineAt(X, 0, l)
  <2>1. \A j \in 1 .. l : 0 + j = j /\ X[0 + j] = "x"
    BY <1>1, <1>3
  <2>2. X[l + 1] = "cr" /\ X[l + 2] = "lf"
    BY <1>2, <1>3
  <2>3. 0 + l + 1 = l + 1 /\ 0 + l + 2 = l + 2
    OBVIOUS
  <2> QED BY <1>3, <2>1, <2>2, <2>3 DEF LineAt
<1> QED BY <1>3, <1>4 DEF X, W, V

(* The lines of the headers, one behind the other.                          *)
HeaderLines(hs) == [i \in DOMAIN hs |-> Text(hs[i].len) \o CRLF]
UpTo(f, i)      == IF i = 0 THEN 0 ELSE Len(f[i])
LinesIn(f, hs, m) ==
  /\ f[m] \in Seq(Chars)
  /\ \A i \in 0 .. m : UpTo(f, i) \in Nat
  /\ UpTo(f, m) = UpTo(f, m - 1) + hs[m].len + 2
  /\ \A i \in 1 .. m : LineAt(f[m], UpTo(f, i - 1), hs[i].len)

LEMMA FlattenExists ==
  ASSUME NEW q, NEW n \in Nat, n = Len(q)
  PROVE  \E f : f = [i \in 1 .. n |-> IF i = 1 THEN q[i] ELSE f[i - 1] \o q[i]]
<1> DEFINE Up(f, m) ==
             f = [i \in 1 .. n |-> IF i <= m THEN IF i = 1 THEN q[i] ELSE f[i - 1] \o q[i] ELSE 0]
           S == {m \in Nat : \E f : Up(f, m)}
<1>1. 0 \in S
  <2> DEFINE f == [i \in 1 .. n |-> 0]
  <2>1. Up(f, 0)
    <3>1. \A i \in 1 .. n : ~(i <= 0)
      OBVIOUS
    <3> QED BY <3>1
  <2> HIDE DEF f, Up
  <2> QED BY <2>1
<1>2. ASSUME NEW m \in Nat, m \in S PROVE m + 1 \in S
  <2> PICK f : Up(f, m)
    BY <1>2
  <2> DEFINE g == [i \in 1 .. n |->
                    IF i <= m + 1 THEN IF i = 1 THEN q[i] ELSE f[i - 1] \o q[i] ELSE 0]
  <2>1. \A i \in 1 .. n : i <= m => g[i] = f[i]
    <3> DEFINE F(i) == IF i = 1 THEN q[i] ELSE f[i - 1] \o q[i]
    <3>1. f = [i \in 1 .. n |-> IF i <= m THEN F(i) ELSE 0]
      OBVIOUS
    <3>2. g = [i \in 1 .. n |-> IF i <= m + 1 THEN F(i) ELSE 0]
      OBVIOUS
    <3> HIDE DEF F, g
    <3> SUFFICES ASSUME NEW i \in 1 .. n, i <= m PROVE g[i] = f[i]
      OBVIOUS
    <3>3. f[i] = F(i)
      BY <3>1
    <3>4. g[i] = F(i)
      BY <3>2
    <3> QED BY <3>3, <3>4
  <2>2. \A i \in 1 .. n : i <= m + 1 /\ i # 1 => i - 1 \in 1 .. n /\ i - 1 <= m
    OBVIOUS
  <2>3. \A i \in 1 .. n : i <= m + 1 /\ i # 1 => f[i - 1] = g[i - 1]
    <3> HIDE DEF g, Up
    <3> QED BY <2>1, <2>2
  <2>4. Up(g, m + 1)
    BY <2>3
  <2> HIDE DEF g, Up
  <2> QED BY <2>4
<1>3. n \in S
  <2> HIDE DEF S
  <2> QED BY <1>1, <1>2, SetInduction
<1>4. PICK f : Up(f, n)
  BY <1>3
<1>5. f = [i \in 1 .. n |-> IF i = 1 THEN q[i] ELSE f[i - 1] \o q[i]]
  <2>1. \A i \in 1 .. n : i <= n
    OBVIOUS
  <2> QED BY <1>4, <2>1
<1> QED BY <1>5

LEMMA FlattenUnfolds ==
  ASSUME NEW q, NEW n \in Nat \ {0}, n = Len(q)
  PROVE  \E f : /\ f = [i \in 1 .. n |-> IF i = 1 THEN q[i] ELSE f[i - 1] \o q[i]]
                /\ FlattenSeq(q) = f[n]
<1> DEFINE f == CHOOSE f : f = [i \in 1 .. n |-> IF i = 1 THEN q[i] ELSE f[i - 1] \o q[i]]
<1>1. f = [i \in 1 .. n |-> IF i = 1 THEN q[i] ELSE f[i - 1] \o q[i]]
  BY FlattenExists
<1>2. FlattenSeq(q) = f[n]
  BY DEF FlattenSeq
<1> QED BY <1>1, <1>2

LEMMA Flattened ==
  ASSUME NEW T, NEW hs \in Seq(T), \A i \in DOMAIN hs : hs[i].len \in Nat, hs # <<>>
  PROVE  \E f : /\ FlattenSeq(HeaderLines(hs)) = f[Len(hs)]
                /\ \A i \in 1 .. Len(hs) : LinesIn(f, hs, i)
<1> DEFINE q == HeaderLines(hs)
<1>0. PICK n \in Nat \ {0} : n = Len(hs)
  OBVIOUS
<1>1. DOMAIN hs = 1 .. n /\ Len(q) = n /\ \A i \in 1 .. n : q[i] = Text(hs[i].len) \o CRLF
  BY <1>0 DEF HeaderLines
<1>9. \A i \in 1 .. n : hs[i].len \in Nat
  BY <1>1
<1>2. \A i \in 1 .. n : q[i] \in Seq(Chars) /\ Len(q[i]) = hs[i].len + 2 /\ LineAt(q[i], 0, hs[i].len)
  BY <1>1, <1>9, OneLine
<1> HIDE DEF q
<1>3. PICK f : /\ f = [i \in 1 .. n |-> IF i = 1 THEN q[i] ELSE f[i - 1] \o q[i]]
               /\ FlattenSeq(q) = f[n]
  BY <1>1, FlattenUnfolds
<1> DEFINE S == {m \in Nat : m + 1 \in 1 .. n => LinesIn(f, hs, m + 1)}
<1>4. 0 \in S
  <2>1. 1 \in 1 .. n /\ f[1] = q[1]
    BY <1>3
  <2>2. UpTo(f, 0) = 0 /\ UpTo(f, 1) = Len(q[1]) /\ hs[1].len \in Nat
    BY <1>9, <2>1 DEF UpTo
  <2>3. LinesIn(f, hs, 1)
    <3>1. \A i \in 1 .. 1 : i = 1 /\ i - 1 = 0
      OBVIOUS
    <3>2. UpTo(f, 1) = UpTo(f, 0) + hs[1].len + 2
      BY <1>2, <2>1, <2>2
    <3>3. \A i \in 0 .. 1 : UpTo(f, i) \in Nat
      <4>1. q[1] \in Seq(Chars) /\ Len(q[1]) \in Nat
        BY <1>2, <2>1
      <4>2. \A i \in 0 .. 1 : i = 0 \/ i = 1
        OBVIOUS
      <4> QED BY <2>2, <4>1, <4>2
    <3> QED BY <1>2, <2>1, <2>2, <3>1, <3>2, <3>3 DEF LinesIn
  <2> QED BY <2>3
<1>5. ASSUME NEW m \in Nat, m \in S PROVE m + 1 \in S
  <2> SUFFICES ASSUME (m + 1) + 1 \in 1 .. n PROVE LinesIn(f, hs, (m + 1) + 1)
    OBVIOUS
  <2> DEFINE a == m + 1
             b == a + 1
  <2>1. a \in 1 .. n /\ b \in 1 .. n /\ b # 1 /\ b - 1 = a /\ a # 0 /\ b # 0 /\ a \in Nat
    OBVIOUS
  <2>2. LinesIn(f, hs, a)
    BY <1>5, <2>1
  <2> HIDE DEF a, b
  <2>3. f[b] = f[a] \o q[b]
    BY <1>3, <2>1
  <2>4. f[a] \in Seq(Chars) /\ q[b] \in Seq(Chars)
    BY <1>2, <2>1, <2>2 DEF LinesIn
  <2>5. UpTo(f, a) = Len(f[a]) /\ UpTo(f, b) = Len(f[b])
    BY <2>1 DEF UpTo
  <2>6. f[b] \in Seq(Chars) /\ Len(f[b]) = Len(f[a]) + Len(q[b])
    BY <2>3, <2>4, Joined
  <2>7. UpTo(f, b) = UpTo(f, a) + hs[b].len + 2
    <3>1. PICK x \in Nat, y \in Nat : x = Len(f[a]) /\ y = hs[b].len
      <4>1. Len(f[a]) \in Nat
        BY <2>4, LenProperties
      <4>2. hs[b].len \in Nat
        BY <1>9, <2>1
      <4> QED BY <4>1, <4>2
    <3>2. Len(q[b]) = y + 2
      BY <1>2, <2>1, <3>1
    <3>3. x + (y + 2) = x + y + 2
      OBVIOUS
    <3> QED BY <2>5, <2>6, <3>1, <3>2, <3>3
  <2>8. ASSUME NEW i \in 1 .. b PROVE LineAt(f[b], UpTo(f, i - 1), hs[i].len)
    <3>1. i \in 1 .. n /\ hs[i].len \in Nat
      <4>1. i \in 1 .. n
        BY <2>1, <2>8
      <4> QED BY <1>9, <4>1
    <3>2. CASE i = b
      <4>1. LineAt(q[b], 0, hs[b].len)
        BY <1>2, <2>1
      <4>2. LineAt(f[a] \o q[b], Len(f[a]) + 0, hs[b].len)
        BY <2>4, <3>1, <3>2, <4>1, LineMoves
      <4>3. Len(f[a]) + 0 = UpTo(f, i - 1)
        BY <2>1, <2>4, <2>5, <3>2
      <4> QED BY <2>3, <3>2, <4>2, <4>3
    <3>3. CASE i # b
      <4>1. i \in 1 .. a /\ i - 1 \in 0 .. n
        BY <2>1, <2>8, <3>3
      <4>2. LineAt(f[a], UpTo(f, i - 1), hs[i].len)
        BY <2>2, <4>1 DEF LinesIn
      <4>3. UpTo(f, i - 1) \in Nat
        <5>1. i - 1 \in 0 .. a
          BY <2>1, <4>1
        <5> QED BY <2>2, <5>1 DEF LinesIn
      <4> QED BY <2>3, <2>4, <3>1, <4>2, <4>3, LineStays
    <3> QED BY <3>2, <3>3
  <2>9. \A i \in 0 .. b : UpTo(f, i) \in Nat
    <3>1. \A i \in 0 .. b : i = b \/ i \in 0 .. a
      BY <2>1
    <3>2. \A i \in 0 .. a : UpTo(f, i) \in Nat
      BY <2>2 DEF LinesIn
    <3>3. UpTo(f, b) \in Nat
      BY <2>5, <2>6, LenProperties
    <3> QED BY <3>1, <3>2, <3>3
  <2>10. UpTo(f, b) = UpTo(f, b - 1) + hs[b].len + 2
    BY <2>1, <2>7
  <2>11. LinesIn(f, hs, b)
    BY <2>6, <2>8, <2>9, <2>10 DEF LinesIn
  <2> QED BY <2>11 DEF a, b
<1>6. ASSUME NEW i \in 1 .. n PROVE LinesIn(f, hs, i)
  <2>1. i - 1 \in Nat /\ (i - 1) + 1 = i /\ i - 1 \in S
    <3>1. i - 1 \in Nat /\ (i - 1) + 1 = i
      OBVIOUS
    <3> HIDE DEF S
    <3> QED BY <1>4, <1>5, <3>1, SetInduction
  <2> QED BY <2>1
<1> QED BY <1>0, <1>3, <1>6 DEF q

LEMMA HeaderStream ==
  ASSUME NEW T, NEW hs \in Seq(T), \A i \in DOMAIN hs : hs[i].len \in Nat
  PROVE  LET F == FlattenSeq(HeaderLines(hs))
             n == Len(hs)
         IN  /\ F \in Seq(Chars)
             /\ \E p \in [0 .. n -> Nat] :
                  /\ p[0] = 0 /\ p[n] = Len(F)
                  /\ \A i \in 1 .. n : /\ p[i] = p[i - 1] + hs[i].len + 2
                                       /\ LineAt(F, p[i - 1], hs[i].len)
<1> DEFINE F == FlattenSeq(HeaderLines(hs))
<1>0. PICK n \in Nat : n = Len(hs)
  OBVIOUS
<1>1. CASE hs = <<>>
  <2>1. n = 0 /\ DOMAIN hs = {}
    BY <1>0, <1>1
  <2>2. HeaderLines(hs) = <<>>
    BY <2>1 DEF HeaderLines
  <2>3. F = <<>>
    BY <2>2 DEF FlattenSeq
  <2>4. F \in Seq(Chars) /\ Len(F) = 0
    BY <2>3
  <2> HIDE DEF F
  <2> DEFINE p == [i \in 0 .. 0 |-> 0]
  <2>5. p \in [0 .. 0 -> Nat] /\ p[0] = 0 /\ 1 .. 0 = {}
    OBVIOUS
  <2> QED BY <1>0, <2>1, <2>4, <2>5 DEF F
<1>2. CASE hs # <<>>
  <2>1. PICK f : F = f[n] /\ \A i \in 1 .. n : LinesIn(f, hs, i)
    BY <1>0, <1>2, Flattened
  <2> HIDE DEF F
  <2>2. n \in 1 .. n
    BY <1>0, <1>2
  <2> DEFINE p == [i \in 0 .. n |-> UpTo(f, i)]
  <2>3. F \in Seq(Chars) /\ \A i \in 0 .. n : UpTo(f, i) \in Nat
    BY <2>1, <2>2 DEF LinesIn
  <2>4. p \in [0 .. n -> Nat] /\ \A i \in 0 .. n : p[i] = UpTo(f, i)
    BY <2>3
  <2> HIDE DEF p
  <2>5. p[0] = 0 /\ p[n] = Len(F)
    BY <2>1, <2>2, <2>4 DEF UpTo
  <2>6. ASSUME NEW i \in 1 .. n
        PROVE  p[i] = p[i - 1] + hs[i].len + 2 /\ LineAt(F, p[i - 1], hs[i].len)
    <3>1. i \in 0 .. n /\ i - 1 \in 0 .. n
      OBVIOUS
    <3>2. LinesIn(f, hs, i) /\ LinesIn(f, hs, n)
      BY <2>1, <2>2
    <3>3. UpTo(f, i) = UpTo(f, i - 1) + hs[i].len + 2 /\ LineAt(f[n], UpTo(f, i - 1), hs[i].len)
      BY <3>2 DEF LinesIn
    <3> QED BY <2>1, <2>4, <3>1, <3>3
  <2> QED BY <1>0, <2>3, <2>4, <2>5, <2>6 DEF F
<1> QED BY <1>1, <1>2

(***************************************************************************)
(* What is sent of a request: the request line is line 0, header i is line i, *)
(* and the empty line comes behind them if it is sent.  Line k begins behind  *)
(* s[k], the body behind s[Count(r)].                                       *)
(***************************************************************************)
LineLen(r, k) == IF k = 0 THEN r.line.len
                 ELSE IF k <= Len(r.headers) THEN r.headers[k].len ELSE 0
Count(r)      == Len(r.headers) + (IF r.end THEN 2 ELSE 1)
Layout(r, s)  ==
  /\ s \in [0 .. Count(r) -> Nat] /\ s[0] = 0 /\ s[Count(r)] + r.body = Len(Stream[r])
  /\ \A k \in 0 .. Count(r) - 1 : /\ s[k + 1] = s[k] + LineLen(r, k) + 2
                                  /\ LineAt(Stream[r], s[k], LineLen(r, k))
  /\ \A j \in 1 .. r.body : Stream[r][s[Count(r)] + j] = "b"

LEMMA IsSent ==
  ASSUME NEW r \in Requests
  PROVE  /\ r.headers \in Seq(Range(r.headers)) /\ Len(r.headers) \in Nat
         /\ DOMAIN r.headers = 1 .. Len(r.headers)
         /\ \A i \in 1 .. Len(r.headers) :
              /\ r.headers[i].len \in Nat \ {0} /\ r.headers[i].name \in Names
              /\ r.headers[i].name = "content-length" => r.headers[i].value \in Nat \cup {-1}
         /\ r.line.len \in Nat /\ r.line.path \in Paths
         /\ r.end \in BOOLEAN /\ r.body \in Nat /\ r.json \in BOOLEAN
<1>1. IsRequest(r)
  BY HttpAssumption
<1>2. r.headers \in Seq(Range(r.headers))
  BY <1>1 DEF IsRequest
<1>3. Len(r.headers) \in Nat /\ DOMAIN r.headers = 1 .. Len(r.headers)
  BY <1>2
<1>4. \A i \in 1 .. Len(r.headers) : r.headers[i] \in Range(r.headers)
  BY <1>3 DEF Range
<1> QED BY <1>1, <1>2, <1>3, <1>4 DEF IsRequest

LEMMA Lengths ==
  ASSUME NEW r \in Requests
  PROVE  /\ Count(r) \in Nat \ {0}
         /\ Count(r) = Len(r.headers) + 1 \/ Count(r) = Len(r.headers) + 2
         /\ r.end <=> Count(r) = Len(r.headers) + 2
         /\ \A k \in Nat : LineLen(r, k) \in Nat
         /\ \A k \in 1 .. Len(r.headers) : LineLen(r, k) # 0
<1>1. PICK n \in Nat : n = Len(r.headers)
  BY IsSent
<1>2. Count(r) = n + (IF r.end THEN 2 ELSE 1) /\ r.end \in BOOLEAN
  BY <1>1, IsSent DEF Count
<1>3. \A i \in 1 .. n : r.headers[i].len \in Nat \ {0}
  BY <1>1, IsSent
<1>4. r.line.len \in Nat
  BY IsSent
<1>5. \A k \in Nat : LineLen(r, k) \in Nat
  BY <1>1, <1>3, <1>4 DEF LineLen
<1>6. \A k \in 1 .. n : LineLen(r, k) # 0
  BY <1>1, <1>3 DEF LineLen
<1>7. Count(r) \in Nat \ {0} /\ (Count(r) = n + 1 \/ Count(r) = n + 2) /\ (r.end <=> Count(r) = n + 2)
  BY <1>2
<1> QED BY <1>1, <1>5, <1>6, <1>7

LEMMA Laid ==
  ASSUME NEW r \in Requests
  PROVE  Stream[r] \in Seq(Chars) /\ \E s : Layout(r, s)
<1> DEFINE A == Text(r.line.len) \o CRLF
           F == FlattenSeq(HeaderLines(r.headers))
           E == IF r.end THEN CRLF ELSE <<>>
           B == [i \in 1 .. r.body |-> "b"]
           X == A \o F
           Y == X \o E
           W == Y \o B
<1>1. Stream[r] = W
  BY DEF Stream, HeaderLines
<1>2. PICK n \in Nat, l \in Nat, m \in Nat : n = Len(r.headers) /\ l = r.line.len /\ m = r.body
  BY IsSent
<1>3. A \in Seq(Chars) /\ Len(A) = l + 2 /\ LineAt(A, 0, l)
  BY <1>2, OneLine
<1>4. F \in Seq(Chars)
      /\ \E p \in [0 .. n -> Nat] :
           /\ p[0] = 0 /\ p[n] = Len(F)
           /\ \A i \in 1 .. n : /\ p[i] = p[i - 1] + r.headers[i].len + 2
                                /\ LineAt(F, p[i - 1], r.headers[i].len)
  <2>1. r.headers \in Seq(Range(r.headers)) /\ \A i \in DOMAIN r.headers : r.headers[i].len \in Nat
    BY IsSent
  <2> QED BY <1>2, <2>1, HeaderStream
<1>5. PICK p \in [0 .. n -> Nat] :
           /\ p[0] = 0 /\ p[n] = Len(F)
           /\ \A i \in 1 .. n : /\ p[i] = p[i - 1] + r.headers[i].len + 2
                                /\ LineAt(F, p[i - 1], r.headers[i].len)
  BY <1>4
<1>6. PICK e \in {0, 2} : e = IF r.end THEN 2 ELSE 0
  OBVIOUS
<1>7. E \in Seq(Chars) /\ Len(E) = e
  <2>1. CASE r.end
    <3>1. E = <<"cr", "lf">> /\ e = 2
      BY <1>6, <2>1 DEF CRLF
    <3> HIDE DEF E
    <3> QED BY <3>1 DEF Chars
  <2>2. CASE ~r.end
    <3>1. E = <<>> /\ e = 0
      BY <1>6, <2>2
    <3> HIDE DEF E
    <3> QED BY <3>1
  <2> QED BY <2>1, <2>2
<1>8. r.end => LineAt(E, 0, 0)
  <2> SUFFICES ASSUME r.end PROVE LineAt(E, 0, 0)
    OBVIOUS
  <2>1. Len(E) = 2 /\ E[1] = "cr" /\ E[2] = "lf"
    BY DEF CRLF
  <2> HIDE DEF E
  <2>2. 0 + 0 + 2 = 2 /\ 0 + 0 + 1 = 1 /\ 1 .. 0 = {}
    OBVIOUS
  <2> QED BY <2>1, <2>2 DEF LineAt
<1>9. B \in Seq(Chars) /\ Len(B) = m /\ \A j \in 1 .. m : B[j] = "b"
  BY <1>2 DEF Chars
<1> HIDE DEF A, F, E, B
<1>10. PICK q \in Nat : q = Len(F) /\ q = p[n]
  BY <1>4, <1>5, LenProperties
<1>11. X \in Seq(Chars) /\ Len(X) = Len(A) + Len(F)
  BY <1>3, <1>4, Joined
<1>12. Len(X) = l + 2 + q
  BY ONLY <1>3, <1>10, <1>11
<1> HIDE DEF X
<1>13. Y \in Seq(Chars) /\ Len(Y) = Len(X) + Len(E)
  BY <1>7, <1>11, Joined
<1>14. Len(Y) = l + 2 + q + e
  BY ONLY <1>7, <1>12, <1>13
<1> HIDE DEF Y
<1>15. W \in Seq(Chars) /\ Len(W) = Len(Y) + Len(B) /\ \A i \in 1 .. Len(B) : W[Len(Y) + i] = B[i]
  BY <1>9, <1>13, Joined
<1> HIDE DEF W
<1> DEFINE s == [k \in 0 .. Count(r) |-> IF k = 0 THEN 0
                  ELSE IF k <= n + 1 THEN l + 2 + p[k - 1] ELSE l + 2 + q + 2]
<1>16. PICK c \in Nat \ {0} : c = Count(r)
  BY Lengths
<1>17. (e = 0 /\ c = n + 1 /\ r.end = FALSE) \/ (e = 2 /\ c = n + 2 /\ r.end = TRUE)
  BY <1>2, <1>6, <1>16, IsSent DEF Count
<1>18. \A k \in 0 .. n : p[k] \in Nat
  BY <1>5
<1>19. s \in [0 .. c -> Nat]
  <2>1. \A k \in 0 .. c : k # 0 /\ k <= n + 1 => k - 1 \in 0 .. n
    OBVIOUS
  <2> QED BY <1>16, <1>18, <2>1
<1>20. /\ s[0] = 0
       /\ \A k \in 1 .. n + 1 : s[k] = l + 2 + p[k - 1]
       /\ e = 2 => s[n + 2] = l + 2 + q + 2
  <2>1. \A k \in 1 .. n + 1 : k \in 0 .. c /\ k # 0 /\ k <= n + 1
    BY <1>17
  <2>2. e = 2 => n + 2 \in 0 .. c /\ n + 2 # 0 /\ ~(n + 2 <= n + 1)
    BY <1>17
  <2>3. 0 \in 0 .. c
    BY <1>16
  <2> QED BY <1>16, <2>1, <2>2, <2>3
<1> HIDE DEF s
<1>21. s[c] = l + 2 + q + e
  <2>1. n + 1 \in 1 .. n + 1 /\ (n + 1) - 1 = n
    OBVIOUS
  <2>2. s[n + 1] = l + 2 + q
    BY <1>10, <1>20, <2>1
  <2>3. e = 0 => c = n + 1 /\ l + 2 + q + e = l + 2 + q
    BY <1>17
  <2>4. e = 2 => c = n + 2 /\ l + 2 + q + e = l + 2 + q + 2
    BY <1>17
  <2> QED BY <1>17, <1>20, <2>2, <2>3, <2>4
<1>22. s[c] + r.body = Len(W) /\ \A j \in 1 .. r.body : W[s[c] + j] = "b"
  BY <1>2, <1>9, <1>14, <1>15, <1>21
<1>23. ASSUME NEW k \in 0 .. c - 1
       PROVE  s[k + 1] = s[k] + LineLen(r, k) + 2 /\ LineAt(W, s[k], LineLen(r, k))
  <2>1. CASE k = 0
    <3>1. LineLen(r, k) = l
      BY <1>2, <2>1 DEF LineLen
    <3>2. LineAt(X, 0, l)
      BY <1>3, <1>4, LineStays DEF X
    <3>3. LineAt(Y, 0, l)
      BY <1>7, <1>11, <3>2, LineStays DEF Y
    <3>4. LineAt(W, 0, l)
      BY <1>9, <1>13, <3>3, LineStays DEF W
    <3>5. s[1] = l + 2 + p[1 - 1]
      <4>1. 1 \in 1 .. n + 1
        OBVIOUS
      <4> QED BY <1>20, <4>1
    <3>6. s[1] = 0 + l + 2
      BY <1>5, <3>5
    <3> QED BY <1>20, <2>1, <3>1, <3>4, <3>6
  <2>2. CASE k \in 1 .. n
    <3>0. k - 1 \in 0 .. n /\ k \in 1 .. n + 1 /\ k + 1 \in 1 .. n + 1 /\ (k + 1) - 1 = k /\ k # 0 /\ k <= n
      BY <2>2
    <3>1. PICK g \in Nat, d \in Nat : g = LineLen(r, k) /\ g = r.headers[k].len /\ d = p[k - 1]
      <4>1. LineLen(r, k) = r.headers[k].len /\ LineLen(r, k) \in Nat
        BY <1>2, <3>0, Lengths DEF LineLen
      <4> QED BY <1>18, <3>0, <4>1
    <3>2. p[k] = d + g + 2 /\ LineAt(F, d, g)
      BY <1>5, <2>2, <3>1
    <3>3. LineAt(X, Len(A) + d, g)
      BY <1>3, <1>4, <3>2, LineMoves DEF X
    <3>4. LineAt(X, l + 2 + d, g) /\ l + 2 + d \in Nat
      BY <1>3, <3>3
    <3>5. LineAt(Y, l + 2 + d, g)
      BY <1>7, <1>11, <3>4, LineStays DEF Y
    <3>6. LineAt(W, l + 2 + d, g)
      BY <1>9, <1>13, <3>4, <3>5, LineStays DEF W
    <3>7. s[k] = l + 2 + d /\ s[k + 1] = l + 2 + p[k]
      BY <1>20, <3>0, <3>1
    <3>8. s[k + 1] = s[k] + g + 2
      BY <3>2, <3>7
    <3> QED BY <3>1, <3>6, <3>7, <3>8
  <2>3. CASE k = n + 1
    <3>1. e = 2 /\ r.end
      BY <1>17, <2>3, <1>23
    <3>2. LineLen(r, k) = 0
      BY <1>2, <2>3 DEF LineLen
    <3>3. LineAt(Y, Len(X) + 0, 0)
      BY <1>7, <1>8, <1>11, <3>1, LineMoves DEF Y
    <3>4. LineAt(Y, l + 2 + q, 0) /\ l + 2 + q \in Nat
      BY <1>12, <3>3
    <3>5. LineAt(W, l + 2 + q, 0)
      BY <1>9, <1>13, <3>4, LineStays DEF W
    <3>6. s[n + 1] = l + 2 + q
      <4>1. n + 1 \in 1 .. n + 1 /\ (n + 1) - 1 = n
        OBVIOUS
      <4> QED BY <1>10, <1>20, <4>1
    <3>7. s[(n + 1) + 1] = s[n + 1] + 0 + 2
      <4>1. (n + 1) + 1 = n + 2
        OBVIOUS
      <4> QED BY <1>20, <3>1, <3>6, <4>1
    <3> QED BY <2>3, <3>2, <3>5, <3>6, <3>7
  <2>4. k = 0 \/ k \in 1 .. n \/ k = n + 1
    BY <1>17, <1>23
  <2> QED BY <2>1, <2>2, <2>3, <2>4
<1>24. Layout(r, s)
  <2>1. W = Stream[r]
    BY <1>1 DEF W, Y, X
  <2> QED BY <1>16, <1>19, <1>20, <1>22, <1>23, <2>1 DEF Layout
<1>25. Stream[r] \in Seq(Chars)
  BY <1>1, <1>15 DEF W, Y, X
<1> QED BY <1>24, <1>25

(***************************************************************************)
(* What read_line finds.                                                   *)
(***************************************************************************)
LineEnd(P) == SelectInSeq(P, LAMBDA c : c = "lf")
TextEnd(P) == Max({0} \cup {i \in 1 .. LineEnd(P) - 1 : P[i] # "cr"})
AllBody(W, a) == \A i \in a + 1 .. Len(W) : W[i] = "b"
Finds(P, s, l, g, e) ==
  /\ Len(P) = e - (s + g)
  /\ LineEnd(P) = IF s + l + 2 <= e THEN l + 2 - g ELSE 0
  /\ s + l + 2 <= e => TextEnd(P) = IF g <= l THEN l - g ELSE 0

LEMMA LineEnds ==
  ASSUME NEW P, NEW n \in Nat, n = Len(P)
  PROVE  /\ (\A i \in 1 .. n : P[i] # "lf") => LineEnd(P) = 0
         /\ \A k \in 1 .. n :
              P[k] = "lf" /\ (\A i \in 1 .. k - 1 : P[i] # "lf") => LineEnd(P) = k
<1> DEFINE I == {i \in 1 .. n : P[i] = "lf"}
<1>1. LineEnd(P) = IF I # {} THEN Min(I) ELSE 0
  BY DEF LineEnd, SelectInSeq
<1>2. ASSUME \A i \in 1 .. n : P[i] # "lf" PROVE LineEnd(P) = 0
  <2>1. I = {}
    BY <1>2
  <2> HIDE DEF I
  <2> QED BY <1>1, <2>1
<1>3. ASSUME NEW k \in 1 .. n, P[k] = "lf", \A i \in 1 .. k - 1 : P[i] # "lf"
      PROVE  LineEnd(P) = k
  <2>1. k \in I /\ I \subseteq Int
    BY <1>3
  <2>2. \A i \in I : k <= i
    <3> SUFFICES ASSUME NEW i \in I, i < k PROVE FALSE
      BY <2>1
    <3>1. i \in 1 .. k - 1 /\ P[i] = "lf"
      OBVIOUS
    <3> QED BY <1>3, <3>1
  <2> HIDE DEF I
  <2>3. Min(I) = k
    BY <2>1, <2>2, MinIs
  <2> QED BY <1>1, <2>1, <2>3
<1> QED BY <1>2, <1>3

LEMMA Scan ==
  ASSUME NEW W \in Seq(Chars), NEW s \in Nat, NEW l \in Nat, LineAt(W, s, l),
         NEW g \in 0 .. l + 1, NEW e \in Nat, s + g <= e, e <= Len(W),
         NEW P, P = SubSeq(W, s + g + 1, e)
  PROVE  Finds(P, s, l, g, e)
<1>1. PICK w \in Nat : w = Len(W)
  BY LenProperties
<1>2. PICK a \in Nat : a = s + g
  OBVIOUS
<1>3. PICK n \in Nat : n = e - a
  BY <1>2
<1>4. Len(P) = n /\ \A i \in 1 .. n : P[i] = W[a + i]
  <2>1. \A i \in 1 .. n : i + (a + 1) - 1 = a + i
    BY <1>2, <1>3
  <2>2. SubSeq(W, a + 1, e) = [i \in 1 .. (1 + e - (a + 1)) |-> W[i + (a + 1) - 1]]
    OBVIOUS
  <2>3. 1 + e - (a + 1) = n
    BY <1>2, <1>3
  <2>4. P = [i \in 1 .. n |-> W[i + (a + 1) - 1]]
    BY <1>2, <2>2, <2>3
  <2> QED BY ONLY <2>1, <2>4, n \in Nat
<1>5. /\ s + l + 2 <= w
      /\ \A j \in 1 .. l : W[s + j] = "x"
      /\ W[s + l + 1] = "cr" /\ W[s + l + 2] = "lf"
  BY <1>1 DEF LineAt
<1>6. ASSUME NEW i \in 1 .. n, g + i <= l PROVE P[i] = "x"
  <2>1. g + i \in 1 .. l /\ a + i = s + (g + i)
    BY <1>2, <1>6
  <2>2. P[i] = W[a + i]
    BY <1>4
  <2>3. W[s + (g + i)] = "x"
    BY ONLY <1>5, <2>1
  <2> QED BY ONLY <2>1, <2>2, <2>3
<1>7. ASSUME NEW i \in 1 .. n, g + i = l + 1 PROVE P[i] = "cr"
  <2>1. a + i = s + l + 1
    BY <1>2, <1>7
  <2>2. P[i] = W[a + i]
    BY <1>4
  <2> QED BY ONLY <1>5, <2>1, <2>2
<1>8. ASSUME NEW i \in 1 .. n, g + i = l + 2 PROVE P[i] = "lf"
  <2>1. a + i = s + l + 2
    BY <1>2, <1>8
  <2>2. P[i] = W[a + i]
    BY <1>4
  <2> QED BY ONLY <1>5, <2>1, <2>2
<1>9. CASE s + l + 2 <= e
  <2>1. PICK k \in Nat : k = l + 2 - g
    OBVIOUS
  <2>2. k \in 1 .. n
    BY <1>2, <1>3, <1>9, <2>1
  <2>3. P[k] = "lf"
    <3>1. g + k = l + 2
      BY <2>1
    <3> QED BY <1>8, <2>2, <3>1
  <2>4. \A i \in 1 .. k - 1 : P[i] # "lf"
    <3> TAKE i \in 1 .. k - 1
    <3>1. i \in 1 .. n /\ (g + i <= l \/ g + i = l + 1)
      BY <2>1, <2>2
    <3> QED BY <1>6, <1>7, <3>1
  <2>5. LineEnd(P) = k
    BY <1>4, <2>2, <2>3, <2>4, LineEnds
  <2> DEFINE I == {0} \cup {i \in 1 .. k - 1 : P[i] # "cr"}
  <2>6. PICK m \in Nat : m = IF g <= l THEN l - g ELSE 0
    <3>1. g <= l => l - g \in Nat
      OBVIOUS
    <3> QED BY <3>1
  <2>7. m \in I
    <3>1. CASE m = 0
      BY <3>1
    <3>2. CASE m # 0
      <4>1. m \in 1 .. k - 1 /\ m \in 1 .. n /\ g + m <= l
        BY <2>1, <2>2, <2>6, <3>2
      <4>2. P[m] = "x"
        BY <1>6, <4>1
      <4> QED BY <4>1, <4>2
    <3> QED BY <3>1, <3>2
  <2>8. \A i \in I : i <= m
    <3>1. ASSUME NEW i \in 1 .. k - 1, P[i] # "cr" PROVE i <= m
      <4>1. i \in 1 .. n
        BY <2>2
      <4>2. g + i # l + 1
        BY <1>7, <3>1, <4>1
      <4> QED BY <2>1, <2>6, <4>2
    <3>2. 0 <= m
      OBVIOUS
    <3> QED BY <3>1, <3>2
  <2>9. I \subseteq Int
    OBVIOUS
  <2> HIDE DEF I
  <2>10. Max(I) = m
    BY <2>7, <2>8, <2>9, MaxIs
  <2> QED BY <1>2, <1>3, <1>4, <1>9, <2>1, <2>5, <2>6, <2>10 DEF I, Finds, TextEnd
<1>10. CASE ~(s + l + 2 <= e)
  <2>1. \A i \in 1 .. n : P[i] # "lf"
    <3> TAKE i \in 1 .. n
    <3>1. g + i <= l \/ g + i = l + 1
      BY <1>2, <1>3, <1>10
    <3> QED BY <1>6, <1>7, <3>1
  <2>2. LineEnd(P) = 0
    BY <1>4, <2>1, LineEnds
  <2> QED BY <1>2, <1>3, <1>4, <1>10, <2>2 DEF Finds
<1> QED BY <1>9, <1>10

LEMMA ScanBody ==
  ASSUME NEW W \in Seq(Chars), NEW a \in Nat, NEW e \in Nat, a <= e, e <= Len(W),
         AllBody(W, a),
         NEW P, P = SubSeq(W, a + 1, e)
  PROVE  Len(P) = e - a /\ LineEnd(P) = 0
<1>1. PICK w \in Nat : w = Len(W)
  BY LenProperties
<1>2. PICK n \in Nat : n = e - a
  OBVIOUS
<1>3. Len(P) = n /\ \A i \in 1 .. n : P[i] = W[a + i]
  <2>1. \A i \in 1 .. n : i + (a + 1) - 1 = a + i
    OBVIOUS
  <2>2. SubSeq(W, a + 1, e) = [i \in 1 .. (1 + e - (a + 1)) |-> W[i + (a + 1) - 1]]
    OBVIOUS
  <2>3. 1 + e - (a + 1) = n
    BY <1>2
  <2>4. P = [i \in 1 .. n |-> W[i + (a + 1) - 1]]
    BY <2>2, <2>3
  <2> QED BY ONLY <2>1, <2>4, n \in Nat
<1>4. \A i \in 1 .. n : P[i] # "lf"
  <2> TAKE i \in 1 .. n
  <2>1. a + i \in a + 1 .. w
    BY <1>1, <1>2
  <2> QED BY <1>1, <1>3, <2>1 DEF AllBody
<1>5. LineEnd(P) = 0
  BY <1>3, <1>4, LineEnds
<1> QED BY <1>2, <1>3, <1>5

(***************************************************************************)
(* Verdicts: the first that is no pass.                                     *)
(***************************************************************************)
LEMMA FirstBad ==
  ASSUME NEW v, NEW n \in Nat, n = Len(v)
  PROVE  /\ (\A i \in 1 .. n : v[i] = OK) => FirstFailure(v) = OK
         /\ \A k \in 1 .. n :
              v[k] # OK /\ (\A i \in 1 .. k - 1 : v[i] = OK) => FirstFailure(v) = v[k]
<1> DEFINE I == {i \in 1 .. n : v[i] # OK}
<1>1. FirstFailure(v) =
        LET bad == IF I # {} THEN Min(I) ELSE 0 IN IF bad = 0 THEN OK ELSE v[bad]
  BY DEF FirstFailure, SelectInSeq
<1>2. ASSUME \A i \in 1 .. n : v[i] = OK PROVE FirstFailure(v) = OK
  <2>1. I = {}
    BY <1>2
  <2> HIDE DEF I
  <2> QED BY <1>1, <2>1
<1>3. ASSUME NEW k \in 1 .. n, v[k] # OK, \A i \in 1 .. k - 1 : v[i] = OK
      PROVE  FirstFailure(v) = v[k]
  <2>1. k \in I /\ I \subseteq Int /\ k # 0
    BY <1>3
  <2>2. \A i \in I : k <= i
    <3> SUFFICES ASSUME NEW i \in I, i < k PROVE FALSE
      BY <2>1
    <3>1. i \in 1 .. k - 1 /\ v[i] # OK
      OBVIOUS
    <3> QED BY <1>3, <3>1
  <2> HIDE DEF I
  <2>3. Min(I) = k
    BY <2>1, <2>2, MinIs
  <2> QED BY <1>1, <2>1, <2>3
<1> QED BY <1>2, <1>3

LEMMA OfTwo ==
  ASSUME NEW a, NEW b
  PROVE  FirstFailure(<<a, b>>) = IF a # OK THEN a ELSE b
<1> DEFINE v == <<a, b>>
<1>1. 2 \in Nat /\ 2 = Len(v) /\ v[1] = a /\ v[2] = b
  OBVIOUS
<1> HIDE DEF v
<1>2. CASE a # OK
  <2>1. 1 \in 1 .. 2 /\ 1 .. 1 - 1 = {}
    OBVIOUS
  <2> QED BY <1>1, <1>2, <2>1, FirstBad DEF v
<1>3. CASE a = OK /\ b # OK
  <2>1. 2 \in 1 .. 2 /\ \A i \in 1 .. 2 - 1 : i = 1
    OBVIOUS
  <2>2. \A i \in 1 .. 2 - 1 : v[i] = OK
    BY <1>1, <1>3, <2>1
  <2> QED BY <1>1, <1>3, <2>1, <2>2, FirstBad DEF v
<1>4. CASE a = OK /\ b = OK
  <2>1. \A i \in 1 .. 2 : i = 1 \/ i = 2
    OBVIOUS
  <2>2. \A i \in 1 .. 2 : v[i] = OK
    BY <1>1, <1>4, <2>1
  <2> QED BY <1>1, <1>4, <2>2, FirstBad DEF v
<1> QED BY <1>2, <1>3, <1>4

LEMMA OfFour ==
  ASSUME NEW a, NEW b, NEW c, NEW d, FirstFailure(<<a, b, c, d>>) = OK
  PROVE  a = OK /\ b = OK /\ c = OK /\ d = OK
<1> DEFINE v == <<a, b, c, d>>
<1>1. 4 \in Nat /\ 4 = Len(v) /\ v[1] = a /\ v[2] = b /\ v[3] = c /\ v[4] = d
  OBVIOUS
<1>2. FirstFailure(v) = OK
  OBVIOUS
<1> HIDE DEF v
<1>3. \A k \in 1 .. 4 : (\A i \in 1 .. k - 1 : v[i] = OK) => v[k] = OK
  BY <1>1, <1>2, FirstBad
<1>4. v[1] = OK
  <2>1. 1 \in 1 .. 4 /\ 1 .. 1 - 1 = {}
    OBVIOUS
  <2> QED BY <1>3, <2>1
<1>5. v[2] = OK
  <2>1. 2 \in 1 .. 4 /\ \A i \in 1 .. 2 - 1 : i = 1
    OBVIOUS
  <2> QED BY <1>3, <1>4, <2>1
<1>6. v[3] = OK
  <2>1. 3 \in 1 .. 4 /\ \A i \in 1 .. 3 - 1 : i = 1 \/ i = 2
    OBVIOUS
  <2> QED BY <1>3, <1>4, <1>5, <2>1
<1>7. v[4] = OK
  <2>1. 4 \in 1 .. 4 /\ \A i \in 1 .. 4 - 1 : i = 1 \/ i = 2 \/ i = 3
    OBVIOUS
  <2> QED BY <1>3, <1>4, <1>5, <1>6, <2>1
<1> QED BY <1>1, <1>4, <1>5, <1>6, <1>7

(* The verdicts on a request, in their order.                               *)
Head1(r)   == Unless(400, r.line.len <= MaxLine)
BodyOf(r)  == LET map == LastOf(r, Len(r.headers))
              IN  IF HasBody(map) THEN ParseBody(r, map["content-length"]) ELSE OK
AuthOf(r)  == ValidateHeaders(LastOf(r, Len(r.headers)))
BodyHs(r)  == BodyHeaders(LastOf(r, Len(r.headers)))
Listed(r, v, n) ==
  /\ Verdict(r) = FirstFailure(v)
  /\ n = Len(r.headers) /\ Len(v) = n + (IF Unvalidated(r.line) THEN 3 ELSE 6)
  /\ v[1] = Head1(r) /\ v[2] = RequestLine(r.line)
  /\ \A i \in 1 .. n : v[2 + i] = HeaderVerdict(r, i)
  /\ v[n + 3] = Unless(400, r.end)
  /\ ~Unvalidated(r.line) =>
       v[n + 4] = AuthOf(r) /\ v[n + 5] = BodyHs(r) /\ v[n + 6] = BodyOf(r)

LEMMA VerdictList ==
  ASSUME NEW r \in Requests
  PROVE  \E v, n : n \in Nat /\ Listed(r, v, n)
<1>1. PICK n \in Nat : n = Len(r.headers) /\ DOMAIN r.headers = 1 .. n
  BY IsSent
<1> DEFINE a == <<Head1(r), RequestLine(r.line)>>
           h == [i \in 1 .. n |-> HeaderVerdict(r, i)]
           e == <<Unless(400, r.end)>>
           b == IF Unvalidated(r.line) THEN <<>> ELSE <<AuthOf(r), BodyHs(r), BodyOf(r)>>
           X == a \o h
           Y == X \o e
           v == Y \o b
           T == {Head1(r), RequestLine(r.line), Unless(400, r.end), AuthOf(r), BodyHs(r), BodyOf(r)}
                  \cup {HeaderVerdict(r, i) : i \in 1 .. n}
<1>2. Verdict(r) = FirstFailure(v)
  BY <1>1 DEF Verdict, Head1, AuthOf, BodyHs, BodyOf
<1>3. a \in Seq(T) /\ Len(a) = 2 /\ a[1] = Head1(r) /\ a[2] = RequestLine(r.line)
  OBVIOUS
<1>4. h \in Seq(T) /\ Len(h) = n /\ \A i \in 1 .. n : h[i] = HeaderVerdict(r, i)
  OBVIOUS
<1>5. e \in Seq(T) /\ Len(e) = 1 /\ e[1] = Unless(400, r.end)
  OBVIOUS
<1>6. PICK m \in {0, 3} : m = IF Unvalidated(r.line) THEN 0 ELSE 3
  OBVIOUS
<1>7. b \in Seq(T) /\ Len(b) = m
      /\ (~Unvalidated(r.line) => b[1] = AuthOf(r) /\ b[2] = BodyHs(r) /\ b[3] = BodyOf(r))
  <2>1. CASE Unvalidated(r.line)
    <3>1. b = <<>> /\ m = 0
      BY <1>6, <2>1
    <3> HIDE DEF b, T
    <3> QED BY <2>1, <3>1
  <2>2. CASE ~Unvalidated(r.line)
    <3>1. b = <<AuthOf(r), BodyHs(r), BodyOf(r)>> /\ m = 3
      BY <1>6, <2>2
    <3>2. AuthOf(r) \in T /\ BodyHs(r) \in T /\ BodyOf(r) \in T
      OBVIOUS
    <3> HIDE DEF b, T
    <3> QED BY <3>1, <3>2
  <2> QED BY <2>1, <2>2
<1> HIDE DEF a, h, e, b, T
<1>8. /\ X \in Seq(T) /\ Len(X) = Len(a) + Len(h)
      /\ \A i \in 1 .. Len(a) : X[i] = a[i]
      /\ \A i \in 1 .. Len(h) : X[Len(a) + i] = h[i]
  <2>1. a \in Seq(T) /\ h \in Seq(T)
    BY <1>3, <1>4
  <2> QED BY ONLY <2>1, Joined
<1> HIDE DEF X
<1>9. Len(X) = n + 2 /\ X[1] = Head1(r) /\ X[2] = RequestLine(r.line)
      /\ \A i \in 1 .. n : X[2 + i] = HeaderVerdict(r, i)
  <2>1. 1 \in 1 .. 2 /\ 2 \in 1 .. 2 /\ 2 + n = n + 2
    OBVIOUS
  <2> QED BY ONLY <1>3, <1>4, <1>8, <2>1
<1>10. /\ Y \in Seq(T) /\ Len(Y) = Len(X) + Len(e)
       /\ \A i \in 1 .. Len(X) : Y[i] = X[i]
       /\ \A i \in 1 .. Len(e) : Y[Len(X) + i] = e[i]
  <2>1. X \in Seq(T) /\ e \in Seq(T)
    BY <1>5, <1>8
  <2> QED BY ONLY <2>1, Joined
<1> HIDE DEF Y
<1>11. Len(Y) = n + 3 /\ Y[1] = Head1(r) /\ Y[2] = RequestLine(r.line)
       /\ (\A i \in 1 .. n : Y[2 + i] = HeaderVerdict(r, i)) /\ Y[n + 3] = Unless(400, r.end)
  <2>1. /\ 1 \in 1 .. n + 2 /\ 2 \in 1 .. n + 2 /\ (n + 2) + 1 = n + 3 /\ 1 \in 1 .. 1
        /\ \A i \in 1 .. n : 2 + i \in 1 .. n + 2
    OBVIOUS
  <2>2. Len(Y) = n + 3
    BY <1>5, <1>9, <1>10, <2>1
  <2>3. Y[1] = Head1(r) /\ Y[2] = RequestLine(r.line)
    BY <1>9, <1>10, <2>1
  <2>4. \A i \in 1 .. n : Y[2 + i] = HeaderVerdict(r, i)
    BY <1>9, <1>10, <2>1
  <2>5. Y[n + 3] = Unless(400, r.end)
    BY <1>5, <1>9, <1>10, <2>1
  <2> QED BY <2>2, <2>3, <2>4, <2>5
<1>12. /\ v \in Seq(T) /\ Len(v) = Len(Y) + Len(b)
       /\ \A i \in 1 .. Len(Y) : v[i] = Y[i]
       /\ \A i \in 1 .. Len(b) : v[Len(Y) + i] = b[i]
  BY <1>7, <1>10, Joined
<1> HIDE DEF v
<1>13. Listed(r, v, n)
  <2>1. /\ 1 \in 1 .. n + 3 /\ 2 \in 1 .. n + 3 /\ n + 3 \in 1 .. n + 3
        /\ \A i \in 1 .. n : 2 + i \in 1 .. n + 3
    OBVIOUS
  <2>2. v[1] = Head1(r) /\ v[2] = RequestLine(r.line) /\ v[n + 3] = Unless(400, r.end)
    BY <1>11, <1>12, <2>1
  <2>3. \A i \in 1 .. n : v[2 + i] = HeaderVerdict(r, i)
    BY <1>11, <1>12, <2>1
  <2>4. Len(v) = n + (IF Unvalidated(r.line) THEN 3 ELSE 6)
    <3>1. Len(v) = (n + 3) + m
      BY <1>7, <1>11, <1>12
    <3> QED BY <1>6, <3>1
  <2>5. ~Unvalidated(r.line) =>
          v[n + 4] = AuthOf(r) /\ v[n + 5] = BodyHs(r) /\ v[n + 6] = BodyOf(r)
    <3> SUFFICES ASSUME ~Unvalidated(r.line)
                 PROVE  v[n + 4] = AuthOf(r) /\ v[n + 5] = BodyHs(r) /\ v[n + 6] = BodyOf(r)
      OBVIOUS
    <3>1. /\ (n + 3) + 1 = n + 4 /\ (n + 3) + 2 = n + 5 /\ (n + 3) + 3 = n + 6
          /\ 1 \in 1 .. 3 /\ 2 \in 1 .. 3 /\ 3 \in 1 .. 3 /\ m = 3
      BY <1>6
    <3> QED BY <1>7, <1>11, <1>12, <3>1
  <2> QED BY <1>1, <1>2, <2>2, <2>3, <2>4, <2>5 DEF Listed
<1> QED BY <1>13

(* The verdict on a request, from what it passed so far.                     *)
HeadersOK(r, k) == \A i \in 1 .. k : HeaderVerdict(r, i) = OK
LineOK(r)       == r.line.len <= MaxLine /\ RequestLine(r.line) = OK

LEMMA Codes400 == \A x : Unless(400, x) = OK <=> x = TRUE
BY DEF Unless, OK

LEMMA Verdicts ==
  ASSUME NEW r \in Requests, NEW n, n = Len(r.headers)
  PROVE  /\ ~(r.line.len <= MaxLine) => Verdict(r) = 400
         /\ r.line.len <= MaxLine /\ RequestLine(r.line) # OK => Verdict(r) = RequestLine(r.line)
         /\ \A k \in 1 .. n :
              LineOK(r) /\ HeadersOK(r, k - 1) /\ HeaderVerdict(r, k) # OK
                => Verdict(r) = HeaderVerdict(r, k)
         /\ LineOK(r) /\ HeadersOK(r, n) /\ ~r.end => Verdict(r) = 400
         /\ LineOK(r) /\ HeadersOK(r, n) /\ r.end /\ Unvalidated(r.line) => Verdict(r) = OK
         /\ LineOK(r) /\ HeadersOK(r, n) /\ r.end /\ ~Unvalidated(r.line) =>
              Verdict(r) = IF AuthOf(r) # OK THEN AuthOf(r)
                           ELSE IF BodyHs(r) # OK THEN BodyHs(r) ELSE BodyOf(r)
<1>1. PICK v, m : m \in Nat /\ Listed(r, v, m)
  BY VerdictList
<1>2. n = m /\ n \in Nat
  BY <1>1 DEF Listed
<1>3. PICK l \in Nat : l = Len(v) /\ l = n + (IF Unvalidated(r.line) THEN 3 ELSE 6)
  <2>1. Len(v) = n + (IF Unvalidated(r.line) THEN 3 ELSE 6)
    BY <1>1, <1>2 DEF Listed
  <2>2. n + (IF Unvalidated(r.line) THEN 3 ELSE 6) \in Nat
    BY <1>2
  <2> QED BY <2>1, <2>2
<1>4. /\ Verdict(r) = FirstFailure(v) /\ v[1] = Head1(r) /\ v[2] = RequestLine(r.line)
      /\ (\A i \in 1 .. n : v[2 + i] = HeaderVerdict(r, i)) /\ v[n + 3] = Unless(400, r.end)
      /\ ~Unvalidated(r.line) =>
           v[n + 4] = AuthOf(r) /\ v[n + 5] = BodyHs(r) /\ v[n + 6] = BodyOf(r)
  BY <1>1, <1>2 DEF Listed
<1>5. /\ (\A i \in 1 .. l : v[i] = OK) => Verdict(r) = OK
      /\ \A k \in 1 .. l : v[k] # OK /\ (\A i \in 1 .. k - 1 : v[i] = OK) => Verdict(r) = v[k]
  BY <1>3, <1>4, FirstBad
<1>6. l >= n + 3 /\ (~Unvalidated(r.line) => l = n + 6) /\ (Unvalidated(r.line) => l = n + 3)
  BY <1>2, <1>3
<1>7. /\ Head1(r) = IF r.line.len <= MaxLine THEN OK ELSE 400
      /\ Unless(400, r.end) = IF r.end THEN OK ELSE 400
      /\ 400 # OK
  BY DEF Head1, Unless, OK
<1>8. ASSUME ~(r.line.len <= MaxLine) PROVE Verdict(r) = 400
  <2>1. 1 \in 1 .. l /\ 1 .. 1 - 1 = {}
    BY <1>2, <1>6
  <2> QED BY <1>4, <1>5, <1>7, <1>8, <2>1
<1>9. ASSUME r.line.len <= MaxLine, RequestLine(r.line) # OK PROVE Verdict(r) = RequestLine(r.line)
  <2>1. 2 \in 1 .. l /\ \A i \in 1 .. 2 - 1 : i = 1
    BY <1>2, <1>6
  <2> QED BY <1>4, <1>5, <1>7, <1>9, <2>1
<1>10. ASSUME LineOK(r) PROVE v[1] = OK /\ v[2] = OK
  BY <1>4, <1>7, <1>10 DEF LineOK
<1>11. ASSUME NEW k \in 0 .. n, LineOK(r), HeadersOK(r, k)
       PROVE  \A i \in 1 .. k + 2 : v[i] = OK
  <2> TAKE i \in 1 .. k + 2
  <2>1. i = 1 \/ i = 2 \/ (i - 2 \in 1 .. k /\ i - 2 \in 1 .. n /\ 2 + (i - 2) = i)
    BY <1>2
  <2>2. \A j \in 1 .. k : HeaderVerdict(r, j) = OK
    BY <1>11 DEF HeadersOK
  <2> QED BY <1>4, <1>10, <1>11, <2>1, <2>2
<1>12. ASSUME NEW k \in 1 .. n, LineOK(r), HeadersOK(r, k - 1), HeaderVerdict(r, k) # OK
       PROVE  Verdict(r) = HeaderVerdict(r, k)
  <2>1. k - 1 \in 0 .. n /\ (k - 1) + 2 = (2 + k) - 1 /\ 2 + k \in 1 .. l
    BY <1>2, <1>6
  <2>2. \A i \in 1 .. (2 + k) - 1 : v[i] = OK
    BY <1>11, <1>12, <2>1
  <2> QED BY <1>4, <1>5, <1>12, <2>1, <2>2
<1>13. ASSUME LineOK(r), HeadersOK(r, n) PROVE \A i \in 1 .. (n + 3) - 1 : v[i] = OK
  <2>1. n \in 0 .. n /\ (n + 3) - 1 = n + 2
    BY <1>2
  <2> QED BY <1>11, <1>13, <2>1
<1>14. ASSUME LineOK(r), HeadersOK(r, n), ~r.end PROVE Verdict(r) = 400
  <2>1. n + 3 \in 1 .. l
    BY <1>2, <1>6
  <2> QED BY <1>4, <1>5, <1>7, <1>13, <1>14, <2>1
<1>15. ASSUME LineOK(r), HeadersOK(r, n), r.end PROVE \A i \in 1 .. n + 3 : v[i] = OK
  <2> TAKE i \in 1 .. n + 3
  <2>1. i \in 1 .. (n + 3) - 1 \/ i = n + 3
    BY <1>2
  <2> QED BY <1>4, <1>7, <1>13, <1>15, <2>1
<1>16. ASSUME LineOK(r), HeadersOK(r, n), r.end, Unvalidated(r.line) PROVE Verdict(r) = OK
  BY <1>5, <1>6, <1>15, <1>16
<1>17. ASSUME LineOK(r), HeadersOK(r, n), r.end, ~Unvalidated(r.line)
       PROVE  Verdict(r) = IF AuthOf(r) # OK THEN AuthOf(r)
                           ELSE IF BodyHs(r) # OK THEN BodyHs(r) ELSE BodyOf(r)
  <2>1. /\ l = n + 6 /\ n + 4 \in 1 .. l /\ n + 5 \in 1 .. l /\ n + 6 \in 1 .. l
        /\ (n + 4) - 1 = n + 3
        /\ \A i \in 1 .. (n + 5) - 1 : i \in 1 .. n + 3 \/ i = n + 4
        /\ \A i \in 1 .. (n + 6) - 1 : i \in 1 .. n + 3 \/ i = n + 4 \/ i = n + 5
        /\ \A i \in 1 .. l : i \in 1 .. n + 3 \/ i = n + 4 \/ i = n + 5 \/ i = n + 6
    BY <1>2, <1>6, <1>17
  <2>2. v[n + 4] = AuthOf(r) /\ v[n + 5] = BodyHs(r) /\ v[n + 6] = BodyOf(r)
    BY <1>4, <1>17
  <2>3. \A i \in 1 .. n + 3 : v[i] = OK
    BY <1>15, <1>17
  <2>4. CASE AuthOf(r) # OK
    BY <1>5, <2>1, <2>2, <2>3, <2>4
  <2>5. CASE AuthOf(r) = OK /\ BodyHs(r) # OK
    <3>1. \A i \in 1 .. (n + 5) - 1 : v[i] = OK
      BY <2>1, <2>2, <2>3, <2>5
    <3> QED BY <1>5, <2>1, <2>2, <2>5, <3>1
  <2>6. CASE AuthOf(r) = OK /\ BodyHs(r) = OK /\ BodyOf(r) # OK
    <3>1. \A i \in 1 .. (n + 6) - 1 : v[i] = OK
      BY <2>1, <2>2, <2>3, <2>6
    <3> QED BY <1>5, <2>1, <2>2, <2>6, <3>1
  <2>7. CASE AuthOf(r) = OK /\ BodyHs(r) = OK /\ BodyOf(r) = OK
    <3>1. \A i \in 1 .. l : v[i] = OK
      BY <2>1, <2>2, <2>3, <2>7
    <3> QED BY <1>5, <2>7, <3>1
  <2> QED BY <2>4, <2>5, <2>6, <2>7
<1> QED BY <1>8, <1>9, <1>12, <1>14, <1>16, <1>17

(***************************************************************************)
(* The last of each header.                                                 *)
(***************************************************************************)
LEMMA NoneYet ==
  ASSUME NEW r PROVE LastOf(r, 0) = [n \in Names |-> None]
BY DEF LastOf

LEMMA LastGrows ==
  ASSUME NEW r \in Requests, NEW k \in 1 .. Len(r.headers)
  PROVE  LastOf(r, k) = [LastOf(r, k - 1) EXCEPT ![r.headers[k].name] = r.headers[k].value]
<1> DEFINE At(j, n) == {i \in 1 .. j : r.headers[i].name = n}
           Val(j, n) == IF At(j, n) = {} THEN None ELSE r.headers[Max(At(j, n))].value
<1>0. k \in Nat \ {0} /\ r.headers[k].name \in Names
  BY IsSent
<1>1. /\ LastOf(r, k) = [n \in Names |-> Val(k, n)]
      /\ LastOf(r, k - 1) = [n \in Names |-> Val(k - 1, n)]
  BY DEF LastOf
<1>2. Val(k, r.headers[k].name) = r.headers[k].value
  <2> DEFINE S == At(k, r.headers[k].name)
  <2>1. k \in S /\ S \subseteq Int /\ \A i \in S : i <= k
    BY <1>0
  <2> HIDE DEF S
  <2>2. Max(S) = k /\ S # {}
    BY <2>1, MaxIs
  <2> QED BY <2>2 DEF S
<1>3. ASSUME NEW n \in Names, n # r.headers[k].name PROVE Val(k, n) = Val(k - 1, n)
  <2>1. At(k, n) = At(k - 1, n)
    <3>1. \A i \in Int : i \in 1 .. k <=> i \in 1 .. k - 1 \/ i = k
      BY <1>0
    <3>2. 1 .. k \subseteq Int /\ 1 .. k - 1 \subseteq Int
      OBVIOUS
    <3> QED BY <1>3, <3>1, <3>2
  <2> HIDE DEF At
  <2> QED BY <2>1
<1> HIDE DEF Val
<1> QED BY <1>0, <1>1, <1>2, <1>3

(* Where there is a header, it is one of those that were sent.              *)
LEMMA LastIsSent ==
  ASSUME NEW r \in Requests, NEW n \in Names, LastOf(r, Len(r.headers))[n] # None
  PROVE  \E i \in 1 .. Len(r.headers) :
           r.headers[i].name = n /\ LastOf(r, Len(r.headers))[n] = r.headers[i].value
<1>1. PICK k \in Nat : k = Len(r.headers)
  BY IsSent
<1> DEFINE S == {j \in Nat : j <= k /\ LastOf(r, j)[n] # None =>
                   \E i \in 1 .. k : r.headers[i].name = n /\ LastOf(r, j)[n] = r.headers[i].value}
<1>2. 0 \in S
  BY NoneYet
<1>3. ASSUME NEW j \in Nat, j \in S PROVE j + 1 \in S
  <2> SUFFICES ASSUME j + 1 <= k, LastOf(r, j + 1)[n] # None
               PROVE  \E i \in 1 .. k : r.headers[i].name = n /\ LastOf(r, j + 1)[n] = r.headers[i].value
    OBVIOUS
  <2>1. j + 1 \in 1 .. Len(r.headers) /\ (j + 1) - 1 = j /\ j <= k
    BY <1>1
  <2>2. LastOf(r, j + 1) = [LastOf(r, j) EXCEPT ![r.headers[j + 1].name] = r.headers[j + 1].value]
    BY <2>1, LastGrows
  <2>3. DOMAIN LastOf(r, j) = Names
    BY DEF LastOf
  <2>4. CASE r.headers[j + 1].name = n
    BY <1>1, <2>1, <2>2, <2>3, <2>4
  <2>5. CASE r.headers[j + 1].name # n
    <3>1. LastOf(r, j + 1)[n] = LastOf(r, j)[n]
      BY <2>2, <2>3, <2>5
    <3> QED BY <1>3, <2>1, <3>1
  <2> QED BY <2>4, <2>5
<1>4. k \in S
  <2> HIDE DEF S
  <2> QED BY <1>2, <1>3, SetInduction
<1> QED BY <1>1, <1>4


(***************************************************************************)
(* Where the lines begin                                                   *)
(***************************************************************************)
Start(r) == CHOOSE s : Layout(r, s)

LEMMA StartIs ==
  ASSUME NEW r \in Requests
  PROVE  /\ Stream[r] \in Seq(Chars) /\ Len(Stream[r]) \in Nat
         /\ Layout(r, Start(r))
         /\ \A k \in 0 .. Count(r) : Start(r)[k] \in Nat
<1>1. Layout(r, Start(r))
  BY Laid DEF Start
<1>2. Stream[r] \in Seq(Chars) /\ Len(Stream[r]) \in Nat
  BY Laid, LenProperties
<1> QED BY <1>1, <1>2 DEF Layout

LEMMA InsideLine ==
  ASSUME NEW r \in Requests, NEW k \in 0 .. Count(r) - 1,
         NEW g \in Nat, NEW e \in Nat, g <= LineLen(r, k) + 1,
         Start(r)[k] + g <= e, e <= Len(Stream[r]),
         NEW P, P = SubSeq(Stream[r], Start(r)[k] + g + 1, e)
  PROVE  \E s, l \in Nat :
           /\ s = Start(r)[k] /\ l = LineLen(r, k)
           /\ Start(r)[k + 1] = s + l + 2 /\ s + l + 2 <= Len(Stream[r])
           /\ Stream[r][s + l + 1] = "cr"
           /\ Finds(P, s, l, g, e)
<1>1. PICK c \in Nat \ {0} : c = Count(r)
  BY Lengths
<1>2. k \in Nat /\ k \in 0 .. c
  BY <1>1
<1>3. PICK s \in Nat, l \in Nat : s = Start(r)[k] /\ l = LineLen(r, k)
  BY <1>1, <1>2, StartIs, Lengths
<1>4. Start(r)[k + 1] = s + l + 2 /\ LineAt(Stream[r], s, l)
  BY <1>3, StartIs DEF Layout
<1>5. Stream[r] \in Seq(Chars)
  BY StartIs
<1>6. g \in 0 .. l + 1 /\ s + g <= e /\ P = SubSeq(Stream[r], s + g + 1, e)
  BY <1>3
<1>7. Finds(P, s, l, g, e)
  BY <1>4, <1>5, <1>6, Scan
<1>8. s + l + 2 <= Len(Stream[r]) /\ Stream[r][s + l + 1] = "cr"
  BY <1>4 DEF LineAt
<1> QED BY <1>3, <1>4, <1>7, <1>8

LEMMA BehindLines ==
  ASSUME NEW r \in Requests, NEW g \in Nat, NEW e \in Nat,
         Start(r)[Count(r)] + g <= e, e <= Len(Stream[r]),
         NEW P, P = SubSeq(Stream[r], Start(r)[Count(r)] + g + 1, e)
  PROVE  Len(P) = e - (Start(r)[Count(r)] + g) /\ LineEnd(P) = 0
<1>1. PICK c \in Nat \ {0} : c = Count(r)
  BY Lengths
<1>2. PICK s \in Nat, m \in Nat, w \in Nat : s = Start(r)[c] /\ m = r.body /\ w = Len(Stream[r])
  BY <1>1, StartIs, IsSent
<1>3. s + m = w /\ \A j \in 1 .. m : Stream[r][s + j] = "b"
  BY <1>1, <1>2, StartIs DEF Layout
<1>4. \A i \in s + g + 1 .. w : Stream[r][i] = "b"
  <2> TAKE i \in s + g + 1 .. w
  <2>1. i - s \in 1 .. m /\ s + (i - s) = i
    BY <1>3
  <2> QED BY <1>3, <2>1
<1>5. PICK a \in Nat : a = s + g
  OBVIOUS
<1>6. Stream[r] \in Seq(Chars)
  BY StartIs
<1>7. a <= e /\ e <= Len(Stream[r]) /\ AllBody(Stream[r], a)
      /\ P = SubSeq(Stream[r], a + 1, e)
  BY <1>1, <1>2, <1>4, <1>5 DEF AllBody
<1>8. Len(P) = e - a /\ LineEnd(P) = 0
  BY ONLY <1>6, <1>7, a \in Nat, e \in Nat, ScanBody
<1> QED BY <1>1, <1>2, <1>5, <1>8

(***************************************************************************)
(* The inductive invariant                                                 *)
(***************************************************************************)
Waiting == {"none", "backlog"}
Map(r)  == LastOf(r, Len(r.headers))
BodyLen(r) == IF HasBody(Map(r)) THEN Map(r)["content-length"] ELSE 0
Passed(r, k) == k > 0 => LineOK(r) /\ HeadersOK(r, k - 1)
PassedHead(r) ==
  /\ LineOK(r) /\ HeadersOK(r, Len(r.headers)) /\ r.end /\ ~Unvalidated(r.line)
  /\ AuthOf(r) = OK /\ BodyHs(r) = OK

Typed ==
  /\ req \in Requests /\ {read, used, got, line} \subseteq Nat
  /\ used <= read /\ read <= Len(Stream[req])
  /\ split \in BOOLEAN /\ fault \in BOOLEAN

Untouched ==
  conn \in Waiting =>
    read = 0 /\ used = 0 /\ got = 0 /\ line = 0 /\ headers = LastOf(req, 0)

\* A read that ended behind a "cr" is remembered.
CrSeen == read > 0 /\ Stream[req][read] = "cr" => split

\* Of line number "line", got characters were read, of which its "cr" may be one.
InLine ==
  conn \in {"line", "headers"} =>
    /\ line <= Len(req.headers) + 1 /\ (conn = "line" <=> line = 0)
    /\ used = Start(req)[line] + got
    /\ line < Count(req) => /\ got <= LineLen(req, line) + 1
                            /\ got = LineLen(req, line) + 1 => split
    /\ headers = LastOf(req, IF line = 0 THEN 0 ELSE line - 1)
    /\ Passed(req, line)

InBody ==
  conn = "body" =>
    /\ PassedHead(req) /\ HasBody(headers) /\ headers = Map(req)
    /\ used = Start(req)[Count(req)] + got /\ got < headers["content-length"]

ToRoute ==
  conn = "route" =>
    /\ Verdict(req) = OK /\ req.end
    /\ ~Unvalidated(req.line) =>
         AuthOf(req) = OK /\ used = Start(req)[Count(req)] + BodyLen(req)

\* Nothing is answered, done or given up before the request is routed.
Clean ==
  conn \in Parsing \cup Waiting \cup {"route"} => resp = NoResp /\ done = "nothing" /\ ~fault

IInv == /\ Typed /\ Untouched /\ CrSeen /\ InLine /\ InBody /\ ToRoute /\ Clean
        /\ SameHoweverCut /\ NothingUnlessWhole

(***************************************************************************)
(* What is in the buffer                                                   *)
(***************************************************************************)
AtLine(s, l, g, e, k) ==
  /\ s = Start(req)[line] /\ l = LineLen(req, line) /\ g = got /\ e = read /\ k = line
  /\ used = s + g /\ s + g <= e /\ e <= Len(Stream[req])
  /\ g <= l + 1 /\ (g = l + 1 => split) /\ (e = s + l + 1 => split)
  /\ Start(req)[line + 1] = s + l + 2 /\ s + l + 2 <= Len(Stream[req])
  /\ Len(Buf) = e - (s + g)
  /\ NlIdx = IF s + l + 2 <= e THEN l + 2 - g ELSE 0
  /\ s + l + 2 <= e => End = IF g <= l THEN l - g ELSE 0

LEMMA LineRead ==
  ASSUME Typed, CrSeen, InLine, conn \in {"line", "headers"}, line < Count(req)
  PROVE  \E s, l, g, e, k \in Nat : AtLine(s, l, g, e, k)
<1>1. req \in Requests /\ read \in Nat /\ got \in Nat /\ line \in Nat /\ used <= read
      /\ read <= Len(Stream[req])
  BY DEF Typed
<1>2. PICK r \in Requests, e \in Nat, g \in Nat, k \in Nat : r = req /\ e = read /\ g = got /\ k = line
  BY <1>1
<1>3. k \in 0 .. Count(r) - 1
  BY <1>2, Lengths
<1>4. used = Start(r)[k] + g /\ g <= LineLen(r, k) + 1 /\ (g = LineLen(r, k) + 1 => split)
  BY <1>2 DEF InLine
<1>5. Start(r)[k] + g <= e /\ e <= Len(Stream[r])
  BY <1>1, <1>2, <1>4
<1>6. Buf = SubSeq(Stream[r], Start(r)[k] + g + 1, e)
  BY <1>2, <1>4 DEF Buf
<1>7. PICK s \in Nat, l \in Nat :
           /\ s = Start(r)[k] /\ l = LineLen(r, k)
           /\ Start(r)[k + 1] = s + l + 2 /\ s + l + 2 <= Len(Stream[r])
           /\ Stream[r][s + l + 1] = "cr"
           /\ Finds(Buf, s, l, g, e)
  BY ONLY <1>3, <1>4, <1>5, <1>6, r \in Requests, e \in Nat, g \in Nat, InsideLine
<1>8. NlIdx = LineEnd(Buf) /\ End = TextEnd(Buf)
  BY DEF NlIdx, End, LineEnd, TextEnd
<1>9. e = s + l + 1 => split
  <2>1. e = s + l + 1 => read > 0 /\ Stream[req][read] = "cr"
    BY <1>2, <1>7
  <2> QED BY <2>1 DEF CrSeen
<1> QED BY <1>2, <1>4, <1>5, <1>7, <1>8, <1>9 DEF Finds, AtLine

LEMMA BodyRead ==
  ASSUME Typed, used = Start(req)[Count(req)] + got
  PROVE  Len(Buf) = read - used /\ NlIdx = 0
<1>1. PICK r \in Requests, e \in Nat, g \in Nat : r = req /\ e = read /\ g = got
  BY DEF Typed
<1>2. Start(r)[Count(r)] + g <= e /\ e <= Len(Stream[r])
      /\ Buf = SubSeq(Stream[r], Start(r)[Count(r)] + g + 1, e)
  BY <1>1 DEF Typed, Buf
<1>3. Len(Buf) = e - (Start(r)[Count(r)] + g) /\ LineEnd(Buf) = 0
  BY <1>2, BehindLines
<1>4. NlIdx = LineEnd(Buf)
  BY DEF NlIdx, LineEnd
<1> QED BY <1>1, <1>3, <1>4

(***************************************************************************)
(* Facts about the verdicts that the steps need                             *)
(***************************************************************************)
LEMMA MinOfTwo ==
  ASSUME NEW a \in Int, NEW b \in Int
  PROVE  Min({a, b}) = IF a <= b THEN a ELSE b
<1>1. CASE a <= b
  <2>1. {a, b} \subseteq Int /\ a \in {a, b} /\ \A i \in {a, b} : a <= i
    BY <1>1
  <2> QED BY <1>1, <2>1, MinIs
<1>2. CASE ~(a <= b)
  <2>1. {a, b} \subseteq Int /\ b \in {a, b} /\ \A i \in {a, b} : b <= i
    BY <1>2
  <2> QED BY <1>2, <2>1, MinIs
<1> QED BY <1>1, <1>2

LEMMA Refused ==
  ASSUME NEW r, NEW c, Verdict(r) = c, c # OK
  PROVE  c \in Expected(r)
BY DEF Expected

LEMMA HeaderIs ==
  ASSUME NEW r, NEW k, r.headers[k].len <= MaxLine
  PROVE  HeaderVerdict(r, k) = HeaderLine(r.headers[k], LastOf(r, k - 1))
<1>1. Unless(400, r.headers[k].len <= MaxLine) = OK
  BY DEF Unless
<1> QED BY <1>1, OfTwo DEF HeaderVerdict

LEMMA HeaderTooLong ==
  ASSUME NEW r, NEW k, ~(r.headers[k].len <= MaxLine)
  PROVE  HeaderVerdict(r, k) = 400 /\ 400 # OK
<1>1. Unless(400, r.headers[k].len <= MaxLine) = 400 /\ 400 # OK
  BY DEF Unless, OK
<1> QED BY <1>1, OfTwo DEF HeaderVerdict

LEMMA TooLongIs ==
  ASSUME NEW r \in Requests, NEW k \in 0 .. Len(r.headers) + 1, k < Count(r), Passed(r, k),
         LineLen(r, k) > MaxLine
  PROVE  Verdict(r) = 400
<1>1. PICK n \in Nat : n = Len(r.headers)
  BY IsSent
<1>2. MaxLine \in Nat \ {0}
  BY HttpAssumption
<1>3. CASE k = 0
  <2>1. ~(r.line.len <= MaxLine)
    BY <1>2, <1>3, IsSent DEF LineLen
  <2> QED BY <1>1, <2>1, Verdicts
<1>4. CASE k \in 1 .. n
  <2>1. ~(r.headers[k].len <= MaxLine)
    <3>1. LineLen(r, k) = r.headers[k].len
      BY <1>1, <1>4 DEF LineLen
    <3>2. r.headers[k].len \in Nat
      BY <1>1, <1>4, IsSent
    <3> QED BY <1>2, <3>1, <3>2
  <2>2. HeaderVerdict(r, k) = 400 /\ 400 # OK
    BY <2>1, HeaderTooLong
  <2>3. LineOK(r) /\ HeadersOK(r, k - 1)
    BY <1>4 DEF Passed
  <2> QED BY <1>1, <1>4, <2>2, <2>3, Verdicts
<1>5. CASE k = n + 1
  <2>1. LineLen(r, k) = 0
    BY <1>1, <1>5 DEF LineLen
  <2> QED BY <1>2, <2>1
<1> QED BY <1>1, <1>3, <1>4, <1>5

LEMMA NoEnd ==
  ASSUME NEW r \in Requests, NEW k \in 0 .. Len(r.headers) + 1, ~(k < Count(r)), Passed(r, k)
  PROVE  k = Count(r) /\ Verdict(r) = 400
<1>1. PICK n \in Nat : n = Len(r.headers)
  BY IsSent
<1>2. k = n + 1 /\ k = Count(r) /\ ~r.end /\ k > 0 /\ k - 1 = n
  <2>1. PICK c \in Nat : c = Count(r) /\ (c = n + 1 \/ c = n + 2) /\ (r.end <=> c = n + 2)
    BY <1>1, Lengths
  <2>2. k \in 0 .. n + 1 /\ ~(k < c)
    BY <1>1, <2>1
  <2>3. k = n + 1 /\ c = n + 1
    BY <2>1, <2>2
  <2> QED BY <2>1, <2>3
<1> QED BY <1>1, <1>2, Verdicts DEF Passed

LEMMA Announced ==
  ASSUME NEW r \in Requests, HasBody(Map(r)), BodyHs(r) = OK
  PROVE  Map(r)["content-length"] \in Nat \ {0}
<1> DEFINE v == Map(r)["content-length"]
<1>1. v # None /\ v # 0
  BY DEF HasBody
<1>2. "content-length" \in Names
  BY DEF Names
<1>3. v \in Nat \cup {-1}
  <2>1. PICK i \in 1 .. Len(r.headers) : r.headers[i].name = "content-length" /\ v = r.headers[i].value
    BY <1>1, <1>2, LastIsSent DEF Map
  <2> QED BY <2>1, IsSent
<1>4. v # -1
  <2>1. Unless(400, v # -1) = OK
    BY OfFour DEF BodyHs, BodyHeaders, Map
  <2> QED BY <2>1, Codes400
<1> QED BY <1>1, <1>3, <1>4

LEMMA Authentic ==
  ASSUME NEW r, AuthOf(r) = OK
  PROVE  Map(r)["x-fleet-id"] = "own" /\ Map(r)["x-device-id"] = "own"
<1>1. /\ Unless(401, Map(r)["x-fleet-id"] = "own") = OK
      /\ Unless(401, Map(r)["x-device-id"] = "own") = OK
  BY OfFour DEF AuthOf, ValidateHeaders, Map
<1> QED BY <1>1 DEF Unless, OK

LEMMA HeadPassed ==
  ASSUME NEW r \in Requests, PassedHead(r)
  PROVE  /\ Verdict(r) = BodyOf(r)
         /\ BodyOf(r) = IF HasBody(Map(r)) THEN ParseBody(r, Map(r)["content-length"]) ELSE OK
<1>1. Verdict(r) = BodyOf(r)
  BY Verdicts DEF PassedHead
<1> QED BY <1>1 DEF BodyOf, Map

LEMMA ForOwners ==
  ASSUME NEW l, Route(l) \in {"command", "events"}
  PROVE  ~Unvalidated(l)
<1> SUFFICES ASSUME Unvalidated(l) PROVE FALSE
  OBVIOUS
<1>1. CASE l.method = "GET" /\ l.path = "/"
  <2>1. ~Commands(l)
    BY <1>1 DEF Commands
  <2>2. Route(l) = "status"
    BY <1>1, <2>1 DEF Route
  <2> QED BY <2>2
<1>2. CASE l.method = "DELETE" /\ l.path = "/stop-agent"
  <2>1. ~Commands(l)
    BY <1>2 DEF Commands
  <2>2. Route(l) = "stop"
    BY <1>2, <2>1 DEF Route
  <2> QED BY <2>2
<1> QED BY <1>1, <1>2 DEF Unvalidated

(***************************************************************************)
(* The steps                                                               *)
(***************************************************************************)
LEMMA InitIInv == Init => IInv
<1> SUFFICES ASSUME Init PROVE IInv
  OBVIOUS
<1>1. /\ conn = "none" /\ req \in Requests /\ read = 0 /\ used = 0 /\ got = 0 /\ line = 0
      /\ headers = [n \in Names |-> None] /\ resp = NoResp /\ done = "nothing"
      /\ split = FALSE /\ fault = FALSE
  BY DEF Init
<1>2. Typed
  <2>1. PICK w \in Nat : w = Len(Stream[req])
    BY <1>1, StartIs
  <2>2. 0 <= w /\ {read, used, got, line} \subseteq Nat
    BY <1>1
  <2>3. used <= read /\ read <= Len(Stream[req])
    BY <1>1, <2>1, <2>2
  <2>4. split \in BOOLEAN /\ fault \in BOOLEAN
    BY <1>1
  <2> QED BY <1>1, <2>2, <2>3, <2>4 DEF Typed
<1>3. Untouched
  BY <1>1, NoneYet DEF Untouched
<1>4. CrSeen /\ InLine /\ InBody /\ ToRoute /\ Clean
  BY <1>1 DEF CrSeen, InLine, InBody, ToRoute, Clean
<1>5. SameHoweverCut /\ NothingUnlessWhole
  BY <1>1 DEF SameHoweverCut, NothingUnlessWhole
<1> QED BY <1>2, <1>3, <1>4, <1>5 DEF IInv

(* The steps of the accept loop and of the client leave a request alone.     *)
Alone == UNCHANGED <<req, read, used, got, line, headers, split, fault, resp, done>>

LEMMA AloneKeeps ==
  ASSUME Alone
  PROVE  /\ Typed => Typed'
         /\ CrSeen => CrSeen'
         /\ SameHoweverCut => SameHoweverCut'
         /\ NothingUnlessWhole => NothingUnlessWhole'
<1>1. Typed => Typed'
  BY DEF Alone, Typed
<1>2. CrSeen => CrSeen'
  BY DEF Alone, CrSeen
<1>3. SameHoweverCut => SameHoweverCut'
  BY DEF Alone, SameHoweverCut
<1>4. NothingUnlessWhole => NothingUnlessWhole'
  BY DEF Alone, NothingUnlessWhole
<1> QED BY <1>1, <1>2, <1>3, <1>4

LEMMA SameConn ==
  ASSUME IInv, Alone, conn' = conn
  PROVE  IInv'
<1>1. Typed' /\ CrSeen' /\ SameHoweverCut' /\ NothingUnlessWhole'
  BY AloneKeeps DEF IInv
<1>2. Untouched' /\ InLine'
  BY DEF IInv, Alone, Untouched, InLine
<1>3. InBody' /\ ToRoute' /\ Clean'
  BY DEF IInv, Alone, InBody, ToRoute, Clean
<1> QED BY <1>1, <1>2, <1>3 DEF IInv

(* A connection that ended has no more to show.                             *)
LEMMA ConnEnds ==
  ASSUME IInv, Alone, conn' \in Ended \cup {"respond"}
  PROVE  IInv'
<1>1. Typed' /\ CrSeen' /\ SameHoweverCut' /\ NothingUnlessWhole'
  BY AloneKeeps DEF IInv
<1>2. conn' \notin Parsing \cup Waiting \cup {"route"}
  BY DEF Ended, Parsing, Waiting
<1>3. Untouched' /\ InLine' /\ InBody' /\ ToRoute' /\ Clean'
  BY <1>2 DEF Untouched, InLine, InBody, ToRoute, Clean, Parsing
<1> QED BY <1>1, <1>3 DEF IInv

LEMMA ConnBegins ==
  ASSUME IInv, Alone, conn \in Waiting, conn' \in {"backlog", "line"}
  PROVE  IInv'
<1>1. Typed' /\ CrSeen' /\ SameHoweverCut' /\ NothingUnlessWhole'
  BY AloneKeeps DEF IInv
<1>2. read = 0 /\ used = 0 /\ got = 0 /\ line = 0 /\ headers = LastOf(req, 0)
  BY DEF IInv, Untouched
<1>3. Untouched'
  BY <1>2 DEF Alone, Untouched
<1>4. InLine'
  <2>1. PICK r \in Requests : r = req
    BY DEF IInv, Typed
  <2>2. PICK l \in Nat : l = LineLen(r, 0)
    BY Lengths
  <2>3. Start(r)[0] = 0 /\ Len(r.headers) \in Nat
    BY StartIs, IsSent DEF Layout
  <2>4. req' = r /\ line' = 0 /\ got' = 0 /\ used' = 0 /\ headers' = LastOf(r, 0)
    BY <1>2, <2>1 DEF Alone
  <2>5. conn' \in {"line", "headers"} => conn' = "line"
    OBVIOUS
  <2>6. 0 <= l + 1 /\ 0 # l + 1 /\ 0 <= Len(r.headers) + 1
    BY <2>3
  <2> QED BY <2>2, <2>3, <2>4, <2>5, <2>6 DEF InLine, Passed
<1>5. InBody' /\ ToRoute'
  BY DEF InBody, ToRoute
<1>6. Clean'
  BY DEF IInv, Clean, Alone, Waiting
<1> QED BY <1>1, <1>3, <1>4, <1>5, <1>6 DEF IInv

(* While a request is read, there is nothing to say of an answer.            *)
LEMMA StillReading ==
  ASSUME IInv, conn \in Parsing, UNCHANGED <<resp, done, fault>>
  PROVE  Clean' /\ SameHoweverCut' /\ NothingUnlessWhole'
<1>1. resp' = NoResp /\ done' = "nothing" /\ ~fault'
  BY DEF IInv, Clean
<1> QED BY <1>1 DEF Clean, SameHoweverCut, NothingUnlessWhole

LEMMA Answer ==
  ASSUME IInv, conn \in Parsing, NEW code, Refuse(code), done' = done, Typed', CrSeen',
         fault' \/ code \in Expected(req') \cup (IF split' THEN {400, 505} ELSE {})
  PROVE  IInv'
<1>1. done' = "nothing" /\ conn' = "respond" /\ resp' = [code |-> code, stream |-> FALSE]
  BY DEF IInv, Clean, Refuse
<1>2. SameHoweverCut' /\ NothingUnlessWhole'
  BY <1>1 DEF SameHoweverCut, NothingUnlessWhole
<1>3. Untouched' /\ InLine' /\ InBody' /\ ToRoute' /\ Clean'
  BY <1>1 DEF Untouched, InLine, InBody, ToRoute, Clean, Parsing, Waiting
<1> QED BY <1>2, <1>3 DEF IInv

LEMMA FillBufStep ==
  ASSUME IInv, FillBuf
  PROVE  IInv'
<1>1. req \in Requests /\ read \in Nat /\ used \in Nat /\ Len(Stream[req]) \in Nat
      /\ read = used /\ read <= Len(Stream[req])
  BY StartIs DEF IInv, Typed, FillBuf
<1>2. PICK n \in 1 .. Min({BufSize, Len(Stream[req]) - read}) :
        read' = read + n /\ split' = (split \/ Stream[req][read + n] = "cr")
  BY DEF FillBuf
<1>3. UNCHANGED <<conn, req, used, got, line, headers, resp, done, fault>> /\ conn \in Parsing
  BY DEF FillBuf
<1>4. n \in Nat \ {0} /\ read + n <= Len(Stream[req])
  <2>1. PICK w \in Nat, e \in Nat : w = Len(Stream[req]) /\ e = read
    BY <1>1
  <2>2. BufSize \in Int /\ w - e \in Int
    BY HttpAssumption
  <2>3. Min({BufSize, w - e}) \in Int /\ Min({BufSize, w - e}) <= w - e
    BY <2>2, MinOfTwo
  <2>4. n \in 1 .. Min({BufSize, w - e})
    BY <2>1
  <2> QED BY <2>1, <2>3, <2>4
<1>5. Typed'
  BY <1>1, <1>2, <1>3, <1>4 DEF IInv, Typed
<1>6. CrSeen'
  BY <1>2, <1>3 DEF CrSeen
<1>7. split => split'
  BY <1>2
<1>8. InLine'
  BY <1>3, <1>7 DEF IInv, InLine
<1>9. InBody' /\ ToRoute' /\ Untouched'
  BY <1>3 DEF IInv, InBody, ToRoute, Untouched, Parsing, Waiting
<1> QED BY <1>3, <1>5, <1>6, <1>8, <1>9, StillReading DEF IInv

LEMMA ReadFailsStep ==
  ASSUME IInv, ReadFails
  PROVE  IInv'
<1>1. /\ conn \in Parsing /\ read = used /\ Refuse(400)
      /\ fault' = (fault \/ read < Len(Stream[req]))
      /\ UNCHANGED <<req, read, used, got, line, headers, done, split>>
  BY DEF ReadFails
<1>2. Typed'
  BY <1>1 DEF IInv, Typed
<1>3. CrSeen'
  BY <1>1 DEF IInv, CrSeen
<1>4. fault' \/ 400 \in Expected(req) \cup (IF split THEN {400, 505} ELSE {})
  <2> SUFFICES ASSUME ~fault' PROVE 400 \in Expected(req)
    OBVIOUS
  <2>1. PICK r \in Requests, e \in Nat, w \in Nat, g \in Nat, k \in Nat :
          r = req /\ e = read /\ w = Len(Stream[req]) /\ g = got /\ k = line
    BY StartIs DEF IInv, Typed
  <2>2. e = w /\ used = e
    <3>1. ~(e < w) /\ e <= w
      BY <1>1, <2>1 DEF IInv, Typed
    <3> QED BY <1>1, <2>1, <3>1
  <2>3. ASSUME conn \in {"line", "headers"} PROVE Verdict(r) = 400
    <3>1. ~(k < Count(r))
      <4> SUFFICES ASSUME k < Count(r) PROVE FALSE
        OBVIOUS
      <4>1. PICK s \in Nat, l \in Nat, h \in Nat, f \in Nat, j \in Nat : AtLine(s, l, h, f, j)
        <5>1. Typed /\ CrSeen /\ InLine /\ line < Count(req)
          BY <2>1 DEF IInv
        <5> QED BY <2>3, <5>1, LineRead
      <4>2. e = s + h /\ s + l + 2 <= e /\ h <= l + 1
        BY <2>1, <2>2, <4>1 DEF AtLine
      <4> QED BY <4>1, <4>2
    <3>2. k \in 0 .. Len(r.headers) + 1 /\ Passed(r, k)
      <4>1. k <= Len(r.headers) + 1 /\ Passed(r, k) /\ Len(r.headers) \in Nat
        BY <2>1, <2>3, IsSent DEF IInv, InLine
      <4> QED BY <4>1
    <3> QED BY <3>1, <3>2, NoEnd
  <2>4. ASSUME conn = "body" PROVE Verdict(r) = 400
    <3>1. /\ PassedHead(r) /\ HasBody(Map(r)) /\ used = Start(r)[Count(r)] + g
          /\ g < Map(r)["content-length"]
      BY <2>1, <2>4 DEF IInv, InBody
    <3>2. PICK s \in Nat, m \in Nat, v \in Nat :
            s = Start(r)[Count(r)] /\ m = r.body /\ v = Map(r)["content-length"]
      <4>1. Start(r)[Count(r)] \in Nat
        BY StartIs, Lengths
      <4>2. Map(r)["content-length"] \in Nat
        <5>1. BodyHs(r) = OK
          BY <3>1 DEF PassedHead
        <5> QED BY <3>1, <5>1, Announced
      <4>3. r.body \in Nat
        BY IsSent
      <4> QED BY <4>1, <4>2, <4>3
    <3>3. s + m = w
      BY <2>1, <3>2, StartIs DEF Layout
    <3>4. v # m
      BY <2>2, <3>1, <3>2, <3>3
    <3>5. ParseBody(r, v) = 400
      BY <3>2, <3>4 DEF ParseBody, Unless
    <3> QED BY <3>1, <3>2, <3>5, HeadPassed
  <2>5. Verdict(r) = 400 /\ 400 # OK
    BY <1>1, <2>3, <2>4 DEF Parsing, OK
  <2> QED BY <2>1, <2>5, Refused
<1> QED BY <1>1, <1>2, <1>3, <1>4, Answer

LEMMA LineTooLongStep ==
  ASSUME IInv, LineTooLong
  PROVE  IInv'
<1>1. /\ conn \in {"line", "headers"} /\ TooLong /\ Refuse(400)
      /\ UNCHANGED <<req, read, used, got, line, headers, split, fault, done>>
  BY DEF LineTooLong, Reading, input
<1>2. Typed'
  BY <1>1 DEF IInv, Typed
<1>3. CrSeen'
  BY <1>1 DEF IInv, CrSeen
<1>4. split \/ Verdict(req) = 400
  <2> SUFFICES ASSUME ~split PROVE Verdict(req) = 400
    OBVIOUS
  <2>1. PICK r \in Requests, k \in Nat : r = req /\ k = line
    BY DEF IInv, Typed
  <2>2. k \in 0 .. Len(r.headers) + 1 /\ Passed(r, k)
    <3>1. k <= Len(r.headers) + 1 /\ Passed(r, k) /\ Len(r.headers) \in Nat
      BY <1>1, <2>1, IsSent DEF IInv, InLine
    <3> QED BY <3>1
  <2>3. CASE k < Count(r)
    <3>0. PICK s \in Nat, l \in Nat, g \in Nat, e \in Nat, j \in Nat : AtLine(s, l, g, e, j)
      <4>1. Typed /\ CrSeen /\ InLine /\ line < Count(req)
        BY <2>1, <2>3 DEF IInv
      <4> QED BY <1>1, <4>1, LineRead
    <3>1. /\ l = LineLen(r, k) /\ g = got
          /\ s + g <= e /\ g <= l + 1 /\ (g = l + 1 => split) /\ (e = s + l + 1 => split)
          /\ Len(Buf) = e - (s + g)
          /\ NlIdx = IF s + l + 2 <= e THEN l + 2 - g ELSE 0
          /\ s + l + 2 <= e => End = IF g <= l THEN l - g ELSE 0
      BY <2>1, <3>0 DEF AtLine
    <3>2. MaxLine \in Nat
      BY HttpAssumption
    <3>3. l > MaxLine
      <4>1. CASE s + l + 2 <= e
        <5>1. NlIdx # 0 /\ End = l - g /\ g <= l
          BY <3>1, <4>1
        <5>2. got + End > MaxLine
          BY <1>1, <5>1 DEF TooLong
        <5> QED BY <3>1, <3>2, <5>1, <5>2
      <4>2. CASE ~(s + l + 2 <= e)
        <5>1. NlIdx = 0
          BY <3>1, <4>2
        <5>2. got + Len(Buf) > MaxLine
          BY <1>1, <5>1 DEF TooLong
        <5>3. g + (e - (s + g)) > MaxLine /\ e # s + l + 1
          BY <3>1, <5>2
        <5> QED BY <3>1, <3>2, <4>2, <5>3
      <4> QED BY <4>1, <4>2
    <3> QED BY <2>1, <2>2, <2>3, <3>1, <3>3, TooLongIs
  <2>4. CASE ~(k < Count(r))
    BY <2>1, <2>2, <2>4, NoEnd
  <2> QED BY <2>3, <2>4
<1>5. 400 \in Expected(req) \cup (IF split THEN {400, 505} ELSE {})
  BY <1>4, Refused DEF OK
<1> QED BY <1>1, <1>2, <1>3, <1>5, Answer DEF Parsing

LEMMA PartOfLineStep ==
  ASSUME IInv, PartOfLine
  PROVE  IInv'
<1>1. /\ conn \in {"line", "headers"} /\ NlIdx = 0
      /\ got' = got + Len(Buf) /\ used' = read
      /\ UNCHANGED <<conn, req, read, line, headers, resp, done, split, fault>>
  BY DEF PartOfLine, Reading
<1>2. PICK r \in Requests, k \in Nat, e \in Nat : r = req /\ k = line /\ e = read
  BY DEF IInv, Typed
<1>3. k <= Len(r.headers) + 1 /\ Passed(r, k) /\ used = Start(r)[k] + got /\ Len(r.headers) \in Nat
  BY <1>1, <1>2, IsSent DEF IInv, InLine
<1>4. /\ got' \in Nat /\ used' = Start(r)[k] + got'
      /\ k < Count(r) => /\ got' <= LineLen(r, k) + 1
                         /\ got' = LineLen(r, k) + 1 => split
  <2>1. CASE k < Count(r)
    <3>0. PICK s \in Nat, l \in Nat, g \in Nat, f \in Nat, j \in Nat : AtLine(s, l, g, f, j)
      <4>1. Typed /\ CrSeen /\ InLine /\ line < Count(req)
        BY <1>2, <2>1 DEF IInv
      <4> QED BY <1>1, <4>1, LineRead
    <3>1. /\ s = Start(r)[k] /\ l = LineLen(r, k) /\ g = got /\ f = e
          /\ s + g <= f /\ g <= l + 1 /\ (f = s + l + 1 => split)
          /\ Len(Buf) = f - (s + g)
          /\ NlIdx = IF s + l + 2 <= f THEN l + 2 - g ELSE 0
      BY <1>2, <3>0 DEF AtLine
    <3>2. ~(s + l + 2 <= f)
      BY <1>1, <3>1
    <3>3. s + g <= f
      BY <3>1
    <3>4. f - s \in Nat /\ s + (f - s) = f /\ g + (f - (s + g)) = f - s
          /\ f - s <= l + 1 /\ (f - s = l + 1 => f = s + l + 1)
      BY ONLY <3>2, <3>3, s \in Nat, l \in Nat, g \in Nat, f \in Nat
    <3>5. got' = f - s
      BY <1>1, <3>1, <3>4
    <3>6. got' \in Nat /\ s + got' = f /\ got' <= l + 1 /\ (got' = l + 1 => f = s + l + 1)
      BY <3>4, <3>5
    <3> QED BY <1>1, <1>2, <3>1, <3>6
  <2>2. CASE ~(k < Count(r))
    <3>1. k = Count(r)
      <4>1. k \in 0 .. Len(r.headers) + 1
        BY <1>3
      <4> QED BY <1>3, <2>2, <4>1, NoEnd
    <3>2. Len(Buf) = read - used
      BY <1>2, <1>3, <3>1, BodyRead DEF IInv
    <3>3. PICK s \in Nat, g \in Nat : s = Start(r)[k] /\ g = got
      <4>1. Start(r)[k] \in Nat
        BY <3>1, StartIs, Lengths
      <4>2. got \in Nat
        BY DEF IInv, Typed
      <4> QED BY <4>1, <4>2
    <3>4. got' = g + (e - (s + g)) /\ s + g <= e
      BY <1>1, <1>2, <1>3, <3>2, <3>3 DEF IInv, Typed
    <3>5. got' \in Nat /\ s + got' = e
      BY <3>3, <3>4
    <3> QED BY <1>1, <1>2, <2>2, <3>3, <3>5
  <2> QED BY <2>1, <2>2
<1>5. Typed'
  BY <1>1, <1>2, <1>4 DEF IInv, Typed
<1>6. CrSeen'
  BY <1>1 DEF IInv, CrSeen
<1>7. InLine'
  BY <1>1, <1>2, <1>4 DEF IInv, InLine
<1>8. InBody' /\ ToRoute' /\ Untouched'
  BY <1>1 DEF InBody, ToRoute, Untouched, Waiting
<1>9. conn \in Parsing
  BY <1>1 DEF Parsing
<1> QED BY <1>1, <1>5, <1>6, <1>7, <1>8, <1>9, StillReading DEF IInv

LEMMA LineTaken ==
  ASSUME IInv, conn \in {"line", "headers"}, TakeLine
  PROVE  /\ line \in 0 .. Len(req.headers) + 1 /\ line < Count(req) /\ Passed(req, line)
         /\ LineLen(req, line) <= MaxLine
         /\ LineLen(req, line) = 0 /\ got > 0 => split
         /\ got + End > 0 => LineLen(req, line) # 0 \/ split
         /\ got + End = 0 => LineLen(req, line) = 0
         /\ used' = Start(req)[line + 1] /\ got' = 0 /\ line' = line + 1
         /\ UNCHANGED <<req, read, split, fault, done>> /\ Typed' /\ CrSeen'
<1>1. /\ read > used /\ NlIdx > 0 /\ ~TooLong
      /\ used' = used + NlIdx /\ got' = 0 /\ line' = line + 1
      /\ UNCHANGED <<req, read, split, fault, done>>
  BY DEF TakeLine, Reading
<1>2. PICK r \in Requests, k \in Nat : r = req /\ k = line
  BY DEF IInv, Typed
<1>3. k \in 0 .. Len(r.headers) + 1 /\ Passed(r, k)
  <2>1. k <= Len(r.headers) + 1 /\ Passed(r, k) /\ Len(r.headers) \in Nat
    BY <1>2, IsSent DEF IInv, InLine
  <2> QED BY <2>1
<1>4. k < Count(r)
  <2> SUFFICES ASSUME ~(k < Count(r)) PROVE FALSE
    OBVIOUS
  <2>1. k = Count(r)
    BY <1>3, NoEnd
  <2>2. used = Start(req)[Count(req)] + got
    BY <1>2, <2>1 DEF IInv, InLine
  <2>3. NlIdx = 0
    BY <2>2, BodyRead DEF IInv
  <2> QED BY <1>1, <2>3
<1>5. PICK s \in Nat, l \in Nat, g \in Nat, e \in Nat, j \in Nat : AtLine(s, l, g, e, j)
  <2>1. Typed /\ CrSeen /\ InLine /\ line < Count(req)
    BY <1>2, <1>4 DEF IInv
  <2> QED BY <2>1, LineRead
<1>6. /\ l = LineLen(r, k) /\ g = got /\ e = read
      /\ used = s + g /\ g <= l + 1 /\ (g = l + 1 => split)
      /\ Start(r)[k + 1] = s + l + 2
      /\ NlIdx = IF s + l + 2 <= e THEN l + 2 - g ELSE 0
      /\ s + l + 2 <= e => End = IF g <= l THEN l - g ELSE 0
  BY <1>2, <1>5 DEF AtLine
<1>7. s + l + 2 <= e /\ NlIdx = l + 2 - g /\ End = IF g <= l THEN l - g ELSE 0
  <2>1. s + l + 2 <= e
    BY <1>1, <1>6
  <2> QED BY <1>6, <2>1
<1>8. g <= l + 1 /\ (s + g) + (l + 2 - g) = s + l + 2
  BY <1>6
<1>9. used' = s + l + 2
  BY <1>1, <1>6, <1>7, <1>8
<1>10. PICK x \in Nat : x = End /\ x = IF g <= l THEN l - g ELSE 0
  <2>1. (IF g <= l THEN l - g ELSE 0) \in Nat
    OBVIOUS
  <2> QED BY <1>7, <2>1
<1>11. ~(g + x > MaxLine) /\ MaxLine \in Nat
  <2>1. NlIdx # 0
    BY <1>1
  <2> QED BY <1>1, <1>6, <1>10, <2>1, HttpAssumption DEF TooLong
<1>12. /\ l <= MaxLine /\ (l = 0 /\ g > 0 => g = l + 1) /\ (g + x > 0 => l # 0 \/ g = l + 1)
       /\ (g + x = 0 => l = 0)
  BY ONLY <1>8, <1>10, <1>11, s \in Nat, l \in Nat, g \in Nat, x \in Nat
<1>13. Typed'
  <2>1. s + l + 2 \in Nat /\ line + 1 \in Nat
    BY <1>2
  <2> QED BY <1>1, <1>6, <1>7, <1>9, <2>1 DEF IInv, Typed
<1>14. CrSeen'
  BY <1>1 DEF IInv, CrSeen
<1> QED BY <1>1, <1>2, <1>3, <1>4, <1>6, <1>9, <1>10, <1>12, <1>13, <1>14

LEMMA NextLine ==
  ASSUME IInv, conn \in {"line", "headers"}, TakeLine, line <= Len(req.headers),
         conn' = "headers", resp' = resp, Passed(req, line + 1),
         headers' = LastOf(req, line)
  PROVE  IInv'
<1>1. /\ line \in 0 .. Len(req.headers) + 1
      /\ used' = Start(req)[line + 1] /\ got' = 0 /\ line' = line + 1
      /\ UNCHANGED <<req, read, split, fault, done>> /\ Typed' /\ CrSeen'
  BY LineTaken
<1>2. PICK r \in Requests, k \in Nat, n \in Nat : r = req /\ k = line /\ n = Len(req.headers)
  BY IsSent DEF IInv, Typed
<1>3. PICK l \in Nat : l = LineLen(r, k + 1)
  BY Lengths
<1>4. Start(r)[k + 1] \in Nat
  <2>1. PICK c \in Nat : c = Count(r) /\ (c = n + 1 \/ c = n + 2)
    BY <1>2, Lengths
  <2>2. k + 1 \in 0 .. c
    BY <1>2, <2>1
  <2> QED BY <2>1, <2>2, StartIs
<1>5. k + 1 <= n + 1 /\ k + 1 # 0 /\ (k + 1) - 1 = k
      /\ 0 <= l + 1 /\ 0 # l + 1 /\ Start(r)[k + 1] + 0 = Start(r)[k + 1]
  BY <1>2, <1>4
<1>6. InLine'
  BY <1>1, <1>2, <1>3, <1>5 DEF InLine
<1>7. InBody' /\ ToRoute' /\ Untouched'
  BY DEF InBody, ToRoute, Untouched, Waiting
<1>8. conn \in Parsing
  BY DEF Parsing
<1> QED BY <1>1, <1>6, <1>7, <1>8, StillReading DEF IInv

LEMMA ReadRequestLineStep ==
  ASSUME IInv, ReadRequestLine
  PROVE  IInv'
<1>1. /\ conn = "line" /\ TakeLine /\ headers' = headers
      /\ GoOn(IF req.line.len = 0 /\ got > 0 THEN 505 ELSE RequestLine(req.line), "headers")
  BY DEF ReadRequestLine
<1>2. PICK r \in Requests : r = req
  BY DEF IInv, Typed
<1>3. line = 0 /\ headers = LastOf(r, 0) /\ Len(r.headers) \in Nat
  BY <1>1, <1>2, IsSent DEF IInv, InLine
<1>4. /\ r.line.len <= MaxLine /\ (r.line.len = 0 /\ got > 0 => split)
      /\ UNCHANGED <<req, split, done>> /\ Typed' /\ CrSeen'
  <2>1. LineLen(r, 0) = r.line.len
    BY DEF LineLen
  <2> QED BY <1>1, <1>2, <1>3, <2>1, LineTaken
<1>5. CASE r.line.len = 0 /\ got > 0
  <2>1. Refuse(505)
    BY <1>1, <1>2, <1>5 DEF GoOn, OK
  <2>2. 505 \in Expected(req') \cup (IF split' THEN {400, 505} ELSE {})
    BY <1>4, <1>5
  <2> QED BY <1>1, <1>4, <2>1, <2>2, Answer DEF Parsing
<1>6. CASE ~(r.line.len = 0 /\ got > 0) /\ RequestLine(r.line) # OK
  <2>1. Refuse(RequestLine(r.line))
    BY <1>1, <1>2, <1>6 DEF GoOn
  <2>2. Verdict(r) = RequestLine(r.line)
    BY <1>4, <1>6, Verdicts
  <2>3. RequestLine(r.line) \in Expected(req')
    BY <1>2, <1>4, <1>6, <2>2, Refused
  <2> QED BY <1>1, <1>4, <2>1, <2>3, Answer DEF Parsing
<1>7. CASE ~(r.line.len = 0 /\ got > 0) /\ RequestLine(r.line) = OK
  <2>1. conn' = "headers" /\ resp' = resp
    BY <1>1, <1>2, <1>7 DEF GoOn
  <2>2. Passed(r, 0 + 1)
    BY <1>4, <1>7 DEF Passed, LineOK, HeadersOK
  <2>3. line <= Len(req.headers) /\ Passed(req, line + 1) /\ headers' = LastOf(req, line)
    BY <1>1, <1>2, <1>3, <2>2
  <2> QED BY <1>1, <2>1, <2>3, NextLine
<1> QED BY <1>5, <1>6, <1>7

LEMMA ReadHeaderStep ==
  ASSUME IInv, ReadHeader
  PROVE  IInv'
<1>1. /\ conn = "headers" /\ TakeLine /\ got + End > 0
      /\ IF line > Len(req.headers)
         THEN Refuse(400) /\ UNCHANGED headers
         ELSE LET h == req.headers[line]
              IN  /\ GoOn(HeaderLine(h, headers), "headers")
                  /\ headers' = IF HeaderLine(h, headers) = OK
                                THEN [headers EXCEPT ![h.name] = h.value] ELSE headers
  BY DEF ReadHeader
<1>2. PICK r \in Requests, k \in Nat, n \in Nat : r = req /\ k = line /\ n = Len(r.headers)
  BY IsSent DEF IInv, Typed
<1>3. k # 0 /\ k <= n + 1 /\ headers = LastOf(r, k - 1)
  BY <1>1, <1>2 DEF IInv, InLine
<1>4. /\ Passed(r, k) /\ LineLen(r, k) <= MaxLine /\ (LineLen(r, k) # 0 \/ split)
      /\ UNCHANGED <<req, split, done>> /\ Typed' /\ CrSeen'
  BY <1>1, <1>2, LineTaken
<1>5. LineOK(r) /\ HeadersOK(r, k - 1)
  BY <1>3, <1>4 DEF Passed
<1>6. CASE k > n
  <2>1. LineLen(r, k) = 0 /\ Refuse(400)
    BY <1>1, <1>2, <1>6 DEF LineLen
  <2>2. 400 \in Expected(req') \cup (IF split' THEN {400, 505} ELSE {})
    BY <1>4, <2>1
  <2> QED BY <1>1, <1>4, <2>1, <2>2, Answer DEF Parsing
<1>7. CASE ~(k > n)
  <2> DEFINE h    == r.headers[k]
             code == HeaderLine(h, LastOf(r, k - 1))
  <2>0. k \in 1 .. n
    BY <1>3, <1>7
  <2>1. /\ GoOn(code, "headers")
        /\ headers' = IF code = OK THEN [LastOf(r, k - 1) EXCEPT ![h.name] = h.value] ELSE headers
    BY <1>1, <1>2, <1>3, <1>7
  <2>2. HeaderVerdict(r, k) = code
    <3>1. LineLen(r, k) = h.len
      BY <1>2, <2>0 DEF LineLen
    <3> QED BY <1>4, <3>1, HeaderIs
  <2> HIDE DEF code
  <2>3. CASE code # OK
    <3>1. Verdict(r) = code
      BY <1>2, <1>5, <2>0, <2>2, <2>3, Verdicts
    <3>2. code \in Expected(req') /\ Refuse(code)
      BY <1>2, <1>4, <2>1, <2>3, <3>1, Refused DEF GoOn
    <3> QED BY <1>1, <1>4, <3>2, Answer DEF Parsing
  <2>4. CASE code = OK
    <3>1. conn' = "headers" /\ resp' = resp
      BY <2>1, <2>4 DEF GoOn
    <3>2. headers' = LastOf(r, k)
      BY <1>2, <2>0, <2>1, <2>4, LastGrows
    <3>3. HeadersOK(r, k)
      <4>1. \A i \in 1 .. k : i \in 1 .. k - 1 \/ i = k
        OBVIOUS
      <4> QED BY <1>5, <2>2, <2>4, <4>1 DEF HeadersOK
    <3>4. Passed(r, k + 1)
      <4>1. (k + 1) - 1 = k
        OBVIOUS
      <4> QED BY <1>5, <3>3, <4>1 DEF Passed
    <3>5. line <= Len(req.headers) /\ Passed(req, line + 1) /\ headers' = LastOf(req, line)
      BY <1>2, <2>0, <3>2, <3>4
    <3> QED BY <1>1, <3>1, <3>5, NextLine
  <2> QED BY <2>3, <2>4
<1> QED BY <1>6, <1>7

LEMMA EndOfHeadersStep ==
  ASSUME IInv, EndOfHeaders
  PROVE  IInv'
<1>1. /\ conn = "headers" /\ TakeLine /\ got + End = 0 /\ headers' = headers
      /\ IF Unvalidated(req.line)
         THEN GoOn(OK, "route")
         ELSE GoOn(FirstFailure(<<ValidateHeaders(headers), BodyHeaders(headers)>>),
                   IF HasBody(headers) THEN "body" ELSE "route")
  BY DEF EndOfHeaders
<1>2. PICK r \in Requests, k \in Nat, n \in Nat : r = req /\ k = line /\ n = Len(r.headers)
  BY IsSent DEF IInv, Typed
<1>3. k # 0 /\ k <= n + 1 /\ headers = LastOf(r, k - 1)
  BY <1>1, <1>2 DEF IInv, InLine
<1>4. /\ k < Count(r) /\ Passed(r, k) /\ LineLen(r, k) = 0
      /\ used' = Start(r)[k + 1] /\ got' = 0
      /\ UNCHANGED <<req, split, fault, done>> /\ Typed' /\ CrSeen'
  BY <1>1, <1>2, LineTaken
<1>5. k = n + 1 /\ k - 1 = n /\ Count(r) = k + 1 /\ r.end
  <2>1. ~(k \in 1 .. n)
    BY <1>2, <1>4, Lengths
  <2>2. PICK c \in Nat : c = Count(r) /\ (c = n + 1 \/ c = n + 2) /\ (r.end <=> c = n + 2)
    BY <1>2, Lengths
  <2>3. k = n + 1
    BY <1>3, <2>1
  <2> QED BY <1>4, <2>2, <2>3
<1>6. LineOK(r) /\ HeadersOK(r, n) /\ headers = Map(r)
  BY <1>2, <1>3, <1>4, <1>5 DEF Passed, Map
<1>7. CASE Unvalidated(r.line)
  <2>1. conn' = "route" /\ resp' = resp
    BY <1>1, <1>2, <1>7 DEF GoOn
  <2>2. Verdict(r) = OK
    BY <1>2, <1>5, <1>6, <1>7, Verdicts
  <2>3. ToRoute'
    BY <1>2, <1>4, <1>5, <1>7, <2>2 DEF ToRoute
  <2>4. InLine' /\ InBody' /\ Untouched'
    BY <2>1 DEF InLine, InBody, Untouched, Waiting
  <2> QED BY <1>1, <1>4, <2>1, <2>3, <2>4, StillReading DEF IInv, Parsing
<1>8. CASE ~Unvalidated(r.line)
  <2> DEFINE code == IF AuthOf(r) # OK THEN AuthOf(r) ELSE BodyHs(r)
  <2>1. GoOn(code, IF HasBody(Map(r)) THEN "body" ELSE "route")
    <3>1. FirstFailure(<<ValidateHeaders(headers), BodyHeaders(headers)>>) = code
      BY <1>6, OfTwo DEF AuthOf, BodyHs, Map
    <3> HIDE DEF code
    <3> QED BY <1>1, <1>2, <1>6, <1>8, <3>1
  <2>2. Verdict(r) = IF AuthOf(r) # OK THEN AuthOf(r)
                     ELSE IF BodyHs(r) # OK THEN BodyHs(r) ELSE BodyOf(r)
    BY <1>2, <1>5, <1>6, <1>8, Verdicts
  <2>3. CASE code # OK
    <3>1. Verdict(r) = code
      BY <2>2, <2>3
    <3> HIDE DEF code
    <3>2. code \in Expected(req') /\ Refuse(code)
      BY <1>2, <1>4, <2>1, <2>3, <3>1, Refused DEF GoOn
    <3> QED BY <1>1, <1>4, <3>2, Answer DEF Parsing
  <2>4. CASE code = OK
    <3>1. AuthOf(r) = OK /\ BodyHs(r) = OK /\ Verdict(r) = BodyOf(r)
      BY <2>2, <2>4
    <3> HIDE DEF code
    <3>2. PassedHead(r)
      BY <1>2, <1>5, <1>6, <1>8, <3>1 DEF PassedHead
    <3>3. resp' = resp /\ conn' = IF HasBody(Map(r)) THEN "body" ELSE "route"
      BY <2>1, <2>4 DEF GoOn
    <3>4. PICK s \in Nat : s = Start(r)[Count(r)] /\ used' = s
      BY <1>4, <1>5, StartIs, Lengths
    <3>5. InBody'
      <4> SUFFICES ASSUME conn' = "body" PROVE InBody'
        BY DEF InBody
      <4>1. HasBody(Map(r))
        BY <3>3
      <4>2. Map(r)["content-length"] \in Nat \ {0}
        BY <3>1, <4>1, Announced
      <4>3. 0 < Map(r)["content-length"] /\ s + 0 = s
        BY <4>2
      <4> QED BY <1>1, <1>2, <1>4, <1>6, <3>2, <3>4, <4>1, <4>3 DEF InBody
    <3>6. ToRoute'
      <4> SUFFICES ASSUME conn' = "route" PROVE ToRoute'
        BY DEF ToRoute
      <4>1. ~HasBody(Map(r))
        BY <3>3
      <4>2. BodyLen(r) = 0 /\ BodyOf(r) = OK
        BY <4>1 DEF BodyLen, BodyOf, Map
      <4>3. s + 0 = s
        OBVIOUS
      <4> QED BY <1>2, <1>4, <1>5, <3>1, <3>4, <4>2, <4>3 DEF ToRoute
    <3>7. InLine' /\ Untouched'
      BY <3>3 DEF InLine, Untouched, Waiting
    <3> QED BY <1>1, <1>4, <3>3, <3>5, <3>6, <3>7, StillReading DEF IInv, Parsing
  <2> QED BY <2>3, <2>4
<1> QED BY <1>7, <1>8

LEMMA ReadBodyStep ==
  ASSUME IInv, ReadBody
  PROVE  IInv'
<1>1. /\ conn = "body" /\ read > used
      /\ UNCHANGED <<req, read, line, headers, done, split, fault>>
  BY DEF ReadBody
<1>2. PICK r \in Requests, e \in Nat, g \in Nat : r = req /\ e = read /\ g = got
  BY DEF IInv, Typed
<1>3. /\ PassedHead(r) /\ HasBody(Map(r)) /\ headers = Map(r)
      /\ used = Start(r)[Count(r)] + g /\ g < Map(r)["content-length"]
  BY <1>1, <1>2 DEF IInv, InBody
<1>4. PICK s \in Nat : s = Start(r)[Count(r)]
  BY StartIs, Lengths
<1>5. PICK v \in Nat \ {0} : v = Map(r)["content-length"]
  <2>1. BodyHs(r) = OK
    BY <1>3 DEF PassedHead
  <2> QED BY <1>3, <2>1, Announced
<1>6. PICK b \in Nat : b = Len(Buf) /\ b = e - (s + g)
  <2>1. Len(Buf) = read - used
    BY <1>2, <1>3, BodyRead DEF IInv
  <2>2. Len(Buf) = e - (s + g) /\ s + g < e
    BY <1>1, <1>2, <1>3, <1>4, <2>1
  <2>3. e - (s + g) \in Nat
    BY <2>2
  <2> QED BY <2>2, <2>3
<1>7. PICK n \in Nat : n = Min({b, v - g}) /\ n <= b /\ n <= v - g
  <2>1. g < v
    BY <1>3, <1>5
  <2>2. v - g \in Nat
    BY <2>1
  <2> QED BY <2>2, MinOfTwo
<1>8. /\ used' = used + n /\ got' = got + n
      /\ IF got + n = v THEN GoOn(ParseBody(r, v), "route") ELSE UNCHANGED <<conn, resp>>
  BY <1>2, <1>3, <1>5, <1>6, <1>7 DEF ReadBody
<1>9. used' = s + (g + n) /\ got' = g + n /\ s + (g + n) <= e /\ g + n <= v
  <2>1. (s + g) + n = s + (g + n) /\ s + (g + n) <= e /\ g + n <= v
    BY <1>6, <1>7
  <2> QED BY <1>2, <1>3, <1>4, <1>8, <2>1
<1>10. Typed'
  BY <1>1, <1>2, <1>9 DEF IInv, Typed
<1>11. CrSeen'
  BY <1>1 DEF IInv, CrSeen
<1>12. Verdict(r) = ParseBody(r, v)
  BY <1>3, <1>5, HeadPassed
<1>13. CASE g + n # v
  <2>1. conn' = conn /\ resp' = resp
    BY <1>2, <1>8, <1>13
  <2>2. g + n < v
    BY <1>9, <1>13
  <2>3. InBody'
    BY <1>1, <1>2, <1>3, <1>4, <1>5, <1>9, <2>2 DEF InBody
  <2>4. InLine' /\ ToRoute' /\ Untouched'
    BY <1>1, <2>1 DEF InLine, ToRoute, Untouched, Waiting
  <2> QED BY <1>1, <1>10, <1>11, <2>1, <2>3, <2>4, StillReading DEF IInv, Parsing
<1>14. CASE g + n = v /\ ParseBody(r, v) # OK
  <2>1. Refuse(ParseBody(r, v))
    BY <1>2, <1>8, <1>14 DEF GoOn
  <2>2. ParseBody(r, v) \in Expected(req')
    BY <1>1, <1>2, <1>12, <1>14, Refused
  <2> QED BY <1>1, <1>10, <1>11, <2>1, <2>2, Answer DEF Parsing
<1>15. CASE g + n = v /\ ParseBody(r, v) = OK
  <2>1. conn' = "route" /\ resp' = resp
    BY <1>2, <1>8, <1>15 DEF GoOn
  <2>2. ToRoute'
    <3>1. used' = s + BodyLen(r)
      BY <1>3, <1>5, <1>9, <1>15 DEF BodyLen
    <3>2. r.end /\ AuthOf(r) = OK
      BY <1>3 DEF PassedHead
    <3> QED BY <1>1, <1>2, <1>4, <1>12, <1>15, <3>1, <3>2 DEF ToRoute
  <2>3. InLine' /\ InBody' /\ Untouched'
    BY <2>1 DEF InLine, InBody, Untouched, Waiting
  <2> QED BY <1>1, <1>10, <1>11, <2>1, <2>2, <2>3, StillReading DEF IInv, Parsing
<1> QED BY <1>13, <1>14, <1>15

LEMMA ExecuteStep ==
  ASSUME IInv, Execute
  PROVE  IInv'
<1>1. /\ conn = "route" /\ conn' = "respond" /\ done' = Route(req.line)
      /\ UNCHANGED <<req, read, used, got, line, headers, split, fault>>
      /\ \E code \in Codes(Route(req.line)) :
           resp' = [code |-> code, stream |-> Route(req.line) = "events"]
  BY DEF Execute, input
<1>2. PICK r \in Requests : r = req
  BY DEF IInv, Typed
<1>3. /\ Verdict(r) = OK /\ r.end /\ ~fault
      /\ ~Unvalidated(r.line) => AuthOf(r) = OK /\ used = Start(r)[Count(r)] + BodyLen(r)
  BY <1>1, <1>2 DEF IInv, ToRoute, Clean
<1>4. Typed' /\ CrSeen'
  BY <1>1 DEF IInv, Typed, CrSeen
<1>5. SameHoweverCut'
  <2>1. resp'.code \in Codes(Route(r.line))
    BY <1>1, <1>2
  <2>2. Expected(r) = Codes(Route(r.line))
    BY <1>3 DEF Expected
  <2> QED BY <1>1, <1>2, <2>1, <2>2 DEF SameHoweverCut
<1>6. NothingUnlessWhole'
  <2> SUFFICES ASSUME Route(r.line) \in {"command", "events"}
               PROVE  /\ r.end /\ ~fault
                      /\ Map(r)["x-fleet-id"] = "own" /\ Map(r)["x-device-id"] = "own"
                      /\ used = (Len(Stream[r]) - r.body) + BodyLen(r)
    BY <1>1, <1>2 DEF NothingUnlessWhole, Map, BodyLen
  <2>1. AuthOf(r) = OK /\ used = Start(r)[Count(r)] + BodyLen(r)
    BY <1>3, ForOwners
  <2>2. Start(r)[Count(r)] = Len(Stream[r]) - r.body
    <3>1. PICK s \in Nat, m \in Nat, w \in Nat : s = Start(r)[Count(r)] /\ m = r.body /\ w = Len(Stream[r])
      <4>1. Start(r)[Count(r)] \in Nat
        BY StartIs, Lengths
      <4>2. r.body \in Nat /\ Len(Stream[r]) \in Nat
        BY StartIs, IsSent
      <4> QED BY <4>1, <4>2
    <3>2. s + m = w
      BY <3>1, StartIs DEF Layout
    <3> QED BY <3>1, <3>2
  <2> QED BY <1>3, <2>1, <2>2, Authentic
<1>7. Untouched' /\ InLine' /\ InBody' /\ ToRoute' /\ Clean'
  BY <1>1 DEF Untouched, InLine, InBody, ToRoute, Clean, Parsing, Waiting
<1> QED BY <1>4, <1>5, <1>6, <1>7 DEF IInv

LEMMA NextIInv ==
  ASSUME IInv, [Next]_vars
  PROVE  IInv'
<1>1. ASSUME Bind \/ CheckFlag \/ StoppedElsewhere \/ UNCHANGED vars PROVE IInv'
  <2>1. Alone /\ conn' = conn
    BY <1>1 DEF Bind, CheckFlag, StoppedElsewhere, vars, server, input, Alone
  <2> QED BY <2>1, SameConn
<1>2. ASSUME AcceptConn PROVE IInv'
  <2>1. Alone /\ (conn' = conn \/ (conn = "backlog" /\ conn' \in {"line", "dropped"}))
    BY <1>2 DEF AcceptConn, input, Alone
  <2> QED BY <2>1, SameConn, ConnEnds, ConnBegins DEF Waiting, Ended
<1>3. ASSUME Connect PROVE IInv'
  <2>1. Alone /\ conn = "none" /\ conn' = "backlog"
    BY <1>3 DEF Connect, server, input, Alone
  <2> QED BY <2>1, ConnBegins DEF Waiting
<1>4. ASSUME Reset PROVE IInv'
  <2>1. Alone /\ conn' = "dropped"
    BY <1>4 DEF Reset, server, input, Alone
  <2> QED BY <2>1, ConnEnds DEF Ended
<1>5. ASSUME Respond PROVE IInv'
  <2>1. Alone /\ conn' \in {"dropped", "streaming", "closed"}
    BY <1>5 DEF Respond, server, input, Alone
  <2> QED BY <2>1, ConnEnds DEF Ended
<1> QED BY <1>1, <1>2, <1>3, <1>4, <1>5, FillBufStep, ReadFailsStep, LineTooLongStep,
           PartOfLineStep, ReadRequestLineStep, ReadHeaderStep, EndOfHeadersStep, ReadBodyStep,
           ExecuteStep DEF Next, Server, Thread

LEMMA Inductive == Spec => []IInv
BY InitIInv, NextIInv, PTL DEF Spec

(* However the bytes of a request are cut into reads by request.rs, its       *)
(* response is the one the request has when it is read at once.              *)
THEOREM ResponseOfTheWhole == Spec => []SameHoweverCut
<1>1. IInv => SameHoweverCut
  BY DEF IInv
<1> QED BY <1>1, Inductive, PTL

(* A command goes to the client logic, or a stream is opened, only for a      *)
(* request that arrived as a whole, with its own device's identity and the    *)
(* body that it announced.                                                   *)
THEOREM OnlyTheWholeActs == Spec => []NothingUnlessWhole
<1>1. IInv => NothingUnlessWhole
  BY DEF IInv
<1> QED BY <1>1, Inductive, PTL

=============================================================================
