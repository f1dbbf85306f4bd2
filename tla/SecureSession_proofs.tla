-------------------------- MODULE SecureSession_proofs --------------------------
(***************************************************************************)
(* Proofs about SecureSession, for all scripts, passphrases and high-water *)
(* marks: frames come out of the byte stream as they went in, however it   *)
(* is cut; nothing is sealed but under a key both sides derived from one   *)
(* passphrase; and no nonce is used twice.                                 *)
(***************************************************************************)
EXTENDS SecureSession, FiniteSetTheorems, SequenceTheorems, WellFoundedInduction, TLAPS

(* Induction, for sets: the library's theorems take a predicate.           *)

LEMMA Induction ==
  ASSUME NEW S, 0 \in S, \A n \in Nat : n \in S => n + 1 \in S
  PROVE  Nat \subseteq S
<1> DEFINE T == Nat \ S
           R == {ss \in Nat \X Nat : ss[1] < ss[2]}
<1> SUFFICES ASSUME T # {} PROVE FALSE
  OBVIOUS
<1>1. IsWellFoundedOn(R, Nat)
  BY NatLessThanWellFounded, Zenon DEF OpToRel
<1>2. PICK x \in T : \A y \in T : <<y, x>> \notin R
  <2> HIDE DEF R
  <2> QED  BY <1>1, WFMin
<1>3. x \in Nat /\ x # 0 /\ x \notin S
  OBVIOUS
<1>4. x - 1 \in Nat /\ <<x - 1, x>> \in R
  BY <1>3
<1>5. x - 1 \in S
  BY <1>2, <1>4
<1> QED  BY <1>3, <1>4, <1>5

\* What a step D maps into S can be iterated from any element of S.
Orbit(g, c, D, n) == g[0] = c /\ \A i \in 1..n : g[i] = D[g[i - 1]]

LEMMA Iterates ==
  ASSUME NEW S, NEW c \in S, NEW D \in [S -> S], NEW n \in Nat
  PROVE  \E g \in [0..n -> S] : Orbit(g, c, D, n)
<1> DEFINE N == {k \in Nat : \E g \in [0..k -> S] : Orbit(g, c, D, k)}
<1>1. 0 \in N
  <2>1. [i \in 0..0 |-> c] \in [0..0 -> S] /\ Orbit([i \in 0..0 |-> c], c, D, 0)
    BY DEF Orbit
  <2> QED  BY <2>1
<1>2. ASSUME NEW k \in Nat, k \in N PROVE k + 1 \in N
  <2>1. PICK g \in [0..k -> S] : Orbit(g, c, D, k)
    BY <1>2
  <2> DEFINE h == [i \in 0..(k + 1) |-> IF i <= k THEN g[i] ELSE D[g[k]]]
  <2>2. h \in [0..(k + 1) -> S]
    OBVIOUS
  <2>3. Orbit(h, c, D, k + 1)
    <3>1. h[0] = c
      BY <2>1 DEF Orbit
    <3>2. ASSUME NEW i \in 1..(k + 1) PROVE h[i] = D[h[i - 1]]
      <4>1. CASE i <= k
        BY <4>1, <2>1 DEF Orbit
      <4>2. CASE i = k + 1
        BY <4>2
      <4> QED  BY <4>1, <4>2
    <3> QED  BY <3>1, <3>2 DEF Orbit
  <2> HIDE DEF h
  <2> QED  BY <2>2, <2>3
<1> HIDE DEF N
<1>3. n \in N
  BY <1>1, <1>2, Induction
<1> QED  BY <1>3 DEF N

LEMMA ConcatElements ==
  ASSUME NEW S, NEW p \in Seq(S), NEW q \in Seq(S)
  PROVE  /\ p \o q \in Seq(S) /\ Len(p \o q) = Len(p) + Len(q)
         /\ \A k \in 1..Len(p) : (p \o q)[k] = p[k]
         /\ \A k \in 1..Len(q) : (p \o q)[Len(p) + k] = q[k]
OBVIOUS

LEMMA DropElements ==
  ASSUME NEW S, NEW q \in Seq(S), NEW n \in 0..Len(q)
  PROVE  /\ Drop(q, n) \in Seq(S) /\ Len(Drop(q, n)) = Len(q) - n
         /\ \A k \in 1..(Len(q) - n) : Drop(q, n)[k] = q[n + k]
<1>1. Len(q) \in Nat /\ n + 1 \in Int /\ \A i \in (n + 1)..Len(q) : q[i] \in S
  OBVIOUS
<1>2. /\ Drop(q, n) \in Seq(S)
      /\ Len(Drop(q, n)) = IF n + 1 <= Len(q) THEN Len(q) - (n + 1) + 1 ELSE 0
      /\ \A k \in 1..(Len(q) - (n + 1) + 1) : Drop(q, n)[k] = q[(n + 1) + k - 1]
  BY <1>1, SubSeqProperties DEF Drop
<1>3. \A k \in 1..(Len(q) - n) : Drop(q, n)[k] = q[n + k]
  <2> SUFFICES ASSUME NEW k \in 1..(Len(q) - n) PROVE Drop(q, n)[k] = q[n + k]
    OBVIOUS
  <2>1. k \in 1..(Len(q) - (n + 1) + 1) /\ (n + 1) + k - 1 = n + k
    BY <1>1
  <2> QED  BY <2>1, <1>2
<1> QED  BY <1>1, <1>2, <1>3

LEMMA ConcatThree ==
  ASSUME NEW S, NEW p \in Seq(S), NEW q \in Seq(S), NEW r \in Seq(S)
  PROVE  p \o (q \o r) = (p \o q) \o r
OBVIOUS

LEMMA SplitAt ==
  ASSUME NEW S, NEW q \in Seq(S), NEW n \in 0..Len(q)
  PROVE  /\ SubSeq(q, 1, n) \in Seq(S) /\ Len(SubSeq(q, 1, n)) = n
         /\ \A i \in 1..n : SubSeq(q, 1, n)[i] = q[i]
         /\ q = SubSeq(q, 1, n) \o Drop(q, n)
<1> DEFINE x == SubSeq(q, 1, n)
           y == Drop(q, n)
           z == x \o y
<1>1. x \in Seq(S) /\ Len(x) = n /\ \A i \in 1..n : x[i] = q[i]
  OBVIOUS
<1>2. /\ y \in Seq(S) /\ Len(y) = Len(q) - n
      /\ \A k \in 1..(Len(q) - n) : y[k] = q[n + k]
  BY DropElements
<1> HIDE DEF x, y
<1>3. /\ z \in Seq(S) /\ Len(z) = Len(x) + Len(y)
      /\ \A k \in 1..Len(x) : z[k] = x[k]
      /\ \A k \in 1..Len(y) : z[Len(x) + k] = y[k]
  BY <1>1, <1>2, ConcatElements
<1> HIDE DEF z
<1>4. Len(z) = Len(q) /\ Len(q) \in Nat
  BY <1>1, <1>2, <1>3
<1>5. ASSUME NEW i \in 1..Len(q) PROVE z[i] = q[i]
  <2>1. CASE i <= n
    <3>1. i \in 1..n /\ i \in 1..Len(x)
      BY <2>1, <1>1
    <3> QED  BY <3>1, <1>1, <1>3
  <2>2. CASE i > n
    <3>1. i - n \in 1..(Len(q) - n) /\ i - n \in 1..Len(y) /\ Len(x) + (i - n) = i
          /\ n + (i - n) = i
      BY <2>2, <1>1, <1>2, <1>4
    <3>2. z[Len(x) + (i - n)] = y[i - n] /\ y[i - n] = q[n + (i - n)]
      BY <3>1, <1>2, <1>3
    <3> QED  BY <3>1, <3>2
  <2> QED  BY <2>1, <2>2
<1>6. z = q
  BY <1>3, <1>4, <1>5, SeqEqual
<1> QED  BY <1>1, <1>6 DEF x, y, z
-----------------------------------------------------------------------------
(* Types.                                                                  *)

Tags == [key : Isks \cup {None}, own : Msg, other : Msg \cup {None}]
Box == [key : Isks \cup {None}, nonce : [dir : 1..2, count : Nat], inner : Type]
Frame ==
  [type : {"PAKE"}, size : {1}, data : Msg] \cup [type : {"CONFIRM"}, size : {1}, data : Tags]
    \cup [type : {"ENC"}, size : Nat \ {0}, data : Box]
Unit == [frame : Frame, unit : Nat] \cup [len : Nat]
Bodies == Seq(Unit)
-----------------------------------------------------------------------------
(* Streams.                                                                *)

WireOf(body) == [i \in 1..HeaderSize |-> [len |-> Len(body)]] \o body

\* b spells the wires of F, as far as it goes; at[i] is where the i-th ends.
Cuts(b, F, full, at) ==
  /\ at \in [0..Len(F) -> Nat] /\ at[0] = 0
  /\ \A i, j \in 0..Len(F) : i <= j => at[i] <= at[j]
  /\ \A i \in 1..Len(F) : at[i] = at[i - 1] + HeaderSize + Len(F[i])
  /\ \A i \in 1..Len(F) : \A k \in 1..(HeaderSize + Len(F[i])) :
       at[i - 1] + k <= Len(b) => b[at[i - 1] + k] = WireOf(F[i])[k]
  /\ Len(b) <= at[Len(F)] /\ (full => Len(b) = at[Len(F)])

Carries(b, F, full) == \E at : Cuts(b, F, full, at)

LEMMA WireOfProperties ==
  ASSUME NEW body \in Bodies
  PROVE  /\ WireOf(body) \in Bodies /\ Len(WireOf(body)) = HeaderSize + Len(body)
         /\ \A k \in 1..HeaderSize : WireOf(body)[k] = [len |-> Len(body)]
         /\ \A k \in 1..Len(body) : WireOf(body)[HeaderSize + k] = body[k]
<1> DEFINE h == [i \in 1..HeaderSize |-> [len |-> Len(body)]]
<1>1. h \in Seq(Unit) /\ Len(h) = HeaderSize /\ HeaderSize = 2
  <2>1. Len(body) \in Nat
    BY DEF Bodies
  <2>2. [len |-> Len(body)] \in Unit
    BY <2>1 DEF Unit
  <2>3. h \in [1..2 -> Unit] /\ 2 \in Nat
    BY <2>2 DEF HeaderSize
  <2> QED  BY <2>3 DEF HeaderSize
<1>2. body \in Seq(Unit) /\ Len(body) \in Nat
  BY DEF Bodies
<1>3. \A k \in 1..HeaderSize : h[k] = [len |-> Len(body)]
  OBVIOUS
<1> HIDE DEF h
<1>4. WireOf(body) = h \o body
  BY DEF h, WireOf
<1>5. /\ h \o body \in Seq(Unit) /\ Len(h \o body) = HeaderSize + Len(body)
      /\ \A k \in 1..HeaderSize : (h \o body)[k] = h[k]
      /\ \A k \in 1..Len(body) : (h \o body)[HeaderSize + k] = body[k]
  <2>1. h \in Seq(Unit) /\ body \in Seq(Unit)
    BY <1>1, <1>2
  <2>2. /\ h \o body \in Seq(Unit) /\ Len(h \o body) = Len(h) + Len(body)
        /\ \A k \in 1..Len(h) : (h \o body)[k] = h[k]
        /\ \A k \in 1..Len(body) : (h \o body)[Len(h) + k] = body[k]
    BY <2>1
  <2> QED  BY <2>2, <1>1
<1> QED  BY <1>3, <1>4, <1>5 DEF Bodies

LEMMA CarriesNothing == Carries(<<>>, <<>>, TRUE)
<1>1. Cuts(<<>>, <<>>, TRUE, [i \in 0..0 |-> 0])
  BY DEF Cuts
<1> QED  BY <1>1 DEF Carries

LEMMA CarriesFrame ==
  ASSUME NEW b \in Bodies, NEW F \in Seq(Bodies), NEW body \in Bodies,
         Carries(b, F, TRUE)
  PROVE  Carries(b \o WireOf(body), Append(F, body), TRUE)
<1> DEFINE G == Append(F, body)
           w == WireOf(body)
           n == Len(F)
           size == HeaderSize + Len(body)
<1>1. PICK at : Cuts(b, F, TRUE, at)
  BY DEF Carries
<1> DEFINE to == [i \in 0..(n + 1) |-> IF i <= n THEN at[i] ELSE at[n] + size]
<1>2. /\ n \in Nat /\ Len(G) = n + 1 /\ G[n + 1] = body /\ \A i \in 1..n : G[i] = F[i]
      /\ Len(body) \in Nat /\ size \in Nat /\ Len(b) \in Nat
      /\ \A i \in 1..n : Len(F[i]) \in Nat
  <2>1. Len(G) = n + 1 /\ G[n + 1] = body /\ \A i \in 1..n : G[i] = F[i]
    BY AppendProperties
  <2>2. \A i \in 1..n : F[i] \in Seq(Unit)
    BY DEF Bodies
  <2>3. Len(body) \in Nat /\ Len(b) \in Nat /\ n \in Nat
    BY DEF Bodies
  <2> QED  BY <2>1, <2>2, <2>3 DEF HeaderSize
<1>3. /\ b \in Seq(Unit) /\ w \in Seq(Unit) /\ Len(w) = size /\ Len(b \o w) = Len(b) + size
      /\ \A k \in 1..Len(b) : (b \o w)[k] = b[k]
      /\ \A k \in 1..size : (b \o w)[Len(b) + k] = w[k]
  <2>1. b \in Seq(Unit) /\ w \in Seq(Unit) /\ Len(w) = size
    BY WireOfProperties DEF Bodies
  <2> HIDE DEF w, size
  <2> QED  BY <2>1
<1>4. at \in [0..n -> Nat] /\ at[0] = 0 /\ at[n] = Len(b)
  BY <1>1 DEF Cuts
<1>5. to \in [0..Len(G) -> Nat] /\ to[0] = 0
  BY <1>2, <1>4
<1>6. to[n + 1] = Len(b) + size /\ \A i \in 0..n : to[i] = at[i]
  BY <1>2, <1>4
<1> HIDE DEF G, w, size, to, n
<1>7. \A i \in 0..n : at[i] <= Len(b)
  BY <1>1, <1>2, <1>4 DEF Cuts, n
<1>8. \A i, j \in 0..(n + 1) : i <= j => to[i] <= to[j]
  <2> SUFFICES ASSUME NEW i \in 0..(n + 1), NEW j \in 0..(n + 1), i <= j
               PROVE  to[i] <= to[j]
    OBVIOUS
  <2>1. CASE j <= n
    <3>1. i \in 0..n /\ j \in 0..n
      BY <2>1, <1>2
    <3> QED  BY <3>1, <1>1, <1>6 DEF Cuts, n
  <2>2. CASE j = n + 1 /\ i <= n
    <3>1. i \in 0..n
      BY <2>2, <1>2
    <3>2. at[i] \in Nat /\ at[i] <= Len(b)
      BY <3>1, <1>4, <1>7
    <3> QED  BY <3>1, <3>2, <2>2, <1>2, <1>6
  <2>3. CASE j = n + 1 /\ i = n + 1
    BY <2>3, <1>2, <1>6
  <2> QED  BY <2>1, <2>2, <2>3, <1>2
<1>9. ASSUME NEW i \in 1..(n + 1) PROVE to[i] = to[i - 1] + HeaderSize + Len(G[i])
  <2>1. CASE i <= n
    <3>1. i \in 1..n /\ i - 1 \in 0..n
      BY <2>1, <1>2
    <3>2. at[i] = at[i - 1] + HeaderSize + Len(F[i])
      BY <3>1, <1>1 DEF Cuts, n
    <3> QED  BY <3>1, <3>2, <1>2, <1>6
  <2>2. CASE i = n + 1
    <3>1. to[i - 1] = Len(b)
      BY <2>2, <1>2, <1>4, <1>6
    <3> QED  BY <3>1, <2>2, <1>2, <1>6 DEF size, HeaderSize
  <2> QED  BY <2>1, <2>2, <1>2
<1>10. ASSUME NEW i \in 1..(n + 1), NEW k \in 1..(HeaderSize + Len(G[i])),
              to[i - 1] + k <= Len(b \o w)
       PROVE  (b \o w)[to[i - 1] + k] = WireOf(G[i])[k]
  <2>1. CASE i <= n
    <3>1. i \in 1..n /\ i - 1 \in 0..n /\ i \in 0..n
      BY <2>1, <1>2
    <3>2. at[i] = at[i - 1] + HeaderSize + Len(F[i]) /\ at[i] <= Len(b)
      BY <3>1, <1>1, <1>7 DEF Cuts, n
    <3>3. k \in 1..(HeaderSize + Len(F[i])) /\ at[i - 1] \in Nat /\ Len(F[i]) \in Nat
      BY <3>1, <1>2, <1>4
    <3>4. at[i - 1] + k \in 1..Len(b)
      BY <3>2, <3>3, <1>2, SMTT(30) DEF HeaderSize
    <3>5. b[at[i - 1] + k] = WireOf(F[i])[k]
      BY <3>1, <3>3, <3>4, <1>1 DEF Cuts, n
    <3> QED  BY <3>1, <3>4, <3>5, <1>2, <1>3, <1>6
  <2>2. CASE i = n + 1
    <3>1. to[i - 1] = Len(b) /\ G[i] = body
      BY <2>2, <1>2, <1>4, <1>6
    <3>2. k \in 1..size
      BY <3>1 DEF size
    <3> QED  BY <3>1, <3>2, <1>3 DEF w
  <2>3. i <= n \/ i = n + 1
    BY <1>2
  <2> QED  BY <2>1, <2>2, <2>3
<1>11. Len(b \o w) = to[Len(G)]
  BY <1>2, <1>3, <1>6
<1>12. Cuts(b \o w, G, TRUE, to)
  <2>1. \A i, j \in 0..Len(G) : i <= j => to[i] <= to[j]
    BY <1>8, <1>2
  <2>2. Len(b \o w) <= to[Len(G)]
    BY <1>11, <1>3, <1>2
  <2>3. \A i \in 1..Len(G) : to[i] = to[i - 1] + HeaderSize + Len(G[i])
    BY <1>2, <1>9
  <2>4. \A i \in 1..Len(G) : \A k \in 1..(HeaderSize + Len(G[i])) :
          to[i - 1] + k <= Len(b \o w) => (b \o w)[to[i - 1] + k] = WireOf(G[i])[k]
    BY <1>2, <1>10
  <2> QED  BY <2>1, <2>2, <2>3, <2>4, <1>5, <1>11, Zenon DEF Cuts
<1> QED  BY <1>12 DEF Carries, G, w

\* A frame written to a connection that is gone.
LEMMA CarriesLost ==
  ASSUME NEW b, NEW F \in Seq(Bodies), NEW body \in Bodies,
         Len(b) \in Nat, Carries(b, F, FALSE)
  PROVE  Carries(b, Append(F, body), FALSE)
<1> DEFINE G == Append(F, body)
           n == Len(F)
           size == HeaderSize + Len(body)
<1>1. PICK at : Cuts(b, F, FALSE, at)
  BY DEF Carries
<1> DEFINE to == [i \in 0..(n + 1) |-> IF i <= n THEN at[i] ELSE at[n] + size]
<1>2. /\ n \in Nat /\ Len(G) = n + 1 /\ G[n + 1] = body /\ \A i \in 1..n : G[i] = F[i]
      /\ size \in Nat
  <2>1. Len(G) = n + 1 /\ G[n + 1] = body /\ \A i \in 1..n : G[i] = F[i]
    BY AppendProperties
  <2>2. Len(body) \in Nat /\ n \in Nat
    BY DEF Bodies
  <2> QED  BY <2>1, <2>2 DEF HeaderSize
<1>3. at \in [0..n -> Nat] /\ at[0] = 0 /\ Len(b) <= at[n]
  BY <1>1 DEF Cuts
<1>4. to \in [0..Len(G) -> Nat] /\ to[0] = 0
  BY <1>2, <1>3
<1>5. to[n + 1] = at[n] + size /\ \A i \in 0..n : to[i] = at[i]
  BY <1>2, <1>3
<1>6. \A i, j \in 0..n : i <= j => at[i] <= at[j]
  BY <1>1 DEF Cuts
<1>7. \A i \in 1..n : at[i] = at[i - 1] + HeaderSize + Len(F[i])
  BY <1>1 DEF Cuts
<1>8. \A i \in 1..n : \A k \in 1..(HeaderSize + Len(F[i])) :
        at[i - 1] + k <= Len(b) => b[at[i - 1] + k] = WireOf(F[i])[k]
  BY <1>1 DEF Cuts
<1> HIDE DEF G, to, n, size
<1>9. \A i, j \in 0..(n + 1) : i <= j => to[i] <= to[j]
  <2> SUFFICES ASSUME NEW i \in 0..(n + 1), NEW j \in 0..(n + 1), i <= j
               PROVE  to[i] <= to[j]
    OBVIOUS
  <2>1. CASE j <= n
    <3>1. i \in 0..n /\ j \in 0..n
      BY <2>1, <1>2
    <3> QED  BY <3>1, <1>5, <1>6
  <2>2. CASE j = n + 1 /\ i <= n
    <3>1. i \in 0..n /\ n \in 0..n
      BY <2>2, <1>2
    <3>2. at[i] \in Nat /\ at[n] \in Nat /\ at[i] <= at[n]
      BY <3>1, <1>3, <1>6
    <3> QED  BY <3>1, <3>2, <2>2, <1>2, <1>5
  <2>3. CASE j = n + 1 /\ i = n + 1
    <3>1. to[n + 1] \in Nat
      BY <1>2, <1>4
    <3> QED  BY <3>1, <2>3
  <2> QED  BY <2>1, <2>2, <2>3, <1>2
<1>10. ASSUME NEW i \in 1..(n + 1) PROVE to[i] = to[i - 1] + HeaderSize + Len(G[i])
  <2>1. CASE i <= n
    <3>1. i \in 1..n /\ i \in 0..n /\ i - 1 \in 0..n
      BY <2>1, <1>2
    <3> QED  BY <3>1, <1>2, <1>5, <1>7
  <2>2. CASE i = n + 1
    <3>1. n \in 0..n /\ i - 1 = n
      BY <2>2, <1>2
    <3>2. at[n] \in Nat /\ to[i - 1] = at[n] /\ Len(body) \in Nat /\ G[i] = body
      BY <2>2, <3>1, <1>2, <1>3, <1>5 DEF Bodies
    <3> QED  BY <3>2, <2>2, <1>5 DEF HeaderSize, size
  <2>3. i <= n \/ i = n + 1
    BY <1>2
  <2> QED  BY <2>1, <2>2, <2>3
<1>11. ASSUME NEW i \in 1..(n + 1), NEW k \in 1..(HeaderSize + Len(G[i])),
              to[i - 1] + k <= Len(b)
       PROVE  b[to[i - 1] + k] = WireOf(G[i])[k]
  <2>1. CASE i <= n
    BY <2>1, <1>2, <1>5, <1>8, <1>11
  <2>2. CASE i = n + 1
    <3>1. to[i - 1] = at[n] /\ at[n] \in Nat
      BY <2>2, <1>2, <1>3, <1>5
    <3> QED  BY <3>1, <1>3, <1>11
  <2> QED  BY <2>1, <2>2, <1>2
<1>12. Len(b) <= to[Len(G)]
  <2>1. at[n] \in Nat
    BY <1>2, <1>3
  <2> QED  BY <2>1, <1>2, <1>3, <1>5
<1>13. Cuts(b, G, FALSE, to)
  <2>1. \A i, j \in 0..Len(G) : i <= j => to[i] <= to[j]
    BY <1>9, <1>2
  <2>2. \A i \in 1..Len(G) : to[i] = to[i - 1] + HeaderSize + Len(G[i])
    BY <1>2, <1>10
  <2>3. \A i \in 1..Len(G) : \A k \in 1..(HeaderSize + Len(G[i])) :
          to[i - 1] + k <= Len(b) => b[to[i - 1] + k] = WireOf(G[i])[k]
    BY <1>2, <1>11
  <2> QED  BY <2>1, <2>2, <2>3, <1>4, <1>12, Zenon DEF Cuts
<1> QED  BY <1>13 DEF Carries, G

\* A connection that dies cuts the stream short.
LEMMA CarriesPrefix ==
  ASSUME NEW b \in Bodies, NEW F \in Seq(Bodies), NEW full, Carries(b, F, full),
         NEW n \in 0..Len(b)
  PROVE  Carries(SubSeq(b, 1, n), F, FALSE)
<1>1. PICK at : Cuts(b, F, full, at)
  BY DEF Carries
<1>2. /\ Len(SubSeq(b, 1, n)) = n /\ n <= Len(b) /\ n \in Nat /\ Len(b) \in Nat
      /\ \A k \in 1..n : SubSeq(b, 1, n)[k] = b[k]
  BY DEF Bodies
<1>3. at \in [0..Len(F) -> Nat] /\ Len(b) <= at[Len(F)] /\ Len(F) \in Nat
  BY <1>1 DEF Cuts
<1>4. n <= at[Len(F)]
  <2>1. at[Len(F)] \in Nat
    BY <1>3
  <2> QED  BY <2>1, <1>2, <1>3
<1>5. ASSUME NEW i \in 1..Len(F), NEW k \in 1..(HeaderSize + Len(F[i])), at[i - 1] + k <= n
      PROVE  SubSeq(b, 1, n)[at[i - 1] + k] = WireOf(F[i])[k]
  <2>1. at[i - 1] \in Nat /\ Len(F[i]) \in Nat
    <3>1. i - 1 \in 0..Len(F) /\ F[i] \in Bodies
      BY <1>3
    <3>2. F[i] \in Seq(Unit)
      BY <3>1 DEF Bodies
    <3> QED  BY <3>1, <3>2, <1>3, SMTT(30)
  <2>2. at[i - 1] + k \in 1..n
    BY <2>1, <1>2, <1>5 DEF HeaderSize
  <2>3. b[at[i - 1] + k] = WireOf(F[i])[k]
    BY <2>1, <2>2, <1>1, <1>2 DEF Cuts
  <2> QED  BY <2>2, <2>3, <1>2
<1>6. Cuts(SubSeq(b, 1, n), F, FALSE, at)
  BY <1>1, <1>2, <1>4, <1>5 DEF Cuts
<1> QED  BY <1>6 DEF Carries

\* A buffer that starts with a whole frame starts with the first one.
LEMMA CarriesFirst ==
  ASSUME NEW b \in Bodies, NEW u \in Bodies, NEW F \in Seq(Bodies), NEW full,
         Carries(b \o u, F, full), Whole(b)
  PROVE  /\ F # <<>> /\ First(b) = Head(F) /\ Rest(b) \in Bodies
         /\ Carries(Rest(b) \o u, Tail(F), full)
<1> DEFINE c == b \o u
<1>1. PICK at : Cuts(c, F, full, at)
  BY DEF Carries
<1>2. /\ b \in Seq(Unit) /\ u \in Seq(Unit) /\ Len(b) \in Nat /\ Len(u) \in Nat
      /\ Len(c) = Len(b) + Len(u) /\ \A k \in 1..Len(b) : c[k] = b[k]
      /\ \A k \in 1..Len(u) : c[Len(b) + k] = u[k]
  <2>1. b \in Seq(Unit) /\ u \in Seq(Unit)
    BY DEF Bodies
  <2> QED  BY <2>1
<1> HIDE DEF c
<1>3. Len(b) >= 2 /\ Len(c) >= 2
  BY <1>2 DEF Whole, HeaderSize
<1>4. at \in [0..Len(F) -> Nat] /\ at[0] = 0 /\ Len(c) <= at[Len(F)] /\ Len(F) \in Nat
  BY <1>1 DEF Cuts
<1>5. Len(F) >= 1 /\ F # <<>> /\ F[1] \in Bodies /\ Head(F) = F[1]
  <2>1. Len(F) # 0
    BY <1>2, <1>3, <1>4
  <2> QED  BY <2>1, <1>4
<1> DEFINE len == Len(F[1])
           m == 2 + len
<1>6. F[1] \in Seq(Unit) /\ len \in Nat /\ m \in Nat
  BY <1>5 DEF Bodies
<1>7. \A k \in 1..m : k <= Len(c) => c[k] = WireOf(F[1])[k]
  <2> SUFFICES ASSUME NEW k \in 1..m, k <= Len(c) PROVE c[k] = WireOf(F[1])[k]
    OBVIOUS
  <2>1. at[1 - 1] + k = k
    BY <1>4
  <2> QED  BY <2>1, <1>1, <1>5, <1>6 DEF Cuts, HeaderSize
<1>8. b[1].len = len
  <2>1. 1 \in 1..m /\ 1 \in 1..Len(b) /\ 1 \in 1..HeaderSize /\ 1 <= Len(c)
    BY <1>2, <1>3, <1>6 DEF HeaderSize
  <2>2. b[1] = WireOf(F[1])[1]
    BY <2>1, <1>2, <1>7
  <2>3. WireOf(F[1])[1] = [len |-> len]
    BY <2>1, <1>5, WireOfProperties
  <2> QED  BY <2>2, <2>3
<1>9. Len(b) >= m
  BY <1>8 DEF Whole, HeaderSize
<1>10. First(b) = F[1]
  <2>1. First(b) = SubSeq(b, 3, 2 + len)
    <3>1. HeaderSize + 1 = 3 /\ HeaderSize + b[1].len = 2 + len
      BY <1>8 DEF HeaderSize
    <3> QED  BY <3>1 DEF First
  <2>2. First(b) \in Seq(Unit) /\ Len(First(b)) = len
        /\ \A k \in 1..len : First(b)[k] = b[2 + k]
    BY <2>1, <1>2, <1>6, <1>9
  <2>3. ASSUME NEW k \in 1..len PROVE First(b)[k] = F[1][k]
    <3>1. 2 + k \in 1..m /\ 2 + k \in 1..Len(b) /\ 2 + k <= Len(c)
      BY <1>2, <1>6, <1>9
    <3>2. b[2 + k] = WireOf(F[1])[2 + k]
      BY <3>1, <1>2, <1>7
    <3>3. WireOf(F[1])[2 + k] = F[1][k]
      BY <1>5, WireOfProperties DEF HeaderSize
    <3> QED  BY <3>2, <3>3, <2>2
  <2> QED  BY <2>2, <2>3, <1>6, SeqEqual
<1>11. Rest(b) = Drop(b, m) /\ m \in 0..Len(b)
  BY <1>2, <1>6, <1>8, <1>9 DEF Rest, HeaderSize
<1>12. Rest(b) \in Seq(Unit) /\ Len(Rest(b)) = Len(b) - m
       /\ \A k \in 1..(Len(b) - m) : Rest(b)[k] = b[m + k]
  <2> HIDE DEF m
  <2> QED  BY <1>2, <1>11, DropElements, ZenonT(40)
<1> DEFINE d == Rest(b) \o u
<1>13. Len(d) = Len(c) - m /\ \A k \in 1..(Len(c) - m) : d[k] = c[m + k]
  <2>1. /\ Len(d) = Len(Rest(b)) + Len(u) /\ \A k \in 1..Len(Rest(b)) : d[k] = Rest(b)[k]
        /\ \A k \in 1..Len(u) : d[Len(Rest(b)) + k] = u[k]
    <3>1. Rest(b) \in Seq(Unit) /\ u \in Seq(Unit)
      BY <1>2, <1>12
    <3> QED  BY <3>1, ConcatElements
  <2> HIDE DEF d, m
  <2>2. ASSUME NEW k \in 1..(Len(c) - m) PROVE d[k] = c[m + k]
    <3>1. CASE k <= Len(b) - m
      <4>1. k \in 1..(Len(b) - m) /\ m + k \in 1..Len(b)
        BY <3>1, <1>2, <1>6
      <4> QED  BY <4>1, <2>1, <1>2, <1>12
    <3>2. CASE k > Len(b) - m
      <4> DEFINE l == k - (Len(b) - m)
      <4>1. l \in 1..Len(u) /\ k = Len(Rest(b)) + l /\ m + k = Len(b) + l
        BY <3>2, <1>2, <1>6, <1>12
      <4> HIDE DEF l
      <4> QED  BY <4>1, <2>1, <1>2
    <3> QED  BY <3>1, <3>2, <1>2, <1>6
  <2> QED  BY <2>1, <2>2, <1>2, <1>6, <1>12
<1> DEFINE G == Tail(F)
           n == Len(F) - 1
           to == [i \in 0..n |-> at[i + 1] - m]
<1>14. n \in Nat /\ Len(G) = n /\ \A i \in 1..n : G[i] = F[i + 1]
  BY <1>4, <1>5
<1> HIDE DEF c, d, G, n, m, len
<1>15. at[1] = m
  <2>1. 1 \in 1..Len(F) /\ 1 - 1 = 0
    BY <1>4, <1>5
  <2>2. at[1] = at[0] + HeaderSize + Len(F[1])
    BY <2>1, <1>1 DEF Cuts
  <2> QED  BY <2>2, <1>4, <1>6 DEF HeaderSize, m, len
<1>16. \A i \in 0..n : i + 1 \in 0..Len(F) /\ to[i] = at[i + 1] - m /\ to[i] \in Nat
  <2> SUFFICES ASSUME NEW i \in 0..n
               PROVE  i + 1 \in 0..Len(F) /\ at[i + 1] - m \in Nat
    OBVIOUS
  <2>1. i + 1 \in 0..Len(F) /\ 1 \in 0..Len(F) /\ 1 <= i + 1
    BY <1>4, <1>5 DEF n
  <2>2. at[1] <= at[i + 1] /\ at[i + 1] \in Nat
    BY <2>1, <1>1, <1>4 DEF Cuts
  <2> QED  BY <2>1, <2>2, <1>6, <1>15
<1> HIDE DEF to
<1>17. to \in [0..Len(G) -> Nat] /\ to[0] = 0
  <2>1. to \in [0..n -> Nat]
    BY <1>16 DEF to
  <2>2. 0 \in 0..n
    BY <1>14
  <2>3. to[0] = at[1] - m
    BY <2>2, <1>16
  <2> QED  BY <2>1, <2>3, <1>6, <1>14, <1>15
<1>18. \A i, j \in 0..Len(G) : i <= j => to[i] <= to[j]
  <2> SUFFICES ASSUME NEW i \in 0..n, NEW j \in 0..n, i <= j PROVE to[i] <= to[j]
    BY <1>14
  <2>1. i + 1 \in 0..Len(F) /\ j + 1 \in 0..Len(F) /\ i + 1 <= j + 1
    BY <1>16
  <2>2. at[i + 1] <= at[j + 1] /\ at[i + 1] \in Nat /\ at[j + 1] \in Nat
    BY <2>1, <1>1, <1>4 DEF Cuts
  <2> QED  BY <2>2, <1>6, <1>16
<1>19. ASSUME NEW i \in 1..Len(G) PROVE to[i] = to[i - 1] + HeaderSize + Len(G[i])
  <2>1. i \in 0..n /\ i - 1 \in 0..n /\ i + 1 \in 1..Len(F) /\ (i - 1) + 1 = i
        /\ (i + 1) - 1 = i /\ i \in 0..Len(F) /\ i + 1 \in 0..Len(F)
    BY <1>4, <1>14 DEF n
  <2>2. at[i + 1] = at[i] + HeaderSize + Len(F[i + 1])
    BY <2>1, <1>1 DEF Cuts
  <2>3. F[i + 1] \in Seq(Unit)
    BY <2>1 DEF Bodies
  <2>4. to[i] = at[i + 1] - m /\ to[i - 1] = at[i] - m /\ G[i] = F[i + 1]
    BY <2>1, <1>14, <1>16
  <2>5. at[i] \in Nat /\ at[i + 1] \in Nat /\ Len(F[i + 1]) \in Nat
    BY <2>1, <2>3, <1>4
  <2> QED  BY <2>2, <2>4, <2>5, <1>6, SMTT(30) DEF HeaderSize
<1>20. ASSUME NEW i \in 1..Len(G), NEW k \in 1..(HeaderSize + Len(G[i])),
              to[i - 1] + k <= Len(d)
       PROVE  d[to[i - 1] + k] = WireOf(G[i])[k]
  <2>1. i - 1 \in 0..n /\ i + 1 \in 1..Len(F) /\ (i - 1) + 1 = i /\ (i + 1) - 1 = i
        /\ i \in 0..Len(F) /\ G[i] = F[i + 1] /\ i \in 1..n
    BY <1>4, <1>14 DEF n
  <2>2. to[i - 1] = at[i] - m /\ to[i - 1] \in Nat /\ at[i] \in Nat
    BY <2>1, <1>4, <1>16
  <2>3. F[i + 1] \in Seq(Unit)
    BY <2>1 DEF Bodies
  <2>4. Len(G[i]) \in Nat
    BY <2>1, <2>3
  <2>5. at[i] + k <= Len(c) /\ to[i - 1] + k \in 1..(Len(c) - m)
        /\ m + (to[i - 1] + k) = at[i] + k
    <3>1. k \in Nat /\ k >= 1 /\ Len(c) \in Nat /\ Len(d) = Len(c) - m /\ m \in Nat
      BY <2>4, <1>2, <1>6, <1>13 DEF HeaderSize
    <3> QED  BY <3>1, <2>2, <1>20, SMTT(30)
  <2>6. c[at[i] + k] = WireOf(F[i + 1])[k]
    BY <2>1, <2>5, <1>1 DEF Cuts
  <2> QED  BY <2>1, <2>5, <2>6, <1>13
<1>21. Len(d) <= to[Len(G)] /\ (full => Len(d) = to[Len(G)])
  <2>1. n \in 0..n /\ n + 1 = Len(F) /\ Len(F) \in 0..Len(F)
    BY <1>4, <1>14 DEF n
  <2>2. to[Len(G)] = at[Len(F)] - m /\ at[Len(F)] \in Nat
    BY <2>1, <1>4, <1>14, <1>16
  <2>3. Len(c) <= at[Len(F)] /\ (full => Len(c) = at[Len(F)])
    BY <1>1 DEF Cuts
  <2> QED  BY <2>2, <2>3, <1>2, <1>6, <1>13
<1>22. Cuts(d, G, full, to)
  BY <1>17, <1>18, <1>19, <1>20, <1>21, Zenon DEF Cuts
<1>23. Carries(d, G, full)
  BY <1>22 DEF Carries
<1> QED  BY <1>5, <1>10, <1>12, <1>23 DEF d, G, Bodies

LEMMA DropAll ==
  ASSUME NEW S, NEW F \in Seq(S), NEW n \in 0..Len(F), n # Len(F)
  PROVE  /\ Drop(F, n) # <<>> /\ Head(Drop(F, n)) = F[n + 1]
         /\ Tail(Drop(F, n)) = Drop(F, n + 1)
         /\ SubSeq(F, 1, n + 1) = Append(SubSeq(F, 1, n), F[n + 1])
<1>1. n + 1 \in 1..Len(F) /\ Len(F) \in Nat /\ n + 1 \in 0..Len(F)
  OBVIOUS
<1>2. Drop(F, n) \in Seq(S) /\ Len(Drop(F, n)) = Len(F) - n
      /\ \A k \in 1..(Len(F) - n) : Drop(F, n)[k] = F[n + k]
  BY DropElements
<1>3. Head(Drop(F, n)) = F[n + 1] /\ Drop(F, n) # <<>>
  BY <1>1, <1>2
<1>4. /\ Drop(F, n + 1) \in Seq(S) /\ Len(Drop(F, n + 1)) = Len(F) - (n + 1)
      /\ \A k \in 1..(Len(F) - (n + 1)) : Drop(F, n + 1)[k] = F[(n + 1) + k]
  <2> DEFINE m == n + 1
  <2>1. m \in 0..Len(F)
    BY <1>1
  <2> HIDE DEF m
  <2>2. /\ Drop(F, m) \in Seq(S) /\ Len(Drop(F, m)) = Len(F) - m
        /\ \A k \in 1..(Len(F) - m) : Drop(F, m)[k] = F[m + k]
    BY <2>1, DropElements
  <2> QED  BY <2>2 DEF m
<1>5. Tail(Drop(F, n)) = Drop(F, n + 1)
  <2> DEFINE t == Tail(Drop(F, n))
             d == Drop(F, n + 1)
  <2>1. t \in Seq(S) /\ Len(t) = Len(F) - (n + 1)
        /\ \A k \in 1..Len(t) : t[k] = Drop(F, n)[k + 1]
    BY <1>1, <1>2, <1>3, HeadTailProperties
  <2>2. \A k \in 1..Len(t) : t[k] = d[k]
    <3> SUFFICES ASSUME NEW k \in 1..Len(t) PROVE t[k] = d[k]
      OBVIOUS
    <3>1. k + 1 \in 1..(Len(F) - n) /\ k \in 1..(Len(F) - (n + 1)) /\ n + (k + 1) = (n + 1) + k
      BY <1>1, <2>1
    <3> QED  BY <3>1, <2>1, <1>2, <1>4
  <2> HIDE DEF t, d
  <2>3. t = d
    BY <2>1, <2>2, <1>4, SeqEqual DEF d
  <2> QED  BY <2>3 DEF t, d
<1>6. SubSeq(F, 1, n + 1) = Append(SubSeq(F, 1, n), F[n + 1])
  BY <1>1
<1> QED  BY <1>3, <1>5, <1>6

\* _push: the frames that a buffer yields are the first ones, and what is left of
\* it carries the others.
LEMMA PullCarries ==
  ASSUME NEW b \in Bodies, NEW u \in Bodies, NEW F \in Seq(Bodies), NEW full,
         Carries(b \o u, F, full)
  PROVE  \E n \in 0..Len(F) :
           /\ Pull(b).frames = SubSeq(F, 1, n)
           /\ Pull(b).rest \in Bodies /\ Carries(Pull(b).rest \o u, Drop(F, n), full)
<1> DEFINE S == {p \in [frames : Seq(Bodies), rest : Bodies] :
                   \E n \in 0..Len(F) : p.frames = SubSeq(F, 1, n)
                                        /\ Carries(p.rest \o u, Drop(F, n), full)}
           c == [frames |-> <<>>, rest |-> b]
           Cut1(p) == [frames |-> Append(p.frames, First(p.rest)), rest |-> Rest(p.rest)]
           D == [p \in S |-> IF Whole(p.rest) THEN Cut1(p) ELSE p]
           Table(g) == g = [n \in 0..Len(b) |->
                              IF n = 0 THEN c
                              ELSE IF Whole(g[n - 1].rest)
                              THEN [frames |-> Append(g[n - 1].frames, First(g[n - 1].rest)),
                                    rest |-> Rest(g[n - 1].rest)]
                              ELSE g[n - 1]]
<1>1. c \in S
  <2>1. SubSeq(F, 1, 0) = <<>> /\ Drop(F, 0) = F /\ 0 \in 0..Len(F)
    <3>1. Drop(F, 0) = SubSeq(F, 1, Len(F))
      BY DEF Drop
    <3> QED  BY <3>1, SubSeqFull
  <2>2. c \in [frames : Seq(Bodies), rest : Bodies] /\ c.frames = <<>> /\ c.rest = b
    OBVIOUS
  <2> HIDE DEF c
  <2> QED  BY <2>1, <2>2
<1>2. ASSUME NEW p \in S, Whole(p.rest) PROVE Cut1(p) \in S
  <2>1. PICK n \in 0..Len(F) : p.frames = SubSeq(F, 1, n)
                              /\ Carries(p.rest \o u, Drop(F, n), full)
    OBVIOUS
  <2>2. p.rest \in Bodies /\ p.frames \in Seq(Bodies) /\ Len(F) \in Nat
    OBVIOUS
  <2>3. Drop(F, n) \in Seq(Bodies)
    BY DropElements
  <2>4. /\ Drop(F, n) # <<>> /\ First(p.rest) = Head(Drop(F, n)) /\ Rest(p.rest) \in Bodies
        /\ Carries(Rest(p.rest) \o u, Tail(Drop(F, n)), full)
    BY <1>2, <2>1, <2>2, <2>3, CarriesFirst
  <2>5. n # Len(F)
    <3>1. Len(Drop(F, n)) = Len(F) - n
      BY DropElements
    <3> QED  BY <3>1, <2>2, <2>3, <2>4
  <2>6. n + 1 \in 0..Len(F) /\ F[n + 1] \in Bodies
    BY <2>2, <2>5
  <2>7. /\ Head(Drop(F, n)) = F[n + 1] /\ Tail(Drop(F, n)) = Drop(F, n + 1)
        /\ SubSeq(F, 1, n + 1) = Append(SubSeq(F, 1, n), F[n + 1])
    BY <2>5, DropAll
  <2>8. Append(p.frames, First(p.rest)) \in Seq(Bodies)
    BY <2>2, <2>4, <2>6, <2>7
  <2> HIDE DEF S
  <2>9. Cut1(p) \in [frames : Seq(Bodies), rest : Bodies]
        /\ Cut1(p).frames = SubSeq(F, 1, n + 1)
        /\ Carries(Cut1(p).rest \o u, Drop(F, n + 1), full)
    BY <2>1, <2>4, <2>7, <2>8
  <2> QED  BY <2>6, <2>9 DEF S
<1> HIDE DEF S, c
<1>3. D \in [S -> S]
  BY <1>2
<1>4. Len(b) \in Nat
  BY DEF Bodies
<1> HIDE DEF D
<1>5. PICK g \in [0..Len(b) -> S] : g[0] = c /\ \A i \in 1..Len(b) : g[i] = D[g[i - 1]]
  <2> DEFINE m == Len(b)
  <2> HIDE DEF m
  <2>1. m \in Nat
    BY <1>4 DEF m
  <2>2. \E g \in [0..m -> S] : Orbit(g, c, D, m)
    BY <2>1, <1>1, <1>3, Iterates
  <2> QED  BY <2>2 DEF m, Orbit
<1>6. Table(g)
  <2> DEFINE h == [n \in 0..Len(b) |->
                     IF n = 0 THEN c
                     ELSE IF Whole(g[n - 1].rest) THEN Cut1(g[n - 1]) ELSE g[n - 1]]
  <2>1. ASSUME NEW n \in 0..Len(b) PROVE g[n] = h[n]
    <3>1. CASE n = 0
      BY <3>1, <1>5
    <3>2. CASE n # 0
      <4>1. n \in 1..Len(b) /\ g[n - 1] \in S
        BY <3>2, <1>4
      <4> QED  BY <4>1, <3>2, <1>5 DEF D
    <3> QED  BY <3>1, <3>2
  <2>2. g = h
    BY <2>1
  <2> QED  BY <2>2
<1>7. Table(CHOOSE t : Table(t))
  <2> HIDE DEF Table
  <2> QED  BY <1>6, Zenon
<1> DEFINE t == CHOOSE t : Table(t)
<1>8. Pull(b) = t[Len(b)]
  BY DEF Pull, c
<1> HIDE DEF t, Table
<1>9. t \in [0..Len(b) -> S]
  <2> DEFINE N == {k \in Nat : k \in 0..Len(b) => t[k] = g[k]}
  <2>1. \A n \in 0..Len(b) : t[n] = IF n = 0 THEN c
                                  ELSE IF Whole(t[n - 1].rest) THEN Cut1(t[n - 1]) ELSE t[n - 1]
    BY <1>7 DEF t, Table
  <2>2. DOMAIN t = 0..Len(b)
    BY <1>7 DEF t, Table
  <2>3. 0 \in N
    BY <2>1, <1>4, <1>5
  <2>4. ASSUME NEW k \in Nat, k \in N PROVE k + 1 \in N
    <3> SUFFICES ASSUME k + 1 \in 0..Len(b) PROVE t[k + 1] = g[k + 1]
      OBVIOUS
    <3>1. t[k] = g[k] /\ (k + 1) - 1 = k /\ k + 1 # 0
      BY <2>4, <1>4
    <3>2. \A n \in 0..Len(b) : g[n] = IF n = 0 THEN c
                                  ELSE IF Whole(g[n - 1].rest) THEN Cut1(g[n - 1]) ELSE g[n - 1]
      BY <1>6 DEF Table
    <3> QED  BY <3>1, <3>2, <2>1
  <2> HIDE DEF N
  <2>5. Nat \subseteq N
    BY <2>3, <2>4, Induction
  <2>6. \A n \in 0..Len(b) : t[n] = g[n]
    BY <2>5, <1>4 DEF N
  <2>7. t = [n \in 0..Len(b) |-> t[n]]
    BY <1>7 DEF t, Table
  <2> QED  BY <2>6, <2>7
<1>10. Pull(b) \in S
  BY <1>4, <1>8, <1>9
<1> QED  BY <1>10 DEF S

LEMMA CarriesLess ==
  ASSUME NEW b \in Bodies, NEW o \in Bodies, NEW F \in Seq(Bodies), NEW full,
         Carries(b \o o, F, full), NEW n \in 0..Len(o)
  PROVE  Carries(b \o SubSeq(o, 1, n), F, FALSE)
<1>1. b \in Seq(Unit) /\ o \in Seq(Unit) /\ Len(b) \in Nat /\ Len(o) \in Nat
  BY DEF Bodies
<1>2. b \o o \in Bodies /\ Len(b) + n \in 0..Len(b \o o)
  BY <1>1 DEF Bodies
<1>3. b \o SubSeq(o, 1, n) = SubSeq(b \o o, 1, Len(b) + n)
  BY <1>1
<1> QED  BY <1>2, <1>3, CarriesPrefix
-----------------------------------------------------------------------------
(* The invariant.                                                          *)

Steps == {"run", "drain", "wait", "done", "failed"}

SessionTypes ==
  /\ pass \in [Side -> Pass] /\ pc \in [Side -> Nat \ {0}] /\ st \in [Side -> Steps]
  /\ key \in [Side -> Isks \cup {None}] /\ remote \in [Side -> Msg \cup {None}]
  /\ tx \in [Side -> Nat] /\ alive \in BOOLEAN
  /\ out \in [Side -> Bodies] /\ buffered \in [Side -> Bodies]
  /\ queue \in [Side -> Seq(Bodies)]
  /\ sent \in [Side -> Seq(Bodies)] /\ got \in [Side -> Seq(Bodies)]

\* a has been read and q is queued of what the peer sent, F, in order; b is on
\* its way and carries the rest, all of it as long as the connection is there.
Streaming(over, a, q, F, b, live) ==
  /\ over => IsPrefix(a, F)
  /\ ~over => /\ Len(a) + Len(q) <= Len(F) /\ a \o q = SubSeq(F, 1, Len(a) + Len(q))
              /\ Carries(b, Drop(F, Len(a) + Len(q)), live)

Stream(s) ==
  Streaming(Over(s), got[s], queue[s], sent[Peer(s)], buffered[s] \o out[Peer(s)], alive)

PakeFrame(s) == [type |-> "PAKE", size |-> 1, data |-> Message(s)]
ConfirmFrame(s) ==
  [type |-> "CONFIRM", size |-> 1, data |-> Tag(key[s], Message(s), remote[s])]
Nonce(s, n) == [dir |-> IF s = "sender" THEN 1 ELSE 2, count |-> n]
SealedFrame(s, size, n, t) ==
  [type |-> "ENC", size |-> size,
   data |-> [key |-> key[s], nonce |-> Nonce(s, n), inner |-> t]]

\* What s sends: its CPace message, its tag, then frames sealed in turn.
SentFrames(s) ==
  /\ Len(sent[s]) >= 1 => sent[s][1] = Body(PakeFrame(s))
  /\ Len(sent[s]) >= 2 => sent[s][2] = Body(ConfirmFrame(s))
  /\ \A i \in 3..Len(sent[s]) :
       \E size \in Nat \ {0}, t \in Type : sent[s][i] = Body(SealedFrame(s, size, i - 3, t))

\* How far s is in the handshake, by what it has sent and read.
Early(s) ==
  /\ pc[s] = 1 =>
       /\ st[s] \in {"run", "drain", "failed"} /\ Len(sent[s]) <= 1
       /\ (st[s] = "run" => Len(sent[s]) = 0) /\ (st[s] = "drain" => Len(sent[s]) = 1)
       /\ Len(got[s]) = 0
  /\ pc[s] = 2 =>
       /\ st[s] \in {"run", "wait", "failed"} /\ Len(sent[s]) = 1
       /\ st[s] # "failed" => Len(got[s]) = 0
  /\ pc[s] = 3 =>
       /\ st[s] \in {"run", "drain", "failed"} /\ Len(sent[s]) \in 1..2
       /\ (st[s] = "run" => Len(sent[s]) = 1) /\ (st[s] = "drain" => Len(sent[s]) = 2)
       /\ Len(got[s]) = 1
  /\ pc[s] = 4 =>
       /\ st[s] \in {"run", "wait", "failed"} /\ Len(sent[s]) = 2
       /\ st[s] # "failed" => Len(got[s]) = 1
  /\ pc[s] <= 4 => tx[s] = 0
  /\ pc[s] > 4 => Len(sent[s]) = tx[s] + 2

\* What s knows of its peer: its message once it has read that; one key and one
\* passphrase once it has verified the tag.
Keys(s) ==
  /\ pc[s] <= 2 => key[s] = None /\ remote[s] = None
  /\ pc[s] >= 3 => remote[s] = Message(Peer(s)) /\ key[s] = Isk(s, Message(Peer(s)))
  /\ pc[s] >= 5 => pass[s] = pass[Peer(s)] /\ pc[Peer(s)] >= 3

SessionInv ==
  SessionTypes /\ \A s \in Side : Stream(s) /\ SentFrames(s) /\ Early(s) /\ Keys(s)
-----------------------------------------------------------------------------
(* What happens to a stream.                                               *)

\* A reader that has a prefix of F, read and queued, reads the next of F.
LEMMA ReadNext ==
  ASSUME NEW S, NEW a \in Seq(S), NEW q \in Seq(S), NEW F \in Seq(S), q # <<>>,
         Len(a) + Len(q) <= Len(F), a \o q = SubSeq(F, 1, Len(a) + Len(q))
  PROVE  /\ Head(q) \in S /\ Tail(q) \in Seq(S) /\ Append(a, Head(q)) \in Seq(S)
         /\ Len(a) + 1 \in 1..Len(F) /\ Head(q) = F[Len(a) + 1]
         /\ Len(Append(a, Head(q))) = Len(a) + 1 /\ Len(Tail(q)) = Len(q) - 1
         /\ Append(a, Head(q)) \o Tail(q) = a \o q
<1>1. /\ Head(q) \in S /\ Tail(q) \in Seq(S) /\ Append(a, Head(q)) \in Seq(S)
      /\ Len(Append(a, Head(q))) = Len(a) + 1 /\ Len(Tail(q)) = Len(q) - 1
  OBVIOUS
<1>2. Append(a, Head(q)) \o Tail(q) = a \o q
  OBVIOUS
<1>3. Len(a) + 1 \in 1..Len(F) /\ Len(a) + 1 \in 1..(Len(a) + Len(q))
  OBVIOUS
<1>4. (a \o q)[Len(a) + 1] = Head(q)
  OBVIOUS
<1>5. SubSeq(F, 1, Len(a) + Len(q))[Len(a) + 1] = F[Len(a) + 1]
  BY <1>3
<1> QED  BY <1>1, <1>2, <1>3, <1>4, <1>5

\* More is sent.
LEMMA SentMore ==
  ASSUME NEW S, NEW F \in Seq(S), NEW x \in S, NEW n \in 0..Len(F)
  PROVE  /\ Append(F, x) \in Seq(S) /\ n <= Len(Append(F, x))
         /\ SubSeq(Append(F, x), 1, n) = SubSeq(F, 1, n)
         /\ Drop(Append(F, x), n) = Append(Drop(F, n), x)
<1>1. Append(F, x) \in Seq(S) /\ Len(Append(F, x)) = Len(F) + 1
      /\ Append(F, x)[Len(F) + 1] = x /\ \A i \in 1..Len(F) : Append(F, x)[i] = F[i]
  OBVIOUS
<1> DEFINE G == Append(F, x)
<1>2. SubSeq(G, 1, n) = SubSeq(F, 1, n)
  OBVIOUS
<1>3. n \in 0..Len(G)
  BY <1>1
<1>4. Drop(F, n) \in Seq(S) /\ Len(Drop(F, n)) = Len(F) - n
      /\ \A k \in 1..(Len(F) - n) : Drop(F, n)[k] = F[n + k]
  BY DropElements
<1> DEFINE A == Append(Drop(F, n), x)
<1>5. /\ A \in Seq(S) /\ Len(A) = Len(F) - n + 1 /\ A[Len(F) - n + 1] = x
      /\ \A k \in 1..(Len(F) - n) : A[k] = F[n + k]
  BY <1>4
<1> HIDE DEF G, A
<1>6. Drop(G, n) \in Seq(S) /\ Len(Drop(G, n)) = Len(G) - n
      /\ \A k \in 1..(Len(G) - n) : Drop(G, n)[k] = G[n + k]
  BY <1>1, <1>3, DropElements DEF G
<1>7. Len(F) \in Nat /\ n \in Nat /\ n <= Len(F)
  OBVIOUS
<1>8. Drop(G, n) = A
  <2> DEFINE D == Drop(G, n)
             m == Len(F) - n
  <2>1. D \in Seq(S) /\ Len(D) = m + 1 /\ m \in Nat /\ A \in Seq(S) /\ Len(A) = m + 1
    BY <1>1, <1>5, <1>6, <1>7 DEF G
  <2>2. ASSUME NEW k \in 1..(m + 1) PROVE D[k] = A[k]
    <3>1. k \in 1..(Len(G) - n) /\ n + k \in 1..(Len(F) + 1)
      BY <1>1, <1>7 DEF G
    <3>2. D[k] = G[n + k]
      BY <3>1, <1>6
    <3>3. CASE k = m + 1
      <4>1. n + k = Len(F) + 1
        BY <3>3, <1>7
      <4> QED  BY <4>1, <3>2, <3>3, <1>1, <1>5 DEF G
    <3>4. CASE k # m + 1
      <4>1. k \in 1..(Len(F) - n) /\ n + k \in 1..Len(F)
        BY <3>4, <1>7
      <4> QED  BY <4>1, <3>2, <1>1, <1>5 DEF G
    <3> QED  BY <3>3, <3>4
  <2> HIDE DEF D, m
  <2>3. D = A
    BY <2>1, <2>2, SeqEqual
  <2> QED  BY <2>3 DEF D
<1> QED  BY <1>1, <1>2, <1>3, <1>8 DEF G, A

LEMMA StreamSent ==
  ASSUME NEW over \in BOOLEAN, NEW a \in Seq(Bodies), NEW q \in Seq(Bodies),
         NEW F \in Seq(Bodies), NEW b \in Bodies, NEW live \in BOOLEAN, NEW body \in Bodies,
         Streaming(over, a, q, F, b, live)
  PROVE  /\ live => Streaming(over, a, q, Append(F, body), b \o WireOf(body), live)
         /\ ~live => Streaming(over, a, q, Append(F, body), b, live)
<1> DEFINE G == Append(F, body)
<1>1. CASE over
  <2>1. IsPrefix(a, G)
    BY <1>1 DEF Streaming, IsPrefix
  <2> QED  BY <2>1, <1>1 DEF Streaming
<1>2. CASE ~over
  <2> DEFINE n == Len(a) + Len(q)
  <2>1. n \in Nat /\ n \in 0..Len(F) /\ a \o q = SubSeq(F, 1, n) /\ Carries(b, Drop(F, n), live)
    BY <1>2 DEF Streaming
  <2> HIDE DEF n
  <2>2. /\ n <= Len(G) /\ a \o q = SubSeq(G, 1, n) /\ Drop(G, n) = Append(Drop(F, n), body)
        /\ Drop(F, n) \in Seq(Bodies)
    BY <2>1, SentMore, DropElements, ZenonT(40)
  <2> HIDE DEF G
  <2>3. CASE live
    <3>1. live = TRUE
      BY <2>3
    <3>2. Carries(b \o WireOf(body), Drop(G, n), TRUE)
      BY <2>1, <2>2, <3>1, CarriesFrame
    <3>3. Carries(b \o WireOf(body), Drop(G, n), live)
      BY <3>1, <3>2
    <3> QED  BY <3>3, <2>2, <2>3, <1>2 DEF Streaming, n, G
  <2>4. CASE ~live
    <3>1. live = FALSE /\ Len(b) \in Nat
      BY <2>4 DEF Bodies
    <3>2. Carries(b, Drop(G, n), FALSE)
      BY <2>1, <2>2, <3>1, CarriesLost
    <3>3. Carries(b, Drop(G, n), live)
      BY <3>1, <3>2
    <3> QED  BY <3>3, <2>2, <2>4, <1>2 DEF Streaming, n, G
  <2> QED  BY <2>3, <2>4
<1> QED  BY <1>1, <1>2

\* The connection is lost, with the end of what was on its way.
LEMMA StreamLost ==
  ASSUME NEW over \in BOOLEAN, NEW a \in Seq(Bodies), NEW q \in Seq(Bodies),
         NEW F \in Seq(Bodies), NEW b \in Bodies, NEW o \in Bodies, NEW live \in BOOLEAN,
         NEW n \in 0..Len(o), Streaming(over, a, q, F, b \o o, live)
  PROVE  Streaming(over, a, q, F, b \o SubSeq(o, 1, n), FALSE)
<1>1. CASE over
  BY <1>1 DEF Streaming
<1>2. CASE ~over
  <2>1. Len(a) + Len(q) \in 0..Len(F) /\ Carries(b \o o, Drop(F, Len(a) + Len(q)), live)
    BY <1>2 DEF Streaming
  <2>2. Drop(F, Len(a) + Len(q)) \in Seq(Bodies)
    BY <2>1, DropElements
  <2>3. Carries(b \o SubSeq(o, 1, n), Drop(F, Len(a) + Len(q)), FALSE)
    BY <2>1, <2>2, CarriesLess
  <2> QED  BY <2>3, <1>2 DEF Streaming
<1> QED  BY <1>1, <1>2

\* The reader stops.
LEMMA StreamOver ==
  ASSUME NEW over \in BOOLEAN, NEW a \in Seq(Bodies), NEW q \in Seq(Bodies),
         NEW F \in Seq(Bodies), NEW b, NEW c, NEW live, NEW live2,
         Streaming(over, a, q, F, b, live)
  PROVE  Streaming(TRUE, a, q, F, c, live2)
<1>1. CASE over
  BY <1>1 DEF Streaming
<1>2. CASE ~over
  <2>1. Len(a) + Len(q) <= Len(F) /\ a \o q = SubSeq(F, 1, Len(a) + Len(q))
    BY <1>2 DEF Streaming
  <2>2. a = SubSeq(a \o q, 1, Len(a))
    OBVIOUS
  <2>3. SubSeq(SubSeq(F, 1, Len(a) + Len(q)), 1, Len(a)) = SubSeq(F, 1, Len(a))
    BY <2>1
  <2>4. Len(a) <= Len(F)
    BY <2>1
  <2> QED  BY <2>1, <2>2, <2>3, <2>4 DEF Streaming, IsPrefix
<1> QED  BY <1>1, <1>2

\* The reader takes a frame.
LEMMA StreamRead ==
  ASSUME NEW a \in Seq(Bodies), NEW q \in Seq(Bodies), NEW F \in Seq(Bodies), NEW b, NEW live,
         q # <<>>, Streaming(FALSE, a, q, F, b, live)
  PROVE  Streaming(FALSE, Append(a, Head(q)), Tail(q), F, b, live)
<1>1. Len(a) + Len(q) <= Len(F) /\ a \o q = SubSeq(F, 1, Len(a) + Len(q))
      /\ Carries(b, Drop(F, Len(a) + Len(q)), live)
  BY DEF Streaming
<1> DEFINE c == Append(a, Head(q))
           r == Tail(q)
<1>2. /\ c \in Seq(Bodies) /\ r \in Seq(Bodies) /\ c \o r = a \o q
      /\ Len(c) = Len(a) + 1 /\ Len(r) = Len(q) - 1
  BY <1>1, ReadNext
<1> HIDE DEF c, r
<1>3. Len(c) + Len(r) = Len(a) + Len(q)
  BY <1>2
<1>4. Streaming(FALSE, c, r, F, b, live)
  BY <1>1, <1>2, <1>3 DEF Streaming
<1> QED  BY <1>4 DEF c, r

\* Units arrive, and whole frames are queued.
LEMMA StreamPulled ==
  ASSUME NEW a \in Seq(Bodies), NEW q \in Seq(Bodies), NEW F \in Seq(Bodies),
         NEW b \in Bodies, NEW o \in Bodies, NEW live, NEW n \in 0..Len(o),
         Streaming(FALSE, a, q, F, b \o o, live)
  PROVE  LET p == Pull(b \o SubSeq(o, 1, n))
         IN  /\ p.rest \in Bodies /\ p.frames \in Seq(Bodies)
             /\ Streaming(FALSE, a, q \o p.frames, F, p.rest \o Drop(o, n), live)
<1> DEFINE p == Pull(b \o SubSeq(o, 1, n))
           m == Len(a) + Len(q)
           H == Drop(F, m)
<1>1. m \in Nat /\ m \in 0..Len(F) /\ a \o q = SubSeq(F, 1, m) /\ Carries(b \o o, H, live)
  BY DEF Streaming
<1>2. H \in Seq(Bodies) /\ Len(H) = Len(F) - m /\ \A k \in 1..(Len(F) - m) : H[k] = F[m + k]
  BY <1>1, DropElements
<1>3. /\ b \o SubSeq(o, 1, n) \in Bodies /\ Drop(o, n) \in Bodies
      /\ b \o o = (b \o SubSeq(o, 1, n)) \o Drop(o, n)
  <2> DEFINE x == SubSeq(o, 1, n)
             y == Drop(o, n)
  <2>1. b \in Seq(Unit) /\ o \in Seq(Unit)
    BY DEF Bodies
  <2>2. x \in Seq(Unit) /\ y \in Seq(Unit) /\ o = x \o y
    BY <2>1, SplitAt, DropElements
  <2> HIDE DEF x, y
  <2>3. b \o x \in Seq(Unit) /\ b \o (x \o y) = (b \o x) \o y
    BY <2>1, <2>2, ConcatElements, ConcatThree, SMTT(30)
  <2> QED  BY <2>2, <2>3 DEF x, y, Bodies
<1>4. PICK k \in 0..Len(H) : /\ p.frames = SubSeq(H, 1, k) /\ p.rest \in Bodies
                             /\ Carries(p.rest \o Drop(o, n), Drop(H, k), live)
  <2> HIDE DEF H
  <2> QED  BY <1>1, <1>2, <1>3, PullCarries
<1> HIDE DEF p
<1> DEFINE r == p.frames
<1>5. r \in Seq(Bodies) /\ Len(r) = k /\ k \in Nat /\ k <= Len(F) - m
  <2> HIDE DEF H, m
  <2>1. SubSeq(H, 1, k) \in Seq(Bodies) /\ Len(SubSeq(H, 1, k)) = k /\ k \in Nat
    BY <1>2, <1>4
  <2> QED  BY <2>1, <1>1, <1>2, <1>4
<1> HIDE DEF r
<1>6. m + k \in 0..Len(F) /\ Len(q \o r) = Len(q) + k /\ q \o r \in Seq(Bodies)
  <2> HIDE DEF r, m
  <2>1. Len(F) \in Nat
    OBVIOUS
  <2>2. m + k \in 0..Len(F)
    BY <2>1, <1>1, <1>5
  <2>3. Len(q \o r) = Len(q) + Len(r) /\ q \o r \in Seq(Bodies)
    BY <1>5, ConcatElements
  <2> QED  BY <2>2, <2>3, <1>5
<1>7. a \o (q \o r) = SubSeq(F, 1, m + k)
  <2>1. a \o (q \o r) = (a \o q) \o r
    BY <1>5, ConcatThree, SMTT(30)
  <2>2. r \in Seq(Bodies) /\ Len(r) = k /\ \A i \in 1..k : r[i] = F[m + i]
    <3>1. \A i \in 1..k : r[i] = H[i]
      <4> HIDE DEF H
      <4> QED  BY <1>2, <1>4, <1>5 DEF r
    <3> HIDE DEF H, m
    <3>2. ASSUME NEW i \in 1..k PROVE r[i] = F[m + i]
      <4>1. i \in 1..(Len(F) - m)
        <5>1. Len(F) \in Nat
          OBVIOUS
        <5> QED  BY <5>1, <1>1, <1>5
      <4> QED  BY <4>1, <3>1, <1>2
    <3> QED  BY <3>2, <1>5
  <2> HIDE DEF r, m, H
  <2>3. SubSeq(F, 1, m) \o r = SubSeq(F, 1, m + k)
    <3>1. SubSeq(F, 1, m) \in Seq(Bodies) /\ Len(SubSeq(F, 1, m)) = m
          /\ \A i \in 1..m : SubSeq(F, 1, m)[i] = F[i]
      BY <1>1
    <3>2. SubSeq(F, 1, m + k) \in Seq(Bodies) /\ Len(SubSeq(F, 1, m + k)) = m + k
          /\ \A i \in 1..(m + k) : SubSeq(F, 1, m + k)[i] = F[i]
      BY <1>6, <1>1, <1>5
    <3> DEFINE X == SubSeq(F, 1, m)
               Y == SubSeq(F, 1, m + k)
               Z == X \o r
    <3> HIDE DEF X, Y, Z
    <3>3. /\ Z \in Seq(Bodies) /\ Len(Z) = m + k
          /\ \A i \in 1..m : Z[i] = F[i]
          /\ \A i \in 1..k : Z[m + i] = F[m + i]
      <4>1. X \in Seq(Bodies) /\ Len(X) = m /\ \A i \in 1..m : X[i] = F[i]
        BY <3>1 DEF X
      <4>2. /\ Z \in Seq(Bodies) /\ Len(Z) = Len(X) + Len(r)
            /\ \A i \in 1..Len(X) : Z[i] = X[i]
            /\ \A i \in 1..Len(r) : Z[Len(X) + i] = r[i]
        <5>1. X \in Seq(Bodies) /\ r \in Seq(Bodies)
          BY <4>1, <2>2
        <5>2. /\ X \o r \in Seq(Bodies) /\ Len(X \o r) = Len(X) + Len(r)
              /\ \A i \in 1..Len(X) : (X \o r)[i] = X[i]
              /\ \A i \in 1..Len(r) : (X \o r)[Len(X) + i] = r[i]
          BY <5>1, ConcatElements
        <5> QED  BY <5>2 DEF Z
      <4> QED  BY <4>1, <4>2, <2>2
    <3>4. ASSUME NEW i \in 1..(m + k) PROVE Z[i] = F[i]
      <4>1. CASE i <= m
        BY <4>1, <3>3, <1>1, <1>5
      <4>2. CASE i > m
        <5>1. i - m \in 1..k /\ m + (i - m) = i
          BY <4>2, <1>1, <1>5
        <5> QED  BY <5>1, <3>3
      <4> QED  BY <4>1, <4>2, <1>1
    <3>5. Z = Y
      <4>1. Y \in Seq(Bodies) /\ Len(Y) = m + k /\ \A i \in 1..(m + k) : Y[i] = F[i]
        BY <3>2 DEF Y
      <4> QED  BY <4>1, <3>3, <3>4, SeqEqual
    <3> QED  BY <3>5 DEF X, Y, Z
  <2> QED  BY <2>1, <2>3, <1>1
<1>8. Drop(H, k) = Drop(F, m + k)
  <2>1. k \in 0..Len(H) /\ m + k \in 0..Len(F) /\ H \in Seq(Bodies) /\ Len(H) = Len(F) - m
    BY <1>2, <1>4, <1>6
  <2>2. \A i \in 1..(Len(F) - m) : H[i] = F[m + i]
    BY <1>2
  <2> HIDE DEF H, m
  <2> DEFINE X == Drop(H, k)
             Y == Drop(F, m + k)
  <2>3. X \in Seq(Bodies) /\ Len(X) = Len(F) - m - k
        /\ \A i \in 1..(Len(F) - m - k) : X[i] = H[k + i]
    <3>1. X \in Seq(Bodies) /\ Len(X) = Len(H) - k
          /\ \A i \in 1..(Len(H) - k) : X[i] = H[k + i]
      BY <2>1, DropElements
    <3> QED  BY <3>1, <2>1, SMTT(30)
  <2>4. Y \in Seq(Bodies) /\ Len(Y) = Len(F) - m - k
        /\ \A i \in 1..(Len(F) - m - k) : Y[i] = F[m + k + i]
    <3>1. Y \in Seq(Bodies) /\ Len(Y) = Len(F) - (m + k)
          /\ \A i \in 1..(Len(F) - (m + k)) : Y[i] = F[(m + k) + i]
      BY <2>1, DropElements
    <3> QED  BY <3>1, <2>1, <1>1, <1>5, SMTT(30)
  <2> HIDE DEF X, Y
  <2>5. ASSUME NEW i \in 1..(Len(F) - m - k) PROVE X[i] = Y[i]
    <3>1. k + i \in 1..(Len(F) - m) /\ m + (k + i) = m + k + i
      BY <1>1, <1>5
    <3> QED  BY <3>1, <2>2, <2>3, <2>4
  <2>6. X = Y
    BY <2>3, <2>4, <2>5, SeqEqual
  <2> QED  BY <2>6 DEF X, Y
<1>9. Len(a) + Len(q \o r) = m + k
  BY <1>6
<1>10. Streaming(FALSE, a, q \o r, F, p.rest \o Drop(o, n), live)
  BY <1>4, <1>6, <1>7, <1>8, <1>9 DEF Streaming
<1> QED  BY <1>4, <1>5, <1>10 DEF p, r
-----------------------------------------------------------------------------
(* Sides, steps and frames.                                                *)

LEMMA Sides ==
  ASSUME NEW s \in Side
  PROVE  /\ Peer(s) \in Side /\ Peer(s) # s /\ Peer(Peer(s)) = s
         /\ \A t \in Side : t = s \/ t = Peer(s)
BY DEF Side, Peer

LEMMA Programs ==
  ASSUME NEW s \in Side
  PROVE  /\ Len(Handshake) = 4 /\ Script[s] \in Seq(Op)
         /\ Handshake[1] = [op |-> "send", type |-> "PAKE", size |-> 1]
         /\ Handshake[2] = [op |-> "recv", type |-> "PAKE", size |-> 1]
         /\ Handshake[3] = [op |-> "send", type |-> "CONFIRM", size |-> 1]
         /\ Handshake[4] = [op |-> "recv", type |-> "CONFIRM", size |-> 1]
         /\ Len(Program(s)) = 4 + Len(Script[s])
         /\ \A k \in 1..4 : Program(s)[k] = Handshake[k]
         /\ \A k \in 1..Len(Script[s]) : Program(s)[4 + k] = Script[s][k]
<1>1. Script[s] \in Seq(Op)
  BY ScriptAssumption
<1> DEFINE h == Handshake
<1>2. /\ Len(h) = 4
      /\ h[1] = [op |-> "send", type |-> "PAKE", size |-> 1]
      /\ h[2] = [op |-> "recv", type |-> "PAKE", size |-> 1]
      /\ h[3] = [op |-> "send", type |-> "CONFIRM", size |-> 1]
      /\ h[4] = [op |-> "recv", type |-> "CONFIRM", size |-> 1]
  BY DEF Handshake
<1> DEFINE Any == [op : {"send", "recv"}, type : Type \cup {"PAKE", "CONFIRM"}, size : Nat]
<1>3. h \in Seq(Any) /\ Script[s] \in Seq(Any)
  <2>1. h \in [1..4 -> Any]
    <3>1. \A i \in 1..4 : h[i] \in Any
      BY <1>2
    <3> QED  BY <3>1 DEF Handshake
  <2>2. Op \subseteq Any
    BY DEF Op
  <2> HIDE DEF Any, h
  <2>3. h \in Seq(Any)
    <3> DEFINE n == 4
    <3>1. h \in [1..n -> Any] /\ n \in Nat
      BY <2>1
    <3> HIDE DEF n
    <3> QED  BY <3>1
  <2>4. Script[s] \in Seq(Any)
    BY <1>1, <2>2, SeqMonotonic
  <2> QED  BY <2>3, <2>4
<1> HIDE DEF h, Any
<1>4. /\ Len(h \o Script[s]) = 4 + Len(Script[s])
      /\ \A k \in 1..4 : (h \o Script[s])[k] = h[k]
      /\ \A k \in 1..Len(Script[s]) : (h \o Script[s])[4 + k] = Script[s][k]
  <2>1. /\ Len(h \o Script[s]) = Len(h) + Len(Script[s])
        /\ \A k \in 1..Len(h) : (h \o Script[s])[k] = h[k]
        /\ \A k \in 1..Len(Script[s]) : (h \o Script[s])[Len(h) + k] = Script[s][k]
    BY <1>3
  <2> QED  BY <2>1, <1>2
<1> QED  BY <1>1, <1>2, <1>4, Zenon DEF Program, h

LEMMA StepKinds ==
  ASSUME SessionTypes, NEW s \in Side, NEW op, AtStep(s, op)
  PROVE  /\ pc[s] \in Nat /\ pc[s] >= 1 /\ st[s] = "run" /\ Step(s).op = op
         /\ pc[s] = 1 => op = "send" /\ Step(s).type = "PAKE"
         /\ pc[s] = 2 => op = "recv" /\ Step(s).type = "PAKE"
         /\ pc[s] = 3 => op = "send" /\ Step(s).type = "CONFIRM"
         /\ pc[s] = 4 => op = "recv" /\ Step(s).type = "CONFIRM"
         /\ pc[s] >= 5 => /\ Step(s).type \in Type /\ Step(s).size \in Nat \ {0}
                          /\ Step(s).type \notin {"PAKE", "CONFIRM", "ENC"}
<1>1. pc[s] \in Nat /\ pc[s] >= 1 /\ st[s] = "run" /\ Step(s).op = op
  BY DEF SessionTypes, AtStep
<1> DEFINE h == Handshake
           P == Program(s)
<1>2. Script[s] \in Seq(Op)
  BY Programs
<1>3. /\ h[1] = [op |-> "send", type |-> "PAKE", size |-> 1]
      /\ h[2] = [op |-> "recv", type |-> "PAKE", size |-> 1]
      /\ h[3] = [op |-> "send", type |-> "CONFIRM", size |-> 1]
      /\ h[4] = [op |-> "recv", type |-> "CONFIRM", size |-> 1]
  BY Programs
<1>4. /\ Len(P) = 4 + Len(Script[s])
      /\ \A k \in 1..4 : P[k] = h[k]
      /\ \A k \in 1..Len(Script[s]) : P[4 + k] = Script[s][k]
  BY Programs
<1>5. pc[s] <= Len(P) /\ Step(s) = P[pc[s]]
  BY DEF AtStep, Step
<1> HIDE DEF h, P
<1>7. CASE pc[s] <= 4
  <2>1. Step(s) = h[pc[s]]
    BY <1>1, <1>4, <1>5, <1>7
  <2> QED  BY <2>1, <1>1, <1>3, <1>7
<1>8. CASE pc[s] >= 5
  <2>1. Len(Script[s]) \in Nat
    BY <1>2
  <2>2. pc[s] - 4 \in 1..Len(Script[s]) /\ 4 + (pc[s] - 4) = pc[s]
    BY <2>1, <1>1, <1>4, <1>5, <1>8
  <2>3. Step(s) = Script[s][pc[s] - 4]
    BY <2>2, <1>4, <1>5
  <2>4. Step(s) \in Op
    BY <2>2, <2>3, <1>2
  <2>5. Step(s).type \in Type /\ Step(s).size \in Nat \ {0}
    BY <2>4 DEF Op
  <2> QED  BY <2>5, <1>1, <1>8, TypeAssumption
<1> QED  BY <1>1, <1>7, <1>8

LEMMA BodyOf ==
  ASSUME NEW f \in Frame
  PROVE  /\ Body(f) \in Bodies /\ Len(Body(f)) = f.size /\ Body(f) # <<>>
         /\ Body(f)[1].frame = f /\ Wire(f) = WireOf(Body(f))
<1>1. f.size \in Nat \ {0}
  BY DEF Frame
<1>2. \A i \in 1..f.size : [frame |-> f, unit |-> i] \in Unit
  BY DEF Unit
<1>3. Body(f) \in [1..f.size -> Unit]
  BY <1>2 DEF Body
<1>4. Body(f) \in Bodies /\ Len(Body(f)) = f.size
  BY <1>1, <1>3 DEF Bodies
<1>5. 1 \in 1..f.size
  BY <1>1
<1>6. Body(f)[1] = [frame |-> f, unit |-> 1]
  BY <1>5 DEF Body
<1>7. Body(f) # <<>>
  BY <1>1, <1>4
<1> QED  BY <1>4, <1>6, <1>7 DEF Wire, WireOf

\* A side has messages and tags of the right kind.
LEMMA OwnFrames ==
  ASSUME SessionTypes, NEW s \in Side
  PROVE  /\ Message(s) \in Msg /\ PakeFrame(s) \in Frame /\ ConfirmFrame(s) \in Frame
         /\ \A size \in Nat \ {0}, n \in Nat, t \in Type : SealedFrame(s, size, n, t) \in Frame
<1>1. pass[s] \in Pass /\ key[s] \in Isks \cup {None} /\ remote[s] \in Msg \cup {None}
  BY DEF SessionTypes
<1>2. Message(s) \in Msg
  BY <1>1 DEF Message, Msg
<1>3. PakeFrame(s) \in Frame
  BY <1>2 DEF PakeFrame, Frame
<1>4. ConfirmFrame(s) \in Frame
  BY <1>1, <1>2 DEF ConfirmFrame, Frame, Tag, Tags
<1>5. ASSUME NEW size \in Nat \ {0}, NEW n \in Nat, NEW t \in Type
      PROVE  SealedFrame(s, size, n, t) \in Frame
  <2>1. Nonce(s, n) \in [dir : 1..2, count : Nat]
    BY DEF Nonce
  <2>2. [key |-> key[s], nonce |-> Nonce(s, n), inner |-> t] \in Box
    BY <2>1, <1>1 DEF Box
  <2> QED  BY <2>2 DEF SealedFrame, Frame
<1> QED  BY <1>2, <1>3, <1>4, <1>5

\* What a step sends.
LEMMA OutgoingFrame ==
  ASSUME SessionInv, NEW s \in Side, AtStep(s, "send")
  PROVE  /\ Outgoing(s) \in Frame
         /\ pc[s] = 1 => Outgoing(s) = PakeFrame(s)
         /\ pc[s] = 3 => Outgoing(s) = ConfirmFrame(s)
         /\ pc[s] \notin {2, 4}
         /\ pc[s] > 4 => \E size \in Nat \ {0}, t \in Type :
                           Outgoing(s) = SealedFrame(s, size, tx[s], t)
<1>1. SessionTypes /\ tx[s] \in Nat
  BY DEF SessionInv, SessionTypes
<1>2. pc[s] \in Nat /\ pc[s] >= 1 /\ pc[s] \notin {2, 4}
  BY <1>1, StepKinds
<1>3. CASE pc[s] = 1
  <2>1. Step(s).type = "PAKE"
    BY <1>1, <1>3, StepKinds
  <2>2. Outgoing(s) = PakeFrame(s)
    BY <2>1 DEF Outgoing, PakeFrame
  <2> QED  BY <2>2, <1>1, <1>3, OwnFrames
<1>4. CASE pc[s] = 3
  <2>1. Step(s).type = "CONFIRM"
    BY <1>1, <1>4, StepKinds
  <2>2. Outgoing(s) = ConfirmFrame(s)
    BY <2>1 DEF Outgoing, ConfirmFrame
  <2> QED  BY <2>2, <1>1, <1>4, OwnFrames
<1>5. CASE pc[s] > 4
  <2>1. /\ Step(s).type \in Type /\ Step(s).size \in Nat \ {0}
        /\ Step(s).type \notin {"PAKE", "CONFIRM", "ENC"}
    BY <1>1, <1>2, <1>5, StepKinds
  <2>2. TxNonce(s) = Nonce(s, tx[s])
    BY DEF TxNonce, Nonce
  <2>3. Outgoing(s) = SealedFrame(s, Step(s).size, tx[s], Step(s).type)
    BY <2>1, <2>2 DEF Outgoing, SealedFrame
  <2> QED  BY <2>1, <2>3, <1>1, <1>5, OwnFrames
<1> QED  BY <1>2, <1>3, <1>4, <1>5

\* The next frame that s reads is the one its peer sent next.
LEMMA NextFrame ==
  ASSUME SessionInv, NEW s \in Side, ~Over(s), queue[s] # <<>>
  PROVE  /\ Head(queue[s]) \in Bodies
         /\ Len(got[s]) + 1 \in 1..Len(sent[Peer(s)])
         /\ Head(queue[s]) = sent[Peer(s)][Len(got[s]) + 1]
<1>1. Peer(s) \in Side
  BY Sides
<1>2. /\ got[s] \in Seq(Bodies) /\ queue[s] \in Seq(Bodies) /\ sent[Peer(s)] \in Seq(Bodies)
      /\ Len(got[s]) + Len(queue[s]) <= Len(sent[Peer(s)])
      /\ got[s] \o queue[s] = SubSeq(sent[Peer(s)], 1, Len(got[s]) + Len(queue[s]))
  BY <1>1 DEF SessionInv, SessionTypes, Stream, Streaming
<1> DEFINE a == got[s]
           q == queue[s]
           F == sent[Peer(s)]
<1>3. /\ a \in Seq(Bodies) /\ q \in Seq(Bodies) /\ F \in Seq(Bodies) /\ q # <<>>
      /\ Len(a) + Len(q) <= Len(F) /\ a \o q = SubSeq(F, 1, Len(a) + Len(q))
  BY <1>2
<1> HIDE DEF a, q, F
<1>4. Head(q) \in Bodies /\ Len(a) + 1 \in 1..Len(F) /\ Head(q) = F[Len(a) + 1]
  BY <1>3, ReadNext
<1> QED  BY <1>4 DEF a, q, F

\* What a step accepts.
LEMMA AcceptedFrame ==
  ASSUME SessionInv, NEW s \in Side, AtStep(s, "recv"), queue[s] # <<>>,
         Accepts(s, Head(queue[s]))
  PROVE  LET f == Head(queue[s])[1].frame
         IN  /\ pc[s] \in Nat /\ pc[s] \notin {0, 1, 3} /\ st[s] = "run"
             /\ pc[s] = 2 => f.type = "PAKE" /\ f.data = Message(Peer(s))
             /\ pc[s] = 4 => /\ f.type # "PAKE"
                             /\ pass[s] = pass[Peer(s)] /\ pc[Peer(s)] >= 3
             /\ pc[s] > 4 => f.type # "PAKE"
<1> DEFINE p == Peer(s)
           body == Head(queue[s])
           f == body[1].frame
<1>1. SessionTypes /\ Early(s) /\ Keys(s) /\ p \in Side /\ Peer(p) = s
  BY Sides DEF SessionInv
<1>2. SentFrames(p) /\ Early(p) /\ Keys(p)
  BY <1>1 DEF SessionInv
<1>3. pc[s] \in Nat /\ pc[s] \notin {0, 1, 3} /\ st[s] = "run" /\ ~Over(s)
  BY <1>1, StepKinds DEF Over
<1>4. body = sent[p][Len(got[s]) + 1] /\ Len(got[s]) + 1 \in 1..Len(sent[p])
  BY <1>3, NextFrame
<1>5. CASE pc[s] = 2
  <2>1. Len(got[s]) = 0
    BY <1>1, <1>3, <1>5 DEF Early
  <2>2. body = Body(PakeFrame(p))
    BY <2>1, <1>2, <1>4 DEF SentFrames
  <2>3. f = PakeFrame(p)
    BY <2>2, <1>1, OwnFrames, BodyOf
  <2> QED  BY <2>3, <1>3, <1>5 DEF PakeFrame
<1>6. CASE pc[s] = 4
  <2>1. Len(got[s]) = 1 /\ sent[p] \in Seq(Bodies)
    BY <1>1, <1>3, <1>6 DEF Early, SessionTypes
  <2>2. Len(sent[p]) >= 2 /\ body = Body(ConfirmFrame(p))
    BY <2>1, <1>2, <1>4 DEF SentFrames
  <2>3. f = ConfirmFrame(p)
    BY <2>2, <1>1, OwnFrames, BodyOf
  <2>4. f.type = "CONFIRM" /\ f.data = Tag(key[p], Message(p), remote[p])
    BY <2>3 DEF ConfirmFrame
  <2>5. Step(s).type = "CONFIRM"
    BY <1>1, <1>6, StepKinds
  <2>6. Verified(s, f.data)
    BY <2>5 DEF Accepts
  <2>7. key[p] = key[s]
    BY <2>4, <2>6 DEF Verified, Tag
  <2>8. pc[p] \in Nat /\ pc[p] # 1 /\ pc[p] # 2 /\ pc[p] # 0
    <3>1. pc[p] \in Nat /\ pc[p] # 0
      BY <1>1 DEF SessionTypes
    <3> DEFINE m == Len(sent[p])
    <3>2. m \in Nat /\ m >= 2
      BY <2>1, <2>2
    <3>3. (pc[p] = 1 => m <= 1) /\ (pc[p] = 2 => m = 1)
      BY <1>2 DEF Early
    <3> HIDE DEF m
    <3> QED  BY <3>1, <3>2, <3>3
  <2>9. pc[p] >= 3
    BY <2>8
  <2>10. key[p] = Isk(p, Message(s)) /\ key[s] = Isk(s, Message(p))
    BY <2>9, <1>1, <1>2, <1>6 DEF Keys
  <2>11. Message(s).generator = Message(p).generator
    <3>1. key[p].point.generator = Message(s).generator
      BY <2>10 DEF Isk
    <3>2. key[s].point.generator = Message(p).generator
      BY <2>10 DEF Isk
    <3> QED  BY <3>1, <3>2, <2>7
  <2>12. pass[s] = pass[p]
    BY <2>11 DEF Message
  <2> QED  BY <2>4, <2>9, <2>12, <1>3, <1>6
<1>7. CASE pc[s] > 4
  <2>1. Step(s).type \notin {"PAKE", "CONFIRM", "ENC"}
    BY <1>1, <1>3, <1>7, StepKinds
  <2>2. f.type = "ENC"
    BY <2>1 DEF Accepts
  <2> QED  BY <2>2, <1>3, <1>7
<1> QED  BY <1>3, <1>5, <1>6, <1>7
-----------------------------------------------------------------------------
(* What a step leaves alone.                                               *)

LEMMA StreamKept ==
  ASSUME NEW s \in Side, Stream(s), Over(s)' = Over(s), got'[s] = got[s],
         queue'[s] = queue[s], sent'[Peer(s)] = sent[Peer(s)],
         buffered'[s] = buffered[s], out'[Peer(s)] = out[Peer(s)], alive' = alive
  PROVE  Stream(s)'
BY DEF Stream

LEMMA FramesKept ==
  ASSUME NEW s \in Side, SentFrames(s), pass' = pass, key'[s] = key[s],
         remote'[s] = remote[s], sent'[s] = sent[s]
  PROVE  SentFrames(s)'
<1>1. PakeFrame(s)' = PakeFrame(s) /\ ConfirmFrame(s)' = ConfirmFrame(s)
  BY DEF PakeFrame, ConfirmFrame, Message, Tag
<1>2. ASSUME NEW size, NEW n, NEW t
      PROVE  SealedFrame(s, size, n, t)' = SealedFrame(s, size, n, t)
  BY DEF SealedFrame, Nonce
<1> QED  BY <1>1, <1>2 DEF SentFrames

LEMMA EarlyKept ==
  ASSUME NEW s \in Side, Early(s), pc'[s] = pc[s], st'[s] = st[s], sent'[s] = sent[s],
         got'[s] = got[s], tx'[s] = tx[s]
  PROVE  Early(s)'
BY DEF Early

LEMMA KeysKept ==
  ASSUME NEW s \in Side, Keys(s), pass' = pass, key'[s] = key[s], remote'[s] = remote[s],
         pc'[s] = pc[s], pc[Peer(s)] \in Nat, pc'[Peer(s)] \in Nat,
         pc'[Peer(s)] >= pc[Peer(s)]
  PROVE  Keys(s)'
<1>1. Message(Peer(s))' = Message(Peer(s)) /\ Message(s)' = Message(s)
  BY DEF Message
<1>2. Isk(s, Message(Peer(s)))' = Isk(s, Message(Peer(s)))
  BY <1>1 DEF Isk
<1>3. pc[Peer(s)] >= 3 => pc'[Peer(s)] >= 3
  OBVIOUS
<1> QED  BY <1>1, <1>2, <1>3 DEF Keys

\* The invariant, for one side.
LEMMA ForSide ==
  ASSUME SessionInv, NEW s \in Side
  PROVE  /\ Peer(s) \in Side /\ Peer(s) # s /\ Peer(Peer(s)) = s
         /\ Stream(s) /\ SentFrames(s) /\ Early(s) /\ Keys(s)
         /\ Stream(Peer(s)) /\ SentFrames(Peer(s)) /\ Early(Peer(s)) /\ Keys(Peer(s))
         /\ pc[s] \in Nat /\ pc[s] # 0 /\ pc[Peer(s)] \in Nat /\ tx[s] \in Nat
         /\ alive \in BOOLEAN /\ Over(s) \in BOOLEAN /\ Over(Peer(s)) \in BOOLEAN
         /\ out[s] \in Bodies /\ out[Peer(s)] \in Bodies
         /\ buffered[s] \in Bodies /\ buffered[Peer(s)] \in Bodies
         /\ got[s] \in Seq(Bodies) /\ got[Peer(s)] \in Seq(Bodies)
         /\ queue[s] \in Seq(Bodies) /\ queue[Peer(s)] \in Seq(Bodies)
         /\ sent[s] \in Seq(Bodies) /\ sent[Peer(s)] \in Seq(Bodies)
<1>1. Peer(s) \in Side /\ Peer(s) # s /\ Peer(Peer(s)) = s
  BY Sides
<1>2. /\ Stream(s) /\ SentFrames(s) /\ Early(s) /\ Keys(s)
      /\ Stream(Peer(s)) /\ SentFrames(Peer(s)) /\ Early(Peer(s)) /\ Keys(Peer(s))
  BY <1>1 DEF SessionInv
<1>3. SessionTypes
  BY DEF SessionInv
<1>4. /\ pc[s] \in Nat /\ pc[s] # 0 /\ pc[Peer(s)] \in Nat /\ tx[s] \in Nat
      /\ alive \in BOOLEAN /\ Over(s) \in BOOLEAN /\ Over(Peer(s)) \in BOOLEAN
  BY <1>1, <1>3 DEF SessionTypes, Over
<1>5. /\ out[s] \in Bodies /\ out[Peer(s)] \in Bodies
      /\ buffered[s] \in Bodies /\ buffered[Peer(s)] \in Bodies
  BY <1>1, <1>3 DEF SessionTypes
<1>6. /\ got[s] \in Seq(Bodies) /\ got[Peer(s)] \in Seq(Bodies)
      /\ queue[s] \in Seq(Bodies) /\ queue[Peer(s)] \in Seq(Bodies)
      /\ sent[s] \in Seq(Bodies) /\ sent[Peer(s)] \in Seq(Bodies)
  BY <1>1, <1>3 DEF SessionTypes
<1> QED  BY <1>1, <1>2, <1>4, <1>5, <1>6

LEMMA BothSides ==
  ASSUME SessionTypes', NEW s \in Side,
         Stream(s)', SentFrames(s)', Early(s)', Keys(s)',
         Stream(Peer(s))', SentFrames(Peer(s))', Early(Peer(s))', Keys(Peer(s))'
  PROVE  SessionInv'
<1>1. ASSUME NEW t \in Side PROVE (Stream(t) /\ SentFrames(t) /\ Early(t) /\ Keys(t))'
  <2>1. t = s \/ t = Peer(s)
    BY Sides
  <2> QED  BY <2>1
<1> QED  BY <1>1 DEF SessionInv
-----------------------------------------------------------------------------
(* The steps.                                                              *)

LEMMA SendKeeps ==
  ASSUME SessionInv, NEW s \in Side, Send(s)
  PROVE  SessionInv'
<1> DEFINE p == Peer(s)
           body == Body(Outgoing(s))
<1>1. SessionTypes /\ AtStep(s, "send") /\ st[s] = "run" /\ ~Over(s)
  BY DEF SessionInv, Send, AtStep, Over
<1>2. /\ Outgoing(s) \in Frame /\ body \in Bodies /\ Wire(Outgoing(s)) = WireOf(body)
      /\ WireOf(body) \in Bodies
  BY <1>1, OutgoingFrame, BodyOf, WireOfProperties
<1>3. /\ tx' = Bump(tx, s) /\ sent' = [sent EXCEPT ![s] = Append(@, body)]
      /\ out' = IF alive THEN [out EXCEPT ![s] = @ \o WireOf(body)] ELSE out
      /\ \/ pc' = [pc EXCEPT ![s] = @ + 1] /\ st' = st
         \/ pc' = pc /\ st' = [st EXCEPT ![s] = "drain"]
      /\ pass' = pass /\ key' = key /\ remote' = remote /\ alive' = alive /\ got' = got
      /\ buffered' = buffered /\ queue' = queue
  BY <1>2 DEF Send, given, reader
<1> HIDE DEF body
<1>4. /\ pc[s] \in Nat /\ pc[s] # 0 /\ out[s] \in Seq(Unit) /\ sent[s] \in Seq(Bodies)
      /\ tx[s] \in Nat
  BY <1>1 DEF SessionTypes, Bodies
<1>5. SessionTypes'
  <2>1. tx' \in [Side -> Nat]
    BY <1>1, <1>3 DEF SessionTypes, Bump
  <2>2. sent' \in [Side -> Seq(Bodies)]
    <3>1. Append(sent[s], body) \in Seq(Bodies)
      BY <1>2, <1>4
    <3> QED  BY <3>1, <1>1, <1>3 DEF SessionTypes
  <2>3. out' \in [Side -> Bodies]
    <3>1. out[s] \o WireOf(body) \in Bodies
      BY <1>2, <1>4, ConcatElements DEF Bodies
    <3> QED  BY <3>1, <1>1, <1>3 DEF SessionTypes
  <2>4. pc' \in [Side -> Nat \ {0}]
    <3>1. pc[s] + 1 \in Nat \ {0}
      BY <1>4
    <3> QED  BY <3>1, <1>1, <1>3 DEF SessionTypes
  <2>5. st' \in [Side -> Steps]
    BY <1>1, <1>3 DEF SessionTypes, Steps
  <2> QED  BY <2>1, <2>2, <2>3, <2>4, <2>5, <1>1, <1>3 DEF SessionTypes
<1>6. /\ p \in Side /\ p # s /\ Peer(p) = s
      /\ tx'[p] = tx[p] /\ sent'[p] = sent[p] /\ out'[p] = out[p] /\ pc'[p] = pc[p]
      /\ st'[p] = st[p] /\ sent'[s] = Append(sent[s], body)
      /\ tx'[s] = IF pc[s] > 4 THEN tx[s] + 1 ELSE tx[s]
      /\ alive => out'[s] = out[s] \o WireOf(body)
      /\ ~alive => out'[s] = out[s]
      /\ \/ pc'[s] = pc[s] + 1 /\ st'[s] = "run"
         \/ pc'[s] = pc[s] /\ st'[s] = "drain"
  BY <1>1, <1>3, Sides DEF SessionTypes, Bump, Confirmed, Handshake
<1>7. /\ Stream(s) /\ Stream(p) /\ SentFrames(s) /\ SentFrames(p) /\ Early(s) /\ Early(p)
      /\ Keys(s) /\ Keys(p)
  BY ForSide
<1>8. Over(s)' = Over(s) /\ Over(p)' = Over(p)
  BY <1>1, <1>6 DEF Over
<1>9. Stream(s)'
  BY <1>3, <1>6, <1>7, <1>8, StreamKept
<1>10. Stream(p)'
  <2> DEFINE b == buffered[p] \o out[s]
             S(F, c) == Streaming(Over(p), got[p], queue[p], F, c, alive)
  <2>1. /\ got[p] \in Seq(Bodies) /\ queue[p] \in Seq(Bodies) /\ sent[s] \in Seq(Bodies)
        /\ buffered[p] \in Seq(Unit) /\ out[s] \in Seq(Unit) /\ WireOf(body) \in Seq(Unit)
        /\ alive \in BOOLEAN /\ Over(p) \in BOOLEAN
    BY <1>2, ForSide DEF Bodies
  <2>2. b \in Bodies /\ b \o WireOf(body) = buffered[p] \o (out[s] \o WireOf(body))
    <3> DEFINE x == buffered[p]
               y == out[s]
               z == WireOf(body)
    <3>1. x \in Seq(Unit) /\ y \in Seq(Unit) /\ z \in Seq(Unit)
      BY <2>1
    <3> HIDE DEF x, y, z
    <3>2. x \o y \in Seq(Unit) /\ (x \o y) \o z = x \o (y \o z)
      BY <3>1, ConcatElements, ConcatThree
    <3> QED  BY <3>2 DEF x, y, z, Bodies
  <2>3. S(sent[s], b)
    BY <1>6, <1>7 DEF Stream
  <2>4. Stream(p)' = Streaming(Over(p), got[p], queue[p], sent'[s], buffered[p] \o out'[s], alive)
    BY <1>3, <1>6, <1>8 DEF Stream
  <2> HIDE DEF b
  <2>5. /\ alive => S(Append(sent[s], body), b \o WireOf(body))
        /\ ~alive => S(Append(sent[s], body), b)
    BY <2>1, <2>2, <2>3, <1>2, StreamSent
  <2> QED  BY <2>2, <2>4, <2>5, <1>6 DEF b
<1>11. SentFrames(p)' /\ Early(p)'
  BY <1>3, <1>6, <1>7, FramesKept, EarlyKept
<1>12. Keys(p)'
  <2>1. pc[s] \in Nat /\ pc'[s] \in Nat /\ pc'[s] >= pc[s]
    BY <1>4, <1>6
  <2> QED  BY <2>1, <1>3, <1>6, <1>7, KeysKept
<1>13. pc[s] \notin {0, 2, 4}
  BY <1>1, <1>4, OutgoingFrame
<1>14. SentFrames(s)'
  <2> DEFINE F == sent[s]
             n == Len(sent[s])
             G == sent'[s]
  <2>1. /\ n \in Nat /\ Len(G) = n + 1 /\ G[n + 1] = body /\ \A i \in 1..n : G[i] = F[i]
    BY <1>4, <1>6
  <2>2. /\ n = 0 => body = Body(PakeFrame(s))
        /\ n = 1 => body = Body(ConfirmFrame(s))
        /\ n >= 2 => \E size \in Nat \ {0}, t \in Type :
                       body = Body(SealedFrame(s, size, (n + 1) - 3, t))
    <3>1. CASE pc[s] = 1
      <4>1. n = 0 /\ Outgoing(s) = PakeFrame(s)
        BY <3>1, <1>1, <1>7, OutgoingFrame DEF Early
      <4> QED  BY <4>1 DEF body
    <3>2. CASE pc[s] = 3
      <4>1. n = 1 /\ Outgoing(s) = ConfirmFrame(s)
        BY <3>2, <1>1, <1>7, OutgoingFrame DEF Early
      <4> QED  BY <4>1 DEF body
    <3>3. CASE pc[s] > 4
      <4>1. n = tx[s] + 2 /\ (n + 1) - 3 = tx[s]
        BY <3>3, <1>4, <1>7 DEF Early
      <4>2. PICK size \in Nat \ {0}, t \in Type : Outgoing(s) = SealedFrame(s, size, tx[s], t)
        BY <3>3, <1>1, OutgoingFrame
      <4>3. body = Body(SealedFrame(s, size, (n + 1) - 3, t))
        BY <4>1, <4>2 DEF body
      <4>4. n # 0 /\ n # 1
        BY <4>1, <1>4
      <4> QED  BY <4>3, <4>4
    <3> QED  BY <3>1, <3>2, <3>3, <1>4, <1>13
  <2>3. PakeFrame(s)' = PakeFrame(s) /\ ConfirmFrame(s)' = ConfirmFrame(s)
    BY <1>3 DEF PakeFrame, ConfirmFrame, Message, Tag
  <2>4. ASSUME NEW size, NEW i, NEW t
        PROVE  SealedFrame(s, size, i, t)' = SealedFrame(s, size, i, t)
    BY <1>3 DEF SealedFrame, Nonce
  <2>5. /\ n >= 1 => F[1] = Body(PakeFrame(s))
        /\ n >= 2 => F[2] = Body(ConfirmFrame(s))
        /\ \A i \in 3..n : \E size \in Nat \ {0}, t \in Type :
             F[i] = Body(SealedFrame(s, size, i - 3, t))
    BY <1>7 DEF SentFrames
  <2> HIDE DEF F, n, G
  <2>6. G[1] = Body(PakeFrame(s))
    BY <2>1, <2>2, <2>5
  <2>7. Len(G) >= 2 => G[2] = Body(ConfirmFrame(s))
    BY <2>1, <2>2, <2>5
  <2>8. ASSUME NEW i \in 3..Len(G)
        PROVE  \E size \in Nat \ {0}, t \in Type : G[i] = Body(SealedFrame(s, size, i - 3, t))
    <3>1. CASE i = n + 1
      <4>1. n >= 2 /\ G[i] = body
        BY <3>1, <2>1
      <4> QED  BY <4>1, <3>1, <2>2
    <3>2. CASE i # n + 1
      <4>1. i \in 3..n /\ i \in 1..n
        BY <3>2, <2>1
      <4> QED  BY <4>1, <2>1, <2>5
    <3> QED  BY <3>1, <3>2
  <2> QED  BY <2>3, <2>4, <2>6, <2>7, <2>8 DEF SentFrames, G
<1>15. Early(s)'
  <2> DEFINE n == Len(sent[s])
             m == Len(sent'[s])
             g == Len(got[s])
  <2>1. n \in Nat /\ m = n + 1
    BY <1>4, <1>6
  <2>2. g \in Nat /\ got'[s] = got[s]
    BY <1>1, <1>3 DEF SessionTypes
  <2>3. CASE pc[s] = 1
    <3>1. n = 0 /\ g = 0 /\ tx[s] = 0
      BY <2>3, <1>1, <1>7 DEF Early
    <3> HIDE DEF n, g
    <3>2. m = 1 /\ tx'[s] = 0
      BY <3>1, <2>1, <2>3, <1>6
    <3>3. pc'[s] \in {1, 2} /\ (pc'[s] = 1 => st'[s] = "drain")
          /\ (pc'[s] = 2 => st'[s] = "run")
      BY <2>3, <1>6
    <3> HIDE DEF m
    <3>4. m <= 1 /\ m # 0
      BY <3>2
    <3> QED  BY <3>1, <3>2, <3>3, <3>4, <2>2 DEF Early, m, g
  <2>4. CASE pc[s] = 3
    <3>1. n = 1 /\ g = 1 /\ tx[s] = 0
      BY <2>4, <1>1, <1>7 DEF Early
    <3> HIDE DEF n, g
    <3>2. m = 2 /\ tx'[s] = 0
      BY <3>1, <2>1, <2>4, <1>6
    <3>3. pc'[s] \in {3, 4} /\ (pc'[s] = 3 => st'[s] = "drain")
          /\ (pc'[s] = 4 => st'[s] = "run")
      BY <2>4, <1>6
    <3> HIDE DEF m
    <3>4. m \in 1..2
      BY <3>2
    <3> QED  BY <3>1, <3>2, <3>3, <3>4, <2>2 DEF Early, m, g
  <2>5. CASE pc[s] > 4
    <3>1. n = tx[s] + 2
      BY <2>5, <1>7 DEF Early
    <3> HIDE DEF n
    <3>2. m = tx'[s] + 2 /\ pc'[s] > 4 /\ pc'[s] \in Nat
      BY <3>1, <2>1, <2>5, <1>4, <1>6
    <3> QED  BY <3>2 DEF Early
  <2> QED  BY <2>3, <2>4, <2>5, <1>4, <1>13
<1>16. Keys(s)'
  <2>1. Message(p)' = Message(p) /\ Isk(s, Message(p))' = Isk(s, Message(p))
    BY <1>3 DEF Message, Isk
  <2>2. pc'[s] \in Nat /\ (pc'[s] <= 2 <=> pc[s] <= 2) /\ (pc'[s] >= 3 <=> pc[s] >= 3)
        /\ (pc'[s] >= 5 <=> pc[s] >= 5)
    BY <1>4, <1>6, <1>13
  <2> QED  BY <2>1, <2>2, <1>3, <1>6, <1>7 DEF Keys
<1> QED  BY <1>5, <1>9, <1>10, <1>11, <1>12, <1>14, <1>15, <1>16, BothSides

LEMMA DrainedKeeps ==
  ASSUME SessionInv, NEW s \in Side, Drained(s)
  PROVE  SessionInv'
<1> DEFINE p == Peer(s)
<1>1. SessionTypes /\ st[s] = "drain" /\ ~Over(s)
  BY DEF SessionInv, Drained, Over
<1>2. /\ st' = [st EXCEPT ![s] = "run"] /\ pc' = [pc EXCEPT ![s] = @ + 1]
      /\ pass' = pass /\ key' = key /\ remote' = remote /\ tx' = tx /\ alive' = alive
      /\ out' = out /\ buffered' = buffered /\ queue' = queue /\ sent' = sent /\ got' = got
  BY DEF Drained, given, channel, reader
<1>3. pc[s] \in Nat /\ pc[s] # 0
  BY <1>1 DEF SessionTypes
<1>4. SessionTypes'
  <2>1. pc[s] + 1 \in Nat \ {0}
    BY <1>3
  <2>2. pc' \in [Side -> Nat \ {0}]
    BY <2>1, <1>1, <1>2 DEF SessionTypes
  <2>3. st' \in [Side -> Steps]
    BY <1>1, <1>2 DEF SessionTypes, Steps
  <2> QED  BY <2>2, <2>3, <1>1, <1>2 DEF SessionTypes
<1>5. /\ p \in Side /\ p # s /\ Peer(p) = s
      /\ pc'[p] = pc[p] /\ st'[p] = st[p] /\ pc'[s] = pc[s] + 1 /\ st'[s] = "run"
  BY <1>1, <1>2, Sides DEF SessionTypes
<1>6. /\ Stream(s) /\ Stream(p) /\ SentFrames(s) /\ SentFrames(p) /\ Early(s) /\ Early(p)
      /\ Keys(s) /\ Keys(p)
  BY ForSide
<1>7. Over(s)' = Over(s) /\ Over(p)' = Over(p)
  BY <1>1, <1>5 DEF Over
<1>8. Stream(s)' /\ Stream(p)'
  BY <1>2, <1>5, <1>6, <1>7, StreamKept
<1>9. SentFrames(s)' /\ SentFrames(p)'
  BY <1>2, <1>5, <1>6, FramesKept
<1>10. Early(p)'
  BY <1>2, <1>5, <1>6, EarlyKept
<1>11. Keys(p)'
  <2>1. pc'[s] \in Nat /\ pc'[s] >= pc[s]
    BY <1>3, <1>5
  <2> QED  BY <2>1, <1>2, <1>3, <1>5, <1>6, KeysKept
<1>12. pc[s] \notin {0, 2, 4}
  BY <1>1, <1>3, <1>6 DEF Early
<1>13. Early(s)'
  <2>1. CASE pc[s] = 1
    <3>1. Len(sent[s]) = 1 /\ Len(got[s]) = 0 /\ tx[s] = 0
      BY <2>1, <1>1, <1>6 DEF Early
    <3> QED  BY <3>1, <2>1, <1>2, <1>5 DEF Early
  <2>2. CASE pc[s] = 3
    <3>1. Len(sent[s]) = 2 /\ Len(got[s]) = 1 /\ tx[s] = 0
      BY <2>2, <1>1, <1>6 DEF Early
    <3> QED  BY <3>1, <2>2, <1>2, <1>5 DEF Early
  <2>3. CASE pc[s] > 4
    <3>1. Len(sent[s]) = tx[s] + 2 /\ pc'[s] > 4 /\ pc'[s] \in Nat
      BY <2>3, <1>3, <1>5, <1>6 DEF Early
    <3> QED  BY <3>1, <1>2 DEF Early
  <2> QED  BY <2>1, <2>2, <2>3, <1>3, <1>12
<1>14. Keys(s)'
  <2>1. Message(p)' = Message(p) /\ Isk(s, Message(p))' = Isk(s, Message(p))
    BY <1>2 DEF Message, Isk
  <2>2. pc'[s] \in Nat /\ (pc'[s] <= 2 <=> pc[s] <= 2) /\ (pc'[s] >= 3 <=> pc[s] >= 3)
        /\ (pc'[s] >= 5 <=> pc[s] >= 5)
    BY <1>3, <1>5, <1>12
  <2> QED  BY <2>1, <2>2, <1>2, <1>5, <1>6 DEF Keys
<1> QED  BY <1>4, <1>8, <1>9, <1>10, <1>11, <1>13, <1>14, BothSides

\* A step that sets no more than st[s], closed and ended, and stops s or makes
\* it wait or run.
LEMMA TurnKeeps ==
  ASSUME SessionInv, NEW s \in Side, NEW to \in Steps, st' = [st EXCEPT ![s] = to],
         st[s] \notin {"done", "failed"} \/ to = st[s], alive' \in BOOLEAN, alive' => alive,
         pass' = pass, pc' = pc, key' = key, remote' = remote, tx' = tx, out' = out,
         buffered' = buffered, queue' = queue, sent' = sent, got' = got,
         to = st[s] \/ to = "failed" \/ (to = "wait" /\ pc[s] \notin {1, 3})
           \/ (to = "run" /\ pc[s] \notin {1, 3}) \/ (to = "done" /\ pc[s] > 4)
  PROVE  SessionInv'
<1> DEFINE p == Peer(s)
<1>1. SessionTypes /\ p \in Side /\ p # s /\ Peer(p) = s
  BY Sides DEF SessionInv
<1>2. SessionTypes'
  <2>1. st' \in [Side -> Steps]
    BY <1>1 DEF SessionTypes
  <2> QED  BY <2>1, <1>1 DEF SessionTypes
<1>3. st'[s] = to /\ st'[p] = st[p]
  BY <1>1 DEF SessionTypes
<1>4. /\ Stream(s) /\ Stream(p) /\ SentFrames(s) /\ SentFrames(p) /\ Early(s) /\ Early(p)
      /\ Keys(s) /\ Keys(p) /\ pc[s] \in Nat /\ pc[s] # 0
  BY ForSide
<1>5. SentFrames(s)' /\ SentFrames(p)' /\ Keys(s)' /\ Keys(p)'
  <2>1. pc[p] \in Nat /\ pc[s] \in Nat /\ pc[s] >= pc[s] /\ pc[p] >= pc[p]
    BY <1>1 DEF SessionTypes
  <2> QED  BY <2>1, <1>1, <1>4, FramesKept, KeysKept
<1>6. Early(p)'
  BY <1>1, <1>3, <1>4, EarlyKept
<1>7. Early(s)'
  BY <1>3, <1>4 DEF Early
<1>8. ASSUME NEW t \in Side, Stream(t), Over(t) => Over(t)'
      PROVE  Stream(t)'
  <2> DEFINE S(over, live) == Streaming(over, got[t], queue[t], sent[Peer(t)],
                                         buffered[t] \o out[Peer(t)], live)
  <2>1. /\ got[t] \in Seq(Bodies) /\ queue[t] \in Seq(Bodies) /\ sent[Peer(t)] \in Seq(Bodies)
        /\ buffered[t] \in Bodies /\ out[Peer(t)] \in Bodies
        /\ Over(t) \in BOOLEAN /\ Over(t)' \in BOOLEAN /\ alive \in BOOLEAN
    BY ForSide DEF Over
  <2>2. S(Over(t), alive)
    BY <1>8 DEF Stream
  <2>3. Stream(t)' = S(Over(t)', alive')
    BY DEF Stream
  <2>4. CASE Over(t)'
    <3>1. Over(t)' = TRUE
      BY <2>1, <2>4
    <3>2. S(TRUE, alive')
      BY <2>1, <2>2, StreamOver
    <3> QED  BY <3>1, <3>2, <2>3
  <2>5. CASE ~Over(t)'
    <3>1. Over(t)' = FALSE /\ Over(t) = FALSE
      BY <2>1, <2>5, <1>8
    <3>2. CASE alive' = alive
      BY <3>1, <3>2, <2>2, <2>3
    <3>3. CASE alive' = FALSE
      <4> DEFINE o == out[Peer(t)]
      <4>1. o \in Seq(Unit) /\ Len(o) \in 0..Len(o) /\ SubSeq(o, 1, Len(o)) = o
        BY <2>1 DEF Bodies
      <4>2. Streaming(FALSE, got[t], queue[t], sent[Peer(t)], buffered[t] \o o, alive)
        BY <3>1, <2>2
      <4> HIDE DEF o
      <4>3. o \in Bodies
        BY <2>1 DEF o
      <4>4. Streaming(FALSE, got[t], queue[t], sent[Peer(t)],
                      buffered[t] \o SubSeq(o, 1, Len(o)), FALSE)
        BY <4>1, <4>2, <4>3, <2>1, StreamLost
      <4> QED  BY <4>1, <4>4, <3>1, <3>3, <2>3 DEF o
    <3> QED  BY <3>2, <3>3, <2>1
  <2> QED  BY <2>4, <2>5
<1>9. Stream(s)' /\ Stream(p)'
  <2>1. Over(p)' = Over(p) /\ (Over(s) => Over(s)')
    BY <1>3 DEF Over
  <2> QED  BY <2>1, <1>1, <1>4, <1>8
<1> QED  BY <1>2, <1>5, <1>6, <1>7, <1>9, BothSides

LEMMA WaitKeeps ==
  ASSUME SessionInv, NEW s \in Side, Wait(s)
  PROVE  SessionInv'
<1>1. AtStep(s, "recv") /\ st[s] = "run" /\ st' = [st EXCEPT ![s] = "wait"]
  BY DEF Wait, AtStep
<1>2. pc[s] \notin {1, 3} /\ alive \in BOOLEAN
  BY <1>1, StepKinds DEF SessionInv, SessionTypes
<1>3. /\ pass' = pass /\ pc' = pc /\ key' = key /\ remote' = remote /\ tx' = tx
      /\ out' = out /\ alive' = alive
      /\ buffered' = buffered /\ queue' = queue /\ sent' = sent /\ got' = got
  BY DEF Wait, given, channel, reader
<1>4. "wait" \in Steps
  BY DEF Steps
<1> QED  BY <1>1, <1>2, <1>3, <1>4, TurnKeeps

LEMMA FinishKeeps ==
  ASSUME SessionInv, NEW s \in Side, Finish(s)
  PROVE  SessionInv'
<1>1. st[s] = "run" /\ st' = [st EXCEPT ![s] = "done"] /\ pc[s] > Len(Program(s))
  BY DEF Finish
<1>2. pc[s] > 4 /\ alive \in BOOLEAN
  <2>1. Len(Program(s)) >= 4 /\ Len(Program(s)) \in Nat
    <3>1. Len(Program(s)) = 4 + Len(Script[s]) /\ Script[s] \in Seq(Op)
      BY Programs
    <3> DEFINE m == Len(Script[s])
    <3>2. m \in Nat /\ Len(Program(s)) = 4 + m
      BY <3>1
    <3> HIDE DEF m
    <3> QED  BY <3>2
  <2>2. pc[s] \in Nat /\ alive \in BOOLEAN
    BY DEF SessionInv, SessionTypes
  <2> QED  BY <2>1, <2>2, <1>1
<1>3. /\ pass' = pass /\ pc' = pc /\ key' = key /\ remote' = remote /\ tx' = tx
      /\ out' = out /\ alive' = alive
      /\ buffered' = buffered /\ queue' = queue /\ sent' = sent /\ got' = got
  BY DEF Finish, given, channel, reader
<1>4. "done" \in Steps
  BY DEF Steps
<1> QED  BY <1>1, <1>2, <1>3, <1>4, TurnKeeps

LEMMA CloseKeeps ==
  ASSUME SessionInv, NEW s \in Side, Close(s)
  PROVE  SessionInv'
<1> DEFINE to == IF st[s] \in {"wait", "drain"} THEN "failed" ELSE st[s]
<1>1. /\ pass' = pass /\ pc' = pc /\ key' = key /\ remote' = remote /\ tx' = tx
      /\ out' = out /\ alive' = FALSE
      /\ buffered' = buffered /\ queue' = queue /\ sent' = sent /\ got' = got
  BY DEF Close, given, channel
<1>2. st \in [Side -> Steps]
  BY DEF SessionInv, SessionTypes
<1>3. to \in Steps
  BY <1>2 DEF Steps
<1>4. st' = [st EXCEPT ![s] = to]
  <2>1. CASE st[s] \in {"wait", "drain"}
    BY <2>1 DEF Close
  <2>2. CASE st[s] \notin {"wait", "drain"}
    <3>1. st' = st
      BY <2>2 DEF Close
    <3>2. st = [st EXCEPT ![s] = st[s]]
      BY <1>2
    <3> QED  BY <3>1, <3>2, <2>2
  <2> QED  BY <2>1, <2>2
<1>5. (st[s] \notin {"done", "failed"} \/ to = st[s]) /\ (to = st[s] \/ to = "failed")
  OBVIOUS
<1> HIDE DEF to
<1> QED  BY <1>1, <1>3, <1>4, <1>5, TurnKeeps

\* What s reads, once what was on its way to it is cut short.
LEMMA StreamCut ==
  ASSUME SessionInv, NEW s \in Side, Over(s)' = Over(s), got'[s] = got[s],
         queue'[s] = queue[s], sent'[Peer(s)] = sent[Peer(s)],
         buffered'[s] = buffered[s], alive' = FALSE, NEW n \in 0..Len(out[Peer(s)]),
         out'[Peer(s)] = SubSeq(out[Peer(s)], 1, n)
  PROVE  Stream(s)'
<1> DEFINE o == out[Peer(s)]
<1>1. /\ Streaming(Over(s), got[s], queue[s], sent[Peer(s)], buffered[s] \o o, alive)
      /\ got[s] \in Seq(Bodies) /\ queue[s] \in Seq(Bodies) /\ sent[Peer(s)] \in Seq(Bodies)
      /\ buffered[s] \in Bodies /\ o \in Bodies /\ n \in 0..Len(o)
      /\ alive \in BOOLEAN /\ Over(s) \in BOOLEAN
  BY ForSide DEF Stream
<1> HIDE DEF o
<1>2. Streaming(Over(s), got[s], queue[s], sent[Peer(s)], buffered[s] \o SubSeq(o, 1, n), FALSE)
  BY <1>1, StreamLost
<1> QED  BY <1>2 DEF Stream, o

LEMMA CutKeeps ==
  ASSUME SessionInv, Cut
  PROVE  SessionInv'
<1>1. /\ pass' = pass /\ pc' = pc /\ key' = key /\ remote' = remote /\ tx' = tx
      /\ st' = st /\ alive' = FALSE
      /\ buffered' = buffered /\ queue' = queue /\ sent' = sent /\ got' = got
  BY DEF Cut, given, channel, reader
<1>2. PICK i \in 0..Len(out["sender"]), j \in 0..Len(out["receiver"]) :
        out' = [s \in Side |-> SubSeq(out[s], 1, IF s = "sender" THEN i ELSE j)]
  BY DEF Cut
<1>3. ASSUME NEW s \in Side
      PROVE  \E n \in 0..Len(out[s]) : out'[s] = SubSeq(out[s], 1, n)
  <2>1. CASE s = "sender"
    <3>1. out'[s] = SubSeq(out[s], 1, i) /\ i \in 0..Len(out[s])
      BY <2>1, <1>2
    <3> QED  BY <3>1
  <2>2. CASE s = "receiver"
    <3>1. out'[s] = SubSeq(out[s], 1, j) /\ j \in 0..Len(out[s])
      BY <2>2, <1>2
    <3> QED  BY <3>1
  <2> QED  BY <2>1, <2>2 DEF Side
<1>4. SessionTypes /\ \A s \in Side : SentFrames(s) /\ Early(s) /\ Keys(s)
  BY DEF SessionInv
<1>5. SessionTypes'
  <2>1. ASSUME NEW s \in Side PROVE out'[s] \in Bodies
    <3>1. PICK n \in 0..Len(out[s]) : out'[s] = SubSeq(out[s], 1, n)
      BY <1>3
    <3>2. out[s] \in Seq(Unit)
      BY <1>4 DEF SessionTypes, Bodies
    <3> QED  BY <3>1, <3>2 DEF Bodies
  <2>2. out' \in [Side -> Bodies]
    BY <2>1, <1>2
  <2> QED  BY <2>2, <1>1, <1>4 DEF SessionTypes
<1>6. ASSUME NEW s \in Side PROVE (Stream(s) /\ SentFrames(s) /\ Early(s) /\ Keys(s))'
  <2>1. SentFrames(s)' /\ Early(s)'
    BY <1>1, <1>4, FramesKept, EarlyKept
  <2>2. Keys(s)'
    <3>1. Peer(s) \in Side
      BY Sides
    <3>2. pc[Peer(s)] \in Nat /\ pc[Peer(s)] >= pc[Peer(s)]
      BY <3>1, <1>4 DEF SessionTypes
    <3> QED  BY <3>2, <1>1, <1>4, KeysKept
  <2>3. Stream(s)'
    <3>1. Peer(s) \in Side
      BY Sides
    <3>2. PICK n \in 0..Len(out[Peer(s)]) : out'[Peer(s)] = SubSeq(out[Peer(s)], 1, n)
      BY <3>1, <1>3
    <3>3. Over(s)' = Over(s)
      BY <1>1 DEF Over
    <3> QED  BY <3>2, <3>3, <1>1, StreamCut
  <2> QED  BY <2>1, <2>2, <2>3
<1> QED  BY <1>5, <1>6 DEF SessionInv

LEMMA FailKeeps ==
  ASSUME SessionInv, NEW s \in Side, Fail(s)
  PROVE  SessionInv'
<1> DEFINE p == Peer(s)
<1>1. AtStep(s, "recv") /\ st[s] = "run" /\ SessionTypes /\ ~Over(s)
  BY DEF Fail, AtStep, SessionInv, Over
<1>2. /\ pass' = pass /\ pc' = pc /\ key' = key /\ remote' = remote /\ tx' = tx
      /\ st' = [st EXCEPT ![s] = "failed"] /\ alive' = FALSE
      /\ buffered' = buffered /\ queue' = queue /\ sent' = sent
      /\ got' = IF queue[s] = <<>> THEN got
                ELSE [got EXCEPT ![s] = Append(@, Head(queue[s]))]
  BY DEF Fail, given, channel, reader
<1>3. PICK n \in 0..Len(out[s]) : out' = [out EXCEPT ![s] = SubSeq(@, 1, n)]
  BY DEF Fail
<1>4. /\ p \in Side /\ p # s /\ Peer(p) = s
      /\ Stream(s) /\ SentFrames(s) /\ SentFrames(p) /\ Early(s) /\ Early(p)
      /\ Keys(s) /\ Keys(p) /\ got[s] \in Seq(Bodies) /\ queue[s] \in Seq(Bodies)
      /\ sent[p] \in Seq(Bodies) /\ out[s] \in Seq(Unit)
      /\ pc[s] \in Nat /\ pc[p] \in Nat
  BY ForSide DEF Bodies
<1>5. /\ st'[s] = "failed" /\ st'[p] = st[p] /\ out'[s] = SubSeq(out[s], 1, n)
      /\ out'[p] = out[p] /\ got'[p] = got[p]
      /\ queue[s] = <<>> => got'[s] = got[s]
      /\ queue[s] # <<>> => got'[s] = Append(got[s], Head(queue[s]))
  BY <1>1, <1>2, <1>3, <1>4 DEF SessionTypes
<1>6. got'[s] \in Seq(Bodies) /\ IsPrefix(got'[s], sent[p])
  <2> DEFINE a == got[s]
             q == queue[s]
             F == sent[p]
             b == buffered[s] \o out[p]
  <2>1. /\ a \in Seq(Bodies) /\ q \in Seq(Bodies) /\ F \in Seq(Bodies)
        /\ Streaming(FALSE, a, q, F, b, alive)
    <3>1. Over(s) = FALSE
      BY <1>1 DEF Over
    <3> QED  BY <3>1, <1>4 DEF Stream
  <2>2. got'[s] = a \/ (q # <<>> /\ got'[s] = Append(a, Head(q)))
    BY <1>5
  <2> HIDE DEF a, q, F, b
  <2>3. IsPrefix(a, F)
    <3>1. Streaming(TRUE, a, q, F, b, alive)
      BY <2>1, StreamOver
    <3> QED  BY <3>1 DEF Streaming
  <2>4. CASE q # <<>>
    <3> DEFINE c == Append(a, Head(q))
               r == Tail(q)
    <3>1. c \in Seq(Bodies) /\ r \in Seq(Bodies) /\ Streaming(FALSE, c, r, F, b, alive)
      <4>1. Head(q) \in Bodies /\ r \in Seq(Bodies)
        BY <2>1, <2>4
      <4>2. c \in Seq(Bodies)
        BY <4>1, <2>1
      <4>3. Streaming(FALSE, Append(a, Head(q)), Tail(q), F, b, alive)
        BY <2>1, <2>4, StreamRead
      <4> QED  BY <4>1, <4>2, <4>3
    <3> HIDE DEF c, r
    <3>2. Streaming(TRUE, c, r, F, b, alive)
      BY <3>1, <2>1, StreamOver
    <3>3. IsPrefix(c, F)
      BY <3>2 DEF Streaming
    <3> QED  BY <3>1, <3>3, <2>1, <2>2, <2>3 DEF c, F
  <2> QED  BY <2>1, <2>2, <2>3, <2>4 DEF F
<1>7. SessionTypes'
  <2>1. st' \in [Side -> Steps]
    BY <1>1, <1>2 DEF SessionTypes, Steps
  <2>2. out' \in [Side -> Bodies]
    <3>1. SubSeq(out[s], 1, n) \in Bodies
      BY <1>4 DEF Bodies
    <3> QED  BY <3>1, <1>1, <1>3 DEF SessionTypes
  <2>3. got' \in [Side -> Seq(Bodies)]
    <3>1. CASE queue[s] = <<>>
      BY <3>1, <1>1, <1>2 DEF SessionTypes
    <3>2. CASE queue[s] # <<>>
      <4>1. Append(got[s], Head(queue[s])) \in Seq(Bodies)
        BY <3>2, <1>5, <1>6
      <4> QED  BY <4>1, <3>2, <1>1, <1>2 DEF SessionTypes
    <3> QED  BY <3>1, <3>2
  <2> QED  BY <2>1, <2>2, <2>3, <1>1, <1>2 DEF SessionTypes
<1>8. Stream(s)'
  <2>1. Over(s)'
    BY <1>5 DEF Over
  <2> QED  BY <2>1, <1>2, <1>6 DEF Stream, Streaming
<1>9. Stream(p)'
  <2>1. Over(p)' = Over(p)
    BY <1>5 DEF Over
  <2>2. out'[Peer(p)] = SubSeq(out[Peer(p)], 1, n) /\ n \in 0..Len(out[Peer(p)])
    BY <1>3, <1>4, <1>5
  <2> QED  BY <2>1, <2>2, <1>2, <1>4, <1>5, StreamCut
<1>10. SentFrames(s)' /\ SentFrames(p)'
  BY <1>2, <1>4, FramesKept
<1>11. Keys(s)' /\ Keys(p)'
  <2>1. pc[s] >= pc[s] /\ pc[p] >= pc[p]
    BY <1>4
  <2> QED  BY <2>1, <1>2, <1>4, KeysKept
<1>12. Early(p)'
  BY <1>2, <1>4, <1>5, EarlyKept
<1>13. Early(s)'
  <2>1. pc[s] \notin {1, 3}
    BY <1>1, StepKinds
  <2> QED  BY <2>1, <1>2, <1>4, <1>5 DEF Early
<1> QED  BY <1>7, <1>8, <1>9, <1>10, <1>11, <1>12, <1>13, BothSides

LEMMA DataKeeps ==
  ASSUME SessionInv, NEW s \in Side, Data(s)
  PROVE  SessionInv'
<1> DEFINE p == Peer(s)
           o == out[p]
<1>1. /\ SessionTypes /\ p \in Side /\ p # s /\ Peer(p) = s
      /\ Stream(s) /\ Stream(p) /\ SentFrames(s) /\ SentFrames(p) /\ Early(s) /\ Early(p)
      /\ Keys(s) /\ Keys(p) /\ pc[s] \in Nat /\ pc[p] \in Nat
      /\ got[s] \in Seq(Bodies) /\ queue[s] \in Seq(Bodies) /\ sent[p] \in Seq(Bodies)
      /\ buffered[s] \in Bodies /\ o \in Bodies
  BY ForSide DEF SessionInv
<1>2. /\ pass' = pass /\ pc' = pc /\ key' = key /\ remote' = remote /\ tx' = tx
      /\ alive' = alive /\ sent' = sent /\ got' = got
  BY DEF Data, given, channel
<1> DEFINE Some(n) == Pull(buffered[s] \o SubSeq(o, 1, n))
<1>3. PICK n \in 1..Len(o) :
        /\ out' = [out EXCEPT ![p] = Drop(o, n)]
        /\ Over(s) => buffered' = buffered /\ queue' = queue /\ st' = st
        /\ ~Over(s) =>
             /\ buffered' = [buffered EXCEPT ![s] = Some(n).rest]
             /\ queue' = [queue EXCEPT ![s] = @ \o Some(n).frames]
             /\ st' = IF st[s] = "wait" /\ Some(n).frames # <<>>
                      THEN [st EXCEPT ![s] = "run"] ELSE st
  BY DEF Data, Enqueue
<1>4. n \in 0..Len(o) /\ Drop(o, n) \in Bodies
  <2>1. o \in Seq(Unit) /\ n \in 0..Len(o)
    BY <1>1 DEF Bodies
  <2> QED  BY <2>1, DropElements DEF Bodies
<1>5. /\ ~Over(s) =>
           /\ Some(n).rest \in Bodies /\ Some(n).frames \in Seq(Bodies)
           /\ queue[s] \o Some(n).frames \in Seq(Bodies)
           /\ Streaming(FALSE, got[s], queue[s] \o Some(n).frames, sent[p],
                        Some(n).rest \o Drop(o, n), alive)
  <2> SUFFICES ASSUME ~Over(s)
               PROVE  /\ Some(n).rest \in Bodies /\ Some(n).frames \in Seq(Bodies)
                      /\ queue[s] \o Some(n).frames \in Seq(Bodies)
                      /\ Streaming(FALSE, got[s], queue[s] \o Some(n).frames, sent[p],
                                   Some(n).rest \o Drop(o, n), alive)
    OBVIOUS
  <2>1. Over(s) = FALSE
    BY DEF Over
  <2>2. Streaming(FALSE, got[s], queue[s], sent[p], buffered[s] \o o, alive)
    BY <2>1, <1>1 DEF Stream
  <2> HIDE DEF o
  <2>3. /\ Some(n).rest \in Bodies /\ Some(n).frames \in Seq(Bodies)
        /\ Streaming(FALSE, got[s], queue[s] \o Some(n).frames, sent[p],
                     Some(n).rest \o Drop(o, n), alive)
    BY <2>2, <1>1, <1>4, StreamPulled
  <2>4. queue[s] \o Some(n).frames \in Seq(Bodies)
    <3> DEFINE q == queue[s]
               r == Some(n).frames
    <3>1. q \in Seq(Bodies) /\ r \in Seq(Bodies)
      BY <2>3, <1>1
    <3> HIDE DEF q, r
    <3>2. q \o r \in Seq(Bodies)
      BY <3>1
    <3> QED  BY <3>2 DEF q, r
  <2> QED  BY <2>3, <2>4
<1> HIDE DEF Some
<1>6. /\ out'[p] = Drop(o, n) /\ out'[s] = out[s] /\ st'[p] = st[p]
      /\ buffered'[p] = buffered[p] /\ queue'[p] = queue[p]
      /\ st'[s] = st[s] \/ (st[s] = "wait" /\ st'[s] = "run")
  <2>1. out'[p] = Drop(o, n) /\ out'[s] = out[s]
    BY <1>1, <1>3 DEF SessionTypes
  <2>2. CASE Over(s)
    BY <2>1, <2>2, <1>3
  <2>3. CASE ~Over(s)
    <3>1. buffered'[p] = buffered[p] /\ queue'[p] = queue[p]
      BY <2>3, <1>1, <1>3 DEF SessionTypes
    <3>2. st'[p] = st[p] /\ (st'[s] = st[s] \/ (st[s] = "wait" /\ st'[s] = "run"))
      BY <2>3, <1>1, <1>3 DEF SessionTypes
    <3> QED  BY <2>1, <3>1, <3>2
  <2> QED  BY <2>2, <2>3
<1>7. SessionTypes'
  <2>1. out' \in [Side -> Bodies]
    BY <1>1, <1>3, <1>4 DEF SessionTypes
  <2>2. CASE Over(s)
    BY <2>1, <2>2, <1>1, <1>2, <1>3 DEF SessionTypes
  <2>3. CASE ~Over(s)
    <3>1. buffered' \in [Side -> Bodies]
      BY <2>3, <1>1, <1>3, <1>5 DEF SessionTypes
    <3>2. queue' \in [Side -> Seq(Bodies)]
      BY <2>3, <1>1, <1>3, <1>5 DEF SessionTypes
    <3>3. st' \in [Side -> Steps]
      BY <2>3, <1>1, <1>3 DEF SessionTypes, Steps
    <3> QED  BY <2>1, <3>1, <3>2, <3>3, <1>1, <1>2 DEF SessionTypes
  <2> QED  BY <2>2, <2>3
<1>8. Over(s)' = Over(s) /\ Over(p)' = Over(p)
  BY <1>6 DEF Over
<1>9. Stream(p)'
  BY <1>1, <1>2, <1>6, <1>8, StreamKept
<1>10. Stream(s)'
  <2>1. CASE Over(s)
    BY <2>1, <1>1, <1>2, <1>8 DEF Stream, Streaming
  <2>2. CASE ~Over(s)
    <3>1. buffered'[s] = Some(n).rest /\ queue'[s] = queue[s] \o Some(n).frames
      BY <2>2, <1>1, <1>3 DEF SessionTypes
    <3>2. Over(s)' = FALSE
      BY <2>2, <1>8 DEF Over
    <3> QED  BY <2>2, <3>1, <3>2, <1>2, <1>5, <1>6 DEF Stream
  <2> QED  BY <2>1, <2>2
<1>11. SentFrames(s)' /\ SentFrames(p)'
  BY <1>1, <1>2, FramesKept
<1>12. Keys(s)' /\ Keys(p)'
  <2>1. pc[s] >= pc[s] /\ pc[p] >= pc[p]
    BY <1>1
  <2> QED  BY <2>1, <1>1, <1>2, KeysKept
<1>13. Early(p)'
  BY <1>1, <1>2, <1>6, EarlyKept
<1>14. Early(s)'
  <2>1. CASE st'[s] = st[s]
    BY <2>1, <1>1, <1>2, EarlyKept
  <2>2. CASE st[s] = "wait" /\ st'[s] = "run"
    <3>1. pc[s] \notin {1, 3}
      BY <2>2, <1>1 DEF Early
    <3> QED  BY <3>1, <2>2, <1>1, <1>2 DEF Early
  <2> QED  BY <2>1, <2>2, <1>6
<1> QED  BY <1>7, <1>9, <1>10, <1>11, <1>12, <1>13, <1>14, BothSides

LEMMA ReceiveKeeps ==
  ASSUME SessionInv, NEW s \in Side, Receive(s)
  PROVE  SessionInv'
<1> DEFINE p == Peer(s)
           f == Head(queue[s])[1].frame
<1>1. /\ SessionTypes /\ p \in Side /\ p # s /\ Peer(p) = s
      /\ Stream(s) /\ Stream(p) /\ SentFrames(s) /\ SentFrames(p) /\ Early(s) /\ Early(p)
      /\ Keys(s) /\ Keys(p) /\ pc[s] \in Nat /\ pc[p] \in Nat
      /\ got[s] \in Seq(Bodies) /\ queue[s] \in Seq(Bodies) /\ sent[p] \in Seq(Bodies)
      /\ buffered[s] \in Bodies /\ out[p] \in Bodies
  BY ForSide DEF SessionInv
<1>2. AtStep(s, "recv") /\ queue[s] # <<>> /\ Accepts(s, Head(queue[s])) /\ ~Over(s)
  BY DEF Receive, AtStep, Over
<1>3. /\ got' = [got EXCEPT ![s] = Append(@, Head(queue[s]))]
      /\ queue' = [queue EXCEPT ![s] = Tail(@)]
      /\ pc' = [pc EXCEPT ![s] = @ + 1]
      /\ IF f.type = "PAKE" THEN Derive(s, f.data) ELSE key' = key /\ remote' = remote
      /\ pass' = pass /\ st' = st /\ tx' = tx /\ out' = out /\ alive' = alive
      /\ buffered' = buffered /\ sent' = sent
  BY DEF Receive, given
<1>4. /\ pc[s] \notin {0, 1, 3} /\ st[s] = "run"
      /\ pc[s] = 2 => f.type = "PAKE" /\ f.data = Message(p)
      /\ pc[s] = 4 => f.type # "PAKE" /\ pass[s] = pass[p] /\ pc[p] >= 3
      /\ pc[s] > 4 => f.type # "PAKE"
  BY <1>2, AcceptedFrame
<1> HIDE DEF f
<1>5. /\ Append(got[s], Head(queue[s])) \in Seq(Bodies) /\ Tail(queue[s]) \in Seq(Bodies)
      /\ Len(Append(got[s], Head(queue[s]))) = Len(got[s]) + 1
      /\ Streaming(FALSE, Append(got[s], Head(queue[s])), Tail(queue[s]), sent[p],
                   buffered[s] \o out[p], alive)
  <2> DEFINE a == got[s]
             q == queue[s]
             F == sent[p]
             b == buffered[s] \o out[p]
  <2>1. a \in Seq(Bodies) /\ q \in Seq(Bodies) /\ F \in Seq(Bodies) /\ q # <<>>
    BY <1>1, <1>2
  <2>2. Streaming(FALSE, a, q, F, b, alive)
    <3>1. Over(s) = FALSE
      BY <1>2 DEF Over
    <3> QED  BY <3>1, <1>1 DEF Stream
  <2> HIDE DEF a, q, F, b
  <2>3. Append(a, Head(q)) \in Seq(Bodies) /\ Tail(q) \in Seq(Bodies)
        /\ Len(Append(a, Head(q))) = Len(a) + 1
    BY <2>1
  <2>4. Streaming(FALSE, Append(a, Head(q)), Tail(q), F, b, alive)
    BY <2>1, <2>2, StreamRead
  <2> QED  BY <2>3, <2>4 DEF a, q, F, b
<1>6. /\ got'[s] = Append(got[s], Head(queue[s])) /\ queue'[s] = Tail(queue[s])
      /\ pc'[s] = pc[s] + 1 /\ got'[p] = got[p] /\ queue'[p] = queue[p] /\ pc'[p] = pc[p]
  BY <1>1, <1>3 DEF SessionTypes
<1>7. /\ pc[s] = 2 => key'[s] = Isk(s, Message(p)) /\ remote'[s] = Message(p)
      /\ pc[s] # 2 => key'[s] = key[s] /\ remote'[s] = remote[s]
      /\ key'[p] = key[p] /\ remote'[p] = remote[p]
      /\ key' \in [Side -> Isks \cup {None}] /\ remote' \in [Side -> Msg \cup {None}]
  <2>1. CASE pc[s] = 2
    <3>1. Message(s) \in Msg /\ Message(p) \in Msg
      BY <1>1, OwnFrames
    <3>2. Isk(s, Message(p)) \in Isks
      <4> DEFINE m == Message(s)
                 y == Message(p)
      <4>1. y.scalar \in Side /\ y.generator \in Pass /\ m \in Msg /\ y \in Msg
        BY <3>1 DEF Msg
      <4> HIDE DEF m, y
      <4>2. {s, y.scalar} \in SUBSET Side /\ {m, y} \in SUBSET Msg
        BY <4>1
      <4> QED  BY <4>1, <4>2 DEF Isk, Isks, m, y
    <3>3. key' = [key EXCEPT ![s] = Isk(s, Message(p))]
          /\ remote' = [remote EXCEPT ![s] = Message(p)]
      BY <2>1, <1>3, <1>4 DEF Derive
    <3> QED  BY <2>1, <3>1, <3>2, <3>3, <1>1 DEF SessionTypes
  <2>2. CASE pc[s] # 2
    <3>1. pc[s] = 4 \/ pc[s] > 4
      BY <2>2, <1>1, <1>4
    <3>2. key' = key /\ remote' = remote
      BY <3>1, <1>3, <1>4
    <3> QED  BY <2>2, <3>2, <1>1 DEF SessionTypes
  <2> QED  BY <2>1, <2>2
<1>8. SessionTypes'
  <2>1. got' \in [Side -> Seq(Bodies)]
    BY <1>1, <1>3, <1>5 DEF SessionTypes
  <2>2. queue' \in [Side -> Seq(Bodies)]
    BY <1>1, <1>3, <1>5 DEF SessionTypes
  <2>3. pc' \in [Side -> Nat \ {0}]
    <3>1. pc[s] + 1 \in Nat \ {0}
      BY <1>1
    <3> QED  BY <3>1, <1>1, <1>3 DEF SessionTypes
  <2> QED  BY <2>1, <2>2, <2>3, <1>1, <1>3, <1>7 DEF SessionTypes
<1>9. Over(s)' = Over(s) /\ Over(p)' = Over(p) /\ Over(s) = FALSE
  BY <1>2, <1>3 DEF Over
<1>10. Stream(s)'
  BY <1>3, <1>5, <1>6, <1>9 DEF Stream
<1>11. Stream(p)'
  BY <1>1, <1>3, <1>6, <1>9, StreamKept
<1>12. SentFrames(p)' /\ Early(p)'
  BY <1>1, <1>3, <1>6, <1>7, FramesKept, EarlyKept
<1>13. Keys(p)'
  <2>1. pc'[s] \in Nat /\ pc'[s] >= pc[s]
    BY <1>1, <1>6
  <2> QED  BY <2>1, <1>1, <1>3, <1>6, <1>7, KeysKept
<1>14. SentFrames(s)'
  <2>1. CASE pc[s] = 2
    <3>1. sent'[s] = sent[s] /\ PakeFrame(s)' = PakeFrame(s)
      BY <1>3 DEF PakeFrame, Message
    <3> DEFINE m == Len(sent[s])
    <3>2. m = 1
      BY <2>1, <1>1 DEF Early
    <3>3. m >= 1 => sent[s][1] = Body(PakeFrame(s))
      BY <1>1 DEF SentFrames
    <3> HIDE DEF m
    <3>4. /\ ~(m >= 2) /\ 3..m = {} /\ m >= 1
      BY <3>2
    <3> QED  BY <3>1, <3>3, <3>4 DEF SentFrames, m
  <2>2. CASE pc[s] # 2
    BY <2>2, <1>1, <1>3, <1>7, FramesKept
  <2> QED  BY <2>1, <2>2
<1>15. Early(s)'
  <2>1. CASE pc[s] = 2
    <3>1. Len(sent[s]) = 1 /\ Len(got[s]) = 0 /\ tx[s] = 0
      BY <2>1, <1>1, <1>4 DEF Early
    <3>2. pc'[s] = 3 /\ Len(got'[s]) = 1
      BY <3>1, <2>1, <1>5, <1>6
    <3>3. Len(sent'[s]) = 1 /\ tx'[s] = 0 /\ st'[s] = "run"
      BY <3>1, <1>3, <1>4
    <3> QED  BY <3>2, <3>3 DEF Early
  <2>2. CASE pc[s] = 4
    <3>1. Len(sent[s]) = 2 /\ tx[s] = 0
      BY <2>2, <1>1, <1>4 DEF Early
    <3>2. pc'[s] = 5 /\ Len(sent'[s]) = 2 /\ tx'[s] = 0
      BY <3>1, <2>2, <1>3, <1>6
    <3> QED  BY <3>2 DEF Early
  <2>3. CASE pc[s] > 4
    <3>1. Len(sent[s]) = tx[s] + 2 /\ pc'[s] > 4 /\ pc'[s] \in Nat
      BY <2>3, <1>1, <1>6 DEF Early
    <3> QED  BY <3>1, <1>3 DEF Early
  <2> QED  BY <2>1, <2>2, <2>3, <1>1, <1>4
<1>16. Keys(s)'
  <2>1. Message(p)' = Message(p) /\ Isk(s, Message(p))' = Isk(s, Message(p))
    BY <1>3 DEF Message, Isk
  <2>2. CASE pc[s] = 2
    <3>1. pc'[s] = 3
      BY <2>2, <1>6
    <3> QED  BY <3>1, <2>1, <2>2, <1>7 DEF Keys
  <2>3. CASE pc[s] = 4
    <3>1. pc'[s] = 5
      BY <2>3, <1>6
    <3>2. key[s] = Isk(s, Message(p)) /\ remote[s] = Message(p)
      BY <2>3, <1>1 DEF Keys
    <3> QED  BY <3>1, <3>2, <2>1, <2>3, <1>3, <1>4, <1>6, <1>7 DEF Keys
  <2>4. CASE pc[s] > 4
    <3>1. pc'[s] \in Nat /\ pc'[s] > 5 /\ pc[s] >= 5 /\ pc[s] # 2
      BY <2>4, <1>1, <1>6
    <3>2. key[s] = Isk(s, Message(p)) /\ remote[s] = Message(p)
          /\ pass[s] = pass[p] /\ pc[p] >= 3
      BY <3>1, <1>1 DEF Keys
    <3> QED  BY <3>1, <3>2, <2>1, <1>3, <1>6, <1>7 DEF Keys
  <2> QED  BY <2>2, <2>3, <2>4, <1>1, <1>4
<1> QED  BY <1>8, <1>10, <1>11, <1>12, <1>13, <1>14, <1>15, <1>16, BothSides
-----------------------------------------------------------------------------
(* The theorems.                                                           *)

LEMMA InitSession == Init => SessionInv
<1> SUFFICES ASSUME Init PROVE SessionInv
  OBVIOUS
<1>1. <<>> \in Bodies /\ <<>> \in Seq(Bodies)
  BY DEF Bodies
<1>2. SessionTypes
  <2>1. /\ pc = [s \in Side |-> 1] /\ st = [s \in Side |-> "run"]
        /\ key = [s \in Side |-> None] /\ remote = [s \in Side |-> None]
        /\ tx = [s \in Side |-> 0] /\ pass \in [Side -> Pass] /\ alive = TRUE
    BY DEF Init
  <2>2. /\ out = [s \in Side |-> <<>>] /\ buffered = [s \in Side |-> <<>>]
        /\ queue = [s \in Side |-> <<>>] /\ sent = [s \in Side |-> <<>>]
        /\ got = [s \in Side |-> <<>>]
    BY DEF Init
  <2>3. /\ pc \in [Side -> Nat \ {0}] /\ st \in [Side -> Steps]
        /\ key \in [Side -> Isks \cup {None}] /\ remote \in [Side -> Msg \cup {None}]
        /\ tx \in [Side -> Nat]
    BY <2>1 DEF Steps
  <2>4. /\ out \in [Side -> Bodies] /\ buffered \in [Side -> Bodies]
        /\ queue \in [Side -> Seq(Bodies)] /\ sent \in [Side -> Seq(Bodies)]
        /\ got \in [Side -> Seq(Bodies)]
    BY <2>2, <1>1
  <2> QED  BY <2>1, <2>3, <2>4 DEF SessionTypes
<1>3. ASSUME NEW s \in Side PROVE Stream(s) /\ SentFrames(s) /\ Early(s) /\ Keys(s)
  <2>1. Peer(s) \in Side
    BY Sides
  <2>2. /\ pc[s] = 1 /\ st[s] = "run" /\ key[s] = None /\ remote[s] = None /\ tx[s] = 0
        /\ alive = TRUE /\ sent[s] = <<>> /\ got[s] = <<>> /\ queue[s] = <<>>
        /\ sent[Peer(s)] = <<>> /\ buffered[s] = <<>> /\ out[Peer(s)] = <<>>
    BY <2>1 DEF Init
  <2>3. Stream(s)
    <3>1. <<>> \o <<>> = <<>> /\ Drop(<<>>, 0) = <<>> /\ SubSeq(<<>>, 1, 0) = <<>>
          /\ Len(<<>>) + Len(<<>>) = 0 /\ Len(<<>>) = 0
      BY DEF Drop
    <3>2. Over(s) = FALSE
      BY <2>2 DEF Over
    <3>3. Streaming(FALSE, <<>>, <<>>, <<>>, <<>>, TRUE)
      <4> DEFINE e == <<>>
                 n == Len(e) + Len(e)
      <4>1. n <= Len(e) /\ e \o e = SubSeq(e, 1, n) /\ Drop(e, n) = e
        BY <3>1
      <4>2. Carries(e, Drop(e, n), TRUE)
        BY <4>1, CarriesNothing
      <4> HIDE DEF e
      <4>3. Streaming(FALSE, e, e, e, e, TRUE)
        BY <4>1, <4>2 DEF Streaming, n
      <4> QED  BY <4>3 DEF e
    <3> QED  BY <2>2, <3>1, <3>2, <3>3 DEF Stream
  <2>4. SentFrames(s)
    BY <2>2 DEF SentFrames
  <2>5. Early(s)
    BY <2>2 DEF Early
  <2>6. Keys(s)
    BY <2>2 DEF Keys
  <2> QED  BY <2>3, <2>4, <2>5, <2>6
<1> QED  BY <1>2, <1>3 DEF SessionInv

\* A step that changes nothing.
LEMMA StutterKeeps ==
  ASSUME SessionInv, UNCHANGED vars
  PROVE  SessionInv'
<1>1. /\ pass' = pass /\ pc' = pc /\ key' = key /\ remote' = remote /\ tx' = tx
      /\ out' = out /\ alive' = alive /\ st' = st
      /\ buffered' = buffered /\ queue' = queue /\ sent' = sent /\ got' = got
  BY DEF vars, given, channel, reader
<1> DEFINE s == "sender"
<1>2. s \in Side /\ st \in [Side -> Steps] /\ alive \in BOOLEAN
  BY DEF SessionInv, SessionTypes, Side
<1>3. st[s] \in Steps /\ st' = [st EXCEPT ![s] = st[s]]
  BY <1>1, <1>2
<1> QED  BY <1>1, <1>2, <1>3, TurnKeeps

\* The session's invariant: what is on its way between two sides is what one
\* has sent and the other has not read; what each has sent is determined by its
\* step; and a side is past the handshake only with its peer's key.
THEOREM SessionInvariant == Spec => []SessionInv
<1>1. ASSUME SessionInv, [Next]_vars PROVE SessionInv'
  <2>1. CASE Cut
    BY <1>1, <2>1, CutKeeps
  <2>2. CASE UNCHANGED vars
    BY <1>1, <2>2, StutterKeeps
  <2>3. ASSUME NEW s \in Side, Run(s) \/ Drained(s) \/ Data(s) \/ Close(s)
        PROVE  SessionInv'
    <3>1. CASE Send(s)
      BY <1>1, <3>1, SendKeeps
    <3>2. CASE Wait(s)
      BY <1>1, <3>2, WaitKeeps
    <3>3. CASE Receive(s)
      BY <1>1, <3>3, ReceiveKeeps
    <3>4. CASE Fail(s)
      BY <1>1, <3>4, FailKeeps
    <3>5. CASE Finish(s)
      BY <1>1, <3>5, FinishKeeps
    <3>6. CASE Drained(s)
      BY <1>1, <3>6, DrainedKeeps
    <3>7. CASE Data(s)
      BY <1>1, <3>7, DataKeeps
    <3>8. CASE Close(s)
      BY <1>1, <3>8, CloseKeeps
    <3> QED  BY <2>3, <3>1, <3>2, <3>3, <3>4, <3>5, <3>6, <3>7, <3>8 DEF Run
  <2> QED  BY <1>1, <2>1, <2>2, <2>3 DEF Next
<1> QED  BY <1>1, InitSession, PTL DEF Spec

\* However the stream is cut into pieces, and whenever the connection dies, a
\* side reads the frames its peer wrote: whole, once, in order
\* (MessageReader._push and read).
THEOREM FramesStayIntact == Spec => []FramesIntact
<1>1. SessionInv => FramesIntact
  <2> SUFFICES ASSUME SessionInv, NEW s \in Side PROVE IsPrefix(got[s], sent[Peer(s)])
    BY DEF FramesIntact
  <2> DEFINE a == got[s]
             q == queue[s]
             F == sent[Peer(s)]
             b == buffered[s] \o out[Peer(s)]
  <2>1. /\ a \in Seq(Bodies) /\ q \in Seq(Bodies) /\ F \in Seq(Bodies) /\ Over(s) \in BOOLEAN
        /\ Streaming(Over(s), a, q, F, b, alive)
    BY ForSide DEF Stream
  <2> HIDE DEF a, q, F, b
  <2>2. Streaming(TRUE, a, q, F, b, alive)
    BY <2>1, StreamOver
  <2> QED  BY <2>2 DEF Streaming, a, F
<1> QED  BY <1>1, SessionInvariant, PTL

\* The sealed frames of s are those from the third on; its nonces are theirs.
LEMMA SealedAre ==
  ASSUME SessionInv, NEW s \in Side
  PROVE  /\ Sealed(s) = {sent[s][i][1].frame : i \in 3..Len(sent[s])}
         /\ \A i \in 3..Len(sent[s]) : sent[s][i][1].frame.data.nonce = Nonce(s, i - 3)
<1> DEFINE q == sent[s]
           n == Len(q)
<1>1. /\ SessionTypes /\ n \in Nat /\ pass[s] \in Pass
  BY DEF SessionInv, SessionTypes
<1>2. /\ n >= 1 => q[1] = Body(PakeFrame(s))
      /\ n >= 2 => q[2] = Body(ConfirmFrame(s))
      /\ \A i \in 3..n : \E size \in Nat \ {0}, t \in Type :
           q[i] = Body(SealedFrame(s, size, i - 3, t))
  BY DEF SessionInv, SentFrames
<1>3. PakeFrame(s) \in Frame /\ ConfirmFrame(s) \in Frame
  BY <1>1, OwnFrames
<1>4. /\ n >= 1 => q[1][1].frame.type = "PAKE"
      /\ n >= 2 => q[2][1].frame.type = "CONFIRM"
  BY <1>2, <1>3, BodyOf DEF PakeFrame, ConfirmFrame
<1>5. ASSUME NEW i \in 3..n
      PROVE  q[i][1].frame.type = "ENC" /\ q[i][1].frame.data.nonce = Nonce(s, i - 3)
  <2>1. PICK size \in Nat \ {0}, t \in Type : q[i] = Body(SealedFrame(s, size, i - 3, t))
    BY <1>2
  <2>2. i - 3 \in Nat
    BY <1>1
  <2>3. SealedFrame(s, size, i - 3, t) \in Frame
    BY <2>2, <1>1, OwnFrames
  <2>4. q[i][1].frame = SealedFrame(s, size, i - 3, t)
    BY <2>1, <2>3, BodyOf
  <2> QED  BY <2>4 DEF SealedFrame
<1> HIDE DEF n
<1>6. \A j \in 1..n : q[j][1].frame.type = "ENC" <=> j \in 3..n
  <2> SUFFICES ASSUME NEW j \in 1..n PROVE q[j][1].frame.type = "ENC" <=> j \in 3..n
    OBVIOUS
  <2>1. CASE j = 1
    <3>1. n >= 1 /\ j \notin 3..n
      BY <2>1, <1>1
    <3> QED  BY <3>1, <2>1, <1>4
  <2>2. CASE j = 2
    <3>1. n >= 2 /\ j \notin 3..n
      BY <2>2, <1>1
    <3> QED  BY <3>1, <2>2, <1>4
  <2>3. CASE j > 2
    <3>1. j \in 3..n
      BY <2>3, <1>1
    <3> QED  BY <3>1, <1>5
  <2> QED  BY <2>1, <2>2, <2>3, <1>1
<1>7. {j \in 1..n : q[j][1].frame.type = "ENC"} = 3..n
  BY <1>1, <1>6
<1>8. Sealed(s) = {q[i][1].frame : i \in {j \in 1..n : q[j][1].frame.type = "ENC"}}
  BY DEF Sealed, n
<1> QED  BY <1>5, <1>7, <1>8 DEF n

\* Nothing is sealed, so no byte of a file is sent, but under a key that both
\* sides derived from one passphrase: a side seals only after it has verified
\* its peer's tag (runCPace, and the SecretChannel built from its key).
THEOREM GateHolds == Spec => []AuthGate
<1>1. SessionInv => AuthGate
  <2> SUFFICES ASSUME SessionInv, NEW s \in Side, Sealed(s) # {} PROVE SamePass /\ SameKey
    BY DEF AuthGate
  <2> DEFINE p == Peer(s)
             n == Len(sent[s])
  <2>1. /\ p \in Side /\ p # s /\ Peer(p) = s /\ Early(s) /\ Keys(s) /\ Keys(p)
        /\ pc[s] \in Nat /\ pc[s] # 0 /\ pc[p] \in Nat /\ n \in Nat
    BY ForSide
  <2>2. 3..n # {}
    BY SealedAre
  <2>3. n >= 3
    <3> HIDE DEF n
    <3> QED  BY <2>1, <2>2
  <2>4. /\ (pc[s] = 1 => n <= 1) /\ (pc[s] = 2 => n = 1) /\ (pc[s] = 3 => n \in 1..2)
        /\ (pc[s] = 4 => n = 2)
    BY <2>1 DEF Early
  <2>5. pc[s] >= 5
    <3> HIDE DEF n
    <3> QED  BY <2>1, <2>3, <2>4
  <2>6. /\ pass[s] = pass[p] /\ key[s] = Isk(s, Message(p)) /\ key[p] = Isk(p, Message(s))
    <3>1. pc[s] >= 3 /\ pc[p] >= 3
      BY <2>1, <2>5 DEF Keys
    <3> QED  BY <3>1, <2>1, <2>5 DEF Keys
  <2>7. key[s] = key[p]
    <3>1. {s, p} = {p, s} /\ {Message(s), Message(p)} = {Message(p), Message(s)}
      OBVIOUS
    <3> QED  BY <3>1, <2>6 DEF Isk, Message
  <2>8. key[s] # None
    <3>1. key[s].transcript = {Message(s), Message(p)} /\ Message(s) \in Msg
          /\ Message(p) \in Msg
      BY <2>1, <2>6, OwnFrames DEF Isk, SessionInv
    <3>2. Isk(s, Message(p)) \in Isks
      <4> DEFINE m == Message(s)
                 y == Message(p)
      <4>1. y.scalar \in Side /\ y.generator \in Pass /\ m \in Msg /\ y \in Msg
        BY <3>1 DEF Msg
      <4> HIDE DEF m, y
      <4>2. {s, y.scalar} \in SUBSET Side /\ {m, y} \in SUBSET Msg
        BY <4>1
      <4> QED  BY <4>1, <4>2 DEF Isk, Isks, m, y
    <3> QED  BY <3>2, <2>6, NoneAssumption
  <2>9. (s = "sender" /\ p = "receiver") \/ (s = "receiver" /\ p = "sender")
    BY <2>1 DEF Side
  <2> QED  BY <2>6, <2>7, <2>8, <2>9 DEF SamePass, SameKey
<1> QED  BY <1>1, SessionInvariant, PTL

\* The size of a set that 3..n numbers.
LEMMA Numbered ==
  ASSUME NEW n \in Nat, NEW T, NEW g \in [3..n -> T],
         \A i, j \in 3..n : g[i] = g[j] => i = j, \A t \in T : \E i \in 3..n : g[i] = t
  PROVE  Cardinality(T) = IF n < 3 THEN 0 ELSE n - 2
<1>1. g \in Bijection(3..n, T)
  BY DEF Bijection, Injection, Surjection, IsInjective
<1>2. IsFiniteSet(3..n) /\ Cardinality(3..n) = IF 3 > n THEN 0 ELSE n - 3 + 1
  BY FS_Interval
<1>3. Cardinality(T) = Cardinality(3..n)
  <2>1. ExistsBijection(3..n, T)
    BY <1>1 DEF ExistsBijection
  <2> DEFINE S == 3..n
  <2>2. IsFiniteSet(S) /\ ExistsBijection(S, T)
    BY <1>2, <2>1
  <2> HIDE DEF S
  <2>3. Cardinality(T) = Cardinality(S)
    BY <2>2, FS_Bijection
  <2> QED  BY <2>3 DEF S
<1> QED  BY <1>2, <1>3

\* No two sealed frames of a session have one nonce, whichever side sent them,
\* and there are as many as the counter says (SecretChannel.send).
THEOREM NoncesOnce == Spec => []NonceOnce
<1>1. ASSUME SessionInv, NEW s \in Side
      PROVE  /\ Cardinality(Sealed(s)) = Cardinality({f.data.nonce : f \in Sealed(s)})
             /\ Confirmed(s) => Cardinality(Sealed(s)) = tx[s]
  <2> DEFINE n == Len(sent[s])
             F(i) == sent[s][i][1].frame
             S == Sealed(s)
             T == {f.data.nonce : f \in S}
             g == [i \in 3..n |-> F(i)]
             h == [i \in 3..n |-> Nonce(s, i - 3)]
  <2>1. n \in Nat /\ pc[s] \in Nat /\ tx[s] \in Nat
    BY <1>1, ForSide
  <2>2. S = {F(i) : i \in 3..n} /\ \A i \in 3..n : F(i).data.nonce = Nonce(s, i - 3)
    BY <1>1, SealedAre
  <2>3. (n >= 2 /\ tx[s] = n - 2) \/ ~Confirmed(s)
    <3>1. CASE pc[s] > 4
      <4>1. n = tx[s] + 2
        BY <3>1, <1>1 DEF SessionInv, Early
      <4> HIDE DEF n
      <4> QED  BY <4>1, <2>1
    <3>2. CASE ~(pc[s] > 4)
      BY <3>2 DEF Confirmed, Handshake
    <3> QED  BY <3>1, <3>2
  <2> HIDE DEF n, S, F
  <2>4. ASSUME NEW i \in 3..n, NEW j \in 3..n, Nonce(s, i - 3) = Nonce(s, j - 3)
        PROVE  i = j
    <3>1. i - 3 = j - 3
      BY <2>4 DEF Nonce
    <3> QED  BY <3>1, <2>1
  <2>5. Cardinality(S) = IF n < 3 THEN 0 ELSE n - 2
    <3>1. g \in [3..n -> S]
      BY <2>2
    <3>2. ASSUME NEW i \in 3..n, NEW j \in 3..n, g[i] = g[j] PROVE i = j
      <4>1. F(i) = F(j)
        BY <3>2
      <4>2. Nonce(s, i - 3) = Nonce(s, j - 3)
        BY <4>1, <2>2
      <4> QED  BY <4>2, <2>4
    <3>3. \A t \in S : \E i \in 3..n : g[i] = t
      BY <2>2
    <3> HIDE DEF g
    <3> QED  BY <3>1, <3>2, <3>3, <2>1, Numbered
  <2>6. Cardinality(T) = IF n < 3 THEN 0 ELSE n - 2
    <3>1. T = {Nonce(s, i - 3) : i \in 3..n}
      BY <2>2
    <3> HIDE DEF T
    <3>2. h \in [3..n -> T]
      BY <3>1
    <3>3. ASSUME NEW i \in 3..n, NEW j \in 3..n, h[i] = h[j] PROVE i = j
      <4>1. Nonce(s, i - 3) = Nonce(s, j - 3)
        BY <3>3
      <4> QED  BY <4>1, <2>4
    <3>4. \A t \in T : \E i \in 3..n : h[i] = t
      BY <3>1
    <3> HIDE DEF h
    <3> QED  BY <3>2, <3>3, <3>4, <2>1, Numbered
  <2>7. Confirmed(s) => Cardinality(S) = tx[s]
    <3>1. CASE ~Confirmed(s)
      BY <3>1
    <3>2. CASE Confirmed(s)
      BY <3>2, <2>1, <2>3, <2>5
    <3> QED  BY <3>1, <3>2
  <2> QED  BY <2>5, <2>6, <2>7 DEF S
<1>2. ASSUME SessionInv, NEW f \in Sealed("sender"), NEW g \in Sealed("receiver")
      PROVE  f.data.nonce # g.data.nonce
  <2>1. "sender" \in Side /\ "receiver" \in Side
    BY DEF Side
  <2>2. \E n : f.data.nonce = Nonce("sender", n)
    BY <1>2, <2>1, SealedAre
  <2>3. \E n : g.data.nonce = Nonce("receiver", n)
    BY <1>2, <2>1, SealedAre
  <2> QED  BY <2>2, <2>3 DEF Nonce
<1>3. SessionInv => NonceOnce
  BY <1>1, <1>2 DEF NonceOnce
<1> QED  BY <1>3, SessionInvariant, PTL
=============================================================================
