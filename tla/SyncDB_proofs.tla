---------------------------- MODULE SyncDB_proofs ----------------------------
(***************************************************************************)
(* Proofs about SyncDB, for any peers, keys and values and any number of   *)
(* nodes: views are a function of the nodes known, a write is never beaten *)
(* by one it depends on, and no key is lost.                               *)
(***************************************************************************)
EXTENDS SyncDB, FiniteSetTheorems, SequenceTheorems, WellFoundedInduction, TLAPS

(* Induction, for sets: the library's theorems take a predicate.           *)

LEMMA Induction ==
  ASSUME NEW S, 0 \in S, \A n \in Nat : n \in S => n + 1 \in S
  PROVE  Nat \subseteq S
<1> DEFINE T == Nat \ S
           R == {ss \in Nat \X Nat : ss[1] < ss[2]}
<1> SUFFICES ASSUME T # {} PROVE FALSE
  OBVIOUS
<1>1. IsWellFoundedOn(R, Nat)
  BY NatLessThanWellFounded, Zenon DEF OpToRel
<1>2. PICK x \in T : \A y \in T : <<y, x>> \notin R
  <2> HIDE DEF R
  <2> QED  BY <1>1, WFMin
<1>3. x \in Nat /\ x # 0 /\ x \notin S
  OBVIOUS
<1>4. x - 1 \in Nat /\ <<x - 1, x>> \in R
  BY <1>3
<1>5. x - 1 \in S
  BY <1>2, <1>4
<1> QED  BY <1>3, <1>4, <1>5

-----------------------------------------------------------------------------
(* Orders.                                                                 *)

Ahead(N, R, n) == {m \in N : <<m, n>> \in R}
Position(N, R, n) == Cardinality(Ahead(N, R, n))

\* In a strict total order of a finite set, the number of elements before each
\* numbers them from 0.
LEMMA Positions ==
  ASSUME NEW N, IsFiniteSet(N), NEW R,
         \A n \in N : <<n, n>> \notin R,
         \A m, n, o \in N : <<m, n>> \in R /\ <<n, o>> \in R => <<m, o>> \in R,
         \A m, n \in N : m # n => <<m, n>> \in R \/ <<n, m>> \in R
  PROVE  /\ Cardinality(N) \in Nat
         /\ \A n \in N : Position(N, R, n) \in 0..(Cardinality(N) - 1)
         /\ \A m, n \in N : <<m, n>> \in R => Position(N, R, m) < Position(N, R, n)
         /\ \A m, n \in N : Position(N, R, m) = Position(N, R, n) => m = n
         /\ \A i \in 0..(Cardinality(N) - 1) : \E n \in N : Position(N, R, n) = i
<1> DEFINE C == Cardinality(N)
<1>1. C \in Nat
  BY FS_CardinalityType
<1>2. ASSUME NEW n \in N
      PROVE  IsFiniteSet(Ahead(N, R, n)) /\ Position(N, R, n) \in Nat
  <2>1. Ahead(N, R, n) \in SUBSET N
    BY DEF Ahead
  <2>2. IsFiniteSet(Ahead(N, R, n))
    BY <2>1, FS_Subset
  <2> QED  BY <2>2, FS_CardinalityType DEF Position
<1>3. ASSUME NEW n \in N PROVE Position(N, R, n) \in 0..(C - 1)
  <2>1. IsFiniteSet(N \ {n}) /\ Cardinality(N \ {n}) = C - 1
    BY FS_RemoveElement
  <2>2. Ahead(N, R, n) \in SUBSET (N \ {n})
    BY DEF Ahead
  <2>3. Position(N, R, n) <= C - 1
    BY <2>1, <2>2, FS_Subset DEF Position
  <2> QED  BY <2>3, <1>1, <1>2
<1>4. ASSUME NEW m \in N, NEW n \in N, <<m, n>> \in R
      PROVE  Position(N, R, m) < Position(N, R, n)
  <2> DEFINE A == Ahead(N, R, m)
             B == Ahead(N, R, n)
  <2>1. A \cup {m} \in SUBSET B /\ m \notin A
    BY <1>4 DEF Ahead
  <2>2. IsFiniteSet(A) /\ IsFiniteSet(B) /\ Cardinality(A) \in Nat /\ Cardinality(B) \in Nat
    BY <1>2 DEF Position
  <2> HIDE DEF A, B
  <2>3. Cardinality(A \cup {m}) = Cardinality(A) + 1
    BY <2>1, <2>2, FS_AddElement
  <2>4. Cardinality(A \cup {m}) <= Cardinality(B)
    BY <2>1, <2>2, FS_Subset
  <2>5. Cardinality(A) < Cardinality(B)
    BY <2>2, <2>3, <2>4
  <2> QED  BY <2>5 DEF Position, A, B
<1>5. ASSUME NEW m \in N, NEW n \in N, Position(N, R, m) = Position(N, R, n)
      PROVE  m = n
  <2>1. ~(Position(N, R, m) < Position(N, R, n)) /\ ~(Position(N, R, n) < Position(N, R, m))
    BY <1>2, <1>5
  <2> QED  BY <2>1, <1>4
<1>6. ASSUME NEW i \in 0..(C - 1) PROVE \E n \in N : Position(N, R, n) = i
  <2> DEFINE T == 0..(C - 1)
             f == [n \in N |-> Position(N, R, n)]
  <2>1. f \in Injection(N, T)
    <3>1. f \in [N -> T]
      BY <1>3
    <3>2. \A m, n \in N : f[m] = f[n] => m = n
      BY <1>5
    <3> QED  BY <3>1, <3>2 DEF Injection, IsInjective
  <2>2. IsFiniteSet(T) /\ Cardinality(T) = C
    <3>1. 0 \in Int /\ C - 1 \in Int
      BY <1>1
    <3>2. IsFiniteSet(T) /\ Cardinality(T) = IF 0 > C - 1 THEN 0 ELSE (C - 1) - 0 + 1
      BY <3>1, FS_Interval
    <3> HIDE DEF C, T
    <3> QED  BY <3>2, <1>1
  <2> HIDE DEF f, T
  <2>3. f \in Surjection(N, T)
    BY <2>1, <2>2, FS_Injection
  <2>4. \E n \in N : f[n] = i
    BY <2>3 DEF Surjection, T
  <2> QED  BY <2>4 DEF f
<1> QED  BY <1>1, <1>3, <1>4, <1>5, <1>6
-----------------------------------------------------------------------------
(* Clocks, nodes and logs.                                                 *)

Node == [from : Peer, seq : Nat]
LogNode == [op : Ops, deps : Clock]
DepsOf(lg, n) == lg[n.from][n.seq].deps

LEMMA NodesAre ==
  ASSUME NEW c \in Clock
  PROVE  \A n : n \in NodesOf(c) <=> n \in Node /\ n.seq \in 1..c[n.from]
<1>1. \A w \in Peer : c[w] \in Nat
  BY DEF Clock
<1>2. ASSUME NEW n, n \in NodesOf(c) PROVE n \in Node /\ n.seq \in 1..c[n.from]
  <2>1. PICK w \in Peer : n \in [from : {w}, seq : 1..c[w]]
    BY <1>2 DEF NodesOf
  <2> QED  BY <2>1, <1>1 DEF Node
<1>3. ASSUME NEW n \in Node, n.seq \in 1..c[n.from] PROVE n \in NodesOf(c)
  <2>1. n.from \in Peer /\ n \in [from : {n.from}, seq : 1..c[n.from]]
    BY <1>3 DEF Node
  <2> QED  BY <2>1 DEF NodesOf
<1> QED  BY <1>2, <1>3

LEMMA NodesFinite ==
  ASSUME NEW c \in Clock
  PROVE  IsFiniteSet(NodesOf(c)) /\ Cardinality(NodesOf(c)) \in Nat
<1> DEFINE Of(w) == [from : {w}, seq : 1..c[w]]
           f == [w \in Peer |-> Of(w)]
           All == {Of(w) : w \in Peer}
<1>1. IsFiniteSet(All)
  <2>1. f \in Surjection(Peer, All)
    <3>1. f \in [Peer -> All] /\ \A t \in All : \E w \in Peer : f[w] = t
      OBVIOUS
    <3> QED  BY <3>1 DEF Surjection
  <2> HIDE DEF f, All
  <2> QED  BY <2>1, PeerAssumption, FS_Surjection
<1>2. ASSUME NEW w \in Peer PROVE IsFiniteSet(Of(w))
  <2> DEFINE S == 1..c[w]
             g == [i \in S |-> [from |-> w, seq |-> i]]
             T == Of(w)
  <2>1. c[w] \in Nat
    BY DEF Clock
  <2>2. IsFiniteSet(S)
    BY <2>1, FS_Interval
  <2>3. g \in Surjection(S, T)
    <3>1. g \in [S -> T]
      OBVIOUS
    <3>2. ASSUME NEW t \in T PROVE \E i \in S : g[i] = t
      <4>1. t = [from |-> w, seq |-> t.seq] /\ t.seq \in S
        OBVIOUS
      <4> QED  BY <4>1
    <3> QED  BY <3>1, <3>2 DEF Surjection
  <2> HIDE DEF S, T, g
  <2>4. IsFiniteSet(T)
    BY <2>2, <2>3, FS_Surjection
  <2> QED  BY <2>4 DEF T
<1>3. \A T \in All : IsFiniteSet(T)
  BY <1>2
<1>4. NodesOf(c) = UNION All
  BY DEF NodesOf
<1> HIDE DEF All
<1>5. IsFiniteSet(UNION All)
  BY <1>1, <1>3, FS_UNION
<1> QED  BY <1>4, <1>5, FS_CardinalityType

\* A clock of nodes that are in the logs, with all they depend on.
Closed(lg, c) ==
  /\ c \in Clock /\ \A w \in Peer : c[w] <= Len(lg[w])
  /\ \A n \in NodesOf(c) : Below(DepsOf(lg, n), c)

\* A node depends on what its writer had applied: on the writer's own nodes, and
\* on all that those it knew depend on.
History(lg) ==
  /\ lg \in [Peer -> Seq(LogNode)]
  /\ \A w \in Peer : \A i \in 1..Len(lg[w]) :
       lg[w][i].deps[w] = i - 1 /\ Closed(lg, lg[w][i].deps)

LEMMA LogOf ==
  ASSUME NEW lg, History(lg), NEW c, Closed(lg, c), NEW n \in NodesOf(c)
  PROVE  /\ n \in Node /\ n.seq \in 1..c[n.from] /\ n.seq \in 1..Len(lg[n.from])
         /\ lg[n.from][n.seq] \in LogNode /\ DepsOf(lg, n) \in Clock
         /\ DepsOf(lg, n)[n.from] = n.seq - 1 /\ Closed(lg, DepsOf(lg, n))
         /\ Below(DepsOf(lg, n), c)
<1>1. c \in Clock /\ Below(DepsOf(lg, n), c)
  BY DEF Closed
<1>2. n \in Node /\ n.seq \in 1..c[n.from]
  BY <1>1, NodesAre
<1>3. n.from \in Peer /\ n.seq \in Nat /\ c[n.from] \in Nat /\ c[n.from] <= Len(lg[n.from])
      /\ lg[n.from] \in Seq(LogNode)
  BY <1>1, <1>2 DEF Node, Closed, Clock, History
<1>4. n.seq \in 1..Len(lg[n.from])
  BY <1>2, <1>3
<1>5. lg[n.from][n.seq] \in LogNode
  BY <1>3, <1>4
<1>6. DepsOf(lg, n)[n.from] = n.seq - 1 /\ Closed(lg, DepsOf(lg, n))
  BY <1>3, <1>4 DEF History, DepsOf
<1> QED  BY <1>1, <1>2, <1>4, <1>5, <1>6 DEF LogNode, DepsOf

\* A node has fewer dependencies than one that depends on it.
LEMMA WeightGrows ==
  ASSUME NEW lg, History(lg), NEW c, Closed(lg, c), NEW n \in NodesOf(c), NEW m \in NodesOf(c),
         DepsOf(lg, m)[n.from] >= n.seq
  PROVE  Weight(lg, n) < Weight(lg, m)
<1> DEFINE d == DepsOf(lg, m)
           e == DepsOf(lg, n)
<1>1. n \in Node /\ n.seq \in 1..c[n.from] /\ e[n.from] = n.seq - 1 /\ e \in Clock
  BY LogOf
<1>2. d \in Clock /\ Closed(lg, d)
  BY LogOf
<1>3. n.seq \in Nat /\ n.seq >= 1 /\ n.from \in Peer
  <2>1. c[n.from] \in Nat
    BY <1>1 DEF Closed, Clock, Node
  <2> QED  BY <1>1, <2>1 DEF Node
<1>4. n \in NodesOf(d)
  <2>1. d[n.from] \in Nat /\ d[n.from] >= n.seq
    BY <1>2, <1>3 DEF Clock
  <2>2. n.seq \in 1..d[n.from]
    BY <2>1, <1>3
  <2> QED  BY <2>2, <1>1, <1>2, NodesAre
<1>5. n \notin NodesOf(e)
  <2>1. ~(n.seq \in 1..e[n.from])
    BY <1>1, <1>3
  <2> QED  BY <2>1, <1>1, NodesAre
<1>6. Below(e, d)
  BY <1>2, <1>4 DEF Closed
<1>7. NodesOf(e) \subseteq NodesOf(d)
  <2> SUFFICES ASSUME NEW x \in NodesOf(e) PROVE x \in NodesOf(d)
    OBVIOUS
  <2>1. x \in Node /\ x.seq \in 1..e[x.from] /\ x.from \in Peer
    BY <1>1, NodesAre DEF Node
  <2>2. e[x.from] \in Nat /\ d[x.from] \in Nat /\ e[x.from] <= d[x.from]
    BY <2>1, <1>1, <1>2, <1>6 DEF Below, Clock
  <2>3. x.seq \in 1..d[x.from]
    BY <2>1, <2>2
  <2> QED  BY <2>1, <2>3, <1>2, NodesAre
<1> DEFINE A == NodesOf(e)
           B == NodesOf(d)
<1>8. /\ IsFiniteSet(A) /\ IsFiniteSet(B) /\ Cardinality(A) \in Nat /\ Cardinality(B) \in Nat
  BY <1>1, <1>2, NodesFinite
<1>9. A \in SUBSET B /\ A # B
  BY <1>4, <1>5, <1>7
<1>10. Weight(lg, n) = Cardinality(A) /\ Weight(lg, m) = Cardinality(B)
  BY DEF Weight, DepsOf
<1> HIDE DEF A, B
<1>11. Cardinality(A) <= Cardinality(B) /\ Cardinality(A) # Cardinality(B)
  BY <1>8, <1>9, FS_Subset
<1> QED  BY <1>8, <1>10, <1>11

LEMMA WeightType ==
  ASSUME NEW lg, History(lg), NEW c, Closed(lg, c), NEW n \in NodesOf(c)
  PROVE  Weight(lg, n) \in Nat /\ n.from \in Peer /\ Rank[n.from] \in Nat
<1>1. n \in Node /\ DepsOf(lg, n) \in Clock
  BY LogOf
<1>2. Cardinality(NodesOf(DepsOf(lg, n))) \in Nat
  BY <1>1, NodesFinite
<1> QED  BY <1>1, <1>2, RankAssumption DEF Weight, DepsOf, Node

\* Before orders the nodes of a clock strictly and totally.
LEMMA BeforeOrders ==
  ASSUME NEW lg, History(lg), NEW c, Closed(lg, c)
  PROVE  /\ \A n \in NodesOf(c) : ~Before(lg, n, n)
         /\ \A m, n, o \in NodesOf(c) :
              Before(lg, m, n) /\ Before(lg, n, o) => Before(lg, m, o)
         /\ \A m, n \in NodesOf(c) : m # n => Before(lg, m, n) \/ Before(lg, n, m)
<1>1. \A n \in NodesOf(c) : Weight(lg, n) \in Nat /\ n.from \in Peer /\ Rank[n.from] \in Nat
  BY WeightType
<1>2. \A n \in NodesOf(c) : ~Before(lg, n, n)
  BY <1>1 DEF Before
<1>3. ASSUME NEW m \in NodesOf(c), NEW n \in NodesOf(c), NEW o \in NodesOf(c),
             Before(lg, m, n), Before(lg, n, o)
      PROVE  Before(lg, m, o)
  BY <1>1, <1>3 DEF Before
<1>4. ASSUME NEW m \in NodesOf(c), NEW n \in NodesOf(c), m # n
      PROVE  Before(lg, m, n) \/ Before(lg, n, m)
  <2>1. CASE m.from # n.from
    <3>1. Rank[m.from] # Rank[n.from]
      BY <2>1, <1>1, RankAssumption
    <3> QED  BY <3>1, <1>1 DEF Before
  <2>2. CASE m.from = n.from
    <3>1. /\ m \in Node /\ n \in Node /\ DepsOf(lg, m)[m.from] = m.seq - 1
          /\ DepsOf(lg, n)[n.from] = n.seq - 1
      BY LogOf
    <3>2. m.seq \in Nat /\ n.seq \in Nat /\ m.seq # n.seq
      BY <3>1, <2>2, <1>4 DEF Node
    <3>3. CASE m.seq < n.seq
      <4>1. DepsOf(lg, n)[m.from] >= m.seq
        BY <3>1, <3>2, <3>3, <2>2
      <4> QED  BY <4>1, WeightGrows DEF Before
    <3>4. CASE n.seq < m.seq
      <4>1. DepsOf(lg, m)[n.from] >= n.seq
        BY <3>1, <3>2, <3>4, <2>2
      <4> QED  BY <4>1, WeightGrows DEF Before
    <3> QED  BY <3>2, <3>3, <3>4
  <2> QED  BY <2>1, <2>2
<1> QED  BY <1>2, <1>3, <1>4, Zenon

\* The order of a clock: each of its nodes once, none before what it depends on.
LEMMA LinearOrders ==
  ASSUME NEW lg, History(lg), NEW c, Closed(lg, c)
  PROVE  /\ Linear(lg, c) \in Seq(NodesOf(c))
         /\ Len(Linear(lg, c)) = Cardinality(NodesOf(c))
         /\ \A n \in NodesOf(c) : \E i \in 1..Len(Linear(lg, c)) : Linear(lg, c)[i] = n
         /\ \A i, j \in 1..Len(Linear(lg, c)) :
              Before(lg, Linear(lg, c)[i], Linear(lg, c)[j]) => i < j
         /\ \A i \in 1..Len(Linear(lg, c)) : \A n \in NodesOf(c) :
              Cardinality({m \in NodesOf(c) : Before(lg, m, n)}) = i - 1
                <=> n = Linear(lg, c)[i]
<1> DEFINE N == NodesOf(c)
           C == Cardinality(N)
           R == {x \in N \X N : Before(lg, x[1], x[2])}
           L == Linear(lg, c)
<1>1. IsFiniteSet(N) /\ C \in Nat
  BY NodesFinite DEF Closed
<1>2. \A m, n \in N : <<m, n>> \in R <=> Before(lg, m, n)
  OBVIOUS
<1>3. /\ \A n \in N : <<n, n>> \notin R
      /\ \A m, n, o \in N : <<m, n>> \in R /\ <<n, o>> \in R => <<m, o>> \in R
      /\ \A m, n \in N : m # n => <<m, n>> \in R \/ <<n, m>> \in R
  BY <1>2, BeforeOrders
<1>4. ASSUME NEW n \in N
      PROVE  Position(N, R, n) = Cardinality({m \in N : Before(lg, m, n)})
  <2>1. Ahead(N, R, n) = {m \in N : Before(lg, m, n)}
    BY <1>2 DEF Ahead
  <2> QED  BY <2>1 DEF Position
<1>5. L = [i \in 1..C |->
             CHOOSE n \in N : Cardinality({m \in N : Before(lg, m, n)}) = i - 1]
  BY DEF Linear
<1> HIDE DEF N, R, L, C
<1>6. /\ \A n \in N : Position(N, R, n) \in 0..(C - 1)
      /\ \A m, n \in N : <<m, n>> \in R => Position(N, R, m) < Position(N, R, n)
      /\ \A m, n \in N : Position(N, R, m) = Position(N, R, n) => m = n
      /\ \A i \in 0..(C - 1) : \E n \in N : Position(N, R, n) = i
  <2>1. \A n \in N : <<n, n>> \notin R
    BY <1>3
  <2>2. \A m, n, o \in N : <<m, n>> \in R /\ <<n, o>> \in R => <<m, o>> \in R
    BY <1>3
  <2>3. \A m, n \in N : m # n => <<m, n>> \in R \/ <<n, m>> \in R
    BY <1>3
  <2>4. /\ Cardinality(N) \in Nat
        /\ \A n \in N : Position(N, R, n) \in 0..(Cardinality(N) - 1)
        /\ \A m, n \in N : <<m, n>> \in R => Position(N, R, m) < Position(N, R, n)
        /\ \A m, n \in N : Position(N, R, m) = Position(N, R, n) => m = n
        /\ \A i \in 0..(Cardinality(N) - 1) : \E n \in N : Position(N, R, n) = i
    BY <1>1, <2>1, <2>2, <2>3, Positions, SMTT(30)
  <2> QED  BY <2>4 DEF C
<1>7. ASSUME NEW i \in 1..C PROVE L[i] \in N /\ Position(N, R, L[i]) = i - 1
  <2> DEFINE P(n) == Cardinality({m \in N : Before(lg, m, n)}) = i - 1
  <2>1. i - 1 \in 0..(C - 1)
    BY <1>1
  <2>2. PICK n \in N : Position(N, R, n) = i - 1
    BY <2>1, <1>6
  <2>3. P(n)
    BY <2>2, <1>4
  <2>4. L[i] = CHOOSE x \in N : P(x)
    BY <1>5
  <2> HIDE DEF P
  <2>5. L[i] \in N /\ P(L[i])
    BY <2>3, <2>4
  <2> QED  BY <2>5, <1>4 DEF P
<1>8. L \in [1..C -> N]
  BY <1>5, <1>7
<1>9. L \in Seq(N) /\ Len(L) = C
  BY <1>1, <1>8
<1>10. ASSUME NEW n \in N PROVE \E i \in 1..C : L[i] = n
  <2>1. Position(N, R, n) + 1 \in 1..C
    BY <1>1, <1>6
  <2>2. Position(N, R, L[Position(N, R, n) + 1]) = (Position(N, R, n) + 1) - 1
        /\ L[Position(N, R, n) + 1] \in N
    BY <2>1, <1>7
  <2>3. Position(N, R, n) \in 0..(C - 1)
    BY <1>6
  <2>4. (Position(N, R, n) + 1) - 1 = Position(N, R, n)
    BY <2>3, <1>1
  <2>5. L[Position(N, R, n) + 1] = n
    BY <2>2, <2>4, <1>6
  <2> QED  BY <2>1, <2>5
<1>11. ASSUME NEW i \in 1..C, NEW j \in 1..C, Before(lg, L[i], L[j]) PROVE i < j
  <2>1. L[i] \in N /\ L[j] \in N /\ Position(N, R, L[i]) = i - 1 /\ Position(N, R, L[j]) = j - 1
    BY <1>7
  <2>2. <<L[i], L[j]>> \in R
    BY <2>1, <1>2, <1>11
  <2>3. i - 1 < j - 1
    BY <2>1, <2>2, <1>6
  <2> QED  BY <2>3, <1>1
<1>12. ASSUME NEW i \in 1..C, NEW n \in N
       PROVE  Cardinality({m \in N : Before(lg, m, n)}) = i - 1 <=> n = L[i]
  <2>1. L[i] \in N /\ Position(N, R, L[i]) = i - 1
    BY <1>7
  <2>2. Position(N, R, n) = i - 1 <=> n = L[i]
    BY <2>1, <1>6
  <2> QED  BY <2>2, <1>4
<1>13. Len(L) = C /\ L \in Seq(N)
  BY <1>9
<1>14. /\ \A n \in N : \E i \in 1..Len(L) : L[i] = n
       /\ \A i, j \in 1..Len(L) : Before(lg, L[i], L[j]) => i < j
       /\ \A i \in 1..Len(L) : \A n \in N :
            Cardinality({m \in N : Before(lg, m, n)}) = i - 1 <=> n = L[i]
  BY <1>10, <1>11, <1>12, <1>13
<1> QED  BY <1>13, <1>14 DEF N, L, C
-----------------------------------------------------------------------------
(* apply, over an order.                                                   *)

State == [view : [Key -> Entry \cup {None}], writers : SUBSET Peer]
Start == [view |-> EmptyView, writers |-> {Founder}]
OpIn(lg, n) == lg[n.from][n.seq].op
Grown(lg, st, n) == After(Founder, st, n, OpIn(lg, n))

\* s holds the states before each node of q, and the one after the last.
Materialized(lg, q, s) ==
  /\ s \in Seq(State) /\ Len(s) = Len(q) + 1 /\ s[1] = Start
  /\ \A i \in 1..Len(q) : s[i + 1] = Grown(lg, s[i], q[i])

\* It does not matter who applies a node.
LEMMA AnyoneApplies ==
  ASSUME NEW me, NEW st, NEW n, NEW lg
  PROVE  After(me, st, n, OpIn(lg, n)) = Grown(lg, st, n)
BY DEF Grown, After, Applied, EntryOf

LEMMA GrownType ==
  ASSUME NEW st \in State, NEW n \in Node, NEW lg, OpIn(lg, n) \in Ops
  PROVE  Grown(lg, st, n) \in State
<1> DEFINE op == OpIn(lg, n)
<1>1. op \in Ops /\ n.seq \in Nat /\ n.from \in Peer
  BY DEF Node
<1>2. st.view \in [Key -> Entry \cup {None}] /\ st.writers \in SUBSET Peer
  BY DEF State
<1> HIDE DEF op
<1>3. CASE op.type = "put"
  <2>1. op.key \in Key /\ op.value \in Value
    BY <1>1, <1>3 DEF Ops
  <2>2. EntryOf(Founder, n, op) \in Entry
    BY <2>1, <1>1 DEF EntryOf, Entry
  <2>3. Applied(Founder, st.view, n, op) \in [Key -> Entry \cup {None}]
    BY <2>1, <2>2, <1>2, <1>3 DEF Applied
  <2>4. Admitted(st.writers, n, op) \in SUBSET Peer
    BY <1>2, <1>3 DEF Admitted
  <2> QED  BY <2>3, <2>4 DEF Grown, After, State, op
<1>4. CASE op.type = "del"
  <2>1. Applied(Founder, st.view, n, op) \in [Key -> Entry \cup {None}]
    BY <1>2, <1>4 DEF Applied
  <2>2. Admitted(st.writers, n, op) \in SUBSET Peer
    BY <1>2, <1>4 DEF Admitted
  <2> QED  BY <2>1, <2>2 DEF Grown, After, State, op
<1>5. CASE op.type = "addWriter"
  <2>1. Applied(Founder, st.view, n, op) \in [Key -> Entry \cup {None}]
    BY <1>2, <1>5 DEF Applied
  <2>2. Admitted(st.writers, n, op) \in SUBSET Peer
    BY <1>1, <1>2, <1>5 DEF Admitted, Ops
  <2> QED  BY <2>1, <2>2 DEF Grown, After, State, op
<1> QED  BY <1>1, <1>3, <1>4, <1>5 DEF Ops

\* The states of old up to node k, and the rest applied again.
LEMMA StatesMaterialize ==
  ASSUME NEW lg, NEW me, NEW q \in Seq(Node), NEW old \in Seq(State), NEW k \in Nat,
         \A i \in 1..Len(q) : OpIn(lg, q[i]) \in Ops,
         k <= Len(q), k + 1 <= Len(old), old[1] = Start,
         \A i \in 1..k : old[i + 1] = Grown(lg, old[i], q[i])
  PROVE  Materialized(lg, q, States(me, lg, old, q, k))
<1> DEFINE n == Len(q) + 1
           By(g, i) == IF i <= k + 1 THEN old[i]
                       ELSE After(me, g[i - 1], q[i - 1], lg[q[i - 1].from][q[i - 1].seq].op)
           Table(g) == g = [i \in 1..n |-> By(g, i)]
           Runs(g, m) == g \in [1..m -> State] /\ \A i \in 1..m : g[i] = By(g, i)
           N == {m \in Nat : m <= n => \E g : Runs(g, m)}
<1>1. n \in Nat /\ k + 1 <= n
  OBVIOUS
<1>2. ASSUME NEW g, NEW i \in 1..n, i > 1 => g[i - 1] \in State
      PROVE  By(g, i) \in State
  <2>1. CASE i <= k + 1
    <3>1. i \in 1..Len(old)
      BY <2>1, <1>1
    <3> QED  BY <3>1, <2>1
  <2>2. CASE i > k + 1
    <3>1. i - 1 \in 1..Len(q) /\ i > 1 /\ ~(i <= k + 1)
      BY <2>2, <1>1
    <3>2. q[i - 1] \in Node /\ OpIn(lg, q[i - 1]) \in Ops /\ g[i - 1] \in State
      BY <3>1, <1>2
    <3>3. By(g, i) = Grown(lg, g[i - 1], q[i - 1])
      <4>1. After(me, g[i - 1], q[i - 1], OpIn(lg, q[i - 1])) = Grown(lg, g[i - 1], q[i - 1])
        BY AnyoneApplies
      <4> QED  BY <3>1, <4>1 DEF OpIn
    <3> HIDE DEF By
    <3> QED  BY <3>2, <3>3, GrownType
  <2> QED  BY <2>1, <2>2, <1>1
<1>3. \E g : Runs(g, n)
  <2>1. 0 \in N
    <3>1. Runs([i \in 1..0 |-> Start], 0)
      OBVIOUS
    <3> QED  BY <3>1
  <2>2. ASSUME NEW m \in Nat, m \in N PROVE m + 1 \in N
    <3> SUFFICES ASSUME m + 1 <= n PROVE \E g : Runs(g, m + 1)
      OBVIOUS
    <3>1. PICK g : Runs(g, m)
      <4>1. m <= n
        BY <1>1
      <4> HIDE DEF Runs, n
      <4> QED  BY <4>1, <2>2
    <3> DEFINE h == [i \in 1..(m + 1) |-> IF i <= m THEN g[i] ELSE By(g, m + 1)]
    <3>2. By(g, m + 1) \in State
      <4>1. m + 1 \in 1..n /\ (m + 1 > 1 => g[(m + 1) - 1] \in State)
        BY <3>1, <1>1
      <4> HIDE DEF By, n
      <4> QED  BY <4>1, <1>2
    <3>3. h \in [1..(m + 1) -> State]
      <4>1. g \in [1..m -> State]
        BY <3>1
      <4> HIDE DEF By
      <4> QED  BY <4>1, <3>2
    <3>4. \A i \in 1..m : h[i] = g[i]
      BY <3>1
    <3>5. h[m + 1] = By(g, m + 1)
      <4> HIDE DEF By
      <4> QED  OBVIOUS
    <3> HIDE DEF h
    <3>6. ASSUME NEW i \in 1..(m + 1) PROVE h[i] = By(h, i)
      <4>1. By(h, i) = By(g, i)
        <5>1. CASE i <= k + 1
          BY <5>1
        <5>2. CASE i > k + 1
          <6>1. i - 1 \in 1..m /\ ~(i <= k + 1)
            BY <5>2
          <6>2. h[i - 1] = g[i - 1]
            BY <6>1, <3>4
          <6> QED  BY <6>1, <6>2
        <5> QED  BY <5>1, <5>2
      <4>2. CASE i <= m
        <5>1. h[i] = g[i] /\ g[i] = By(g, i)
          BY <4>2, <3>1, <3>4
        <5> QED  BY <5>1, <4>1
      <4>3. CASE i = m + 1
        BY <4>1, <4>3, <3>5
      <4> QED  BY <4>2, <4>3
    <3>7. Runs(h, m + 1)
      BY <3>3, <3>6
    <3> QED  BY <3>7
  <2> HIDE DEF N
  <2>3. Nat \subseteq N
    BY <2>1, <2>2, Induction
  <2> QED  BY <2>3, <1>1, SMTT(30) DEF N
<1>4. PICK g : Runs(g, n)
  BY <1>3
<1>5. Table(g)
  <2> DEFINE h == [i \in 1..n |-> By(g, i)]
  <2>1. g \in [1..n -> State] /\ \A i \in 1..n : g[i] = h[i]
    BY <1>4
  <2>2. g = h
    BY <2>1
  <2> QED  BY <2>2
<1>6. Table(CHOOSE t : Table(t))
  <2> HIDE DEF Table
  <2> QED  BY <1>5, Zenon
<1> DEFINE t == CHOOSE t : Table(t)
<1>7. States(me, lg, old, q, k) = [i \in 1..n |-> t[i]]
  BY DEF States
<1> HIDE DEF t
<1>8. \A i \in 1..n : t[i] = By(t, i)
  BY <1>6 DEF t
<1> HIDE DEF Table, By
<1>9. \A i \in 1..n : t[i] \in State
  <2> DEFINE M == {i \in Nat : i \in 1..n => t[i] \in State}
  <2>1. 0 \in M
    OBVIOUS
  <2>2. ASSUME NEW i \in Nat, i \in M PROVE i + 1 \in M
    <3> SUFFICES ASSUME i + 1 \in 1..n PROVE t[i + 1] \in State
      OBVIOUS
    <3>1. i + 1 > 1 => t[(i + 1) - 1] \in State
      BY <2>2, <1>1
    <3> HIDE DEF M, n
    <3>2. By(t, i + 1) \in State
      BY <3>1, <1>2
    <3> QED  BY <3>2, <1>8
  <2> HIDE DEF M
  <2>3. Nat \subseteq M
    BY <2>1, <2>2, Induction
  <2> QED  BY <2>3, <1>1 DEF M
<1>10. ASSUME NEW i \in 1..Len(q) PROVE t[i + 1] = Grown(lg, t[i], q[i])
  <2>1. i \in 1..n /\ i + 1 \in 1..n /\ (i + 1) - 1 = i
    BY <1>1
  <2>2. CASE i <= k
    <3>1. t[i + 1] = old[i + 1] /\ t[i] = old[i] /\ i \in 1..k
      BY <2>1, <2>2, <1>8 DEF By
    <3> QED  BY <3>1
  <2>3. CASE i > k
    <3>1. ~(i + 1 <= k + 1)
      BY <2>3
    <3>2. t[i + 1] = After(me, t[i], q[i], OpIn(lg, q[i]))
      BY <2>1, <3>1, <1>8 DEF By, OpIn
    <3> QED  BY <3>2, AnyoneApplies
  <2> QED  BY <2>2, <2>3
<1>11. t[1] = Start
  BY <1>1, <1>8 DEF By
<1> DEFINE s == [i \in 1..n |-> t[i]]
<1>12. s \in [1..n -> State] /\ \A i \in 1..n : s[i] = t[i]
  BY <1>9
<1> HIDE DEF s
<1>13. s \in Seq(State) /\ Len(s) = Len(q) + 1
  BY <1>1, <1>12
<1>14. \A i \in 1..Len(q) : i \in 1..n /\ i + 1 \in 1..n
  BY <1>1
<1>15. s[1] = Start /\ \A i \in 1..Len(q) : s[i + 1] = Grown(lg, s[i], q[i])
  <2>1. s[1] = Start
    BY <1>1, <1>11, <1>12
  <2>2. ASSUME NEW i \in 1..Len(q) PROVE s[i + 1] = Grown(lg, s[i], q[i])
    <3>1. s[i] = t[i] /\ s[i + 1] = t[i + 1]
      BY <1>12, <1>14
    <3> QED  BY <3>1, <1>10
  <2> QED  BY <2>1, <2>2
<1> QED  BY <1>7, <1>13, <1>15 DEF Materialized, s

\* The greatest of a bounded set of numbers.
LEMMA MaxIn ==
  ASSUME NEW T \in SUBSET Nat, NEW n \in Nat, \A t \in T : t <= n, T # {}
  PROVE  Max(T) \in T
<1> DEFINE Top(x) == x \in T /\ \A y \in T : x >= y
           S == {j \in Nat : \A t \in T : t + j <= n}
<1>1. \E x : Top(x)
  <2> SUFFICES ASSUME ~\E x : Top(x) PROVE FALSE
    OBVIOUS
  <2>1. 0 \in S
    OBVIOUS
  <2>2. ASSUME NEW j \in Nat, j \in S PROVE j + 1 \in S
    <3> SUFFICES ASSUME NEW t \in T PROVE t + (j + 1) <= n
      OBVIOUS
    <3>1. t + j <= n
      BY <2>2
    <3>2. CASE t + j = n
      <4>1. \A y \in T : t >= y
        BY <2>2, <3>2
      <4> QED  BY <4>1
    <3> QED  BY <3>1, <3>2
  <2> HIDE DEF S
  <2>3. n + 1 \in S
    BY <2>1, <2>2, Induction
  <2>4. \A t \in T : t + (n + 1) <= n
    BY <2>3 DEF S
  <2> QED  BY <2>4
<1>2. Max(T) = CHOOSE x : Top(x)
  BY DEF Max
<1> HIDE DEF Top
<1>3. Top(Max(T))
  BY <1>1, <1>2
<1> QED  BY <1>3 DEF Top

LEMMA KeptPlaces ==
  ASSUME NEW old \in Seq(Node), NEW new \in Seq(Node)
  PROVE  /\ Kept(old, new) \in Nat
         /\ Kept(old, new) <= Len(old) /\ Kept(old, new) <= Len(new)
         /\ \A i \in 1..Kept(old, new) : old[i] = new[i]
<1> DEFINE T == {i \in 0..Len(old) : i <= Len(new) /\ SubSeq(old, 1, i) = SubSeq(new, 1, i)}
           k == Kept(old, new)
<1>1. T \in SUBSET Nat /\ Len(old) \in Nat /\ \A t \in T : t <= Len(old)
  OBVIOUS
<1>2. 0 \in T
  OBVIOUS
<1>3. k = Max(T)
  BY DEF Kept
<1> HIDE DEF T, k
<1>4. k \in T
  BY <1>1, <1>2, <1>3, MaxIn
<1>5. k \in Nat /\ k <= Len(old) /\ k <= Len(new) /\ SubSeq(old, 1, k) = SubSeq(new, 1, k)
  BY <1>4 DEF T
<1>6. ASSUME NEW i \in 1..k PROVE old[i] = new[i]
  <2>1. SubSeq(old, 1, k)[i] = old[i]
    BY <1>5
  <2>2. SubSeq(new, 1, k)[i] = new[i]
    BY <1>5
  <2> QED  BY <2>1, <2>2, <1>5
<1> QED  BY <1>5, <1>6 DEF k
-----------------------------------------------------------------------------
(* Logs only grow.                                                         *)

Extends(lg, lg2) ==
  \A w \in Peer : /\ Len(lg[w]) <= Len(lg2[w])
                  /\ \A i \in 1..Len(lg[w]) : lg2[w][i] = lg[w][i]

LEMMA ClosedKept ==
  ASSUME NEW lg \in [Peer -> Seq(LogNode)], NEW lg2 \in [Peer -> Seq(LogNode)],
         Extends(lg, lg2), NEW c, Closed(lg, c)
  PROVE  /\ Closed(lg2, c)
         /\ \A n \in NodesOf(c) : n.from \in Peer /\ lg2[n.from][n.seq] = lg[n.from][n.seq]
<1> DEFINE N == NodesOf(c)
<1>1. ASSUME NEW w \in Peer
      PROVE  c[w] \in Nat /\ c[w] <= Len(lg[w]) /\ c[w] <= Len(lg2[w])
  <2> DEFINE a == Len(lg[w])
             b == Len(lg2[w])
  <2>1. c[w] \in Nat /\ c[w] <= a /\ a <= b
    BY DEF Closed, Clock, Extends
  <2>2. a \in Nat /\ b \in Nat
    OBVIOUS
  <2> HIDE DEF a, b
  <2>3. c[w] <= b
    BY <2>1, <2>2
  <2> QED  BY <2>1, <2>3 DEF a, b
<1>2. ASSUME NEW n \in N
      PROVE  n.from \in Peer /\ lg2[n.from][n.seq] = lg[n.from][n.seq]
  <2>1. n \in Node /\ n.seq \in 1..c[n.from]
    BY NodesAre DEF Closed
  <2>2. n.from \in Peer
    BY <2>1 DEF Node
  <2> DEFINE a == Len(lg[n.from])
  <2>3. a \in Nat /\ c[n.from] \in Nat /\ c[n.from] <= a
    BY <2>2, <1>1
  <2> HIDE DEF a
  <2>4. n.seq \in 1..a
    BY <2>1, <2>3
  <2> QED  BY <2>2, <2>4 DEF Extends, a
<1>3. \A n \in N : DepsOf(lg2, n) = DepsOf(lg, n)
  BY <1>2 DEF DepsOf
<1>4. Closed(lg2, c)
  BY <1>1, <1>3 DEF Closed
<1> QED  BY <1>2, <1>4

LEMMA OrderKept ==
  ASSUME NEW lg, NEW lg2, History(lg), History(lg2), Extends(lg, lg2), NEW c, Closed(lg, c)
  PROVE  /\ Closed(lg2, c) /\ Linear(lg2, c) = Linear(lg, c)
         /\ \A n \in NodesOf(c) : OpIn(lg2, n) = OpIn(lg, n)
<1> DEFINE N == NodesOf(c)
           L == Linear(lg, c)
           M == Linear(lg2, c)
<1>1. \A n \in N : lg2[n.from][n.seq] = lg[n.from][n.seq] /\ n.from \in Peer
  BY ClosedKept DEF History
<1>2. Closed(lg2, c)
  BY ClosedKept DEF History
<1>3. \A n \in N : Weight(lg2, n) = Weight(lg, n)
  BY <1>1 DEF Weight
<1>4. ASSUME NEW n \in N
      PROVE  Cardinality({m \in N : Before(lg2, m, n)}) = Cardinality({m \in N : Before(lg, m, n)})
  <2>1. \A m \in N : Before(lg2, m, n) <=> Before(lg, m, n)
    BY <1>3 DEF Before
  <2>2. {m \in N : Before(lg2, m, n)} = {m \in N : Before(lg, m, n)}
    BY <2>1
  <2> QED  BY <2>2
<1>5. /\ L \in Seq(N) /\ Len(L) = Cardinality(N)
      /\ \A i \in 1..Len(L) : \A n \in N :
           Cardinality({m \in N : Before(lg, m, n)}) = i - 1 <=> n = L[i]
  BY LinearOrders
<1>6. /\ M \in Seq(N) /\ Len(M) = Cardinality(N)
      /\ \A i \in 1..Len(M) : \A n \in N :
           Cardinality({m \in N : Before(lg2, m, n)}) = i - 1 <=> n = M[i]
  BY <1>2, LinearOrders
<1> HIDE DEF N, L, M
<1>7. ASSUME NEW i \in 1..Len(L) PROVE L[i] = M[i]
  <2>1. i \in 1..Len(M) /\ M[i] \in N /\ L[i] \in N
    BY <1>5, <1>6
  <2>2. Cardinality({m \in N : Before(lg, m, L[i])}) = i - 1
    BY <2>1, <1>5
  <2>3. Cardinality({m \in N : Before(lg2, m, L[i])}) = i - 1
    BY <2>1, <2>2, <1>4
  <2> QED  BY <2>1, <2>3, <1>6
<1>8. L = M
  BY <1>5, <1>6, <1>7, SeqEqual
<1>9. \A n \in N : OpIn(lg2, n) = OpIn(lg, n)
  BY <1>1 DEF OpIn
<1> QED  BY <1>2, <1>8, <1>9 DEF N, L, M
-----------------------------------------------------------------------------
(* The invariant.                                                          *)

\* What p has applied is the order of what it knows, and its states are those
\* of that order; it knows all of its own log.
Peered(p) ==
  /\ Closed(log, known[p]) /\ known[p][p] = Len(log[p])
  /\ order[p] = Linear(log, known[p]) /\ Materialized(log, order[p], states[p])

SyncInv ==
  /\ known \in [Peer -> Clock] /\ order \in [Peer -> Seq(Node)]
  /\ states \in [Peer -> Seq(State)]
  /\ History(log) /\ \A p \in Peer : Peered(p)

\* The nodes of an order, and their operations.
LEMMA OrderNodes ==
  ASSUME NEW lg, History(lg), NEW c, Closed(lg, c)
  PROVE  /\ Linear(lg, c) \in Seq(Node)
         /\ \A i \in 1..Len(Linear(lg, c)) :
              Linear(lg, c)[i] \in NodesOf(c) /\ OpIn(lg, Linear(lg, c)[i]) \in Ops
<1> DEFINE L == Linear(lg, c)
<1>1. L \in Seq(NodesOf(c))
  BY LinearOrders
<1>2. \A n \in NodesOf(c) : n \in Node /\ OpIn(lg, n) \in Ops
  BY LogOf DEF LogNode, OpIn
<1>3. NodesOf(c) \subseteq Node
  BY <1>2
<1> HIDE DEF L
<1>4. L \in Seq(Node)
  BY <1>1, <1>3, SeqMonotonic
<1>5. \A i \in 1..Len(L) : L[i] \in NodesOf(c)
  BY <1>1
<1> QED  BY <1>2, <1>4, <1>5 DEF L

\* An update orders what p knows, and reapplies what moved.
LEMMA UpdatePeers ==
  ASSUME SyncInv, NEW p \in Peer, NEW c, History(log'), Extends(log, log'),
         Closed(log', c), c[p] = Len(log'[p]), Updated(p, log', c),
         \A q \in Peer : q # p => log'[q] = log[q]
  PROVE  SyncInv'
<1> DEFINE new == Linear(log', c)
           k == Kept(order[p], new)
           s == States(p, log', states[p], new, k)
<1>1. /\ known' = [known EXCEPT ![p] = c] /\ order' = [order EXCEPT ![p] = new]
      /\ states' = [states EXCEPT ![p] = s]
  BY DEF Updated
<1>2. /\ new \in Seq(Node) /\ \A i \in 1..Len(new) : OpIn(log', new[i]) \in Ops
  BY OrderNodes
<1>3. /\ order[p] \in Seq(Node) /\ states[p] \in Seq(State) /\ History(log) /\ Peered(p)
      /\ Closed(log, known[p]) /\ order[p] = Linear(log, known[p])
      /\ Materialized(log, order[p], states[p])
  BY DEF SyncInv, Peered
<1>4. /\ k \in Nat /\ k <= Len(order[p]) /\ k <= Len(new)
      /\ \A i \in 1..k : order[p][i] = new[i]
  BY <1>2, <1>3, KeptPlaces
<1>5. Materialized(log', new, s)
  <2> DEFINE old == states[p]
             q == order[p]
  <2>1. old \in Seq(State) /\ Len(old) = Len(q) + 1 /\ old[1] = Start /\ q \in Seq(Node)
        /\ \A i \in 1..Len(q) : old[i + 1] = Grown(log, old[i], q[i])
    BY <1>3 DEF Materialized
  <2>2. \A i \in 1..Len(q) : q[i] \in NodesOf(known[p])
    BY <1>3, OrderNodes
  <2>3. \A n \in NodesOf(known[p]) : OpIn(log', n) = OpIn(log, n)
    BY <1>3, OrderKept
  <2> HIDE DEF old, q, k, new, s
  <2>4. k + 1 <= Len(old)
    <3> DEFINE m == Len(q)
    <3>1. m \in Nat /\ Len(old) = m + 1 /\ k <= m
      BY <2>1, <1>4 DEF q
    <3> HIDE DEF m
    <3> QED  BY <3>1, <1>4
  <2>5. ASSUME NEW i \in 1..k PROVE old[i + 1] = Grown(log', old[i], new[i])
    <3>1. i \in 1..Len(q)
      <4> DEFINE m == Len(q)
      <4>1. m \in Nat /\ k <= m
        BY <2>1, <1>4 DEF q
      <4> HIDE DEF m
      <4>2. i \in 1..m
        BY <4>1, <1>4
      <4> QED  BY <4>2 DEF m
    <3>2. old[i + 1] = Grown(log, old[i], q[i]) /\ q[i] = new[i]
      BY <3>1, <2>1, <1>4 DEF q
    <3>3. OpIn(log', q[i]) = OpIn(log, q[i])
      BY <3>1, <2>2, <2>3
    <3> QED  BY <3>2, <3>3 DEF Grown
  <2>6. Materialized(log', new, States(p, log', old, new, k))
    BY <2>1, <2>4, <2>5, <1>2, <1>4, StatesMaterialize DEF new
  <2> QED  BY <2>6 DEF s, old
<1> HIDE DEF new, k, s
<1>6. s \in Seq(State)
  BY <1>5 DEF Materialized
<1>7. c \in Clock
  BY DEF Closed
<1>8. /\ known' \in [Peer -> Clock] /\ order' \in [Peer -> Seq(Node)]
      /\ states' \in [Peer -> Seq(State)]
  BY <1>1, <1>2, <1>6, <1>7 DEF SyncInv, new
<1>9. ASSUME NEW q \in Peer PROVE Peered(q)'
  <2>1. CASE q = p
    <3>1. known'[p] = c /\ order'[p] = new /\ states'[p] = s
      BY <1>1 DEF SyncInv
    <3> QED  BY <2>1, <3>1, <1>5 DEF Peered, new
  <2>2. CASE q # p
    <3>1. known'[q] = known[q] /\ order'[q] = order[q] /\ states'[q] = states[q]
      BY <2>2, <1>1 DEF SyncInv
    <3>2. /\ Closed(log, known[q]) /\ known[q][q] = Len(log[q])
          /\ order[q] = Linear(log, known[q]) /\ Materialized(log, order[q], states[q])
      BY DEF SyncInv, Peered
    <3>3. /\ Closed(log', known[q]) /\ Linear(log', known[q]) = Linear(log, known[q])
          /\ \A n \in NodesOf(known[q]) : OpIn(log', n) = OpIn(log, n)
      BY <3>2, <1>3, OrderKept
    <3>4. \A i \in 1..Len(order[q]) : order[q][i] \in NodesOf(known[q])
      BY <3>2, <1>3, OrderNodes
    <3>5. Materialized(log', order[q], states[q])
      <4>1. ASSUME NEW i \in 1..Len(order[q])
            PROVE  states[q][i + 1] = Grown(log', states[q][i], order[q][i])
        <5>1. states[q][i + 1] = Grown(log, states[q][i], order[q][i])
          BY <3>2 DEF Materialized
        <5>2. OpIn(log', order[q][i]) = OpIn(log, order[q][i])
          BY <3>3, <3>4
        <5> QED  BY <5>1, <5>2 DEF Grown
      <4> QED  BY <4>1, <3>2 DEF Materialized
    <3> QED  BY <2>2, <3>1, <3>2, <3>3, <3>5 DEF Peered
  <2> QED  BY <2>1, <2>2
<1> QED  BY <1>8, <1>9 DEF SyncInv
-----------------------------------------------------------------------------
(* The steps.                                                              *)

LEMMA Starts ==
  ASSUME Init
  PROVE  SyncInv
<1>1. NoNodes \in Clock /\ \A w \in Peer : NoNodes[w] = 0
  BY DEF NoNodes, Clock
<1>2. NodesOf(NoNodes) = {}
  <2> SUFFICES ASSUME NEW n \in NodesOf(NoNodes) PROVE FALSE
    OBVIOUS
  <2>1. n \in Node /\ n.seq \in 1..NoNodes[n.from]
    BY <1>1, NodesAre
  <2>2. n.seq \in 1..0
    BY <2>1, <1>1 DEF Node
  <2> QED  BY <2>2
<1>3. \A w \in Peer : log[w] = << >> /\ Len(log[w]) = 0
  BY DEF Init
<1>4. History(log)
  BY <1>3 DEF Init, History
<1>5. Closed(log, NoNodes)
  BY <1>1, <1>2, <1>3 DEF Closed
<1>6. Linear(log, NoNodes) = << >>
  <2>1. Linear(log, NoNodes) \in Seq({}) /\ Len(Linear(log, NoNodes)) = Cardinality({})
    BY <1>2, <1>4, <1>5, LinearOrders
  <2> QED  BY <2>1, FS_EmptySet
<1>7. Start \in State
  BY FounderAssumption DEF Start, State, EmptyView
<1>8. Materialized(log, << >>, << Start >>)
  BY <1>7 DEF Materialized
<1>9. /\ known \in [Peer -> Clock] /\ order \in [Peer -> Seq(Node)]
      /\ states \in [Peer -> Seq(State)]
  BY <1>1, <1>7 DEF Init, Start
<1>10. ASSUME NEW p \in Peer PROVE Peered(p)
  <2>1. known[p] = NoNodes /\ order[p] = << >> /\ states[p] = << Start >>
    BY DEF Init, Start
  <2> QED  BY <2>1, <1>1, <1>3, <1>5, <1>6, <1>8 DEF Peered
<1> QED  BY <1>4, <1>9, <1>10 DEF SyncInv

LEMMA BelowAll ==
  ASSUME NEW a \in Clock, NEW b \in Clock, NEW c \in Clock, Below(a, b), Below(b, c)
  PROVE  Below(a, c)
<1> SUFFICES ASSUME NEW w \in Peer PROVE a[w] <= c[w]
  BY DEF Below
<1>1. a[w] \in Nat /\ b[w] \in Nat /\ c[w] \in Nat /\ a[w] <= b[w] /\ b[w] <= c[w]
  BY DEF Below, Clock
<1> QED  BY <1>1

\* A clock may take the next node of a writer if it has what that depends on.
LEMMA ClosedGrows ==
  ASSUME NEW lg, History(lg), NEW c, Closed(lg, c), NEW w \in Peer, c[w] + 1 <= Len(lg[w]),
         Below(lg[w][c[w] + 1].deps, c)
  PROVE  Closed(lg, [c EXCEPT ![w] = c[w] + 1])
<1> DEFINE d == [c EXCEPT ![w] = c[w] + 1]
<1>1. c \in Clock /\ c[w] \in Nat /\ \A v \in Peer : c[v] \in Nat /\ c[v] <= Len(lg[v])
  BY DEF Closed, Clock
<1>2. d \in Clock /\ d[w] = c[w] + 1 /\ \A v \in Peer : v # w => d[v] = c[v]
  BY <1>1 DEF Clock
<1> HIDE DEF d
<1>3. Below(c, d)
  BY <1>1, <1>2 DEF Below
<1>4. \A v \in Peer : d[v] <= Len(lg[v])
  BY <1>1, <1>2
<1>5. ASSUME NEW n \in NodesOf(d) PROVE Below(DepsOf(lg, n), d)
  <2>1. n \in Node /\ n.seq \in 1..d[n.from] /\ n.from \in Peer /\ n.seq \in Nat
    BY <1>2, NodesAre DEF Node
  <2>2. CASE n \in NodesOf(c)
    <3>1. DepsOf(lg, n) \in Clock /\ Below(DepsOf(lg, n), c)
      BY <2>2, LogOf
    <3> QED  BY <3>1, <1>1, <1>2, <1>3, BelowAll
  <2>3. CASE n \notin NodesOf(c)
    <3>1. ~(n.seq \in 1..c[n.from])
      BY <2>1, <2>3, <1>1, NodesAre
    <3>2. n.from = w
      BY <3>1, <2>1, <1>2
    <3>3. n.seq = c[w] + 1
      BY <3>1, <3>2, <2>1, <1>1, <1>2
    <3>4. Below(DepsOf(lg, n), c)
      BY <3>2, <3>3 DEF DepsOf
    <3>5. DepsOf(lg, n) \in Clock
      <4> DEFINE m == Len(lg[w])
      <4>1. m \in Nat /\ c[w] + 1 <= m /\ lg[w] \in Seq(LogNode)
        BY DEF History
      <4> HIDE DEF m
      <4>2. c[w] + 1 \in 1..m
        BY <4>1, <1>1
      <4>3. lg[w][c[w] + 1] \in LogNode
        BY <4>1, <4>2 DEF m
      <4> QED  BY <4>3, <3>2, <3>3 DEF LogNode, DepsOf
    <3> QED  BY <3>4, <3>5, <1>1, <1>2, <1>3, BelowAll
  <2> QED  BY <2>2, <2>3
<1> QED  BY <1>2, <1>4, <1>5 DEF Closed, d

\* What two clocks know together is closed if each is.
LEMMA ClosedJoined ==
  ASSUME NEW lg, History(lg), NEW c, Closed(lg, c), NEW d, Closed(lg, d)
  PROVE  Closed(lg, Joined(c, d)) /\ Below(c, Joined(c, d)) /\ Below(d, Joined(c, d))
<1> DEFINE j == Joined(c, d)
<1>1. c \in Clock /\ d \in Clock
  BY DEF Closed
<1>2. \A v \in Peer : c[v] \in Nat /\ d[v] \in Nat
  BY <1>1 DEF Clock
<1>3. \A v \in Peer : (j[v] = c[v] \/ j[v] = d[v]) /\ c[v] <= j[v] /\ d[v] <= j[v]
  BY <1>2 DEF Joined
<1>4. j \in Clock
  BY <1>2 DEF Joined, Clock
<1> HIDE DEF j
<1>5. Below(c, j) /\ Below(d, j)
  BY <1>3 DEF Below
<1>6. \A v \in Peer : j[v] <= Len(lg[v])
  BY <1>3 DEF Closed
<1>7. ASSUME NEW n \in NodesOf(j) PROVE Below(DepsOf(lg, n), j)
  <2>1. n \in Node /\ n.seq \in 1..j[n.from] /\ n.from \in Peer
    BY <1>4, NodesAre DEF Node
  <2>2. n \in NodesOf(c) \/ n \in NodesOf(d)
    BY <2>1, <1>1, <1>3, NodesAre
  <2>3. DepsOf(lg, n) \in Clock /\ (Below(DepsOf(lg, n), c) \/ Below(DepsOf(lg, n), d))
    BY <2>2, LogOf
  <2> QED  BY <2>3, <1>1, <1>4, <1>5, BelowAll
<1> QED  BY <1>4, <1>5, <1>6, <1>7 DEF Closed, j

LEMMA WritePeers ==
  ASSUME SyncInv, NEW p \in Peer, NEW op \in Ops, Write(p, op)
  PROVE  SyncInv'
<1> DEFINE l == log[p]
           n == [op |-> op, deps |-> known[p]]
           m == Len(l)
           c == [known[p] EXCEPT ![p] = known[p][p] + 1]
<1>1. /\ History(log) /\ Closed(log, known[p]) /\ known[p][p] = m
      /\ known \in [Peer -> Clock] /\ known[p] \in Clock
      /\ log \in [Peer -> Seq(LogNode)] /\ l \in Seq(LogNode)
  BY DEF SyncInv, Peered, History
<1>2. n \in LogNode
  BY <1>1 DEF LogNode
<1>3. log' = [log EXCEPT ![p] = Append(l, n)] /\ Updated(p, log', c)
  BY DEF Write
<1>4. m \in Nat
  BY <1>1
<1> DEFINE l2 == Append(l, n)
<1>5. /\ l2 \in Seq(LogNode) /\ Len(l2) = m + 1 /\ l2[m + 1] = n
      /\ \A i \in 1..m : l2[i] = l[i]
  BY <1>1, <1>2
<1>6. log' \in [Peer -> Seq(LogNode)] /\ log'[p] = l2 /\ \A q \in Peer : q # p => log'[q] = log[q]
  BY <1>1, <1>3, <1>5
<1> HIDE DEF n, l2, c
<1>7. Extends(log, log')
  <2> SUFFICES ASSUME NEW w \in Peer
               PROVE  /\ Len(log[w]) <= Len(log'[w])
                      /\ \A i \in 1..Len(log[w]) : log'[w][i] = log[w][i]
    BY DEF Extends
  <2>1. CASE w = p
    <3> HIDE DEF m
    <3>1. m <= Len(l2)
      BY <1>4, <1>5
    <3> QED  BY <2>1, <3>1, <1>5, <1>6 DEF m
  <2>2. CASE w # p
    <3>1. log'[w] = log[w] /\ log[w] \in Seq(LogNode)
      BY <2>2, <1>1, <1>6
    <3> DEFINE a == Len(log[w])
    <3>2. a \in Nat
      BY <3>1
    <3> HIDE DEF a
    <3>3. a <= a
      BY <3>2
    <3> QED  BY <3>1, <3>3 DEF a
  <2> QED  BY <2>1, <2>2
<1>8. History(log')
  <2> SUFFICES ASSUME NEW w \in Peer, NEW i \in 1..Len(log'[w])
               PROVE  log'[w][i].deps[w] = i - 1 /\ Closed(log', log'[w][i].deps)
    BY <1>6 DEF History
  <2>1. CASE i \in 1..Len(log[w])
    <3>1. log'[w][i] = log[w][i]
      BY <2>1, <1>7 DEF Extends
    <3>2. log[w][i].deps[w] = i - 1 /\ Closed(log, log[w][i].deps)
      BY <2>1, <1>1 DEF History
    <3> QED  BY <3>1, <3>2, <1>1, <1>6, <1>7, ClosedKept
  <2>2. CASE ~(i \in 1..Len(log[w]))
    <3>1. w = p
      BY <2>2, <1>6
    <3>2. i \in 1..(m + 1) /\ ~(i \in 1..m)
      BY <2>2, <3>1, <1>5, <1>6
    <3> HIDE DEF m
    <3>3. i = m + 1
      BY <3>2, <1>4
    <3>4. log'[w][i].deps = known[p]
      BY <3>1, <3>3, <1>5, <1>6 DEF n
    <3>5. known[p][p] = i - 1
      BY <3>3, <1>1, <1>4
    <3> QED  BY <3>1, <3>4, <3>5, <1>1, <1>6, <1>7, ClosedKept
  <2> QED  BY <2>1, <2>2
<1>9. Closed(log', known[p])
  BY <1>1, <1>6, <1>7, ClosedKept
<1>10. known[p][p] + 1 <= Len(log'[p])
  <2> HIDE DEF m
  <2> QED  BY <1>1, <1>4, <1>5, <1>6
<1>11. Below(log'[p][known[p][p] + 1].deps, known[p])
  <2>1. log'[p][known[p][p] + 1].deps = known[p]
    BY <1>1, <1>5, <1>6 DEF n
  <2>2. Below(known[p], known[p])
    BY <1>1 DEF Below, Clock
  <2> QED  BY <2>1, <2>2
<1>12. Closed(log', c)
  BY <1>8, <1>9, <1>10, <1>11, ClosedGrows DEF c
<1>13. c[p] = Len(log'[p])
  <2>1. c[p] = m + 1
    BY <1>1 DEF c, Clock
  <2> QED  BY <2>1, <1>5, <1>6
<1> QED  BY <1>3, <1>6, <1>7, <1>8, <1>12, <1>13, UpdatePeers

LEMMA ReplicatePeers ==
  ASSUME SyncInv, NEW p \in Peer, NEW q \in Peer, Replicate(p, q)
  PROVE  SyncInv'
<1> DEFINE a == known[p]
<1>1. PICK w \in Peer : /\ a[w] < known[q][w]
                        /\ Updated(p, log, [Joined(a, log[w][a[w] + 1].deps)
                                              EXCEPT ![w] = a[w] + 1])
                        /\ log' = log
  BY DEF Replicate
<1>2. /\ History(log) /\ Closed(log, a) /\ a[p] = Len(log[p]) /\ Closed(log, known[q])
      /\ a \in Clock /\ known[q] \in Clock
  BY DEF SyncInv, Peered
<1> DEFINE i == a[w] + 1
           d == log[w][i].deps
           j == Joined(a, d)
           c == [j EXCEPT ![w] = i]
<1>3. Updated(p, log', c)
  BY <1>1
<1> HIDE DEF a
<1>4. a[w] \in Nat /\ a[w] < known[q][w] /\ known[q][w] \in Nat
  BY <1>1, <1>2 DEF Clock
<1>5. i <= Len(log[w]) /\ i \in 1..Len(log[w])
  <2> DEFINE m == Len(log[w])
  <2>1. m \in Nat /\ known[q][w] <= m
    BY <1>2 DEF History, Closed
  <2> HIDE DEF m
  <2>2. i <= m /\ i \in 1..m
    BY <2>1, <1>4
  <2> QED  BY <2>2 DEF m
<1>6. d[w] = a[w] /\ Closed(log, d) /\ d \in Clock
  <2>1. d[w] = i - 1 /\ Closed(log, d)
    BY <1>2, <1>5 DEF History
  <2>2. i - 1 = a[w]
    BY <1>4
  <2> QED  BY <2>1, <2>2 DEF Closed
<1> HIDE DEF d
<1>7. Closed(log, j) /\ Below(d, j)
  BY <1>2, <1>6, ClosedJoined
<1>8. j[w] = a[w]
  BY <1>6 DEF Joined
<1>9. w # p
  <2> SUFFICES ASSUME w = p PROVE FALSE
    OBVIOUS
  <2> DEFINE m == Len(log[w])
  <2>1. m \in Nat /\ known[q][w] <= m /\ a[w] = m
    BY <1>2 DEF History, Closed
  <2> HIDE DEF m
  <2> QED  BY <2>1, <1>4
<1>10. j[p] = a[p]
  <2> DEFINE m == Len(log[p])
  <2>1. m \in Nat /\ d[p] <= m /\ a[p] = m /\ d[p] \in Nat
    BY <1>2, <1>6 DEF History, Closed, Clock
  <2> HIDE DEF m
  <2>2. d[p] <= a[p]
    BY <2>1
  <2> QED  BY <2>1, <2>2 DEF Joined
<1>11. Closed(log, [j EXCEPT ![w] = j[w] + 1])
  <2>1. j[w] + 1 = i
    BY <1>8
  <2>2. j[w] + 1 <= Len(log[w]) /\ Below(log[w][j[w] + 1].deps, j)
    BY <2>1, <1>5, <1>7 DEF d
  <2> HIDE DEF j
  <2> QED  BY <2>2, <1>2, <1>7, ClosedGrows
<1>12. Closed(log, c) /\ c[p] = Len(log[p])
  <2>1. c = [j EXCEPT ![w] = j[w] + 1]
    BY <1>8
  <2>2. c[p] = j[p]
    BY <1>7, <1>9 DEF Closed, Clock
  <2> QED  BY <2>1, <2>2, <1>2, <1>10, <1>11
<1>13. Extends(log, log)
  <2> SUFFICES ASSUME NEW v \in Peer PROVE Len(log[v]) <= Len(log[v])
    BY DEF Extends
  <2> DEFINE m == Len(log[v])
  <2>1. m \in Nat
    BY <1>2 DEF History
  <2> HIDE DEF m
  <2>2. m <= m
    BY <2>1
  <2> QED  BY <2>2 DEF m
<1> HIDE DEF c
<1> QED  BY <1>1, <1>2, <1>3, <1>12, <1>13, UpdatePeers

\* Stuttering keeps the invariant.
LEMMA SyncRests ==
  ASSUME SyncInv, UNCHANGED vars
  PROVE  SyncInv'
BY DEF SyncInv, vars, Peered

\* A peer's order is that of the nodes it knows, and its states are what comes of
\* applying it, whatever was reordered and reapplied before (apps/sync-sdk/index.js:10-13).
THEOREM SyncInvariant == Spec => []SyncInv
<1>1. Init => SyncInv
  BY Starts
<1>2. SyncInv /\ [Next]_vars => SyncInv'
  <2> SUFFICES ASSUME SyncInv, [Next]_vars PROVE SyncInv'
    OBVIOUS
  <2>1. ASSUME NEW p \in Peer, NEW k \in Key, NEW v \in Value, Set(p, k, v) PROVE SyncInv'
    <3>1. [type |-> "put", key |-> k, value |-> v] \in Ops
      BY DEF Ops
    <3> QED  BY <2>1, <3>1, WritePeers DEF Set
  <2>2. ASSUME NEW p \in Peer, NEW k \in Key, Del(p, k) PROVE SyncInv'
    <3>1. [type |-> "del", key |-> k] \in Ops
      BY DEF Ops
    <3> QED  BY <2>2, <3>1, WritePeers DEF Del
  <2>3. ASSUME NEW p \in Peer, NEW q \in Peer, AddWriter(p, q) PROVE SyncInv'
    <3>1. [type |-> "addWriter", key |-> q] \in Ops
      BY DEF Ops
    <3> QED  BY <2>3, <3>1, WritePeers DEF AddWriter
  <2> QED  BY <2>1, <2>2, <2>3, ReplicatePeers, SyncRests DEF Next
<1> QED  BY <1>1, <1>2, PTL DEF Spec
-----------------------------------------------------------------------------
(* What a view tells.                                                      *)

\* The states of an order are determined by it.
LEMMA OneState ==
  ASSUME NEW lg, NEW q \in Seq(Node), NEW s, Materialized(lg, q, s), NEW t, Materialized(lg, q, t)
  PROVE  s = t
<1> DEFINE n == Len(q)
           M == {i \in Nat : i <= n => s[i + 1] = t[i + 1]}
<1>1. n \in Nat /\ s \in Seq(State) /\ t \in Seq(State) /\ Len(s) = n + 1 /\ Len(t) = n + 1
      /\ s[1] = t[1]
      /\ \A i \in 1..n : s[i + 1] = Grown(lg, s[i], q[i]) /\ t[i + 1] = Grown(lg, t[i], q[i])
  BY DEF Materialized
<1> HIDE DEF n
<1>2. 0 \in M
  BY <1>1
<1>3. ASSUME NEW i \in Nat, i \in M PROVE i + 1 \in M
  <2> SUFFICES ASSUME i + 1 <= n PROVE s[(i + 1) + 1] = t[(i + 1) + 1]
    OBVIOUS
  <2>1. s[i + 1] = t[i + 1]
    BY <1>1, <1>3
  <2>2. i + 1 \in 1..n
    BY <1>1
  <2> QED  BY <2>1, <2>2, <1>1
<1> HIDE DEF M
<1>4. Nat \subseteq M
  BY <1>2, <1>3, Induction
<1>5. ASSUME NEW i \in 1..(n + 1) PROVE s[i] = t[i]
  <2>1. i - 1 \in Nat /\ i - 1 <= n /\ (i - 1) + 1 = i
    BY <1>1
  <2> QED  BY <2>1, <1>4 DEF M
<1>6. \A i \in 1..Len(s) : s[i] = t[i]
  BY <1>1, <1>5
<1> QED  BY <1>1, <1>6, SeqEqual

WritesIn(lg, n, k) == OpIn(lg, n).type \in {"put", "del"} /\ OpIn(lg, n).key = k
PutsIn(lg, n, k) == WritesIn(lg, n, k) /\ OpIn(lg, n).type = "put"
EntryIn(lg, n) == EntryOf(Founder, n, OpIn(lg, n))

\* A put sets its key, a deletion clears it, anything else leaves it alone.
LEMMA GrownView ==
  ASSUME NEW lg, NEW st \in State, NEW n \in Node, OpIn(lg, n) \in Ops, NEW k \in Key
  PROVE  /\ PutsIn(lg, n, k) => /\ Grown(lg, st, n).view[k] = EntryIn(lg, n)
                                /\ EntryIn(lg, n) # None
         /\ WritesIn(lg, n, k) /\ ~PutsIn(lg, n, k) => Grown(lg, st, n).view[k] = None
         /\ ~WritesIn(lg, n, k) => Grown(lg, st, n).view[k] = st.view[k]
<1> DEFINE op == OpIn(lg, n)
           v == Applied(Founder, st.view, n, op)
<1>1. op \in Ops /\ n.seq \in Nat /\ n.from \in Peer /\ st.view \in [Key -> Entry \cup {None}]
  BY DEF Node, State
<1>2. Grown(lg, st, n).view = v
  BY DEF Grown, After
<1> HIDE DEF op
<1>3. CASE op.type = "put"
  <2>1. op.key \in Key /\ op.value \in Value
    BY <1>1, <1>3 DEF Ops
  <2>2. v = [st.view EXCEPT ![op.key] = EntryOf(Founder, n, op)]
    BY <1>3 DEF Applied
  <2>3. EntryOf(Founder, n, op) \in Entry
    BY <2>1, <1>1 DEF EntryOf, Entry
  <2>4. EntryOf(Founder, n, op) # None
    BY <2>3, NoneAssumption
  <2> QED  BY <2>1, <2>2, <2>4, <1>1, <1>2, <1>3 DEF WritesIn, PutsIn, EntryIn, op
<1>4. CASE op.type = "del"
  <2>1. op.key \in Key
    BY <1>1, <1>4 DEF Ops
  <2>2. v = [st.view EXCEPT ![op.key] = None]
    BY <1>4 DEF Applied
  <2> QED  BY <2>1, <2>2, <1>1, <1>2, <1>4 DEF WritesIn, PutsIn, op
<1>5. CASE op.type = "addWriter"
  <2>1. v = st.view
    BY <1>5 DEF Applied
  <2> QED  BY <2>1, <1>2, <1>5 DEF WritesIn, PutsIn, op
<1> QED  BY <1>1, <1>3, <1>4, <1>5 DEF Ops

\* Before node i: an empty key was never put, or was deleted; a key that is not
\* empty holds the last write of it, which is a put.
Told(lg, q, s, k, i) ==
  /\ s[i].view[k] = None =>
       \A j \in 1..(i - 1) : PutsIn(lg, q[j], k) =>
         \E l \in 1..(i - 1) : WritesIn(lg, q[l], k) /\ ~PutsIn(lg, q[l], k)
  /\ s[i].view[k] # None =>
       \E j \in 1..(i - 1) :
         /\ PutsIn(lg, q[j], k) /\ s[i].view[k] = EntryIn(lg, q[j])
         /\ \A l \in (j + 1)..(i - 1) : ~WritesIn(lg, q[l], k)

LEMMA ViewTells ==
  ASSUME NEW lg, NEW q \in Seq(Node), NEW s, Materialized(lg, q, s),
         \A i \in 1..Len(q) : OpIn(lg, q[i]) \in Ops, NEW k \in Key
  PROVE  Told(lg, q, s, k, Len(q) + 1)
<1> DEFINE n == Len(q)
           M == {i \in Nat : i <= n => Told(lg, q, s, k, i + 1)}
<1>1. n \in Nat /\ s \in Seq(State) /\ Len(s) = n + 1 /\ s[1] = Start
      /\ (\A i \in 1..n : s[i + 1] = Grown(lg, s[i], q[i]))
      /\ (\A i \in 1..n : q[i] \in Node)
      /\ \A i \in 1..n : OpIn(lg, q[i]) \in Ops
  BY DEF Materialized
<1> HIDE DEF n
<1>2. 0 \in M
  <2>1. s[1].view[k] = None
    BY <1>1 DEF Start, EmptyView
  <2>2. Told(lg, q, s, k, 0 + 1)
    BY <2>1 DEF Told
  <2> QED  BY <2>2
<1>3. ASSUME NEW i \in Nat, i \in M PROVE i + 1 \in M
  <2> SUFFICES ASSUME i + 1 <= n PROVE Told(lg, q, s, k, (i + 1) + 1)
    OBVIOUS
  <2> DEFINE h == i + 1
             st == s[h]
             m == q[h]
             nx == s[h + 1]
  <2>1. h \in 1..n /\ h \in Nat /\ h \in 1..Len(s)
    BY <1>1
  <2>2. st \in State /\ m \in Node /\ OpIn(lg, m) \in Ops /\ nx = Grown(lg, st, m)
    BY <2>1, <1>1
  <2>3. Told(lg, q, s, k, h)
    BY <1>3, <1>1
  <2>4. /\ PutsIn(lg, m, k) => nx.view[k] = EntryIn(lg, m) /\ EntryIn(lg, m) # None
        /\ WritesIn(lg, m, k) /\ ~PutsIn(lg, m, k) => nx.view[k] = None
        /\ ~WritesIn(lg, m, k) => nx.view[k] = st.view[k]
    BY <2>2, GrownView
  <2>5. \A j : j \in 1..((h + 1) - 1) <=> j \in 1..(h - 1) \/ j = h
    BY <2>1
  <2>6. CASE PutsIn(lg, m, k)
    <3>1. h \in 1..((h + 1) - 1) /\ \A l \in (h + 1)..((h + 1) - 1) : FALSE
      BY <2>1
    <3>2. nx.view[k] # None /\ nx.view[k] = EntryIn(lg, q[h]) /\ PutsIn(lg, q[h], k)
      BY <2>4, <2>6
    <3> QED  BY <3>1, <3>2 DEF Told
  <2>7. CASE WritesIn(lg, m, k) /\ ~PutsIn(lg, m, k)
    <3>1. h \in 1..((h + 1) - 1)
      BY <2>1
    <3> QED  BY <3>1, <2>4, <2>7 DEF Told
  <2>8. CASE ~WritesIn(lg, m, k)
    <3>1. nx.view[k] = st.view[k] /\ ~PutsIn(lg, m, k)
      BY <2>4, <2>8 DEF PutsIn
    <3>2. CASE st.view[k] = None
      <4>1. ASSUME NEW j \in 1..((h + 1) - 1), PutsIn(lg, q[j], k)
            PROVE  \E l \in 1..((h + 1) - 1) : WritesIn(lg, q[l], k) /\ ~PutsIn(lg, q[l], k)
        <5>1. j \in 1..(h - 1)
          BY <4>1, <3>1, <2>5
        <5>2. \E l \in 1..(h - 1) : WritesIn(lg, q[l], k) /\ ~PutsIn(lg, q[l], k)
          BY <5>1, <4>1, <3>2, <2>3 DEF Told
        <5> QED  BY <5>2, <2>5
      <4> QED  BY <4>1, <3>1, <3>2 DEF Told
    <3>3. CASE st.view[k] # None
      <4>1. PICK j \in 1..(h - 1) :
              /\ PutsIn(lg, q[j], k) /\ st.view[k] = EntryIn(lg, q[j])
              /\ \A l \in (j + 1)..(h - 1) : ~WritesIn(lg, q[l], k)
        BY <3>3, <2>3 DEF Told
      <4>2. ASSUME NEW l \in (j + 1)..((h + 1) - 1) PROVE ~WritesIn(lg, q[l], k)
        <5>1. l \in (j + 1)..(h - 1) \/ l = h
          BY <2>1
        <5> QED  BY <5>1, <4>1, <2>8
      <4>3. j \in 1..((h + 1) - 1)
        BY <2>5
      <4> QED  BY <4>1, <4>2, <4>3, <3>1, <3>3 DEF Told
    <3> QED  BY <3>2, <3>3
  <2> QED  BY <2>6, <2>7, <2>8 DEF PutsIn
<1> HIDE DEF M
<1>4. Nat \subseteq M
  BY <1>2, <1>3, Induction
<1>5. n \in M
  BY <1>1, <1>4
<1> QED  BY <1>1, <1>5 DEF M, n
-----------------------------------------------------------------------------
(* What peers may rely on.                                                 *)

\* What a peer's order and view are, by the invariant.
LEMMA PeerView ==
  ASSUME SyncInv, NEW p \in Peer, NEW k \in Key
  PROVE  /\ order[p] \in Seq(Node) /\ Len(order[p]) \in Nat
         /\ \A i \in 1..Len(order[p]) : order[p][i] \in NodesOf(known[p])
         /\ \A n \in NodesOf(known[p]) : \E i \in 1..Len(order[p]) : order[p][i] = n
         /\ \A i, j \in 1..Len(order[p]) : Before(log, order[p][i], order[p][j]) => i < j
         /\ View(p) = states[p][Len(order[p]) + 1].view
         /\ Told(log, order[p], states[p], k, Len(order[p]) + 1)
<1>1. /\ History(log) /\ Closed(log, known[p]) /\ order[p] = Linear(log, known[p])
      /\ Materialized(log, order[p], states[p]) /\ order[p] \in Seq(Node)
  BY DEF SyncInv, Peered
<1>2. \A i \in 1..Len(order[p]) :
        order[p][i] \in NodesOf(known[p]) /\ OpIn(log, order[p][i]) \in Ops
  BY <1>1, OrderNodes
<1>3. /\ \A n \in NodesOf(known[p]) : \E i \in 1..Len(order[p]) : order[p][i] = n
      /\ \A i, j \in 1..Len(order[p]) : Before(log, order[p][i], order[p][j]) => i < j
  BY <1>1, LinearOrders
<1>4. View(p) = states[p][Len(order[p]) + 1].view
  BY <1>1 DEF Materialized, View, Last
<1>5. Told(log, order[p], states[p], k, Len(order[p]) + 1)
  BY <1>1, <1>2, ViewTells
<1>6. Len(order[p]) \in Nat
  BY <1>1
<1> QED  BY <1>1, <1>2, <1>3, <1>4, <1>5, <1>6

LEMMA InvConverged ==
  ASSUME SyncInv
  PROVE  Converged
<1> SUFFICES ASSUME NEW p \in Peer, NEW q \in Peer, known[p] = known[q]
             PROVE  Last(states[p]) = Last(states[q])
  BY DEF Converged
<1>1. /\ order[p] = order[q] /\ order[p] \in Seq(Node)
      /\ Materialized(log, order[p], states[p]) /\ Materialized(log, order[q], states[q])
  BY DEF SyncInv, Peered
<1>2. states[p] = states[q]
  BY <1>1, OneState
<1> QED  BY <1>2

LEMMA InvNothingLost ==
  ASSUME SyncInv
  PROVE  NothingLost
<1> SUFFICES ASSUME NEW p \in Peer, NEW k \in Key
             PROVE  /\ View(p)[k] # None =>
                         \E n \in NodesOf(known[p]) : Puts(n, k) /\ Shows(p, k, n)
                    /\ (\E n \in NodesOf(known[p]) : Puts(n, k))
                         /\ (\A n \in NodesOf(known[p]) : Writes(n, k) => Puts(n, k))
                         => View(p)[k] # None
  BY DEF NothingLost
<1> DEFINE q == order[p]
           s == states[p]
           m == Len(q)
<1>1. /\ m \in Nat /\ \A i \in 1..m : q[i] \in NodesOf(known[p])
      /\ \A n \in NodesOf(known[p]) : \E i \in 1..m : q[i] = n
      /\ View(p) = s[m + 1].view /\ Told(log, q, s, k, m + 1)
  BY PeerView
<1>2. \A n : Writes(n, k) = WritesIn(log, n, k) /\ Puts(n, k) = PutsIn(log, n, k)
  BY DEF Writes, Puts, WritesIn, PutsIn, OpOf, NodeAt, OpIn
<1>3. \A n : Shows(p, k, n) <=> View(p)[k] = EntryIn(log, n)
  BY DEF Shows, EntryIn, EntryOf, OpOf, NodeAt, OpIn
<1> HIDE DEF m, q, s
<1>4. (m + 1) - 1 = m
  BY <1>1
<1>5. ASSUME View(p)[k] # None
      PROVE  \E n \in NodesOf(known[p]) : Puts(n, k) /\ Shows(p, k, n)
  <2>1. PICK j \in 1..m : PutsIn(log, q[j], k) /\ View(p)[k] = EntryIn(log, q[j])
    BY <1>1, <1>4, <1>5 DEF Told
  <2> QED  BY <2>1, <1>1, <1>2, <1>3
<1>6. ASSUME NEW n \in NodesOf(known[p]), Puts(n, k),
             \A x \in NodesOf(known[p]) : Writes(x, k) => Puts(x, k), View(p)[k] = None
      PROVE  FALSE
  <2>1. PICK j \in 1..m : q[j] = n
    BY <1>1
  <2>2. PICK l \in 1..m : WritesIn(log, q[l], k) /\ ~PutsIn(log, q[l], k)
    BY <2>1, <1>1, <1>2, <1>4, <1>6 DEF Told
  <2> QED  BY <2>2, <1>1, <1>2, <1>6
<1> QED  BY <1>5, <1>6

LEMMA InvCausalWins ==
  ASSUME SyncInv
  PROVE  CausalWins
<1> SUFFICES ASSUME NEW p \in Peer, NEW k \in Key, NEW n \in NodesOf(known[p]),
                    NEW m \in NodesOf(known[p]), Puts(n, k), Writes(m, k), DependsOn(m, n),
                    Shows(p, k, n)
             PROVE  FALSE
  BY DEF CausalWins
<1> DEFINE q == order[p]
           s == states[p]
           e == Len(q)
<1>1. /\ e \in Nat /\ q \in Seq(Node) /\ \A i \in 1..e : q[i] \in NodesOf(known[p])
      /\ \A x \in NodesOf(known[p]) : \E i \in 1..e : q[i] = x
      /\ \A i, j \in 1..e : Before(log, q[i], q[j]) => i < j
      /\ View(p) = s[e + 1].view /\ Told(log, q, s, k, e + 1)
  BY PeerView
<1>2. History(log) /\ Closed(log, known[p])
  BY DEF SyncInv, Peered
<1>3. n \in Node /\ OpIn(log, n) \in Ops
  BY <1>2, LogOf DEF LogNode, OpIn
<1>4. WritesIn(log, m, k) /\ PutsIn(log, n, k)
  BY DEF Writes, Puts, WritesIn, PutsIn, OpOf, NodeAt, OpIn
<1>5. View(p)[k] = EntryIn(log, n)
  BY DEF Shows, EntryIn, EntryOf, OpOf, NodeAt, OpIn
<1>6. EntryIn(log, n) # None
  <2>1. Start \in State
    BY FounderAssumption DEF Start, State, EmptyView
  <2> QED  BY <2>1, <1>3, <1>4, GrownView
<1>7. Before(log, n, m)
  <2>1. DepsOf(log, m)[n.from] >= n.seq
    BY DEF DependsOn, NodeAt, DepsOf
  <2> QED  BY <2>1, <1>2, WeightGrows DEF Before
<1> HIDE DEF q, s, e
<1>8. (e + 1) - 1 = e
  BY <1>1
<1>9. PICK j \in 1..e : /\ View(p)[k] = EntryIn(log, q[j])
                        /\ \A l \in (j + 1)..e : ~WritesIn(log, q[l], k)
  BY <1>1, <1>5, <1>6, <1>8 DEF Told
<1>10. q[j] = n
  <2>1. q[j] \in NodesOf(known[p]) /\ known[p] \in Clock
    BY <1>1, <1>2, <1>9 DEF Closed
  <2>2. q[j] \in Node
    BY <2>1, NodesAre
  <2>3. EntryIn(log, q[j]) = EntryIn(log, n)
    BY <1>5, <1>9
  <2>4. q[j].from = n.from /\ q[j].seq = n.seq
    BY <2>3 DEF EntryIn, EntryOf
  <2> QED  BY <2>2, <2>4, <1>3 DEF Node
<1>11. PICK l \in 1..e : q[l] = m
  BY <1>1
<1>12. j < l
  BY <1>1, <1>7, <1>9, <1>10, <1>11
<1>13. l \in (j + 1)..e
  BY <1>1, <1>9, <1>11, <1>12
<1> QED  BY <1>4, <1>9, <1>11, <1>13

\* Peers that know the same nodes have the same view and the same writers, in
\* whatever order the nodes reached them (apps/sync-sdk/index.js:10-13).
THEOREM ConvergedAlways == Spec => []Converged
<1>1. SyncInv => Converged
  BY InvConverged
<1> QED  BY <1>1, SyncInvariant, PTL

\* A view holds no value that a later write of the same key knew of
\* (apps/sync-sdk/index.js:15-20).
THEOREM CausalWinsAlways == Spec => []CausalWins
<1>1. SyncInv => CausalWins
  BY InvCausalWins
<1> QED  BY <1>1, SyncInvariant, PTL

\* Every entry of a view is some writer's put, and a key that was put and never
\* deleted has one (apps/sync-sdk/test/property.test.js:186-194).
THEOREM NothingLostAlways == Spec => []NothingLost
<1>1. SyncInv => NothingLost
  BY InvNothingLost
<1> QED  BY <1>1, SyncInvariant, PTL
=============================================================================
