------------------------------- MODULE Riblt_proofs -------------------------------
(***************************************************************************)
(* Proofs about Riblt: whatever the source loses, repeats, reorders or cuts *)
(* off and whatever the budget ends, the decoder never stops short of a    *)
(* cell it could peel, reports no element wrongly, and success means that  *)
(* it reports all of them.                                                 *)
(***************************************************************************)
EXTENDS Riblt, FiniteSetTheorems, FunctionTheorems, SequenceTheorems,
  WellFoundedInduction, TLAPS

LEMMA Least ==
  ASSUME NEW S \in SUBSET Nat, S # {}
  PROVE  Min(S) \in S /\ \A y \in S : Min(S) <= y
<1> DEFINE R == {ss \in Nat \X Nat : ss[1] < ss[2]}
<1>1. IsWellFoundedOn(R, Nat)
  BY NatLessThanWellFounded, Zenon DEF OpToRel
<1>2. PICK x \in S : \A y \in S : <<y, x>> \notin R
  <2> HIDE DEF R
  <2> QED  BY <1>1, WFMin
<1>3. \A y \in S : x <= y
  <2>1. ASSUME NEW y \in S, y < x PROVE <<y, x>> \in R
    BY <2>1, <1>2
  <2> HIDE DEF R
  <2>2. ASSUME NEW y \in S PROVE ~(y < x)
    BY <1>2, <2>1
  <2>3. x \in Nat /\ \A y \in S : y \in Nat
    BY <1>2
  <2> QED  BY <2>2, <2>3
<1> QED  BY <1>2, <1>3 DEF Min

-----------------------------------------------------------------------------
(* Types.                                                                  *)

Held == 0..(Len(cs) - 1)
Windows == Seq([element : Elem, next : 0..MaxCells])
Queues == Seq((SUBSET Held) \ {{}})

TypeInv ==
  /\ mapping \in [Elem -> Mappings] /\ localSet \in SUBSET Elem
  /\ remote \in [Elem -> 0..MaxCopies]
  /\ cs \in Seq(DecoderCell) /\ Len(cs) <= MaxCells /\ decodable \in Queues
  /\ failed \in BOOLEAN /\ work \in Nat
  /\ remoteRecovered \in Windows /\ localRecovered \in Windows
  /\ stage \in {"pull", "peel", "done"}

Queued(queue, i) == \E q \in DOMAIN queue : i \in queue[q]

\* While the decoder peels, every pure cell is queued, unless the budget is spent.
QueueInv ==
  /\ stage = "pull" => ~failed /\ \A k \in DOMAIN cs : ~cellIsPure(cs[k])
  /\ stage = "peel" /\ ~failed =>
       \A k \in DOMAIN cs : cellIsPure(cs[k]) => Queued(decodable, k - 1)
  /\ stage = "peel" /\ failed => decodable = <<>> \/ work + 1 > WorkBudget

LEMMA BoundTypes ==
  /\ MaxCells \in Nat /\ MaxCells >= 1 /\ MaxCopies \in Nat /\ IsFiniteSet(Elem)
  /\ FirstEnd \in Nat /\ PerCell \in Nat /\ BaseWork \in Nat
BY SetsAssumption, BoundAssumption

LEMMA FiniteRange == ASSUME NEW a \in Int, NEW b \in Int PROVE IsFiniteSet(a..b)
BY FS_Interval

LEMMA HeldFacts ==
  ASSUME TypeInv
  PROVE  /\ Len(cs) \in Nat /\ DOMAIN cs = 1..Len(cs) /\ Held \in SUBSET Nat /\ IsFiniteSet(Held)
         /\ \A i \in Held : i + 1 \in DOMAIN cs /\ cs[i + 1] \in DecoderCell
         /\ \A k \in DOMAIN cs : k - 1 \in Held /\ k \in Nat
         /\ WorkBudget \in Nat
<1>1. Len(cs) \in Nat /\ DOMAIN cs = 1..Len(cs)
  BY DEF TypeInv
<1>2. WorkBudget \in Nat
  <2> DEFINE a == Len(cs)
  <2>1. a \in Nat
    BY <1>1
  <2> HIDE DEF a
  <2>2. a * PerCell \in Nat
    BY <2>1, BoundTypes
  <2> QED  BY <2>2, BoundTypes DEF WorkBudget, a
<1>3. IsFiniteSet(Held)
  <2>1. Len(cs) - 1 \in Int /\ 0 \in Int
    BY <1>1
  <2> QED  BY <2>1, FiniteRange DEF Held
<1>4. \A i \in Held : i + 1 \in DOMAIN cs
  BY <1>1 DEF Held
<1>5. \A k \in DOMAIN cs : cs[k] \in DecoderCell
  BY <1>1 DEF TypeInv
<1> QED  BY <1>1, <1>2, <1>3, <1>4, <1>5 DEF Held

\* Folding keeps a cell a cell.
LEMMA FoldTypes ==
  ASSUME NEW cell, cell.count \in Int, cell.members \in SUBSET Elem, NEW m \in Int,
         NEW S \in SUBSET Elem
  PROVE  /\ Fold(cell, m, S) \in DecoderCell
         /\ Fold(cell, m, S).count = cell.count + m
         /\ Fold(cell, m, S).members = (cell.members \ S) \cup (S \ cell.members)
BY DEF Fold, DecoderCell

\* A pure cell holds one element, which is the one peeled.
LEMMA PureOne ==
  ASSUME NEW cell \in DecoderCell, cellIsPure(cell)
  PROVE  \E e \in Elem : cell.members = {e}
<1>1. IsFiniteSet(cell.members)
  BY BoundTypes, FS_Subset DEF DecoderCell
<1>2. PICK e : cell.members = {e}
  BY <1>1, FS_Singleton DEF cellIsPure
<1> QED  BY <1>2 DEF DecoderCell

\* The front of the queue is held, and what else was queued still is without it.
LEMMA LaterQueue ==
  ASSUME TypeInv, decodable # <<>>
  PROVE  /\ idx \in Held /\ Later \in Queues
         /\ \A i \in Held : Queued(decodable, i) /\ i # idx => Queued(Later, i)
<1> DEFINE h == Head(decodable)
           t == Tail(decodable)
           f == h \ {idx}
<1>1. decodable \in Queues
  BY DEF TypeInv
<1>2. h \in (SUBSET Held) \ {{}} /\ t \in Queues /\ decodable = <<h>> \o t
  BY <1>1, HeadTailProperties, SMT DEF Queues
<1>3. h \in SUBSET Nat /\ h # {}
  BY <1>2, HeldFacts
<1>4. idx \in h
  BY <1>3, Least DEF idx
<1> HIDE DEF h, t
<1>5. idx \in Held
  BY <1>2, <1>4
<1>6. /\ \A q \in DOMAIN t : t[q] = decodable[q + 1]
      /\ \A q \in DOMAIN decodable : q # 1 => q - 1 \in DOMAIN t /\ decodable[q] = t[q - 1]
      /\ decodable[1] = h
  BY <1>1, <1>2 DEF Queues
<1>7. CASE h = {idx}
  <2>1. Later = t
    BY <1>7 DEF Later, h, t
  <2>2. \A i \in Held : Queued(decodable, i) /\ i # idx => Queued(t, i)
    BY <1>6, <1>7 DEF Queued
  <2> QED  BY <1>2, <1>5, <2>1, <2>2
<1>8. CASE h # {idx}
  <2>1. Later = <<f>> \o t
    BY <1>8 DEF Later, h, t
  <2>2. f \in (SUBSET Held) \ {{}}
    BY <1>2, <1>4, <1>8
  <2> HIDE DEF f
  <2>3. Later \in Queues
    BY <1>2, <2>1, <2>2, ConcatProperties DEF Queues
  <2>4. /\ 1 \in DOMAIN Later /\ Later[1] = f
        /\ \A q \in DOMAIN t : q + 1 \in DOMAIN Later /\ Later[q + 1] = t[q]
    BY <1>2, <2>1 DEF Queues
  <2>5. \A i \in Held : Queued(decodable, i) /\ i # idx => Queued(Later, i)
    <3> SUFFICES ASSUME NEW i \in Held, NEW q \in DOMAIN decodable, i \in decodable[q], i # idx
                 PROVE  Queued(Later, i)
      BY DEF Queued
    <3>1. CASE q = 1
      BY <1>6, <2>4, <3>1 DEF Queued, f
    <3>2. CASE q # 1
      <4>1. q - 1 \in DOMAIN t /\ i \in t[q - 1]
        BY <1>6, <3>2
      <4> QED  BY <2>4, <4>1 DEF Queued
    <3> QED  BY <3>1, <3>2
  <2> QED  BY <1>5, <2>3, <2>5
<1> QED  BY <1>7, <1>8

\* What is queued is still queued after more is.
LEMMA QueuedMore ==
  ASSUME NEW S, NEW a \in Seq(S), NEW b \in Seq(S), NEW i, Queued(a, i) \/ Queued(b, i)
  PROVE  Queued(a \o b, i)
<1>1. CASE Queued(a, i)
  <2>1. PICK q \in DOMAIN a : i \in a[q]
    BY <1>1 DEF Queued
  <2>2. q \in DOMAIN (a \o b) /\ (a \o b)[q] = a[q]
    OBVIOUS
  <2> QED  BY <2>1, <2>2 DEF Queued
<1>2. CASE Queued(b, i)
  <2>1. PICK q \in DOMAIN b : i \in b[q]
    BY <1>2 DEF Queued
  <2>2. Len(a) + q \in DOMAIN (a \o b) /\ (a \o b)[Len(a) + q] = b[q]
    OBVIOUS
  <2> QED  BY <2>1, <2>2 DEF Queued
<1> QED  BY <1>1, <1>2

-----------------------------------------------------------------------------
(* The cells of an element.                                                *)

LEMMA MappingFacts ==
  ASSUME TypeInv, NEW e \in Elem
  PROVE  mapping[e] \in SUBSET (0..(MaxCells - 1)) /\ mapping[e] \in SUBSET Nat /\ 0 \in mapping[e]
<1>1. mapping[e] \in Mappings
  BY DEF TypeInv
<1> QED  BY <1>1, BoundTypes DEF Mappings, CellIndex

LEMMA UnheldFacts ==
  ASSUME TypeInv, NEW e \in Elem, NEW held \in SUBSET (0..(MaxCells - 1))
  PROVE  LET next == Unheld(e, held)
         IN  /\ next \in mapping[e] \cup {MaxCells} /\ next \notin held
             /\ next \in 0..MaxCells
             /\ \A i \in mapping[e] \ held : next <= i
<1> DEFINE S == (mapping[e] \cup {MaxCells}) \ held
<1>1. S \in SUBSET Nat /\ MaxCells \in S /\ S \in SUBSET (0..MaxCells)
  BY MappingFacts, BoundTypes
<1>2. Min(S) \in S /\ \A y \in S : Min(S) <= y
  <2> HIDE DEF S
  <2> QED  BY <1>1, Least
<1>3. Unheld(e, held) = Min(S)
  BY DEF Unheld
<1>4. \A i \in mapping[e] \ held : Min(S) <= i
  BY <1>2
<1> QED  BY <1>1, <1>2, <1>3, <1>4

Mapped(e) == {i \in mapping[e] : i < Len(cs)}

\* _peel takes the cells of an element in order, as many as the budget allows.
LEMMA TouchedFacts ==
  ASSUME TypeInv, NEW e \in Elem, work + 1 <= WorkBudget
  PROVE  /\ Touched(e) \in SUBSET Mapped(e) /\ Touched(e) \in SUBSET Held
         /\ IsFiniteSet(Touched(e))
         /\ \A i \in mapping[e] : i \in Touched(e) <=> i < Unheld(e, Touched(e))
         /\ Touched(e) # Mapped(e) => Cardinality(Touched(e)) >= WorkBudget - (work + 1)
<1> DEFINE B == WorkBudget - (work + 1)
           upTo(i) == mapping[e] \cap 0..i
           T == Touched(e)
           next == Unheld(e, T)
<1>1. B \in Nat /\ Len(cs) \in Nat /\ Len(cs) <= MaxCells /\ MaxCells \in Nat
  <2>1. work \in Nat /\ Len(cs) <= MaxCells
    BY DEF TypeInv
  <2> QED  BY <2>1, HeldFacts, BoundTypes
<1>2. mapping[e] \in SUBSET Nat /\ mapping[e] \in SUBSET (0..(MaxCells - 1))
  BY MappingFacts
<1>3. T = {i \in mapping[e] : i < Len(cs) /\ Cardinality(upTo(i)) <= B}
  BY DEF Touched
<1> HIDE DEF T
<1>4. T \in SUBSET Mapped(e) /\ T \in SUBSET Held /\ T \in SUBSET (0..(MaxCells - 1))
  BY <1>1, <1>2, <1>3 DEF Mapped, Held
<1>5. \A i \in Nat : IsFiniteSet(upTo(i)) /\ Cardinality(upTo(i)) \in Nat
  <2> SUFFICES ASSUME NEW i \in Nat
               PROVE  IsFiniteSet(upTo(i)) /\ Cardinality(upTo(i)) \in Nat
    OBVIOUS
  <2>1. IsFiniteSet(0..i)
    BY FiniteRange
  <2>2. IsFiniteSet(upTo(i))
    BY <2>1, FS_Subset
  <2> QED  BY <2>2, FS_CardinalityType
<1>6. ASSUME NEW i \in T, NEW j \in mapping[e], j < i PROVE j \in T
  <2>1. i \in Nat /\ j \in Nat /\ i \in mapping[e] /\ i < Len(cs) /\ Cardinality(upTo(i)) <= B
    BY <1>2, <1>3
  <2>2. upTo(j) \subseteq upTo(i)
    BY <1>6, <2>1
  <2>3. Cardinality(upTo(j)) <= Cardinality(upTo(i))
    BY <1>5, <2>1, <2>2, FS_Subset
  <2>4. Cardinality(upTo(j)) <= B /\ j < Len(cs)
    <3>1. Cardinality(upTo(j)) \in Nat /\ Cardinality(upTo(i)) \in Nat
      BY <1>5, <2>1
    <3> HIDE DEF upTo, B
    <3>2. Cardinality(upTo(j)) <= B
      BY <1>1, <2>1, <2>3, <3>1
    <3>3. j < Len(cs)
      BY <1>1, <1>6, <2>1
    <3> QED  BY <3>2, <3>3
  <2> QED  BY <1>3, <2>4
<1>7. /\ next \in mapping[e] \cup {MaxCells} /\ next \notin T /\ next \in 0..MaxCells
      /\ \A i \in mapping[e] \ T : next <= i
  BY <1>4, UnheldFacts
<1> HIDE DEF next
<1>8. ASSUME NEW i \in mapping[e] PROVE i \in T <=> i < next
  <2>1. i \in Nat /\ i < MaxCells /\ next \in Nat
    BY <1>1, <1>2, <1>7
  <2>2. i \notin T => next <= i
    BY <1>7
  <2>3. i \in T => i < next
    <3> SUFFICES ASSUME i \in T, next <= i PROVE FALSE
      BY <2>1
    <3>1. next \in mapping[e] /\ next # i
      BY <1>7, <2>1
    <3>2. next < i
      BY <2>1, <3>1
    <3> QED  BY <1>6, <1>7, <3>1, <3>2
  <2> QED  BY <2>1, <2>2, <2>3
<1>9. IsFiniteSet(T)
  BY <1>4, HeldFacts, FS_Subset
<1>10. ASSUME T # Mapped(e) PROVE Cardinality(T) >= B
  <2> DEFINE M == Mapped(e) \ T
             low == Min(M)
  <2>1. M \in SUBSET Nat /\ M # {}
    BY <1>2, <1>4, <1>10 DEF Mapped
  <2>2. low \in M /\ \A y \in M : low <= y
    <3> HIDE DEF M
    <3> QED  BY <2>1, Least
  <2>3. low \in Nat /\ low \in mapping[e] /\ low < Len(cs) /\ low \notin T
    BY <1>2, <2>2 DEF Mapped
  <2>4. \A j \in mapping[e] : j < low => j \in T
    <3> SUFFICES ASSUME NEW j \in mapping[e], j < low, j \notin T PROVE FALSE
      OBVIOUS
    <3>1. j \in Nat /\ j < Len(cs)
      BY <1>1, <1>2, <2>3
    <3>2. j \in M
      BY <3>1 DEF Mapped
    <3> HIDE DEF M, low
    <3>3. low <= j
      BY <2>2, <3>2
    <3> QED  BY <2>3, <3>1, <3>3
  <2> HIDE DEF M, low
  <2>5. ~(Cardinality(upTo(low)) <= B)
    BY <1>3, <2>3
  <2>6. Cardinality(upTo(low)) \in Nat /\ IsFiniteSet(upTo(low)) /\ low \in upTo(low)
    BY <1>5, <2>3
  <2>7. upTo(low) \ {low} \subseteq T
    BY <1>2, <2>3, <2>4
  <2> DEFINE U == upTo(low)
  <2> HIDE DEF U
  <2>8. IsFiniteSet(U \ {low}) /\ Cardinality(U \ {low}) = Cardinality(U) - 1
    BY <2>6, FS_RemoveElement DEF U
  <2>9. Cardinality(U \ {low}) <= Cardinality(T)
    BY <1>9, <2>7, FS_Subset DEF U
  <2>10. Cardinality(T) \in Nat
    BY <1>9, FS_CardinalityType
  <2>11. Cardinality(U) \in Nat /\ ~(Cardinality(U) <= B)
    BY <2>5, <2>6 DEF U
  <2> HIDE DEF B
  <2> QED  BY <1>1, <2>8, <2>9, <2>10, <2>11
<1> QED  BY <1>4, <1>8, <1>9, <1>10 DEF T, next

-----------------------------------------------------------------------------
(* The queue holds every pure cell, for all constants.                     *)

\* Cells and entries of the windows only know elements by the cells they map to.
MappedInv ==
  /\ \A i \in Held : \A e \in cs[i + 1].members : i \in mapping[e]
  /\ \A k \in DOMAIN remoteRecovered :
       remoteRecovered[k].next \in mapping[remoteRecovered[k].element] \cup {MaxCells}
  /\ \A k \in DOMAIN localRecovered :
       localRecovered[k].next \in mapping[localRecovered[k].element] \cup {MaxCells}

BaseInv == TypeInv /\ MappedInv /\ QueueInv

LEMMA PureFacts ==
  ASSUME BaseInv, NEW dir \in {1, -1}, Pure(dir)
  PROVE  /\ stage = "peel" /\ decodable # <<>> /\ work + 1 <= WorkBudget /\ ~failed
         /\ idx \in Held /\ cs[idx + 1].count = -dir
         /\ PureElement \in Elem /\ cs[idx + 1].members = {PureElement}
         /\ idx \in mapping[PureElement]
<1>1. TypeInv /\ MappedInv /\ QueueInv
  BY DEF BaseInv
<1>2. /\ stage = "peel" /\ decodable # <<>> /\ work + 1 <= WorkBudget
      /\ cellIsPure(cs[idx + 1]) /\ cs[idx + 1].count = -dir
  BY DEF Pure
<1>3. ~failed
  <2>1. work \in Nat /\ WorkBudget \in Nat
    BY <1>1, HeldFacts DEF TypeInv
  <2> QED  BY <1>1, <1>2, <2>1 DEF QueueInv
<1>4. idx \in Held /\ cs[idx + 1] \in DecoderCell
  BY <1>1, <1>2, LaterQueue, HeldFacts
<1>5. PureElement \in Elem /\ cs[idx + 1].members = {PureElement}
  BY <1>2, <1>4, PureOne DEF PureElement
<1>6. idx \in mapping[PureElement]
  BY <1>1, <1>4, <1>5 DEF MappedInv
<1> QED  BY <1>2, <1>3, <1>4, <1>5, <1>6

LEMMA PeelFacts ==
  ASSUME BaseInv, NEW dir \in {1, -1}, Pure(dir), NEW e \in Elem, Peel(e, dir)
  PROVE  /\ cs' \in Seq(DecoderCell) /\ Len(cs') = Len(cs) /\ DOMAIN cs' = DOMAIN cs
         /\ \A i \in Held :
              cs'[i + 1] = IF i \in Touched(e) THEN Fold(cs[i + 1], dir, {e}) ELSE cs[i + 1]
         /\ decodable' \in Queues
         /\ \A i \in Held : Queued(decodable, i) /\ i # idx => Queued(decodable', i)
         /\ \A i \in NowPure(e, dir) : Queued(decodable', i)
         /\ failed' \in BOOLEAN /\ (failed' <=> Touched(e) # Mapped(e))
         /\ work' \in Nat /\ (failed' => work' + 1 > WorkBudget)
<1>1. TypeInv /\ stage = "peel" /\ decodable # <<>> /\ work + 1 <= WorkBudget
  BY PureFacts DEF BaseInv
<1>2. /\ cs' = [k \in DOMAIN cs |->
                  IF k - 1 \in Touched(e) THEN Fold(cs[k], dir, {e}) ELSE cs[k]]
      /\ decodable' = Later \o (IF NowPure(e, dir) = {} THEN <<>> ELSE <<NowPure(e, dir)>>)
      /\ failed' = (Touched(e) # Mapped(e))
      /\ work' = work + 1 + Cardinality(Touched(e)) + (IF Touched(e) # Mapped(e) THEN 1 ELSE 0)
  <2>1. \A k \in DOMAIN cs : k - 1 + 1 = k
    BY <1>1, HeldFacts
  <2>2. [k \in DOMAIN cs |-> IF k - 1 \in Touched(e) THEN Fold(cs[k - 1 + 1], dir, {e}) ELSE cs[k]]
        = [k \in DOMAIN cs |-> IF k - 1 \in Touched(e) THEN Fold(cs[k], dir, {e}) ELSE cs[k]]
    BY <2>1
  <2> QED  BY <2>2 DEF Peel, Mapped
<1>3. /\ Touched(e) \in SUBSET Held /\ IsFiniteSet(Touched(e))
      /\ Touched(e) # Mapped(e) => Cardinality(Touched(e)) >= WorkBudget - (work + 1)
  BY <1>1, TouchedFacts
<1>4. cs' \in Seq(DecoderCell) /\ Len(cs') = Len(cs) /\ DOMAIN cs' = DOMAIN cs
  <2>1. \A k \in DOMAIN cs : Fold(cs[k], dir, {e}) \in DecoderCell /\ cs[k] \in DecoderCell
    <3> SUFFICES ASSUME NEW k \in DOMAIN cs
                 PROVE  Fold(cs[k], dir, {e}) \in DecoderCell /\ cs[k] \in DecoderCell
      OBVIOUS
    <3>1. cs[k] \in DecoderCell
      BY <1>1 DEF TypeInv
    <3>2. cs[k].count \in Int /\ cs[k].members \in SUBSET Elem /\ dir \in Int
      BY <3>1 DEF DecoderCell
    <3> QED  BY <3>1, <3>2, FoldTypes
  <2>2. cs' \in [1..Len(cs) -> DecoderCell]
    BY <1>1, <1>2, <2>1, HeldFacts
  <2>3. Len(cs) \in Nat /\ DOMAIN cs = 1..Len(cs)
    BY <1>1, HeldFacts
  <2> QED  BY <2>2, <2>3
<1>5. \A i \in Held :
        cs'[i + 1] = IF i \in Touched(e) THEN Fold(cs[i + 1], dir, {e}) ELSE cs[i + 1]
  <2> SUFFICES ASSUME NEW i \in Held
               PROVE  cs'[i + 1] = IF i \in Touched(e) THEN Fold(cs[i + 1], dir, {e})
                                   ELSE cs[i + 1]
    OBVIOUS
  <2> DEFINE k == i + 1
  <2>1. k \in DOMAIN cs /\ k - 1 = i
    BY <1>1, HeldFacts
  <2> HIDE DEF k
  <2>2. cs'[k] = IF k - 1 \in Touched(e) THEN Fold(cs[k], dir, {e}) ELSE cs[k]
    BY <1>2, <2>1
  <2> QED  BY <2>1, <2>2 DEF k
<1>6. /\ decodable' \in Queues
      /\ \A i \in Held : Queued(decodable, i) /\ i # idx => Queued(decodable', i)
      /\ \A i \in NowPure(e, dir) : Queued(decodable', i)
  <2> DEFINE new == NowPure(e, dir)
             tail == IF new = {} THEN <<>> ELSE <<new>>
             S == (SUBSET Held) \ {{}}
  <2>1. Later \in Seq(S) /\ \A i \in Held : Queued(decodable, i) /\ i # idx => Queued(Later, i)
    BY <1>1, LaterQueue DEF Queues
  <2>2. new \in SUBSET Held
    BY <1>3 DEF NowPure
  <2> HIDE DEF new
  <2>3. tail \in Seq(S)
    <3>1. new # {} => new \in S
      BY <2>2
    <3> HIDE DEF S
    <3>2. CASE new = {}
      <4>1. tail = <<>>
        BY <3>2
      <4> QED  BY <4>1
    <3>3. CASE new # {}
      <4>1. tail = <<new>>
        BY <3>3
      <4> QED  BY <3>1, <3>3, <4>1
    <3> QED  BY <3>2, <3>3
  <2>4. \A i \in new : Queued(tail, i)
    <3> SUFFICES ASSUME NEW i \in new PROVE Queued(tail, i)
      OBVIOUS
    <3>1. tail = <<new>> /\ 1 \in DOMAIN tail /\ tail[1] = new
      OBVIOUS
    <3> HIDE DEF tail
    <3> QED  BY <3>1 DEF Queued
  <2>5. decodable' = Later \o tail
    BY <1>2 DEF new
  <2> HIDE DEF tail, S
  <2>6. decodable' \in Seq(S)
    BY <2>1, <2>3, <2>5, ConcatProperties
  <2>7. \A i : Queued(Later, i) \/ Queued(tail, i) => Queued(decodable', i)
    BY <2>1, <2>3, <2>5, QueuedMore
  <2> QED  BY <2>1, <2>4, <2>6, <2>7 DEF Queues, S, new
<1>7. failed' \in BOOLEAN /\ (failed' <=> Touched(e) # Mapped(e))
  BY <1>2
<1>8. work' \in Nat /\ (failed' => work' + 1 > WorkBudget)
  <2> DEFINE c == Cardinality(Touched(e))
             b == WorkBudget
  <2>1. c \in Nat /\ work \in Nat /\ b \in Nat
    BY <1>1, <1>3, FS_CardinalityType, HeldFacts DEF TypeInv
  <2>2. Touched(e) # Mapped(e) => c >= b - (work + 1)
    BY <1>3
  <2>3. work' = work + 1 + c + (IF Touched(e) # Mapped(e) THEN 1 ELSE 0)
    BY <1>2
  <2> HIDE DEF c, b
  <2>4. work' \in Nat /\ (Touched(e) # Mapped(e) => work' + 1 > b)
    BY <2>1, <2>2, <2>3
  <2> QED  BY <1>7, <2>4 DEF b
<1> QED  BY <1>4, <1>5, <1>6, <1>7, <1>8

\* An element that is peeled leaves every pure cell queued.
LEMMA PeelQueue ==
  ASSUME BaseInv, NEW dir \in {1, -1}, Pure(dir), Peel(PureElement, dir), UNCHANGED stage
  PROVE  QueueInv'
<1> DEFINE e == PureElement
<1>1. /\ TypeInv /\ QueueInv /\ stage = "peel" /\ ~failed /\ work + 1 <= WorkBudget
      /\ e \in Elem /\ idx \in Held /\ idx \in mapping[e] /\ cs[idx + 1].members = {e}
      /\ cs[idx + 1].count = -dir
  BY PureFacts DEF BaseInv
<1> HIDE DEF e
<1>2. /\ Len(cs') = Len(cs) /\ DOMAIN cs' = DOMAIN cs
      /\ \A i \in Held :
           cs'[i + 1] = IF i \in Touched(e) THEN Fold(cs[i + 1], dir, {e}) ELSE cs[i + 1]
      /\ \A i \in Held : Queued(decodable, i) /\ i # idx => Queued(decodable', i)
      /\ \A i \in NowPure(e, dir) : Queued(decodable', i)
      /\ failed' <=> Touched(e) # Mapped(e)
      /\ failed' => work' + 1 > WorkBudget
  BY <1>1, PeelFacts DEF e
<1>3. WorkBudget' = WorkBudget
  BY <1>2 DEF WorkBudget
<1>4. ASSUME ~failed', NEW k \in DOMAIN cs', cellIsPure(cs'[k]) PROVE Queued(decodable', k - 1)
  <2> DEFINE i == k - 1
  <2>1. i \in Held /\ i + 1 = k
    BY <1>1, <1>2, HeldFacts
  <2> HIDE DEF i
  <2>2. Touched(e) = Mapped(e)
    BY <1>2, <1>4
  <2>3. CASE i \in Touched(e)
    <3>1. cs'[k] = Fold(cs[i + 1], dir, {e})
      BY <1>2, <2>1, <2>3
    <3>2. i \in NowPure(e, dir)
      BY <1>4, <2>3, <3>1 DEF NowPure
    <3> QED  BY <1>2, <3>2 DEF i
  <2>4. CASE i \notin Touched(e)
    <3>1. cs'[k] = cs[k] /\ cellIsPure(cs[k])
      BY <1>2, <1>4, <2>1, <2>4
    <3>2. Queued(decodable, i)
      BY <1>1, <1>2, <3>1 DEF QueueInv, i
    <3>3. i # idx
      <4>1. idx \in Mapped(e)
        BY <1>1, HeldFacts DEF Mapped, Held
      <4> QED  BY <2>2, <2>4, <4>1
    <3> QED  BY <1>2, <2>1, <3>2, <3>3 DEF i
  <2> QED  BY <2>3, <2>4
<1> QED  BY <1>1, <1>2, <1>3, <1>4 DEF QueueInv

EntrySet == [element : Elem, next : 0..MaxCells]
NextsMapped(window) ==
  \A k \in DOMAIN window : window[k].next \in mapping[window[k].element] \cup {MaxCells}

LEMMA EntryFacts ==
  ASSUME TypeInv, NEW e \in Elem, work + 1 <= WorkBudget
  PROVE  /\ Entry(e) \in EntrySet /\ Entry(e).element = e
         /\ Entry(e).next = Unheld(e, Touched(e))
         /\ Entry(e).next \in mapping[e] \cup {MaxCells}
<1>1. Touched(e) \in SUBSET (0..(MaxCells - 1))
  <2>1. Touched(e) \in SUBSET Mapped(e) /\ Mapped(e) \in SUBSET mapping[e]
    BY TouchedFacts DEF Mapped
  <2> QED  BY <2>1, MappingFacts
<1>2. /\ Unheld(e, Touched(e)) \in mapping[e] \cup {MaxCells}
      /\ Unheld(e, Touched(e)) \in 0..MaxCells
  BY <1>1, UnheldFacts
<1> QED  BY <1>2 DEF Entry, EntrySet

LEMMA GrownWindow ==
  ASSUME NEW w \in Windows, NEW x \in EntrySet
  PROVE  LET v == Append(w, x)
         IN  /\ v \in Windows /\ Len(v) = Len(w) + 1 /\ Len(w) \in Nat
             /\ DOMAIN v = 1..(Len(w) + 1) /\ DOMAIN w = 1..Len(w) /\ v[Len(w) + 1] = x
             /\ \A k \in DOMAIN w : v[k] = w[k] /\ k \in DOMAIN v
             /\ \A k \in DOMAIN v : k \notin DOMAIN w => k = Len(w) + 1
<1> DEFINE v == Append(w, x)
<1>1. w \in Seq(EntrySet)
  BY DEF Windows, EntrySet
<1>2. v \in Seq(EntrySet) /\ Len(v) = Len(w) + 1 /\ Len(w) \in Nat
  BY <1>1
<1>3. DOMAIN v = 1..(Len(w) + 1) /\ DOMAIN w = 1..Len(w) /\ v[Len(w) + 1] = x
  BY <1>1, <1>2
<1>4. \A k \in DOMAIN w : v[k] = w[k]
  BY <1>1, <1>3
<1>5. v \in Windows
  BY <1>2 DEF Windows, EntrySet
<1> QED  BY <1>2, <1>3, <1>4, <1>5

LEMMA PeelBase ==
  ASSUME BaseInv, NEW dir \in {1, -1}, Pure(dir), Peel(PureElement, dir),
         UNCHANGED <<ribltInput, stage>>,
         \/ /\ remoteRecovered' = Append(remoteRecovered, Entry(PureElement))
            /\ UNCHANGED localRecovered
         \/ /\ localRecovered' = Append(localRecovered, Entry(PureElement))
            /\ UNCHANGED remoteRecovered
  PROVE  BaseInv'
<1> DEFINE e == PureElement
<1>1. /\ TypeInv /\ MappedInv /\ e \in Elem /\ work + 1 <= WorkBudget
  BY PureFacts DEF BaseInv
<1> HIDE DEF e
<1>2. /\ cs' \in Seq(DecoderCell) /\ Len(cs') = Len(cs)
      /\ \A i \in Held :
           cs'[i + 1] = IF i \in Touched(e) THEN Fold(cs[i + 1], dir, {e}) ELSE cs[i + 1]
      /\ decodable' \in Queues /\ failed' \in BOOLEAN /\ work' \in Nat
  BY <1>1, PeelFacts DEF e
<1>3. Held' = Held
  BY <1>2 DEF Held
<1>4. UNCHANGED <<mapping, localSet, remote, stage>>
  BY DEF ribltInput
<1>5. /\ Entry(e) \in EntrySet /\ Entry(e).element = e
      /\ Entry(e).next \in mapping[e] \cup {MaxCells}
  BY <1>1, EntryFacts
<1>6. ASSUME NEW w \in Windows, NextsMapped(w), NEW v, v = Append(w, Entry(e))
      PROVE  v \in Windows /\ NextsMapped(v)
  <2> DEFINE x == Entry(e)
  <2>1. x \in EntrySet /\ x.element = e /\ x.next \in mapping[e] \cup {MaxCells}
    BY <1>5
  <2>2. v = Append(w, x)
    BY <1>6
  <2> HIDE DEF x
  <2>3. /\ v \in Windows /\ v[Len(w) + 1] = x /\ \A k \in DOMAIN w : v[k] = w[k]
        /\ \A k \in DOMAIN v : k \notin DOMAIN w => k = Len(w) + 1
    <3>1. w \in Windows
      BY <1>6
    <3>2. x \in EntrySet
      BY <2>1
    <3>3. /\ Append(w, x) \in Windows /\ Append(w, x)[Len(w) + 1] = x
          /\ \A k \in DOMAIN w : Append(w, x)[k] = w[k]
          /\ \A k \in DOMAIN Append(w, x) : k \notin DOMAIN w => k = Len(w) + 1
      BY <3>1, <3>2, GrownWindow, Zenon
    <3> QED  BY <2>2, <3>3, Zenon
  <2> QED  BY <1>6, <2>1, <2>3 DEF NextsMapped
<1>7. /\ remoteRecovered \in Windows /\ localRecovered \in Windows
      /\ NextsMapped(remoteRecovered) /\ NextsMapped(localRecovered)
  BY <1>1 DEF TypeInv, MappedInv, NextsMapped
<1>8. /\ remoteRecovered' \in Windows /\ localRecovered' \in Windows
      /\ NextsMapped(remoteRecovered') /\ NextsMapped(localRecovered')
  BY <1>6, <1>7 DEF e
<1>9. TypeInv'
  <2>1. decodable' \in Queues'
    BY <1>2, <1>3 DEF Queues
  <2> QED  BY <1>1, <1>2, <1>4, <1>8, <2>1 DEF TypeInv, Windows, Mappings
<1>10. MappedInv'
  <2>1. ASSUME NEW i \in Held, NEW x \in cs'[i + 1].members PROVE i \in mapping[x]
    <3>1. cs[i + 1] \in DecoderCell /\ \A y \in cs[i + 1].members : i \in mapping[y]
      BY <1>1, HeldFacts DEF MappedInv
    <3>2. CASE i \in Touched(e)
      <4>1. cs[i + 1].count \in Int /\ cs[i + 1].members \in SUBSET Elem /\ dir \in Int
        BY <3>1 DEF DecoderCell
      <4>2. cs'[i + 1].members = (cs[i + 1].members \ {e}) \cup ({e} \ cs[i + 1].members)
        BY <1>1, <1>2, <3>2, <4>1, FoldTypes
      <4>3. i \in mapping[e]
        BY <1>1, <3>2, TouchedFacts DEF Mapped
      <4> QED  BY <2>1, <3>1, <4>2, <4>3
    <3>3. CASE i \notin Touched(e)
      BY <1>2, <2>1, <3>1, <3>3
    <3> QED  BY <3>2, <3>3
  <2> QED  BY <1>3, <1>4, <1>8, <2>1 DEF MappedInv, NextsMapped
<1>11. QueueInv'
  BY PeelQueue
<1> QED  BY <1>9, <1>10, <1>11 DEF BaseInv

-----------------------------------------------------------------------------
(* A symbol becomes a cell.                                                *)

NewCell(j) ==
  Applied(Applied(Subtracted(CodedSymbol(j), j), remoteRecovered, j, -1), localRecovered, j, 1)

MappedTo(j) == {e \in Elem : j \in mapping[e]}

\* A cell of elements that are mapped to it.
CellOf(cell, j) == cell.count \in Int /\ cell.members \in SUBSET MappedTo(j)

LEMMA FiniteElements == ASSUME NEW S \in SUBSET Elem PROVE IsFiniteSet(S) /\ Cardinality(S) \in Nat
BY BoundTypes, FS_Subset, FS_CardinalityType

LEMMA SymbolTypes ==
  ASSUME TypeInv, NEW j \in CellIndex
  PROVE  CodedSymbol(j).index = j /\ CellOf(CodedSymbol(j), j)
<1> DEFINE here == {p \in Elem \X (1..MaxCopies) : j \in mapping[p[1]] /\ p[2] <= remote[p[1]]}
<1>1. IsFiniteSet(here)
  <2>1. IsFiniteSet(1..MaxCopies)
    BY BoundTypes, FiniteRange
  <2>2. IsFiniteSet(Elem \X (1..MaxCopies))
    BY <2>1, BoundTypes, FS_Product
  <2> QED  BY <2>2, FS_Subset
<1>2. Cardinality(here) \in Nat
  BY <1>1, FS_CardinalityType
<1> HIDE DEF here
<1>3. CodedSymbol(j) = [index |-> j, count |-> Cardinality(here),
                        members |-> {e \in Elem : j \in mapping[e] /\ remote[e] % 2 = 1}]
  BY DEF CodedSymbol, here
<1> QED  BY <1>2, <1>3 DEF CellOf, MappedTo

LEMMA SubtractedTypes ==
  ASSUME TypeInv, NEW cell, NEW j, CellOf(cell, j)
  PROVE  LET mine == {e \in localSet : j \in mapping[e]}
             c == Subtracted(cell, j)
         IN  /\ CellOf(c, j) /\ c.count = cell.count - Cardinality(mine)
             /\ c.members = (cell.members \ mine) \cup (mine \ cell.members)
<1> DEFINE mine == {e \in localSet : j \in mapping[e]}
<1>1. mine \in SUBSET Elem /\ mine \in SUBSET MappedTo(j)
  BY DEF TypeInv, MappedTo
<1>2. Subtracted(cell, j) = Fold(cell, -Cardinality(mine), mine)
  BY DEF Subtracted
<1> HIDE DEF mine
<1>3. -Cardinality(mine) \in Int /\ Cardinality(mine) \in Nat
  BY <1>1, FiniteElements
<1>4. cell.count \in Int /\ cell.members \in SUBSET Elem /\ cell.members \in SUBSET MappedTo(j)
  BY DEF CellOf, MappedTo
<1>5. /\ Subtracted(cell, j).count = cell.count + (-Cardinality(mine))
      /\ Subtracted(cell, j).members = (cell.members \ mine) \cup (mine \ cell.members)
  BY <1>1, <1>2, <1>3, <1>4, FoldTypes
<1> QED  BY <1>1, <1>3, <1>4, <1>5 DEF CellOf, mine

\* The elements that are due an odd number of times.
Odd(window, j) ==
  {e \in Elem : Cardinality({k \in Due(window, j) : window[k].element = e}) % 2 = 1}

LEMMA AppliedTypes ==
  ASSUME TypeInv, NEW w \in Windows, NextsMapped(w), NEW j \in 0..(MaxCells - 1),
         NEW dir \in {1, -1}, NEW cell, CellOf(cell, j)
  PROVE  /\ CellOf(Applied(cell, w, j, dir), j)
         /\ Applied(cell, w, j, dir).count = cell.count + dir * Cardinality(Due(w, j))
         /\ Applied(cell, w, j, dir).members
              = (cell.members \ Odd(w, j)) \cup (Odd(w, j) \ cell.members)
<1> DEFINE times(e) == Cardinality({k \in Due(w, j) : w[k].element = e})
           odd == {e \in Elem : times(e) % 2 = 1}
           many == Cardinality(Due(w, j))
<1>1. Applied(cell, w, j, dir) = Fold(cell, dir * many, odd) /\ odd = Odd(w, j)
  BY DEF Applied, Odd
<1>2. IsFiniteSet(Due(w, j))
  <2>1. Len(w) \in Nat /\ DOMAIN w = 1..Len(w)
    BY DEF Windows
  <2>2. IsFiniteSet(DOMAIN w)
    BY <2>1, FiniteRange
  <2>3. Due(w, j) \in SUBSET DOMAIN w
    BY DEF Due
  <2> QED  BY <2>2, <2>3, FS_Subset
<1>3. many \in Nat
  BY <1>2, FS_CardinalityType
<1>4. \A e \in Elem : times(e) % 2 = 1 => j \in mapping[e]
  <2> SUFFICES ASSUME NEW e \in Elem, j \notin mapping[e] PROVE times(e) % 2 # 1
    OBVIOUS
  <2>1. ASSUME NEW k \in Due(w, j) PROVE w[k].element # e
    <3>1. k \in DOMAIN w /\ w[k].next = j
      BY <2>1 DEF Due
    <3>2. j # MaxCells
      BY BoundTypes
    <3> QED  BY <3>1, <3>2 DEF NextsMapped
  <2>2. {k \in Due(w, j) : w[k].element = e} = {}
    BY <2>1
  <2>3. times(e) = 0
    BY <2>2, FS_EmptySet
  <2> HIDE DEF times
  <2> QED  BY <2>3
<1>5. odd \in SUBSET Elem /\ odd \in SUBSET MappedTo(j)
  BY <1>4 DEF MappedTo
<1> HIDE DEF odd, many
<1>6. dir * many \in Int
  BY <1>3
<1>7. cell.count \in Int /\ cell.members \in SUBSET Elem /\ cell.members \in SUBSET MappedTo(j)
  BY DEF CellOf, MappedTo
<1>8. /\ Applied(cell, w, j, dir).count = cell.count + dir * many
      /\ Applied(cell, w, j, dir).members = (cell.members \ odd) \cup (odd \ cell.members)
  BY <1>1, <1>5, <1>6, <1>7, FoldTypes
<1> QED  BY <1>1, <1>5, <1>6, <1>7, <1>8 DEF CellOf, many

LEMMA AdvancedTypes ==
  ASSUME TypeInv, NEW w \in Windows, NextsMapped(w), NEW j \in 0..(MaxCells - 1)
  PROVE  LET v == Advanced(w, j)
         IN  /\ v \in Windows /\ NextsMapped(v) /\ DOMAIN v = DOMAIN w
             /\ \A k \in DOMAIN w :
                  /\ v[k].element = w[k].element
                  /\ k \notin Due(w, j) => v[k].next = w[k].next
                  /\ k \in Due(w, j) => v[k].next = Unheld(w[k].element, 0..j)
<1> DEFINE v == Advanced(w, j)
<1>1. v = [k \in DOMAIN w |->
             IF k \in Due(w, j)
             THEN [w[k] EXCEPT !.next = Unheld(w[k].element, 0..j)] ELSE w[k]]
  BY DEF Advanced
<1> HIDE DEF v
<1>2. /\ Len(w) \in Nat /\ DOMAIN w = 1..Len(w)
      /\ \A k \in DOMAIN w : w[k] \in [element : Elem, next : 0..MaxCells]
  <2>1. w \in Seq(EntrySet)
    BY DEF Windows, EntrySet
  <2>2. Len(w) \in Nat /\ DOMAIN w = 1..Len(w) /\ \A k \in DOMAIN w : w[k] \in EntrySet
    BY <2>1
  <2> QED  BY <2>2 DEF EntrySet
<1>3. 0..j \in SUBSET (0..(MaxCells - 1))
  BY BoundTypes
<1>4. ASSUME NEW k \in DOMAIN w
      PROVE  /\ Unheld(w[k].element, 0..j) \in mapping[w[k].element] \cup {MaxCells}
             /\ Unheld(w[k].element, 0..j) \in 0..MaxCells
  BY <1>2, <1>3, <1>4, UnheldFacts
<1>5. ASSUME NEW k \in DOMAIN w
      PROVE  /\ v[k] \in [element : Elem, next : 0..MaxCells]
             /\ v[k].element = w[k].element
             /\ k \notin Due(w, j) => v[k].next = w[k].next
             /\ k \in Due(w, j) => v[k].next = Unheld(w[k].element, 0..j)
  BY <1>1, <1>2, <1>4, <1>5
<1>6. DOMAIN v = DOMAIN w
  BY <1>1
<1>7. v \in Windows
  <2>1. v \in [1..Len(w) -> [element : Elem, next : 0..MaxCells]]
    BY <1>1, <1>2, <1>5
  <2> QED  BY <1>2, <2>1 DEF Windows
<1>8. NextsMapped(v)
  BY <1>4, <1>5, <1>6 DEF NextsMapped
<1> QED  BY <1>5, <1>6, <1>7, <1>8 DEF v

\* What AddCodedSymbol does, all constants.
LEMMA AddFacts ==
  ASSUME BaseInv, NEW j \in CellIndex, AddCodedSymbol(CodedSymbol(j))
  PROVE  /\ j = Len(cs) /\ j \in 0..(MaxCells - 1) /\ stage = "pull" /\ ~failed
         /\ CellOf(NewCell(j), j)
         /\ cs' = Append(cs, NewCell(j)) /\ cs' \in Seq(DecoderCell) /\ Len(cs') = j + 1
         /\ Held' = Held \cup {j} /\ j \notin Held
         /\ cs'[j + 1] = NewCell(j) /\ \A i \in Held : cs'[i + 1] = cs[i + 1]
         /\ remaining' = remaining + Counted(NewCell(j))
         /\ decodable' = IF cellIsPure(NewCell(j)) THEN <<{j}>> ELSE <<>>
         /\ remoteRecovered' = Advanced(remoteRecovered, j)
         /\ localRecovered' = Advanced(localRecovered, j)
         /\ stage' = "peel" /\ UNCHANGED <<mapping, localSet, remote, failed, work>>
<1>1. TypeInv /\ MappedInv /\ QueueInv
  BY DEF BaseInv
<1>2. CodedSymbol(j).index = j /\ CellOf(CodedSymbol(j), j)
  BY <1>1, SymbolTypes
<1>3. j = Len(cs)
  BY <1>2 DEF AddCodedSymbol, InSlot
<1>4. j \in 0..(MaxCells - 1) /\ j \in Nat
  BY BoundTypes DEF CellIndex
<1>5. /\ cs' = Append(cs, NewCell(j)) /\ remaining' = remaining + Counted(NewCell(j))
      /\ decodable' = IF cellIsPure(NewCell(j)) THEN <<{j}>> ELSE <<>>
      /\ remoteRecovered' = Advanced(remoteRecovered, j)
      /\ localRecovered' = Advanced(localRecovered, j)
      /\ stage = "pull" /\ stage' = "peel" /\ UNCHANGED <<mapping, localSet, remote, failed, work>>
  BY <1>3 DEF AddCodedSymbol, NewCell, ribltInput
<1>6. CellOf(NewCell(j), j)
  <2>1. /\ remoteRecovered \in Windows /\ localRecovered \in Windows
        /\ NextsMapped(remoteRecovered) /\ NextsMapped(localRecovered)
    BY <1>1 DEF TypeInv, MappedInv, NextsMapped
  <2>2. CellOf(Subtracted(CodedSymbol(j), j), j)
    BY <1>1, <1>2, SubtractedTypes
  <2>3. CellOf(Applied(Subtracted(CodedSymbol(j), j), remoteRecovered, j, -1), j)
    BY <1>1, <1>4, <2>1, <2>2, AppliedTypes
  <2> QED  BY <1>1, <1>4, <2>1, <2>3, AppliedTypes DEF NewCell
<1>7. NewCell(j) \in DecoderCell
  <2>1. NewCell(j) = [count |-> NewCell(j).count, members |-> NewCell(j).members]
    BY DEF NewCell, Applied, Fold
  <2>2. NewCell(j).count \in Int /\ NewCell(j).members \in SUBSET Elem
    BY <1>6 DEF CellOf, MappedTo
  <2> HIDE DEF NewCell
  <2> QED  BY <2>1, <2>2 DEF DecoderCell
<1>8. /\ cs' \in Seq(DecoderCell) /\ Len(cs') = j + 1
      /\ cs'[j + 1] = NewCell(j) /\ \A k \in 1..j : cs'[k] = cs[k]
  <2> DEFINE c == NewCell(j)
  <2>1. cs \in Seq(DecoderCell) /\ c \in DecoderCell /\ cs' = Append(cs, c) /\ Len(cs) = j
    BY <1>1, <1>3, <1>5, <1>7 DEF TypeInv
  <2> HIDE DEF c
  <2>2. /\ cs' \in Seq(DecoderCell) /\ Len(cs') = j + 1
        /\ cs'[j + 1] = c /\ \A k \in 1..j : cs'[k] = cs[k]
    BY <1>4, <2>1
  <2> QED  BY <2>2 DEF c
<1>9. Held = 0..(j - 1) /\ Held' = 0..j
  BY <1>3, <1>4, <1>8 DEF Held
<1>10. Held' = Held \cup {j} /\ j \notin Held
  BY <1>4, <1>9
<1>11. \A i \in Held : cs'[i + 1] = cs[i + 1]
  <2>1. \A i \in Held : i + 1 \in 1..j
    BY <1>4, <1>9
  <2> QED  BY <1>8, <2>1
<1>12. ~failed
  BY <1>1, <1>5 DEF QueueInv
<1> QED  BY <1>3, <1>4, <1>5, <1>6, <1>8, <1>10, <1>11, <1>12

LEMMA AddBase ==
  ASSUME BaseInv, NEW j \in CellIndex, AddCodedSymbol(CodedSymbol(j))
  PROVE  BaseInv'
<1> DEFINE cell == NewCell(j)
<1>1. TypeInv /\ MappedInv /\ QueueInv
  BY DEF BaseInv
<1>2. /\ j = Len(cs) /\ j \in 0..(MaxCells - 1) /\ stage = "pull" /\ ~failed
      /\ CellOf(cell, j) /\ cs' \in Seq(DecoderCell) /\ Len(cs') = j + 1
      /\ Held' = Held \cup {j} /\ j \notin Held
      /\ cs'[j + 1] = cell /\ \A i \in Held : cs'[i + 1] = cs[i + 1]
      /\ decodable' = IF cellIsPure(cell) THEN <<{j}>> ELSE <<>>
      /\ remoteRecovered' = Advanced(remoteRecovered, j)
      /\ localRecovered' = Advanced(localRecovered, j)
      /\ stage' = "peel" /\ UNCHANGED <<mapping, localSet, remote, failed, work>>
  BY AddFacts
<1> HIDE DEF cell
<1>3. /\ remoteRecovered' \in Windows /\ localRecovered' \in Windows
      /\ NextsMapped(remoteRecovered') /\ NextsMapped(localRecovered')
  <2>1. /\ remoteRecovered \in Windows /\ localRecovered \in Windows
        /\ NextsMapped(remoteRecovered) /\ NextsMapped(localRecovered)
    BY <1>1 DEF TypeInv, MappedInv, NextsMapped
  <2> QED  BY <1>1, <1>2, <2>1, AdvancedTypes
<1>4. decodable' \in Queues' /\ (cellIsPure(cell) => Queued(decodable', j))
  <2> DEFINE S == (SUBSET Held') \ {{}}
  <2>1. {j} \in S
    BY <1>2
  <2> HIDE DEF S
  <2>2. CASE cellIsPure(cell)
    <3>1. decodable' = <<{j}>>
      BY <1>2, <2>2
    <3>2. decodable' \in Seq(S) /\ 1 \in DOMAIN decodable' /\ decodable'[1] = {j}
      BY <2>1, <3>1
    <3> QED  BY <3>2 DEF Queues, S, Queued
  <2>3. CASE ~cellIsPure(cell)
    <3>1. decodable' \in Seq(S)
      BY <1>2, <2>3
    <3> QED  BY <2>3, <3>1 DEF Queues, S
  <2> QED  BY <2>2, <2>3
<1>5. TypeInv'
  <2>1. Len(cs') <= MaxCells
    BY <1>2, BoundTypes
  <2> QED  BY <1>1, <1>2, <1>3, <1>4, <2>1 DEF TypeInv, Windows, Mappings
<1>6. MappedInv'
  <2>1. ASSUME NEW i \in Held', NEW e \in cs'[i + 1].members PROVE i \in mapping[e]
    <3>1. CASE i = j
      BY <1>2, <2>1, <3>1 DEF CellOf, MappedTo
    <3>2. CASE i \in Held
      BY <1>1, <1>2, <2>1, <3>2 DEF MappedInv
    <3> QED  BY <1>2, <3>1, <3>2
  <2> QED  BY <1>2, <1>3, <2>1 DEF MappedInv, NextsMapped
<1>7. QueueInv'
  <2>1. ASSUME NEW k \in DOMAIN cs', cellIsPure(cs'[k]) PROVE Queued(decodable', k - 1)
    <3>1. k \in 1..(j + 1) /\ DOMAIN cs = 1..j /\ j \in Nat
      BY <1>1, <1>2, <2>1, HeldFacts
    <3>2. CASE k = j + 1
      <4>1. k - 1 = j
        BY <3>1, <3>2
      <4> QED  BY <1>2, <1>4, <2>1, <3>2, <4>1
    <3>3. CASE k # j + 1
      <4>1. k \in DOMAIN cs
        BY <3>1, <3>3
      <4>2. k - 1 \in Held /\ k - 1 + 1 = k
        BY <1>1, <4>1, HeldFacts
      <4>3. cs'[k - 1 + 1] = cs[k - 1 + 1]
        BY <1>2, <4>2
      <4>4. cellIsPure(cs[k])
        BY <2>1, <4>2, <4>3
      <4> QED  BY <1>1, <1>2, <4>1, <4>4 DEF QueueInv
    <3> QED  BY <3>2, <3>3
  <2> QED  BY <1>2, <2>1 DEF QueueInv
<1> QED  BY <1>5, <1>6, <1>7 DEF BaseInv

-----------------------------------------------------------------------------
(* The other steps.                                                        *)

LEMMA CellsKept ==
  ASSUME UNCHANGED <<ribltInput, cs, recovered>>
  PROVE  /\ Held' = Held /\ WorkBudget' = WorkBudget /\ Queues' = Queues
         /\ UNCHANGED <<mapping, localSet, remote, remoteRecovered, localRecovered>>
         /\ MappedInv' = MappedInv
BY DEF ribltInput, recovered, Held, WorkBudget, Queues, MappedInv

\* The steps that neither add a symbol nor peel.
OtherStep ==
  \/ GiveUp
  \/ EndOfStream
  \/ \E j \in CellIndex : Desync(CodedSymbol(j))
  \/ OverBudget
  \/ Stale
  \/ EndPeel
  \/ UNCHANGED ribltVars

LEMMA OtherKeeps ==
  ASSUME OtherStep
  PROVE  UNCHANGED <<ribltInput, cs, remaining, recovered>>
BY DEF OtherStep, GiveUp, EndOfStream, Desync, OverBudget, Stale, EndPeel, ribltVars

LEMMA OtherBase ==
  ASSUME BaseInv, OtherStep
  PROVE  BaseInv'
<1>1. TypeInv /\ MappedInv /\ QueueInv
  BY DEF BaseInv
<1>2. /\ UNCHANGED <<cs, mapping, localSet, remote, remoteRecovered, localRecovered>>
      /\ Held' = Held /\ WorkBudget' = WorkBudget /\ Queues' = Queues /\ MappedInv'
  BY <1>1, OtherKeeps, CellsKept
<1>3. <<>> \in Queues
  BY DEF Queues
<1>4. ASSUME decodable' \in Queues, failed' \in BOOLEAN, work' \in Nat,
             stage' \in {"pull", "peel", "done"}, QueueInv'
      PROVE  BaseInv'
  BY <1>1, <1>2, <1>4 DEF BaseInv, TypeInv, Windows, Mappings
<1>5. CASE GiveUp
  BY <1>1, <1>4, <1>5 DEF GiveUp, TypeInv, QueueInv
<1>6. CASE EndOfStream
  BY <1>1, <1>4, <1>6 DEF EndOfStream, TypeInv, QueueInv
<1>7. CASE \E j \in CellIndex : Desync(CodedSymbol(j))
  BY <1>1, <1>4, <1>7 DEF Desync, TypeInv, QueueInv
<1>8. CASE OverBudget
  <2>1. /\ stage = "peel" /\ stage' = "peel" /\ failed' = TRUE /\ decodable' = <<>>
        /\ work' = work + 1
    BY <1>8 DEF OverBudget
  <2> QED  BY <1>1, <1>3, <1>4, <2>1 DEF TypeInv, QueueInv
<1>9. CASE Stale
  <2>1. /\ stage = "peel" /\ stage' = "peel" /\ UNCHANGED failed /\ decodable # <<>>
        /\ ~cellIsPure(cs[idx + 1]) /\ work' = work + 1 /\ decodable' = Later
        /\ work + 1 <= WorkBudget
    BY <1>9 DEF Stale
  <2>2. /\ Later \in Queues
        /\ \A i \in Held : Queued(decodable, i) /\ i # idx => Queued(Later, i)
    BY <1>1, <2>1, LaterQueue
  <2>3. work \in Nat /\ WorkBudget \in Nat
    BY <1>1, HeldFacts DEF TypeInv
  <2>4. ~failed
    BY <1>1, <2>1, <2>3 DEF QueueInv
  <2>5. ASSUME NEW k \in DOMAIN cs, cellIsPure(cs[k]) PROVE Queued(decodable', k - 1)
    <3>1. k - 1 \in Held /\ k - 1 + 1 = k
      BY <1>1, HeldFacts
    <3>2. k - 1 # idx
      BY <2>1, <2>5, <3>1
    <3> QED  BY <1>1, <2>1, <2>2, <2>4, <2>5, <3>1, <3>2 DEF QueueInv
  <2>6. QueueInv'
    BY <1>2, <2>1, <2>4, <2>5 DEF QueueInv
  <2> QED  BY <1>1, <1>4, <2>1, <2>2, <2>3, <2>6 DEF TypeInv
<1>10. CASE EndPeel
  <2>1. /\ stage = "peel" /\ decodable = <<>> /\ UNCHANGED <<decodable, failed, work>>
        /\ stage' = IF failed \/ isDecoded THEN "done" ELSE "pull"
    BY <1>10 DEF EndPeel
  <2>2. \A k : ~Queued(decodable, k)
    BY <2>1 DEF Queued
  <2>3. ~failed => \A k \in DOMAIN cs : ~cellIsPure(cs[k])
    BY <1>1, <2>1, <2>2 DEF QueueInv
  <2>4. QueueInv'
    BY <1>2, <2>1, <2>3 DEF QueueInv
  <2> QED  BY <1>1, <1>4, <2>1, <2>4 DEF TypeInv
<1>11. CASE UNCHANGED ribltVars
  <2>1. UNCHANGED <<cs, decodable, failed, work, stage>>
    BY <1>11 DEF ribltVars
  <2>2. QueueInv'
    BY <1>1, <1>2, <2>1 DEF QueueInv
  <2> QED  BY <1>1, <1>4, <2>1, <2>2 DEF TypeInv
<1> QED  BY <1>5, <1>6, <1>7, <1>8, <1>9, <1>10, <1>11 DEF OtherStep

LEMMA BaseStep == ASSUME BaseInv, [RibltNext]_ribltVars PROVE BaseInv'
<1>1. CASE OtherStep
  BY <1>1, OtherBase
<1>2. ASSUME NEW j \in CellIndex, AddCodedSymbol(CodedSymbol(j)) PROVE BaseInv'
  BY <1>2, AddBase
<1>3. CASE PeelRemote
  BY <1>3, PeelBase DEF PeelRemote
<1>4. CASE PeelLocal
  BY <1>4, PeelBase DEF PeelLocal
<1> QED  BY <1>1, <1>2, <1>3, <1>4 DEF RibltNext, OtherStep

LEMMA BaseStarts == ASSUME RibltInit PROVE BaseInv
<1>1. /\ mapping \in [Elem -> Mappings] /\ localSet \in SUBSET Elem
      /\ remote \in [Elem -> 0..MaxCopies] /\ cs = <<>> /\ decodable = <<>> /\ failed = FALSE
      /\ work = 0 /\ remoteRecovered = <<>> /\ localRecovered = <<>> /\ stage = "pull"
  BY DEF RibltInit
<1>2. Len(cs) = 0 /\ DOMAIN cs = {}
  BY <1>1
<1>3. Held = {}
  BY <1>2 DEF Held
<1>4. TypeInv
  <2>1. cs \in Seq(DecoderCell) /\ decodable \in Queues
    BY <1>1 DEF Queues
  <2>2. remoteRecovered \in Windows /\ localRecovered \in Windows
    BY <1>1 DEF Windows
  <2>3. Len(cs) <= MaxCells /\ work \in Nat
    BY <1>1, <1>2, BoundTypes
  <2>4. failed \in BOOLEAN /\ stage \in {"pull", "peel", "done"}
    BY <1>1
  <2>5. /\ mapping \in [Elem -> Mappings] /\ localSet \in SUBSET Elem
        /\ remote \in [Elem -> 0..MaxCopies]
    BY <1>1
  <2> QED  BY <2>1, <2>2, <2>3, <2>4, <2>5 DEF TypeInv
<1>5. MappedInv
  BY <1>1, <1>3 DEF MappedInv
<1>6. QueueInv
  BY <1>1, <1>2 DEF QueueInv
<1> QED  BY <1>4, <1>5, <1>6 DEF BaseInv

THEOREM RibltBase == RibltSpec => []BaseInv
BY BaseStarts, BaseStep, PTL DEF RibltSpec

\* The decoder never asks for another symbol while a cell it holds gives an element:
\* every cell that becomes pure, when it comes or when another is peeled, is in the
\* queue until it is looked at, however stale the entries before it, unless the
\* budget ends everything (index.js:260-289, 308).
THEOREM NothingLeftToPeel == RibltSpec => []PeelComplete
<1>1. BaseInv => PeelComplete
  BY DEF BaseInv, QueueInv, PeelComplete
<1> QED  BY <1>1, RibltBase, PTL

-----------------------------------------------------------------------------
(* What the cells hold, if no element is given to the encoder twice.       *)

\* Element e was taken out of cell i when it was recovered, or as the cell came.
Removed(window, e, i) == \E k \in DOMAIN window : window[k].element = e /\ i < window[k].next

Left(side, map, window, i) == {e \in side : i \in map[e] /\ ~Removed(window, e, i)}

\* A cell is what is left of the difference, remote elements for +1, local ones for -1.
CellsInv ==
  \A i \in Held :
    LET theirs == Left(RemoteOnly, mapping, remoteRecovered, i)
        mine == Left(LocalOnly, mapping, localRecovered, i)
    IN  /\ cs[i + 1].members = theirs \cup mine
        /\ cs[i + 1].count = Cardinality(theirs) - Cardinality(mine)

\* The recovered elements are of their side, each once.
Distinct(window, side) ==
  /\ \A k \in DOMAIN window : window[k].element \in side
  /\ \A k, l \in DOMAIN window : window[k].element = window[l].element => k = l

\* They go on at the first of their cells from cell n on.
GoesOn(window, map, n) ==
  \A k \in DOMAIN window :
    /\ window[k].next >= n
    /\ \A i \in map[window[k].element] : i < window[k].next => i < n

Filled == {i \in Held : ~cellIsEmpty(cs[i + 1])}

\* Unless the budget ended while an element was taken out, all go on after the cells held.
DiffInv ==
  /\ CellsInv
  /\ Distinct(remoteRecovered, RemoteOnly) /\ Distinct(localRecovered, LocalOnly)
  /\ ~failed => /\ GoesOn(remoteRecovered, mapping, Len(cs))
                /\ GoesOn(localRecovered, mapping, Len(cs))
  /\ remaining = Cardinality(Filled)
  /\ stage = "peel" => Len(cs) >= 1
  /\ stage = "done" /\ ~failed => Len(cs) >= 1

LEMMA Sides ==
  ASSUME TypeInv
  PROVE  /\ RemoteOnly \in SUBSET Elem /\ LocalOnly \in SUBSET Elem
         /\ RemoteOnly \cap LocalOnly = {}
         /\ \A w, i : /\ Left(RemoteOnly, mapping, w, i) \in SUBSET Elem
                      /\ Left(LocalOnly, mapping, w, i) \in SUBSET Elem
                      /\ Left(RemoteOnly, mapping, w, i) \cap Left(LocalOnly, mapping, w, i) = {}
<1>1. RemoteOnly \in SUBSET Elem /\ LocalOnly \in SUBSET Elem
  BY DEF TypeInv, RemoteOnly, LocalOnly
<1>2. RemoteOnly \cap LocalOnly = {}
  BY DEF RemoteOnly, LocalOnly
<1> QED  BY <1>1, <1>2 DEF Left

\* Taking one element out of its side, and of the cell.
LEMMA TakenOut ==
  ASSUME NEW mine \in SUBSET Elem, NEW theirs \in SUBSET Elem, mine \cap theirs = {},
         NEW e, NEW dir, NEW cnt, NEW mem,
         mem = theirs \cup mine, cnt = Cardinality(theirs) - Cardinality(mine),
         \/ dir = -1 /\ e \in theirs
         \/ dir = 1 /\ e \in mine
  PROVE  /\ (mem \ {e}) \cup ({e} \ mem) = (theirs \ {e}) \cup (mine \ {e})
         /\ cnt + dir = Cardinality(theirs \ {e}) - Cardinality(mine \ {e})
<1>1. /\ IsFiniteSet(mine) /\ Cardinality(mine) \in Nat
      /\ IsFiniteSet(theirs) /\ Cardinality(theirs) \in Nat
  BY FiniteElements
<1>4. CASE dir = -1
  <2>1. e \in theirs /\ mine \ {e} = mine
    BY <1>4
  <2>2. Cardinality(theirs \ {e}) = Cardinality(theirs) - 1
    BY <1>1, <2>1, FS_RemoveElement
  <2>3. Cardinality(mine \ {e}) = Cardinality(mine)
    BY <2>1
  <2>4. cnt + dir = Cardinality(theirs \ {e}) - Cardinality(mine \ {e})
    <3> DEFINE a == Cardinality(theirs)
               b == Cardinality(mine)
               aa == Cardinality(theirs \ {e})
               bb == Cardinality(mine \ {e})
    <3>1. a \in Nat /\ b \in Nat /\ cnt = a - b
      BY <1>1
    <3>2. aa = a + (IF dir = -1 THEN -1 ELSE 0) /\ bb = b - (IF dir = 1 THEN 1 ELSE 0)
      BY <3>1, <1>4, <2>2, <2>3
    <3> HIDE DEF a, b, aa, bb
    <3>3. cnt + dir = aa - bb
      BY <3>1, <3>2, <1>4
    <3> QED  BY <3>3 DEF aa, bb
  <2>5. (mem \ {e}) \cup ({e} \ mem) = (theirs \ {e}) \cup (mine \ {e})
    BY <2>1
  <2> QED  BY <2>4, <2>5
<1>5. CASE dir = 1
  <2>1. e \in mine /\ theirs \ {e} = theirs
    BY <1>5
  <2>2. Cardinality(mine \ {e}) = Cardinality(mine) - 1
    BY <1>1, <2>1, FS_RemoveElement
  <2>3. Cardinality(theirs \ {e}) = Cardinality(theirs)
    BY <2>1
  <2>4. cnt + dir = Cardinality(theirs \ {e}) - Cardinality(mine \ {e})
    <3> DEFINE a == Cardinality(theirs)
               b == Cardinality(mine)
               aa == Cardinality(theirs \ {e})
               bb == Cardinality(mine \ {e})
    <3>1. a \in Nat /\ b \in Nat /\ cnt = a - b
      BY <1>1
    <3>2. aa = a + (IF dir = -1 THEN -1 ELSE 0) /\ bb = b - (IF dir = 1 THEN 1 ELSE 0)
      BY <3>1, <1>5, <2>2, <2>3
    <3> HIDE DEF a, b, aa, bb
    <3>3. cnt + dir = aa - bb
      BY <3>1, <3>2, <1>5
    <3> QED  BY <3>3 DEF aa, bb
  <2>5. (mem \ {e}) \cup ({e} \ mem) = (theirs \ {e}) \cup (mine \ {e})
    BY <2>1
  <2> QED  BY <2>4, <2>5
<1> QED  BY <1>4, <1>5

\* The element of a pure cell is of the side its count says, and was not recovered.
LEMMA PureIs ==
  ASSUME BaseInv, DiffInv, NEW dir \in {1, -1}, Pure(dir)
  PROVE  /\ dir = -1 => /\ PureElement \in RemoteOnly
                        /\ \A k \in DOMAIN remoteRecovered :
                             remoteRecovered[k].element # PureElement
         /\ dir = 1 => /\ PureElement \in LocalOnly
                       /\ \A k \in DOMAIN localRecovered :
                            localRecovered[k].element # PureElement
<1> DEFINE theirs == Left(RemoteOnly, mapping, remoteRecovered, idx)
           mine == Left(LocalOnly, mapping, localRecovered, idx)
           e == PureElement
<1>1. /\ TypeInv /\ ~failed /\ idx \in Held /\ e \in Elem /\ idx \in mapping[e]
      /\ cs[idx + 1].count = -dir /\ cs[idx + 1].members = {e}
  BY PureFacts DEF BaseInv
<1>2. theirs \cup mine = {e} /\ -dir = Cardinality(theirs) - Cardinality(mine)
  BY <1>1 DEF DiffInv, CellsInv
<1>3. theirs \cap mine = {} /\ theirs \in SUBSET Elem /\ mine \in SUBSET Elem
  <2>1. /\ RemoteOnly \in SUBSET Elem /\ LocalOnly \in SUBSET Elem
        /\ RemoteOnly \cap LocalOnly = {}
    BY <1>1, Sides
  <2> QED  BY <2>1 DEF Left
<1>4. /\ \A x \in theirs : x \in RemoteOnly /\ ~Removed(remoteRecovered, x, idx)
      /\ \A x \in mine : x \in LocalOnly /\ ~Removed(localRecovered, x, idx)
  BY DEF Left
<1> HIDE DEF theirs, mine, e
<1>5. Cardinality({}) = 0 /\ Cardinality({e}) = 1
  BY FS_EmptySet, FS_Singleton
<1>6. dir = -1 => e \in theirs
  <2> SUFFICES ASSUME dir = -1, e \notin theirs PROVE FALSE
    OBVIOUS
  <2>1. theirs = {} /\ mine = {e}
    BY <1>2
  <2> QED  BY <1>2, <1>5, <2>1
<1>7. dir = 1 => e \in mine
  <2> SUFFICES ASSUME dir = 1, e \notin mine PROVE FALSE
    OBVIOUS
  <2>1. mine = {} /\ theirs = {e}
    BY <1>2
  <2> QED  BY <1>2, <1>5, <2>1
<1>8. /\ GoesOn(remoteRecovered, mapping, Len(cs)) /\ GoesOn(localRecovered, mapping, Len(cs))
      /\ remoteRecovered \in Windows /\ localRecovered \in Windows
  BY <1>1 DEF DiffInv, TypeInv
<1>9. ASSUME NEW w \in Windows, GoesOn(w, mapping, Len(cs)), NEW x, ~Removed(w, x, idx)
      PROVE  \A k \in DOMAIN w : w[k].element # x
  <2>1. \A k \in DOMAIN w : idx < w[k].next
    <3>1. idx \in Nat /\ Len(cs) \in Nat /\ idx < Len(cs)
      BY <1>1, HeldFacts DEF Held
    <3> SUFFICES ASSUME NEW k \in DOMAIN w PROVE idx < w[k].next
      OBVIOUS
    <3>2. w[k].next >= Len(cs)
      BY <1>9 DEF GoesOn
    <3>3. w[k].next \in Nat
      <4>1. w \in Seq(EntrySet)
        BY DEF Windows, EntrySet
      <4>2. w[k] \in EntrySet
        BY <4>1
      <4> QED  BY <4>2, BoundTypes DEF EntrySet
    <3> QED  BY <3>1, <3>2, <3>3
  <2> QED  BY <1>9, <2>1 DEF Removed
<1> QED  BY <1>4, <1>6, <1>7, <1>8, <1>9 DEF e

\* A recovered element leaves the cells it was taken out of, and no other.
LEMMA WindowGrown ==
  ASSUME TypeInv, work + 1 <= WorkBudget, NEW side \in SUBSET Elem, NEW e \in side,
         NEW w \in Windows, \A k \in DOMAIN w : w[k].element # e
  PROVE  LET v == Append(w, Entry(e))
         IN  /\ \A i : Left(side, mapping, v, i) =
                  IF i \in Touched(e) THEN Left(side, mapping, w, i) \ {e}
                  ELSE Left(side, mapping, w, i)
             /\ \A i \in Touched(e) : e \in Left(side, mapping, w, i)
             /\ Distinct(w, side) => Distinct(v, side)
             /\ Touched(e) = Mapped(e) /\ GoesOn(w, mapping, Len(cs))
                  => GoesOn(v, mapping, Len(cs))
<1> DEFINE x == Entry(e)
           v == Append(w, x)
           last == Len(w) + 1
           next == Unheld(e, Touched(e))
<1>1. e \in Elem
  OBVIOUS
<1>2. /\ x \in EntrySet /\ x.element = e /\ x.next = next /\ next \in mapping[e] \cup {MaxCells}
  BY <1>1, EntryFacts
<1>3. /\ Touched(e) \in SUBSET Mapped(e)
      /\ \A i \in mapping[e] : i \in Touched(e) <=> i < next
  BY <1>1, TouchedFacts
<1> HIDE DEF x, next
<1>4. /\ v \in Windows /\ last \in DOMAIN v /\ last \notin DOMAIN w /\ v[last] = x
      /\ \A k \in DOMAIN w : v[k] = w[k] /\ k \in DOMAIN v
      /\ \A k \in DOMAIN v : k \in DOMAIN w \/ k = last
  <2>1. LET y == Append(w, x)
        IN  /\ y \in Windows /\ Len(y) = Len(w) + 1 /\ Len(w) \in Nat
            /\ DOMAIN y = 1..(Len(w) + 1) /\ DOMAIN w = 1..Len(w) /\ y[Len(w) + 1] = x
            /\ \A k \in DOMAIN w : y[k] = w[k] /\ k \in DOMAIN y
            /\ \A k \in DOMAIN y : k \notin DOMAIN w => k = Len(w) + 1
    BY <1>2, GrownWindow, Zenon
  <2> HIDE DEF v
  <2>2. /\ v \in Windows /\ Len(v) = Len(w) + 1 /\ Len(w) \in Nat
        /\ DOMAIN v = 1..(Len(w) + 1) /\ DOMAIN w = 1..Len(w) /\ v[Len(w) + 1] = x
        /\ \A k \in DOMAIN w : v[k] = w[k] /\ k \in DOMAIN v
        /\ \A k \in DOMAIN v : k \notin DOMAIN w => k = Len(w) + 1
    BY <2>1, Zenon DEF v
  <2> QED  BY <2>2
<1> HIDE DEF v, last
<1>5. \A y, i : Removed(v, y, i) <=> Removed(w, y, i) \/ (y = e /\ i < next)
  BY <1>2, <1>4 DEF Removed
<1>6. \A i : ~Removed(w, e, i)
  BY DEF Removed
<1>7. \A i \in Touched(e) : e \in Left(side, mapping, w, i)
  BY <1>3, <1>6 DEF Left, Mapped
<1>8. ASSUME NEW i
      PROVE  Left(side, mapping, v, i) =
               IF i \in Touched(e) THEN Left(side, mapping, w, i) \ {e}
               ELSE Left(side, mapping, w, i)
  <2>1. ASSUME NEW y \in side, i \in mapping[y]
        PROVE  Removed(v, y, i) <=> Removed(w, y, i) \/ (y = e /\ i \in Touched(e))
    BY <1>3, <1>5, <2>1
  <2>2. \A y : y \in Left(side, mapping, v, i) <=>
                 y \in Left(side, mapping, w, i) /\ ~(y = e /\ i \in Touched(e))
    BY <2>1 DEF Left
  <2> QED  BY <2>2
<1>9. Distinct(w, side) => Distinct(v, side)
  BY <1>2, <1>4 DEF Distinct
<1>10. Touched(e) = Mapped(e) /\ GoesOn(w, mapping, Len(cs)) => GoesOn(v, mapping, Len(cs))
  <2> SUFFICES ASSUME Touched(e) = Mapped(e), GoesOn(w, mapping, Len(cs)), NEW k \in DOMAIN v
               PROVE  /\ v[k].next >= Len(cs)
                      /\ \A i \in mapping[v[k].element] : i < v[k].next => i < Len(cs)
    BY DEF GoesOn
  <2>1. CASE k \in DOMAIN w
    BY <1>4, <2>1 DEF GoesOn
  <2>2. CASE k = last
    <3>1. v[k].element = e /\ v[k].next = next
      BY <1>2, <1>4, <2>2
    <3>2. /\ Len(cs) \in Nat /\ Len(cs) <= MaxCells /\ MaxCells \in Nat
          /\ mapping[e] \in SUBSET Nat
      BY <1>1, HeldFacts, BoundTypes, MappingFacts DEF TypeInv
    <3>3. \A i \in mapping[e] : i < next => i < Len(cs)
      BY <1>3 DEF Mapped
    <3>4. next >= Len(cs)
      <4> SUFFICES ASSUME ~(next >= Len(cs)) PROVE FALSE
        OBVIOUS
      <4>1. next \in mapping[e]
        BY <1>2, <3>2
      <4>2. next \in Nat
        BY <3>2, <4>1
      <4>3. next < Len(cs)
        BY <3>2, <4>2
      <4>4. next \in Touched(e)
        BY <4>1, <4>3 DEF Mapped
      <4> QED  BY <1>3, <4>1, <4>2, <4>4
    <3> QED  BY <3>1, <3>3, <3>4
  <2> QED  BY <1>4, <2>1, <2>2
<1> QED  BY <1>7, <1>8, <1>9, <1>10 DEF v, x

\* The cells are counted again as they fill and empty.
LEMMA PeelCounts ==
  ASSUME BaseInv, remaining = Cardinality(Filled), NEW dir \in {1, -1}, Pure(dir),
         NEW e \in Elem, Peel(e, dir)
  PROVE  remaining' = Cardinality(Filled')
<1> DEFINE emptied == {i \in Touched(e) : ~cellIsEmpty(cs[i + 1])
                                            /\ cellIsEmpty(Fold(cs[i + 1], dir, {e}))}
           filled == {i \in Touched(e) : cellIsEmpty(cs[i + 1])
                                            /\ ~cellIsEmpty(Fold(cs[i + 1], dir, {e}))}
           old == Filled
           new == Filled'
<1>1. remaining' = remaining + Cardinality(filled) - Cardinality(emptied)
  BY DEF Peel
<1>2. /\ TypeInv /\ Touched(e) \in SUBSET Held
  BY PureFacts, TouchedFacts DEF BaseInv
<1>3. /\ Len(cs') = Len(cs)
      /\ \A i \in Held :
           cs'[i + 1] = IF i \in Touched(e) THEN Fold(cs[i + 1], dir, {e}) ELSE cs[i + 1]
  BY PeelFacts
<1>4. Held' = Held /\ IsFiniteSet(Held)
  BY <1>2, <1>3, HeldFacts DEF Held
<1>5. old \in SUBSET Held /\ emptied \in SUBSET old /\ filled \in SUBSET Held /\ filled \cap old = {}
  BY <1>2 DEF Filled
<1>6. new = (old \ emptied) \cup filled
  <2>1. new = {i \in Held : ~cellIsEmpty(cs'[i + 1])}
    BY <1>4 DEF Filled
  <2> QED  BY <1>2, <1>3, <2>1 DEF Filled
<1>7. remaining = Cardinality(old)
  OBVIOUS
<1> HIDE DEF emptied, filled, old, new
<1>8. IsFiniteSet(old) /\ IsFiniteSet(emptied) /\ IsFiniteSet(filled)
  <2>1. IsFiniteSet(old) /\ IsFiniteSet(filled)
    BY <1>4, <1>5, FS_Subset
  <2> QED  BY <1>5, <2>1, FS_Subset
<1>9. /\ IsFiniteSet(old \ emptied)
      /\ Cardinality(old \ emptied) = Cardinality(old) - Cardinality(emptied)
  <2>1. old \cap emptied = emptied
    BY <1>5
  <2>2. /\ IsFiniteSet(old \ emptied)
        /\ Cardinality(old \ emptied) = Cardinality(old) - Cardinality(old \cap emptied)
    BY <1>8, FS_Difference
  <2> QED  BY <2>1, <2>2
<1>10. Cardinality(new) = Cardinality(old \ emptied) + Cardinality(filled)
  <2> DEFINE rest == old \ emptied
  <2>1. rest \cap filled = {} /\ new = rest \cup filled
    BY <1>5, <1>6
  <2>2. IsFiniteSet(rest)
    BY <1>9
  <2> HIDE DEF rest
  <2>3. Cardinality(rest \cup filled) =
          Cardinality(rest) + Cardinality(filled) - Cardinality(rest \cap filled)
    BY <1>8, <2>2, FS_Union
  <2>4. Cardinality(rest \cap filled) = 0
    BY <2>1, FS_EmptySet
  <2>5. Cardinality(rest) \in Nat /\ Cardinality(filled) \in Nat
    BY <1>8, <2>2, FS_CardinalityType
  <2> QED  BY <2>1, <2>3, <2>4, <2>5 DEF rest
<1>11. /\ Cardinality(old) \in Nat /\ Cardinality(emptied) \in Nat /\ Cardinality(filled) \in Nat
  BY <1>8, FS_CardinalityType
<1>12. remaining' = Cardinality(new)
  BY <1>1, <1>7, <1>9, <1>10, <1>11
<1> QED  BY <1>12 DEF new

LEMMA PeelDiff ==
  ASSUME BaseInv, DiffInv, NEW dir \in {1, -1}, Pure(dir), Peel(PureElement, dir),
         UNCHANGED <<ribltInput, stage>>,
         dir = -1 => /\ remoteRecovered' = Append(remoteRecovered, Entry(PureElement))
                     /\ UNCHANGED localRecovered,
         dir = 1 => /\ localRecovered' = Append(localRecovered, Entry(PureElement))
                    /\ UNCHANGED remoteRecovered
  PROVE  DiffInv'
<1> DEFINE e == PureElement
<1>1. /\ TypeInv /\ stage = "peel" /\ ~failed /\ work + 1 <= WorkBudget /\ e \in Elem
  BY PureFacts DEF BaseInv
<1>2. /\ Len(cs') = Len(cs)
      /\ \A i \in Held :
           cs'[i + 1] = IF i \in Touched(e) THEN Fold(cs[i + 1], dir, {e}) ELSE cs[i + 1]
      /\ failed' <=> Touched(e) # Mapped(e)
  BY <1>1, PeelFacts
<1>3. /\ dir = -1 => e \in RemoteOnly /\ \A k \in DOMAIN remoteRecovered : remoteRecovered[k].element # e
      /\ dir = 1 => e \in LocalOnly /\ \A k \in DOMAIN localRecovered : localRecovered[k].element # e
  BY PureIs
<1>4. /\ UNCHANGED <<mapping, localSet, remote, stage>>
      /\ RemoteOnly' = RemoteOnly /\ LocalOnly' = LocalOnly
  BY DEF ribltInput, RemoteOnly, LocalOnly
<1>5. /\ RemoteOnly \in SUBSET Elem /\ LocalOnly \in SUBSET Elem
      /\ RemoteOnly \cap LocalOnly = {}
      /\ remoteRecovered \in Windows /\ localRecovered \in Windows
  BY <1>1, Sides DEF TypeInv
<1>6. /\ Distinct(remoteRecovered, RemoteOnly) /\ Distinct(localRecovered, LocalOnly)
      /\ GoesOn(remoteRecovered, mapping, Len(cs)) /\ GoesOn(localRecovered, mapping, Len(cs))
      /\ CellsInv /\ remaining = Cardinality(Filled) /\ Len(cs) >= 1
  BY <1>1 DEF DiffInv
<1>7. remaining' = Cardinality(Filled')
  BY <1>1, <1>6, PeelCounts
<1> HIDE DEF e
<1>8. Held' = Held
  BY <1>2 DEF Held
<1>9. /\ \A i \in Held :
           /\ Left(RemoteOnly, mapping, remoteRecovered', i) =
                IF i \in Touched(e) THEN Left(RemoteOnly, mapping, remoteRecovered, i) \ {e}
                ELSE Left(RemoteOnly, mapping, remoteRecovered, i)
           /\ Left(LocalOnly, mapping, localRecovered', i) =
                IF i \in Touched(e) THEN Left(LocalOnly, mapping, localRecovered, i) \ {e}
                ELSE Left(LocalOnly, mapping, localRecovered, i)
           /\ i \in Touched(e) /\ dir = -1 => e \in Left(RemoteOnly, mapping, remoteRecovered, i)
           /\ i \in Touched(e) /\ dir = 1 => e \in Left(LocalOnly, mapping, localRecovered, i)
      /\ Distinct(remoteRecovered', RemoteOnly) /\ Distinct(localRecovered', LocalOnly)
      /\ ~failed' => /\ GoesOn(remoteRecovered', mapping, Len(cs))
                     /\ GoesOn(localRecovered', mapping, Len(cs))
  <2>1. CASE dir = -1
    <3>1. /\ e \in RemoteOnly /\ UNCHANGED localRecovered
          /\ remoteRecovered' = Append(remoteRecovered, Entry(e))
          /\ \A k \in DOMAIN remoteRecovered : remoteRecovered[k].element # e
      BY <1>3, <2>1 DEF e
    <3>2. LET v == Append(remoteRecovered, Entry(e))
          IN  /\ \A i : Left(RemoteOnly, mapping, v, i) =
                   IF i \in Touched(e) THEN Left(RemoteOnly, mapping, remoteRecovered, i) \ {e}
                   ELSE Left(RemoteOnly, mapping, remoteRecovered, i)
              /\ \A i \in Touched(e) : e \in Left(RemoteOnly, mapping, remoteRecovered, i)
              /\ Distinct(remoteRecovered, RemoteOnly) => Distinct(v, RemoteOnly)
              /\ Touched(e) = Mapped(e) /\ GoesOn(remoteRecovered, mapping, Len(cs))
                   => GoesOn(v, mapping, Len(cs))
      BY <1>1, <1>5, <3>1, WindowGrown
    <3>3. \A i : e \notin Left(LocalOnly, mapping, localRecovered, i)
      BY <1>5, <3>1 DEF Left
    <3>4. \A i : Left(LocalOnly, mapping, localRecovered, i) \ {e}
                   = Left(LocalOnly, mapping, localRecovered, i)
      BY <3>3
    <3> QED  BY <1>2, <1>6, <2>1, <3>1, <3>2, <3>4
  <2>2. CASE dir = 1
    <3>1. /\ e \in LocalOnly /\ UNCHANGED remoteRecovered
          /\ localRecovered' = Append(localRecovered, Entry(e))
          /\ \A k \in DOMAIN localRecovered : localRecovered[k].element # e
      BY <1>3, <2>2 DEF e
    <3>2. LET v == Append(localRecovered, Entry(e))
          IN  /\ \A i : Left(LocalOnly, mapping, v, i) =
                   IF i \in Touched(e) THEN Left(LocalOnly, mapping, localRecovered, i) \ {e}
                   ELSE Left(LocalOnly, mapping, localRecovered, i)
              /\ \A i \in Touched(e) : e \in Left(LocalOnly, mapping, localRecovered, i)
              /\ Distinct(localRecovered, LocalOnly) => Distinct(v, LocalOnly)
              /\ Touched(e) = Mapped(e) /\ GoesOn(localRecovered, mapping, Len(cs))
                   => GoesOn(v, mapping, Len(cs))
      BY <1>1, <1>5, <3>1, WindowGrown
    <3>3. \A i : e \notin Left(RemoteOnly, mapping, remoteRecovered, i)
      BY <1>5, <3>1 DEF Left
    <3>4. \A i : Left(RemoteOnly, mapping, remoteRecovered, i) \ {e}
                   = Left(RemoteOnly, mapping, remoteRecovered, i)
      BY <3>3
    <3> QED  BY <1>2, <1>6, <2>2, <3>1, <3>2, <3>4
  <2> QED  BY <2>1, <2>2
<1>10. CellsInv'
  <2> SUFFICES ASSUME NEW i \in Held
               PROVE  LET theirs == Left(RemoteOnly, mapping, remoteRecovered', i)
                          mine == Left(LocalOnly, mapping, localRecovered', i)
                      IN  /\ cs'[i + 1].members = theirs \cup mine
                          /\ cs'[i + 1].count = Cardinality(theirs) - Cardinality(mine)
    BY <1>4, <1>8 DEF CellsInv
  <2> DEFINE theirs == Left(RemoteOnly, mapping, remoteRecovered, i)
             mine == Left(LocalOnly, mapping, localRecovered, i)
             cell == cs[i + 1]
  <2>1. cell.members = theirs \cup mine /\ cell.count = Cardinality(theirs) - Cardinality(mine)
    BY <1>6 DEF CellsInv
  <2>2. theirs \in SUBSET Elem /\ mine \in SUBSET Elem /\ mine \cap theirs = {}
    BY <1>5 DEF Left
  <2>5. cell.count \in Int /\ cell.members \in SUBSET Elem
    BY <1>1, HeldFacts DEF DecoderCell
  <2>3. CASE i \in Touched(e)
    <3>1. cs'[i + 1] = Fold(cell, dir, {e})
      BY <1>2, <2>3
    <3>2. /\ Left(RemoteOnly, mapping, remoteRecovered', i) = theirs \ {e}
          /\ Left(LocalOnly, mapping, localRecovered', i) = mine \ {e}
          /\ dir = -1 => e \in theirs
          /\ dir = 1 => e \in mine
      BY <1>9, <2>3
    <3> HIDE DEF theirs, mine, cell
    <3>3. /\ Fold(cell, dir, {e}).members = (theirs \ {e}) \cup (mine \ {e})
          /\ Fold(cell, dir, {e}).count = Cardinality(theirs \ {e}) - Cardinality(mine \ {e})
      <4>1. /\ cell.count \in Int /\ cell.members \in SUBSET Elem
            /\ {e} \in SUBSET Elem /\ dir \in Int
        BY <1>1, <2>5
      <4>2. theirs \in SUBSET Elem /\ mine \in SUBSET Elem
        BY <2>2
      <4>3. mine \cap theirs = {}
        BY <2>2
      <4>4. cell.members = theirs \cup mine
        BY <2>1
      <4>5. cell.count = Cardinality(theirs) - Cardinality(mine)
        BY <2>1
      <4>6. \/ dir = -1 /\ e \in theirs
            \/ dir = 1 /\ e \in mine
        BY <3>2
      <4> DEFINE cnt == cell.count
                 mem == cell.members
      <4>7. /\ Fold(cell, dir, {e}).count = cnt + dir
            /\ Fold(cell, dir, {e}).members = (mem \ {e}) \cup ({e} \ mem)
        BY <4>1, FoldTypes
      <4>8. mem = theirs \cup mine /\ cnt = Cardinality(theirs) - Cardinality(mine)
        BY <4>4, <4>5
      <4> HIDE DEF cnt, mem
      <4>9. /\ (mem \ {e}) \cup ({e} \ mem) = (theirs \ {e}) \cup (mine \ {e})
            /\ cnt + dir = Cardinality(theirs \ {e}) - Cardinality(mine \ {e})
        BY <4>2, <4>3, <4>6, <4>8, TakenOut
      <4> QED  BY <4>7, <4>9
    <3> QED  BY <3>1, <3>2, <3>3
  <2>4. CASE i \notin Touched(e)
    BY <1>2, <1>9, <2>1, <2>4
  <2> QED  BY <2>3, <2>4
<1> QED  BY <1>1, <1>2, <1>4, <1>6, <1>7, <1>9, <1>10 DEF DiffInv

-----------------------------------------------------------------------------
(* A symbol less what is known already.                                    *)

\* As many as there are, counted through f.
LEMMA CountedThrough ==
  ASSUME NEW S, NEW T, NEW f \in [S -> T], IsFiniteSet(S),
         \A a, b \in S : f[a] = f[b] => a = b, \A t \in T : \E s \in S : f[s] = t
  PROVE  IsFiniteSet(T) /\ Cardinality(T) = Cardinality(S)
<1>1. f \in Bijection(S, T)
  BY Fun_IsBij
<1>2. ExistsBijection(S, T)
  BY <1>1 DEF ExistsBijection
<1> QED  BY <1>2, FS_Bijection

OfCell(side, map, j) == {e \in side : j \in map[e]}
Known(side, map, window, j) ==
  {e \in OfCell(side, map, j) : \E k \in DOMAIN window : window[k].element = e}

\* The entries due are those of the recovered elements that are mapped to the cell.
LEMMA DueFacts ==
  ASSUME TypeInv, NEW w \in Windows, NextsMapped(w), NEW j \in 0..(MaxCells - 1),
         GoesOn(w, mapping, j)
  PROVE  /\ Due(w, j) \in SUBSET DOMAIN w
         /\ \A k \in DOMAIN w : w[k].element \in Elem /\ w[k].next \in Nat
         /\ \A k \in DOMAIN w : k \in Due(w, j) <=> j \in mapping[w[k].element]
<1>1. /\ j \in Nat /\ j # MaxCells /\ MaxCells \in Nat
  BY BoundTypes
<1>2. \A k \in DOMAIN w : w[k].element \in Elem /\ w[k].next \in Nat
  <2>1. w \in Seq(EntrySet)
    BY DEF Windows, EntrySet
  <2>2. \A k \in DOMAIN w : w[k] \in EntrySet
    BY <2>1
  <2> QED  BY <1>1, <2>2 DEF EntrySet
<1>3. \A k \in DOMAIN w : k \in Due(w, j) <=> w[k].next = j
  BY DEF Due, GoesOn
<1>4. ASSUME NEW k \in DOMAIN w, w[k].next = j PROVE j \in mapping[w[k].element]
  BY <1>1, <1>4 DEF NextsMapped
<1>5. ASSUME NEW k \in DOMAIN w, j \in mapping[w[k].element] PROVE w[k].next = j
  <2>1. w[k].next >= j /\ (j < w[k].next => j < j)
    BY <1>5 DEF GoesOn
  <2> QED  BY <1>1, <1>2, <2>1
<1>6. Due(w, j) \in SUBSET DOMAIN w
  BY DEF Due
<1> QED  BY <1>2, <1>3, <1>4, <1>5, <1>6

LEMMA OddKnown ==
  ASSUME TypeInv, NEW w \in Windows, NextsMapped(w), NEW j \in 0..(MaxCells - 1),
         NEW side \in SUBSET Elem, Distinct(w, side), GoesOn(w, mapping, j)
  PROVE  /\ Odd(w, j) = Known(side, mapping, w, j)
         /\ Cardinality(Due(w, j)) = Cardinality(Known(side, mapping, w, j))
<1> DEFINE D == Known(side, mapping, w, j)
           due == Due(w, j)
           of(e) == {k \in due : w[k].element = e}
<1>1. /\ due \in SUBSET DOMAIN w
      /\ \A k \in DOMAIN w : w[k].element \in Elem
      /\ \A k \in DOMAIN w : k \in due <=> j \in mapping[w[k].element]
  BY DueFacts
<1>2. IsFiniteSet(due)
  <2>1. Len(w) \in Nat /\ DOMAIN w = 1..Len(w)
    BY DEF Windows
  <2> QED  BY <1>1, <2>1, FiniteRange, FS_Subset
<1>3. \A e \in D : \E k \in due : w[k].element = e
  BY <1>1 DEF Known, OfCell
<1>4. \A k \in due : w[k].element \in D
  BY <1>1 DEF Known, OfCell, Distinct
<1>5. \A k, l \in due : w[k].element = w[l].element => k = l
  BY <1>1 DEF Distinct
<1>6. D \in SUBSET Elem
  BY DEF Known, OfCell
<1> HIDE DEF D, due
<1>7. ASSUME NEW e \in D PROVE Cardinality(of(e)) % 2 = 1
  <2>1. PICK k \in due : w[k].element = e
    BY <1>3
  <2>2. of(e) = {k}
    BY <1>5, <2>1
  <2>3. Cardinality(of(e)) = 1
    BY <2>2, FS_Singleton
  <2> HIDE DEF of
  <2> QED  BY <2>3
<1>8. ASSUME NEW e, e \notin D PROVE Cardinality(of(e)) % 2 # 1
  <2>1. of(e) = {}
    BY <1>4, <1>8
  <2>2. Cardinality(of(e)) = 0
    BY <2>1, FS_EmptySet
  <2> HIDE DEF of
  <2> QED  BY <2>2
<1>9. Odd(w, j) = D
  BY <1>6, <1>7, <1>8 DEF Odd, due
<1>10. Cardinality(D) = Cardinality(due)
  <2> DEFINE f == [k \in due |-> w[k].element]
  <2>1. f \in [due -> D]
    BY <1>4
  <2>2. /\ \A a, b \in due : f[a] = f[b] => a = b
        /\ \A e \in D : \E k \in due : f[k] = e
    BY <1>3, <1>5
  <2> HIDE DEF f
  <2> QED  BY <1>2, <2>1, <2>2, CountedThrough
<1> QED  BY <1>9, <1>10 DEF D, due

\* A window drawn on to the next cell.
LEMMA WindowDrawn ==
  ASSUME TypeInv, NEW w \in Windows, NextsMapped(w), NEW j \in 0..(MaxCells - 1),
         NEW side \in SUBSET Elem, Distinct(w, side), GoesOn(w, mapping, j)
  PROVE  LET v == Advanced(w, j)
         IN  /\ Distinct(v, side) /\ GoesOn(v, mapping, j + 1)
             /\ Left(side, mapping, v, j) = OfCell(side, mapping, j) \ Known(side, mapping, w, j)
             /\ \A i \in 0..(j - 1) : Left(side, mapping, v, i) = Left(side, mapping, w, i)
<1> DEFINE v == Advanced(w, j)
<1>1. /\ v \in Windows /\ DOMAIN v = DOMAIN w
      /\ \A k \in DOMAIN w :
           /\ v[k].element = w[k].element
           /\ k \notin Due(w, j) => v[k].next = w[k].next
           /\ k \in Due(w, j) => v[k].next = Unheld(w[k].element, 0..j)
  BY AdvancedTypes
<1> HIDE DEF v
<1>2. /\ \A k \in DOMAIN w : w[k].element \in Elem /\ w[k].next \in Nat
      /\ \A k \in DOMAIN w : k \in Due(w, j) <=> j \in mapping[w[k].element]
  BY DueFacts
<1>3. j \in Nat /\ 0..j \in SUBSET (0..(MaxCells - 1))
  BY BoundTypes
<1>4. ASSUME NEW k \in DOMAIN w
      PROVE  /\ v[k].next \in Nat /\ v[k].next >= j + 1 /\ w[k].next >= j
             /\ \A i \in mapping[v[k].element] : i < v[k].next => i < j + 1
  <2>0. mapping[w[k].element] \in SUBSET Nat
    BY <1>2, <1>4, MappingFacts
  <2>1. w[k].next >= j /\ \A i \in mapping[w[k].element] : i < w[k].next => i < j
    BY <1>4 DEF GoesOn
  <2>2. CASE k \in Due(w, j)
    <3> DEFINE next == Unheld(w[k].element, 0..j)
    <3>1. /\ next \in 0..MaxCells /\ next \notin 0..j
          /\ \A i \in mapping[w[k].element] \ (0..j) : next <= i
      BY <1>2, <1>3, <1>4, UnheldFacts
    <3>2. v[k].next = next /\ v[k].element = w[k].element
      BY <1>1, <1>4, <2>2
    <3> HIDE DEF next
    <3>3. next \in Nat /\ next >= j + 1
      BY <1>3, <3>1
    <3>4. \A i \in mapping[w[k].element] : i < next => i < j + 1
      BY <1>3, <2>0, <3>1, <3>3
    <3> QED  BY <2>1, <3>2, <3>3, <3>4
  <2>3. CASE k \notin Due(w, j)
    <3>1. w[k].next # j
      <4>1. Due(w, j) = {l \in DOMAIN w : w[l].next = j /\ \A m \in DOMAIN w : w[m].next >= j}
        BY DEF Due
      <4> QED  BY <1>4, <2>3, <4>1 DEF GoesOn
    <3> QED  BY <1>1, <1>2, <1>3, <1>4, <2>0, <2>1, <2>3, <3>1
  <2> QED  BY <2>2, <2>3
<1>5. Distinct(v, side)
  BY <1>1 DEF Distinct
<1>6. GoesOn(v, mapping, j + 1)
  BY <1>1, <1>4 DEF GoesOn
<1>7. ASSUME NEW i \in 0..(j - 1)
      PROVE  Left(side, mapping, v, i) = Left(side, mapping, w, i)
  <2>1. \A k \in DOMAIN w : i < v[k].next /\ i < w[k].next
    BY <1>2, <1>3, <1>4
  <2>2. \A e : Removed(v, e, i) <=> Removed(w, e, i)
    BY <1>1, <2>1 DEF Removed
  <2> QED  BY <2>2 DEF Left
<1>8. Left(side, mapping, v, j) = OfCell(side, mapping, j) \ Known(side, mapping, w, j)
  <2>1. \A k \in DOMAIN w : j < v[k].next
    BY <1>3, <1>4
  <2>2. \A e : Removed(v, e, j) <=> \E k \in DOMAIN w : w[k].element = e
    BY <1>1, <2>1 DEF Removed
  <2> QED  BY <2>2 DEF Left, OfCell, Known
<1> QED  BY <1>5, <1>6, <1>7, <1>8 DEF v

\* Without copies the symbol counts and folds the remote elements mapped to it.
LEMMA SymbolHolds ==
  ASSUME TypeInv, MaxCopies <= 1, NEW j \in CellIndex
  PROVE  LET rem == {e \in Elem : j \in mapping[e] /\ remote[e] > 0}
         IN  CodedSymbol(j).count = Cardinality(rem) /\ CodedSymbol(j).members = rem
<1> DEFINE here == {p \in Elem \X (1..MaxCopies) : j \in mapping[p[1]] /\ p[2] <= remote[p[1]]}
           rem == {e \in Elem : j \in mapping[e] /\ remote[e] > 0}
           odds == {e \in Elem : j \in mapping[e] /\ remote[e] % 2 = 1}
<1>1. /\ MaxCopies \in Nat /\ MaxCopies <= 1
      /\ \A e \in Elem : remote[e] \in Nat /\ remote[e] <= MaxCopies
  BY BoundTypes DEF TypeInv
<1>2. \A e \in Elem : (remote[e] = 0 \/ remote[e] = 1) /\ (remote[e] = 1 => MaxCopies = 1)
  BY <1>1
<1>3. odds = rem
  BY <1>2
<1>4. \A p \in here : p[1] \in rem /\ p = <<p[1], 1>>
  <2> SUFFICES ASSUME NEW p \in here PROVE p[1] \in rem /\ p = <<p[1], 1>>
    OBVIOUS
  <2>1. PICK e \in Elem, c \in 1..MaxCopies : p = <<e, c>>
    OBVIOUS
  <2>2. p[1] = e /\ p[2] = c /\ j \in mapping[e] /\ c <= remote[e]
    BY <2>1
  <2>3. c = 1 /\ remote[e] > 0
    BY <1>1, <1>2, <2>2
  <2> QED  BY <2>1, <2>2, <2>3
<1>5. \A e \in rem : <<e, 1>> \in here
  <2> SUFFICES ASSUME NEW e \in rem PROVE <<e, 1>> \in here
    OBVIOUS
  <2>1. e \in Elem /\ j \in mapping[e] /\ remote[e] = 1 /\ MaxCopies = 1
    BY <1>2
  <2>2. <<e, 1>> \in Elem \X (1..MaxCopies)
    BY <2>1
  <2> QED  BY <2>1, <2>2
<1>6. Cardinality(here) = Cardinality(rem)
  <2> DEFINE f == [e \in rem |-> <<e, 1>>]
  <2>1. IsFiniteSet(rem)
    BY FiniteElements
  <2> HIDE DEF here, rem
  <2>2. f \in [rem -> here]
    BY <1>5
  <2>3. \A a, b \in rem : f[a] = f[b] => a = b
    OBVIOUS
  <2>4. \A p \in here : \E e \in rem : f[e] = p
    BY <1>4
  <2> HIDE DEF f
  <2> QED  BY <2>1, <2>2, <2>3, <2>4, CountedThrough
<1> HIDE DEF here, rem, odds
<1>7. CodedSymbol(j) = [index |-> j, count |-> Cardinality(here), members |-> odds]
  BY DEF CodedSymbol, here, odds
<1> QED  BY <1>3, <1>6, <1>7 DEF rem

\* Less the local set it is the difference.
LEMMA SubtractedHolds ==
  ASSUME TypeInv, MaxCopies <= 1, NEW j \in CellIndex
  PROVE  LET theirs == OfCell(RemoteOnly, mapping, j)
             mine == OfCell(LocalOnly, mapping, j)
             c == Subtracted(CodedSymbol(j), j)
         IN  c.members = theirs \cup mine /\ c.count = Cardinality(theirs) - Cardinality(mine)
<1> DEFINE rem == {e \in Elem : j \in mapping[e] /\ remote[e] > 0}
           loc == {e \in localSet : j \in mapping[e]}
           theirs == OfCell(RemoteOnly, mapping, j)
           mine == OfCell(LocalOnly, mapping, j)
           s == CodedSymbol(j)
           c == Subtracted(s, j)
<1>1. s.count = Cardinality(rem) /\ s.members = rem
  BY SymbolHolds
<1>2. CellOf(s, j)
  BY SymbolTypes
<1>3. /\ c.count = s.count - Cardinality(loc)
      /\ c.members = (s.members \ loc) \cup (loc \ s.members)
  BY <1>2, SubtractedTypes, SMTT(30)
<1>4. localSet \in SUBSET Elem /\ \A e \in Elem : remote[e] \in Nat
  BY BoundTypes DEF TypeInv
<1>5. rem \in SUBSET Elem /\ loc \in SUBSET Elem
  BY <1>4
<1>6. theirs = rem \ loc /\ mine = loc \ rem
  BY <1>4 DEF OfCell, RemoteOnly, LocalOnly
<1> HIDE DEF rem, loc, theirs, mine, s, c
<1>7. IsFiniteSet(rem) /\ IsFiniteSet(loc) /\ Cardinality(rem) \in Nat /\ Cardinality(loc) \in Nat
  BY <1>5, FiniteElements
<1>8. /\ Cardinality(rem \ loc) = Cardinality(rem) - Cardinality(rem \cap loc)
      /\ Cardinality(loc \ rem) = Cardinality(loc) - Cardinality(rem \cap loc)
      /\ Cardinality(rem \cap loc) \in Nat
  <2>1. loc \cap rem = rem \cap loc /\ rem \cap loc \in SUBSET Elem
    BY <1>5
  <2>2. Cardinality(rem \ loc) = Cardinality(rem) - Cardinality(rem \cap loc)
    BY <1>7, FS_Difference
  <2>3. Cardinality(loc \ rem) = Cardinality(loc) - Cardinality(loc \cap rem)
    BY <1>7, FS_Difference
  <2>4. Cardinality(rem \cap loc) \in Nat
    BY <2>1, FiniteElements
  <2> QED  BY <2>1, <2>2, <2>3, <2>4
<1>9. c.count = Cardinality(theirs) - Cardinality(mine)
  <2> DEFINE a == Cardinality(rem)
             b == Cardinality(loc)
             both == Cardinality(rem \cap loc)
  <2>1. a \in Nat /\ b \in Nat /\ both \in Nat /\ c.count = a - b
    BY <1>1, <1>3, <1>7, <1>8
  <2>2. Cardinality(theirs) = a - both /\ Cardinality(mine) = b - both
    BY <1>6, <1>8
  <2> HIDE DEF a, b, both
  <2> QED  BY <2>1, <2>2
<1>10. c.members = theirs \cup mine
  BY <1>1, <1>3, <1>6
<1> QED  BY <1>9, <1>10 DEF theirs, mine, c, s

LEMMA LessKnown ==
  ASSUME NEW S \in SUBSET Elem, NEW K \in SUBSET S
  PROVE  /\ Cardinality(S) \in Nat /\ Cardinality(K) \in Nat
         /\ Cardinality(S \ K) = Cardinality(S) - Cardinality(K)
<1>1. K \in SUBSET Elem /\ S \cap K = K
  OBVIOUS
<1>2. IsFiniteSet(S) /\ Cardinality(S) \in Nat /\ Cardinality(K) \in Nat
  BY <1>1, FiniteElements
<1>3. Cardinality(S \ K) = Cardinality(S) - Cardinality(S \cap K)
  BY <1>2, FS_Difference
<1> QED  BY <1>1, <1>2, <1>3

LEMMA AppliedOdd ==
  ASSUME TypeInv, NEW w \in Windows, NextsMapped(w), NEW j \in 0..(MaxCells - 1),
         NEW cell, CellOf(cell, j)
  PROVE  \A dir \in {1, -1} :
           /\ CellOf(Applied(cell, w, j, dir), j)
           /\ Applied(cell, w, j, dir).count = cell.count + dir * Cardinality(Due(w, j))
           /\ Applied(cell, w, j, dir).members
                = (cell.members \ Odd(w, j)) \cup (Odd(w, j) \ cell.members)
<1> SUFFICES ASSUME NEW dir \in {1, -1}
             PROVE  /\ CellOf(Applied(cell, w, j, dir), j)
                    /\ Applied(cell, w, j, dir).count = cell.count + dir * Cardinality(Due(w, j))
                    /\ Applied(cell, w, j, dir).members
                         = (cell.members \ Odd(w, j)) \cup (Odd(w, j) \ cell.members)
  OBVIOUS
<1> QED  BY AppliedTypes

LEMMA NewCellHolds ==
  ASSUME BaseInv, DiffInv, ~failed, MaxCopies <= 1, NEW j \in CellIndex, j = Len(cs)
  PROVE  LET theirs == OfCell(RemoteOnly, mapping, j) \ Known(RemoteOnly, mapping, remoteRecovered, j)
             mine == OfCell(LocalOnly, mapping, j) \ Known(LocalOnly, mapping, localRecovered, j)
         IN  /\ NewCell(j).members = theirs \cup mine
             /\ NewCell(j).count = Cardinality(theirs) - Cardinality(mine)
<1> DEFINE theirs == OfCell(RemoteOnly, mapping, j)
           mine == OfCell(LocalOnly, mapping, j)
           known == Known(RemoteOnly, mapping, remoteRecovered, j)
           told == Known(LocalOnly, mapping, localRecovered, j)
           c == Subtracted(CodedSymbol(j), j)
           d == Applied(c, remoteRecovered, j, -1)
           f == NewCell(j)
<1>1. /\ TypeInv /\ j \in 0..(MaxCells - 1)
      /\ remoteRecovered \in Windows /\ localRecovered \in Windows
      /\ NextsMapped(remoteRecovered) /\ NextsMapped(localRecovered)
  BY BoundTypes DEF BaseInv, TypeInv, MappedInv, NextsMapped, CellIndex
<1>2. /\ RemoteOnly \in SUBSET Elem /\ LocalOnly \in SUBSET Elem /\ RemoteOnly \cap LocalOnly = {}
  BY <1>1, Sides
<1>3. /\ Distinct(remoteRecovered, RemoteOnly) /\ Distinct(localRecovered, LocalOnly)
      /\ GoesOn(remoteRecovered, mapping, j) /\ GoesOn(localRecovered, mapping, j)
  BY DEF DiffInv
<1>4. /\ Odd(remoteRecovered, j) = known /\ Cardinality(Due(remoteRecovered, j)) = Cardinality(known)
      /\ Odd(localRecovered, j) = told /\ Cardinality(Due(localRecovered, j)) = Cardinality(told)
  <2>1. /\ Odd(remoteRecovered, j) = known
        /\ Cardinality(Due(remoteRecovered, j)) = Cardinality(known)
    BY <1>1, <1>2, <1>3, OddKnown
  <2>2. /\ Odd(localRecovered, j) = told
        /\ Cardinality(Due(localRecovered, j)) = Cardinality(told)
    BY <1>1, <1>2, <1>3, OddKnown
  <2> QED  BY <2>1, <2>2
<1>5. c.members = theirs \cup mine /\ c.count = Cardinality(theirs) - Cardinality(mine)
  BY <1>1, SubtractedHolds
<1>6. CellOf(c, j)
  <2>1. CellOf(CodedSymbol(j), j)
    BY <1>1, SymbolTypes
  <2> QED  BY <1>1, <2>1, SubtractedTypes
<1>7. /\ CellOf(d, j)
      /\ d.count = c.count + (-1) * Cardinality(known)
      /\ d.members = (c.members \ known) \cup (known \ c.members)
  <2> HIDE DEF c
  <2>1. \A dir \in {1, -1} :
          /\ CellOf(Applied(c, remoteRecovered, j, dir), j)
          /\ Applied(c, remoteRecovered, j, dir).count
               = c.count + dir * Cardinality(Due(remoteRecovered, j))
          /\ Applied(c, remoteRecovered, j, dir).members
               = (c.members \ Odd(remoteRecovered, j)) \cup (Odd(remoteRecovered, j) \ c.members)
    BY <1>1, <1>6, AppliedOdd
  <2> HIDE DEF known
  <2> QED  BY <1>4, <2>1
<1>8. /\ f.count = d.count + 1 * Cardinality(told)
      /\ f.members = (d.members \ told) \cup (told \ d.members)
  <2>1. f = Applied(d, localRecovered, j, 1)
    BY DEF NewCell
  <2> HIDE DEF d, f, told
  <2>2. \A dir \in {1, -1} :
          /\ Applied(d, localRecovered, j, dir).count
               = d.count + dir * Cardinality(Due(localRecovered, j))
          /\ Applied(d, localRecovered, j, dir).members
               = (d.members \ Odd(localRecovered, j)) \cup (Odd(localRecovered, j) \ d.members)
    BY <1>1, <1>7, AppliedOdd
  <2> QED  BY <1>4, <2>1, <2>2
<1>9. /\ theirs \in SUBSET Elem /\ mine \in SUBSET Elem /\ mine \cap theirs = {}
      /\ known \in SUBSET theirs /\ told \in SUBSET mine
  BY <1>2 DEF OfCell, Known
<1> HIDE DEF theirs, mine, known, told, c, d, f
<1>10. f.members = (theirs \ known) \cup (mine \ told)
  <2>1. d.members = (theirs \ known) \cup mine
    BY <1>5, <1>7, <1>9
  <2> QED  BY <1>8, <1>9, <2>1
<1>11. f.count = Cardinality(theirs \ known) - Cardinality(mine \ told)
  <2>1. /\ Cardinality(theirs) \in Nat /\ Cardinality(known) \in Nat
        /\ Cardinality(theirs \ known) = Cardinality(theirs) - Cardinality(known)
    BY <1>9, LessKnown
  <2>2. /\ Cardinality(mine) \in Nat /\ Cardinality(told) \in Nat
        /\ Cardinality(mine \ told) = Cardinality(mine) - Cardinality(told)
    BY <1>9, LessKnown
  <2> QED  BY <1>5, <1>7, <1>8, <2>1, <2>2
<1> QED  BY <1>10, <1>11 DEF theirs, mine, known, told, f

LEMMA AddDiff ==
  ASSUME BaseInv, DiffInv, MaxCopies <= 1, NEW j \in CellIndex, AddCodedSymbol(CodedSymbol(j))
  PROVE  DiffInv'
<1> DEFINE cell == NewCell(j)
<1>1. /\ j = Len(cs) /\ j \in 0..(MaxCells - 1) /\ stage = "pull" /\ ~failed
      /\ Len(cs') = j + 1
      /\ Held' = Held \cup {j} /\ j \notin Held
      /\ cs'[j + 1] = cell /\ \A i \in Held : cs'[i + 1] = cs[i + 1]
      /\ remaining' = remaining + Counted(cell)
      /\ remoteRecovered' = Advanced(remoteRecovered, j)
      /\ localRecovered' = Advanced(localRecovered, j)
      /\ stage' = "peel" /\ UNCHANGED <<mapping, localSet, remote, failed, work>>
  BY AddFacts
<1>2. /\ cell.members = (OfCell(RemoteOnly, mapping, j) \ Known(RemoteOnly, mapping, remoteRecovered, j))
                          \cup (OfCell(LocalOnly, mapping, j) \ Known(LocalOnly, mapping, localRecovered, j))
      /\ cell.count =
           Cardinality(OfCell(RemoteOnly, mapping, j) \ Known(RemoteOnly, mapping, remoteRecovered, j))
           - Cardinality(OfCell(LocalOnly, mapping, j) \ Known(LocalOnly, mapping, localRecovered, j))
  BY <1>1, NewCellHolds
<1> HIDE DEF cell
<1>3. /\ TypeInv /\ remoteRecovered \in Windows /\ localRecovered \in Windows
      /\ NextsMapped(remoteRecovered) /\ NextsMapped(localRecovered)
  BY DEF BaseInv, TypeInv, MappedInv, NextsMapped
<1>4. RemoteOnly \in SUBSET Elem /\ LocalOnly \in SUBSET Elem
  BY <1>3, Sides
<1>5. /\ Distinct(remoteRecovered, RemoteOnly) /\ Distinct(localRecovered, LocalOnly)
      /\ GoesOn(remoteRecovered, mapping, j) /\ GoesOn(localRecovered, mapping, j)
      /\ CellsInv /\ remaining = Cardinality(Filled)
  BY <1>1 DEF DiffInv
<1>6. /\ Distinct(remoteRecovered', RemoteOnly) /\ GoesOn(remoteRecovered', mapping, j + 1)
      /\ Left(RemoteOnly, mapping, remoteRecovered', j)
           = OfCell(RemoteOnly, mapping, j) \ Known(RemoteOnly, mapping, remoteRecovered, j)
      /\ \A i \in 0..(j - 1) : Left(RemoteOnly, mapping, remoteRecovered', i)
                                 = Left(RemoteOnly, mapping, remoteRecovered, i)
  BY <1>1, <1>3, <1>4, <1>5, WindowDrawn
<1>7. /\ Distinct(localRecovered', LocalOnly) /\ GoesOn(localRecovered', mapping, j + 1)
      /\ Left(LocalOnly, mapping, localRecovered', j)
           = OfCell(LocalOnly, mapping, j) \ Known(LocalOnly, mapping, localRecovered, j)
      /\ \A i \in 0..(j - 1) : Left(LocalOnly, mapping, localRecovered', i)
                                 = Left(LocalOnly, mapping, localRecovered, i)
  BY <1>1, <1>3, <1>4, <1>5, WindowDrawn
<1>8. RemoteOnly' = RemoteOnly /\ LocalOnly' = LocalOnly
  BY <1>1 DEF RemoteOnly, LocalOnly
<1>9. Held = 0..(j - 1)
  BY <1>1 DEF Held
<1>10. CellsInv'
  <2> SUFFICES ASSUME NEW i \in Held'
               PROVE  LET theirs == Left(RemoteOnly, mapping, remoteRecovered', i)
                          mine == Left(LocalOnly, mapping, localRecovered', i)
                      IN  /\ cs'[i + 1].members = theirs \cup mine
                          /\ cs'[i + 1].count = Cardinality(theirs) - Cardinality(mine)
    BY <1>1, <1>8 DEF CellsInv
  <2>1. CASE i = j
    BY <1>1, <1>2, <1>6, <1>7, <2>1
  <2>2. CASE i \in Held
    <3>1. /\ cs[i + 1].members = Left(RemoteOnly, mapping, remoteRecovered, i)
                                   \cup Left(LocalOnly, mapping, localRecovered, i)
          /\ cs[i + 1].count = Cardinality(Left(RemoteOnly, mapping, remoteRecovered, i))
                               - Cardinality(Left(LocalOnly, mapping, localRecovered, i))
      BY <1>5, <2>2 DEF CellsInv
    <3>2. /\ Left(RemoteOnly, mapping, remoteRecovered', i)
               = Left(RemoteOnly, mapping, remoteRecovered, i)
          /\ Left(LocalOnly, mapping, localRecovered', i)
               = Left(LocalOnly, mapping, localRecovered, i)
      BY <1>6, <1>7, <1>9, <2>2
    <3> QED  BY <1>1, <2>2, <3>1, <3>2
  <2> QED  BY <1>1, <2>1, <2>2
<1>11. remaining' = Cardinality(Filled')
  <2>1. Filled \in SUBSET Held /\ IsFiniteSet(Filled) /\ j \notin Filled
    <3>1. IsFiniteSet(Held)
      BY <1>3, HeldFacts
    <3>2. Filled \in SUBSET Held
      BY DEF Filled
    <3> QED  BY <1>1, <3>1, <3>2, FS_Subset
  <2>2. Filled' = {i \in Held \cup {j} : ~cellIsEmpty(cs'[i + 1])}
    BY <1>1 DEF Filled
  <2>3. CASE cellIsEmpty(cell)
    <3>1. Filled' = Filled
      BY <1>1, <2>2, <2>3 DEF Filled
    <3>2. Counted(cell) = 0
      BY <2>3 DEF Counted
    <3>3. Cardinality(Filled) \in Nat
      BY <2>1, FS_CardinalityType
    <3> QED  BY <1>1, <1>5, <3>1, <3>2, <3>3
  <2>4. CASE ~cellIsEmpty(cell)
    <3>1. Filled' = Filled \cup {j}
      BY <1>1, <2>2, <2>4 DEF Filled
    <3>2. Counted(cell) = 1
      BY <2>4 DEF Counted
    <3>3. Cardinality(Filled \cup {j}) = Cardinality(Filled) + 1
      BY <2>1, FS_AddElement
    <3> QED  BY <1>1, <1>5, <3>1, <3>2, <3>3
  <2> QED  BY <2>3, <2>4
<1>12. Len(cs') >= 1
  BY <1>1
<1> QED  BY <1>1, <1>6, <1>7, <1>8, <1>10, <1>11, <1>12 DEF DiffInv

LEMMA OtherDiff ==
  ASSUME BaseInv, DiffInv, FirstEnd >= 1, OtherStep
  PROVE  DiffInv'
<1>1. /\ UNCHANGED <<cs, remaining, mapping, localSet, remote, remoteRecovered, localRecovered>>
      /\ Held' = Held
  BY OtherKeeps, CellsKept
<1>2. CellsInv' /\ Filled' = Filled /\ RemoteOnly' = RemoteOnly /\ LocalOnly' = LocalOnly
  <2>1. RemoteOnly' = RemoteOnly /\ LocalOnly' = LocalOnly
    BY <1>1 DEF RemoteOnly, LocalOnly
  <2>2. Filled' = Filled
    BY <1>1 DEF Filled
  <2>3. CellsInv'
    BY <1>1, <2>1 DEF DiffInv, CellsInv
  <2> QED  BY <2>1, <2>2, <2>3
<1>3. ~failed' => ~failed
  <2>1. CASE GiveUp
    BY <2>1 DEF GiveUp
  <2>2. CASE EndOfStream
    BY <2>2 DEF EndOfStream
  <2>3. CASE \E j \in CellIndex : Desync(CodedSymbol(j))
    BY <2>3 DEF Desync
  <2>4. CASE OverBudget
    BY <2>4 DEF OverBudget
  <2>5. CASE Stale
    BY <2>5 DEF Stale
  <2>6. CASE EndPeel
    BY <2>6 DEF EndPeel
  <2>7. CASE UNCHANGED ribltVars
    BY <2>7 DEF ribltVars
  <2> QED  BY <2>1, <2>2, <2>3, <2>4, <2>5, <2>6, <2>7 DEF OtherStep
<1>4. /\ stage' = "peel" => Len(cs) >= 1
      /\ stage' = "done" /\ ~failed' => Len(cs) >= 1
  <2>0. MaxCells >= 1 /\ MaxCells \in Nat /\ Len(cs) \in Nat /\ FirstEnd \in Nat
    BY BoundTypes, HeldFacts DEF BaseInv
  <2>1. CASE GiveUp
    BY <2>0, <2>1 DEF GiveUp
  <2>2. CASE EndOfStream
    BY <2>0, <2>2 DEF EndOfStream
  <2>3. CASE \E j \in CellIndex : Desync(CodedSymbol(j))
    BY <2>3 DEF Desync
  <2>4. CASE OverBudget
    BY <2>4 DEF OverBudget, DiffInv
  <2>5. CASE Stale
    BY <2>5 DEF Stale, DiffInv
  <2>6. CASE EndPeel
    BY <2>6 DEF EndPeel, DiffInv
  <2>7. CASE UNCHANGED ribltVars
    BY <2>7 DEF ribltVars, DiffInv
  <2> QED  BY <2>1, <2>2, <2>3, <2>4, <2>5, <2>6, <2>7 DEF OtherStep
<1> QED  BY <1>1, <1>2, <1>3, <1>4 DEF DiffInv

LEMMA DiffStep ==
  ASSUME BaseInv, DiffInv, MaxCopies <= 1, FirstEnd >= 1, [RibltNext]_ribltVars
  PROVE  DiffInv'
<1>1. CASE OtherStep
  BY <1>1, OtherDiff
<1>2. ASSUME NEW j \in CellIndex, AddCodedSymbol(CodedSymbol(j)) PROVE DiffInv'
  BY <1>2, AddDiff
<1>3. CASE PeelRemote
  BY <1>3, PeelDiff DEF PeelRemote
<1>4. CASE PeelLocal
  BY <1>4, PeelDiff DEF PeelLocal
<1> QED  BY <1>1, <1>2, <1>3, <1>4 DEF RibltNext, OtherStep

LEMMA DiffStarts == ASSUME RibltInit PROVE DiffInv
<1>1. /\ cs = <<>> /\ remaining = 0 /\ failed = FALSE
      /\ remoteRecovered = <<>> /\ localRecovered = <<>> /\ stage = "pull"
  BY DEF RibltInit
<1>2. Len(cs) = 0 /\ DOMAIN remoteRecovered = {} /\ DOMAIN localRecovered = {}
  BY <1>1
<1>3. Held = {} /\ Filled = {}
  BY <1>2 DEF Held, Filled
<1>4. remaining = Cardinality(Filled)
  BY <1>1, <1>3, FS_EmptySet
<1> QED  BY <1>1, <1>2, <1>3, <1>4 DEF DiffInv, CellsInv, Distinct, GoesOn

\* When no cell holds anything there is nothing left to recover: every element is
\* mapped to cell 0.
LEMMA AllRecovered ==
  ASSUME BaseInv, DiffInv, reconciled
  PROVE  /\ \A e \in RemoteOnly : \E k \in DOMAIN remoteRecovered : remoteRecovered[k].element = e
         /\ \A e \in LocalOnly : \E k \in DOMAIN localRecovered : localRecovered[k].element = e
<1>1. /\ TypeInv /\ Len(cs) >= 1 /\ remaining = 0 /\ CellsInv /\ remaining = Cardinality(Filled)
  BY DEF BaseInv, DiffInv, reconciled, isDecoded
<1>2. Filled = {}
  <2>1. IsFiniteSet(Held) /\ Filled \in SUBSET Held
    BY <1>1, HeldFacts DEF Filled
  <2>2. IsFiniteSet(Filled)
    BY <2>1, FS_Subset
  <2> QED  BY <1>1, <2>2, FS_EmptySet
<1>3. 0 \in Held
  <2>1. Len(cs) \in Nat
    BY <1>1, HeldFacts
  <2> QED  BY <1>1, <2>1 DEF Held
<1>4. cs[0 + 1].members = {}
  BY <1>2, <1>3 DEF Filled, cellIsEmpty
<1>5. Left(RemoteOnly, mapping, remoteRecovered, 0) = {} /\ Left(LocalOnly, mapping, localRecovered, 0) = {}
  BY <1>1, <1>3, <1>4 DEF CellsInv
<1>6. RemoteOnly \in SUBSET Elem /\ LocalOnly \in SUBSET Elem
  BY <1>1, Sides
<1>7. \A e \in Elem : 0 \in mapping[e]
  BY <1>1, MappingFacts
<1>8. \A e \in RemoteOnly : Removed(remoteRecovered, e, 0)
  BY <1>5, <1>6, <1>7 DEF Left
<1>9. \A e \in LocalOnly : Removed(localRecovered, e, 0)
  BY <1>5, <1>6, <1>7 DEF Left
<1> QED  BY <1>8, <1>9 DEF Removed

LEMMA ExactDiff == ASSUME BaseInv, DiffInv PROVE DifferenceExact
<1>1. /\ Distinct(remoteRecovered, RemoteOnly) /\ Distinct(localRecovered, LocalOnly)
  BY DEF DiffInv
<1>2. IsInjective(aOnly) /\ IsInjective(bOnly)
  BY <1>1 DEF IsInjective, aOnly, bOnly, Distinct
<1>3. /\ ToSet(aOnly) = {localRecovered[k].element : k \in DOMAIN localRecovered}
      /\ ToSet(bOnly) = {remoteRecovered[k].element : k \in DOMAIN remoteRecovered}
  BY DEF ToSet, aOnly, bOnly
<1>4. ToSet(aOnly) \subseteq LocalOnly /\ ToSet(bOnly) \subseteq RemoteOnly
  BY <1>1, <1>3 DEF Distinct
<1>5. ASSUME reconciled PROVE ToSet(aOnly) = LocalOnly /\ ToSet(bOnly) = RemoteOnly
  <2>1. /\ \A e \in RemoteOnly : \E k \in DOMAIN remoteRecovered : remoteRecovered[k].element = e
        /\ \A e \in LocalOnly : \E k \in DOMAIN localRecovered : localRecovered[k].element = e
    BY <1>5, AllRecovered
  <2> QED  BY <1>3, <1>4, <2>1
<1> QED  BY <1>2, <1>4, <1>5 DEF DifferenceExact

\* If the encoder is given no element twice and the source does not end before its
\* first symbol: whatever symbols are lost, repeated, overtaken or cut off and wherever
\* the budget ends, an element is reported once and on the side that has it, and a
\* success reports all of them (index.js:291-353).  Without either hypothesis it is
\* false: the runs riblt_multiset and riblt_empty show how.
THEOREM DifferenceFound ==
  ASSUME MaxCopies <= 1, FirstEnd >= 1
  PROVE  RibltSpec => []DifferenceExact
<1>1. RibltInit => BaseInv /\ DiffInv
  BY BaseStarts, DiffStarts
<1>2. (BaseInv /\ DiffInv) /\ [RibltNext]_ribltVars => (BaseInv /\ DiffInv)'
  BY BaseStep, DiffStep
<1>3. BaseInv /\ DiffInv => DifferenceExact
  BY ExactDiff
<1> QED  BY <1>1, <1>2, <1>3, PTL DEF RibltSpec
=============================================================================
