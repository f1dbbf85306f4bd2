----------------------- MODULE FountainDecoder_proofs -----------------------
(***************************************************************************)
(* Proofs about FountainDecoder: for every field and every number of       *)
(* blocks, in whatever order symbols come and whichever are missing, the   *)
(* pivot rows stay reduced, K independent symbols decode to the blocks,    *)
(* and nothing that a symbol brought is forgotten.                         *)
(***************************************************************************)
EXTENDS FountainDecoder, FiniteSetTheorems, WellFoundedInduction, TLAPS

\* The variables keep their types, and pivotCol is a column while it is used.
Typed ==
  /\ pivots \in [Col -> Row \cup {None}] /\ rank \in Nat /\ row \in Row
  /\ pc \in {"idle", "reduce", "lead", "eliminate", "store"}
  /\ col \in Col /\ pivotCol \in Col \cup {None}

\* Data follows the coefficients.
InStep ==
  /\ row.data = row.coef
  /\ \A c \in Pivoted : pivots[c].data = pivots[c].coef

\* The pivot rows are reduced, also while add works.
Echelon ==
  \A c \in Pivoted :
    /\ pivots[c].coef[c] = One
    /\ \A d \in Col : d < c \/ d \in Pivoted \ {c} => pivots[c].coef[d] = Zero

\* The row in hand is zero in the columns the loop has passed.
Passed ==
  /\ pc = "reduce" => \A d \in Pivoted : d < col => row.coef[d] = Zero
  /\ pc = "lead" => col = 1 /\ \A d \in Pivoted : row.coef[d] = Zero

\* A row to be stored leads with one in a column of its own, and is zero where
\* another row leads.
Leads ==
  pc \in {"eliminate", "store"} =>
    /\ pivotCol \in Col \ Pivoted /\ row.coef[pivotCol] = One
    /\ \A d \in Col : d < pivotCol \/ d \in Pivoted => row.coef[d] = Zero

\* The pivot rows the second loop has passed are zero in the new column.
Freed ==
  /\ pc = "eliminate" => \A c \in Pivoted : c < col => pivots[c].coef[pivotCol] = Zero
  /\ pc = "store" => \A c \in Pivoted : pivots[c].coef[pivotCol] = Zero

\* rank counts the pivot rows, and add works below full rank only.
Counted == rank = Cardinality(Pivoted) /\ (pc # "idle" => rank < K)

IInv == Typed /\ InStep /\ Echelon /\ Passed /\ Leads /\ Freed /\ Counted
-----------------------------------------------------------------------------
(* Rows.                                                                   *)

\* The field, as facts about single elements.
LEMMA FieldFacts ==
  /\ Zero \in Field /\ One \in Field /\ Zero # One
  /\ \A a \in Field : \A b \in Field : Plus(a, b) \in Field /\ Times(a, b) \in Field
  /\ \A a \in Field : /\ Plus(a, Zero) = a /\ Plus(Zero, a) = a /\ Plus(a, a) = Zero
                      /\ Times(a, Zero) = Zero /\ Times(a, One) = a
  /\ \A a \in Field : a # Zero => Inv(a) \in Field /\ Times(Inv(a), a) = One
  BY FieldAssumption

\* addScaled gives a row, with these entries, and keeps data in step.
LEMMA AddScaledRow ==
  ASSUME NEW dst \in Row, NEW src \in Row, NEW f \in Field
  PROVE  /\ AddScaled(dst, src, f) \in Row
         /\ \A c \in Col : AddScaled(dst, src, f).coef[c] = Plus(dst.coef[c], Times(f, src.coef[c]))
         /\ dst.data = dst.coef /\ src.data = src.coef =>
              AddScaled(dst, src, f).data = AddScaled(dst, src, f).coef
<1>1. \A v \in Vector, c \in Col : v[c] \in Field
  BY DEF Vector
<1>2. dst.coef \in Vector /\ dst.data \in Vector /\ src.coef \in Vector /\ src.data \in Vector
  BY DEF Row
<1>3. \A a, b \in Vector : [c \in Col |-> Plus(a[c], Times(f, b[c]))] \in Vector
  BY <1>1, FieldFacts DEF Vector
<1>4. AddScaled(dst, src, f) \in Row
  BY <1>2, <1>3 DEF AddScaled, Row
<1> QED
  BY <1>4 DEF AddScaled

\* scale gives a vector.
LEMMA ScaledVector ==
  ASSUME NEW v \in Vector, NEW f \in Field
  PROVE  Scaled(v, f) \in Vector /\ \A c \in Col : Scaled(v, f)[c] = Times(f, v[c])
  BY FieldFacts DEF Vector, Scaled
-----------------------------------------------------------------------------
(* The steps.                                                              *)

\* The first loop clears a column of the row in hand and keeps those cleared.
LEMMA ReduceInv == ASSUME IInv, Reduce PROVE IInv'
<1> USE DEF IInv
<1>1. /\ pc = "reduce" /\ col \in Col /\ row \in Row /\ rank < K
      /\ UNCHANGED <<pivots, rank, pivotCol>> /\ Pivoted' = Pivoted
  BY DEF Reduce, Typed, Counted, Pivoted
<1>2. \A c \in Pivoted : c \in Col /\ pivots[c] \in Row /\ pivots[c].coef \in Vector
  BY DEF Typed, Pivoted, Row
<1>3. \A v \in Vector, c \in Col : v[c] \in Field
  BY DEF Vector
<1>4. row.coef \in Vector /\ row.coef[col] \in Field
  BY <1>1, <1>3 DEF Row
<1>5. /\ row' \in Row
      /\ row'.data = row'.coef
      /\ \A d \in Pivoted : d < col \/ d = col => row'.coef[d] = Zero
  <2>1. CASE col \in Pivoted /\ row.coef[col] # Zero
    <3> DEFINE p == pivots[col]
               f == row.coef[col]
    <3>1. row' = AddScaled(row, p, f)
      BY <2>1, <1>1 DEF Reduce, Pivoted
    <3>2. /\ row' \in Row /\ row'.data = row'.coef
          /\ \A c \in Col : row'.coef[c] = Plus(row.coef[c], Times(f, p.coef[c]))
      BY <3>1, <2>1, <1>1, <1>2, <1>4, AddScaledRow DEF InStep
    <3>3. ASSUME NEW d \in Pivoted, d < col PROVE row'.coef[d] = Zero
      <4>1. d # col
        BY <3>3, <1>1, KAssumption DEF Col
      <4>2. p.coef[d] = Zero
        BY <2>1, <4>1, <1>2 DEF Echelon
      <4>3. row.coef[d] = Zero
        BY <3>3, <1>1 DEF Passed
      <4> QED
        BY <4>2, <4>3, <3>2, <1>2, <1>4, FieldFacts
    <3>4. row'.coef[col] = Zero
      <4>1. p.coef[col] = One
        BY <2>1 DEF Echelon
      <4> QED
        BY <4>1, <3>2, <1>1, <1>4, FieldFacts
    <3> QED
      BY <3>2, <3>3, <3>4
  <2>2. CASE ~(col \in Pivoted /\ row.coef[col] # Zero)
    BY <2>2, <1>1 DEF Reduce, Pivoted, InStep, Passed
  <2> QED
    BY <2>1, <2>2
<1>6. col \in Nat /\ K \in Nat /\ \A d \in Col : d \in Nat /\ d <= K
  BY <1>1, KAssumption DEF Col
<1>7. CASE col < K
  <2>1. col' = col + 1 /\ pc' = "reduce"
    BY <1>7, <1>1 DEF Reduce
  <2>2. col' \in Col
    BY <2>1, <1>7, <1>6, KAssumption DEF Col
  <2>3. Typed'
    BY <2>1, <2>2, <1>1, <1>5 DEF Typed
  <2>4. Passed'
    <3>1. ASSUME NEW d \in Pivoted, d < col + 1 PROVE d < col \/ d = col
      BY <3>1, <1>2, <1>6
    <3> QED
      BY <3>1, <2>1, <1>1, <1>5 DEF Passed
  <2>5. InStep' /\ Echelon' /\ Leads' /\ Freed' /\ Counted'
    BY <2>1, <1>1, <1>5 DEF InStep, Echelon, Leads, Freed, Counted
  <2> QED
    BY <2>3, <2>4, <2>5
<1>8. CASE ~(col < K)
  <2>1. col' = 1 /\ pc' = "lead" /\ 1 \in Col
    BY <1>8, <1>1, KAssumption DEF Reduce, Col
  <2>2. Typed'
    BY <2>1, <1>1, <1>5 DEF Typed
  <2>3. Passed'
    <3>1. ASSUME NEW d \in Pivoted PROVE d < col \/ d = col
      BY <1>2, <1>6, <1>8
    <3> QED
      BY <3>1, <2>1, <1>1, <1>5 DEF Passed
  <2>4. InStep' /\ Echelon' /\ Leads' /\ Freed' /\ Counted'
    BY <2>1, <1>1, <1>5 DEF InStep, Echelon, Leads, Freed, Counted
  <2> QED
    BY <2>2, <2>3, <2>4
<1> QED
  BY <1>7, <1>8

\* A row that leads somewhere leads where no pivot row does.
LEMMA NormalizeInv == ASSUME IInv, Normalize PROVE IInv'
<1> USE DEF IInv
<1>1. PICK c \in Col :
        /\ Leading(row.coef, c) /\ pivotCol' = c
        /\ row' = [coef |-> Scaled(row.coef, Inv(row.coef[c])),
                   data |-> Scaled(row.data, Inv(row.coef[c]))]
  BY DEF Normalize
<1>2. /\ pc = "lead" /\ pc' = "eliminate" /\ UNCHANGED <<pivots, rank, col>>
      /\ Pivoted' = Pivoted /\ Pivoted \subseteq Col
  BY DEF Normalize, Pivoted
<1>3. row.coef \in Vector /\ row.data \in Vector
  BY DEF Typed, Row
<1>4. \A d \in Col : row.coef[d] \in Field
  BY <1>3 DEF Vector
<1>5. row.coef[c] # Zero /\ \A d \in Col : d < c => row.coef[d] = Zero
  BY <1>1 DEF Leading
<1> DEFINE f == Inv(row.coef[c])
<1>6. f \in Field /\ Times(f, row.coef[c]) = One
  BY <1>4, <1>5, FieldFacts
<1>7. /\ row'.coef \in Vector /\ row'.data \in Vector
      /\ \A d \in Col : row'.coef[d] = Times(f, row.coef[d])
  BY <1>1, <1>3, <1>6, ScaledVector
<1>8. row' \in Row
  BY <1>1, <1>7 DEF Row
<1>9. row'.data = row'.coef
  BY <1>1 DEF InStep
<1>10. c \notin Pivoted
  BY <1>2, <1>5 DEF Passed
<1>11. \A d \in Col : d < c \/ d \in Pivoted => row'.coef[d] = Zero
  BY <1>2, <1>5, <1>6, <1>7, FieldFacts DEF Passed
<1>12. Typed'
  BY <1>1, <1>2, <1>8 DEF Typed
<1>13. Leads'
  BY <1>1, <1>2, <1>6, <1>7, <1>10, <1>11 DEF Leads
<1>14. col \in Col /\ (pc' = "eliminate" /\ rank < K)
  BY <1>2 DEF Typed, Counted
<1>15. Freed'
  <2>1. \A d \in Pivoted : ~(d < col)
    BY <1>2, KAssumption DEF Passed, Col
  <2>2. pc' = "eliminate" /\ Pivoted' = Pivoted /\ col' = col
    BY <1>2
  <2> QED
    BY <2>1, <2>2 DEF Freed
<1>16. InStep' /\ Echelon' /\ Passed' /\ Counted'
  <2>1. InStep'
    BY <1>2, <1>9 DEF InStep
  <2>2. Echelon'
    BY <1>2 DEF Echelon
  <2>3. Passed' /\ Counted'
    BY <1>14, <1>2 DEF Passed, Counted
  <2> QED
    BY <2>1, <2>2, <2>3
<1> QED
  BY <1>12, <1>13, <1>15, <1>16

\* The second loop clears the new column in a pivot row, which stays reduced.
LEMMA EliminateInv == ASSUME IInv, Eliminate PROVE IInv'
<1> USE DEF IInv
<1>1. /\ pc = "eliminate" /\ col \in Col /\ row \in Row /\ row.coef \in Vector /\ rank < K
      /\ UNCHANGED <<rank, row, pivotCol>>
  BY DEF Eliminate, Typed, Counted, Row
<1>2. /\ pivotCol \in Col \ Pivoted /\ row.coef[pivotCol] = One
      /\ \A d \in Col : d < pivotCol \/ d \in Pivoted => row.coef[d] = Zero
  BY <1>1 DEF Leads
<1>3. \A c \in Pivoted : c \in Col /\ pivots[c] \in Row /\ pivots[c].coef \in Vector
  BY DEF Typed, Pivoted, Row
<1>4. \A v \in Vector, c \in Col : v[c] \in Field
  BY DEF Vector
<1>5. col \in Nat /\ K \in Nat /\ \A d \in Col : d \in Nat /\ d <= K
  BY <1>1, KAssumption DEF Col
<1>6. /\ pivots' \in [Col -> Row \cup {None}] /\ Pivoted' = Pivoted
      /\ \A c \in Pivoted : c # col => pivots'[c] = pivots[c]
      /\ col \in Pivoted =>
           /\ pivots'[col].data = pivots'[col].coef
           /\ pivots'[col].coef[pivotCol] = Zero
           /\ pivots'[col].coef[col] = One
           /\ \A d \in Col : d < col \/ d \in Pivoted \ {col} => pivots'[col].coef[d] = Zero
  <2>1. CASE col \in Pivoted /\ pivots[col].coef[pivotCol] # Zero
    <3> DEFINE p == pivots[col]
               f == p.coef[pivotCol]
               q == AddScaled(p, row, f)
    <3>1. pivots' = [pivots EXCEPT ![col] = q]
      BY <2>1, <1>1 DEF Eliminate, Pivoted, Cleared
    <3>2. p \in Row /\ p.coef \in Vector /\ f \in Field /\ f # Zero
      BY <2>1, <1>2, <1>3, <1>4
    <3>3. /\ q \in Row /\ q.data = q.coef
          /\ \A d \in Col : q.coef[d] = Plus(p.coef[d], Times(f, row.coef[d]))
      <4>1. p.data = p.coef /\ row.data = row.coef
        BY <2>1 DEF InStep
      <4> HIDE DEF p, f
      <4> QED
        BY <4>1, <3>2, <1>1, AddScaledRow
    <3> HIDE DEF q
    <3>4. q.coef[pivotCol] = Zero
      BY <3>2, <3>3, <1>2, FieldFacts
    <3>5. p.coef[col] = One /\ \A d \in Col : d < col \/ d \in Pivoted \ {col} => p.coef[d] = Zero
      BY <2>1 DEF Echelon
    <3>6. q.coef[col] = One
      BY <2>1, <3>2, <3>3, <3>5, <1>1, <1>2, FieldFacts
    <3>7. col < pivotCol
      BY <2>1, <3>5, <1>2, <1>5
    <3>8. ASSUME NEW d \in Col, d < col \/ d \in Pivoted \ {col} PROVE q.coef[d] = Zero
      <4>1. p.coef[d] = Zero
        BY <3>8, <3>5
      <4>2. row.coef[d] = Zero
        BY <3>8, <3>7, <1>2, <1>5
      <4> QED
        BY <4>1, <4>2, <3>2, <3>3, FieldFacts
    <3>9. q # None
      BY <3>3, NoneAssumption
    <3>10. pivots \in [Col -> Row \cup {None}] /\ pivots'[col] = q
      BY <3>1, <1>1 DEF Typed
    <3>11. /\ pivots' \in [Col -> Row \cup {None}] /\ Pivoted' = Pivoted
           /\ \A c \in Pivoted : c # col => pivots'[c] = pivots[c]
      BY <3>1, <3>3, <3>9, <3>10, <2>1, <1>1 DEF Pivoted
    <3> QED
      BY <3>3, <3>4, <3>6, <3>8, <3>10, <3>11
  <2>2. CASE ~(col \in Pivoted /\ pivots[col].coef[pivotCol] # Zero)
    <3>1. pivots' = pivots
      BY <2>2, <1>1 DEF Eliminate, Pivoted
    <3> QED
      BY <3>1, <2>2 DEF Typed, Pivoted, InStep, Echelon
  <2> QED
    BY <2>1, <2>2
<1>7. InStep'
  BY <1>1, <1>6 DEF InStep
<1>8. Echelon'
  BY <1>6 DEF Echelon
<1>9. \A c \in Pivoted : c < col \/ c = col => pivots'[c].coef[pivotCol] = Zero
  <2> TAKE c \in Pivoted
  <2>1. c # col /\ c < col => pivots'[c].coef[pivotCol] = Zero
    BY <1>1, <1>6 DEF Freed
  <2> QED
    BY <2>1, <1>5, <1>6
<1>10. CASE col < K
  <2>1. col' = col + 1 /\ pc' = "eliminate" /\ col' \in Col
    BY <1>10, <1>1, <1>5, KAssumption DEF Eliminate, Col
  <2>2. Typed'
    BY <2>1, <1>1, <1>6 DEF Typed
  <2>3. Freed'
    <3>1. ASSUME NEW c \in Pivoted, c < col + 1 PROVE c < col \/ c = col
      BY <3>1, <1>3, <1>5
    <3> QED
      BY <3>1, <2>1, <1>1, <1>6, <1>9 DEF Freed
  <2>4. Leads' /\ Passed' /\ Counted'
    BY <2>1, <1>1, <1>2, <1>6 DEF Leads, Passed, Counted
  <2> QED
    BY <2>2, <2>3, <2>4, <1>7, <1>8
<1>11. CASE ~(col < K)
  <2>1. col' = 1 /\ pc' = "store" /\ 1 \in Col
    BY <1>11, <1>1, KAssumption DEF Eliminate, Col
  <2>2. Typed'
    BY <2>1, <1>1, <1>6 DEF Typed
  <2>3. Freed'
    <3>1. ASSUME NEW c \in Pivoted PROVE c < col \/ c = col
      BY <1>3, <1>5, <1>11
    <3> QED
      BY <3>1, <2>1, <1>1, <1>6, <1>9 DEF Freed
  <2>4. Leads' /\ Passed' /\ Counted'
    BY <2>1, <1>1, <1>2, <1>6 DEF Leads, Passed, Counted
  <2> QED
    BY <2>2, <2>3, <2>4, <1>7, <1>8
<1> QED
  BY <1>10, <1>11

\* The row becomes the pivot row of its column, one more.
LEMMA StoreInv == ASSUME IInv, Store PROVE IInv'
<1> USE DEF IInv
<1>1. /\ pc = "store" /\ pc' = "idle" /\ rank' = rank + 1 /\ row \in Row /\ row # None
      /\ pivots' = [pivots EXCEPT ![pivotCol] = row]
      /\ UNCHANGED <<row, col, pivotCol>>
  BY NoneAssumption DEF Store, Typed
<1>2. /\ pivotCol \in Col \ Pivoted /\ row.coef[pivotCol] = One
      /\ \A d \in Col : d < pivotCol \/ d \in Pivoted => row.coef[d] = Zero
  BY <1>1 DEF Leads
<1>3. /\ pivots' \in [Col -> Row \cup {None}]
      /\ pivots'[pivotCol] = row
      /\ \A c \in Col : c # pivotCol => pivots'[c] = pivots[c]
  BY <1>1, <1>2 DEF Typed
<1>4. Pivoted' = Pivoted \cup {pivotCol}
  BY <1>1, <1>2, <1>3 DEF Pivoted
<1>5. Pivoted \subseteq Col
  BY DEF Pivoted
<1>6. Typed'
  BY <1>1, <1>3 DEF Typed
<1>7. InStep'
  BY <1>1, <1>2, <1>3, <1>4, <1>5 DEF InStep
<1>8. Echelon'
  <2> SUFFICES ASSUME NEW c \in Pivoted'
               PROVE  /\ pivots'[c].coef[c] = One
                      /\ \A d \in Col : d < c \/ d \in Pivoted' \ {c} => pivots'[c].coef[d] = Zero
    BY DEF Echelon
  <2>1. CASE c = pivotCol
    BY <2>1, <1>2, <1>3, <1>4
  <2>2. CASE c # pivotCol
    <3>1. c \in Pivoted /\ pivots'[c] = pivots[c]
      BY <2>2, <1>3, <1>4, <1>5
    <3>2. pivots[c].coef[pivotCol] = Zero
      BY <3>1, <1>1 DEF Freed
    <3> QED
      BY <3>1, <3>2, <1>4 DEF Echelon
  <2> QED
    BY <2>1, <2>2
<1>9. Counted'
  <2>1. IsFiniteSet(Pivoted)
    <3>1. IsFiniteSet(Col)
      BY KAssumption, FS_Interval DEF Col
    <3> QED
      BY <3>1, <1>5, FS_Subset
  <2>2. Cardinality(Pivoted') = Cardinality(Pivoted) + 1
    BY <2>1, <1>2, <1>4, FS_AddElement
  <2> QED
    BY <2>2, <1>1 DEF Counted
<1>10. Passed' /\ Leads' /\ Freed'
  BY <1>1 DEF Passed, Leads, Freed
<1> QED
  BY <1>6, <1>7, <1>8, <1>9, <1>10

\* A new symbol is taken below full rank only.
LEMMA AddInv == ASSUME IInv, NEW v \in Vector, Add(v) PROVE IInv'
<1> USE DEF IInv
<1>1. /\ row' = [coef |-> v, data |-> v] /\ pc' = "reduce" /\ col' = 1 /\ rank < K
      /\ UNCHANGED <<pivots, rank, pivotCol>> /\ Pivoted' = Pivoted /\ Pivoted \subseteq Col
  BY DEF Add, Symbol, Pivoted
<1>2. row' \in Row /\ row'.data = row'.coef
  BY <1>1 DEF Row
<1>3. 1 \in Col /\ \A c \in Pivoted : ~(c < 1)
  BY <1>1, KAssumption DEF Col
<1>4. Typed'
  BY <1>1, <1>2, <1>3 DEF Typed
<1>5. Passed'
  BY <1>1, <1>3 DEF Passed
<1>6. InStep'
  BY <1>1, <1>2 DEF InStep
<1>7. Echelon' /\ Leads' /\ Freed' /\ Counted'
  BY <1>1 DEF Echelon, Leads, Freed, Counted
<1> QED
  BY <1>4, <1>5, <1>6, <1>7

LEMMA InitInv == Init => IInv
<1> SUFFICES ASSUME Init PROVE IInv
  OBVIOUS
<1>1. Pivoted = {} /\ Cardinality(Pivoted) = 0
  BY FS_EmptySet DEF Init, Pivoted
<1>2. ZeroRow \in Vector
  BY FieldFacts DEF ZeroRow, Vector
<1>3. Typed
  <2>1. row \in Row
    BY <1>2 DEF Init, Row
  <2>2. 1 \in Col
    BY KAssumption DEF Col
  <2> QED
    BY <2>1, <2>2 DEF Init, Typed
<1>4. InStep /\ Echelon /\ Counted
  BY <1>1 DEF Init, InStep, Echelon, Counted
<1>5. Passed /\ Leads /\ Freed
  BY DEF Init, Passed, Leads, Freed
<1> QED
  BY <1>3, <1>4, <1>5 DEF IInv

LEMMA NextInv == IInv /\ [Next]_vars => IInv'
<1> SUFFICES ASSUME IInv, [Next]_vars PROVE IInv'
  OBVIOUS
<1>1. CASE \E v \in Vector \ {ZeroRow} : Add(v)
  BY <1>1, AddInv
<1>2. CASE Dependent
  <2>1. pc' = "idle" /\ UNCHANGED <<pivots, rank, row, col, pivotCol>> /\ Pivoted' = Pivoted
    BY <1>2 DEF Dependent, Pivoted
  <2>2. Typed' /\ InStep' /\ Echelon'
    BY <2>1 DEF IInv, Typed, InStep, Echelon
  <2>3. Passed' /\ Leads' /\ Freed' /\ Counted'
    BY <2>1 DEF IInv, Passed, Leads, Freed, Counted
  <2> QED
    BY <2>2, <2>3 DEF IInv
<1>3. CASE UNCHANGED vars
  <2>1. UNCHANGED <<pivots, rank, row, pc, col, pivotCol>> /\ Pivoted' = Pivoted
    BY <1>3 DEF vars, Pivoted
  <2>2. Typed' /\ InStep' /\ Echelon'
    BY <2>1 DEF IInv, Typed, InStep, Echelon
  <2>3. Passed' /\ Leads' /\ Freed' /\ Counted'
    BY <2>1 DEF IInv, Passed, Leads, Freed, Counted
  <2> QED
    BY <2>2, <2>3 DEF IInv
<1> QED
  BY <1>1, <1>2, <1>3, ReduceInv, NormalizeInv, EliminateInv, StoreInv DEF Next
-----------------------------------------------------------------------------
(* What follows.                                                           *)

LEMMA Invariant == Spec => []IInv
  BY InitInv, NextInv, PTL DEF Spec

\* Between symbols the pivot rows are reduced and rank counts them.
THEOREM DecoderReduced == Spec => []Reduced
<1>1. IInv => Reduced
  BY DEF IInv, Counted, Echelon, Reduced
<1> QED
  BY <1>1, Invariant, PTL

\* Whatever symbols came, K independent ones decode to the source blocks.
THEOREM DecoderCorrect == Spec => []DecodesSource
<1>1. IInv => DecodesSource
  <2> SUFFICES ASSUME IInv, Decodable, NEW j \in Col PROVE Decoded[j] = Unit(j)
    BY DEF DecodesSource
  <2>1. IsFiniteSet(Col) /\ Cardinality(Col) = K
    BY KAssumption, FS_Interval DEF Col
  <2>2. Pivoted \subseteq Col /\ Cardinality(Pivoted) <= K /\ Cardinality(Pivoted) >= K
    BY <2>1, FS_Subset DEF IInv, Counted, Typed, Decodable, Pivoted
  <2>3. Cardinality(Pivoted) = K
    BY <2>2, KAssumption DEF IInv, Counted, Typed
  <2>4. Pivoted = Col
    BY <2>1, <2>2, <2>3, FS_Subset
  <2>5. pivots[j].coef[j] = One /\ \A d \in Col : d # j => pivots[j].coef[d] = Zero
    BY <2>4 DEF IInv, Echelon
  <2>6. pivots[j].coef \in Vector /\ pivots[j].data = pivots[j].coef
    <3>1. pivots[j] \in Row /\ pivots[j].data = pivots[j].coef
      BY <2>4 DEF IInv, Typed, InStep, Pivoted
    <3> QED
      BY <3>1 DEF Row
  <2> QED
    BY <2>5, <2>6 DEF Decoded, Unit, Vector
<1> QED
  BY <1>1, Invariant, PTL
-----------------------------------------------------------------------------
(* What can be combined.                                                   *)

\* Induction, for sets: the library's theorem takes a predicate.
LEMMA Induction ==
  ASSUME NEW S, 0 \in S, \A n \in Nat : n \in S => n + 1 \in S
  PROVE  Nat \subseteq S
<1> DEFINE T == Nat \ S
           R == {ss \in Nat \X Nat : ss[1] < ss[2]}
<1> SUFFICES ASSUME T # {} PROVE FALSE
  OBVIOUS
<1>1. IsWellFoundedOn(R, Nat)
  BY NatLessThanWellFounded, Zenon DEF OpToRel
<1>2. PICK x \in T : \A y \in T : <<y, x>> \notin R
  <2> HIDE DEF R
  <2> QED  BY <1>1, WFMin
<1>3. x \in Nat /\ x # 0 /\ x \notin S
  OBVIOUS
<1>4. x - 1 \in Nat /\ <<x - 1, x>> \in R
  BY <1>3
<1>5. x - 1 \in S
  BY <1>2, <1>4
<1> QED  BY <1>3, <1>4, <1>5

\* The laws that the combinations rest on.
LEMMA FieldLaws ==
  /\ \A a \in Field : \A b \in Field : Plus(a, b) = Plus(b, a) /\ Times(a, b) = Times(b, a)
  /\ \A a \in Field : \A b \in Field : \A c \in Field :
       /\ Plus(Plus(a, b), c) = Plus(a, Plus(b, c))
       /\ Times(Times(a, b), c) = Times(a, Times(b, c))
       /\ Times(a, Plus(b, c)) = Plus(Times(a, b), Times(a, c))
BY FieldAssumption

LEMMA VectorFacts ==
  ASSUME NEW v \in Vector, NEW w \in Vector, NEW f \in Field
  PROVE  /\ Sums(v, w) \in Vector /\ Scaled(v, f) \in Vector /\ ZeroRow \in Vector
         /\ \A c \in Col : /\ Sums(v, w)[c] = Plus(v[c], w[c])
                           /\ Scaled(v, f)[c] = Times(f, v[c]) /\ ZeroRow[c] = Zero
                           /\ v[c] \in Field /\ w[c] \in Field
<1>1. \A c \in Col : v[c] \in Field /\ w[c] \in Field
  BY DEF Vector
<1> QED  BY <1>1, FieldFacts DEF Sums, Scaled, ZeroRow, Vector

LEMMA SameVector ==
  ASSUME NEW v \in Vector, NEW w \in Vector, \A c \in Col : v[c] = w[c] PROVE v = w
BY DEF Vector

Subspace(S) ==
  /\ S \in SUBSET Vector /\ ZeroRow \in S
  /\ \A v, w \in S : Sums(v, w) \in S
  /\ \A v \in S : \A f \in Field : Scaled(v, f) \in S

LEMMA Shuffled ==
  ASSUME NEW a \in Field, NEW b \in Field, NEW c \in Field, NEW d \in Field
  PROVE  Plus(Plus(a, b), Plus(c, d)) = Plus(Plus(a, c), Plus(b, d))
<1>1. Plus(a, b) \in Field /\ Plus(c, d) \in Field /\ Plus(b, d) \in Field /\ Plus(b, c) \in Field
      /\ Plus(a, c) \in Field
  BY FieldFacts
<1>2. Plus(Plus(a, b), Plus(c, d)) = Plus(a, Plus(b, Plus(c, d)))
  BY <1>1, FieldLaws
<1>3. Plus(b, Plus(c, d)) = Plus(Plus(b, c), d)
  BY <1>1, FieldLaws
<1>4. Plus(b, c) = Plus(c, b)
  BY FieldLaws
<1>5. Plus(Plus(c, b), d) = Plus(c, Plus(b, d))
  BY <1>1, FieldLaws
<1>6. Plus(Plus(a, c), Plus(b, d)) = Plus(a, Plus(c, Plus(b, d)))
  BY <1>1, FieldLaws
<1> QED  BY <1>2, <1>3, <1>4, <1>5, <1>6

LEMMA FieldMore ==
  /\ \A a \in Field : Times(Zero, a) = Zero /\ Times(One, a) = a
  /\ \A a \in Field : \A b \in Field : \A c \in Field :
       Times(Plus(a, b), c) = Plus(Times(a, c), Times(b, c))
<1>1. ASSUME NEW a \in Field PROVE Times(Zero, a) = Zero /\ Times(One, a) = a
  BY FieldFacts, FieldLaws
<1>2. ASSUME NEW a \in Field, NEW b \in Field, NEW c \in Field
      PROVE  Times(Plus(a, b), c) = Plus(Times(a, c), Times(b, c))
  <2>1. Plus(a, b) \in Field
    BY FieldFacts
  <2>2. /\ Times(Plus(a, b), c) = Times(c, Plus(a, b))
        /\ Times(c, a) = Times(a, c) /\ Times(c, b) = Times(b, c)
    BY <2>1, FieldLaws
  <2>3. Times(c, Plus(a, b)) = Plus(Times(c, a), Times(c, b))
    BY FieldLaws
  <2> QED  BY <2>2, <2>3
<1> QED  BY <1>1, <1>2

\* Multiples of one more vector: a subspace again, and the least.
LEMMA WidenedFacts ==
  ASSUME NEW S, Subspace(S), NEW v \in Vector
  PROVE  /\ Subspace(Widened(S, v)) /\ S \subseteq Widened(S, v) /\ v \in Widened(S, v)
         /\ \A T : Subspace(T) /\ S \subseteq T /\ v \in T => Widened(S, v) \subseteq T
<1> DEFINE W == Widened(S, v)
<1>1. /\ S \in SUBSET Vector /\ ZeroRow \in S
      /\ \A x, y \in S : Sums(x, y) \in S
      /\ \A x \in S : \A f \in Field : Scaled(x, f) \in S
  BY DEF Subspace
<1>2. \A x \in S : \A f \in Field : Sums(x, Scaled(v, f)) \in W
  BY DEF Widened
<1>3. \A z \in W : \E x \in S : \E f \in Field : z = Sums(x, Scaled(v, f))
  BY DEF Widened
<1> HIDE DEF W
<1>4. ASSUME NEW x \in S, NEW f \in Field
      PROVE  /\ x \in Vector /\ Scaled(v, f) \in Vector /\ Sums(x, Scaled(v, f)) \in Vector
             /\ \A c \in Col : /\ x[c] \in Field /\ v[c] \in Field /\ Times(f, v[c]) \in Field
                               /\ Sums(x, Scaled(v, f))[c] = Plus(x[c], Times(f, v[c]))
  <2>1. x \in Vector /\ Scaled(v, f) \in Vector /\ \A c \in Col : Scaled(v, f)[c] = Times(f, v[c])
    BY <1>1, VectorFacts
  <2>2. /\ Sums(x, Scaled(v, f)) \in Vector
        /\ \A c \in Col : /\ Sums(x, Scaled(v, f))[c] = Plus(x[c], Scaled(v, f)[c])
                          /\ x[c] \in Field /\ Scaled(v, f)[c] \in Field
    BY <2>1, VectorFacts
  <2>3. \A c \in Col : v[c] \in Field
    BY DEF Vector
  <2> QED  BY <2>1, <2>2, <2>3
<1>5. S \subseteq W
  <2> SUFFICES ASSUME NEW x \in S PROVE x \in W
    OBVIOUS
  <2>1. /\ x \in Vector /\ Sums(x, Scaled(v, Zero)) \in Vector
        /\ \A c \in Col : /\ x[c] \in Field /\ v[c] \in Field
                          /\ Sums(x, Scaled(v, Zero))[c] = Plus(x[c], Times(Zero, v[c]))
    <3>1. Zero \in Field
      BY FieldFacts
    <3> QED  BY <1>4, <3>1
  <2>2. ASSUME NEW c \in Col PROVE Sums(x, Scaled(v, Zero))[c] = x[c]
    <3>1. Times(Zero, v[c]) = Zero /\ Plus(x[c], Zero) = x[c]
      BY <2>1, <2>2, FieldFacts, FieldMore
    <3> QED  BY <2>1, <2>2, <3>1
  <2>3. Sums(x, Scaled(v, Zero)) = x
    BY <2>1, <2>2, SameVector
  <2> QED  BY <1>2, <2>3, FieldFacts
<1>6. v \in W
  <2>1. /\ Sums(ZeroRow, Scaled(v, One)) \in Vector
        /\ \A c \in Col : /\ v[c] \in Field
                          /\ Sums(ZeroRow, Scaled(v, One))[c] = Plus(ZeroRow[c], Times(One, v[c]))
    <3>1. One \in Field
      BY FieldFacts
    <3> QED  BY <1>1, <1>4, <3>1
  <2>2. ASSUME NEW c \in Col PROVE Sums(ZeroRow, Scaled(v, One))[c] = v[c]
    <3>1. Times(One, v[c]) = v[c] /\ Plus(Zero, v[c]) = v[c] /\ ZeroRow[c] = Zero
      BY <2>1, <2>2, FieldFacts, FieldMore DEF ZeroRow
    <3> QED  BY <2>1, <2>2, <3>1
  <2>3. Sums(ZeroRow, Scaled(v, One)) = v
    BY <2>1, <2>2, SameVector
  <2> QED  BY <1>1, <1>2, <2>3, FieldFacts
<1>7. W \in SUBSET Vector /\ ZeroRow \in W
  BY <1>1, <1>3, <1>4, <1>5
<1>8. ASSUME NEW z \in W, NEW u \in W PROVE Sums(z, u) \in W
  <2>1. PICK x \in S, f \in Field : z = Sums(x, Scaled(v, f))
    BY <1>3
  <2>2. PICK y \in S, g \in Field : u = Sums(y, Scaled(v, g))
    BY <1>3
  <2> DEFINE h == Plus(f, g)
             t == Sums(x, y)
             r == Sums(t, Scaled(v, h))
  <2>3. h \in Field /\ t \in S /\ x \in Vector /\ y \in Vector
    BY <1>1, FieldFacts
  <2>4. \A c \in Col : t[c] = Plus(x[c], y[c])
    BY <2>3, VectorFacts, FieldFacts
  <2>5. z \in Vector /\ u \in Vector /\ Sums(z, u) \in Vector
        /\ \A c \in Col : Sums(z, u)[c] = Plus(z[c], u[c])
    BY <1>7, VectorFacts, FieldFacts
  <2> HIDE DEF h, t
  <2>6. r \in Vector /\ r \in W
        /\ \A c \in Col : r[c] = Plus(t[c], Times(h, v[c]))
    BY <1>2, <1>4, <2>3
  <2>7. ASSUME NEW c \in Col PROVE Sums(z, u)[c] = r[c]
    <3>1. /\ x[c] \in Field /\ y[c] \in Field /\ v[c] \in Field
          /\ Times(f, v[c]) \in Field /\ Times(g, v[c]) \in Field
          /\ z[c] = Plus(x[c], Times(f, v[c])) /\ u[c] = Plus(y[c], Times(g, v[c]))
      BY <1>4, <2>1, <2>2, <2>7
    <3>2. Times(h, v[c]) = Plus(Times(f, v[c]), Times(g, v[c]))
      BY <3>1, FieldMore DEF h
    <3>3. Plus(Plus(x[c], Times(f, v[c])), Plus(y[c], Times(g, v[c])))
            = Plus(Plus(x[c], y[c]), Plus(Times(f, v[c]), Times(g, v[c])))
      BY <3>1, Shuffled
    <3> QED  BY <2>4, <2>5, <2>6, <2>7, <3>1, <3>2, <3>3
  <2>8. Sums(z, u) = r
    BY <2>5, <2>6, <2>7, SameVector
  <2> QED  BY <2>6, <2>8
<1>9. ASSUME NEW z \in W, NEW g \in Field PROVE Scaled(z, g) \in W
  <2>1. PICK x \in S, f \in Field : z = Sums(x, Scaled(v, f))
    BY <1>3
  <2> DEFINE h == Times(g, f)
             t == Scaled(x, g)
             r == Sums(t, Scaled(v, h))
  <2>2. h \in Field /\ t \in S /\ x \in Vector /\ z \in Vector
    BY <1>1, <1>7, FieldFacts
  <2>3. \A c \in Col : t[c] = Times(g, x[c])
    BY <1>9, <2>2, ScaledVector
  <2>4. Scaled(z, g) \in Vector /\ \A c \in Col : Scaled(z, g)[c] = Times(g, z[c])
    BY <1>9, <2>2, ScaledVector
  <2> HIDE DEF h, t
  <2>5. r \in Vector /\ r \in W /\ \A c \in Col : r[c] = Plus(t[c], Times(h, v[c]))
    BY <1>2, <1>4, <2>2
  <2>6. ASSUME NEW c \in Col PROVE Scaled(z, g)[c] = r[c]
    <3>1. /\ x[c] \in Field /\ v[c] \in Field /\ Times(f, v[c]) \in Field
          /\ z[c] = Plus(x[c], Times(f, v[c]))
      BY <1>4, <2>1, <2>6
    <3>2. Times(g, z[c]) = Plus(Times(g, x[c]), Times(g, Times(f, v[c])))
      BY <3>1, FieldLaws
    <3>3. Times(g, Times(f, v[c])) = Times(h, v[c])
      BY <3>1, FieldLaws DEF h
    <3> QED  BY <2>3, <2>4, <2>5, <2>6, <3>2, <3>3
  <2>7. Scaled(z, g) = r
    BY <2>4, <2>5, <2>6, SameVector
  <2> QED  BY <2>5, <2>7
<1>10. ASSUME NEW T, Subspace(T), S \subseteq T, v \in T PROVE W \subseteq T
  <2> SUFFICES ASSUME NEW z \in W PROVE z \in T
    OBVIOUS
  <2>1. PICK x \in S, f \in Field : z = Sums(x, Scaled(v, f))
    BY <1>3
  <2>2. x \in T /\ Scaled(v, f) \in T
    BY <1>10 DEF Subspace
  <2> QED  BY <1>10, <2>1, <2>2 DEF Subspace
<1>11. Subspace(W)
  BY <1>7, <1>8, <1>9 DEF Subspace
<1> QED  BY <1>5, <1>6, <1>10, <1>11 DEF W

\* The function that Spanned defines exists.
LEMMA SpannedTable ==
  ASSUME NEW rows \in [Col -> Row \cup {None}], NEW base \in SUBSET Vector
  PROVE  \E t \in [0..K -> SUBSET Vector] :
           /\ t[0] = base /\ Spanned(rows, base) = t[K]
           /\ \A c \in Col : t[c] = IF rows[c] = None THEN t[c - 1]
                                    ELSE Widened(t[c - 1], rows[c].coef)
<1> DEFINE By(g, c) == IF c = 0 THEN base
                       ELSE IF rows[c] = None THEN g[c - 1]
                       ELSE Widened(g[c - 1], rows[c].coef)
           Runs(g, m) == g \in [0..m -> SUBSET Vector] /\ \A c \in 0..m : g[c] = By(g, c)
           N == {m \in Nat : m <= K => \E g : Runs(g, m)}
           Table(t) == t = [c \in 0..K |-> By(t, c)]
<1>1. K \in Nat /\ Col = 1..K
  BY KAssumption DEF Col
<1>2. ASSUME NEW S \in SUBSET Vector, NEW v \in Vector PROVE Widened(S, v) \in SUBSET Vector
  <2>1. \A w \in S : \A f \in Field : Sums(w, Scaled(v, f)) \in Vector
    BY <1>2, VectorFacts
  <2> QED  BY <2>1 DEF Widened
<1>3. ASSUME NEW g, NEW c \in 0..K, c > 0 => g[c - 1] \in SUBSET Vector
      PROVE  By(g, c) \in SUBSET Vector
  <2>1. CASE c = 0 \/ rows[c] = None
    BY <1>1, <1>3, <2>1
  <2>2. CASE c # 0 /\ rows[c] # None
    <3>1. c \in Col /\ c > 0
      BY <1>1, <1>3, <2>2
    <3>2. rows[c] \in Row
      BY <2>2, <3>1
    <3>3. rows[c].coef \in Vector
      BY <3>2 DEF Row
    <3> QED  BY <1>2, <1>3, <2>2, <3>1, <3>3
  <2> QED  BY <2>1, <2>2
<1>4. \E g : Runs(g, K)
  <2>1. 0 \in N
    <3>1. Runs([c \in 0..0 |-> base], 0)
      OBVIOUS
    <3> QED  BY <3>1
  <2>2. ASSUME NEW m \in Nat, m \in N PROVE m + 1 \in N
    <3> SUFFICES ASSUME m + 1 <= K PROVE \E g : Runs(g, m + 1)
      OBVIOUS
    <3>1. PICK g : Runs(g, m)
      <4>1. m <= K
        BY <1>1
      <4> HIDE DEF Runs
      <4> QED  BY <4>1, <2>2
    <3> DEFINE h == [c \in 0..(m + 1) |-> IF c <= m THEN g[c] ELSE By(g, m + 1)]
    <3>2. By(g, m + 1) \in SUBSET Vector
      <4>1. m + 1 \in 0..K /\ g[(m + 1) - 1] \in SUBSET Vector
        BY <3>1, <1>1
      <4> HIDE DEF By
      <4> QED  BY <4>1, <1>3
    <3>3. h \in [0..(m + 1) -> SUBSET Vector]
      <4>1. g \in [0..m -> SUBSET Vector]
        BY <3>1
      <4> HIDE DEF By
      <4> QED  BY <4>1, <3>2
    <3>4. \A c \in 0..m : h[c] = g[c]
      BY <3>1
    <3>5. h[m + 1] = By(g, m + 1)
      <4> HIDE DEF By
      <4> QED  OBVIOUS
    <3> HIDE DEF h
    <3>6. ASSUME NEW c \in 0..(m + 1) PROVE h[c] = By(h, c)
      <4>1. By(h, c) = By(g, c)
        <5>1. CASE c = 0
          BY <5>1
        <5>2. CASE c # 0
          <6>1. c - 1 \in 0..m
            BY <3>6, <5>2
          <6>2. h[c - 1] = g[c - 1]
            BY <6>1, <3>4
          <6> QED  BY <5>2, <6>2
        <5> QED  BY <5>1, <5>2
      <4>2. CASE c <= m
        <5>1. c \in 0..m
          BY <3>6, <4>2
        <5>2. h[c] = g[c] /\ g[c] = By(g, c)
          BY <5>1, <3>1, <3>4
        <5> QED  BY <5>2, <4>1
      <4>3. CASE c = m + 1
        BY <4>1, <4>3, <3>5
      <4> QED  BY <3>6, <4>2, <4>3
    <3>7. Runs(h, m + 1)
      BY <3>3, <3>6
    <3> QED  BY <3>7
  <2> HIDE DEF N
  <2>3. Nat \subseteq N
    BY <2>1, <2>2, Induction
  <2> QED  BY <2>3, <1>1 DEF N
<1>5. PICK g : Runs(g, K)
  BY <1>4
<1>6. Table(g)
  <2> DEFINE h == [c \in 0..K |-> By(g, c)]
  <2>1. g \in [0..K -> SUBSET Vector] /\ \A c \in 0..K : g[c] = h[c]
    BY <1>5
  <2>2. g = h
    BY <2>1
  <2> QED  BY <2>2
<1> DEFINE t == CHOOSE f : Table(f)
<1>7. Table(t)
  <2> HIDE DEF Table
  <2> QED  BY <1>6, Zenon
<1>8. Spanned(rows, base) = t[K]
  BY Zenon DEF Spanned
<1> HIDE DEF t
<1>9. DOMAIN t = 0..K /\ \A c \in 0..K : t[c] = By(t, c)
  BY <1>7
<1>10. ASSUME NEW c \in Nat PROVE c <= K => t[c] \in SUBSET Vector
  <2> DEFINE M == {m \in Nat : m <= K => t[m] \in SUBSET Vector}
  <2>1. 0 \in M
    BY <1>1, <1>9
  <2>2. ASSUME NEW m \in Nat, m \in M PROVE m + 1 \in M
    <3> SUFFICES ASSUME m + 1 <= K PROVE t[m + 1] \in SUBSET Vector
      OBVIOUS
    <3>1. m + 1 \in 0..K /\ t[(m + 1) - 1] \in SUBSET Vector
      BY <1>1, <2>2
    <3>2. t[m + 1] = By(t, m + 1)
      BY <1>9, <3>1
    <3> HIDE DEF By
    <3> QED  BY <1>3, <3>1, <3>2
  <2> HIDE DEF M
  <2>3. Nat \subseteq M
    BY <2>1, <2>2, Induction
  <2> QED  BY <1>10, <2>3 DEF M
<1>11. t \in [0..K -> SUBSET Vector]
  <2>1. \A c \in 0..K : t[c] \in SUBSET Vector
    BY <1>1, <1>10
  <2>2. t = [c \in 0..K |-> t[c]]
    <3> HIDE DEF By
    <3> QED  BY <1>7
  <2> QED  BY <2>1, <2>2
<1>12. t[0] = base
  BY <1>1, <1>9
<1>13. ASSUME NEW c \in Col
       PROVE  t[c] = IF rows[c] = None THEN t[c - 1] ELSE Widened(t[c - 1], rows[c].coef)
  <2>1. c \in 0..K /\ c # 0
    BY <1>1, <1>13
  <2> QED  BY <1>9, <2>1
<1> QED  BY <1>8, <1>11, <1>12, <1>13

\* What is spanned is a subspace with the base and all rows in it, and the least.
LEMMA SpannedFacts ==
  ASSUME NEW rows \in [Col -> Row \cup {None}], NEW base, Subspace(base)
  PROVE  /\ Subspace(Spanned(rows, base)) /\ base \subseteq Spanned(rows, base)
         /\ \A c \in Col : rows[c] # None => rows[c].coef \in Spanned(rows, base)
         /\ \A T : /\ Subspace(T) /\ base \subseteq T
                   /\ \A c \in Col : rows[c] # None => rows[c].coef \in T
                   => Spanned(rows, base) \subseteq T
<1>1. K \in Nat /\ Col = 1..K
  BY KAssumption DEF Col
<1>2. base \in SUBSET Vector
  BY DEF Subspace
<1>3. PICK t \in [0..K -> SUBSET Vector] :
        /\ t[0] = base /\ Spanned(rows, base) = t[K]
        /\ \A c \in Col : t[c] = IF rows[c] = None THEN t[c - 1]
                                 ELSE Widened(t[c - 1], rows[c].coef)
  BY <1>2, SpannedTable
<1>4. \A c \in Col : rows[c] # None => rows[c].coef \in Vector
  BY DEF Row
<1> DEFINE Good(n) == /\ Subspace(t[n]) /\ base \subseteq t[n]
                      /\ \A c \in 1..n : rows[c] # None => rows[c].coef \in t[n]
           N == {n \in Nat : n <= K => Good(n)}
<1>5. 0 \in N
  BY <1>3
<1>6. ASSUME NEW n \in Nat, n \in N PROVE n + 1 \in N
  <2> SUFFICES ASSUME n + 1 <= K PROVE Good(n + 1)
    OBVIOUS
  <2>1. Good(n) /\ n + 1 \in Col /\ (n + 1) - 1 = n
    BY <1>1, <1>6
  <2>2. t[n + 1] = IF rows[n + 1] = None THEN t[n] ELSE Widened(t[n], rows[n + 1].coef)
    BY <1>3, <2>1
  <2>3. CASE rows[n + 1] = None
    <3>1. t[n + 1] = t[n]
      BY <2>2, <2>3
    <3>2. \A c \in 1..(n + 1) : c \in 1..n \/ c = n + 1
      OBVIOUS
    <3> QED  BY <2>1, <2>3, <3>1, <3>2
  <2>4. CASE rows[n + 1] # None
    <3> DEFINE v == rows[n + 1].coef
               W == Widened(t[n], v)
    <3>1. t[n + 1] = W /\ v \in Vector
      BY <1>4, <2>1, <2>2, <2>4
    <3>2. Subspace(W) /\ t[n] \subseteq W /\ v \in W
      BY <2>1, <3>1, WidenedFacts
    <3>3. \A c \in 1..(n + 1) : c \in 1..n \/ c = n + 1
      OBVIOUS
    <3> HIDE DEF W
    <3>4. \A c \in 1..(n + 1) : rows[c] # None => rows[c].coef \in W
      BY <2>1, <3>2, <3>3
    <3> QED  BY <2>1, <3>1, <3>2, <3>4
  <2> QED  BY <2>3, <2>4
<1>7. Nat \subseteq N
  <2> HIDE DEF N
  <2> QED  BY <1>5, <1>6, Induction
<1>8. Good(K)
  BY <1>1, <1>7
<1>9. ASSUME NEW T, Subspace(T), base \subseteq T,
             \A c \in Col : rows[c] # None => rows[c].coef \in T
      PROVE  t[K] \subseteq T
  <2> DEFINE M == {n \in Nat : n <= K => t[n] \subseteq T}
  <2>1. 0 \in M
    BY <1>3, <1>9
  <2>2. ASSUME NEW n \in Nat, n \in M PROVE n + 1 \in M
    <3> SUFFICES ASSUME n + 1 <= K PROVE t[n + 1] \subseteq T
      OBVIOUS
    <3>1. t[n] \subseteq T /\ n + 1 \in Col /\ (n + 1) - 1 = n /\ Subspace(t[n])
      BY <1>1, <1>7, <2>2
    <3>2. t[n + 1] = IF rows[n + 1] = None THEN t[n] ELSE Widened(t[n], rows[n + 1].coef)
      BY <1>3, <3>1
    <3>3. CASE rows[n + 1] = None
      BY <3>1, <3>2, <3>3
    <3>4. CASE rows[n + 1] # None
      <4>1. rows[n + 1].coef \in Vector /\ rows[n + 1].coef \in T
        BY <1>4, <1>9, <3>1, <3>4
      <4>2. Widened(t[n], rows[n + 1].coef) \subseteq T
        BY <1>9, <3>1, <4>1, WidenedFacts
      <4> QED  BY <3>2, <3>4, <4>2
    <3> QED  BY <3>3, <3>4
  <2>3. Nat \subseteq M
    <3> HIDE DEF M
    <3> QED  BY <2>1, <2>2, Induction
  <2> QED  BY <1>1, <2>3
<1> QED  BY <1>1, <1>3, <1>8, <1>9

\* The row of zeros alone is a subspace.
LEMMA ZeroSpace == Subspace({ZeroRow})
<1>1. ZeroRow \in Vector
  BY FieldFacts DEF ZeroRow, Vector
<1>2. Sums(ZeroRow, ZeroRow) = ZeroRow
  BY FieldFacts DEF Sums, ZeroRow
<1>3. \A f \in Field : Scaled(ZeroRow, f) = ZeroRow
  BY FieldFacts DEF Scaled, ZeroRow
<1> QED  BY <1>1, <1>2, <1>3 DEF Subspace

\* Nothing is lost if every row, and the row in hand, is in a subspace.
LEMMA StillSpanned ==
  ASSUME NEW rows \in [Col -> Row \cup {None}], NEW v \in Vector, NEW S, Subspace(S), v \in S,
         \A c \in Col : rows[c] # None => rows[c].coef \in S
  PROVE  Spanned(rows, Widened({ZeroRow}, v)) \subseteq S
<1> DEFINE W == Widened({ZeroRow}, v)
<1>1. {ZeroRow} \subseteq S
  BY DEF Subspace
<1>2. Subspace(W) /\ W \subseteq S
  BY <1>1, ZeroSpace, WidenedFacts
<1> HIDE DEF W
<1>3. Spanned(rows, W) \subseteq S
  BY <1>2, SpannedFacts
<1> QED  BY <1>3 DEF W

\* A vector is got back from its sum with another, and from a multiple of it.
LEMMA GotBack ==
  ASSUME NEW v \in Vector, NEW w \in Vector, NEW f \in Field
  PROVE  /\ Sums(Sums(v, Scaled(w, f)), Scaled(w, f)) = v
         /\ f # Zero => Scaled(Scaled(v, Inv(f)), f) = v
<1> DEFINE x == Scaled(w, f)
           y == Sums(v, x)
           z == Sums(y, x)
<1>1. x \in Vector
  BY ScaledVector
<1> HIDE DEF x
<1>2. y \in Vector /\ \A c \in Col : y[c] = Plus(v[c], x[c]) /\ v[c] \in Field /\ x[c] \in Field
  BY <1>1, VectorFacts
<1> HIDE DEF y
<1>3. z \in Vector /\ \A c \in Col : z[c] = Plus(y[c], x[c])
  BY <1>1, <1>2, VectorFacts
<1>4. ASSUME NEW c \in Col PROVE z[c] = v[c]
  <2>1. v[c] \in Field /\ x[c] \in Field /\ z[c] = Plus(Plus(v[c], x[c]), x[c])
    BY <1>2, <1>3, <1>4
  <2>2. Plus(Plus(v[c], x[c]), x[c]) = Plus(v[c], Plus(x[c], x[c]))
    BY <2>1, FieldLaws
  <2>3. Plus(x[c], x[c]) = Zero /\ Plus(v[c], Zero) = v[c]
    BY <2>1, FieldFacts
  <2> QED  BY <2>1, <2>2, <2>3
<1>5. z = v
  BY <1>3, <1>4, SameVector
<1>6. ASSUME f # Zero PROVE Scaled(Scaled(v, Inv(f)), f) = v
  <2> DEFINE g == Inv(f)
             a == Scaled(v, g)
             b == Scaled(a, f)
  <2>1. g \in Field /\ Times(g, f) = One
    BY <1>6, FieldFacts
  <2> HIDE DEF g
  <2>2. a \in Vector /\ \A c \in Col : a[c] = Times(g, v[c])
    BY <2>1, ScaledVector
  <2> HIDE DEF a
  <2>3. b \in Vector /\ \A c \in Col : b[c] = Times(f, a[c])
    BY <2>2, ScaledVector
  <2> HIDE DEF b
  <2>4. ASSUME NEW c \in Col PROVE b[c] = v[c]
    <3>1. v[c] \in Field /\ b[c] = Times(f, Times(g, v[c]))
      BY <1>2, <2>2, <2>3, <2>4
    <3>2. Times(f, Times(g, v[c])) = Times(Times(f, g), v[c]) /\ Times(f, g) = Times(g, f)
      BY <2>1, <3>1, FieldLaws
    <3>3. Times(One, v[c]) = v[c]
      BY <3>1, FieldMore
    <3> QED  BY <2>1, <3>1, <3>2, <3>3
  <2>5. b = v
    BY <2>3, <2>4, SameVector
  <2> QED  BY <2>5 DEF a, b, g
<1> QED  BY <1>5, <1>6 DEF x, y
-----------------------------------------------------------------------------
\* The steps of add, each from an invariant state.

\* addScaled, of coefficients.
LEMMA AddScaledCoef ==
  ASSUME NEW dst \in Row, NEW src \in Row, NEW f \in Field
  PROVE  AddScaled(dst, src, f).coef = Sums(dst.coef, Scaled(src.coef, f))
<1>1. dst.coef \in Vector /\ src.coef \in Vector
  BY DEF Row
<1> QED  BY <1>1 DEF AddScaled, Sums, Scaled, Vector

LEMMA RowsTyped ==
  ASSUME Typed
  PROVE  /\ pivots \in [Col -> Row \cup {None}] /\ row \in Row /\ row.coef \in Vector
         /\ \A c \in Col : pivots[c] # None => pivots[c] \in Row /\ pivots[c].coef \in Vector
BY DEF Typed, Row

\* What the rows of the next state span is a subspace they are in.
LEMMA NextSpan ==
  ASSUME Typed'
  PROVE  /\ Subspace(Combinations')
         /\ \A c \in Col : pivots'[c] # None => pivots'[c].coef \in Combinations'
         /\ ~Idle' => row'.coef \in Combinations'
<1> DEFINE p == pivots'
           v == row'.coef
           W == Widened({ZeroRow}, v)
<1>1. p \in [Col -> Row \cup {None}] /\ v \in Vector
  BY DEF Typed, Row
<1>2. Subspace(W) /\ v \in W
  BY <1>1, ZeroSpace, WidenedFacts
<1>3. Combinations' = Spanned(p, IF Idle' THEN {ZeroRow} ELSE W)
  BY DEF Combinations
<1> HIDE DEF p, W
<1>4. CASE Idle'
  <2>1. Combinations' = Spanned(p, {ZeroRow})
    BY <1>3, <1>4
  <2> QED  BY <1>1, <1>4, <2>1, ZeroSpace, SpannedFacts DEF p
<1>5. CASE ~Idle'
  <2>1. Combinations' = Spanned(p, W)
    BY <1>3, <1>5
  <2> QED  BY <1>1, <1>2, <2>1, SpannedFacts DEF p
<1> QED  BY <1>4, <1>5

\* Each row of the state, and the row in hand, can still be combined after the step.
LEMMA StepKeeps ==
  ASSUME IInv, [Next]_vars, ~Idle PROVE Combinations \subseteq Combinations'
<1> DEFINE S == Combinations'
<1>1. Typed' /\ Typed
  BY NextInv DEF IInv
<1>2. /\ Subspace(S)
      /\ \A c \in Col : pivots'[c] # None => pivots'[c].coef \in S
      /\ ~Idle' => row'.coef \in S
  BY <1>1, NextSpan
<1> HIDE DEF S
<1>3. /\ pivots \in [Col -> Row \cup {None}] /\ row \in Row /\ row.coef \in Vector
      /\ \A c \in Col : pivots[c] # None => pivots[c] \in Row /\ pivots[c].coef \in Vector
  BY <1>1, RowsTyped
<1>4. /\ \A v, w \in S : Sums(v, w) \in S
      /\ \A v \in S : \A f \in Field : Scaled(v, f) \in S
      /\ ZeroRow \in S
  BY <1>2 DEF Subspace
<1>5. ASSUME row.coef \in S, \A c \in Col : pivots[c] # None => pivots[c].coef \in S
      PROVE  Combinations \subseteq S
  <2>1. Combinations = Spanned(pivots, Widened({ZeroRow}, row.coef))
    BY DEF Combinations
  <2> QED  BY <1>2, <1>3, <1>5, <2>1, StillSpanned
<1>6. \A v \in Vector : \A c \in Col : v[c] \in Field
  BY DEF Vector
<1>7. CASE Reduce
  <2>1. pivots' = pivots /\ ~Idle' /\ col \in Col
    BY <1>1, <1>7 DEF Reduce, Idle, Typed
  <2>2. CASE pivots[col] # None /\ row.coef[col] # Zero
    <3> DEFINE f == row.coef[col]
               p == pivots[col].coef
    <3>1. f \in Field /\ p \in Vector /\ pivots[col] \in Row
      BY <1>3, <1>6, <2>1, <2>2
    <3>2. row' = AddScaled(row, pivots[col], f)
      BY <1>7, <2>2 DEF Reduce
    <3> HIDE DEF f
    <3>3. row'.coef = Sums(row.coef, Scaled(p, f))
      BY <1>3, <3>1, <3>2, AddScaledCoef
    <3>4. p \in S
      BY <1>2, <2>1, <2>2
    <3> HIDE DEF p
    <3>5. Sums(row'.coef, Scaled(p, f)) \in S
      BY <1>2, <1>4, <2>1, <3>1, <3>4
    <3>6. row.coef \in S
      BY <1>3, <3>1, <3>3, <3>5, GotBack
    <3> QED  BY <1>2, <1>5, <2>1, <3>6 DEF S
  <2>3. CASE ~(pivots[col] # None /\ row.coef[col] # Zero)
    <3>1. row' = row
      BY <1>7, <2>3 DEF Reduce
    <3> QED  BY <1>2, <1>5, <2>1, <3>1 DEF S
  <2> QED  BY <2>2, <2>3
<1>8. CASE Dependent
  <2>1. pivots' = pivots /\ row.coef = ZeroRow
    BY <1>8 DEF Dependent
  <2> QED  BY <1>2, <1>4, <1>5, <2>1 DEF S
<1>9. CASE Normalize
  <2>1. PICK c \in Col :
          /\ Leading(row.coef, c)
          /\ row' = [coef |-> Scaled(row.coef, Inv(row.coef[c])),
                     data |-> Scaled(row.data, Inv(row.coef[c]))]
    BY <1>9 DEF Normalize
  <2>2. pivots' = pivots /\ ~Idle'
    BY <1>9 DEF Normalize, Idle
  <2> DEFINE f == row.coef[c]
  <2>3. f \in Field /\ f # Zero
    BY <1>3, <1>6, <2>1 DEF Leading
  <2>4. row'.coef = Scaled(row.coef, Inv(f)) /\ row'.coef \in S
    BY <1>2, <2>1, <2>2
  <2> HIDE DEF f
  <2>5. Scaled(row'.coef, f) \in S
    BY <1>4, <2>3, <2>4
  <2>6. row.coef \in S
    BY <1>3, <2>3, <2>4, <2>5, GotBack
  <2> QED  BY <1>2, <1>5, <2>2, <2>6 DEF S
<1>10. CASE Eliminate
  <2>1. row' = row /\ ~Idle' /\ col \in Col /\ pc = "eliminate"
    BY <1>1, <1>10 DEF Eliminate, Idle, Typed
  <2>2. row.coef \in S
    BY <1>2, <2>1
  <2>3. pivotCol \in Col
    BY <2>1 DEF IInv, Leads
  <2>4. CASE pivots[col] # None /\ pivots[col].coef[pivotCol] # Zero
    <3> DEFINE p == pivots[col].coef
               f == p[pivotCol]
               q == AddScaled(pivots[col], row, f)
    <3>1. f \in Field /\ p \in Vector /\ pivots[col] \in Row
      BY <1>3, <1>6, <2>1, <2>3, <2>4
    <3>2. pivots' = [pivots EXCEPT ![col] = q]
      BY <1>10, <2>4 DEF Eliminate, Cleared
    <3> HIDE DEF f
    <3>3. q.coef = Sums(p, Scaled(row.coef, f)) /\ q \in Row
      BY <1>3, <3>1, AddScaledCoef, AddScaledRow
    <3> HIDE DEF p, q
    <3>4. q # None
      BY <3>3, NoneAssumption
    <3>5. pivots'[col] = q /\ \A c \in Col : c # col => pivots'[c] = pivots[c]
      BY <1>3, <2>1, <3>2
    <3>6. q.coef \in S
      BY <1>2, <2>1, <3>4, <3>5
    <3>7. Sums(q.coef, Scaled(row.coef, f)) \in S
      BY <1>4, <2>2, <3>1, <3>6
    <3>8. p \in S
      BY <1>3, <3>1, <3>3, <3>7, GotBack
    <3>9. \A c \in Col : pivots[c] # None => pivots[c].coef \in S
      BY <1>2, <3>5, <3>8 DEF p
    <3> QED  BY <1>5, <2>2, <3>9 DEF S
  <2>5. CASE ~(pivots[col] # None /\ pivots[col].coef[pivotCol] # Zero)
    <3>1. pivots' = pivots
      BY <1>10, <2>5 DEF Eliminate
    <3> QED  BY <1>2, <1>5, <2>2, <3>1 DEF S
  <2> QED  BY <2>4, <2>5
<1>11. CASE Store
  <2>1. pc = "store" /\ pivots' = [pivots EXCEPT ![pivotCol] = row] /\ row \in Row /\ row # None
    BY <1>3, <1>11, NoneAssumption DEF Store
  <2>2. pivotCol \in Col /\ pivots[pivotCol] = None
    BY <2>1 DEF IInv, Leads, Pivoted
  <2>3. pivots'[pivotCol] = row /\ \A c \in Col : c # pivotCol => pivots'[c] = pivots[c]
    BY <1>3, <2>1, <2>2
  <2>4. row.coef \in S
    BY <1>2, <2>1, <2>2, <2>3
  <2>5. \A c \in Col : pivots[c] # None => pivots[c].coef \in S
    BY <1>2, <2>2, <2>3
  <2> QED  BY <1>5, <2>4, <2>5 DEF S
<1>12. CASE UNCHANGED vars
  <2>1. pivots' = pivots /\ row' = row /\ ~Idle'
    BY <1>12 DEF vars, Idle
  <2> QED  BY <1>2, <1>5, <2>1 DEF S
<1>13. CASE \E v \in Vector \ {ZeroRow} : Add(v)
  BY <1>13 DEF Add, Idle
<1> QED  BY <1>7, <1>8, <1>9, <1>10, <1>11, <1>12, <1>13 DEF Next

\* No step of add forgets anything a symbol brought, for any field and any number
\* of blocks: whatever could be combined from the rows still can.
THEOREM NoSymbolWasted == Spec => NothingForgotten
<1>1. IInv /\ [Next]_vars => [~Idle => Combinations \subseteq Combinations']_vars
  BY StepKeeps
<1> QED  BY <1>1, Invariant, PTL DEF Spec, NothingForgotten
=============================================================================
