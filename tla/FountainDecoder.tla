--------------------------- MODULE FountainDecoder ---------------------------
(***************************************************************************)
(* The decoder of labs/hypercore-raptorq/index.js: symbols of a group of K *)
(* blocks come in any order, any of them may be missing, and add keeps the *)
(* rows seen so far in reduced row echelon form, so that K independent     *)
(* symbols are the K blocks.  The loops of add are its steps, one column   *)
(* each.                                                                   *)
(*                                                                         *)
(* A symbol is the row of its coefficients (coeffsFor) and its data.  Data *)
(* is written in terms of the source blocks: data[j] is the factor that    *)
(* block j has in it, as gf.addScaled and gf.scale would compute byte by   *)
(* byte.                                                                   *)
(***************************************************************************)
EXTENDS Naturals, FiniteSets

CONSTANTS
  K,                                          \* blocks of the group
  Field, Zero, One,                           \* GF(2^w), see GaloisField
  Plus(_, _), Times(_, _), Inv(_),
  None

ASSUME KAssumption == K \in Nat \ {0}

\* A field of characteristic two.
ASSUME FieldAssumption ==
  /\ Zero \in Field /\ One \in Field /\ Zero # One
  /\ \A a, b \in Field : Plus(a, b) \in Field /\ Times(a, b) \in Field
  /\ \A a \in Field : /\ Plus(a, Zero) = a /\ Plus(Zero, a) = a /\ Plus(a, a) = Zero
                      /\ Times(a, Zero) = Zero /\ Times(a, One) = a
  /\ \A a, b \in Field : Plus(a, b) = Plus(b, a) /\ Times(a, b) = Times(b, a)
  /\ \A a, b, c \in Field :
       /\ Plus(Plus(a, b), c) = Plus(a, Plus(b, c))
       /\ Times(Times(a, b), c) = Times(a, Times(b, c))
       /\ Times(a, Plus(b, c)) = Plus(Times(a, b), Times(a, c))
  /\ \A a \in Field \ {Zero} : Inv(a) \in Field /\ Times(Inv(a), a) = One

Col == 1..K
Vector == [Col -> Field]
Row == [coef : Vector, data : Vector]

ASSUME NoneAssumption == None \notin Row /\ None \notin Col

VARIABLES
  pivots,      \* pivots[c]: the row whose leading column is c, or None
  rank,
  row,         \* the row add works on
  pc, col,     \* where add is: "idle", or in a loop and at which column
  pivotCol

vars == <<pivots, rank, row, pc, col, pivotCol>>

ZeroRow == [c \in Col |-> Zero]
Unit(j) == [c \in Col |-> IF c = j THEN One ELSE Zero]

\* dst + factor * src, for coefficients and data.
Scaled(v, f) == [c \in Col |-> Times(f, v[c])]
AddScaled(dst, src, f) ==
  [coef |-> [c \in Col |-> Plus(dst.coef[c], Times(f, src.coef[c]))],
   data |-> [c \in Col |-> Plus(dst.data[c], Times(f, src.data[c]))]]

Init ==
  /\ pivots = [c \in Col |-> None] /\ rank = 0
  /\ row = [coef |-> ZeroRow, data |-> ZeroRow]
  /\ pc = "idle" /\ col = 1 /\ pivotCol = None

\* The symbol of coefficients v, as the encoder makes it (symbol, message).
Symbol(v) == [coef |-> v, data |-> v]

\* add, below full rank.
Add(v) ==
  /\ pc = "idle" /\ rank < K
  /\ row' = Symbol(v)
  /\ pc' = "reduce" /\ col' = 1
  /\ UNCHANGED <<pivots, rank, pivotCol>>

\* Reduce the incoming row by the pivot row of this column.
Reduce ==
  /\ pc = "reduce"
  /\ row' = IF pivots[col] # None /\ row.coef[col] # Zero
            THEN AddScaled(row, pivots[col], row.coef[col]) ELSE row
  /\ IF col < K THEN col' = col + 1 /\ pc' = pc ELSE col' = 1 /\ pc' = "lead"
  /\ UNCHANGED <<pivots, rank, pivotCol>>

\* Row v leads in column c.
Leading(v, c) == v[c] # Zero /\ \A d \in Col : d < c => v[d] = Zero

\* Mutant: a row that leads in the first column counts as dependent.
Bug_Dependent ==
  /\ pc = "lead" /\ (row.coef = ZeroRow \/ row.coef[1] # Zero)
  /\ pc' = "idle"
  /\ UNCHANGED <<pivots, rank, row, col, pivotCol>>

\* A row that is zero depends on earlier ones and is dropped.
Dependent ==
  /\ pc = "lead" /\ row.coef = ZeroRow
  /\ pc' = "idle"
  /\ UNCHANGED <<pivots, rank, row, col, pivotCol>>

\* Mutant: the data is not scaled with the coefficients.
Bug_Normalize ==
  /\ pc = "lead"
  /\ \E c \in Col :
       /\ Leading(row.coef, c)
       /\ pivotCol' = c
       /\ row' = [row EXCEPT !.coef = Scaled(@, Inv(@[c]))]
  /\ pc' = "eliminate"
  /\ UNCHANGED <<pivots, rank, col>>

\* Any other row is scaled to lead with one.
Normalize ==
  /\ pc = "lead"
  /\ \E c \in Col :
       /\ Leading(row.coef, c)
       /\ pivotCol' = c
       /\ LET f == Inv(row.coef[c])
          IN  row' = [coef |-> Scaled(row.coef, f), data |-> Scaled(row.data, f)]
  /\ pc' = "eliminate"
  /\ UNCHANGED <<pivots, rank, col>>

\* A pivot row without its entry in the new pivot's column.
Cleared(p) == AddScaled(p, row, p.coef[pivotCol])

\* Clear the new pivot's column in the pivot row of this column.
Eliminate ==
  /\ pc = "eliminate"
  /\ pivots' = IF pivots[col] # None /\ pivots[col].coef[pivotCol] # Zero
               THEN [pivots EXCEPT ![col] = Cleared(@)] ELSE pivots
  /\ IF col < K THEN col' = col + 1 /\ pc' = pc ELSE col' = 1 /\ pc' = "store"
  /\ UNCHANGED <<rank, row, pivotCol>>

Store ==
  /\ pc = "store"
  /\ pivots' = [pivots EXCEPT ![pivotCol] = row]
  /\ rank' = rank + 1
  /\ pc' = "idle"
  /\ UNCHANGED <<row, col, pivotCol>>

Next ==
  \/ \E v \in Vector \ {ZeroRow} : Add(v)
  \/ Reduce \/ Dependent \/ Normalize \/ Eliminate \/ Store

Spec == Init /\ [][Next]_vars

\* decode, once rank is K: block j is the data of pivot row j.
Decodable == pc = "idle" /\ rank >= K
Decoded == [j \in Col |-> pivots[j].data]
-----------------------------------------------------------------------------
(* Properties.                                                             *)

Pivoted == {c \in Col : pivots[c] # None}
Idle == pc = "idle"

\* The variables hold values of their types.
TypeOK ==
  /\ pivots \in [Col -> Row \cup {None}] /\ rank \in 0..K /\ row \in Row
  /\ pc \in {"idle", "reduce", "lead", "eliminate", "store"}
  /\ col \in Col /\ pivotCol \in Col \cup {None}

\* Between symbols the pivot rows are reduced: each leads with a one in its
\* column, which is zero in all others, and rank counts them (index.js:203-205).
Reduced ==
  Idle =>
    /\ rank = Cardinality(Pivoted)
    /\ \A c \in Pivoted :
         /\ pivots[c].coef[c] = One
         /\ \A d \in Col : d < c \/ d \in Pivoted \ {c} => pivots[c].coef[d] = Zero

Sums(v, w) == [c \in Col |-> Plus(v[c], w[c])]

\* The members of S with any multiple of v added.
Widened(S, v) == {Sums(w, Scaled(v, f)) : w \in S, f \in Field}

\* All that can be combined from rows and a base.
Spanned(rows, base) ==
  LET upTo[c \in 0..K] ==
        IF c = 0 THEN base
        ELSE IF rows[c] = None THEN upTo[c - 1]
        ELSE Widened(upTo[c - 1], rows[c].coef)
  IN  upTo[K]

\* From the pivot rows, and from the row in hand while add has it.
Combinations ==
  Spanned(pivots, IF Idle THEN {ZeroRow} ELSE Widened({ZeroRow}, row.coef))

\* No step forgets anything a symbol brought: what could be combined from the
\* pivot rows and the row in hand can still be combined after the step, when the
\* row is dropped as dependent too (index.js:234-270).
NothingForgotten == [][~Idle => Combinations \subseteq Combinations']_vars

\* Any K independent symbols decode to the source blocks (index.js:12-13).
DecodesSource == Decodable => \A j \in Col : Decoded[j] = Unit(j)
=============================================================================
