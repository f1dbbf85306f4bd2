--------------------------- MODULE MCCodedTransfer ---------------------------
(***************************************************************************)
(* CodedTransfer for TLC: three blocks, and coefficient rows over the      *)
(* field of two elements for seven symbols, two repair rows of them equal. *)
(* Any five of the seven have full rank.                                   *)
(***************************************************************************)
EXTENDS CodedTransfer

\* Rows as sets of the blocks that are added.
RowOf == [e \in 0..6 |->
  CASE e = 0 -> {1} [] e = 1 -> {2} [] e = 2 -> {3}
    [] e = 3 -> {1, 2, 3} [] e = 4 -> {1, 2, 3} [] e = 5 -> {1, 2} [] e = 6 -> {1, 3}]

Sum(a, b) == (a \ b) \cup (b \ a)

Span[e \in 0..7, S \in SUBSET (0..6)] ==
  IF e = 0 THEN {{}}
  ELSE LET rest == Span[e - 1, S]
       IN  IF e - 1 \in S THEN rest \cup {Sum(v, RowOf[e - 1]) : v \in rest} ELSE rest

Log2(n) == CASE n = 1 -> 0 [] n = 2 -> 1 [] n = 4 -> 2 [] n = 8 -> 3
Ranks == [S \in SUBSET (0..6) |-> Log2(Cardinality(Span[7, S]))]
RankOf(S) == Ranks[S]
=============================================================================
