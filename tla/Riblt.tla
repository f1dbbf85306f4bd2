-------------------------------- MODULE Riblt --------------------------------
(***************************************************************************)
(* Set reconciliation of labs/hypercore-riblt/index.js: reconcile pulls    *)
(* the coded symbols of a remote Encoder, subtracts the local set and      *)
(* peels the difference until every cell it holds is empty.                *)
(*                                                                         *)
(* A cell is its signed count and the set of elements an odd number of     *)
(* which was folded in, for the two exclusive ors: the hash is ideal, so a *)
(* sum is an element's only if that element alone is left.  The cells an   *)
(* element is folded into are hashed too; here any that begin with cell 0. *)
(***************************************************************************)
EXTENDS Integers, SequencesExt

CONSTANTS
  Elem,
  MaxCells,        \* options.maxCells
  MaxCopies,       \* times one element is given to Encoder.add
  FirstEnd,        \* symbols the source has at least, before it may end
  PerCell, BaseWork    \* of the work budget: 64 and 8192 in the code

ASSUME SetsAssumption == IsFiniteSet(Elem) /\ MaxCells \in Nat \ {0} /\ MaxCopies \in Nat
ASSUME BoundAssumption == {FirstEnd, PerCell, BaseWork} \subseteq Nat

VARIABLES
  mapping,             \* cells of every element
  localSet, remote,    \* the two sets: of elements; copies of each that were added
  cs, remaining, failed, work,                         \* Decoder
  decodable,           \* its queue, of the sets of cells that became pure together
  remoteRecovered, localRecovered,   \* recovered elements, with the next cell of each
  stage                   \* reconcile: "pull", "peel" (in _tryDecode) or "done"

ribltInput == <<mapping, localSet, remote>>
recovered == <<remoteRecovered, localRecovered>>
ribltVars == <<ribltInput, cs, decodable, remaining, failed, work, recovered, stage>>

CellIndex == 0..(MaxCells - 1)
Mappings == {S \in SUBSET CellIndex : 0 \in S}

bOnly == [k \in DOMAIN remoteRecovered |-> remoteRecovered[k].element]
aOnly == [k \in DOMAIN localRecovered |-> localRecovered[k].element]

RibltInit ==
  /\ mapping \in [Elem -> Mappings]
  /\ localSet \in SUBSET Elem /\ remote \in [Elem -> 0..MaxCopies]
  /\ cs = <<>> /\ decodable = <<>> /\ remaining = 0 /\ failed = FALSE /\ work = 0
  /\ remoteRecovered = <<>> /\ localRecovered = <<>>
  /\ stage = "pull"
-----------------------------------------------------------------------------
(* Cells.                                                                  *)

\* Folds n elements, whose exclusive or is members, into a cell.
Fold(cell, n, members) ==
  [count |-> cell.count + n,
   members |-> (cell.members \ members) \cup (members \ cell.members)]

cellIsEmpty(cell) == cell.count = 0 /\ cell.members = {}

cellIsPure(cell) == cell.count \in {1, -1} /\ Cardinality(cell.members) = 1

\* Cell j of the remote set.
CodedSymbol(j) ==
  LET here == {p \in Elem \X (1..MaxCopies) : j \in mapping[p[1]] /\ p[2] <= remote[p[1]]}
  IN [index |-> j, count |-> Cardinality(here),
      members |-> {e \in Elem : j \in mapping[e] /\ remote[e] % 2 = 1}]

\* Cell i less the local set.
Subtracted(cell, i) ==
  LET mine == {e \in localSet : i \in mapping[e]} IN Fold(cell, -Cardinality(mine), mine)

\* The first cell of e that is not in held.
Unheld(e, held) == Min((mapping[e] \cup {MaxCells}) \ held)

\* The entries of a window that are at the top of its heap when cell i is due.
Due(window, i) ==
  {k \in DOMAIN window : window[k].next = i /\ \A l \in DOMAIN window : window[l].next >= i}

\* applyUpTo: cell i with the due entries folded in, and the window after.
Applied(cell, window, i, dir) ==
  LET due == Due(window, i)
      times(e) == Cardinality({k \in due : window[k].element = e})
  IN Fold(cell, dir * Cardinality(due), {e \in Elem : times(e) % 2 = 1})

Advanced(window, i) ==
  [k \in DOMAIN window |->
     IF k \in Due(window, i)
     THEN [window[k] EXCEPT !.next = Unheld(window[k].element, 0..i)] ELSE window[k]]
-----------------------------------------------------------------------------
(* reconcile and Decoder.addCodedSymbol.                                   *)

isDecoded == remaining = 0

\* The ceiling is reached.
GiveUp ==
  /\ stage = "pull" /\ Len(cs) >= MaxCells
  /\ stage' = "done"
  /\ UNCHANGED <<ribltInput, cs, decodable, remaining, failed, work, recovered>>

\* The source returns null.
EndOfStream ==
  /\ stage = "pull" /\ Len(cs) < MaxCells /\ Len(cs) >= FirstEnd
  /\ stage' = "done"
  /\ UNCHANGED <<ribltInput, cs, decodable, remaining, failed, work, recovered>>

InSlot(sym) == sym.index = Len(cs)

\* A symbol was lost, repeated or overtaken.
Desync(sym) ==
  /\ stage = "pull" /\ Len(cs) < MaxCells /\ ~InSlot(sym)
  /\ failed' = TRUE /\ stage' = "done"
  /\ UNCHANGED <<ribltInput, cs, decodable, remaining, work, recovered>>

\* What a new cell adds to remaining.
Counted(cell) == IF cellIsEmpty(cell) THEN 0 ELSE 1

AddCodedSymbol(sym) ==
  LET i == Len(cs)
      cell == Applied(Applied(Subtracted(sym, i), remoteRecovered, i, -1), localRecovered, i, 1)
  IN /\ stage = "pull" /\ i < MaxCells /\ InSlot(sym)
     /\ cs' = Append(cs, cell)
     /\ remaining' = remaining + Counted(cell)
     /\ decodable' = IF cellIsPure(cell) THEN <<{i}>> ELSE <<>>
     /\ remoteRecovered' = Advanced(remoteRecovered, i)
     /\ localRecovered' = Advanced(localRecovered, i)
     /\ stage' = "peel"
     /\ UNCHANGED <<ribltInput, failed, work>>
-----------------------------------------------------------------------------
(* _tryDecode: one entry of decodable at a time, those of a set in order.  *)

WorkBudget == Len(cs) * PerCell + BaseWork

OverBudget ==
  /\ stage = "peel" /\ decodable # <<>> /\ work + 1 > WorkBudget
  /\ work' = work + 1 /\ failed' = TRUE /\ decodable' = <<>>
  /\ UNCHANGED <<ribltInput, cs, remaining, recovered, stage>>

\* The cell at the front of the queue.
idx == Min(Head(decodable))

\* The queue without it.
Later ==
  IF Head(decodable) = {idx} THEN Tail(decodable)
  ELSE <<Head(decodable) \ {idx}>> \o Tail(decodable)

Stale ==
  /\ stage = "peel" /\ decodable # <<>> /\ work + 1 <= WorkBudget
  /\ ~cellIsPure(cs[idx + 1])
  /\ work' = work + 1 /\ decodable' = Later
  /\ UNCHANGED <<ribltInput, cs, remaining, failed, recovered, stage>>

\* The held cells _peel takes e out of before the budget is spent.
Touched(e) ==
  {i \in mapping[e] : i < Len(cs) /\ Cardinality(mapping[e] \cap 0..i) <= WorkBudget - (work + 1)}

\* Mutant: cells that become pure are not queued.
Bug_NowPure(e, dir) == {}

\* The touched cells that are pure without e.
NowPure(e, dir) == {i \in Touched(e) : cellIsPure(Fold(cs[i + 1], dir, {e}))}

\* _peel takes e, with sign dir, out of the cells held.
Peel(e, dir) ==
  LET cell(i) == Fold(cs[i + 1], dir, {e})
      emptied == {i \in Touched(e) : ~cellIsEmpty(cs[i + 1]) /\ cellIsEmpty(cell(i))}
      filled == {i \in Touched(e) : cellIsEmpty(cs[i + 1]) /\ ~cellIsEmpty(cell(i))}
      mapped == {i \in mapping[e] : i < Len(cs)}
  IN /\ cs' = [k \in DOMAIN cs |-> IF k - 1 \in Touched(e) THEN cell(k - 1) ELSE cs[k]]
     /\ remaining' = remaining + Cardinality(filled) - Cardinality(emptied)
     /\ decodable' = Later \o (IF NowPure(e, dir) = {} THEN <<>> ELSE <<NowPure(e, dir)>>)
     /\ failed' = (Touched(e) # mapped)
     /\ work' = work + 1 + Cardinality(Touched(e)) + (IF Touched(e) # mapped THEN 1 ELSE 0)

\* Mutant: the entry starts over from cell 0.
Bug_Entry(e) == [element |-> e, next |-> 0]

\* A recovered element goes on from the first of its cells that was not touched.
Entry(e) == [element |-> e, next |-> Unheld(e, Touched(e))]

Pure(dir) ==
  /\ stage = "peel" /\ decodable # <<>> /\ work + 1 <= WorkBudget
  /\ cellIsPure(cs[idx + 1]) /\ cs[idx + 1].count = -dir

PureElement == CHOOSE e \in Elem : cs[idx + 1].members = {e}

PeelRemote ==
  /\ Pure(-1) /\ Peel(PureElement, -1)
  /\ remoteRecovered' = Append(remoteRecovered, Entry(PureElement))
  /\ UNCHANGED <<ribltInput, localRecovered, stage>>

PeelLocal ==
  /\ Pure(1) /\ Peel(PureElement, 1)
  /\ localRecovered' = Append(localRecovered, Entry(PureElement))
  /\ UNCHANGED <<ribltInput, remoteRecovered, stage>>

\* The loop of reconcile goes round or ends.
EndPeel ==
  /\ stage = "peel" /\ decodable = <<>>
  /\ stage' = IF failed \/ isDecoded THEN "done" ELSE "pull"
  /\ UNCHANGED <<ribltInput, cs, decodable, remaining, failed, work, recovered>>

RibltNext ==
  \/ GiveUp \/ EndOfStream
  \/ \E j \in CellIndex : Desync(CodedSymbol(j)) \/ AddCodedSymbol(CodedSymbol(j))
  \/ OverBudget \/ Stale \/ PeelRemote \/ PeelLocal \/ EndPeel

RibltSpec == RibltInit /\ [][RibltNext]_ribltVars

\* What reconcile returns.
reconciled == stage = "done" /\ isDecoded /\ ~failed
-----------------------------------------------------------------------------
(* Properties.                                                             *)

DecoderCell == [count : Int, members : SUBSET Elem]
Recovered == Seq([element : Elem, next : 0..MaxCells])

\* The variables hold values of their types; remaining counts non-empty cells.
RibltTypeOK ==
  /\ mapping \in [Elem -> Mappings] /\ localSet \in SUBSET Elem
  /\ remote \in [Elem -> 0..MaxCopies]
  /\ cs \in Seq(DecoderCell) /\ Len(cs) <= MaxCells /\ decodable \in Seq(SUBSET CellIndex)
  /\ remaining = Cardinality({k \in DOMAIN cs : ~cellIsEmpty(cs[k])})
  /\ failed \in BOOLEAN /\ work \in Nat
  /\ remoteRecovered \in Recovered /\ localRecovered \in Recovered
  /\ stage \in {"pull", "peel", "done"}

LocalOnly == {e \in localSet : remote[e] = 0}
RemoteOnly == {e \in Elem \ localSet : remote[e] > 0}

\* Whatever is lost, repeated, reordered or cut off, and whenever the budget ends
\* it: an element is reported once and on the right side, and success means that
\* none is missing (index.js:345-353).
DifferenceExact ==
  /\ IsInjective(aOnly) /\ IsInjective(bOnly)
  /\ ToSet(aOnly) \subseteq LocalOnly /\ ToSet(bOnly) \subseteq RemoteOnly
  /\ reconciled => ToSet(aOnly) = LocalOnly /\ ToSet(bOnly) = RemoteOnly

\* When the decoder asks for another symbol the ones it has give no element more
\* (index.js:260-263).
PeelComplete == stage = "pull" => \A k \in DOMAIN cs : ~cellIsPure(cs[k])

\* Said of the code, but refuted, by a source that ends before its first symbol
\* and by an Encoder that was given an element twice: "a duplicated element [...]
\* silently vanishes from the recovered difference (a wrong success:true). Deduping
\* at every public boundary makes the multiset case well-defined" (index.js:52-56)
\* and "Treat as truncation" (index.js:348).  Success is right about the sets.
SuccessRight == reconciled => ToSet(aOnly) = LocalOnly /\ ToSet(bOnly) = RemoteOnly
=============================================================================
