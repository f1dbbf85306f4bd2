------------------------------- MODULE SyncDB -------------------------------
(***************************************************************************)
(* SyncDB (apps/sync-sdk/index.js): a multi-writer key/value store.  Every *)
(* peer appends operations to its own log and materializes a view by       *)
(* applying all operations it knows in an order Autobase chooses.          *)
(*                                                                         *)
(* Autobase is external.  From it the code relies on this: a node names    *)
(* the nodes its writer had applied when it was appended; the order of a   *)
(* set of nodes is a function of that set and respects those names; when   *)
(* the order of a peer changes, the view is truncated to the nodes that    *)
(* kept their place and the rest is applied again; nodes reach a peer with *)
(* everything they depend on.  Any such order will do: Linear sorts by the *)
(* number of nodes a node depends on, then by writer.                      *)
(***************************************************************************)
EXTENDS Naturals, Sequences, FiniteSets, SequencesExt, FiniteSetsExt

CONSTANTS
  Peer,
  Founder,     \* the peer that created the base
  Rank,        \* Rank[p]: the order Autobase breaks ties by (writer keys)
  Key, Value,
  None,
  MaxNodes     \* bound: nodes appended in all

ASSUME PeerAssumption == IsFiniteSet(Peer)
ASSUME FounderAssumption == Founder \in Peer
ASSUME RankAssumption ==
  /\ Rank \in [Peer -> Nat]
  /\ \A p, q \in Peer : p # q => Rank[p] # Rank[q]

\* What the view holds under a key; None where there is nothing.
Entry == [value : Value, seq : Nat, from : Peer]

ASSUME NoneAssumption == None \notin Entry

VARIABLES
  log,         \* log[w]: the nodes w has appended, [op, deps]
  known,       \* known[p][w]: how many nodes of w's log p has replicated
  order,       \* order[p]: the nodes p has applied, as [from, seq]
  states       \* states[p][i]: view and writers before node i of order[p]

vars == <<log, known, order, states>>

Ops ==
  [type : {"put"}, key : Key, value : Value] \cup
  [type : {"del"}, key : Key] \cup [type : {"addWriter"}, key : Peer]

NodeAt(n) == log[n.from][n.seq]
OpOf(n) == NodeAt(n).op

Clock == [Peer -> Nat]
NoNodes == [w \in Peer |-> 0]
Below(c, d) == \A w \in Peer : c[w] <= d[w]
Joined(c, d) == [w \in Peer |-> IF c[w] > d[w] THEN c[w] ELSE d[w]]
NodesOf(c) == UNION {[from : {w}, seq : 1..c[w]] : w \in Peer}
DependsOn(n, m) == NodeAt(n).deps[m.from] >= m.seq
-----------------------------------------------------------------------------
(* Autobase.                                                               *)

\* A node comes after all it depends on: their dependencies are fewer.  Ties
\* are broken by the writer.
Weight(lg, n) == Cardinality(NodesOf(lg[n.from][n.seq].deps))
Before(lg, n, m) ==
  \/ Weight(lg, n) < Weight(lg, m)
  \/ Weight(lg, n) = Weight(lg, m) /\ Rank[n.from] < Rank[m.from]

\* The order of the nodes of clock c.
Linear(lg, c) ==
  [i \in 1..Cardinality(NodesOf(c)) |->
     CHOOSE n \in NodesOf(c) :
       Cardinality({m \in NodesOf(c) : Before(lg, m, n)}) = i - 1]

\* How many nodes keep their place.
Kept(old, new) ==
  Max({i \in 0..Len(old) :
         i <= Len(new) /\ SubSeq(old, 1, i) = SubSeq(new, 1, i)})
-----------------------------------------------------------------------------
(* apply.                                                                  *)

EmptyView == [k \in Key |-> None]

\* Mutant: the origin is the key of the base that applies.
Bug_EntryOf(me, n, op) == [value |-> op.value, seq |-> n.seq, from |-> me]

\* What a put stores.  The peer that applies it, me, must not matter.
EntryOf(me, n, op) == [value |-> op.value, seq |-> n.seq, from |-> n.from]

\* Mutants: the first write of a key wins; a write over another clears the key.
Bug_AppliedFirst(me, view, n, op) ==
  CASE op.type = "put" /\ view[op.key] = None -> [view EXCEPT ![op.key] = EntryOf(me, n, op)]
    [] op.type = "del" -> [view EXCEPT ![op.key] = None]
    [] OTHER -> view
Bug_AppliedClear(me, view, n, op) ==
  CASE op.type = "put" /\ view[op.key] # None -> [view EXCEPT ![op.key] = None]
    [] op.type = "put" -> [view EXCEPT ![op.key] = EntryOf(me, n, op)]
    [] op.type = "del" -> [view EXCEPT ![op.key] = None]
    [] OTHER -> view

\* What one node does to the view.
Applied(me, view, n, op) ==
  CASE op.type = "put" -> [view EXCEPT ![op.key] = EntryOf(me, n, op)]
    [] op.type = "del" -> [view EXCEPT ![op.key] = None]
    [] OTHER -> view

\* host.addWriter, called from apply.
Admitted(ws, n, op) == IF op.type = "addWriter" THEN ws \cup {op.key} ELSE ws

After(me, st, n, op) == [view |-> Applied(me, st.view, n, op),
                         writers |-> Admitted(st.writers, n, op)]

\* apply, node by node: the states before each node of q, those of old as far
\* as node k.
States(me, lg, old, q, k) ==
  LET st[i \in 1..(Len(q) + 1)] ==
        IF i <= k + 1 THEN old[i]
        ELSE After(me, st[i - 1], q[i - 1], lg[q[i - 1].from][q[i - 1].seq].op)
  IN [i \in 1..(Len(q) + 1) |-> st[i]]

\* base.update: order what p knows, truncate the view, apply the rest.
Updated(p, lg, c) ==
  \E new \in {Linear(lg, c)} : \E k \in {Kept(order[p], new)} :
      /\ known' = [known EXCEPT ![p] = c]
      /\ order' = [order EXCEPT ![p] = new]
      /\ states' = [states EXCEPT ![p] = States(p, lg, @, new, k)]
-----------------------------------------------------------------------------
View(p) == Last(states[p]).view
Writable(p) == p \in Last(states[p]).writers
Appended == [w \in Peer |-> Len(log[w])]

Init ==
  /\ log = [p \in Peer |-> <<>>]
  /\ known = [p \in Peer |-> NoNodes]
  /\ order = [p \in Peer |-> <<>>]
  /\ states = [p \in Peer |-> <<[view |-> EmptyView, writers |-> {Founder}]>>]

\* base.append, which fails on a base that is not writable.
Write(p, op) ==
  /\ Writable(p)
  /\ Cardinality(NodesOf(Appended)) < MaxNodes
  /\ log' = [log EXCEPT ![p] = Append(@, [op |-> op, deps |-> known[p]])]
  /\ Updated(p, log', [known[p] EXCEPT ![p] = @ + 1])

Set(p, k, v) == Write(p, [type |-> "put", key |-> k, value |-> v])
Del(p, k) == Write(p, [type |-> "del", key |-> k])
AddWriter(p, q) == Write(p, [type |-> "addWriter", key |-> q])

\* p replicates the next node of w's log that q has, with what it depends on,
\* and its base updates.
Replicate(p, q) ==
  \E w \in Peer :
    /\ known[p][w] < known[q][w]
    /\ Updated(p, log, [Joined(known[p], log[w][known[p][w] + 1].deps)
                          EXCEPT ![w] = known[p][w] + 1])
    /\ UNCHANGED log

Next ==
  \E p \in Peer :
    \/ \E k \in Key, v \in Value : Set(p, k, v)
    \/ \E k \in Key : Del(p, k)
    \/ \E q \in Peer \ {p} : AddWriter(p, q)
    \/ \E q \in Peer : Replicate(p, q)

Spec == Init /\ [][Next]_vars

\* Peers that stay connected replicate on; nobody is obliged to write.
FairSpec == Spec /\ \A p, q \in Peer : WF_vars(Replicate(p, q))
-----------------------------------------------------------------------------
(* Properties.                                                             *)

Writes(n, k) == OpOf(n).type \in {"put", "del"} /\ OpOf(n).key = k
Puts(n, k) == Writes(n, k) /\ OpOf(n).type = "put"
Shows(p, k, n) ==
  View(p)[k] = [value |-> OpOf(n).value, seq |-> n.seq, from |-> n.from]

\* The variables hold values of their types, and a peer has applied each node
\* it knows once.
TypeOK ==
  /\ \A p \in Peer : \A i \in DOMAIN log[p] :
       log[p][i].op \in Ops /\ log[p][i].deps \in Clock
  /\ \A p \in Peer :
       /\ known[p] \in Clock /\ Below(known[p], Appended)
       /\ ToSet(order[p]) = NodesOf(known[p])
       /\ Len(order[p]) = Cardinality(NodesOf(known[p]))
       /\ Len(states[p]) = Len(order[p]) + 1
       /\ \A i \in DOMAIN states[p] :
            /\ states[p][i].view \in [Key -> Entry \cup {None}]
            /\ states[p][i].writers \subseteq Peer

\* Peers that know the same nodes have the same view and the same writers,
\* however their nodes arrived and their orders changed (index.js:10-13).
Converged ==
  \A p, q \in Peer :
    known[p] = known[q] => Last(states[p]) = Last(states[q])

\* A write is never beaten, at any peer, by a write or deletion of its key
\* that its writer already knew (index.js:15-20).
CausalWins ==
  \A p \in Peer, k \in Key : \A n, m \in NodesOf(known[p]) :
    Puts(n, k) /\ Writes(m, k) /\ DependsOn(m, n) => ~Shows(p, k, n)

\* Each entry of a view is some writer's put, and a key that was put and never
\* deleted is there: a conflict loses one of the values, never the key
\* (property.test.js:186-194).
NothingLost ==
  \A p \in Peer, k \in Key :
    LET N == NodesOf(known[p])
    IN  /\ View(p)[k] # None => \E n \in N : Puts(n, k) /\ Shows(p, k, n)
        /\ (\E n \in N : Puts(n, k)) /\ (\A n \in N : Writes(n, k) => Puts(n, k))
             => View(p)[k] # None

\* When writing stops, all peers end with one view of everybody's operations
\* (index.js:10-13).
EventuallyOneView ==
  <>[](\A p \in Peer : known[p] = Appended /\ View(p) = View(Founder))
=============================================================================
