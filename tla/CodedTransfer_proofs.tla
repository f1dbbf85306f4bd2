-------------------------- MODULE CodedTransfer_proofs --------------------------
(***************************************************************************)
(* For any number of blocks, symbols, acknowledgements and losses, and for *)
(* any code whose rank grows by at most one with each symbol: the sender   *)
(* never believes in too high a rank, and an acknowledgement stops it      *)
(* unless all of them are lost.                                            *)
(***************************************************************************)
EXTENDS CodedTransfer, FiniteSetTheorems, TLAPS

\* The symbols sent so far are in range, and those that came are among them.
Symbols ==
  /\ nextEsi \in K..Cap /\ fwd \subseteq Esi /\ got \subseteq Esi
  /\ latestRank \in 0..K

LEMMA RankGrows ==
  ASSUME NEW S \in SUBSET Esi, NEW e \in Esi
  PROVE  Rank(S) \in 0..K /\ Rank(S \cup {e}) \in 0..K /\ Rank(S) <= Rank(S \cup {e})
<1>1. S \cup {e} \in SUBSET Esi
  OBVIOUS
<1>2. Rank(S) \in 0..K /\ Rank(S \cup {e}) \in {Rank(S), Rank(S) + 1}
  BY RankAssumption
<1>3. Rank(S \cup {e}) \in 0..K
  BY <1>1, RankAssumption
<1> QED  BY <1>2, <1>3, SizeAssumption

Sound == Symbols /\ RankSound

LEMMA SoundInit == Init => Sound
<1> SUFFICES ASSUME Init PROVE Sound
  OBVIOUS
<1>1. Symbols
  BY SizeAssumption DEF Init, Symbols, Esi
<1>2. Rank(got) = 0
  BY RankAssumption DEF Init
<1> QED  BY <1>1, <1>2 DEF Init, Sound, RankSound

\* A symbol arrives and is added.
LEMMA SoundAdds ==
  ASSUME Sound, NEW e \in fwd, NEW more, more \cap Report = {},
         fwd' = fwd \ {e}, got' = got \cup {e},
         rev' = rev \cup {ReportOn(e)} \cup more,
         UNCHANGED <<nextEsi, latestRank>>
  PROVE  Sound'
<1>1. e \in Esi /\ got \in SUBSET Esi
  BY DEF Sound, Symbols
<1>2. Rank(got) <= Rank(got') /\ Rank(got) \in 0..K /\ Rank(got') \in 0..K
  BY <1>1, RankGrows
<1>3. Symbols'
  BY <1>1 DEF Sound, Symbols
<1>4. ReportOn(e).rank = Rank(got')
  BY DEF ReportOn
<1>5. ASSUME NEW m \in rev' \cap Report PROVE m.rank <= Rank(got')
  <2>1. CASE m \in rev
    <3>1. m.rank <= Rank(got) /\ m.rank \in 0..K
      BY <2>1 DEF Sound, RankSound, Report
    <3> QED  BY <1>2, <3>1, SizeAssumption
  <2>2. CASE m = ReportOn(e)
    BY <1>2, <1>4, <2>2
  <2> QED  BY <2>1, <2>2
<1>6. latestRank' <= Rank(got')
  BY <1>2, SizeAssumption DEF Sound, Symbols, RankSound
<1> QED  BY <1>3, <1>5, <1>6 DEF Sound, RankSound

\* Nothing new is added or reported.
LEMMA SoundRest ==
  ASSUME Sound, UNCHANGED got, rev' \cap Report \subseteq rev,
         fwd' \subseteq Esi, nextEsi' \in K..Cap,
         \/ UNCHANGED latestRank
         \/ \E m \in rev \cap Report : latestRank' = m.rank
  PROVE  Sound'
<1>1. Symbols'
  BY DEF Sound, Symbols, Report
<1>2. RankSound'
  BY DEF Sound, RankSound
<1> QED  BY <1>1, <1>2 DEF Sound

LEMMA SoundNext == Sound /\ [Next]_vars => Sound'
<1> SUFFICES ASSUME Sound, [Next]_vars PROVE Sound'
  OBVIOUS
<1>0. fwd \subseteq Esi /\ nextEsi \in K..Cap /\ latestRank \in 0..K
  BY DEF Sound, Symbols
<1>1. CASE Drop
  BY <1>0, <1>1, SoundRest DEF Drop, sender, receiver
<1>2. ASSUME NEW e \in fwd, Receive(e) PROVE Sound'
  <2> DEFINE more == {}
  <2>1. more \cap Report = {}
    OBVIOUS
  <2>2. rev' = rev \cup {ReportOn(e)} \cup more
    BY <1>2 DEF Receive
  <2> HIDE DEF more
  <2> QED  BY <1>2, <2>1, <2>2, SoundAdds DEF Receive, sender
<1>3. ASSUME NEW e \in fwd, Complete(e) PROVE Sound'
  <2> DEFINE more == {[kind |-> "done", nth |-> acksLeft]}
  <2>1. more \cap Report = {}
    BY DEF Report
  <2>2. rev' = rev \cup {ReportOn(e)} \cup more
    BY <1>3 DEF Complete
  <2> HIDE DEF more
  <2> QED  BY <1>3, <2>1, <2>2, SoundAdds DEF Complete, sender
<1>4. ASSUME NEW e \in fwd, Ignore(e) PROVE Sound'
  BY <1>0, <1>4, SoundRest DEF Ignore, sender, receiver
<1>5. CASE SendAck
  <2>1. rev' \cap Report \subseteq rev
    BY <1>5 DEF SendAck, Report
  <2> QED  BY <1>0, <1>5, <2>1, SoundRest DEF SendAck, sender
<1>6. ASSUME NEW m \in rev, ReceiveReport(m) PROVE Sound'
  <2>1. latestRank' = latestRank \/ latestRank' = m.rank
    BY <1>6 DEF ReceiveReport
  <2> QED  BY <1>0, <1>6, <2>1, SoundRest DEF ReceiveReport, receiver
<1>7. ASSUME NEW m \in rev, ReceiveDone(m) PROVE Sound'
  BY <1>0, <1>7, SoundRest DEF ReceiveDone, sender, receiver
<1>8. CASE LastTick \/ Poll
  BY <1>0, <1>8, SoundRest DEF LastTick, Poll, receiver
<1>9. CASE RepairRound
  <2>1. RoundEnd \in K..Cap
    BY <1>0, SizeAssumption DEF RoundEnd
  <2>2. nextEsi..(RoundEnd - 1) \subseteq Esi
    BY <1>0, <2>1, SizeAssumption DEF Esi
  <2> QED  BY <1>0, <1>9, <2>1, <2>2, SoundRest DEF RepairRound, receiver
<1>10. CASE Return \/ Timeout
  BY <1>0, <1>10, SoundRest DEF Return, Timeout, TearDown
<1>11. CASE UNCHANGED vars
  BY <1>0, <1>11, SoundRest DEF vars, sender, receiver
<1> QED
  BY <1>1, <1>2, <1>3, <1>4, <1>5, <1>6, <1>7, <1>8, <1>9, <1>10, <1>11 DEF Next

\* In whatever order reports come, and whatever is lost: a round is sized from a rank
\* that the receiver has reached (raptorq-gate.js:203-206, 238-239).
THEOREM RanksSound == Spec => []RankSound
<1>1. Sound => RankSound
  BY DEF Sound
<1> QED  BY <1>1, SoundInit, SoundNext, PTL DEF Spec
-----------------------------------------------------------------------------
(* The acknowledgements.                                                   *)

Acked == rev \cap Done

\* While the sender has not stopped, each acknowledgement sent is on its way or lost.
AckInv ==
  /\ acksLeft \in 0..Acks /\ drops \in Nat /\ IsFiniteSet(Acked)
  /\ Open => (decoded <=> outcome = "resolved")
  /\ Open /\ ~decoded => acksLeft = Acks
  /\ \A m \in Acked : m.nth > acksLeft
  /\ Open /\ ~senderStopped => Cardinality(Acked) + drops >= Acks - acksLeft
  /\ AckStops

LEMMA AckInit == Init => AckInv
<1> SUFFICES ASSUME Init PROVE AckInv
  OBVIOUS
<1>1. Acked = {}
  BY DEF Init, Acked
<1> QED  BY <1>1, FS_EmptySet, BoundAssumption DEF Init, AckInv, AckStops, Open

\* No acknowledgement is sent, lost or received.
LEMMA AckQuiet ==
  ASSUME AckInv, Acked' = Acked, senderStopped' = senderStopped,
         UNCHANGED <<decoded, acksLeft, drops, outcome, stoppedByAck>>
  PROVE  AckInv'
BY DEF AckInv, AckStops, Open

\* One more is sent.
LEMMA AckSent ==
  ASSUME AckInv, Open, acksLeft > 0, acksLeft' = acksLeft - 1,
         Acked' = Acked \cup {[kind |-> "done", nth |-> acksLeft]},
         decoded', outcome' = "resolved",
         UNCHANGED <<senderStopped, drops, stoppedByAck>>
  PROVE  AckInv'
<1> DEFINE a == [kind |-> "done", nth |-> acksLeft]
<1>1. acksLeft \in 0..Acks /\ Acks \in Nat /\ drops \in Nat /\ IsFiniteSet(Acked)
  BY BoundAssumption DEF AckInv
<1>2. a \notin Acked
  BY <1>1 DEF AckInv
<1>3. IsFiniteSet(Acked') /\ Cardinality(Acked') = Cardinality(Acked) + 1
  BY <1>1, <1>2, FS_AddElement
<1>4. Cardinality(Acked) \in Nat
  BY <1>1, FS_CardinalityType
<1>5. \A m \in Acked : m.nth \in 1..Acks
  BY DEF Acked, Done
<1>6. \A m \in Acked' : m.nth > acksLeft'
  BY <1>1, <1>5 DEF AckInv
<1>7. ~senderStopped' => Cardinality(Acked') + drops' >= Acks - acksLeft'
  BY <1>1, <1>3, <1>4 DEF AckInv
<1> QED  BY <1>1, <1>3, <1>6, <1>7 DEF AckInv, AckStops, Open

\* A datagram is lost.
LEMMA AckDrop == AckInv /\ Drop => AckInv'
<1> SUFFICES ASSUME AckInv, Drop PROVE AckInv'
  OBVIOUS
<1>0. UNCHANGED <<senderStopped, decoded, acksLeft, outcome, stoppedByAck>> /\ drops' = drops + 1
  BY DEF Drop, receiver
<1>1. acksLeft \in 0..Acks /\ Acks \in Nat /\ drops \in Nat /\ IsFiniteSet(Acked)
  BY BoundAssumption DEF AckInv
<1>2. Acked' = Acked \/ \E m : Acked' = Acked \ {m}
  BY DEF Drop, Acked
<1>3. IsFiniteSet(Acked') /\ Cardinality(Acked') >= Cardinality(Acked) - 1
      /\ Cardinality(Acked') \in Nat /\ Cardinality(Acked) \in Nat
  <2>1. CASE Acked' = Acked
    BY <1>1, <2>1, FS_CardinalityType
  <2>2. ASSUME NEW m, Acked' = Acked \ {m}
        PROVE  /\ IsFiniteSet(Acked') /\ Cardinality(Acked') >= Cardinality(Acked) - 1
               /\ Cardinality(Acked') \in Nat /\ Cardinality(Acked) \in Nat
    <3>1. IsFiniteSet(Acked') /\ Cardinality(Acked') \in {Cardinality(Acked), Cardinality(Acked) - 1}
      BY <1>1, <2>2, FS_RemoveElement
    <3>2. Cardinality(Acked') \in Nat /\ Cardinality(Acked) \in Nat
      BY <1>1, <3>1, FS_CardinalityType
    <3> QED  BY <3>1, <3>2
  <2> QED  BY <1>2, <2>1, <2>2
<1>4. Open /\ ~senderStopped => Cardinality(Acked') + drops' >= Acks - acksLeft
  BY <1>0, <1>1, <1>3 DEF AckInv
<1> QED  BY <1>0, <1>1, <1>2, <1>3, <1>4 DEF AckInv, AckStops, Open

\* The attempt is torn down.
LEMMA AckTearDown ==
  ASSUME AckInv, TearDown, outcome' \in {"closed", "timeout"},
         outcome' = "closed" => (drops < Acks => stoppedByAck')
  PROVE  AckInv'
<1>1. Acked' = {}
  BY DEF TearDown, Acked
<1> QED  BY <1>1, FS_EmptySet DEF AckInv, AckStops, TearDown, Open

LEMMA AckReturn == AckInv /\ Return => AckInv'
<1> SUFFICES ASSUME AckInv, Return PROVE AckInv'
  OBVIOUS
<1>1. CASE senderStopped
  BY <1>1, AckTearDown DEF Return
<1>2. CASE ~senderStopped
  <2>1. acksLeft = 0 /\ Acked = {}
    BY <1>2 DEF Return, Acked
  <2>2. ~(drops < Acks)
    BY <1>2, <2>1, FS_EmptySet, BoundAssumption DEF AckInv, Return, Open
  <2> QED  BY <2>2, AckTearDown DEF Return
<1> QED  BY <1>1, <1>2

LEMMA AckNext == AckInv /\ [Next]_vars => AckInv'
<1> SUFFICES ASSUME AckInv, [Next]_vars PROVE AckInv'
  OBVIOUS
<1>0. acksLeft \in 0..Acks /\ Acks \in Nat \ {0}
  BY BoundAssumption DEF AckInv
<1>1. CASE Drop
  BY <1>1, AckDrop
<1>2. ASSUME NEW e \in fwd, Receive(e) PROVE AckInv'
  <2>1. Acked' = Acked
    BY <1>2 DEF Receive, ReportOn, Acked, Done
  <2> QED  BY <1>2, <2>1, AckQuiet DEF Receive
<1>3. ASSUME NEW e \in fwd, Complete(e) PROVE AckInv'
  <2>1. acksLeft = Acks /\ Open
    BY <1>3 DEF Complete, AckInv
  <2>2. [kind |-> "done", nth |-> acksLeft] \in Done /\ ReportOn(e) \notin Done
    BY <1>0, <2>1 DEF Done, ReportOn
  <2>3. Acked' = Acked \cup {[kind |-> "done", nth |-> acksLeft]}
    BY <1>3, <2>2 DEF Complete, Acked
  <2> QED  BY <1>0, <1>3, <2>1, <2>3, AckSent DEF Complete
<1>4. ASSUME NEW e \in fwd, Ignore(e) PROVE AckInv'
  BY <1>4, AckQuiet DEF Ignore, Acked, receiver
<1>5. CASE SendAck
  <2>1. outcome = "resolved"
    BY <1>5 DEF SendAck, AckInv
  <2>2. [kind |-> "done", nth |-> acksLeft] \in Done
    BY <1>0, <1>5 DEF SendAck, Done
  <2>3. Acked' = Acked \cup {[kind |-> "done", nth |-> acksLeft]}
    BY <1>5, <2>2 DEF SendAck, Acked
  <2> QED  BY <1>5, <2>1, <2>3, AckSent DEF SendAck
<1>6. ASSUME NEW m \in rev, ReceiveReport(m) PROVE AckInv'
  <2>1. m \notin Done
    BY <1>6 DEF ReceiveReport, Report, Done
  <2>2. Acked' = Acked
    BY <1>6, <2>1 DEF ReceiveReport, Acked
  <2> QED  BY <1>6, <2>2, AckQuiet DEF ReceiveReport, receiver
<1>7. ASSUME NEW m \in rev, ReceiveDone(m) PROVE AckInv'
  <2>1. Acked' = Acked \ {m} /\ senderStopped'
    BY <1>7 DEF ReceiveDone, Acked
  <2>2. IsFiniteSet(Acked')
    BY <2>1, FS_RemoveElement DEF AckInv
  <2> QED  BY <1>7, <2>1, <2>2 DEF ReceiveDone, receiver, AckInv, AckStops, Open
<1>8. CASE LastTick \/ Poll \/ RepairRound
  BY <1>8, AckQuiet DEF LastTick, Poll, RepairRound, Acked, receiver
<1>9. CASE Return
  BY <1>9, AckReturn
<1>10. CASE Timeout
  BY <1>10, AckTearDown DEF Timeout
<1>11. CASE UNCHANGED vars
  BY <1>11, AckQuiet DEF vars, Acked, receiver
<1> QED
  BY <1>1, <1>2, <1>3, <1>4, <1>5, <1>6, <1>7, <1>8, <1>9, <1>10, <1>11 DEF Next

\* Unless every acknowledgement is lost, a transfer that decoded ends because one of
\* them stopped the sender (raptorq-gate.js:151-152, 264-269).
THEOREM AcksStop == Spec => []AckStops
<1>1. AckInv => AckStops
  BY DEF AckInv
<1> QED  BY <1>1, AckInit, AckNext, PTL DEF Spec
=============================================================================
