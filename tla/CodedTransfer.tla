---------------------------- MODULE CodedTransfer ----------------------------
(***************************************************************************)
(* The coded transfer of harness/bench/raptorq-gate.js over the link of    *)
(* harness/lossy-link.js: K systematic symbols, then repair rounds sized   *)
(* from the rank the receiver reports, until the receiver can decode and   *)
(* its acknowledgement stops the sender.                                   *)
(*                                                                         *)
(* The link drops or delays every datagram by itself, in both directions,  *)
(* so datagrams in flight are a set.  The decoder is the rank of what it   *)
(* has got (FountainDecoder).  Time is not modelled, but for what the      *)
(* constants of the code make sure of: lostBatchMs, the wait before the    *)
(* teardown and the 30 s limit outlast any round trip.                     *)
(***************************************************************************)
EXTENDS Integers, FiniteSets

CONSTANTS
  K,           \* source blocks
  Cap,         \* most symbols the sender will send (cap)
  Acks,        \* times the receiver sends its acknowledgement
  Rank(_),     \* rank of a set of symbols
  MaxDrops     \* datagrams the link may drop

Esi == 0..(Cap - 1)

ASSUME SizeAssumption == K \in Nat \ {0} /\ Cap \in Nat /\ K <= Cap
ASSUME BoundAssumption == Acks \in Nat \ {0} /\ MaxDrops \in Nat

\* A new symbol adds at most one to the rank; the systematic ones are independent.
ASSUME RankAssumption ==
  /\ Rank({}) = 0 /\ Rank(0..(K - 1)) = K
  /\ \A S \in SUBSET Esi, e \in Esi :
       Rank(S) \in 0..K /\ Rank(S \cup {e}) \in {Rank(S), Rank(S) + 1}

VARIABLES
  nextEsi, latestRank, feedbackSinceBatch,
  rankAtPrevPoll,      \* -1 before the first poll
  ticking,             \* roundTick is due again
  senderStopped,
  got, decoded,        \* receiver: symbols added; wire.decoded
  acksLeft,
  fwd, rev,            \* datagrams on the link, each way
  drops,
  outcome,             \* of the promise completion, then "closed" or "timeout"
  stoppedByAck         \* as returned

sender == <<nextEsi, latestRank, feedbackSinceBatch, rankAtPrevPoll, ticking>>
receiver == <<got, decoded, acksLeft>>
vars == <<sender, senderStopped, receiver, fwd, rev, drops, outcome, stoppedByAck>>

Report == [kind : {"rank"}, esi : Esi, rank : 0..K]
Done == [kind : {"done"}, nth : 1..Acks]
Open == outcome \in {"running", "resolved"}

Init ==
  /\ nextEsi = K /\ fwd = 0..(K - 1)
  /\ latestRank = 0 /\ feedbackSinceBatch = FALSE /\ rankAtPrevPoll = -1
  /\ ticking = TRUE /\ senderStopped = FALSE
  /\ got = {} /\ decoded = FALSE /\ acksLeft = Acks
  /\ rev = {} /\ drops = 0
  /\ outcome = "running" /\ stoppedByAck = FALSE
-----------------------------------------------------------------------------
(* The link.                                                               *)

Drop ==
  /\ drops < MaxDrops /\ drops' = drops + 1
  /\ \/ \E e \in fwd : fwd' = fwd \ {e} /\ UNCHANGED rev
     \/ \E m \in rev : rev' = rev \ {m} /\ UNCHANGED fwd
  /\ UNCHANGED <<sender, senderStopped, receiver, outcome, stoppedByAck>>
-----------------------------------------------------------------------------
(* The receiver.                                                           *)

\* Mutant: the report counts the symbols that came.
Bug_ReportOn(e) == [kind |-> "rank", esi |-> e,
  rank |-> IF Cardinality(got \cup {e}) < K THEN Cardinality(got \cup {e}) ELSE K]

ReportOn(e) == [kind |-> "rank", esi |-> e, rank |-> Rank(got \cup {e})]

\* A symbol that does not complete the group is added and the rank reported.
Receive(e) ==
  /\ Open /\ e \in fwd /\ ~decoded /\ Rank(got \cup {e}) < K
  /\ fwd' = fwd \ {e} /\ got' = got \cup {e}
  /\ rev' = rev \cup {ReportOn(e)}
  /\ UNCHANGED <<sender, senderStopped, decoded, acksLeft, drops, outcome, stoppedByAck>>

\* The one that does: report, decode, send the first acknowledgement, resolve.
Complete(e) ==
  /\ Open /\ e \in fwd /\ ~decoded /\ Rank(got \cup {e}) >= K
  /\ fwd' = fwd \ {e} /\ got' = got \cup {e}
  /\ decoded' = TRUE /\ acksLeft' = acksLeft - 1
  /\ rev' = rev \cup {ReportOn(e), [kind |-> "done", nth |-> acksLeft]}
  /\ outcome' = "resolved"
  /\ UNCHANGED <<sender, senderStopped, drops, stoppedByAck>>

\* Symbols after that are ignored.
Ignore(e) ==
  /\ Open /\ e \in fwd /\ decoded
  /\ fwd' = fwd \ {e}
  /\ UNCHANGED <<sender, senderStopped, receiver, rev, drops, outcome, stoppedByAck>>

\* Mutant: the last acknowledgement is not sent.
Bug_SendAck ==
  /\ Open /\ decoded /\ acksLeft > 0
  /\ acksLeft' = acksLeft - 1
  /\ rev' = IF acksLeft > 1 THEN rev \cup {[kind |-> "done", nth |-> acksLeft]} ELSE rev
  /\ UNCHANGED <<sender, senderStopped, got, decoded, fwd, drops, outcome, stoppedByAck>>

\* sendAck, again on its timer.
SendAck ==
  /\ Open /\ decoded /\ acksLeft > 0
  /\ acksLeft' = acksLeft - 1
  /\ rev' = rev \cup {[kind |-> "done", nth |-> acksLeft]}
  /\ UNCHANGED <<sender, senderStopped, got, decoded, fwd, drops, outcome, stoppedByAck>>
-----------------------------------------------------------------------------
(* The sender.                                                             *)

ReceiveReport(m) ==
  /\ Open /\ m \in rev \cap Report
  /\ rev' = rev \ {m}
  /\ latestRank' = IF m.rank > latestRank THEN m.rank ELSE latestRank
  /\ feedbackSinceBatch' = TRUE
  /\ UNCHANGED <<nextEsi, rankAtPrevPoll, ticking, senderStopped, receiver, fwd, drops,
                 outcome, stoppedByAck>>

ReceiveDone(m) ==
  /\ Open /\ m \in rev \cap Done
  /\ rev' = rev \ {m} /\ senderStopped' = TRUE
  /\ UNCHANGED <<sender, receiver, fwd, drops, outcome, stoppedByAck>>

\* Nothing sent before is still to arrive.
Quiet == fwd = {} /\ rev \cap Report = {}

settled == feedbackSinceBatch /\ latestRank = rankAtPrevPoll
Stops == senderStopped \/ decoded \/ nextEsi >= Cap

\* roundTick ends the rounds.
LastTick ==
  /\ Open /\ ticking /\ Stops
  /\ ticking' = FALSE
  /\ UNCHANGED <<nextEsi, latestRank, feedbackSinceBatch, rankAtPrevPoll, senderStopped,
                 receiver, fwd, rev, drops, outcome, stoppedByAck>>

\* roundTick only notes the rank: nothing known yet, or not settled and
\* lostBatchMs not over.
Poll ==
  /\ Open /\ ticking /\ ~Stops
  /\ latestRank = 0 \/ ~settled
  /\ rankAtPrevPoll' = latestRank
  /\ UNCHANGED <<nextEsi, latestRank, feedbackSinceBatch, ticking, senderStopped,
                 receiver, fwd, rev, drops, outcome, stoppedByAck>>

\* Mutant: rounds wait for a settled rank only, a lost batch is not noticed.
Bug_DueRound == latestRank # 0 /\ settled

\* lostBatchMs is over only if nothing is in flight any more.
DueRound == latestRank # 0 /\ (settled \/ Quiet)

\* The symbols of the round end before this one.
RoundEnd == IF nextEsi + (K - latestRank) < Cap THEN nextEsi + (K - latestRank) ELSE Cap

\* roundTick sends as many symbols as blocks are missing.
RepairRound ==
  /\ Open /\ ticking /\ ~Stops /\ DueRound
  /\ rankAtPrevPoll' = latestRank
  /\ fwd' = fwd \cup nextEsi..(RoundEnd - 1)
  /\ nextEsi' = RoundEnd
  /\ feedbackSinceBatch' = (feedbackSinceBatch /\ RoundEnd = nextEsi)
  /\ UNCHANGED <<latestRank, ticking, senderStopped, receiver, rev, drops, outcome,
                 stoppedByAck>>
-----------------------------------------------------------------------------
(* The end.                                                                *)

\* finally: flags set, timers cleared, sockets and link closed.
TearDown ==
  /\ decoded' = TRUE /\ senderStopped' = TRUE /\ ticking' = FALSE
  /\ fwd' = {} /\ rev' = {}
  /\ UNCHANGED <<nextEsi, latestRank, feedbackSinceBatch, rankAtPrevPoll, got, acksLeft, drops>>

\* Mutant: the wait for the acknowledgement has no bound.
Bug_Return ==
  /\ outcome = "resolved" /\ senderStopped
  /\ outcome' = "closed" /\ stoppedByAck' = senderStopped
  /\ TearDown

\* The sender has stopped, or rttMs * 6 is over: all acknowledgements have been
\* sent, and arrived or not.
Return ==
  /\ outcome = "resolved"
  /\ senderStopped \/ (acksLeft = 0 /\ rev \cap Done = {})
  /\ outcome' = "closed" /\ stoppedByAck' = senderStopped
  /\ TearDown

\* The 30 s limit: nothing is in flight and no tick will send more.
Timeout ==
  /\ outcome = "running" /\ Quiet
  /\ ~(ticking /\ ~Stops /\ DueRound)
  /\ outcome' = "timeout" /\ UNCHANGED stoppedByAck
  /\ TearDown

Next ==
  \/ Drop
  \/ \E e \in fwd : Receive(e) \/ Complete(e) \/ Ignore(e)
  \/ SendAck
  \/ \E m \in rev : ReceiveReport(m) \/ ReceiveDone(m)
  \/ LastTick \/ Poll \/ RepairRound
  \/ Return \/ Timeout

Spec == Init /\ [][Next]_vars

\* Datagrams that are not dropped arrive, and timers fire.
Fairness ==
  /\ WF_vars(\E e \in fwd : Receive(e) \/ Complete(e) \/ Ignore(e))
  /\ WF_vars(\E m \in rev : ReceiveReport(m) \/ ReceiveDone(m))
  /\ WF_vars(SendAck) /\ WF_vars(LastTick) /\ WF_vars(Poll) /\ WF_vars(RepairRound)
  /\ WF_vars(Return) /\ WF_vars(Timeout)

FairSpec == Spec /\ Fairness
-----------------------------------------------------------------------------
(* Properties.                                                             *)

\* The variables hold values of their types.
TypeOK ==
  /\ nextEsi \in 0..Cap /\ latestRank \in 0..K /\ rankAtPrevPoll \in -1..K
  /\ {feedbackSinceBatch, ticking, senderStopped, decoded, stoppedByAck} \subseteq BOOLEAN
  /\ got \subseteq Esi /\ fwd \subseteq Esi /\ rev \subseteq Report \cup Done
  /\ acksLeft \in 0..Acks /\ drops \in 0..MaxDrops
  /\ outcome \in {"running", "resolved", "closed", "timeout"}

\* The sender never believes in a rank the receiver has not reached, in whatever
\* order reports come: a round is never too small (raptorq-gate.js:238-239).
RankSound ==
  /\ latestRank <= Rank(got)
  /\ \A m \in rev \cap Report : m.rank <= Rank(got)

\* If fewer acknowledgements are lost than are sent, a transfer that decoded ends
\* because one stopped the sender (raptorq-gate.js:151-152, 264-269).
AckStops == outcome = "closed" /\ drops < Acks => stoppedByAck

\* A transfer over a link that loses fewer datagrams than the first round sends
\* ends decoded, not by its time limit (raptorq-gate.js:230-235).
Completes == [](drops < K) => <>(outcome = "closed")

\* However much is lost, a transfer ends and everything is torn down
\* (raptorq-gate.js:54-55, 264-269).
Ends == <>~Open
=============================================================================
