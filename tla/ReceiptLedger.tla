---------------------------- MODULE ReceiptLedger ----------------------------
(***************************************************************************)
(* aggregate of labs/retrieval-market/index.js: a provider's receipts, in  *)
(* whatever order they come and however often, become one claim per        *)
(* payment channel, and channels whose consumer contradicted itself are    *)
(* set apart.  One action per receipt of the loop, and one for the end.    *)
(*                                                                         *)
(* A receipt is its channel (provider, consumer and channel), its sequence *)
(* number, the rest of what is signed (bytes, timestamp, nonce) as one     *)
(* body, and whether its signature verifies.                               *)
(***************************************************************************)
EXTENDS Naturals, Sequences, FiniteSets, FiniteSetsExt

CONSTANTS
  Channel, Body,
  Bytes,       \* Bytes[b]: the bytes of body b
  Input,       \* the arrays aggregate may be called with
  NoReceipt

Receipt == [channel : Channel, sequence : Nat, body : Body, valid : BOOLEAN]

ASSUME InputAssumption == Input \subseteq Seq(Receipt)
ASSUME BytesAssumption == Bytes \in [Body -> Nat]
ASSUME NoReceiptAssumption == NoReceipt \notin Receipt

VARIABLES
  signedReceipts, strict,   \* the arguments
  i,                        \* the receipt the loop is at
  best,                     \* best[c]: the receipt to claim on c, or NoReceipt
  seqPrints,                \* the first receipt seen of a channel and sequence
  equivocating,             \* channels that contradicted themselves
  invalid,                  \* receipts dropped
  claims, equivocations, totalBytes,   \* the result
  outcome                   \* "running", "returned" or "thrown"

result == <<claims, equivocations, totalBytes>>
ledgerVars == <<signedReceipts, strict, i, best, seqPrints, equivocating, invalid,
          result, outcome>>

LedgerInit ==
  /\ signedReceipts \in Input /\ strict \in BOOLEAN
  /\ i = 1 /\ invalid = 0 /\ outcome = "running"
  /\ best = [c \in Channel |-> NoReceipt]
  /\ seqPrints = {} /\ equivocating = {}
  /\ claims = {} /\ equivocations = {} /\ totalBytes = 0
-----------------------------------------------------------------------------
SameSlot(r, s) == r.channel = s.channel /\ r.sequence = s.sequence

\* Mutant: a receipt is compared with the best one only.
Bug_Contradicts(r) ==
  best[r.channel] # NoReceipt /\ SameSlot(best[r.channel], r)
    /\ best[r.channel].body # r.body

\* r differs from the receipt remembered for its channel and sequence.
Contradicts(r) == \E p \in seqPrints : SameSlot(p, r) /\ p.body # r.body

\* The first receipt of a channel and sequence is remembered.
Remembered(r) ==
  IF \E p \in seqPrints : SameSlot(p, r) THEN seqPrints ELSE seqPrints \cup {r}

Better(r) ==
  best[r.channel] = NoReceipt \/ r.sequence > best[r.channel].sequence

Current == signedReceipts[i]
InLoop == outcome = "running" /\ i <= Len(signedReceipts)

\* A receipt whose signature verifies.
Count ==
  /\ InLoop /\ Current.valid
  /\ seqPrints' = Remembered(Current)
  /\ equivocating' = IF Contradicts(Current)
                     THEN equivocating \cup {Current.channel} ELSE equivocating
  /\ best' = IF Better(Current)
             THEN [best EXCEPT ![Current.channel] = Current] ELSE best
  /\ i' = i + 1
  /\ UNCHANGED <<signedReceipts, strict, invalid, result, outcome>>

\* Mutant: an invalid receipt is dropped in strict mode as well.
Bug_Refuse ==
  /\ InLoop /\ ~Current.valid
  /\ invalid' = invalid + 1 /\ i' = i + 1
  /\ UNCHANGED <<signedReceipts, strict, best, seqPrints, equivocating, result,
                 outcome>>

\* A receipt whose signature does not verify.
Refuse ==
  /\ InLoop /\ ~Current.valid
  /\ IF strict THEN outcome' = "thrown" /\ UNCHANGED <<invalid, i>>
     ELSE invalid' = invalid + 1 /\ i' = i + 1 /\ outcome' = outcome
  /\ UNCHANGED <<signedReceipts, strict, best, seqPrints, equivocating, result>>

Best == {best[c] : c \in {d \in Channel : best[d] # NoReceipt}}

\* Every channel is claimed or set apart, and the claims are summed up.
Finish ==
  /\ outcome = "running" /\ i > Len(signedReceipts)
  /\ claims' = {r \in Best : r.channel \notin equivocating}
  /\ equivocations' = {r.channel : r \in {s \in Best : s.channel \in equivocating}}
  /\ totalBytes' = MapThenSumSet(LAMBDA r : Bytes[r.body], claims')
  /\ outcome' = IF strict /\ equivocations' # {} THEN "thrown" ELSE "returned"
  /\ UNCHANGED <<signedReceipts, strict, i, best, seqPrints, equivocating, invalid>>

LedgerNext == Count \/ Refuse \/ Finish
LedgerSpec == LedgerInit /\ [][LedgerNext]_ledgerVars
-----------------------------------------------------------------------------
(* What the array means, whatever its order and its repetitions.           *)

Given == {signedReceipts[j] : j \in DOMAIN signedReceipts}
Verified(R) == {r \in R : r.valid}

\* Channels with two different receipts of one sequence number.
Contradicted(R) ==
  {c \in Channel : \E r, s \in Verified(R) :
                     r.channel = c /\ SameSlot(r, s) /\ r.body # s.body}

\* The latest receipt of each channel that is free of contradictions.
Owed(R) ==
  {r \in Verified(R) :
     /\ r.channel \notin Contradicted(R)
     /\ \A s \in Verified(R) : s.channel = r.channel => s.sequence <= r.sequence}

LedgerTypeOK ==
  /\ signedReceipts \in Seq(Receipt) /\ strict \in BOOLEAN
  /\ i \in 1..(Len(signedReceipts) + 1) /\ invalid \in Nat
  /\ best \in [Channel -> Receipt \cup {NoReceipt}]
  /\ seqPrints \subseteq Receipt /\ equivocating \subseteq Channel
  /\ claims \subseteq Receipt /\ equivocations \subseteq Channel
  /\ outcome \in {"running", "returned", "thrown"}

\* What holds between two receipts: best is the latest verified receipt of each
\* channel, one receipt is remembered of each slot, and the channels set apart
\* are the contradicted ones, all of what was seen so far.
Seen == {signedReceipts[j] : j \in 1..(i - 1)}

BestLatest ==
  \A c \in Channel :
    IF best[c] = NoReceipt THEN \A r \in Verified(Seen) : r.channel # c
    ELSE /\ best[c] \in Verified(Seen) /\ best[c].channel = c
         /\ \A r \in Verified(Seen) :
              r.channel = c => r.sequence <= best[c].sequence

SlotsRemembered ==
  /\ seqPrints \subseteq Verified(Seen)
  /\ \A r \in Verified(Seen) : \E p \in seqPrints : SameSlot(p, r)

LedgerInv ==
  /\ BestLatest /\ SlotsRemembered
  /\ equivocating = Contradicted(Seen)
  /\ strict => Seen = Verified(Seen)
  /\ outcome = "returned" => i > Len(signedReceipts)

\* What is claimed and what is set apart depends on which receipts were given,
\* not on their order or repetition, and no channel is claimed twice
\* (index.js:184-202).
ClaimsExact ==
  outcome = "returned" =>
    /\ claims = Owed(Given) /\ equivocations = Contradicted(Given)
    /\ \A r, s \in claims : r.channel = s.channel => r = s

\* In strict mode the result is thrown away exactly if some receipt does not
\* verify or some consumer contradicted itself; otherwise never (index.js:204-205).
StrictExact ==
  /\ outcome = "thrown" =>
       strict /\ (Verified(Given) # Given \/ Contradicted(Given) # {})
  /\ outcome = "returned" /\ strict =>
       Verified(Given) = Given /\ Contradicted(Given) = {}
=============================================================================
