-------------------------------- MODULE MCLabs --------------------------------
(***************************************************************************)
(* The labs, which share no state, checked together: a behaviour is one of *)
(* the aggregation of receipts, of the threshold-signed log, of the hybrid *)
(* handshake, of the signatures, of a set reconciliation, or of a fountain *)
(* decoder, while the others stay as they begin.                           *)
(***************************************************************************)
EXTENDS ReceiptLedger, FrostLog, HybridHandshake, PqCrypto, Riblt, FountainDecoder

CONSTANTS c1, c2, x, y, other

\* All arrays of at most four receipts of two channels, two sequence numbers and
\* two bodies, one of them with a signature that does not verify.
Sizes == [b \in Body |-> IF b = x THEN 1 ELSE 5]
Sample ==
  [channel : {c1, c2}, sequence : 1..2, body : {x, y}, valid : {TRUE}]
    \cup [channel : {c1}, sequence : {2}, body : {y}, valid : {FALSE}]
Arrays == UNION {[1..n -> Sample] : n \in 0..4}

\* Offers in either order, repeated, empty, and with a mode that does not exist.
Lists ==
  {<<"classical">>, <<"hybrid">>, <<"classical", "hybrid">>, <<"hybrid", "classical">>,
   <<"hybrid", "hybrid">>, <<>>, <<"hybrid", "quantum">>}
\* The field of four elements, its products tabulated once.
GF == INSTANCE GaloisField WITH Width <- 2, Poly <- {0, 1}

GF4 == GF!Element
NoBits == {}
LowBit == {0}
Sum4(a, b) == GF!Xor(a, b)

Products == [a \in GF4 |-> [b \in GF4 |-> GF!mulBy(a, b)]]
Product4(a, b) == Products[a][b]
Inverses == [a \in GF4 \ {NoBits} |-> CHOOSE b \in GF4 : Products[a][b] = LowBit]
Inv4(a) == Inverses[a]
-----------------------------------------------------------------------------
LedgerRests == signedReceipts = <<>> /\ strict = FALSE /\ outcome = "running"
FrostRests == made = [s \in Signer |-> 0] /\ call = [a \in Call |-> NoCall]
HandshakeRests == initiator = Nothing
PqRests == capsules = {} /\ signatures = {} /\ asked = NotAsked
RibltRests ==
  /\ mapping = [e \in Elem |-> {0}] /\ localSet = {} /\ remote = [e \in Elem |-> 0]
  /\ cs = <<>> /\ stage = "pull" /\ failed = FALSE

DecoderRests == rank = 0 /\ pc = "idle"

LabsInit ==
  /\ FrostInit /\ HsInit /\ PqInit /\ Init
  /\ (LedgerRests /\ LedgerInit /\ RibltInit) \/ (RibltRests /\ RibltInit /\ LedgerInit)

labsVars == <<ledgerVars, frostVars, hsVars, pqVars, ribltVars, vars>>

LabsNext ==
  \/ /\ FrostRests /\ HandshakeRests /\ PqRests /\ RibltRests /\ DecoderRests
     /\ LedgerNext /\ UNCHANGED <<frostVars, hsVars, pqVars, ribltVars, vars>>
  \/ /\ LedgerRests /\ HandshakeRests /\ PqRests /\ RibltRests /\ DecoderRests
     /\ FrostNext /\ UNCHANGED <<ledgerVars, hsVars, pqVars, ribltVars, vars>>
  \/ /\ LedgerRests /\ FrostRests /\ PqRests /\ RibltRests /\ DecoderRests
     /\ HsNext /\ UNCHANGED <<ledgerVars, frostVars, pqVars, ribltVars, vars>>
  \/ /\ LedgerRests /\ FrostRests /\ HandshakeRests /\ RibltRests /\ DecoderRests
     /\ PqNext /\ UNCHANGED <<ledgerVars, frostVars, hsVars, ribltVars, vars>>
  \/ /\ LedgerRests /\ FrostRests /\ HandshakeRests /\ PqRests /\ DecoderRests
     /\ RibltNext /\ UNCHANGED <<ledgerVars, frostVars, hsVars, pqVars, vars>>
  \/ /\ LedgerRests /\ FrostRests /\ HandshakeRests /\ PqRests /\ RibltRests
     /\ Next /\ UNCHANGED <<ledgerVars, frostVars, hsVars, pqVars, ribltVars>>

Labs == LabsInit /\ [][LabsNext]_labsVars
=============================================================================
