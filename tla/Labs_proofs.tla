---------------------------- MODULE Labs_proofs -----------------------------
(***************************************************************************)
(* Proofs about the labs: the receipts of retrieval-market, the log of     *)
(* frost-multiwriter, the handshake of pq-secretstream and the signatures  *)
(* of bare-pqcrypto, a part each.                                          *)
(***************************************************************************)
EXTENDS ReceiptLedger, FrostLog, HybridHandshake, PqCrypto, FiniteSetTheorems,
        FunctionTheorems, TLAPS
-----------------------------------------------------------------------------
(***************************************************************************)
(* Proofs about ReceiptLedger: for every array of receipts, aggregate      *)
(* claims exactly what is owed and refuses exactly what it should.         *)
(***************************************************************************)

\* The variables keep their types.
THEOREM LedgerTypes == LedgerSpec => []LedgerTypeOK
<1>1. LedgerInit => LedgerTypeOK
  BY InputAssumption DEF LedgerInit, LedgerTypeOK
<1>2. LedgerTypeOK /\ [LedgerNext]_ledgerVars => LedgerTypeOK'
  <2> SUFFICES ASSUME LedgerTypeOK, [LedgerNext]_ledgerVars PROVE LedgerTypeOK'
    OBVIOUS
  <2>1. ASSUME InLoop PROVE Current \in Receipt /\ i + 1 \in 1..(Len(signedReceipts) + 1)
    BY <2>1 DEF LedgerTypeOK, InLoop, Current
  <2>2. CASE Count
    <3>1. Current \in Receipt /\ Current.channel \in Channel
      BY <2>1, <2>2 DEF Count, Receipt
    <3>2. best' \in [Channel -> Receipt \cup {NoReceipt}]
      BY <3>1, <2>2 DEF Count, LedgerTypeOK
    <3>3. seqPrints' \subseteq Receipt /\ equivocating' \subseteq Channel
      BY <3>1, <2>2 DEF Count, LedgerTypeOK, Remembered
    <3> QED
      BY <3>2, <3>3, <2>1, <2>2 DEF Count, LedgerTypeOK, result
  <2>3. CASE Refuse
    BY <2>1, <2>3 DEF Refuse, LedgerTypeOK, result
  <2>4. CASE Finish
    <3>1. Best \subseteq Receipt
      BY DEF Best, LedgerTypeOK
    <3>2. \A r \in Best : r.channel \in Channel
      BY <3>1 DEF Receipt
    <3>3. claims' \subseteq Receipt /\ equivocations' \subseteq Channel
      BY <3>1, <3>2, <2>4 DEF Finish
    <3> QED
      BY <3>3, <2>4 DEF Finish, LedgerTypeOK
  <2>5. CASE UNCHANGED ledgerVars
    BY <2>5 DEF ledgerVars, result, LedgerTypeOK
  <2> QED
    BY <2>2, <2>3, <2>4, <2>5 DEF LedgerNext
<1> QED
  BY <1>1, <1>2, PTL DEF LedgerSpec
-----------------------------------------------------------------------------
(* The loop.                                                               *)

\* A receipt more to see.
LEMMA SeeOne ==
  ASSUME LedgerTypeOK, InLoop, i' = i + 1, signedReceipts' = signedReceipts
  PROVE  Seen' = Seen \cup {Current}
<1>1. i \in Nat /\ i >= 1
  BY DEF LedgerTypeOK
<1>2. 1..i = (1..(i - 1)) \cup {i} /\ (i + 1) - 1 = i
  BY <1>1
<1> QED
  BY <1>1, <1>2 DEF Seen, Current

\* The loop is at a receipt.
LEMMA CurrentReceipt == ASSUME LedgerTypeOK, InLoop PROVE Current \in Receipt
  BY DEF LedgerTypeOK, InLoop, Current

\* What is seen are receipts.
LEMMA SeenReceipts == ASSUME LedgerTypeOK PROVE Seen \subseteq Receipt
  BY DEF Seen, LedgerTypeOK

\* The new contradictions of a set with one receipt more are those of the new
\* receipt with a remembered one.
LEMMA ContradictedOneMore ==
  ASSUME NEW R, NEW P, NEW r,
         R \subseteq Receipt, r \in Receipt, r.valid,
         P \subseteq Verified(R),
         \A s \in Verified(R) : \E p \in P : SameSlot(p, s)
  PROVE  Contradicted(R \cup {r}) =
           IF \E p \in P : SameSlot(p, r) /\ p.body # r.body
           THEN Contradicted(R) \cup {r.channel} ELSE Contradicted(R)
<1> DEFINE New == \E p \in P : SameSlot(p, r) /\ p.body # r.body
<1>1. Verified(R \cup {r}) = Verified(R) \cup {r}
  BY DEF Verified
<1>2. Contradicted(R) \subseteq Contradicted(R \cup {r})
  BY <1>1 DEF Contradicted
<1>3. r.channel \in Channel
  BY DEF Receipt
<1>4. New => r.channel \in Contradicted(R \cup {r})
  <2> SUFFICES ASSUME NEW p \in P, SameSlot(p, r), p.body # r.body
               PROVE r.channel \in Contradicted(R \cup {r})
    OBVIOUS
  <2>1. p \in Verified(R \cup {r}) /\ r \in Verified(R \cup {r})
    BY <1>1
  <2>2. p.channel = r.channel
    BY DEF SameSlot
  <2> QED
    BY <1>3, <2>1, <2>2 DEF Contradicted
<1>5. ASSUME NEW c \in Contradicted(R \cup {r}), c \notin Contradicted(R)
      PROVE  New /\ c = r.channel
  <2>1. PICK s \in Verified(R) \cup {r}, t \in Verified(R) \cup {r} :
          s.channel = c /\ SameSlot(s, t) /\ s.body # t.body
    BY <1>1, <1>5 DEF Contradicted
  <2>2. ~(s \in Verified(R) /\ t \in Verified(R))
    BY <2>1, <1>5 DEF Contradicted
  <2>3. PICK q \in Verified(R) : SameSlot(q, r) /\ q.body # r.body /\ r.channel = c
    BY <2>1, <2>2 DEF SameSlot
  <2>4. PICK p \in P : SameSlot(p, q)
    BY <2>3
  <2>5. SameSlot(p, r) /\ p.channel = c /\ p \in Verified(R)
    BY <2>3, <2>4 DEF SameSlot
  <2>6. p.body # r.body
    <3> SUFFICES ASSUME p.body = r.body PROVE FALSE
      OBVIOUS
    <3>1. p.body # q.body
      BY <2>3
    <3> QED
      BY <3>1, <2>3, <2>4, <2>5, <1>5 DEF Contradicted
  <2> QED
    BY <2>3, <2>5, <2>6
<1> QED
  BY <1>2, <1>4, <1>5

\* The loop keeps best, the remembered slots and the channels set apart.
THEOREM LedgerInvariant == LedgerSpec => []LedgerInv
<1>1. LedgerInit => LedgerInv
  <2> SUFFICES ASSUME LedgerInit PROVE LedgerInv
    OBVIOUS
  <2>1. Seen = {} /\ Verified(Seen) = {}
    BY DEF LedgerInit, Seen, Verified
  <2>2. Contradicted(Seen) = {}
    BY <2>1 DEF Contradicted
  <2> QED
    BY <2>1, <2>2 DEF LedgerInit, LedgerInv, BestLatest, SlotsRemembered
<1>2. LedgerTypeOK /\ LedgerInv /\ [LedgerNext]_ledgerVars => LedgerInv'
  <2> SUFFICES ASSUME LedgerTypeOK, LedgerInv, [LedgerNext]_ledgerVars PROVE LedgerInv'
    OBVIOUS
  <2>1. CASE Count
    <3> DEFINE r == Current
    <3>0. r \in Receipt
      BY <2>1, CurrentReceipt DEF Count
    <3>1. r \in Receipt /\ r.valid /\ r.channel \in Channel /\ r.sequence \in Nat
      BY <3>0, <2>1 DEF Count, Receipt
    <3>2. Seen' = Seen \cup {r}
      BY <2>1, SeeOne DEF Count, result
    <3>3. Verified(Seen') = Verified(Seen) \cup {r}
      BY <3>1, <3>2 DEF Verified
    <3>4. Seen \subseteq Receipt /\ Verified(Seen) \subseteq Receipt
      BY SeenReceipts DEF Verified
    <3>5. BestLatest'
      <4> SUFFICES ASSUME NEW c \in Channel
                   PROVE IF best'[c] = NoReceipt
                         THEN \A s \in Verified(Seen') : s.channel # c
                         ELSE /\ best'[c] \in Verified(Seen') /\ best'[c].channel = c
                              /\ \A s \in Verified(Seen') :
                                   s.channel = c => s.sequence <= best'[c].sequence
        BY DEF BestLatest, Verified
      <4>1. CASE c # r.channel
        <5>1. best'[c] = best[c]
          BY <2>1, <3>1, <4>1 DEF Count, LedgerTypeOK
        <5> QED
          BY <5>1, <4>1, <3>3 DEF LedgerInv, BestLatest
      <4>2. CASE c = r.channel /\ Better(r)
        <5>1. best'[c] = r /\ best'[c] # NoReceipt
          BY <2>1, <3>1, <4>2, NoReceiptAssumption DEF Count, LedgerTypeOK
        <5>2. \A s \in Verified(Seen) : s.sequence \in Nat
          BY <3>4 DEF Receipt
        <5>3. best[c] # NoReceipt => best[c] \in Receipt /\ best[c].sequence \in Nat
          BY <4>2 DEF LedgerTypeOK, Receipt
        <5>4. \A s \in Verified(Seen) : s.channel = c => s.sequence <= r.sequence
          BY <5>2, <5>3, <4>2, <3>1 DEF LedgerInv, BestLatest, Better
        <5> QED
          BY <5>1, <5>4, <4>2, <3>3, <3>1
      <4>3. CASE c = r.channel /\ ~Better(r)
        <5>1. best'[c] = best[c] /\ best[c] # NoReceipt
          BY <2>1, <4>3 DEF Count, Better
        <5>2. r.sequence <= best[c].sequence
          <6>1. best[c] \in Receipt /\ best[c].sequence \in Nat
            BY <5>1 DEF LedgerTypeOK, Receipt
          <6> QED
            BY <6>1, <4>3, <3>1 DEF Better
        <5> QED
          BY <5>1, <5>2, <3>3 DEF LedgerInv, BestLatest
      <4> QED
        BY <4>1, <4>2, <4>3
    <3>6. SlotsRemembered'
      <4>1. seqPrints' = Remembered(r)
        BY <2>1 DEF Count
      <4>2. Remembered(r) \subseteq Verified(Seen) \cup {r}
        BY DEF LedgerInv, SlotsRemembered, Remembered
      <4>3. \A s \in Verified(Seen) : \E p \in Remembered(r) : SameSlot(p, s)
        BY DEF LedgerInv, SlotsRemembered, Remembered
      <4>4. \E p \in Remembered(r) : SameSlot(p, r)
        BY DEF Remembered, SameSlot
      <4>5. /\ seqPrints' \subseteq Verified(Seen')
            /\ \A s \in Verified(Seen') : \E p \in seqPrints' : SameSlot(p, s)
        BY <4>1, <4>2, <4>3, <4>4, <3>3
      <4> QED
        BY <4>5 DEF SlotsRemembered, Verified, SameSlot
    <3>7. equivocating' = Contradicted(Seen')
      <4>1. Contradicted(Seen \cup {r}) =
              IF \E p \in seqPrints : SameSlot(p, r) /\ p.body # r.body
              THEN Contradicted(Seen) \cup {r.channel} ELSE Contradicted(Seen)
        BY <3>1, <3>4, ContradictedOneMore DEF LedgerInv, SlotsRemembered
      <4>2. equivocating' = Contradicted(Seen \cup {r})
        BY <4>1, <2>1 DEF Count, Contradicts, LedgerInv
      <4> QED
        BY <4>2, <3>2
    <3>8. (strict => Seen = Verified(Seen))'
      BY <2>1, <3>2, <3>3 DEF Count, LedgerInv, Verified
    <3>9. (outcome = "returned" => i > Len(signedReceipts))'
      BY <2>1 DEF Count, InLoop
    <3> QED
      BY <3>5, <3>6, <3>7, <3>8, <3>9 DEF LedgerInv, Contradicted, Verified, SameSlot
  <2>2. CASE Refuse /\ strict
    BY <2>2 DEF Refuse, InLoop, LedgerInv, BestLatest, SlotsRemembered, Seen,
                Contradicted, Verified, SameSlot
  <2>3. CASE Refuse /\ ~strict
    <3>1. Seen' = Seen \cup {Current} /\ ~Current.valid
      BY <2>3, SeeOne DEF Refuse
    <3>2. Verified(Seen') = Verified(Seen)
      BY <3>1 DEF Verified
    <3>3. Contradicted(Seen') = Contradicted(Seen)
      BY <3>2 DEF Contradicted
    <3>4. best' = best /\ seqPrints' = seqPrints /\ equivocating' = equivocating
          /\ ~strict' /\ outcome' = "running"
      BY <2>3 DEF Refuse, InLoop
    <3>5. BestLatest'
      BY <3>2, <3>4 DEF LedgerInv, BestLatest, Verified
    <3>6. SlotsRemembered'
      BY <3>2, <3>4 DEF LedgerInv, SlotsRemembered, Verified, SameSlot
    <3>7. (equivocating = Contradicted(Seen))'
      BY <3>3, <3>4 DEF LedgerInv
    <3> QED
      BY <3>4, <3>5, <3>6, <3>7 DEF LedgerInv
  <2>4. CASE Finish
    BY <2>4 DEF Finish, LedgerInv, BestLatest, SlotsRemembered, Seen, Contradicted,
                Verified, SameSlot
  <2>5. CASE UNCHANGED ledgerVars
    BY <2>5 DEF ledgerVars, LedgerInv, BestLatest, SlotsRemembered, Seen, Contradicted,
                Verified, SameSlot
  <2> QED
    BY <2>1, <2>2, <2>3, <2>4, <2>5 DEF LedgerNext
<1> QED
  BY <1>1, <1>2, LedgerTypes, PTL DEF LedgerSpec
-----------------------------------------------------------------------------
(* The result.                                                             *)

\* At the end of the loop everything given has been seen.
LEMMA AllSeen ==
  ASSUME LedgerTypeOK, i > Len(signedReceipts) PROVE Seen = Given
<1>1. i - 1 = Len(signedReceipts)
  BY DEF LedgerTypeOK
<1>2. DOMAIN signedReceipts = 1..Len(signedReceipts)
  BY DEF LedgerTypeOK
<1> QED
  BY <1>1, <1>2 DEF Seen, Given

\* The best receipts of the channels not contradicted are the ones owed.
LEMMA BestIsOwed ==
  ASSUME LedgerTypeOK, BestLatest
  PROVE  {r \in Best : r.channel \notin Contradicted(Seen)} = Owed(Seen)
<1>0. Seen \subseteq Receipt
  BY SeenReceipts
<1>1. ASSUME NEW r \in Best, r.channel \notin Contradicted(Seen)
      PROVE  r \in Owed(Seen)
  <2>1. PICK c \in Channel : best[c] # NoReceipt /\ r = best[c]
    BY DEF Best
  <2> QED
    BY <2>1, <1>1 DEF BestLatest, Owed
<1>2. ASSUME NEW r \in Owed(Seen) PROVE r \in Best
  <2> DEFINE c == r.channel
  <2>1. r \in Verified(Seen) /\ r \in Receipt /\ c \in Channel
    BY <1>0 DEF Owed, Verified, Receipt
  <2>2. /\ best[c] # NoReceipt /\ best[c] \in Verified(Seen) /\ best[c].channel = c
        /\ r.sequence <= best[c].sequence
    BY <2>1 DEF BestLatest
  <2>3. best[c] \in Receipt /\ best[c].valid /\ r.valid
    BY <2>1, <2>2, <1>0 DEF Verified
  <2>4. best[c].sequence <= r.sequence
    BY <2>2 DEF Owed
  <2>5. best[c].sequence = r.sequence
    BY <2>1, <2>2, <2>3, <2>4 DEF Receipt
  <2>6. best[c].body = r.body
    BY <2>1, <2>2, <2>5 DEF Owed, Contradicted, SameSlot
  <2>7. best[c] = r
    BY <2>1, <2>2, <2>3, <2>5, <2>6 DEF Receipt
  <2> QED
    BY <2>1, <2>2, <2>7 DEF Best
<1> QED
  BY <1>1, <1>2 DEF Owed

\* Channels set apart: those of the best receipts that are contradicted.
LEMMA SetApart ==
  ASSUME LedgerTypeOK, BestLatest
  PROVE  {r.channel : r \in {s \in Best : s.channel \in Contradicted(Seen)}}
           = Contradicted(Seen)
<1>1. ASSUME NEW c \in Contradicted(Seen)
      PROVE  \E r \in Best : r.channel = c
  <2>1. c \in Channel /\ \E r \in Verified(Seen) : r.channel = c
    BY <1>1 DEF Contradicted
  <2>2. best[c] # NoReceipt /\ best[c].channel = c
    BY <2>1 DEF BestLatest
  <2> QED
    BY <2>1, <2>2 DEF Best
<1> QED
  BY <1>1

\* One receipt is owed per channel.
LEMMA OwedOnce ==
  ASSUME NEW R, R \subseteq Receipt, NEW r \in Owed(R), NEW s \in Owed(R),
         r.channel = s.channel
  PROVE  r = s
<1>1. r \in Receipt /\ s \in Receipt /\ r.valid /\ s.valid
      /\ r \in Verified(R) /\ s \in Verified(R)
  BY DEF Owed, Verified
<1>2. r.sequence <= s.sequence /\ s.sequence <= r.sequence
  BY <1>1 DEF Owed
<1>3. r.sequence = s.sequence
  BY <1>1, <1>2 DEF Receipt
<1>4. r.channel \in Channel /\ r.channel \notin Contradicted(R)
  BY <1>1 DEF Owed, Receipt
<1>5. r.body = s.body
  BY <1>1, <1>3, <1>4 DEF Contradicted, SameSlot
<1> QED
  BY <1>1, <1>3, <1>5 DEF Receipt

\* For every array of receipts and in both modes, what aggregate returns is a
\* function of the set of receipts: the latest receipt of every channel that is
\* free of contradictions, once.
THEOREM AggregateExact == LedgerSpec => []ClaimsExact
<1>1. LedgerInit => ClaimsExact
  BY DEF LedgerInit, ClaimsExact
<1>2. LedgerTypeOK /\ LedgerInv /\ LedgerInv' /\ ClaimsExact /\ [LedgerNext]_ledgerVars => ClaimsExact'
  <2> SUFFICES ASSUME LedgerTypeOK, LedgerInv, ClaimsExact, [LedgerNext]_ledgerVars
               PROVE  ClaimsExact'
    OBVIOUS
  <2>1. CASE Finish
    <3>1. Seen = Given /\ Given \subseteq Receipt
      BY <2>1, AllSeen, SeenReceipts DEF Finish
    <3>2. claims' = Owed(Given)
      BY <3>1, <2>1, BestIsOwed DEF Finish, LedgerInv
    <3>3. equivocations' = Contradicted(Given)
      BY <3>1, <2>1, SetApart DEF Finish, LedgerInv
    <3>4. \A r, s \in claims' : r.channel = s.channel => r = s
      BY <3>1, <3>2, OwedOnce
    <3>5. Given' = Given
      BY <2>1 DEF Finish, Given
    <3>6. Owed(Given)' = Owed(Given) /\ Contradicted(Given)' = Contradicted(Given)
      BY <3>5 DEF Owed, Contradicted, Verified, SameSlot
    <3> QED
      BY <3>2, <3>3, <3>4, <3>6 DEF ClaimsExact
  <2>2. CASE Count
    BY <2>2 DEF Count, InLoop, ClaimsExact
  <2>3. CASE Refuse
    BY <2>3 DEF Refuse, InLoop, ClaimsExact
  <2>4. CASE UNCHANGED ledgerVars
    BY <2>4 DEF ledgerVars, result, ClaimsExact, Given, Owed, Contradicted, Verified, SameSlot
  <2> QED
    BY <2>1, <2>2, <2>3, <2>4 DEF LedgerNext
<1> QED
  BY <1>1, <1>2, LedgerTypes, LedgerInvariant, PTL DEF LedgerSpec

\* Strict mode throws exactly when something is wrong with the receipts.
THEOREM AggregateStrict == LedgerSpec => []StrictExact
<1>1. LedgerInit => StrictExact
  BY DEF LedgerInit, StrictExact
<1>2. LedgerTypeOK /\ LedgerInv /\ StrictExact /\ [LedgerNext]_ledgerVars => StrictExact'
  <2> SUFFICES ASSUME LedgerTypeOK, LedgerInv, StrictExact, [LedgerNext]_ledgerVars
               PROVE  StrictExact'
    OBVIOUS
  <2>1. CASE Finish
    <3>1. Seen = Given
      BY <2>1, AllSeen DEF Finish
    <3>2. equivocations' = Contradicted(Given)
      BY <3>1, <2>1, SetApart DEF Finish, LedgerInv
    <3>3. strict => Given = Verified(Given)
      BY <3>1 DEF LedgerInv
    <3>4. Given' = Given /\ strict' = strict
      BY <2>1 DEF Finish, Given
    <3>5. Verified(Given)' = Verified(Given) /\ Contradicted(Given)' = Contradicted(Given)
      BY <3>4 DEF Contradicted, Verified, SameSlot
    <3>6. outcome' = IF strict /\ Contradicted(Given) # {} THEN "thrown" ELSE "returned"
      BY <3>2, <2>1 DEF Finish
    <3> QED
      BY <3>3, <3>4, <3>5, <3>6 DEF StrictExact
  <2>2. CASE Count
    BY <2>2 DEF Count, InLoop, StrictExact
  <2>3. CASE Refuse
    <3>1. Current \in Given /\ ~Current.valid
      BY <2>3 DEF Refuse, InLoop, LedgerTypeOK, Current, Given
    <3>2. Verified(Given) # Given
      BY <3>1 DEF Verified
    <3>3. Given' = Given /\ strict' = strict
      BY <2>3 DEF Refuse, Given
    <3>4. (Verified(Given) # Given)'
      BY <3>2, <3>3 DEF Verified
    <3>5. outcome' = "running" \/ (outcome' = "thrown" /\ strict)
      BY <2>3 DEF Refuse, InLoop
    <3> QED
      BY <3>3, <3>4, <3>5 DEF StrictExact
  <2>4. CASE UNCHANGED ledgerVars
    BY <2>4 DEF ledgerVars, StrictExact, Given, Contradicted, Verified, SameSlot
  <2> QED
    BY <2>1, <2>2, <2>3, <2>4 DEF LedgerNext
<1> QED
  BY <1>1, <1>2, LedgerTypes, LedgerInvariant, PTL DEF LedgerSpec
-----------------------------------------------------------------------------
(***************************************************************************)
(* For any number of signers, any threshold, any copies and appends, in    *)
(* whatever order commits, shares and appends come: no nonce serves two    *)
(* shares, and every head is signed by a quorum for exactly its tree.      *)
(***************************************************************************)

\* A nonce that is held, or has been used, is of its signer and counted in made;
\* one that is held has not been used.
NonceInv ==
  /\ made \in [Signer -> Nat]
  /\ nonces \in [Signer -> Nonce \cup {NoNonce}]
  /\ \A s \in Signer : nonces[s] # NoNonce =>
       nonces[s].signer = s /\ nonces[s].number <= made[s]
  /\ \A u \in used : u.nonce \in Nonce /\ u.nonce.number <= made[u.nonce.signer]
  /\ \A u \in used : nonces[u.nonce.signer] # u.nonce
  /\ NonceUsedOnce

LEMMA NonceInvInit == FrostInit => NonceInv
BY DEF FrostInit, NonceInv, NonceUsedOnce

LEMMA NonceInvCommit ==
  ASSUME NonceInv, NEW s \in Signer, NEW a \in Call, Commit(s, a) PROVE NonceInv'
<1>1. /\ made' = [made EXCEPT ![s] = @ + 1] /\ used' = used
      /\ nonces' = [nonces EXCEPT ![s] = [signer |-> s, number |-> made[s] + 1]]
  BY DEF Commit, Fresh
<1>2. made' \in [Signer -> Nat] /\ \A r \in Signer : made[r] <= made'[r]
  BY <1>1 DEF NonceInv
<1>3. nonces' \in [Signer -> Nonce \cup {NoNonce}]
  BY <1>1 DEF NonceInv, Nonce
<1>4. \A r \in Signer : nonces'[r] # NoNonce =>
        nonces'[r].signer = r /\ nonces'[r].number <= made'[r]
  BY <1>1 DEF NonceInv
<1>5. \A u \in used' : u.nonce \in Nonce /\ u.nonce.number <= made'[u.nonce.signer]
  BY <1>1, <1>2 DEF NonceInv, Nonce
<1>6. \A u \in used' : nonces'[u.nonce.signer] # u.nonce
  BY <1>1 DEF NonceInv, Nonce
<1> QED  BY <1>1, <1>2, <1>3, <1>4, <1>5, <1>6 DEF NonceInv, NonceUsedOnce

LEMMA NonceInvSign ==
  ASSUME NonceInv, NEW s \in Signer, NEW a \in Call, NEW list, Sign(s, a, list)
  PROVE  NonceInv'
<1> DEFINE share == ShareOf(s, list, call[a].signable)
<1>1. /\ nonces[s] # NoNonce /\ used' = used \cup {share} /\ made' = made
      /\ nonces' = [nonces EXCEPT ![s] = NoNonce]
  BY DEF Sign
<1>2. /\ share.nonce = nonces[s] /\ nonces[s] \in Nonce
      /\ nonces[s].signer = s /\ nonces[s].number <= made[s]
  BY <1>1 DEF ShareOf, NonceInv
<1> HIDE DEF share
<1>3. \A u \in used' : u.nonce \in Nonce /\ u.nonce.number <= made'[u.nonce.signer]
  BY <1>1, <1>2 DEF NonceInv
<1>4. \A u \in used' : nonces'[u.nonce.signer] # u.nonce
  BY <1>1, <1>2, <1>3, NoNonceAssumption DEF NonceInv, Nonce
<1>5. \A u \in used : u.nonce # share.nonce
  BY <1>2 DEF NonceInv
<1>6. NonceUsedOnce'
  BY <1>1, <1>5 DEF NonceInv, NonceUsedOnce
<1>7. nonces' \in [Signer -> Nonce \cup {NoNonce}]
  BY <1>1 DEF NonceInv
<1>8. \A r \in Signer : nonces'[r] # NoNonce =>
        nonces'[r].signer = r /\ nonces'[r].number <= made'[r]
  BY <1>1 DEF NonceInv
<1> QED  BY <1>1, <1>3, <1>4, <1>6, <1>7, <1>8 DEF NonceInv

\* Some signers commit, several times maybe, and some of those sign with the last
\* nonce, all for one list and message.
AtOnce(last, signing, list, message) ==
  /\ made' = [s \in Signer |-> made[s] + last[s]]
  /\ nonces' = [s \in Signer |->
                  IF s \in signing THEN NoNonce
                  ELSE IF last[s] > 0
                       THEN [signer |-> s, number |-> made[s] + last[s]]
                       ELSE nonces[s]]
  /\ used' = used \cup
       {[nonce |-> [signer |-> s, number |-> made[s] + last[s]],
         list |-> list, signable |-> message] : s \in signing}

LEMMA NonceInvAtOnce ==
  ASSUME NonceInv, NEW last \in [Signer -> Nat], NEW signing \in SUBSET Signer,
         \A s \in signing : last[s] > 0, NEW list, NEW message,
         AtOnce(last, signing, list, message)
  PROVE  NonceInv'
<1> USE DEF AtOnce
<1> DEFINE held(s) == [signer |-> s, number |-> made[s] + last[s]]
           share(s) == [nonce |-> held(s), list |-> list, signable |-> message]
<1>1. \A s \in Signer : made[s] \in Nat /\ made[s] + last[s] \in Nat /\ held(s) \in Nonce
  BY DEF NonceInv, Nonce
<1>2. made' \in [Signer -> Nat]
  BY <1>1
<1>3. nonces' \in [Signer -> Nonce \cup {NoNonce}]
  BY <1>1 DEF NonceInv
<1>4. \A s \in Signer : nonces'[s] # NoNonce =>
        nonces'[s].signer = s /\ nonces'[s].number <= made'[s]
  <2> TAKE s \in Signer
  <2> HAVE nonces'[s] # NoNonce
  <2>1. CASE last[s] > 0
    <3>1. nonces'[s] = held(s)
      BY <2>1
    <3> QED  BY <3>1, <1>1
  <2>2. CASE ~(last[s] > 0)
    <3>1. last[s] \in Nat /\ made[s] \in Nat
      BY <1>1
    <3> HIDE DEF held, share
    <3>3. last[s] = 0
      BY <3>1, <2>2, SMT
    <3>2. made'[s] = made[s] /\ nonces'[s] = nonces[s]
      BY <3>1, <3>3
    <3> QED  BY <3>2 DEF NonceInv
  <2> QED  BY <2>1, <2>2
<1>5. \A u \in used' : u \in used \/ \E s \in signing : u = share(s)
  OBVIOUS
<1>6. \A s \in signing : share(s).nonce = held(s) /\ s \in Signer
  OBVIOUS
<1>7. \A u \in used : /\ u.nonce \in Nonce /\ u.nonce.number <= made[u.nonce.signer]
                      /\ u.nonce.signer \in Signer
  BY DEF NonceInv, Nonce
<1>8. \A u \in used' : u.nonce \in Nonce /\ u.nonce.number <= made'[u.nonce.signer]
  <2>1. \A u \in used : u.nonce \in Nonce /\ u.nonce.number <= made'[u.nonce.signer]
    BY <1>1, <1>7 DEF Nonce
  <2>2. \A s \in signing : held(s) \in Nonce /\ held(s).number <= made'[held(s).signer]
    BY <1>1
  <2> QED  BY <1>5, <1>6, <2>1, <2>2
<1>9. \A u \in used : \A s \in signing : u.nonce # held(s)
  BY <1>1, <1>7 DEF Nonce
<1>10. \A u \in used' : nonces'[u.nonce.signer] # u.nonce
  <2>1. ASSUME NEW s \in signing PROVE nonces'[held(s).signer] # held(s)
    BY <1>1, NoNonceAssumption
  <2>2. ASSUME NEW u \in used PROVE nonces'[u.nonce.signer] # u.nonce
    <3> DEFINE s == u.nonce.signer
    <3>1. s \in Signer /\ u.nonce \in Nonce /\ u.nonce.number <= made[s]
      BY <1>7
    <3>2. CASE s \in signing
      BY <3>1, <3>2, NoNonceAssumption
    <3>3. CASE s \notin signing /\ last[s] > 0
      <4>1. nonces'[s] = held(s)
        BY <3>1, <3>3
      <4> QED  BY <4>1, <3>1, <3>3, <1>1 DEF Nonce
    <3>4. CASE s \notin signing /\ ~(last[s] > 0)
      BY <3>1, <3>4 DEF NonceInv
    <3> QED  BY <3>2, <3>3, <3>4
  <2> QED  BY <1>5, <1>6, <2>1, <2>2
<1>11. NonceUsedOnce'
  <2>1. \A r, s \in signing : held(r) = held(s) => share(r) = share(s)
    OBVIOUS
  <2> HIDE DEF held, share
  <2> QED  BY <1>5, <1>6, <1>9, <2>1 DEF NonceInv, NonceUsedOnce
<1> QED  BY <1>2, <1>3, <1>4, <1>8, <1>10, <1>11 DEF NonceInv

LEMMA NonceInvThresholdSign ==
  ASSUME NonceInv, NEW a \in Call, NEW c \in Replica, NEW b \in Block,
         NEW sessions \in TupleOf(Signer, Threshold), ThresholdSign(a, c, b, sessions)
  PROVE  NonceInv'
<1> DEFINE at(s) == {j \in DOMAIN sessions : sessions[j] = s}
           last == [s \in Signer |-> Cardinality(at(s))]
           nonce(k) == [signer |-> sessions[k],
                        number |-> made[sessions[k]]
                          + Cardinality({j \in 1..k : sessions[j] = sessions[k]})]
           list == toCommitmentList([k \in DOMAIN sessions |-> nonce(k)])
           repeated ==
             {k \in DOMAIN sessions : \E j \in 1..(k - 1) : sessions[j] = sessions[k]}
           signing == {sessions[k] : k \in {l \in DOMAIN sessions : \A r \in repeated : l < r}}
<1>1. sessions \in [1..Threshold -> Signer] /\ Threshold \in Nat
  BY ConfigAssumption DEF TupleOf
<1>2. \A s : IsFiniteSet(at(s))
  <2>1. IsFiniteSet(1..Threshold)
    BY <1>1, FS_Interval
  <2> QED  BY <1>1, <2>1, FS_Subset
<1>3. last \in [Signer -> Nat]
  BY <1>2, FS_CardinalityType
<1>4. signing \in SUBSET Signer
  BY <1>1
<1>5. ASSUME NEW s \in signing PROVE last[s] > 0
  <2>1. s \in Signer /\ at(s) # {}
    BY <1>1
  <2>2. Cardinality(at(s)) # 0 /\ Cardinality(at(s)) \in Nat
    BY <1>2, <2>1, FS_EmptySet, FS_CardinalityType
  <2>3. last[s] = Cardinality(at(s))
    BY <2>1
  <2> HIDE DEF at, last
  <2> QED  BY <2>2, <2>3
<1>6. AtOnce(last, signing, list, signableFor(c, b))
  <2>1. /\ made' = [s \in Signer |-> made[s] + Cardinality(at(s))]
        /\ nonces' = [s \in Signer |->
             IF s \in signing THEN NoNonce
             ELSE IF Cardinality(at(s)) > 0
                  THEN [signer |-> s, number |-> made[s] + Cardinality(at(s))]
                  ELSE nonces[s]]
        /\ used' = used \cup
             {[nonce |-> [signer |-> s, number |-> made[s] + Cardinality(at(s))],
               list |-> list, signable |-> signableFor(c, b)] : s \in signing}
    BY DEF ThresholdSign
  <2>2. \A s \in Signer : last[s] = Cardinality(at(s))
    OBVIOUS
  <2> HIDE DEF at, last, list, signing
  <2>3. made' = [s \in Signer |-> made[s] + last[s]]
    BY <2>1, <2>2
  <2>4. nonces' = [s \in Signer |->
                     IF s \in signing THEN NoNonce
                     ELSE IF last[s] > 0
                          THEN [signer |-> s, number |-> made[s] + last[s]]
                          ELSE nonces[s]]
    BY <2>1, <2>2
  <2>5. {[nonce |-> [signer |-> s, number |-> made[s] + Cardinality(at(s))],
          list |-> list, signable |-> signableFor(c, b)] : s \in signing}
        = {[nonce |-> [signer |-> s, number |-> made[s] + last[s]],
            list |-> list, signable |-> signableFor(c, b)] : s \in signing}
    BY <2>2, <1>4
  <2> QED  BY <2>1, <2>3, <2>4, <2>5 DEF AtOnce
<1> HIDE DEF last, signing, list
<1> QED  BY <1>3, <1>4, <1>5, <1>6, NonceInvAtOnce

LEMMA NonceInvNext == NonceInv /\ [FrostNext]_frostVars => NonceInv'
<1> SUFFICES ASSUME NonceInv, [FrostNext]_frostVars PROVE NonceInv'
  OBVIOUS
<1>1. ASSUME NEW s \in Signer, NEW a \in Call, Commit(s, a) PROVE NonceInv'
  BY <1>1, NonceInvCommit
<1>2. ASSUME NEW s \in Signer, NEW a \in Call, NEW list, Sign(s, a, list) PROVE NonceInv'
  BY <1>2, NonceInvSign
<1>3. ASSUME NEW a \in Call, NEW c \in Replica, NEW b \in Block,
             NEW sessions \in TupleOf(Signer, Threshold), ThresholdSign(a, c, b, sessions)
      PROVE  NonceInv'
  BY <1>3, NonceInvThresholdSign
<1>4. ASSUME UNCHANGED <<nonces, made, used>> PROVE NonceInv'
  BY <1>4 DEF NonceInv, NonceUsedOnce
<1> QED
  BY <1>1, <1>2, <1>3, <1>4
  DEF FrostNext, frostVars, Open, Distribute, Aggregate, Land, Abandon, Replicate

\* However commits, shares and appends interleave, and even if a session is given
\* twice, no nonce serves two different shares.
THEOREM NoncesSafe == FrostSpec => []NonceUsedOnce
<1>1. NonceInv => NonceUsedOnce
  BY DEF NonceInv
<1> QED  BY <1>1, NonceInvInit, NonceInvNext, PTL DEF FrostSpec
-----------------------------------------------------------------------------
\* The shares of all are enough of them for a signature of these blocks.
Signed(signature, blocks, all) ==
  /\ Cardinality(signature.signers) >= Threshold
  /\ \A s \in signature.signers :
       \E u \in all : u.nonce.signer = s /\ u.signable = blocks

IsCall(r) ==
  /\ DOMAIN r =
       {"stage", "core", "signable", "received", "list", "shares", "signature"}
  /\ r = [f \in DOMAIN r |-> r[f]]

\* A signature that waits to land is one of the tree that was read for it.
HeadsInv ==
  /\ call = [a \in Call |-> call[a]] /\ \A a \in Call : IsCall(call[a])
  /\ DOMAIN tree = Replica /\ DOMAIN head = Replica
  /\ \A a \in Call : call[a].shares \subseteq used
  /\ \A a \in Call : call[a].stage = "signed" =>
       /\ call[a].signature.signable = call[a].signable
       /\ Signed(call[a].signature, call[a].signable, used)
  /\ \A c \in Replica : tree[c] # <<>> => Signed(head[c], tree[c], used)

LEMMA SignedStays ==
  ASSUME NEW signature, NEW blocks, NEW all, NEW more, all \subseteq more,
         Signed(signature, blocks, all)
  PROVE  Signed(signature, blocks, more)
BY DEF Signed

LEMMA AggregateSigns ==
  ASSUME NEW list, NEW shares, NEW message, NEW all, shares \subseteq all,
         Aggregates(list, shares, message),
         NEW signature, signature.signers = SignersOf(list)
  PROVE  Signed(signature, message, all)
<1>1. Cardinality(SignersOf(list)) >= Threshold
  BY DEF Aggregates
<1>2. ASSUME NEW s \in SignersOf(list)
      PROVE  \E u \in all : u.nonce.signer = s /\ u.signable = message
  <2>1. PICK k \in DOMAIN list : s = list[k].signer
    BY DEF SignersOf
  <2> DEFINE u == [nonce |-> list[k], list |-> list, signable |-> message]
  <2>2. u \in all
    BY DEF Aggregates
  <2>3. u.nonce.signer = s /\ u.signable = message
    BY <2>1
  <2> QED  BY <2>2, <2>3
<1> QED  BY <1>1, <1>2 DEF Signed

LEMMA HeadsInvInit == FrostInit => HeadsInv
<1> SUFFICES ASSUME FrostInit PROVE HeadsInv
  OBVIOUS
<1>1. IsCall(NoCall) /\ NoCall.stage = "idle" /\ NoCall.shares = {}
  BY DEF NoCall, IsCall
<1>2. call = [a \in Call |-> NoCall]
  BY DEF FrostInit
<1>3. call = [a \in Call |-> call[a]]
  BY <1>2
<1>4. \A c \in Replica : tree[c] = <<>>
  BY DEF FrostInit
<1>5. DOMAIN tree = Replica /\ DOMAIN head = Replica
  BY DEF FrostInit
<1> QED  BY <1>1, <1>2, <1>3, <1>4, <1>5 DEF HeadsInv

\* A step of one call, which leaves the copies alone.
LEMMA HeadsInvCall ==
  ASSUME HeadsInv, NEW a \in Call, NEW r, IsCall(r),
         UNCHANGED <<tree, head>>, used \subseteq used', r.shares \subseteq used',
         call' = [call EXCEPT ![a] = r],
         r.stage = "signed" => /\ r.signature.signable = r.signable
                               /\ Signed(r.signature, r.signable, used')
  PROVE  HeadsInv'
<1>1. /\ call' = [b \in Call |-> call'[b]]
      /\ \A b \in Call : call'[b] = IF b = a THEN r ELSE call[b]
  BY DEF HeadsInv
<1>2. ASSUME NEW b \in Call PROVE IsCall(call'[b]) /\ call'[b].shares \subseteq used'
  <2>1. CASE b = a
    BY <1>1, <2>1
  <2>2. CASE b # a
    BY <1>1, <2>2 DEF HeadsInv
  <2> QED  BY <2>1, <2>2
<1>3. ASSUME NEW b \in Call, call'[b].stage = "signed"
      PROVE  /\ call'[b].signature.signable = call'[b].signable
             /\ Signed(call'[b].signature, call'[b].signable, used')
  <2>1. CASE b = a
    BY <1>1, <1>3, <2>1
  <2>2. CASE b # a
    BY <1>1, <1>3, <2>2, SignedStays DEF HeadsInv
  <2> QED  BY <2>1, <2>2
<1>4. ASSUME NEW c \in Replica, tree'[c] # <<>> PROVE Signed(head'[c], tree'[c], used')
  BY <1>4, SignedStays DEF HeadsInv
<1> QED  BY <1>1, <1>2, <1>3, <1>4 DEF HeadsInv, Signed, IsCall

LEMMA HeadsInvOpen ==
  ASSUME HeadsInv, NEW a \in Call, NEW c \in Replica, NEW b \in Block, Open(a, c, b)
  PROVE  HeadsInv'
<1> DEFINE r == [NoCall EXCEPT !.stage = "commit", !.core = c, !.signable = signableFor(c, b)]
<1>1. IsCall(r) /\ r.stage = "commit" /\ r.shares = {}
  BY DEF NoCall, IsCall
<1>2. UNCHANGED <<tree, head, used>> /\ call' = [call EXCEPT ![a] = r]
  BY DEF Open
<1> HIDE DEF r
<1> QED  BY <1>1, <1>2, HeadsInvCall

LEMMA HeadsInvCommit ==
  ASSUME HeadsInv, NEW s \in Signer, NEW a \in Call, Commit(s, a) PROVE HeadsInv'
<1> DEFINE r == [call[a] EXCEPT !.received = @ \cup {Fresh(s)}]
<1>1. UNCHANGED <<tree, head, used>> /\ call[a].stage # "signed"
      /\ call' = [call EXCEPT ![a] = r]
  BY DEF Commit
<1>2. IsCall(r) /\ r.stage = call[a].stage /\ r.shares = call[a].shares
  BY DEF HeadsInv, IsCall
<1>3. call[a].shares \subseteq used
  BY DEF HeadsInv
<1> HIDE DEF r
<1> QED  BY <1>1, <1>2, <1>3, HeadsInvCall

LEMMA HeadsInvDistribute ==
  ASSUME HeadsInv, NEW a \in Call, NEW chosen, Distribute(a, chosen) PROVE HeadsInv'
<1> DEFINE r == [call[a] EXCEPT !.stage = "sign",
                                !.list = toCommitmentList(SetToSeq(chosen))]
<1>1. UNCHANGED <<tree, head, used>> /\ call' = [call EXCEPT ![a] = r]
  BY DEF Distribute
<1>2. IsCall(r) /\ r.stage = "sign" /\ r.shares = call[a].shares
  BY DEF HeadsInv, IsCall
<1>3. call[a].shares \subseteq used
  BY DEF HeadsInv
<1> HIDE DEF r
<1> QED  BY <1>1, <1>2, <1>3, HeadsInvCall

LEMMA HeadsInvSign ==
  ASSUME HeadsInv, NEW s \in Signer, NEW a \in Call, NEW list, Sign(s, a, list)
  PROVE  HeadsInv'
<1> DEFINE share == ShareOf(s, list, call[a].signable)
           r == [call[a] EXCEPT !.shares = @ \cup {share}]
<1>1. /\ UNCHANGED <<tree, head>> /\ call[a].stage = "sign"
      /\ used' = used \cup {share} /\ call' = [call EXCEPT ![a] = r]
  BY DEF Sign
<1> HIDE DEF share
<1>2. IsCall(r) /\ r.stage = call[a].stage /\ r.shares = call[a].shares \cup {share}
  BY DEF HeadsInv, IsCall
<1>3. call[a].shares \subseteq used
  BY DEF HeadsInv
<1> HIDE DEF r
<1> QED  BY <1>1, <1>2, <1>3, HeadsInvCall

LEMMA HeadsInvAggregate ==
  ASSUME HeadsInv, NEW a \in Call, Aggregate(a) PROVE HeadsInv'
<1> DEFINE signature == [signable |-> call[a].signable, signers |-> SignersOf(call[a].list)]
<1>1. UNCHANGED <<tree, head, used>> /\ call[a].shares \subseteq used
  BY DEF Aggregate, HeadsInv
<1>2. CASE Aggregates(call[a].list, call[a].shares, call[a].signable)
  <2> DEFINE r == [call[a] EXCEPT !.stage = "signed", !.shares = {}, !.signature = signature]
  <2>1. call' = [call EXCEPT ![a] = r]
    BY <1>2 DEF Aggregate
  <2>2. signature.signable = call[a].signable /\ signature.signers = SignersOf(call[a].list)
    OBVIOUS
  <2> HIDE DEF signature
  <2>3. /\ IsCall(r) /\ r.shares = {} /\ r.signature = signature
        /\ r.signable = call[a].signable
    BY DEF HeadsInv, IsCall
  <2>4. Signed(signature, call[a].signable, used)
    BY <1>1, <1>2, <2>2, AggregateSigns
  <2> HIDE DEF r
  <2> QED  BY <1>1, <2>1, <2>2, <2>3, <2>4, HeadsInvCall
<1>3. CASE ~Aggregates(call[a].list, call[a].shares, call[a].signable)
  <2> DEFINE r == [call[a] EXCEPT !.stage = "failed", !.shares = {}]
  <2>1. call' = [call EXCEPT ![a] = r]
    BY <1>3 DEF Aggregate
  <2>2. IsCall(r) /\ r.shares = {} /\ r.stage = "failed"
    BY DEF HeadsInv, IsCall
  <2> HIDE DEF r
  <2> QED  BY <1>1, <2>1, <2>2, HeadsInvCall
<1> QED  BY <1>2, <1>3

LEMMA HeadsInvThresholdSign ==
  ASSUME HeadsInv, NEW a \in Call, NEW c \in Replica, NEW b \in Block,
         NEW sessions, ThresholdSign(a, c, b, sessions)
  PROVE  HeadsInv'
<1> DEFINE signable == signableFor(c, b)
<1>1. PICK list, shares, failed :
        /\ used' = used \cup shares /\ UNCHANGED <<tree, head>>
        /\ call' = [call EXCEPT ![a] =
             IF ~failed /\ Aggregates(list, shares, signable)
             THEN [[NoCall EXCEPT !.core = c, !.signable = signable, !.list = list]
                     EXCEPT !.stage = "signed",
                       !.signature = [signable |-> signable, signers |-> SignersOf(list)]]
             ELSE [[NoCall EXCEPT !.core = c, !.signable = signable, !.list = list]
                     EXCEPT !.stage = "failed"]]
  <2> DEFINE nonce(k) == [signer |-> sessions[k],
                          number |-> made[sessions[k]]
                            + Cardinality({j \in 1..k : sessions[j] = sessions[k]})]
             last(s) == Cardinality({j \in DOMAIN sessions : sessions[j] = s})
             list == toCommitmentList([k \in DOMAIN sessions |-> nonce(k)])
             repeated ==
               {k \in DOMAIN sessions : \E j \in 1..(k - 1) : sessions[j] = sessions[k]}
             signing ==
               {sessions[k] : k \in {l \in DOMAIN sessions : \A r \in repeated : l < r}}
             held(s) == [signer |-> s, number |-> made[s] + last(s)]
             shares == {[nonce |-> held(s), list |-> list, signable |-> signable] :
                          s \in signing}
             done == [NoCall EXCEPT !.core = c, !.signable = signable, !.list = list]
  <2>1. used' = used \cup shares /\ UNCHANGED <<tree, head>>
    BY DEF ThresholdSign
  <2>2. call' = [call EXCEPT ![a] =
             IF repeated = {} /\ Aggregates(list, shares, signable)
             THEN [done EXCEPT !.stage = "signed",
                     !.signature = [signable |-> signable, signers |-> SignersOf(list)]]
             ELSE [done EXCEPT !.stage = "failed"]]
    BY Zenon DEF ThresholdSign
  <2> HIDE DEF list, shares, repeated
  <2> WITNESS list, shares, ~(repeated = {})
  <2> QED  BY <2>1, <2>2, Zenon
<1> HIDE DEF signable
<1> DEFINE signature == [signable |-> signable, signers |-> SignersOf(list)]
           done == [NoCall EXCEPT !.core = c, !.signable = signable, !.list = list]
           won == [done EXCEPT !.stage = "signed", !.signature = signature]
           lost == [done EXCEPT !.stage = "failed"]
<1>2. IsCall(done) /\ done.signable = signable /\ done.shares = {}
  BY DEF NoCall, IsCall
<1>3. CASE ~failed /\ Aggregates(list, shares, signable)
  <2>1. call' = [call EXCEPT ![a] = won]
    BY <1>1, <1>3, Zenon
  <2>2. signature.signable = signable /\ signature.signers = SignersOf(list)
    OBVIOUS
  <2> HIDE DEF done, signature
  <2>3. IsCall(won) /\ won.signature = signature /\ won.signable = signable /\ won.shares = {}
    BY <1>2 DEF IsCall
  <2>4. Signed(signature, signable, used')
    BY <1>1, <1>3, <2>2, AggregateSigns
  <2> HIDE DEF won
  <2> QED  BY <1>1, <2>1, <2>2, <2>3, <2>4, HeadsInvCall
<1>4. CASE ~(~failed /\ Aggregates(list, shares, signable))
  <2>1. call' = [call EXCEPT ![a] = lost]
    BY <1>1, <1>4, Zenon
  <2> HIDE DEF done
  <2>2. IsCall(lost) /\ lost.stage = "failed" /\ lost.shares = {}
    BY <1>2 DEF IsCall
  <2> HIDE DEF lost
  <2> QED  BY <1>1, <2>1, <2>2, HeadsInvCall
<1> QED  BY <1>3, <1>4

LEMMA HeadsInvLand ==
  ASSUME HeadsInv, NEW a \in Call, Land(a) PROVE HeadsInv'
<1> DEFINE c == call[a].core
           blocks == Append(tree[c], Last(call[a].signable))
           signature == call[a].signature
<1>1. UNCHANGED used /\ call[a].stage = "signed"
  BY DEF Land
<1>2. CASE Accepts(signature, blocks)
  <2> DEFINE r == [NoCall EXCEPT !.stage = "landed"]
  <2>1. /\ call' = [call EXCEPT ![a] = r]
        /\ tree' = [tree EXCEPT ![c] = blocks] /\ head' = [head EXCEPT ![c] = signature]
    BY <1>2 DEF Land
  <2>2. IsCall(r) /\ r.stage = "landed" /\ r.shares = {}
    BY DEF NoCall, IsCall
  <2>3. Signed(signature, blocks, used)
    BY <1>1, <1>2 DEF Accepts, HeadsInv
  <2> HIDE DEF r, blocks, signature, c
  <2>4. /\ call' = [b \in Call |-> call'[b]]
        /\ \A b \in Call : call'[b] = IF b = a THEN r ELSE call[b]
    BY <2>1 DEF HeadsInv
  <2>5. \A b \in Call : IsCall(call'[b]) /\ call'[b].shares \subseteq used'
    BY <1>1, <2>2, <2>4 DEF HeadsInv
  <2>6. ASSUME NEW b \in Call, call'[b].stage = "signed"
        PROVE  /\ call'[b].signature.signable = call'[b].signable
               /\ Signed(call'[b].signature, call'[b].signable, used')
    BY <1>1, <2>2, <2>4, <2>6 DEF HeadsInv
  <2>7. DOMAIN tree' = Replica /\ DOMAIN head' = Replica
    BY <2>1 DEF HeadsInv
  <2>8. ASSUME NEW d \in Replica, tree'[d] # <<>> PROVE Signed(head'[d], tree'[d], used')
    <3>1. CASE d = c
      BY <1>1, <2>1, <2>3, <3>1 DEF HeadsInv
    <3>2. CASE d # c
      BY <1>1, <2>1, <2>8, <3>2 DEF HeadsInv
    <3> QED  BY <3>1, <3>2
  <2> QED  BY <2>4, <2>5, <2>6, <2>7, <2>8 DEF HeadsInv, Signed, IsCall
<1>3. CASE ~Accepts(signature, blocks)
  <2> DEFINE r == [call[a] EXCEPT !.stage = "refused"]
  <2>1. UNCHANGED <<tree, head>> /\ call' = [call EXCEPT ![a] = r]
    BY <1>3 DEF Land
  <2>2. IsCall(r) /\ r.stage = "refused" /\ r.shares = call[a].shares
    BY DEF HeadsInv, IsCall
  <2>3. call[a].shares \subseteq used
    BY DEF HeadsInv
  <2> HIDE DEF r
  <2> QED  BY <1>1, <2>1, <2>2, <2>3, HeadsInvCall
<1> QED  BY <1>2, <1>3

LEMMA HeadsInvAbandon ==
  ASSUME HeadsInv, NEW a \in Call, Abandon(a) PROVE HeadsInv'
<1> DEFINE r == [NoCall EXCEPT !.stage = "abandoned"]
<1>1. UNCHANGED <<tree, head, used>> /\ call' = [call EXCEPT ![a] = r]
  BY DEF Abandon
<1>2. IsCall(r) /\ r.stage = "abandoned" /\ r.shares = {}
  BY DEF NoCall, IsCall
<1> HIDE DEF r
<1> QED  BY <1>1, <1>2, HeadsInvCall

LEMMA HeadsInvReplicate ==
  ASSUME HeadsInv, NEW c \in Replica, NEW d \in Replica, Replicate(c, d) PROVE HeadsInv'
<1>1. /\ UNCHANGED <<call, used>>
      /\ tree' = [tree EXCEPT ![d] = tree[c]] /\ head' = [head EXCEPT ![d] = head[c]]
  BY DEF Replicate
<1>2. DOMAIN tree' = Replica /\ DOMAIN head' = Replica
  BY <1>1 DEF HeadsInv
<1>3. ASSUME NEW e \in Replica, tree'[e] # <<>> PROVE Signed(head'[e], tree'[e], used')
  BY <1>1, <1>3 DEF HeadsInv
<1> QED  BY <1>1, <1>2, <1>3 DEF HeadsInv, Signed, IsCall

LEMMA HeadsInvNext == HeadsInv /\ [FrostNext]_frostVars => HeadsInv'
<1> SUFFICES ASSUME HeadsInv, [FrostNext]_frostVars PROVE HeadsInv'
  OBVIOUS
<1>1. ASSUME UNCHANGED frostVars PROVE HeadsInv'
  BY <1>1 DEF frostVars, HeadsInv, Signed, IsCall
<1> QED
  BY <1>1, HeadsInvOpen, HeadsInvThresholdSign, HeadsInvCommit, HeadsInvDistribute,
     HeadsInvSign, HeadsInvAggregate, HeadsInvLand, HeadsInvAbandon, HeadsInvReplicate, Zenon
  DEF FrostNext

\* Whatever appends overlap, are repeated or give up, the head of every copy is signed
\* by a quorum of the writers for exactly the tree that the copy holds.
THEOREM HeadsSafe == FrostSpec => []HeadsSigned
<1>1. HeadsInv => HeadsSigned
  BY DEF HeadsInv, HeadsSigned, Signed
<1> QED  BY <1>1, HeadsInvInit, HeadsInvNext, PTL DEF FrostSpec
-----------------------------------------------------------------------------
(* An append fails only for a reason.                                      *)

\* As many as there are, counted through f.
LEMMA CountedThrough ==
  ASSUME NEW S, NEW T, NEW f \in [S -> T], IsFiniteSet(S),
         \A a, b \in S : f[a] = f[b] => a = b, \A t \in T : \E s \in S : f[s] = t
  PROVE  IsFiniteSet(T) /\ Cardinality(T) = Cardinality(S)
<1>1. f \in Bijection(S, T)
  BY Fun_IsBij
<1>2. ExistsBijection(S, T)
  BY <1>1 DEF ExistsBijection
<1> QED  BY <1>2, FS_Bijection

LEMMA FiniteRange == ASSUME NEW n \in Nat PROVE IsFiniteSet(1..n) /\ Cardinality(1..n) = n
<1> DEFINE a == 1
<1>1. a \in Int /\ n \in Int
  OBVIOUS
<1>2. IsFiniteSet(a..n) /\ Cardinality(a..n) = IF a > n THEN 0 ELSE n - a + 1
  BY <1>1, FS_Interval
<1> QED  BY <1>2

\* The places of a list, counted up to each of them, are all of its places.
LEMMA RankOnto ==
  ASSUME NEW n \in Nat, NEW q \in [1..n -> Nonce]
  PROVE  /\ \A k \in 1..n : upTo(q, k) \in SUBSET (1..n) /\ Cardinality(upTo(q, k)) \in 1..n
         /\ \A j, k \in 1..n : Cardinality(upTo(q, j)) = Cardinality(upTo(q, k)) => j = k
         /\ \A r \in 1..n : \E k \in 1..n : Cardinality(upTo(q, k)) = r
<1> DEFINE rank(k) == Cardinality(upTo(q, k))
<1>1. IsFiniteSet(1..n) /\ Cardinality(1..n) = n
  BY FiniteRange
<1>2. \A k \in 1..n : q[k].signer \in Nat
  BY DEF Nonce, Signer
<1>3. \A k \in 1..n : upTo(q, k) \in SUBSET (1..n) /\ k \in upTo(q, k)
  BY <1>2 DEF upTo
<1>4. ASSUME NEW k \in 1..n
      PROVE  IsFiniteSet(upTo(q, k)) /\ rank(k) \in 1..n
  <2> DEFINE U == upTo(q, k)
  <2>1. U \in SUBSET (1..n) /\ k \in U
    BY <1>3, <1>4
  <2> HIDE DEF U
  <2>2. IsFiniteSet(U) /\ Cardinality(U) <= Cardinality(1..n)
    BY <1>1, <2>1, FS_Subset
  <2>3. Cardinality(U) \in Nat /\ Cardinality(U) # 0
    BY <2>1, <2>2, FS_CardinalityType, FS_EmptySet
  <2>4. Cardinality(U) \in 1..n
    BY <1>1, <2>2, <2>3
  <2> QED  BY <2>2, <2>4 DEF U
<1>5. ASSUME NEW j \in 1..n, NEW k \in 1..n, j # k, rank(j) = rank(k) PROVE FALSE
  <2>1. \/ upTo(q, j) \in SUBSET upTo(q, k) /\ k \notin upTo(q, j)
        \/ upTo(q, k) \in SUBSET upTo(q, j) /\ j \notin upTo(q, k)
    BY <1>2, <1>5 DEF upTo
  <2>2. ASSUME NEW S, NEW T \in SUBSET S, IsFiniteSet(S), Cardinality(S) = Cardinality(T)
        PROVE  S = T
    BY <2>2, FS_Subset
  <2>3. IsFiniteSet(upTo(q, j)) /\ IsFiniteSet(upTo(q, k))
    BY <1>4
  <2> QED  BY <1>3, <1>5, <2>1, <2>2, <2>3
<1>6. ASSUME NEW r \in 1..n PROVE \E k \in 1..n : rank(k) = r
  <2> DEFINE f == [k \in 1..n |-> rank(k)]
  <2>1. f \in [1..n -> 1..n] /\ \A j, k \in 1..n : f[j] = f[k] => j = k
    BY <1>4, <1>5
  <2>2. \A k \in 1..n : f[k] = rank(k)
    OBVIOUS
  <2> HIDE DEF f, rank
  <2>3. f \in Injection(1..n, 1..n)
    BY <2>1, Fun_IsInj
  <2>4. f \in Surjection(1..n, 1..n)
    BY <1>1, <2>3, FS_Injection
  <2>5. \A t \in 1..n : \E s \in 1..n : f[s] = t
    BY <2>4 DEF Surjection
  <2> QED  BY <1>6, <2>2, <2>5
<1> QED  BY <1>3, <1>4, <1>5, <1>6

\* The sorted list has the same entries, each as often.
LEMMA SortedFacts ==
  ASSUME NEW n \in Nat, NEW q \in [1..n -> Nonce]
  PROVE  /\ toCommitmentList(q) \in [1..n -> Nonce]
         /\ \A r \in 1..n : \E k \in 1..n :
              Cardinality(upTo(q, k)) = r /\ toCommitmentList(q)[r] = q[k]
         /\ \A k \in 1..n : \E r \in 1..n :
              Cardinality(upTo(q, k)) = r /\ toCommitmentList(q)[r] = q[k]
<1> DEFINE at(r) == CHOOSE k \in 1..n : Cardinality(upTo(q, k)) = r
<1>1. toCommitmentList(q) = [r \in 1..n |-> q[at(r)]]
  BY DEF toCommitmentList
<1>2. /\ \A k \in 1..n : Cardinality(upTo(q, k)) \in 1..n
      /\ \A j, k \in 1..n : Cardinality(upTo(q, j)) = Cardinality(upTo(q, k)) => j = k
      /\ \A r \in 1..n : \E k \in 1..n : Cardinality(upTo(q, k)) = r
  BY RankOnto
<1>3. ASSUME NEW r \in 1..n PROVE at(r) \in 1..n /\ Cardinality(upTo(q, at(r))) = r
  <2>1. \E k \in 1..n : Cardinality(upTo(q, k)) = r
    BY <1>2, <1>3
  <2> QED  BY <2>1
<1> HIDE DEF at
<1>4. toCommitmentList(q) \in [1..n -> Nonce]
  BY <1>1, <1>3
<1>5. ASSUME NEW r \in 1..n
      PROVE  \E k \in 1..n : Cardinality(upTo(q, k)) = r /\ toCommitmentList(q)[r] = q[k]
  BY <1>1, <1>3, <1>5
<1>6. ASSUME NEW k \in 1..n
      PROVE  \E r \in 1..n : Cardinality(upTo(q, k)) = r /\ toCommitmentList(q)[r] = q[k]
  <2> DEFINE r == Cardinality(upTo(q, k))
  <2>1. r \in 1..n
    BY <1>2, <1>6
  <2>2. at(r) = k
    BY <1>2, <1>3, <1>6, <2>1
  <2>3. toCommitmentList(q)[r] = q[k]
    BY <1>1, <2>1, <2>2
  <2> QED  BY <2>1, <2>3
<1> QED  BY <1>4, <1>5, <1>6

OneEach(list) == \A j, k \in DOMAIN list : list[j].signer = list[k].signer => j = k

LEMMA UpToOne ==
  ASSUME NEW n \in Nat, NEW q \in [1..n -> Nonce],
         \A j, k \in 1..n : q[j].signer = q[k].signer => j = k
  PROVE  /\ \A j, k \in 1..n : j \in upTo(q, k) <=> q[j].signer <= q[k].signer
         /\ \A k \in 1..n : upTo(q, k) \in SUBSET (1..n)
<1>1. \A k \in 1..n : q[k].signer \in Nat
  BY DEF Nonce, Signer
<1> QED  BY <1>1 DEF upTo

\* With one entry of each signer the order they come in makes no difference.
LEMMA SortedSame ==
  ASSUME NEW n \in Nat, NEW q \in [1..n -> Nonce], NEW l \in [1..n -> Nonce],
         OneEach(q), \A k \in 1..n : \E j \in 1..n : l[j] = q[k],
         \A j \in 1..n : \E k \in 1..n : l[j] = q[k],
         \A p, j \in 1..n : l[p] = l[j] => p = j
  PROVE  toCommitmentList(l) = toCommitmentList(q)
<1>1. /\ toCommitmentList(q) \in [1..n -> Nonce] /\ toCommitmentList(l) \in [1..n -> Nonce]
      /\ \A r \in 1..n : \E k \in 1..n :
           Cardinality(upTo(q, k)) = r /\ toCommitmentList(q)[r] = q[k]
      /\ \A r \in 1..n : \E j \in 1..n :
           Cardinality(upTo(l, j)) = r /\ toCommitmentList(l)[r] = l[j]
  BY SortedFacts
<1>2. \A k \in 1..n : q[k].signer \in Nat /\ l[k].signer \in Nat
  BY DEF Nonce, Signer
<1>3. \A p, j \in 1..n : q[p].signer = q[j].signer => p = j
  BY DEF OneEach
<1>4. \A p, j \in 1..n : l[p].signer = l[j].signer => p = j
  <2> SUFFICES ASSUME NEW p \in 1..n, NEW j \in 1..n, l[p].signer = l[j].signer PROVE p = j
    OBVIOUS
  <2>1. PICK k \in 1..n, m \in 1..n : l[p] = q[k] /\ l[j] = q[m]
    OBVIOUS
  <2>2. k = m
    BY <1>3, <2>1
  <2> QED  BY <2>1, <2>2
<1>5. /\ \A j, k \in 1..n : j \in upTo(q, k) <=> q[j].signer <= q[k].signer
      /\ \A j, k \in 1..n : j \in upTo(l, k) <=> l[j].signer <= l[k].signer
      /\ \A k \in 1..n : upTo(q, k) \in SUBSET (1..n) /\ upTo(l, k) \in SUBSET (1..n)
  <2> QED  BY <1>3, <1>4, UpToOne
<1>6. ASSUME NEW j \in 1..n, NEW k \in 1..n, l[j] = q[k]
      PROVE  Cardinality(upTo(l, j)) = Cardinality(upTo(q, k))
  <2> DEFINE to(p) == CHOOSE m \in 1..n : l[p] = q[m]
             f == [p \in upTo(l, j) |-> to(p)]
  <2>1. ASSUME NEW p \in upTo(l, j) PROVE p \in 1..n /\ to(p) \in 1..n /\ l[p] = q[to(p)]
    <3>1. p \in 1..n
      BY <1>5, <1>6, <2>1
    <3>2. \E m \in 1..n : l[p] = q[m]
      BY <3>1
    <3> QED  BY <3>1, <3>2
  <2> HIDE DEF to
  <2>2. ASSUME NEW p \in upTo(l, j) PROVE to(p) \in upTo(q, k)
    <3>1. l[p] = q[to(p)] /\ to(p) \in 1..n /\ p \in 1..n
      BY <2>1, <2>2
    <3>2. l[p].signer <= l[j].signer
      BY <1>5, <1>6, <2>2, <3>1
    <3>3. q[to(p)].signer <= q[k].signer /\ k \in 1..n
      BY <1>6, <3>1, <3>2
    <3> QED  BY <1>5, <3>1, <3>3
  <2>6. f \in [upTo(l, j) -> upTo(q, k)] /\ \A p \in upTo(l, j) : f[p] = to(p)
    BY <2>2
  <2> HIDE DEF f
  <2>3. ASSUME NEW a \in upTo(l, j), NEW b \in upTo(l, j), f[a] = f[b] PROVE a = b
    <3>1. to(a) = to(b)
      BY <2>3, <2>6
    <3>2. a \in 1..n /\ b \in 1..n /\ l[a] = q[to(a)] /\ l[b] = q[to(b)]
      BY <2>1, <2>3
    <3>3. l[a] = l[b]
      BY <3>1, <3>2
    <3> QED  BY <3>2, <3>3
  <2>4. ASSUME NEW m \in upTo(q, k) PROVE \E p \in upTo(l, j) : f[p] = m
    <3>1. m \in 1..n /\ q[m].signer <= q[k].signer
      BY <1>5, <1>6, <2>4
    <3>2. PICK p \in 1..n : l[p] = q[m]
      BY <3>1
    <3>3. p \in upTo(l, j)
      BY <1>5, <1>6, <3>1, <3>2
    <3>4. q[f[p]].signer = q[m].signer /\ f[p] \in 1..n
      <4>1. f[p] = to(p) /\ to(p) \in 1..n /\ l[p] = q[to(p)]
        BY <2>1, <2>6, <3>3
      <4> QED  BY <3>2, <4>1
    <3> QED  BY <1>3, <3>1, <3>3, <3>4
  <2>5. IsFiniteSet(upTo(l, j))
    <3>1. IsFiniteSet(1..n)
      BY FiniteRange
    <3> QED  BY <1>5, <1>6, <3>1, FS_Subset
  <2> DEFINE S == upTo(l, j)
             T == upTo(q, k)
  <2>7. f \in [S -> T] /\ IsFiniteSet(S)
    BY <2>5, <2>6
  <2>8. (\A a, b \in S : f[a] = f[b] => a = b) /\ (\A m \in T : \E p \in S : f[p] = m)
    BY <2>3, <2>4
  <2> HIDE DEF S, T
  <2>9. Cardinality(T) = Cardinality(S)
    BY <2>7, <2>8, CountedThrough
  <2> QED  BY <2>9 DEF S, T
<1>7. ASSUME NEW r \in 1..n PROVE toCommitmentList(l)[r] = toCommitmentList(q)[r]
  <2>1. PICK j \in 1..n : Cardinality(upTo(l, j)) = r /\ toCommitmentList(l)[r] = l[j]
    BY <1>1, <1>7
  <2>2. PICK k \in 1..n : Cardinality(upTo(q, k)) = r /\ toCommitmentList(q)[r] = q[k]
    BY <1>1, <1>7
  <2>3. PICK m \in 1..n : l[j] = q[m]
    BY <2>1
  <2>4. Cardinality(upTo(q, m)) = Cardinality(upTo(q, k))
    BY <1>6, <2>1, <2>2, <2>3
  <2>5. m = k
    BY <2>4, RankOnto
  <2> QED  BY <2>1, <2>2, <2>3, <2>5
<1> QED  BY <1>1, <1>7

\* All orders of a set that is listed once.
LEMMA OrdersFacts ==
  ASSUME NEW n \in Nat, NEW q \in [1..n -> Nonce],
         \A p, j \in 1..n : q[p] = q[j] => p = j
  PROVE  /\ Cardinality(ToSet(q)) = n
         /\ q \in SetToSeqs(ToSet(q))
         /\ \A l \in SetToSeqs(ToSet(q)) :
              /\ l \in [1..n -> Nonce] /\ ToSet(l) = ToSet(q)
              /\ \A p, j \in 1..n : l[p] = l[j] => p = j
<1>1. ToSet(q) = {q[k] : k \in 1..n} /\ ToSet(q) \in SUBSET Nonce
  BY DEF ToSet
<1> DEFINE S == ToSet(q)
<1>2. \A k \in 1..n : q[k] \in S
  BY <1>1
<1>3. \A x \in S : \E k \in 1..n : q[k] = x
  BY <1>1
<1> HIDE DEF S
<1>4. q \in [1..n -> S]
  BY <1>2
<1>5. IsFiniteSet(1..n) /\ Cardinality(1..n) = n
  BY FiniteRange
<1>6. IsFiniteSet(S) /\ Cardinality(S) = n
  BY <1>3, <1>4, <1>5, CountedThrough, Zenon
<1>7. SetToSeqs(S) = {f \in [1..n -> S] : \A p, j \in 1..n : p # j => f[p] # f[j]}
  BY <1>6 DEF SetToSeqs
<1>8. q \in SetToSeqs(S)
  BY <1>4, <1>7
<1>9. ASSUME NEW l \in SetToSeqs(S)
      PROVE  /\ l \in [1..n -> Nonce] /\ ToSet(l) = S
             /\ \A p, j \in 1..n : l[p] = l[j] => p = j
  <2>1. l \in [1..n -> S] /\ \A p, j \in 1..n : l[p] = l[j] => p = j
    BY <1>7, <1>9
  <2>2. l \in Injection(1..n, S)
    BY <2>1, Fun_IsInj
  <2>3. l \in Surjection(1..n, S)
    BY <1>5, <1>6, <2>2, FS_Injection
  <2>4. \A x \in S : \E k \in 1..n : l[k] = x
    BY <2>3 DEF Surjection
  <2>5. ToSet(l) = {l[k] : k \in 1..n}
    BY <2>1 DEF ToSet
  <2>6. ToSet(l) = S
    BY <2>1, <2>4, <2>5
  <2>7. l \in [1..n -> Nonce]
    BY <1>1, <2>1 DEF S
  <2> QED  BY <2>1, <2>6, <2>7
<1> QED  BY <1>6, <1>8, <1>9 DEF S

\* A list as the second round got it: of commitments made, sorted.
Listed(list, count) ==
  /\ list \in Seq(Nonce) /\ Len(list) >= Threshold
  /\ \A j, k \in DOMAIN list : list[j] = list[k] => j = k
  /\ \A l \in SetToSeqs(ToSet(list)) : OneEach(list) => toCommitmentList(l) = list
  /\ \A k \in DOMAIN list : list[k].number <= count[list[k].signer]

\* A share that answers call r, with a nonce no older than the one listed.
Answers(u, r, count) ==
  /\ u = [nonce |-> u.nonce, list |-> u.list, signable |-> u.signable]
  /\ u.nonce \in Nonce /\ u.nonce.number <= count[u.nonce.signer]
  /\ u.signable = r.signable
  /\ OneEach(r.list) => u.list = r.list
  /\ \A k \in DOMAIN r.list :
       r.list[k].signer = u.nonce.signer => r.list[k].number <= u.nonce.number

\* A reason for an aggregation to fail.
Blamed(list, count) ==
  \E k \in DOMAIN list :
    \/ count[list[k].signer] > list[k].number
    \/ \E j \in DOMAIN list : j # k /\ list[j].signer = list[k].signer

\* The tree to be signed is one block longer than the copy was then.
OneLonger(r, trees) ==
  /\ r.core \in Replica /\ r.signable \in Seq(Block) /\ Len(r.signable) >= 1
  /\ Len(trees[r.core]) >= Len(r.signable) - 1
  /\ \A p \in 1..(Len(r.signable) - 1) : trees[r.core][p] = r.signable[p]

CallInv(r, count, trees) ==
  /\ IsFiniteSet(r.received)
  /\ \A x \in r.received : x \in Nonce /\ x.number <= count[x.signer]
  /\ r.stage \in {"idle", "commit"} => r.shares = {}
  /\ r.stage = "sign" => /\ Listed(r.list, count)
                         /\ \A u \in r.shares : Answers(u, r, count)
  /\ r.stage = "failed" => r.list \in Seq(Nonce) /\ Blamed(r.list, count)
  /\ r.stage \in {"commit", "sign", "signed"} => OneLonger(r, trees)
  /\ r.stage = "refused" =>
       r.core \in Replica /\ Len(trees[r.core]) >= Len(r.signable) /\ Len(r.signable) \in Nat

\* What a session holds is its latest nonce.
Latest(count, held) ==
  \A s \in Signer : held[s] # NoNonce => held[s] = [signer |-> s, number |-> count[s]]

Counts == [Signer -> Nat]
Trees == [Replica -> Seq(Block)]

CallsInv ==
  /\ NonceInv /\ HeadsInv
  /\ tree \in Trees
  /\ Latest(made, nonces)
  /\ \A a \in Call : CallInv(call[a], made, tree)

LEMMA SortedList ==
  ASSUME NEW n \in Nat, NEW q \in [1..n -> Nonce], \A p, j \in 1..n : q[p] = q[j] => p = j
  PROVE  LET list == toCommitmentList(q)
         IN  /\ list \in [1..n -> Nonce] /\ list \in Seq(Nonce) /\ Len(list) = n
             /\ \A p, j \in 1..n : list[p] = list[j] => p = j
             /\ \A r \in 1..n : \E k \in 1..n : list[r] = q[k]
             /\ \A k \in 1..n : \E r \in 1..n : list[r] = q[k]
             /\ OneEach(list) <=> OneEach(q)
             /\ \A l \in SetToSeqs(ToSet(list)) : OneEach(list) => toCommitmentList(l) = list
<1> DEFINE list == toCommitmentList(q)
<1>1. /\ list \in [1..n -> Nonce]
      /\ \A r \in 1..n : \E k \in 1..n : Cardinality(upTo(q, k)) = r /\ list[r] = q[k]
      /\ \A k \in 1..n : \E r \in 1..n : Cardinality(upTo(q, k)) = r /\ list[r] = q[k]
  BY SortedFacts
<1> HIDE DEF list
<1>2. \A j, k \in 1..n : Cardinality(upTo(q, j)) = Cardinality(upTo(q, k)) => j = k
  BY RankOnto
<1>3. \A p, j \in 1..n : list[p] = list[j] => p = j
  <2> SUFFICES ASSUME NEW p \in 1..n, NEW j \in 1..n, list[p] = list[j] PROVE p = j
    OBVIOUS
  <2>1. PICK k \in 1..n : Cardinality(upTo(q, k)) = p /\ list[p] = q[k]
    BY <1>1
  <2>2. PICK m \in 1..n : Cardinality(upTo(q, m)) = j /\ list[j] = q[m]
    BY <1>1
  <2> QED  BY <2>1, <2>2
<1>4. OneEach(q) => OneEach(list)
  <2> SUFFICES ASSUME OneEach(q), NEW p \in 1..n, NEW j \in 1..n, list[p].signer = list[j].signer
               PROVE  p = j
    BY <1>1 DEF OneEach
  <2>1. PICK k \in 1..n : Cardinality(upTo(q, k)) = p /\ list[p] = q[k]
    BY <1>1
  <2>2. PICK m \in 1..n : Cardinality(upTo(q, m)) = j /\ list[j] = q[m]
    BY <1>1
  <2>3. k = m
    BY <2>1, <2>2 DEF OneEach
  <2> QED  BY <2>1, <2>2, <2>3
<1>5. OneEach(list) => OneEach(q)
  <2> SUFFICES ASSUME OneEach(list), NEW k \in 1..n, NEW m \in 1..n, q[k].signer = q[m].signer
               PROVE  k = m
    BY DEF OneEach
  <2>1. PICK p \in 1..n : Cardinality(upTo(q, k)) = p /\ list[p] = q[k]
    BY <1>1
  <2>2. PICK j \in 1..n : Cardinality(upTo(q, m)) = j /\ list[j] = q[m]
    BY <1>1
  <2>6. list[p].signer = list[j].signer /\ DOMAIN list = 1..n
    BY <1>1, <2>1, <2>2
  <2>3. p = j
    BY <2>6 DEF OneEach
  <2>4. list[p] = list[j]
    BY <2>3
  <2>5. q[k] = q[m]
    BY <2>1, <2>2, <2>4
  <2> QED  BY <2>5
<1>8. /\ Cardinality(ToSet(list)) = n /\ list \in SetToSeqs(ToSet(list))
      /\ \A l \in SetToSeqs(ToSet(list)) :
           /\ l \in [1..n -> Nonce] /\ ToSet(l) = ToSet(list)
           /\ \A p, j \in 1..n : l[p] = l[j] => p = j
  <2>1. list \in [1..n -> Nonce] /\ n \in Nat
    BY <1>1
  <2> QED  BY <2>1, <1>3, OrdersFacts
<1>6. ASSUME NEW l \in SetToSeqs(ToSet(list)), OneEach(list) PROVE toCommitmentList(l) = list
  <2>1. /\ l \in [1..n -> Nonce] /\ ToSet(l) = ToSet(list)
        /\ \A p, j \in 1..n : l[p] = l[j] => p = j
    BY <1>6, <1>8
  <2>2. OneEach(q)
    BY <1>5, <1>6
  <2>3. /\ ToSet(list) = {list[k] : k \in 1..n} /\ ToSet(l) = {l[k] : k \in 1..n}
    BY <1>1, <2>1 DEF ToSet
  <2>4. \A k \in 1..n : \E j \in 1..n : l[j] = q[k]
    <3> SUFFICES ASSUME NEW k \in 1..n PROVE \E j \in 1..n : l[j] = q[k]
      OBVIOUS
    <3>1. PICK r \in 1..n : list[r] = q[k]
      BY <1>1
    <3>2. list[r] \in ToSet(l)
      BY <2>1, <2>3
    <3> QED  BY <2>3, <3>1, <3>2
  <2>5. \A j \in 1..n : \E k \in 1..n : l[j] = q[k]
    <3> SUFFICES ASSUME NEW j \in 1..n PROVE \E k \in 1..n : l[j] = q[k]
      OBVIOUS
    <3>1. l[j] \in ToSet(list)
      BY <2>1, <2>3
    <3>2. PICK r \in 1..n : l[j] = list[r]
      BY <2>3, <3>1
    <3> QED  BY <1>1, <3>2
  <2>6. toCommitmentList(l) = toCommitmentList(q)
    BY <2>1, <2>2, <2>4, <2>5, SortedSame
  <2> QED  BY <2>6 DEF list
<1>7. list \in Seq(Nonce) /\ Len(list) = n
  BY <1>1
<1> QED  BY <1>1, <1>3, <1>4, <1>5, <1>6, <1>7 DEF list

\* No count goes down and no copy loses or changes a block.
Onward(count, more, trees, grown) ==
  /\ count \in Counts /\ more \in Counts /\ trees \in Trees /\ grown \in Trees
  /\ \A s \in Signer : count[s] <= more[s]
  /\ \A c \in Replica : /\ Len(trees[c]) <= Len(grown[c])
                        /\ \A p \in 1..Len(trees[c]) : grown[c][p] = trees[c][p]

LEMMA CallStays ==
  ASSUME NEW count, NEW more, NEW trees, NEW grown, Onward(count, more, trees, grown),
         NEW r, CallInv(r, count, trees)
  PROVE  CallInv(r, more, grown)
<1>1. \A x \in Nonce : /\ x.signer \in Signer /\ x.number \in Nat
                       /\ x.number <= count[x.signer] => x.number <= more[x.signer]
                       /\ count[x.signer] > x.number => more[x.signer] > x.number
  <2> SUFFICES ASSUME NEW x \in Nonce
               PROVE  /\ x.signer \in Signer /\ x.number \in Nat
                      /\ x.number <= count[x.signer] => x.number <= more[x.signer]
                      /\ count[x.signer] > x.number => more[x.signer] > x.number
    OBVIOUS
  <2>1. x.signer \in Signer /\ x.number \in Nat
    BY DEF Nonce
  <2>2. /\ count[x.signer] \in Nat /\ more[x.signer] \in Nat
        /\ count[x.signer] <= more[x.signer]
    BY <2>1 DEF Onward, Counts
  <2> QED  BY <2>1, <2>2
<1>2. \A list \in Seq(Nonce) : \A k \in DOMAIN list : list[k] \in Nonce
  OBVIOUS
<1>3. r.stage = "sign" => Listed(r.list, more)
  <2>1. r.stage = "sign" => Listed(r.list, count)
    BY DEF CallInv
  <2> QED  BY <1>1, <1>2, <2>1 DEF Listed
<1>4. r.stage = "sign" => \A u \in r.shares : Answers(u, r, more)
  <2>1. r.stage = "sign" => \A u \in r.shares : Answers(u, r, count)
    BY DEF CallInv
  <2> QED  BY <1>1, <2>1 DEF Answers
<1>5. r.stage = "failed" => r.list \in Seq(Nonce) /\ Blamed(r.list, more)
  <2> SUFFICES ASSUME r.stage = "failed" PROVE r.list \in Seq(Nonce) /\ Blamed(r.list, more)
    OBVIOUS
  <2> DEFINE list == r.list
  <2>1. list \in Seq(Nonce) /\ Blamed(list, count)
    BY DEF CallInv
  <2> HIDE DEF list
  <2>2. \A k \in DOMAIN list : list[k] \in Nonce
    BY <2>1
  <2>3. Blamed(list, more)
    BY <1>1, <2>1, <2>2 DEF Blamed
  <2> QED  BY <2>1, <2>3 DEF list
<1>6. /\ IsFiniteSet(r.received)
      /\ \A x \in r.received : x \in Nonce /\ x.number <= more[x.signer]
  BY <1>1 DEF CallInv
<1>7. \A c \in Replica : Len(trees[c]) \in Nat /\ Len(grown[c]) \in Nat /\ Len(trees[c]) <= Len(grown[c])
  BY DEF Onward, Trees
<1>8. r.stage \in {"commit", "sign", "signed"} => OneLonger(r, grown)
  <2> SUFFICES ASSUME r.stage \in {"commit", "sign", "signed"} PROVE OneLonger(r, grown)
    OBVIOUS
  <2>1. OneLonger(r, trees)
    BY DEF CallInv
  <2>2. /\ r.core \in Replica /\ r.signable \in Seq(Block) /\ Len(r.signable) >= 1
        /\ Len(trees[r.core]) >= Len(r.signable) - 1 /\ Len(r.signable) \in Nat
    BY <2>1 DEF OneLonger
  <2>3. Len(grown[r.core]) >= Len(r.signable) - 1
    BY <1>7, <2>2
  <2>4. ASSUME NEW p \in 1..(Len(r.signable) - 1) PROVE grown[r.core][p] = r.signable[p]
    <3>1. trees[r.core][p] = r.signable[p]
      BY <2>1, <2>4 DEF OneLonger
    <3>2. p \in 1..Len(trees[r.core])
      BY <1>7, <2>2, <2>4
    <3>3. grown[r.core][p] = trees[r.core][p]
      BY <2>2, <3>2 DEF Onward
    <3> QED  BY <3>1, <3>3
  <2> QED  BY <2>2, <2>3, <2>4 DEF OneLonger
<1>9. r.stage = "refused" =>
        r.core \in Replica /\ Len(grown[r.core]) >= Len(r.signable) /\ Len(r.signable) \in Nat
  BY <1>7 DEF CallInv
<1>10. r.stage \in {"idle", "commit"} => r.shares = {}
  BY DEF CallInv
<1> QED  BY <1>3, <1>4, <1>5, <1>6, <1>8, <1>9, <1>10 DEF CallInv

LEMMA CallStep ==
  ASSUME CallsInv, NonceInv', HeadsInv', NEW a \in Call, NEW r, call' = [call EXCEPT ![a] = r],
         Onward(made, made', tree, tree'), CallInv(r, made', tree'), Latest(made', nonces')
  PROVE  CallsInv'
<1>1. \A b \in Call : call'[b] = IF b = a THEN r ELSE call[b]
  BY DEF CallsInv, HeadsInv
<1>2. ASSUME NEW b \in Call PROVE CallInv(call'[b], made', tree')
  <2>1. CASE b = a
    BY <1>1, <2>1
  <2>2. CASE b # a
    <3>1. call'[b] = call[b] /\ CallInv(call[b], made, tree)
      BY <1>1, <2>2 DEF CallsInv
    <3> QED  BY <3>1, CallStays
  <2> QED  BY <2>1, <2>2
<1>3. tree' \in Trees
  BY DEF Onward
<1> QED  BY <1>2, <1>3 DEF CallsInv, Trees, Latest

LEMMA CallsInvInit == FrostInit => CallsInv
<1> SUFFICES ASSUME FrostInit PROVE CallsInv
  OBVIOUS
<1>1. NonceInv /\ HeadsInv
  BY NonceInvInit, HeadsInvInit
<1>2. tree \in Trees /\ Latest(made, nonces)
  BY DEF FrostInit, Trees, Latest
<1>3. \A a \in Call : call[a] = NoCall
  BY DEF FrostInit
<1>4. CallInv(NoCall, made, tree)
  <2>1. NoCall.stage = "idle" /\ NoCall.received = {} /\ NoCall.shares = {}
    BY DEF NoCall
  <2> QED  BY <2>1, FS_EmptySet DEF CallInv
<1> QED  BY <1>1, <1>2, <1>3, <1>4 DEF CallsInv

LEMMA Steady ==
  ASSUME CallsInv, made' \in Counts, tree' = tree, \A s \in Signer : made[s] <= made'[s]
  PROVE  Onward(made, made', tree, tree')
<1>1. made \in Counts /\ tree \in Trees
  BY DEF CallsInv, NonceInv, Counts
<1>2. \A c \in Replica : Len(tree[c]) \in Nat
  BY <1>1 DEF Trees
<1> QED  BY <1>1, <1>2 DEF Onward

LEMMA Untouched ==
  ASSUME CallsInv, UNCHANGED <<made, tree, nonces>>
  PROVE  Onward(made, made', tree, tree') /\ Latest(made', nonces')
<1>1. made \in Counts /\ \A s \in Signer : made[s] <= made[s]
  BY DEF CallsInv, NonceInv, Counts
<1>2. Onward(made, made', tree, tree')
  BY <1>1, Steady
<1> QED  BY <1>2 DEF CallsInv, Latest

\* The tree of a new append is one block longer than its copy.
LEMMA OneLongerNow ==
  ASSUME CallsInv, NEW c \in Replica, NEW b \in Block, NEW r,
         r.core = c, r.signable = signableFor(c, b)
  PROVE  OneLonger(r, tree)
<1>1. tree[c] \in Seq(Block)
  BY DEF CallsInv, Trees
<1> DEFINE t == tree[c]
           w == Append(t, b)
<1>2. w \in Seq(Block) /\ Len(w) = Len(t) + 1 /\ Len(t) \in Nat
      /\ \A p \in 1..Len(t) : w[p] = t[p]
  BY <1>1
<1>3. w = r.signable
  BY DEF signableFor
<1> HIDE DEF w
<1>4. Len(w) - 1 = Len(t) /\ Len(w) >= 1
  BY <1>2
<1>5. \A p \in 1..(Len(w) - 1) : t[p] = w[p]
  BY <1>2, <1>4
<1> QED  BY <1>2, <1>3, <1>4, <1>5 DEF OneLonger

LEMMA CallsInvOpen ==
  ASSUME CallsInv, NonceInv', HeadsInv', NEW a \in Call, NEW c \in Replica, NEW b \in Block,
         Open(a, c, b)
  PROVE  CallsInv'
<1> DEFINE r == [NoCall EXCEPT !.stage = "commit", !.core = c, !.signable = signableFor(c, b)]
<1>1. UNCHANGED <<nonces, made, tree>> /\ call' = [call EXCEPT ![a] = r]
  BY DEF Open
<1>2. /\ r.stage = "commit" /\ r.core = c /\ r.signable = signableFor(c, b)
      /\ r.received = {} /\ r.shares = {}
  BY DEF NoCall
<1> HIDE DEF r
<1>3. OneLonger(r, tree)
  BY <1>2, OneLongerNow
<1>4. CallInv(r, made, tree)
  BY <1>2, <1>3, FS_EmptySet DEF CallInv
<1> QED  BY <1>1, <1>4, Untouched, CallStep

LEMMA CallsInvCommit ==
  ASSUME CallsInv, NonceInv', HeadsInv', NEW s \in Signer, NEW a \in Call, Commit(s, a)
  PROVE  CallsInv'
<1> DEFINE r == [call[a] EXCEPT !.received = @ \cup {Fresh(s)}]
<1>1. /\ tree' = tree /\ made' = [made EXCEPT ![s] = @ + 1]
      /\ nonces' = [nonces EXCEPT ![s] = Fresh(s)] /\ call' = [call EXCEPT ![a] = r]
  BY DEF Commit
<1>2. /\ r.stage = call[a].stage /\ r.core = call[a].core /\ r.signable = call[a].signable
      /\ r.list = call[a].list /\ r.shares = call[a].shares
      /\ r.received = call[a].received \cup {Fresh(s)}
  BY DEF CallsInv, HeadsInv, IsCall
<1> HIDE DEF r
<1>3. made \in Counts /\ nonces \in [Signer -> Nonce \cup {NoNonce}]
  BY DEF CallsInv, NonceInv, Counts
<1>4. made' \in Counts /\ made'[s] = made[s] + 1 /\ \A x \in Signer : made[x] <= made'[x]
  BY <1>1, <1>3 DEF Counts
<1>5. Onward(made, made', tree, tree')
  BY <1>1, <1>4, Steady
<1>6. /\ Fresh(s) \in Nonce /\ Fresh(s) = [signer |-> s, number |-> made'[s]]
      /\ Fresh(s).number <= made'[Fresh(s).signer]
  <2>1. made'[s] \in Nat /\ made[s] + 1 = made'[s]
    BY <1>4 DEF Counts
  <2> QED  BY <2>1 DEF Fresh, Nonce
<1>7. Latest(made', nonces')
  <2>1. \A x \in Signer : x # s => made'[x] = made[x] /\ nonces'[x] = nonces[x]
    BY <1>1, <1>3 DEF Counts
  <2>2. nonces'[s] = Fresh(s)
    BY <1>1, <1>3
  <2> QED  BY <1>6, <2>1, <2>2 DEF CallsInv, Latest
<1>8. CallInv(call[a], made', tree')
  BY <1>5, CallStays DEF CallsInv
<1>9. CallInv(r, made', tree')
  <2>1. IsFiniteSet(r.received)
    BY <1>2, <1>8, FS_AddElement DEF CallInv
  <2>2. \A x \in r.received : x \in Nonce /\ x.number <= made'[x.signer]
    BY <1>2, <1>6, <1>8 DEF CallInv
  <2> QED  BY <1>2, <1>8, <2>1, <2>2 DEF CallInv, Answers, OneLonger
<1> QED  BY <1>1, <1>5, <1>7, <1>9, CallStep

LEMMA CallsInvAbandon ==
  ASSUME CallsInv, NonceInv', HeadsInv', NEW a \in Call, Abandon(a) PROVE CallsInv'
<1> DEFINE r == [NoCall EXCEPT !.stage = "abandoned"]
<1>1. UNCHANGED <<nonces, made, tree>> /\ call' = [call EXCEPT ![a] = r]
  BY DEF Abandon
<1>2. r.stage = "abandoned" /\ r.received = {} /\ r.shares = {}
  BY DEF NoCall
<1> HIDE DEF r
<1>3. CallInv(r, made, tree)
  BY <1>2, FS_EmptySet DEF CallInv
<1> QED  BY <1>1, <1>3, Untouched, CallStep

LEMMA SameElements ==
  ASSUME NEW S, NEW s \in Seq(S), NEW t \in Seq(S), Len(s) = Len(t),
         \A p \in 1..Len(s) : s[p] = t[p]
  PROVE  s = t
OBVIOUS

\* What IsPrefix says of the blocks.
LEMMA PrefixBlocks ==
  ASSUME NEW S, NEW s \in Seq(S), NEW t \in Seq(S), IsPrefix(s, t)
  PROVE  Len(s) <= Len(t) /\ \A p \in 1..Len(s) : t[p] = s[p]
<1>1. Len(s) <= Len(t) /\ SubSeq(s, 1, Len(s)) = SubSeq(t, 1, Len(s))
  BY DEF IsPrefix
<1>2. Len(s) \in Nat /\ Len(t) \in Nat
  OBVIOUS
<1>3. \A p \in 1..Len(s) : SubSeq(s, 1, Len(s))[p] = s[p]
  BY <1>2
<1>4. \A p \in 1..Len(s) : SubSeq(t, 1, Len(s))[p] = t[p]
  BY <1>1, <1>2
<1> QED  BY <1>1, <1>3, <1>4

LEMMA CallsInvReplicate ==
  ASSUME CallsInv, NonceInv', HeadsInv', NEW c \in Replica, NEW d \in Replica, Replicate(c, d)
  PROVE  CallsInv'
<1>1. UNCHANGED <<nonces, made, call>> /\ tree' = [tree EXCEPT ![d] = tree[c]]
  BY DEF Replicate
<1>2. made \in Counts /\ tree \in Trees
  BY DEF CallsInv, NonceInv, Counts
<1>3. /\ tree' \in Trees /\ tree'[d] = tree[c]
      /\ \A e \in Replica : e # d => tree'[e] = tree[e]
  BY <1>1, <1>2 DEF Trees
<1>4. Len(tree[d]) <= Len(tree[c]) /\ \A p \in 1..Len(tree[d]) : tree[c][p] = tree[d][p]
  <2>1. tree[c] \in Seq(Block) /\ tree[d] \in Seq(Block) /\ IsPrefix(tree[d], tree[c])
    BY <1>2 DEF Trees, Replicate
  <2> QED  BY <2>1, PrefixBlocks
<1>5. \A e \in Replica : Len(tree[e]) \in Nat
  BY <1>2 DEF Trees
<1>6. \A s \in Signer : made[s] <= made[s]
  BY <1>2 DEF Counts
<1>7. Onward(made, made, tree, tree')
  BY <1>2, <1>3, <1>4, <1>5, <1>6 DEF Onward
<1>8. \A a \in Call : CallInv(call[a], made, tree')
  BY <1>7, CallStays DEF CallsInv
<1> QED  BY <1>1, <1>3, <1>8 DEF CallsInv, Latest

LEMMA CallsInvLand ==
  ASSUME CallsInv, NonceInv', HeadsInv', NEW a \in Call, Land(a) PROVE CallsInv'
<1> DEFINE c == call[a].core
           w == call[a].signable
           t == tree[c]
           blocks == Append(t, Last(w))
<1>1. UNCHANGED <<nonces, made>> /\ call[a].stage = "signed"
  BY DEF Land
<1>2. made \in Counts /\ tree \in Trees /\ \A s \in Signer : made[s] <= made[s]
  BY DEF CallsInv, NonceInv, Counts
<1>3. /\ c \in Replica /\ w \in Seq(Block) /\ Len(w) >= 1
      /\ Len(t) >= Len(w) - 1 /\ \A p \in 1..(Len(w) - 1) : t[p] = w[p]
  BY <1>1 DEF CallsInv, CallInv, OneLonger
<1>4. t \in Seq(Block) /\ Len(t) \in Nat /\ Len(w) \in Nat
  BY <1>2, <1>3 DEF Trees
<1>5. call[a].signature.signable = w
  BY <1>1 DEF CallsInv, HeadsInv
<1>6. Last(w) \in Block /\ Last(w) = w[Len(w)]
  BY <1>3, <1>4 DEF Last
<1>7. /\ blocks \in Seq(Block) /\ Len(blocks) = Len(t) + 1
      /\ blocks[Len(t) + 1] = Last(w) /\ \A p \in 1..Len(t) : blocks[p] = t[p]
  <2> HIDE DEF w, t
  <2> QED  BY <1>4, <1>6
<1>8. CASE Accepts(call[a].signature, blocks)
  <2> DEFINE r == [NoCall EXCEPT !.stage = "landed"]
  <2>1. call' = [call EXCEPT ![a] = r] /\ tree' = [tree EXCEPT ![c] = blocks]
    BY <1>8 DEF Land
  <2>2. r.stage = "landed" /\ r.received = {} /\ r.shares = {}
    BY DEF NoCall
  <2> HIDE DEF r, blocks, c, w
  <2>3. /\ tree' \in Trees /\ tree'[c] = blocks
        /\ \A e \in Replica : e # c => tree'[e] = tree[e]
    BY <1>2, <1>3, <1>7, <2>1 DEF Trees
  <2>4. \A e \in Replica : Len(tree[e]) \in Nat
    BY <1>2 DEF Trees
  <2>5. Len(blocks) >= Len(t)
    BY <1>4, <1>7
  <2>6. Onward(made, made, tree, tree')
    <3> SUFFICES ASSUME NEW e \in Replica
                 PROVE  /\ Len(tree[e]) <= Len(tree'[e])
                        /\ \A p \in 1..Len(tree[e]) : tree'[e][p] = tree[e][p]
      BY <1>2, <2>3 DEF Onward
    <3>1. CASE e = c
      BY <1>7, <2>3, <2>5, <3>1
    <3>2. CASE e # c
      BY <2>3, <2>4, <3>2
    <3> QED  BY <3>1, <3>2
  <2>7. CallInv(r, made, tree')
    BY <2>2, FS_EmptySet DEF CallInv
  <2>8. Latest(made', nonces')
    BY <1>1 DEF CallsInv, Latest
  <2> QED  BY <1>1, <2>1, <2>6, <2>7, <2>8, CallStep
<1>9. CASE ~Accepts(call[a].signature, blocks)
  <2> DEFINE r == [call[a] EXCEPT !.stage = "refused"]
  <2>1. call' = [call EXCEPT ![a] = r] /\ tree' = tree
    BY <1>9 DEF Land
  <2>2. /\ r.stage = "refused" /\ r.core = c /\ r.signable = w
        /\ r.received = call[a].received
    BY DEF CallsInv, HeadsInv, IsCall
  <2> HIDE DEF r
  <2>3. blocks # w
    BY <1>5, <1>9 DEF Accepts
  <2>4. Len(t) >= Len(w)
    <3> SUFFICES ASSUME ~(Len(t) >= Len(w)) PROVE FALSE
      OBVIOUS
    <3> HIDE DEF blocks, t, w, c
    <3>1. Len(t) = Len(w) - 1 /\ Len(t) + 1 = Len(w)
      BY <1>3, <1>4
    <3>2. ASSUME NEW p \in 1..Len(w) PROVE blocks[p] = w[p]
      <4>1. CASE p = Len(w)
        BY <1>6, <1>7, <3>1, <4>1
      <4>2. CASE p # Len(w)
        <5>1. p \in 1..Len(t) /\ p \in 1..(Len(w) - 1)
          BY <1>4, <3>1, <3>2, <4>2
        <5> QED  BY <1>3, <1>7, <5>1
      <4> QED  BY <4>1, <4>2
    <3>3. blocks = w
      BY <1>3, <1>7, <3>1, <3>2, SameElements
    <3> QED  BY <2>3, <3>3
  <2>5. CallInv(r, made, tree)
    <3>1. CallInv(call[a], made, tree)
      BY DEF CallsInv
    <3> QED  BY <1>3, <1>4, <2>2, <2>4, <3>1 DEF CallInv
  <2> QED  BY <1>1, <2>1, <2>5, Untouched, CallStep
<1> QED  BY <1>8, <1>9

LEMMA Arranged ==
  ASSUME NEW S, IsFiniteSet(S)
  PROVE  /\ Cardinality(S) \in Nat /\ SetToSeq(S) \in [1..Cardinality(S) -> S]
         /\ \A p, j \in 1..Cardinality(S) : SetToSeq(S)[p] = SetToSeq(S)[j] => p = j
<1>1. PICK n \in Nat : ExistsBijection(1..n, S)
  BY FS_NatBijection
<1>2. PICK f : f \in Bijection(1..n, S)
  BY <1>1 DEF ExistsBijection
<1>3. f \in [1..n -> S] /\ \A p, j \in 1..n : f[p] = f[j] => p = j
  BY <1>2 DEF Bijection, Injection, IsInjective
<1>4. Cardinality(S) = n
  <2>1. IsFiniteSet(1..n) /\ Cardinality(1..n) = n
    BY FiniteRange
  <2> QED  BY <1>1, <2>1, FS_Bijection
<1>5. IsInjective(f)
  BY <1>3 DEF IsInjective
<1>6. SetToSeq(S) \in [1..n -> S] /\ IsInjective(SetToSeq(S))
  BY <1>3, <1>4, <1>5 DEF SetToSeq
<1> HIDE DEF SetToSeq
<1> QED  BY <1>4, <1>6 DEF IsInjective

LEMMA CallsInvDistribute ==
  ASSUME CallsInv, NonceInv', HeadsInv', NEW a \in Call, NEW chosen, Distribute(a, chosen)
  PROVE  CallsInv'
<1> DEFINE q == SetToSeq(chosen)
           n == Cardinality(chosen)
           list == toCommitmentList(q)
           r == [call[a] EXCEPT !.stage = "sign", !.list = list]
<1>1. /\ UNCHANGED <<nonces, made, tree>> /\ call' = [call EXCEPT ![a] = r]
      /\ call[a].stage = "commit" /\ chosen \in SUBSET call[a].received /\ n >= Threshold
  BY DEF Distribute
<1>2. /\ r.stage = "sign" /\ r.list = list /\ r.shares = call[a].shares
      /\ r.core = call[a].core /\ r.signable = call[a].signable
      /\ r.received = call[a].received
  BY DEF CallsInv, HeadsInv, IsCall
<1>3. CallInv(call[a], made, tree)
  BY DEF CallsInv
<1>4. /\ IsFiniteSet(chosen)
      /\ \A x \in chosen : x \in Nonce /\ x.number <= made[x.signer]
  BY <1>1, <1>3, FS_Subset DEF CallInv
<1>5. n \in Nat /\ q \in [1..n -> chosen] /\ \A p, j \in 1..n : q[p] = q[j] => p = j
  BY <1>4, Arranged
<1> HIDE DEF n, q, list, r
<1>6. q \in [1..n -> Nonce]
  BY <1>4, <1>5
<1>7. /\ list \in Seq(Nonce) /\ Len(list) = n
      /\ \A p, j \in 1..n : list[p] = list[j] => p = j
      /\ \A k \in 1..n : \E m \in 1..n : list[k] = q[m]
      /\ \A l \in SetToSeqs(ToSet(list)) : OneEach(list) => toCommitmentList(l) = list
  BY <1>5, <1>6, SortedList DEF list
<1>8. DOMAIN list = 1..n
  BY <1>7
<1>9. \A k \in 1..n : list[k].number <= made[list[k].signer]
  <2> SUFFICES ASSUME NEW k \in 1..n PROVE list[k].number <= made[list[k].signer]
    OBVIOUS
  <2>1. PICK m \in 1..n : list[k] = q[m]
    BY <1>7
  <2> QED  BY <1>4, <1>5, <2>1
<1>10. Listed(list, made)
  BY <1>1, <1>7, <1>8, <1>9 DEF Listed
<1>11. r.shares = {}
  BY <1>1, <1>2, <1>3 DEF CallInv
<1>12. OneLonger(r, tree)
  BY <1>1, <1>2, <1>3 DEF CallInv, OneLonger
<1>13. CallInv(r, made, tree)
  BY <1>2, <1>3, <1>10, <1>11, <1>12 DEF CallInv
<1> QED  BY <1>1, <1>13, Untouched, CallStep

LEMMA CallsInvSign ==
  ASSUME CallsInv, NonceInv', HeadsInv', NEW s \in Signer, NEW a \in Call,
         NEW l \in SetToSeqs(ToSet(call[a].list)), Sign(s, a, l)
  PROVE  CallsInv'
<1> DEFINE u == ShareOf(s, l, call[a].signable)
           r == [call[a] EXCEPT !.shares = @ \cup {u}]
<1>1. /\ UNCHANGED <<made, tree>> /\ call' = [call EXCEPT ![a] = r]
      /\ call[a].stage = "sign" /\ nonces[s] # NoNonce
      /\ nonces' = [nonces EXCEPT ![s] = NoNonce]
  BY DEF Sign
<1>2. /\ u.nonce = nonces[s] /\ u.list = toCommitmentList(l) /\ u.signable = call[a].signable
      /\ u = [nonce |-> u.nonce, list |-> u.list, signable |-> u.signable]
  BY DEF ShareOf
<1> HIDE DEF u
<1>3. /\ r.stage = call[a].stage /\ r.core = call[a].core /\ r.signable = call[a].signable
      /\ r.list = call[a].list /\ r.shares = call[a].shares \cup {u}
      /\ r.received = call[a].received
  BY DEF CallsInv, HeadsInv, IsCall
<1> HIDE DEF r
<1>4. CallInv(call[a], made, tree)
  BY DEF CallsInv
<1>5. nonces[s] = [signer |-> s, number |-> made[s]] /\ nonces[s] \in Nonce /\ made[s] \in Nat
  BY <1>1 DEF CallsInv, NonceInv, Latest
<1>6. u.nonce \in Nonce /\ u.nonce.signer = s /\ u.nonce.number = made[s]
  BY <1>2, <1>5
<1>7. Listed(call[a].list, made)
  BY <1>1, <1>4 DEF CallInv
<1>8. OneEach(call[a].list) => u.list = call[a].list
  BY <1>2, <1>7 DEF Listed
<1>9. \A k \in DOMAIN call[a].list :
        call[a].list[k].signer = s => call[a].list[k].number <= made[s]
  BY <1>7 DEF Listed
<1>10. Answers(u, r, made)
  BY <1>2, <1>3, <1>5, <1>6, <1>8, <1>9 DEF Answers
<1>11. \A v \in call[a].shares : Answers(v, r, made)
  BY <1>1, <1>3, <1>4 DEF CallInv, Answers
<1>12. OneLonger(r, tree)
  BY <1>1, <1>3, <1>4 DEF CallInv, OneLonger
<1>13. CallInv(r, made, tree)
  BY <1>1, <1>3, <1>4, <1>7, <1>10, <1>11, <1>12 DEF CallInv
<1>14. Latest(made', nonces')
  BY <1>1 DEF CallsInv, NonceInv, Latest
<1>15. Onward(made, made', tree, tree')
  <2>1. made \in Counts /\ \A x \in Signer : made[x] <= made[x]
    BY DEF CallsInv, NonceInv, Counts
  <2> QED  BY <1>1, <2>1, Steady
<1> QED  BY <1>1, <1>13, <1>14, <1>15, CallStep

\* As many signers as entries, if no signer is listed twice.
LEMMA SignersCounted ==
  ASSUME NEW n \in Nat, NEW list \in [1..n -> Nonce], OneEach(list)
  PROVE  Cardinality(SignersOf(list)) = n
<1> DEFINE f == [k \in 1..n |-> list[k].signer]
           T == SignersOf(list)
<1>1. f \in [1..n -> T] /\ \A t \in T : \E k \in 1..n : f[k] = t
  BY DEF SignersOf
<1>2. \A j, k \in 1..n : f[j] = f[k] => j = k
  BY DEF OneEach
<1>3. IsFiniteSet(1..n) /\ Cardinality(1..n) = n
  BY FiniteRange
<1> HIDE DEF f, T
<1>4. Cardinality(T) = n
  BY <1>1, <1>2, <1>3, CountedThrough, Zenon
<1> QED  BY <1>4 DEF T

\* With all shares there, an aggregation that fails has a reason.
LEMMA FailedForReason ==
  ASSUME NEW count \in Counts, NEW r, NEW list, r.list = list, Listed(list, count),
         \A u \in r.shares : Answers(u, r, count),
         \A s \in SignersOf(list) : \E u \in r.shares : u.nonce.signer = s,
         ~Aggregates(list, r.shares, r.signable)
  PROVE  Blamed(list, count)
<1> SUFFICES ASSUME ~Blamed(list, count) PROVE FALSE
  OBVIOUS
<1> DEFINE n == Len(list)
<1>1. /\ n \in Nat /\ list \in [1..n -> Nonce] /\ DOMAIN list = 1..n /\ n >= Threshold
      /\ \A k \in 1..n : list[k].number <= count[list[k].signer]
  BY DEF Listed
<1>2. \A k \in 1..n : ~(count[list[k].signer] > list[k].number)
  BY <1>1 DEF Blamed
<1>3. OneEach(list)
  BY <1>1 DEF Blamed, OneEach
<1> HIDE DEF n
<1>4. Cardinality(SignersOf(list)) = n
  BY <1>1, <1>3, SignersCounted
<1>5. ASSUME NEW k \in 1..n
      PROVE  [nonce |-> list[k], list |-> list, signable |-> r.signable] \in r.shares
  <2>1. list[k] \in Nonce /\ list[k].signer \in SignersOf(list)
    BY <1>1 DEF SignersOf
  <2>2. PICK u \in r.shares : u.nonce.signer = list[k].signer
    BY <2>1
  <2>3. /\ u = [nonce |-> u.nonce, list |-> u.list, signable |-> u.signable]
        /\ u.nonce \in Nonce /\ u.nonce.number <= count[u.nonce.signer]
        /\ u.signable = r.signable /\ u.list = list
        /\ list[k].number <= u.nonce.number
    BY <1>1, <1>3, <2>2 DEF Answers
  <2>4. count[list[k].signer] \in Nat /\ list[k].number \in Nat /\ u.nonce.number \in Nat
    BY <2>1, <2>3 DEF Nonce, Counts
  <2>5. u.nonce.number = list[k].number
    BY <1>2, <2>2, <2>3, <2>4
  <2>6. u.nonce = list[k]
    BY <2>1, <2>2, <2>3, <2>5 DEF Nonce
  <2> QED  BY <2>3, <2>6
<1>6. Aggregates(list, r.shares, r.signable)
  BY <1>1, <1>4, <1>5 DEF Aggregates, n
<1> QED  BY <1>6

LEMMA CallsInvAggregate ==
  ASSUME CallsInv, NonceInv', HeadsInv', NEW a \in Call, Aggregate(a) PROVE CallsInv'
<1> DEFINE list == call[a].list
           won == [call[a] EXCEPT !.stage = "signed", !.shares = {},
                     !.signature = [signable |-> call[a].signable, signers |-> SignersOf(list)]]
           lost == [call[a] EXCEPT !.stage = "failed", !.shares = {}]
<1>1. /\ UNCHANGED <<nonces, made, tree>> /\ call[a].stage = "sign"
      /\ \A s \in SignersOf(list) : \E u \in call[a].shares : u.nonce.signer = s
  BY DEF Aggregate
<1>2. CallInv(call[a], made, tree) /\ made \in Counts
  BY DEF CallsInv, NonceInv, Counts
<1>3. CASE Aggregates(list, call[a].shares, call[a].signable)
  <2>1. call' = [call EXCEPT ![a] = won]
    BY <1>3 DEF Aggregate
  <2>2. /\ won.stage = "signed" /\ won.core = call[a].core /\ won.signable = call[a].signable
        /\ won.received = call[a].received
    BY DEF CallsInv, HeadsInv, IsCall
  <2> HIDE DEF won
  <2>3. CallInv(won, made, tree)
    BY <1>1, <1>2, <2>2 DEF CallInv, OneLonger
  <2> QED  BY <1>1, <2>1, <2>3, Untouched, CallStep
<1>4. CASE ~Aggregates(list, call[a].shares, call[a].signable)
  <2>1. call' = [call EXCEPT ![a] = lost]
    BY <1>4 DEF Aggregate
  <2>2. /\ lost.stage = "failed" /\ lost.list = list
        /\ lost.received = call[a].received
    BY DEF CallsInv, HeadsInv, IsCall
  <2>3. Listed(list, made) /\ \A u \in call[a].shares : Answers(u, call[a], made)
    BY <1>1, <1>2 DEF CallInv
  <2>4. Blamed(list, made)
    BY <1>1, <1>2, <1>4, <2>3, FailedForReason
  <2>5. list \in Seq(Nonce)
    BY <2>3 DEF Listed
  <2> HIDE DEF lost, list
  <2>6. CallInv(lost, made, tree)
    BY <1>2, <2>2, <2>4, <2>5 DEF CallInv
  <2> QED  BY <1>1, <2>1, <2>6, Untouched, CallStep
<1> QED  BY <1>3, <1>4

LEMMA PartCounted ==
  ASSUME NEW n \in Nat, NEW part \in SUBSET (1..n) PROVE Cardinality(part) \in Nat
<1>1. IsFiniteSet(1..n)
  BY FiniteRange
<1>2. IsFiniteSet(part)
  BY <1>1, FS_Subset
<1> QED  BY <1>2, FS_CardinalityType

\* A session that is given twice is listed twice.
LEMMA GivenTwice ==
  ASSUME NEW n \in Nat, NEW q \in [1..n -> Nonce], NEW j \in 1..n, NEW k \in 1..n, j # k,
         q[j].signer = q[k].signer, NEW count
  PROVE  toCommitmentList(q) \in Seq(Nonce) /\ Blamed(toCommitmentList(q), count)
<1> DEFINE list == toCommitmentList(q)
<1>1. /\ list \in [1..n -> Nonce]
      /\ \A m \in 1..n : \E r \in 1..n : Cardinality(upTo(q, m)) = r /\ list[r] = q[m]
  BY SortedFacts
<1> HIDE DEF list
<1>2. PICK x \in 1..n : Cardinality(upTo(q, j)) = x /\ list[x] = q[j]
  BY <1>1
<1>3. PICK y \in 1..n : Cardinality(upTo(q, k)) = y /\ list[y] = q[k]
  BY <1>1
<1>4. x # y
  BY <1>2, <1>3, RankOnto
<1>5. list \in Seq(Nonce) /\ DOMAIN list = 1..n
  BY <1>1
<1>6. Blamed(list, count)
  BY <1>2, <1>3, <1>4, <1>5 DEF Blamed
<1> QED  BY <1>5, <1>6 DEF list

\* With every session given once the shares aggregate.
LEMMA GivenOnce ==
  ASSUME NEW n \in Nat, n >= Threshold, NEW q \in [1..n -> Nonce],
         \A j, k \in 1..n : q[j].signer = q[k].signer => j = k,
         NEW message, NEW shares,
         \A k \in 1..n :
           [nonce |-> q[k], list |-> toCommitmentList(q), signable |-> message] \in shares
  PROVE  Aggregates(toCommitmentList(q), shares, message)
<1> DEFINE list == toCommitmentList(q)
<1>1. OneEach(q) /\ \A p, j \in 1..n : q[p] = q[j] => p = j
  BY DEF OneEach
<1>2. /\ list \in [1..n -> Nonce] /\ Len(list) = n /\ OneEach(list)
      /\ \A r \in 1..n : \E k \in 1..n : list[r] = q[k]
  BY <1>1, SortedList
<1> HIDE DEF list
<1>3. Cardinality(SignersOf(list)) = n
  BY <1>2, SignersCounted
<1>4. ASSUME NEW r \in 1..n
      PROVE  [nonce |-> list[r], list |-> list, signable |-> message] \in shares
  <2>1. PICK k \in 1..n : list[r] = q[k]
    BY <1>2
  <2> QED  BY <2>1 DEF list
<1>5. Aggregates(list, shares, message)
  BY <1>2, <1>3, <1>4 DEF Aggregates
<1> QED  BY <1>5 DEF list

LEMMA CallsInvThresholdSign ==
  ASSUME CallsInv, NonceInv', HeadsInv', NEW a \in Call, NEW c \in Replica, NEW b \in Block,
         NEW sessions \in TupleOf(Signer, Threshold), ThresholdSign(a, c, b, sessions)
  PROVE  CallsInv'
<1> DEFINE n == Threshold
           before(k) == Cardinality({j \in 1..k : sessions[j] = sessions[k]})
           last(s) == Cardinality({j \in DOMAIN sessions : sessions[j] = s})
           nonce(k) == [signer |-> sessions[k], number |-> made[sessions[k]] + before(k)]
           q == [k \in DOMAIN sessions |-> nonce(k)]
           list == toCommitmentList(q)
           repeated == {k \in DOMAIN sessions : \E j \in 1..(k - 1) : sessions[j] = sessions[k]}
           signing == {sessions[k] : k \in {l \in DOMAIN sessions : \A r \in repeated : l < r}}
           held(s) == [signer |-> s, number |-> made[s] + last(s)]
           w == signableFor(c, b)
           shares == {[nonce |-> held(s), list |-> list, signable |-> w] : s \in signing}
           done == [NoCall EXCEPT !.core = c, !.signable = w, !.list = list]
           won == [done EXCEPT !.stage = "signed",
                     !.signature = [signable |-> w, signers |-> SignersOf(list)]]
           lost == [done EXCEPT !.stage = "failed"]
<1>1. sessions \in [1..n -> Signer] /\ n \in Nat /\ DOMAIN sessions = 1..n
  BY ConfigAssumption DEF TupleOf
<1>2. made \in Counts /\ tree \in Trees /\ Latest(made, nonces)
  BY DEF CallsInv, NonceInv, Counts
<1>3. ASSUME NEW k \in 1..n PROVE before(k) \in Nat
  <2> DEFINE at == {j \in 1..k : sessions[j] = sessions[k]}
  <2>1. k \in Nat /\ at \in SUBSET (1..k) /\ before(k) = Cardinality(at)
    BY <1>1
  <2> HIDE DEF at, before
  <2> QED  BY <2>1, PartCounted
<1>4. ASSUME NEW s PROVE last(s) \in Nat
  <2> DEFINE at == {j \in DOMAIN sessions : sessions[j] = s}
  <2>1. n \in Nat /\ at \in SUBSET (1..n) /\ last(s) = Cardinality(at)
    BY <1>1
  <2> HIDE DEF at, last
  <2> QED  BY <2>1, PartCounted
<1>5. /\ made' = [s \in Signer |-> made[s] + last(s)] /\ tree' = tree
      /\ nonces' = [s \in Signer |-> IF s \in signing THEN NoNonce
                                     ELSE IF last(s) > 0 THEN held(s) ELSE nonces[s]]
  BY DEF ThresholdSign
<1>6. call' = [call EXCEPT ![a] =
        IF repeated = {} /\ Aggregates(list, shares, w) THEN won ELSE lost]
  BY Zenon DEF ThresholdSign
<1>7. q \in [1..n -> Nonce] /\ \A k \in 1..n : q[k] = nonce(k) /\ q[k].signer = sessions[k]
  <2> HIDE DEF before
  <2>1. \A k \in 1..n : nonce(k) \in Nonce /\ nonce(k).signer = sessions[k]
    BY <1>1, <1>2, <1>3 DEF Nonce, Counts
  <2> QED  BY <1>1, <2>1
<1> HIDE DEF before, last
<1>8. made' \in Counts /\ \A s \in Signer : made'[s] = made[s] + last(s) /\ made[s] <= made'[s]
  BY <1>2, <1>4, <1>5 DEF Counts
<1>9. Onward(made, made', tree, tree')
  BY <1>5, <1>8, Steady
<1>10. Latest(made', nonces')
  <2> HIDE DEF signing
  <2> SUFFICES ASSUME NEW s \in Signer, nonces'[s] # NoNonce
               PROVE  nonces'[s] = [signer |-> s, number |-> made'[s]]
    BY DEF Latest
  <2>1. s \notin signing /\ nonces'[s] = IF last(s) > 0 THEN held(s) ELSE nonces[s]
    BY <1>5
  <2>2. CASE last(s) > 0
    BY <1>8, <2>1, <2>2
  <2>3. CASE ~(last(s) > 0)
    <3>1. nonces'[s] = nonces[s]
      BY <2>1, <2>3
    <3>2. last(s) = 0 /\ made[s] \in Nat
      BY <1>2, <1>4, <2>3 DEF Counts
    <3>3. made'[s] = made[s]
      BY <1>8, <3>2
    <3> QED  BY <1>2, <3>1, <3>3 DEF Latest
  <2> QED  BY <2>2, <2>3
<1>11. /\ won.stage = "signed" /\ won.core = c /\ won.signable = w /\ won.received = {}
       /\ lost.stage = "failed" /\ lost.list = list /\ lost.received = {}
  <2> HIDE DEF w, list
  <2> QED  BY DEF NoCall
<1>12. CASE repeated = {} /\ Aggregates(list, shares, w)
  <2>1. call' = [call EXCEPT ![a] = won]
    BY <1>6, <1>12, Zenon
  <2> HIDE DEF won
  <2>2. OneLonger(won, tree)
    BY <1>11, OneLongerNow
  <2>3. CallInv(won, made', tree)
    BY <1>11, <2>2, FS_EmptySet DEF CallInv
  <2> QED  BY <1>5, <1>9, <1>10, <2>1, <2>3, CallStep
<1>13. CASE ~(repeated = {} /\ Aggregates(list, shares, w))
  <2>1. call' = [call EXCEPT ![a] = lost]
    BY <1>6, <1>13, Zenon
  <2>2. ASSUME repeated = {} PROVE FALSE
    <3>1. ASSUME NEW j \in 1..n, NEW k \in 1..n, j < k PROVE sessions[j] # sessions[k]
      <4>1. j \in 1..(k - 1)
        BY <1>1, <3>1
      <4> QED  BY <1>1, <2>2, <4>1
    <3>2. \A j, k \in 1..n : sessions[j] = sessions[k] => j = k
      <4>1. \A j, k \in 1..n : j # k => j < k \/ k < j
        BY <1>1
      <4> QED  BY <3>1, <4>1
    <3>3. ASSUME NEW k \in 1..n PROVE nonce(k) = held(sessions[k])
      <4>1. {j \in 1..k : sessions[j] = sessions[k]} = {k}
        BY <1>1, <3>2
      <4>2. {j \in DOMAIN sessions : sessions[j] = sessions[k]} = {k}
        BY <1>1, <3>2
      <4>3. before(k) = last(sessions[k])
        BY <4>1, <4>2 DEF before, last
      <4> QED  BY <4>3
    <3>4. \A k \in 1..n : sessions[k] \in signing
      BY <1>1, <2>2
    <3> HIDE DEF signing, list, w
    <3>5. \A k \in 1..n : [nonce |-> q[k], list |-> list, signable |-> w] \in shares
      <4> SUFFICES ASSUME NEW k \in 1..n
                   PROVE  [nonce |-> q[k], list |-> list, signable |-> w] \in shares
        OBVIOUS
      <4>1. q[k] = held(sessions[k]) /\ sessions[k] \in signing
        BY <1>7, <3>3, <3>4
      <4> HIDE DEF held, q
      <4> QED  BY <4>1
    <3>6. \A j, k \in 1..n : q[j].signer = q[k].signer => j = k
      BY <1>7, <3>2
    <3> HIDE DEF q, shares
    <3>7. Aggregates(list, shares, w)
      BY <1>1, <1>7, <3>5, <3>6, GivenOnce DEF list
    <3> QED  BY <1>13, <2>2, <3>7
  <2>3. PICK k \in 1..n : \E j \in 1..(k - 1) : sessions[j] = sessions[k]
    BY <1>1, <2>2
  <2>7. PICK j \in 1..(k - 1) : sessions[j] = sessions[k]
    BY <2>3
  <2> HIDE DEF lost, q
  <2>4. j \in 1..n /\ j # k /\ q[j].signer = q[k].signer
    BY <1>1, <1>7, <2>7
  <2>5. list \in Seq(Nonce) /\ Blamed(list, made')
    BY <1>1, <1>7, <2>4, GivenTwice
  <2> HIDE DEF list
  <2>6. CallInv(lost, made', tree)
    BY <1>11, <2>5, FS_EmptySet DEF CallInv
  <2> QED  BY <1>5, <1>9, <1>10, <2>1, <2>6, CallStep
<1> QED  BY <1>12, <1>13

LEMMA CallsInvNext == CallsInv /\ [FrostNext]_frostVars => CallsInv'
<1> SUFFICES ASSUME CallsInv, [FrostNext]_frostVars PROVE CallsInv'
  OBVIOUS
<1>1. NonceInv' /\ HeadsInv'
  BY NonceInvNext, HeadsInvNext DEF CallsInv
<1>2. ASSUME UNCHANGED frostVars PROVE CallsInv'
  BY <1>1, <1>2 DEF frostVars, CallsInv
<1> QED
  BY <1>1, <1>2, CallsInvOpen, CallsInvThresholdSign, CallsInvCommit, CallsInvDistribute,
     CallsInvSign, CallsInvAggregate, CallsInvLand, CallsInvAbandon, CallsInvReplicate, Zenon
  DEF FrostNext

\* An append fails only because a signer was listed twice or had committed anew, and is
\* refused only because the copy has grown; the order of the commitments is no reason.
THEOREM FailuresHaveReasons == FrostSpec => []FailureExplained
<1>1. CallsInv => FailureExplained
  <2> SUFFICES ASSUME CallsInv PROVE FailureExplained
    OBVIOUS
  <2>1. \A a \in Call : CallInv(call[a], made, tree)
    BY DEF CallsInv
  <2> QED  BY <2>1 DEF CallInv, Blamed, FailureExplained
<1> QED  BY <1>1, CallsInvInit, CallsInvNext, PTL DEF FrostSpec
-----------------------------------------------------------------------------
(***************************************************************************)
(* The two sides of a handshake end with one key exactly when they should, *)
(* for any lists of modes and whatever the network makes of the messages.  *)
(***************************************************************************)

\* A list has a mode in it just as often as its digest says.
LEMMA DigestHasModes ==
  ASSUME NEW list \in ModeLists, NEW m \in Mode
  PROVE  m \in ModesIn(list) <=> bindModes(list)[m] # 0
<1> DEFINE Places == {k \in DOMAIN list : list[k] = m}
<1>1. list \in Seq(STRING)
  BY ListsAssumption
<1>2. IsFiniteSet(DOMAIN list)
  BY <1>1, FS_Interval
<1>3. IsFiniteSet(Places)
  BY <1>2, FS_Subset
<1>4. Cardinality(Places) = 0 <=> Places = {}
  BY <1>3, FS_EmptySet
<1>5. bindModes(list)[m] = Cardinality(Places)
  BY DEF bindModes
<1> QED  BY <1>4, <1>5 DEF ModesIn

\* Lists with one digest have the same modes.
LEMMA DigestBinds ==
  ASSUME NEW l1 \in ModeLists, NEW l2 \in ModeLists,
         ModesIn(l1) \subseteq Mode, ModesIn(l2) \subseteq Mode,
         bindModes(l1) = bindModes(l2)
  PROVE  ModesIn(l1) = ModesIn(l2)
BY DigestHasModes

\* What the sides have done: the responder answered its offer, the initiator
\* finalized that handshake, and both with what they themselves had offered.
HandshakeInv ==
  /\ initiator # Nothing =>
       /\ initiator \in [modes : ModeLists, requireHybrid : BOOLEAN]
       /\ offer = [modes |-> initiator.modes, x25519pk |-> "i", mlkemPk |-> "i"]
  /\ responder # Nothing =>
       /\ initiator # Nothing /\ responder.offer \in Offers /\ responder.modes \in ModeLists
       /\ responder.requireHybrid \in BOOLEAN
       /\ responder.mode =
            selectMode(responder.modes, responder.offer.modes, responder.requireHybrid)
       /\ responder.sessionKey =
            ResponderKey(responder.offer, responder.modes, responder.mode)
       /\ responder.message = [modes |-> responder.modes, x25519pk |-> "r",
                               ciphertext |-> encapsulate(responder.offer.mlkemPk)]
  /\ final # Nothing =>
       /\ responder # Nothing /\ responder.mode # Nothing /\ final.message.modes \in ModeLists
       /\ final.mode =
            selectMode(initiator.modes, final.message.modes, initiator.requireHybrid)
       /\ final.sessionKey = InitiatorKey(final.message, final.mode)

LEMMA HandshakeInvInit == HsInit => HandshakeInv
BY DEF HsInit, HandshakeInv

LEMMA HandshakeInvNext == HandshakeInv /\ [HsNext]_hsVars => HandshakeInv'
<1> SUFFICES ASSUME HandshakeInv, [HsNext]_hsVars PROVE HandshakeInv'
  OBVIOUS
<1>1. ASSUME NEW modes \in ModeLists, NEW required \in BOOLEAN, initiate(modes, required)
      PROVE  HandshakeInv'
  BY <1>1 DEF initiate, HandshakeInv
<1>2. ASSUME NEW o \in Offers, NEW modes \in ModeLists, NEW required \in BOOLEAN,
             respond(o, modes, required)
      PROVE  HandshakeInv'
  BY <1>2 DEF respond, HandshakeInv
<1>3. ASSUME NEW message \in Messages, finalize(message)
      PROVE  HandshakeInv'
  BY <1>3 DEF finalize, HandshakeInv, Messages, InitiatorKey
<1>4. CASE UNCHANGED hsVars
  BY <1>4 DEF hsVars, HandshakeInv, InitiatorKey
<1> QED  BY <1>1, <1>2, <1>3, <1>4 DEF HsNext
-----------------------------------------------------------------------------
(* Negotiation.                                                            *)

\* A mode that was negotiated is the strongest common one, of lists that have
\* known modes only, and hybrid if that is required.
LEMMA SelectedMode ==
  ASSUME NEW mine, NEW theirs, NEW required \in BOOLEAN,
         selectMode(mine, theirs, required) # Nothing
  PROVE  /\ ModesIn(mine) \subseteq Mode /\ ModesIn(theirs) \subseteq Mode
         /\ Common(mine, theirs) # {}
         /\ selectMode(mine, theirs, required) = Strongest(Common(mine, theirs))
         /\ required => selectMode(mine, theirs, required) = "hybrid"
BY DEF selectMode, Strongest

\* And the other way round.
LEMMA SelectableMode ==
  ASSUME NEW mine, NEW theirs, NEW required \in BOOLEAN,
         ModesIn(mine) \subseteq Mode, ModesIn(theirs) \subseteq Mode,
         Common(mine, theirs) # {}, required => "hybrid" \in Common(mine, theirs)
  PROVE  selectMode(mine, theirs, required) = Strongest(Common(mine, theirs))
BY DEF selectMode

LEMMA CommonCommutes ==
  ASSUME NEW mine, NEW theirs PROVE Common(mine, theirs) = Common(theirs, mine)
BY DEF Common

LEMMA NoDowngradeHolds == HandshakeInv => NoDowngrade
<1> SUFFICES ASSUME HandshakeInv, SameKey
             PROVE  /\ final.mode = responder.mode
                    /\ final.mode = Strongest(Common(initiator.modes, responder.modes))
                    /\ initiator.requireHybrid \/ responder.requireHybrid
                         => final.mode = "hybrid"
  BY DEF NoDowngrade
<1>1. /\ final # Nothing /\ final.mode # Nothing /\ responder # Nothing
      /\ responder.mode # Nothing /\ initiator # Nothing
  BY DEF SameKey, Complete, HandshakeInv
<1>2. final.sessionKey = responder.sessionKey
  BY DEF SameKey
<1>3. /\ final.mode = responder.mode
      /\ bindModes(initiator.modes) = bindModes(responder.offer.modes)
      /\ bindModes(final.message.modes) = bindModes(responder.modes)
  BY <1>1, <1>2 DEF HandshakeInv, InitiatorKey, ResponderKey, deriveSessionKey
<1>4. /\ initiator.modes \in ModeLists /\ initiator.requireHybrid \in BOOLEAN
      /\ final.message.modes \in ModeLists
      /\ responder.modes \in ModeLists /\ responder.requireHybrid \in BOOLEAN
      /\ responder.offer.modes \in ModeLists
  BY <1>1 DEF HandshakeInv, Offers
<1>5. /\ ModesIn(initiator.modes) \subseteq Mode /\ ModesIn(final.message.modes) \subseteq Mode
      /\ final.mode = Strongest(Common(initiator.modes, final.message.modes))
      /\ initiator.requireHybrid => final.mode = "hybrid"
  BY <1>1, <1>4, SelectedMode DEF HandshakeInv
<1>6. /\ ModesIn(responder.modes) \subseteq Mode
      /\ responder.requireHybrid => responder.mode = "hybrid"
  BY <1>1, <1>4, SelectedMode DEF HandshakeInv
<1>7. ModesIn(final.message.modes) = ModesIn(responder.modes)
  BY <1>3, <1>4, <1>5, <1>6, DigestBinds
<1>8. Common(initiator.modes, final.message.modes) = Common(initiator.modes, responder.modes)
  BY <1>7 DEF Common
<1> QED  BY <1>3, <1>5, <1>6, <1>8

LEMMA HonestAgreeHolds == HandshakeInv => HonestAgree
<1> SUFFICES ASSUME HandshakeInv, final # Nothing, responder.offer = offer,
                    final.message = responder.message,
                    ~(/\ final.mode = Nothing /\ initiator.requireHybrid
                      /\ "hybrid" \notin Common(initiator.modes, responder.modes))
             PROVE  SameKey
  BY DEF HonestAgree
<1>1. initiator # Nothing /\ responder # Nothing /\ responder.mode # Nothing
  BY DEF HandshakeInv
<1>2. /\ initiator.requireHybrid \in BOOLEAN /\ responder.requireHybrid \in BOOLEAN
      /\ offer = [modes |-> initiator.modes, x25519pk |-> "i", mlkemPk |-> "i"]
      /\ final.message = [modes |-> responder.modes, x25519pk |-> "r",
                          ciphertext |-> encapsulate("i")]
  BY <1>1 DEF HandshakeInv
<1>3. responder.mode = selectMode(responder.modes, initiator.modes, responder.requireHybrid)
  BY <1>1, <1>2 DEF HandshakeInv
<1>4. /\ ModesIn(initiator.modes) \subseteq Mode /\ ModesIn(responder.modes) \subseteq Mode
      /\ Common(initiator.modes, responder.modes) # {}
      /\ responder.mode = Strongest(Common(initiator.modes, responder.modes))
  BY <1>1, <1>2, <1>3, SelectedMode, CommonCommutes
<1>5. final.mode = selectMode(initiator.modes, responder.modes, initiator.requireHybrid)
  BY <1>2 DEF HandshakeInv
<1>6. initiator.requireHybrid => "hybrid" \in Common(initiator.modes, responder.modes)
  BY <1>4, <1>5 DEF selectMode
<1>7. final.mode = responder.mode
  BY <1>2, <1>4, <1>5, <1>6, SelectableMode
<1>8. final.sessionKey = <<<<{"i", "r"}, encapsulate("i")>>, final.mode,
                           bindModes(initiator.modes), bindModes(responder.modes)>>
  BY <1>2 DEF HandshakeInv, InitiatorKey, deriveSessionKey, combineSecrets, x25519Dh,
              decapsulate, encapsulate
<1>9. responder.sessionKey = <<<<{"r", "i"}, encapsulate("i")>>, responder.mode,
                               bindModes(initiator.modes), bindModes(responder.modes)>>
  BY <1>1, <1>2 DEF HandshakeInv, ResponderKey, deriveSessionKey, combineSecrets, x25519Dh
<1>10. {"i", "r"} = {"r", "i"}
  OBVIOUS
<1> QED  BY <1>1, <1>7, <1>8, <1>9, <1>10 DEF SameKey, Complete

\* A handshake ends with one key on both sides only over the strongest mode that
\* both offered, and without interference always does (index.js:168-192, 247-266).
THEOREM HandshakeAgrees == HsSpec => []KeysAgree
<1>1. HandshakeInv => KeysAgree
  BY NoDowngradeHolds, HonestAgreeHolds DEF KeysAgree
<1> QED  BY <1>1, HandshakeInvInit, HandshakeInvNext, PTL DEF HsSpec
-----------------------------------------------------------------------------
(***************************************************************************)
(* Levels and keys cannot be mixed up, and a hybrid signature fails closed,*)
(* for any owners, any roots and however much is signed.                   *)
(***************************************************************************)

\* The lengths tell the levels apart.
LEMMA KemLengths ==
  /\ DOMAIN MLKEM = {"ML-KEM-512", "ML-KEM-768", "ML-KEM-1024"}
  /\ \A l, m \in DOMAIN MLKEM :
       /\ MLKEM[l].ciphertextBytes = MLKEM[m].ciphertextBytes => l = m
       /\ MLKEM[l].publicKeyBytes = MLKEM[m].publicKeyBytes => l = m
       /\ MLKEM[l].secretKeyBytes = MLKEM[m].secretKeyBytes => l = m
<1>1. DOMAIN MLKEM = {"ML-KEM-512", "ML-KEM-768", "ML-KEM-1024"}
  BY DEF MLKEM
<1>2. /\ MLKEM["ML-KEM-512"] = [publicKeyBytes |-> 800, secretKeyBytes |-> 1632, ciphertextBytes |-> 768]
      /\ MLKEM["ML-KEM-768"] = [publicKeyBytes |-> 1184, secretKeyBytes |-> 2400, ciphertextBytes |-> 1088]
      /\ MLKEM["ML-KEM-1024"] = [publicKeyBytes |-> 1568, secretKeyBytes |-> 3168, ciphertextBytes |-> 1568]
  BY DEF MLKEM
<1> QED  BY <1>1, <1>2

LEMMA DsaLengths ==
  /\ DOMAIN MLDSA = {"ML-DSA-44", "ML-DSA-65", "ML-DSA-87"}
  /\ MLDSA["ML-DSA-65"].signatureBytes = 3309
  /\ \A l, m \in DOMAIN MLDSA :
       /\ MLDSA[l].signatureBytes = MLDSA[m].signatureBytes => l = m
       /\ MLDSA[l].publicKeyBytes = MLDSA[m].publicKeyBytes => l = m
<1>1. DOMAIN MLDSA = {"ML-DSA-44", "ML-DSA-65", "ML-DSA-87"}
  BY DEF MLDSA
<1>2. /\ MLDSA["ML-DSA-44"] = [publicKeyBytes |-> 1312, secretKeyBytes |-> 2560, signatureBytes |-> 2420]
      /\ MLDSA["ML-DSA-65"] = [publicKeyBytes |-> 1952, secretKeyBytes |-> 4032, signatureBytes |-> 3309]
      /\ MLDSA["ML-DSA-87"] = [publicKeyBytes |-> 2592, secretKeyBytes |-> 4896, signatureBytes |-> 4627]
  BY DEF MLDSA
<1> QED  BY <1>1, <1>2

SignLevel == DOMAIN MLDSA \cup {"Ed25519"}
SignatureLength(level) ==
  IF level = "Ed25519" THEN Ed25519.signatureBytes ELSE MLDSA[level].signatureBytes

\* Everything made says of which level it is by its length.
MadeInv ==
  /\ \A c \in capsules : \E l \in DOMAIN MLKEM, o \in Owner :
       c = Buffer(MLKEM[l].ciphertextBytes, Key(l, o))
  /\ \A s \in signatures : \E l \in SignLevel, o \in Owner, root \in Root :
       s = Buffer(SignatureLength(l), Made(l, o, root))

PqInv == MadeInv /\ HybridFailsClosed /\ LevelsApart

\* A ciphertext opens with its own key, under its own level, and with no other.
LEMMA OpensExactly ==
  ASSUME MadeInv, NEW c \in capsules, NEW l \in DOMAIN MLKEM, NEW at \in DOMAIN MLKEM,
         NEW o \in Owner
  PROVE  Secret(c, KemSecret(at, o), l) = c.is <=> c.is = Key(at, o) /\ l = at
<1>1. PICK k \in DOMAIN MLKEM, p \in Owner : c = Buffer(MLKEM[k].ciphertextBytes, Key(k, p))
  BY DEF MadeInv
<1>2. c.length = MLKEM[k].ciphertextBytes /\ c.is = Key(k, p)
  BY <1>1 DEF Buffer
<1>3. c.is \notin {Junk, Thrown}
  BY <1>2, NamesAssumption DEF Key
<1>4. KemSecret(at, o).length = MLKEM[at].secretKeyBytes /\ KemSecret(at, o).is = Key(at, o)
  BY DEF KemSecret, Buffer
<1>5. CASE c.length = MLKEM[l].ciphertextBytes /\ KemSecret(at, o).length = MLKEM[l].secretKeyBytes
  <2>1. k = l /\ at = l
    BY <1>2, <1>4, <1>5, KemLengths
  <2> QED  BY <1>3, <1>4, <1>5, <2>1 DEF Secret
<1>6. CASE ~(c.length = MLKEM[l].ciphertextBytes /\ KemSecret(at, o).length = MLKEM[l].secretKeyBytes)
  <2>1. Secret(c, KemSecret(at, o), l) = Thrown
    BY <1>6 DEF Secret
  <2>2. c.is = Key(at, o) /\ l = at => k = l
    BY <1>2 DEF Key
  <2> QED  BY <1>2, <1>3, <1>4, <1>6, <2>1, <2>2
<1> QED  BY <1>5, <1>6

DsaAccepts(s, root, key, l) == mldsaVerify(s, root, key, l) = TRUE

\* A signature verifies with the key that made it, under its own level, and never else.
LEMMA VerifiesExactly ==
  ASSUME MadeInv, NEW s \in signatures, NEW root, NEW l \in DOMAIN MLDSA, NEW at \in DOMAIN MLDSA,
         NEW o \in Owner
  PROVE  DsaAccepts(s, root, DsaPublic(at, o), l) <=> s.is = Made(at, o, root) /\ l = at
<1>1. PICK k \in SignLevel, p \in Owner, r \in Root : s = Buffer(SignatureLength(k), Made(k, p, r))
  BY DEF MadeInv
<1>2. s.length = SignatureLength(k) /\ s.is = Made(k, p, r)
  BY <1>1 DEF Buffer
<1>3. /\ DsaPublic(at, o).length = MLDSA[at].publicKeyBytes /\ DsaPublic(at, o).is = Key(at, o)
      /\ Made(at, o, root) = [key |-> Key(at, o), root |-> root]
  BY DEF DsaPublic, Buffer, Made
<1>4. CASE s.length = MLDSA[l].signatureBytes /\ DsaPublic(at, o).length = MLDSA[l].publicKeyBytes
  <2>1. at = l
    <3>1. MLDSA[at].publicKeyBytes = MLDSA[l].publicKeyBytes
      BY <1>3, <1>4
    <3> QED  BY <3>1, DsaLengths
  <2>2. mldsaVerify(s, root, DsaPublic(at, o), l) <=> s.is = Made(at, o, root)
    BY <1>3, <1>4 DEF mldsaVerify
  <2> QED  BY <2>1, <1>3, <1>4 DEF mldsaVerify, DsaAccepts
<1>5. CASE ~(s.length = MLDSA[l].signatureBytes /\ DsaPublic(at, o).length = MLDSA[l].publicKeyBytes)
  <2>1. mldsaVerify(s, root, DsaPublic(at, o), l) = Thrown
    BY <1>5 DEF mldsaVerify
  <2>2. Thrown # TRUE
    BY NamesAssumption
  <2>3. s.is = Made(at, o, root) /\ l = at => k = l
    BY <1>2 DEF Made, Key
  <2>4. k = l => s.length = MLDSA[l].signatureBytes
    <3>1. "Ed25519" \notin DOMAIN MLDSA
      BY DsaLengths
    <3> QED  BY <1>2, <3>1 DEF SignatureLength
  <2> QED  BY <1>3, <1>5, <2>1, <2>2, <2>3, <2>4 DEF DsaAccepts
<1> QED  BY <1>4, <1>5

\* A hybrid signature is accepted just when both halves are genuine.
LEMMA HybridExactly ==
  ASSUME MadeInv, NEW root \in Root, NEW first \in First, NEW second \in Second,
         NEW publics \in [ed : EdKeys, mldsa : DsaKeys], NEW halves,
         halves = [ed |-> first, mldsa |-> second, length |-> first.length + second.length]
  PROVE  hybridVerify(root, halves, publics) <=>
           /\ GenuineHalf(first, publics.ed, "Ed25519", root)
           /\ GenuineHalf(second, publics.mldsa, HYBRID_DSA, root)
<1>1. halves.ed = first /\ halves.mldsa = second /\ halves.length = first.length + second.length
  OBVIOUS
<1>2. ASSUME NEW s \in signatures
      PROVE  \E l \in SignLevel, o \in Owner, r \in Root :
               /\ s.length = SignatureLength(l) /\ s.is = [key |-> Key(l, o), root |-> r]
               /\ s.is.key.level = l
  <2>1. PICK l \in SignLevel, o \in Owner, r \in Root : s = Buffer(SignatureLength(l), Made(l, o, r))
    BY <1>2 DEF MadeInv
  <2>2. s.length = SignatureLength(l) /\ s.is = [key |-> Key(l, o), root |-> r]
    BY <2>1 DEF Buffer, Made
  <2>3. s.is.key.level = l
    BY <2>2 DEF Key
  <2> QED  BY <2>2, <2>3
<1>3. \A l \in SignLevel, o \in Owner : Junk # [key |-> Key(l, o), root |-> root]
  BY NamesAssumption DEF Key, SignLevel
<1>4. /\ Ed25519.signatureBytes = 64 /\ Ed25519.publicKeyBytes = 32
      /\ MLDSA[HYBRID_DSA].signatureBytes = 3309 /\ HYBRID_SIG_BYTES = 3373
      /\ HYBRID_DSA \in DOMAIN MLDSA /\ HYBRID_DSA = "ML-DSA-65"
  BY DsaLengths DEF Ed25519, HYBRID_DSA, HYBRID_SIG_BYTES
<1>5. edVerify(root, first, publics.ed) /\ publics.ed # Missing
        <=> GenuineHalf(first, publics.ed, "Ed25519", root)
  <2>1. CASE publics.ed = Missing
    BY <2>1 DEF GenuineHalf
  <2>2. CASE publics.ed # Missing
    <3>1. PICK o \in Owner : publics.ed = EdPublic(o)
      BY <2>2 DEF EdKeys
    <3>2. publics.ed.length = 32 /\ publics.ed.is = Key("Ed25519", o)
      BY <1>4, <3>1 DEF EdPublic, Buffer
    <3>3. publics.ed.is.level = "Ed25519" /\ publics.ed.is.owner = o
      BY <3>2 DEF Key
    <3>4. GenuineHalf(first, publics.ed, "Ed25519", root) <=>
            first \in signatures /\ first.is = [key |-> Key("Ed25519", o), root |-> root]
      BY <2>2, <3>3 DEF GenuineHalf, Made
    <3>5. edVerify(root, first, publics.ed) <=>
            first.length = 64 /\ first.is = [key |-> Key("Ed25519", o), root |-> root]
      BY <1>4, <3>2 DEF edVerify
    <3>6. CASE first \in signatures
      <4>1. first.is.key.level = "Ed25519"
        <5>1. PICK l \in SignLevel, p \in Owner, r \in Root :
                /\ first.length = SignatureLength(l) /\ first.is.key.level = l
                /\ first.is = [key |-> Key(l, p), root |-> r]
          BY <1>2, <3>6
        <5>2. CASE first = Buffer(Ed25519.signatureBytes, Junk)
          <6>1. first.is = Junk
            BY <5>2 DEF Buffer
          <6>2. [key |-> Key(l, p), root |-> r] # Junk
            BY NamesAssumption DEF Key, SignLevel
          <6> QED  BY <5>1, <6>1, <6>2
        <5> QED  BY <5>2 DEF First
      <4>2. first.length = 64
        <5>1. PICK l \in SignLevel : first.length = SignatureLength(l) /\ first.is.key.level = l
          BY <1>2, <3>6
        <5> QED  BY <1>4, <4>1, <5>1 DEF SignatureLength
      <4> QED  BY <2>2, <3>4, <3>5, <3>6, <4>2
    <3>7. CASE first \notin signatures
      <4>1. first.is = Junk
        BY <3>7 DEF First, Buffer
      <4>2. "Ed25519" \in SignLevel
        BY DEF SignLevel
      <4> QED  BY <1>3, <3>4, <3>5, <3>7, <4>1, <4>2
    <3> QED  BY <3>6, <3>7
  <2> QED  BY <2>1, <2>2
<1>6. /\ DsaAccepts(second, root, publics.mldsa, HYBRID_DSA) /\ publics.mldsa # Missing
        <=> GenuineHalf(second, publics.mldsa, HYBRID_DSA, root)
      /\ GenuineHalf(second, publics.mldsa, HYBRID_DSA, root) => second.length = 3309
  <2>1. CASE publics.mldsa = Missing
    BY <2>1 DEF GenuineHalf
  <2>2. CASE publics.mldsa # Missing
    <3>1. PICK at \in {"ML-DSA-65", "ML-DSA-87"}, o \in Owner : publics.mldsa = DsaPublic(at, o)
      BY <2>2 DEF DsaKeys
    <3>2. publics.mldsa.is = Key(at, o) /\ at \in DOMAIN MLDSA
      BY <3>1, DsaLengths DEF DsaPublic, Buffer
    <3>3. publics.mldsa.is.level = at /\ publics.mldsa.is.owner = o
      BY <3>2 DEF Key
    <3>4. GenuineHalf(second, publics.mldsa, HYBRID_DSA, root) <=>
            second \in signatures /\ second.is = Made(HYBRID_DSA, o, root) /\ at = HYBRID_DSA
      BY <2>2, <3>3 DEF GenuineHalf
    <3>5. CASE second \in signatures
      <4>1. DsaAccepts(second, root, publics.mldsa, HYBRID_DSA)
              <=> second.is = Made(at, o, root) /\ HYBRID_DSA = at
        <5>1. HYBRID_DSA \in DOMAIN MLDSA
          BY <1>4
        <5>2. DsaAccepts(second, root, DsaPublic(at, o), HYBRID_DSA)
                <=> second.is = Made(at, o, root) /\ HYBRID_DSA = at
          <6>1. at \in DOMAIN MLDSA /\ second \in signatures
            BY <3>2, <3>5
          <6> HIDE DEF HYBRID_DSA, MadeInv
          <6> QED  BY <5>1, <6>1, VerifiesExactly, Zenon
        <5> QED  BY <3>1, <5>2
      <4>2. second.is = Made(HYBRID_DSA, o, root) => second.length = 3309
        <5>1. PICK l \in SignLevel, p \in Owner, r \in Root :
                second.length = SignatureLength(l) /\ second.is.key.level = l
          BY <1>2, <3>5
        <5>2. second.is = Made(HYBRID_DSA, o, root) => second.is.key.level = HYBRID_DSA
          BY DEF Made, Key
        <5> QED  BY <1>4, <5>1, <5>2 DEF SignatureLength
      <4> QED  BY <2>2, <3>4, <3>5, <4>1, <4>2
    <3>6. CASE second \notin signatures
      <4>1. second.is = Junk
        BY <3>6 DEF Second, Buffer
      <4>2. [key |-> publics.mldsa.is, root |-> root] # Junk
        BY <1>3, <3>2 DEF SignLevel
      <4>3. ~DsaAccepts(second, root, publics.mldsa, HYBRID_DSA)
        <5>1. \/ mldsaVerify(second, root, publics.mldsa, HYBRID_DSA) = Thrown
              \/ mldsaVerify(second, root, publics.mldsa, HYBRID_DSA) = FALSE
          BY <4>1, <4>2 DEF mldsaVerify
        <5> QED  BY <5>1, NamesAssumption DEF DsaAccepts
      <4>4. ~GenuineHalf(second, publics.mldsa, HYBRID_DSA, root)
        BY <3>6 DEF GenuineHalf
      <4> QED  BY <4>3, <4>4
    <3> QED  BY <3>5, <3>6
  <2> QED  BY <2>1, <2>2
<1>7. edVerify(root, first, publics.ed) => first.length = 64
  BY <1>4 DEF edVerify
<1> QED  BY <1>1, <1>4, <1>5, <1>6, <1>7 DEF hybridVerify, DsaAccepts

LEMMA PqStep == ASSUME PqInv, [PqNext]_pqVars PROVE PqInv'
<1>1. MadeInv /\ HybridFailsClosed /\ LevelsApart
  BY DEF PqInv
<1>2. ASSUME UNCHANGED asked PROVE HybridFailsClosed' /\ LevelsApart'
  BY <1>1, <1>2 DEF HybridFailsClosed, LevelsApart
<1>3. ASSUME UNCHANGED <<capsules, signatures>> PROVE MadeInv'
  BY <1>1, <1>3 DEF MadeInv
<1>4. ASSUME NEW l \in DOMAIN MLKEM, NEW at \in DOMAIN MLKEM, NEW o \in Owner,
             kemEncapsulate(l, at, o)
      PROVE  PqInv'
  <2>1. /\ MLKEM[at].publicKeyBytes = MLKEM[l].publicKeyBytes
        /\ capsules' = capsules \cup {Buffer(MLKEM[l].ciphertextBytes, Key(at, o))}
        /\ UNCHANGED <<signatures, asked>>
    BY <1>4 DEF kemEncapsulate, KemPublic, Buffer
  <2>2. l = at
    BY <2>1, KemLengths
  <2>3. MadeInv'
    BY <1>1, <2>1, <2>2 DEF MadeInv
  <2> QED  BY <1>2, <2>1, <2>3 DEF PqInv
<1>5. ASSUME NEW c \in capsules, NEW l \in DOMAIN MLKEM, NEW at \in DOMAIN MLKEM, NEW o \in Owner,
             kemDecapsulate(c, l, at, o)
      PROVE  PqInv'
  <2> DEFINE genuine == c.is = Key(at, o) /\ l = at
             answer == Secret(c, KemSecret(at, o), l) = c.is
  <2>1. /\ asked' = [op |-> "decapsulate", genuine |-> genuine, answer |-> answer]
        /\ UNCHANGED <<capsules, signatures>>
    BY <1>5 DEF kemDecapsulate
  <2>2. answer <=> genuine
    BY <1>1, OpensExactly
  <2>3. answer \in BOOLEAN /\ genuine \in BOOLEAN
    OBVIOUS
  <2> HIDE DEF answer, genuine
  <2>4. /\ asked'.op = "decapsulate" /\ asked'.answer = answer /\ asked'.genuine = genuine
    BY <2>1
  <2>5. LevelsApart'
    BY <2>2, <2>3, <2>4 DEF LevelsApart
  <2> QED  BY <1>3, <2>1, <2>4, <2>5 DEF PqInv, HybridFailsClosed
<1>6. ASSUME NEW l \in DOMAIN MLDSA, NEW o \in Owner, NEW root \in Root, sign(l, o, root)
      PROVE  PqInv'
  <2>1. /\ signatures' = signatures \cup {Buffer(MLDSA[l].signatureBytes, Made(l, o, root))}
        /\ UNCHANGED <<capsules, asked>>
    BY <1>6 DEF sign
  <2>2. l \in SignLevel /\ SignatureLength(l) = MLDSA[l].signatureBytes
    BY DsaLengths DEF SignLevel, SignatureLength
  <2>3. MadeInv'
    BY <1>1, <2>1, <2>2 DEF MadeInv
  <2> QED  BY <1>2, <2>1, <2>3 DEF PqInv
<1>7. ASSUME NEW s \in signatures, NEW root \in Root, NEW l \in DOMAIN MLDSA,
             NEW at \in DOMAIN MLDSA, NEW o \in Owner, verify(s, root, l, at, o)
      PROVE  PqInv'
  <2> DEFINE genuine == s.is = Made(at, o, root) /\ l = at
             answer == mldsaVerify(s, root, DsaPublic(at, o), l)
  <2>1. /\ asked' = [op |-> "verify", genuine |-> genuine, answer |-> answer]
        /\ UNCHANGED <<capsules, signatures>>
    BY <1>7 DEF verify
  <2>2. (answer = TRUE) <=> genuine
    <3>1. DsaAccepts(s, root, DsaPublic(at, o), l) <=> genuine
      BY <1>1, VerifiesExactly
    <3> HIDE DEF genuine
    <3> QED  BY <3>1, Zenon DEF DsaAccepts
  <2>3. genuine \in BOOLEAN
    OBVIOUS
  <2> HIDE DEF answer, genuine
  <2>4. /\ asked'.op = "verify" /\ asked'.answer = answer /\ asked'.genuine = genuine
    BY <2>1
  <2>5. LevelsApart'
    BY <2>2, <2>3, <2>4 DEF LevelsApart
  <2> QED  BY <1>3, <2>1, <2>4, <2>5 DEF PqInv, HybridFailsClosed
<1>8. ASSUME NEW o \in Owner, NEW root \in Root, hybridSign(o, root)
      PROVE  PqInv'
  <2>1. /\ signatures' = signatures \cup
             {Buffer(Ed25519.signatureBytes, Made("Ed25519", o, root)),
              Buffer(MLDSA[HYBRID_DSA].signatureBytes, Made(HYBRID_DSA, o, root))}
        /\ UNCHANGED <<capsules, asked>>
    BY <1>8 DEF hybridSign
  <2>2. /\ "Ed25519" \in SignLevel /\ SignatureLength("Ed25519") = Ed25519.signatureBytes
        /\ HYBRID_DSA \in SignLevel
        /\ SignatureLength(HYBRID_DSA) = MLDSA[HYBRID_DSA].signatureBytes
    BY DsaLengths DEF SignLevel, SignatureLength, HYBRID_DSA
  <2> HIDE DEF HYBRID_DSA
  <2>3. MadeInv'
    BY <1>1, <2>1, <2>2 DEF MadeInv
  <2> QED  BY <1>2, <2>1, <2>3 DEF PqInv
<1>9. ASSUME NEW root \in Root, NEW first \in First, NEW second \in Second,
             NEW publics \in [ed : EdKeys, mldsa : DsaKeys],
             verifyHybrid(root, first, second, publics)
      PROVE  PqInv'
  <2> DEFINE halves == [ed |-> first, mldsa |-> second, length |-> first.length + second.length]
             genuine == /\ GenuineHalf(first, publics.ed, "Ed25519", root)
                        /\ GenuineHalf(second, publics.mldsa, HYBRID_DSA, root)
             answer == hybridVerify(root, halves, publics)
  <2>1. /\ asked' = [op |-> "hybrid", genuine |-> genuine, answer |-> answer]
        /\ UNCHANGED <<capsules, signatures>>
    BY <1>9 DEF verifyHybrid
  <2>2. answer <=> genuine
    BY <1>1, HybridExactly
  <2>3. answer \in BOOLEAN
    BY Zenon DEF hybridVerify
  <2>4. genuine \in BOOLEAN
    OBVIOUS
  <2> HIDE DEF answer, genuine
  <2>5. asked'.op = "hybrid" /\ asked'.answer = answer /\ asked'.genuine = genuine
    BY <2>1
  <2>6. HybridFailsClosed'
    BY <2>2, <2>3, <2>4, <2>5 DEF HybridFailsClosed
  <2> QED  BY <1>3, <2>1, <2>5, <2>6 DEF PqInv, LevelsApart
<1>10. CASE UNCHANGED pqVars
  BY <1>2, <1>3, <1>10 DEF pqVars, PqInv
<1> QED  BY <1>4, <1>5, <1>6, <1>7, <1>8, <1>9, <1>10 DEF PqNext

THEOREM PqInvariant == PqSpec => []PqInv
<1>1. PqInit => PqInv
  BY DEF PqInit, PqInv, MadeInv, HybridFailsClosed, LevelsApart, NotAsked
<1> QED  BY <1>1, PqStep, PTL DEF PqSpec

\* hybridSigner.verify is never fooled: whatever halves, of whatever signatures of
\* whatever levels, and whatever keys it is given, it answers, and with true exactly
\* if the owners of both keys signed this very root (index.js:304-322).
THEOREM HybridNeverFooled == PqSpec => []HybridFailsClosed
BY PqInvariant, PTL DEF PqInv

\* What is made at one level of security is never accepted at another: a signature
\* verifies, and a ciphertext opens, with the right key at the right level and
\* nothing else (index.js:123-133, 181-191).
THEOREM LevelsNeverMix == PqSpec => []LevelsApart
BY PqInvariant, PTL DEF PqInv
=============================================================================
