------------------------------ MODULE FrostLog ------------------------------
(***************************************************************************)
(* labs/frost-multiwriter/index.js: a core whose every head is signed by   *)
(* any Threshold of a fixed set of writers.  An append (a call) shows the  *)
(* tree to the signers, collects their commitments and then their shares,  *)
(* aggregates them and hands blocks and signature to hypercore.  The two   *)
(* rounds are either messages, in any order and repeated, or the           *)
(* in-process thresholdSign.                                               *)
(*                                                                         *)
(* A commitment stands for the nonce it commits to.  The curve is ideal:   *)
(* shares aggregate exactly if each answers its entry of one list over one *)
(* message, and hypercore accepts a tree exactly with a signature of it.   *)
(***************************************************************************)
EXTENDS Naturals, FiniteSets, SequencesExt

CONSTANTS
  Signers,      \* n, the sessions are 1..n
  Threshold,    \* t
  Replica,      \* copies of the core, each of which may append
  Block, Call,
  MaxCommits,   \* bound: commits of all sessions
  MaxLength,    \* bound: blocks of the core
  NoNonce

\* validateConfig.
ASSUME ConfigAssumption ==
  Signers \in Nat /\ Threshold \in Nat /\ Threshold >= 2 /\ Signers >= Threshold
ASSUME NonceBoundAssumption == MaxCommits \in Nat /\ MaxLength \in Nat

Signer == 1..Signers
Nonce == [signer : Signer, number : Nat]
Tree == Seq(Block)
Share == [nonce : Nonce, list : Seq(Nonce), signable : Tree]
Signature == [signable : Tree, signers : SUBSET Signer]

ASSUME NoNonceAssumption == NoNonce \notin Nonce

VARIABLES
  nonces,   \* nonces[s]: the nonce session s holds, or NoNonce
  made,     \* made[s]: how often session s has committed
  call,     \* the appends, see NoCall
  tree, head,   \* of every copy: its blocks, and the signature of its head
  used      \* history: every share ever made

frostVars == <<nonces, made, call, tree, head, used>>

NoCall ==
  [stage |-> "idle", core |-> NoNonce, signable |-> <<>>, received |-> {},
   list |-> <<>>, shares |-> {}, signature |-> NoNonce]

FrostInit ==
  /\ nonces = [s \in Signer |-> NoNonce] /\ made = [s \in Signer |-> 0]
  /\ call = [a \in Call |-> NoCall]
  /\ tree = [c \in Replica |-> <<>>] /\ head = [c \in Replica |-> NoNonce]
  /\ used = {}
-----------------------------------------------------------------------------
(* SignSession.                                                            *)

Commits == FoldFunction(+, 0, made)

Fresh(s) == [signer |-> s, number |-> made[s] + 1]

\* Mutant: commitments are taken in the order they came.
Bug_toCommitmentList(commitments) == commitments

\* The commitments up to the k-th, by signer and, of one signer, as they came.
upTo(commitments, k) ==
  {j \in DOMAIN commitments :
     \/ commitments[j].signer < commitments[k].signer
     \/ commitments[j].signer = commitments[k].signer /\ j <= k}

toCommitmentList(commitments) ==
  [r \in DOMAIN commitments |->
     commitments[CHOOSE k \in DOMAIN commitments : Cardinality(upTo(commitments, k)) = r]]

\* Round 1: session s answers call a, maybe again; a nonce it held is replaced.
Commit(s, a) ==
  /\ call[a].stage \in {"commit", "sign"} /\ Commits < MaxCommits
  /\ nonces' = [nonces EXCEPT ![s] = Fresh(s)]
  /\ made' = [made EXCEPT ![s] = @ + 1]
  /\ call' = [call EXCEPT ![a].received = @ \cup {Fresh(s)}]
  /\ UNCHANGED <<tree, head, used>>

ShareOf(s, commitments, message) ==
  [nonce |-> nonces[s], list |-> toCommitmentList(commitments), signable |-> message]

\* Mutant: the nonces outlive the share.
Bug_Sign(s, a, commitments) ==
  /\ call[a].stage = "sign" /\ nonces[s] # NoNonce /\ Len(commitments) >= Threshold
  /\ call' = [call EXCEPT ![a].shares = @ \cup {ShareOf(s, commitments, call[a].signable)}]
  /\ used' = used \cup {ShareOf(s, commitments, call[a].signable)}
  /\ UNCHANGED <<nonces, made, tree, head>>

\* Round 2: the commitments reach session s in some order.  Without nonces or
\* below the threshold it throws and nothing changes.
Sign(s, a, commitments) ==
  /\ call[a].stage = "sign" /\ nonces[s] # NoNonce /\ Len(commitments) >= Threshold
  /\ call' = [call EXCEPT ![a].shares = @ \cup {ShareOf(s, commitments, call[a].signable)}]
  /\ used' = used \cup {ShareOf(s, commitments, call[a].signable)}
  /\ nonces' = [nonces EXCEPT ![s] = NoNonce]
  /\ UNCHANGED <<made, tree, head>>
-----------------------------------------------------------------------------
(* createCore, and the caller of the two rounds.                           *)

\* signableFor: the tree with the block of call a at its end.
signableFor(c, b) == Append(tree[c], b)

Open(a, c, b) ==
  /\ call[a].stage = "idle" /\ Len(tree[c]) < MaxLength
  /\ call' = [call EXCEPT ![a] = [NoCall EXCEPT !.stage = "commit", !.core = c,
                                               !.signable = signableFor(c, b)]]
  /\ UNCHANGED <<nonces, made, tree, head, used>>

\* The commitments of the first round that the second one is about.
Distribute(a, chosen) ==
  /\ call[a].stage = "commit" /\ chosen \subseteq call[a].received
  /\ Cardinality(chosen) >= Threshold
  /\ call' = [call EXCEPT ![a].stage = "sign",
                          ![a].list = toCommitmentList(SetToSeq(chosen))]
  /\ UNCHANGED <<nonces, made, tree, head, used>>

SignersOf(list) == {list[k].signer : k \in DOMAIN list}

\* Shares aggregate: one of each signer of the list, over its own entry.
Aggregates(list, shares, message) ==
  /\ Cardinality(SignersOf(list)) = Len(list) /\ Len(list) >= Threshold
  /\ \A k \in DOMAIN list :
       [nonce |-> list[k], list |-> list, signable |-> message] \in shares

\* All signers of the list have answered: aggregate makes a signature or throws.
Aggregate(a) ==
  /\ call[a].stage = "sign"
  /\ SignersOf(call[a].list) \subseteq {u.nonce.signer : u \in call[a].shares}
  /\ call' = IF Aggregates(call[a].list, call[a].shares, call[a].signable)
             THEN [call EXCEPT ![a].stage = "signed", ![a].shares = {},
                     ![a].signature = [signable |-> call[a].signable,
                                       signers |-> SignersOf(call[a].list)]]
             ELSE [call EXCEPT ![a].stage = "failed", ![a].shares = {}]
  /\ UNCHANGED <<nonces, made, tree, head, used>>

\* thresholdSign: both rounds at once.  A session that is given twice commits
\* twice, and throws when it is to sign for the second time.
ThresholdSign(a, c, b, sessions) ==
  LET nonce(k) == [signer |-> sessions[k],
                   number |-> made[sessions[k]]
                     + Cardinality({j \in 1..k : sessions[j] = sessions[k]})]
      last(s) == Cardinality({j \in DOMAIN sessions : sessions[j] = s})
      list == toCommitmentList([k \in DOMAIN sessions |-> nonce(k)])
      repeated == {k \in DOMAIN sessions : \E j \in 1..(k - 1) : sessions[j] = sessions[k]}
      signing == {sessions[k] : k \in {l \in DOMAIN sessions : \A r \in repeated : l < r}}
      held(s) == [signer |-> s, number |-> made[s] + last(s)]
      shares == {[nonce |-> held(s), list |-> list, signable |-> signableFor(c, b)] :
                   s \in signing}
      done == [NoCall EXCEPT !.core = c, !.signable = signableFor(c, b), !.list = list]
  IN /\ call[a].stage = "idle" /\ Len(tree[c]) < MaxLength
     /\ Len(sessions) >= Threshold
     /\ Commits + Len(sessions) <= MaxCommits
     /\ made' = [s \in Signer |-> made[s] + last(s)]
     /\ nonces' = [s \in Signer |-> IF s \in signing THEN NoNonce
                                    ELSE IF last(s) > 0 THEN held(s) ELSE nonces[s]]
     /\ used' = used \cup shares
     /\ call' = [call EXCEPT ![a] =
                   IF repeated = {} /\ Aggregates(list, shares, signableFor(c, b))
                   THEN [done EXCEPT !.stage = "signed",
                           !.signature = [signable |-> signableFor(c, b),
                                          signers |-> SignersOf(list)]]
                   ELSE [done EXCEPT !.stage = "failed"]]
     /\ UNCHANGED <<tree, head>>

\* Mutant: the manifest allows patches, so a signature of a shorter tree will do.
Bug_Accepts(signature, blocks) == IsPrefix(signature.signable, blocks)

\* The stock verifier, for a manifest of one signer, quorum one and no patches.
Accepts(signature, blocks) == signature.signable = blocks

\* core.append with the signature, on the copy as it is by now.
Land(a) ==
  LET c == call[a].core
      blocks == Append(tree[c], Last(call[a].signable))
  IN /\ call[a].stage = "signed" /\ Len(tree[c]) < MaxLength
     /\ IF Accepts(call[a].signature, blocks)
        THEN /\ tree' = [tree EXCEPT ![c] = blocks]
             /\ head' = [head EXCEPT ![c] = call[a].signature]
             /\ call' = [call EXCEPT ![a] = [NoCall EXCEPT !.stage = "landed"]]
        ELSE /\ call' = [call EXCEPT ![a].stage = "refused"]
             /\ UNCHANGED <<tree, head>>
     /\ UNCHANGED <<nonces, made, used>>

\* The caller goes away.
Abandon(a) ==
  /\ call[a].stage \in {"commit", "sign", "signed"}
  /\ call' = [call EXCEPT ![a] = [NoCall EXCEPT !.stage = "abandoned"]]
  /\ UNCHANGED <<nonces, made, tree, head, used>>

\* A copy takes the longer tree of another that it agrees with.
Replicate(c, d) ==
  /\ Len(tree[c]) > Len(tree[d]) /\ IsPrefix(tree[d], tree[c])
  /\ Accepts(head[c], tree[c])
  /\ tree' = [tree EXCEPT ![d] = tree[c]] /\ head' = [head EXCEPT ![d] = head[c]]
  /\ UNCHANGED <<nonces, made, call, used>>

FrostNext ==
  \/ \E a \in Call, c \in Replica, b \in Block :
       \/ Open(a, c, b)
       \/ \E s \in TupleOf(Signer, Threshold) : ThresholdSign(a, c, b, s)
  \/ \E a \in Call :
       \/ \E s \in Signer : Commit(s, a)
       \/ \E chosen \in SUBSET call[a].received : Distribute(a, chosen)
       \/ \E s \in Signer, l \in SetToSeqs(ToSet(call[a].list)) : Sign(s, a, l)
       \/ Aggregate(a) \/ Land(a) \/ Abandon(a)
  \/ \E c, d \in Replica : Replicate(c, d)

FrostSpec == FrostInit /\ [][FrostNext]_frostVars
-----------------------------------------------------------------------------
(* Properties.                                                             *)

\* No nonce ever serves two different shares, however commits, signings and
\* appends overlap: two would give the key share away (index.js:122-149).
NonceUsedOnce == \A u, v \in used : u.nonce = v.nonce => u = v

\* The head of every copy is signed by at least Threshold writers, each of whom
\* made a share for exactly the tree the copy holds, also when appends overlap
\* on one copy or are repeated (index.js:233-238, 262-267).
HeadsSigned ==
  \A c \in Replica : tree[c] # <<>> =>
    /\ Cardinality(head[c].signers) >= Threshold
    /\ \A s \in head[c].signers :
         \E u \in used : u.nonce.signer = s /\ u.signable = tree[c]

\* An append fails only for a reason: a signer was listed twice or had committed
\* anew before it signed, or the copy has grown since the tree was signed; the
\* order in which commitments reach the signers is none (index.js:48-60).
FailureExplained ==
  \A a \in Call :
    /\ call[a].stage = "failed" =>
         LET list == call[a].list
         IN  \E k \in DOMAIN list :
               \/ made[list[k].signer] > list[k].number
               \/ \E j \in DOMAIN list : j # k /\ list[j].signer = list[k].signer
    /\ call[a].stage = "refused" =>
         Len(tree[call[a].core]) >= Len(call[a].signable)
=============================================================================
