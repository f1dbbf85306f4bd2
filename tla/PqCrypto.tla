------------------------------ MODULE PqCrypto ------------------------------
(***************************************************************************)
(* labs/bare-pqcrypto/index.js: key encapsulation and signatures of three  *)
(* levels each, and the hybrid signature of a root, an Ed25519 half and an *)
(* ML-DSA half that must both verify.  Callers may mix up levels, keys and *)
(* halves and cut signatures short.                                        *)
(*                                                                         *)
(* A buffer is its length and what is in it.  The primitives are ideal: a  *)
(* signature verifies exactly with the key that made it over that message, *)
(* a secret is that of the encapsulation exactly for the key it is for.    *)
(***************************************************************************)
EXTENDS Naturals, FiniteSets

CONSTANTS
  Owner,       \* holders of key pairs
  Root,        \* what is signed
  MaxMade,     \* bound: no more is made once that much has been
  Junk,        \* what no operation made
  Missing, Thrown

\* FIPS 203 and 204: the lengths of keys, ciphertexts and signatures.
MLKEM == [l \in {"ML-KEM-512", "ML-KEM-768", "ML-KEM-1024"} |->
  CASE l = "ML-KEM-512" -> [publicKeyBytes |-> 800, secretKeyBytes |-> 1632, ciphertextBytes |-> 768]
    [] l = "ML-KEM-768" -> [publicKeyBytes |-> 1184, secretKeyBytes |-> 2400, ciphertextBytes |-> 1088]
    [] l = "ML-KEM-1024" -> [publicKeyBytes |-> 1568, secretKeyBytes |-> 3168, ciphertextBytes |-> 1568]]

MLDSA == [l \in {"ML-DSA-44", "ML-DSA-65", "ML-DSA-87"} |->
  CASE l = "ML-DSA-44" -> [publicKeyBytes |-> 1312, secretKeyBytes |-> 2560, signatureBytes |-> 2420]
    [] l = "ML-DSA-65" -> [publicKeyBytes |-> 1952, secretKeyBytes |-> 4032, signatureBytes |-> 3309]
    [] l = "ML-DSA-87" -> [publicKeyBytes |-> 2592, secretKeyBytes |-> 4896, signatureBytes |-> 4627]]

Ed25519 == [publicKeyBytes |-> 32, signatureBytes |-> 64]
HYBRID_DSA == "ML-DSA-65"
HYBRID_SIG_BYTES == Ed25519.signatureBytes + MLDSA[HYBRID_DSA].signatureBytes

\* What no operation made is no key and no signature; an exception is no answer.
ASSUME NamesAssumption ==
  /\ {Junk, Thrown} \cap [level : DOMAIN MLKEM, owner : Owner] = {}
  /\ Junk \notin [key : [level : DOMAIN MLDSA \cup {"Ed25519"}, owner : Owner], root : Root]
  /\ Thrown \notin BOOLEAN

VARIABLES
  capsules,    \* ciphertexts made
  signatures,  \* signatures made: of one level, or Ed25519
  asked        \* the last question, its answer, and whether it is about the same things

pqVars == <<capsules, signatures, asked>>

Buffer(length, is) == [length |-> length, is |-> is]
NotAsked == [op |-> "none", genuine |-> FALSE, answer |-> FALSE]

PqInit == capsules = {} /\ signatures = {} /\ asked = NotAsked
-----------------------------------------------------------------------------
(* mlkem and mldsa.                                                        *)

Room == Cardinality(capsules) + Cardinality(signatures) < MaxMade

Key(level, owner) == [level |-> level, owner |-> owner]
KemPublic(level, o) == Buffer(MLKEM[level].publicKeyBytes, Key(level, o))
KemSecret(level, o) == Buffer(MLKEM[level].secretKeyBytes, Key(level, o))
DsaPublic(level, o) == Buffer(MLDSA[level].publicKeyBytes, Key(level, o))

\* Encapsulate against a key of level at, the caller naming level l.
kemEncapsulate(l, at, o) ==
  /\ Room /\ KemPublic(at, o).length = MLKEM[l].publicKeyBytes
  /\ capsules' = capsules \cup {Buffer(MLKEM[l].ciphertextBytes, Key(at, o))}
  /\ UNCHANGED <<signatures, asked>>

\* The secret of a ciphertext is named by the key that it is for.
Secret(ciphertext, secretKey, l) ==
  IF ciphertext.length # MLKEM[l].ciphertextBytes
     \/ secretKey.length # MLKEM[l].secretKeyBytes THEN Thrown
  ELSE IF ciphertext.is = secretKey.is THEN ciphertext.is
  ELSE Junk

\* Decapsulate with a key of level at, the caller naming level l.
kemDecapsulate(ciphertext, l, at, o) ==
  /\ asked' = [op |-> "decapsulate", genuine |-> ciphertext.is = Key(at, o) /\ l = at,
               answer |-> Secret(ciphertext, KemSecret(at, o), l) = ciphertext.is]
  /\ UNCHANGED <<capsules, signatures>>

Made(level, o, root) == [key |-> Key(level, o), root |-> root]

sign(level, o, root) ==
  /\ Room
  /\ signatures' = signatures \cup
       {Buffer(MLDSA[level].signatureBytes, Made(level, o, root))}
  /\ UNCHANGED <<capsules, asked>>

\* Mutant: the level is not looked at, any length that can be a signature will do.
Bug_mldsaVerify(signature, root, publicKey, l) ==
  IF signature.length < Ed25519.signatureBytes THEN Thrown
  ELSE signature.is # Junk /\ signature.is.root = root
         /\ signature.is.key.owner = publicKey.is.owner

mldsaVerify(signature, root, publicKey, l) ==
  IF signature.length # MLDSA[l].signatureBytes
     \/ publicKey.length # MLDSA[l].publicKeyBytes THEN Thrown
  ELSE signature.is = [key |-> publicKey.is, root |-> root]

verify(signature, root, l, at, o) ==
  /\ asked' = [op |-> "verify",
               genuine |-> signature.is = Made(at, o, root) /\ l = at,
               answer |-> mldsaVerify(signature, root, DsaPublic(at, o), l)]
  /\ UNCHANGED <<capsules, signatures>>
-----------------------------------------------------------------------------
(* hybridSigner.                                                           *)

EdPublic(o) == Buffer(Ed25519.publicKeyBytes, Key("Ed25519", o))

edVerify(root, signature, publicKey) ==
  /\ signature.length = Ed25519.signatureBytes
  /\ publicKey.length = Ed25519.publicKeyBytes
  /\ signature.is = [key |-> publicKey.is, root |-> root]

\* The two halves, both over the same root.
hybridSign(o, root) ==
  /\ Room
  /\ signatures' = signatures \cup
       {Buffer(Ed25519.signatureBytes, Made("Ed25519", o, root)),
        Buffer(MLDSA[HYBRID_DSA].signatureBytes, Made(HYBRID_DSA, o, root))}
  /\ UNCHANGED <<capsules, asked>>

\* Mutant: what the backend throws goes through.
Bug_hybridVerify(root, halves, publics) ==
  IF halves.length # HYBRID_SIG_BYTES \/ Missing \in {publics.ed, publics.mldsa} THEN FALSE
  ELSE IF ~edVerify(root, halves.ed, publics.ed) THEN FALSE
  ELSE mldsaVerify(halves.mldsa, root, publics.mldsa, HYBRID_DSA)

\* A signature is cut into its halves after 64 bytes.
hybridVerify(root, halves, publics) ==
  /\ halves.length = HYBRID_SIG_BYTES
  /\ Missing \notin {publics.ed, publics.mldsa}
  /\ edVerify(root, halves.ed, publics.ed)
  /\ mldsaVerify(halves.mldsa, root, publics.mldsa, HYBRID_DSA) = TRUE

\* What a caller may hand to verify: any first and second half, of any
\* signatures made or of none, maybe cut short.
First == {s \in signatures : s.is.key.level = "Ed25519"}
             \cup {Buffer(Ed25519.signatureBytes, Junk)}
Second == {s \in signatures : s.is.key.level = HYBRID_DSA}
             \cup {Buffer(MLDSA[HYBRID_DSA].signatureBytes, Junk), Buffer(0, Junk)}

\* A key may be missing, or be of another level.
EdKeys == {EdPublic(o) : o \in Owner} \cup {Missing}
DsaKeys == {DsaPublic(l, o) : l \in {"ML-DSA-65", "ML-DSA-87"}, o \in Owner} \cup {Missing}

GenuineHalf(half, key, level, root) ==
  key # Missing /\ half \in signatures /\ half.is = Made(level, key.is.owner, root)
    /\ key.is.level = level

verifyHybrid(root, first, second, publics) ==
  LET halves == [ed |-> first, mldsa |-> second, length |-> first.length + second.length]
  IN /\ asked' = [op |-> "hybrid",
                  genuine |-> /\ GenuineHalf(first, publics.ed, "Ed25519", root)
                              /\ GenuineHalf(second, publics.mldsa, HYBRID_DSA, root),
                  answer |-> hybridVerify(root, halves, publics)]
     /\ UNCHANGED <<capsules, signatures>>

PqNext ==
  \/ \E l, at \in DOMAIN MLKEM, o \in Owner :
       \/ kemEncapsulate(l, at, o)
       \/ \E c \in capsules : kemDecapsulate(c, l, at, o)
  \/ \E o \in Owner, root \in Root :
       \/ \E l \in DOMAIN MLDSA : sign(l, o, root)
       \/ \E s \in signatures, l, at \in DOMAIN MLDSA : verify(s, root, l, at, o)
       \/ hybridSign(o, root)
  \/ \E root \in Root, first \in First, second \in Second,
        publics \in [ed : EdKeys, mldsa : DsaKeys] : verifyHybrid(root, first, second, publics)

PqSpec == PqInit /\ [][PqNext]_pqVars
-----------------------------------------------------------------------------
(* Properties.                                                             *)

\* A hybrid signature is answered with true or false, never an exception, and
\* with true exactly if the owners of both keys made its two halves over this very
\* root, whatever signatures the halves were taken from (index.js:304-322).
HybridFailsClosed ==
  asked.op = "hybrid" => asked.answer \in BOOLEAN /\ asked.answer = asked.genuine

\* Nothing made at one level is accepted at another: only the right key at the
\* right level verifies a signature or opens a ciphertext (index.js:123-133, 181-191).
LevelsApart ==
  asked.op \in {"verify", "decapsulate"} => (asked.answer = TRUE <=> asked.genuine)
=============================================================================
