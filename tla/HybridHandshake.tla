--------------------------- MODULE HybridHandshake ---------------------------
(***************************************************************************)
(* The handshake of labs/pq-secretstream/index.js: initiate makes an       *)
(* offer, respond answers it, finalize takes the answer, and both sides    *)
(* derive a session key.  The network may change, mix up and repeat what   *)
(* it carries, above all the lists of offered modes.                       *)
(*                                                                         *)
(* Primitives are ideal: a key is its name, secrets and digests are equal  *)
(* only if all that went into them is, and a ciphertext that was not made  *)
(* for the key yields a secret of its own (implicit rejection).            *)
(***************************************************************************)
EXTENDS Naturals, Sequences, FiniteSets

CONSTANTS
  ModeLists,     \* the lists of modes either side may be given
  Strange,       \* keys and ciphertexts of other sessions
  Nothing

Mode == {"classical", "hybrid"}

ASSUME StrangeAssumption == {"i", "r", Nothing} \cap Strange = {}
ASSUME ListsAssumption == ModeLists \subseteq Seq(STRING)
ASSUME NothingAssumption == Nothing \notin Mode

VARIABLES
  initiator,     \* state of initiate, or Nothing
  offer,         \* the offer it made
  responder,     \* what respond was given and returned, or Nothing before it
  final          \* what finalize was given and returned, or Nothing before it

hsVars == <<initiator, offer, responder, final>>

HsInit ==
  /\ initiator = Nothing /\ offer = Nothing /\ responder = Nothing /\ final = Nothing
-----------------------------------------------------------------------------
(* Negotiation.                                                            *)

ModesIn(list) == {list[k] : k \in DOMAIN list}
Common(mine, theirs) == ModesIn(mine) \cap ModesIn(theirs)

Strongest(modes) == IF "hybrid" \in modes THEN "hybrid" ELSE "classical"

\* The negotiated mode, or Nothing if selectMode throws.
selectMode(mine, theirs, requireHybrid) ==
  IF ~(ModesIn(mine) \cup ModesIn(theirs) \subseteq Mode) THEN Nothing
  ELSE IF Common(mine, theirs) = {} THEN Nothing
  ELSE IF requireHybrid /\ "hybrid" \notin Common(mine, theirs) THEN Nothing
  ELSE Strongest(Common(mine, theirs))

\* Mutant: only the preferred mode of a list is bound.
Bug_bindModes(list) == {list[k] : k \in DOMAIN list \cap {1}}

\* The digest of an offered list: sorted, so its order is not in it.
bindModes(list) == [m \in Mode |-> Cardinality({k \in DOMAIN list : list[k] = m})]
-----------------------------------------------------------------------------
(* Secrets.                                                                *)

\* Both ends of an exchange between two X25519 keys have the same secret.
x25519Dh(mine, theirs) == {mine, theirs}

\* The secret of a ciphertext, for the holder of a key.
decapsulate(ciphertext, key) ==
  IF ciphertext.to = key THEN ciphertext
  ELSE [to |-> key, by |-> ciphertext.by, rejected |-> ciphertext.to]

encapsulate(key) == [to |-> key, by |-> "r", rejected |-> Nothing]

combineSecrets(classical, pq) == <<classical, pq>>

\* Both digests go in, the initiator's first.
deriveSessionKey(secret, mode, initiatorDigest, responderDigest) ==
  <<secret, mode, initiatorDigest, responderDigest>>
-----------------------------------------------------------------------------
(* The three steps.                                                        *)

initiate(modes, requireHybrid) ==
  /\ initiator = Nothing
  /\ initiator' = [modes |-> modes, requireHybrid |-> requireHybrid]
  /\ offer' = [modes |-> modes, x25519pk |-> "i", mlkemPk |-> "i"]
  /\ UNCHANGED <<responder, final>>

\* What may come of an offer: any modes, and keys of this or another session.
Offers == [modes : ModeLists, x25519pk : {"i"} \cup Strange, mlkemPk : {"i"} \cup Strange]

ResponderKey(o, modes, mode) ==
  deriveSessionKey(combineSecrets(x25519Dh("r", o.x25519pk), encapsulate(o.mlkemPk)),
                   mode, bindModes(o.modes), bindModes(modes))

\* A mode of Nothing stands for an exception.
respond(o, modes, requireHybrid) ==
  LET mode == selectMode(modes, o.modes, requireHybrid)
  IN /\ initiator # Nothing /\ responder = Nothing
     /\ responder' = [offer |-> o, modes |-> modes, requireHybrid |-> requireHybrid,
                      mode |-> mode, sessionKey |-> ResponderKey(o, modes, mode),
                      message |-> [modes |-> modes, x25519pk |-> "r",
                                   ciphertext |-> encapsulate(o.mlkemPk)]]
     /\ UNCHANGED <<initiator, offer, final>>

\* What may come of an answer.
Ciphertexts == [to : {"i"} \cup Strange, by : {"r"} \cup Strange, rejected : {Nothing}]
Messages == [modes : ModeLists, x25519pk : {"r"} \cup Strange, ciphertext : Ciphertexts]

InitiatorKey(message, mode) ==
  deriveSessionKey(
    combineSecrets(x25519Dh("i", message.x25519pk), decapsulate(message.ciphertext, "i")),
    mode, bindModes(initiator.modes), bindModes(message.modes))

finalize(message) ==
  LET mode == selectMode(initiator.modes, message.modes, initiator.requireHybrid)
  IN /\ responder # Nothing /\ responder.mode # Nothing /\ final = Nothing
     /\ final' = [message |-> message, mode |-> mode,
                  sessionKey |-> InitiatorKey(message, mode)]
     /\ UNCHANGED <<initiator, offer, responder>>

HsNext ==
  \/ \E modes \in ModeLists, required \in BOOLEAN : initiate(modes, required)
  \/ \E o \in Offers, modes \in ModeLists, required \in BOOLEAN : respond(o, modes, required)
  \/ \E message \in Messages : finalize(message)

HsSpec == HsInit /\ [][HsNext]_hsVars
-----------------------------------------------------------------------------
(* Properties.                                                             *)

Complete == final # Nothing /\ final.mode # Nothing
SameKey == Complete /\ final.sessionKey = responder.sessionKey

\* If both sides hold one key they agree on the mode, it is the strongest that
\* both really offered, and no side gets less than it requires: whatever the
\* network did to the lists, a downgrade shows (index.js:168-192).
NoDowngrade ==
  SameKey =>
    /\ final.mode = responder.mode
    /\ final.mode = Strongest(Common(initiator.modes, responder.modes))
    /\ initiator.requireHybrid \/ responder.requireHybrid => final.mode = "hybrid"

\* A handshake that nobody touched ends with one key on both sides, unless the
\* initiator requires a mode that the responder does not offer (index.js:247-266).
HonestAgree ==
  final # Nothing /\ responder.offer = offer /\ final.message = responder.message =>
    \/ SameKey
    \/ final.mode = Nothing /\ initiator.requireHybrid
         /\ "hybrid" \notin Common(initiator.modes, responder.modes)

\* Tampered with or not, the two sides end with one key exactly when they should:
\* never over a mode that was forced on them, and always if nobody interfered.
KeysAgree == NoDowngrade /\ HonestAgree
=============================================================================
