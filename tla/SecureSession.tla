--------------------------- MODULE SecureSession ---------------------------
(***************************************************************************)
(* One filedrop connection below the transfer (apps/filedrop/protocol.js): *)
(* frames cut out of a byte stream (writeMsg, MessageReader), the CPace    *)
(* exchange that gates the session (runCPace, and CPace of                 *)
(* labs/hyperbeam-pake) and the sealed channel after it (SecretChannel).   *)
(*                                                                         *)
(* Each side runs one async function: the handshake, then its script of    *)
(* sends and receives.  The socket carries units (groups of bytes) and     *)
(* hands them over in pieces that ignore frame boundaries.                 *)
(*                                                                         *)
(* Data.  A CPace message y * g is its scalar (one per side) and the       *)
(* passphrase of g; the shared point is the two scalars and the generator; *)
(* hashes are injective.  A frame's body is a sequence of numbered units.  *)
(***************************************************************************)
EXTENDS Naturals, Sequences, FiniteSets

CONSTANTS
  Pass,        \* passphrases
  Script,      \* Script[s]: what s does after the handshake, a sequence of
               \* [op : {"send", "recv"}, type, size]
  Type,        \* message types of the scripts
  HighWater,   \* units a socket buffers before write returns false
  None

Side == {"sender", "receiver"}
Peer(s) == IF s = "sender" THEN "receiver" ELSE "sender"

Op == [op : {"send", "recv"}, type : Type, size : Nat \ {0}]

ASSUME ScriptAssumption == Script \in [Side -> Seq(Op)]
ASSUME HighWaterAssumption == HighWater \in Nat
ASSUME TypeAssumption == Type \cap {"PAKE", "CONFIRM", "ENC"} = {}

\* CPace messages and keys; before finish there is neither.
Msg == [scalar : Side, generator : Pass]
Isks == [point : [scalars : SUBSET Side, generator : Pass], transcript : SUBSET Msg]

ASSUME NoneAssumption == None \notin Msg \cup Isks

VARIABLES
  pass,        \* the passphrase each side was given
  lasting,     \* TRUE: this connection does not die of itself
  pc,          \* pc[s]: the step of its program that s is at
  st,          \* "run", "drain" (in writeMsg), "wait" (in read), or over
  key,         \* the ISK, after finish
  remote,      \* the peer's CPace message, after finish
  tx, rx,      \* counters of the two nonces
  out,         \* out[s]: units s has written that its peer has not been given
  alive,       \* the connection
  buffered, queue, ended,   \* MessageReader
  closed,      \* closed[s]: the socket of s has emitted close (or end)
  sent, got    \* history: bodies written and bodies read, in order

given == <<pass, lasting>>
channel == <<key, remote, tx, rx>>
reader == <<buffered, queue, ended>>
vars == <<given, pc, st, channel, out, alive, reader, closed, sent, got>>
-----------------------------------------------------------------------------
(* Frames and units.                                                       *)

HeaderSize == 2

\* A frame on the wire: a header that says how long the body is, the body.
Body(f) == [i \in 1..f.size |-> [frame |-> f, unit |-> i]]
Wire(f) == [i \in 1..HeaderSize |-> [len |-> f.size]] \o Body(f)

Drop(q, n) == SubSeq(q, n + 1, Len(q))

\* Mutant: a frame is only seen once a byte of the next one is there.
Bug_WholeLate(b) == Len(b) > HeaderSize /\ Len(b) > HeaderSize + b[1].len

\* The buffer starts with a whole frame.
Whole(b) == Len(b) >= HeaderSize /\ Len(b) >= HeaderSize + b[1].len

First(b) == SubSeq(b, HeaderSize + 1, HeaderSize + b[1].len)
Rest(b) == Drop(b, HeaderSize + b[1].len)

\* The frames a buffer holds, in order, and what is left of it (_push).
Pull(buf) ==
  LET pull[n \in 0..Len(buf)] ==
        IF n = 0 THEN [frames |-> <<>>, rest |-> buf]
        ELSE LET p == pull[n - 1]
             IN  IF Whole(p.rest)
                 THEN [frames |-> Append(p.frames, First(p.rest)),
                       rest |-> Rest(p.rest)]
                 ELSE p
  IN pull[Len(buf)]
-----------------------------------------------------------------------------
(* CPace.                                                                  *)

Message(s) == [scalar |-> s, generator |-> pass[s]]

\* Mutant: the generator does not depend on the passphrase.
Bug_IskGenerator(s, y) == [point |-> {s, y.scalar}, transcript |-> {s, y.scalar}]

\* finish: the shared point s computes from the peer's message y, hashed with
\* the two messages in an order that does not depend on the side.
Isk(s, y) ==
  [point |-> [scalars |-> {s, y.scalar}, generator |-> y.generator],
   transcript |-> {Message(s), y}]

\* finish keeps the key and the message it came from.
Derive(s, y) ==
  /\ key' = [key EXCEPT ![s] = Isk(s, y)]
  /\ remote' = [remote EXCEPT ![s] = y]

\* _confirmTag: the MAC of the messages, its maker's first.
Tag(k, own, other) == [key |-> k, own |-> own, other |-> other]

\* Mutant: the result of verifyConfirm is ignored.
Bug_Verified(s, tag) == TRUE

\* verifyConfirm: the tag is the one the peer makes if it holds the same key
\* and saw the same messages.
Verified(s, tag) == tag = Tag(key[s], remote[s], Message(s))
-----------------------------------------------------------------------------
(* Programs.                                                               *)

Handshake == << [op |-> "send", type |-> "PAKE", size |-> 1],
                [op |-> "recv", type |-> "PAKE", size |-> 1],
                [op |-> "send", type |-> "CONFIRM", size |-> 1],
                [op |-> "recv", type |-> "CONFIRM", size |-> 1] >>

Program(s) == Handshake \o Script[s]
Step(s) == Program(s)[pc[s]]
AtStep(s, op) == st[s] = "run" /\ pc[s] <= Len(Program(s)) /\ Step(s).op = op
Confirmed(s) == pc[s] > Len(Handshake)

\* Nonces: 1 towards the receiver, 2 towards the sender, and a counter.
TxNonce(s) == [dir |-> IF s = "sender" THEN 1 ELSE 2, count |-> tx[s]]
RxNonce(s) == [dir |-> IF s = "sender" THEN 2 ELSE 1, count |-> rx[s]]

\* The frame that s sends at its step: in clear, or sealed.
Outgoing(s) ==
  CASE Step(s).type = "PAKE" ->
         [type |-> "PAKE", size |-> 1, data |-> Message(s)]
    [] Step(s).type = "CONFIRM" ->
         [type |-> "CONFIRM", size |-> 1,
          data |-> Tag(key[s], Message(s), remote[s])]
    [] OTHER ->
         [type |-> "ENC", size |-> Step(s).size,
          data |-> [key |-> key[s], nonce |-> TxNonce(s), inner |-> Step(s).type]]

\* The body is the frame expected at the step of s, and passes its check:
\* verifyConfirm, or the AEAD and the inner type.
Accepts(s, body) ==
  /\ body # <<>> /\ body = Body(body[1].frame)
  /\ LET f == body[1].frame
     IN  CASE Step(s).type = "PAKE" -> f.type = "PAKE"
           [] Step(s).type = "CONFIRM" ->
                f.type = "CONFIRM" /\ Verified(s, f.data)
           [] OTHER ->
                /\ f.type = "ENC"
                /\ f.data.key = key[s] /\ f.data.nonce = RxNonce(s)
                /\ f.data.inner = Step(s).type

Init ==
  /\ pass \in [Side -> Pass] /\ lasting \in BOOLEAN
  /\ pc = [s \in Side |-> 1] /\ st = [s \in Side |-> "run"]
  /\ key = [s \in Side |-> None] /\ remote = [s \in Side |-> None]
  /\ tx = [s \in Side |-> 0] /\ rx = [s \in Side |-> 0]
  /\ out = [s \in Side |-> <<>>] /\ alive = TRUE
  /\ buffered = [s \in Side |-> <<>>] /\ queue = [s \in Side |-> <<>>]
  /\ ended = [s \in Side |-> FALSE] /\ closed = [s \in Side |-> FALSE]
  /\ sent = [s \in Side |-> <<>>] /\ got = [s \in Side |-> <<>>]
-----------------------------------------------------------------------------
(* The async function of side s.                                           *)

\* Mutant: the nonce of a sealed frame is not advanced.
Bug_Bump(n, s) == n

\* send advances its nonce for every frame it seals, before it writes.
Bump(n, s) == IF Confirmed(s) THEN [n EXCEPT ![s] = @ + 1] ELSE n

\* Seal if the handshake is over, then writeMsg.  On a closed socket the frame
\* is lost, and what write returns is up to the socket.
Send(s) ==
  /\ AtStep(s, "send")
  /\ tx' = Bump(tx, s)
  /\ sent' = [sent EXCEPT ![s] = Append(@, Body(Outgoing(s)))]
  /\ out' = IF alive THEN [out EXCEPT ![s] = @ \o Wire(Outgoing(s))] ELSE out
  /\ \/ /\ closed[s] \/ Len(out'[s]) <= HighWater
        /\ pc' = [pc EXCEPT ![s] = @ + 1] /\ st' = st
     \/ /\ closed[s] \/ Len(out'[s]) > HighWater
        /\ st' = [st EXCEPT ![s] = "drain"] /\ pc' = pc
  /\ UNCHANGED <<given, key, remote, rx, alive, reader, closed, got>>

\* writeMsg resolves when the socket drains.
Drained(s) ==
  /\ st[s] = "drain" /\ ~closed[s] /\ out[s] = <<>>
  /\ st' = [st EXCEPT ![s] = "run"]
  /\ pc' = [pc EXCEPT ![s] = @ + 1]
  /\ UNCHANGED <<given, channel, out, alive, reader, closed, sent, got>>

\* read finds nothing queued and waits.
Wait(s) ==
  /\ AtStep(s, "recv") /\ queue[s] = <<>> /\ ~ended[s]
  /\ st' = [st EXCEPT ![s] = "wait"]
  /\ UNCHANGED <<given, pc, channel, out, alive, reader, closed, sent, got>>

\* read takes a frame, ended or not, and the frame is what is expected:
\* finish derives the key from a PAKE message, recv advances its nonce.
Receive(s) ==
  /\ AtStep(s, "recv") /\ queue[s] # <<>>
  /\ Accepts(s, Head(queue[s]))
  /\ got' = [got EXCEPT ![s] = Append(@, Head(queue[s]))]
  /\ queue' = [queue EXCEPT ![s] = Tail(@)]
  /\ pc' = [pc EXCEPT ![s] = @ + 1]
  /\ LET f == Head(queue[s])[1].frame
     IN  IF f.type = "PAKE"
         THEN Derive(s, f.data) ELSE UNCHANGED <<key, remote>>
  /\ rx' = IF Confirmed(s) THEN [rx EXCEPT ![s] = @ + 1] ELSE rx
  /\ UNCHANGED <<given, st, tx, out, alive, buffered, ended, closed, sent>>

\* The catch block of the session: the frame is refused, or there is none and
\* there will be none.  The listeners are removed and the socket destroyed.
Fail(s) ==
  /\ AtStep(s, "recv")
  /\ \/ queue[s] # <<>> /\ ~Accepts(s, Head(queue[s]))
     \/ queue[s] = <<>> /\ ended[s]
  /\ st' = [st EXCEPT ![s] = "failed"]
  /\ closed' = [closed EXCEPT ![s] = TRUE]
  /\ alive' = FALSE
  /\ \E n \in 0..Len(out[s]) : out' = [out EXCEPT ![s] = SubSeq(@, 1, n)]
  /\ got' = IF queue[s] = <<>> THEN got
            ELSE [got EXCEPT ![s] = Append(@, Head(queue[s]))]
  /\ UNCHANGED <<given, pc, channel, reader, sent>>

\* The program is over: reader.destroy and sock.end, which flushes.
Finish(s) ==
  /\ st[s] = "run" /\ pc[s] > Len(Program(s))
  /\ st' = [st EXCEPT ![s] = "done"]
  /\ UNCHANGED <<given, pc, channel, out, alive, reader, closed, sent, got>>

Run(s) == Send(s) \/ Wait(s) \/ Receive(s) \/ Fail(s) \/ Finish(s)
-----------------------------------------------------------------------------
(* Events of the socket of side s.                                         *)

Over(s) == st[s] \in {"done", "failed"}

\* Mutant: later frames are queued ahead of earlier ones.
Bug_Enqueue(q, frames) == frames \o q

\* _push queues frames behind those not yet read.
Enqueue(q, frames) == q \o frames

\* 'data': some units, wherever they are cut.  A waiting read is resolved with
\* the first whole frame, which it finds at the head of the queue.
Data(s) ==
  /\ ~closed[s] /\ out[Peer(s)] # <<>>
  /\ \E n \in 1..Len(out[Peer(s)]) :
       /\ out' = [out EXCEPT ![Peer(s)] = Drop(@, n)]
       /\ IF Over(s) THEN UNCHANGED <<buffered, queue, st>>
          ELSE LET p == Pull(buffered[s] \o SubSeq(out[Peer(s)], 1, n))
               IN  /\ buffered' = [buffered EXCEPT ![s] = p.rest]
                   /\ queue' = [queue EXCEPT ![s] = Enqueue(@, p.frames)]
                   /\ st' = IF st[s] = "wait" /\ p.frames # <<>>
                            THEN [st EXCEPT ![s] = "run"] ELSE st
  /\ UNCHANGED <<given, pc, channel, alive, ended, closed, sent, got>>

\* Mutant: a pending write is not rejected.
Bug_Close(s) ==
  /\ ~closed[s]
  /\ ~alive \/ (st[Peer(s)] = "done" /\ out[Peer(s)] = <<>>)
  /\ closed' = [closed EXCEPT ![s] = TRUE]
  /\ alive' = FALSE
  /\ ended' = IF Over(s) THEN ended ELSE [ended EXCEPT ![s] = TRUE]
  /\ st' = IF st[s] = "wait" THEN [st EXCEPT ![s] = "failed"] ELSE st
  /\ UNCHANGED <<given, pc, channel, out, buffered, queue, sent, got>>

\* 'close', or 'end' after the peer's last unit: _finish rejects the waiting
\* read, and a pending write is rejected.
Close(s) ==
  /\ ~closed[s]
  /\ ~alive \/ (st[Peer(s)] = "done" /\ out[Peer(s)] = <<>>)
  /\ closed' = [closed EXCEPT ![s] = TRUE]
  /\ alive' = FALSE
  /\ ended' = IF Over(s) THEN ended ELSE [ended EXCEPT ![s] = TRUE]
  /\ st' = IF st[s] \in {"wait", "drain"} THEN [st EXCEPT ![s] = "failed"] ELSE st
  /\ UNCHANGED <<given, pc, channel, out, buffered, queue, sent, got>>

\* The connection dies; a suffix of what it carried is lost.
Cut ==
  /\ ~lasting /\ alive
  /\ alive' = FALSE
  /\ \E i \in 0..Len(out["sender"]), j \in 0..Len(out["receiver"]) :
       out' = [s \in Side |-> SubSeq(out[s], 1, IF s = "sender" THEN i ELSE j)]
  /\ UNCHANGED <<given, pc, st, channel, reader, closed, sent, got>>

Next ==
  \/ \E s \in Side : Run(s) \/ Drained(s) \/ Data(s) \/ Close(s)
  \/ Cut

Spec == Init /\ [][Next]_vars

\* Promises, drains and events are run by the event loops of the two nodes.
Fairness ==
  \A s \in Side : /\ WF_vars(Run(s)) /\ WF_vars(Drained(s))
                  /\ WF_vars(Data(s)) /\ WF_vars(Close(s))
FairSpec == Spec /\ Fairness
-----------------------------------------------------------------------------
(* Properties.                                                             *)

IsPrefix(p, q) == Len(p) <= Len(q) /\ p = SubSeq(q, 1, Len(p))
SameKey == key["sender"] # None /\ key["sender"] = key["receiver"]
SamePass == pass["sender"] = pass["receiver"]
Sealed(s) == {sent[s][i][1].frame : i \in {j \in 1..Len(sent[s]) :
                                           sent[s][j][1].frame.type = "ENC"}}

\* The variables hold values of their types.
TypeOK ==
  /\ pass \in [Side -> Pass] /\ lasting \in BOOLEAN
  /\ pc \in [Side -> Nat] /\ \A s \in Side : pc[s] \in 1..(Len(Program(s)) + 1)
  /\ st \in [Side -> {"run", "drain", "wait", "done", "failed"}]
  /\ tx \in [Side -> Nat] /\ rx \in [Side -> Nat]
  /\ alive \in BOOLEAN /\ ended \in [Side -> BOOLEAN] /\ closed \in [Side -> BOOLEAN]
  /\ \A s \in Side : key[s] # None <=> remote[s] # None

\* However the bytes are cut, a side reads the frames its peer wrote: whole,
\* once, in order (protocol.js:59-61 and 81-93).
FramesIntact == \A s \in Side : IsPrefix(got[s], sent[Peer(s)])

\* No sealed frame, so no byte of a file, is written unless both sides hold
\* one key, derived from one passphrase (protocol.js:126-129, index.js:3-8).
AuthGate == \A s \in Side : Sealed(s) # {} => SamePass /\ SameKey

\* No two sealed frames of a session share a key and a nonce
\* (protocol.js:154-155).
NonceOnce ==
  /\ \A s \in Side :
       Cardinality(Sealed(s)) = Cardinality({f.data.nonce : f \in Sealed(s)})
  /\ \A f \in Sealed("sender"), g \in Sealed("receiver") :
       f.data.nonce # g.data.nonce
  /\ \A s \in Side : Confirmed(s) => Cardinality(Sealed(s)) = tx[s]

\* On a connection that lasts, sides of one passphrase finish their scripts
\* (protocol.js:126-142).
SamePassCompletes ==
  SamePass /\ lasting => <>[](\A s \in Side : st[s] = "done")

\* On a connection that lasts, different passphrases end the session on both
\* sides, and neither waits for the other forever (protocol.js:126-129).
OtherPassFails ==
  ~SamePass /\ lasting => <>[](\A s \in Side : st[s] = "failed")

\* A read or a write that waits when the connection dies is released
\* (protocol.js:45-56 and 95-106).
CutReleases ==
  \A s \in Side :
    (~alive /\ ~closed[s] /\ st[s] \in {"wait", "drain"})
      ~> st[s] \notin {"wait", "drain"}
=============================================================================
