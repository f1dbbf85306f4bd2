------------------------------ MODULE Filedrop ------------------------------
(***************************************************************************)
(* A filedrop transfer between Node peers (apps/filedrop/index.js).        *)
(*                                                                         *)
(* Senders (createSender) stay listening and serve every connection with   *)
(* a session of its own.  One receiver (receive) at a time works on one    *)
(* output directory and one file name; its user calls receive again after  *)
(* it failed, was killed or returned.  Connections are ordered and lose    *)
(* nothing until they die; the receiving process can be killed between any *)
(* two effects on the disk, where only the .part file, the sidecar and the *)
(* final file survive.                                                     *)
(*                                                                         *)
(* Data.  A file is its sequence of chunks; its Merkle root is the file    *)
(* itself (no collisions).  Offsets count chunks, so state.bytes and       *)
(* state.verified are one number.  A short last chunk fills a chunk slot.  *)
(***************************************************************************)
EXTENDS Naturals, Sequences

CONSTANTS
  Sender,      \* sender processes; a restarted sender is another one
  Chunk,       \* chunk payloads
  Content,     \* Content[s]: the chunks of the file s offers
  Zero,        \* the bytes truncateSync extends a file with
  Torn,        \* what a write cut short by a kill leaves
  None,        \* absent: no file, no sidecar, no record in memory
  Window,      \* bound: unread frames before writeMsg waits for drain
  MaxConn,     \* bound: connections, so calls of receive
  Faulty,      \* connections that may die, or see the receiver killed
  Killable     \* program points at which the receiver may be killed

Slot == Chunk \cup {Zero, Torn}

ASSUME ContentAssumption ==
  Content \in [Sender -> {f \in Seq(Chunk) : f # <<>>}]
ASSUME BoundAssumption == Window \in Nat \ {0} /\ MaxConn \in Nat
ASSUME FaultAssumption == Faulty \subseteq 1..MaxConn

VARIABLES
  nconn,       \* connections made; the receiver works on the last one
  peer,        \* peer[c]: the sender at the other end of connection c
  up,          \* up[c]: connection c is alive
  s2r, r2s,    \* frames in flight on c, either way
  spc, snext,  \* the sender's session on c: where it is, its chunk index
  finished,    \* finished[s]: the receipt that resolved sender s
  rpc,         \* where the receiver is
  mem,         \* the receiver's `state` and manifest, in memory
  frame,       \* the CHUNK frame the receiver has verified, not yet written
  part, sidecar, final,   \* the disk: .part, .filedrop.json, the file
  landed,      \* history: contents ever renamed into place
  issued       \* history: issued[c], the receipt signed on connection c

wire == <<up, s2r, r2s>>
session == <<spc, snext, finished>>
disk == <<part, sidecar, final>>
receiver == <<rpc, mem, frame>>
vars == <<nconn, peer, wire, session, receiver, disk, landed, issued>>

Conn == 1..MaxConn

RPoint == {"idle", "manifest", "load", "heal", "resume", "chunks", "write",
           "save", "verify", "rename", "unlink", "receipt"}
SPoint == {"none", "manifest", "resume", "chunks", "receipt", "settled",
           "failed"}
Waiting == {"manifest", "chunks"}     \* the receiver is in ch.recv
Sending == {"resume", "receipt"}      \* the receiver is in ch.send

ASSUME KillableAssumption == Killable \subseteq RPoint \ {"idle"}

Receipt == [provider : Sender, consumer : Conn, channel : Seq(Chunk)]
Sidecar == [root : Seq(Chunk), verified : Nat, seed : Conn]
Memory == [provider : Sender, root : Seq(Chunk), verified : Nat,
           seed : Conn \cup {None}]
ManifestFrame == [type : {"MANIFEST"}, provider : Sender, root : Seq(Chunk)]
ChunkFrame == [type : {"CHUNK"}, index : Nat, data : Chunk]
DoneFrame == [type : {"DONE"}]
ResumeFrame == [type : {"RESUME"}, fromChunk : Nat]
ReceiptFrame == [type : {"RECEIPT"}, receipt : Receipt]
SenderFrame == ManifestFrame \cup ChunkFrame \cup DoneFrame
ReceiverFrame == ResumeFrame \cup ReceiptFrame

ASSUME NoneAssumption ==
  /\ None \notin Sender \cup Conn \cup Seq(Slot)
  /\ None \notin Receipt \cup Sidecar \cup Memory \cup ChunkFrame

Init ==
  /\ nconn = 0
  /\ peer = [c \in Conn |-> None]
  /\ up = [c \in Conn |-> FALSE]
  /\ s2r = [c \in Conn |-> <<>>]
  /\ r2s = [c \in Conn |-> <<>>]
  /\ spc = [c \in Conn |-> "none"]
  /\ snext = [c \in Conn |-> 0]
  /\ finished = [s \in Sender |-> None]
  /\ rpc = "idle" /\ mem = None /\ frame = None
  /\ part = None /\ sidecar = None /\ final = None
  /\ landed = {}
  /\ issued = [c \in Conn |-> None]
-----------------------------------------------------------------------------
(* Connections.                                                            *)

\* A frame written to a dead connection whose death has not been noticed
\* goes nowhere.
ToReceiver(c, f) ==
  s2r' = IF up[c] THEN [s2r EXCEPT ![c] = Append(@, f)] ELSE s2r
ToSender(c, f) ==
  r2s' = IF up[c] THEN [r2s EXCEPT ![c] = Append(@, f)] ELSE r2s

\* writeMsg: the frame is written, then the writer waits for the drain.
Drained(c) == up[c] => Len(s2r[c]) < Window

\* The user calls receive: the socket opens and CPace succeeds.
Connect(s) ==
  /\ rpc = "idle" /\ nconn < MaxConn
  /\ nconn' = nconn + 1
  /\ peer' = [peer EXCEPT ![nconn + 1] = s]
  /\ up' = [up EXCEPT ![nconn + 1] = TRUE]
  /\ spc' = [spc EXCEPT ![nconn + 1] = "manifest"]
  /\ rpc' = "manifest"
  /\ UNCHANGED <<s2r, r2s, snext, finished, mem, frame, disk, landed, issued>>

\* Connection c dies.  What each side's reader has queued stays readable.
Drop(c) ==
  /\ up[c] /\ c \in Faulty
  /\ up' = [up EXCEPT ![c] = FALSE]
  /\ \E i \in 0..Len(s2r[c]), j \in 0..Len(r2s[c]) :
       /\ s2r' = [s2r EXCEPT ![c] = SubSeq(@, 1, i)]
       /\ r2s' = [r2s EXCEPT ![c] = SubSeq(@, 1, j)]
  /\ UNCHANGED <<nconn, peer, session, receiver, disk, landed, issued>>
-----------------------------------------------------------------------------
(* The sender's session on connection c (onconnection).                    *)

SendManifest(c) ==
  /\ spc[c] = "manifest" /\ Drained(c)
  /\ ToReceiver(c, [type |-> "MANIFEST", provider |-> peer[c],
                    root |-> Content[peer[c]]])
  /\ spc' = [spc EXCEPT ![c] = "resume"]
  /\ UNCHANGED <<nconn, peer, up, r2s, snext, finished, receiver, disk,
                 landed, issued>>

\* Mutant: fromChunk is taken for the last chunk the receiver has.
Bug_ReceiveResume(c) ==
  /\ spc[c] = "resume" /\ r2s[c] # <<>> /\ Head(r2s[c]).type = "RESUME"
  /\ snext' = [snext EXCEPT ![c] = Head(r2s[c]).fromChunk + 1]
  /\ r2s' = [r2s EXCEPT ![c] = Tail(@)]
  /\ spc' = [spc EXCEPT ![c] = "chunks"]
  /\ UNCHANGED <<nconn, peer, up, s2r, finished, receiver, disk, landed, issued>>

ReceiveResume(c) ==
  /\ spc[c] = "resume" /\ r2s[c] # <<>> /\ Head(r2s[c]).type = "RESUME"
  /\ snext' = [snext EXCEPT ![c] = Head(r2s[c]).fromChunk]
  /\ r2s' = [r2s EXCEPT ![c] = Tail(@)]
  /\ spc' = [spc EXCEPT ![c] = "chunks"]
  /\ UNCHANGED <<nconn, peer, up, s2r, finished, receiver, disk, landed, issued>>

SendChunk(c) ==
  /\ spc[c] = "chunks" /\ Drained(c)
  /\ snext[c] < Len(Content[peer[c]])
  /\ ToReceiver(c, [type |-> "CHUNK", index |-> snext[c],
                    data |-> Content[peer[c]][snext[c] + 1]])
  /\ snext' = [snext EXCEPT ![c] = @ + 1]
  /\ UNCHANGED <<nconn, peer, up, r2s, spc, finished, receiver, disk, landed,
                 issued>>

\* Mutant: the loop's bound is one too small, DONE replaces the last chunk.
Bug_SendDoneEarly(c) ==
  /\ spc[c] = "chunks" /\ Drained(c)
  /\ snext[c] >= Len(Content[peer[c]]) - 1
  /\ ToReceiver(c, [type |-> "DONE"])
  /\ spc' = [spc EXCEPT ![c] = "receipt"]
  /\ UNCHANGED <<nconn, peer, up, r2s, snext, finished, receiver, disk, landed,
                 issued>>

\* Mutant: the session is over at DONE, the receipt is not awaited.
Bug_SendDoneNoWait(c) ==
  /\ spc[c] = "chunks" /\ Drained(c)
  /\ snext[c] >= Len(Content[peer[c]])
  /\ ToReceiver(c, [type |-> "DONE"])
  /\ spc' = [spc EXCEPT ![c] = "settled"]
  /\ UNCHANGED <<nconn, peer, up, r2s, snext, finished, receiver, disk, landed,
                 issued>>

SendDone(c) ==
  /\ spc[c] = "chunks" /\ Drained(c)
  /\ snext[c] >= Len(Content[peer[c]])
  /\ ToReceiver(c, [type |-> "DONE"])
  /\ spc' = [spc EXCEPT ![c] = "receipt"]
  /\ UNCHANGED <<nconn, peer, up, r2s, snext, finished, receiver, disk, landed,
                 issued>>

\* The receipt is for this file and this provider key.
ReceiptOK(s, r) == r.channel = Content[s] /\ r.provider = s

\* A valid receipt settles the session; only the first one resolves the
\* sender's promise.
ReceiveReceipt(c) ==
  /\ spc[c] = "receipt" /\ r2s[c] # <<>> /\ Head(r2s[c]).type = "RECEIPT"
  /\ ReceiptOK(peer[c], Head(r2s[c]).receipt)
  /\ finished' = IF finished[peer[c]] = None
                 THEN [finished EXCEPT ![peer[c]] = Head(r2s[c]).receipt]
                 ELSE finished
  /\ r2s' = [r2s EXCEPT ![c] = Tail(@)]
  /\ spc' = [spc EXCEPT ![c] = "settled"]
  /\ UNCHANGED <<nconn, peer, up, s2r, snext, receiver, disk, landed, issued>>

\* The session's read or write rejects: the connection died, or the frame
\* is not the one expected.  The server stays up.
SenderFail(c) ==
  /\ \/ spc[c] \in {"manifest", "chunks"} /\ ~up[c]
     \/ spc[c] \in {"resume", "receipt"} /\ ~up[c] /\ r2s[c] = <<>>
     \/ /\ r2s[c] # <<>>
        /\ \/ spc[c] = "resume" /\ Head(r2s[c]).type # "RESUME"
           \/ spc[c] = "receipt" /\ Head(r2s[c]).type # "RECEIPT"
           \/ spc[c] = "receipt" /\ Head(r2s[c]).type = "RECEIPT"
              /\ ~ReceiptOK(peer[c], Head(r2s[c]).receipt)
  /\ spc' = [spc EXCEPT ![c] = "failed"]
  /\ up' = [up EXCEPT ![c] = FALSE]
  /\ \E i \in 0..Len(s2r[c]) :
       s2r' = IF up[c] THEN [s2r EXCEPT ![c] = SubSeq(@, 1, i)] ELSE s2r
  /\ UNCHANGED <<nconn, peer, r2s, snext, finished, receiver, disk, landed,
                 issued>>
-----------------------------------------------------------------------------
(* The receiver, on its connection nconn.                                  *)

Incoming(t) == s2r[nconn] # <<>> /\ Head(s2r[nconn]).type = t
Consume == s2r' = [s2r EXCEPT ![nconn] = Tail(@)]
Offered == mem.root            \* manifest.merkleRoot and manifest.leaves

\* The receiver leaves receive without returning: socket destroyed, memory
\* gone, the disk as it is.
Abandon ==
  /\ rpc' = "idle" /\ mem' = None /\ frame' = None
  /\ up' = [up EXCEPT ![nconn] = FALSE]
  /\ s2r' = [s2r EXCEPT ![nconn] = <<>>]
  /\ \E j \in 0..Len(r2s[nconn]) : r2s' = [r2s EXCEPT ![nconn] = SubSeq(@, 1, j)]
  /\ UNCHANGED <<nconn, peer, session, landed, issued>>

ReceiveManifest ==
  /\ rpc = "manifest" /\ Incoming("MANIFEST")
  /\ mem' = [provider |-> Head(s2r[nconn]).provider,
             root |-> Head(s2r[nconn]).root, verified |-> 0, seed |-> None]
  /\ Consume
  /\ rpc' = "load"
  /\ UNCHANGED <<nconn, peer, up, r2s, session, frame, disk, landed, issued>>

\* Mutant: the stored record is used whatever file it is of.
Bug_LoadSidecarAny ==
  /\ rpc = "load"
  /\ IF sidecar # None
     THEN mem' = [mem EXCEPT !.verified = sidecar.verified, !.seed = sidecar.seed]
     ELSE mem' = [mem EXCEPT !.verified = 0, !.seed = nconn]
  /\ rpc' = "heal"
  /\ UNCHANGED <<nconn, peer, wire, session, frame, disk, landed, issued>>

\* loadSidecar: the stored record if it is for this root, else a fresh one
\* with a new consumer seed.  The disk is not touched.
LoadSidecar ==
  /\ rpc = "load"
  /\ IF sidecar # None /\ sidecar.root = Offered
     THEN mem' = [mem EXCEPT !.verified = sidecar.verified, !.seed = sidecar.seed]
     ELSE mem' = [mem EXCEPT !.verified = 0, !.seed = nconn]
  /\ rpc' = "heal"
  /\ UNCHANGED <<nconn, peer, wire, session, frame, disk, landed, issued>>

\* ftruncate: shortens a file or extends it with zero bytes.
Resize(p, n) == [i \in 1..n |-> IF i <= Len(p) THEN p[i] ELSE Zero]

\* Mutant: an existing .part is used as it is.
Bug_HealPart ==
  /\ rpc = "heal"
  /\ \/ part # None /\ part' = part /\ mem' = mem
     \/ part = None /\ part' = <<>> /\ mem' = [mem EXCEPT !.verified = 0]
  /\ rpc' = "resume"
  /\ UNCHANGED <<nconn, peer, wire, session, frame, sidecar, final, landed,
                 issued>>

HealPart ==
  /\ rpc = "heal"
  /\ \/ part # None /\ part' = Resize(part, mem.verified) /\ mem' = mem
     \/ part = None /\ part' = <<>> /\ mem' = [mem EXCEPT !.verified = 0]
  /\ rpc' = "resume"
  /\ UNCHANGED <<nconn, peer, wire, session, frame, sidecar, final, landed,
                 issued>>

SendResume ==
  /\ rpc = "resume"
  /\ ToSender(nconn, [type |-> "RESUME", fromChunk |-> mem.verified])
  /\ rpc' = "chunks"
  /\ UNCHANGED <<nconn, peer, up, s2r, session, mem, frame, disk, landed,
                 issued>>

\* The frame is the next chunk and its hash is the manifest's leaf.
ChunkOK(f) ==
  /\ f.index = mem.verified
  /\ f.index < Len(Offered) /\ f.data = Offered[f.index + 1]

ReceiveChunk ==
  /\ rpc = "chunks" /\ Incoming("CHUNK") /\ ChunkOK(Head(s2r[nconn]))
  /\ frame' = Head(s2r[nconn])
  /\ Consume
  /\ rpc' = "write"
  /\ UNCHANGED <<nconn, peer, up, r2s, session, mem, disk, landed, issued>>

\* Mutant: the offset counts the chunk being written.
Bug_WriteAt(p, n, data) ==
  [i \in 1..(IF Len(p) > n + 1 THEN Len(p) ELSE n + 2) |->
     IF i = n + 2 THEN data ELSE IF i <= Len(p) THEN p[i] ELSE Zero]

\* Write data into slot n + 1; a gap before it reads as zeros.
WriteAt(p, n, data) ==
  [i \in 1..(IF Len(p) > n THEN Len(p) ELSE n + 1) |->
     IF i = n + 1 THEN data ELSE IF i <= Len(p) THEN p[i] ELSE Zero]

WriteChunk ==
  /\ rpc = "write"
  /\ part' = WriteAt(part, mem.verified, frame.data)
  /\ frame' = None
  /\ rpc' = "save"
  /\ UNCHANGED <<nconn, peer, wire, session, mem, sidecar, final, landed, issued>>

\* saveSidecar: a temporary file renamed over the sidecar, so in one step.
SaveSidecar ==
  /\ rpc = "save"
  /\ mem' = [mem EXCEPT !.verified = @ + 1]
  /\ sidecar' = [root |-> mem.root, verified |-> mem.verified + 1,
                 seed |-> mem.seed]
  /\ rpc' = "chunks"
  /\ UNCHANGED <<nconn, peer, wire, session, frame, part, final, landed, issued>>

ReceiveDone ==
  /\ rpc = "chunks" /\ Incoming("DONE")
  /\ Consume
  /\ rpc' = "verify"
  /\ UNCHANGED <<nconn, peer, up, r2s, session, mem, frame, disk, landed, issued>>

\* Mutant: the file on disk is trusted.
Bug_Assembled == mem.verified = Len(Offered)

\* All chunks are in, and the file on disk hashes to the manifest's root.
Assembled == mem.verified = Len(Offered) /\ part = Offered

VerifyFile ==
  /\ rpc = "verify" /\ Assembled
  /\ rpc' = "rename"
  /\ UNCHANGED <<nconn, peer, wire, session, mem, frame, disk, landed, issued>>

RenamePart ==
  /\ rpc = "rename"
  /\ final' = part
  /\ part' = None
  /\ landed' = landed \cup {part}
  /\ rpc' = "unlink"
  /\ UNCHANGED <<nconn, peer, wire, session, mem, frame, sidecar, issued>>

\* Mutant: the sidecar is left behind.
Bug_UnlinkSidecar ==
  /\ rpc = "unlink"
  /\ rpc' = "receipt"
  /\ UNCHANGED <<nconn, peer, wire, session, mem, frame, disk, landed, issued>>

UnlinkSidecar ==
  /\ rpc = "unlink"
  /\ sidecar' = None
  /\ rpc' = "receipt"
  /\ UNCHANGED <<nconn, peer, wire, session, mem, frame, part, final, landed,
                 issued>>

\* Sign the receipt, send it, end the socket and return.
SendReceipt ==
  /\ rpc = "receipt"
  /\ LET r == [provider |-> mem.provider, consumer |-> mem.seed,
               channel |-> mem.root]
     IN /\ ToSender(nconn, [type |-> "RECEIPT", receipt |-> r])
        /\ issued' = [issued EXCEPT ![nconn] = r]
  /\ rpc' = "idle" /\ mem' = None
  /\ UNCHANGED <<nconn, peer, up, s2r, session, frame, disk, landed>>

\* receive throws: a read or write rejects on a dead connection, a frame or
\* the assembled file is refused.
ReceiverFail ==
  /\ \/ rpc \in Waiting /\ ~up[nconn] /\ s2r[nconn] = <<>>
     \/ rpc \in Sending /\ ~up[nconn]
     \/ rpc = "manifest" /\ s2r[nconn] # <<>> /\ ~Incoming("MANIFEST")
     \/ rpc = "chunks" /\ Incoming("MANIFEST")
     \/ rpc = "chunks" /\ Incoming("CHUNK") /\ ~ChunkOK(Head(s2r[nconn]))
     \/ rpc = "verify" /\ ~Assembled
  /\ Abandon
  /\ UNCHANGED disk

\* The receiving process is killed; a write in progress may be cut short.
Kill ==
  /\ rpc \in Killable /\ nconn \in Faulty
  /\ Abandon
  /\ \/ part' = part
     \/ rpc = "write" /\ part' = WriteAt(part, mem.verified, Torn)
  /\ UNCHANGED <<sidecar, final>>
-----------------------------------------------------------------------------
SenderStep(c) ==
  \/ SendManifest(c) \/ ReceiveResume(c) \/ SendChunk(c) \/ SendDone(c)
  \/ ReceiveReceipt(c) \/ SenderFail(c)

ReceiverStep ==
  \/ ReceiveManifest \/ LoadSidecar \/ HealPart \/ SendResume
  \/ ReceiveChunk \/ WriteChunk \/ SaveSidecar \/ ReceiveDone
  \/ VerifyFile \/ RenamePart \/ UnlinkSidecar \/ SendReceipt \/ ReceiverFail

Next ==
  \/ \E s \in Sender : Connect(s)
  \/ \E c \in Conn : SenderStep(c) \/ Drop(c)
  \/ ReceiverStep
  \/ Kill

Spec == Init /\ [][Next]_vars
-----------------------------------------------------------------------------
\* The variables hold values of their types.
TypeOK ==
  /\ nconn \in 0..MaxConn
  /\ peer \in [Conn -> Sender \cup {None}]
  /\ \A c \in 1..nconn : peer[c] \in Sender
  /\ up \in [Conn -> BOOLEAN]
  /\ s2r \in [Conn -> Seq(SenderFrame)]
  /\ r2s \in [Conn -> Seq(ReceiverFrame)]
  /\ spc \in [Conn -> SPoint]
  /\ \A c \in Conn : spc[c] # "none" => c <= nconn
  /\ snext \in [Conn -> Nat]
  /\ finished \in [Sender -> Receipt \cup {None}]
  /\ rpc \in RPoint
  /\ rpc # "idle" => nconn > 0
  /\ mem \in Memory \cup {None}
  /\ rpc \notin {"idle", "manifest"} => mem # None
  /\ rpc \notin {"idle", "manifest", "load"} => mem.seed # None
  /\ frame \in ChunkFrame \cup {None}
  /\ rpc = "write" => frame # None
  /\ part \in Seq(Slot) \cup {None}
  /\ rpc \in {"resume", "chunks", "write", "save", "verify", "rename"} => part # None
  /\ sidecar \in Sidecar \cup {None}
  /\ final \in Seq(Slot) \cup {None}
  /\ landed \subseteq Seq(Slot)
  /\ issued \in [Conn -> Receipt \cup {None}]
-----------------------------------------------------------------------------
(* Properties.                                                             *)

\* The detailed transfer implements what filedrop promises: only a whole
\* offered file ever appears under the final name, and a sender settles once,
\* with its own receipt, after its bytes have landed (index.js:208-254).
Delivery == INSTANCE FileDelivery WITH Consumer <- Conn
ImplementsDelivery == Delivery!Spec

\* Whatever offset a session resumes from and however many sessions came
\* before, no frame is ever refused: each chunk the receiver reads is the one
\* it expects and DONE comes exactly after the last (index.js:102-109, 208-230).
NoFrameRefused ==
  rpc = "chunks" /\ s2r[nconn] # <<>> =>
    \/ Incoming("CHUNK") /\ ChunkOK(Head(s2r[nconn]))
    \/ Incoming("DONE") /\ mem.verified = Len(Offered)

\* One consumer identity signs at most one receipt, whatever is resumed,
\* repeated or killed: the seed lives in the sidecar, which is gone before a
\* receipt is signed (index.js:195-197, 239-249).
OneReceiptPerIdentity ==
  \A c, d \in Conn :
    issued[c] # None /\ issued[d] # None /\ c # d
      => issued[c].consumer # issued[d].consumer

\* The three ways the sidecar may change.  Its file is in place, whole.
Landed == sidecar.root \in landed /\ sidecar.verified = Len(sidecar.root)
Unlinked == sidecar # None /\ sidecar' = None /\ Landed

\* The download it records goes on, with the same signer, by one chunk; only if
\* the file is in place already may it start over.
Continued ==
  /\ sidecar # None /\ sidecar' # None /\ sidecar'.root = sidecar.root
  /\ sidecar'.seed = sidecar.seed
  /\ \/ sidecar'.verified = sidecar.verified + 1
     \/ sidecar'.verified = 1 /\ Landed

\* A download begins, with a signer of its own, at its first chunk; the record of
\* another file of that name, if there is one, is lost with its signer.
Begun ==
  /\ sidecar' # None /\ (sidecar # None => sidecar'.root # sidecar.root)
  /\ sidecar'.seed = nconn /\ sidecar'.verified = 1

\* Whatever drops, dies or is received in between, the record of a download is
\* given up only when its file is in place or for the first chunk of another file
\* of that name, verified and written; until then its signer stays and its
\* progress goes up chunk by chunk, each one written before it is recorded
\* (index.js:195-201, 220-224, 239, 263-277).
RecordKept ==
  [][/\ Unlinked \/ Continued \/ Begun
     /\ sidecar' # None =>
          LET n == sidecar'.verified
          IN n <= Len(part) /\ part[n] = sidecar'.root[n]]_sidecar

\* The first n chunks of file f.
Prefix(f, n) == SubSeq(f, 1, n)

\* What the comment at index.js:198-199 says of the self-heal: when the
\* resume offset is sent, the .part holds exactly the chunks before it, so
\* neither a sidecar ahead of the file nor a longer file corrupts the resume.
ResumeIsPrefix ==
  rpc = "resume" => part = Prefix(Offered, mem.verified)

\* The sidecar never claims a chunk that the .part lacks: each save follows
\* the write it records (index.js:220-224), except between the rename and the
\* unlink (index.js:238-239), when the whole file is in place.
SidecarBacked ==
  sidecar # None =>
    \/ rpc = "unlink"
    \/ /\ part # None
       /\ Len(part) >= sidecar.verified
       /\ Prefix(part, sidecar.verified) = Prefix(sidecar.root, sidecar.verified)

\* The event loops run every session and the receiver on; nothing obliges a
\* user to call receive again.
Fairness ==
  /\ \A c \in Conn : WF_vars(SenderStep(c))
  /\ WF_vars(ReceiverStep)
FairSpec == Spec /\ Fairness

\* "The transfer is resumable after a mid-stream kill" (index.js:12-13): after
\* any earlier attempts, a receive whose connection stays up and whose process
\* is not killed verifies the file and signs a receipt.
SteadyReceiveCompletes ==
  \A c \in Conn \ Faulty : (nconn = c) ~> (issued[c] # None)

\* A receipt signed on a connection that stays up settles its sender
\* (index.js:111-120, 250).
ReceiptSettles ==
  \A c \in Conn :
    issued[c] # None
      ~> (~up[c] \/ \E s \in Sender : s = peer[c] /\ finished[s] # None)
-----------------------------------------------------------------------------
(* Inductive invariants, for the proofs.                                   *)

\* The sender frames that may travel on a connection to s, and the receiver
\* frames that may travel on c.
FramesOf(s) ==
  {f \in SenderFrame :
     f.type = "MANIFEST" => f.provider = s /\ f.root = Content[s]}
FramesTo(c) ==
  {f \in ReceiverFrame : f.type = "RECEIPT" => f.receipt = issued[c]}

\* Why only landed bytes are acknowledged: the manifest the receiver works
\* from is its sender's, the file is verified when it is renamed, a receipt
\* is signed after the rename, and only signed receipts travel
\* (index.js:230-250).
DeliveryInv ==
  /\ \A c \in Conn : c > nconn =>
       s2r[c] = <<>> /\ r2s[c] = <<>> /\ issued[c] = None
  /\ \A c \in Conn : s2r[c] \in Seq(FramesOf(peer[c]))
  /\ \A c \in Conn : r2s[c] \in Seq(FramesTo(c))
  /\ \A c \in Conn : issued[c] # None => issued[c].channel \in landed
  /\ rpc # "idle" => issued[nconn] = None
  /\ rpc \notin {"idle", "manifest"} =>
       mem.provider = peer[nconn] /\ mem.root = Content[peer[nconn]]
  /\ rpc = "rename" => part = mem.root
  /\ rpc \in {"unlink", "receipt"} => mem.root \in landed

Signers == {issued[c].consumer : c \in {e \in Conn : issued[e] # None}}

\* Why an identity signs once: a seed is drawn for one connection, outlives
\* it only in the sidecar, and the sidecar is gone when the seed signs.
SignerInv ==
  /\ OneReceiptPerIdentity
  /\ \A k \in Signers : k <= nconn /\ (rpc \in {"manifest", "load"} => k < nconn)
  /\ sidecar # None =>
       /\ sidecar.seed <= nconn /\ sidecar.seed \notin Signers
       /\ rpc \in {"manifest", "load"} => sidecar.seed < nconn
  /\ rpc \notin {"idle", "manifest", "load"} =>
       mem.seed <= nconn /\ mem.seed \notin Signers
  /\ rpc = "receipt" => sidecar = None

\* p starts with the first n chunks of f.
StartsWith(p, f, n) ==
  n <= Len(f) /\ n <= Len(p) /\ \A i \in 1..n : p[i] = f[i]

\* Why a resume is sound where nothing but this file is received and no kill
\* falls between rename and unlink: the .part always covers the sidecar, and
\* while chunks come in it is exactly the verified prefix.
ResumeInv ==
  /\ sidecar # None =>
       /\ \A s \in Sender : sidecar.root = Content[s]
       /\ \/ rpc = "unlink"
          \/ part # None /\ StartsWith(part, sidecar.root, sidecar.verified)
  /\ rpc = "heal" =>
       mem.verified = IF sidecar = None THEN 0 ELSE sidecar.verified
  /\ rpc \in {"resume", "chunks", "write", "verify", "rename"} =>
       /\ StartsWith(part, Offered, mem.verified)
       /\ Len(part) = mem.verified
  /\ rpc = "save" =>
       /\ StartsWith(part, Offered, mem.verified + 1)
       /\ Len(part) = mem.verified + 1
  /\ rpc \in {"resume", "chunks", "write", "save", "verify", "rename"} =>
       (sidecar # None => sidecar.verified <= mem.verified)
  /\ rpc = "write" => mem.verified < Len(Offered)
                      /\ frame.data = Offered[mem.verified + 1]
\* The receiver has a record of its download in memory.
Loaded == rpc \in {"heal", "resume", "chunks", "write", "save", "verify", "rename"}

\* The sidecar is of the file the receiver works on.
Recorded == sidecar # None /\ sidecar.root = mem.root

\* Why a record is kept: while an attempt runs, the record in memory is the one on
\* disk or, when that is of another file or missing, a new one without chunks; a
\* sidecar without its .part is of a file in place.  Only a chunk that matched its
\* leaf is written and only a written one is saved.
KeptInv ==
  /\ part = None /\ sidecar # None => Landed
  /\ Loaded => IF Recorded
               THEN /\ sidecar.seed = mem.seed
                    /\ \/ mem.verified = sidecar.verified
                       \/ mem.verified = 0 /\ Landed
               ELSE mem.verified = 0 /\ mem.seed = nconn
  /\ rpc = "write" => ChunkOK(frame)
  /\ rpc = "save" =>
       /\ mem.verified < Len(part) /\ mem.verified < Len(mem.root)
       /\ part[mem.verified + 1] = mem.root[mem.verified + 1]
  /\ rpc = "rename" => mem.verified = Len(mem.root) /\ mem.verified > 0
  /\ rpc = "unlink" => Recorded /\ Landed

\* q holds the frames of file f from chunk e on, and DONE after the last.
Stretch(q, f, e) ==
  \A i \in 1..Len(q) :
    \/ /\ e + i - 1 < Len(f)
       /\ q[i] = [type |-> "CHUNK", index |-> e + i - 1, data |-> f[e + i]]
    \/ e + i - 1 = Len(f) /\ q[i] = [type |-> "DONE"]

\* The chunk the receiver has not read yet.
Expected == IF rpc = "chunks" THEN mem.verified ELSE mem.verified + 1

\* Why no frame is refused: the session waits while the receiver loads and heals,
\* starts at the offset it is told, and what is on its way from then on is the
\* stretch between what the receiver has read and what the session has sent.
FlowInv ==
  /\ sidecar # None => sidecar.verified <= Len(sidecar.root)
  /\ rpc = "manifest" =>
       /\ spc[nconn] \in {"manifest", "resume", "failed"}
       /\ Len(s2r[nconn]) <= 1 /\ r2s[nconn] = <<>>
       /\ spc[nconn] = "manifest" => s2r[nconn] = <<>>
  /\ rpc \in {"load", "heal", "resume"} =>
       /\ spc[nconn] \in {"resume", "failed"}
       /\ s2r[nconn] = <<>> /\ r2s[nconn] = <<>>
  /\ rpc \in {"heal", "resume", "chunks"} => mem.verified <= Len(mem.root)
  /\ rpc \in {"write", "save"} => mem.verified < Len(mem.root)
  /\ rpc \in {"chunks", "write", "save"} =>
       /\ spc[nconn] \in {"resume", "chunks", "receipt", "failed"}
       /\ Stretch(s2r[nconn], mem.root, Expected)
       /\ spc[nconn] = "resume" =>
            /\ rpc = "chunks" /\ s2r[nconn] = <<>>
            /\ r2s[nconn] # <<>> => Head(r2s[nconn]).fromChunk = mem.verified
       /\ spc[nconn] = "chunks" /\ up[nconn] =>
            snext[nconn] = Expected + Len(s2r[nconn]) /\ snext[nconn] <= Len(mem.root)
=============================================================================
