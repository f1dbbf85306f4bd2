-------------------------- MODULE Filedrop_proofs --------------------------
(***************************************************************************)
(* Theorems about Filedrop, for every set of senders and contents, every   *)
(* window, number of connections and choice of faults.                     *)
(***************************************************************************)
EXTENDS Filedrop, SequenceTheorems, TLAPS

\* A frame appended to a channel, a frame consumed, and a channel cut to a
\* prefix keep the channel's type.
LEMMA AppendType ==
  ASSUME NEW S, NEW q \in [Conn -> Seq(S)], NEW c \in Conn, NEW f \in S
  PROVE  [q EXCEPT ![c] = Append(@, f)] \in [Conn -> Seq(S)]
BY AppendProperties

LEMMA TailType ==
  ASSUME NEW S, NEW q \in [Conn -> Seq(S)], NEW c \in Conn, q[c] # <<>>
  PROVE  [q EXCEPT ![c] = Tail(@)] \in [Conn -> Seq(S)]
BY HeadTailProperties

LEMMA PrefixType ==
  ASSUME NEW S, NEW q \in [Conn -> Seq(S)], NEW c \in Conn,
         NEW i \in 0..Len(q[c])
  PROVE  [q EXCEPT ![c] = SubSeq(@, 1, i)] \in [Conn -> Seq(S)]
<1>1. SubSeq(q[c], 1, i) \in Seq(S)
  BY SubSeqProperties
<1> QED  BY <1>1

\* The disk operations return files.
LEMMA ResizeType ==
  ASSUME NEW p \in Seq(Slot), NEW n \in Nat
  PROVE  Resize(p, n) \in Seq(Slot) /\ Len(Resize(p, n)) = n
<1>1. \A i \in 1..n : Resize(p, n)[i] \in Slot
  BY DEF Resize, Slot
<1>2. Resize(p, n) \in [1..n -> Slot]
  BY <1>1 DEF Resize
<1> QED  BY <1>2

LEMMA WriteAtType ==
  ASSUME NEW p \in Seq(Slot), NEW n \in Nat, NEW data \in Slot
  PROVE  WriteAt(p, n, data) \in Seq(Slot)
<1> DEFINE m == IF Len(p) > n THEN Len(p) ELSE n + 1
<1>1. m \in Nat
  OBVIOUS
<1>2. \A i \in 1..m : WriteAt(p, n, data)[i] \in Slot
  BY DEF WriteAt, Slot
<1>3. WriteAt(p, n, data) \in [1..m -> Slot]
  BY <1>2 DEF WriteAt
<1> QED  BY <1>1, <1>3

\* A file is a non-empty sequence of chunks.
LEMMA ContentType ==
  ASSUME NEW s \in Sender
  PROVE  /\ Content[s] \in Seq(Chunk)
         /\ Len(Content[s]) \in Nat \ {0}
         /\ \A i \in 1..Len(Content[s]) : Content[s][i] \in Chunk
BY ContentAssumption
-----------------------------------------------------------------------------
(* Frames.                                                                 *)

LEMMA SenderFrameKinds ==
  ASSUME NEW f \in SenderFrame
  PROVE  /\ f.type = "MANIFEST" => f.provider \in Sender /\ f.root \in Seq(Chunk)
         /\ f.type = "CHUNK" => f \in ChunkFrame
BY DEF SenderFrame, ManifestFrame, ChunkFrame, DoneFrame

LEMMA ReceiverFrameKinds ==
  ASSUME NEW f \in ReceiverFrame
  PROVE  /\ f.type = "RESUME" => f.fromChunk \in Nat
         /\ f.type = "RECEIPT" => f.receipt \in Receipt
BY DEF ReceiverFrame, ResumeFrame, ReceiptFrame

\* Sending a frame, alive or dead, keeps the channel's type.
LEMMA ToReceiverType ==
  ASSUME TypeOK, NEW c \in Conn, NEW f \in SenderFrame, ToReceiver(c, f)
  PROVE  s2r' \in [Conn -> Seq(SenderFrame)]
BY AppendType DEF TypeOK, ToReceiver

LEMMA ToSenderType ==
  ASSUME TypeOK, NEW c \in Conn, NEW f \in ReceiverFrame, ToSender(c, f)
  PROVE  r2s' \in [Conn -> Seq(ReceiverFrame)]
BY AppendType DEF TypeOK, ToSender

LEMMA HeadSenderFrame ==
  ASSUME TypeOK, NEW c \in Conn, s2r[c] # <<>>
  PROVE  Head(s2r[c]) \in SenderFrame
BY HeadTailProperties DEF TypeOK

LEMMA HeadReceiverFrame ==
  ASSUME TypeOK, NEW c \in Conn, r2s[c] # <<>>
  PROVE  Head(r2s[c]) \in ReceiverFrame
BY HeadTailProperties DEF TypeOK

\* The receiver, when it runs, has a connection.
LEMMA RunningConn ==
  ASSUME TypeOK, rpc # "idle"
  PROVE  nconn \in Conn /\ peer[nconn] \in Sender
BY BoundAssumption DEF TypeOK, Conn

\* A session that has started serves a sender.
LEMMA SessionPeer ==
  ASSUME TypeOK, NEW c \in Conn, spc[c] # "none"
  PROVE  peer[c] \in Sender
BY BoundAssumption DEF TypeOK, Conn
-----------------------------------------------------------------------------
(* Type correctness.                                                       *)

USE DEF Waiting, Sending

LEMMA InitType == Init => TypeOK
BY BoundAssumption DEF Init, TypeOK, RPoint, SPoint, Conn

LEMMA AbandonType ==
  ASSUME TypeOK, rpc # "idle", Abandon
  PROVE  /\ up' \in [Conn -> BOOLEAN]
         /\ s2r' \in [Conn -> Seq(SenderFrame)]
         /\ r2s' \in [Conn -> Seq(ReceiverFrame)]
<1>1. nconn \in Conn
  BY RunningConn
<1>2. s2r' \in [Conn -> Seq(SenderFrame)]
  BY <1>1 DEF Abandon, TypeOK
<1>3. PICK j \in 0..Len(r2s[nconn]) :
        r2s' = [r2s EXCEPT ![nconn] = SubSeq(@, 1, j)]
  BY DEF Abandon
<1>4. r2s' \in [Conn -> Seq(ReceiverFrame)]
  BY <1>1, <1>3, PrefixType DEF TypeOK
<1> QED  BY <1>1, <1>2, <1>4 DEF Abandon, TypeOK

\* Each step of the system keeps the types.
LEMMA NextType == TypeOK /\ [Next]_vars => TypeOK'
<1> SUFFICES ASSUME TypeOK, [Next]_vars PROVE TypeOK'
  OBVIOUS
<1> USE DEF wire, session, disk, receiver
<1>1. ASSUME NEW s \in Sender, Connect(s) PROVE TypeOK'
  <2>1. nconn + 1 \in Conn /\ nconn + 1 \in 0..MaxConn
    BY <1>1, BoundAssumption DEF Connect, TypeOK, Conn
  <2>2. /\ peer' \in [Conn -> Sender \cup {None}]
        /\ \A c \in 1..nconn' : peer'[c] \in Sender
    BY <1>1, <2>1, BoundAssumption DEF Connect, TypeOK, Conn
  <2>3. /\ spc' \in [Conn -> SPoint]
        /\ \A c \in Conn : spc'[c] # "none" => c <= nconn'
    BY <1>1, <2>1, BoundAssumption DEF Connect, TypeOK, Conn, SPoint
  <2>4. up' \in [Conn -> BOOLEAN]
    BY <1>1, <2>1 DEF Connect, TypeOK
  <2> QED  BY <1>1, <2>1, <2>2, <2>3, <2>4, BoundAssumption DEF Connect, TypeOK, RPoint
<1>2. ASSUME NEW c \in Conn, Drop(c) PROVE TypeOK'
  <2>1. PICK i \in 0..Len(s2r[c]), j \in 0..Len(r2s[c]) :
          /\ s2r' = [s2r EXCEPT ![c] = SubSeq(@, 1, i)]
          /\ r2s' = [r2s EXCEPT ![c] = SubSeq(@, 1, j)]
    BY <1>2 DEF Drop
  <2>2. s2r' \in [Conn -> Seq(SenderFrame)] /\ r2s' \in [Conn -> Seq(ReceiverFrame)]
    BY <2>1, PrefixType DEF TypeOK
  <2> QED  BY <1>2, <2>2 DEF Drop, TypeOK
<1>3. ASSUME NEW c \in Conn, SendManifest(c) PROVE TypeOK'
  <2>1. peer[c] \in Sender
    BY <1>3, SessionPeer DEF SendManifest
  <2>2. [type |-> "MANIFEST", provider |-> peer[c], root |-> Content[peer[c]]]
          \in SenderFrame
    BY <2>1, ContentType DEF SenderFrame, ManifestFrame
  <2>3. s2r' \in [Conn -> Seq(SenderFrame)]
    BY <1>3, <2>2, ToReceiverType DEF SendManifest
  <2> QED  BY <1>3, <2>3 DEF SendManifest, TypeOK, SPoint
<1>4. ASSUME NEW c \in Conn, ReceiveResume(c) PROVE TypeOK'
  <2>1. Head(r2s[c]).fromChunk \in Nat
    BY <1>4, HeadReceiverFrame, ReceiverFrameKinds DEF ReceiveResume
  <2>2. r2s' \in [Conn -> Seq(ReceiverFrame)]
    BY <1>4, TailType DEF ReceiveResume, TypeOK
  <2> QED  BY <1>4, <2>1, <2>2 DEF ReceiveResume, TypeOK, SPoint
<1>5. ASSUME NEW c \in Conn, SendChunk(c) PROVE TypeOK'
  <2>1. peer[c] \in Sender
    BY <1>5, SessionPeer DEF SendChunk
  <2>2. snext[c] \in Nat /\ snext[c] + 1 \in 1..Len(Content[peer[c]])
    BY <1>5, <2>1, ContentType DEF SendChunk, TypeOK
  <2>3. Content[peer[c]][snext[c] + 1] \in Chunk
    BY <2>1, <2>2, ContentType
  <2>4. [type |-> "CHUNK", index |-> snext[c],
         data |-> Content[peer[c]][snext[c] + 1]] \in SenderFrame
    BY <2>2, <2>3 DEF SenderFrame, ChunkFrame
  <2>5. s2r' \in [Conn -> Seq(SenderFrame)]
    BY <1>5, <2>4, ToReceiverType DEF SendChunk
  <2>6. snext' \in [Conn -> Nat]
    BY <1>5, <2>2 DEF SendChunk, TypeOK
  <2> QED  BY <1>5, <2>5, <2>6 DEF SendChunk, TypeOK
<1>6. ASSUME NEW c \in Conn, SendDone(c) PROVE TypeOK'
  <2>1. [type |-> "DONE"] \in SenderFrame
    BY DEF SenderFrame, DoneFrame
  <2>2. s2r' \in [Conn -> Seq(SenderFrame)]
    BY <1>6, <2>1, ToReceiverType DEF SendDone
  <2> QED  BY <1>6, <2>2 DEF SendDone, TypeOK, SPoint
<1>7. ASSUME NEW c \in Conn, ReceiveReceipt(c) PROVE TypeOK'
  <2>1. Head(r2s[c]).receipt \in Receipt
    BY <1>7, HeadReceiverFrame, ReceiverFrameKinds DEF ReceiveReceipt
  <2>2. finished' \in [Sender -> Receipt \cup {None}]
    BY <1>7, <2>1 DEF ReceiveReceipt, TypeOK
  <2>3. r2s' \in [Conn -> Seq(ReceiverFrame)]
    BY <1>7, TailType DEF ReceiveReceipt, TypeOK
  <2> QED  BY <1>7, <2>2, <2>3 DEF ReceiveReceipt, TypeOK, SPoint
<1>8. ASSUME NEW c \in Conn, SenderFail(c) PROVE TypeOK'
  <2>1. PICK i \in 0..Len(s2r[c]) :
          s2r' = IF up[c] THEN [s2r EXCEPT ![c] = SubSeq(@, 1, i)] ELSE s2r
    BY <1>8 DEF SenderFail
  <2>2. s2r' \in [Conn -> Seq(SenderFrame)]
    BY <2>1, PrefixType DEF TypeOK
  <2>3. spc[c] # "none"
    BY <1>8 DEF SenderFail
  <2> QED  BY <1>8, <2>2, <2>3 DEF SenderFail, TypeOK, SPoint
<1>9. ASSUME ReceiveManifest PROVE TypeOK'
  <2>1. nconn \in Conn /\ s2r[nconn] # <<>>
    BY <1>9, RunningConn DEF ReceiveManifest, Incoming
  <2>2. /\ Head(s2r[nconn]).provider \in Sender
        /\ Head(s2r[nconn]).root \in Seq(Chunk)
    BY <1>9, <2>1, HeadSenderFrame, SenderFrameKinds DEF ReceiveManifest, Incoming
  <2>3. mem' \in Memory /\ mem' # None
    BY <1>9, <2>2, NoneAssumption DEF ReceiveManifest, Memory
  <2>4. s2r' \in [Conn -> Seq(SenderFrame)]
    BY <1>9, <2>1, TailType DEF ReceiveManifest, Consume, TypeOK
  <2> QED  BY <1>9, <2>3, <2>4 DEF ReceiveManifest, TypeOK, RPoint
<1>10. ASSUME LoadSidecar PROVE TypeOK'
  <2>1. nconn \in Conn
    BY <1>10, RunningConn DEF LoadSidecar
  <2>2. mem \in Memory
    BY <1>10 DEF LoadSidecar, TypeOK
  <2>3. mem' \in Memory /\ mem'.seed # None
    <3>1. CASE sidecar # None /\ sidecar.root = Offered
      <4>1. sidecar.verified \in Nat /\ sidecar.seed \in Conn
        BY <3>1 DEF TypeOK, Sidecar
      <4> QED  BY <1>10, <2>2, <3>1, <4>1, NoneAssumption DEF LoadSidecar, Memory
    <3>2. CASE ~(sidecar # None /\ sidecar.root = Offered)
      <4>1. mem' = [mem EXCEPT !.verified = 0, !.seed = nconn]
        BY <1>10, <3>2 DEF LoadSidecar
      <4> QED  BY <2>1, <2>2, <4>1, NoneAssumption DEF Memory
    <3> QED  BY <3>1, <3>2
  <2> QED  BY <1>10, <2>3, NoneAssumption DEF LoadSidecar, TypeOK, RPoint
<1>11. ASSUME HealPart PROVE TypeOK'
  <2>1. mem \in Memory /\ mem.seed # None
    BY <1>11 DEF HealPart, TypeOK
  <2>2. mem' \in Memory /\ mem'.seed # None
    BY <1>11, <2>1 DEF HealPart, Memory
  <2>3. part' \in Seq(Slot)
    <3>1. mem.verified \in Nat
      BY <2>1 DEF Memory
    <3>2. CASE part # None /\ part' = Resize(part, mem.verified)
      BY <3>1, <3>2, ResizeType DEF TypeOK
    <3>3. <<>> \in Seq(Slot)
      OBVIOUS
    <3>4. CASE part' = <<>>
      BY <3>3, <3>4
    <3> QED  BY <1>11, <3>2, <3>4 DEF HealPart
  <2> QED  BY <1>11, <2>2, <2>3, NoneAssumption DEF HealPart, TypeOK, RPoint
<1>12. ASSUME SendResume PROVE TypeOK'
  <2>1. nconn \in Conn /\ mem.verified \in Nat
    BY <1>12, RunningConn DEF SendResume, TypeOK, Memory
  <2>2. r2s' \in [Conn -> Seq(ReceiverFrame)]
    BY <1>12, <2>1, ToSenderType DEF SendResume, ReceiverFrame, ResumeFrame
  <2> QED  BY <1>12, <2>2 DEF SendResume, TypeOK, RPoint
<1>13. ASSUME ReceiveChunk PROVE TypeOK'
  <2>1. nconn \in Conn /\ s2r[nconn] # <<>>
    BY <1>13, RunningConn DEF ReceiveChunk, Incoming
  <2>2. Head(s2r[nconn]) \in ChunkFrame
    BY <1>13, <2>1, HeadSenderFrame, SenderFrameKinds DEF ReceiveChunk, Incoming
  <2>3. s2r' \in [Conn -> Seq(SenderFrame)]
    BY <1>13, <2>1, TailType DEF ReceiveChunk, Consume, TypeOK
  <2> QED  BY <1>13, <2>2, <2>3, NoneAssumption DEF ReceiveChunk, TypeOK, RPoint, ChunkFrame
<1>14. ASSUME WriteChunk PROVE TypeOK'
  <2>1. part' \in Seq(Slot)
    BY <1>14, WriteAtType DEF WriteChunk, TypeOK, Memory, ChunkFrame, Slot
  <2> QED  BY <1>14, <2>1, NoneAssumption DEF WriteChunk, TypeOK, RPoint
<1>15. ASSUME SaveSidecar PROVE TypeOK'
  <2>1. mem \in Memory /\ mem.seed \in Conn
    BY <1>15 DEF SaveSidecar, TypeOK, Memory
  <2>2. mem' \in Memory /\ mem'.seed # None
    BY <1>15, <2>1, NoneAssumption DEF SaveSidecar, Memory
  <2>3. sidecar' \in Sidecar
    BY <1>15, <2>1 DEF SaveSidecar, Memory, Sidecar
  <2> QED  BY <1>15, <2>2, <2>3, NoneAssumption DEF SaveSidecar, TypeOK, RPoint
<1>16. ASSUME ReceiveDone PROVE TypeOK'
  <2>1. nconn \in Conn /\ s2r[nconn] # <<>>
    BY <1>16, RunningConn DEF ReceiveDone, Incoming
  <2>2. s2r' \in [Conn -> Seq(SenderFrame)]
    BY <1>16, <2>1, TailType DEF ReceiveDone, Consume, TypeOK
  <2> QED  BY <1>16, <2>2 DEF ReceiveDone, TypeOK, RPoint
<1>17. ASSUME VerifyFile PROVE TypeOK'
  BY <1>17 DEF VerifyFile, TypeOK, RPoint
<1>18. ASSUME RenamePart PROVE TypeOK'
  BY <1>18 DEF RenamePart, TypeOK, RPoint
<1>19. ASSUME UnlinkSidecar PROVE TypeOK'
  BY <1>19 DEF UnlinkSidecar, TypeOK, RPoint
<1>20. ASSUME SendReceipt PROVE TypeOK'
  <2> DEFINE r == [provider |-> mem.provider, consumer |-> mem.seed,
                   channel |-> mem.root]
  <2>1. nconn \in Conn /\ r \in Receipt
    BY <1>20, RunningConn DEF SendReceipt, TypeOK, Memory, Receipt
  <2>2. r2s' \in [Conn -> Seq(ReceiverFrame)]
    BY <1>20, <2>1, ToSenderType DEF SendReceipt, ReceiverFrame, ReceiptFrame
  <2> QED  BY <1>20, <2>1, <2>2 DEF SendReceipt, TypeOK, RPoint
<1>21. ASSUME ReceiverFail PROVE TypeOK'
  BY <1>21, AbandonType DEF ReceiverFail, Abandon, TypeOK, RPoint
<1>22. ASSUME Kill PROVE TypeOK'
  <2>1. rpc # "idle"
    BY <1>22, KillableAssumption DEF Kill
  <2>2. part' \in Seq(Slot) \cup {None}
    <3>1. CASE rpc = "write" /\ part' = WriteAt(part, mem.verified, Torn)
      <4>1. mem.verified \in Nat /\ part \in Seq(Slot) /\ Torn \in Slot
        BY <3>1 DEF TypeOK, Memory, Slot
      <4> QED  BY <3>1, <4>1, WriteAtType
    <3>2. CASE part' = part
      BY <3>2 DEF TypeOK
    <3> QED  BY <1>22, <3>1, <3>2 DEF Kill
  <2> QED  BY <1>22, <2>1, <2>2, AbandonType DEF Kill, Abandon, TypeOK, RPoint
<1>23. CASE UNCHANGED vars
  BY <1>23 DEF vars, TypeOK
<1> QED
  BY <1>1, <1>2, <1>3, <1>4, <1>5, <1>6, <1>7, <1>8, <1>9, <1>10, <1>11,
     <1>12, <1>13, <1>14, <1>15, <1>16, <1>17, <1>18, <1>19, <1>20, <1>21,
     <1>22, <1>23 DEF Next, SenderStep, ReceiverStep

\* The variables of the transfer always hold values of their types.
THEOREM TypeCorrect == Spec => []TypeOK
BY InitType, NextType, PTL DEF Spec
-----------------------------------------------------------------------------
(* Delivery: what lands, what is signed and what settles a sender.         *)

LEMMA PrefixSeq ==
  ASSUME NEW S, NEW q \in Seq(S), NEW i \in 0..Len(q)
  PROVE  SubSeq(q, 1, i) \in Seq(S)
BY SubSeqProperties

LEMMA TailSeq ==
  ASSUME NEW S, NEW q \in Seq(S), q # <<>>
  PROVE  Tail(q) \in Seq(S) /\ Head(q) \in S
BY HeadTailProperties

LEMMA AppendSeq ==
  ASSUME NEW S, NEW q \in Seq(S), NEW f \in S
  PROVE  Append(q, f) \in Seq(S)
BY AppendProperties

LEMMA DeliveryInit == Init => DeliveryInv
BY DEF Init, DeliveryInv

\* A step that touches neither the receiver nor the histories keeps the
\* invariant if it keeps both directions of every channel in order.
LEMMA DeliveryWire ==
  ASSUME TypeOK, DeliveryInv,
         UNCHANGED <<nconn, peer, receiver, part, issued>>,
         landed \subseteq landed',
         \A c \in Conn : s2r'[c] \in Seq(FramesOf(peer[c])),
         \A c \in Conn : r2s'[c] \in Seq(FramesTo(c)),
         \A c \in Conn : c > nconn => s2r'[c] = <<>> /\ r2s'[c] = <<>>
  PROVE  DeliveryInv'
BY DEF DeliveryInv, FramesTo, receiver

\* The receiver lets go of its connection.
LEMMA DeliveryAbandon ==
  ASSUME TypeOK, DeliveryInv, rpc # "idle", Abandon
  PROVE  DeliveryInv'
<1>1. nconn \in Conn
  BY RunningConn
<1>2. PICK j \in 0..Len(r2s[nconn]) :
        r2s' = [r2s EXCEPT ![nconn] = SubSeq(@, 1, j)]
  BY DEF Abandon
<1>3. \A c \in Conn : FramesTo(c)' = FramesTo(c)
  BY DEF Abandon, FramesTo
<1>4. \A c \in Conn : r2s'[c] \in Seq(FramesTo(c))
  BY <1>1, <1>2, PrefixSeq DEF DeliveryInv, TypeOK
<1>5. \A c \in Conn : s2r'[c] \in Seq(FramesOf(peer[c]))
  BY <1>1 DEF Abandon, DeliveryInv, TypeOK
<1>6. \A c \in Conn : c > nconn => s2r'[c] = <<>> /\ r2s'[c] = <<>>
  BY <1>1, <1>2, BoundAssumption DEF Abandon, DeliveryInv, TypeOK, Conn
<1> QED  BY <1>3, <1>4, <1>5, <1>6 DEF Abandon, DeliveryInv

\* Sending a frame of the right kind keeps a channel in order.
LEMMA ToReceiverOrder ==
  ASSUME TypeOK, DeliveryInv, NEW c \in Conn, c <= nconn,
         NEW f \in FramesOf(peer[c]), ToReceiver(c, f)
  PROVE  /\ \A d \in Conn : s2r'[d] \in Seq(FramesOf(peer[d]))
         /\ \A d \in Conn : d > nconn => s2r'[d] = <<>>
<1>1. Append(s2r[c], f) \in Seq(FramesOf(peer[c]))
  BY AppendSeq DEF DeliveryInv
<1>2. ~(c > nconn)
  BY BoundAssumption DEF TypeOK, Conn
<1> QED  BY <1>1, <1>2 DEF ToReceiver, DeliveryInv, TypeOK

LEMMA ToSenderOrder ==
  ASSUME TypeOK, DeliveryInv, NEW c \in Conn, c <= nconn,
         NEW f, f \in FramesTo(c), ToSender(c, f)
  PROVE  /\ \A d \in Conn : r2s'[d] \in Seq(FramesTo(d))
         /\ \A d \in Conn : d > nconn => r2s'[d] = <<>>
<1>1. Append(r2s[c], f) \in Seq(FramesTo(c))
  BY AppendSeq DEF DeliveryInv
<1>2. ~(c > nconn)
  BY BoundAssumption DEF TypeOK, Conn
<1> QED  BY <1>1, <1>2 DEF ToSender, DeliveryInv, TypeOK

\* Consuming the head of a channel, likewise.
LEMMA TailOrder ==
  ASSUME TypeOK, DeliveryInv, NEW c \in Conn
  PROVE  /\ s2r[c] # <<>> /\ s2r' = [s2r EXCEPT ![c] = Tail(@)] =>
              /\ \A d \in Conn : s2r'[d] \in Seq(FramesOf(peer[d]))
              /\ \A d \in Conn : d > nconn => s2r'[d] = <<>>
         /\ r2s[c] # <<>> /\ r2s' = [r2s EXCEPT ![c] = Tail(@)] =>
              /\ \A d \in Conn : r2s'[d] \in Seq(FramesTo(d))
              /\ \A d \in Conn : d > nconn => r2s'[d] = <<>>
<1>1. s2r[c] # <<>> => Tail(s2r[c]) \in Seq(FramesOf(peer[c])) /\ ~(c > nconn)
  BY TailSeq DEF DeliveryInv
<1>2. r2s[c] # <<>> => Tail(r2s[c]) \in Seq(FramesTo(c)) /\ ~(c > nconn)
  BY TailSeq DEF DeliveryInv
<1> QED  BY <1>1, <1>2 DEF DeliveryInv, TypeOK

LEMMA DeliveryNext == TypeOK /\ DeliveryInv /\ [Next]_vars => DeliveryInv'
<1> SUFFICES ASSUME TypeOK, DeliveryInv, [Next]_vars PROVE DeliveryInv'
  OBVIOUS
<1> USE DEF wire, session, disk, receiver
<1>0. /\ \A c \in Conn : s2r[c] \in Seq(FramesOf(peer[c]))
      /\ \A c \in Conn : r2s[c] \in Seq(FramesTo(c))
      /\ \A c \in Conn : c > nconn => s2r[c] = <<>> /\ r2s[c] = <<>>
  BY DEF DeliveryInv
<1>1. ASSUME NEW s \in Sender, Connect(s) PROVE DeliveryInv'
  <2>1. nconn + 1 \in Conn /\ nconn + 1 > nconn
    BY <1>1, BoundAssumption DEF Connect, TypeOK, Conn
  <2>2. issued[nconn + 1] = None /\ s2r[nconn + 1] = <<>>
    BY <2>1 DEF DeliveryInv
  <2>3. \A c \in Conn : s2r'[c] \in Seq(FramesOf(peer'[c]))
    <3> SUFFICES ASSUME NEW c \in Conn PROVE s2r'[c] \in Seq(FramesOf(peer'[c]))
      OBVIOUS
    <3>1. CASE c = nconn + 1
      <4>1. s2r'[c] = <<>>
        BY <1>1, <2>2, <3>1 DEF Connect
      <4> QED  BY <4>1
    <3>2. CASE c # nconn + 1
      <4>1. peer'[c] = peer[c]
        BY <1>1, <2>1, <3>2 DEF Connect, TypeOK
      <4> QED  BY <1>0, <1>1, <4>1 DEF Connect
    <3> QED  BY <3>1, <3>2
  <2>4. \A c \in Conn : FramesOf(peer[c])' = FramesOf(peer'[c])
    BY DEF FramesOf
  <2>5. \A c \in Conn : FramesTo(c)' = FramesTo(c)
    BY <1>1 DEF Connect, FramesTo
  <2>6. \A c \in Conn : c > nconn' => c > nconn
    BY <1>1, <2>1, BoundAssumption DEF Connect, TypeOK, Conn
  <2> QED  BY <1>0, <1>1, <2>2, <2>3, <2>4, <2>5, <2>6 DEF Connect, DeliveryInv
<1>2. ASSUME NEW c \in Conn, Drop(c) PROVE DeliveryInv'
  <2>1. PICK i \in 0..Len(s2r[c]), j \in 0..Len(r2s[c]) :
          /\ s2r' = [s2r EXCEPT ![c] = SubSeq(@, 1, i)]
          /\ r2s' = [r2s EXCEPT ![c] = SubSeq(@, 1, j)]
    BY <1>2 DEF Drop
  <2>2. /\ SubSeq(s2r[c], 1, i) \in Seq(FramesOf(peer[c]))
        /\ SubSeq(r2s[c], 1, j) \in Seq(FramesTo(c))
        /\ s2r[c] = <<>> => SubSeq(s2r[c], 1, i) = <<>>
        /\ r2s[c] = <<>> => SubSeq(r2s[c], 1, j) = <<>>
    BY <1>0, PrefixSeq
  <2>3. /\ \A d \in Conn : s2r'[d] \in Seq(FramesOf(peer[d]))
        /\ \A d \in Conn : r2s'[d] \in Seq(FramesTo(d))
        /\ \A d \in Conn : d > nconn => s2r'[d] = <<>> /\ r2s'[d] = <<>>
    BY <1>0, <2>1, <2>2 DEF TypeOK
  <2> QED  BY <1>2, <2>3, DeliveryWire DEF Drop
<1>3. ASSUME NEW c \in Conn, SendManifest(c) PROVE DeliveryInv'
  <2>1. peer[c] \in Sender /\ c <= nconn
    BY <1>3, SessionPeer DEF SendManifest, TypeOK
  <2>2. [type |-> "MANIFEST", provider |-> peer[c], root |-> Content[peer[c]]]
          \in FramesOf(peer[c])
    BY <2>1, ContentType DEF FramesOf, SenderFrame, ManifestFrame
  <2> QED
    BY <1>0, <1>3, <2>1, <2>2, ToReceiverOrder, DeliveryWire DEF SendManifest
<1>4. ASSUME NEW c \in Conn, ReceiveResume(c) PROVE DeliveryInv'
  BY <1>0, <1>4, TailOrder, DeliveryWire DEF ReceiveResume
<1>5. ASSUME NEW c \in Conn, SendChunk(c) PROVE DeliveryInv'
  <2>1. peer[c] \in Sender /\ c <= nconn
    BY <1>5, SessionPeer DEF SendChunk, TypeOK
  <2>2. snext[c] \in Nat /\ Content[peer[c]][snext[c] + 1] \in Chunk
    BY <1>5, <2>1, ContentType DEF SendChunk, TypeOK
  <2>3. [type |-> "CHUNK", index |-> snext[c],
         data |-> Content[peer[c]][snext[c] + 1]] \in FramesOf(peer[c])
    BY <2>2 DEF FramesOf, SenderFrame, ChunkFrame
  <2> QED
    BY <1>0, <1>5, <2>1, <2>3, ToReceiverOrder, DeliveryWire DEF SendChunk
<1>6. ASSUME NEW c \in Conn, SendDone(c) PROVE DeliveryInv'
  <2>1. c <= nconn
    BY <1>6 DEF SendDone, TypeOK
  <2>2. [type |-> "DONE"] \in FramesOf(peer[c])
    BY DEF FramesOf, SenderFrame, DoneFrame
  <2> QED
    BY <1>0, <1>6, <2>1, <2>2, ToReceiverOrder, DeliveryWire DEF SendDone
<1>7. ASSUME NEW c \in Conn, ReceiveReceipt(c) PROVE DeliveryInv'
  BY <1>0, <1>7, TailOrder, DeliveryWire DEF ReceiveReceipt
<1>8. ASSUME NEW c \in Conn, SenderFail(c) PROVE DeliveryInv'
  <2>1. PICK i \in 0..Len(s2r[c]) :
          s2r' = IF up[c] THEN [s2r EXCEPT ![c] = SubSeq(@, 1, i)] ELSE s2r
    BY <1>8 DEF SenderFail
  <2>2. /\ SubSeq(s2r[c], 1, i) \in Seq(FramesOf(peer[c]))
        /\ s2r[c] = <<>> => SubSeq(s2r[c], 1, i) = <<>>
    BY <1>0, PrefixSeq
  <2>3. /\ \A d \in Conn : s2r'[d] \in Seq(FramesOf(peer[d]))
        /\ \A d \in Conn : d > nconn => s2r'[d] = <<>>
    BY <1>0, <2>1, <2>2 DEF TypeOK
  <2> QED  BY <1>0, <1>8, <2>3, DeliveryWire DEF SenderFail
<1>9. ASSUME ReceiveManifest PROVE DeliveryInv'
  <2>1. nconn \in Conn /\ s2r[nconn] # <<>>
    BY <1>9, RunningConn DEF ReceiveManifest, Incoming
  <2>2. Head(s2r[nconn]) \in FramesOf(peer[nconn])
    BY <1>0, <2>1, TailSeq
  <2>3. mem'.provider = peer[nconn] /\ mem'.root = Content[peer[nconn]]
    BY <1>9, <2>2 DEF ReceiveManifest, Incoming, FramesOf
  <2>4. /\ \A d \in Conn : s2r'[d] \in Seq(FramesOf(peer[d]))
        /\ \A d \in Conn : d > nconn => s2r'[d] = <<>>
    BY <1>9, <2>1, TailOrder DEF ReceiveManifest, Consume
  <2>5. \A c \in Conn : FramesTo(c)' = FramesTo(c)
    BY <1>9 DEF ReceiveManifest, FramesTo
  <2> QED  BY <1>9, <2>3, <2>4, <2>5 DEF ReceiveManifest, DeliveryInv
<1>10. ASSUME LoadSidecar PROVE DeliveryInv'
  <2>1. mem \in Memory
    BY <1>10 DEF LoadSidecar, TypeOK
  <2>2. mem'.provider = mem.provider /\ mem'.root = mem.root
    BY <1>10, <2>1 DEF LoadSidecar, Memory
  <2>3. \A c \in Conn : FramesTo(c)' = FramesTo(c)
    BY <1>10 DEF LoadSidecar, FramesTo
  <2> QED  BY <1>10, <2>2, <2>3 DEF LoadSidecar, DeliveryInv
<1>11. ASSUME HealPart PROVE DeliveryInv'
  <2>1. mem \in Memory
    BY <1>11 DEF HealPart, TypeOK
  <2>2. mem'.provider = mem.provider /\ mem'.root = mem.root
    BY <1>11, <2>1 DEF HealPart, Memory
  <2>3. \A c \in Conn : FramesTo(c)' = FramesTo(c)
    BY <1>11 DEF HealPart, FramesTo
  <2> QED  BY <1>11, <2>2, <2>3 DEF HealPart, DeliveryInv
<1>12. ASSUME SendResume PROVE DeliveryInv'
  <2>1. nconn \in Conn /\ nconn <= nconn /\ mem.verified \in Nat
    BY <1>12, RunningConn, BoundAssumption DEF SendResume, TypeOK, Memory, Conn
  <2>2. [type |-> "RESUME", fromChunk |-> mem.verified] \in FramesTo(nconn)
    BY <2>1 DEF FramesTo, ReceiverFrame, ResumeFrame
  <2>3. /\ \A d \in Conn : r2s'[d] \in Seq(FramesTo(d))
        /\ \A d \in Conn : d > nconn => r2s'[d] = <<>>
    BY <1>12, <2>1, <2>2, ToSenderOrder DEF SendResume
  <2>4. \A c \in Conn : FramesTo(c)' = FramesTo(c)
    BY <1>12 DEF SendResume, FramesTo
  <2> QED  BY <1>12, <2>3, <2>4 DEF SendResume, DeliveryInv
<1>13. ASSUME ReceiveChunk PROVE DeliveryInv'
  <2>1. nconn \in Conn /\ s2r[nconn] # <<>>
    BY <1>13, RunningConn DEF ReceiveChunk, Incoming
  <2>2. /\ \A d \in Conn : s2r'[d] \in Seq(FramesOf(peer[d]))
        /\ \A d \in Conn : d > nconn => s2r'[d] = <<>>
    BY <1>13, <2>1, TailOrder DEF ReceiveChunk, Consume
  <2>3. \A c \in Conn : FramesTo(c)' = FramesTo(c)
    BY <1>13 DEF ReceiveChunk, FramesTo
  <2> QED  BY <1>13, <2>2, <2>3 DEF ReceiveChunk, DeliveryInv
<1>14. ASSUME WriteChunk PROVE DeliveryInv'
  <2>1. \A c \in Conn : FramesTo(c)' = FramesTo(c)
    BY <1>14 DEF WriteChunk, FramesTo
  <2> QED  BY <1>14, <2>1 DEF WriteChunk, DeliveryInv
<1>15. ASSUME SaveSidecar PROVE DeliveryInv'
  <2>1. mem \in Memory
    BY <1>15 DEF SaveSidecar, TypeOK
  <2>2. mem'.provider = mem.provider /\ mem'.root = mem.root
    BY <1>15, <2>1 DEF SaveSidecar, Memory
  <2>3. \A c \in Conn : FramesTo(c)' = FramesTo(c)
    BY <1>15 DEF SaveSidecar, FramesTo
  <2> QED  BY <1>15, <2>2, <2>3 DEF SaveSidecar, DeliveryInv
<1>16. ASSUME ReceiveDone PROVE DeliveryInv'
  <2>1. nconn \in Conn /\ s2r[nconn] # <<>>
    BY <1>16, RunningConn DEF ReceiveDone, Incoming
  <2>2. /\ \A d \in Conn : s2r'[d] \in Seq(FramesOf(peer[d]))
        /\ \A d \in Conn : d > nconn => s2r'[d] = <<>>
    BY <1>16, <2>1, TailOrder DEF ReceiveDone, Consume
  <2>3. \A c \in Conn : FramesTo(c)' = FramesTo(c)
    BY <1>16 DEF ReceiveDone, FramesTo
  <2> QED  BY <1>16, <2>2, <2>3 DEF ReceiveDone, DeliveryInv
<1>17. ASSUME VerifyFile PROVE DeliveryInv'
  <2>1. \A c \in Conn : FramesTo(c)' = FramesTo(c)
    BY <1>17 DEF VerifyFile, FramesTo
  <2> QED  BY <1>17, <2>1 DEF VerifyFile, Assembled, Offered, DeliveryInv
<1>18. ASSUME RenamePart PROVE DeliveryInv'
  <2>1. \A c \in Conn : FramesTo(c)' = FramesTo(c)
    BY <1>18 DEF RenamePart, FramesTo
  <2> QED  BY <1>18, <2>1 DEF RenamePart, DeliveryInv
<1>19. ASSUME UnlinkSidecar PROVE DeliveryInv'
  <2>1. \A c \in Conn : FramesTo(c)' = FramesTo(c)
    BY <1>19 DEF UnlinkSidecar, FramesTo
  <2> QED  BY <1>19, <2>1 DEF UnlinkSidecar, DeliveryInv
<1>20. ASSUME SendReceipt PROVE DeliveryInv'
  <2> DEFINE r == [provider |-> mem.provider, consumer |-> mem.seed,
                   channel |-> mem.root]
             G(c) == {f \in ReceiverFrame :
                        f.type = "RECEIPT" => f.receipt = issued'[c]}
  <2>1. nconn \in Conn /\ nconn <= nconn /\ r \in Receipt
    BY <1>20, RunningConn, BoundAssumption DEF SendReceipt, TypeOK, Memory, Receipt, Conn
  <2>2. issued' = [issued EXCEPT ![nconn] = r] /\ ToSender(nconn, [type |-> "RECEIPT", receipt |-> r])
    BY <1>20 DEF SendReceipt
  <2>3. issued[nconn] = None /\ issued'[nconn] = r
    BY <1>20, <2>1, <2>2 DEF SendReceipt, DeliveryInv, TypeOK
  <2>4. \A c \in Conn : FramesTo(c) \subseteq G(c)
    <3> SUFFICES ASSUME NEW c \in Conn, NEW f \in FramesTo(c)
                 PROVE  f \in G(c)
      OBVIOUS
    <3>1. f \in ReceiverFrame /\ (f.type = "RECEIPT" => f.receipt = issued[c])
      BY DEF FramesTo
    <3>2. CASE c = nconn
      <4>1. f.type # "RECEIPT"
        BY <2>3, <3>1, <3>2, ReceiverFrameKinds, NoneAssumption
      <4> QED  BY <3>1, <4>1
    <3>3. CASE c # nconn
      BY <2>2, <3>1, <3>3 DEF TypeOK
    <3> QED  BY <3>2, <3>3
  <2>5. [type |-> "RECEIPT", receipt |-> r] \in G(nconn)
    BY <2>1, <2>3 DEF ReceiverFrame, ReceiptFrame
  <2>6. \A c \in Conn : r2s[c] \in Seq(G(c))
    BY <1>0, <2>4
  <2>7. \A c \in Conn : r2s'[c] \in Seq(FramesTo(c)')
    <3> HIDE DEF G, r
    <3>1. Append(r2s[nconn], [type |-> "RECEIPT", receipt |-> r])
            \in Seq(G(nconn))
      BY <2>1, <2>5, <2>6, AppendSeq
    <3>2. \A c \in Conn : r2s'[c] \in Seq(G(c))
      BY <2>1, <2>2, <2>6, <3>1 DEF ToSender, TypeOK
    <3> QED  BY <3>2 DEF G, FramesTo
  <2>8. \A c \in Conn : c > nconn => r2s'[c] = <<>> /\ issued'[c] = None
    <3> SUFFICES ASSUME NEW c \in Conn, c > nconn
                 PROVE  r2s'[c] = <<>> /\ issued'[c] = None
      OBVIOUS
    <3>1. c # nconn
      BY <2>1, BoundAssumption DEF Conn
    <3>2. r2s'[c] = r2s[c] /\ issued'[c] = issued[c]
      BY <2>1, <2>2, <3>1 DEF ToSender, TypeOK
    <3> QED  BY <3>2 DEF DeliveryInv
  <2>9. \A c \in Conn : issued'[c] # None => issued'[c].channel \in landed
    BY <1>20, <2>1, <2>2 DEF SendReceipt, DeliveryInv, TypeOK
  <2> QED  BY <1>0, <1>20, <2>7, <2>8, <2>9 DEF SendReceipt, DeliveryInv
<1>21. ASSUME ReceiverFail PROVE DeliveryInv'
  BY <1>21, DeliveryAbandon DEF ReceiverFail
<1>22. ASSUME Kill PROVE DeliveryInv'
  BY <1>22, DeliveryAbandon, KillableAssumption DEF Kill
<1>23. CASE UNCHANGED vars
  BY <1>0, <1>23, DeliveryWire DEF vars
<1> QED
  BY <1>1, <1>2, <1>3, <1>4, <1>5, <1>6, <1>7, <1>8, <1>9, <1>10, <1>11,
     <1>12, <1>13, <1>14, <1>15, <1>16, <1>17, <1>18, <1>19, <1>20, <1>21,
     <1>22, <1>23 DEF Next, SenderStep, ReceiverStep

LEMMA DeliveryInvariant == Spec => []DeliveryInv
BY TypeCorrect, DeliveryInit, DeliveryNext, PTL DEF Spec

\* Every step of the transfer is a landing, a settlement or invisible.
LEMMA DeliveryStep ==
  ASSUME TypeOK, DeliveryInv, [Next]_vars
  PROVE  [Delivery!Next]_(Delivery!vars)
<1> USE DEF wire, session, disk, receiver
<1>1. CASE RenamePart
  <2>1. nconn \in Conn /\ peer[nconn] \in Sender
    BY <1>1, RunningConn DEF RenamePart
  <2>2. part = Content[peer[nconn]]
    BY <1>1 DEF RenamePart, DeliveryInv
  <2>3. Delivery!Land(peer[nconn])
    BY <1>1, <2>2 DEF RenamePart, Delivery!Land
  <2> QED  BY <2>1, <2>3 DEF Delivery!Next
<1>2. ASSUME NEW c \in Conn, ReceiveReceipt(c)
      PROVE  [Delivery!Next]_(Delivery!vars)
  <2> DEFINE s == peer[c]
             r == Head(r2s[c]).receipt
  <2>1. s \in Sender
    BY <1>2, SessionPeer DEF ReceiveReceipt
  <2>2. Head(r2s[c]) \in FramesTo(c)
    BY <1>2, TailSeq DEF ReceiveReceipt, DeliveryInv
  <2>3. r \in Receipt /\ r = issued[c]
    BY <1>2, <2>2, ReceiverFrameKinds DEF ReceiveReceipt, FramesTo
  <2>4. r.channel = Content[s] /\ r.provider = s
    BY <1>2 DEF ReceiveReceipt, ReceiptOK
  <2>5. Content[s] \in landed
    BY <2>3, <2>4, NoneAssumption DEF DeliveryInv
  <2>6. r.consumer \in Conn /\ r = Delivery!ReceiptFor(s, r.consumer)
    BY <2>3, <2>4 DEF Receipt, Delivery!ReceiptFor
  <2>7. CASE finished[s] = None
    <3>1. finished' = [finished EXCEPT ![s] = r]
      BY <1>2, <2>7 DEF ReceiveReceipt
    <3>2. Delivery!Settle(s)
      BY <1>2, <2>5, <2>6, <2>7, <3>1 DEF ReceiveReceipt, Delivery!Settle
    <3> QED  BY <2>1, <3>2 DEF Delivery!Next
  <2>8. CASE finished[s] # None
    BY <1>2, <2>8 DEF ReceiveReceipt, Delivery!vars
  <2> QED  BY <2>7, <2>8
<1>3. ASSUME NEW s \in Sender, Connect(s)
      PROVE  UNCHANGED Delivery!vars
  BY <1>3 DEF Connect, Delivery!vars
<1>4. ASSUME NEW c \in Conn,
             \/ Drop(c) \/ SendManifest(c) \/ ReceiveResume(c)
             \/ SendChunk(c) \/ SendDone(c) \/ SenderFail(c)
      PROVE  UNCHANGED Delivery!vars
  BY <1>4 DEF Drop, SendManifest, ReceiveResume, SendChunk, SendDone,
              SenderFail, Delivery!vars
<1>5. ASSUME \/ ReceiveManifest \/ LoadSidecar \/ HealPart \/ SendResume
             \/ ReceiveChunk \/ WriteChunk \/ SaveSidecar \/ ReceiveDone
             \/ VerifyFile \/ UnlinkSidecar \/ SendReceipt
      PROVE  UNCHANGED Delivery!vars
  BY <1>5 DEF ReceiveManifest, LoadSidecar, HealPart, SendResume,
              ReceiveChunk, WriteChunk, SaveSidecar, ReceiveDone, VerifyFile,
              UnlinkSidecar, SendReceipt, Delivery!vars
<1>6. ASSUME ReceiverFail \/ Kill
      PROVE  UNCHANGED Delivery!vars
  BY <1>6 DEF ReceiverFail, Kill, Abandon, Delivery!vars
<1>7. CASE UNCHANGED vars
  BY <1>7 DEF vars, Delivery!vars
<1> QED
  BY <1>1, <1>2, <1>3, <1>4, <1>5, <1>6, <1>7 DEF Next, SenderStep, ReceiverStep

\* The transfer implements FileDelivery: whatever is dropped, killed or
\* retried, only whole offered files land and a sender settles only with a
\* receipt for landed bytes.
THEOREM TransferImplementsDelivery == Spec => ImplementsDelivery
<1>1. Init => Delivery!Init
  BY DEF Init, Delivery!Init
<1>2. TypeOK /\ DeliveryInv /\ [Next]_vars => [Delivery!Next]_(Delivery!vars)
  BY DeliveryStep
<1> QED
  BY <1>1, <1>2, TypeCorrect, DeliveryInvariant, PTL
  DEF Spec, ImplementsDelivery, Delivery!Spec
-----------------------------------------------------------------------------
(* What survives a failed attempt: a consumer identity signs once, and,    *)
(* where nothing but one content is received under the name and no kill    *)
(* falls between rename and unlink, a resume continues from exactly the    *)
(* verified prefix.                                                        *)

LEMMA SignerInit == Init => SignerInv
BY DEF Init, SignerInv, OneReceiptPerIdentity, Signers

\* A step that signs nothing, makes no connection and either leaves the
\* receiver where it is or ends its attempt keeps the invariant.
LEMMA SignerQuiet ==
  ASSUME TypeOK, SignerInv, UNCHANGED <<nconn, sidecar, issued>>,
         \/ UNCHANGED <<rpc, mem>>
         \/ rpc' = "idle"
  PROVE  SignerInv'
<1>1. Signers' = Signers /\ (OneReceiptPerIdentity => OneReceiptPerIdentity')
  BY DEF Signers, OneReceiptPerIdentity
<1> QED  BY <1>1 DEF SignerInv

\* A step of the receiver past loading that keeps its seed, its connection
\* and the sidecar.
LEMMA SignerRunning ==
  ASSUME TypeOK, SignerInv, UNCHANGED <<nconn, sidecar, issued>>,
         rpc \notin {"idle", "manifest", "load"},
         rpc' \notin {"idle", "manifest", "load", "receipt"},
         mem'.seed = mem.seed
  PROVE  SignerInv'
<1>1. Signers' = Signers /\ (OneReceiptPerIdentity => OneReceiptPerIdentity')
  BY DEF Signers, OneReceiptPerIdentity
<1> QED  BY <1>1 DEF SignerInv

LEMMA SignerNext == TypeOK /\ SignerInv /\ [Next]_vars => SignerInv'
<1> SUFFICES ASSUME TypeOK, SignerInv, [Next]_vars PROVE SignerInv'
  OBVIOUS
<1> USE DEF wire, session, disk, receiver
<1>0. ASSUME issued' = issued
      PROVE  Signers' = Signers /\ OneReceiptPerIdentity'
  BY <1>0 DEF Signers, OneReceiptPerIdentity, SignerInv
<1>1. ASSUME NEW s \in Sender, Connect(s) PROVE SignerInv'
  <2>1. Signers \subseteq Conn
    BY DEF Signers, TypeOK, Receipt
  <2>2. \A k \in Signers : k < nconn + 1
    BY <2>1, BoundAssumption DEF SignerInv, TypeOK, Conn
  <2>3. sidecar # None => sidecar.seed < nconn + 1
    BY BoundAssumption DEF SignerInv, TypeOK, Conn, Sidecar
  <2>4. rpc' = "manifest" /\ nconn' = nconn + 1 /\ UNCHANGED <<sidecar, issued>>
    BY <1>1 DEF Connect
  <2>5. Signers' = Signers /\ OneReceiptPerIdentity'
    BY <1>0, <2>4
  <2>6. \A k \in Signers' : k <= nconn' /\ k < nconn'
    BY <2>1, <2>2, <2>4, <2>5, BoundAssumption DEF TypeOK, Conn
  <2>7. sidecar' # None =>
          /\ sidecar'.seed <= nconn' /\ sidecar'.seed \notin Signers'
          /\ sidecar'.seed < nconn'
    <3>1. sidecar # None => sidecar.seed \in Nat /\ sidecar.seed \notin Signers
      BY BoundAssumption DEF SignerInv, TypeOK, Conn, Sidecar
    <3>2. nconn' \in Nat
      BY <2>4, BoundAssumption DEF TypeOK
    <3> QED  BY <2>3, <2>4, <2>5, <3>1, <3>2
  <2> QED  BY <2>4, <2>5, <2>6, <2>7 DEF SignerInv
<1>2. ASSUME NEW c \in Conn, Drop(c) \/ SenderStep(c) PROVE SignerInv'
  BY <1>2, SignerQuiet DEF Drop, SenderStep, SendManifest, ReceiveResume,
     SendChunk, SendDone, ReceiveReceipt, SenderFail
<1>3. ASSUME ReceiveManifest PROVE SignerInv'
  BY <1>0, <1>3 DEF ReceiveManifest, SignerInv
<1>4. ASSUME LoadSidecar PROVE SignerInv'
  <2>1. mem \in Memory /\ nconn \in Conn
    BY <1>4, RunningConn DEF LoadSidecar, TypeOK
  <2>2. \/ mem'.seed = nconn
        \/ sidecar # None /\ mem'.seed = sidecar.seed
    BY <1>4, <2>1 DEF LoadSidecar, Memory
  <2>3. nconn \notin Signers
    BY <1>4, <2>1 DEF LoadSidecar, SignerInv, Conn
  <2>4. mem'.seed <= nconn /\ mem'.seed \notin Signers
    BY <2>1, <2>2, <2>3, BoundAssumption DEF SignerInv, Conn
  <2> QED  BY <1>0, <1>4, <2>4 DEF LoadSidecar, SignerInv
<1>5. ASSUME HealPart PROVE SignerInv'
  <2>1. mem'.seed = mem.seed
    BY <1>5 DEF HealPart, TypeOK, Memory
  <2> QED  BY <1>5, <2>1, SignerRunning DEF HealPart
<1>6. ASSUME \/ SendResume \/ ReceiveChunk \/ WriteChunk \/ ReceiveDone
             \/ VerifyFile \/ RenamePart
      PROVE  SignerInv'
  BY <1>6, SignerRunning DEF SendResume, ReceiveChunk, WriteChunk,
     ReceiveDone, VerifyFile, RenamePart
<1>7. ASSUME SaveSidecar PROVE SignerInv'
  <2>1. mem'.seed = mem.seed
    BY <1>7 DEF SaveSidecar, TypeOK, Memory
  <2>2. sidecar'.seed = mem.seed
    BY <1>7 DEF SaveSidecar
  <2> QED  BY <1>0, <1>7, <2>1, <2>2 DEF SaveSidecar, SignerInv
<1>8. ASSUME UnlinkSidecar PROVE SignerInv'
  BY <1>0, <1>8 DEF UnlinkSidecar, SignerInv
<1>9. ASSUME SendReceipt PROVE SignerInv'
  <2>1. nconn \in Conn /\ mem \in Memory
    BY <1>9, RunningConn DEF SendReceipt, TypeOK
  <2> DEFINE r == [provider |-> mem.provider, consumer |-> mem.seed,
                   channel |-> mem.root]
  <2>2. issued' = [issued EXCEPT ![nconn] = r] /\ r.consumer = mem.seed
    BY <1>9 DEF SendReceipt
  <2>3. mem.seed <= nconn /\ mem.seed \notin Signers
    BY <1>9 DEF SendReceipt, SignerInv
  <2>4. \A c \in Conn : issued[c] # None => issued[c].consumer # mem.seed
    BY <2>3 DEF Signers
  <2>5. OneReceiptPerIdentity'
    BY <2>1, <2>2, <2>4 DEF OneReceiptPerIdentity, SignerInv, TypeOK
  <2>6. \A k \in Signers' : k \in Signers \/ k = mem.seed
    BY <2>1, <2>2 DEF Signers, TypeOK
  <2> QED  BY <1>9, <2>3, <2>5, <2>6 DEF SendReceipt, SignerInv
<1>10. ASSUME ReceiverFail \/ Kill PROVE SignerInv'
  BY <1>10, SignerQuiet DEF ReceiverFail, Kill, Abandon
<1>11. CASE UNCHANGED vars
  BY <1>11, SignerQuiet DEF vars
<1> QED
  BY <1>1, <1>2, <1>3, <1>4, <1>5, <1>6, <1>7, <1>8, <1>9, <1>10, <1>11
  DEF Next, ReceiverStep

\* However often a download is dropped, killed and resumed, one consumer
\* identity signs at most one receipt.
THEOREM IdentitySignsOnce == Spec => []OneReceiptPerIdentity
<1>1. SignerInv => OneReceiptPerIdentity
  BY DEF SignerInv
<1> QED  BY <1>1, SignerInit, SignerNext, TypeCorrect, PTL DEF Spec
-----------------------------------------------------------------------------
(* Resume, where one content only is received under the name.              *)

SoleContent == \A s, t \in Sender : Content[s] = Content[t]

LEMMA ResumeInit == Init => ResumeInv
BY DEF Init, ResumeInv

\* Steps elsewhere: disk, memory and the receiver's place are unchanged.
LEMMA ResumeQuiet ==
  ASSUME ResumeInv, UNCHANGED <<disk, receiver>>
  PROVE  ResumeInv'
BY DEF ResumeInv, Offered, disk, receiver

\* An attempt that ends leaves a sidecar that the .part still covers.
LEMMA ResumeEnd ==
  ASSUME ResumeInv, rpc # "unlink", rpc' = "idle", sidecar' = sidecar,
         \/ part' = part
         \/ /\ sidecar # None
              => part' # None /\ StartsWith(part', sidecar.root, sidecar.verified)
  PROVE  ResumeInv'
BY DEF ResumeInv

\* Extending a file by one chunk, or by a torn one, keeps its prefix.
LEMMA WriteAtEnd ==
  ASSUME NEW p \in Seq(Slot), NEW data \in Slot
  PROVE  /\ Len(WriteAt(p, Len(p), data)) = Len(p) + 1
         /\ \A i \in 1..Len(p) : WriteAt(p, Len(p), data)[i] = p[i]
         /\ WriteAt(p, Len(p), data)[Len(p) + 1] = data
<1>1. Len(p) \in Nat /\ ~(Len(p) > Len(p))
  OBVIOUS
<1>2. WriteAt(p, Len(p), data) =
        [i \in 1..(Len(p) + 1) |->
           IF i = Len(p) + 1 THEN data ELSE IF i <= Len(p) THEN p[i] ELSE Zero]
  BY <1>1 DEF WriteAt
<1> QED  BY <1>1, <1>2

\* Loading: what the sidecar claims, the .part has.
LEMMA ResumeLoad ==
  ASSUME SoleContent, TypeOK, DeliveryInv, ResumeInv, LoadSidecar
  PROVE  ResumeInv'
<1>1. peer[nconn] \in Sender /\ mem \in Memory
  BY RunningConn DEF LoadSidecar, TypeOK
<1>2. sidecar # None => sidecar.root = Offered
  BY <1>1 DEF LoadSidecar, DeliveryInv, ResumeInv, Offered
<1>3. mem'.verified = IF sidecar = None THEN 0 ELSE sidecar.verified
  BY <1>1, <1>2 DEF LoadSidecar, Memory
<1> QED  BY <1>3 DEF LoadSidecar, ResumeInv, disk, Offered

\* The self-heal cuts the .part back to the chunks the sidecar claims.
LEMMA ResumeHeal ==
  ASSUME SoleContent, TypeOK, DeliveryInv, ResumeInv, HealPart
  PROVE  ResumeInv'
<1>1. /\ peer[nconn] \in Sender /\ mem \in Memory
      /\ part \in Seq(Slot) \cup {None} /\ sidecar \in Sidecar \cup {None}
  BY RunningConn DEF HealPart, TypeOK
<1>2. Offered \in Seq(Chunk)
  BY <1>1 DEF Offered, Memory
<1>3. sidecar # None =>
        /\ sidecar.root = Offered /\ mem.verified = sidecar.verified
        /\ part # None /\ StartsWith(part, Offered, mem.verified)
  BY <1>1 DEF HealPart, DeliveryInv, ResumeInv, Offered
<1>4. sidecar = None => mem.verified = 0
  BY DEF HealPart, ResumeInv
<1>5. mem'.verified = mem.verified /\ mem'.root = mem.root
  BY <1>1, <1>3, <1>4 DEF HealPart, Memory
<1>6. part' # None /\ Len(part') = mem.verified
      /\ StartsWith(part', Offered, mem.verified)
  <2>1. CASE part = None
    <3>1. part' = <<>> /\ mem.verified = 0
      BY <1>3, <1>4, <2>1 DEF HealPart
    <3>2. <<>> \in Seq(Slot) /\ Len(<<>>) = 0
      OBVIOUS
    <3>3. part' # None
      BY <3>1, <3>2, NoneAssumption
    <3>4. 0 <= Len(Offered)
      BY <1>2
    <3> QED  BY <3>1, <3>2, <3>3, <3>4 DEF StartsWith
  <2>2. CASE part # None
    <3>1. part' = Resize(part, mem.verified) /\ mem.verified \in Nat
      BY <1>1, <2>2, NoneAssumption DEF HealPart, Memory
    <3>2. part' \in Seq(Slot) /\ Len(part') = mem.verified
      BY <1>1, <2>2, <3>1, ResizeType
    <3>3. mem.verified <= Len(Offered)
          /\ \A i \in 1..mem.verified : part'[i] = Offered[i]
      BY <1>2, <1>3, <1>4, <2>2, <3>1, <1>1 DEF Resize, StartsWith
    <3> QED  BY <3>1, <3>2, <3>3, NoneAssumption DEF StartsWith
  <2> QED  BY <2>1, <2>2
<1>7. rpc' = "resume" /\ sidecar' = sidecar
  BY DEF HealPart
<1>8. sidecar' # None =>
        /\ \A s \in Sender : sidecar'.root = Content[s]
        /\ StartsWith(part', sidecar'.root, sidecar'.verified)
        /\ sidecar'.verified <= mem'.verified
  BY <1>1, <1>3, <1>5, <1>6, <1>7 DEF ResumeInv, Memory
<1>9. Offered' = Offered
  BY <1>5 DEF Offered
<1>10. /\ StartsWith(part', Offered', mem'.verified)
       /\ Len(part') = mem'.verified
  BY <1>5, <1>6, <1>9
<1> QED  BY <1>6, <1>7, <1>8, <1>10 DEF ResumeInv

\* While chunks are written, the .part is exactly the verified prefix, so a
\* write lands at its end.
LEMMA WriteKeepsPrefix ==
  ASSUME TypeOK, ResumeInv, rpc = "write", NEW data \in Slot
  PROVE  LET p == WriteAt(part, mem.verified, data)
         IN  /\ p # None /\ Len(p) = mem.verified + 1
             /\ p[mem.verified + 1] = data
             /\ \A i \in 1..mem.verified : p[i] = Offered[i]
<1> DEFINE p == WriteAt(part, mem.verified, data)
<1>1. part \in Seq(Slot) /\ mem.verified \in Nat
  BY NoneAssumption DEF TypeOK, Memory
<1>2. Len(part) = mem.verified
      /\ \A i \in 1..mem.verified : part[i] = Offered[i]
  BY DEF ResumeInv, StartsWith
<1>3. p \in Seq(Slot)
  BY <1>1, WriteAtType
<1>4. p # None
  BY <1>3, NoneAssumption
<1>5. Len(p) = mem.verified + 1 /\ p[mem.verified + 1] = data
      /\ \A i \in 1..mem.verified : p[i] = part[i]
  BY <1>1, <1>2, WriteAtEnd
<1> QED  BY <1>2, <1>4, <1>5

\* A sidecar behind the receiver is covered by whatever a write leaves.
LEMMA WriteCovers ==
  ASSUME SoleContent, TypeOK, DeliveryInv, ResumeInv, rpc = "write",
         sidecar # None, NEW data \in Slot
  PROVE  StartsWith(WriteAt(part, mem.verified, data), sidecar.root,
                    sidecar.verified)
<1> DEFINE p == WriteAt(part, mem.verified, data)
<1>1. peer[nconn] \in Sender /\ mem.verified \in Nat /\ sidecar.verified \in Nat
  BY RunningConn, NoneAssumption DEF TypeOK, Memory, Sidecar
<1>2. sidecar.root = Offered
  BY <1>1 DEF DeliveryInv, ResumeInv, Offered
<1>3. sidecar.verified <= mem.verified /\ sidecar.verified <= Len(sidecar.root)
  BY DEF ResumeInv, StartsWith
<1>4. Len(p) = mem.verified + 1 /\ \A i \in 1..mem.verified : p[i] = Offered[i]
  BY WriteKeepsPrefix
<1> QED  BY <1>1, <1>2, <1>3, <1>4 DEF StartsWith

LEMMA ResumeWrite ==
  ASSUME SoleContent, TypeOK, DeliveryInv, ResumeInv, WriteChunk
  PROVE  ResumeInv'
<1>1. frame \in ChunkFrame /\ frame.data \in Slot /\ mem.verified \in Nat
  BY NoneAssumption DEF WriteChunk, TypeOK, ChunkFrame, Slot, Memory
<1>2. /\ part' = WriteAt(part, mem.verified, frame.data)
      /\ rpc = "write" /\ rpc' = "save"
      /\ mem' = mem /\ sidecar' = sidecar
  BY DEF WriteChunk
<1>3. /\ part' # None /\ Len(part') = mem.verified + 1
      /\ part'[mem.verified + 1] = frame.data
      /\ \A i \in 1..mem.verified : part'[i] = Offered[i]
  BY <1>1, <1>2, WriteKeepsPrefix
<1>4. mem.verified < Len(Offered) /\ frame.data = Offered[mem.verified + 1]
  BY <1>2 DEF ResumeInv
<1>5. StartsWith(part', Offered', mem'.verified + 1)
  <2>1. mem.verified + 1 <= Len(Offered)
    BY <1>1, <1>4, RunningConn, <1>2 DEF TypeOK, Memory, Offered
  <2>2. \A i \in 1..(mem.verified + 1) : part'[i] = Offered[i]
    BY <1>1, <1>3, <1>4
  <2> QED  BY <1>1, <1>2, <1>3, <2>1, <2>2 DEF StartsWith, Offered
<1>6. sidecar' # None =>
        /\ \A s \in Sender : sidecar'.root = Content[s]
        /\ StartsWith(part', sidecar'.root, sidecar'.verified)
        /\ sidecar'.verified <= mem'.verified
  BY <1>1, <1>2, WriteCovers DEF ResumeInv
<1> QED  BY <1>2, <1>3, <1>5, <1>6 DEF ResumeInv

LEMMA ResumeSave ==
  ASSUME SoleContent, TypeOK, DeliveryInv, ResumeInv, SaveSidecar
  PROVE  ResumeInv'
<1>1. peer[nconn] \in Sender /\ mem \in Memory /\ mem.verified \in Nat
  BY RunningConn, NoneAssumption DEF SaveSidecar, TypeOK, Memory
<1>2. /\ rpc = "save" /\ rpc' = "chunks" /\ part' = part /\ part # None
      /\ mem'.verified = mem.verified + 1 /\ mem'.root = mem.root
      /\ sidecar'.root = mem.root /\ sidecar'.verified = mem.verified + 1
  BY <1>1 DEF SaveSidecar, TypeOK, Memory
<1>3. StartsWith(part, Offered, mem.verified + 1)
      /\ Len(part) = mem.verified + 1
  BY <1>2 DEF ResumeInv
<1>4. \A s \in Sender : mem.root = Content[s]
  BY <1>1, <1>2 DEF DeliveryInv, SoleContent
<1>5. mem.verified + 1 <= mem.verified + 1
  BY <1>1
<1> QED  BY <1>2, <1>3, <1>4, <1>5 DEF ResumeInv, Offered

LEMMA ResumeReceiveChunk ==
  ASSUME TypeOK, ResumeInv, ReceiveChunk
  PROVE  ResumeInv'
<1>1. mem.verified < Len(Offered) /\ frame'.data = Offered[mem.verified + 1]
  BY DEF ReceiveChunk, ChunkOK
<1> QED  BY <1>1 DEF ReceiveChunk, ResumeInv, Offered, disk

LEMMA ResumeNext ==
  ASSUME SoleContent, "unlink" \notin Killable,
         TypeOK, DeliveryInv, ResumeInv, [Next]_vars
  PROVE  ResumeInv'
<1> USE DEF wire, session, disk, receiver
<1>1. ASSUME NEW s \in Sender, Connect(s) PROVE ResumeInv'
  BY <1>1 DEF Connect, ResumeInv
<1>2. ASSUME NEW c \in Conn, Drop(c) \/ SenderStep(c) PROVE ResumeInv'
  BY <1>2, ResumeQuiet DEF Drop, SenderStep, SendManifest, ReceiveResume,
     SendChunk, SendDone, ReceiveReceipt, SenderFail
<1>3. ASSUME ReceiveManifest PROVE ResumeInv'
  BY <1>3 DEF ReceiveManifest, ResumeInv
<1>4. ASSUME SendResume \/ ReceiveDone \/ VerifyFile PROVE ResumeInv'
  BY <1>4 DEF SendResume, ReceiveDone, VerifyFile, ResumeInv, Offered
<1>5. ASSUME RenamePart PROVE ResumeInv'
  BY <1>5 DEF RenamePart, ResumeInv
<1>6. ASSUME UnlinkSidecar \/ SendReceipt PROVE ResumeInv'
  BY <1>6 DEF UnlinkSidecar, SendReceipt, ResumeInv
<1>7. ASSUME ReceiverFail PROVE ResumeInv'
  BY <1>7, ResumeEnd DEF ReceiverFail, Abandon, Waiting, Sending
<1>8. ASSUME Kill PROVE ResumeInv'
  <2>1. rpc # "unlink" /\ rpc' = "idle" /\ sidecar' = sidecar
    BY <1>8 DEF Kill, Abandon
  <2>2. CASE part' = part
    BY <2>1, <2>2, ResumeEnd
  <2>3. CASE rpc = "write" /\ part' = WriteAt(part, mem.verified, Torn)
    <3>1. Torn \in Slot
      BY DEF Slot
    <3>2. part' # None
      BY <2>3, <3>1, WriteKeepsPrefix
    <3>3. sidecar # None => StartsWith(part', sidecar.root, sidecar.verified)
      BY <2>3, <3>1, WriteCovers
    <3> QED  BY <2>1, <3>2, <3>3, ResumeEnd
  <2> QED  BY <1>8, <2>2, <2>3 DEF Kill
<1>9. CASE UNCHANGED vars
  BY <1>9, ResumeQuiet DEF vars
<1>10. CASE LoadSidecar \/ HealPart
  BY <1>10, ResumeLoad, ResumeHeal
<1>11. CASE ReceiveChunk \/ WriteChunk \/ SaveSidecar
  BY <1>11, ResumeReceiveChunk, ResumeWrite, ResumeSave
<1> QED
  BY <1>1, <1>2, <1>3, <1>4, <1>5, <1>6, <1>7, <1>8, <1>9, <1>10, <1>11
  DEF Next, ReceiverStep

LEMMA ResumeInvariant ==
  ASSUME SoleContent, "unlink" \notin Killable
  PROVE  Spec => []ResumeInv
<1>1. TypeOK /\ DeliveryInv /\ ResumeInv /\ [Next]_vars => ResumeInv'
  BY ResumeNext
<1> QED  BY <1>1, ResumeInit, TypeCorrect, DeliveryInvariant, PTL DEF Spec

\* Where one content is received under the name and no kill falls between
\* rename and unlink, every resume continues from exactly the verified prefix
\* of the file, whatever was dropped, killed or torn before.
THEOREM ResumeSound ==
  ASSUME SoleContent, "unlink" \notin Killable
  PROVE  Spec => []ResumeIsPrefix
<1>1. TypeOK /\ ResumeInv => ResumeIsPrefix
  <2> SUFFICES ASSUME TypeOK, ResumeInv, rpc = "resume"
               PROVE  part = Prefix(Offered, mem.verified)
    BY DEF ResumeIsPrefix
  <2>1. part \in Seq(Slot) /\ mem \in Memory /\ Offered \in Seq(Chunk)
        /\ mem.verified \in Nat
    BY NoneAssumption DEF TypeOK, Memory, Offered
  <2>2. /\ Len(part) = mem.verified /\ mem.verified <= Len(Offered)
        /\ \A i \in 1..mem.verified : part[i] = Offered[i]
    BY DEF ResumeInv, StartsWith
  <2>3. Prefix(Offered, mem.verified) \in Seq(Slot)
        /\ Len(Prefix(Offered, mem.verified)) = mem.verified
        /\ \A i \in 1..mem.verified :
             Prefix(Offered, mem.verified)[i] = Offered[i]
    BY <2>1, <2>2 DEF Prefix, Slot
  <2> QED  BY <2>1, <2>2, <2>3, SeqEqual
<1> QED  BY <1>1, ResumeInvariant, TypeCorrect, PTL

\* Under the same conditions the sidecar never claims a chunk the .part lacks.
THEOREM SidecarNeverAhead ==
  ASSUME SoleContent, "unlink" \notin Killable
  PROVE  Spec => []SidecarBacked
<1>1. TypeOK /\ ResumeInv => SidecarBacked
  <2> SUFFICES ASSUME TypeOK, ResumeInv, sidecar # None, rpc # "unlink"
               PROVE  /\ part # None /\ Len(part) >= sidecar.verified
                      /\ Prefix(part, sidecar.verified)
                           = Prefix(sidecar.root, sidecar.verified)
    BY DEF SidecarBacked
  <2>1. sidecar.verified \in Nat /\ sidecar.root \in Seq(Chunk)
    BY DEF TypeOK, Sidecar
  <2>2. part # None /\ part \in Seq(Slot)
        /\ StartsWith(part, sidecar.root, sidecar.verified)
    BY DEF ResumeInv, TypeOK
  <2> DEFINE P == Prefix(part, sidecar.verified)
             Q == Prefix(sidecar.root, sidecar.verified)
  <2>3. /\ P \in Seq(Slot) /\ Len(P) = sidecar.verified
        /\ \A i \in 1..sidecar.verified : P[i] = part[i]
    BY <2>1, <2>2 DEF Prefix, StartsWith
  <2>4. /\ Q \in Seq(Slot) /\ Len(Q) = sidecar.verified
        /\ \A i \in 1..sidecar.verified : Q[i] = sidecar.root[i]
    BY <2>1, <2>2 DEF Prefix, StartsWith, Slot
  <2>5. P = Q
    <3> HIDE DEF P, Q
    <3> QED  BY <2>2, <2>3, <2>4, SeqEqual DEF StartsWith
  <2> QED  BY <2>1, <2>2, <2>5 DEF StartsWith
<1> QED  BY <1>1, ResumeInvariant, TypeCorrect, PTL
-----------------------------------------------------------------------------
(* The record of a download is kept.                                       *)

\* Steps that leave the disk alone, and the record too or end with it.
LEMMA KeptQuiet ==
  ASSUME KeptInv, UNCHANGED <<part, sidecar, landed>>,
         \/ UNCHANGED <<rpc, mem, frame, nconn>>
         \/ ~Loaded' /\ rpc' # "unlink"
  PROVE  KeptInv'
BY DEF KeptInv, Loaded, Landed, Recorded, ChunkOK, Offered

\* Steps within an attempt that keep the record, and the .part if there is one.
LEMMA KeptOn ==
  ASSUME KeptInv, Loaded, UNCHANGED <<mem, sidecar, landed, nconn>>, part' # None,
         rpc' \in {"resume", "chunks", "verify"}
  PROVE  KeptInv'
BY DEF KeptInv, Loaded, Landed, Recorded

LEMMA KeptInit == Init => KeptInv
BY DEF Init, KeptInv, Loaded, Landed

LEMMA KeptLoad == TypeOK /\ KeptInv /\ LoadSidecar => KeptInv'
<1> SUFFICES ASSUME TypeOK, KeptInv, LoadSidecar PROVE KeptInv'
  OBVIOUS
<1>1. /\ mem \in Memory /\ UNCHANGED <<part, sidecar, landed, nconn>> /\ rpc' = "heal"
      /\ part = None /\ sidecar # None => Landed
  BY DEF LoadSidecar, TypeOK, disk, KeptInv
<1>2. CASE sidecar # None /\ sidecar.root = Offered
  <2>1. /\ mem'.verified = sidecar.verified /\ mem'.seed = sidecar.seed
        /\ mem'.root = mem.root
    BY <1>1, <1>2 DEF LoadSidecar, Memory
  <2> QED  BY <1>1, <1>2, <2>1 DEF KeptInv, Loaded, Offered, Recorded, Landed
<1>3. CASE ~(sidecar # None /\ sidecar.root = Offered)
  <2>1. mem'.verified = 0 /\ mem'.seed = nconn /\ mem'.root = mem.root
    BY <1>1, <1>3 DEF LoadSidecar, Memory
  <2> QED  BY <1>1, <1>3, <2>1 DEF KeptInv, Loaded, Offered, Recorded, Landed
<1> QED  BY <1>2, <1>3

LEMMA KeptHeal == TypeOK /\ KeptInv /\ HealPart => KeptInv'
<1> SUFFICES ASSUME TypeOK, KeptInv, HealPart PROVE KeptInv'
  OBVIOUS
<1>1. /\ mem \in Memory /\ UNCHANGED <<sidecar, landed, nconn>>
      /\ rpc = "heal" /\ rpc' = "resume"
  BY DEF HealPart, TypeOK
<1>2. part' # None
  BY NextType, NoneAssumption, <1>1 DEF HealPart, TypeOK, Next, ReceiverStep
<1>3. CASE mem' = mem
  BY <1>1, <1>2, <1>3, KeptOn DEF Loaded
<1>4. CASE part = None /\ mem' = [mem EXCEPT !.verified = 0]
  <2>1. mem'.verified = 0 /\ mem'.root = mem.root /\ mem'.seed = mem.seed
    BY <1>1, <1>4 DEF Memory
  <2> QED  BY <1>1, <1>2, <1>4, <2>1 DEF KeptInv, Loaded, Recorded, Landed
<1> QED  BY <1>3, <1>4 DEF HealPart

\* The chunk is where it belongs, whatever was there.
LEMMA KeptWrite == TypeOK /\ KeptInv /\ WriteChunk => KeptInv'
<1> SUFFICES ASSUME TypeOK, KeptInv, WriteChunk PROVE KeptInv'
  OBVIOUS
<1> DEFINE k == mem.verified
<1>1. /\ k \in Nat /\ part \in Seq(Slot) /\ frame.data \in Slot
      /\ part' = WriteAt(part, k, frame.data)
      /\ UNCHANGED <<mem, sidecar, landed, nconn>> /\ rpc = "write" /\ rpc' = "save"
  BY DEF WriteChunk, TypeOK, Memory, ChunkFrame, Slot
<1>2. part' # None
  BY <1>1, WriteAtType, NoneAssumption
<1>3. k < Len(part') /\ part'[k + 1] = frame.data
  <2> DEFINE m == IF Len(part) > k THEN Len(part) ELSE k + 1
  <2>1. m \in Nat /\ k < m
    BY <1>1
  <2>2. part' = [i \in 1..m |-> IF i = k + 1 THEN frame.data
                                ELSE IF i <= Len(part) THEN part[i] ELSE Zero]
    BY <1>1 DEF WriteAt
  <2> HIDE DEF m
  <2> QED  BY <1>1, <2>1, <2>2
<1>4. k < Len(mem.root) /\ frame.data = mem.root[k + 1]
  BY <1>1 DEF KeptInv, ChunkOK, Offered
<1> QED  BY <1>1, <1>2, <1>3, <1>4 DEF KeptInv, Loaded, Recorded, Landed

\* The two ways a record is saved.
LEMMA KeptSave ==
  ASSUME TypeOK, KeptInv, SaveSidecar
  PROVE  /\ KeptInv'
         /\ Continued \/ Begun
         /\ sidecar'.verified <= Len(part)
         /\ part[sidecar'.verified] = sidecar'.root[sidecar'.verified]
<1>1. mem \in Memory /\ part # None /\ mem.verified \in Nat
  BY DEF SaveSidecar, TypeOK, Memory
<1>2. /\ mem'.verified = mem.verified + 1 /\ mem'.root = mem.root /\ mem'.seed = mem.seed
      /\ UNCHANGED <<part, landed>> /\ rpc = "save" /\ rpc' = "chunks"
  BY <1>1 DEF SaveSidecar, Memory
<1>3. /\ sidecar'.root = mem.root /\ sidecar'.seed = mem.seed
      /\ sidecar'.verified = mem.verified + 1
  BY DEF SaveSidecar
<1>4. sidecar' # None
  <2>1. mem.seed \in Conn /\ mem.root \in Seq(Chunk)
    BY <1>1, <1>2 DEF TypeOK, Memory
  <2>2. sidecar' \in Sidecar
    BY <1>1, <2>1 DEF SaveSidecar, Sidecar
  <2> QED  BY <2>2, NoneAssumption
<1>5. KeptInv'
  BY <1>1, <1>2, <1>3, <1>4 DEF KeptInv, Loaded, Recorded
<1>6. ASSUME Recorded PROVE Continued
  <2>1. /\ sidecar.seed = mem.seed
        /\ mem.verified = sidecar.verified \/ (mem.verified = 0 /\ Landed)
    BY <1>2, <1>6 DEF KeptInv, Loaded
  <2>2. sidecar'.verified = sidecar.verified + 1 \/ (sidecar'.verified = 1 /\ Landed)
    BY <1>3, <2>1
  <2> QED  BY <1>3, <1>4, <1>6, <2>1, <2>2 DEF Continued, Recorded
<1>7. ASSUME ~Recorded PROVE Begun
  <2>1. mem.verified = 0 /\ mem.seed = nconn
    BY <1>2, <1>7 DEF KeptInv, Loaded, Recorded, Landed
  <2>2. sidecar'.verified = 1
    BY <1>3, <2>1
  <2> QED  BY <1>3, <1>4, <1>7, <2>1, <2>2 DEF Begun, Recorded
<1>8. /\ mem.verified < Len(part)
      /\ part[mem.verified + 1] = mem.root[mem.verified + 1]
  BY <1>2 DEF KeptInv
<1>9. part \in Seq(Slot)
  BY <1>1 DEF TypeOK
<1> QED  BY <1>1, <1>3, <1>5, <1>6, <1>7, <1>8, <1>9

LEMMA KeptNext == TypeOK /\ DeliveryInv /\ KeptInv /\ [Next]_vars => KeptInv'
<1> SUFFICES ASSUME TypeOK, DeliveryInv, KeptInv, [Next]_vars PROVE KeptInv'
  OBVIOUS
<1> USE DEF wire, session, disk, receiver
<1>1. ASSUME NEW s \in Sender, Connect(s) PROVE KeptInv'
  BY <1>1, KeptQuiet DEF Connect, Loaded
<1>2. ASSUME NEW c \in Conn, Drop(c) \/ SenderStep(c) PROVE KeptInv'
  BY <1>2 DEF Drop, SenderStep, SendManifest, ReceiveResume,
     SendChunk, SendDone, ReceiveReceipt, SenderFail, KeptInv, Loaded, Recorded, Landed,
     ChunkOK, Offered
<1>3. CASE ReceiveManifest \/ SendReceipt \/ ReceiverFail
  BY <1>3, KeptQuiet DEF ReceiveManifest, SendReceipt, ReceiverFail, Abandon, Loaded
<1>4. CASE SendResume \/ ReceiveDone
  <2>1. part # None /\ rpc' \in {"chunks", "verify"} /\ UNCHANGED part
    BY <1>4 DEF SendResume, ReceiveDone, TypeOK
  <2> QED  BY <1>4, <2>1, KeptOn DEF SendResume, ReceiveDone, Loaded
<1>5. CASE ReceiveChunk
  BY <1>5 DEF ReceiveChunk, KeptInv, Loaded, Recorded, Landed, ChunkOK, Offered
<1>6. CASE VerifyFile
  <2>1. /\ mem.verified = Len(mem.root) /\ mem.root = Content[peer[nconn]]
        /\ peer[nconn] \in Sender
    BY <1>6, RunningConn DEF VerifyFile, Assembled, Offered, DeliveryInv
  <2>2. mem.verified > 0
    BY <2>1, ContentType
  <2> QED  BY <1>6, <2>1, <2>2 DEF VerifyFile, KeptInv, Loaded, Recorded, Landed
<1>7. CASE RenamePart
  <2>1. /\ part = mem.root /\ mem.verified = Len(mem.root) /\ mem.verified > 0
        /\ UNCHANGED <<mem, sidecar>> /\ rpc = "rename" /\ rpc' = "unlink"
        /\ part \in landed' /\ landed \subseteq landed'
    BY <1>7 DEF RenamePart, DeliveryInv, KeptInv
  <2>2. Recorded /\ sidecar.verified = mem.verified
    BY <2>1 DEF KeptInv, Loaded
  <2>3. Recorded' /\ Landed'
    BY <2>1, <2>2 DEF Recorded, Landed
  <2> QED  BY <2>1, <2>3 DEF KeptInv, Loaded
<1>8. CASE UnlinkSidecar
  BY <1>8 DEF UnlinkSidecar, KeptInv, Loaded
<1>9. CASE Kill
  <2>1. rpc' = "idle" /\ UNCHANGED <<sidecar, landed>>
    BY <1>9 DEF Kill, Abandon
  <2>2. CASE part' = part
    BY <2>1, <2>2, KeptQuiet DEF Loaded
  <2>3. CASE rpc = "write" /\ part' = WriteAt(part, mem.verified, Torn)
    <3>1. mem.verified \in Nat /\ part \in Seq(Slot) /\ Torn \in Slot
      BY <2>3 DEF TypeOK, Memory, Slot
    <3>2. part' # None
      BY <2>3, <3>1, WriteAtType, NoneAssumption
    <3> QED  BY <2>1, <3>2 DEF KeptInv, Loaded
  <2> QED  BY <1>9, <2>2, <2>3 DEF Kill
<1>10. CASE UNCHANGED vars
  BY <1>10, KeptQuiet DEF vars
<1> QED
  BY <1>1, <1>2, <1>3, <1>4, <1>5, <1>6, <1>7, <1>8, <1>9, <1>10, KeptLoad, KeptHeal,
     KeptWrite, KeptSave DEF Next, ReceiverStep

\* Whatever drops, dies or is received in between: every change of the sidecar removes
\* it with its file in place, takes its download one chunk further under the same
\* signer, or begins another one with a chunk that is in the .part
\* (index.js:195-201, 220-224, 239, 263-277).
THEOREM RecordsKept == Spec => RecordKept
<1> DEFINE Backed == sidecar'.verified <= Len(part)
                     /\ part[sidecar'.verified] = sidecar'.root[sidecar'.verified]
           Kept == (Unlinked \/ Continued \/ Begun) /\ (sidecar' # None => Backed)
<1>1. TypeOK /\ KeptInv /\ [Next]_vars => [Kept]_sidecar
  <2> SUFFICES ASSUME TypeOK, KeptInv, [Next]_vars, sidecar' # sidecar PROVE Kept
    OBVIOUS
  <2> USE DEF wire, session, disk, receiver
  <2>1. SaveSidecar \/ UnlinkSidecar
    BY DEF Next, SenderStep, ReceiverStep, Connect, Drop, SendManifest, ReceiveResume,
       SendChunk, SendDone, ReceiveReceipt, SenderFail, ReceiveManifest, LoadSidecar,
       HealPart, SendResume, ReceiveChunk, WriteChunk, ReceiveDone, VerifyFile, RenamePart,
       SendReceipt, ReceiverFail, Kill, vars
  <2>2. CASE SaveSidecar
    BY <2>2, KeptSave
  <2>3. CASE UnlinkSidecar
    BY <2>3 DEF UnlinkSidecar, KeptInv, Recorded, Unlinked
  <2> QED  BY <2>1, <2>2, <2>3
<1>2. Spec => []KeptInv
  BY KeptInit, KeptNext, TypeCorrect, DeliveryInvariant, PTL DEF Spec
<1> QED  BY <1>1, <1>2, TypeCorrect, PTL DEF Spec, RecordKept
-----------------------------------------------------------------------------
(* No frame is refused.                                                    *)

\* The stretch of frames between receiver and session: it grows at the end, is cut
\* there, and is read from the front.
LEMMA StretchAppend ==
  ASSUME NEW S, NEW q \in Seq(S), NEW f, NEW e \in Nat, NEW g \in S, Stretch(q, f, e),
         \/ /\ e + Len(q) < Len(f)
            /\ g = [type |-> "CHUNK", index |-> e + Len(q), data |-> f[e + Len(q) + 1]]
         \/ e + Len(q) = Len(f) /\ g = [type |-> "DONE"]
  PROVE  Stretch(Append(q, g), f, e)
<1>1. Len(q) \in Nat /\ Len(Append(q, g)) = Len(q) + 1
  BY AppendProperties
<1>2. Append(q, g)[Len(q) + 1] = g /\ \A i \in 1..Len(q) : Append(q, g)[i] = q[i]
  BY AppendProperties
<1>3. \A i \in 1..(Len(q) + 1) : i \in 1..Len(q) \/ i = Len(q) + 1
  BY <1>1
<1>4. e + (Len(q) + 1) - 1 = e + Len(q) /\ e + (Len(q) + 1) = e + Len(q) + 1
  BY <1>1
<1> QED  BY <1>1, <1>2, <1>3, <1>4 DEF Stretch

LEMMA StretchPrefix ==
  ASSUME NEW S, NEW q \in Seq(S), NEW f, NEW e \in Nat, NEW n \in 0..Len(q),
         Stretch(q, f, e)
  PROVE  Stretch(SubSeq(q, 1, n), f, e) /\ (q = <<>> => SubSeq(q, 1, n) = <<>>)
         /\ Len(SubSeq(q, 1, n)) <= Len(q)
<1>1. Len(SubSeq(q, 1, n)) = n /\ \A i \in 1..n : SubSeq(q, 1, n)[i] = q[i]
  BY SubSeqProperties
<1> QED  BY <1>1 DEF Stretch

LEMMA StretchTail ==
  ASSUME NEW S, NEW q \in Seq(S), NEW f, NEW e \in Nat, q # <<>>, Stretch(q, f, e)
  PROVE  Stretch(Tail(q), f, e + 1) /\ Len(Tail(q)) = Len(q) - 1
<1>1. Len(Tail(q)) = Len(q) - 1 /\ Len(q) \in Nat \ {0}
      /\ \A i \in 1..(Len(q) - 1) : Tail(q)[i] = q[i + 1]
  BY HeadTailProperties
<1> SUFFICES ASSUME NEW i \in 1..(Len(q) - 1)
             PROVE  \/ /\ e + 1 + i - 1 < Len(f)
                       /\ Tail(q)[i] = [type |-> "CHUNK", index |-> e + 1 + i - 1,
                                        data |-> f[e + 1 + i]]
                    \/ e + 1 + i - 1 = Len(f) /\ Tail(q)[i] = [type |-> "DONE"]
  BY <1>1 DEF Stretch
<1>2. i + 1 \in 1..Len(q) /\ Tail(q)[i] = q[i + 1]
  BY <1>1
<1>3. e + (i + 1) - 1 = e + 1 + i - 1 /\ e + (i + 1) = e + 1 + i
  OBVIOUS
<1> QED  BY <1>2, <1>3 DEF Stretch

LEMMA FlowInit == Init => FlowInv
BY DEF Init, FlowInv

\* The receiver listens, or is about to.
Listens == rpc \in {"manifest", "load", "heal", "resume", "chunks", "write", "save"}

\* An attempt is over, or past its last chunk.
LEMMA FlowOver ==
  ASSUME FlowInv, sidecar' = sidecar \/ sidecar' = None, ~Listens'
  PROVE  FlowInv'
BY DEF FlowInv, Listens

\* Steps that do not touch the receiver's own connection.
LEMMA FlowElsewhere ==
  ASSUME FlowInv, UNCHANGED <<nconn, rpc, mem, sidecar>>,
         Listens => /\ s2r'[nconn] = s2r[nconn] /\ r2s'[nconn] = r2s[nconn]
                    /\ spc'[nconn] = spc[nconn] /\ snext'[nconn] = snext[nconn]
                    /\ up'[nconn] = up[nconn]
  PROVE  FlowInv'
BY DEF FlowInv, Listens, Stretch, Expected

\* The connection breaks, noticed by the session or not yet.
LEMMA FlowBroken ==
  ASSUME TypeOK, FlowInv, Listens, UNCHANGED <<nconn, rpc, mem, sidecar, snext>>,
         ~up'[nconn], spc'[nconn] \in {spc[nconn], "failed"},
         NEW i \in 0..Len(s2r[nconn]), s2r'[nconn] \in {s2r[nconn], SubSeq(s2r[nconn], 1, i)},
         NEW j \in 0..Len(r2s[nconn]), r2s'[nconn] \in {r2s[nconn], SubSeq(r2s[nconn], 1, j)}
  PROVE  FlowInv'
<1> DEFINE q == s2r[nconn]
           r == r2s[nconn]
<1>1. /\ nconn \in Conn /\ q \in Seq(SenderFrame) /\ r \in Seq(ReceiverFrame)
      /\ rpc \notin {"idle", "manifest"} => mem.verified \in Nat
  BY RunningConn DEF TypeOK, Listens, Memory
<1>2. rpc \in {"chunks", "write", "save"} => Expected \in Nat
  BY <1>1 DEF Expected
<1>3. rpc \in {"chunks", "write", "save"} =>
        Stretch(s2r'[nconn], mem.root, Expected)
  <2> SUFFICES ASSUME rpc \in {"chunks", "write", "save"}
               PROVE  Stretch(s2r'[nconn], mem.root, Expected)
    OBVIOUS
  <2>1. Stretch(q, mem.root, Expected)
    BY DEF FlowInv
  <2>2. Stretch(SubSeq(q, 1, i), mem.root, Expected)
    BY <1>1, <1>2, <2>1, StretchPrefix
  <2> QED  BY <2>1, <2>2
<1>4. /\ q = <<>> => s2r'[nconn] = <<>>
      /\ Len(q) <= 1 => Len(s2r'[nconn]) <= 1
      /\ r = <<>> => r2s'[nconn] = <<>>
  BY <1>1, SubSeqProperties
<1>5. r2s'[nconn] # <<>> => r # <<>> /\ Head(r2s'[nconn]) = Head(r)
  <2>1. CASE r2s'[nconn] = r
    BY <2>1, <1>4
  <2>2. CASE r2s'[nconn] = SubSeq(r, 1, j) /\ j > 0
    <3>1. SubSeq(r, 1, j) \in Seq(ReceiverFrame) /\ SubSeq(r, 1, j)[1] = r[1]
          /\ Len(SubSeq(r, 1, j)) = j
      BY <1>1, <2>2, SubSeqProperties
    <3> QED  BY <1>1, <2>2, <3>1
  <2>3. CASE r2s'[nconn] = SubSeq(r, 1, j) /\ j = 0
    BY <1>1, <2>3, SubSeqProperties
  <2> QED  BY <2>1, <2>2, <2>3
<1>6. Expected' = Expected
  BY DEF Expected
<1>7. Stretch(s2r[nconn], mem.root, Expected)' = Stretch(s2r'[nconn], mem.root, Expected)
  BY <1>6 DEF Stretch
<1> QED  BY <1>3, <1>4, <1>5, <1>7 DEF FlowInv, Listens

\* The session on the receiver's connection takes a step.
LEMMA FlowSession ==
  ASSUME TypeOK, DeliveryInv, FlowInv, Listens, NEW c \in Conn, c = nconn,
         SenderStep(c) \/ Drop(c)
  PROVE  FlowInv'
<1> USE DEF wire, session, disk, receiver
<1>0. /\ s2r[c] \in Seq(SenderFrame) /\ Len(s2r[c]) \in Nat
      /\ rpc # "manifest" => mem.root = Content[peer[c]]
      /\ rpc \notin {"idle", "manifest"} => mem.verified \in Nat
      /\ rpc \in {"chunks", "write", "save"} => Expected \in Nat
  BY DEF TypeOK, Listens, DeliveryInv, Memory, Expected
<1>1. CASE SendManifest(c)
  <2>1. rpc = "manifest" /\ s2r[c] = <<>>
    BY <1>1 DEF SendManifest, FlowInv, Listens
  <2>2. Len(s2r'[c]) <= 1
    BY <1>0, <1>1, <2>1 DEF SendManifest, ToReceiver, TypeOK
  <2> QED  BY <1>1, <2>1, <2>2 DEF SendManifest, FlowInv, TypeOK
<1>2. CASE ReceiveResume(c)
  <2>1. rpc = "chunks" /\ s2r[c] = <<>> /\ Head(r2s[c]).fromChunk = mem.verified
    BY <1>2 DEF ReceiveResume, FlowInv, Listens
  <2>2. snext'[c] = mem.verified /\ spc'[c] = "chunks"
    BY <1>2, <2>1 DEF ReceiveResume, TypeOK
  <2>3. Expected = mem.verified /\ Expected' = mem.verified
    BY <1>2, <2>1 DEF ReceiveResume, Expected
  <2> QED  BY <1>0, <1>2, <2>1, <2>2, <2>3 DEF ReceiveResume, FlowInv, Stretch
<1>3. ASSUME SendChunk(c) \/ SendDone(c) PROVE FlowInv'
  <2>1. rpc \in {"chunks", "write", "save"} /\ spc[c] = "chunks"
    BY <1>3 DEF SendChunk, SendDone, FlowInv, Listens
  <2>2. mem.root = Content[peer[c]] /\ Stretch(s2r[c], mem.root, Expected)
        /\ Expected \in Nat /\ peer[c] \in Sender
    BY <1>0, <2>1, RunningConn DEF FlowInv
  <2>3. Expected' = Expected /\ UNCHANGED <<nconn, rpc, mem, sidecar, r2s, up, peer>>
    BY <1>3 DEF SendChunk, SendDone, Expected
  <2>4. CASE ~up[c]
    <3>1. s2r' = s2r
      BY <1>3, <2>4 DEF SendChunk, SendDone, ToReceiver
    <3>2. spc'[c] \in {"chunks", "receipt"}
      BY <1>3, <2>1 DEF SendChunk, SendDone, TypeOK
    <3> QED  BY <2>1, <2>2, <2>3, <2>4, <3>1, <3>2 DEF FlowInv, Stretch
  <2>5. CASE up[c]
    <3>1. snext[c] = Expected + Len(s2r[c]) /\ snext[c] <= Len(mem.root)
          /\ Len(mem.root) \in Nat
      BY <2>1, <2>2, <2>5, ContentType DEF FlowInv
    <3>2. CASE SendChunk(c)
      <4> DEFINE g == [type |-> "CHUNK", index |-> snext[c], data |-> mem.root[snext[c] + 1]]
      <4>1. snext[c] < Len(mem.root) /\ s2r'[c] = Append(s2r[c], g)
        BY <2>2, <2>5, <3>2 DEF SendChunk, ToReceiver, TypeOK
      <4>2. g \in SenderFrame
        BY <1>0, <2>2, <3>1, <4>1, ContentType DEF SenderFrame, ChunkFrame
      <4>3. Stretch(s2r'[c], mem.root, Expected)
        BY <1>0, <2>2, <3>1, <4>1, <4>2, StretchAppend
      <4>4. snext'[c] = snext[c] + 1 /\ spc' = spc /\ Len(s2r'[c]) = Len(s2r[c]) + 1
        BY <1>0, <3>2, <4>1 DEF SendChunk, TypeOK
      <4>5. snext'[c] = Expected + Len(s2r'[c]) /\ snext'[c] <= Len(mem.root)
        BY <1>0, <2>2, <3>1, <4>1, <4>4
      <4> HIDE DEF g
      <4> QED  BY <2>1, <2>3, <4>3, <4>4, <4>5 DEF FlowInv, Stretch
    <3>3. CASE SendDone(c)
      <4> DEFINE g == [type |-> "DONE"]
      <4>1. snext[c] = Len(mem.root) /\ s2r'[c] = Append(s2r[c], g)
        BY <1>0, <2>2, <2>5, <3>1, <3>3 DEF SendDone, ToReceiver, TypeOK
      <4>2. g \in SenderFrame
        BY DEF SenderFrame, DoneFrame
      <4>3. Stretch(s2r'[c], mem.root, Expected)
        BY <1>0, <2>2, <3>1, <4>1, <4>2, StretchAppend
      <4>4. spc'[c] = "receipt"
        BY <3>3 DEF SendDone, TypeOK
      <4> HIDE DEF g
      <4> QED  BY <2>1, <2>3, <4>3, <4>4 DEF FlowInv, Stretch
    <3> QED  BY <1>3, <3>2, <3>3
  <2> QED  BY <2>4, <2>5
<1>4. CASE ReceiveReceipt(c)
  <2>1. rpc \in {"chunks", "write", "save"} /\ spc[c] = "receipt" /\ spc'[c] = "settled"
    BY <1>4 DEF ReceiveReceipt, FlowInv, Listens, TypeOK
  <2>2. Head(r2s[c]) \in FramesTo(c) /\ issued[c] = None
    BY <1>4, <2>1, TailSeq DEF ReceiveReceipt, DeliveryInv
  <2>3. Head(r2s[c]).receipt = None /\ Head(r2s[c]) \in ReceiverFrame
    BY <1>4, <2>2 DEF ReceiveReceipt, FramesTo
  <2>4. Head(r2s[c]).receipt \in Receipt
    BY <1>4, <2>3, ReceiverFrameKinds DEF ReceiveReceipt
  <2> QED  BY <2>3, <2>4, NoneAssumption
<1>5. CASE SenderFail(c)
  <2>1. PICK i \in 0..Len(s2r[c]) :
          s2r' = IF up[c] THEN [s2r EXCEPT ![c] = SubSeq(@, 1, i)] ELSE s2r
    BY <1>5 DEF SenderFail
  <2>2. s2r'[c] \in {s2r[c], SubSeq(s2r[c], 1, i)} /\ ~up'[c] /\ spc'[c] = "failed"
    BY <1>5, <2>1 DEF SenderFail, TypeOK
  <2>3. r2s' = r2s /\ 0 \in 0..Len(r2s[c])
    BY <1>5 DEF SenderFail, TypeOK
  <2> QED  BY <1>5, <2>1, <2>2, <2>3, FlowBroken DEF SenderFail
<1>6. CASE Drop(c)
  <2>1. PICK i \in 0..Len(s2r[c]), j \in 0..Len(r2s[c]) :
          /\ s2r' = [s2r EXCEPT ![c] = SubSeq(@, 1, i)]
          /\ r2s' = [r2s EXCEPT ![c] = SubSeq(@, 1, j)]
    BY <1>6 DEF Drop
  <2>2. s2r'[c] = SubSeq(s2r[c], 1, i) /\ r2s'[c] = SubSeq(r2s[c], 1, j) /\ ~up'[c]
    BY <1>6, <2>1 DEF Drop, TypeOK
  <2> QED  BY <1>6, <2>1, <2>2, FlowBroken DEF Drop
<1> QED  BY <1>1, <1>2, <1>3, <1>4, <1>5, <1>6 DEF SenderStep

LEMMA FlowNext == TypeOK /\ DeliveryInv /\ FlowInv /\ [Next]_vars => FlowInv'
<1> SUFFICES ASSUME TypeOK, DeliveryInv, FlowInv, [Next]_vars PROVE FlowInv'
  OBVIOUS
<1> USE DEF wire, session, disk, receiver
<1>1. ASSUME NEW s \in Sender, Connect(s) PROVE FlowInv'
  <2>1. nconn + 1 \in Conn /\ nconn + 1 > nconn
    BY <1>1, BoundAssumption DEF Connect, TypeOK, Conn
  <2>2. s2r[nconn + 1] = <<>> /\ r2s[nconn + 1] = <<>>
    BY <2>1 DEF DeliveryInv
  <2>3. spc'[nconn + 1] = "manifest"
    BY <1>1, <2>1 DEF Connect, TypeOK
  <2> QED  BY <1>1, <2>2, <2>3 DEF Connect, FlowInv
<1>2. ASSUME NEW c \in Conn, Drop(c) \/ SenderStep(c) PROVE FlowInv'
  <2>1. CASE Listens /\ c = nconn
    BY <1>2, <2>1, FlowSession
  <2>2. CASE ~Listens
    BY <1>2, <2>2, FlowElsewhere DEF Drop, SenderStep, SendManifest, ReceiveResume,
       SendChunk, SendDone, ReceiveReceipt, SenderFail
  <2>3. CASE Listens /\ c # nconn
    <3>1. nconn \in Conn
      BY <2>3, RunningConn DEF Listens
    <3> QED  BY <1>2, <2>3, <3>1, FlowElsewhere DEF Drop, SenderStep, SendManifest,
             ReceiveResume, SendChunk, SendDone, ReceiveReceipt, SenderFail, ToReceiver, TypeOK
  <2> QED  BY <2>1, <2>2, <2>3
<1>3. CASE ReceiveManifest
  <2>1. nconn \in Conn /\ s2r[nconn] \in Seq(SenderFrame) /\ s2r[nconn] # <<>>
    BY <1>3, RunningConn DEF ReceiveManifest, Incoming, TypeOK
  <2>2. Len(s2r[nconn]) <= 1 /\ spc[nconn] \in {"resume", "failed"} /\ r2s[nconn] = <<>>
    BY <1>3, <2>1 DEF ReceiveManifest, FlowInv
  <2>3. s2r'[nconn] = <<>>
    BY <1>3, <2>1, <2>2 DEF ReceiveManifest, Consume, TypeOK
  <2> QED  BY <1>3, <2>2, <2>3 DEF ReceiveManifest, FlowInv
<1>4. CASE LoadSidecar
  <2>1. mem \in Memory /\ mem.root \in Seq(Chunk)
    BY <1>4 DEF LoadSidecar, TypeOK, Memory
  <2>2. mem'.verified <= Len(mem.root) /\ mem'.root = mem.root
    <3>1. Len(mem.root) \in Nat
      BY <2>1
    <3>2. CASE sidecar # None /\ sidecar.root = Offered
      <4>1. mem'.verified = sidecar.verified /\ mem'.root = mem.root
        BY <1>4, <2>1, <3>2 DEF LoadSidecar, Memory
      <4> QED  BY <3>2, <4>1 DEF FlowInv, Offered
    <3>3. CASE ~(sidecar # None /\ sidecar.root = Offered)
      <4>1. mem'.verified = 0 /\ mem'.root = mem.root
        BY <1>4, <2>1, <3>3 DEF LoadSidecar, Memory
      <4> QED  BY <3>1, <4>1
    <3> QED  BY <3>2, <3>3
  <2> QED  BY <1>4, <2>2 DEF LoadSidecar, FlowInv
<1>5. CASE HealPart
  <2>1. mem \in Memory /\ mem.root \in Seq(Chunk)
    BY <1>5 DEF HealPart, TypeOK, Memory
  <2>2. mem'.verified <= Len(mem'.root)
    BY <1>5, <2>1 DEF HealPart, Memory, FlowInv
  <2> QED  BY <1>5, <2>2 DEF HealPart, FlowInv
<1>6. CASE SendResume
  <2>1. nconn \in Conn /\ r2s[nconn] = <<>> /\ s2r[nconn] = <<>>
        /\ spc[nconn] \in {"resume", "failed"}
    BY <1>6, RunningConn DEF SendResume, FlowInv
  <2>2. r2s'[nconn] # <<>> => Head(r2s'[nconn]).fromChunk = mem.verified
    BY <1>6, <2>1 DEF SendResume, ToSender, TypeOK
  <2>3. mem.verified <= Len(mem.root)
    BY <1>6 DEF SendResume, FlowInv
  <2>4. Stretch(s2r[nconn], mem.root, Expected)'
    BY <1>6, <2>1 DEF SendResume, Stretch
  <2>5. /\ s2r'[nconn] = <<>> /\ spc'[nconn] \in {"resume", "failed"}
        /\ rpc' = "chunks" /\ UNCHANGED <<nconn, mem, sidecar>>
    BY <1>6, <2>1 DEF SendResume
  <2> QED  BY <2>2, <2>3, <2>4, <2>5 DEF FlowInv
<1>7. CASE ReceiveChunk
  <2>1. /\ nconn \in Conn /\ s2r[nconn] \in Seq(SenderFrame) /\ s2r[nconn] # <<>>
        /\ mem.verified \in Nat
    BY <1>7, RunningConn DEF ReceiveChunk, Incoming, TypeOK, Memory
  <2>2. mem.verified < Len(mem.root)
    BY <1>7 DEF ReceiveChunk, ChunkOK, Offered
  <2>3. /\ Stretch(s2r[nconn], mem.root, mem.verified)
        /\ spc[nconn] \in {"chunks", "receipt", "failed"}
        /\ spc[nconn] = "chunks" /\ up[nconn] =>
             snext[nconn] = mem.verified + Len(s2r[nconn]) /\ snext[nconn] <= Len(mem.root)
    BY <1>7, <2>1 DEF ReceiveChunk, FlowInv, Expected
  <2>4. s2r'[nconn] = Tail(s2r[nconn]) /\ Expected' = mem.verified + 1
    BY <1>7, <2>1 DEF ReceiveChunk, Consume, Expected, TypeOK
  <2>5. Stretch(s2r'[nconn], mem.root, mem.verified + 1)
        /\ Len(s2r'[nconn]) = Len(s2r[nconn]) - 1 /\ Len(s2r[nconn]) \in Nat
    BY <2>1, <2>3, <2>4, StretchTail
  <2>6. Stretch(s2r[nconn], mem.root, Expected)'
    BY <1>7, <2>4, <2>5 DEF ReceiveChunk, Stretch
  <2>7. mem.verified + Len(s2r[nconn]) = mem.verified + 1 + Len(s2r'[nconn])
    BY <2>1, <2>5
  <2> QED  BY <1>7, <2>2, <2>3, <2>4, <2>6, <2>7 DEF ReceiveChunk, FlowInv
<1>8. CASE WriteChunk
  BY <1>8 DEF WriteChunk, FlowInv, Expected, Stretch
<1>9. CASE SaveSidecar
  <2>1. mem \in Memory /\ mem.verified \in Nat /\ mem.root \in Seq(Chunk)
    BY <1>9 DEF SaveSidecar, TypeOK, Memory
  <2>2. mem'.verified = mem.verified + 1 /\ mem'.root = mem.root
    BY <1>9, <2>1 DEF SaveSidecar, Memory
  <2>3. Expected' = Expected
    BY <1>9, <2>2 DEF SaveSidecar, Expected
  <2>4. mem.verified + 1 <= Len(mem.root)
    BY <1>9, <2>1 DEF SaveSidecar, FlowInv
  <2>5. Stretch(s2r[nconn], mem.root, Expected)'
    BY <1>9, <2>2, <2>3 DEF SaveSidecar, FlowInv, Stretch
  <2> QED  BY <1>9, <2>2, <2>3, <2>4, <2>5 DEF SaveSidecar, FlowInv
<1>10. CASE \/ ReceiveDone \/ VerifyFile \/ RenamePart \/ UnlinkSidecar \/ SendReceipt
            \/ ReceiverFail \/ Kill
  BY <1>10, FlowOver DEF ReceiveDone, VerifyFile, RenamePart, UnlinkSidecar, SendReceipt,
     ReceiverFail, Kill, Abandon, Listens
<1>11. CASE UNCHANGED vars
  BY <1>11, FlowElsewhere DEF vars
<1> QED
  BY <1>1, <1>2, <1>3, <1>4, <1>5, <1>6, <1>7, <1>8, <1>9, <1>10, <1>11
  DEF Next, ReceiverStep

\* Whatever offset a session resumes from, and wherever sessions before it broke: each
\* chunk the receiver reads is the one it expects, and DONE comes exactly after the
\* last (index.js:102-109, 208-230).
THEOREM FramesExpected == Spec => []NoFrameRefused
<1>1. TypeOK /\ FlowInv => NoFrameRefused
  <2> SUFFICES ASSUME TypeOK, FlowInv, rpc = "chunks", s2r[nconn] # <<>>
               PROVE  \/ Incoming("CHUNK") /\ ChunkOK(Head(s2r[nconn]))
                      \/ Incoming("DONE") /\ mem.verified = Len(Offered)
    BY DEF NoFrameRefused
  <2>1. /\ s2r[nconn] \in Seq(SenderFrame) /\ mem.verified \in Nat
        /\ Stretch(s2r[nconn], mem.root, mem.verified)
    BY RunningConn DEF TypeOK, FlowInv, Expected, Memory
  <2>2. 1 \in 1..Len(s2r[nconn]) /\ Head(s2r[nconn]) = s2r[nconn][1]
    BY <2>1
  <2>3. mem.verified + 1 - 1 = mem.verified
    BY <2>1
  <2> DEFINE h == Head(s2r[nconn])
  <2>4. \/ /\ mem.verified < Len(mem.root)
           /\ h = [type |-> "CHUNK", index |-> mem.verified, data |-> mem.root[mem.verified + 1]]
        \/ mem.verified = Len(mem.root) /\ h = [type |-> "DONE"]
    BY <2>1, <2>2, <2>3 DEF Stretch
  <2> HIDE DEF h
  <2>5. h = Head(s2r[nconn])
    BY DEF h
  <2> QED  BY <2>4, <2>5 DEF Incoming, ChunkOK, Offered
<1>2. Spec => []FlowInv
  BY FlowInit, FlowNext, TypeCorrect, DeliveryInvariant, PTL DEF Spec
<1> QED  BY <1>1, <1>2, TypeCorrect, PTL
=============================================================================
