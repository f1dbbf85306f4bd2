----------------------------- MODULE MCFiledrop -----------------------------
(***************************************************************************)
(* Instances of Filedrop for TLC.  Chunks are model values; "z" stands for *)
(* the bytes of a zero-filled chunk, which no file here contains.          *)
(***************************************************************************)
EXTENDS Filedrop

CONSTANTS s1, s2, a, b, d

\* Two senders of one file: the second is the first one restarted.
SameContent == [s \in Sender |-> <<a, b>>]

\* Two files of one name that share their first chunk.
TwoContents == [s \in Sender |-> IF s = s1 THEN <<a, b>> ELSE <<a, d, d>>]

AnyPoint == RPoint \ {"idle"}

\* Everywhere but between the rename of the file and the unlink of its
\* sidecar.
NotAtUnlink == RPoint \ {"idle", "unlink"}

NoPoint == {}

AnyConn == 1..MaxConn
LastSteady == 1..(MaxConn - 1)
=============================================================================
