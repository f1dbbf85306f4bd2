-------------------------- MODULE MCSecureSession --------------------------
(***************************************************************************)
(* Instances of SecureSession for TLC: the scripts are those of a transfer *)
(* of one chunk, the frames of two and three units.                        *)
(***************************************************************************)
EXTENDS SecureSession

MsgType == {"MANIFEST", "RESUME", "CHUNK", "DONE", "RECEIPT"}
Does(o, t, n) == [op |-> o, type |-> t, size |-> n]

Transfer ==
  [s \in Side |->
     IF s = "sender"
     THEN <<Does("send", "MANIFEST", 2), Does("recv", "RESUME", 1),
            Does("send", "CHUNK", 2), Does("send", "DONE", 1),
            Does("recv", "RECEIPT", 1)>>
     ELSE <<Does("recv", "MANIFEST", 2), Does("send", "RESUME", 1),
            Does("recv", "CHUNK", 2), Does("recv", "DONE", 1),
            Does("send", "RECEIPT", 1)>>]
=============================================================================
