------------------------------ MODULE MCSyncDB ------------------------------
(***************************************************************************)
(* Instances of SyncDB for TLC.                                            *)
(***************************************************************************)
EXTENDS SyncDB

CONSTANTS p1, p2, p3

\* The founder's rank is neither the least nor the greatest.
Ranks == [p \in Peer |-> IF p = p1 THEN 2 ELSE IF p = p2 THEN 1 ELSE 3]
=============================================================================
