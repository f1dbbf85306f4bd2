---------------------------- MODULE FileDelivery ----------------------------
(***************************************************************************)
(* What filedrop promises, whatever the connections and the receiving      *)
(* process do: the file under its final name is always a whole file that   *)
(* one of the senders offered, and a sender settles at most once, with a   *)
(* receipt for its own bytes, and only after those bytes had landed under  *)
(* the final name.                                                         *)
(*                                                                         *)
(* This is the abstract specification that Filedrop implements.            *)
(***************************************************************************)
CONSTANTS
  Sender,      \* the senders, each with its own provider key
  Content,     \* Content[s]: the bytes sender s offers, as its chunks
  Consumer,    \* the consumer identities a receiver can sign with
  None         \* no file, no receipt

VARIABLES
  final,       \* the file under its final name
  landed,      \* the contents ever renamed into place
  finished     \* finished[s]: the receipt sender s settled with

vars == <<final, landed, finished>>

\* The receipt a receiver with this identity owes sender s.
ReceiptFor(s, consumer) ==
  [provider |-> s, consumer |-> consumer, channel |-> Content[s]]

Init ==
  /\ final = None
  /\ landed = {}
  /\ finished = [s \in Sender |-> None]

\* The complete file of s appears under the final name, in one step.
Land(s) ==
  /\ final' = Content[s]
  /\ landed' = landed \cup {Content[s]}
  /\ UNCHANGED finished

\* Sender s settles, once, with a receipt for bytes that have landed.
Settle(s) ==
  /\ Content[s] \in landed
  /\ finished[s] = None
  /\ \E c \in Consumer : finished' = [finished EXCEPT ![s] = ReceiptFor(s, c)]
  /\ UNCHANGED <<final, landed>>

Next == \E s \in Sender : Land(s) \/ Settle(s)

Spec == Init /\ [][Next]_vars
=============================================================================
