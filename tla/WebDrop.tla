------------------------------- MODULE WebDrop -------------------------------
(***************************************************************************)
(* The web app: apps/filedrop-web/web/src/app.js, a page that sends and a  *)
(* page that receives, over apps/filedrop/browser.js, the transfer in      *)
(* memory, and apps/filedrop-web/gateway.js, which gives both pages a DHT  *)
(* node.  A broken transfer starts over from chunk 0 on a new connection.  *)
(*                                                                         *)
(* The channel of protocol.js is what SecureSession shows it to be: in     *)
(* order, nothing altered, and only for the passphrase of the sender, but  *)
(* it may break at any time.  So the wire is how much was sent and taken.  *)
(***************************************************************************)
EXTENDS Naturals, FiniteSets

CONSTANTS
  Send,           \* calls of startSend
  Try,            \* calls of startReceive
  totalChunks,
  WrongPass       \* a passphrase no sender has

ASSUME ChunksAssumption == totalChunks \in Nat \ {0}
ASSUME PassAssumption == WrongPass \notin Send

Page == {"send", "receive"}
Done == totalChunks + 1     \* DONE, after the last chunk

VARIABLES
  locked, dialog,   \* the drop area; whether its file dialog is open
  send,             \* send[s]: how far startSend is
  hint,             \* what the sending page says at the end
  node,             \* node[p]: the page's nodePromise
  gateway,
  pass, recv,       \* of startReceive t: the passphrase given, how far it is
  disabled,         \* the receive button
  conn, sent, got,  \* the sender's side of the connection of t, and its wire
  receipt           \* tries whose receipt is on the wire

webVars == <<locked, dialog, send, hint, node, gateway, pass, recv, disabled,
             conn, sent, got, receipt>>
pageVars == <<locked, dialog, send, hint>>
wire == <<conn, sent, got, receipt>>

WebInit ==
  /\ locked = FALSE /\ dialog = FALSE /\ hint = "none" /\ gateway = "up"
  /\ send = [s \in Send |-> "idle"] /\ node = [p \in Page |-> "none"]
  /\ pass = [t \in Try |-> WrongPass] /\ recv = [t \in Try |-> "idle"]
  /\ disabled = FALSE
  /\ conn = [t \in Try |-> "none"] /\ receipt = {}
  /\ sent = [t \in Try |-> 0] /\ got = [t \in Try |-> 0]
-----------------------------------------------------------------------------
(* The node of a page, kept for as long as the page lives.                 *)

\* getNode: the first call opens the websocket.
Wanted(p) == IF node[p] = "none" THEN [node EXCEPT ![p] = "pending"] ELSE node

NodeReady(p) ==
  /\ node[p] = "pending" /\ gateway = "up"
  /\ node' = [node EXCEPT ![p] = "ready"]
  /\ UNCHANGED <<pageVars, gateway, pass, recv, disabled, wire>>

\* The promise is rejected, and stays so.
NodeBroken(p) ==
  /\ node[p] = "pending"
  /\ node' = [node EXCEPT ![p] = "broken"]
  /\ UNCHANGED <<pageVars, gateway, pass, recv, disabled, wire>>

\* close: no more websockets, but those that are open stay.
GatewayCloses ==
  /\ gateway = "up" /\ gateway' = "closing"
  /\ UNCHANGED <<pageVars, node, pass, recv, disabled, wire>>

\* The last session has ended, so the DHT node is destroyed.
GatewayDrained ==
  /\ gateway = "closing" /\ \A p \in Page : node[p] # "ready"
  /\ gateway' = "down"
  /\ UNCHANGED <<pageVars, node, pass, recv, disabled, wire>>
-----------------------------------------------------------------------------
(* The sending page: startSend and createSender.                           *)

Begin(s) ==
  /\ send[s] = "idle"
  /\ locked' = TRUE /\ send' = [send EXCEPT ![s] = "reading"]
  /\ UNCHANGED <<hint, node, gateway, pass, recv, disabled, wire>>

OpenDialog ==
  /\ ~locked /\ ~dialog /\ dialog' = TRUE
  /\ UNCHANGED <<locked, send, hint, node, gateway, pass, recv, disabled, wire>>

\* The change listener of the dialog does not look at the lock.
Choose(s) == dialog /\ dialog' = FALSE /\ Begin(s)

\* A file is dropped or pasted.
DropFile(s) == ~locked /\ UNCHANGED dialog /\ Begin(s)

FileRead(s) ==
  /\ send[s] = "reading"
  /\ send' = [send EXCEPT ![s] = "connecting"] /\ node' = Wanted("send")
  /\ UNCHANGED <<locked, dialog, hint, gateway, pass, recv, disabled, wire>>

Listen(s) ==
  /\ send[s] = "connecting" /\ node["send"] = "ready"
  /\ send' = [send EXCEPT ![s] = "listening"]
  /\ UNCHANGED <<locked, dialog, hint, node, gateway, pass, recv, disabled, wire>>

\* Reading, connecting or listening throws, and nobody catches it.
SendThrows(s) ==
  /\ send[s] = "reading" \/ (send[s] = "connecting" /\ node["send"] \in {"ready", "broken"})
  /\ send' = [send EXCEPT ![s] = "failed"]
  /\ UNCHANGED <<locked, dialog, hint, node, gateway, pass, recv, disabled, wire>>

\* onconnection, past the gate: the next chunk, or DONE.
SendChunk(t) ==
  /\ conn[t] = "open" /\ sent[t] < Done
  /\ sent' = [sent EXCEPT ![t] = @ + 1]
  /\ UNCHANGED <<pageVars, node, gateway, pass, recv, disabled, conn, got, receipt>>

\* Mutant: the promise resolves when everything has been sent.
Bug_TakeReceipt(t) ==
  /\ conn[t] = "open" /\ sent[t] = Done
  /\ receipt' = receipt \ {t} /\ conn' = [conn EXCEPT ![t] = "closed"]
  /\ IF send[pass[t]] = "listening"
     THEN send' = [send EXCEPT ![pass[t]] = "done"] /\ hint' = "spent"
     ELSE UNCHANGED <<send, hint>>
  /\ UNCHANGED <<locked, dialog, node, gateway, pass, recv, disabled, sent, got>>

\* A valid receipt resolves finished: the page says so, and closes the server.
TakeReceipt(t) ==
  /\ conn[t] = "open" /\ sent[t] = Done /\ t \in receipt
  /\ receipt' = receipt \ {t} /\ conn' = [conn EXCEPT ![t] = "closed"]
  /\ IF send[pass[t]] = "listening"
     THEN send' = [send EXCEPT ![pass[t]] = "done"] /\ hint' = "spent"
     ELSE UNCHANGED <<send, hint>>
  /\ UNCHANGED <<locked, dialog, node, gateway, pass, recv, disabled, sent, got>>
-----------------------------------------------------------------------------
(* The receiving page: startReceive and receive.                           *)

Running == {"connecting", "gate", "receiving"}

\* The form is sent, or the page was opened with a passphrase.
Submit(t, p) ==
  /\ ~disabled /\ recv[t] = "idle"
  /\ disabled' = TRUE /\ pass' = [pass EXCEPT ![t] = p]
  /\ recv' = [recv EXCEPT ![t] = "connecting"] /\ node' = Wanted("receive")
  /\ UNCHANGED <<pageVars, gateway, wire>>

Connect(t) ==
  /\ recv[t] = "connecting" /\ node["receive"] = "ready"
  /\ pass[t] # WrongPass /\ send[pass[t]] = "listening"
  /\ recv' = [recv EXCEPT ![t] = "gate"] /\ conn' = [conn EXCEPT ![t] = "gate"]
  /\ UNCHANGED <<pageVars, node, gateway, pass, disabled, sent, got, receipt>>

\* Both sides have shown that they know the passphrase.
Gate(t) ==
  /\ recv[t] = "gate" /\ conn[t] = "gate"
  /\ recv' = [recv EXCEPT ![t] = "receiving"] /\ conn' = [conn EXCEPT ![t] = "open"]
  /\ UNCHANGED <<pageVars, node, gateway, pass, disabled, sent, got, receipt>>

TakeChunk(t) ==
  /\ recv[t] = "receiving" /\ got[t] < sent[t] /\ got[t] < totalChunks
  /\ got' = [got EXCEPT ![t] = @ + 1]
  /\ UNCHANGED <<pageVars, node, gateway, pass, recv, disabled, conn, sent, receipt>>

\* DONE, with every chunk verified: the receipt is sent and the file offered.
TakeDone(t) ==
  /\ recv[t] = "receiving" /\ sent[t] = Done /\ got[t] = totalChunks
  /\ receipt' = receipt \cup {t}
  /\ recv' = [recv EXCEPT ![t] = "verified"] /\ disabled' = FALSE
  /\ UNCHANGED <<pageVars, node, gateway, pass, conn, sent, got>>

\* Mutant: the button stays disabled.
Bug_ReceiveFails(t) ==
  /\ \/ recv[t] = "connecting" /\ node["receive"] \in {"ready", "broken"}
     \/ recv[t] \in {"gate", "receiving"} /\ conn[t] = "closed"
  /\ recv' = [recv EXCEPT ![t] = "failed"]
  /\ UNCHANGED <<pageVars, node, gateway, pass, disabled, wire>>

\* The receive throws, and the handlers show it: there is no node, nobody listens
\* for the passphrase, or the connection is gone.
ReceiveFails(t) ==
  /\ \/ recv[t] = "connecting" /\ node["receive"] \in {"ready", "broken"}
     \/ recv[t] \in {"gate", "receiving"} /\ conn[t] = "closed"
  /\ recv' = [recv EXCEPT ![t] = "failed"] /\ disabled' = FALSE
  /\ UNCHANGED <<pageVars, node, gateway, pass, wire>>

\* The connection breaks, and what is on it is lost.  The sender listens on.
Cut(t) ==
  /\ conn[t] \in {"gate", "open"}
  /\ conn' = [conn EXCEPT ![t] = "closed"] /\ receipt' = receipt \ {t}
  /\ UNCHANGED <<pageVars, node, gateway, pass, recv, disabled, sent, got>>

\* The receiving page is loaded anew: its node and its connections go with it.
Reload ==
  /\ disabled
  /\ disabled' = FALSE /\ node' = [node EXCEPT !["receive"] = "none"]
  /\ recv' = [t \in Try |-> IF recv[t] \in Running THEN "failed" ELSE recv[t]]
  /\ conn' = [t \in Try |-> IF conn[t] = "none" THEN "none" ELSE "closed"]
  /\ receipt' = {}
  /\ UNCHANGED <<pageVars, gateway, pass, sent, got>>

WebNext ==
  \/ OpenDialog
  \/ \E s \in Send : Choose(s) \/ DropFile(s) \/ FileRead(s) \/ Listen(s) \/ SendThrows(s)
  \/ \E t \in Try :
       \/ \E p \in Send \cup {WrongPass} : Submit(t, p)
       \/ Connect(t) \/ Gate(t) \/ SendChunk(t) \/ TakeChunk(t) \/ TakeDone(t)
       \/ TakeReceipt(t) \/ ReceiveFails(t) \/ Cut(t)
  \/ \E p \in Page : NodeReady(p) \/ NodeBroken(p)
  \/ Reload \/ GatewayCloses \/ GatewayDrained

WebSpec == WebInit /\ [][WebNext]_webVars

\* A websocket opens or fails, a connection is made, carries on or fails, and the
\* event loop runs both handlers.
WebFairness ==
  /\ \A p \in Page : WF_webVars(NodeReady(p) \/ NodeBroken(p))
  /\ \A t \in Try :
       /\ WF_webVars(Connect(t) \/ ReceiveFails(t)) /\ WF_webVars(Gate(t))
       /\ WF_webVars(SendChunk(t)) /\ WF_webVars(TakeChunk(t) \/ TakeDone(t))
       /\ WF_webVars(TakeReceipt(t))

WebFairSpec == WebSpec /\ WebFairness
-----------------------------------------------------------------------------
(* Properties.                                                             *)

\* What the pages say is so, wherever connections broke before: the receiver that
\* shows "verified" has every chunk of the sender with its passphrase, and a sender
\* is done only if such a receiver signed for it (app.js:103-108, 137-145).
PagesAgree ==
  /\ \A t \in Try : recv[t] = "verified" =>
       pass[t] \in Send /\ got[t] = totalChunks /\ sent[t] = Done
  /\ \A s \in Send : send[s] = "done" =>
       \E t \in Try : pass[t] = s /\ recv[t] = "verified"

\* However a receive goes, without a node, without a sender or with a connection
\* that breaks, the button can be pressed again (app.js:121, 151-153).
ButtonComesBack == \A t \in Try : recv[t] \in Running ~> ~disabled

\* Said on the page, but refuted: "transfer complete. the passphrase is now spent
\* [...] drop another file to send again" (app.js:107).  It would have to
\* take one: the drop area would be unlocked.
HintHolds == hint = "spent" => ~locked
=============================================================================
