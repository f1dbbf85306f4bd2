---------------------------- MODULE Apps_proofs -----------------------------
(***************************************************************************)
(* Proofs about the web app and the tools of the harness: the two pages,   *)
(* and the trials over the network, a part each.                           *)
(***************************************************************************)
EXTENDS WebDrop, NetTrial, BenchGate, BenchRig, FiniteSetTheorems, SequenceTheorems,
  WellFoundedInduction, TLAPS
-----------------------------------------------------------------------------
(***************************************************************************)
(* What the two pages say of a transfer is so, for any number of files,    *)
(* attempts and chunks, wherever connections break and pages are reloaded. *)
(***************************************************************************)

TransferTypes ==
  /\ send \in [Send -> {"idle", "reading", "connecting", "listening", "done", "failed"}]
  /\ pass \in [Try -> Send \cup {WrongPass}]
  /\ recv \in [Try -> {"idle", "connecting", "gate", "receiving", "verified", "failed"}]
  /\ conn \in [Try -> {"none", "gate", "open", "closed"}]
  /\ sent \in [Try -> 0..Done] /\ got \in [Try -> 0..totalChunks]
  /\ receipt \subseteq Try

\* A receiver past the gate has a passphrase of a sender; one that is verified has
\* everything; receipts are of such receivers only, and so are senders done.
PageInv ==
  /\ TransferTypes
  /\ \A t \in Try : recv[t] \in {"gate", "receiving", "verified"} => pass[t] \in Send
  /\ \A t \in Try : recv[t] = "verified" => got[t] = totalChunks /\ sent[t] = Done
  /\ \A t \in receipt : recv[t] = "verified"
  /\ \A s \in Send : send[s] = "done" => \E t \in Try : pass[t] = s /\ recv[t] = "verified"

transfer == <<send, pass, recv, sent, got, receipt>>

LEMMA PageInvInit == WebInit => PageInv
BY ChunksAssumption, PassAssumption DEF WebInit, PageInv, TransferTypes, Done

\* Steps that touch the page, its node or the gateway only.
LEMMA PageInvElsewhere == PageInv /\ UNCHANGED <<transfer, conn>> => PageInv'
BY DEF PageInv, TransferTypes, transfer, Done

\* Steps of a sender that is not done, which does not make it done.
LEMMA PageInvSending ==
  ASSUME PageInv, NEW s \in Send, send[s] # "done",
         NEW phase \in {"reading", "connecting", "listening", "failed"},
         send' = [send EXCEPT ![s] = phase],
         UNCHANGED <<pass, recv, conn, sent, got, receipt>>
  PROVE  PageInv'
BY DEF PageInv, TransferTypes, Done

\* Attempt t goes on, or fails, before it is verified.
LEMMA PageInvReceiving ==
  ASSUME PageInv, NEW t \in Try, recv[t] # "verified",
         NEW phase \in {"gate", "receiving", "failed"},
         phase # "failed" => pass[t] \in Send,
         recv' = [recv EXCEPT ![t] = phase],
         conn' \in [Try -> {"none", "gate", "open", "closed"}],
         UNCHANGED <<send, pass, sent, got, receipt>>
  PROVE  PageInv'
<1>1. recv'[t] = phase /\ \A u \in Try : u # t => recv'[u] = recv[u]
  BY DEF PageInv, TransferTypes
<1>2. TransferTypes'
  BY DEF PageInv, TransferTypes, Done
<1>3. \A u \in Try : (recv'[u] = "verified" <=> recv[u] = "verified")
                       /\ (recv'[u] \in {"gate", "receiving", "verified"} => pass[u] \in Send)
  BY <1>1 DEF PageInv
<1>4. receipt \subseteq Try
  BY DEF PageInv, TransferTypes
<1> QED  BY <1>2, <1>3, <1>4 DEF PageInv

LEMMA PageInvSubmit ==
  ASSUME PageInv, NEW t \in Try, NEW p \in Send \cup {WrongPass}, Submit(t, p)
  PROVE  PageInv'
<1>1. /\ recv[t] = "idle" /\ pass' = [pass EXCEPT ![t] = p]
      /\ recv' = [recv EXCEPT ![t] = "connecting"]
      /\ UNCHANGED <<send, conn, sent, got, receipt>>
  BY DEF Submit, pageVars, wire
<1>2. \A u \in Try : u # t => recv'[u] = recv[u] /\ pass'[u] = pass[u]
  BY <1>1 DEF PageInv, TransferTypes
<1>3. recv'[t] = "connecting"
  BY <1>1 DEF PageInv, TransferTypes
<1>4. TransferTypes'
  BY <1>1 DEF PageInv, TransferTypes, Done
<1> QED  BY <1>1, <1>2, <1>3, <1>4 DEF PageInv

LEMMA PageInvWire ==
  ASSUME PageInv, NEW t \in Try,
         SendChunk(t) \/ TakeChunk(t) \/ TakeDone(t) \/ Cut(t)
  PROVE  PageInv'
<1>1. CASE SendChunk(t)
  BY <1>1, ChunksAssumption DEF SendChunk, PageInv, TransferTypes, Done, pageVars
<1>2. CASE TakeChunk(t)
  BY <1>2, ChunksAssumption DEF TakeChunk, PageInv, TransferTypes, Done, pageVars
<1>3. CASE TakeDone(t)
  BY <1>3, ChunksAssumption DEF TakeDone, PageInv, TransferTypes, Done, pageVars
<1>4. CASE Cut(t)
  BY <1>4 DEF Cut, PageInv, TransferTypes, Done, pageVars
<1> QED  BY <1>1, <1>2, <1>3, <1>4

LEMMA PageInvTakeReceipt ==
  ASSUME PageInv, NEW t \in Try, TakeReceipt(t) PROVE PageInv'
<1>1. recv[t] = "verified" /\ pass[t] \in Send
  BY DEF TakeReceipt, PageInv, TransferTypes
<1>2. /\ receipt' = receipt \ {t} /\ conn' = [conn EXCEPT ![t] = "closed"]
      /\ UNCHANGED <<pass, recv, sent, got>>
      /\ send' \in {send, [send EXCEPT ![pass[t]] = "done"]}
  BY DEF TakeReceipt
<1> QED  BY <1>1, <1>2 DEF PageInv, TransferTypes, Done

LEMMA PageInvReload == PageInv /\ Reload => PageInv'
<1> SUFFICES ASSUME PageInv, Reload PROVE PageInv'
  OBVIOUS
<1>1. \A t \in Try : recv'[t] = IF recv[t] \in Running THEN "failed" ELSE recv[t]
  BY DEF Reload
<1>2. \A t \in Try : (recv'[t] = "verified" <=> recv[t] = "verified")
                       /\ recv'[t] \notin {"gate", "receiving"}
  BY <1>1 DEF Running, PageInv, TransferTypes
<1>3. TransferTypes'
  BY DEF Reload, pageVars, Running, PageInv, TransferTypes, Done
<1>4. receipt' = {} /\ UNCHANGED <<send, pass, sent, got>>
  BY DEF Reload, pageVars
<1> QED  BY <1>2, <1>3, <1>4 DEF PageInv

LEMMA PageInvNext == PageInv /\ [WebNext]_webVars => PageInv'
<1> SUFFICES ASSUME PageInv, [WebNext]_webVars PROVE PageInv'
  OBVIOUS
<1>1. ASSUME NEW s \in Send, Choose(s) \/ DropFile(s) PROVE PageInv'
  BY <1>1, PageInvSending DEF Choose, DropFile, Begin, wire
<1>2. ASSUME NEW s \in Send, FileRead(s) PROVE PageInv'
  BY <1>2, PageInvSending DEF FileRead, wire
<1>3. ASSUME NEW s \in Send, Listen(s) PROVE PageInv'
  BY <1>3, PageInvSending DEF Listen, wire
<1>4. ASSUME NEW s \in Send, SendThrows(s) PROVE PageInv'
  BY <1>4, PageInvSending DEF SendThrows, wire
<1>5. ASSUME NEW t \in Try, Connect(t) PROVE PageInv'
  <2>1. recv[t] # "verified" /\ pass[t] \in Send
    BY <1>5 DEF Connect, PageInv, TransferTypes
  <2>2. conn' \in [Try -> {"none", "gate", "open", "closed"}]
    BY <1>5 DEF Connect, PageInv, TransferTypes
  <2> QED  BY <1>5, <2>1, <2>2, PageInvReceiving DEF Connect, pageVars
<1>6. ASSUME NEW t \in Try, Gate(t) PROVE PageInv'
  <2>1. recv[t] # "verified" /\ pass[t] \in Send
    BY <1>6 DEF Gate, PageInv
  <2>2. conn' \in [Try -> {"none", "gate", "open", "closed"}]
    BY <1>6 DEF Gate, PageInv, TransferTypes
  <2> QED  BY <1>6, <2>1, <2>2, PageInvReceiving DEF Gate, pageVars
<1>7. ASSUME NEW t \in Try, ReceiveFails(t) PROVE PageInv'
  <2>1. recv[t] # "verified"
    BY <1>7 DEF ReceiveFails
  <2>2. conn' \in [Try -> {"none", "gate", "open", "closed"}]
    BY <1>7 DEF ReceiveFails, PageInv, TransferTypes, wire
  <2> QED  BY <1>7, <2>1, <2>2, PageInvReceiving DEF ReceiveFails, pageVars, wire
<1>8. CASE OpenDialog \/ GatewayCloses \/ GatewayDrained
           \/ \E p \in Page : NodeReady(p) \/ NodeBroken(p)
  BY <1>8, PageInvElsewhere
     DEF OpenDialog, GatewayCloses, GatewayDrained, NodeReady, NodeBroken, transfer,
         pageVars, wire
<1>9. CASE UNCHANGED webVars
  BY <1>9, PageInvElsewhere DEF webVars, transfer
<1> QED
  BY <1>1, <1>2, <1>3, <1>4, <1>5, <1>6, <1>7, <1>8, <1>9, PageInvSubmit, PageInvWire,
     PageInvTakeReceipt, PageInvReload
     DEF WebNext

\* A page that shows "verified" has every chunk of the sender with its passphrase,
\* and a sender is done only when such a page signed for it (app.js:103-108, 137-145).
THEOREM PagesTell == WebSpec => []PagesAgree
<1>1. PageInv => PagesAgree
  BY DEF PageInv, PagesAgree
<1> QED  BY <1>1, PageInvInit, PageInvNext, PTL DEF WebSpec
-----------------------------------------------------------------------------
(***************************************************************************)
(* For any number of trials: whatever is lost, exits early or comes late,  *)
(* a trial that counts as a success was one, and so was a run.             *)
(***************************************************************************)

Grant == {"no", "sent", "given", "known", "refused"}
Ack == {"no", "made", "arrived", "lost"}
State == {"none", "boot", "ready", "closing", "exited"}
Line == {"marker", "failed", "ok"}
Trial == [ok : BOOLEAN, have : BOOLEAN, grant : Grant, ack : Ack]

Mains ==
  /\ exitCode \in 0..2 /\ trials \in Seq(Trial)
  /\ have \in BOOLEAN /\ grant \in Grant /\ ack \in Ack

Types ==
  /\ Mains
  /\ proc \in [Child -> State] /\ pipe \in [Child -> Seq(Line)]
  /\ lines \in [Child -> SUBSET Line]

\* What only B can have sent, after it had everything.
Earned == ack # "no" => have /\ (kind = "sync" => grant = "known")

\* A has said ok, read or not, only after that came.
Told ==
  ("ok" \in lines["A"] \/ \E k \in DOMAIN pipe["A"] : pipe["A"][k] = "ok")
    => ack = "arrived"

\* Where main is tells what the children cannot have done yet.
InTurn ==
  /\ main \in {"idle", "relay", "first"} => proc["B"] = "none"
  /\ main \in {"idle", "relay", "first", "writer"} => grant = "no"
  /\ proc["B"] \in {"none", "boot", "ready"} => ack = "no"
  /\ main = "idle" => trials = <<>>
  /\ main # "exited" => exitCode = 2 /\ Len(trials) < n

TrialInv == Types /\ Earned /\ Told /\ InTurn /\ TrialTrue

LEMMA TrialInvInit == TrialInit => TrialInv
<1> SUFFICES ASSUME TrialInit PROVE TrialInv
  OBVIOUS
<1>1. Types
  <2>1. Mains
    <3>1. trials \in Seq(Trial) /\ exitCode \in 0..2
      BY DEF TrialInit
    <3>2. have \in BOOLEAN
      BY Zenon DEF TrialInit
    <3>3. grant \in Grant /\ ack \in Ack
      BY DEF TrialInit, Grant, Ack
    <3> QED  BY <3>1, <3>2, <3>3 DEF Mains
  <2>2. pipe \in [Child -> Seq(Line)]
    BY DEF TrialInit, Quiet
  <2> QED  BY <2>1, <2>2 DEF TrialInit, Types, State
<1>2. Earned /\ Told /\ InTurn /\ TrialTrue
  BY TrialsAssumption
  DEF TrialInit, Earned, Told, InTurn, TrialTrue, Child, Quiet
<1> QED  BY <1>1, <1>2 DEF TrialInv

\* A child moves on, and may print a line that is not "ok".
LEMMA TrialInvChild ==
  ASSUME TrialInv, NEW c \in Child, NEW s, Becomes(c, s),
         proc[c] \in {"boot", "ready", "closing"}, s \in {"ready", "closing", "exited"},
         c = "B" /\ s = "ready" => proc[c] = "boot",
         UNCHANGED pipe \/ \E line \in {"marker", "failed"} : Prints(c, line),
         UNCHANGED <<main, kind, exitCode, trials, lines, exited, world>>
  PROVE  TrialInv'
<1>1. Types'
  <2>1. Mains'
    BY DEF TrialInv, Types, Mains, world
  <2>2. proc' \in [Child -> State]
    BY DEF TrialInv, Types, Becomes, State
  <2>3. pipe' \in [Child -> Seq(Line)]
    <3>1. ASSUME NEW line \in {"marker", "failed"}, Prints(c, line)
          PROVE  pipe' \in [Child -> Seq(Line)]
      <4>1. pipe[c] \in Seq(Line) /\ line \in Line
        BY DEF TrialInv, Types, Line
      <4>2. Append(pipe[c], line) \in Seq(Line)
        BY <4>1
      <4> QED  BY <3>1, <4>2 DEF TrialInv, Types, Prints
    <3> QED  BY <3>1 DEF TrialInv, Types
  <2> QED  BY <2>1, <2>2, <2>3 DEF TrialInv, Types
<1>2. Earned' /\ TrialTrue'
  BY DEF TrialInv, Earned, TrialTrue, world
<1>3. Told'
  <2>1. ASSUME NEW k \in DOMAIN pipe'["A"], pipe'["A"][k] = "ok"
        PROVE  k \in DOMAIN pipe["A"] /\ pipe["A"][k] = "ok"
    <3>1. CASE UNCHANGED pipe
      BY <2>1, <3>1
    <3>2. ASSUME NEW line \in {"marker", "failed"}, Prints(c, line)
          PROVE  k \in DOMAIN pipe["A"] /\ pipe["A"][k] = "ok"
      <4>1. pipe["A"] \in Seq(Line) /\ line \in Line /\ line # "ok"
        BY DEF TrialInv, Types, Child, Line
      <4>2. pipe'["A"] = IF c = "A" THEN Append(pipe["A"], line) ELSE pipe["A"]
        BY <3>2 DEF TrialInv, Types, Prints, Child
      <4> QED  BY <2>1, <4>1, <4>2
    <3> QED  BY <3>1, <3>2
  <2> QED  BY <2>1 DEF TrialInv, Told, world
<1>4. InTurn'
  BY DEF TrialInv, Types, Mains, InTurn, Becomes, world, Child
<1> QED  BY <1>1, <1>2, <1>3, <1>4 DEF TrialInv

\* A trial begins.
LEMMA TrialInvFresh ==
  ASSUME TrialInv, NEW relay \in State, Fresh(relay),
         exitCode' = 2, trials' \in Seq(Trial), Len(trials') < n, TrialTrue'
  PROVE  TrialInv'
<1>1. Types'
  <2>1. Mains'
    <3>1. have' \in BOOLEAN
      BY Zenon DEF Fresh
    <3>2. grant' \in Grant /\ ack' \in Ack
      BY DEF Fresh, Grant, Ack
    <3> QED  BY <3>1, <3>2 DEF Mains
  <2>2. pipe' \in [Child -> Seq(Line)]
    BY DEF Fresh, Quiet
  <2> QED  BY <2>1, <2>2 DEF Fresh, Types, State
<1>2. Earned' /\ Told' /\ InTurn'
  BY DEF Fresh, Earned, Told, InTurn, Child, Quiet
<1> QED  BY <1>1, <1>2 DEF TrialInv

LEMMA TrialInvSettle ==
  ASSUME TrialInv, main \notin {"idle", "exited"}, NEW ok \in BOOLEAN, Settle(ok),
         ok => ack = "arrived"
  PROVE  TrialInv'
<1> DEFINE r == [ok |-> ok, have |-> have, grant |-> grant, ack |-> ack]
           all == Append(trials, r)
<1>1. r \in Trial /\ trials \in Seq(Trial) /\ n \in Nat
  BY TrialsAssumption DEF TrialInv, Types, Mains, Trial
<1>2. r.ok => r.have /\ r.ack = "arrived" /\ (kind = "sync" => r.grant = "known")
  BY DEF TrialInv, Earned
<1>3. trials' = all /\ kind' = kind
  BY DEF Settle
<1> HIDE DEF r
<1>4. /\ all \in Seq(Trial) /\ Len(all) = Len(trials) + 1 /\ Len(trials) < n
      /\ \A k \in DOMAIN all : k \in DOMAIN trials \/ all[k] = r
      /\ \A k \in DOMAIN trials : k \in DOMAIN all /\ all[k] = trials[k]
  BY <1>1 DEF TrialInv, InTurn
<1>5. \A k \in DOMAIN all : all[k].ok =>
        /\ all[k].have /\ all[k].ack = "arrived"
        /\ kind = "sync" => all[k].grant = "known"
  BY <1>2, <1>4 DEF TrialInv, TrialTrue
<1> HIDE DEF all
<1>6. CASE Len(all) < n
  <2>1. Fresh(proc["relay"]) /\ exitCode' = 2 /\ proc["relay"] \in State
    BY <1>6 DEF Settle, all, r, TrialInv, InTurn, Types, Child
  <2>2. TrialTrue'
    BY <1>3, <1>5, <2>1 DEF TrialTrue
  <2> QED  BY <1>3, <1>4, <1>6, <2>1, <2>2, TrialInvFresh DEF TrialInv, Types, Mains
<1>7. CASE ~(Len(all) < n)
  <2>1. /\ main' = "exited" /\ exitCode' = IF \A k \in DOMAIN all : all[k].ok THEN 0 ELSE 1
        /\ proc' = [c \in Child |-> "exited"]
        /\ UNCHANGED <<pipe, lines, exited, world>>
    BY <1>7 DEF Settle, all, r
  <2>2. TrialTrue'
    BY <1>1, <1>3, <1>4, <1>5, <1>7, <2>1 DEF TrialTrue
  <2>3. Types'
    <3>1. Mains'
      BY <1>3, <1>4, <2>1 DEF TrialInv, Types, Mains, world
    <3> QED  BY <2>1, <3>1 DEF TrialInv, Types, State
  <2>4. Earned' /\ Told' /\ InTurn'
    BY <1>3, <2>1 DEF TrialInv, Earned, Told, InTurn, world, Child
  <2> QED  BY <2>2, <2>3, <2>4 DEF TrialInv
<1> QED  BY <1>6, <1>7
-----------------------------------------------------------------------------
LEMMA TrialInvChildren ==
  ASSUME TrialInv, NEW c \in Child,
         Boots(c) \/ Breaks(c) \/ TimesOut(c) \/ Exits(c) \/ Dies(c)
  PROVE  TrialInv'
<1>1. CASE Boots(c)
  <2>1. UNCHANGED pipe \/ Prints(c, "marker")
    BY <1>1 DEF Boots
  <2> QED  BY <1>1, <2>1, TrialInvChild DEF Boots
<1>2. CASE Breaks(c)
  BY <1>2, TrialInvChild DEF Breaks
<1>3. CASE TimesOut(c)
  BY <1>3, TrialInvChild DEF TimesOut
<1>4. CASE Exits(c)
  BY <1>4, TrialInvChild DEF Exits
<1>5. CASE Dies(c)
  BY <1>5, TrialInvChild DEF Dies
<1> QED  BY <1>1, <1>2, <1>3, <1>4, <1>5

LEMMA TailElement ==
  ASSUME NEW S, NEW q \in Seq(S), q # <<>>, NEW k \in DOMAIN Tail(q)
  PROVE  k + 1 \in DOMAIN q /\ Tail(q)[k] = q[k + 1]
OBVIOUS

LEMMA TrialInvReads ==
  ASSUME TrialInv, NEW c \in Child, ReadsLine(c) PROVE TrialInv'
<1>1. /\ pipe[c] # <<>> /\ lines' = [lines EXCEPT ![c] = @ \cup {Head(pipe[c])}]
      /\ pipe' = [pipe EXCEPT ![c] = Tail(@)]
      /\ UNCHANGED <<main, kind, exitCode, trials, proc, have, grant, ack>>
  BY DEF ReadsLine, world
<1>2. pipe[c] \in Seq(Line) /\ pipe["A"] \in Seq(Line)
  BY DEF TrialInv, Types, Child
<1>3. Head(pipe[c]) = pipe[c][1] /\ 1 \in DOMAIN pipe[c] /\ Head(pipe[c]) \in Line
  BY <1>1, <1>2
<1>4. Types'
  <2>1. Tail(pipe[c]) \in Seq(Line)
    BY <1>1, <1>2
  <2>2. pipe' \in [Child -> Seq(Line)]
    BY <1>1, <2>1 DEF TrialInv, Types
  <2>3. lines' \in [Child -> SUBSET Line]
    BY <1>1, <1>3 DEF TrialInv, Types
  <2> QED  BY <1>1, <2>2, <2>3 DEF TrialInv, Types, Mains
<1>5. Told'
  <2>1. CASE c = "A"
    <3>1. lines'["A"] = lines["A"] \cup {pipe["A"][1]} /\ pipe'["A"] = Tail(pipe["A"])
      BY <1>1, <1>3, <2>1 DEF TrialInv, Types
    <3>2. ASSUME NEW k \in DOMAIN pipe'["A"], pipe'["A"][k] = "ok"
          PROVE  k + 1 \in DOMAIN pipe["A"] /\ pipe["A"][k + 1] = "ok"
      BY <1>1, <1>2, <2>1, <3>1, <3>2, TailElement
    <3> QED  BY <1>1, <1>3, <2>1, <3>1, <3>2 DEF TrialInv, Told
  <2>2. CASE c # "A"
    BY <1>1, <2>2 DEF TrialInv, Told, Types, Child
  <2> QED  BY <2>1, <2>2
<1>6. Earned' /\ InTurn' /\ TrialTrue'
  BY <1>1 DEF TrialInv, Earned, InTurn, TrialTrue
<1> QED  BY <1>4, <1>5, <1>6 DEF TrialInv

LEMMA TrialInvMain ==
  ASSUME TrialInv,
         \/ \E what \in {"drop", "sync"}, relayed \in BOOLEAN : StartTrials(what, relayed)
         \/ RelayUp \/ FirstReady \/ WriterReady \/ BothExited \/ GivesUp
  PROVE  TrialInv'
<1>1. ASSUME NEW what, NEW relayed, StartTrials(what, relayed) PROVE TrialInv'
  <2>1. /\ main = "idle" /\ trials = <<>> /\ trials' = <<>> /\ UNCHANGED exitCode
        /\ exitCode = 2 /\ Len(trials) < n
    BY <1>1 DEF StartTrials, TrialInv, InTurn
  <2>2. TrialTrue'
    BY <2>1 DEF TrialTrue
  <2>3. CASE Fresh("none")
    BY <2>1, <2>2, <2>3, TrialInvFresh DEF TrialInv, Types, Mains, State
  <2>4. CASE ~Fresh("none")
    <3>1. /\ main' = "relay" /\ proc' = [proc EXCEPT !["relay"] = "boot"]
          /\ UNCHANGED <<pipe, lines, exited, have, grant, ack>>
      BY <1>1, <2>4 DEF StartTrials, Becomes, world
    <3>2. Types'
      <4>1. proc' \in [Child -> State]
        BY <3>1 DEF TrialInv, Types, State
      <4> QED  BY <2>1, <3>1, <4>1 DEF TrialInv, Types, Mains
    <3>3. proc["B"] = "none" /\ grant = "no" /\ ack = "no" /\ proc'["B"] = "none"
      BY <2>1, <3>1 DEF TrialInv, Types, InTurn, Child
    <3>4. Earned' /\ Told' /\ InTurn'
      BY <2>1, <3>1, <3>3 DEF TrialInv, Earned, Told, InTurn
    <3> QED  BY <2>2, <3>2, <3>4 DEF TrialInv
  <2> QED  BY <2>3, <2>4
<1>2. CASE RelayUp
  <2>1. /\ Fresh(proc["relay"]) /\ UNCHANGED <<kind, exitCode, trials>>
        /\ exitCode = 2 /\ Len(trials) < n /\ proc["relay"] \in State
    BY <1>2 DEF RelayUp, TrialInv, InTurn, Types, Child
  <2>2. TrialTrue'
    BY <2>1 DEF TrialInv, TrialTrue
  <2> QED  BY <2>1, <2>2, TrialInvFresh DEF TrialInv, Types, Mains
<1>3. CASE FirstReady
  <2>1. /\ main = "first" /\ main' \in {"writer", "exits"}
        /\ proc' = [proc EXCEPT !["B"] = "boot"]
        /\ UNCHANGED <<kind, exitCode, trials, pipe, lines, have, grant, ack>>
    BY <1>3 DEF FirstReady, Becomes, world
  <2>2. proc' \in [Child -> State] /\ proc'["B"] = "boot" /\ ack = "no" /\ grant = "no"
    BY <2>1 DEF TrialInv, Types, InTurn, State, Child
  <2>3. Types'
    BY <2>1, <2>2 DEF TrialInv, Types, Mains
  <2>4. Earned' /\ Told' /\ InTurn' /\ TrialTrue'
    BY <2>1, <2>2 DEF TrialInv, Earned, Told, InTurn, TrialTrue
  <2> QED  BY <2>3, <2>4 DEF TrialInv
<1>4. CASE WriterReady
  <2>1. /\ main = "writer" /\ main' \in {"exits", "exited"} /\ grant' \in {"sent", grant}
        /\ main' = "exits" => exitCode' = exitCode
        /\ exitCode' \in {exitCode, 1}
        /\ UNCHANGED <<kind, trials, proc, pipe, lines, have, ack>>
    BY <1>4 DEF WriterReady
  <2>2. grant = "no" /\ grant' \in Grant /\ exitCode' \in 0..2
    BY <2>1 DEF TrialInv, Types, Mains, InTurn, Grant
  <2>3. Types'
    BY <2>1, <2>2 DEF TrialInv, Types, Mains
  <2>4. Earned'
    BY <2>1, <2>2 DEF TrialInv, Earned
  <2>5. Told' /\ InTurn' /\ TrialTrue'
    BY <2>1, <2>2 DEF TrialInv, Told, InTurn, TrialTrue
  <2> QED  BY <2>3, <2>4, <2>5 DEF TrialInv
<1>5. CASE BothExited
  <2> DEFINE ok == Reported("A") /\ Reported("B")
  <2>1. Settle(ok) /\ main = "exits"
    BY <1>5 DEF BothExited
  <2>2. ok \in BOOLEAN /\ (ok => ack = "arrived")
    BY DEF Reported, TrialInv, Told
  <2> HIDE DEF ok
  <2> QED  BY <2>1, <2>2, TrialInvSettle
<1>6. CASE GivesUp
  <2>1. CASE main \in {"first", "writer"} /\ Settle(FALSE)
    BY <2>1, TrialInvSettle
  <2>2. CASE main = "relay" /\ main' = "exited" /\ exitCode' = 1
             /\ UNCHANGED <<kind, trials, proc, pipe, lines, exited, world>>
    <3>1. Types'
      BY <2>2 DEF TrialInv, Types, Mains, world
    <3>2. Earned' /\ Told' /\ InTurn' /\ TrialTrue'
      BY <2>2 DEF TrialInv, Earned, Told, InTurn, TrialTrue, world
    <3> QED  BY <3>1, <3>2 DEF TrialInv
  <2> QED  BY <1>6, <2>1, <2>2 DEF GivesUp
<1> QED  BY <1>1, <1>2, <1>3, <1>4, <1>5, <1>6

LEMMA TrialInvWorld ==
  ASSUME TrialInv,
         \/ Converges \/ (\E ok \in BOOLEAN : Grants(ok)) \/ LearnsGrant
         \/ Acks \/ AckArrives \/ AckLost
  PROVE  TrialInv'
<1>1. CASE Converges
  <2>1. UNCHANGED <<main, kind, exitCode, trials, proc, pipe, lines, grant, ack>> /\ have'
    BY <1>1 DEF Converges
  <2>2. have' \in BOOLEAN
    BY <2>1
  <2>3. Types'
    BY <2>1, <2>2 DEF TrialInv, Types, Mains
  <2>4. Earned' /\ Told' /\ InTurn' /\ TrialTrue'
    BY <2>1 DEF TrialInv, Earned, Told, InTurn, TrialTrue
  <2> QED  BY <2>3, <2>4 DEF TrialInv
<1>2. ASSUME \/ \E ok \in BOOLEAN : Grants(ok)
             \/ LearnsGrant
      PROVE  TrialInv'
  <2>1. /\ UNCHANGED <<main, kind, exitCode, trials, proc, pipe, lines, have, ack>>
        /\ grant \in {"sent", "given"} /\ grant' \in {"given", "refused", "known"}
    BY <1>2 DEF Grants, LearnsGrant
  <2>2. Types'
    BY <2>1 DEF TrialInv, Types, Mains, Grant
  <2>3. Earned' /\ Told' /\ TrialTrue'
    BY <2>1 DEF TrialInv, Earned, Told, TrialTrue
  <2>4. InTurn'
    BY <2>1 DEF TrialInv, InTurn
  <2> QED  BY <2>2, <2>3, <2>4 DEF TrialInv
<1>3. CASE Acks
  <2>1. /\ proc["B"] = "ready" /\ have /\ (kind = "sync" => grant = "known")
        /\ ack' = "made" /\ Prints("B", "ok") /\ proc' = [proc EXCEPT !["B"] = "closing"]
        /\ UNCHANGED <<main, kind, exitCode, trials, lines, have, grant>>
    BY <1>3 DEF Acks, Becomes
  <2>2. ack = "no" /\ pipe["B"] \in Seq(Line) /\ "ok" \in Line /\ "B" \in Child
    BY <2>1 DEF TrialInv, InTurn, Types, Line, Child
  <2>3. pipe' \in [Child -> Seq(Line)] /\ pipe'["A"] = pipe["A"]
    BY <2>1, <2>2 DEF TrialInv, Types, Prints, Child
  <2>4. proc' \in [Child -> State] /\ proc'["B"] = "closing" /\ ack' \in Ack
    BY <2>1, <2>2 DEF TrialInv, Types, State, Ack
  <2>5. Types'
    BY <2>1, <2>3, <2>4 DEF TrialInv, Types, Mains
  <2>6. main \notin {"idle", "relay", "first"}
    BY <2>1 DEF TrialInv, InTurn
  <2>7. InTurn' /\ Earned' /\ Told' /\ TrialTrue'
    BY <2>1, <2>2, <2>3, <2>4, <2>6 DEF TrialInv, InTurn, Earned, Told, TrialTrue
  <2> QED  BY <2>5, <2>7 DEF TrialInv
<1>4. CASE AckArrives
  <2>1. /\ ack = "made" /\ ack' = "arrived" /\ Prints("A", "ok")
        /\ proc' = [proc EXCEPT !["A"] = "closing"]
        /\ UNCHANGED <<main, kind, exitCode, trials, lines, have, grant>>
    BY <1>4 DEF AckArrives, Becomes
  <2>2. pipe["A"] \in Seq(Line) /\ "ok" \in Line /\ "A" \in Child
    BY DEF TrialInv, Types, Line, Child
  <2>3. Append(pipe["A"], "ok") \in Seq(Line)
    BY <2>2
  <2>4. pipe' \in [Child -> Seq(Line)]
    BY <2>1, <2>3 DEF TrialInv, Types, Prints
  <2>5. proc' \in [Child -> State] /\ proc'["B"] = proc["B"] /\ ack' \in Ack
    BY <2>1 DEF TrialInv, Types, State, Ack, Child
  <2>6. Types'
    BY <2>1, <2>4, <2>5 DEF TrialInv, Types, Mains
  <2>7. InTurn' /\ Earned' /\ Told' /\ TrialTrue'
    BY <2>1, <2>5 DEF TrialInv, InTurn, Earned, Told, TrialTrue
  <2> QED  BY <2>6, <2>7 DEF TrialInv
<1>5. CASE AckLost
  <2>1. /\ ack = "made" /\ ack' = "lost" /\ proc["B"] = "exited"
        /\ UNCHANGED <<main, kind, exitCode, trials, proc, pipe, lines, have, grant>>
    BY <1>5 DEF AckLost
  <2>2. Types'
    BY <2>1 DEF TrialInv, Types, Mains, Ack
  <2>3. InTurn' /\ Earned' /\ Told' /\ TrialTrue'
    BY <2>1 DEF TrialInv, InTurn, Earned, Told, TrialTrue
  <2> QED  BY <2>2, <2>3 DEF TrialInv
<1> QED  BY <1>1, <1>2, <1>3, <1>4, <1>5

LEMMA TrialInvNext == TrialInv /\ [TrialNext]_trialVars => TrialInv'
<1> SUFFICES ASSUME TrialInv, [TrialNext]_trialVars PROVE TrialInv'
  OBVIOUS
<1>1. ASSUME UNCHANGED trialVars PROVE TrialInv'
  BY <1>1
  DEF TrialInv, Types, Mains, Earned, Told, InTurn, TrialTrue, trialVars, world
<1>2. ASSUME NEW c \in Child, SeesExit(c) PROVE TrialInv'
  <2>1. UNCHANGED <<main, kind, exitCode, trials, proc, pipe, lines, have, grant, ack>>
    BY <1>2 DEF SeesExit, world
  <2> QED  BY <2>1 DEF TrialInv, Types, Mains, Earned, Told, InTurn, TrialTrue
<1> QED
  BY <1>1, <1>2, TrialInvMain, TrialInvChildren, TrialInvReads, TrialInvWorld, Zenon
  DEF TrialNext

\* For any number of trials, a trial counts as a success only if B had everything and
\* its receipt, or its granted write, came to A, whatever the processes report or omit.
THEOREM TrialsTrue == TrialSpec => []TrialTrue
<1>1. TrialInv => TrialTrue
  BY DEF TrialInv
<1> QED  BY <1>1, TrialInvInit, TrialInvNext, PTL DEF TrialSpec
-----------------------------------------------------------------------------
(***************************************************************************)
(* What a benchmark run holds is let go, wherever it throws.               *)
(***************************************************************************)

RunSet == {"dirA", "dirB", "writer", "reader"}
Linked(l) ==
  IF l = "clean" THEN {"socketA", "socketB", "server", "nodeB", "nodeA", "testnet"}
  ELSE {"streamA", "streamB", "socketA", "socketB", "linkToA", "linkToB"}
Thing == RunSet \cup Linked("clean") \cup Linked("lossy")

LEMMA OrderClean ==
  ASSUME link = "clean"
  PROVE  /\ Len(Order) = 10
         /\ Order[1] = "dirA" /\ Order[2] = "dirB" /\ Order[3] = "writer" /\ Order[4] = "reader"
         /\ Order[5] = "testnet" /\ Order[6] = "nodeA" /\ Order[7] = "nodeB"
         /\ Order[8] = "server" /\ Order[9] = "socketB" /\ Order[10] = "socketA"
BY DEF Order, Run, Parts

LEMMA OrderLossy ==
  ASSUME link = "lossy"
  PROVE  /\ Len(Order) = 10
         /\ Order[1] = "dirA" /\ Order[2] = "dirB" /\ Order[3] = "writer" /\ Order[4] = "reader"
         /\ Order[5] = "socketA" /\ Order[6] = "socketB" /\ Order[7] = "linkToA"
         /\ Order[8] = "linkToB" /\ Order[9] = "streamA" /\ Order[10] = "streamB"
BY DEF Order, Run, Parts

\* Everything is acquired after what it uses.
LEMMA AcquiredAfter ==
  ASSUME link \in Link, NEW k \in 1..10, NEW u \in Uses(Order[k])
  PROVE  \E j \in 1..(k - 1) : Order[j] = u
<1>1. k \in {1, 2, 3, 4, 5, 6, 7, 8, 9, 10}
  OBVIOUS
<1>2. CASE link = "clean"
  <2> QED  BY <1>1, <1>2, OrderClean DEF Uses
<1>3. CASE link = "lossy"
  <2> QED  BY <1>1, <1>3, OrderLossy DEF Uses
<1> QED  BY <1>2, <1>3 DEF Link

\* A sequence of releases in which nothing goes before what uses it.
Safe(l, P) ==
  /\ P \in Seq(SUBSET Thing)
  /\ \A k \in 1..Len(P) : \A r \in RunSet \cup Linked(l) :
       Uses(r) \cap P[k] # {} => \E i \in 1..(k - 1) : r \in P[i]

LEMMA UsesAre ==
  ASSUME NEW r, NEW u \in Uses(r)
  PROVE  \/ r = "writer" /\ u = "dirA"
         \/ r = "reader" /\ u = "dirB"
         \/ r \in {"nodeA", "nodeB"} /\ u = "testnet"
         \/ r = "server" /\ u = "nodeA"
         \/ r = "streamA" /\ u = "socketA"
         \/ r = "streamB" /\ u = "socketB"
<1>1. Uses("writer") = {"dirA"} /\ Uses("reader") = {"dirB"} /\ Uses("server") = {"nodeA"}
  BY DEF Uses
<1>2. Uses("nodeA") = {"testnet"} /\ Uses("nodeB") = {"testnet"}
  BY DEF Uses
<1>3. Uses("streamA") = {"socketA"} /\ Uses("streamB") = {"socketB"}
  BY DEF Uses
<1>4. CASE r \in {"writer", "reader", "nodeA", "nodeB", "server", "streamA", "streamB"}
  BY <1>1, <1>2, <1>3, <1>4
<1>5. CASE r \notin {"writer", "reader", "nodeA", "nodeB", "server", "streamA", "streamB"}
  <2>1. Uses(r) = {}
    BY <1>5 DEF Uses
  <2> QED  BY <2>1
<1> QED  BY <1>4, <1>5

LEMMA FinallySafe ==
  ASSUME NEW l
  PROVE  /\ Safe(l, Finally) /\ Len(Finally) = 4
         /\ \A r \in RunSet : \E i \in 1..4 : r \in Finally[i]
<1>1. /\ Finally \in Seq(SUBSET Thing) /\ Len(Finally) = 4
      /\ Finally[1] = {"reader"} /\ Finally[2] = {"writer"}
      /\ Finally[3] = {"dirA"} /\ Finally[4] = {"dirB"}
  BY DEF Finally, Thing, RunSet
<1>2. ASSUME NEW k \in 1..4, NEW r \in RunSet \cup Linked(l), Uses(r) \cap Finally[k] # {}
      PROVE  \E i \in 1..(k - 1) : r \in Finally[i]
  <2>1. PICK u \in Uses(r) : u \in Finally[k]
    BY <1>2
  <2>2. k \in {1, 2, 3, 4}
    OBVIOUS
  <2> QED  BY <2>1, <2>2, <1>1, UsesAre
<1>3. 1 \in 1..4 /\ 2 \in 1..4 /\ 3 \in 1..4 /\ 4 \in 1..4
  OBVIOUS
<1>4. \A r \in RunSet : \E i \in 1..4 : r \in Finally[i]
  BY <1>1, <1>3 DEF RunSet
<1> QED  BY <1>1, <1>2, <1>4 DEF Safe

LEMMA DestroySafe ==
  ASSUME NEW l \in Link
  PROVE  /\ Safe(l, Destroy[l]) /\ Len(Destroy[l]) \in {4, 5}
         /\ \A r \in Linked(l) : \E i \in 1..Len(Destroy[l]) : r \in Destroy[l][i]
<1> DEFINE D == Destroy[l]
<1>1. CASE l = "clean"
  <2>1. /\ D \in Seq(SUBSET Thing) /\ Len(D) = 5
        /\ D[1] = {"socketA", "socketB"} /\ D[2] = {"server"} /\ D[3] = {"nodeB"}
        /\ D[4] = {"nodeA"} /\ D[5] = {"testnet"}
    BY <1>1 DEF Destroy, Thing, Linked
  <2> HIDE DEF D
  <2>2. ASSUME NEW k \in 1..5, NEW r \in RunSet \cup Linked(l), Uses(r) \cap D[k] # {}
        PROVE  \E i \in 1..(k - 1) : r \in D[i]
    <3>1. PICK u \in Uses(r) : u \in D[k]
      BY <2>2
    <3>2. k \in {1, 2, 3, 4, 5} /\ (k > 1 => 1 \in 1..(k - 1)) /\ (k > 2 => 2 \in 1..(k - 1))
          /\ (k > 3 => 3 \in 1..(k - 1)) /\ (k > 4 => 4 \in 1..(k - 1))
      OBVIOUS
    <3>3. CASE k \in {1, 2, 3}
      BY <1>1, <3>1, <3>2, <3>3, <2>1, UsesAre DEF Linked, RunSet
    <3>4. CASE k \in {4, 5}
      BY <1>1, <3>1, <3>2, <3>4, <2>1, UsesAre DEF Linked, RunSet
    <3> QED  BY <3>2, <3>3, <3>4
  <2>3. \A i : i \in 1..5 <=> i \in {1, 2, 3, 4, 5}
    OBVIOUS
  <2>4. \A r \in Linked(l) : \E i \in 1..5 : r \in D[i]
    BY <1>1, <2>1, <2>3 DEF Linked
  <2>5. Safe(l, D)
    BY <2>1, <2>2 DEF Safe
  <2> QED  BY <1>1, <2>1, <2>4, <2>5 DEF D
<1>2. CASE l = "lossy"
  <2>1. /\ D \in Seq(SUBSET Thing) /\ Len(D) = 4
        /\ D[1] = {"streamA", "streamB"} /\ D[2] = {"socketA", "socketB"}
        /\ D[3] = {"linkToA"} /\ D[4] = {"linkToB"}
    BY <1>2 DEF Destroy, Thing, Linked
  <2> HIDE DEF D
  <2>2. ASSUME NEW k \in 1..4, NEW r \in RunSet \cup Linked(l), Uses(r) \cap D[k] # {}
        PROVE  \E i \in 1..(k - 1) : r \in D[i]
    <3>1. PICK u \in Uses(r) : u \in D[k]
      BY <2>2
    <3>2. k \in {1, 2, 3, 4}
      OBVIOUS
    <3> QED  BY <1>2, <3>1, <3>2, <2>1, UsesAre DEF Linked, RunSet
  <2>3. \A i : i \in 1..4 <=> i \in {1, 2, 3, 4}
    OBVIOUS
  <2>4. \A r \in Linked(l) : \E i \in 1..4 : r \in D[i]
    BY <1>2, <2>1, <2>3 DEF Linked
  <2>5. Safe(l, D)
    BY <2>1, <2>2 DEF Safe
  <2> QED  BY <1>2, <2>1, <2>4, <2>5 DEF D
<1> QED  BY <1>1, <1>2 DEF Link

\* One after the other they are safe as well.
LEMMA SafeAfterSafe ==
  ASSUME NEW l, NEW P, Safe(l, P), NEW Q, Safe(l, Q)
  PROVE  /\ Safe(l, P \o Q) /\ Len(P \o Q) = Len(P) + Len(Q)
         /\ \A r : (\E i \in 1..Len(P) : r \in P[i]) \/ (\E i \in 1..Len(Q) : r \in Q[i])
              => \E i \in 1..Len(P \o Q) : r \in (P \o Q)[i]
<1> DEFINE m == Len(P)
           e == Len(Q)
           R == P \o Q
<1>1. m \in Nat /\ e \in Nat /\ R \in Seq(SUBSET Thing) /\ Len(R) = m + e
  BY DEF Safe
<1>2. \A i \in 1..m : R[i] = P[i]
  BY DEF Safe
<1>3. \A i \in 1..e : R[m + i] = Q[i]
  BY DEF Safe
<1>4. (\A k \in 1..m : \A r \in RunSet \cup Linked(l) :
         Uses(r) \cap P[k] # {} => \E i \in 1..(k - 1) : r \in P[i])
      /\ \A k \in 1..e : \A r \in RunSet \cup Linked(l) :
         Uses(r) \cap Q[k] # {} => \E i \in 1..(k - 1) : r \in Q[i]
  BY DEF Safe
<1> HIDE DEF m, e, R
<1>5. ASSUME NEW k \in 1..(m + e), NEW r \in RunSet \cup Linked(l), Uses(r) \cap R[k] # {}
      PROVE  \E i \in 1..(k - 1) : r \in R[i]
  <2>1. CASE k \in 1..m
    <3>1. PICK i \in 1..(k - 1) : r \in P[i]
      BY <2>1, <1>2, <1>4, <1>5
    <3> QED  BY <3>1, <2>1, <1>1, <1>2
  <2>2. CASE ~(k \in 1..m)
    <3>1. k - m \in 1..e /\ m + (k - m) = k
      BY <2>2, <1>1
    <3>2. PICK i \in 1..((k - m) - 1) : r \in Q[i]
      BY <3>1, <1>3, <1>4, <1>5
    <3>3. m + i \in 1..(k - 1) /\ i \in 1..e
      BY <3>1, <3>2, <1>1
    <3> QED  BY <3>2, <3>3, <1>3
  <2> QED  BY <2>1, <2>2
<1>6. \A i \in 1..m : i \in 1..(m + e)
  BY <1>1
<1>7. \A i \in 1..e : m + i \in 1..(m + e)
  BY <1>1
<1> QED  BY <1>1, <1>2, <1>3, <1>5, <1>6, <1>7 DEF Safe, m, e, R

\* What is left of a sequence, from place k on.
LEMMA RestOf ==
  ASSUME NEW S, NEW P \in Seq(S), NEW k \in 1..Len(P)
  PROVE  /\ Head(SubSeq(P, k, Len(P))) = P[k]
         /\ Len(SubSeq(P, k, Len(P))) > 1 <=> k < Len(P)
         /\ k < Len(P) => Tail(SubSeq(P, k, Len(P))) = SubSeq(P, k + 1, Len(P))
<1> DEFINE e == Len(P)
           Q == SubSeq(P, k, e)
<1>1. e \in Nat /\ k \in 1..e /\ e \in k..e
  OBVIOUS
<1>2. Head(Q) = P[k] /\ Tail(Q) = SubSeq(P, k + 1, e)
  BY <1>1, HeadTailOfSubSeq
<1>3. Len(Q) = (e - k) + 1
  BY <1>1
<1> HIDE DEF e, Q
<1>4. Len(Q) > 1 <=> k < e
  BY <1>1, <1>3
<1> QED  BY <1>2, <1>4 DEF e, Q

UsesHeld(h) == \A r \in h : Uses(r) \subseteq h

LEMMA LetGo ==
  ASSUME NEW l, NEW P, Safe(l, P), NEW k \in 1..Len(P), NEW h \in SUBSET (RunSet \cup Linked(l)),
         UsesHeld(h), \A i \in 1..(k - 1) : h \cap P[i] = {}, NEW g \in SUBSET P[k]
  PROVE  UsesHeld(h \ g) /\ (g = P[k] => \A i \in 1..k : (h \ g) \cap P[i] = {})
<1>1. ASSUME NEW r \in h \ g, NEW u \in Uses(r), u \in g PROVE FALSE
  <2>1. Uses(r) \cap P[k] # {}
    BY <1>1
  <2>2. PICK i \in 1..(k - 1) : r \in P[i]
    BY <2>1 DEF Safe
  <2> QED  BY <2>2
<1>2. Len(P) \in Nat
  BY DEF Safe
<1>3. \A i \in 1..k : i \in 1..(k - 1) \/ i = k
  BY <1>2
<1>4. UsesHeld(h \ g)
  BY <1>1 DEF UsesHeld
<1> QED  BY <1>3, <1>4

\* Places of P are left from some k on; what is before is no longer held.
Letting(P, rest, h) ==
  \E k \in 1..Len(P) : rest = SubSeq(P, k, Len(P)) /\ \A i \in 1..(k - 1) : h \cap P[i] = {}

LEMMA LettingStarts ==
  ASSUME NEW l, NEW P, Safe(l, P), Len(P) > 0, NEW h
  PROVE  Letting(P, P, h)
<1>1. Len(P) \in Nat /\ 1 \in 1..Len(P) /\ P = SubSeq(P, 1, Len(P))
  BY DEF Safe
<1>2. \A i \in 1..(1 - 1) : FALSE
  OBVIOUS
<1> QED  BY <1>1, <1>2 DEF Letting

LEMMA LettingGoes ==
  ASSUME NEW l, NEW P, Safe(l, P), NEW rest, NEW h \in SUBSET (RunSet \cup Linked(l)),
         UsesHeld(h), Letting(P, rest, h)
  PROVE  /\ \A g \in SUBSET Head(rest) : UsesHeld(h \ g)
         /\ Len(rest) > 1 => Letting(P, Tail(rest), h \ Head(rest))
         /\ ~(Len(rest) > 1) => \A i \in 1..Len(P) : (h \ Head(rest)) \cap P[i] = {}
<1>1. PICK k \in 1..Len(P) :
        rest = SubSeq(P, k, Len(P)) /\ \A i \in 1..(k - 1) : h \cap P[i] = {}
  BY DEF Letting
<1>2. P \in Seq(SUBSET Thing)
  BY DEF Safe
<1>3. /\ Head(rest) = P[k] /\ (Len(rest) > 1 <=> k < Len(P))
      /\ k < Len(P) => Tail(rest) = SubSeq(P, k + 1, Len(P))
  BY <1>1, <1>2, RestOf
<1>4. ASSUME NEW g \in SUBSET Head(rest) PROVE UsesHeld(h \ g)
  BY <1>1, <1>3, LetGo
<1>5. \A i \in 1..k : (h \ Head(rest)) \cap P[i] = {}
  BY <1>1, <1>3, LetGo
<1>6. ASSUME k < Len(P) PROVE Letting(P, Tail(rest), h \ Head(rest))
  <2>1. Len(P) \in Nat
    BY <1>2
  <2>2. k + 1 \in 1..Len(P) /\ (k + 1) - 1 = k
    BY <2>1, <1>6
  <2> QED  BY <2>2, <1>3, <1>5, <1>6 DEF Letting
<1>7. ASSUME ~(k < Len(P)) PROVE \A i \in 1..Len(P) : (h \ Head(rest)) \cap P[i] = {}
  <2>1. Len(P) \in Nat
    BY <1>2
  <2>2. k = Len(P)
    BY <2>1, <1>7
  <2> QED  BY <2>2, <1>5
<1> QED  BY <1>3, <1>4, <1>6, <1>7

\* Nothing went wrong where the code does not look after it.
Guarded == failed \cap Unguarded = {} /\ stuck = {}

RigInv ==
  /\ link \in Link /\ next \in 0..10
  /\ held \subseteq RunSet \cup Linked(link) /\ UsesHeld(held)
  /\ step \in {"idle", "acquire", "work"} =>
       failed = {} /\ stuck = {} /\ held = {Order[i] : i \in 1..next}
  /\ step = "idle" => next = 0
  /\ step = "acquire" => next < 10
  /\ step = "destroy" => Letting(Destroy[link], left, held)
  /\ step = "finally" =>
       \/ Letting(Destroy[link] \o Finally, left, held)
       \/ Letting(Finally, left, held) /\ (Guarded => held \subseteq RunSet)
  /\ step = "settled" => (Guarded => held = {})

\* All that is acquired, in one order or the other.
LEMMA OrderIs ==
  ASSUME link \in Link
  PROVE  /\ Len(Order) = 10 /\ \A i \in 1..10 : Order[i] \in RunSet \cup Linked(link)
         /\ \A i \in 1..4 : Order[i] \in RunSet
         /\ \A i \in 5..10 : Order[i] \in Linked(link) /\ Order[i] \notin RunSet
<1>1. \A i : i \in 1..10 <=> i \in 1..4 \/ i \in 5..10
  OBVIOUS
<1>2. \A i \in 1..4 : i \in {1, 2, 3, 4}
  OBVIOUS
<1>3. \A i \in 5..10 : i \in {5, 6, 7, 8, 9, 10}
  OBVIOUS
<1>4. \A i \in 1..4 : Order[i] \in RunSet
  BY <1>2, OrderClean, OrderLossy DEF RunSet, Link
<1>5. CASE link = "clean"
  <2>1. \A i \in 5..10 : Order[i] \in Linked(link) /\ Order[i] \notin RunSet
    BY <1>3, <1>5, OrderClean DEF Linked, RunSet
  <2> QED  BY <2>1, <1>1, <1>4, <1>5, OrderClean
<1>6. CASE link = "lossy"
  <2>1. \A i \in 5..10 : Order[i] \in Linked(link) /\ Order[i] \notin RunSet
    BY <1>3, <1>6, OrderLossy DEF Linked, RunSet
  <2> QED  BY <2>1, <1>1, <1>4, <1>6, OrderLossy
<1> QED  BY <1>5, <1>6 DEF Link

\* A step of the link outside of its own try block comes first, or is unguarded.
LEMMA OwnFirst ==
  ASSUME link \in Link, NEW k \in 5..10, Order[k] \notin OwnTry(link),
         Order[k] \notin Unguarded
  PROVE  k = 5
<1>1. k \in {5, 6, 7, 8, 9, 10}
  OBVIOUS
<1>2. CASE link = "clean"
  BY <1>1, <1>2, OrderClean DEF OwnTry, Unguarded
<1>3. CASE link = "lossy"
  BY <1>1, <1>3, OrderLossy DEF OwnTry, Unguarded
<1> QED  BY <1>2, <1>3 DEF Link

LEMMA RigStarts == RigInit => RigInv
BY DEF RigInit, RigInv, Link, UsesHeld

LEMMA RigStartRun == ASSUME RigInv, NEW l \in Link, StartRun(l) PROVE RigInv'
<1>1. step = "idle" /\ step' = "acquire" /\ link' = l /\ next = 0 /\ next' = 0
      /\ held = {Order[i] : i \in 1..0} /\ held' = held /\ failed' = failed /\ stuck' = stuck
      /\ failed = {} /\ stuck = {}
  BY DEF StartRun, RigInv
<1>2. held = {}
  BY <1>1
<1>3. {Order'[i] : i \in 1..0} = {}
  OBVIOUS
<1> QED  BY <1>1, <1>2, <1>3 DEF RigInv, UsesHeld

LEMMA RigAcquire == ASSUME RigInv, Acquire PROVE RigInv'
<1> DEFINE k == next + 1
<1>1. /\ step = "acquire" /\ next \in 0..10 /\ next < 10 /\ link \in Link
      /\ failed = {} /\ stuck = {} /\ held = {Order[i] : i \in 1..next}
      /\ UsesHeld(held) /\ held \subseteq RunSet \cup Linked(link)
  BY DEF Acquire, RigInv
<1>2. /\ held' = held \cup {Order[k]} /\ next' = k /\ link' = link
      /\ failed' = failed /\ stuck' = stuck
      /\ step' = IF k = Len(Order) THEN "work" ELSE step
  BY DEF Acquire
<1>3. k \in 1..10 /\ k - 1 = next
  BY <1>1
<1>4. Len(Order) = 10 /\ Order[k] \in RunSet \cup Linked(link)
  BY <1>1, <1>3, OrderIs
<1>5. Order' = Order
  BY <1>2 DEF Order
<1>6. \A i : i \in 1..k <=> i \in 1..next \/ i = k
  BY <1>1
<1>7. Uses(Order[k]) \subseteq held
  BY <1>1, <1>3, AcquiredAfter
<1> HIDE DEF k
<1>8. held' = {Order'[i] : i \in 1..next'}
  BY <1>1, <1>2, <1>5, <1>6
<1>9. UsesHeld(held')
  BY <1>1, <1>2, <1>7 DEF UsesHeld
<1>10. step' \in {"acquire", "work"} /\ (step' = "acquire" => next' < 10)
  BY <1>1, <1>2, <1>3, <1>4
<1>11. next' \in 0..10
  BY <1>2, <1>3
<1> QED  BY <1>1, <1>2, <1>4, <1>8, <1>9, <1>10, <1>11 DEF RigInv

LEMMA RigAcquireThrows == ASSUME RigInv, AcquireThrows PROVE RigInv'
<1> DEFINE k == next + 1
           r == Order[k]
<1>1. /\ step = "acquire" /\ next \in 0..10 /\ next < 10 /\ link \in Link
      /\ failed = {} /\ stuck = {} /\ held = {Order[i] : i \in 1..next}
      /\ UsesHeld(held) /\ held \subseteq RunSet \cup Linked(link)
  BY DEF AcquireThrows, RigInv
<1>2. /\ failed' = failed \cup {r} /\ UNCHANGED <<link, next, held, stuck>>
      /\ IF r \in {"dirA", "dirB"} THEN step' = "settled" /\ UNCHANGED left
         ELSE IF next >= Len(Run) /\ r \in OwnTry(link)
         THEN step' = "destroy" /\ left' = Destroy[link]
         ELSE step' = "finally" /\ left' = Finally
  BY DEF AcquireThrows
<1>3. k \in 1..10
  BY <1>1
<1>4. Guarded' => r \notin Unguarded
  BY <1>2 DEF Guarded, Unguarded
<1>5. CASE r \in {"dirA", "dirB"}
  <2>1. ASSUME Guarded' PROVE held = {}
    <3>1. r = "dirA"
      BY <2>1, <1>4, <1>5 DEF Unguarded
    <3>2. Order[1] = "dirA"
      BY <1>1, OrderClean, OrderLossy DEF Link
    <3>3. k = 1
      <4>1. k \in 1..4
        BY <3>1, <1>1, <1>3, OrderIs DEF RunSet
      <4>2. k \in {1, 2, 3, 4}
        BY <4>1
      <4> QED  BY <4>2, <3>1, <1>1, OrderClean, OrderLossy DEF Link
    <3>4. next = 0
      BY <3>3, <1>1
    <3> QED  BY <3>4, <1>1
  <2> QED  BY <2>1, <1>1, <1>2, <1>5 DEF RigInv
<1>6. CASE r \notin {"dirA", "dirB"} /\ next >= Len(Run) /\ r \in OwnTry(link)
  <2>1. step' = "destroy" /\ left' = Destroy[link]
    BY <1>2, <1>6
  <2>2. Safe(link, Destroy[link]) /\ Len(Destroy[link]) > 0
    BY <1>1, DestroySafe
  <2>3. Letting(Destroy[link], Destroy[link], held)
    BY <2>2, LettingStarts
  <2> QED  BY <2>1, <2>3, <1>1, <1>2 DEF RigInv
<1>7. CASE r \notin {"dirA", "dirB"} /\ ~(next >= Len(Run) /\ r \in OwnTry(link))
  <2>1. step' = "finally" /\ left' = Finally
    BY <1>2, <1>7
  <2>2. Letting(Finally, Finally, held)
    BY FinallySafe, LettingStarts
  <2>3. ASSUME Guarded' PROVE held \subseteq RunSet
    <3>1. next <= 4
      <4> SUFFICES ASSUME next > 4 PROVE FALSE
        BY <1>1
      <4>1. Len(Run) = 4
        BY DEF Run
      <4>2. k \in 5..10 /\ k # 5
        BY <1>1
      <4>3. r \notin OwnTry(link)
        BY <4>1, <1>1, <1>7
      <4> HIDE DEF k
      <4> QED  BY <4>2, <4>3, <2>3, <1>1, <1>4, OwnFirst
    <3>2. \A i \in 1..next : i \in 1..4
      BY <3>1, <1>1
    <3> QED  BY <3>2, <1>1, OrderIs
  <2> QED  BY <2>1, <2>2, <2>3, <1>1, <1>2 DEF RigInv
<1> QED  BY <1>5, <1>6, <1>7

\* Everything of the link and of the run together.
LEMMA BothSafe ==
  ASSUME NEW l \in Link
  PROVE  /\ Safe(l, Destroy[l] \o Finally) /\ Len(Destroy[l] \o Finally) > 0
         /\ \A r \in RunSet \cup Linked(l) :
              \E i \in 1..Len(Destroy[l] \o Finally) : r \in (Destroy[l] \o Finally)[i]
<1>1. Safe(l, Destroy[l]) /\ Len(Destroy[l]) \in {4, 5}
      /\ \A r \in Linked(l) : \E i \in 1..Len(Destroy[l]) : r \in Destroy[l][i]
  BY DestroySafe
<1>2. Safe(l, Finally) /\ Len(Finally) = 4
      /\ \A r \in RunSet : \E i \in 1..Len(Finally) : r \in Finally[i]
  BY FinallySafe
<1>3. /\ Safe(l, Destroy[l] \o Finally)
      /\ Len(Destroy[l] \o Finally) = Len(Destroy[l]) + Len(Finally)
      /\ \A r : (\E i \in 1..Len(Destroy[l]) : r \in Destroy[l][i])
                  \/ (\E i \in 1..Len(Finally) : r \in Finally[i])
           => \E i \in 1..Len(Destroy[l] \o Finally) : r \in (Destroy[l] \o Finally)[i]
  BY <1>1, <1>2, SafeAfterSafe
<1> QED  BY <1>1, <1>2, <1>3

LEMMA RigWork == ASSUME RigInv, NEW ok \in BOOLEAN, Work(ok) PROVE RigInv'
<1>1. /\ step' = "finally" /\ left' = Destroy[link] \o Finally
      /\ UNCHANGED <<link, next, held, stuck>>
  BY DEF Work
<1>2. Letting(Destroy[link] \o Finally, Destroy[link] \o Finally, held)
  BY BothSafe, LettingStarts DEF RigInv
<1> QED  BY <1>1, <1>2 DEF RigInv

LEMMA RigRelease == ASSUME RigInv, Release PROVE RigInv'
<1> DEFINE h == held \ Head(left)
           D == Destroy[link]
           B == D \o Finally
<1>1. /\ step \in {"destroy", "finally"} /\ held' = h /\ UNCHANGED <<link, next, failed, stuck>>
      /\ IF Len(left) > 1 THEN left' = Tail(left) /\ UNCHANGED step ELSE Skip
  BY DEF Release
<1>2. /\ link \in Link /\ next \in 0..10 /\ held \subseteq RunSet \cup Linked(link)
      /\ UsesHeld(held)
  BY DEF RigInv
<1>3. Guarded' = Guarded
  BY <1>1 DEF Guarded, Unguarded
<1>4. CASE step = "destroy"
  <2>1. Letting(D, left, held)
    BY <1>4 DEF RigInv
  <2>2. Safe(link, D) /\ \A r \in Linked(link) : \E i \in 1..Len(D) : r \in D[i]
    BY <1>2, DestroySafe
  <2>3. /\ UsesHeld(h) /\ (Len(left) > 1 => Letting(D, Tail(left), h))
        /\ ~(Len(left) > 1) => \A i \in 1..Len(D) : h \cap D[i] = {}
    BY <1>2, <2>1, <2>2, LettingGoes
  <2>4. CASE Len(left) > 1
    BY <1>1, <1>2, <1>4, <2>3, <2>4 DEF RigInv
  <2>5. CASE ~(Len(left) > 1)
    <3>1. step' = "finally" /\ left' = Finally
      BY <1>1, <1>4, <2>5 DEF Skip
    <3>2. h \subseteq RunSet
      BY <1>2, <2>2, <2>3, <2>5
    <3>3. Letting(Finally, Finally, h)
      BY FinallySafe, LettingStarts
    <3> QED  BY <1>1, <1>2, <2>3, <3>1, <3>2, <3>3 DEF RigInv
  <2> QED  BY <2>4, <2>5
<1>5. CASE step = "finally" /\ Letting(B, left, held)
  <2>1. /\ Safe(link, B)
        /\ \A r \in RunSet \cup Linked(link) : \E i \in 1..Len(B) : r \in B[i]
    BY <1>2, BothSafe
  <2> HIDE DEF B
  <2>2. /\ UsesHeld(h) /\ (Len(left) > 1 => Letting(B, Tail(left), h))
        /\ ~(Len(left) > 1) => \A i \in 1..Len(B) : h \cap B[i] = {}
    BY <1>2, <1>5, <2>1, LettingGoes
  <2>3. CASE Len(left) > 1
    BY <1>1, <1>2, <1>5, <2>2, <2>3 DEF RigInv, B
  <2>4. CASE ~(Len(left) > 1)
    <3>1. step' = "settled"
      BY <1>1, <1>5, <2>4 DEF Skip
    <3>2. h = {}
      BY <1>2, <2>1, <2>2, <2>4
    <3> QED  BY <1>1, <1>2, <2>2, <3>1, <3>2 DEF RigInv
  <2> QED  BY <2>3, <2>4
<1>6. CASE step = "finally" /\ Letting(Finally, left, held) /\ (Guarded => held \subseteq RunSet)
  <2>1. Safe(link, Finally) /\ \A r \in RunSet : \E i \in 1..Len(Finally) : r \in Finally[i]
    BY FinallySafe
  <2>2. /\ UsesHeld(h) /\ (Len(left) > 1 => Letting(Finally, Tail(left), h))
        /\ ~(Len(left) > 1) => \A i \in 1..Len(Finally) : h \cap Finally[i] = {}
    BY <1>2, <1>6, <2>1, LettingGoes
  <2>3. CASE Len(left) > 1
    BY <1>1, <1>2, <1>3, <1>6, <2>2, <2>3 DEF RigInv
  <2>4. CASE ~(Len(left) > 1)
    <3>1. step' = "settled"
      BY <1>1, <1>6, <2>4 DEF Skip
    <3>2. Guarded => h = {}
      BY <1>6, <2>1, <2>2, <2>4
    <3> QED  BY <1>1, <1>2, <1>3, <2>2, <3>1, <3>2 DEF RigInv
  <2> QED  BY <2>3, <2>4
<1> QED  BY <1>1, <1>4, <1>5, <1>6 DEF RigInv

LEMMA RigReleaseThrows == ASSUME RigInv, NEW open, ReleaseThrows(open) PROVE RigInv'
<1> DEFINE g == Head(left) \ open
           h == held \ g
           D == Destroy[link]
           B == D \o Finally
<1>1. /\ step \in {"destroy", "finally"} /\ open # {} /\ held' = h
      /\ stuck' = stuck \cup open /\ Skip /\ UNCHANGED <<link, next, failed>>
  BY DEF ReleaseThrows
<1>2. /\ link \in Link /\ next \in 0..10 /\ held \subseteq RunSet \cup Linked(link)
      /\ UsesHeld(held)
  BY DEF RigInv
<1>3. ~Guarded'
  BY <1>1 DEF Guarded
<1>4. g \in SUBSET Head(left)
  OBVIOUS
<1>5. UsesHeld(h)
  <2>1. PICK P \in {D, B, Finally} : Letting(P, left, held)
    BY <1>1 DEF RigInv
  <2>2. Safe(link, P)
    BY <1>2, <2>1, DestroySafe, BothSafe, FinallySafe
  <2> HIDE DEF D, B, g
  <2> QED  BY <1>2, <1>4, <2>1, <2>2, LettingGoes
<1> HIDE DEF g
<1>6. CASE step = "destroy"
  <2>1. step' = "finally" /\ left' = Finally
    BY <1>1, <1>6 DEF Skip
  <2>2. Letting(Finally, Finally, h)
    BY FinallySafe, LettingStarts
  <2> QED  BY <1>1, <1>2, <1>3, <1>5, <2>1, <2>2 DEF RigInv
<1>7. CASE step = "finally"
  <2>1. step' = "settled"
    BY <1>1, <1>7 DEF Skip
  <2> QED  BY <1>1, <1>2, <1>3, <1>5, <2>1 DEF RigInv
<1> QED  BY <1>1, <1>6, <1>7

LEMMA RigRests == RigInv /\ UNCHANGED rigVars => RigInv'
BY DEF RigInv, rigVars, Guarded, Unguarded, Order

\* A run ends with nothing held, but for unguarded steps and stuck releases; and
\* nothing goes before what uses it (harness/bench/replicate.js:161-168, 218-239).
THEOREM RigReleases == RigSpec => []AllReleased
<1>1. RigInit => RigInv
  BY RigStarts
<1>2. RigInv /\ [RigNext]_rigVars => RigInv'
  BY RigStartRun, RigAcquire, RigAcquireThrows, RigWork, RigRelease, RigReleaseThrows, RigRests
     DEF RigNext
<1>3. RigInv => AllReleased
  BY DEF RigInv, AllReleased, Guarded, UsesHeld
<1> QED  BY <1>1, <1>2, <1>3, PTL DEF RigSpec
-----------------------------------------------------------------------------
(***************************************************************************)
(* The verdict of a checked benchmark run is that of all its repetitions,  *)
(* whatever the benches report and however often they are run again.       *)
(***************************************************************************)

\* Induction, for sets.
LEMMA CountingUp ==
  ASSUME NEW S, 0 \in S, \A j \in Nat : j \in S => j + 1 \in S
  PROVE  Nat \subseteq S
<1> DEFINE T == Nat \ S
           R == {ss \in Nat \X Nat : ss[1] < ss[2]}
<1> SUFFICES ASSUME T # {} PROVE FALSE
  OBVIOUS
<1>1. IsWellFoundedOn(R, Nat)
  BY NatLessThanWellFounded, Zenon DEF OpToRel
<1>2. PICK x \in T : \A y \in T : <<y, x>> \notin R
  <2> HIDE DEF R
  <2> QED  BY <1>1, WFMin
<1>3. x \in Nat /\ x # 0 /\ x \notin S
  OBVIOUS
<1>4. x - 1 \in Nat /\ <<x - 1, x>> \in R
  BY <1>3
<1>5. x - 1 \in S
  BY <1>2, <1>4
<1> QED  BY <1>3, <1>4, <1>5

\* A finite set of numbers has a greatest and a least.
LEMMA Extremes ==
  ASSUME NEW S \in SUBSET Int, IsFiniteSet(S), S # {}
  PROVE  /\ Max(S) \in S /\ \A y \in S : y <= Max(S)
         /\ Min(S) \in S /\ \A y \in S : Min(S) <= y
<1> DEFINE Hi(T) == \E x \in T : \A y \in T : x >= y
           Lo(T) == \E x \in T : \A y \in T : x <= y
           M == {j \in Nat : \A T \in SUBSET Int :
                   IsFiniteSet(T) /\ Cardinality(T) = j /\ T # {} => Hi(T) /\ Lo(T)}
<1>1. 0 \in M
  <2>1. ASSUME NEW T \in SUBSET Int, IsFiniteSet(T), Cardinality(T) = 0 PROVE T = {}
    BY <2>1, FS_EmptySet
  <2> QED  BY <2>1
<1>2. ASSUME NEW j \in Nat, j \in M PROVE j + 1 \in M
  <2> SUFFICES ASSUME NEW T \in SUBSET Int, IsFiniteSet(T), Cardinality(T) = j + 1, T # {}
               PROVE  Hi(T) /\ Lo(T)
    OBVIOUS
  <2>1. PICK e \in T : TRUE
    OBVIOUS
  <2> DEFINE U == T \ {e}
  <2>2. IsFiniteSet(U) /\ Cardinality(U) = j /\ U \in SUBSET Int
    <3>1. IsFiniteSet(U) /\ Cardinality(U) = Cardinality(T) - 1
      BY FS_RemoveElement
    <3> QED  BY <3>1
  <2>3. CASE U = {}
    <3>1. T = {e} /\ e \in Int
      BY <2>1, <2>3
    <3> QED  BY <3>1
  <2>4. CASE U # {}
    <3>1. Hi(U) /\ Lo(U)
      BY <1>2, <2>2, <2>4
    <3>2. T = U \cup {e} /\ e \in Int
      BY <2>1
    <3> HIDE DEF U
    <3>3. PICK a \in U : \A y \in U : a >= y
      BY <3>1
    <3>4. PICK b \in U : \A y \in U : b <= y
      BY <3>1
    <3>5. a \in Int /\ b \in Int
      BY <3>3, <3>4, <2>2
    <3>6. Hi(T)
      <4>1. CASE e >= a
        <5>1. \A y \in T : e >= y
          BY <4>1, <3>2, <3>3, <3>5, <2>2
        <5> QED  BY <5>1
      <4>2. CASE ~(e >= a)
        <5>1. \A y \in T : a >= y
          BY <4>2, <3>2, <3>3, <3>5
        <5> QED  BY <5>1, <3>2
      <4> QED  BY <4>1, <4>2
    <3>7. Lo(T)
      <4>1. CASE e <= b
        <5>1. \A y \in T : e <= y
          BY <4>1, <3>2, <3>4, <3>5, <2>2
        <5> QED  BY <5>1
      <4>2. CASE ~(e <= b)
        <5>1. \A y \in T : b <= y
          BY <4>2, <3>2, <3>4, <3>5
        <5> QED  BY <5>1, <3>2
      <4> QED  BY <4>1, <4>2
    <3> QED  BY <3>6, <3>7
  <2> QED  BY <2>3, <2>4
<1> HIDE DEF M
<1>3. Nat \subseteq M
  BY <1>1, <1>2, CountingUp
<1>4. Cardinality(S) \in Nat
  BY FS_CardinalityType
<1>5. Hi(S) /\ Lo(S)
  BY <1>3, <1>4 DEF M
<1>6. Max(S) \in S /\ \A y \in S : Max(S) >= y
  BY <1>5 DEF Max
<1>7. Min(S) \in S /\ \A y \in S : Min(S) <= y
  BY <1>5 DEF Min
<1> QED  BY <1>6, <1>7

Benches == {"append", "handshake", "replicate", "replicate-lossy"}
Highs == {"batchedAppendsPerSec", "batchedMBPerSec", "wireEfficiency"}

LEMMA BenchesAre == ToSet(BENCHES) = Benches
BY DEF ToSet, BENCHES, Benches

LEMMA GatesAre ==
  ASSUME NEW g \in GATES
  PROVE  /\ g.bench \in Benches
         /\ \/ g.higher = TRUE /\ g.metric \in Highs
            \/ g.higher = FALSE /\ g.metric \notin Highs
<1>1. CASE g \in {Limit("append", m, TRUE, 35, 0, FALSE) :
                    m \in {"batchedAppendsPerSec", "batchedMBPerSec"}}
  <2>1. g.bench \in Benches /\ g.metric \in Highs
    BY <1>1 DEF Limit, Benches, Highs
  <2>2. g.higher = TRUE
    BY <1>1 DEF Limit
  <2> QED  BY <2>1, <2>2
<1>2. CASE g \in {Limit("handshake", "latencyMsMedian", FALSE, THRESHOLD, 1, FALSE),
                  Limit("handshake", "firstMessageBytes", FALSE, THRESHOLD, 0, TRUE),
                  Limit("replicate", "wallMs", FALSE, THRESHOLD, 1, FALSE)}
  <2>1. g.bench \in Benches /\ g.metric \notin Highs
    BY <1>2 DEF Limit, Benches, Highs
  <2>2. g.higher = FALSE
    BY <1>2 DEF Limit
  <2> QED  BY <2>1, <2>2
<1>3. CASE g \in {Limit("replicate", m, FALSE, THRESHOLD, 0, TRUE) :
                    m \in {"totalBytesWired", "bytesPerBlockOverhead"}}
  <2>1. g.bench \in Benches /\ g.metric \notin Highs
    BY <1>3 DEF Limit, Benches, Highs
  <2>2. g.higher = FALSE
    BY <1>3 DEF Limit
  <2> QED  BY <2>1, <2>2
<1>4. CASE g \in {Limit("replicate", "wireEfficiency", TRUE, THRESHOLD, 0, TRUE),
                  Limit("replicate-lossy", "wireEfficiency", TRUE, 40, 0, FALSE)}
  <2>1. g.bench \in Benches /\ g.metric \in Highs
    BY <1>4 DEF Limit, Benches, Highs
  <2>2. g.higher = TRUE
    BY <1>4 DEF Limit
  <2> QED  BY <2>1, <2>2
<1>5. CASE g \in {Limit("replicate-lossy", m, FALSE, 40, 0, FALSE) :
                    m \in {"totalBytesWired", "bytesPerBlockOverhead"}}
  <2>1. g.bench \in Benches /\ g.metric \notin Highs
    BY <1>5 DEF Limit, Benches, Highs
  <2>2. g.higher = FALSE
    BY <1>5 DEF Limit
  <2> QED  BY <2>1, <2>2
<1> QED  BY <1>1, <1>2, <1>3, <1>4, <1>5 DEF GATES

LEMMA FirstOne ==
  ASSUME NEW names \in SUBSET Benches, names # {}
  PROVE  First(names) \in names
<1> DEFINE I == {k \in DOMAIN BENCHES : BENCHES[k] \in names}
<1>1. DOMAIN BENCHES = 1..4 /\ {BENCHES[k] : k \in 1..4} = Benches
  <2>1. DOMAIN BENCHES = 1..4
    BY DEF BENCHES
  <2>2. ToSet(BENCHES) = {BENCHES[k] : k \in DOMAIN BENCHES}
    BY Zenon DEF ToSet
  <2>3. {BENCHES[k] : k \in DOMAIN BENCHES} = {BENCHES[k] : k \in 1..4}
    BY <2>1
  <2> QED  BY <2>1, <2>2, <2>3, BenchesAre
<1>2. IsFiniteSet(1..4)
  <2> DEFINE a == 1
             b == 4
  <2>1. a \in Int /\ b \in Int
    OBVIOUS
  <2> HIDE DEF a, b
  <2>2. IsFiniteSet(a..b)
    BY <2>1, FS_Interval
  <2> QED  BY <2>2 DEF a, b
<1>3. I \in SUBSET (1..4) /\ I # {}
  BY <1>1
<1>4. IsFiniteSet(I) /\ I \in SUBSET Int
  BY <1>2, <1>3, FS_Subset
<1> HIDE DEF I
<1>5. Min(I) \in I
  BY <1>3, <1>4, Extremes
<1> QED  BY <1>5 DEF First, I

\* What is folded to metric g: the best of what the repetitions report.
LEMMA Folded ==
  ASSUME NEW g \in GATES, NEW runs \in SUBSET Sample[g.bench], IsFiniteSet(runs)
  PROVE  LET vs == Values(runs, g.metric)
             c == Value(aggregate(g.bench, runs), g.metric)
         IN  /\ vs = {} => c = NotNumber
             /\ vs # {} /\ c # Infinite => /\ c \in vs /\ c \in Int /\ vs \in SUBSET Int
                                           /\ g.higher => \A v \in vs : v <= c
                                           /\ ~g.higher => \A v \in vs : c <= v
             /\ c = Infinite => Infinite \in vs
<1> DEFINE vs == Values(runs, g.metric)
           A == aggregate(g.bench, runs)
           c == Value(A, g.metric)
           Shown == {h.metric : h \in {x \in Gated(g.bench) : Values(runs, x.metric) # {}}}
<1>1. /\ g.bench \in Benches
      /\ \/ g.higher = TRUE /\ g.metric \in Highs
         \/ g.higher = FALSE /\ g.metric \notin Highs
  BY GatesAre
<1>2. ASSUME NEW v \in vs PROVE v \in Int \/ (v = Infinite /\ g.higher)
  <2>1. PICK s \in runs : v = Value(s, g.metric) /\ v # NotNumber
    BY DEF Values
  <2>2. g.metric \in DOMAIN s /\ v = s[g.metric]
    BY <2>1 DEF Value
  <2>3. s \in Sample[g.bench] /\ g \in Gated(g.bench) /\ g.bench \in ToSet(BENCHES)
    BY <1>1, BenchesAre DEF Gated
  <2>4. v \in Int \cup {NotNumber} \cup (IF g.higher THEN {Infinite} ELSE {})
    BY <2>2, <2>3, SampleAssumption
  <2> QED  BY <2>1, <2>4
<1>3. IsFiniteSet(vs)
  <2> DEFINE W == {Value(s, g.metric) : s \in runs}
             f == [s \in runs |-> Value(s, g.metric)]
  <2>1. IsFiniteSet(W)
    <3>1. f \in Surjection(runs, W)
      BY DEF Surjection
    <3> HIDE DEF f
    <3> QED  BY <3>1, FS_Surjection
  <2>2. vs \in SUBSET W
    BY DEF Values
  <2> HIDE DEF W
  <2> QED  BY <2>1, <2>2, FS_Subset
<1>4. A = [metric \in Shown |-> IF \E h \in Gated(g.bench) : h.metric = metric /\ h.higher
                                THEN BestHigh(Values(runs, metric))
                                ELSE BestLow(Values(runs, metric))]
  BY DEF aggregate
<1>5. g.metric \in Shown <=> vs # {}
  BY DEF Gated
<1>6. (\E h \in Gated(g.bench) : h.metric = g.metric /\ h.higher) <=> g.higher
  <2>1. g \in Gated(g.bench)
    BY DEF Gated
  <2>2. ASSUME NEW h \in Gated(g.bench), h.metric = g.metric, h.higher PROVE g.higher
    BY <2>2, <1>1, GatesAre DEF Gated
  <2> QED  BY <2>1, <2>2
<1> HIDE DEF A, vs
<1>7. CASE vs = {}
  <2>1. c = NotNumber
    BY <1>4, <1>5, <1>7 DEF Value
  <2> QED  BY <2>1, <1>7, NumbersAssumption DEF vs, A
<1>8. CASE vs # {} /\ g.higher
  <2>1. c = BestHigh(vs)
    <3>1. c = A[g.metric] /\ g.metric \in Shown
      BY <1>4, <1>5, <1>8 DEF Value
    <3>2. A[g.metric] = IF \E h \in Gated(g.bench) : h.metric = g.metric /\ h.higher
                        THEN BestHigh(Values(runs, g.metric)) ELSE BestLow(Values(runs, g.metric))
      BY <3>1, <1>4
    <3> QED  BY <3>1, <3>2, <1>6, <1>8 DEF vs
  <2>2. CASE Infinite \in vs
    <3>1. c = Infinite
      BY <2>1, <2>2 DEF BestHigh
    <3> QED  BY <3>1, <2>2, <1>8 DEF vs, A
  <2>3. CASE Infinite \notin vs
    <3>1. vs \in SUBSET Int
      BY <1>2, <2>3
    <3>2. c = Max(vs)
      BY <2>1, <2>3 DEF BestHigh
    <3>3. c \in vs /\ \A v \in vs : v <= c
      BY <3>1, <3>2, <1>3, <1>8, Extremes
    <3> QED  BY <3>1, <3>3, <2>3, <1>8 DEF vs, A
  <2> QED  BY <2>2, <2>3
<1>9. CASE vs # {} /\ ~g.higher
  <2>1. c = BestLow(vs)
    <3>1. c = A[g.metric] /\ g.metric \in Shown
      BY <1>4, <1>5, <1>9 DEF Value
    <3>2. A[g.metric] = IF \E h \in Gated(g.bench) : h.metric = g.metric /\ h.higher
                        THEN BestHigh(Values(runs, g.metric)) ELSE BestLow(Values(runs, g.metric))
      BY <3>1, <1>4
    <3> QED  BY <3>1, <3>2, <1>6, <1>9 DEF vs
  <2>2. vs \in SUBSET Int
    BY <1>2, <1>9
  <2>3. vs \ {Infinite} = vs
    BY <2>2, NumbersAssumption
  <2>4. c = Min(vs)
    BY <2>1, <2>3 DEF BestLow
  <2>5. c \in vs /\ \A v \in vs : c <= v
    BY <2>2, <2>4, <1>3, <1>9, Extremes
  <2> QED  BY <2>2, <2>5, <1>9, NumbersAssumption DEF vs, A
<1> QED  BY <1>7, <1>8, <1>9

\* A better value is not worse than the threshold allows if a worse one is not.
LEMMA RegressedMore ==
  ASSUME NEW g \in GATES, NEW base \in Int, NEW a \in Int, NEW b \in Int, regressed(g, b, base),
         g.higher => a <= b, ~g.higher => b <= a
  PROVE  regressed(g, a, base)
<1> DEFINE bound == g.threshold * base
           low == g.floor
<1>1. bound \in Int /\ low \in Int
  <2>1. g.threshold \in Int /\ g.floor \in Int
    BY DEF GATES, Limit, THRESHOLD
  <2> QED  BY <2>1
<1>2. \A x : regressed(g, x, base)
        <=> base > 0
              /\ (IF g.higher THEN base - x ELSE x - base) * 100 > bound
              /\ (IF g.higher THEN base - x ELSE x - base) > low
  BY DEF regressed
<1> HIDE DEF bound, low
<1>3. CASE g.higher
  <2>1. (base - b) * 100 > bound /\ base - b > low /\ a <= b
    BY <1>2, <1>3
  <2>2. (base - a) * 100 > bound /\ base - a > low
    BY <1>1, <2>1
  <2> QED  BY <1>2, <1>3, <2>2
<1>4. CASE ~g.higher
  <2>1. (b - base) * 100 > bound /\ b - base > low /\ b <= a
    BY <1>2, <1>4
  <2>2. (a - base) * 100 > bound /\ a - base > low
    BY <1>1, <2>1
  <2> QED  BY <1>2, <1>4, <2>2
<1> QED  BY <1>3, <1>4

Fails(g) ==
  gateOne(g, Value(benches[g.bench], g.metric), BaseOf(baseline, g)) = "fail"

AllRuns == UNION {Sample[b] : b \in Benches}

\* Every bench is folded from all the repetitions there were of it.
RunsInv ==
  /\ rawRuns \in [Benches -> SUBSET AllRuns] /\ benches = [b \in Benches |-> benches[b]]
  /\ taken \in [Benches -> [runs : SUBSET AllRuns, batches : Nat]]
  /\ \A b \in Benches :
       /\ rawRuns[b] \in SUBSET Sample[b] /\ IsFiniteSet(rawRuns[b])
       /\ benches[b] = aggregate(b, rawRuns[b]) /\ taken[b].runs = rawRuns[b]
  /\ queue \in SUBSET Benches /\ IsFiniteSet(extra)
  /\ queue # {} => extra \in SUBSET Sample[First(queue)]
  /\ queue = {} => extra = {}

\* A bench to be run has had every batch but this one; another has had this one, or
\* fails no gate.
BatchesInv ==
  \A b \in Benches :
    /\ b \in queue => taken[b].batches = attempt
    /\ b \notin queue => \/ taken[b].batches = attempt + 1
                         \/ \A g \in Kept(args.portableOnly) : g.bench = b => ~Fails(g)

GateInv ==
  /\ RunsInv /\ attempt \in 0..2
  /\ stage = "idle" =>
       attempt = 0 /\ queue = {} /\ file \in BaseFile /\ \A b \in Benches : taken[b].batches = 0
  /\ stage = "running" => BatchesInv
  /\ stage \in {"running", "writing", "failed", "passed"} /\ args.check =>
       baseline \in BaseFile \ {NoFile}
  /\ stage \in {"writing", "failed", "passed"} /\ args.check =>
       /\ gates = {g \in Kept(args.portableOnly) : Fails(g)}
       /\ \A g \in gates : taken[g.bench].batches = 3
  /\ stage = "failed" => gates # {}
  /\ stage = "passed" /\ args.check => gates = {}

LEMMA GateStarts == GateInit => GateInv
<1> SUFFICES ASSUME GateInit PROVE GateInv
  OBVIOUS
<1>1. /\ rawRuns = [b \in Benches |-> {}] /\ benches = [b \in Benches |-> NoMetrics]
      /\ taken = [b \in Benches |-> [runs |-> {}, batches |-> 0]]
      /\ queue = {} /\ extra = {} /\ stage = "idle" /\ file \in BaseFile /\ attempt = 0
  BY BenchesAre DEF GateInit
<1>2. \A b \in Benches : aggregate(b, {}) = NoMetrics
  <2> SUFFICES ASSUME NEW b \in Benches PROVE aggregate(b, {}) = NoMetrics
    OBVIOUS
  <2>1. \A metric : Values({}, metric) = {}
    BY DEF Values
  <2>2. {h.metric : h \in {x \in Gated(b) : Values({}, x.metric) # {}}} = {}
    BY <2>1
  <2> QED  BY <2>2 DEF aggregate, NoMetrics
<1>3. IsFiniteSet({})
  BY FS_EmptySet
<1>4. RunsInv
  BY <1>1, <1>2, <1>3 DEF RunsInv
<1> QED  BY <1>1, <1>4 DEF GateInv

LEMMA GateStartBench == ASSUME GateInv, NEW a, StartBench(a) PROVE GateInv'
<1>1. /\ stage = "idle" /\ args' = a /\ baseline' = file
      /\ UNCHANGED <<rawRuns, benches, taken, extra, attempt, gates>>
      /\ IF a.check /\ (file = NoFile \/ (file # NoFile /\ file.quick # a.quick))
         THEN stage' = "aborted" /\ UNCHANGED queue
         ELSE stage' = "running" /\ queue' = Benches
  BY BenchesAre DEF StartBench, Stop
<1>2. /\ RunsInv /\ attempt = 0 /\ queue = {} /\ extra = {} /\ file \in BaseFile
      /\ \A b \in Benches : taken[b].batches = 0
  BY <1>1 DEF GateInv, RunsInv
<1>3. RunsInv'
  <2>1. queue' \in SUBSET Benches /\ extra' = {}
    BY <1>1, <1>2
  <2> QED  BY <1>1, <1>2, <2>1 DEF RunsInv
<1>4. CASE stage' = "aborted"
  BY <1>1, <1>2, <1>3, <1>4 DEF GateInv
<1>5. CASE stage' = "running" /\ queue' = Benches
  <2>1. BatchesInv'
    BY <1>1, <1>2, <1>5 DEF BatchesInv
  <2>2. args'.check => baseline' \in BaseFile \ {NoFile}
    BY <1>1, <1>2, <1>5
  <2> QED  BY <1>1, <1>2, <1>3, <1>5, <2>1, <2>2 DEF GateInv
<1> QED  BY <1>1, <1>4, <1>5

LEMMA GateRunRep ==
  ASSUME GateInv, queue # {}, NEW s \in Sample[First(queue)], RunRep(s)
  PROVE  GateInv'
<1> DEFINE name == First(queue)
           runs == extra \cup {s}
           more == Merge(name, runs)
<1>1. /\ stage = "running" /\ UNCHANGED <<stage, args, file, baseline, gates, attempt>>
      /\ RunsInv /\ attempt \in 0..2 /\ BatchesInv
      /\ args.check => baseline \in BaseFile \ {NoFile}
  BY DEF RunRep, GateInv
<1>2. name \in queue /\ name \in Benches
  BY <1>1, FirstOne DEF RunsInv
<1>3. runs \in SUBSET Sample[name] /\ IsFiniteSet(runs)
  BY <1>1, FS_AddElement DEF RunsInv
<1> HIDE DEF name, runs
<1>4. CASE rep + 1 < args.reps
  <2>1. extra' = runs /\ UNCHANGED <<queue, rawRuns, benches, taken>>
    BY <1>4 DEF RunRep, name, runs
  <2>2. RunsInv'
    BY <1>1, <1>3, <2>1 DEF RunsInv, name
  <2>3. BatchesInv'
    BY <1>1, <2>1 DEF BatchesInv, Fails
  <2> QED  BY <1>1, <2>2, <2>3 DEF GateInv
<1>5. CASE ~(rep + 1 < args.reps)
  <2>1. /\ extra' = {} /\ queue' = queue \ {name}
        /\ rawRuns' = [rawRuns EXCEPT ![name] = more]
        /\ benches' = [benches EXCEPT ![name] = aggregate(name, more)]
        /\ taken' = [taken EXCEPT ![name].runs = @ \cup runs, ![name].batches = @ + 1]
    BY <1>5 DEF RunRep, name, runs
  <2>2. more = rawRuns[name] \cup runs
    BY DEF Merge
  <2> HIDE DEF more
  <2>3. more \in SUBSET Sample[name] /\ IsFiniteSet(more)
    BY <1>1, <1>2, <1>3, <2>2, FS_Union DEF RunsInv
  <2>4. /\ rawRuns \in [Benches -> SUBSET AllRuns] /\ benches = [b \in Benches |-> benches[b]]
        /\ taken \in [Benches -> [runs : SUBSET AllRuns, batches : Nat]]
        /\ taken[name].runs = rawRuns[name] /\ taken[name].batches = attempt
    BY <1>1, <1>2 DEF RunsInv, BatchesInv
  <2>5. more \in SUBSET AllRuns
    BY <1>2, <2>3 DEF AllRuns
  <2>6. /\ taken' \in [Benches -> [runs : SUBSET AllRuns, batches : Nat]]
        /\ taken'[name].runs = more /\ taken'[name].batches = attempt + 1
        /\ \A b \in Benches : b # name => taken'[b] = taken[b]
    <3>1. taken' = [taken EXCEPT ![name] = [runs |-> more, batches |-> taken[name].batches + 1]]
      BY <1>2, <2>1, <2>2, <2>4
    <3>2. taken[name].batches + 1 \in Nat
      BY <1>2, <2>4
    <3> QED  BY <1>2, <2>4, <2>5, <3>1, <3>2
  <2>7. /\ rawRuns' \in [Benches -> SUBSET AllRuns] /\ rawRuns'[name] = more
        /\ \A b \in Benches : b # name => rawRuns'[b] = rawRuns[b]
    BY <1>2, <2>1, <2>4, <2>5
  <2>8. /\ benches' = [b \in Benches |-> benches'[b]]
        /\ benches'[name] = aggregate(name, more)
        /\ \A b \in Benches : b # name => benches'[b] = benches[b]
    BY <1>2, <2>1, <2>4
  <2>9. IsFiniteSet({})
    BY FS_EmptySet
  <2>10. ASSUME NEW b \in Benches
         PROVE  /\ rawRuns'[b] \in SUBSET Sample[b] /\ IsFiniteSet(rawRuns'[b])
                /\ benches'[b] = aggregate(b, rawRuns'[b]) /\ taken'[b].runs = rawRuns'[b]
    <3>1. CASE b = name
      BY <2>3, <2>6, <2>7, <2>8, <3>1
    <3>2. CASE b # name
      BY <1>1, <2>6, <2>7, <2>8, <3>2 DEF RunsInv
    <3> QED  BY <3>1, <3>2
  <2>11. RunsInv'
    <3>1. queue' \in SUBSET Benches
      BY <1>1, <2>1 DEF RunsInv
    <3> QED  BY <2>1, <2>6, <2>7, <2>8, <2>9, <2>10, <3>1 DEF RunsInv
  <2>12. ASSUME NEW g, g.bench \in Benches, g.bench # name PROVE Fails(g)' <=> Fails(g)
    BY <1>1, <2>8, <2>12 DEF Fails
  <2>13. BatchesInv'
    <3> SUFFICES ASSUME NEW b \in Benches
                 PROVE  /\ b \in queue' => taken'[b].batches = attempt'
                        /\ b \notin queue' =>
                             \/ taken'[b].batches = attempt' + 1
                             \/ \A g \in Kept(args'.portableOnly) : g.bench = b => ~Fails(g)'
      BY DEF BatchesInv
    <3>1. CASE b = name
      BY <1>1, <2>1, <2>6, <3>1
    <3>2. CASE b # name
      <4>1. taken'[b] = taken[b] /\ (b \in queue' <=> b \in queue)
        BY <2>1, <2>6, <3>2
      <4> QED  BY <1>1, <2>12, <3>2, <4>1 DEF BatchesInv
    <3> QED  BY <3>1, <3>2
  <2> QED  BY <1>1, <2>11, <2>13 DEF GateInv
<1> QED  BY <1>4, <1>5

LEMMA GateJudge == ASSUME GateInv, Judge PROVE GateInv'
<1> DEFINE failing == checkGates(benches, baseline, args.portableOnly)
<1>1. /\ stage = "running" /\ queue = {} /\ args.check /\ gates' = failing
      /\ IF failing # {} /\ attempt < MAX_GATE_RETRIES
         THEN attempt' = attempt + 1 /\ queue' = {g.bench : g \in failing} /\ UNCHANGED stage
         ELSE stage' = "writing" /\ UNCHANGED <<attempt, queue>>
      /\ UNCHANGED <<args, file, baseline, rep, extra, rawRuns, benches, code, taken>>
  BY DEF Judge
<1>2. failing = {g \in Kept(args.portableOnly) : Fails(g)}
  BY DEF checkGates, Fails
<1>3. failing \in SUBSET GATES
  BY <1>2 DEF Kept
<1> HIDE DEF failing
<1>4. \A g \in failing : g.bench \in Benches
  BY <1>3, GatesAre
<1>5. /\ RunsInv /\ attempt \in 0..2 /\ BatchesInv /\ extra = {}
      /\ baseline \in BaseFile \ {NoFile}
  BY <1>1 DEF GateInv, RunsInv
<1>6. \A g : Fails(g)' <=> Fails(g)
  BY <1>1 DEF Fails
<1>7. \A g \in failing : taken[g.bench].batches = attempt + 1
  BY <1>1, <1>2, <1>4, <1>5 DEF BatchesInv
<1>8. RunsInv'
  <2>1. queue' \in SUBSET Benches
    BY <1>1, <1>4
  <2>2. extra' = {} /\ IsFiniteSet(extra')
    BY <1>1, <1>5, FS_EmptySet
  <2>3. queue' # {} => extra' \in SUBSET Sample[First(queue')]
    BY <2>2
  <2> QED  BY <1>1, <1>5, <2>1, <2>2, <2>3 DEF RunsInv
<1>9. CASE failing # {} /\ attempt < 2
  <2>1. attempt' = attempt + 1 /\ queue' = {g.bench : g \in failing} /\ stage' = "running"
    BY <1>1, <1>9 DEF MAX_GATE_RETRIES
  <2>2. BatchesInv'
    <3> SUFFICES ASSUME NEW b \in Benches
                 PROVE  /\ b \in queue' => taken'[b].batches = attempt'
                        /\ b \notin queue' =>
                             \/ taken'[b].batches = attempt' + 1
                             \/ \A g \in Kept(args'.portableOnly) : g.bench = b => ~Fails(g)'
      BY DEF BatchesInv
    <3>1. CASE b \in queue'
      BY <1>1, <1>7, <2>1, <3>1
    <3>2. CASE b \notin queue'
      BY <1>1, <1>2, <1>6, <2>1, <3>2
    <3> QED  BY <3>1, <3>2
  <2>3. attempt' \in 0..2
    BY <1>5, <1>9, <2>1
  <2> QED  BY <1>1, <1>5, <1>8, <2>1, <2>2, <2>3 DEF GateInv
<1>10. CASE ~(failing # {} /\ attempt < 2)
  <2>1. stage' = "writing" /\ UNCHANGED <<attempt, queue>>
    BY <1>1, <1>10 DEF MAX_GATE_RETRIES
  <2>2. failing # {} => attempt = 2
    BY <1>5, <1>10
  <2>3. \A g \in gates' : taken'[g.bench].batches = 3
    BY <1>1, <1>7, <2>2
  <2>4. gates' = {g \in Kept(args'.portableOnly) : Fails(g)'}
    BY <1>1, <1>2, <1>6
  <2> QED  BY <1>1, <1>5, <1>8, <2>1, <2>3, <2>4 DEF GateInv
<1> QED  BY <1>9, <1>10

\* The steps that change nothing but the stage, the exit code and the file.
LEMMA GateCloses ==
  ASSUME GateInv,
         UNCHANGED <<args, baseline, queue, extra, rawRuns, benches, gates, attempt, taken>>,
         \/ stage' = "crashed"
         \/ stage = "running" /\ queue = {} /\ ~args.check /\ stage' = "writing"
         \/ stage = "writing" /\ stage' = "failed" /\ args.check /\ gates # {}
         \/ stage = "writing" /\ stage' = "passed" /\ ~(args.check /\ gates # {})
         \/ stage' = stage /\ file' = file
  PROVE  GateInv'
<1>1. RunsInv'
  BY DEF GateInv, RunsInv
<1>2. \A g : Fails(g)' <=> Fails(g)
  BY DEF Fails
<1>3. CASE stage' = "crashed"
  BY <1>1, <1>3 DEF GateInv
<1>4. CASE stage = "running" /\ ~args.check /\ stage' = "writing"
  BY <1>1, <1>4 DEF GateInv
<1>5. CASE stage = "writing" /\ stage' = "failed" /\ args.check /\ gates # {}
  BY <1>1, <1>2, <1>5 DEF GateInv
<1>6. CASE stage = "writing" /\ stage' = "passed" /\ ~(args.check /\ gates # {})
  BY <1>1, <1>2, <1>6 DEF GateInv
<1>7. CASE stage' = stage /\ file' = file
  <2>1. BatchesInv => BatchesInv'
    BY <1>2 DEF BatchesInv
  <2> QED  BY <1>1, <1>2, <1>7, <2>1 DEF GateInv
<1> QED  BY <1>3, <1>4, <1>5, <1>6, <1>7

\* What is folded is always what was run, and a gate that fails in the end has
\* had all its batches.
THEOREM GateInvariant == GateSpec => []GateInv
<1>1. GateInit => GateInv
  BY GateStarts
<1>2. GateInv /\ [GateNext]_gateVars => GateInv'
  <2> SUFFICES ASSUME GateInv, [GateNext]_gateVars PROVE GateInv'
    OBVIOUS
  <2>1. ASSUME NEW a \in Args, StartBench(a) PROVE GateInv'
    BY <2>1, GateStartBench
  <2>2. ASSUME queue # {}, NEW s \in Sample[First(queue)], RunRep(s) PROVE GateInv'
    BY <2>2, GateRunRep
  <2>3. CASE BenchThrows
    BY <2>3, GateCloses DEF BenchThrows, Stop
  <2>4. CASE Judge
    BY <2>4, GateJudge
  <2>5. CASE NoCheck
    BY <2>5, GateCloses DEF NoCheck
  <2>6. CASE Finish
    BY <2>6, GateCloses DEF Finish, Stop
  <2>7. CASE WriteThrows
    BY <2>7, GateCloses DEF WriteThrows, Stop
  <2>8. CASE UNCHANGED gateVars
    BY <2>8, GateCloses DEF gateVars
  <2> QED  BY <2>1, <2>2, <2>3, <2>4, <2>5, <2>6, <2>7, <2>8 DEF GateNext
<1> QED  BY <1>1, <1>2, PTL DEF GateSpec

\* A gate fails on what is folded just when it can be compared and every single
\* repetition that reported it was over the threshold.
LEMMA FailsExactly ==
  ASSUME RunsInv, baseline \in BaseFile \ {NoFile}, NEW g \in GATES
  PROVE  Fails(g) <=> /\ Usable(g) /\ Seen(g) # {}
                      /\ \A v \in Seen(g) : Worse(g, v)
<1> DEFINE vs == Values(rawRuns[g.bench], g.metric)
           c == Value(benches[g.bench], g.metric)
           base == BaseOf(baseline, g)
<1>1. g.bench \in Benches
  BY GatesAre
<1>2. Seen(g) = vs
  BY <1>1 DEF Seen, RunsInv
<1>3. /\ vs = {} => c = NotNumber
      /\ vs # {} /\ c # Infinite => /\ c \in vs /\ c \in Int /\ vs \in SUBSET Int
                                    /\ g.higher => \A v \in vs : v <= c
                                    /\ ~g.higher => \A v \in vs : c <= v
      /\ c = Infinite => Infinite \in vs
  BY <1>1, Folded DEF RunsInv
<1>4. base \in Int \cup {NotNumber}
  <2>1. g.bench \in DOMAIN baseline.benches /\ g.metric \in DOMAIN baseline.benches[g.bench]
          => base \in Int \cup {NotNumber}
    BY FilesAssumption DEF BaseOf, Value
  <2>2. ~(g.bench \in DOMAIN baseline.benches /\ g.metric \in DOMAIN baseline.benches[g.bench])
          => base = NotNumber
    BY DEF BaseOf, Value, NoMetrics
  <2> QED  BY <2>1, <2>2
<1>5. Fails(g) <=> Comparable(c, base) /\ regressed(g, c, base)
  BY DEF Fails, gateOne
<1>6. Usable(g) <=> base \in Int /\ base # 0
  BY <1>4, NumbersAssumption DEF Usable
<1>7. \A v : Worse(g, v) <=> v # Infinite /\ regressed(g, v, base)
  BY DEF Worse
<1> HIDE DEF vs, c, base
<1>8. ASSUME Comparable(c, base), regressed(g, c, base)
      PROVE  Usable(g) /\ vs # {} /\ \A v \in vs : Worse(g, v)
  <2>1. c # NotNumber /\ c # Infinite /\ base # NotNumber /\ base # 0
    BY <1>8 DEF Comparable
  <2>2. base \in Int /\ vs # {}
    BY <1>3, <1>4, <2>1
  <2>3. c \in Int /\ vs \in SUBSET Int
    BY <1>3, <2>1, <2>2
  <2>4. ASSUME NEW v \in vs PROVE regressed(g, v, base) /\ v # Infinite
    <3>1. v \in Int /\ v # Infinite
      BY <2>3, <2>4, NumbersAssumption
    <3>2. /\ g.higher => v <= c
          /\ ~g.higher => c <= v
      BY <1>3, <2>1, <2>2, <2>4
    <3> QED  BY <1>8, <2>2, <2>3, <3>1, <3>2, RegressedMore
  <2> QED  BY <1>6, <1>7, <2>1, <2>2, <2>4
<1>9. ASSUME Usable(g), vs # {}, \A v \in vs : Worse(g, v)
      PROVE  Comparable(c, base) /\ regressed(g, c, base)
  <2>1. Infinite \notin vs
    BY <1>7, <1>9
  <2>2. c \in vs /\ c \in Int
    BY <1>3, <1>9, <2>1
  <2>3. base \in Int /\ base # 0
    BY <1>6, <1>9
  <2>4. regressed(g, c, base)
    BY <1>7, <1>9, <2>2
  <2> QED  BY <2>2, <2>3, <2>4, NumbersAssumption DEF Comparable
<1> QED  BY <1>2, <1>5, <1>8, <1>9

\* The verdict of a check is that of all repetitions ever run, in the first batch
\* and in every retry: it fails only on a metric that was over its threshold every
\* single time, and always on one that was (run.js:24-32, 268-288, 413-437).
THEOREM VerdictTrue == GateSpec => []VerdictExact
<1>1. GateInv => VerdictExact
  <2> SUFFICES ASSUME GateInv, args.check PROVE VerdictExact
    BY DEF VerdictExact
  <2>1. CASE stage = "failed"
    <3>1. /\ RunsInv /\ baseline \in BaseFile \ {NoFile} /\ gates # {}
          /\ gates = {g \in Kept(args.portableOnly) : Fails(g)}
          /\ \A g \in gates : taken[g.bench].batches = 3
      BY <2>1 DEF GateInv
    <3>2. PICK g \in gates : TRUE
      BY <3>1
    <3>3. g \in Kept(args.portableOnly) /\ Fails(g) /\ taken[g.bench].batches = 3
      BY <3>1
    <3>4. g \in GATES
      BY <3>3 DEF Kept
    <3>5. Usable(g) /\ Seen(g) # {} /\ \A v \in Seen(g) : Worse(g, v)
      BY <3>1, <3>3, <3>4, FailsExactly
    <3>6. MAX_GATE_RETRIES + 1 = 3
      BY DEF MAX_GATE_RETRIES
    <3>7. \E h \in Kept(args.portableOnly) :
            /\ Usable(h) /\ Seen(h) # {} /\ \A v \in Seen(h) : Worse(h, v)
            /\ taken[h.bench].batches = MAX_GATE_RETRIES + 1
      BY <3>3, <3>5, <3>6
    <3> QED  BY <2>1, <3>7 DEF VerdictExact
  <2>2. CASE stage = "passed"
    <3>1. /\ RunsInv /\ baseline \in BaseFile \ {NoFile}
          /\ \A g \in Kept(args.portableOnly) : ~Fails(g)
      BY <2>2 DEF GateInv
    <3>2. Kept(args.portableOnly) \subseteq GATES
      BY DEF Kept
    <3>3. \A g \in Kept(args.portableOnly) :
            Usable(g) => Seen(g) = {} \/ \E v \in Seen(g) : ~Worse(g, v)
      BY <3>1, <3>2, FailsExactly
    <3> QED  BY <2>2, <3>3 DEF VerdictExact
  <2>3. CASE stage # "failed" /\ stage # "passed"
    BY <2>3 DEF VerdictExact
  <2> QED  BY <2>1, <2>2, <2>3
<1> QED  BY <1>1, GateInvariant, PTL
=============================================================================
