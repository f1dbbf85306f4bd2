------------------------------- MODULE NetTrial -------------------------------
(***************************************************************************)
(* harness/realnet: trial.js runs a number of trials over the public DHT.  *)
(* Each spawns two processes: A, a sender (drop-send.js) or the serving    *)
(* side of a database (sync-serve.js), and B, a receiver (drop-recv.js) or *)
(* the side that joins (sync-join.js).  They print lines of JSON, markers  *)
(* and a final report, which come through pipes; that a process has exited *)
(* is an event of its own, and may overtake what is still in its pipe.     *)
(*                                                                         *)
(* Each timer may fire at any time, as they are only clocks.               *)
(***************************************************************************)
EXTENDS Naturals, Sequences

CONSTANT n     \* trials of a run
ASSUME TrialsAssumption == n \in Nat \ {0}

Child == {"A", "B", "relay"}

VARIABLES
  main,      \* what main awaits: "relay", "first", "writer" or "exits"
  kind,      \* "drop" or "sync"
  exitCode,      \* exit status of main
  trials,    \* results, with what was true when they were made
  proc,      \* "none", "boot", "ready", "closing" or "exited"
  pipe,      \* stdout of each child: what main has not read
  lines,     \* what it has read: events and finals
  exited,    \* children whose exit event was seen
  have,       \* B has the whole file, or all the keys
  grant,     \* of write access to B: "no", "sent", "given", "known" or "refused"
  ack        \* the receipt of B, or its write: "no", "made", "arrived" or "lost"

world == <<have, grant, ack>>
trialVars == <<main, kind, exitCode, trials, proc, pipe, lines, exited, have, grant, ack>>

Quiet == [c \in Child |-> <<>>]

TrialInit ==
  /\ main = "idle" /\ kind = "drop" /\ exitCode = 2 /\ trials = <<>>
  /\ proc = [c \in Child |-> "none"] /\ pipe = Quiet
  /\ lines = [c \in Child |-> {}] /\ exited = {}
  /\ have = FALSE /\ grant = "no" /\ ack = "no"
-----------------------------------------------------------------------------
(* The two processes and the relay.                                        *)

Prints(c, line) == pipe' = [pipe EXCEPT ![c] = Append(@, line)]
Becomes(c, s) == proc' = [proc EXCEPT ![c] = s]

\* The node is up, and A listens: it prints its marker.  So does B for a database,
\* with its writer key; the receiver of a file has none.
Boots(c) ==
  /\ proc[c] = "boot" /\ Becomes(c, "ready")
  /\ IF c = "B" /\ kind = "drop" THEN UNCHANGED pipe ELSE Prints(c, "marker")
  /\ UNCHANGED <<main, kind, exitCode, trials, lines, exited, world>>

\* main of the child is rejected.
Breaks(c) ==
  /\ proc[c] = "boot" /\ Becomes(c, "exited") /\ Prints(c, "failed")
  /\ UNCHANGED <<main, kind, exitCode, trials, lines, exited, world>>

\* Everything there is comes to B, which needs A for it.
Converges ==
  /\ proc["A"] = "ready" /\ proc["B"] = "ready" /\ ~have /\ have' = TRUE
  /\ UNCHANGED <<main, kind, exitCode, trials, proc, pipe, lines, exited, grant, ack>>

\* grant: a key is tried once, and addWriter may fail.
Grants(ok) ==
  /\ proc["A"] = "ready" /\ grant = "sent"
  /\ grant' = IF ok THEN "given" ELSE "refused"
  /\ UNCHANGED <<main, kind, exitCode, trials, proc, pipe, lines, exited, have, ack>>

\* B finds that it may write.
LearnsGrant ==
  /\ proc["A"] \in {"ready", "closing"} /\ proc["B"] = "ready"
  /\ grant = "given" /\ grant' = "known"
  /\ UNCHANGED <<main, kind, exitCode, trials, proc, pipe, lines, exited, have, ack>>

\* B is done when its receipt is sent, or its write appended, not when it is there.
Acks ==
  /\ proc["B"] = "ready" /\ have /\ (kind = "sync" => grant = "known")
  /\ ack' = "made" /\ Prints("B", "ok") /\ Becomes("B", "closing")
  /\ UNCHANGED <<main, kind, exitCode, trials, lines, exited, have, grant>>

AckArrives ==
  /\ ack = "made" /\ proc["A"] = "ready" /\ ack' = "arrived"
  /\ Prints("A", "ok") /\ Becomes("A", "closing")
  /\ UNCHANGED <<main, kind, exitCode, trials, lines, exited, have, grant>>

\* B is gone before it reached A.
AckLost ==
  /\ ack = "made" /\ proc["B"] = "exited" /\ ack' = "lost"
  /\ UNCHANGED <<main, kind, exitCode, trials, proc, pipe, lines, exited, have, grant>>

\* Mutant: the joining side waits for the grant without a timeout.
Bug_TimesOut(c) ==
  /\ c \in {"A", "B"} /\ proc[c] = "ready" /\ (c = "B" => ~have)
  /\ Prints(c, "failed") /\ Becomes(c, "closing")
  /\ UNCHANGED <<main, kind, exitCode, trials, lines, exited, world>>

\* withTimeout, or the transfer itself, rejects.
TimesOut(c) ==
  /\ c \in {"A", "B"} /\ proc[c] = "ready"
  /\ Prints(c, "failed") /\ Becomes(c, "closing")
  /\ UNCHANGED <<main, kind, exitCode, trials, lines, exited, world>>

\* Database or node are closed, and the process exits.
Exits(c) ==
  /\ proc[c] = "closing" /\ Becomes(c, "exited")
  /\ UNCHANGED <<main, kind, exitCode, trials, pipe, lines, exited, world>>

\* A process ends without a word.
Dies(c) ==
  /\ proc[c] \in {"boot", "ready", "closing"} /\ Becomes(c, "exited")
  /\ UNCHANGED <<main, kind, exitCode, trials, pipe, lines, exited, world>>
-----------------------------------------------------------------------------
(* spawnJson.                                                              *)

ReadsLine(c) ==
  /\ pipe[c] # <<>> /\ main \notin {"idle", "exited"}
  /\ lines' = [lines EXCEPT ![c] = @ \cup {Head(pipe[c])}]
  /\ pipe' = [pipe EXCEPT ![c] = Tail(@)]
  /\ UNCHANGED <<main, kind, exitCode, trials, proc, exited, world>>

SeesExit(c) ==
  /\ proc[c] = "exited" /\ c \notin exited /\ main \notin {"idle", "exited"}
  /\ exited' = exited \cup {c}
  /\ UNCHANGED <<main, kind, exitCode, trials, proc, pipe, lines, world>>
-----------------------------------------------------------------------------
(* main, dropTrial and syncTrial.                                          *)

\* A trial begins: two children that nothing is known of yet.
Fresh(relay) ==
  /\ proc' = [c \in Child |-> IF c = "relay" THEN relay
                              ELSE IF c = "A" THEN "boot" ELSE "none"]
  /\ main' = "first" /\ pipe' = Quiet
  /\ lines' = [c \in Child |-> {}] /\ exited' = {}
  /\ have' = FALSE /\ grant' = "no" /\ ack' = "no"

StartTrials(what, relayed) ==
  /\ main = "idle" /\ kind' = what
  /\ IF relayed
     THEN /\ main' = "relay" /\ Becomes("relay", "boot")
          /\ UNCHANGED <<pipe, lines, exited, world>>
     ELSE Fresh("none")
  /\ UNCHANGED <<exitCode, trials>>

RelayUp ==
  /\ main = "relay" /\ "marker" \in lines["relay"] /\ Fresh(proc["relay"])
  /\ UNCHANGED <<kind, exitCode, trials>>

\* A says that it listens, so B is spawned.
FirstReady ==
  /\ main = "first" /\ "marker" \in lines["A"]
  /\ main' = IF kind = "sync" THEN "writer" ELSE "exits"
  /\ Becomes("B", "boot")
  /\ UNCHANGED <<kind, exitCode, trials, pipe, lines, exited, world>>

\* The key of B is written to the stdin of A.  If A is gone, and main does not know
\* yet, the error is an event that nobody listens for.
WriterReady ==
  /\ main = "writer" /\ "marker" \in lines["B"]
  /\ \/ /\ main' = "exits"
        /\ grant' = IF proc["A"] = "ready" THEN "sent" ELSE grant
        /\ UNCHANGED exitCode
     \/ /\ proc["A"] = "exited" /\ "A" \notin exited
        /\ main' = "exited" /\ exitCode' = 1 /\ UNCHANGED grant
  /\ UNCHANGED <<kind, trials, proc, pipe, lines, exited, have, ack>>

\* After a trial comes the next, or the verdict; the relay is killed at the end.
Settle(ok) ==
  LET all == Append(trials, [ok |-> ok, have |-> have, grant |-> grant, ack |-> ack])
  IN /\ trials' = all
     /\ IF Len(all) < n THEN Fresh(proc["relay"]) /\ UNCHANGED exitCode
        ELSE /\ main' = "exited"
             /\ exitCode' = IF \A k \in DOMAIN all : all[k].ok THEN 0 ELSE 1
             /\ proc' = [c \in Child |-> "exited"]
             /\ UNCHANGED <<pipe, lines, exited, world>>
     /\ UNCHANGED kind

\* Mutant: a trial is judged by what B reports.
Bug_Reported(c) == "ok" \in lines["B"]

Reported(c) == "ok" \in lines[c]

\* Both have exited: what they reported, if that has come, decides.  That a file is
\* there, with its size, decides nothing: the path that is looked at is where the
\* file of A lies, as the directory is the one B receives into.
BothExited ==
  /\ main = "exits" /\ {"A", "B"} \subseteq exited
  /\ Settle(Reported("A") /\ Reported("B"))

\* waitFor gives up: the children are killed, but not a relay that did not start.
GivesUp ==
  \/ main \in {"first", "writer"} /\ Settle(FALSE)
  \/ /\ main = "relay" /\ main' = "exited" /\ exitCode' = 1
     /\ UNCHANGED <<kind, trials, proc, pipe, lines, exited, world>>

TrialNext ==
  \/ \E what \in {"drop", "sync"}, relayed \in BOOLEAN : StartTrials(what, relayed)
  \/ RelayUp \/ FirstReady \/ WriterReady \/ BothExited \/ GivesUp
  \/ \E c \in Child : Boots(c) \/ Breaks(c) \/ TimesOut(c) \/ Exits(c) \/ Dies(c)
                        \/ ReadsLine(c) \/ SeesExit(c)
  \/ Converges \/ (\E ok \in BOOLEAN : Grants(ok)) \/ LearnsGrant
  \/ Acks \/ AckArrives \/ AckLost

TrialSpec == TrialInit /\ [][TrialNext]_trialVars

\* What has a timer: waitFor of main, for markers, and withTimeout of a child, for
\* its peer.  What has none and is taken on trust of the libraries: that the node of
\* B boots or fails (no marker of a receiver is waited for), that its last write is
\* appended, that what is closed closes, and that an exit is an event.
TrialFairness ==
  /\ WF_trialVars(FirstReady \/ WriterReady \/ RelayUp \/ GivesUp) /\ WF_trialVars(BothExited)
  /\ WF_trialVars(TimesOut("A") \/ AckArrives) /\ WF_trialVars(TimesOut("B") \/ Acks)
  /\ WF_trialVars(Boots("B") \/ Breaks("B"))
  /\ \A c \in {"A", "B"} : WF_trialVars(Exits(c)) /\ WF_trialVars(SeesExit(c))

TrialFairSpec == TrialSpec /\ TrialFairness
-----------------------------------------------------------------------------
(* Properties.                                                             *)

\* A trial that counts as a success was one, whatever was lost, exited early or
\* came late, although main only compares reports: B had everything, and A has what
\* only B could send after that, for a database with the right to write that A gave
\* it (trial.js:114-118, 124, 147-150).
TrialTrue ==
  /\ \A k \in DOMAIN trials : trials[k].ok =>
       /\ trials[k].have /\ trials[k].ack = "arrived"
       /\ kind = "sync" => trials[k].grant = "known"
  /\ exitCode = 0 => Len(trials) = n /\ \A k \in DOMAIN trials : trials[k].ok

\* However the children end, a run of trials does too (trial.js:60-71, 114, 147,
\* 191-229).
TrialEnds == main \notin {"idle", "exited"} ~> main = "exited"
=============================================================================
