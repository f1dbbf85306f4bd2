-------------------------------- MODULE MCApps --------------------------------
(***************************************************************************)
(* The web app and the tools of the harness, which share no state, checked *)
(* together: a behaviour is one of the two pages, of a checked benchmark   *)
(* run, of what such a run holds, or of a run of trials over the network,  *)
(* while the others stay as they begin.                                    *)
(***************************************************************************)
EXTENDS WebDrop, BenchGate, BenchRig, NetTrial

\* One gated metric of one bench, two of another; the wall time has a floor of 1.
Samples == [b \in ToSet(BENCHES) |->
  CASE b = "append" -> [batchedAppendsPerSec : {3, 5}]
    [] b = "replicate" ->
         {[wireEfficiency |-> 6, wallMs |-> 3], [wireEfficiency |-> 5, wallMs |-> 6],
          [wireEfficiency |-> 5, wallMs |-> 3], [wireEfficiency |-> Infinite, wallMs |-> 5],
          [wallMs |-> 5]}
    [] OTHER -> {NoMetrics}]

\* Baselines that lack a bench or a metric, have a zero or a negative number, or are
\* of the quick size.
Files == {NoFile} \cup [quick : {TRUE}, benches :
  {[replicate |-> [wireEfficiency |-> 6, wallMs |-> 3],
    append |-> [batchedAppendsPerSec |-> 6]],
   [replicate |-> [wireEfficiency |-> NotNumber, wallMs |-> 5]],
   [replicate |-> [wireEfficiency |-> 0 - 6, wallMs |-> 0 - 3]],
   [replicate |-> [wireEfficiency |-> 6, wallMs |-> 0],
    append |-> [batchedAppendsPerSec |-> 5]]}]
-----------------------------------------------------------------------------
WebRests ==
  /\ ~dialog /\ gateway = "up" /\ \A s \in Send : send[s] = "idle"
  /\ \A t \in Try : recv[t] = "idle"

GateRests == stage = "idle" /\ file = NoFile
RigRests == step = "idle"
TrialRests == main = "idle"

AppsInit == WebInit /\ GateInit /\ RigInit /\ TrialInit

appsVars == <<webVars, gateVars, rigVars, trialVars>>

AppsNext ==
  \/ /\ GateRests /\ RigRests /\ TrialRests
     /\ WebNext /\ UNCHANGED <<gateVars, rigVars, trialVars>>
  \/ /\ WebRests /\ RigRests /\ TrialRests
     /\ GateNext /\ UNCHANGED <<webVars, rigVars, trialVars>>
  \/ /\ WebRests /\ GateRests /\ TrialRests
     /\ RigNext /\ UNCHANGED <<webVars, gateVars, trialVars>>
  \/ /\ WebRests /\ GateRests /\ RigRests
     /\ TrialNext /\ UNCHANGED <<webVars, gateVars, rigVars>>

Apps == AppsInit /\ [][AppsNext]_appsVars /\ WebFairness /\ TrialFairness
=============================================================================
