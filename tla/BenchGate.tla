------------------------------ MODULE BenchGate ------------------------------
(***************************************************************************)
(* harness/bench/run.js: the benches are run one after the other, each     *)
(* several times, and folded to the best value of every gated metric.      *)
(* With --check these are compared with the recorded baseline; what is     *)
(* over its threshold is run again, at most MAX_GATE_RETRIES times, before *)
(* the verdict; with --baseline they become the baseline.                  *)
(*                                                                         *)
(* Metrics are numbers in a unit of their own.  Those no gate looks at are *)
(* left out, and so is the table that is printed.                          *)
(***************************************************************************)
EXTENDS Integers, Sequences, FiniteSets, SequencesExt

CONSTANTS
  Sample,        \* Sample[b]: what a repetition of bench b may report
  BaseFile,      \* what the baseline file of the size may hold, or NoFile
  RepsFlag,      \* values of --reps
  NotNumber,     \* a metric that is missing, or null in a file
  Infinite,      \* an efficiency for which no byte was counted
  NoFile

BENCHES == <<"append", "handshake", "replicate", "replicate-lossy">>
MAX_GATE_RETRIES == 2
THRESHOLD == 15

\* The gates, with their thresholds in percent, noise floors and whether they
\* hold across machines: THRESHOLD_OVERRIDES, NOISE_FLOORS, PORTABLE_METRICS.
Limit(b, metric, higher, threshold, floor, portable) ==
  [bench |-> b, metric |-> metric, higher |-> higher, threshold |-> threshold,
   floor |-> floor, portable |-> portable]

GATES ==
  {Limit("append", m, TRUE, 35, 0, FALSE) : m \in {"batchedAppendsPerSec", "batchedMBPerSec"}}
  \cup {Limit("handshake", "latencyMsMedian", FALSE, THRESHOLD, 1, FALSE),
        Limit("handshake", "firstMessageBytes", FALSE, THRESHOLD, 0, TRUE),
        Limit("replicate", "wireEfficiency", TRUE, THRESHOLD, 0, TRUE),
        Limit("replicate", "wallMs", FALSE, THRESHOLD, 1, FALSE)}
  \cup {Limit("replicate", m, FALSE, THRESHOLD, 0, TRUE) :
          m \in {"totalBytesWired", "bytesPerBlockOverhead"}}
  \cup {Limit("replicate-lossy", "wireEfficiency", TRUE, 40, 0, FALSE)}
  \cup {Limit("replicate-lossy", m, FALSE, 40, 0, FALSE) :
          m \in {"totalBytesWired", "bytesPerBlockOverhead"}}

Gated(name) == {g \in GATES : g.bench = name}

ASSUME NumbersAssumption ==
  NotNumber \notin Int /\ Infinite \notin Int /\ NotNumber # Infinite

\* A repetition reports numbers; only an efficiency may be infinite.
ASSUME SampleAssumption ==
  \A b \in ToSet(BENCHES) : \A s \in Sample[b] : \A g \in Gated(b) :
    g.metric \in DOMAIN s =>
      s[g.metric] \in Int \cup {NotNumber} \cup (IF g.higher THEN {Infinite} ELSE {})

\* A file holds numbers, or null.
ASSUME FilesAssumption ==
  \A f \in BaseFile \ {NoFile} : \A b \in DOMAIN f.benches :
    \A m \in DOMAIN f.benches[b] : f.benches[b][m] \in Int \cup {NotNumber}

VARIABLES
  stage,      \* "idle", "running", "gating", "writing" or the way it ended
  args,
  file,       \* the baseline file of the size: [quick, benches]
  baseline,   \* as loadBaseline found it
  queue, rep, \* set of benches to run, repetitions of the first that are done
  extra,      \* these repetitions
  rawRuns, benches,
  gates,      \* the gates that fail
  attempt, code,
  taken       \* history: all repetitions of every bench, and in how many batches

gateVars == <<stage, args, file, baseline, queue, rep, extra, rawRuns, benches,
              gates, attempt, code, taken>>

NoMetrics == [metric \in {} |-> 0]
NoArgs == [quick |-> FALSE, baseline |-> FALSE, check |-> FALSE, portableOnly |-> FALSE,
           reps |-> 1]

GateInit ==
  /\ stage = "idle" /\ file \in BaseFile /\ args = NoArgs /\ baseline = NoFile
  /\ queue = {} /\ rep = 0 /\ extra = {} /\ gates = {} /\ attempt = 0 /\ code = 0
  /\ rawRuns = [b \in ToSet(BENCHES) |-> {}]
  /\ benches = [b \in ToSet(BENCHES) |-> NoMetrics]
  /\ taken = [b \in ToSet(BENCHES) |-> [runs |-> {}, batches |-> 0]]
-----------------------------------------------------------------------------
(* Folding and comparing.                                                  *)

Value(metrics, metric) == IF metric \in DOMAIN metrics THEN metrics[metric] ELSE NotNumber
Values(runs, metric) == {Value(run, metric) : run \in runs} \ {NotNumber}

BestHigh(values) == IF Infinite \in values THEN Infinite ELSE Max(values)
BestLow(values) == Min(values \ {Infinite})

\* The gated metrics that some repetition reported, each at its best.
aggregate(name, runs) ==
  [metric \in {g.metric : g \in {h \in Gated(name) : Values(runs, h.metric) # {}}} |->
     IF \E g \in Gated(name) : g.metric = metric /\ g.higher
     THEN BestHigh(Values(runs, metric)) ELSE BestLow(Values(runs, metric))]

Comparable(current, base) == {current, base} \cap {NotNumber, Infinite} = {} /\ base # 0

\* By more than the threshold, and by more than the noise floor.  Against a negative
\* baseline the two contradict each other, as delta is a share of the baseline.
regressed(g, current, base) ==
  LET worsened == IF g.higher THEN base - current ELSE current - base
  IN base > 0 /\ worsened * 100 > g.threshold * base /\ worsened > g.floor

\* "fail", "pass" or "skip".
gateOne(g, current, base) ==
  IF ~Comparable(current, base) THEN "skip"
  ELSE IF regressed(g, current, base) THEN "fail" ELSE "pass"

Kept(portableOnly) == {g \in GATES : portableOnly => g.portable}

BaseOf(b, g) == Value(IF g.bench \in DOMAIN b.benches THEN b.benches[g.bench] ELSE NoMetrics,
                      g.metric)

\* The gates that fail.
checkGates(current, base, portableOnly) ==
  {g \in Kept(portableOnly) :
     gateOne(g, Value(current[g.bench], g.metric), BaseOf(base, g)) = "fail"}
-----------------------------------------------------------------------------
(* main, runAll and runReps.                                               *)

Stop(how, exit) ==
  /\ stage' = how /\ code' = exit

\* A check needs a baseline of its own size.
StartBench(a) ==
  /\ stage = "idle" /\ args' = a /\ baseline' = file
  /\ IF a.check /\ (file = NoFile \/ (file # NoFile /\ file.quick # a.quick))
     THEN Stop("aborted", 1) /\ UNCHANGED queue
     ELSE stage' = "running" /\ queue' = ToSet(BENCHES) /\ UNCHANGED code
  /\ UNCHANGED <<file, rep, extra, rawRuns, benches, gates, attempt, taken>>

\* The benches of a set run in the order of BENCHES.
First(names) == BENCHES[Min({i \in DOMAIN BENCHES : BENCHES[i] \in names})]

\* Mutant: the repetitions of a retry take the place of those before.
Bug_Merge(name, runs) == runs

Merge(name, runs) == rawRuns[name] \cup runs

\* One repetition; after the last one the bench is folded, with those before.
RunRep(s) ==
  LET name == First(queue)
      runs == extra \cup {s}
  IN /\ stage = "running" /\ queue # {}
     /\ IF rep + 1 < args.reps
        THEN rep' = rep + 1 /\ extra' = runs /\ UNCHANGED <<queue, rawRuns, benches, taken>>
        ELSE /\ rep' = 0 /\ extra' = {} /\ queue' = queue \ {name}
             /\ rawRuns' = [rawRuns EXCEPT ![name] = Merge(name, runs)]
             /\ benches' = [benches EXCEPT ![name] = aggregate(name, Merge(name, runs))]
             /\ taken' = [taken EXCEPT ![name].runs = @ \cup runs,
                                        ![name].batches = @ + 1]
     /\ UNCHANGED <<stage, args, file, baseline, gates, attempt, code>>

\* A bench throws, and nothing of the run is kept.
BenchThrows ==
  /\ stage = "running" /\ queue # {} /\ Stop("crashed", 1)
  /\ UNCHANGED <<args, file, baseline, queue, rep, extra, rawRuns, benches, gates,
                 attempt, taken>>

\* All benches of the queue have run: compare, and maybe run what fails again.
Judge ==
  LET failing == checkGates(benches, baseline, args.portableOnly)
  IN /\ stage = "running" /\ queue = {} /\ args.check
     /\ gates' = failing
     /\ IF failing # {} /\ attempt < MAX_GATE_RETRIES
        THEN attempt' = attempt + 1 /\ queue' = {g.bench : g \in failing} /\ UNCHANGED stage
        ELSE stage' = "writing" /\ UNCHANGED <<attempt, queue>>
     /\ UNCHANGED <<args, file, baseline, rep, extra, rawRuns, benches, code, taken>>

NoCheck ==
  /\ stage = "running" /\ queue = {} /\ ~args.check /\ stage' = "writing"
  /\ UNCHANGED <<args, file, baseline, queue, rep, extra, rawRuns, benches, gates,
                 attempt, code, taken>>

\* A number that is not finite is null in JSON.
Stored(metrics) ==
  [m \in DOMAIN metrics |-> IF metrics[m] = Infinite THEN NotNumber ELSE metrics[m]]

\* The results and, also if the check fails, the baseline are written.
Finish ==
  /\ stage = "writing"
  /\ file' = IF args.baseline
             THEN [quick |-> args.quick,
                   benches |-> [b \in DOMAIN benches |-> Stored(benches[b])]]
             ELSE file
  /\ IF args.check /\ gates # {} THEN Stop("failed", 1) ELSE Stop("passed", 0)
  /\ UNCHANGED <<args, baseline, queue, rep, extra, rawRuns, benches, gates, attempt, taken>>

\* The disk is full.
WriteThrows ==
  /\ stage = "writing" /\ Stop("crashed", 1)
  /\ UNCHANGED <<args, file, baseline, queue, rep, extra, rawRuns, benches, gates,
                 attempt, taken>>

Args == [quick : BOOLEAN, baseline : BOOLEAN, check : BOOLEAN, portableOnly : BOOLEAN,
         reps : RepsFlag]

GateNext ==
  \/ \E a \in Args : StartBench(a)
  \/ queue # {} /\ \E s \in Sample[First(queue)] : RunRep(s)
  \/ BenchThrows \/ Judge \/ NoCheck \/ Finish \/ WriteThrows

GateSpec == GateInit /\ [][GateNext]_gateVars
-----------------------------------------------------------------------------
(* Properties.                                                             *)

Seen(g) == Values(taken[g.bench].runs, g.metric)
Worse(g, v) == v # Infinite /\ regressed(g, v, BaseOf(baseline, g))
Usable(g) == BaseOf(baseline, g) \notin {NotNumber, Infinite, 0}

\* The verdict is that of all repetitions ever run: the check fails only if some
\* metric was over its threshold every single time, in the first batch and in
\* every retry, and then it does fail; one good repetition, or a metric that one
\* side lacks, lets it pass (run.js:24-32, 268-288, 413-437).
VerdictExact ==
  /\ args.check /\ stage = "failed" =>
       \E g \in Kept(args.portableOnly) :
         /\ Usable(g) /\ Seen(g) # {} /\ \A v \in Seen(g) : Worse(g, v)
         /\ taken[g.bench].batches = MAX_GATE_RETRIES + 1
  /\ args.check /\ stage = "passed" =>
       \A g \in Kept(args.portableOnly) :
         Usable(g) => Seen(g) = {} \/ \E v \in Seen(g) : ~Worse(g, v)
=============================================================================
