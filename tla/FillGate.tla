------------------------------- MODULE FillGate -------------------------------
(***************************************************************************)
(* The fill-probability gate and the files behind it.  One script trains a *)
(* model of completed round trips, another evaluates it and recommends a   *)
(* threshold; the engine loads the model when it starts, takes the         *)
(* threshold over when the report was made for that model, and holds back  *)
(* the orders the model gives little chance, until its breaker finds that  *)
(* too many were.  Probabilities are in basis points.                      *)
(***************************************************************************)
EXTENDS Integers, FiniteSets, FiniteSetsExt, Functions

CONSTANTS
  Bins,          \* feature bins (direction, notional, fills, holding time)
  OnlineBins,    \* those of an order that is not placed yet
  Outcomes,      \* datasets: per bin how many round trips won and how many did not
  CostRatio,     \* worth of a loss that is blocked, in wins that are allowed
  SweepStep,     \* SWEEP_STEP_BPS
  Configured,    \* GRINDER_FILL_PROB_MIN_BPS
  Window,        \* window_seconds of the breaker, in ticks
  MaxBlockPct,   \* max_block_rate_pct
  MaxTrainings,  \* bound on trainings
  MaxEvents      \* bound on the verdicts of one tick

ASSUME GateAssumption ==
  /\ IsFiniteSet(Bins) /\ OnlineBins \subseteq Bins
  /\ Outcomes \subseteq [Bins -> [wins : Nat, others : Nat]]
  /\ {CostRatio, Window, MaxTrainings, MaxEvents} \subseteq Nat /\ SweepStep \in Nat \ {0}
  /\ Configured \in 0..10000 /\ MaxBlockPct \in 0..100

VARIABLES
  modelDir,      \* model.json and manifest.json of the model directory
  evalDir,       \* eval_report.json and manifest.json of the report directory
  trainer, evaluator,  \* the scripts, and how far they are
  trainings,     \* created_at_utc
  judge,         \* the engine: its model, its threshold and where they are from
  window         \* the breaker: whether it tripped, its verdicts by age in ticks, whether the last
                 \* order of this tick bypassed the gate, how long ago one was judged

fillVars == <<modelDir, evalDir, trainer, evaluator, trainings, judge, window>>

Absent == [absent |-> TRUE]
Idle == [at |-> "idle"]
NoFiles == [content |-> Absent, manifest |-> Absent]

(***************************************************************************)
(* The model and its evaluation.                                           *)
(***************************************************************************)
Rounded(wins, total) == (wins * 10000 + total \div 2) \div total
Samples(rows, b) == rows[b].wins + rows[b].others
Seen(rows) == {b \in Bins : Samples(rows, b) > 0}

\* All there is in S of what f counts for each.
Tally(f, S) == Cardinality(UNION {{x} \X (1..f[x]) : x \in S})
Wins(rows, B) == Tally([b \in Bins |-> rows[b].wins], B)
Others(rows, B) == Tally([b \in Bins |-> rows[b].others], B)

\* Per bin the share of wins, the share of all rows for a bin it did not see.
Train(rows) ==
  LET all == Wins(rows, Bins) + Others(rows, Bins) IN
  [bins |-> [b \in Seen(rows) |-> Rounded(rows[b].wins, Samples(rows, b))],
   prior |-> IF all = 0 THEN 5000 ELSE Rounded(Wins(rows, Bins), all)]

Predict(model, b) == IF b \in DOMAIN model.bins THEN model.bins[b] ELSE model.prior

\* The wins a threshold lets through and, weighed, the others it holds back.
CostScore(model, rows, t) ==
  LET allowed == {b \in Bins : Predict(model, b) >= t} IN
  Wins(rows, allowed) + CostRatio * Others(rows, Bins \ allowed)

Sweep == {SweepStep * i : i \in 0..(10000 \div SweepStep)}

BestThreshold(model, rows) ==
  LET score == [t \in Sweep |-> CostScore(model, rows, t)]
      best == Max(Range(score))
  IN Min({t \in Sweep : score[t] = best})

WellCalibrated(model, rows) ==
  \A b \in Seen(rows) :
    LET error == Predict(model, b) - Rounded(rows[b].wins, Samples(rows, b)) IN
    error < 500 /\ -error < 500

(***************************************************************************)
(* The scripts.  They remove the old directory and write its two files one *)
(* after the other; a manifest names the content it was written for.       *)
(***************************************************************************)
\* A model or a report whose manifest does not fit does not load.
Intact(dir) == dir.content # Absent /\ dir.manifest # Absent /\ dir.manifest.of = dir.content

ClearModel(rows) ==
  /\ trainer = Idle /\ trainings < MaxTrainings
  /\ trainings' = trainings + 1
  /\ modelDir' = NoFiles
  /\ trainer' = [at |-> "model", model |-> Train(rows)]
  /\ UNCHANGED <<evalDir, evaluator, judge, window>>

WriteModel ==
  /\ \/ /\ trainer.at = "model"
        /\ modelDir' = [modelDir EXCEPT !.content = trainer.model]
        /\ trainer' = [trainer EXCEPT !.at = "manifest"]
     \/ /\ trainer.at = "manifest"
        /\ modelDir' = [modelDir EXCEPT !.manifest = [of |-> trainer.model, created |-> trainings]]
        /\ trainer' = Idle
  /\ UNCHANGED <<evalDir, evaluator, trainings, judge, window>>

LoadForEvaluation(rows) ==
  /\ evaluator = Idle /\ Intact(modelDir)
  /\ evaluator' = [at |-> "loaded", model |-> modelDir.content, rows |-> rows, loaded |-> modelDir.manifest]
  /\ UNCHANGED <<modelDir, evalDir, trainer, trainings, judge, window>>

\* The manifest is read again for its checksum.
Evaluate ==
  /\ evaluator.at = "loaded"
  /\ evaluator' = IF modelDir.manifest = Absent THEN Idle
                  ELSE [at |-> "clear",
                        report |-> [threshold |-> BestThreshold(evaluator.model, evaluator.rows),
                                    calibrated |-> WellCalibrated(evaluator.model, evaluator.rows),
                                    model |-> modelDir.manifest,
                                    rows |-> evaluator.rows, loaded |-> evaluator.loaded]]
  /\ UNCHANGED <<modelDir, evalDir, trainer, trainings, judge, window>>

WriteReport ==
  /\ \/ evaluator.at = "clear" /\ evalDir' = NoFiles /\ evaluator' = [evaluator EXCEPT !.at = "report"]
     \/ /\ evaluator.at = "report"
        /\ evalDir' = [evalDir EXCEPT !.content = evaluator.report]
        /\ evaluator' = [evaluator EXCEPT !.at = "manifest"]
     \/ /\ evaluator.at = "manifest"
        /\ evalDir' = [evalDir EXCEPT !.manifest = [of |-> evaluator.report]]
        /\ evaluator' = Idle
  /\ UNCHANGED <<modelDir, trainer, trainings, judge, window>>

\* A script that dies leaves the files as they are.
ScriptDies ==
  /\ \/ trainer # Idle /\ trainer' = Idle /\ UNCHANGED evaluator
     \/ evaluator # Idle /\ evaluator' = Idle /\ UNCHANGED trainer
  /\ UNCHANGED <<modelDir, evalDir, trainings, judge, window>>

(***************************************************************************)
(* The engine starts.                                                      *)
(***************************************************************************)
\* What the operator is told to check before enforcement: not whether the report is of the
\* model.
PreflightPasses ==
  /\ Intact(modelDir) /\ Intact(evalDir)
  /\ evalDir.content.calibrated /\ evalDir.content.threshold = Configured

Off == [at |-> "off"]
NoVerdicts == [tripped |-> FALSE, bypassed |-> FALSE, judged |-> 0,
               blocks |-> [a \in 0..Window |-> 0], total |-> [a \in 0..Window |-> 0]]

\* No model that loads, no gate.
LoadModel(enforce, auto) ==
  /\ judge.at = "off"
  /\ enforce => auto \/ PreflightPasses
  /\ judge' = [at |-> "loaded", enforce |-> enforce, auto |-> auto,
              model |-> IF Intact(modelDir) THEN modelDir.content ELSE Absent,
              loaded |-> modelDir.manifest]
  /\ window' = NoVerdicts
  /\ UNCHANGED <<modelDir, evalDir, trainer, evaluator, trainings>>

\* The report may be of another model than the one in the directory.
SameManifestAny(report) == modelDir.manifest # Absent

SameManifest(report) == modelDir.manifest # Absent /\ report.model = modelDir.manifest

Resolve ==
  /\ judge.at = "loaded"
  /\ LET report == IF Intact(evalDir) /\ SameManifest(evalDir.content) THEN evalDir.content ELSE Absent
         taken == judge.auto /\ report # Absent
     IN judge' = [at |-> "runs", enforce |-> judge.enforce, model |-> judge.model,
                 threshold |-> IF taken THEN report.threshold ELSE Configured,
                 report |-> IF taken THEN report ELSE Absent,
                 whole |-> taken /\ report.loaded = report.model /\ judge.loaded = modelDir.manifest]
  /\ UNCHANGED <<modelDir, evalDir, trainer, evaluator, trainings, window>>

StopGate ==
  /\ judge.at # "off" /\ judge' = Off /\ window' = NoVerdicts
  /\ UNCHANGED <<modelDir, evalDir, trainer, evaluator, trainings>>

(***************************************************************************)
(* An order at the gate.                                                   *)
(***************************************************************************)
TooMany(w) ==
  LET total == Tally(w.total, 0..Window)
      blocks == Tally(w.blocks, 0..Window)
  IN total > 0 /\ (blocks * 100) \div total > MaxBlockPct

\* An order that the open breaker let pass is not counted.
Recorded(w, bypassed, block) ==
  IF bypassed THEN w ELSE [w EXCEPT !.total[0] = @ + 1, !.blocks[0] = IF block THEN @ + 1 ELSE @]

\* An open breaker closes when its window has moved on, and lets orders pass until then.
CheckOrder(b, listed) ==
  /\ judge.at = "runs" /\ judge.model # Absent
  /\ LET bypassed == window.tripped /\ TooMany(window)
         seen == [window EXCEPT !.tripped = bypassed, !.bypassed = bypassed]
         block == judge.enforce /\ Predict(judge.model, b) < judge.threshold
         after == IF judge.enforce /\ listed THEN Recorded(seen, bypassed, block) ELSE seen
     IN /\ after = seen \/ after.total[0] <= MaxEvents
        /\ window' = [after EXCEPT !.tripped = @ \/ (after # seen /\ TooMany(after)),
                                   !.judged = IF bypassed \/ ~listed THEN @ ELSE 0]
  /\ UNCHANGED <<modelDir, evalDir, trainer, evaluator, trainings, judge>>

WindowMoves ==
  /\ judge.at = "runs"
  /\ window' = [window EXCEPT !.total = [a \in 0..Window |-> IF a = 0 THEN 0 ELSE @[a - 1]],
                              !.judged = Min({@ + 1, Window + 1}), !.bypassed = FALSE,
                              !.blocks = [a \in 0..Window |-> IF a = 0 THEN 0 ELSE @[a - 1]]]
  /\ UNCHANGED <<modelDir, evalDir, trainer, evaluator, trainings, judge>>

\* What earlier runs of the scripts left.
OlderModel(rows) == [content |-> Train(rows), manifest |-> [of |-> Train(rows), created |-> 0]]

OlderReport(rows) ==
  LET report == [threshold |-> BestThreshold(Train(rows), rows), calibrated |-> TRUE,
                 model |-> OlderModel(rows).manifest, rows |-> rows, loaded |-> OlderModel(rows).manifest]
  IN [content |-> report, manifest |-> [of |-> report]]

GateInit ==
  /\ \E rows \in Outcomes : modelDir = OlderModel(rows) /\ evalDir = OlderReport(rows)
  /\ trainer = Idle /\ evaluator = Idle /\ trainings = 0
  /\ judge = Off /\ window = NoVerdicts

GateNext ==
  \/ \E rows \in Outcomes : ClearModel(rows) \/ LoadForEvaluation(rows)
  \/ WriteModel \/ Evaluate \/ WriteReport \/ ScriptDies
  \/ \E enforce, auto \in BOOLEAN : LoadModel(enforce, auto)
  \/ Resolve \/ StopGate
  \/ \E b \in OnlineBins, listed \in BOOLEAN : CheckOrder(b, listed)
  \/ WindowMoves

GateSpec == GateInit /\ [][GateNext]_fillVars

(***************************************************************************)
(* Properties.                                                             *)
(***************************************************************************)
\* Trainings, evaluations and restarts in any order, each of which may die half-way: a
\* threshold the engine took over is the best of the sweep for the model in its memory on
\* the rows of the report, unless a training rewrote the model between the two reads of the
\* evaluation or of the start.
ThresholdFitsModel ==
  judge.at = "runs" /\ judge.report # Absent /\ judge.whole /\ judge.model # Absent =>
    \A t \in Sweep : CostScore(judge.model, judge.report.rows, t)
                       <= CostScore(judge.model, judge.report.rows, judge.threshold)

\* The breaker does not keep itself open by what it lets pass: an order that passes the gate
\* unjudged finds one that was judged within the window.
BypassEnds == window.bypassed => window.judged <= Window
=============================================================================
