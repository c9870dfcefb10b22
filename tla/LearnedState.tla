---------------------------- MODULE LearnedState ----------------------------
(***************************************************************************)
(* tracking/learner.py and models/calibration.py as the LEARN step of a    *)
(* cycle uses them: the edge threshold, the fitted calibrator, and the two *)
(* files they outlive the process in.  Edges are in units of 0.00001,      *)
(* rounded down; signal weights and the thresholds of a fit are left out.  *)
(***************************************************************************)
EXTENDS Integers

CONSTANTS BaseEdge,       \* config min_edge
          CheckInterval,  \* brier_check_interval
          MinSamples,     \* probability_calibration_min_samples
          RefitInterval,  \* probability_calibration_refit_interval
          WinRateAbove,   \* 20: trades the win rate needs to count
          MaxClosed,      \* bound: closed trades
          MaxLearns       \* bound: LEARN steps and restarts

Floor   == 4000
Ceiling == 20000

ASSUME LearnAssumption ==
    /\ BaseEdge \in Floor..Ceiling /\ CheckInterval \in Nat \ {0} /\ RefitInterval \in Nat \ {0}
    /\ MinSamples \in Nat \ {0, 1} /\ WinRateAbove \in Nat
    /\ MaxClosed \in Nat /\ MaxLearns \in Nat

VARIABLES closed,   \* closed trades: their count, those with a probability, and whether those
                    \* have both outcomes, and two different probabilities
          minEdge,  \* SelfAdjuster.min_edge
          applied,  \* EdgeDetector.min_edge
          edgeFile, \* learned_weights.json; 0: absent or cut
          fit,      \* the calibrator: last_fit_trade_count and sample_count; NoFit: ~is_fitted
          fitFile,  \* probability_calibration.json; NoFit: absent or cut
          lastFit,  \* history: trade count at the last fit of any process
          fitLost,  \* history: that fit did not reach its file
          learns    \* LEARN steps and restarts so far

learnVars == <<closed, minEdge, applied, edgeFile, fit, fitFile, lastFit, fitLost, learns>>

NoFit == [at |-> 0, samples |-> 0]
Fits  == [at : 1..MaxClosed, samples : 1..MaxClosed] \cup {NoFit}
Edges == Floor..Ceiling

LearnTypeOK ==
    /\ closed \in [count : 0..MaxClosed, usable : 0..MaxClosed, mixed : BOOLEAN, spread : BOOLEAN]
    /\ minEdge \in Edges /\ applied \in Edges /\ edgeFile \in Edges \cup {0}
    /\ fit \in Fits /\ fitFile \in Fits
    /\ lastFit \in 0..MaxClosed /\ fitLost \in BOOLEAN /\ learns \in 0..MaxLearns

LearnInit ==
    /\ closed = [count |-> 0, usable |-> 0, mixed |-> FALSE, spread |-> FALSE]
    /\ minEdge = BaseEdge /\ applied = BaseEdge /\ edgeFile = 0
    /\ fit = NoFit /\ fitFile = NoFit /\ lastFit = 0 /\ fitLost = FALSE /\ learns = 0

\* A trade closes; rows from before the probability was stored have none to calibrate on.
CloseTrade(usable, mixed, spread) ==
    /\ closed.count < MaxClosed
    /\ closed' = [count |-> closed.count + 1, usable |-> closed.usable + (IF usable THEN 1 ELSE 0),
                  mixed |-> closed.mixed \/ (usable /\ mixed /\ closed.usable > 0),
                  spread |-> closed.spread \/ (usable /\ spread /\ closed.usable > 0)]
    /\ UNCHANGED <<minEdge, applied, edgeFile, fit, fitFile, lastFit, fitLost, learns>>

-----------------------------------------------------------------------------
AtLeast(x, y) == IF x > y THEN x ELSE y
AtMost(x, y)  == IF x < y THEN x ELSE y

\* check_and_adjust: Brier score, win rate, clamp, and one per cent back to the baseline.
ByBrier(e, brier) ==
    CASE brier = "high" -> AtMost(e + 2000, Ceiling)
      [] brier = "low"  -> AtLeast(e - 1000, 5000)
      [] OTHER          -> e
ByWinRate(e, wins) ==
    CASE wins = "low"  -> AtMost(e + 1000, Ceiling)
      [] wins = "high" -> AtLeast(e - 500, 5000)
      [] OTHER         -> e
Clamped(e) == AtLeast(Floor, AtMost(e, Ceiling))
Decayed(e) == (e * 99 + BaseEdge) \div 100

Checked == closed.count > 0 /\ closed.count % CheckInterval = 0

Adjusted(brier, wins) ==
    Decayed(Clamped(IF Checked
                    THEN ByWinRate(ByBrier(minEdge, brier), IF closed.count > WinRateAbove THEN wins ELSE "none")
                    ELSE minEdge))

\* should_refit, and whether fit() then has enough samples of both outcomes.  A fit over one
\* probability ends with one threshold: is_fitted stays false, save() writes nothing, and the
\* next LEARN step fits again.
ShouldRefit ==
    /\ closed.count >= MinSamples
    /\ fit = NoFit \/ closed.count >= fit.at + RefitInterval
Refits == ShouldRefit /\ closed.usable >= MinSamples /\ closed.mixed /\ closed.spread

NewFit == [at |-> closed.count, samples |-> closed.usable]

\* Both files are written in place: a write is done, refused before it touched the file, or cut.
Writes == {"done", "refused", "cut"}
Written(file, none, new, write) ==
    CASE write = "done" -> new [] write = "refused" -> file [] write = "cut" -> none

\* The LEARN step: the refit and its write, then the adjustment, its write, and the push into
\* the edge detector; a write that raises ends the cycle there.
Learn(brier, wins, fitWrite, edgeWrite) ==
    /\ learns < MaxLearns /\ learns' = learns + 1
    /\ IF Refits
       THEN /\ fit' = NewFit
            /\ fitFile' = Written(fitFile, NoFit, NewFit, fitWrite)
            /\ lastFit' = closed.count /\ fitLost' = (fitWrite # "done")
       ELSE /\ fitWrite = "done"
            /\ UNCHANGED <<fit, fitFile, lastFit, fitLost>>
    /\ IF fitWrite = "done"
       THEN /\ minEdge' = Adjusted(brier, wins)
            /\ edgeFile' = Written(edgeFile, 0, minEdge', edgeWrite)
            /\ applied' = IF edgeWrite = "done" THEN minEdge' ELSE applied
       ELSE UNCHANGED <<minEdge, edgeFile, applied>>
    /\ UNCHANGED closed

\* Mutant of LoadedFit: the interval is counted from sample_count, the fallback of load().
LoadedFitFromSamples(f) == IF f = NoFit THEN f ELSE [f EXCEPT !.at = f.samples]

LoadedFit(f) == f

\* The process ends, also in the middle of a write (cut), and a new one loads what is there:
\* both loaders take a cut file for none.
Restart ==
    /\ learns < MaxLearns /\ learns' = learns + 1
    /\ fit' = LoadedFit(fitFile)
    /\ minEdge' = IF edgeFile = 0 THEN BaseEdge ELSE edgeFile
    /\ applied' = minEdge'
    /\ UNCHANGED <<closed, edgeFile, fitFile, lastFit, fitLost>>

LearnNext ==
    \/ \E usable, mixed, spread \in BOOLEAN : CloseTrade(usable, mixed, spread)
    \/ \E brier, wins \in {"low", "none", "high"}, fitWrite, edgeWrite \in Writes :
          Learn(brier, wins, fitWrite, edgeWrite)
    \/ Restart

LearnSpec == LearnInit /\ [][LearnNext]_learnVars

-----------------------------------------------------------------------------
\* Action property.  Two fits of the calibrator are at least RefitInterval closed trades apart,
\* whichever processes made them, unless the earlier one did not reach its file; and the edge
\* the detector works with is the one a later process starts from, unless that file was cut.
LearningSurvivesRestarts ==
    [][/\ lastFit' # lastFit => lastFit = 0 \/ fitLost \/ closed.count >= lastFit + RefitInterval
       /\ edgeFile' # 0 => applied' = edgeFile']_learnVars
=============================================================================
