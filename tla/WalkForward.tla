----------------------------- MODULE WalkForward -----------------------------
(***************************************************************************)
(* evolve/walkforward.py: the folds of walk_forward_splits, and the search *)
(* of walk_forward_evaluate over them, one candidate of one window at a    *)
(* time.  A window is a pair of bar numbers, the second exclusive.         *)
(***************************************************************************)
EXTENDS Integers, Sequences, FiniteSets

CONSTANTS
    Bars,            \* observations available
    TrainSize, TestSize, Embargo, Anchored,
    Purge,           \* the one given, else the longest warm-up of the first candidate
                     \* and the regime window
    MinTrain,        \* the 10 bars below which a fold is not worth having
    Candidates,      \* numbered from 1, the incumbent first
    Warmup,          \* [Candidates -> bars a backtest of the candidate needs]
    Readings          \* in-sample results

ASSUME WalkForwardAssumption ==
    /\ Bars \in Nat /\ MinTrain \in Nat \ {0} /\ Anchored \in BOOLEAN
    /\ TrainSize \in Nat \ {0} /\ TestSize \in Nat \ {0}
    /\ Purge \in Nat /\ Embargo \in Nat
    /\ Readings \subseteq Nat

VARIABLES
    phase,           \* "split", "train", "test", "done" or "failed"
    testStart,       \* walk_forward_splits: where the next test window starts
    folds,           \* the folds found
    fold, candidate, \* the loops of walk_forward_evaluate
    best,            \* <<best_sharpe, best_idx>>
    nTrials, nSkipped,
    kept,            \* out-of-sample results: fold, candidate, in-sample Sharpe
    trained, lost    \* history: pairs trained and their Sharpe; pairs that raised

walkVars == <<phase, testStart, folds, fold, candidate, best, nTrials, nSkipped,
              kept, trained, lost>>

Max2(m, n) == IF m < n THEN n ELSE m

WalkInit ==
    /\ phase = "split"
    /\ testStart = TrainSize /\ folds = <<>>
    /\ fold = 1 /\ candidate = 1
    /\ best = <<-1, 1>>
    /\ nTrials = 0 /\ nSkipped = 0
    /\ kept = {} /\ trained = {} /\ lost = {}

\* Mutant of TrainEnd: nothing is purged.
TrainEndUnpurged(start, trainStart) == start
TrainEnd(start, trainStart) == Max2(trainStart, start - Purge)

FoldAt(start) ==
    LET trainStart == IF Anchored THEN 0 ELSE Max2(0, start - TrainSize)
    IN  [train |-> <<trainStart, TrainEnd(start, trainStart)>>,
         test |-> <<start, start + TestSize>>]

Usable(f) == f.train[2] - f.train[1] >= Max2(MinTrain, Purge)

Split ==
    /\ phase = "split" /\ testStart + TestSize <= Bars
    /\ folds' = IF Usable(FoldAt(testStart)) THEN Append(folds, FoldAt(testStart)) ELSE folds
    /\ testStart' = testStart + TestSize + Embargo
    /\ UNCHANGED <<phase, fold, candidate, best, nTrials, nSkipped, kept, trained, lost>>

SplitEnds ==
    /\ phase = "split" /\ testStart + TestSize > Bars
    /\ phase' = IF folds = <<>> THEN "failed" ELSE "train"
    /\ UNCHANGED <<testStart, folds, fold, candidate, best, nTrials, nSkipped,
                   kept, trained, lost>>

\* run_backtest raises ValueError on a window that does not clear the warm-up.
Runs(window) == window[2] - window[1] > Warmup[candidate] + 10

NextPair == candidate' = (candidate % Cardinality(Candidates)) + 1
LastPair == candidate = Cardinality(Candidates)

Train(sharpe) ==
    /\ phase = "train" /\ Runs(folds[fold].train)
    /\ nTrials' = nTrials + 1
    /\ best' = IF sharpe > best[1] THEN <<sharpe, candidate>> ELSE best
    /\ trained' = trained \cup {[fold |-> fold, candidate |-> candidate, sharpe |-> sharpe]}
    /\ NextPair
    /\ phase' = IF LastPair THEN "test" ELSE phase
    /\ UNCHANGED <<testStart, folds, fold, nSkipped, kept, lost>>

Skipped == nSkipped + 1

TrainSkips ==
    /\ phase = "train" /\ ~Runs(folds[fold].train)
    /\ nSkipped' = Skipped
    /\ lost' = lost \cup {<<"train", fold, candidate>>}
    /\ NextPair
    /\ phase' = IF LastPair THEN "test" ELSE phase
    /\ UNCHANGED <<testStart, folds, fold, best, nTrials, kept, trained>>

FoldEnds == IF fold < Len(folds) THEN "train"
            ELSE IF kept' = {} THEN "failed" ELSE "done"

\* Every candidate is run out of sample; the result of the best is kept.
Test ==
    /\ phase = "test"
    /\ IF Runs(folds[fold].test)
       THEN /\ kept' = IF candidate = best[2]
                       THEN kept \cup {[fold |-> fold, candidate |-> candidate, sharpe |-> best[1]]}
                       ELSE kept
            /\ UNCHANGED lost
       ELSE /\ lost' = lost \cup {<<"test", fold, candidate>>}
            /\ UNCHANGED kept
    /\ NextPair
    /\ IF LastPair
       THEN phase' = FoldEnds /\ fold' = fold + 1 /\ best' = <<-1, 1>>
       ELSE UNCHANGED <<phase, fold, best>>
    /\ UNCHANGED <<testStart, folds, nTrials, nSkipped, trained>>

WalkNext ==
    \/ Split \/ SplitEnds
    \/ \E sharpe \in Readings : Train(sharpe)
    \/ TrainSkips
    \/ Test

WalkSpec == WalkInit /\ [][WalkNext]_walkVars

-----------------------------------------------------------------------------
\* No bar that a test window's features reach back to is trained on in its fold,
\* the test windows follow one another with an embargo between them, and a
\* training window always precedes its test window (walkforward.py: "Skip either
\* and out-of-sample scores drift upward").
FoldsAreApart ==
    \A i \in 1 .. Len(folds) :
        /\ folds[i].train[1] >= 0
        /\ folds[i].train[1] < folds[i].train[2]
        /\ folds[i].train[2] + Purge <= folds[i].test[1]
        /\ folds[i].test[2] <= Bars
        /\ \A j \in 1 .. Len(folds) :
              i < j => folds[i].test[2] + Embargo <= folds[j].test[1]

\* VIOLATED: every pair that could not be evaluated is counted (n_skipped:
\* "Candidate/fold pairs that could not be evaluated. Surfaced rather than
\* swallowed").  The out-of-sample loop drops them.
SkipsAreSurfaced == phase = "done" => nSkipped = Cardinality(lost)

\* VIOLATED: what is kept of a fold was chosen in its training window
\* (WalkForwardResult: "The parameter set selected in each fold's training
\* window").  Where no candidate can be trained, the first is taken.
KeptWasTrained ==
    \A k \in kept : \E t \in trained : t.fold = k.fold /\ t.candidate = k.candidate
=============================================================================
