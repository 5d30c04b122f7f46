------------------------------ MODULE Selection ------------------------------
(***************************************************************************)
(* research/selection.py: the pooled ledger of a search and the gate that  *)
(* judges a candidate against it.  Sharpe ratios are integers.             *)
(***************************************************************************)
EXTENDS Integers, Sequences, FiniteSetsExt

CONSTANTS
    Instruments,        \* symbols searched
    Results,            \* in-sample Sharpe ratios
    Holdouts,           \* Sharpe ratios on the holdout, NotLooked among them
    NotLooked,
    HoldSharpe,         \* buy and hold of the symbol
    MinOutOfSample,     \* min_out_of_sample_sharpe
    LuckFactor,         \* [trials -> hundredths of the square of the best of that
                        \*  many without an edge, in standard deviations]
    MaxTrials           \* bound: attempts of a search

ASSUME SelectionAssumption ==
    /\ MaxTrials \in Nat /\ Results \subseteq Int
    /\ LuckFactor \in [1 .. MaxTrials -> Nat]
    /\ \A m, n \in 1 .. MaxTrials : m < n => LuckFactor[m] < LuckFactor[n]

VARIABLES
    trials,             \* TrialLedger.trials
    adopted             \* history: the last verdict that adopted, with its evidence

selectionVars == <<trials, adopted>>

SelectionInit == trials = <<>> /\ adopted = {}

\* Every attempt, whatever its symbol.
Pooled == Len(trials)

\* What is summed over the trials to get their variance.
Linear(i) == trials[i].sharpe
Square(i) == trials[i].sharpe * trials[i].sharpe

\* sharpe_variance, times Pooled * (Pooled - 1).
Spread ==
    LET total == MapThenSumSet(Linear, 1 .. Pooled)
    IN  Pooled * MapThenSumSet(Square, 1 .. Pooled) - total * total

\* x <= luck_bar(n_pooled, sharpe_variance): the bar is 0 where fewer than two
\* trials or trials that all agree give no variance, and otherwise the deviation
\* of the trials times a factor of their number.
InsideLuck(x) ==
    \/ x <= 0
    \/ /\ Pooled >= 2 /\ Spread > 0
       /\ 100 * x * x * Pooled * (Pooled - 1) <= LuckFactor[Pooled] * Spread

\* A search tries a strategy on a symbol: recorded whether or not it worked.
Record(s, r) ==
    /\ Len(trials) < MaxTrials
    /\ trials' = Append(trials, [symbol |-> s, sharpe |-> r])
    /\ UNCHANGED adopted

\* The reasons for which evaluate refuses.  deflated is "none" where neither
\* the caller nor the trial brings what it is computed from.
Refusals(t, holdout, deflated) ==
    {r \in {"no holdout", "out of sample", "deflated", "buy and hold", "luck"} :
        \/ r = "no holdout" /\ holdout = NotLooked
        \/ r = "out of sample" /\ holdout # NotLooked /\ holdout < MinOutOfSample
        \/ r = "deflated" /\ deflated = "low"
        \/ r = "buy and hold" /\ holdout # NotLooked /\ holdout <= HoldSharpe
        \/ r = "luck" /\ InsideLuck(t.sharpe)}

Evaluate(i, holdout, deflated) ==
    /\ i \in 1 .. Len(trials)
    /\ Refusals(trials[i], holdout, deflated) = {}
    /\ adopted' =
           {[trial |-> trials[i], pooled |-> Pooled, holdout |-> holdout, deflated |-> deflated]}
    /\ UNCHANGED trials

SelectionNext ==
    \/ \E s \in Instruments, r \in Results : Record(s, r)
    \/ \E i \in 1 .. MaxTrials, holdout \in Holdouts, deflated \in {"none", "low", "high"} :
            Evaluate(i, holdout, deflated)

SelectionSpec == SelectionInit /\ [][SelectionNext]_selectionVars

-----------------------------------------------------------------------------
\* VIOLATED: a result that the search would have produced by luck stays inside luck
\* however much more is tried (tests/test_selection.py: "More searching is a higher
\* bar, not a better result"; SearchConfig: "Every extra candidate raises the bar").
\* The test holds the variance fixed; trials that agree with the rest narrow it by
\* more than their number raises the factor.
SearchingRaisesTheBar ==
    [][\A x \in Results : InsideLuck(x) => InsideLuck(x)']_selectionVars

\* VIOLATED: nothing is adopted without its deflated Sharpe ratio
\* (SelectionGate: "There is deliberately no override"; evaluate: "Judge one
\* candidate against every bar at once").  A trial without returns skips it.
AdoptedIsDeflated == \A a \in adopted : a.deflated = "high"
=============================================================================
