----------------------------- MODULE BacktestRun -----------------------------
(***************************************************************************)
(* One run of backtest/engine.py over a series of bars: the regime held    *)
(* between refits, the blend of the two strategies, the edge gate, the     *)
(* turnover buffer, the lag of one bar, the risk manager, the costs and    *)
(* the equity.  RiskManager is the module of that name; its weight is the  *)
(* weight the backtest trades.  Convictions, shares and volatility scalars *)
(* are percentages, weights the integer steps of RiskManager (MaxGross is  *)
(* the whole risk budget).                                                 *)
(***************************************************************************)
EXTENDS RiskManager, Reversion

CONSTANTS
    Length,          \* bound: the length of the series
    RefitEvery,       \* bars between regime refits
    Window,           \* bars before the first
    BarsPerDay,
    Convictions,      \* what momentum may ask for on a bar
    Scores,           \* z-scores of a bar
    HalfLives,        \* what the fit of the reversion finds, -1 for nothing
    VolScalars,       \* volatility_target_scalar, clipped, in percent
    Returns,          \* percent the asset moves in a bar
    Buffer,           \* turnover_buffer
    CostPct,          \* fees and slippage, percent of the weight traded
    OffFloor, IndeterminateScale, ConfidenceFloor,   \* AllocationConfig
    Statistics        \* what the tests of classify_regime find in a window

ASSUME BacktestAssumption ==
    /\ Length \in Nat /\ Window \in Nat /\ RefitEvery \in Nat \ {0}
    /\ BarsPerDay \in Nat \ {0} /\ Buffer \in Nat
    /\ OffFloor \in 0..50 /\ IndeterminateScale \in 0..100 /\ ConfidenceFloor \in 0..100
    /\ Convictions \subseteq Int /\ Scores \subseteq Int /\ VolScalars \subseteq Int
    /\ \A x \in Statistics : x.ratio \in Int /\ x.z \in Int /\ x.hurst \in Int
                             /\ x.halfLife \in Int /\ x.adf \in Int

VARIABLES
    bar,             \* the bar the loop is at
    step,            \* "signal" or "trade": where in the bar
    position,        \* what the reversion strategy holds
    score,           \* its z-score on this bar
    shares,          \* the strategies' shares, held between refits
    raw,             \* target weight before the gate
    gated, buffered, \* what apply_edge_gate and apply_turnover_buffer hold
    desired,         \* buffered of the bar before
    account,         \* the simulated equity
    quiet            \* history: bars since the raw target was last not zero

backtestVars == <<bar, step, position, score, shares, raw, gated, buffered, desired, account, quiet>>

-----------------------------------------------------------------------------
\* features/regime.py: a significant variance ratio proposes the regime, the
\* Hurst exponent may veto it.  Ratio, exponent and p-value in percent, z in thousandths; -1 where a
\* test has no answer.
HurstBand == 5
Threshold == 1645
MaxHalfLife == 200

Significant(x) == Abs(x.z) >= Threshold

Regime(x) ==
    IF x.ratio > 100 /\ Significant(x) /\ x.hurst > 50 - HurstBand
    THEN "trending"
    ELSE IF /\ x.ratio < 100 /\ Significant(x) /\ x.hurst < 50 + HurstBand
            /\ x.halfLife \in 0 .. MaxHalfLife
    THEN "mean_reverting"
    ELSE "indeterminate"

Share(n, whole) == IF n <= 0 THEN 0 ELSE Smaller(100, (100 * n) \div whole)

Confidence(x) ==
    LET evidence == Share(Abs(x.z) - Threshold, 2 * Threshold)
        supporting == IF Regime(x) = "trending" THEN x.hurst - 50 ELSE 50 - x.hurst
        blend == (70 * evidence + 30 * Share(supporting, 20)) \div 100
    IN  IF Regime(x) = "indeterminate" THEN 0
        ELSE IF Regime(x) = "mean_reverting" /\ x.adf >= 0
        THEN (75 * blend + 25 * Share(10 - x.adf, 10)) \div 100
        ELSE blend

\* portfolio/allocator.py: <<momentum, reversion>>.
RegimeWeights(regime, confidence) ==
    LET scale == ConfidenceFloor + ((100 - ConfidenceFloor) * confidence) \div 100
        off == (scale * OffFloor) \div 100
    IN  IF regime = "indeterminate"
        THEN <<IndeterminateScale \div 2, IndeterminateScale \div 2>>
        ELSE IF regime = "trending" THEN <<scale - off, off>> ELSE <<off, scale - off>>

\* The combined conviction in percent, times the volatility scalar, in steps.
Blend(momentum, reversion) ==
    Clip((momentum * shares'[1] + reversion * shares'[2]) \div 100, 100)

RawTarget(combined, vol) == Clip((combined * vol * MaxGross) \div 10000, MaxGross)

-----------------------------------------------------------------------------
\* portfolio/sizing.py.

Reducing(want, current) ==
    Abs(want) < Abs(current) /\ (want = 0 \/ (want > 0) = (current > 0))

\* Mutant of Gated: an exit has to pay for itself too.
GatedExits(want, current, pays) == IF pays THEN want ELSE current

Gated(want, current, pays) ==
    IF Reducing(want, current) \/ pays THEN want ELSE current

\* Mutant of Buffered: a small exit is a small change.
BufferedExits(want, current) == IF Abs(want - current) >= Buffer THEN want ELSE current

Buffered(want, current) ==
    IF want = 0 \/ Abs(want - current) >= Buffer THEN want ELSE current

-----------------------------------------------------------------------------
BacktestInit ==
    /\ Init
    /\ bar = 0 /\ step = "signal"
    /\ position = 0 /\ score = 0
    /\ shares = <<IndeterminateScale \div 2, IndeterminateScale \div 2>>
    /\ raw = 0 /\ gated = 0 /\ buffered = 0 /\ desired = 0
    /\ account = Start
    /\ quiet = 0

Refits == bar >= Window /\ (bar - Window) % RefitEvery = 0

\* The bar's signals and the target they leave for the next bar, and the mark
\* of the risk manager.  No edge is expected of a conviction of zero.
SignalBar(x, momentum, z, life, vol, pays) ==
    /\ step = "signal" /\ bar < Length
    /\ score' = z
    /\ position' = NextPosition(position, z, Tradeable(life))
    /\ shares' = IF Refits THEN RegimeWeights(Regime(x), Confidence(x)) ELSE shares
    /\ raw' = RawTarget(Blend(momentum, position'), vol)
    /\ pays => Blend(momentum, position') # 0
    /\ gated' = Gated(raw', gated, pays)
    /\ buffered' = Buffered(gated', buffered)
    /\ desired' = buffered
    /\ quiet' = IF raw' = 0 THEN Smaller(quiet + 1, Length) ELSE 0
    /\ UpdateEquity(account, bar \div BarsPerDay)
    /\ step' = "trade"
    /\ UNCHANGED <<bar, account>>

\* The weight the risk manager permits earns the bar's return.
TradeBar(r) ==
    /\ step = "trade"
    /\ Apply(desired)
    /\ account' = account + (account * weight' * r) \div (100 * MaxGross)
                          - (account * Abs(weight' - weight) * CostPct) \div (100 * MaxGross)
    /\ bar' = bar + 1 /\ step' = "signal"
    /\ UNCHANGED <<position, score, shares, raw, gated, buffered, desired, quiet>>

BacktestNext ==
    \/ \E x \in Statistics, momentum \in Convictions, z \in Scores, life \in HalfLives,
          vol \in VolScalars, pays \in BOOLEAN : SignalBar(x, momentum, z, life, vol, pays)
    \/ \E r \in Returns : TradeBar(r)

BacktestSpec == BacktestInit /\ [][BacktestNext]_<<riskVars, backtestVars>>

-----------------------------------------------------------------------------
\* Bars the change limit needs to take the largest weight to zero.
StepsToFlat == (MaxGross + MaxChange - 1) \div MaxChange

\* An exit goes through the gate, the buffer, the lag and the change limit:
\* that many bars after the strategies want nothing, nothing is held
\* (sizing.py: "An exit must not be blocked", "Always honour a full exit").
ExitsGoThrough ==
    (step = "signal" /\ quiet > StepsToFlat + 1) => weight = 0

\* VIOLATED: a gated position is never on the other side of what the strategies
\* want (apply_edge_gate: "Reductions are always allowed. An exit must not be
\* blocked because closing the position is not independently profitable").
\* A reversal that does not pay keeps the whole old position.
NeverHeldAgainst == gated * raw >= 0

\* VIOLATED: the reversion strategy is on the side that a return to the mean
\* pays (mean_reversion.py: "Fade the deviation: short a high z, long a low
\* one").  A score that jumps over the exit keeps the position it has.
FadesTheDeviation == position * score <= 0
=============================================================================
