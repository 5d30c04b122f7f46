------------------------------- MODULE MCRisk -------------------------------
(***************************************************************************)
(* Model checking of what decides a position: the account limits inside a  *)
(* backtest of mean reversion, the limits alone, the stop of a position    *)
(* alone, and the live engine that wires limits and stop together.  focus  *)
(* picks the one that runs, the others stay in their initial state.        *)
(*                                                                         *)
(* Weights are twentieths of equity in the limits (gross 20) and the marks *)
(* straddle every limit: 97 is inside the daily limit of 100 and 93 is     *)
(* not, 79 is below the drawdown limit and 81 is not, 102 is a new peak    *)
(* and 0 a bad mark.  A stop has 20 ticks to an ATR step: initial 2.0,     *)
(* trail 2.5, break-even from 1.5 by 0.15, trailing from 2.0, and a target *)
(* of 3.0 ATR and a time stop of 3 bars so that every exit occurs.  In the *)
(* live engine a trade risks a tenth of the account, so that one step of   *)
(* ATR caps the weight below the gross limit.                              *)
(***************************************************************************)
EXTENDS BacktestRun, StopGuard

VARIABLE focus

mcVars == <<riskVars, backtestVars, stopVars, guardVars, focus>>

MCInit ==
  /\ BacktestInit /\ GuardInit
  /\ focus \in {"limits", "backtest", "stop", "guard"}

MCNext ==
  /\ UNCHANGED focus
  /\ \/ focus = "limits" /\ Next /\ UNCHANGED <<backtestVars, stopVars, guardVars>>
     \/ focus = "backtest" /\ BacktestNext /\ UNCHANGED <<stopVars, guardVars>>
     \/ focus = "stop" /\ StopNext /\ UNCHANGED <<riskVars, backtestVars, guardVars>>
     \/ focus = "guard" /\ GuardNext /\ UNCHANGED backtestVars

MCSpec == MCInit /\ [][MCNext]_mcVars

MCEquities == {0, 79, 81, 93, 97, 100, 102}
MCWeights == {-30, -10, 0, 20}

MCConvictions == {0, 100}
MCScores == {0, 250, -300, 450}
MCHalfLives == {-1, 20}
MCReturns == {-9, 0}

MCStatistics ==
  {[ratio |-> 130, z |-> 5000, hurst |-> 60, halfLife |-> -1, adf |-> -1],
   [ratio |-> 70, z |-> -2000, hurst |-> 52, halfLife |-> 40, adf |-> 2]}

MCPrices == {220, 260, 300, 330, 340, 355, 380, 440}
MCAtrs == {0, 1, 2}

MCAccount == {100, 79}
MCCloses == {260, 340}
MCRanges == {0, 1}
MCWants == {-20, 20}
MCResting == {0, 10}

================================================================================
