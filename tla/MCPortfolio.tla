----------------------------- MODULE MCPortfolio -----------------------------
(***************************************************************************)
(* Model checking of what leads from market data to a plan and back to the *)
(* screen: the bars of a symbol, the scanner, the plan of the book, the    *)
(* day-trade budget and the positions shown.  The parts share nothing      *)
(* here: focus picks the one that runs, the others stay as they are in     *)
(* their initial state.                                                    *)
(***************************************************************************)
EXTENDS BookPlan, DayTrades, Scanner, Bars, Positions

VARIABLE focus

mcVars ==
  <<bookVars, dayTradeVars, scannerVars, barVars, positionVars, focus>>

MCInit ==
  /\ BookInit /\ DayTradesInit /\ ScannerInit /\ BarsInit /\ PositionsInit
  /\ focus \in {"book", "day trades", "scanner", "bars", "positions"}
  /\ focus # "day trades" => rich
  /\ focus # "bars" => venue = "ccxt"

MCNext ==
  /\ UNCHANGED focus
  /\ \/ /\ focus = "book" /\ BookNext
        /\ UNCHANGED <<dayTradeVars, scannerVars, barVars, positionVars>>
     \/ /\ focus = "day trades" /\ DayTradesNext
        /\ UNCHANGED <<bookVars, scannerVars, barVars, positionVars>>
     \/ /\ focus = "scanner" /\ ScannerNext
        /\ UNCHANGED <<bookVars, dayTradeVars, barVars, positionVars>>
     \/ /\ focus = "bars" /\ BarsNext
        /\ UNCHANGED <<bookVars, dayTradeVars, scannerVars, positionVars>>
     \/ /\ focus = "positions" /\ PositionsNext
        /\ UNCHANGED <<bookVars, dayTradeVars, scannerVars, barVars>>

MCSpec == MCInit /\ [][MCNext]_mcVars

\* Weights in thousandths, multipliers in percent: a book that is flat or already
\* long and short, a symbol whose volatility is a quarter of the others', and
\* drawdowns short of, on and past the steps of the ladder.
MCHoldings == {0, 240, -200}
MCLadder == 5 :> 75 @@ 10 :> 50 @@ 15 :> 0
MCVolMaps ==
  {[s \in Equities \cup Crypto |-> IF s = t THEN v ELSE 4] : t \in {"aapl", "btc"}, v \in {1, 4}}
MCDirections ==
  {[s \in Equities \cup Crypto |-> IF s = "msft" THEN d ELSE 1] : d \in {-1, 1}}
MCAccounts ==
  {[margin |-> m, cash |-> 400, settled |-> 100, left |-> 0, constrained |-> k] :
      m \in BOOLEAN, k \in BOOLEAN}

\* Four symbols of which up to three pairs are alike, one read failing two filters.
MCUniverse == <<"btc", "eth", "sol", "spy">>
MCReads ==
  {[score |-> 1, fails |-> {}], [score |-> 2, fails |-> {}],
   [score |-> 2, fails |-> {"illiquid", "weak regime"}]}
MCAlikes == {{}, {{"btc", "eth"}, {"eth", "sol"}}, {{"btc", "sol"}, {"btc", "spy"}}}

\* Quantities that open, scale in, reduce and turn a position over.
MCSizes == {-2, -1, 1, 2}

================================================================================
