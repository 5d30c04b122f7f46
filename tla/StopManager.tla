------------------------------ MODULE StopManager ------------------------------
(***************************************************************************)
(* The per-position stop of src/src/godalgo/risk/stops.py: StopManager     *)
(* open, update and close for one symbol.                                  *)
(*                                                                         *)
(* Prices are integers and an ATR is an integer number of ATR steps.  A    *)
(* distance of StopConfig is the integer number of price ticks in one ATR  *)
(* step times the multiple: with 20 ticks to a step the default 2.0 ATR is *)
(* 40 and the break-even offset of 0.15 ATR is 3.  The optional target and *)
(* time stop are 0 when the configuration leaves them None.  bars_held     *)
(* saturates at MaxBars, the only number it is compared with.              *)
(***************************************************************************)
EXTENDS Integers

CONSTANTS
  Prices,            \* closes a bar may have
  Atrs,              \* ATR readings; 0 stands for None, zero or a non-finite one
  InitialAtr, TrailAtr, BreakevenTrigger, BreakevenOffset, TrailActivate,
  TakeProfitAtr, MaxBars,
  NoStop             \* the symbol is not in StopManager.positions

\* What StopConfig.__post_init__ accepts.
ASSUME StopAssumption ==
  /\ Prices \subseteq Nat \ {0}
  /\ Atrs \subseteq Nat
  /\ InitialAtr \in Nat \ {0}
  /\ TrailAtr \in Nat \ {0}
  /\ BreakevenTrigger \in Nat \ {0}
  /\ TrailActivate \in Nat \ {0}
  /\ BreakevenOffset \in Nat
  /\ TakeProfitAtr \in Nat /\ (TakeProfitAtr = 0 \/ TakeProfitAtr > InitialAtr)
  /\ MaxBars \in Nat

Exits == {"initial_stop", "trailing_stop", "break_even", "take_profit", "time_stop"}

\* StopState; side is the sign of the position.
StopState ==
  [side : {-1, 1}, entry : Int, atr : Nat \ {0}, stop : Int, best : Int,
   held : 0..MaxBars, breakeven : BOOLEAN, trailing : BOOLEAN, target : Int]

\* A position without a stop record must not look like one.
ASSUME NoStopAssumption == NoStop \notin StopState

VARIABLES
  pos,               \* the tracked StopState, or NoStop
  price,             \* the close of the last bar that reached update or open
  exit               \* what the last update returned, "none" for None

stopVars == <<pos, price, exit>>

Tracked == pos # NoStop

\* Further in the position's favour by more than zero.
Beyond(side, a, b) == side * (a - b) > 0

StopInit == pos = NoStop /\ price = 0 /\ exit = "none"

Placed(side, p, a) ==
  [side |-> side, entry |-> p, atr |-> a,
   stop |-> p - side * (InitialAtr * a), best |-> p, held |-> 0,
   breakeven |-> FALSE, trailing |-> FALSE,
   target |-> IF TakeProfitAtr = 0 THEN 0 ELSE p + side * (TakeProfitAtr * a)]

\* Called for a position that has no stop yet; a bar without an ATR places none.
Open(side, p, a) ==
  /\ ~Tracked
  /\ a > 0
  /\ pos' = Placed(side, p, a)
  /\ price' = p
  /\ exit' = "none"

\* Mutant of Improves: a candidate that moves the stop away is taken as well.
ImprovesOrNot(s, candidate) == s.stop # candidate

\* The ratchet: only a strictly better stop is taken.
Improves(s, candidate) == Beyond(s.side, candidate, s.stop)

\* The bar is counted, the ATR refreshed and the best price ratcheted.
Marked(s, p, a) ==
  [s EXCEPT !.held = IF @ < MaxBars THEN @ + 1 ELSE @,
            !.atr  = IF a > 0 THEN a ELSE @,
            !.best = IF Beyond(s.side, p, @) THEN p ELSE @]

\* Favourable travel of at least m, in ticks per ATR step.
Travelled(s, p, m) == s.side * (p - s.entry) >= m * s.atr

\* Mutant of BrokenEven: the offset is added for shorts as it is for longs.
BrokenEvenLongOnly(s, p) ==
  LET level == s.entry + BreakevenOffset * s.atr
  IN IF ~s.breakeven /\ Travelled(s, p, BreakevenTrigger) /\ Improves(s, level)
     THEN [s EXCEPT !.stop = level, !.breakeven = TRUE] ELSE s

BrokenEven(s, p) ==
  LET level == s.entry + s.side * (BreakevenOffset * s.atr)
  IN IF ~s.breakeven /\ Travelled(s, p, BreakevenTrigger) /\ Improves(s, level)
     THEN [s EXCEPT !.stop = level, !.breakeven = TRUE] ELSE s

\* Trailing, once on, stays on.
Trailed(s, p) ==
  LET on    == s.trailing \/ Travelled(s, p, TrailActivate)
      level == s.best - s.side * (TrailAtr * s.atr)
  IN [s EXCEPT !.trailing = on, !.stop = IF on /\ Improves(s, level) THEN level ELSE @]

StopReason(s) ==
  IF s.trailing THEN "trailing_stop" ELSE IF s.breakeven THEN "break_even" ELSE "initial_stop"

ExitOf(s, p) ==
  IF ~Beyond(s.side, p, s.stop) THEN StopReason(s)
  ELSE IF TakeProfitAtr # 0 /\ ~Beyond(s.side, s.target, p) THEN "take_profit"
  ELSE IF MaxBars # 0 /\ s.held >= MaxBars THEN "time_stop"
  ELSE "none"

Advanced(s, p, a) == Trailed(BrokenEven(Marked(s, p, a), p), p)

Update(p, a) ==
  /\ Tracked
  /\ pos' = Advanced(pos, p, a)
  /\ price' = p
  /\ exit' = ExitOf(Advanced(pos, p, a), p)

Close ==
  /\ Tracked
  /\ pos' = NoStop
  /\ exit' = "none"
  /\ UNCHANGED price

StopNext ==
  \/ \E side \in {-1, 1}, p \in Prices, a \in Atrs : Open(side, p, a)
  \/ \E p \in Prices, a \in Atrs : Update(p, a)
  \/ Close

StopSpec == StopInit /\ [][StopNext]_stopVars

--------------------------------------------------------------------------------

\* The tracked record has the fields of StopState and the exit is a legal one.
StopTypeOK ==
  /\ Tracked => pos \in StopState
  /\ price \in Nat
  /\ exit \in Exits \cup {"none"}

\* The module's invariant: no update, in any order of closes and ATR readings,
\* moves a stop against its position, as long as that points the same way.
StopRatchets ==
  [][(Tracked /\ Tracked' /\ pos'.side = pos.side)
       => pos'.side * (pos'.stop - pos.stop) >= 0]_stopVars

\* "From here the position cannot lose money": once break-even is set the stop
\* is never again on the losing side of the entry.
BreakevenLocksIn ==
  (Tracked /\ pos.breakeven) => pos.side * (pos.stop - pos.entry) >= 0

\* The best price is a high-water mark: it covers the entry and the last close.
BestCoversPath ==
  Tracked => /\ pos.side * (pos.best - price) >= 0
             /\ pos.side * (pos.best - pos.entry) >= 0

================================================================================
