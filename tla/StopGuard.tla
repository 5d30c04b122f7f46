------------------------------- MODULE StopGuard -------------------------------
(***************************************************************************)
(* How LiveEngine of execution/engine.py wires the stop of a position to   *)
(* the limits of the account: a bar marks the equity, advances the stop of *)
(* the position the engine believes in, sizes and limits the target, and   *)
(* routes the difference to what the venue reports.  The believed weight   *)
(* is read in the routing, before the order, and used on the next bar.     *)
(* StopManager and RiskManager are the modules of those names.  The engine *)
(* is alone: no portfolio clamps its target.                               *)
(***************************************************************************)
EXTENDS RiskManager, StopManager

CONSTANTS
  Account,         \* marks of the account a bar may find
  Closes, Ranges,  \* its close and its ATR, 0 for none
  Wants,           \* conviction times the volatility scalar, in steps
  RiskPer10k,      \* risk_per_trade
  RiskFloorPct,    \* derisk_floor
  Resting          \* weights that a resting order may leave when it fills

\* Marks, closes and ranges are among those that limits and stop allow for.
ASSUME GuardAssumption ==
  /\ Account \subseteq Equities /\ Closes \subseteq Prices /\ Ranges \subseteq Atrs
  /\ Wants \subseteq Int /\ Resting \subseteq Int
  /\ RiskPer10k \in Nat /\ RiskFloorPct \in 0..100

VARIABLES
  phase,           \* "bar", "decide" or "halted"
  held,            \* the position at the venue
  believed,        \* state.current_weight
  exposed,         \* history: decisions in a row that found the position on its side
  fired            \* history: the stop has fired and the position was not flat since

guardVars == <<phase, held, believed, exposed, fired>>

SideOf(w) == IF w > 0 THEN 1 ELSE IF w < 0 THEN -1 ELSE 0

GuardInit ==
  /\ Init /\ StopInit
  /\ phase = "bar" /\ held = 0 /\ believed = 0 /\ exposed = 0 /\ fired = FALSE

\* The equity is marked first, and a breach halts before any target is computed.
Marks(e) ==
  /\ phase = "bar"
  /\ UpdateEquity(e, 0)
  /\ phase' = IF halted' THEN "halted" ELSE "decide"
  /\ UNCHANGED <<stopVars, held, believed, exposed, fired>>

--------------------------------------------------------------------------------
\* _check_stop.

\* Mutant of Guarded: a stop is the position's, whichever way that points now.
GuardedByAny == Tracked

Guarded == Tracked /\ pos.side = SideOf(believed)

Unplaced == pos' = NoStop /\ exit' = "none" /\ UNCHANGED price

\* A flat book has no stop; a position without one of its own gets one, when the
\* ATR is known, and reports no exit on that bar.
CheckStop(p, a) ==
  \/ believed = 0 /\ Unplaced
  \/ believed # 0 /\ Guarded /\ Update(p, a)
  \/ believed # 0 /\ ~Guarded
     /\ IF a = 0 THEN Unplaced
        ELSE pos' = Placed(SideOf(believed), p, a) /\ price' = p /\ exit' = "none"

--------------------------------------------------------------------------------
\* _compute_target from the conviction on.

DrawdownPercent == ((peak - equity) * 100) \div peak

EffectiveRisk == (RiskPer10k * Larger(RiskFloorPct, 100 - 2 * DrawdownPercent)) \div 100

\* The weight whose stop, an initial distance away, costs one trade's risk.
RiskBasedSize(p, a) == (MaxGross * EffectiveRisk * p) \div (10000 * (InitialAtr * a))

\* Without an ATR, or without any risk to spend, there is no cap of this kind.
RiskCap(p, a) ==
  IF a = 0 \/ EffectiveRisk <= 0 THEN MaxGross ELSE RiskBasedSize(p, a)

Target(want, p, a) == Clip(want, Smaller(MaxGross, RiskCap(p, a)))

\* _route: the venue's position, then an order for the difference, filled or not.
Route(target) ==
  /\ believed' = held
  /\ held' \in {held, target}

\* on_bar_close after the mark; with no fresh book nothing is read or sent.
Decides(p, a, want, fresh) ==
  /\ phase = "decide" /\ phase' = "bar"
  /\ CheckStop(p, a)
  /\ Apply(IF exit' # "none" THEN 0 ELSE Target(want, p, a))
  /\ IF fresh THEN Route(weight') ELSE UNCHANGED <<held, believed>>
  /\ exposed' = IF fresh /\ a # 0 /\ held # 0 /\ SideOf(held') = SideOf(held)
                THEN Smaller(2, exposed + 1) ELSE 0
  /\ fired' = (held' # 0 /\ (fired \/ exit' # "none"))

\* The reconciliation of a bar finds another position than the one believed.
Drifts ==
  /\ phase = "decide" /\ held # believed
  /\ phase' = "halted"
  /\ UNCHANGED <<riskVars, stopVars, held, believed, exposed, fired>>

\* An order that rests fills between two bars.
LateFill(w) ==
  /\ phase = "bar" /\ held' = w
  /\ exposed' = IF SideOf(w) = SideOf(held) THEN exposed ELSE 0
  /\ fired' = (fired /\ w # 0)
  /\ UNCHANGED <<riskVars, stopVars, phase, believed>>

GuardNext ==
  \/ \E e \in Account : Marks(e)
  \/ \E p \in Closes, a \in Ranges, want \in Wants, fresh \in BOOLEAN :
        Decides(p, a, want, fresh)
  \/ Drifts
  \/ \E w \in Resting : LateFill(w)

GuardSpec == GuardInit /\ [][GuardNext]_<<riskVars, stopVars, guardVars>>

--------------------------------------------------------------------------------
\* A position that two decisions in a row have found at the venue has a stop on its
\* own side, however it came about: opened by an order, by one that rested, or
\* turned over without passing through flat ("that stop is not merely stale -- it
\* sits on the wrong side of the market and can never fire, leaving the new
\* position completely unprotected").
Protected ==
  phase = "bar" /\ exposed >= 2 => Tracked /\ pos.side = SideOf(held)

\* VIOLATED: the bar on which a stop fires does not add to the position ("A stop
\* that only applies when the strategy happens to agree is not a stop").  The
\* change limit starts from the weight permitted last, not from what is held.
FiringReduces ==
  [][phase = "decide" /\ exit' # "none" => Abs(held') <= Abs(held)]_guardVars

\* VIOLATED: a stop that has fired takes the position out: it only shrinks until
\* it is flat.  A limited exit is dropped when the next close is back inside.
FiringFinishes ==
  [][phase = "decide" /\ fired /\ fired' => Abs(held') <= Abs(held)]_guardVars
================================================================================
