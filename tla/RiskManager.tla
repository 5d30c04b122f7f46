------------------------------ MODULE RiskManager ------------------------------
(***************************************************************************)
(* The account-level risk gate of src/src/godalgo/risk/limits.py:          *)
(* RiskManager.update_equity, apply and reset_day.                         *)
(*                                                                         *)
(* Money is an integer number of currency units and a weight an integer    *)
(* number of steps of equity; the percentages of RiskLimits are integers.  *)
(* The loss counter saturates at MaxLosses, the only value the code        *)
(* compares it with.                                                       *)
(***************************************************************************)
EXTENDS Integers

CONSTANTS
  Start,          \* the 1.0 that equity, peak and day start begin at
  Equities,       \* account marks; 0 stands for a non-finite or non-positive one
  Weights,        \* weights the strategies may request
  MaxGross,       \* RiskLimits.max_gross_weight
  MaxChange,      \* RiskLimits.max_position_change
  MaxLosses,      \* RiskLimits.max_consecutive_losses
  DailyLossPct,   \* RiskLimits.daily_loss_limit
  DrawdownPct,    \* RiskLimits.max_drawdown_limit
  DeriskPct,      \* RiskLimits.consecutive_loss_derisk
  MaxDay          \* bound: the last UTC day of a behaviour

\* What RiskLimits.__post_init__ accepts, and the sign of the money marks.
ASSUME LimitsAssumption ==
  /\ Start \in Nat \ {0}
  /\ Equities \subseteq Nat
  /\ Weights \subseteq Int
  /\ MaxGross \in Nat \ {0}
  /\ MaxChange \in 1..(2 * MaxGross)
  /\ MaxLosses \in Nat \ {0}
  /\ DailyLossPct \in 1..99
  /\ DrawdownPct \in 1..99
  /\ DeriskPct \in 0..100
  /\ MaxDay \in Nat

VARIABLES
  equity,         \* last good mark
  peak,           \* peak_equity
  dayStart,       \* day_start_equity
  day,            \* current_day, -1 for None
  losses,         \* consecutive_losses
  halted,
  reason,         \* halt_reason
  weight,         \* current_weight: the last weight this gate permitted
  decision        \* the RiskDecision returned by the last apply

riskVars == <<equity, peak, dayStart, day, losses, halted, reason, weight, decision>>

Reasons == {"none", "equity", "drawdown", "daily loss"}
Limits == {"kill_switch", "consecutive_losses", "max_gross_weight", "max_position_change"}

Abs(n) == IF n < 0 THEN -n ELSE n
Larger(m, n) == IF m < n THEN n ELSE m
Clip(n, bound) == IF n > bound THEN bound ELSE IF n < -bound THEN -bound ELSE n
Smaller(m, n) == IF m < n THEN m ELSE n

\* The fractional fall from "from" to "to" is at least pct percent.
Fell(from, to, pct) == (from - to) * 100 >= pct * from

Init ==
  /\ equity = Start /\ peak = Start /\ dayStart = Start
  /\ day = -1
  /\ losses = 0
  /\ halted = FALSE /\ reason = "none"
  /\ weight = 0
  /\ decision = [weight |-> 0, requested |-> 0, binding |-> {}]

\* The first reason sticks: a later one is dropped while halted.
Halt(r) ==
  /\ halted' = TRUE
  /\ reason' = IF halted THEN reason ELSE r

BadMark ==
  /\ Halt("equity")
  /\ UNCHANGED <<equity, peak, dayStart, day, losses, weight, decision>>

NewPeak(e) == Larger(peak, e)
NewDayStart(e, d) == IF d # day THEN e ELSE dayStart
NewLosses(e) ==
  IF e < equity THEN Smaller(losses + 1, MaxLosses)
  ELSE IF e > equity THEN 0 ELSE losses

\* Mutant of GoodMark: the limits are only tested on a losing mark.
GoodMarkTestsLosers(e, d) ==
  /\ day' = d
  /\ dayStart' = NewDayStart(e, d)
  /\ equity' = e
  /\ peak' = NewPeak(e)
  /\ losses' = NewLosses(e)
  /\ IF e >= equity THEN UNCHANGED <<halted, reason>>
     ELSE IF Fell(NewPeak(e), e, DrawdownPct) THEN Halt("drawdown")
     ELSE IF Fell(NewDayStart(e, d), e, DailyLossPct) THEN Halt("daily loss")
     ELSE UNCHANGED <<halted, reason>>
  /\ UNCHANGED <<weight, decision>>

GoodMark(e, d) ==
  /\ day' = d
  /\ dayStart' = NewDayStart(e, d)
  /\ equity' = e
  /\ peak' = NewPeak(e)
  /\ losses' = NewLosses(e)
  /\ IF Fell(NewPeak(e), e, DrawdownPct) THEN Halt("drawdown")
     ELSE IF Fell(NewDayStart(e, d), e, DailyLossPct) THEN Halt("daily loss")
     ELSE UNCHANGED <<halted, reason>>
  /\ UNCHANGED <<weight, decision>>

\* One mark per bar; the clock of the marks never runs backwards.
UpdateEquity(e, d) ==
  /\ d >= day
  /\ \/ e <= 0 /\ BadMark
     \/ e > 0 /\ GoodMark(e, d)

Derisked(w) == IF losses >= MaxLosses THEN (w * DeriskPct) \div 100 ELSE w

Capped(w) == Clip(Derisked(w), MaxGross)

\* Mutant of Stepped: an exit is exempt from the change limit.
SteppedUnlessExit(w) == IF w = 0 THEN 0 ELSE weight + Clip(w - weight, MaxChange)

\* The per-bar change limit, measured from the weight permitted last time.
Stepped(w) == weight + Clip(w - weight, MaxChange)

\* The limits named in the decision.
Binding(w) ==
  {l \in Limits \ {"kill_switch"} :
     CASE l = "consecutive_losses"  -> losses >= MaxLosses
       [] l = "max_gross_weight"    -> Capped(w) # Derisked(w)
       [] l = "max_position_change" -> Stepped(Capped(w)) # Capped(w)}

Decide(w) ==
  IF halted THEN [weight |-> 0, requested |-> w, binding |-> {"kill_switch"}]
  ELSE [weight |-> Stepped(Capped(w)), requested |-> w, binding |-> Binding(w)]

Apply(w) ==
  /\ decision' = Decide(w)
  /\ weight' = Decide(w).weight
  /\ UNCHANGED <<equity, peak, dayStart, day, losses, halted, reason>>

\* Mutant of ResetDay: every halt is cleared.
ResetDayClearsAll ==
  /\ halted' = FALSE /\ reason' = "none"
  /\ dayStart' = equity
  /\ losses' = 0
  /\ UNCHANGED <<equity, peak, day, weight, decision>>

ResetDay ==
  /\ halted' = (halted /\ reason # "daily loss")
  /\ reason' = IF reason = "daily loss" THEN "none" ELSE reason
  /\ dayStart' = equity
  /\ losses' = 0
  /\ UNCHANGED <<equity, peak, day, weight, decision>>

Next ==
  \/ \E e \in Equities, d \in 0..MaxDay : UpdateEquity(e, d)
  \/ \E w \in Weights : Apply(w)
  \/ ResetDay

Spec == Init /\ [][Next]_riskVars

--------------------------------------------------------------------------------

\* Every field stays in its range; what the two records can hold.
TypeOK ==
  /\ equity \in Nat \ {0} /\ peak \in Nat \ {0} /\ dayStart \in Nat \ {0}
  /\ day \in -1..MaxDay
  /\ losses \in 0..MaxLosses
  /\ halted \in BOOLEAN
  /\ reason \in Reasons
  /\ weight \in Int
  /\ decision \in [weight : Int, requested : Int, binding : SUBSET Limits]

\* The gate never permits more than max_gross_weight, whatever was asked of it,
\* whatever the losses and whichever limits bound before.
WeightWithinGross == Abs(weight) <= MaxGross

\* One call of apply moves the permitted weight by at most max_position_change,
\* unless the kill switch takes it to zero.
ChangeBounded ==
  [][Abs(weight' - weight) <= MaxChange \/ (halted /\ weight' = 0)]_riskVars

\* A halt and its reason go together, and a drawdown halt outlives every later
\* mark, day and reset_day.
DrawdownHaltPermanent ==
  [][(halted /\ reason = "drawdown") => (halted' /\ reason' = "drawdown")]_riskVars

\* The high-water mark covers every mark and is never reset by a new day, so a
\* slow bleed cannot hide behind the daily budget.
PeakNeverFalls == [][peak' >= peak /\ peak' >= equity']_riskVars

\* A mark that breaches either loss limit leaves the manager halted at once,
\* whatever day it falls on and whatever was cleared before.
BreachHaltsAtOnce ==
  [][equity' # equity => \/ halted'
                         \/ /\ ~Fell(peak', equity', DrawdownPct)
                            /\ ~Fell(dayStart', equity', DailyLossPct)]_riskVars

\* The only way back from a halt is reset_day, and only from a daily-loss halt.
OnlyDailyLossIsCleared ==
  [][(halted /\ ~halted') => (reason = "daily loss" /\ dayStart' = equity)]_riskVars

\* VIOLATED: The statement of the module's docstring that a limit can only ever reduce
\* exposure: no decision is larger than the request it answers.
OnlyReduces == Abs(decision.weight) <= Abs(decision.requested)

================================================================================
