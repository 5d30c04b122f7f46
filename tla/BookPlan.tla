------------------------------- MODULE BookPlan -------------------------------
(***************************************************************************)
(* The portfolio book: portfolio/book.py turns the candidates into target  *)
(* weights, risk/settlement.py works out which of them the account can     *)
(* reach, and ui/book_state.py keeps the result.  Weights are integers, in *)
(* units of 1/Scale of the equity, and every division rounds down.         *)
(***************************************************************************)
EXTENDS Integers, FiniteSets, SequencesExt

CONSTANTS
    Equities,      \* the symbols that settle and count as day trades
    Crypto,        \* the symbols exempt from both
    Scale,         \* the weight 1.0
    MaxPosition, MaxSector, MaxGross, MaxNet, MinPosition,  \* BookLimits
    BandPct, BandAbs,          \* the no-trade band
    Ladder,                    \* [drawdown percent -> percent of gross kept]
    NewPct, FullDays,          \* the ramp on the forward record
    VolMaps,                   \* measured volatilities, divisors of VolUnit
    VolUnit,
    Directions,                \* signs of the convictions
    Scalars,                   \* percent of gross the volatility target allows
    Days,                      \* lengths of the forward record
    Holdings,                  \* weights a position may have drifted to
    Marks,                     \* percentages of the peak the equity may be at
    Accounts                   \* what the broker says is available

Symbols == Equities \cup Crypto

\* What BookLimits and DrawdownLadder hold, and what may be measured.
ASSUME BookAssumption ==
    /\ IsFiniteSet(Equities) /\ IsFiniteSet(Crypto) /\ Equities \cap Crypto = {}
    /\ Scale \in Nat /\ MaxPosition \in Nat /\ MaxSector \in Nat /\ MaxGross \in Nat
    /\ MaxNet \in Nat /\ MinPosition \in Nat /\ BandPct \in Nat /\ BandAbs \in Nat
    /\ DOMAIN Ladder \subseteq Nat /\ \A t \in DOMAIN Ladder : Ladder[t] \in 0 .. 100
    /\ NewPct \in 0 .. 100 /\ FullDays \in Nat /\ VolUnit \in Nat \ {0}
    /\ VolMaps \subseteq [Symbols -> 1 .. VolUnit]
    /\ Directions \subseteq [Symbols -> -1 .. 1]
    /\ Scalars \subseteq Nat /\ Days \subseteq Nat /\ Holdings \subseteq Int
    /\ Marks \subseteq 0 .. 100
    /\ \A a \in Accounts : a.cash \in Int /\ a.settled \in Int

VARIABLES
    drawdown,      \* percent below the peak
    held,          \* the weights the engines hold
    openedToday,   \* the symbols opened in this session
    asked,         \* the inputs of the last rebuild
    result,        \* BookManager.result: symbol -> weight, 0 for one it has no line of
    plan           \* BookManager.plan

bookVars == <<drawdown, held, openedToday, asked, result, plan>>

NoPlan == [reachable |-> [s \in {} |-> 0], deferred |-> {}, left |-> 0,
           constrained |-> FALSE, available |-> 0]

NotAsked == [vol |-> [s \in {} |-> 0]]

Abs(n) == IF n < 0 THEN -n ELSE n
Least(a, b) == IF a < b THEN a ELSE b
Most(a, b) == IF a > b THEN a ELSE b
Total(f) == MapThenSumSet(LAMBDA s : f[s], DOMAIN f)
Gross(f) == Total([s \in DOMAIN f |-> Abs(f[s])])

-----------------------------------------------------------------------------
\* allocate, one operator per numbered step.

InverseVol(vol) ==
    LET weight == [s \in DOMAIN vol |-> VolUnit \div vol[s]]
    IN  [s \in DOMAIN vol |-> (Scale * weight[s]) \div Total(weight)]

Scaled(w, pct) == [s \in DOMAIN w |-> (w[s] * pct) \div 100]

Ramp(days) == IF days < FullDays
              THEN NewPct + ((100 - NewPct) * days) \div FullDays ELSE 100

Ceiled(w, days) == [s \in DOMAIN w |-> (Least(w[s], MaxPosition) * Ramp(days)) \div 100]

SectorOf(s) == IF s \in Crypto THEN Crypto ELSE Equities

\* MUTANT: a sector ceiling that counts only the symbol itself.
SectorCappedAlone(w) == [s \in DOMAIN w |-> Least(w[s], MaxSector)]

SectorCapped(w) ==
    LET total(s) == Total(Restrict(w, SectorOf(s) \cap DOMAIN w))
    IN  [s \in DOMAIN w |-> IF total(s) > MaxSector
                            THEN (w[s] * MaxSector) \div total(s) ELSE w[s]]

NoDust(w) == [s \in DOMAIN w |-> IF w[s] < MinPosition THEN 0 ELSE w[s]]

GrossCapped(w) == IF Total(w) > MaxGross
                  THEN [s \in DOMAIN w |-> (w[s] * MaxGross) \div Total(w)] ELSE w

NetCapped(w) ==
    IF Abs(Total(w)) > MaxNet
    THEN [s \in DOMAIN w |-> IF w[s] < 0 THEN -(((-w[s]) * MaxNet) \div Abs(Total(w)))
                             ELSE (w[s] * MaxNet) \div Abs(Total(w))]
    ELSE w

\* Inside the band the position stays where it is.
Banded(w, current) ==
    [s \in DOMAIN w |->
        IF Abs(current[s] - w[s]) <= Most((Abs(w[s]) * BandPct) \div 100, BandAbs)
        THEN current[s] ELSE w[s]]

\* The rung of the ladder with the largest threshold reached.
Permitted(dd) ==
    LET reached == {t \in DOMAIN Ladder : dd >= t}
    IN  IF reached = {} THEN 100
        ELSE Ladder[CHOOSE t \in reached : \A u \in reached : u <= t]

Derisked(w, pct) == [s \in DOMAIN w |-> IF w[s] < 0 THEN -(((-w[s]) * pct) \div 100)
                                        ELSE (w[s] * pct) \div 100]

\* Every ceiling, on the weights before the band and the ladder.
Ceilings(w, in) ==
    LET sized == GrossCapped(NoDust(SectorCapped(Ceiled(w, in.days))))
    IN  NetCapped([s \in DOMAIN sized |-> in.dir[s] * sized[s]])

Sized(in) == Ceilings(Scaled(InverseVol(in.vol), in.scalar), in)

\* MUTANT: the ladder first, so the position ceilings give the cut back.
AllocateLadderFirst(in) ==
    IF Permitted(in.dd) = 100 THEN Banded(Sized(in), in.current)
    ELSE Ceilings(Derisked(Scaled(InverseVol(in.vol), in.scalar), Permitted(in.dd)), in)

Allocate(in) ==
    IF Permitted(in.dd) = 100 THEN Banded(Sized(in), in.current)
    ELSE Derisked(Sized(in), Permitted(in.dd))

\* The allocations of a book: no line for a weight of zero.
Lines(w) == Restrict(w, {s \in DOMAIN w : w[s] # 0})

-----------------------------------------------------------------------------
\* plan_rebalance.

Delta(targets, current, s) == targets[s] - current[s]

\* A leg that closes in the session it was opened in is a day trade.
DayTrade(targets, current, today, s) ==
    /\ s \in today \ Crypto
    /\ \/ Delta(targets, current, s) < 0
       \/ Delta(targets, current, s) > 0 /\ current[s] < 0

DayTrades(targets, current, today) ==
    Cardinality({s \in DOMAIN targets : DayTrade(targets, current, today, s)})

\* The legs put off: the cheapest of those opened today, one for every day
\* trade the budget lacks.
Deferred(targets, current, today, a) ==
    LET legs == SetToSortSeq((DOMAIN targets \cap today) \ Crypto,
                    LAMBDA s, t : Abs(Delta(targets, current, s)) < Abs(Delta(targets, current, t)))
        lacking == Most(0, DayTrades(targets, current, today) - a.left)
    IN  IF a.constrained
        THEN {legs[i] : i \in 1 .. Least(lacking, Len(legs))} ELSE {}

\* MUTANT: proceeds that have not settled are spent.
BuyingPowerUnsettled(a) == a.cash

BuyingPower(a) == IF a.margin THEN a.cash ELSE a.settled

Needed(reachable, current) ==
    Total([s \in DOMAIN reachable |-> Most(0, Delta(reachable, current, s))])

Funded(reachable, current, available) ==
    LET needed == Needed(reachable, current)
    IN  IF needed <= available \/ needed = 0 THEN reachable
        ELSE [s \in DOMAIN reachable |->
                IF Delta(reachable, current, s) > 0
                THEN current[s] + (Delta(reachable, current, s) * available) \div needed
                ELSE reachable[s]]

PlanRebalance(targets, current, today, a) ==
    LET deferred == Deferred(targets, current, today, a)
        kept == [s \in DOMAIN targets \ deferred |-> targets[s]]
    IN  [reachable |-> Funded(kept, current, BuyingPower(a)), deferred |-> deferred,
         left |-> a.left, constrained |-> a.constrained,
         available |-> IF a.margin THEN a.cash ELSE a.settled]

-----------------------------------------------------------------------------
BookInit ==
    /\ drawdown = 0
    /\ held = [s \in Symbols |-> 0]
    /\ openedToday = {}
    /\ asked = NotAsked
    /\ result = [s \in {} |-> 0]
    /\ plan = NoPlan

\* The equity moves against its peak.
Mark(pct) ==
    /\ asked = NotAsked
    /\ drawdown' = 100 - pct
    /\ UNCHANGED <<held, openedToday, asked, result, plan>>

\* An engine trades, or a price moves its weight.
Trade(s, w) ==
    /\ asked = NotAsked
    /\ held' = [held EXCEPT ![s] = w]
    /\ openedToday' = IF held[s] = 0 /\ w # 0 THEN openedToday \cup {s} ELSE openedToday
    /\ UNCHANGED <<drawdown, asked, result, plan>>

NextSession ==
    /\ asked = NotAsked /\ openedToday # {}
    /\ openedToday' = {}
    /\ UNCHANGED <<drawdown, held, asked, result, plan>>

\* rebuild: a new allocation and, when it is given an account, the part of it the
\* account can reach.  It names no symbol as opened today.
Rebuild(vol, dir, scalar, days, account) ==
    /\ asked = NotAsked
    /\ asked' = [vol |-> vol, dir |-> dir, scalar |-> scalar, days |-> days,
                 dd |-> drawdown, current |-> held, today |-> {}]
    /\ result' = Allocate(asked')
    /\ plan' \in IF account = {} THEN {plan}
                 ELSE {PlanRebalance(Lines(result'), held, {}, a) : a \in account}
    /\ UNCHANGED <<drawdown, held, openedToday>>

\* plan_rebalance of the same allocation, told what was opened today.
Replan(a) ==
    /\ asked # NotAsked /\ asked.today # openedToday
    /\ asked' = [asked EXCEPT !.today = openedToday]
    /\ plan' = PlanRebalance(Lines(result), held, openedToday, a)
    /\ UNCHANGED <<drawdown, held, openedToday, result>>

\* The second until the next rebuild is over.  Nothing is computed from a result
\* in between: the next rebuild replaces it.
Tick ==
    /\ asked # NotAsked
    /\ asked' = NotAsked
    /\ result' = [s \in {} |-> 0]
    /\ plan' = NoPlan
    /\ UNCHANGED <<drawdown, held, openedToday>>

BookNext ==
    \/ Tick
    \/ \E pct \in Marks : Mark(pct)
    \/ \E s \in Symbols, w \in Holdings : Trade(s, w)
    \/ NextSession
    \/ \E vol \in VolMaps, dir \in Directions,
          scalar \in Scalars, days \in Days,
          account \in {{}} \cup {{a} : a \in Accounts} :
            Rebuild(vol, dir, scalar, days, account)
    \/ \E a \in Accounts : Replan(a)

BookSpec == BookInit /\ [][BookNext]_bookVars

-----------------------------------------------------------------------------
HasBook == asked # NotAsked

\* Whatever binds first, no position exceeds its ceiling and no sector its own,
\* except a position the no-trade band left where it had drifted to
\* (BookLimits: "Hard bounds").
BookWithinLimits ==
    HasBook =>
        LET bound == {s \in Symbols : result[s] # asked.current[s]}
        IN  /\ \A s \in bound : Abs(result[s]) <= MaxPosition
            /\ \A s \in bound : (SectorOf(s) \subseteq bound) =>
                   Gross(Restrict(result, SectorOf(s))) <= MaxSector

\* In a drawdown the gross that lands is the ladder's fraction of what the same
\* inputs give without one (book.py: "so the ladder's number is the number that
\* lands").
DrawdownDelivers ==
    HasBook /\ Permitted(asked.dd) < 100 =>
        Gross(result) * 100 <= Permitted(asked.dd) * Gross(Sized(asked))

\* The increases of a plan never cost more than what may be spent today: what
\* is settled in a cash account (settlement.py: "proceeds from a sale are not
\* spendable until they settle").
PlanIsFunded ==
    HasBook /\ plan.available >= 0 =>
        Needed(plan.reachable, asked.current) <= plan.available

\* VIOLATED: after every deferral the plan needs no more day trades than are
\* left (settlement.py: "Defer the equity legs, cheapest first, until the plan
\* fits").  The legs put off are not those that are day trades.
PlanFitsBudget ==
    HasBook /\ plan.constrained =>
        DayTrades(plan.reachable, asked.current, asked.today) <= plan.left

\* VIOLATED: the gross of the book never exceeds its ceiling (book.py: "Hard
\* bounds. Limits, not preferences -- none of these is advisory").  The band
\* comes after the ceilings.
GrossIsHard == HasBook => Gross(result) <= MaxGross
=============================================================================
