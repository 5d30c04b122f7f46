------------------------------ MODULE RiskProofs ------------------------------
(***************************************************************************)
(* Theorems about the risk limits and the stops: RiskManager, for every    *)
(* RiskLimits that passes its own validation and every set of marks and    *)
(* requests, StopManager, for every StopConfig that does and every sequence*)
(* of closes and ATR readings, StopGuard, the engine that keeps one stop   *)
(* for its position, and BacktestRun, whose engine may take new exposure   *)
(* or not but must always be let out.                                      *)
(***************************************************************************)
EXTENDS BacktestRun, StopGuard, TLAPS

(* RiskManager *)

\* Clip lands inside the band, and inside the band it changes nothing.
LEMMA ClipBounds ==
  ASSUME NEW n \in Int, NEW b \in Nat
  PROVE  /\ Clip(n, b) \in -b..b
         /\ n \in -b..b => Clip(n, b) = n
BY DEF Clip

\* De-risking yields a weight, whichever way the loss counter stands.
LEMMA DeriskedInt ==
  ASSUME NEW w \in Int
  PROVE  Derisked(w) \in Int
<1>1. DeriskPct \in Int
  BY LimitsAssumption
<1>2. w * DeriskPct \in Int
  BY <1>1
<1>3. (w * DeriskPct) \div 100 \in Int
  BY <1>2
<1>4. QED BY <1>3 DEF Derisked

\* The heart of the gate: starting inside the gross band, the permitted weight
\* is inside it again and at most MaxChange away, whatever is requested.
LEMMA SteppedBounds ==
  ASSUME NEW w \in Int, weight \in -MaxGross..MaxGross
  PROVE  /\ Stepped(Capped(w)) \in -MaxGross..MaxGross
         /\ Stepped(Capped(w)) - weight \in -MaxChange..MaxChange
<1>1. MaxGross \in Nat /\ MaxChange \in Nat
  BY LimitsAssumption
<1>2. Capped(w) \in -MaxGross..MaxGross
  BY <1>1, DeriskedInt, ClipBounds DEF Capped
<1> DEFINE c == Capped(w)
<1>3. c \in -MaxGross..MaxGross
  BY <1>2
<1> HIDE DEF c
<1>4. /\ weight + Clip(c - weight, MaxChange) \in -MaxGross..MaxGross
      /\ (weight + Clip(c - weight, MaxChange)) - weight \in -MaxChange..MaxChange
  BY <1>1, <1>3 DEF Clip
<1>5. QED BY <1>4 DEF Stepped, c

--------------------------------------------------------------------------------

\* The gross bound read as an interval, the form the arithmetic uses.
GrossBand == weight \in -MaxGross..MaxGross

\* What a step preserves: the types, the gross band, and the order of the peak
\* over the last mark.
RiskInv == TypeOK /\ GrossBand /\ peak >= equity

LEMMA RiskInit == Init => RiskInv
<1> SUFFICES ASSUME Init
             PROVE  RiskInv
  OBVIOUS
<1>1. decision \in [weight : Int, requested : Int, binding : SUBSET Limits]
  BY DEF Init
<1>2. /\ equity \in Nat \ {0} /\ peak \in Nat \ {0} /\ dayStart \in Nat \ {0}
      /\ peak >= equity
  BY LimitsAssumption DEF Init
<1>3. day \in -1..MaxDay /\ losses \in 0..MaxLosses /\ weight \in -MaxGross..MaxGross
  BY LimitsAssumption DEF Init
<1>4. halted \in BOOLEAN /\ reason \in Reasons
  BY DEF Init, Reasons
<1>5. QED
  BY <1>1, <1>2, <1>3, <1>4 DEF RiskInv, TypeOK, GrossBand

\* A new mark leaves the money positive, the counter in range and the peak on top.
LEMMA UpdateEquityStep ==
  ASSUME RiskInv, NEW e \in Equities, NEW d \in 0..MaxDay, UpdateEquity(e, d)
  PROVE  RiskInv' /\ peak' >= peak /\ peak' >= equity'
<1> USE LimitsAssumption
<1>1. CASE e <= 0 /\ BadMark
  <2>1. halted' \in BOOLEAN /\ reason' \in Reasons
    BY <1>1 DEF BadMark, Halt, RiskInv, TypeOK, Reasons
  <2>2. QED
    BY <1>1, <2>1 DEF BadMark, RiskInv, TypeOK, GrossBand
<1>2. CASE e > 0 /\ GoodMark(e, d)
  <2>1. e \in Nat \ {0}
    BY <1>2
  <2>2. NewPeak(e) \in Nat \ {0} /\ NewPeak(e) >= peak /\ NewPeak(e) >= e
    BY <2>1 DEF NewPeak, Larger, RiskInv, TypeOK
  <2>3. NewDayStart(e, d) \in Nat \ {0}
    BY <2>1 DEF NewDayStart, RiskInv, TypeOK
  <2>4. NewLosses(e) \in 0..MaxLosses
    BY <2>1 DEF NewLosses, Smaller, RiskInv, TypeOK
  <2>5. halted' \in BOOLEAN /\ reason' \in Reasons
    BY <1>2 DEF GoodMark, Halt, RiskInv, TypeOK, Reasons
  <2>6. /\ equity' = e /\ peak' = NewPeak(e) /\ dayStart' = NewDayStart(e, d)
        /\ day' = d /\ losses' = NewLosses(e)
        /\ weight' = weight /\ decision' = decision
    BY <1>2 DEF GoodMark
  <2>7. QED
    BY <2>1, <2>2, <2>3, <2>4, <2>5, <2>6 DEF RiskInv, TypeOK, GrossBand
<1>3. QED BY <1>1, <1>2 DEF UpdateEquity

\* A decision stays inside the gross band and inside the change limit.
LEMMA ApplyStep ==
  ASSUME RiskInv, NEW w \in Int, Apply(w)
  PROVE  /\ RiskInv'
         /\ (halted /\ weight' = 0) \/ weight' - weight \in -MaxChange..MaxChange
<1> USE LimitsAssumption
<1>1. w \in Int
  OBVIOUS
<1>2. CASE halted
  BY <1>1, <1>2 DEF Apply, Decide, RiskInv, TypeOK, GrossBand, Limits
<1>3. CASE ~halted
  <2>1. /\ decision' = [weight |-> Stepped(Capped(w)), requested |-> w, binding |-> Binding(w)]
        /\ weight' = Stepped(Capped(w))
    BY <1>3 DEF Apply, Decide
  <2>2. /\ Stepped(Capped(w)) \in -MaxGross..MaxGross
        /\ Stepped(Capped(w)) - weight \in -MaxChange..MaxChange
    BY <1>1, SteppedBounds DEF RiskInv, GrossBand
  <2>3. Binding(w) \in SUBSET Limits
    BY DEF Binding
  <2>4. decision' \in [weight : Int, requested : Int, binding : SUBSET Limits]
    BY <1>1, <2>1, <2>2, <2>3
  <2>5. QED
    BY <2>1, <2>2, <2>4 DEF Apply, RiskInv, TypeOK, GrossBand
<1>4. QED BY <1>2, <1>3

LEMMA ResetDayKeeps ==
  ASSUME ResetDay
  PROVE  /\ equity' = equity /\ peak' = peak /\ day' = day /\ weight' = weight
         /\ decision' = decision /\ dayStart' = equity /\ losses' = 0
BY Zenon DEF ResetDay

LEMMA ResetDayStep ==
  ASSUME RiskInv, ResetDay
  PROVE  RiskInv'
<1>0. halted' \in BOOLEAN
  BY Zenon DEF ResetDay
<1>1. reason' \in Reasons
  BY Zenon DEF ResetDay, RiskInv, TypeOK, Reasons
<1>2. losses' \in 0..MaxLosses
  BY LimitsAssumption, ResetDayKeeps
<1>3. QED
  BY <1>0, <1>1, <1>2, ResetDayKeeps DEF RiskInv, TypeOK, GrossBand

LEMMA RiskStep == RiskInv /\ [Next]_riskVars => RiskInv'
<1> SUFFICES ASSUME RiskInv, [Next]_riskVars
             PROVE  RiskInv'
  OBVIOUS
<1>1. CASE \E e \in Equities, d \in 0..MaxDay : UpdateEquity(e, d)
  BY <1>1, UpdateEquityStep
<1>2. CASE \E w \in Weights : Apply(w)
  BY <1>2, ApplyStep, LimitsAssumption
<1>3. CASE ResetDay
  BY <1>3, ResetDayStep
<1>4. CASE UNCHANGED riskVars
  BY <1>4 DEF riskVars, RiskInv, TypeOK, GrossBand
<1>5. QED BY <1>1, <1>2, <1>3, <1>4 DEF Next

LEMMA RiskInvariant == Spec => []RiskInv
BY RiskInit, RiskStep, PTL DEF Spec

\* Every field of RiskManager keeps its type in every session.
THEOREM RiskTypeCorrect == Spec => []TypeOK
<1>1. RiskInv => TypeOK
  BY DEF RiskInv
<1>2. QED BY RiskInvariant, <1>1, PTL

\* No sequence of marks, resets and requests makes the gate permit more than
\* max_gross_weight: it holds because the change limit moves the weight between
\* two points of the band.
THEOREM GrossNeverExceeded == Spec => []WeightWithinGross
<1>1. RiskInv => WeightWithinGross
  BY LimitsAssumption DEF RiskInv, GrossBand, WeightWithinGross, Abs
<1>2. QED BY RiskInvariant, <1>1, PTL

\* One call of apply never moves the permitted weight by more than
\* max_position_change, unless the kill switch takes it to zero.
THEOREM ChangeIsBounded == Spec => ChangeBounded
<1>1. RiskInv /\ [Next]_riskVars =>
        [Abs(weight' - weight) <= MaxChange \/ (halted /\ weight' = 0)]_riskVars
  <2> SUFFICES ASSUME RiskInv, Next
               PROVE  Abs(weight' - weight) <= MaxChange \/ (halted /\ weight' = 0)
    OBVIOUS
  <2>1. ASSUME weight' = weight
        PROVE  Abs(weight' - weight) <= MaxChange
    BY <2>1, LimitsAssumption DEF RiskInv, GrossBand, Abs
  <2>2. CASE \E e \in Equities, d \in 0..MaxDay : UpdateEquity(e, d)
    BY <2>1, <2>2 DEF UpdateEquity, BadMark, GoodMark
  <2>3. CASE \E w \in Weights : Apply(w)
    BY <2>3, ApplyStep, LimitsAssumption DEF Abs
  <2>4. CASE ResetDay
    BY <2>1, <2>4 DEF ResetDay
  <2>5. QED BY <2>2, <2>3, <2>4 DEF Next
<1>2. QED BY RiskInvariant, <1>1, PTL DEF Spec, ChangeBounded

\* A drawdown halt outlives every later mark, day, request and reset_day.
THEOREM DrawdownIsPermanent == Spec => DrawdownHaltPermanent
<1>1. [Next]_riskVars =>
        [(halted /\ reason = "drawdown") => (halted' /\ reason' = "drawdown")]_riskVars
  <2> SUFFICES ASSUME Next, halted, reason = "drawdown"
               PROVE  halted' /\ reason' = "drawdown"
    OBVIOUS
  <2>1. CASE \E e \in Equities, d \in 0..MaxDay : UpdateEquity(e, d)
    BY <2>1 DEF UpdateEquity, BadMark, GoodMark, Halt
  <2>2. CASE \E w \in Weights : Apply(w)
    BY <2>2 DEF Apply
  <2>3. CASE ResetDay
    BY <2>3 DEF ResetDay
  <2>4. QED BY <2>1, <2>2, <2>3 DEF Next
<1>2. QED BY <1>1, PTL DEF Spec, DrawdownHaltPermanent

\* The high-water mark never falls and always covers the latest mark, through
\* any number of day changes.
THEOREM PeakIsMonotone == Spec => PeakNeverFalls
<1>1. RiskInv /\ [Next]_riskVars => [peak' >= peak /\ peak' >= equity']_riskVars
  <2> SUFFICES ASSUME RiskInv, Next
               PROVE  peak' >= peak /\ peak' >= equity'
    OBVIOUS
  <2>1. CASE \E e \in Equities, d \in 0..MaxDay : UpdateEquity(e, d)
    BY <2>1, UpdateEquityStep
  <2>2. CASE \E w \in Weights : Apply(w)
    BY <2>2 DEF Apply, RiskInv, TypeOK
  <2>3. CASE ResetDay
    BY <2>3, ResetDayKeeps DEF RiskInv, TypeOK
  <2>4. QED BY <2>1, <2>2, <2>3 DEF Next
<1>2. QED BY RiskInvariant, <1>1, PTL DEF Spec, PeakNeverFalls

\* A mark at or past either limit leaves the manager halted in the same step,
\* whatever the day, the order of the marks and the halts before it.
THEOREM BreachesHalt == Spec => BreachHaltsAtOnce
<1>1. [Next]_riskVars =>
        [equity' # equity => \/ halted'
                             \/ /\ ~Fell(peak', equity', DrawdownPct)
                                /\ ~Fell(dayStart', equity', DailyLossPct)]_riskVars
  <2> SUFFICES ASSUME Next, equity' # equity, ~halted'
               PROVE  /\ ~Fell(peak', equity', DrawdownPct)
                      /\ ~Fell(dayStart', equity', DailyLossPct)
    OBVIOUS
  <2>1. PICK e \in Equities, d \in 0..MaxDay : UpdateEquity(e, d)
    BY DEF Next, Apply, ResetDay
  <2>2. GoodMark(e, d)
    BY <2>1 DEF UpdateEquity, BadMark, Halt
  <2>3. /\ equity' = e /\ peak' = NewPeak(e) /\ dayStart' = NewDayStart(e, d)
        /\ ~Fell(NewPeak(e), e, DrawdownPct)
        /\ ~Fell(NewDayStart(e, d), e, DailyLossPct)
    BY <2>2, Zenon DEF GoodMark, Halt
  <2>4. QED BY <2>3
<1>2. QED BY <1>1, PTL DEF Spec, BreachHaltsAtOnce

\* Only reset_day lifts a halt, only one of the daily loss, and the loss of the
\* day is then measured from the latest mark.
THEOREM OnlyDailyLossClears == Spec => OnlyDailyLossIsCleared
<1>1. [Next]_riskVars =>
        [(halted /\ ~halted') => (reason = "daily loss" /\ dayStart' = equity)]_riskVars
  <2> SUFFICES ASSUME Next, halted, ~halted'
               PROVE  reason = "daily loss" /\ dayStart' = equity
    OBVIOUS
  <2>1. CASE \E e \in Equities, d \in 0..MaxDay : UpdateEquity(e, d)
    BY <2>1, Zenon DEF UpdateEquity, BadMark, GoodMark, Halt
  <2>2. CASE \E w \in Weights : Apply(w)
    BY <2>2 DEF Apply
  <2>3. CASE ResetDay
    BY <2>3, Zenon DEF ResetDay
  <2>4. QED BY <2>1, <2>2, <2>3 DEF Next
<1>2. QED BY <1>1, PTL DEF Spec, OnlyDailyLossIsCleared

--------------------------------------------------------------------------------
(* StopManager and StopGuard *)

\* Multiples of the ATR are integers, and a positive multiple of a positive ATR
\* is positive.
LEMMA Multiple ==
  ASSUME NEW m \in Nat, NEW a \in Nat \ {0}
  PROVE  /\ m * a \in Nat
         /\ m # 0 => m * a > 0
OBVIOUS

LEMMA MarkedType ==
  ASSUME NEW s \in StopState, NEW p \in Nat, NEW a \in Nat
  PROVE  /\ Marked(s, p, a) \in StopState
         /\ Marked(s, p, a).side = s.side /\ Marked(s, p, a).entry = s.entry
         /\ Marked(s, p, a).stop = s.stop /\ Marked(s, p, a).breakeven = s.breakeven
         /\ s.side * (Marked(s, p, a).best - s.best) >= 0
         /\ s.side * (Marked(s, p, a).best - p) >= 0
<1> DEFINE h == IF s.held < MaxBars THEN s.held + 1 ELSE s.held
           t == IF a > 0 THEN a ELSE s.atr
           b == IF Beyond(s.side, p, s.best) THEN p ELSE s.best
<1>1. h \in 0..MaxBars /\ t \in Nat \ {0} /\ b \in Int
  BY StopAssumption DEF StopState
<1>2. s.side * (b - s.best) >= 0 /\ s.side * (b - p) >= 0
  <2>1. CASE s.side = 1
    BY <2>1 DEF StopState, Beyond
  <2>2. CASE s.side = -1
    BY <2>2 DEF StopState, Beyond
  <2>3. QED BY <2>1, <2>2 DEF StopState
<1>3. Marked(s, p, a) = [s EXCEPT !.held = h, !.atr = t, !.best = b]
  BY DEF Marked
<1> HIDE DEF h, t, b
<1>4. QED BY <1>1, <1>2, <1>3 DEF StopState

\* Moving to break-even keeps the type and never moves the stop backwards; a set
\* break-even puts it on the winning side of the entry.
LEMMA BrokenEvenMoves ==
  ASSUME NEW s \in StopState, NEW p \in Nat
  PROVE  /\ BrokenEven(s, p) \in StopState
         /\ BrokenEven(s, p).side = s.side /\ BrokenEven(s, p).entry = s.entry
         /\ BrokenEven(s, p).best = s.best /\ BrokenEven(s, p).atr = s.atr
         /\ s.side * (BrokenEven(s, p).stop - s.stop) >= 0
         /\ (BrokenEven(s, p).breakeven /\ ~s.breakeven)
              => s.side * (BrokenEven(s, p).stop - s.entry) >= 0
         /\ BrokenEven(s, p) # s =>
              /\ Travelled(s, p, BreakevenTrigger)
              /\ BrokenEven(s, p).stop = s.entry + s.side * (BreakevenOffset * s.atr)
<1> DEFINE k == BreakevenOffset * s.atr
           level == s.entry + s.side * k
<1>1. k \in Nat
  BY StopAssumption, Multiple DEF StopState
<1>2. CASE ~s.breakeven /\ Travelled(s, p, BreakevenTrigger) /\ Improves(s, level)
  <2>1. BrokenEven(s, p) = [s EXCEPT !.stop = level, !.breakeven = TRUE]
    BY <1>2 DEF BrokenEven
  <2> HIDE DEF k
  <2>2. level \in Int /\ s.side * (level - s.entry) >= 0 /\ s.side * (level - s.stop) >= 0
    <3>1. CASE s.side = 1
      BY <1>1, <1>2, <3>1 DEF StopState, Improves, Beyond
    <3>2. CASE s.side = -1
      BY <1>1, <1>2, <3>2 DEF StopState, Improves, Beyond
    <3>3. QED BY <3>1, <3>2 DEF StopState
  <2> HIDE DEF level
  <2>3. /\ BrokenEven(s, p) \in StopState
        /\ BrokenEven(s, p).side = s.side /\ BrokenEven(s, p).entry = s.entry
        /\ BrokenEven(s, p).best = s.best /\ BrokenEven(s, p).atr = s.atr
        /\ BrokenEven(s, p).stop = level
    BY <2>1, <2>2 DEF StopState
  <2>4. QED BY <1>2, <2>2, <2>3 DEF level, k
<1>3. CASE ~(~s.breakeven /\ Travelled(s, p, BreakevenTrigger) /\ Improves(s, level))
  <2>1. BrokenEven(s, p) = s
    BY <1>3 DEF BrokenEven
  <2>2. s.side * (s.stop - s.stop) >= 0
    BY DEF StopState
  <2>3. QED BY <2>1, <2>2
<1>4. QED BY <1>2, <1>3

\* Trailing keeps the type, never moves the stop backwards and, when it moves
\* it, puts it strictly behind the best price.
LEMMA TrailedMoves ==
  ASSUME NEW s \in StopState, NEW p \in Nat
  PROVE  /\ Trailed(s, p) \in StopState
         /\ Trailed(s, p).side = s.side /\ Trailed(s, p).entry = s.entry
         /\ Trailed(s, p).best = s.best /\ Trailed(s, p).breakeven = s.breakeven
         /\ s.side * (Trailed(s, p).stop - s.stop) >= 0
         /\ Trailed(s, p).stop # s.stop => s.side * (s.best - Trailed(s, p).stop) > 0
<1> DEFINE k == TrailAtr * s.atr
           on == s.trailing \/ Travelled(s, p, TrailActivate)
           level == s.best - s.side * k
           new == IF on /\ Improves(s, level) THEN level ELSE s.stop
<1>1. k \in Nat /\ k > 0
  BY StopAssumption, Multiple DEF StopState
<1>2. Trailed(s, p) = [s EXCEPT !.trailing = on, !.stop = new]
  BY DEF Trailed
<1>3. on \in BOOLEAN
  BY DEF StopState, Travelled
<1> HIDE DEF k, on
<1>4. /\ new \in Int
      /\ s.side * (new - s.stop) >= 0
      /\ new # s.stop => s.side * (s.best - new) > 0
  <2>1. CASE s.side = 1
    BY <1>1, <2>1 DEF StopState, Improves, Beyond
  <2>2. CASE s.side = -1
    BY <1>1, <2>2 DEF StopState, Improves, Beyond
  <2>3. QED BY <2>1, <2>2 DEF StopState
<1> HIDE DEF new
<1>5. QED BY <1>2, <1>3, <1>4 DEF StopState

--------------------------------------------------------------------------------

\* One update taken as a whole.
LEMMA AdvancedMoves ==
  ASSUME NEW s \in StopState, NEW p \in Nat, NEW a \in Nat
  PROVE  /\ Advanced(s, p, a) \in StopState
         /\ Advanced(s, p, a).side = s.side /\ Advanced(s, p, a).entry = s.entry
         /\ s.side * (Advanced(s, p, a).stop - s.stop) >= 0
         /\ s.side * (Advanced(s, p, a).best - s.best) >= 0
         /\ s.side * (Advanced(s, p, a).best - p) >= 0
         /\ (s.breakeven => s.side * (s.stop - s.entry) >= 0)
              => (Advanced(s, p, a).breakeven
                    => s.side * (Advanced(s, p, a).stop - s.entry) >= 0)
<1> DEFINE m == Marked(s, p, a)
           b == BrokenEven(m, p)
           t == Trailed(b, p)
<1>1. /\ m \in StopState /\ m.side = s.side /\ m.entry = s.entry /\ m.stop = s.stop
      /\ m.breakeven = s.breakeven
      /\ s.side * (m.best - s.best) >= 0 /\ s.side * (m.best - p) >= 0
  BY MarkedType
<1> HIDE DEF m
<1>2. /\ b \in StopState /\ b.side = m.side /\ b.entry = m.entry /\ b.best = m.best
      /\ m.side * (b.stop - m.stop) >= 0
      /\ (b.breakeven /\ ~m.breakeven) => m.side * (b.stop - m.entry) >= 0
  BY <1>1, BrokenEvenMoves
<1> HIDE DEF b
<1>3. /\ t \in StopState /\ t.side = b.side /\ t.entry = b.entry /\ t.best = b.best
      /\ t.breakeven = b.breakeven
      /\ b.side * (t.stop - b.stop) >= 0
  BY <1>2, TrailedMoves
<1> HIDE DEF t
<1>4. s.side * (t.stop - s.stop) >= 0
  BY <1>1, <1>2, <1>3 DEF StopState
<1>5. ASSUME s.breakeven => s.side * (s.stop - s.entry) >= 0, t.breakeven
      PROVE  s.side * (t.stop - s.entry) >= 0
  <2>1. CASE s.breakeven
    BY <1>1, <1>4, <1>5, <2>1, <1>3 DEF StopState
  <2>2. CASE ~s.breakeven
    BY <1>1, <1>2, <1>3, <1>5, <2>2 DEF StopState
  <2>3. QED BY <2>1, <2>2
<1>6. Advanced(s, p, a) = t
  BY DEF Advanced, t, b, m
<1>7. QED BY <1>1, <1>2, <1>3, <1>4, <1>5, <1>6

--------------------------------------------------------------------------------

\* What every step preserves: types, the break-even guarantee and the high-water
\* mark.
StopInv == StopTypeOK /\ BreakevenLocksIn /\ BestCoversPath

LEMMA StopInitially == StopInit => StopInv
BY NoStopAssumption DEF StopInit, StopInv, StopTypeOK, BreakevenLocksIn, BestCoversPath, Tracked

\* The record that open places.
LEMMA PlacedType ==
  ASSUME NEW side \in {-1, 1}, NEW p \in Prices, NEW a \in Nat \ {0}
  PROVE  Placed(side, p, a) \in StopState
<1>1. InitialAtr * a \in Nat /\ TakeProfitAtr * a \in Nat /\ p \in Nat
  BY StopAssumption, Multiple
<1>2. side * (InitialAtr * a) \in Int /\ side * (TakeProfitAtr * a) \in Int
  BY <1>1
<1>3. /\ p - side * (InitialAtr * a) \in Int
      /\ (IF TakeProfitAtr = 0 THEN 0 ELSE p + side * (TakeProfitAtr * a)) \in Int
      /\ 0 \in 0..MaxBars
  BY <1>1, <1>2, StopAssumption
<1>4. QED BY <1>1, <1>3 DEF Placed, StopState

LEMMA OpenStep ==
  ASSUME NEW side \in {-1, 1}, NEW p \in Prices, NEW a \in Atrs, Open(side, p, a)
  PROVE  StopInv'
<1>1. p \in Nat /\ a \in Nat \ {0}
  BY StopAssumption DEF Open
<1>2. pos' = Placed(side, p, a) /\ price' = p /\ exit' = "none"
  BY DEF Open
<1>3. Placed(side, p, a) \in StopState
  BY <1>1, PlacedType
<1>4. /\ Placed(side, p, a).side = side /\ Placed(side, p, a).best = p
      /\ Placed(side, p, a).entry = p /\ Placed(side, p, a).breakeven = FALSE
  BY DEF Placed
<1>5. side * (p - p) >= 0
  BY <1>1
<1>6. QED
  BY <1>1, <1>2, <1>3, <1>4, <1>5 DEF StopInv, StopTypeOK, BreakevenLocksIn, BestCoversPath

LEMMA UpdateStep ==
  ASSUME StopInv, NEW p \in Prices, NEW a \in Atrs, Update(p, a)
  PROVE  /\ StopInv'
         /\ pos'.side * (pos'.stop - pos.stop) >= 0
<1>1. p \in Nat /\ a \in Nat /\ pos \in StopState
  BY StopAssumption DEF Update, StopInv, StopTypeOK
<1>2. pos' = Advanced(pos, p, a) /\ price' = p
  BY DEF Update
<1>3. exit' \in Exits \cup {"none"}
  BY DEF Update, ExitOf, StopReason, Exits
<1>4. pos.breakeven => pos.side * (pos.stop - pos.entry) >= 0
  BY DEF Update, StopInv, BreakevenLocksIn
<1>5. pos.side * (pos.best - pos.entry) >= 0
  BY DEF Update, StopInv, BestCoversPath
<1>6. /\ pos' \in StopState /\ pos'.side = pos.side /\ pos'.entry = pos.entry
      /\ pos.side * (pos'.stop - pos.stop) >= 0
      /\ pos.side * (pos'.best - pos.best) >= 0 /\ pos.side * (pos'.best - p) >= 0
      /\ pos'.breakeven => pos.side * (pos'.stop - pos.entry) >= 0
  BY <1>1, <1>2, <1>4, AdvancedMoves
<1>7. pos.side * (pos'.best - pos.entry) >= 0
  BY <1>1, <1>5, <1>6 DEF StopState
<1>8. QED
  BY <1>1, <1>2, <1>3, <1>6, <1>7 DEF StopInv, StopTypeOK, BreakevenLocksIn, BestCoversPath

LEMMA CloseStep ==
  ASSUME StopInv, Close
  PROVE  StopInv'
BY DEF Close, StopInv, StopTypeOK, BreakevenLocksIn, BestCoversPath, Tracked

LEMMA StopStep == StopInv /\ [StopNext]_stopVars => StopInv'
<1> SUFFICES ASSUME StopInv, [StopNext]_stopVars
             PROVE  StopInv'
  OBVIOUS
<1>1. CASE \E side \in {-1, 1}, p \in Prices, a \in Atrs : Open(side, p, a)
  BY <1>1, OpenStep
<1>2. CASE \E p \in Prices, a \in Atrs : Update(p, a)
  BY <1>2, UpdateStep
<1>3. CASE Close
  BY <1>3, CloseStep
<1>4. CASE UNCHANGED stopVars
  BY <1>4 DEF stopVars, StopInv, StopTypeOK, BreakevenLocksIn, BestCoversPath, Tracked
<1>5. QED BY <1>1, <1>2, <1>3, <1>4 DEF StopNext

LEMMA StopInvariant == StopSpec => []StopInv
BY StopInitially, StopStep, PTL DEF StopSpec

\* The tracked record is always a well-formed StopState.
THEOREM StopTypeCorrect == StopSpec => []StopTypeOK
<1>1. StopInv => StopTypeOK
  BY DEF StopInv
<1>2. QED BY StopInvariant, <1>1, PTL

\* Once break-even is set the stop never returns to the losing side of the entry.
THEOREM BreakevenNeverLost == StopSpec => []BreakevenLocksIn
<1>1. StopInv => BreakevenLocksIn
  BY DEF StopInv
<1>2. QED BY StopInvariant, <1>1, PTL

\* The best price covers the entry and the last close in every session.
THEOREM BestIsHighWater == StopSpec => []BestCoversPath
<1>1. StopInv => BestCoversPath
  BY DEF StopInv
<1>2. QED BY StopInvariant, <1>1, PTL

\* The ratchet: for every configuration, price path and ATR path, a tracked stop
\* never moves against its position.
THEOREM RatchetHolds == StopSpec => StopRatchets
<1>1. StopInv /\ [StopNext]_stopVars =>
        [(Tracked /\ Tracked' /\ pos'.side = pos.side)
           => pos'.side * (pos'.stop - pos.stop) >= 0]_stopVars
  <2> SUFFICES ASSUME StopInv, StopNext, Tracked, Tracked', pos'.side = pos.side
               PROVE  pos'.side * (pos'.stop - pos.stop) >= 0
    OBVIOUS
  <2>1. CASE \E side \in {-1, 1}, p \in Prices, a \in Atrs : Open(side, p, a)
    BY <2>1 DEF Open
  <2>2. CASE \E p \in Prices, a \in Atrs : Update(p, a)
    BY <2>2, UpdateStep
  <2>3. CASE Close
    BY <2>3 DEF Close, Tracked
  <2>4. QED BY <2>1, <2>2, <2>3 DEF StopNext
<1>2. QED BY StopInvariant, <1>1, PTL DEF StopSpec, StopRatchets

--------------------------------------------------------------------------------
\* The engine of StopGuard.

\* What a decision asks of the limits is a weight, however it was sized.
LEMMA TargetType ==
  ASSUME RiskInv, NEW want \in Int, NEW p \in Prices, NEW a \in Atrs
  PROVE  Target(want, p, a) \in Int
<1> USE LimitsAssumption, StopAssumption, GuardAssumption
<1>1. DrawdownPercent \in Int
  BY DEF DrawdownPercent, RiskInv, TypeOK
<1>2. EffectiveRisk \in Int
  <2>1. Larger(RiskFloorPct, 100 - 2 * DrawdownPercent) \in Int
    BY <1>1 DEF Larger
  <2>2. RiskPer10k * Larger(RiskFloorPct, 100 - 2 * DrawdownPercent) \in Int
    BY <2>1
  <2>3. QED BY <2>2 DEF EffectiveRisk
<1>3. CASE a = 0
  BY <1>3 DEF Target, RiskCap, Clip, Smaller
<1>4. CASE a # 0
  <2>1. InitialAtr * a \in Nat /\ InitialAtr * a > 0
    BY <1>4, Multiple
  <2>2. MaxGross * EffectiveRisk * p \in Int
    BY <1>2
  <2>3. RiskBasedSize(p, a) \in Int
    BY <2>1, <2>2 DEF RiskBasedSize
  <2>4. QED BY <2>3 DEF Target, RiskCap, Clip, Smaller
<1>5. QED BY <1>3, <1>4

\* What every step of the engine keeps: its types, those of the limits and of the
\* stop, and that what it believes is on the side of what it has found before.
GuardInv ==
  /\ RiskInv
  /\ Tracked => pos \in StopState
  /\ held \in Int /\ believed \in Int /\ exposed \in 0..2
  /\ exposed >= 1 => believed # 0 /\ SideOf(believed) = SideOf(held)

\* Advancing the stop leaves one of the right type; and a position the engine
\* believes in leaves the bar with a stop on its side, if its ATR is known.
LEMMA CheckStopStep ==
  ASSUME Tracked => pos \in StopState, believed \in Int,
         NEW p \in Prices, NEW a \in Atrs, CheckStop(p, a)
  PROVE  /\ Tracked' => pos' \in StopState
         /\ a # 0 /\ believed # 0 => Tracked' /\ pos'.side = SideOf(believed)
<1> USE StopAssumption, NoStopAssumption
<1>1. CASE believed = 0 /\ Unplaced
  BY <1>1 DEF Unplaced, Tracked
<1>2. CASE believed # 0 /\ Guarded /\ Update(p, a)
  <2>1. pos \in StopState /\ pos.side = SideOf(believed) /\ pos' = Advanced(pos, p, a)
    BY <1>2 DEF Guarded, Update
  <2>2. pos' \in StopState /\ pos'.side = pos.side
    BY <2>1, AdvancedMoves
  <2>3. QED BY <2>1, <2>2 DEF Tracked
<1>3. CASE /\ believed # 0 /\ ~Guarded
           /\ IF a = 0 THEN Unplaced
              ELSE pos' = Placed(SideOf(believed), p, a) /\ price' = p /\ exit' = "none"
  <2>1. CASE a = 0
    BY <1>3, <2>1 DEF Unplaced, Tracked
  <2>2. CASE a # 0
    <3>1. SideOf(believed) \in {-1, 1}
      BY <1>3 DEF SideOf
    <3>2. pos' = Placed(SideOf(believed), p, a)
      BY <1>3, <2>2
    <3>3. pos' \in StopState
      BY <2>2, <3>1, <3>2, PlacedType
    <3>4. pos'.side = SideOf(believed)
      BY <3>2 DEF Placed
    <3>5. QED BY <3>3, <3>4 DEF Tracked
  <2>3. QED BY <2>1, <2>2
<1>4. QED BY <1>1, <1>2, <1>3 DEF CheckStop

LEMMA GuardInitially == GuardInit => GuardInv /\ Protected
<1> SUFFICES ASSUME GuardInit
             PROVE  GuardInv /\ Protected
  OBVIOUS
<1>1. RiskInv
  BY RiskInit DEF GuardInit
<1>2. ~Tracked /\ held = 0 /\ believed = 0 /\ exposed = 0
  BY DEF GuardInit, StopInit, Tracked
<1>3. QED BY <1>1, <1>2 DEF GuardInv, Protected

LEMMA DecidesStep ==
  ASSUME GuardInv, NEW p \in Closes, NEW a \in Ranges, NEW want \in Wants,
         NEW fresh \in BOOLEAN, Decides(p, a, want, fresh)
  PROVE  GuardInv' /\ Protected'
<1>0. p \in Prices /\ a \in Atrs /\ want \in Int
  BY GuardAssumption
<1>1. /\ Tracked' => pos' \in StopState
      /\ a # 0 /\ believed # 0 => Tracked' /\ pos'.side = SideOf(believed)
  BY <1>0, CheckStopStep DEF Decides, GuardInv
<1> DEFINE w == IF exit' # "none" THEN 0 ELSE Target(want, p, a)
<1>2. w \in Int
  BY <1>0, TargetType DEF GuardInv
<1>3. Apply(w)
  BY DEF Decides
<1> HIDE DEF w
<1>4. RiskInv' /\ weight' \in Int
  <2>1. RiskInv'
    BY <1>2, <1>3, ApplyStep DEF GuardInv
  <2>2. QED BY <2>1, LimitsAssumption DEF RiskInv, GrossBand
<1>5. CASE fresh /\ a # 0 /\ held # 0 /\ SideOf(held') = SideOf(held)
  <2>1. /\ believed' = held /\ held' \in {held, weight'}
        /\ exposed' = Smaller(2, exposed + 1)
    BY <1>5 DEF Decides, Route
  <2>2. held' \in Int /\ believed' \in Int /\ exposed' \in 0..2
    BY <1>4, <2>1 DEF GuardInv, Smaller
  <2>3. exposed' >= 1 => believed' # 0 /\ SideOf(believed') = SideOf(held')
    BY <1>5, <2>1
  <2>4. exposed' >= 2 => Tracked' /\ pos'.side = SideOf(held')
    <3>1. exposed' >= 2 => exposed >= 1
      BY <2>1 DEF GuardInv, Smaller
    <3>2. QED BY <1>1, <1>5, <3>1 DEF GuardInv
  <2>5. QED BY <1>1, <1>4, <2>2, <2>3, <2>4 DEF GuardInv, Protected
<1>6. CASE ~(fresh /\ a # 0 /\ held # 0 /\ SideOf(held') = SideOf(held))
  <2>1. exposed' = 0
    BY <1>6 DEF Decides
  <2>2. held' \in Int /\ believed' \in Int
    BY <1>4 DEF Decides, Route, GuardInv
  <2>3. QED BY <1>1, <1>4, <2>1, <2>2 DEF GuardInv, Protected
<1>7. QED BY <1>5, <1>6

LEMMA GuardStep ==
  GuardInv /\ Protected /\ [GuardNext]_<<riskVars, stopVars, guardVars>>
    => GuardInv' /\ Protected'
<1> SUFFICES ASSUME GuardInv, Protected, [GuardNext]_<<riskVars, stopVars, guardVars>>
             PROVE  GuardInv' /\ Protected'
  OBVIOUS
<1>1. ASSUME NEW e \in Account, Marks(e)
      PROVE  GuardInv' /\ Protected'
  <2>1. RiskInv'
    BY <1>1, UpdateEquityStep, LimitsAssumption, GuardAssumption DEF Marks, GuardInv
  <2>2. phase' # "bar"
    BY <1>1 DEF Marks
  <2>3. /\ pos' = pos /\ held' = held /\ believed' = believed /\ exposed' = exposed
    BY <1>1 DEF Marks, stopVars
  <2>4. QED BY <2>1, <2>2, <2>3 DEF GuardInv, Protected, Tracked
<1>2. ASSUME NEW p \in Closes, NEW a \in Ranges, NEW want \in Wants,
             NEW fresh \in BOOLEAN, Decides(p, a, want, fresh)
      PROVE  GuardInv' /\ Protected'
  BY <1>2, DecidesStep
<1>3. CASE Drifts
  BY <1>3 DEF Drifts, GuardInv, Protected, Tracked, riskVars, stopVars,
              RiskInv, TypeOK, GrossBand
<1>4. ASSUME NEW w \in Resting, LateFill(w)
      PROVE  GuardInv' /\ Protected'
  <2>1. /\ held' = w /\ w \in Int /\ pos' = pos /\ believed' = believed
        /\ exposed' = IF SideOf(w) = SideOf(held) THEN exposed ELSE 0
        /\ phase = "bar"
    BY <1>4, GuardAssumption DEF LateFill, stopVars
  <2>2. RiskInv'
    BY <1>4 DEF LateFill, riskVars, GuardInv, RiskInv, TypeOK, GrossBand
  <2>3. QED BY <2>1, <2>2 DEF GuardInv, Protected, Tracked
<1>5. CASE UNCHANGED <<riskVars, stopVars, guardVars>>
  BY <1>5 DEF GuardInv, Protected, Tracked, riskVars, stopVars, guardVars,
              RiskInv, TypeOK, GrossBand
<1>6. QED BY <1>1, <1>2, <1>3, <1>4, <1>5 DEF GuardNext

\* Whatever the strategies want, whatever fills late and whichever way the
\* position turns, one that two decisions have found has a stop on its side.
THEOREM ExposureIsProtected == GuardSpec => []Protected
BY GuardInitially, GuardStep, PTL DEF GuardSpec

--------------------------------------------------------------------------------
(* BacktestRun: the backtest's targets and the weight the limits make of them      *)

\* The strategies' numbers are integers, so that comparing them with 0 decides.
BacktestNumbers ==
  /\ shares[1] \in Int /\ shares[2] \in Int /\ position \in Int
  /\ raw \in Int /\ gated \in Int /\ buffered \in Int /\ desired \in Int

\* Bars that the weight has been stepped towards zero for.
StepsDown == IF step = "trade" THEN quiet - 2 ELSE quiet - 1

\* A target of zero is one bar from the buffer and two from the limits, and every
\* bar after that takes MaxChange off what is left of the weight.
ExitInv ==
  /\ BacktestNumbers
  /\ weight \in -MaxGross..MaxGross /\ quiet \in 0..Length
  /\ step \in {"signal", "trade"}
  /\ quiet >= 1 => gated = 0 /\ buffered = 0
  /\ quiet >= 2 => desired = 0
  /\ StepsDown >= 0 => weight = 0 \/ Abs(weight) + StepsDown * MaxChange <= MaxGross

LEMMA ShareInt ==
  ASSUME NEW n \in Int, NEW whole \in Nat \ {0}
  PROVE  Share(n, whole) \in Int
<1>1. (100 * n) \div whole \in Int
  <2>1. 100 * n \in Int
    OBVIOUS
  <2>2. QED
    BY <2>1
<1>2. QED
  BY <1>1 DEF Share, Smaller

LEMMA ConfidenceInt ==
  ASSUME NEW x \in Statistics
  PROVE  Confidence(x) \in Int
<1>1. x.z \in Int /\ x.hurst \in Int /\ x.adf \in Int
  BY BacktestAssumption
<1> DEFINE evidence == Share(Abs(x.z) - Threshold, 2 * Threshold)
           supporting == IF Regime(x) = "trending" THEN x.hurst - 50 ELSE 50 - x.hurst
           support == Share(supporting, 20)
           blend == (70 * evidence + 30 * support) \div 100
           adf == Share(10 - x.adf, 10)
<1>2. evidence \in Int
  BY <1>1, ShareInt DEF Abs, Threshold
<1>3. support \in Int
  <2>1. supporting \in Int
    BY <1>1
  <2> HIDE DEF supporting
  <2>2. QED
    BY <2>1, ShareInt
<1>4. adf \in Int
  BY <1>1, ShareInt
<1>5. blend \in Int
  <2> HIDE DEF evidence, support
  <2>1. QED
    BY <1>2, <1>3
<1>6. (75 * blend + 25 * adf) \div 100 \in Int
  <2> HIDE DEF blend, adf
  <2>1. QED
    BY <1>4, <1>5
<1>7. Confidence(x) \in {0, (75 * blend + 25 * adf) \div 100, blend}
  BY DEF Confidence
<1>8. QED
  <2> HIDE DEF blend, adf
  <2>1. QED
    BY <1>5, <1>6, <1>7

LEMMA WeightsInt ==
  ASSUME NEW regime, NEW confidence \in Int
  PROVE  /\ RegimeWeights(regime, confidence)[1] \in Int
         /\ RegimeWeights(regime, confidence)[2] \in Int
<1> DEFINE product == (100 - ConfidenceFloor) * confidence
           scale == ConfidenceFloor + product \div 100
           floored == scale * OffFloor
           off == floored \div 100
<1>1. scale \in Int
  <2>1. product \in Int
    BY BacktestAssumption
  <2> HIDE DEF product
  <2>2. QED
    BY <2>1, BacktestAssumption
<1>2. off \in Int
  <2> HIDE DEF scale
  <2>1. floored \in Int
    BY <1>1, BacktestAssumption
  <2> HIDE DEF floored
  <2>2. QED
    BY <2>1
<1>3. IndeterminateScale \div 2 \in Int
  BY BacktestAssumption
<1>4. RegimeWeights(regime, confidence) \in
        {<<IndeterminateScale \div 2, IndeterminateScale \div 2>>, <<scale - off, off>>,
         <<off, scale - off>>}
  BY DEF RegimeWeights
<1>5. QED
  <2> HIDE DEF scale, off
  <2>1. QED
    BY <1>1, <1>2, <1>3, <1>4

LEMMA PositionInt ==
  ASSUME position \in Int, NEW z \in Int, NEW ok
  PROVE  NextPosition(position, z, ok) \in Int
<1>1. Remaining(z) \in Int
  <2> DEFINE over == (Size(z) - Exit) * 100
             span == Stop - Exit
  <2>1. over \in Int
    BY ReversionAssumption DEF Size
  <2>2. span \in Nat \ {0}
    BY ReversionAssumption
  <2>3. over \div span \in Int
    <3> HIDE DEF over, span
    <3>1. QED
      BY <2>1, <2>2
  <2>4. QED
    BY <2>3 DEF Remaining
<1>2. Sign(position) \in {-1, 0, 1} /\ Sign(z) \in {-1, 0, 1}
  BY DEF Sign
<1>3. Sign(position) * Remaining(z) \in Int /\ -Sign(z) * Remaining(z) \in Int
  BY <1>1, <1>2
<1>4. QED
  BY <1>3 DEF NextPosition

LEMMA BlendInt ==
  ASSUME NEW momentum \in Int, NEW reversion \in Int, shares'[1] \in Int, shares'[2] \in Int
  PROVE  Blend(momentum, reversion) \in Int
<1> DEFINE sum == momentum * shares'[1] + reversion * shares'[2]
<1>1. sum \in Int
  OBVIOUS
<1>2. sum \div 100 \in Int
  <2> HIDE DEF sum
  <2>1. QED
    BY <1>1
<1>3. Clip(sum \div 100, 100) \in Int
  <2> HIDE DEF sum
  <2>1. QED
    BY <1>2 DEF Clip
<1>4. QED
  BY <1>3 DEF Blend

LEMMA TargetInt ==
  ASSUME NEW combined \in Int, NEW vol \in Int
  PROVE  RawTarget(combined, vol) \in Int
<1> DEFINE product == combined * vol * MaxGross
<1>1. product \in Int
  BY LimitsAssumption
<1>2. product \div 10000 \in Int
  <2> HIDE DEF product
  <2>1. QED
    BY <1>1
<1>3. Clip(product \div 10000, MaxGross) \in Int
  <2> HIDE DEF product
  <2>1. QED
    BY <1>2, LimitsAssumption DEF Clip
<1>4. QED
  BY <1>3 DEF RawTarget

\* A target of zero passes the gate and the buffer, whatever they hold.
LEMMA ZeroPasses ==
  ASSUME NEW was \in Int, NEW pays
  PROVE  Gated(0, was, pays) = 0 /\ Buffered(0, was) = 0
BY DEF Gated, Reducing, Buffered, Abs

LEMMA SignalTypes ==
  ASSUME ExitInv, NEW x \in Statistics, NEW momentum \in Convictions, NEW z \in Scores,
         NEW life \in HalfLives, NEW vol \in VolScalars, NEW pays \in BOOLEAN,
         SignalBar(x, momentum, z, life, vol, pays)
  PROVE  BacktestNumbers'
<1>1. momentum \in Int /\ z \in Int /\ vol \in Int
  BY BacktestAssumption
<1>2. position' \in Int
  BY <1>1, PositionInt DEF SignalBar, ExitInv, BacktestNumbers
<1>3. shares'[1] \in Int /\ shares'[2] \in Int
  BY ConfidenceInt, WeightsInt DEF SignalBar, ExitInv, BacktestNumbers
<1>4. raw' \in Int
  BY <1>1, <1>2, <1>3, BlendInt, TargetInt DEF SignalBar
<1>5. gated' \in Int /\ buffered' \in Int /\ desired' \in Int
  BY <1>4 DEF SignalBar, Gated, Buffered, ExitInv, BacktestNumbers
<1>6. QED
  BY <1>2, <1>3, <1>4, <1>5 DEF BacktestNumbers

\* Steps that are fewer leave more room.
LEMMA FewerSteps ==
  ASSUME NEW m \in Nat, NEW n \in Nat, n <= m, NEW w \in Int,
         w + m * MaxChange <= MaxGross
  PROVE  w + n * MaxChange <= MaxGross
<1>1. MaxChange \in Nat /\ MaxGross \in Nat
  BY LimitsAssumption
<1>2. PICK d \in Nat : m = n + d
  <2>1. m - n \in Nat /\ m = n + (m - n)
    OBVIOUS
  <2>2. QED
    BY <2>1
<1>3. m * MaxChange = n * MaxChange + d * MaxChange
  BY <1>1, <1>2
<1>4. d * MaxChange \in Nat /\ n * MaxChange \in Nat /\ m * MaxChange \in Nat
  BY <1>1
<1>5. QED
  BY <1>1, <1>3, <1>4

LEMMA SignalStep ==
  ASSUME ExitInv, NEW x \in Statistics, NEW momentum \in Convictions, NEW z \in Scores,
         NEW life \in HalfLives, NEW vol \in VolScalars, NEW pays \in BOOLEAN,
         SignalBar(x, momentum, z, life, vol, pays)
  PROVE  ExitInv'
<1>1. BacktestNumbers'
  BY SignalTypes
<1>2. weight' = weight
  BY Zenon DEF SignalBar, UpdateEquity, BadMark, GoodMark
<1>3. /\ step = "signal" /\ step' = "trade"
      /\ quiet' = IF raw' = 0 THEN Smaller(quiet + 1, Length) ELSE 0
      /\ gated' = Gated(raw', gated, pays) /\ buffered' = Buffered(gated', buffered)
      /\ desired' = buffered
  BY DEF SignalBar
<1>4. /\ quiet' \in 0..Length /\ quiet' <= quiet + 1
      /\ quiet' >= 1 => raw' = 0
  BY <1>3, BacktestAssumption DEF ExitInv, Smaller
<1>5. quiet' >= 1 => gated' = 0 /\ buffered' = 0
  BY <1>3, <1>4, ZeroPasses DEF ExitInv, BacktestNumbers
<1>6. quiet' >= 2 => desired' = 0
  BY <1>3, <1>4 DEF ExitInv
<1>7. StepsDown = quiet - 1 /\ StepsDown' = quiet' - 2
  BY <1>3 DEF StepsDown
<1>8. StepsDown' >= 0 => weight' = 0 \/ Abs(weight') + StepsDown' * MaxChange <= MaxGross
  <2>1. SUFFICES ASSUME quiet' - 2 >= 0, weight # 0
                 PROVE  Abs(weight) + (quiet' - 2) * MaxChange <= MaxGross
    BY <1>2, <1>7
  <2>2. /\ quiet - 1 \in Nat /\ quiet' - 2 \in Nat /\ quiet' - 2 <= quiet - 1
        /\ Abs(weight) \in Int
    <3>1. quiet \in Nat /\ quiet' \in Nat /\ quiet' <= quiet + 1
      BY <1>4, BacktestAssumption DEF ExitInv
    <3>2. Abs(weight) \in Int
      BY LimitsAssumption DEF ExitInv, Abs
    <3>3. ASSUME NEW p \in Nat, NEW q \in Nat, q <= p + 1, q - 2 >= 0
          PROVE  /\ p - 1 \in Nat
                 /\ q - 2 \in Nat
                 /\ q - 2 <= p - 1
      BY <3>3
    <3>4. QED
      BY <2>1, <3>1, <3>2, <3>3, Zenon
  <2>3. Abs(weight) + (quiet - 1) * MaxChange <= MaxGross
    BY <1>7, <2>1, <2>2 DEF ExitInv
  <2>4. QED
    BY <2>2, <2>3, FewerSteps
<1>9. QED
  BY <1>1, <1>2, <1>3, <1>4, <1>5, <1>6, <1>8 DEF ExitInv

\* The limits step towards zero, as far as one change may go.
LEMMA StepsToZero ==
  ASSUME weight \in -MaxGross..MaxGross, ~halted
  PROVE  \/ Decide(0).weight = 0
         \/ Abs(Decide(0).weight) = Abs(weight) - MaxChange
<1>1. Derisked(0) = 0
  <2>1. 0 * DeriskPct = 0 /\ 0 \div 100 = 0
    BY LimitsAssumption
  <2>2. QED
    BY <2>1 DEF Derisked
<1>2. Capped(0) = 0
  BY <1>1, LimitsAssumption DEF Capped, Clip
<1>3. Decide(0).weight = weight + Clip(0 - weight, MaxChange)
  BY <1>2 DEF Decide, Stepped
<1>4. QED
  BY <1>3, LimitsAssumption DEF Clip, Abs

LEMMA TradeStep ==
  ASSUME ExitInv, NEW r \in Returns, TradeBar(r)
  PROVE  ExitInv'
<1>1. /\ step = "trade" /\ step' = "signal" /\ Apply(desired)
      /\ UNCHANGED <<position, shares, raw, gated, buffered, desired, quiet>>
  BY DEF TradeBar
<1>2. BacktestNumbers'
  BY <1>1 DEF ExitInv, BacktestNumbers
<1>3. weight' = Decide(desired).weight
  BY <1>1 DEF Apply
<1>4. halted => weight' = 0
  BY <1>3 DEF Decide
<1>5. weight' \in -MaxGross..MaxGross
  <2>1. CASE halted
    BY <1>4, <2>1, LimitsAssumption
  <2>2. CASE ~halted
    <3>1. weight' = Stepped(Capped(desired))
      BY <1>3, <2>2 DEF Decide
    <3>2. QED
      BY <3>1, SteppedBounds DEF ExitInv, BacktestNumbers
  <2>3. QED
    BY <2>1, <2>2
<1>6. StepsDown = quiet - 2 /\ StepsDown' = quiet - 1 /\ quiet \in Int
  BY <1>1, BacktestAssumption DEF StepsDown, ExitInv
<1>7. StepsDown' >= 0 => weight' = 0 \/ Abs(weight') + StepsDown' * MaxChange <= MaxGross
  <2>1. SUFFICES ASSUME StepsDown' >= 0, weight' # 0
                 PROVE  Abs(weight') + StepsDown' * MaxChange <= MaxGross
    OBVIOUS
  <2>2. CASE StepsDown' = 0
    <3>1. MaxGross \in Nat /\ MaxChange \in Nat
      BY LimitsAssumption
    <3>2. ASSUME NEW w \in -MaxGross..MaxGross
          PROVE  Abs(w) + 0 * MaxChange <= MaxGross
      BY <3>1 DEF Abs
    <3>3. QED
      BY <1>5, <2>2, <3>2, Zenon
  <2>3. CASE StepsDown' > 0
    <3>1. quiet >= 2 /\ ~halted
      BY <1>4, <1>6, <2>1, <2>3
    <3>2. desired = 0
      BY <3>1 DEF ExitInv
    <3>3. Abs(weight') = Abs(weight) - MaxChange
      BY <1>3, <2>1, <3>1, <3>2, StepsToZero DEF ExitInv
    <3>4. weight # 0
      BY <3>3, <1>5, LimitsAssumption DEF Abs
    <3>5. Abs(weight) + (quiet - 2) * MaxChange <= MaxGross
      BY <1>6, <3>1, <3>4 DEF ExitInv
    <3>6. (quiet - 1) * MaxChange = (quiet - 2) * MaxChange + MaxChange
      BY <1>6, LimitsAssumption
    <3>7. (quiet - 2) * MaxChange \in Int /\ Abs(weight) \in Int /\ MaxChange \in Int
      BY <1>6, LimitsAssumption DEF Abs, ExitInv
    <3>8. QED
      <4> DEFINE m == (quiet - 2) * MaxChange
                 n == (quiet - 1) * MaxChange
                 a == Abs(weight)
                 b == Abs(weight')
      <4>1. b = a - MaxChange /\ a + m <= MaxGross /\ n = m + MaxChange
            /\ m \in Int /\ a \in Int /\ MaxChange \in Int /\ MaxGross \in Int
        BY <3>3, <3>5, <3>6, <3>7, LimitsAssumption
      <4>2. b + n <= MaxGross
        <5> HIDE DEF a, b, m, n
        <5>1. QED
          BY <4>1
      <4>3. QED
        BY <1>6, <4>2
  <2>4. QED
    BY <1>6, <2>1, <2>2, <2>3
<1>8. QED
  BY <1>1, <1>2, <1>5, <1>7 DEF ExitInv

\* That many changes of MaxChange cover the whole gross band.
LEMMA StepsCover == StepsToFlat \in Nat /\ StepsToFlat * MaxChange >= MaxGross
<1> DEFINE n == MaxGross + MaxChange - 1
<1>1. n \in Nat /\ MaxChange \in Nat \ {0} /\ MaxGross \in Nat
  BY LimitsAssumption
<1>2. n \div MaxChange \in Nat /\ (n \div MaxChange) * MaxChange + MaxChange > n
  <2> HIDE DEF n
  <2>1. QED
    BY <1>1
<1>3. (n \div MaxChange) * MaxChange \in Int
  <2> DEFINE q == n \div MaxChange
  <2>1. q \in Nat
    BY <1>2
  <2> HIDE DEF q
  <2>2. q * MaxChange \in Int
    BY <1>1, <2>1
  <2>3. QED
    BY <2>2 DEF q
<1>4. (n \div MaxChange) * MaxChange >= MaxGross
  <2> DEFINE covered == (n \div MaxChange) * MaxChange
  <2>1. covered \in Int /\ covered + MaxChange > n /\ n = MaxGross + MaxChange - 1
    BY <1>2, <1>3
  <2> HIDE DEF covered, n
  <2>2. covered >= MaxGross
    BY <1>1, <2>1
  <2>3. QED
    BY <2>2 DEF covered
<1>5. QED
  BY <1>2, <1>4 DEF StepsToFlat

LEMMA BacktestStep ==
  ExitInv /\ [BacktestNext]_<<riskVars, backtestVars>> => ExitInv'
<1>1. SUFFICES ASSUME ExitInv, [BacktestNext]_<<riskVars, backtestVars>>
               PROVE  ExitInv'
  OBVIOUS
<1>2. CASE UNCHANGED <<riskVars, backtestVars>>
  BY <1>1, <1>2 DEF riskVars, backtestVars, ExitInv, BacktestNumbers, StepsDown
<1>3. QED
  BY <1>1, <1>2, SignalStep, TradeStep DEF BacktestNext

LEMMA BacktestInitially == BacktestInit => ExitInv
<1>1. SUFFICES ASSUME BacktestInit
               PROVE  ExitInv
  OBVIOUS
<1>2. IndeterminateScale \div 2 \in Int
  BY BacktestAssumption
<1>3. BacktestNumbers
  BY <1>1, <1>2 DEF BacktestInit, BacktestNumbers
<1>4. weight = 0 /\ quiet = 0 /\ step = "signal" /\ StepsDown = -1
  BY <1>1 DEF BacktestInit, Init, StepsDown
<1>5. QED
  BY <1>3, <1>4, LimitsAssumption, BacktestAssumption DEF ExitInv

LEMMA FlatInTime == ExitInv => ExitsGoThrough
<1>1. SUFFICES ASSUME ExitInv, step = "signal", quiet > StepsToFlat + 1, weight # 0
               PROVE  FALSE
  BY DEF ExitsGoThrough
<1>2. quiet \in Nat /\ StepsToFlat \in Nat /\ MaxGross \in Nat /\ Abs(weight) \in Nat \ {0}
  BY <1>1, BacktestAssumption, LimitsAssumption, StepsCover DEF ExitInv, Abs
<1>3. StepsDown = quiet - 1
  BY <1>1 DEF StepsDown
<1>4. StepsDown \in Nat /\ StepsToFlat <= StepsDown
  <2> HIDE DEF StepsToFlat
  <2>1. QED
    BY <1>1, <1>2, <1>3
<1>5. Abs(weight) + StepsDown * MaxChange <= MaxGross
  BY <1>1, <1>4 DEF ExitInv
<1>6. Abs(weight) + StepsToFlat * MaxChange <= MaxGross
  BY <1>2, <1>4, <1>5, FewerSteps
<1>7. StepsToFlat * MaxChange \in Int /\ StepsToFlat * MaxChange >= MaxGross
  BY <1>2, StepsCover, LimitsAssumption
<1>8. QED
  BY <1>2, <1>6, <1>7

\* An exit goes through: whatever the statistics, the scores and the returns are,
\* and whatever the gate expects of the trade, nothing is held once the strategies
\* have wanted nothing for as many bars as the change limit needs from the gross
\* limit to zero, and two more for the buffer and the lag of a bar.
THEOREM ExitsReachZero == BacktestSpec => []ExitsGoThrough
<1>1. BacktestInit => ExitInv
  BY BacktestInitially
<1>2. ExitInv /\ [BacktestNext]_<<riskVars, backtestVars>> => ExitInv'
  BY BacktestStep
<1>3. ExitInv => ExitsGoThrough
  BY FlatInTime
<1>4. QED
  BY <1>1, <1>2, <1>3, PTL DEF BacktestSpec

================================================================================
