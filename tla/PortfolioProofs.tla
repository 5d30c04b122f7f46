---------------------------- MODULE PortfolioProofs ----------------------------
(***************************************************************************)
(* Theorems about what leads from the market to a position: Bars, for every*)
(* page size, delay and length of the series; Scanner, for every universe  *)
(* and every reading of it; BookPlan, for every set of limits, ladder,     *)
(* band, ramp, measured volatility and account; DayTrades, for every number*)
(* of symbols, every window and every reserve; Positions, for every        *)
(* sequence of fills, marks and trims.                                     *)
(***************************************************************************)
EXTENDS DayTrades, BookPlan, Scanner, Bars, Positions, SetInduction

(* DayTrades *)

\* What was opened today is among the symbols, and an account that was never at
\* the floor is not there now.
DayTradesTypes ==
  /\ today \subseteq Stocks
  /\ used \in Nat
  /\ rich => everRich

\* No more positions may be open at once than one opening and the reserve.
FewPositions == Cardinality(Stocks) <= Reserve + 1

\* Closing everything that was opened today stays below the window: what
\* check_tradeable is to hold back.
BudgetHeld ==
  ~everRich => /\ ~restricted
               /\ today # {} => used + Cardinality(today) <= PdtWindow - 1

DayTradesInv == DayTradesTypes /\ (FewPositions => BudgetHeld)

\* The symbols opened today are counted as any part of the symbols is.
LEMMA PartCounted ==
  ASSUME NEW part, part \subseteq Stocks
  PROVE  /\ IsFiniteSet(part) /\ Cardinality(part) \in Nat
         /\ Cardinality(part) <= Cardinality(Stocks)
         /\ Cardinality(Stocks) \in Nat
BY DayTradesAssumption, FS_Subset, FS_CardinalityType

LEMMA DayTradesInitially == DayTradesInit => DayTradesInv
BY DEF DayTradesInit, DayTradesInv, DayTradesTypes, BudgetHeld

\* An opening leaves room for itself and for every other position of the day.
LEMMA OpenStep ==
  ASSUME DayTradesInv, NEW s \in Stocks, OpenPosition(s)
  PROVE  DayTradesInv'
<1> USE DayTradesAssumption
<1>1. DayTradesTypes'
  BY DEF OpenPosition, DayTradesInv, DayTradesTypes
<1>2. ASSUME FewPositions, ~everRich
      PROVE  used + Cardinality(today') <= PdtWindow - 1
  <2>1. ~rich
    BY <1>2 DEF DayTradesInv, DayTradesTypes
  <2>2. PdtWindow - 1 - used > Reserve
    BY <2>1 DEF OpenPosition, MayOpen, Left, DayTradesInv, DayTradesTypes
  <2>3. Cardinality(today') \in Nat /\ Cardinality(today') <= Reserve + 1
    BY <1>1, <1>2, PartCounted DEF DayTradesTypes, FewPositions
  <2>4. QED BY <2>2, <2>3 DEF DayTradesInv, DayTradesTypes
<1>3. FewPositions' => BudgetHeld'
  BY <1>2 DEF OpenPosition, DayTradesInv, BudgetHeld, FewPositions
<1>4. QED BY <1>1, <1>3 DEF DayTradesInv

\* A day trade moves one position from the day to the count.
LEMMA CloseStep ==
  ASSUME DayTradesInv, NEW s \in Stocks, ClosePosition(s)
  PROVE  DayTradesInv'
<1> USE DayTradesAssumption
<1>1. DayTradesTypes'
  BY DEF ClosePosition, DayTradesInv, DayTradesTypes
<1>2. CASE s \notin today
  <2>1. today' = today /\ used' = used /\ everRich' = everRich
    BY <1>2 DEF ClosePosition
  <2>2. ~restricted'
    BY <1>2, Zenon DEF ClosePosition
  <2>3. QED
    BY <1>1, <2>1, <2>2 DEF DayTradesInv, BudgetHeld, FewPositions
<1>3. CASE s \in today
  <2>1. /\ today' = today \ {s} /\ used' = used + 1 /\ everRich' = everRich
        /\ restricted' => used + 1 >= PdtWindow
    BY <1>3 DEF ClosePosition
  <2>2. /\ Cardinality(today) \in Nat
        /\ Cardinality(today') = Cardinality(today) - 1
    BY <1>3, <2>1, PartCounted, FS_RemoveElement DEF DayTradesInv, DayTradesTypes
  <2>3. Cardinality(today') \in Nat
    BY <1>1, PartCounted DEF DayTradesTypes
  <2>4. ASSUME FewPositions, ~everRich
        PROVE  used + Cardinality(today) <= PdtWindow - 1
    BY <1>3, <2>4 DEF DayTradesInv, BudgetHeld
  <2>5. QED
    BY <1>1, <2>1, <2>2, <2>3, <2>4
       DEF DayTradesInv, DayTradesTypes, BudgetHeld, FewPositions
<1>4. QED BY <1>2, <1>3

\* A new session forgets day trades and never adds one.
LEMMA MarketOpensStep ==
  ASSUME DayTradesInv, NEW n \in 0 .. MaxUsed, MarketOpens(n)
  PROVE  DayTradesInv'
<1> USE DayTradesAssumption
<1>1. /\ used' = n /\ n <= used /\ today' = today
      /\ restricted' = restricted /\ everRich' = everRich /\ rich' = rich
  BY DEF MarketOpens
<1>2. Cardinality(today) \in Nat
  BY PartCounted DEF DayTradesInv, DayTradesTypes
<1>3. QED
  BY <1>1, <1>2 DEF DayTradesInv, DayTradesTypes, BudgetHeld, FewPositions

LEMMA DayTradesStep == DayTradesInv /\ [DayTradesNext]_dayTradeVars => DayTradesInv'
<1> SUFFICES ASSUME DayTradesInv, [DayTradesNext]_dayTradeVars
             PROVE  DayTradesInv'
  OBVIOUS
<1>1. CASE \E s \in Stocks : OpenPosition(s) \/ ClosePosition(s)
  BY <1>1, OpenStep, CloseStep
<1>2. CASE MarketCloses
  BY <1>2 DEF MarketCloses, DayTradesInv, DayTradesTypes, BudgetHeld, FewPositions
<1>3. CASE \E n \in 0 .. MaxUsed : MarketOpens(n)
  BY <1>3, MarketOpensStep
<1>4. CASE EquityMoves
  BY <1>4 DEF EquityMoves, DayTradesInv, DayTradesTypes, BudgetHeld, FewPositions
<1>5. CASE UNCHANGED dayTradeVars
  BY <1>5 DEF dayTradeVars, DayTradesInv, DayTradesTypes, BudgetHeld, FewPositions
<1>6. QED BY <1>1, <1>2, <1>3, <1>4, <1>5 DEF DayTradesNext

\* With at most one position more than the reserve, check_tradeable keeps an
\* account below the floor from ever being restricted, whatever it opens and
\* closes in whatever session.
THEOREM ReserveHolds == DayTradesSpec => []ReserveIsEnough
<1>1. DayTradesInv => ReserveIsEnough
  BY DEF DayTradesInv, FewPositions, BudgetHeld, ReserveIsEnough
<1>2. QED
  BY DayTradesInitially, DayTradesStep, <1>1, PTL DEF DayTradesSpec

--------------------------------------------------------------------------------
(* BookPlan: sums of weights *)

\* Weights of finitely many symbols.
IsBook(w) == IsFiniteSet(DOMAIN w) /\ w = [s \in DOMAIN w |-> w[s]]
                /\ \A s \in DOMAIN w : w[s] \in Int

LEMMA TotalSums ==
  ASSUME NEW w, IsBook(w)
  PROVE  \E g : SumsUp(g, w, DOMAIN w) /\ Total(w) = g[DOMAIN w]
<1> DEFINE g0 == CHOOSE g : SumsUp(g, w, DOMAIN w)
<1>1. SumsUp(g0, w, DOMAIN w)
  BY SumExists DEF IsBook
<1>2. Total(w) = g0[DOMAIN w]
  BY DEF Total, MapThenSumSet, MapThenFoldSet, SumsUp
<1>3. QED
  <2> HIDE DEF g0
  <2>1. QED
    BY <1>1, <1>2

LEMMA TotalInt ==
  ASSUME NEW w, IsBook(w)
  PROVE  Total(w) \in Int
<1>1. PICK g : SumsUp(g, w, DOMAIN w) /\ Total(w) = g[DOMAIN w]
  BY TotalSums
<1>2. \A T \in SUBSET DOMAIN w : g[T] \in Int
  <2> DEFINE S == DOMAIN w
  <2>1. /\ IsFiniteSet(S) /\ SumsUp(g, w, S)
        /\ \A s \in S : w[s] \in Int
    BY <1>1 DEF IsBook
  <2> HIDE DEF S
  <2>2. \A T \in SUBSET S : g[T] \in Int
    BY <2>1, SumInt
  <2>3. QED
    BY <2>2 DEF S
<1>3. QED
  BY <1>1, <1>2

LEMMA TotalNat ==
  ASSUME NEW w, IsBook(w), \A s \in DOMAIN w : w[s] >= 0
  PROVE  Total(w) \in Nat /\ \A s \in DOMAIN w : w[s] <= Total(w)
<1>1. PICK g : SumsUp(g, w, DOMAIN w) /\ Total(w) = g[DOMAIN w]
  BY TotalSums
<1> DEFINE S == DOMAIN w
<1>2. /\ IsFiniteSet(S) /\ SumsUp(g, w, S)
      /\ \A s \in S : w[s] \in Nat
  BY <1>1 DEF IsBook
<1>3. g[S] \in Nat /\ \A s \in S : w[s] <= g[S]
  <2> HIDE DEF S
  <2>1. QED
    BY <1>2, SumNat
<1>4. QED
  BY <1>1, <1>3

\* A comparison of multiples, symbol by symbol, is one of the totals.
LEMMA TotalsCompare ==
  ASSUME NEW w, NEW v, IsBook(w), IsBook(v), DOMAIN w = DOMAIN v,
         NEW a \in Int, NEW b \in Int, \A s \in DOMAIN w : a * w[s] <= b * v[s]
  PROVE  a * Total(w) <= b * Total(v)
<1> DEFINE S == DOMAIN w
<1>1. PICK g : SumsUp(g, w, S) /\ Total(w) = g[S]
  BY TotalSums
<1>2. PICK h : SumsUp(h, v, S) /\ Total(v) = h[S]
  BY TotalSums
<1>3. /\ IsFiniteSet(S)
      /\ \A s \in S : w[s] \in Int /\ v[s] \in Int /\ a * w[s] <= b * v[s]
  BY DEF IsBook
<1>4. a * g[S] <= b * h[S]
  <2> HIDE DEF S
  <2>1. QED
    BY <1>1, <1>2, <1>3, SumsCompare
<1>5. QED
  BY <1>1, <1>2, <1>4

LEMMA SymbolsFinite == IsFiniteSet(Symbols)
BY BookAssumption, FS_Union DEF Symbols

\* A book of all the symbols.
LEMMA WholeBook ==
  ASSUME NEW w \in [Symbols -> Int]
  PROVE  IsBook(w) /\ DOMAIN w = Symbols
BY SymbolsFinite DEF IsBook

(* What rounding down and cancelling do. *)

LEMMA DivBounds ==
  ASSUME NEW n \in Int, NEW m \in Nat \ {0}
  PROVE  /\ n \div m \in Int
         /\ m * (n \div m) <= n
         /\ n >= 0 => n \div m \in Nat
OBVIOUS

LEMMA DivAtMost ==
  ASSUME NEW n \in Int, NEW m \in Nat \ {0}, NEW k \in Int, n <= k * m
  PROVE  n \div m <= k
OBVIOUS

LEMMA Cancel ==
  ASSUME NEW m \in Nat \ {0}, NEW x \in Int, NEW y \in Int, m * x <= y * m
  PROVE  x <= y
OBVIOUS

LEMMA ProductNat ==
  ASSUME NEW m \in Nat, NEW n \in Nat
  PROVE  m * n \in Nat
OBVIOUS

LEMMA ProductUpTo ==
  ASSUME NEW w \in Nat, NEW m \in Nat, NEW n \in Nat, m <= n
  PROVE  w * m <= w * n
<1>1. n - m \in Nat
  OBVIOUS
<1>2. w * (n - m) \in Nat
  BY <1>1, ProductNat
<1>3. w * (n - m) = w * n - w * m /\ w * n \in Int /\ w * m \in Int
  OBVIOUS
<1>4. QED
  BY <1>2, <1>3

\* A share of at most the whole, of a natural weight.
LEMMA ShareOf ==
  ASSUME NEW w \in Nat, NEW part \in Nat, NEW whole \in Nat \ {0}, part <= whole
  PROVE  /\ (w * part) \div whole \in Nat
         /\ (w * part) \div whole <= w
         /\ whole * ((w * part) \div whole) <= part * w
<1> DEFINE n == w * part
<1>1. n \in Nat /\ n <= w * whole /\ n = part * w
  BY ProductNat, ProductUpTo
<1>2. n \div whole \in Nat /\ whole * (n \div whole) <= n
  <2> HIDE DEF n
  <2>1. QED
    BY <1>1, DivBounds
<1>3. n \div whole <= w
  <2> HIDE DEF n
  <2>1. QED
    BY <1>1, DivAtMost
<1>4. QED
  BY <1>1, <1>2, <1>3

(* The numbered steps of allocate. *)

Weightings == [Symbols -> Nat]

LEMMA InverseVolWeighs ==
  ASSUME NEW vol \in VolMaps
  PROVE  InverseVol(vol) \in Weightings
<1> DEFINE weight == [s \in DOMAIN vol |-> VolUnit \div vol[s]]
<1>1. vol \in [Symbols -> 1 .. VolUnit] /\ VolUnit \in Nat \ {0}
  BY BookAssumption
<1>2. \A s \in Symbols : weight[s] \in Nat \ {0}
  <2>1. ASSUME NEW s \in Symbols
        PROVE  VolUnit \div vol[s] \in Nat \ {0}
    <3>1. vol[s] \in Nat \ {0} /\ vol[s] <= VolUnit
      BY <1>1
    <3>2. ASSUME NEW m \in Nat \ {0}, NEW n \in Nat, m <= n
          PROVE  n \div m \in Nat \ {0}
      BY <3>2
    <3>3. QED
      BY <1>1, <3>1, <3>2
  <2>2. QED
    BY <1>1, <2>1
<1>3. weight \in [Symbols -> Int] /\ DOMAIN weight = Symbols
  BY <1>1, <1>2
<1>4. IsBook(weight)
  <2> HIDE DEF weight
  <2>1. QED
    BY <1>3, WholeBook
<1>5. Total(weight) \in Nat /\ \A s \in Symbols : weight[s] <= Total(weight)
  <2> HIDE DEF weight
  <2>1. QED
    BY <1>2, <1>3, <1>4, TotalNat
<1>6. ASSUME NEW s \in Symbols
      PROVE  (Scale * weight[s]) \div Total(weight) \in Nat
  <2> HIDE DEF weight
  <2>1. Total(weight) \in Nat \ {0} /\ weight[s] \in Nat /\ Scale \in Nat
    BY <1>2, <1>5, BookAssumption
  <2>2. Scale * weight[s] \in Nat
    BY <2>1, ProductNat
  <2>3. QED
    BY <2>1, <2>2, DivBounds
<1>7. QED
  BY <1>1, <1>6 DEF InverseVol, Weightings

LEMMA ScaledWeighs ==
  ASSUME NEW w \in Weightings, NEW pct \in Nat
  PROVE  Scaled(w, pct) \in Weightings
<1>1. ASSUME NEW s \in Symbols
      PROVE  (w[s] * pct) \div 100 \in Nat
  <2>1. w[s] * pct \in Nat
    BY ProductNat DEF Weightings
  <2>2. QED
    BY <2>1, DivBounds
<1>2. QED
  BY <1>1 DEF Scaled, Weightings

LEMMA RampIsPercent ==
  ASSUME NEW days \in Days
  PROVE  Ramp(days) \in 0 .. 100
<1>1. days \in Nat /\ FullDays \in Nat /\ NewPct \in 0 .. 100 /\ 100 - NewPct \in Nat
  BY BookAssumption
<1>2. ASSUME days < FullDays
      PROVE  /\ ((100 - NewPct) * days) \div FullDays \in Nat
             /\ ((100 - NewPct) * days) \div FullDays <= 100 - NewPct
  <2>1. FullDays \in Nat \ {0} /\ days <= FullDays
    BY <1>1, <1>2
  <2>2. QED
    BY <1>1, <2>1, ShareOf
<1>3. QED
  BY <1>1, <1>2 DEF Ramp

LEMMA CeiledBounds ==
  ASSUME NEW w \in Weightings, NEW days \in Days
  PROVE  /\ Ceiled(w, days) \in Weightings
         /\ \A s \in Symbols : Ceiled(w, days)[s] <= MaxPosition
<1>1. ASSUME NEW s \in Symbols
      PROVE  /\ (Least(w[s], MaxPosition) * Ramp(days)) \div 100 \in Nat
             /\ (Least(w[s], MaxPosition) * Ramp(days)) \div 100 <= MaxPosition
  <2>1. Least(w[s], MaxPosition) \in Nat /\ Least(w[s], MaxPosition) <= MaxPosition
    BY BookAssumption DEF Weightings, Least
  <2>2. /\ (Least(w[s], MaxPosition) * Ramp(days)) \div 100 \in Nat
        /\ (Least(w[s], MaxPosition) * Ramp(days)) \div 100 <= Least(w[s], MaxPosition)
    <3>1. /\ Ramp(days) \in Nat /\ Ramp(days) <= 100
          /\ 100 \in Nat \ {0}
      BY RampIsPercent
    <3>2. QED
      BY <2>1, <3>1, ShareOf, Zenon
  <2>3. QED
    BY <2>1, <2>2, BookAssumption
<1>2. QED
  BY <1>1 DEF Ceiled, Weightings

\* Symbols of one sector agree on it.
LEMMA SectorsApart ==
  ASSUME NEW s \in Symbols
  PROVE  /\ SectorOf(s) \subseteq Symbols /\ s \in SectorOf(s)
         /\ \A t \in SectorOf(s) : SectorOf(t) = SectorOf(s)
BY BookAssumption DEF SectorOf, Symbols

\* The part of a book that a sector is.
LEMMA SectorBook ==
  ASSUME NEW w \in [Symbols -> Int], NEW s \in Symbols
  PROVE  /\ IsBook(Restrict(w, SectorOf(s)))
         /\ DOMAIN Restrict(w, SectorOf(s)) = SectorOf(s)
         /\ \A t \in SectorOf(s) : Restrict(w, SectorOf(s))[t] = w[t]
<1>1. IsFiniteSet(SectorOf(s)) /\ SectorOf(s) \subseteq Symbols
  BY SectorsApart, BookAssumption DEF SectorOf
<1>2. QED
  BY <1>1 DEF IsBook, Restrict

SectorTotal(w, s) == Total(Restrict(w, SectorOf(s)))

\* Its weights and its total are naturals where the weights of the book are.
LEMMA SectorTotalNat ==
  ASSUME NEW w \in Weightings, NEW s \in Symbols
  PROVE  SectorTotal(w, s) \in Nat
<1>1. w \in [Symbols -> Int]
  BY DEF Weightings
<1> DEFINE part == Restrict(w, SectorOf(s))
<1>2. IsBook(part) /\ DOMAIN part = SectorOf(s)
  BY <1>1, SectorBook
<1>3. \A t \in DOMAIN part : part[t] >= 0
  BY SectorsApart DEF Weightings, Restrict
<1>4. Total(part) \in Nat
  <2> HIDE DEF part
  <2>1. QED
    BY <1>2, <1>3, TotalNat
<1>5. QED
  BY <1>4 DEF SectorTotal

\* Smaller weights, smaller total.
LEMMA SectorTotalGrows ==
  ASSUME NEW w \in [Symbols -> Int], NEW v \in [Symbols -> Int], NEW s \in Symbols,
         NEW a \in Int, NEW b \in Int,
         \A t \in SectorOf(s) : a * w[t] <= b * v[t]
  PROVE  a * SectorTotal(w, s) <= b * SectorTotal(v, s)
<1> DEFINE p == Restrict(w, SectorOf(s))
           q == Restrict(v, SectorOf(s))
<1>1. /\ IsBook(p) /\ DOMAIN p = SectorOf(s)
      /\ IsBook(q) /\ DOMAIN q = SectorOf(s)
      /\ \A t \in SectorOf(s) : p[t] = w[t] /\ q[t] = v[t]
  BY SectorBook
<1>2. \A t \in DOMAIN p : a * p[t] <= b * q[t]
  BY <1>1
<1>3. a * Total(p) <= b * Total(q)
  <2> HIDE DEF p, q
  <2>1. QED
    BY <1>1, <1>2, TotalsCompare
<1>4. QED
  BY <1>3 DEF SectorTotal

LEMMA SectorCappedBounds ==
  ASSUME NEW w \in Weightings
  PROVE  /\ SectorCapped(w) \in Weightings
         /\ \A s \in Symbols : /\ SectorCapped(w)[s] <= w[s]
                               /\ SectorTotal(SectorCapped(w), s) <= MaxSector
<1> DEFINE v == SectorCapped(w)
<1>1. ASSUME NEW s \in Symbols
      PROVE  v[s] = IF SectorTotal(w, s) > MaxSector
                    THEN (w[s] * MaxSector) \div SectorTotal(w, s) ELSE w[s]
  <2>1. DOMAIN w = Symbols /\ SectorOf(s) \cap Symbols = SectorOf(s)
    BY SectorsApart DEF Weightings
  <2>2. QED
    BY <2>1 DEF SectorCapped, SectorTotal
<1>2. DOMAIN v = Symbols /\ v = [s \in Symbols |-> v[s]]
  BY DEF SectorCapped, Weightings
<1> HIDE DEF v
<1>3. ASSUME NEW s \in Symbols
      PROVE  /\ SectorTotal(w, s) \in Nat /\ MaxSector \in Nat /\ w[s] \in Nat
             /\ SectorTotal(w, s) > MaxSector =>
                  /\ SectorTotal(w, s) \in Nat \ {0} /\ MaxSector <= SectorTotal(w, s)
  BY SectorTotalNat, BookAssumption DEF Weightings
<1>4. ASSUME NEW s \in Symbols
      PROVE  v[s] \in Nat /\ v[s] <= w[s]
  <2>1. CASE SectorTotal(w, s) > MaxSector
    BY <1>1, <1>3, <2>1, ShareOf
  <2>2. CASE ~ (SectorTotal(w, s) > MaxSector)
    BY <1>1, <1>3, <2>2
  <2>3. QED
    BY <2>1, <2>2
<1>5. v \in Weightings
  BY <1>2, <1>4 DEF Weightings
<1>6. ASSUME NEW s \in Symbols
      PROVE  SectorTotal(v, s) <= MaxSector
  <2> DEFINE tot == SectorTotal(w, s)
  <2>1. \A t \in SectorOf(s) : t \in Symbols /\ SectorTotal(w, t) = tot
    BY SectorsApart DEF SectorTotal
  <2>2. /\ w \in [Symbols -> Int] /\ v \in [Symbols -> Int]
        /\ tot \in Nat /\ SectorTotal(v, s) \in Nat /\ MaxSector \in Nat
    BY <1>3, <1>5, SectorTotalNat DEF Weightings
  <2>3. CASE tot > MaxSector
    <3>1. ASSUME NEW t \in SectorOf(s)
          PROVE  tot * v[t] <= MaxSector * w[t]
      <4>1. v[t] = (w[t] * MaxSector) \div tot /\ w[t] \in Nat /\ tot \in Nat \ {0}
        BY <1>1, <1>3, <2>1, <2>3
      <4>2. QED
        <5> HIDE DEF tot
        <5>1. MaxSector \in Nat /\ MaxSector <= tot
          BY <2>2, <2>3
        <5>2. tot * ((w[t] * MaxSector) \div tot) <= MaxSector * w[t]
          BY <4>1, <5>1, ShareOf
        <5>3. QED
          BY <4>1, <5>2
    <3>2. tot * SectorTotal(v, s) <= MaxSector * tot
      <4> HIDE DEF tot
      <4>1. tot * SectorTotal(v, s) <= MaxSector * SectorTotal(w, s)
        <5>1. tot \in Int /\ MaxSector \in Int
          BY <2>2
        <5>2. \A t \in SectorOf(s) : tot * v[t] <= MaxSector * w[t]
          BY <3>1
        <5>3. QED
          BY <2>2, <5>1, <5>2, SectorTotalGrows, Zenon
      <4>2. QED
        BY <4>1 DEF tot
    <3>3. tot \in Nat \ {0}
      BY <1>3, <2>3
    <3>4. QED
      <4> HIDE DEF tot
      <4>1. QED
        BY <2>2, <3>2, <3>3, Cancel
  <2>4. CASE ~ (tot > MaxSector)
    <3>1. ASSUME NEW t \in SectorOf(s)
          PROVE  1 * v[t] <= 1 * w[t]
      BY <1>4, <2>1, <2>2
    <3>2. 1 * SectorTotal(v, s) <= 1 * SectorTotal(w, s)
      <4>1. 1 \in Int /\ \A t \in SectorOf(s) : 1 * v[t] <= 1 * w[t]
        BY <3>1
      <4>2. QED
        BY <2>2, <4>1, SectorTotalGrows, Zenon
    <3>3. QED
      BY <2>2, <2>4, <3>2
  <2>5. QED
    BY <2>3, <2>4
<1>7. QED
  BY <1>4, <1>5, <1>6 DEF v

\* Whether dust is dropped, the gross capped or directions given, no weight grows.
LEMMA NoDustBounds ==
  ASSUME NEW w \in Weightings
  PROVE  /\ NoDust(w) \in Weightings
         /\ \A s \in Symbols : NoDust(w)[s] <= w[s]
BY BookAssumption DEF NoDust, Weightings

LEMMA GrossCappedBounds ==
  ASSUME NEW w \in Weightings
  PROVE  /\ GrossCapped(w) \in Weightings
         /\ \A s \in Symbols : GrossCapped(w)[s] <= w[s]
<1>1. w \in [Symbols -> Int] /\ DOMAIN w = Symbols
  BY DEF Weightings
<1>2. IsBook(w) /\ \A s \in DOMAIN w : w[s] >= 0
  BY <1>1, WholeBook DEF Weightings
<1>3. Total(w) \in Nat
  BY <1>2, TotalNat
<1>4. CASE Total(w) > MaxGross
  <2>1. GrossCapped(w) = [s \in Symbols |-> (w[s] * MaxGross) \div Total(w)]
    BY <1>1, <1>4 DEF GrossCapped
  <2>2. /\ Total(w) \in Nat \ {0} /\ MaxGross \in Nat /\ MaxGross <= Total(w)
    BY <1>3, <1>4, BookAssumption
  <2>3. \A s \in Symbols : /\ (w[s] * MaxGross) \div Total(w) \in Nat
                           /\ (w[s] * MaxGross) \div Total(w) <= w[s]
    BY <2>2, ShareOf DEF Weightings
  <2>4. QED
    BY <2>1, <2>3 DEF Weightings
<1>5. CASE ~ (Total(w) > MaxGross)
  BY <1>5 DEF GrossCapped, Weightings
<1>6. QED
  BY <1>4, <1>5

LEMMA NetCappedBounds ==
  ASSUME NEW w \in [Symbols -> Int]
  PROVE  /\ NetCapped(w) \in [Symbols -> Int]
         /\ \A s \in Symbols : Abs(NetCapped(w)[s]) <= Abs(w[s])
<1> DEFINE net == Abs(Total(w))
<1>1. IsBook(w) /\ DOMAIN w = Symbols
  BY WholeBook
<1>2. net \in Nat
  BY <1>1, TotalInt DEF Abs
<1>3. CASE net > MaxNet
  <2> DEFINE part(n) == (n * MaxNet) \div net
  <2>1. NetCapped(w) = [s \in Symbols |-> IF w[s] < 0 THEN -part(-w[s]) ELSE part(w[s])]
    BY <1>1, <1>3 DEF NetCapped
  <2>2. net \in Nat \ {0} /\ MaxNet \in Nat /\ MaxNet <= net
    BY <1>2, <1>3, BookAssumption
  <2>3. ASSUME NEW n \in Nat
        PROVE  part(n) \in Nat /\ part(n) <= n
    <3> HIDE DEF net
    <3>1. QED
      BY <2>2, ShareOf
  <2> HIDE DEF part, net
  <2>4. ASSUME NEW n \in Int
        PROVE  /\ (IF n < 0 THEN -part(-n) ELSE part(n)) \in Int
               /\ Abs(IF n < 0 THEN -part(-n) ELSE part(n)) <= Abs(n)
    <3>1. CASE n < 0
      <4>1. -n \in Nat
        BY <3>1
      <4>2. part(-n) \in Nat /\ part(-n) <= -n
        BY <2>3, <4>1
      <4>3. QED
        BY <3>1, <4>2 DEF Abs
    <3>2. CASE ~ (n < 0)
      <4>1. n \in Nat
        BY <3>2
      <4>2. part(n) \in Nat /\ part(n) <= n
        BY <2>3, <4>1
      <4>3. QED
        BY <3>2, <4>2 DEF Abs
    <3>3. QED
      BY <3>1, <3>2
  <2>5. QED
    BY <2>1, <2>4
<1>4. CASE ~ (net > MaxNet)
  <2>1. NetCapped(w) = w
    BY <1>4 DEF NetCapped
  <2>2. \A s \in Symbols : Abs(w[s]) <= Abs(w[s])
    BY DEF Abs
  <2>3. QED
    BY <2>1, <2>2
<1>5. QED
  BY <1>3, <1>4

\* What a rebuild is given.
Requests(in) ==
  /\ in.vol \in VolMaps /\ in.dir \in Directions /\ in.scalar \in Scalars /\ in.days \in Days
  /\ in.dd \in Nat /\ in.current \in [Symbols -> Int]

\* A book that every ceiling holds for.
WithinCeilings(cap) ==
  /\ cap \in Weightings
  /\ \A s \in Symbols : cap[s] <= MaxPosition /\ SectorTotal(cap, s) <= MaxSector

\* The sized book stays below one, whichever ceiling came last.
LEMMA SizedBounds ==
  ASSUME NEW in, Requests(in)
  PROVE  /\ Sized(in) \in [Symbols -> Int]
         /\ \E cap : /\ WithinCeilings(cap)
                     /\ \A s \in Symbols : Abs(Sized(in)[s]) <= cap[s]
<1> DEFINE raw == Scaled(InverseVol(in.vol), in.scalar)
           ceiled == Ceiled(raw, in.days)
           cap == SectorCapped(ceiled)
           dusted == NoDust(cap)
           sized == GrossCapped(dusted)
           signed == [s \in Symbols |-> in.dir[s] * sized[s]]
<1>1. raw \in Weightings
  BY InverseVolWeighs, ScaledWeighs, BookAssumption DEF Requests
<1> HIDE DEF raw
<1>2. ceiled \in Weightings /\ \A s \in Symbols : ceiled[s] <= MaxPosition
  BY <1>1, CeiledBounds DEF Requests
<1> HIDE DEF ceiled
<1>3. /\ cap \in Weightings
      /\ \A s \in Symbols : cap[s] <= ceiled[s] /\ SectorTotal(cap, s) <= MaxSector
  BY <1>2, SectorCappedBounds
<1> HIDE DEF cap
<1>4. dusted \in Weightings /\ \A s \in Symbols : dusted[s] <= cap[s]
  BY <1>3, NoDustBounds
<1> HIDE DEF dusted
<1>5. sized \in Weightings /\ \A s \in Symbols : sized[s] <= dusted[s]
  BY <1>4, GrossCappedBounds
<1> HIDE DEF sized
<1>6. /\ signed \in [Symbols -> Int]
      /\ \A s \in Symbols : Abs(signed[s]) <= sized[s]
  <2>1. ASSUME NEW s \in Symbols
        PROVE  in.dir[s] * sized[s] \in Int /\ Abs(in.dir[s] * sized[s]) <= sized[s]
    <3>1. in.dir[s] \in -1 .. 1 /\ sized[s] \in Nat
      BY <1>5, BookAssumption DEF Requests, Weightings
    <3>2. \/ in.dir[s] = -1
          \/ in.dir[s] = 0
          \/ in.dir[s] = 1
      BY <3>1
    <3>3. QED
      BY <3>1, <3>2 DEF Abs
  <2>2. QED
    BY <2>1
<1>7. Sized(in) = NetCapped(signed)
  <2>1. DOMAIN sized = Symbols
    BY <1>5 DEF Weightings
  <2>2. QED
    BY <2>1 DEF Sized, Ceilings, sized, dusted, cap, ceiled, raw
<1> HIDE DEF signed
<1>8. /\ NetCapped(signed) \in [Symbols -> Int]
      /\ \A s \in Symbols : Abs(NetCapped(signed)[s]) <= Abs(signed[s])
  BY <1>6, NetCappedBounds
<1>9. WithinCeilings(cap)
  <2>1. ASSUME NEW s \in Symbols
        PROVE  cap[s] <= MaxPosition
    <3>1. cap[s] \in Nat /\ ceiled[s] \in Nat /\ MaxPosition \in Nat
      BY <1>2, <1>3, BookAssumption DEF Weightings
    <3>2. QED
      BY <1>2, <1>3, <3>1
  <2>2. QED
    BY <1>3, <2>1 DEF WithinCeilings
<1>10. ASSUME NEW s \in Symbols
       PROVE  Abs(NetCapped(signed)[s]) <= cap[s]
  <2>1. /\ NetCapped(signed)[s] \in Int /\ signed[s] \in Int
        /\ sized[s] \in Nat /\ dusted[s] \in Nat /\ cap[s] \in Nat
    BY <1>3, <1>4, <1>5, <1>6, <1>8 DEF Weightings
  <2>2. /\ Abs(NetCapped(signed)[s]) \in Int /\ Abs(signed[s]) \in Int
    BY <2>1 DEF Abs
  <2>3. QED
    BY <1>4, <1>5, <1>6, <1>8, <2>1, <2>2
<1>11. QED
  BY <1>7, <1>8, <1>9, <1>10

\* The ladder permits a percentage.
LEMMA PermittedIsPercent ==
  ASSUME NEW dd \in Nat
  PROVE  Permitted(dd) \in 0 .. 100
<1> DEFINE reached == {t \in DOMAIN Ladder : dd >= t}
           below == {dd - t : t \in reached}
<1>1. CASE reached = {}
  BY <1>1 DEF Permitted
<1>2. CASE reached # {}
  <2>1. reached \subseteq Nat /\ \A t \in reached : dd - t \in Nat
    BY BookAssumption
  <2>2. below \subseteq Nat /\ below # {}
    BY <1>2, <2>1
  <2>3. PICK n \in below : \A m \in below : n <= m
    <3> HIDE DEF below
    <3>1. QED
      BY <2>2, LeastNatural
  <2>4. PICK t \in reached : n = dd - t
    BY <2>3
  <2>5. \A u \in reached : u <= t
    <3>1. ASSUME NEW u \in reached
          PROVE  u <= t
      <4>1. dd - t <= dd - u
        BY <2>3, <2>4
      <4>2. u \in Nat /\ t \in Nat
        BY <2>1
      <4>3. QED
        BY <4>1, <4>2
    <3>2. QED
      BY <3>1
  <2> DEFINE top == CHOOSE v \in reached : \A u \in reached : u <= v
  <2>6. top \in reached
    BY <2>5
  <2>7. Permitted(dd) = Ladder[top]
    BY <1>2 DEF Permitted
  <2>8. QED
    <3> HIDE DEF top
    <3>1. QED
      BY <2>6, <2>7, BookAssumption
<1>3. QED
  BY <1>1, <1>2

LEMMA DeriskedBounds ==
  ASSUME NEW w \in [Symbols -> Int], NEW pct \in 0 .. 100
  PROVE  /\ Derisked(w, pct) \in [Symbols -> Int]
         /\ \A s \in Symbols : /\ Abs(Derisked(w, pct)[s]) <= Abs(w[s])
                               /\ 100 * Abs(Derisked(w, pct)[s]) <= pct * Abs(w[s])
<1> DEFINE part(n) == (n * pct) \div 100
<1>1. Derisked(w, pct) = [s \in Symbols |-> IF w[s] < 0 THEN -part(-w[s]) ELSE part(w[s])]
  BY DEF Derisked
<1>2. ASSUME NEW n \in Nat
      PROVE  /\ part(n) \in Nat
             /\ part(n) <= n
             /\ 100 * part(n) <= pct * n
  <2>1. /\ pct \in Nat /\ pct <= 100
        /\ 100 \in Nat \ {0}
    OBVIOUS
  <2>2. QED
    BY <2>1, ShareOf, Zenon
<1> HIDE DEF part
<1>3. ASSUME NEW n \in Int
      PROVE  /\ (IF n < 0 THEN -part(-n) ELSE part(n)) \in Int
             /\ Abs(IF n < 0 THEN -part(-n) ELSE part(n)) <= Abs(n)
             /\ 100 * Abs(IF n < 0 THEN -part(-n) ELSE part(n)) <= pct * Abs(n)
  <2>1. CASE n < 0
    <3>1. -n \in Nat
      BY <2>1
    <3>2. part(-n) \in Nat /\ part(-n) <= -n /\ 100 * part(-n) <= pct * (-n)
      BY <1>2, <3>1
    <3>3. Abs(n) = -n /\ Abs(-part(-n)) = part(-n)
      BY <2>1, <3>2 DEF Abs
    <3>4. QED
      BY <2>1, <3>2, <3>3
  <2>2. CASE ~ (n < 0)
    <3>1. n \in Nat
      BY <2>2
    <3>2. part(n) \in Nat /\ part(n) <= n /\ 100 * part(n) <= pct * n
      BY <1>2, <3>1
    <3>3. Abs(n) = n /\ Abs(part(n)) = part(n)
      BY <2>2, <3>2 DEF Abs
    <3>4. QED
      BY <2>2, <3>2, <3>3
  <2>3. QED
    BY <2>1, <2>2
<1>4. QED
  BY <1>1, <1>3

LEMMA AllocateIsBook ==
  ASSUME NEW in, Requests(in)
  PROVE  Allocate(in) \in [Symbols -> Int]
<1>1. Sized(in) \in [Symbols -> Int] /\ Permitted(in.dd) \in 0 .. 100
  BY SizedBounds, PermittedIsPercent DEF Requests
<1>2. Banded(Sized(in), in.current) \in [Symbols -> Int]
  BY <1>1 DEF Banded, Requests
<1>3. Derisked(Sized(in), Permitted(in.dd)) \in [Symbols -> Int]
  BY <1>1, DeriskedBounds
<1>4. QED
  BY <1>2, <1>3 DEF Allocate

\* A weight that allocate moves comes from the sized book, cut or not.
LEMMA MovedIsSized ==
  ASSUME NEW in, Requests(in), NEW s \in Symbols, Allocate(in)[s] # in.current[s]
  PROVE  Abs(Allocate(in)[s]) <= Abs(Sized(in)[s])
<1>1. Sized(in) \in [Symbols -> Int] /\ Permitted(in.dd) \in 0 .. 100
  BY SizedBounds, PermittedIsPercent DEF Requests
<1>2. CASE Permitted(in.dd) = 100
  <2>1. Allocate(in)[s] = Sized(in)[s]
    BY <1>1, <1>2 DEF Allocate, Banded
  <2>2. Abs(Sized(in)[s]) <= Abs(Sized(in)[s])
    BY <1>1 DEF Abs
  <2>3. QED
    BY <2>1, <2>2
<1>3. CASE Permitted(in.dd) # 100
  BY <1>1, <1>3, DeriskedBounds DEF Allocate
<1>4. QED
  BY <1>2, <1>3

\* The first of the book's promises, of an allocation.
LEMMA AllocateWithinLimits ==
  ASSUME NEW in, Requests(in)
  PROVE  LET new == Allocate(in)
             bound == {s \in Symbols : new[s] # in.current[s]}
         IN  /\ \A s \in bound : Abs(new[s]) <= MaxPosition
             /\ \A s \in bound : SectorOf(s) \subseteq bound =>
                    Gross(Restrict(new, SectorOf(s))) <= MaxSector
<1> DEFINE new == Allocate(in)
           bound == {s \in Symbols : new[s] # in.current[s]}
<1>1. new \in [Symbols -> Int] /\ Sized(in) \in [Symbols -> Int]
  BY AllocateIsBook, SizedBounds
<1>2. PICK cap : /\ WithinCeilings(cap)
                 /\ \A s \in Symbols : Abs(Sized(in)[s]) <= cap[s]
  BY SizedBounds
<1>3. ASSUME NEW s \in bound
      PROVE  /\ s \in Symbols /\ Abs(new[s]) \in Nat /\ Abs(new[s]) <= cap[s]
             /\ cap[s] \in Nat
  <2>1. Abs(new[s]) <= Abs(Sized(in)[s]) /\ Abs(Sized(in)[s]) <= cap[s]
    BY <1>2, MovedIsSized
  <2>2. Abs(new[s]) \in Nat /\ Abs(Sized(in)[s]) \in Nat /\ cap[s] \in Nat
    BY <1>1, <1>2 DEF Abs, WithinCeilings, Weightings
  <2>3. QED
    BY <2>1, <2>2
<1> HIDE DEF new
<1>4. ASSUME NEW s \in bound
      PROVE  Abs(new[s]) <= MaxPosition
  <2>1. cap[s] <= MaxPosition /\ MaxPosition \in Nat
    BY <1>2, BookAssumption DEF WithinCeilings
  <2>2. QED
    BY <1>3, <2>1
<1>5. ASSUME NEW s \in bound, SectorOf(s) \subseteq bound
      PROVE  Gross(Restrict(new, SectorOf(s))) <= MaxSector
  <2> DEFINE sizes == [t \in Symbols |-> Abs(new[t])]
  <2>1. sizes \in [Symbols -> Int] /\ cap \in [Symbols -> Int]
    BY <1>1, <1>2 DEF Abs, WithinCeilings, Weightings
  <2>2. Gross(Restrict(new, SectorOf(s))) = SectorTotal(sizes, s)
    <3>1. \A t \in SectorOf(s) : sizes[t] = Abs(new[t])
      BY SectorsApart
    <3>2. Restrict(sizes, SectorOf(s)) = [t \in SectorOf(s) |-> Abs(Restrict(new, SectorOf(s))[t])]
      <4> HIDE DEF sizes
      <4>1. QED
        BY <3>1 DEF Restrict
    <3>3. DOMAIN Restrict(new, SectorOf(s)) = SectorOf(s)
      BY DEF Restrict
    <3>4. QED
      <4> HIDE DEF sizes
      <4>1. QED
        BY <3>2, <3>3 DEF Gross, SectorTotal
  <2>3. \A t \in SectorOf(s) : 1 * sizes[t] <= 1 * cap[t]
    BY <1>3, <1>5
  <2>4. s \in Symbols /\ 1 \in Int
    OBVIOUS
  <2>5. 1 * SectorTotal(sizes, s) <= 1 * SectorTotal(cap, s)
    <3> HIDE DEF sizes, bound
    <3>1. QED
      BY <2>1, <2>3, <2>4, SectorTotalGrows, Zenon
  <2>6. /\ SectorTotal(cap, s) \in Nat /\ SectorTotal(cap, s) <= MaxSector
        /\ MaxSector \in Nat
    BY <1>2, <2>4, SectorTotalNat, BookAssumption DEF WithinCeilings
  <2>7. SectorTotal(sizes, s) \in Nat
    <3>1. sizes \in Weightings
      BY <1>1 DEF Abs, Weightings
    <3>2. QED
      <4> HIDE DEF sizes
      <4>1. QED
        BY <2>4, <3>1, SectorTotalNat
  <2>8. QED
    <3> HIDE DEF sizes
    <3>1. QED
      BY <2>2, <2>5, <2>6, <2>7
<1>6. QED
  BY <1>4, <1>5 DEF new

\* The second: the cut is that of the gross that would have been.
LEMMA AllocateDelivers ==
  ASSUME NEW in, Requests(in), Permitted(in.dd) < 100
  PROVE  Gross(Allocate(in)) * 100 <= Permitted(in.dd) * Gross(Sized(in))
<1> DEFINE pct == Permitted(in.dd)
           new == Allocate(in)
           full == Sized(in)
           p == [s \in Symbols |-> Abs(new[s])]
           q == [s \in Symbols |-> Abs(full[s])]
<1>1. pct \in 0 .. 100 /\ pct # 100
  BY PermittedIsPercent DEF Requests
<1>2. full \in [Symbols -> Int] /\ new \in [Symbols -> Int]
  BY SizedBounds, AllocateIsBook
<1>3. new = Derisked(full, pct)
  BY <1>1 DEF Allocate
<1> HIDE DEF pct, new, full
<1>4. \A s \in Symbols : 100 * p[s] <= pct * q[s]
  BY <1>1, <1>2, <1>3, DeriskedBounds
<1>5. p \in [Symbols -> Int] /\ q \in [Symbols -> Int]
  BY <1>2 DEF Abs
<1>6. Gross(new) = Total(p) /\ Gross(full) = Total(q)
  BY <1>2 DEF Gross
<1> HIDE DEF p, q
<1>7. /\ IsBook(p) /\ DOMAIN p = Symbols
      /\ IsBook(q) /\ DOMAIN q = Symbols
      /\ 100 \in Int /\ pct \in Int
  BY <1>1, <1>5, WholeBook
<1>8. \A s \in DOMAIN p : 100 * p[s] <= pct * q[s]
  BY <1>4, <1>7
<1>9. 100 * Total(p) <= pct * Total(q)
  BY <1>7, <1>8, TotalsCompare, Zenon
<1>10. Total(p) * 100 = 100 * Total(p)
  BY <1>7, TotalInt
<1>11. QED
  BY <1>6, <1>9, <1>10 DEF pct, new, full

\* The third: no more than what may be spent is needed, whatever was put off.
LEMMA FundedNeeds ==
  ASSUME NEW w, IsBook(w), NEW holding \in [Symbols -> Int], DOMAIN w \subseteq Symbols,
         NEW available \in Nat
  PROVE  Needed(Funded(w, holding, available), holding) <= available
<1> DEFINE needed == Needed(w, holding)
           new == Funded(w, holding, available)
           S == DOMAIN w
           p == [s \in S |-> Most(0, Delta(w, holding, s))]
           q == [s \in S |-> Most(0, Delta(new, holding, s))]
<1>1. \A s \in S : w[s] \in Int /\ holding[s] \in Int
  BY DEF IsBook
<1>2. IsFiniteSet(S)
  BY DEF IsBook
<1>3. \A s \in S : p[s] \in Nat
  BY <1>1 DEF Most, Delta
<1>4. needed = Total(p)
  BY DEF Needed
<1>5. IsBook(p) /\ DOMAIN p = S
  <2> HIDE DEF S
  <2>1. QED
    BY <1>2, <1>3 DEF IsBook
<1>6. needed \in Nat
  <2> HIDE DEF p, needed, S
  <2>1. QED
    BY <1>3, <1>4, <1>5, TotalNat
<1>7. CASE needed <= available \/ needed = 0
  <2>1. new = w
    BY <1>7 DEF Funded
  <2>2. needed <= available
    <3> HIDE DEF needed
    <3>1. QED
      BY <1>6, <1>7
  <2>3. QED
    BY <2>1, <2>2
<1>8. CASE ~ (needed <= available \/ needed = 0)
  <2>1. new = [s \in S |-> IF Delta(w, holding, s) > 0
                           THEN holding[s] + (Delta(w, holding, s) * available) \div needed
                           ELSE w[s]]
    BY <1>8 DEF Funded
  <2>2. needed \in Nat \ {0} /\ available <= needed
    <3> HIDE DEF needed
    <3>1. QED
      BY <1>6, <1>8
  <2>3. ASSUME NEW s \in S
        PROVE  q[s] \in Nat /\ needed * q[s] <= available * p[s]
    <3> DEFINE d == Delta(w, holding, s)
               e == Delta(new, holding, s)
    <3>1. d \in Int /\ d = w[s] - holding[s] /\ holding[s] \in Int /\ w[s] \in Int
      BY <1>1 DEF Delta
    <3>2. new[s] = IF d > 0 THEN holding[s] + (d * available) \div needed ELSE w[s]
      BY <2>1
    <3>3. p[s] = Most(0, d) /\ q[s] = Most(0, e) /\ e = new[s] - holding[s]
      BY DEF Delta
    <3> HIDE DEF needed, p, q, new, d, e
    <3>4. CASE d > 0
      <4>1. d \in Nat
        BY <3>1, <3>4
      <4>2. /\ (d * available) \div needed \in Nat
            /\ needed * ((d * available) \div needed) <= available * d
        BY <2>2, <4>1, ShareOf
      <4>3. e = (d * available) \div needed
        BY <3>1, <3>2, <3>3, <3>4, <4>2
      <4>4. q[s] = e /\ p[s] = d
        BY <3>3, <4>1, <4>2, <4>3, <3>4 DEF Most
      <4>5. QED
        BY <4>2, <4>3, <4>4
    <3>5. CASE ~ (d > 0)
      <4>1. e = d
        BY <3>1, <3>2, <3>3, <3>5
      <4>2. q[s] = 0 /\ p[s] = 0
        BY <3>1, <3>3, <3>5, <4>1 DEF Most
      <4>3. needed * 0 = 0 /\ available * 0 = 0
        BY <2>2
      <4>4. QED
        BY <4>2, <4>3
    <3>6. QED
      BY <3>4, <3>5
  <2>4. IsBook(q) /\ DOMAIN q = S
    <3>1. \A s \in S : q[s] \in Int
      BY <2>3
    <3>2. q = [s \in S |-> q[s]] /\ DOMAIN q = S
      OBVIOUS
    <3> HIDE DEF S, q
    <3>3. QED
      BY <1>2, <3>1, <3>2 DEF IsBook
  <2>5. Needed(new, holding) = Total(q)
    <3>1. DOMAIN new = S
      BY <2>1
    <3>2. QED
      BY <3>1 DEF Needed
  <2>6. needed * Total(q) <= available * needed
    <3>1. \A s \in DOMAIN q : needed * q[s] <= available * p[s]
      BY <2>3, <2>4
    <3>2. needed \in Int /\ available \in Int
      BY <2>2
    <3> HIDE DEF needed, p, q, S
    <3>3. needed * Total(q) <= available * Total(p)
      BY <1>5, <2>4, <3>1, <3>2, TotalsCompare, Zenon
    <3>4. QED
      BY <1>4, <3>3
  <2>7. Total(q) \in Int
    BY <2>4, TotalInt
  <2>8. Total(q) <= available
    <3> HIDE DEF q, needed
    <3>1. QED
      BY <2>2, <2>6, <2>7, Cancel
  <2>9. QED
    BY <2>5, <2>8
<1>9. QED
  BY <1>7, <1>8

LEMMA PlanNeeds ==
  ASSUME NEW targets, DOMAIN targets \subseteq Symbols,
         \A s \in DOMAIN targets : targets[s] \in Int,
         NEW holding \in [Symbols -> Int], NEW since,
         NEW a \in Accounts, PlanRebalance(targets, holding, since, a).available >= 0
  PROVE  Needed(PlanRebalance(targets, holding, since, a).reachable, holding)
           <= PlanRebalance(targets, holding, since, a).available
<1> DEFINE deferred == Deferred(targets, holding, since, a)
           kept == [s \in DOMAIN targets \ deferred |-> targets[s]]
           available == IF a.margin THEN a.cash ELSE a.settled
<1>1. /\ PlanRebalance(targets, holding, since, a).available = available
      /\ PlanRebalance(targets, holding, since, a).reachable = Funded(kept, holding, available)
  BY DEF PlanRebalance, BuyingPower
<1> HIDE DEF deferred
<1>2. IsBook(kept) /\ DOMAIN kept \subseteq Symbols
  <2>1. DOMAIN targets \ deferred \subseteq Symbols
    OBVIOUS
  <2>2. IsFiniteSet(DOMAIN targets \ deferred)
    BY <2>1, SymbolsFinite, FS_Subset
  <2>3. /\ DOMAIN kept = DOMAIN targets \ deferred /\ kept = [s \in DOMAIN kept |-> kept[s]]
        /\ \A s \in DOMAIN kept : kept[s] \in Int
    OBVIOUS
  <2> HIDE DEF kept
  <2>4. QED
    BY <2>1, <2>2, <2>3 DEF IsBook
<1>3. available \in Nat
  <2>1. available \in Int
    BY BookAssumption
  <2>2. QED
    BY <1>1, <2>1
<1> HIDE DEF kept, available
<1>4. QED
  BY <1>1, <1>2, <1>3, FundedNeeds

LEMMA LinesAreOfSymbols ==
  ASSUME NEW w \in [Symbols -> Int]
  PROVE  /\ DOMAIN Lines(w) \subseteq Symbols
         /\ \A s \in DOMAIN Lines(w) : Lines(w)[s] \in Int
BY DEF Lines, Restrict

\* A rebuild is kept with what it was asked, the weights have not moved since, and
\* its plan is one of them.
RequestRecords ==
  [vol : VolMaps, dir : Directions, scalar : Scalars, days : Days, dd : Nat,
   current : [Symbols -> Int], today : SUBSET Symbols]

BookInv ==
  /\ drawdown \in Nat /\ held \in [Symbols -> Int] /\ openedToday \subseteq Symbols
  /\ HasBook => /\ asked \in RequestRecords
                /\ asked.current = held
                /\ result = Allocate(asked)
                /\ plan.available >= 0 => Needed(plan.reachable, held) <= plan.available
  /\ ~HasBook => plan = NoPlan

LEMMA NoPlanNeedsNothing ==
  ASSUME NEW holding
  PROVE  NoPlan.available = 0 /\ Needed(NoPlan.reachable, holding) = 0
<1> DEFINE empty == [s \in {} |-> Most(0, Delta(NoPlan.reachable, holding, s))]
<1>1. IsBook(empty) /\ DOMAIN empty = {}
  BY FS_EmptySet DEF IsBook
<1>2. Needed(NoPlan.reachable, holding) = Total(empty)
  BY DEF Needed, NoPlan
<1>3. PICK g : SumsUp(g, empty, {}) /\ Total(empty) = g[{}]
  <2> HIDE DEF empty
  <2>1. QED
    BY <1>1, TotalSums
<1>4. g[{}] = 0
  <2> HIDE DEF empty
  <2>1. QED
    BY <1>3, SumUnfolds
<1>5. QED
  BY <1>2, <1>3, <1>4 DEF NoPlan

\* What was opened today is not asked by allocate.
LEMMA AllocateIgnoresToday ==
  ASSUME NEW in \in RequestRecords, NEW since
  PROVE  Allocate([in EXCEPT !.today = since]) = Allocate(in)
<1> DEFINE new == [in EXCEPT !.today = since]
<1>1. /\ new.vol = in.vol /\ new.dir = in.dir /\ new.scalar = in.scalar
      /\ new.days = in.days /\ new.dd = in.dd /\ new.current = in.current
  BY DEF RequestRecords
<1> HIDE DEF new
<1>2. Sized(new) = Sized(in)
  BY <1>1 DEF Sized, Ceilings
<1>3. Allocate(new) = Allocate(in)
  BY <1>1, <1>2 DEF Allocate
<1>4. QED
  BY <1>3 DEF new

LEMMA RecordsAreRequests ==
  ASSUME NEW in \in RequestRecords
  PROVE  Requests(in)
BY DEF RequestRecords, Requests

LEMMA RebuildKeepsBook ==
  ASSUME BookInv, NEW vol \in VolMaps, NEW dir \in Directions, NEW scalar \in Scalars,
         NEW days \in Days, NEW account \in {{}} \cup {{a} : a \in Accounts},
         Rebuild(vol, dir, scalar, days, account)
  PROVE  BookInv'
<1>1. /\ asked' = [vol |-> vol, dir |-> dir, scalar |-> scalar, days |-> days,
                   dd |-> drawdown, current |-> held, today |-> {}]
      /\ result' = Allocate(asked') /\ ~HasBook
      /\ UNCHANGED <<drawdown, held, openedToday>>
      /\ plan' \in IF account = {} THEN {plan}
                   ELSE {PlanRebalance(Lines(result'), held, {}, a) : a \in account}
  BY DEF Rebuild, HasBook
<1>2. asked' \in RequestRecords /\ asked'.current = held
  BY <1>1 DEF RequestRecords, BookInv
<1>3. result' \in [Symbols -> Int]
  BY <1>1, <1>2, RecordsAreRequests, AllocateIsBook
<1>4. plan'.available >= 0 => Needed(plan'.reachable, held) <= plan'.available
  <2>1. CASE account = {}
    <3>1. plan' = NoPlan
      BY <1>1, <2>1 DEF BookInv
    <3>2. QED
      BY <3>1, NoPlanNeedsNothing
  <2>2. CASE account # {}
    <3>1. PICK a \in Accounts : plan' = PlanRebalance(Lines(result'), held, {}, a)
      BY <1>1, <2>2
    <3>2. /\ DOMAIN Lines(result') \subseteq Symbols
          /\ \A s \in DOMAIN Lines(result') : Lines(result')[s] \in Int
      BY <1>3, LinesAreOfSymbols
    <3>3. QED
      BY <3>1, <3>2, PlanNeeds DEF BookInv
  <2>3. QED
    BY <2>1, <2>2
<1>5. HasBook'
  BY <1>1 DEF HasBook, NotAsked
<1>6. QED
  BY <1>1, <1>2, <1>4, <1>5 DEF BookInv

LEMMA ReplanKeepsBook ==
  ASSUME BookInv, NEW a \in Accounts, Replan(a)
  PROVE  BookInv'
<1>1. /\ HasBook /\ asked' = [asked EXCEPT !.today = openedToday]
      /\ plan' = PlanRebalance(Lines(result), held, openedToday, a)
      /\ UNCHANGED <<drawdown, held, openedToday, result>>
  BY DEF Replan, HasBook
<1>2. /\ asked \in RequestRecords /\ asked.current = held /\ result = Allocate(asked)
      /\ held \in [Symbols -> Int] /\ openedToday \subseteq Symbols
  BY <1>1 DEF BookInv
<1>3. asked' \in RequestRecords /\ asked'.current = held
  BY <1>1, <1>2 DEF RequestRecords
<1>4. result' = Allocate(asked')
  BY <1>1, <1>2, AllocateIgnoresToday
<1>5. /\ DOMAIN Lines(result) \subseteq Symbols
      /\ \A s \in DOMAIN Lines(result) : Lines(result)[s] \in Int
  BY <1>2, RecordsAreRequests, AllocateIsBook, LinesAreOfSymbols
<1>6. plan'.available >= 0 => Needed(plan'.reachable, held) <= plan'.available
  BY <1>1, <1>2, <1>5, PlanNeeds
<1>7. HasBook'
  BY <1>3 DEF HasBook, NotAsked, RequestRecords
<1>8. QED
  BY <1>1, <1>2, <1>3, <1>4, <1>6, <1>7 DEF BookInv

LEMMA BookStep == BookInv /\ [BookNext]_bookVars => BookInv'
<1>1. SUFFICES ASSUME BookInv, [BookNext]_bookVars
               PROVE  BookInv'
  OBVIOUS
<1>2. CASE Tick
  BY <1>1, <1>2 DEF Tick, BookInv, HasBook
<1>3. ASSUME NEW pct \in Marks, Mark(pct)
      PROVE  BookInv'
  <2>1. 100 - pct \in Nat
    BY BookAssumption
  <2>2. QED
    BY <1>1, <1>3, <2>1 DEF Mark, BookInv, HasBook
<1>4. ASSUME NEW s \in Symbols, NEW w \in Holdings, Trade(s, w)
      PROVE  BookInv'
  <2>1. /\ ~HasBook /\ asked' = asked /\ plan' = plan /\ drawdown' = drawdown
        /\ held' = [held EXCEPT ![s] = w] /\ openedToday' \subseteq openedToday \cup {s}
    BY <1>4 DEF Trade, HasBook
  <2>2. held' \in [Symbols -> Int] /\ openedToday' \subseteq Symbols
    BY <1>1, <2>1, BookAssumption DEF BookInv
  <2>3. QED
    BY <1>1, <2>1, <2>2 DEF BookInv, HasBook
<1>5. CASE NextSession
  BY <1>1, <1>5 DEF NextSession, BookInv, HasBook
<1>6. CASE UNCHANGED bookVars
  BY <1>1, <1>6 DEF bookVars, BookInv, HasBook
<1>7. QED
  BY <1>1, <1>2, <1>3, <1>4, <1>5, <1>6, RebuildKeepsBook, ReplanKeepsBook DEF BookNext

LEMMA BookInvariant == BookSpec => []BookInv
<1>1. BookInit => BookInv
  BY DEF BookInit, BookInv, HasBook
<1>2. QED
  BY <1>1, BookStep, PTL DEF BookSpec

\* No ceiling of the book gives way to another: whatever the volatilities, signs,
\* ramp and drawdown are, a weight that allocate moves is within the ceiling of a
\* position, and a sector that it moves as a whole within that of a sector.
THEOREM BookKeepsLimits == BookSpec => []BookWithinLimits
<1>1. BookInv => BookWithinLimits
  <2>1. SUFFICES ASSUME BookInv, HasBook
                 PROVE  BookWithinLimits
    BY DEF BookWithinLimits
  <2>2. asked \in RequestRecords /\ result = Allocate(asked)
    BY <2>1 DEF BookInv
  <2>3. Requests(asked)
    BY <2>2, RecordsAreRequests
  <2>4. QED
    BY <2>2, <2>3, AllocateWithinLimits DEF BookWithinLimits
<1>2. QED
  BY <1>1, BookInvariant, PTL

\* In a drawdown the ladder's fraction is the fraction of the gross that lands: no
\* ceiling, band or rounding gives a part of the cut back.
THEOREM LadderLands == BookSpec => []DrawdownDelivers
<1>1. BookInv => DrawdownDelivers
  <2>1. SUFFICES ASSUME BookInv, HasBook
                 PROVE  DrawdownDelivers
    BY DEF DrawdownDelivers
  <2>2. asked \in RequestRecords /\ result = Allocate(asked)
    BY <2>1 DEF BookInv
  <2>3. Requests(asked)
    BY <2>2, RecordsAreRequests
  <2>4. QED
    BY <2>2, <2>3, AllocateDelivers DEF DrawdownDelivers
<1>2. QED
  BY <1>1, BookInvariant, PTL

\* What plan_rebalance leaves reachable can be bought with what may be spent today,
\* whatever is deferred and however the purchases have to be scaled down.
THEOREM PlanCanBePaid == BookSpec => []PlanIsFunded
<1>1. BookInv => PlanIsFunded
  BY DEF BookInv, PlanIsFunded
<1>2. QED
  BY <1>1, BookInvariant, PTL

--------------------------------------------------------------------------------
(* Scanner: the choice of what is scanned *)

\* What _diversify has chosen after one more candidate.
Extended(chosen, s, alike) ==
  IF \/ Len(chosen) = MaxCandidates
     \/ \E i \in DOMAIN chosen : {s, chosen[i]} \in alike
  THEN chosen ELSE Append(chosen, s)

\* f[k] is the choice among the first k candidates.
Growth(f, ranked, alike) ==
  /\ f[0] = <<>>
  /\ \A k \in 0..(Len(ranked) - 1) : f[k + 1] = Extended(f[k], ranked[k + 1], alike)

LEMMA DiversifiedIsStepwise ==
  ASSUME NEW S, NEW ranked \in Seq(S), NEW alike
  PROVE  \E f : Growth(f, ranked, alike) /\ Diversified(ranked, alike) = f[Len(ranked)]
<1> DEFINE n == Len(ranked)
           V == Seq(S)
           H == [i \in 1..n |-> [v \in V |-> Extended(v, ranked[i], alike)]]
           Fold(g) == g = [T \in SUBSET (1..n) |->
                             IF T = {} THEN <<>>
                             ELSE Extended(g[T \ {LastOf(T)}], ranked[LastOf(T)], alike)]
           g0 == CHOOSE g : Fold(g)
<1>1. n \in Nat /\ <<>> \in V /\ DOMAIN ranked = 1..n
  OBVIOUS
<1>2. ASSUME NEW i \in 1..n, NEW v \in V
      PROVE  H[i][v] = Extended(v, ranked[i], alike) /\ H[i][v] \in V
  <2>1. ranked[i] \in S OBVIOUS
  <2>2. Append(v, ranked[i]) \in V BY <2>1
  <2>3. Extended(v, ranked[i], alike) \in V BY <2>2 DEF Extended
  <2>4. QED BY <2>3
<1>3. \E g : FoldSolution(g, n, V, <<>>, H)
  <2>1. IsFold(n, V, <<>>, H)
    BY <1>1, <1>2 DEF IsFold
  <2> HIDE DEF n, V, H
  <2>2. QED BY <2>1, FoldExists
<1>4. \E g : Fold(g)
  <2>1. PICK g \in [SUBSET (1..n) -> V] : \A T \in SUBSET (1..n) :
               g[T] = IF T = {} THEN <<>> ELSE H[LastOf(T)][g[T \ {LastOf(T)}]]
    BY <1>3 DEF FoldSolution
  <2>2. ASSUME NEW T \in SUBSET (1..n), T # {}
        PROVE  g[T] = Extended(g[T \ {LastOf(T)}], ranked[LastOf(T)], alike)
    <3>1. LastOf(T) \in 1..n
      <4>1. LastOf(T) \in T BY <1>1, <2>2, LastIsThere
      <4>2. QED BY <4>1
    <3>2. g[T \ {LastOf(T)}] \in V BY <2>1
    <3>3. g[T] = H[LastOf(T)][g[T \ {LastOf(T)}]] BY <2>1, <2>2
    <3>4. QED
      <4> HIDE DEF H, V, n
      <4> QED BY <1>2, <3>1, <3>2, <3>3
  <2>3. Fold(g)
    <3> HIDE DEF H, V, n
    <3> QED BY <2>1, <2>2
  <2>4. QED BY <2>3
<1>5. Fold(g0)
  <2> HIDE DEF Fold
  <2> QED BY <1>4
<1>6. Diversified(ranked, alike) = g0[1..n]
  BY <1>1 DEF Diversified, FoldLeft, MapThenFoldSet, Max, LastOf, Extended
<1> DEFINE f == [k \in 0..n |-> g0[1..k]]
<1>7. f[0] = <<>>
  <2>1. 1..0 = {} /\ {} \in SUBSET (1..n) OBVIOUS
  <2>2. g0[{}] = <<>> BY <1>5
  <2>3. QED BY <1>1, <2>1, <2>2
<1>8. ASSUME NEW k \in 0..(n - 1) PROVE f[k + 1] = Extended(f[k], ranked[k + 1], alike)
  <2>1. /\ k \in Nat /\ k \in 0..n /\ k + 1 \in 0..n
        /\ 1..(k + 1) \in SUBSET (1..n) /\ 1..(k + 1) # {}
    <3> HIDE DEF n, f
    <3>1. k \in Nat /\ k \in 0..n /\ k + 1 \in 0..n BY <1>1
    <3>2. 1 \in 1..(k + 1) BY <3>1
    <3>3. \A i \in 1..(k + 1) : i \in 1..n BY <1>1, <3>1
    <3>4. QED BY <3>1, <3>2, <3>3
  <2>2. LastOf(1..(k + 1)) = k + 1 /\ (1..(k + 1)) \ {k + 1} = 1..k
    BY <2>1, LastOfPrefix
  <2>3. g0[1..(k + 1)] = Extended(g0[(1..(k + 1)) \ {LastOf(1..(k + 1))}],
                                  ranked[LastOf(1..(k + 1))], alike)
    <3> HIDE DEF n, g0
    <3> QED BY <1>5, <2>1
  <2>4. QED
    <3> HIDE DEF n, g0
    <3> QED BY <2>1, <2>2, <2>3
<1>9. f[n] = g0[1..n]
  BY <1>1
<1>10. Growth(f, ranked, alike) /\ Diversified(ranked, alike) = f[Len(ranked)]
  <2> HIDE DEF f, g0
  <2> QED BY <1>6, <1>7, <1>8, <1>9 DEF Growth
<1>11. QED
  <2> HIDE DEF f
  <2> QED BY <1>10

--------------------------------------------------------------------------------
\* What _diversify has made of the first k candidates: no choice is alike another,
\* and while there is room nothing is left out that is not represented.
ChoicesSoFar(chosen, k, S, ranked, alike) ==
  /\ chosen \in Seq(S) /\ Len(chosen) <= MaxCandidates
  /\ \A i, j \in DOMAIN chosen : {chosen[i], chosen[j]} \notin alike
  /\ Len(chosen) < MaxCandidates =>
       \A i \in 1..k : \/ \E j \in DOMAIN chosen : chosen[j] = ranked[i]
                       \/ \E j \in DOMAIN chosen : {ranked[i], chosen[j]} \in alike

LEMMA OneMoreChoice ==
  ASSUME NEW S, NEW ranked \in Seq(S), NEW alike, \A s : {s} \notin alike,
         NEW k \in 0..(Len(ranked) - 1), NEW chosen,
         ChoicesSoFar(chosen, k, S, ranked, alike)
  PROVE  ChoicesSoFar(Extended(chosen, ranked[k + 1], alike), k + 1, S, ranked, alike)
<1> DEFINE s == ranked[k + 1]
           more == Append(chosen, s)
<1>1. /\ k + 1 \in DOMAIN ranked /\ s \in S /\ k \in Nat
      /\ \A i \in 1..(k + 1) : i \in 1..k \/ i = k + 1
  OBVIOUS
<1>2. /\ chosen \in Seq(S) /\ Len(chosen) \in Nat /\ DOMAIN chosen = 1..Len(chosen)
      /\ Len(chosen) <= MaxCandidates /\ MaxCandidates \in Nat
  <2>1. MaxCandidates \in Nat BY ScannerAssumption
  <2>2. QED BY <2>1 DEF ChoicesSoFar
<1>3. CASE Len(chosen) = MaxCandidates
  <2>1. Extended(chosen, s, alike) = chosen BY <1>3 DEF Extended
  <2>2. QED
    <3> HIDE DEF s
    <3> QED BY <1>2, <1>3, <2>1 DEF ChoicesSoFar, s
<1>4. CASE Len(chosen) # MaxCandidates /\ \E i \in DOMAIN chosen : {s, chosen[i]} \in alike
  <2>1. Extended(chosen, s, alike) = chosen BY <1>4 DEF Extended
  <2>2. \A i \in 1..(k + 1) : \/ \E j \in DOMAIN chosen : chosen[j] = ranked[i]
                             \/ \E j \in DOMAIN chosen : {ranked[i], chosen[j]} \in alike
    <3>1. Len(chosen) < MaxCandidates
      <4>1. Len(chosen) # MaxCandidates BY <1>4
      <4>2. /\ Len(chosen) \in Nat /\ MaxCandidates \in Nat
            /\ Len(chosen) <= MaxCandidates
        BY <1>2
      <4>3. QED BY <4>1, <4>2
    <3>2. QED BY <1>1, <1>4, <3>1 DEF ChoicesSoFar
  <2>3. QED
    BY <2>1, <2>2 DEF ChoicesSoFar
<1>5. CASE Len(chosen) # MaxCandidates /\ ~(\E i \in DOMAIN chosen : {s, chosen[i]} \in alike)
  <2>1. Extended(chosen, s, alike) = more BY <1>5 DEF Extended
  <2>2. /\ more \in Seq(S) /\ Len(more) = Len(chosen) + 1
        /\ DOMAIN more = 1..(Len(chosen) + 1)
        /\ more[Len(chosen) + 1] = s
        /\ \A i \in DOMAIN chosen : i \in DOMAIN more /\ more[i] = chosen[i]
        /\ \A i \in DOMAIN more : i \in DOMAIN chosen \/ i = Len(chosen) + 1
    <3> HIDE DEF s
    <3> QED BY <1>1, <1>2
  <2> HIDE DEF more, s
  <2>3. Len(more) <= MaxCandidates
    <3>1. Len(chosen) # MaxCandidates BY <1>5
    <3>2. Len(more) = Len(chosen) + 1 BY <2>2
    <3>3. /\ Len(chosen) \in Nat /\ MaxCandidates \in Nat
          /\ Len(chosen) <= MaxCandidates
      BY <1>2
    <3>4. QED BY <3>1, <3>2, <3>3
  <2>4. ASSUME NEW i \in DOMAIN more, NEW j \in DOMAIN more
        PROVE  {more[i], more[j]} \notin alike
    <3>1. \A m \in DOMAIN chosen : {s, chosen[m]} \notin alike /\ {chosen[m], s} \notin alike
      <4>1. \A m \in DOMAIN chosen : {s, chosen[m]} = {chosen[m], s} OBVIOUS
      <4>2. QED BY <1>5, <4>1
    <3>2. {s, s} \notin alike
      <4>1. {s, s} = {s} OBVIOUS
      <4>2. QED BY <4>1
    <3>3. QED BY <2>2, <3>1, <3>2 DEF ChoicesSoFar
  <2>5. ASSUME Len(more) < MaxCandidates, NEW i \in 1..(k + 1)
        PROVE  \/ \E j \in DOMAIN more : more[j] = ranked[i]
               \/ \E j \in DOMAIN more : {ranked[i], more[j]} \in alike
    <3>1. CASE i = k + 1
      <4>1. Len(chosen) + 1 \in DOMAIN more BY <1>2, <2>2
      <4>2. QED BY <2>2, <3>1, <4>1 DEF s
    <3>2. CASE i \in 1..k
      <4>1. Len(chosen) < MaxCandidates
        <5>1. Len(more) = Len(chosen) + 1 /\ Len(more) < MaxCandidates BY <2>2, <2>5
        <5>2. Len(chosen) \in Nat /\ MaxCandidates \in Nat BY <1>2
        <5>3. QED BY <5>1, <5>2
      <4>2. \/ \E j \in DOMAIN chosen : chosen[j] = ranked[i]
            \/ \E j \in DOMAIN chosen : {ranked[i], chosen[j]} \in alike
        BY <3>2, <4>1 DEF ChoicesSoFar
      <4>3. QED BY <2>2, <4>2
    <3>3. QED BY <1>1, <3>1, <3>2
  <2>6. ChoicesSoFar(more, k + 1, S, ranked, alike)
    BY <2>2, <2>3, <2>4, <2>5 DEF ChoicesSoFar
  <2>7. QED
    BY <2>1, <2>6 DEF s
<1>6. QED
  BY <1>3, <1>4, <1>5

LEMMA DiversifiedIsSound ==
  ASSUME NEW S, NEW ranked \in Seq(S), NEW alike, \A s : {s} \notin alike
  PROVE  ChoicesSoFar(Diversified(ranked, alike), Len(ranked), S, ranked, alike)
<1>1. PICK f : Growth(f, ranked, alike) /\ Diversified(ranked, alike) = f[Len(ranked)]
  BY DiversifiedIsStepwise
<1> DEFINE Sound(k) == k <= Len(ranked) => ChoicesSoFar(f[k], k, S, ranked, alike)
           T == {k \in Nat : Sound(k)}
<1>2. Len(ranked) \in Nat
  OBVIOUS
<1>3. 0 \in T
  <2>1. ChoicesSoFar(<<>>, 0, S, ranked, alike)
    BY ScannerAssumption DEF ChoicesSoFar
  <2>2. QED BY <1>1, <2>1 DEF Growth
<1>4. ASSUME NEW k \in Nat, k \in T PROVE k + 1 \in T
  <2>1. SUFFICES ASSUME k + 1 <= Len(ranked) PROVE ChoicesSoFar(f[k + 1], k + 1, S, ranked, alike)
    OBVIOUS
  <2>2. k \in 0..(Len(ranked) - 1) /\ k <= Len(ranked)
    BY <1>2, <2>1
  <2>3. ChoicesSoFar(f[k], k, S, ranked, alike)
    BY <1>4, <2>2
  <2>4. f[k + 1] = Extended(f[k], ranked[k + 1], alike)
    BY <1>1, <2>2 DEF Growth
  <2>5. QED
    BY <2>2, <2>3, <2>4, OneMoreChoice
<1>5. Nat \subseteq T
  <2> HIDE DEF T
  <2> QED BY <1>3, <1>4, SetOfAllNaturals
<1>6. QED
  BY <1>1, <1>2, <1>5

\* The seven filters have names of their own.
LEMMA ReasonIsAFilter ==
  ASSUME NEW s, NEW quoted \in BOOLEAN
  PROVE  Reason(s, quoted) # "correlated with a selection"
<1> DEFINE applied == IF quoted THEN 1..7 ELSE 3..7
           fails == {i \in applied : Filters[i] \in history[s].read.fails}
           first == CHOOSE i \in fails : \A j \in fails : i <= j
<1>1. fails \subseteq 1..7
  OBVIOUS
<1>2. Reason(s, quoted) = IF fails = {} THEN Passed ELSE Filters[first]
  BY DEF Reason
<1>3. fails # {} => first \in 1..7
  <2> HIDE DEF fails
  <2>1. fails \subseteq Nat BY <1>1
  <2>2. QED BY <1>1, <2>1, LeastNatural
<1>4. \A i \in 1..7 : Filters[i] # "correlated with a selection"
  <2>1. /\ Filters[1] = "illiquid" /\ Filters[2] = "spread too wide"
        /\ Filters[3] = "too quiet" /\ Filters[4] = "too volatile"
        /\ Filters[5] = "edge below costs" /\ Filters[6] = "no regime"
        /\ Filters[7] = "weak regime"
    BY DEF Filters
  <2>2. \A i \in 1..7 : i = 1 \/ i = 2 \/ i = 3 \/ i = 4 \/ i = 5 \/ i = 6 \/ i = 7
    OBVIOUS
  <2>3. QED BY <2>1, <2>2
<1>5. QED
  <2> HIDE DEF fails, first
  <2> QED BY <1>2, <1>3, <1>4 DEF Passed

LEMMA ScannableIsFinite == IsFiniteSet(Scannable)
<1> DEFINE n == Len(Universe)
<1>1. n \in Nat /\ DOMAIN Universe = 1..n
  BY ScannerAssumption
<1>2. Universe \in Surjection(1..n, Scannable)
  <2>1. Universe \in [1..n -> Scannable]
    BY ScannerAssumption
  <2>2. \A s \in Scannable : \E i \in 1..n : Universe[i] = s
    BY <1>1 DEF Scannable
  <2>3. QED BY <2>1, <2>2 DEF Surjection
<1>3. QED
  BY <1>1, <1>2, FS_NatSurjection DEF ExistsSurjection

\* A scan selects one instrument of each bet.
LEMMA ScanSelects ==
  ASSUME NEW quoted \in BOOLEAN, NEW alike \in Alikes, NEW survivors,
         survivors = {s \in Assessed : Reason(s, quoted) = Passed},
         NEW ranked \in Rankings(survivors), scan' = Scanned(quoted, ranked, alike)
  PROVE  OneBetEach'
<1> DEFINE selected == Diversified(ranked, alike)
           reason == [s \in Assessed |->
                        IF \E i \in DOMAIN ranked : ranked[i] = s
                        THEN IF \E i \in DOMAIN selected : selected[i] = s
                             THEN Passed ELSE "correlated with a selection"
                        ELSE Reason(s, quoted)]
<1>1. ranked \in Seq(survivors)
  <2>1. ranked \in [1..Cardinality(survivors) -> survivors]
    BY DEF Rankings, SetToSeqs
  <2>2. Cardinality(survivors) \in Nat
    <3>1. IsFiniteSet(Scannable) BY ScannableIsFinite
    <3>2. survivors \subseteq Scannable BY DEF Assessed
    <3>3. QED BY <3>1, <3>2, FS_Subset, FS_CardinalityType
  <2>3. QED
    <3> DEFINE n == Cardinality(survivors)
    <3> HIDE DEF n
    <3>1. ranked \in [1..n -> survivors] /\ n \in Nat BY <2>1, <2>2 DEF n
    <3>2. QED BY <3>1
<1>2. \A s : {s} \notin alike
  <2>1. \A pair \in alike : Cardinality(pair) = 2 BY ScannerAssumption
  <2>2. \A s : Cardinality({s}) = 1 BY FS_Singleton
  <2>3. ASSUME NEW s, {s} \in alike PROVE FALSE
    <3>1. Cardinality({s}) = 2 BY <2>1, <2>3
    <3>2. Cardinality({s}) = 1 BY <2>2
    <3>3. QED BY <3>1, <3>2
  <2>4. QED BY <2>3
<1>3. ChoicesSoFar(selected, Len(ranked), survivors, ranked, alike)
  BY <1>1, <1>2, DiversifiedIsSound
<1>4. DOMAIN ranked = 1..Len(ranked)
  BY <1>1
<1>5. /\ scan'.selected = selected /\ scan'.reason = reason /\ scan'.alike = alike
  BY DEF Scanned
<1> HIDE DEF selected
<1>6. ASSUME Len(selected) < MaxCandidates, NEW s \in DOMAIN reason,
             reason[s] = "correlated with a selection"
      PROVE  \E j \in DOMAIN selected : {s, selected[j]} \in alike
  <2>1. /\ \E i \in DOMAIN ranked : ranked[i] = s
        /\ ~(\E j \in DOMAIN selected : selected[j] = s)
    BY <1>6, ReasonIsAFilter DEF Passed
  <2>2. QED BY <1>3, <1>4, <1>6, <2>1 DEF ChoicesSoFar
<1> HIDE DEF reason
<1>7. Len(selected) <= MaxCandidates /\ \A i, j \in DOMAIN selected : {selected[i], selected[j]} \notin alike
  BY <1>3 DEF ChoicesSoFar
<1>8. Selected' = {selected[i] : i \in DOMAIN selected}
  BY <1>5 DEF Selected
<1>9. \A s, t \in Selected' : {s, t} \notin alike
  BY <1>7, <1>8
<1>10. \A s : Represented(s)' <=> \E t \in Selected' : {s, t} \in alike
  BY <1>5 DEF Represented
<1>11. ASSUME Len(selected) < MaxCandidates, NEW s \in DOMAIN reason,
              reason[s] = "correlated with a selection"
       PROVE  Represented(s)'
  BY <1>6, <1>8, <1>10, <1>11
<1>12. QED
  BY <1>5, <1>7, <1>9, <1>11 DEF OneBetEach

\* Of two symbols that the scan found to move together, one at most is selected; and
\* while there is room, a symbol is labelled as correlated only if it is alike one
\* that was (_diversify), for every universe, every reading of the bars and every set
\* of pairs that are alike.
THEOREM OneBetIsSelected == ScannerSpec => []OneBetEach
<1>1. ScannerInit => OneBetEach
  BY ScannerAssumption DEF ScannerInit, NoScan, OneBetEach, Selected
<1>2. OneBetEach /\ [ScannerNext]_scannerVars => OneBetEach'
  <2> SUFFICES ASSUME OneBetEach, [ScannerNext]_scannerVars PROVE OneBetEach'
    OBVIOUS
  <2>1. CASE scan' = scan
    <3>1. Selected' = Selected BY <2>1 DEF Selected
    <3>2. \A s : Represented(s)' <=> Represented(s) BY <2>1, <3>1 DEF Represented
    <3>3. QED BY <2>1, <3>1, <3>2 DEF OneBetEach
  <2>2. CASE Rotate
    <3>1. PICK alike \in Alikes, quoted \in BOOLEAN :
          \E ranked \in Rankings({s \in Assessed : Reason(s, quoted) = Passed}) :
             scan' = Scanned(quoted, ranked, alike)
      BY <2>2 DEF Rotate
    <3>2. QED
      BY <3>1, ScanSelects
  <2>3. QED
    BY <2>1, <2>2 DEF ScannerNext, scannerVars, RefreshBegins, BarsArrive, NoRows,
                      FetchFails, ScanRaises
<1>3. QED
  BY <1>1, <1>2, PTL DEF ScannerSpec

--------------------------------------------------------------------------------
(* Bars: the trades of a series of bars *)

Ticked == [at : Int, number : Nat]
BarSet == [start : Int, trades : SUBSET Ticked, partial : BOOLEAN]

TradesIn(bars) == UNION {bars[i].trades : i \in DOMAIN bars}

\* Every tick so far is in one bar or in those that were trimmed, n of them in all,
\* and none is in a bar before its own.
CountedOnce(bars, n, gone) ==
  /\ bars \in Seq(BarSet)
  /\ \A i, j \in DOMAIN bars : i # j => bars[i].trades \cap bars[j].trades = {}
  /\ \A i \in DOMAIN bars : \A t \in bars[i].trades : t.at <= bars[i].start /\ t.number <= n
  /\ IsFiniteSet(TradesIn(bars))
  /\ gone \in Nat /\ Cardinality(TradesIn(bars)) + gone = n

\* A tick begins a bar of its own.
LEMMA TickBeginsBar ==
  ASSUME NEW n \in Nat, NEW bars, NEW gone, CountedOnce(bars, n, gone),
         NEW t \in Ticked, t.number = n + 1, NEW bar \in BarSet,
         bar.trades = {t}, t.at <= bar.start
  PROVE  CountedOnce(Append(bars, bar), n + 1, gone)
<1> DEFINE k == Len(bars)
           more == Append(bars, bar)
<1>1. /\ bars \in Seq(BarSet) /\ k \in Nat /\ DOMAIN bars = 1..k
      /\ \A i \in 1..k : bars[i] \in BarSet
  BY DEF CountedOnce
<1>2. /\ more \in Seq(BarSet) /\ DOMAIN more = 1..(k + 1)
      /\ more[k + 1] = bar /\ \A i \in 1..k : more[i] = bars[i]
  BY <1>1
<1> HIDE DEF more, k
<1>3. \A i : i \in 1..(k + 1) <=> i \in 1..k \/ i = k + 1
  BY <1>1
<1>4. ASSUME NEW i \in 1..k, NEW u \in bars[i].trades
      PROVE  u # t /\ u.at <= bars[i].start /\ u.number <= n + 1
  <2>1. u.number <= n /\ u.at <= bars[i].start BY <1>1 DEF CountedOnce
  <2>2. u \in Ticked BY <1>1 DEF BarSet
  <2>3. u.number \in Nat BY <2>2 DEF Ticked
  <2>4. QED BY <2>1, <2>3
<1>5. TradesIn(more) = TradesIn(bars) \cup {t}
  BY <1>1, <1>2, <1>3 DEF TradesIn
<1>6. t \notin TradesIn(bars)
  BY <1>1, <1>4 DEF TradesIn
<1>7. \A i, j \in DOMAIN more : i # j => more[i].trades \cap more[j].trades = {}
  <2>1. \A i, j \in 1..k : i # j => bars[i].trades \cap bars[j].trades = {}
    BY <1>1 DEF CountedOnce
  <2>2. \A i \in 1..k : bars[i].trades \cap bar.trades = {} /\ bar.trades \cap bars[i].trades = {}
    BY <1>4
  <2>3. QED BY <1>2, <1>3, <2>1, <2>2
<1>8. \A i \in DOMAIN more : \A u \in more[i].trades : u.at <= more[i].start /\ u.number <= n + 1
  BY <1>2, <1>3, <1>4
<1>9. IsFiniteSet(TradesIn(more)) /\ Cardinality(TradesIn(more)) + gone = n + 1
  <2>1. IsFiniteSet(TradesIn(bars)) /\ Cardinality(TradesIn(bars)) + gone = n /\ gone \in Nat
    BY DEF CountedOnce
  <2>2. /\ IsFiniteSet(TradesIn(bars) \cup {t})
        /\ Cardinality(TradesIn(bars) \cup {t}) = Cardinality(TradesIn(bars)) + 1
    BY <1>6, <2>1, FS_AddElement
  <2>3. Cardinality(TradesIn(bars)) \in Nat
    BY <2>1, FS_CardinalityType
  <2>4. QED BY <1>5, <2>1, <2>2, <2>3
<1>10. QED
  BY <1>2, <1>7, <1>8, <1>9 DEF CountedOnce, more

\* A tick is folded into the last bar.
LEMMA TickJoinsBar ==
  ASSUME NEW n \in Nat, NEW front \in Seq(BarSet), NEW bar \in BarSet, NEW gone,
         CountedOnce(Append(front, bar), n, gone),
         NEW t \in Ticked, t.number = n + 1, t.at <= bar.start, NEW grown \in BarSet,
         grown.trades = bar.trades \cup {t}, grown.start = bar.start
  PROVE  CountedOnce(Append(front, grown), n + 1, gone)
<1> DEFINE k == Len(front)
           bars == Append(front, bar)
           more == Append(front, grown)
<1>1. /\ bars \in Seq(BarSet) /\ k \in Nat /\ DOMAIN bars = 1..(k + 1)
      /\ bars[k + 1] = bar
      /\ \A i \in 1..(k + 1) : bars[i] \in BarSet
  OBVIOUS
<1>2. /\ more \in Seq(BarSet) /\ DOMAIN more = 1..(k + 1)
      /\ more[k + 1] = grown /\ \A i \in 1..k : more[i] = bars[i]
  OBVIOUS
<1>3. CountedOnce(bars, n, gone)
  OBVIOUS
<1> HIDE DEF more, bars, k
<1>4. \A i : i \in 1..(k + 1) <=> i \in 1..k \/ i = k + 1
  BY <1>1
<1>5. ASSUME NEW i \in 1..(k + 1), NEW u \in bars[i].trades
      PROVE  u # t /\ u.at <= bars[i].start /\ u.number <= n + 1
  <2>1. u.number <= n /\ u.at <= bars[i].start BY <1>1, <1>3 DEF CountedOnce
  <2>2. u \in Ticked BY <1>1 DEF BarSet
  <2>3. u.number \in Nat BY <2>2 DEF Ticked
  <2>4. QED BY <2>1, <2>3
<1>6. TradesIn(more) = TradesIn(bars) \cup {t}
  BY <1>1, <1>2, <1>4 DEF TradesIn
<1>7. t \notin TradesIn(bars)
  BY <1>1, <1>5 DEF TradesIn
<1>8. \A i, j \in DOMAIN more : i # j => more[i].trades \cap more[j].trades = {}
  <2>1. \A i, j \in 1..(k + 1) : i # j => bars[i].trades \cap bars[j].trades = {}
    BY <1>1, <1>3 DEF CountedOnce
  <2>2. \A i \in 1..(k + 1) : t \notin bars[i].trades
    BY <1>5
  <2>3. \A i \in 1..(k + 1) : more[i].trades = IF i = k + 1 THEN bars[i].trades \cup {t}
                                               ELSE bars[i].trades
    BY <1>1, <1>2, <1>4
  <2>4. ASSUME NEW i \in 1..(k + 1), NEW j \in 1..(k + 1), i # j
        PROVE  more[i].trades \cap more[j].trades = {}
    <3>1. bars[i].trades \cap bars[j].trades = {} BY <2>1, <2>4
    <3>2. t \notin bars[i].trades /\ t \notin bars[j].trades BY <2>2
    <3>3. QED BY <2>3, <2>4, <3>1, <3>2
  <2>5. QED BY <1>2, <2>4
<1>9. \A i \in DOMAIN more : \A u \in more[i].trades : u.at <= more[i].start /\ u.number <= n + 1
  <2>1. ASSUME NEW u \in grown.trades PROVE u.at <= grown.start /\ u.number <= n + 1
    <3>1. k + 1 \in 1..(k + 1) BY <1>1
    <3>2. CASE u = t BY <3>2
    <3>3. CASE u \in bar.trades BY <1>1, <1>5, <3>1, <3>3
    <3>4. QED BY <3>2, <3>3
  <2>2. QED BY <1>2, <1>4, <1>5, <2>1
<1>10. IsFiniteSet(TradesIn(more)) /\ Cardinality(TradesIn(more)) + gone = n + 1
  <2>1. IsFiniteSet(TradesIn(bars)) /\ Cardinality(TradesIn(bars)) + gone = n /\ gone \in Nat
    BY <1>3 DEF CountedOnce
  <2>2. /\ IsFiniteSet(TradesIn(bars) \cup {t})
        /\ Cardinality(TradesIn(bars) \cup {t}) = Cardinality(TradesIn(bars)) + 1
    BY <1>7, <2>1, FS_AddElement
  <2>3. Cardinality(TradesIn(bars)) \in Nat
    BY <2>1, FS_CardinalityType
  <2>4. QED BY <1>6, <2>1, <2>2, <2>3
<1>11. QED
  BY <1>2, <1>3, <1>8, <1>9, <1>10 DEF CountedOnce, more

\* The oldest bar is trimmed, and its trades with it.
LEMMA OldestIsTrimmed ==
  ASSUME NEW n \in Nat, NEW bars, NEW gone, CountedOnce(bars, n, gone), bars # <<>>
  PROVE  CountedOnce(Tail(bars), n, gone + Cardinality(Head(bars).trades))
<1> DEFINE k == Len(bars) - 1
           rest == Tail(bars)
           oldest == Head(bars).trades
<1>1. bars \in Seq(BarSet) /\ Len(bars) \in Nat /\ DOMAIN bars = 1..Len(bars)
  BY DEF CountedOnce
<1>2. /\ k \in Nat /\ DOMAIN bars = 1..(k + 1)
      /\ rest \in Seq(BarSet) /\ DOMAIN rest = 1..k
      /\ \A i \in 1..k : rest[i] = bars[i + 1]
      /\ oldest = bars[1].trades
  BY <1>1
<1> HIDE DEF k, rest, oldest
<1>3. /\ \A i \in 1..k : i + 1 \in 1..(k + 1) /\ i + 1 # 1
      /\ \A i \in 1..(k + 1) : i = 1 \/ (i - 1 \in 1..k /\ i = (i - 1) + 1)
      /\ 1 \in 1..(k + 1)
      /\ \A i, j \in 1..k : i # j => i + 1 # j + 1
  BY <1>2
<1>4. \A i, j \in 1..(k + 1) : i # j => bars[i].trades \cap bars[j].trades = {}
  BY <1>2 DEF CountedOnce
<1>5. TradesIn(bars) = TradesIn(rest) \cup oldest
  <2>1. ASSUME NEW t \in TradesIn(bars) PROVE t \in TradesIn(rest) \cup oldest
    <3>1. PICK i \in 1..(k + 1) : t \in bars[i].trades BY <1>2 DEF TradesIn
    <3>2. CASE i = 1 BY <1>2, <3>1, <3>2
    <3>3. CASE i # 1
      <4>1. i - 1 \in 1..k /\ rest[i - 1] = bars[i] BY <1>2, <1>3, <3>3
      <4>2. QED BY <1>2, <3>1, <4>1 DEF TradesIn
    <3>4. QED BY <3>2, <3>3
  <2>2. ASSUME NEW t \in TradesIn(rest) PROVE t \in TradesIn(bars)
    <3>1. PICK i \in 1..k : t \in rest[i].trades BY <1>2 DEF TradesIn
    <3>2. QED BY <1>2, <1>3, <3>1 DEF TradesIn
  <2>3. oldest \subseteq TradesIn(bars)
    BY <1>2, <1>3 DEF TradesIn
  <2>4. QED BY <2>1, <2>2, <2>3
<1>6. TradesIn(rest) \cap oldest = {}
  <2>1. ASSUME NEW t \in TradesIn(rest), t \in oldest PROVE FALSE
    <3>1. PICK i \in 1..k : t \in rest[i].trades BY <2>1, <1>2 DEF TradesIn
    <3>2. bars[i + 1].trades \cap bars[1].trades = {} BY <1>3, <1>4
    <3>3. QED BY <1>2, <2>1, <3>1, <3>2
  <2>2. QED BY <2>1
<1>7. /\ IsFiniteSet(TradesIn(rest)) /\ IsFiniteSet(oldest)
      /\ Cardinality(oldest) \in Nat
      /\ Cardinality(TradesIn(rest)) + (gone + Cardinality(oldest)) = n
  <2>1. IsFiniteSet(TradesIn(bars)) /\ Cardinality(TradesIn(bars)) + gone = n /\ gone \in Nat
    BY DEF CountedOnce
  <2>2. IsFiniteSet(TradesIn(rest)) /\ IsFiniteSet(oldest)
    BY <1>5, <2>1, FS_Subset
  <2>3. Cardinality(TradesIn(rest)) \in Nat /\ Cardinality(oldest) \in Nat
    BY <2>2, FS_CardinalityType
  <2>4. Cardinality(TradesIn(bars)) = Cardinality(TradesIn(rest)) + Cardinality(oldest)
    <3>1. Cardinality(TradesIn(rest) \cup oldest)
            = Cardinality(TradesIn(rest)) + Cardinality(oldest)
      <4>1. Cardinality(TradesIn(rest) \cap oldest) = 0 BY <1>6, FS_EmptySet
      <4>2. Cardinality(TradesIn(rest) \cup oldest)
              = Cardinality(TradesIn(rest)) + Cardinality(oldest)
                  - Cardinality(TradesIn(rest) \cap oldest)
        BY <2>2, FS_Union
      <4>3. QED BY <2>3, <4>1, <4>2
    <3>2. QED BY <1>5, <3>1
  <2>5. QED BY <2>1, <2>2, <2>3, <2>4
<1>8. \A i, j \in DOMAIN rest : i # j => rest[i].trades \cap rest[j].trades = {}
  BY <1>2, <1>3, <1>4
<1>9. \A i \in DOMAIN rest : \A t \in rest[i].trades : t.at <= rest[i].start /\ t.number <= n
  BY <1>2, <1>3 DEF CountedOnce
<1>10. gone + Cardinality(oldest) \in Nat
  <2>1. gone \in Nat BY DEF CountedOnce
  <2>2. QED BY <1>7, <2>1
<1>11. QED
  BY <1>2, <1>7, <1>8, <1>9, <1>10 DEF CountedOnce, rest, oldest

--------------------------------------------------------------------------------
\* A bar that no tick of the program is in.
Seed == {bar \in BarSet : bar.trades = {}}

IsFetch(f) ==
  /\ f = [at |-> f.at, since |-> f.since, got |-> f.got, fetched |-> f.fetched,
          tries |-> f.tries]
  /\ f.since \in Int /\ f.got \in Seq(Seed)
  /\ f.at = "check" => f.got # <<>>

\* Until the history has been asked for, nothing is fed.
BarsInv ==
  /\ now \in Int /\ ticks \in Nat /\ lost \in Nat
  /\ rows \in Seq(BarSet) /\ current \in BarSet
  /\ IsFetch(fetch)
  /\ fetch.at # "live" => ticks = 0 /\ lost = 0 /\ current = NoBar /\ rows = <<>>
  /\ CountedOnce(Bars, ticks, lost)

LEMMA SeedIsNothingFed ==
  ASSUME NEW bars \in Seq(Seed)
  PROVE  bars \in Seq(BarSet) /\ CountedOnce(bars, 0, 0)
<1>1. bars \in Seq(BarSet) /\ \A i \in DOMAIN bars : bars[i].trades = {}
  BY DEF Seed
<1>2. TradesIn(bars) = {}
  BY <1>1 DEF TradesIn
<1>3. IsFiniteSet({}) /\ Cardinality({}) = 0
  BY FS_EmptySet
<1>4. QED
  BY <1>1, <1>2, <1>3 DEF CountedOnce

LEMMA SubSeqIn ==
  ASSUME NEW S, NEW s \in Seq(S), NEW m \in Nat \ {0}, NEW n \in 0..Len(s)
  PROVE  SubSeq(s, m, n) \in Seq(S)
<1>1. /\ Len(s) \in Nat /\ n \in Nat
      /\ \A i \in 1..Len(s) : s[i] \in S
  OBVIOUS
<1>2. CASE m <= n
  OBVIOUS
<1>3. CASE m > n
  OBVIOUS
<1>4. QED
  BY <1>1, <1>2, <1>3

LEMMA LastNIn ==
  ASSUME NEW S, NEW s \in Seq(S), NEW n \in Nat
  PROVE  LastN(s, n) \in Seq(S)
<1> DEFINE m == IF Len(s) > n THEN Len(s) - n + 1 ELSE 1
<1>1. Len(s) \in Nat /\ Len(s) \in 0..Len(s)
  OBVIOUS
<1>2. m \in Nat \ {0}
  BY <1>1
<1>3. LastN(s, n) = SubSeq(s, m, Len(s))
  BY DEF LastN
<1> HIDE DEF m
<1>4. QED
  BY <1>1, <1>2, <1>3, SubSeqIn

LEMMA FinalisedIn ==
  ASSUME NEW s \in Seq(Seed)
  PROVE  Finalised(s) \in Seq(Seed)
<1> DEFINE kept == IF Len(s) > 1 THEN Front(s) ELSE s
<1>1. kept \in Seq(Seed)
  <2>1. CASE Len(s) > 1
    <3>1. Len(s) \in Nat OBVIOUS
    <3>2. Len(s) - 1 \in 0..Len(s) /\ 1 \in Nat \ {0} BY <2>1, <3>1
    <3>3. Front(s) = SubSeq(s, 1, Len(s) - 1) BY DEF Front
    <3>4. Front(s) \in Seq(Seed) BY <3>2, <3>3, SubSeqIn
    <3>5. QED BY <2>1, <3>4
  <2>2. QED BY <2>1
<1>2. Limit \in Nat
  BY BarsAssumption
<1>3. QED
  BY <1>1, <1>2, LastNIn DEF Finalised

LEMMA RowsIn ==
  ASSUME now \in Int, NEW first \in Int, NEW last \in Int
  PROVE  Rows(first, last) \in Seq(Seed)
<1> DEFINE begin == Later(first, Listed)
           n == last - begin + 1
           m == IF n > 0 THEN n ELSE 0
<1>1. begin \in Int /\ n \in Int
  BY BarsAssumption DEF Later
<1> HIDE DEF begin
<1>2. m \in Nat /\ 1..n = 1..m
  BY <1>1
<1>3. \A i \in 1..m : Answered(begin + i - 1) \in Seed
  <2>1. ASSUME NEW start \in Int PROVE Answered(start) \in Seed
    BY DEF Answered, Seed, BarSet
  <2>2. \A i \in 1..m : begin + i - 1 \in Int BY <1>1, <1>2
  <2>3. QED BY <2>1, <2>2
<1>4. Rows(first, last) = [i \in 1..n |-> Answered(begin + i - 1)]
  BY DEF Rows, begin
<1> HIDE DEF n, m
<1>5. Rows(first, last) = [i \in 1..m |-> Answered(begin + i - 1)]
  BY <1>2, <1>4
<1>6. QED
  BY <1>2, <1>3, <1>5

LEMMA BarsInitially == BarsInit => BarsInv
<1> SUFFICES ASSUME BarsInit PROVE BarsInv
  OBVIOUS
<1>1. /\ now = FirstBar /\ rows = <<>> /\ current = NoBar /\ ticks = 0 /\ lost = 0
      /\ fetch = [at |-> "start", since |-> 0, got |-> <<>>, fetched |-> 0, tries |-> 0]
  BY DEF BarsInit
<1>2. NoBar \in BarSet
  BY DEF NoBar, BarSet
<1>3. Bars = <<>>
  BY <1>1 DEF Bars
<1>4. <<>> \in Seq(Seed) /\ <<>> \in Seq(BarSet)
  OBVIOUS
<1>5. CountedOnce(<<>>, 0, 0)
  BY <1>4, SeedIsNothingFed
<1>6. IsFetch(fetch)
  BY <1>1, <1>4 DEF IsFetch
<1>7. now \in Int
  BY <1>1, BarsAssumption
<1>8. QED
  BY <1>1, <1>2, <1>3, <1>4, <1>5, <1>6, <1>7 DEF BarsInv

\* The history is read page by page before anything is fed.
LEMMA FetchKeepsBars ==
  ASSUME BarsInv, Ask \/ PageArrives \/ PageFails \/ PageChecked \/ RefreshHistory
  PROVE  BarsInv'
<1>1. /\ now \in Int /\ IsFetch(fetch) /\ fetch.at # "live" /\ fetch.since \in Int
      /\ fetch.got \in Seq(Seed)
      /\ UNCHANGED <<now, venue, rows, current, ticks, lost>>
  BY DEF BarsInv, IsFetch, Ask, PageArrives, PageFails, PageChecked, RefreshHistory
<1>2. SUFFICES IsFetch(fetch')
  <2>1. Bars' = Bars BY <1>1 DEF Bars
  <2>2. QED BY <1>1, <1>2, <2>1 DEF BarsInv
<1>3. CASE Ask
  <2>1. /\ now - Span + 1 \in Int
        /\ fetch' = [fetch EXCEPT !.at = "page", !.since = now - Span + 1]
    <3>1. Span \in Int BY BarsAssumption DEF Span
    <3>2. QED BY <1>1, <1>3, <3>1 DEF Ask
  <2>2. QED BY <1>1, <2>1 DEF IsFetch
<1>4. CASE PageFails
  <2>1. \/ fetch' = [fetch EXCEPT !.tries = fetch.tries + 1] /\ fetch.at = "page"
        \/ fetch' = [fetch EXCEPT !.at = "failed"]
    BY <1>4 DEF PageFails
  <2>2. QED BY <1>1, <2>1 DEF IsFetch
<1>5. CASE PageArrives
  <2> DEFINE full == Later(fetch.since, Listed) + Page - 1
             last == IF full < now THEN full ELSE now
             all == fetch.got \o Batch
  <2>1. last \in Int BY <1>1, BarsAssumption DEF Later
  <2>2. Batch = Rows(fetch.since, last) BY DEF Batch
  <2> HIDE DEF last
  <2>3. Batch \in Seq(Seed) BY <1>1, <2>1, <2>2, RowsIn
  <2>4. CASE Batch = <<>>
    <3>1. fetch' = [fetch EXCEPT !.at = "ready"] BY <1>5, <2>4 DEF PageArrives
    <3>2. QED BY <1>1, <3>1 DEF IsFetch
  <2>5. CASE Batch # <<>>
    <3>1. fetch' = [fetch EXCEPT !.at = "check", !.tries = 0, !.got = all,
                                 !.fetched = fetch.fetched + Len(Batch)]
      BY <1>5, <2>5 DEF PageArrives
    <3>2. all \in Seq(Seed) /\ all # <<>>
      BY <1>1, <2>3, <2>5
    <3> HIDE DEF all
    <3>3. QED BY <1>1, <3>1, <3>2 DEF IsFetch
  <2>6. QED BY <2>4, <2>5
<1>6. CASE PageChecked
  <2> DEFINE start == Last(fetch.got).start
  <2>1. start \in Int
    <3>1. fetch.got # <<>> BY <1>1, <1>6 DEF PageChecked, IsFetch
    <3>2. ASSUME NEW s \in Seq(Seed), s # <<>> PROVE s[Len(s)] \in Seed
      BY <3>2
    <3>3. Last(fetch.got) \in Seed BY <1>1, <3>1, <3>2 DEF Last
    <3>4. QED BY <3>3 DEF Seed, BarSet
  <2>2. \/ fetch' = [fetch EXCEPT !.at = "ready"]
        \/ fetch' = [fetch EXCEPT !.at = "page", !.since = start + 1]
    BY <1>6 DEF PageChecked
  <2> HIDE DEF start
  <2>3. start + 1 \in Int BY <2>1
  <2>4. QED BY <1>1, <2>2, <2>3 DEF IsFetch
<1>7. CASE RefreshHistory
  <2> DEFINE answer == Rows(now - Limit + 1, now)
  <2>1. now - Limit + 1 \in Int BY <1>1, BarsAssumption
  <2>2. answer \in Seq(Seed) BY <1>1, <2>1, RowsIn
  <2>3. \/ fetch' = [fetch EXCEPT !.at = "failed"]
        \/ fetch' = [fetch EXCEPT !.at = "ready", !.got = answer]
    BY <1>7 DEF RefreshHistory
  <2> HIDE DEF answer
  <2>4. QED BY <1>1, <2>2, <2>3 DEF IsFetch
<1>8. QED
  BY <1>3, <1>4, <1>5, <1>6, <1>7

\* Seeding puts in place bars that have none of the ticks.
LEMMA SeedKeepsBars ==
  ASSUME BarsInv, SeedFromPages \/ SeedFromAlpaca
  PROVE  BarsInv'
<1>1. /\ now \in Int /\ IsFetch(fetch) /\ fetch.got \in Seq(Seed)
      /\ fetch.at # "live"
      /\ fetch' = [fetch EXCEPT !.at = "live"]
      /\ UNCHANGED <<now, venue, current, ticks, lost>>
  BY DEF BarsInv, IsFetch, SeedFromPages, SeedFromAlpaca, Seeded
<1>2. ticks = 0 /\ lost = 0 /\ current = NoBar /\ rows = <<>> /\ current \in BarSet
  BY <1>1 DEF BarsInv
<1>3. IsFetch(fetch') /\ fetch'.at = "live"
  BY <1>1 DEF IsFetch
<1>4. rows' \in Seq(Seed)
  <2>1. \A bars \in Seq(Seed) : LastN(bars, MaxBars) \in Seq(Seed)
    <3>1. MaxBars \in Nat BY BarsAssumption
    <3>2. QED BY <3>1, LastNIn
  <2>2. CASE SeedFromPages
    <3>1. rows' = LastN(Finalised(fetch.got), MaxBars) BY <2>2 DEF SeedFromPages, Seeded
    <3>2. QED BY <1>1, <2>1, <3>1, FinalisedIn
  <2>3. CASE SeedFromAlpaca
    <3>1. rows' = LastN(fetch.got, MaxBars) BY <2>3 DEF SeedFromAlpaca, Seeded
    <3>2. QED BY <1>1, <2>1, <3>1
  <2>4. QED BY <2>2, <2>3
<1>5. rows' \in Seq(BarSet) /\ CountedOnce(rows', 0, 0)
  BY <1>4, SeedIsNothingFed
<1>6. Bars' = rows'
  BY <1>1, <1>2 DEF Bars
<1>7. QED
  BY <1>1, <1>2, <1>3, <1>5, <1>6 DEF BarsInv

LEMMA TickKeepsBars ==
  ASSUME BarsInv, NEW moment \in Int, OnTick(moment)
  PROVE  BarsInv'
<1> DEFINE t == TradeAt(moment)
           bar == BarOf(moment)
           grown == WithTrade(moment)
           all == Append(rows, current)
<1>1. /\ fetch.at = "live" /\ ticks' = ticks + 1 /\ Folded(moment)
      /\ UNCHANGED <<now, venue, fetch>>
  BY DEF OnTick
<1>2. /\ now \in Int /\ ticks \in Nat /\ lost \in Nat /\ IsFetch(fetch)
      /\ rows \in Seq(BarSet) /\ current \in BarSet /\ CountedOnce(Bars, ticks, lost)
  BY DEF BarsInv
<1>3. t \in Ticked /\ t.at = moment /\ t.number = ticks + 1
  BY <1>2 DEF TradeAt, Ticked
<1>4. /\ bar \in BarSet /\ bar.trades = {t} /\ bar.start = moment /\ t.at <= bar.start
      /\ bar # NoBar
  <2>1. {t} # {} OBVIOUS
  <2> HIDE DEF t
  <2>2. BarOf(moment) = [start |-> moment, trades |-> {t}, partial |-> FALSE]
    BY DEF BarOf, t
  <2>3. QED BY <1>3, <2>1, <2>2 DEF BarSet, NoBar
<1>5. /\ grown \in BarSet /\ grown.trades = current.trades \cup {t}
      /\ grown.start = current.start /\ grown # NoBar
  <2> HIDE DEF t
  <2>1. WithTrade(moment) = [current EXCEPT !.trades = current.trades \cup {t}]
    BY DEF WithTrade, t
  <2>2. current.trades \cup {t} # {} OBVIOUS
  <2>3. current = [start |-> current.start, trades |-> current.trades,
                   partial |-> current.partial]
    BY <1>2 DEF BarSet
  <2>4. grown = [start |-> current.start, trades |-> current.trades \cup {t},
                 partial |-> current.partial]
    BY <2>1, <2>3
  <2>5. grown \in BarSet
    <3>1. current.start \in Int /\ current.partial \in BOOLEAN
          /\ current.trades \in SUBSET Ticked
      BY <1>2 DEF BarSet
    <3>2. current.trades \cup {t} \in SUBSET Ticked BY <1>3, <3>1
    <3>3. QED BY <2>4, <3>1, <3>2 DEF BarSet
  <2>6. grown.trades # NoBar.trades BY <2>2, <2>4 DEF NoBar
  <2>7. QED BY <2>4, <2>5, <2>6
<1> HIDE DEF t, bar, grown
<1>6. CASE current = NoBar
  <2>1. current' = bar /\ UNCHANGED <<rows, lost>>
    BY <1>1, <1>6 DEF Folded, bar
  <2>2. Bars = rows /\ Bars' = Append(rows, bar)
    BY <1>4, <1>6, <2>1 DEF Bars
  <2>3. CountedOnce(Append(rows, bar), ticks + 1, lost)
    BY <1>2, <1>3, <1>4, <2>2, TickBeginsBar
  <2>4. QED
    BY <1>1, <1>2, <1>4, <2>1, <2>2, <2>3 DEF BarsInv
<1>7. CASE current # NoBar /\ ~(moment > current.start)
  <2>1. current' = grown /\ UNCHANGED <<rows, lost>>
    BY <1>1, <1>7 DEF Folded, grown
  <2>2. Bars = Append(rows, current) /\ Bars' = Append(rows, grown)
    BY <1>5, <1>7, <2>1 DEF Bars
  <2>3. t.at <= current.start
    <3>1. current.start \in Int BY <1>2 DEF BarSet
    <3>2. QED BY <1>3, <1>7, <3>1
  <2>4. CountedOnce(Append(rows, grown), ticks + 1, lost)
    BY <1>2, <1>3, <1>5, <2>2, <2>3, TickJoinsBar
  <2>5. QED
    BY <1>1, <1>2, <1>5, <2>1, <2>2, <2>4 DEF BarsInv
<1>8. CASE current # NoBar /\ moment > current.start
  <2>1. current' = bar /\ Completed(current)
    BY <1>1, <1>8 DEF Folded, bar
  <2>2. Bars = all
    BY <1>8 DEF Bars
  <2>3. all \in Seq(BarSet) /\ all # <<>>
    BY <1>2
  <2> HIDE DEF all
  <2>4. CASE Len(all) > MaxBars
    <3>1. rows' = Tail(all) /\ lost' = lost + Cardinality(Head(all).trades)
      BY <2>1, <2>4 DEF Completed, all
    <3>2. CountedOnce(Tail(all), ticks, lost + Cardinality(Head(all).trades))
      BY <1>2, <2>2, <2>3, OldestIsTrimmed
    <3>3. CountedOnce(Append(rows', bar), ticks + 1, lost')
      BY <1>2, <1>3, <1>4, <3>1, <3>2, TickBeginsBar
    <3>4. Bars' = Append(rows', bar)
      BY <1>4, <2>1 DEF Bars
    <3>5. rows' \in Seq(BarSet) /\ lost' \in Nat
      BY <3>1, <3>2 DEF CountedOnce
    <3>6. QED
      BY <1>1, <1>2, <1>4, <2>1, <3>3, <3>4, <3>5 DEF BarsInv
  <2>5. CASE ~(Len(all) > MaxBars)
    <3>1. rows' = all /\ lost' = lost
      BY <2>1, <2>5 DEF Completed, all
    <3>2. CountedOnce(Append(all, bar), ticks + 1, lost)
      BY <1>2, <1>3, <1>4, <2>2, TickBeginsBar
    <3>3. Bars' = Append(all, bar)
      BY <1>4, <2>1, <3>1 DEF Bars
    <3>4. QED
      BY <1>1, <1>2, <1>4, <2>1, <2>3, <3>1, <3>2, <3>3 DEF BarsInv
  <2>6. QED BY <2>4, <2>5
<1>9. QED
  BY <1>6, <1>7, <1>8

LEMMA BarsStep == BarsInv /\ [BarsNext]_barVars => BarsInv'
<1> SUFFICES ASSUME BarsInv, [BarsNext]_barVars PROVE BarsInv'
  OBVIOUS
<1>1. CASE UNCHANGED barVars
  BY <1>1 DEF barVars, BarsInv, Bars
<1>2. CASE Clock
  <2>1. now' = now + 1 /\ UNCHANGED <<venue, fetch, rows, current, ticks, lost>>
    BY <1>2 DEF Clock
  <2>2. Bars' = Bars BY <2>1 DEF Bars
  <2>3. now' \in Int BY <2>1 DEF BarsInv
  <2>4. QED BY <2>1, <2>2, <2>3 DEF BarsInv
<1>3. ASSUME NEW delay \in Delays, OnTick(now - delay) PROVE BarsInv'
  <2>1. now - delay \in Int BY BarsAssumption DEF BarsInv
  <2>2. QED BY <1>3, <2>1, TickKeepsBars
<1>4. QED
  BY <1>1, <1>2, <1>3, FetchKeepsBars, SeedKeepsBars DEF BarsNext

\* Whatever the venue answers, however late a trade is and whenever the oldest bar
\* is trimmed, each tick is counted in one bar and in none that ends before it.
THEOREM TicksAreCountedOnce == BarsSpec => []TicksCountOnce
<1>1. BarsInv => TicksCountOnce
  <2> SUFFICES ASSUME BarsInv PROVE TicksCountOnce
    OBVIOUS
  <2>1. CountedOnce(Bars, ticks, lost) BY DEF BarsInv
  <2>2. QED BY <2>1 DEF CountedOnce, TicksCountOnce, TradesIn
<1>2. QED
  BY BarsInitially, BarsStep, <1>1, PTL DEF BarsSpec

--------------------------------------------------------------------------------
(* Positions: sums over a sequence *)

\* f[k] is the sum of the first k of n numbers.
PrefixSums(f, w, n) ==
  /\ f \in [0..n -> Int] /\ f[0] = 0
  /\ \A k \in 0..(n - 1) : f[k + 1] = f[k] + w[k + 1]

LEMMA PrefixSumsAreOne ==
  ASSUME NEW n \in Nat, NEW w, NEW f, NEW h, PrefixSums(f, w, n), PrefixSums(h, w, n)
  PROVE  f[n] = h[n]
<1> DEFINE T == {k \in Nat : k <= n => f[k] = h[k]}
<1>1. 0 \in T
  BY DEF PrefixSums
<1>2. ASSUME NEW k \in Nat, k \in T PROVE k + 1 \in T
  <2> SUFFICES ASSUME k + 1 <= n PROVE f[k + 1] = h[k + 1]
    OBVIOUS
  <2>1. k \in 0..(n - 1) /\ f[k] = h[k]
    BY <1>2
  <2>2. QED BY <2>1 DEF PrefixSums
<1>3. Nat \subseteq T
  <2> HIDE DEF T
  <2> QED BY <1>1, <1>2, SetOfAllNaturals
<1>4. QED
  BY <1>3

\* The sum that FoldLeft computes.
SumOf(w) == FoldLeft(LAMBDA sum, n : sum + n, 0, w)

LEMMA SumByPrefixes ==
  ASSUME NEW w \in Seq(Int)
  PROVE  \E f : PrefixSums(f, w, Len(w)) /\ SumOf(w) = f[Len(w)]
<1> DEFINE n == Len(w)
           H == [i \in 1..n |-> [v \in Int |-> v + w[i]]]
           Fold(g) == g = [T \in SUBSET (1..n) |->
                             IF T = {} THEN 0 ELSE g[T \ {LastOf(T)}] + w[LastOf(T)]]
           g0 == CHOOSE g : Fold(g)
<1>1. n \in Nat /\ DOMAIN w = 1..n /\ \A i \in 1..n : w[i] \in Int
  OBVIOUS
<1>2. ASSUME NEW i \in 1..n, NEW v \in Int
      PROVE  H[i][v] = v + w[i] /\ H[i][v] \in Int
  OBVIOUS
<1>3. \E g : FoldSolution(g, n, Int, 0, H)
  <2>1. IsFold(n, Int, 0, H)
    BY <1>1, <1>2 DEF IsFold
  <2> HIDE DEF n, H
  <2>2. QED BY <2>1, FoldExists
<1>4. PICK g1 : Fold(g1) /\ g1 \in [SUBSET (1..n) -> Int]
  <2>1. PICK g \in [SUBSET (1..n) -> Int] : \A T \in SUBSET (1..n) :
               g[T] = IF T = {} THEN 0 ELSE H[LastOf(T)][g[T \ {LastOf(T)}]]
    BY <1>3 DEF FoldSolution
  <2>2. ASSUME NEW T \in SUBSET (1..n), T # {}
        PROVE  g[T] = g[T \ {LastOf(T)}] + w[LastOf(T)]
    <3>1. LastOf(T) \in 1..n
      <4>1. LastOf(T) \in T BY <1>1, <2>2, LastIsThere
      <4>2. QED BY <4>1
    <3>2. g[T \ {LastOf(T)}] \in Int BY <2>1
    <3>3. g[T] = H[LastOf(T)][g[T \ {LastOf(T)}]] BY <2>1, <2>2
    <3>4. QED
      <4> HIDE DEF H, n
      <4> QED BY <1>2, <3>1, <3>2, <3>3
  <2>3. Fold(g)
    <3> HIDE DEF H, n
    <3> QED BY <2>1, <2>2
  <2>4. QED BY <2>1, <2>3
<1>5. Fold(g0)
  <2> HIDE DEF Fold
  <2> QED BY <1>4
<1>6. SumOf(w) = g0[1..n]
  BY <1>1 DEF SumOf, FoldLeft, MapThenFoldSet, Max, LastOf
<1> DEFINE f == [k \in 0..n |-> g0[1..k]]
<1>7. g0[{}] = 0
  <2>1. {} \in SUBSET (1..n) OBVIOUS
  <2>2. QED BY <1>5, <2>1
<1>8. ASSUME NEW k \in 0..(n - 1) PROVE f[k + 1] = f[k] + w[k + 1]
  <2>1. /\ k \in Nat /\ k \in 0..n /\ k + 1 \in 0..n
        /\ 1..(k + 1) \in SUBSET (1..n) /\ 1..(k + 1) # {}
    <3> HIDE DEF n, f
    <3>1. k \in Nat /\ k \in 0..n /\ k + 1 \in 0..n BY <1>1
    <3>2. 1 \in 1..(k + 1) BY <3>1
    <3>3. \A i \in 1..(k + 1) : i \in 1..n BY <1>1, <3>1
    <3>4. QED BY <3>1, <3>2, <3>3
  <2>2. LastOf(1..(k + 1)) = k + 1 /\ (1..(k + 1)) \ {k + 1} = 1..k
    BY <2>1, LastOfPrefix
  <2>3. g0[1..(k + 1)] = g0[(1..(k + 1)) \ {LastOf(1..(k + 1))}] + w[LastOf(1..(k + 1))]
    <3> HIDE DEF n, g0
    <3> QED BY <1>5, <2>1
  <2>4. QED
    <3> HIDE DEF n, g0
    <3> QED BY <2>1, <2>2, <2>3
<1>9. f[0] = 0 /\ f[n] = g0[1..n] /\ DOMAIN f = 0..n
  <2>1. 1..0 = {} OBVIOUS
  <2> HIDE DEF g0
  <2>2. QED BY <1>1, <1>7, <2>1
<1>10. f \in [0..n -> Int]
  <2> DEFINE T == {k \in Nat : k <= n => f[k] \in Int}
  <2>1. 0 \in T BY <1>9
  <2>2. ASSUME NEW k \in Nat, k \in T PROVE k + 1 \in T
    <3> SUFFICES ASSUME k + 1 <= n PROVE f[k + 1] \in Int
      OBVIOUS
    <3> HIDE DEF f, g0
    <3>1. k \in 0..(n - 1) /\ f[k] \in Int BY <1>1, <2>2
    <3>2. k + 1 \in 1..n BY <1>1, <3>1
    <3>3. w[k + 1] \in Int BY <1>1, <3>2
    <3> HIDE DEF n
    <3>4. QED BY <1>8, <3>1, <3>3
  <2>3. Nat \subseteq T
    <3> HIDE DEF T
    <3> QED BY <2>1, <2>2, SetOfAllNaturals
  <2>4. \A k \in 0..n : f[k] \in Int
    <3> HIDE DEF f, n
    <3> QED BY <2>3
  <2>5. QED
    <3> HIDE DEF g0, n
    <3> QED BY <2>4
<1>11. PrefixSums(f, w, n) /\ SumOf(w) = f[n]
  <2> HIDE DEF f, g0
  <2> QED BY <1>6, <1>8, <1>9, <1>10 DEF PrefixSums
<1>12. QED
  <2> HIDE DEF f
  <2> QED BY <1>11

\* What one more number, and the first one less, make of a sum.
LEMMA SumOfMore ==
  ASSUME NEW w \in Seq(Int), NEW x \in Int
  PROVE  SumOf(w) \in Int /\ SumOf(Append(w, x)) = SumOf(w) + x
<1> DEFINE n == Len(w)
           more == Append(w, x)
<1>1. /\ n \in Nat /\ more \in Seq(Int) /\ Len(more) = n + 1 /\ more[n + 1] = x
      /\ \A k \in 1..n : more[k] = w[k]
  OBVIOUS
<1>2. PICK f : PrefixSums(f, w, n) /\ SumOf(w) = f[n]
  BY SumByPrefixes
<1>3. PICK g : PrefixSums(g, more, n + 1) /\ SumOf(more) = g[n + 1]
  <2> HIDE DEF more
  <2> QED BY <1>1, SumByPrefixes
<1> HIDE DEF n, more
<1> DEFINE h == [k \in 0..n |-> g[k]]
<1>4. PrefixSums(h, w, n)
  <2>1. \A k \in 0..n : k \in 0..(n + 1) /\ g[k] \in Int
    BY <1>1, <1>3 DEF PrefixSums
  <2>2. ASSUME NEW k \in 0..(n - 1) PROVE h[k + 1] = h[k] + w[k + 1]
    <3>1. k \in 0..((n + 1) - 1) /\ k \in 0..n /\ k + 1 \in 0..n /\ k + 1 \in 1..n
      BY <1>1
    <3>2. g[k + 1] = g[k] + more[k + 1] BY <1>3, <3>1 DEF PrefixSums
    <3>3. QED BY <1>1, <3>1, <3>2
  <2>3. h[0] = 0
    BY <1>1, <1>3 DEF PrefixSums
  <2>4. QED
    BY <2>1, <2>2, <2>3 DEF PrefixSums
<1>5. f[n] = h[n] /\ h[n] = g[n] /\ f[n] \in Int
  <2>1. h[n] = g[n] BY <1>1
  <2>2. f[n] \in Int BY <1>1, <1>2 DEF PrefixSums
  <2> HIDE DEF h
  <2>3. QED BY <1>1, <1>2, <1>4, <2>1, <2>2, PrefixSumsAreOne
<1>6. g[n + 1] = g[n] + x
  <2>1. n \in 0..((n + 1) - 1) BY <1>1
  <2>2. QED BY <1>1, <1>3, <2>1 DEF PrefixSums
<1>7. QED
  BY <1>2, <1>3, <1>5, <1>6 DEF more

LEMMA SumOfTail ==
  ASSUME NEW w \in Seq(Int), w # <<>>
  PROVE  SumOf(w) = w[1] + SumOf(Tail(w))
<1> DEFINE n == Len(w)
           rest == Tail(w)
<1>1. /\ n \in Nat /\ n >= 1 /\ rest \in Seq(Int) /\ Len(rest) = n - 1 /\ w[1] \in Int
      /\ \A k \in 1..(n - 1) : rest[k] = w[k + 1]
  OBVIOUS
<1>2. PICK f : PrefixSums(f, w, n) /\ SumOf(w) = f[n]
  BY SumByPrefixes
<1>3. PICK g : PrefixSums(g, rest, n - 1) /\ SumOf(rest) = g[n - 1]
  <2> HIDE DEF rest
  <2> QED BY <1>1, SumByPrefixes
<1> HIDE DEF n, rest
<1> DEFINE h == [k \in 0..(n - 1) |-> f[k + 1] - w[1]]
<1>4. f[1] = w[1]
  <2>1. 0 \in 0..(n - 1) BY <1>1
  <2>2. f[0 + 1] = f[0] + w[0 + 1] /\ f[0] = 0 BY <1>2, <2>1 DEF PrefixSums
  <2>3. QED BY <1>1, <2>2
<1>5. PrefixSums(h, rest, n - 1)
  <2>1. \A k \in 0..(n - 1) : f[k + 1] \in Int
    <3>1. \A k \in 0..(n - 1) : k + 1 \in 0..n BY <1>1
    <3>2. QED BY <1>2, <3>1 DEF PrefixSums
  <2>2. ASSUME NEW k \in 0..((n - 1) - 1) PROVE h[k + 1] = h[k] + rest[k + 1]
    <3>1. k \in 0..(n - 1) /\ k + 1 \in 0..(n - 1) /\ k + 1 \in 1..(n - 1) /\ k \in Nat
      BY <1>1
    <3>2. f[(k + 1) + 1] = f[k + 1] + w[(k + 1) + 1] BY <1>2, <3>1 DEF PrefixSums
    <3>3. rest[k + 1] = w[(k + 1) + 1] BY <1>1, <3>1
    <3>4. f[k + 1] \in Int /\ f[(k + 1) + 1] \in Int BY <2>1, <3>1
    <3>5. h[k] = f[k + 1] - w[1] /\ h[k + 1] = f[(k + 1) + 1] - w[1] BY <3>1
    <3>6. rest[k + 1] \in Int BY <1>1, <3>1
    <3>7. f[(k + 1) + 1] - w[1] = (f[k + 1] - w[1]) + rest[k + 1]
      <4>1. f[(k + 1) + 1] = f[k + 1] + rest[k + 1] BY <3>2, <3>3
      <4>2. \A a, b, c, d \in Int : a = b + d => a - c = (b - c) + d OBVIOUS
      <4>3. w[1] \in Int BY <1>1
      <4>4. QED BY <3>4, <3>6, <4>1, <4>2, <4>3
    <3>8. QED BY <3>5, <3>7
  <2>3. h[0] = 0
    <3>1. 0 \in 0..(n - 1) /\ 0 + 1 = 1 BY <1>1
    <3>2. h[0] = f[1] - w[1] BY <3>1
    <3>3. QED BY <1>1, <1>4, <3>2
  <2>4. h \in [0..(n - 1) -> Int]
    <3>1. \A k \in 0..(n - 1) : f[k + 1] - w[1] \in Int BY <1>1, <2>1
    <3>2. QED BY <3>1
  <2>5. QED
    <3> HIDE DEF h
    <3> QED BY <2>2, <2>3, <2>4 DEF PrefixSums
<1>6. g[n - 1] = h[n - 1]
  <2> HIDE DEF h
  <2>1. n - 1 \in Nat BY <1>1
  <2>2. QED BY <1>3, <1>5, <2>1, PrefixSumsAreOne
<1>7. h[n - 1] = f[n] - w[1] /\ f[n] \in Int
  <2>1. n - 1 \in 0..(n - 1) /\ (n - 1) + 1 = n /\ n \in 0..n BY <1>1
  <2>2. f[n] \in Int BY <1>2, <2>1 DEF PrefixSums
  <2>3. QED BY <2>1, <2>2
<1>8. QED
  <2> HIDE DEF h
  <2>1. QED BY <1>1, <1>2, <1>3, <1>6, <1>7 DEF rest

\* The total of a list of positions is the sum of what each has made.
Shown == [quantity : Int, entry : Int, realised : Int, fees : Int, mark : Int]

NetOf(ps) == [i \in 1..Len(ps) |-> NetPnl(ps[i])]

LEMMA NetPnlIsInt ==
  ASSUME NEW p \in Shown
  PROVE  NetPnl(p) \in Int
<1>1. /\ p.quantity \in Int /\ p.entry \in Int /\ p.realised \in Int /\ p.fees \in Int
      /\ p.mark \in Int /\ Unit \in Int
  BY PositionsAssumption DEF Shown
<1>2. p.mark * Unit \in Int /\ Unit * p.fees \in Int
  BY <1>1
<1>3. p.quantity * (p.mark * Unit - p.entry) \in Int
  BY <1>1, <1>2
<1>4. QED
  BY <1>1, <1>2, <1>3 DEF NetPnl, Unrealised

LEMMA TotalIsSum ==
  ASSUME NEW ps \in Seq(Shown)
  PROVE  NetOf(ps) \in Seq(Int) /\ TotalPnl(ps) = SumOf(NetOf(ps))
<1> DEFINE w == NetOf(ps)
           n == Len(ps)
           FoldP(g) == g = [T \in SUBSET (1..n) |->
                              IF T = {} THEN 0 ELSE g[T \ {LastOf(T)}] + NetPnl(ps[LastOf(T)])]
           FoldW(g) == g = [T \in SUBSET (1..n) |->
                              IF T = {} THEN 0 ELSE g[T \ {LastOf(T)}] + w[LastOf(T)]]
<1>1. /\ n \in Nat /\ DOMAIN ps = 1..n /\ DOMAIN w = 1..n
      /\ \A i \in 1..n : w[i] = NetPnl(ps[i])
  BY DEF NetOf
<1>2. w \in Seq(Int)
  <2>1. \A i \in 1..n : NetPnl(ps[i]) \in Int BY NetPnlIsInt
  <2>2. QED BY <1>1, <2>1 DEF NetOf
<1>3. ASSUME NEW T \in SUBSET (1..n), T # {}
      PROVE  w[LastOf(T)] = NetPnl(ps[LastOf(T)])
  <2>1. LastOf(T) \in T BY <1>1, <1>3, LastIsThere
  <2>2. QED BY <1>1, <2>1
<1>4. \A g : FoldP(g) <=> FoldW(g)
  <2> SUFFICES ASSUME NEW g PROVE FoldP(g) <=> FoldW(g)
    OBVIOUS
  <2> HIDE DEF n, w
  <2>1. [T \in SUBSET (1..n) |-> IF T = {} THEN 0 ELSE g[T \ {LastOf(T)}] + NetPnl(ps[LastOf(T)])]
        = [T \in SUBSET (1..n) |-> IF T = {} THEN 0 ELSE g[T \ {LastOf(T)}] + w[LastOf(T)]]
    BY <1>3
  <2>2. QED BY <2>1
<1>5. (CHOOSE g : FoldP(g)) = (CHOOSE g : FoldW(g))
  <2> HIDE DEF FoldP, FoldW
  <2> QED BY <1>4, Zenon
<1>6. TotalPnl(ps) = (CHOOSE g : FoldP(g))[1..n]
  BY <1>1 DEF TotalPnl, FoldLeft, MapThenFoldSet, Max, LastOf
<1>7. SumOf(w) = (CHOOSE g : FoldW(g))[1..n]
  <2>1. n \in Nat /\ DOMAIN w = 1..n BY <1>1
  <2> HIDE DEF n, w
  <2> QED BY <2>1 DEF SumOf, FoldLeft, MapThenFoldSet, Max, LastOf
<1>8. QED
  <2> HIDE DEF FoldP, FoldW, n, w
  <2>1. TotalPnl(ps) = SumOf(w) BY <1>5, <1>6, <1>7
  <2>2. QED BY <1>2, <2>1 DEF w

LEMMA TotalOfMore ==
  ASSUME NEW ps \in Seq(Shown), NEW p \in Shown
  PROVE  TotalPnl(ps) \in Int /\ TotalPnl(Append(ps, p)) = TotalPnl(ps) + NetPnl(p)
<1>1. Append(ps, p) \in Seq(Shown)
  OBVIOUS
<1>2. NetOf(Append(ps, p)) = Append(NetOf(ps), NetPnl(p))
  BY DEF NetOf
<1>3. NetPnl(p) \in Int
  BY NetPnlIsInt
<1>4. NetOf(ps) \in Seq(Int) /\ TotalPnl(ps) = SumOf(NetOf(ps))
      /\ TotalPnl(Append(ps, p)) = SumOf(NetOf(Append(ps, p)))
  BY <1>1, TotalIsSum
<1>5. QED
  BY <1>2, <1>3, <1>4, SumOfMore

LEMMA TotalOfTail ==
  ASSUME NEW ps \in Seq(Shown), ps # <<>>
  PROVE  TotalPnl(ps) = NetPnl(ps[1]) + TotalPnl(Tail(ps))
<1>1. Tail(ps) \in Seq(Shown) /\ Len(ps) \in Nat /\ Len(ps) >= 1
  OBVIOUS
<1>2. NetOf(Tail(ps)) = Tail(NetOf(ps)) /\ NetOf(ps)[1] = NetPnl(ps[1]) /\ NetOf(ps) # <<>>
  BY <1>1 DEF NetOf
<1>3. NetOf(ps) \in Seq(Int) /\ TotalPnl(ps) = SumOf(NetOf(ps))
      /\ TotalPnl(Tail(ps)) = SumOf(NetOf(Tail(ps)))
  BY <1>1, TotalIsSum
<1>4. QED
  BY <1>2, <1>3, SumOfTail

--------------------------------------------------------------------------------
(* What a fill makes of a position *)

\* What a position has brought in less what it has cost, its holding not valued.
Carried(p) == p.realised - p.quantity * p.entry - Unit * p.fees

\* What a fill costs, in the units of the entries.
Cost(signed, price, fee) == signed * (price * Unit) + Unit * fee

LEMMA SizeAndSign ==
  ASSUME NEW n \in Int
  PROVE  /\ Size(n) \in Nat /\ n <= Size(n) /\ -n <= Size(n)
         /\ Sign(n) * Size(n) = n
         /\ Size(n) = 0 <=> n = 0
  BY DEF Size, Sign

LEMMA ShownFields ==
  ASSUME NEW p \in Shown
  PROVE  /\ p.quantity \in Int /\ p.entry \in Int /\ p.realised \in Int /\ p.fees \in Int
         /\ p.mark \in Int
         /\ p = [quantity |-> p.quantity, entry |-> p.entry, realised |-> p.realised,
                 fees |-> p.fees, mark |-> p.mark]
         /\ p.quantity * p.entry \in Int /\ Unit * p.fees \in Int /\ Carried(p) \in Int
<1>1. /\ p.quantity \in Int /\ p.entry \in Int /\ p.realised \in Int /\ p.fees \in Int
      /\ p.mark \in Int
      /\ p = [quantity |-> p.quantity, entry |-> p.entry, realised |-> p.realised,
              fees |-> p.fees, mark |-> p.mark]
  BY DEF Shown
<1>2. p.quantity * p.entry \in Int /\ Unit * p.fees \in Int
  BY <1>1, PositionsAssumption
<1>3. QED
  BY <1>1, <1>2 DEF Carried

LEMMA CostIsInt ==
  ASSUME NEW s \in Int, NEW price \in Int, NEW fee \in Int
  PROVE  price * Unit \in Int /\ s * (price * Unit) \in Int /\ Unit * fee \in Int
         /\ Cost(s, price, fee) \in Int
<1>1. price * Unit \in Int /\ Unit * fee \in Int
  BY PositionsAssumption
<1>2. s * (price * Unit) \in Int
  BY <1>1
<1>3. QED
  BY <1>1, <1>2 DEF Cost

LEMMA OpeningIsExact ==
  ASSUME NEW s \in Int, NEW price \in Int, NEW fee \in Int
  PROVE  /\ Opened(s, price, fee) \in Shown
         /\ Opened(s, price, fee).quantity = s
         /\ Carried(Opened(s, price, fee)) = -Cost(s, price, fee)
<1> DEFINE o == Opened(s, price, fee)
<1>1. price * Unit \in Int /\ s * (price * Unit) \in Int /\ Unit * fee \in Int
  BY CostIsInt
<1>2. /\ o.quantity = s /\ o.entry = price * Unit /\ o.realised = 0 /\ o.fees = fee
      /\ o \in Shown
  BY <1>1 DEF Opened, Shown
<1> HIDE DEF o
<1>3. Carried(o) = 0 - s * (price * Unit) - Unit * fee
  BY <1>2 DEF Carried
<1>4. QED
  BY <1>1, <1>2, <1>3 DEF Cost, o

\* An average rounded down loses less than the whole weight of it.
LEMMA RemainderOfAverage ==
  ASSUME NEW total \in Int, NEW d \in Nat \ {0}
  PROVE  total \div d \in Int /\ d * (total \div d) \in Int
         /\ 0 <= total - d * (total \div d) /\ total - d * (total \div d) <= d
OBVIOUS

LEMMA ScalingInIsClose ==
  ASSUME NEW p \in Shown, NEW s \in Int, s # 0, p.quantity # 0, SameSide(p.quantity, s),
         NEW price \in Int, NEW fee \in Int
  PROVE  LET q == ScaledIn(p, s, price, fee)
         IN  /\ q \in Shown /\ q.quantity = p.quantity + s /\ q.quantity # 0
             /\ Size(Carried(q) - Carried(p) + Cost(s, price, fee)) <= Size(p.quantity + s)
<1> DEFINE q == ScaledIn(p, s, price, fee)
           X == price * Unit
           total == Size(p.quantity) * p.entry + Size(s) * price * Unit
           d == Size(p.quantity) + Size(s)
           e == total \div d
<1>1. /\ p.quantity \in Int /\ p.entry \in Int /\ p.realised \in Int /\ p.fees \in Int
      /\ p = [quantity |-> p.quantity, entry |-> p.entry, realised |-> p.realised,
              fees |-> p.fees, mark |-> p.mark]
      /\ p.quantity * p.entry \in Int /\ Unit * p.fees \in Int
  BY ShownFields
<1>2. X \in Int /\ s * X \in Int /\ Unit * fee \in Int
  BY CostIsInt
<1>3. Size(p.quantity) \in Nat \ {0} /\ Size(s) \in Nat \ {0}
  BY <1>1, SizeAndSign
<1>4. d \in Nat \ {0}
  <2>1. \A m, n \in Nat \ {0} : m + n \in Nat \ {0} OBVIOUS
  <2>2. QED BY <1>3, <2>1
<1>5. total = Size(p.quantity) * p.entry + Size(s) * X /\ total \in Int
  <2>1. Size(s) * price * Unit = Size(s) * X
    <3>1. \A a, b, c \in Int : a * b * c = a * (b * c) OBVIOUS
    <3>2. Unit \in Int BY PositionsAssumption
    <3>3. QED BY <1>3, <3>1, <3>2
  <2>2. Size(p.quantity) * p.entry \in Int /\ Size(s) * X \in Int
    BY <1>1, <1>2, <1>3
  <2>3. QED BY <2>1, <2>2
<1>6. q = [quantity |-> p.quantity + s, entry |-> e, realised |-> p.realised,
           fees |-> p.fees + fee, mark |-> price]
  <2>1. q = [p EXCEPT !.quantity = p.quantity + s, !.entry = e, !.fees = p.fees + fee,
                      !.mark = price]
    BY DEF ScaledIn
  <2> HIDE DEF e, q
  <2>2. QED BY <1>1, <2>1
<1> HIDE DEF total, X, q
<1>7. e \in Int /\ 0 <= total - d * e /\ total - d * e <= d /\ d * e \in Int
  <2> HIDE DEF d
  <2> QED BY <1>4, <1>5, RemainderOfAverage
<1> HIDE DEF e
<1>8. /\ q \in Shown
      /\ q.quantity = p.quantity + s /\ q.entry = e /\ q.realised = p.realised
      /\ q.fees = p.fees + fee
  BY <1>1, <1>6, <1>7 DEF Shown
<1>9. Unit * (p.fees + fee) = Unit * p.fees + Unit * fee
  BY <1>1, PositionsAssumption
<1>10. Carried(q) - Carried(p) + Cost(s, price, fee)
         = p.quantity * p.entry + s * X - (p.quantity + s) * e
  <2>1. (p.quantity + s) * e \in Int BY <1>1, <1>7
  <2>2. Carried(q) = p.realised - (p.quantity + s) * e - (Unit * p.fees + Unit * fee)
    BY <1>8, <1>9 DEF Carried
  <2>3. Carried(p) = p.realised - p.quantity * p.entry - Unit * p.fees
    BY DEF Carried
  <2>4. Cost(s, price, fee) = s * X + Unit * fee
    BY DEF Cost, X
  <2>5. QED
    BY <1>1, <1>2, <2>1, <2>2, <2>3, <2>4
<1>11. CASE p.quantity > 0
  <2>1. Size(p.quantity) = p.quantity /\ Size(s) = s /\ d = p.quantity + s
        /\ Size(p.quantity + s) = d /\ p.quantity + s # 0
    BY <1>1, <1>11 DEF SameSide, Size
  <2>2. p.quantity * p.entry + s * X - (p.quantity + s) * e = total - d * e
    <3>1. total = p.quantity * p.entry + s * X BY <1>5, <2>1
    <3>2. d * e = (p.quantity + s) * e
      <4> HIDE DEF d
      <4> QED BY <2>1
    <3>3. s * X \in Int /\ p.quantity * p.entry \in Int /\ d * e \in Int BY <1>1, <1>2, <1>7
    <3> HIDE DEF d
    <3>4. p.quantity * p.entry + s * X - (p.quantity + s) * e
            = (p.quantity * p.entry + s * X) - d * e
      BY <3>2, <3>3
    <3>5. QED BY <3>1, <3>4
  <2>3. Size(total - d * e) <= d
    <3> HIDE DEF d
    <3> QED BY <1>4, <1>5, <1>7 DEF Size
  <2>4. QED
    BY <1>8, <1>10, <2>1, <2>2, <2>3 DEF q
<1>12. CASE ~(p.quantity > 0)
  <2>1. Size(p.quantity) = -p.quantity /\ Size(s) = -s /\ d = -(p.quantity + s)
        /\ Size(p.quantity + s) = d /\ p.quantity + s # 0
    BY <1>1, <1>12 DEF SameSide, Size
  <2>2. p.quantity * p.entry + s * X - (p.quantity + s) * e = -(total - d * e)
    <3>1. total = (-p.quantity) * p.entry + (-s) * X
      BY <1>5, <2>1
    <3>2. d * e = -((p.quantity + s) * e)
      <4> HIDE DEF d
      <4>1. QED BY <1>1, <1>7, <2>1
    <3>3. (-p.quantity) * p.entry = -(p.quantity * p.entry) /\ (-s) * X = -(s * X)
      BY <1>1, <1>2
    <3>4. (p.quantity + s) * e \in Int BY <1>1, <1>7
    <3> HIDE DEF d
    <3>5. QED BY <1>1, <1>2, <3>1, <3>2, <3>3, <3>4
  <2>3. Size(-(total - d * e)) <= d
    <3> HIDE DEF d
    <3> QED BY <1>4, <1>5, <1>7 DEF Size
  <2>4. QED
    BY <1>8, <1>10, <2>1, <2>2, <2>3 DEF q
<1>13. QED
  BY <1>11, <1>12

LEMMA ReducingIsExact ==
  ASSUME NEW p \in Shown, NEW s \in Int, s # 0, p.quantity # 0, ~SameSide(p.quantity, s),
         NEW price \in Int, NEW fee \in Int
  PROVE  LET q == Reduced(p, s, price, fee)
             c == Sign(p.quantity) * Closing(p, s)
         IN  /\ q \in Shown /\ c \in Int /\ q.quantity = p.quantity - c
             /\ q.realised = p.realised + (c * (price * Unit) - c * p.entry)
             /\ q.fees = p.fees + fee
             /\ (Size(s) < Size(p.quantity) => c = -s)
             /\ (Size(s) >= Size(p.quantity) => c = p.quantity)
             /\ (q.quantity = 0 <=> Size(s) >= Size(p.quantity))
<1> DEFINE q == Reduced(p, s, price, fee)
           c == Sign(p.quantity) * Closing(p, s)
           X == price * Unit
<1>1. /\ p.quantity \in Int /\ p.entry \in Int /\ p.realised \in Int /\ p.fees \in Int
      /\ p = [quantity |-> p.quantity, entry |-> p.entry, realised |-> p.realised,
              fees |-> p.fees, mark |-> p.mark]
  BY ShownFields
<1>2. X \in Int
  BY CostIsInt
<1>3. /\ c \in Int
      /\ (Size(s) < Size(p.quantity) => c = -s)
      /\ (Size(s) >= Size(p.quantity) => c = p.quantity)
      /\ Sign(p.quantity) * (Size(p.quantity) - Closing(p, s)) = p.quantity - c
  BY <1>1 DEF Sign, Size, Closing, Smaller, SameSide
<1>4. p.quantity - c = 0 <=> Size(s) >= Size(p.quantity)
  BY <1>1 DEF Sign, Size, Closing, Smaller, SameSide
<1>5. Realised(p, s, price) = c * (X - p.entry)
  BY DEF Realised
<1> HIDE DEF c, X
<1>6. Realised(p, s, price) = c * X - c * p.entry /\ c * X \in Int /\ c * p.entry \in Int
  BY <1>1, <1>2, <1>3, <1>5
<1>7. q = [quantity |-> p.quantity - c, entry |-> p.entry,
           realised |-> p.realised + (c * X - c * p.entry), fees |-> p.fees + fee,
           mark |-> price]
  <2>1. q = [p EXCEPT !.quantity = p.quantity - c, !.realised = p.realised + Realised(p, s, price),
                      !.fees = p.fees + fee, !.mark = price]
    BY <1>1, <1>3 DEF Reduced
  <2> HIDE DEF q
  <2>2. QED BY <1>1, <1>6, <2>1
<1>8. /\ q \in Shown /\ q.quantity = p.quantity - c
      /\ q.realised = p.realised + (c * X - c * p.entry) /\ q.fees = p.fees + fee
  <2> HIDE DEF q
  <2>1. QED BY <1>1, <1>3, <1>6, <1>7 DEF Shown
<1>9. QED
  BY <1>3, <1>4, <1>8 DEF q, c, X

LEMMA PartialExitIsExact ==
  ASSUME NEW p \in Shown, NEW s \in Int, s # 0, p.quantity # 0, ~SameSide(p.quantity, s),
         NEW price \in Int, NEW fee \in Int, Size(s) < Size(p.quantity)
  PROVE  LET q == Reduced(p, s, price, fee)
         IN  q.quantity = p.quantity + s /\ Carried(q) = Carried(p) - Cost(s, price, fee)
<1> DEFINE q == Reduced(p, s, price, fee)
           X == price * Unit
<1>1. /\ p.quantity \in Int /\ p.entry \in Int /\ p.realised \in Int /\ p.fees \in Int
      /\ p.quantity * p.entry \in Int /\ Unit * p.fees \in Int
  BY ShownFields
<1>2. X \in Int /\ s * X \in Int /\ Unit * fee \in Int
  BY CostIsInt
<1>3. /\ q \in Shown /\ q.quantity = p.quantity - (-s)
      /\ q.realised = p.realised + ((-s) * X - (-s) * p.entry) /\ q.fees = p.fees + fee
      /\ q.entry = p.entry
  <2>1. Sign(p.quantity) * Closing(p, s) = -s
    BY ReducingIsExact
  <2>2. q.entry = p.entry
    BY DEF Reduced, Shown
  <2>3. QED BY <2>1, <2>2, ReducingIsExact
<1> HIDE DEF q, X
<1>4. (-s) * X = -(s * X) /\ (-s) * p.entry = -(s * p.entry) /\ s * p.entry \in Int
  BY <1>1, <1>2
<1>5. q.quantity = p.quantity + s /\ q.realised = p.realised + (s * p.entry - s * X)
  BY <1>1, <1>2, <1>3, <1>4
<1>6. (p.quantity + s) * p.entry = p.quantity * p.entry + s * p.entry
  BY <1>1
<1>7. Unit * (p.fees + fee) = Unit * p.fees + Unit * fee
  BY <1>1, PositionsAssumption
<1>8. Carried(q) = (p.realised + (s * p.entry - s * X)) - (p.quantity * p.entry + s * p.entry)
                   - (Unit * p.fees + Unit * fee)
  <2>1. Carried(q) = q.realised - q.quantity * q.entry - Unit * q.fees
    BY DEF Carried
  <2>2. q.quantity * q.entry = p.quantity * p.entry + s * p.entry
    BY <1>3, <1>5, <1>6
  <2>3. Unit * q.fees = Unit * p.fees + Unit * fee
    BY <1>3, <1>7
  <2>4. QED
    BY <1>5, <2>1, <2>2, <2>3
<1>9. Carried(q) = Carried(p) - (s * X + Unit * fee)
  <2>1. Carried(p) = p.realised - p.quantity * p.entry - Unit * p.fees
    BY DEF Carried
  <2>2. QED BY <1>1, <1>2, <1>4, <1>8, <2>1
<1>10. QED
  BY <1>5, <1>9 DEF q, X, Cost

\* A round trip that closes, and what turns over into a new position.
LEMMA ReversalIsExact ==
  ASSUME NEW p \in Shown, NEW s \in Int, s # 0, p.quantity # 0, ~SameSide(p.quantity, s),
         NEW price \in Int, NEW fee \in Int, Size(s) >= Size(p.quantity)
  PROVE  LET q == Reduced(p, s, price, fee)
             o == Surplus(p, s, price)
         IN  /\ q \in Shown /\ o \in Shown /\ o.quantity = p.quantity + s
             /\ (o.quantity = 0 => o = NotOpen)
             /\ NetPnl(q) + Carried(o) = Carried(p) - Cost(s, price, fee)
<1> DEFINE q == Reduced(p, s, price, fee)
           o == Surplus(p, s, price)
           X == price * Unit
           r == p.quantity + s
<1>1. /\ p.quantity \in Int /\ p.entry \in Int /\ p.realised \in Int /\ p.fees \in Int
      /\ p.quantity * p.entry \in Int /\ Unit * p.fees \in Int
  BY ShownFields
<1>2. X \in Int /\ s * X \in Int /\ Unit * fee \in Int
  BY CostIsInt
<1>3. /\ q \in Shown /\ q.quantity = 0
      /\ q.realised = p.realised + (p.quantity * X - p.quantity * p.entry)
      /\ q.fees = p.fees + fee
  <2>1. Sign(p.quantity) * Closing(p, s) = p.quantity
    BY ReducingIsExact
  <2>2. QED BY <2>1, ReducingIsExact
<1>4. NetPnl(q) = (p.realised + (p.quantity * X - p.quantity * p.entry))
                   - Unit * (p.fees + fee)
  <2> HIDE DEF q, X
  <2>1. NetPnl(q) = q.realised + 0 - Unit * q.fees BY <1>3 DEF NetPnl
  <2>2. p.quantity * X \in Int BY <1>1, <1>2
  <2>3. q.realised \in Int BY <1>1, <1>3, <2>2
  <2>4. NetPnl(q) = q.realised - Unit * q.fees
    <3>1. \A m, n \in Int : m + 0 - n = m - n OBVIOUS
    <3>2. Unit * q.fees \in Int BY <1>1, <1>3, PositionsAssumption
    <3>3. QED BY <2>1, <2>3, <3>1, <3>2, Zenon
  <2>5. QED BY <1>3, <2>4
<1>5. /\ Sign(s) * (Size(s) - Closing(p, s)) = r
      /\ Size(s) = Closing(p, s) <=> r = 0
  BY <1>1 DEF Sign, Size, Closing, Smaller, SameSide
<1>6. /\ o \in Shown /\ o.quantity = r /\ (o.quantity = 0 => o = NotOpen)
      /\ Carried(o) = -(r * X)
  <2>1. CASE r = 0
    <3>1. o = NotOpen BY <1>5, <2>1 DEF Surplus
    <3>2. NotOpen \in Shown /\ NotOpen.quantity = 0 BY DEF NotOpen, Shown
    <3>3. Carried(NotOpen) = 0
      BY PositionsAssumption DEF NotOpen, Carried
    <3>4. r * X = 0 BY <1>2, <2>1
    <3> HIDE DEF o, r, X
    <3>5. QED BY <2>1, <3>1, <3>2, <3>3, <3>4
  <2>2. CASE r # 0
    <3>1. o = Opened(r, price, 0) BY <1>5, <2>2 DEF Surplus
    <3>2. r \in Int BY <1>1
    <3> HIDE DEF o, r
    <3>3. /\ o \in Shown /\ o.quantity = r /\ Carried(o) = -Cost(r, price, 0)
      BY <3>1, <3>2, OpeningIsExact
    <3>4. Cost(r, price, 0) = r * X
      <4>1. r * X \in Int /\ Unit * 0 = 0 BY <1>2, <3>2, PositionsAssumption
      <4>2. QED BY <4>1 DEF Cost
    <3>5. QED BY <2>2, <3>3, <3>4
  <2>3. QED BY <2>1, <2>2
<1> HIDE DEF q, o, X
<1>7. NetPnl(q) + Carried(o) = Carried(p) - (s * X + Unit * fee)
  <2>1. r * X = p.quantity * X + s * X /\ p.quantity * X \in Int
    BY <1>1, <1>2
  <2>2. Unit * (p.fees + fee) = Unit * p.fees + Unit * fee
    BY <1>1, PositionsAssumption
  <2>3. Carried(p) = p.realised - p.quantity * p.entry - Unit * p.fees
    BY DEF Carried
  <2> HIDE DEF r
  <2>4. QED BY <1>1, <1>2, <1>4, <1>6, <2>1, <2>2, <2>3
<1>8. QED
  BY <1>3, <1>6, <1>7 DEF q, o, X, Cost

--------------------------------------------------------------------------------
\* What the display, the trimmed history and the cash of the fills differ by.
Gap == TotalPnl(closed) + trimmed + Carried(position) - Unit * flow

\* Each fill is counted in full but for the fraction that an average drops, less
\* than a unit for each lot held.
PositionsInv ==
  /\ position \in Shown /\ (position.quantity = 0 => position = NotOpen)
  /\ position.quantity = reported /\ Size(reported) <= MaxHeld
  /\ closed \in Seq(Shown) /\ Len(closed) <= MaxClosed
  /\ journal \in Seq(Int) /\ SumOf(journal) = TotalPnl(closed) + trimmed
  /\ fills \in Nat /\ flow \in Int /\ trimmed \in Int
  /\ Size(Gap) <= fills * MaxHeld

LEMMA EmptySums == TotalPnl(<<>>) = 0 /\ SumOf(<<>>) = 0
<1>1. SumOf(<<>>) = 0
  <2>1. <<>> \in Seq(Int) /\ Len(<<>>) = 0 OBVIOUS
  <2>2. PICK f : PrefixSums(f, <<>>, 0) /\ SumOf(<<>>) = f[0]
    BY <2>1, SumByPrefixes
  <2>3. QED BY <2>2 DEF PrefixSums
<1>2. TotalPnl(<<>>) = SumOf(NetOf(<<>>)) /\ NetOf(<<>>) \in Seq(Int)
  <2>1. <<>> \in Seq(Shown) OBVIOUS
  <2>2. QED BY <2>1, TotalIsSum
<1>3. NetOf(<<>>) = <<>>
  BY DEF NetOf
<1>4. QED
  BY <1>1, <1>2, <1>3

LEMMA PositionsInitially == PositionsInit => PositionsInv
<1> SUFFICES ASSUME PositionsInit PROVE PositionsInv
  OBVIOUS
<1>1. /\ position = NotOpen /\ closed = <<>> /\ journal = <<>> /\ fills = 0 /\ flow = 0
      /\ reported = 0 /\ trimmed = 0
  BY DEF PositionsInit
<1>2. NotOpen \in Shown /\ NotOpen.quantity = 0 /\ Carried(NotOpen) = 0
  <2>1. Unit * 0 = 0 BY PositionsAssumption
  <2>2. QED BY <2>1 DEF NotOpen, Shown, Carried
<1>3. Size(0) = 0 /\ 0 * MaxHeld = 0 /\ Unit * 0 = 0 /\ MaxHeld \in Nat
  BY PositionsAssumption DEF Size
<1>4. Gap = 0
  BY <1>1, <1>2, <1>3, EmptySums DEF Gap
<1>5. QED
  BY <1>1, <1>2, <1>3, <1>4, EmptySums, PositionsAssumption DEF PositionsInv

\* A gap that a step widens by at most MaxHeld.
LEMMA GapGrows ==
  ASSUME NEW n \in Nat, NEW a \in Int, NEW b \in Int,
         Size(a) <= n * MaxHeld, Size(b - a) <= MaxHeld
  PROVE  Size(b) <= (n + 1) * MaxHeld
<1>1. (n + 1) * MaxHeld = n * MaxHeld + MaxHeld /\ n * MaxHeld \in Nat /\ MaxHeld \in Nat
  <2>1. MaxHeld \in Nat BY PositionsAssumption
  <2>2. \A m, k \in Nat : m * k \in Nat OBVIOUS
  <2>3. n * MaxHeld \in Nat BY <2>1, <2>2
  <2>4. QED BY <2>1, <2>3
<1>2. QED
  BY <1>1 DEF Size

\* A round trip that ends is in the list and in the journal, and the one it pushes
\* out of the list is still in what was trimmed.
LEMMA RetireKeepsSums ==
  ASSUME PositionsInv, NEW p \in Shown, Retire(p)
  PROVE  /\ closed' \in Seq(Shown) /\ Len(closed') <= MaxClosed
         /\ journal' \in Seq(Int) /\ trimmed' \in Int
         /\ TotalPnl(closed') \in Int /\ TotalPnl(closed) \in Int
         /\ TotalPnl(closed') + trimmed' = TotalPnl(closed) + trimmed + NetPnl(p)
         /\ SumOf(journal') = TotalPnl(closed') + trimmed'
<1> DEFINE all == Append(closed, p)
<1>1. /\ closed \in Seq(Shown) /\ Len(closed) <= MaxClosed /\ trimmed \in Int
      /\ journal \in Seq(Int) /\ SumOf(journal) = TotalPnl(closed) + trimmed
  BY DEF PositionsInv
<1>2. MaxClosed \in Nat /\ Len(closed) \in Nat
  BY <1>1, PositionsAssumption
<1>3. NetPnl(p) \in Int
  BY NetPnlIsInt
<1>4. journal' \in Seq(Int) /\ SumOf(journal') = SumOf(journal) + NetPnl(p)
  BY <1>1, <1>3, SumOfMore DEF Retire
<1>5. TotalPnl(closed) \in Int /\ TotalPnl(all) = TotalPnl(closed) + NetPnl(p)
  BY <1>1, TotalOfMore
<1>6. all \in Seq(Shown) /\ Len(all) = Len(closed) + 1 /\ all # <<>>
      /\ all[1] = (closed \o <<p>>)[1] /\ all[1] \in Shown
  BY <1>1, <1>2
<1>7. CASE Len(closed) = MaxClosed
  <2>1. closed' = Tail(all)
    <3>1. Len(all) > MaxClosed /\ Len(all) - MaxClosed + 1 = 2
      BY <1>2, <1>6, <1>7
    <3>2. closed' = SubSeq(all, 2, Len(all))
      BY <3>1 DEF Retire
    <3> HIDE DEF all
    <3>3. SubSeq(all, 2, Len(all)) = Tail(all) BY <1>6
    <3>4. QED BY <3>2, <3>3
  <2>2. trimmed' = trimmed + NetPnl(all[1])
    BY <1>6, <1>7 DEF Retire
  <2> HIDE DEF all
  <2>3. TotalPnl(all) = NetPnl(all[1]) + TotalPnl(Tail(all))
    BY <1>6, TotalOfTail
  <2>4. Tail(all) \in Seq(Shown) /\ Len(Tail(all)) = Len(closed)
    BY <1>2, <1>6
  <2>5. NetPnl(all[1]) \in Int /\ TotalPnl(Tail(all)) \in Int
    BY <1>3, <1>6, <2>4, NetPnlIsInt, TotalOfMore
  <2>6. TotalPnl(closed') + trimmed' = TotalPnl(closed) + trimmed + NetPnl(p)
    <3>1. TotalPnl(closed) + NetPnl(p) = NetPnl(all[1]) + TotalPnl(Tail(all))
      BY <1>5, <2>3
    <3>2. TotalPnl(Tail(all)) + (trimmed + NetPnl(all[1])) = TotalPnl(closed) + trimmed + NetPnl(p)
      <4>1. trimmed \in Int BY <1>1
      <4>2. TotalPnl(closed) \in Int BY <1>5
      <4>3. NetPnl(all[1]) \in Int BY <2>5
      <4>4. TotalPnl(Tail(all)) \in Int BY <2>5
      <4>5. QED BY <1>3, <3>1, <4>1, <4>2, <4>3, <4>4
    <3>3. QED
      BY <2>1, <2>2, <3>2, Zenon
  <2>7. trimmed' \in Int /\ TotalPnl(closed') \in Int
    BY <1>1, <2>1, <2>2, <2>5
  <2>8. SumOf(journal') = TotalPnl(closed') + trimmed'
    BY <1>1, <1>4, <2>6
  <2>9. QED
    BY <1>1, <1>4, <1>5, <2>1, <2>4, <2>6, <2>7, <2>8
<1>8. CASE Len(closed) # MaxClosed
  <2>1. Len(all) <= MaxClosed /\ ~(Len(all) > MaxClosed)
    BY <1>1, <1>2, <1>6, <1>8
  <2>2. closed' = SubSeq(all, 1, Len(all)) /\ trimmed' = trimmed + 0
    BY <1>8, <2>1 DEF Retire
  <2> HIDE DEF all
  <2>3. closed' = all /\ trimmed' = trimmed
    BY <1>1, <1>6, <2>2
  <2>4. TotalPnl(closed') \in Int
    BY <1>3, <1>5, <2>3
  <2>5. TotalPnl(closed') + trimmed' = TotalPnl(closed) + trimmed + NetPnl(p)
    BY <1>1, <1>3, <1>5, <2>3
  <2>6. SumOf(journal') = TotalPnl(closed') + trimmed'
    BY <1>1, <1>4, <2>5
  <2>7. QED
    BY <1>1, <1>4, <1>5, <1>6, <2>1, <2>3, <2>4, <2>5, <2>6
<1>9. QED
  BY <1>7, <1>8

\* Whatever the fill opens, adds to, reduces or turns over.
LEMMA FillKeepsPositions ==
  ASSUME PositionsInv, NEW s \in Int, s # 0, NEW price \in Int, NEW fee \in Int,
         OnFill(s, price, fee), Counted(s, price, fee), Size(reported + s) <= MaxHeld
  PROVE  PositionsInv'
<1> DEFINE T == TotalPnl(closed) + trimmed
           cost == Cost(s, price, fee)
<1>1. /\ position \in Shown /\ (position.quantity = 0 => position = NotOpen)
      /\ position.quantity = reported
      /\ closed \in Seq(Shown) /\ Len(closed) <= MaxClosed
      /\ journal \in Seq(Int) /\ SumOf(journal) = T
      /\ fills \in Nat /\ flow \in Int /\ trimmed \in Int
      /\ Size(Gap) <= fills * MaxHeld
  BY DEF PositionsInv
<1>2. fills' = fills + 1 /\ flow' = flow - s * price - fee /\ reported' = reported + s
  BY DEF Counted
<1>3. flow' \in Int /\ Unit * flow \in Int /\ Unit * flow' = Unit * flow - cost /\ cost \in Int
  <2>1. s * price \in Int /\ Unit \in Int
    BY PositionsAssumption
  <2>2. Unit * (flow - s * price - fee) = Unit * flow - s * (price * Unit) - Unit * fee
    BY <1>1, <2>1
  <2>3. cost = s * (price * Unit) + Unit * fee /\ s * (price * Unit) \in Int /\ Unit * fee \in Int
        /\ cost \in Int
    BY CostIsInt DEF Cost
  <2>4. Unit * flow \in Int /\ flow - s * price - fee \in Int
    BY <1>1, <2>1
  <2> HIDE DEF cost
  <2>5. QED
    BY <1>2, <2>2, <2>3, <2>4
<1>4. T \in Int /\ Carried(position) \in Int /\ position.quantity \in Int
  <2>1. TotalPnl(closed) \in Int
    <3>1. NotOpen \in Shown BY DEF NotOpen, Shown
    <3>2. QED BY <1>1, <3>1, TotalOfMore
  <2>2. QED BY <1>1, <2>1, ShownFields
<1>5. MaxHeld \in Nat /\ Size(0) <= MaxHeld
  BY PositionsAssumption DEF Size
<1> DEFINE Kept == /\ closed' \in Seq(Shown) /\ Len(closed') <= MaxClosed
                   /\ journal' \in Seq(Int) /\ trimmed' \in Int
                   /\ TotalPnl(closed') + trimmed' \in Int
                   /\ SumOf(journal') = TotalPnl(closed') + trimmed'
           Taken(p) == /\ p \in Shown /\ (p.quantity = 0 => p = NotOpen)
                       /\ p.quantity = position.quantity + s
<1>6. ASSUME Taken(position'), Kept,
             Size(TotalPnl(closed') + trimmed' + Carried(position')
                  - (T + Carried(position)) + cost) <= MaxHeld
      PROVE  PositionsInv'
  <2>1. Carried(position') \in Int
    BY <1>6, ShownFields
  <2>2. Gap = T + Carried(position) - Unit * flow
    BY DEF Gap
  <2>3. Gap' = TotalPnl(closed') + trimmed' + Carried(position') - (Unit * flow - cost)
    BY <1>3 DEF Gap
  <2> DEFINE T1 == TotalPnl(closed') + trimmed'
  <2>4. T1 \in Int
    BY <1>6
  <2> HIDE DEF T, cost, T1
  <2>5. Gap \in Int /\ Gap' \in Int
        /\ Gap' - Gap = T1 + Carried(position') - (T + Carried(position)) + cost
    <3>1. Gap' = T1 + Carried(position') - (Unit * flow - cost) BY <2>3 DEF T1
    <3>2. QED BY <1>3, <1>4, <2>1, <2>2, <2>4, <3>1
  <2>6. Size(Gap' - Gap) <= MaxHeld
    BY <1>6, <2>5 DEF T1
  <2>7. Size(Gap') <= (fills + 1) * MaxHeld
    BY <1>1, <2>5, <2>6, GapGrows
  <2>8. fills + 1 \in Nat
    BY <1>1
  <2>9. position'.quantity = reported' /\ Size(reported') <= MaxHeld
    BY <1>1, <1>2, <1>6
  <2>10. QED
    BY <1>2, <1>3, <1>6, <2>7, <2>8, <2>9 DEF PositionsInv
<1>7. ASSUME UNCHANGED <<closed, journal, trimmed>>
      PROVE  Kept /\ TotalPnl(closed') + trimmed' = T
  BY <1>1, <1>4, <1>7
<1>8. CASE position = NotOpen
  <2>1. position' = Opened(s, price, fee) /\ UNCHANGED <<closed, journal, trimmed>>
    BY <1>8 DEF OnFill
  <2>2. position.quantity = 0 /\ Carried(position) = 0
    <3>1. Unit * 0 = 0 BY PositionsAssumption
    <3>2. QED BY <1>8, <3>1 DEF NotOpen, Carried
  <2>3. Taken(position') /\ Carried(position') = -cost
    BY <2>1, <2>2, OpeningIsExact
  <2>4. TotalPnl(closed') + trimmed' + Carried(position') - (T + Carried(position)) + cost = 0
    <3>1. TotalPnl(closed') + trimmed' = T BY <1>7, <2>1
    <3> HIDE DEF T, cost
    <3>2. T + -cost - (T + 0) + cost = 0 BY <1>3, <1>4
    <3>3. QED BY <2>2, <2>3, <3>1, <3>2
  <2>5. QED
    BY <1>5, <1>6, <1>7, <2>1, <2>3, <2>4
<1>9. CASE position # NotOpen /\ SameSide(position.quantity, s)
  <2>1. position' = ScaledIn(position, s, price, fee) /\ UNCHANGED <<closed, journal, trimmed>>
    BY <1>9 DEF OnFill
  <2>2. position.quantity # 0
    BY <1>1, <1>9
  <2>3. /\ Taken(position')
        /\ Size(Carried(position') - Carried(position) + cost) <= MaxHeld
    <3>1. /\ position' \in Shown /\ position'.quantity = position.quantity + s
          /\ position'.quantity # 0
          /\ Size(Carried(position') - Carried(position) + cost) <= Size(position.quantity + s)
      BY <1>1, <1>9, <2>1, <2>2, ScalingInIsClose
    <3>2. Size(position.quantity + s) <= MaxHeld
      BY <1>1
    <3>3. Carried(position') \in Int
      BY <3>1, ShownFields
    <3> HIDE DEF cost
    <3>4. Size(position.quantity + s) \in Int
          /\ Size(Carried(position') - Carried(position) + cost) \in Int
      BY <1>3, <1>4, <3>3, SizeAndSign
    <3>5. QED
      BY <1>5, <3>1, <3>2, <3>4
  <2>4. TotalPnl(closed') + trimmed' + Carried(position') - (T + Carried(position)) + cost
          = Carried(position') - Carried(position) + cost
    <3>1. TotalPnl(closed') + trimmed' = T BY <1>7, <2>1
    <3>2. Carried(position') \in Int BY <2>3, ShownFields
    <3> HIDE DEF T, cost
    <3>3. T + Carried(position') - (T + Carried(position)) + cost
            = Carried(position') - Carried(position) + cost
      BY <1>3, <1>4, <3>2
    <3>4. QED BY <3>1, <3>3
  <2>5. QED
    BY <1>6, <1>7, <2>1, <2>3, <2>4
<1>10. CASE position # NotOpen /\ ~SameSide(position.quantity, s)
  <2> DEFINE q == Reduced(position, s, price, fee)
  <2>1. position.quantity # 0
    BY <1>1, <1>10
  <2>2. q.quantity = 0 <=> Size(s) >= Size(position.quantity)
    BY <1>1, <1>10, <2>1, ReducingIsExact
  <2>3. Size(s) \in Nat /\ Size(position.quantity) \in Nat
    BY <1>4, SizeAndSign
  <2>4. CASE q.quantity # 0
    <3>1. position' = q /\ UNCHANGED <<closed, journal, trimmed>>
      BY <1>10, <2>4 DEF OnFill
    <3>2. Size(s) < Size(position.quantity)
      BY <2>2, <2>3, <2>4
    <3>3. /\ q \in Shown /\ q.quantity = position.quantity + s
          /\ Carried(q) = Carried(position) - cost
      BY <1>1, <1>10, <2>1, <3>2, ReducingIsExact, PartialExitIsExact
    <3> HIDE DEF q
    <3>4. TotalPnl(closed') + trimmed' + Carried(position') - (T + Carried(position)) + cost = 0
      <4>1. TotalPnl(closed') + trimmed' = T BY <1>7, <3>1
      <4> HIDE DEF T, cost
      <4>2. T + (Carried(position) - cost) - (T + Carried(position)) + cost = 0
        BY <1>3, <1>4
      <4>3. QED BY <3>1, <3>3, <4>1, <4>2
    <3>5. Taken(position')
      BY <2>4, <3>1, <3>3
    <3>6. QED
      BY <1>5, <1>6, <1>7, <3>1, <3>4, <3>5
  <2>5. CASE q.quantity = 0
    <3>1. Retire(q) /\ position' = Surplus(position, s, price)
      BY <1>10, <2>5 DEF OnFill
    <3>2. /\ q \in Shown /\ position' \in Shown
          /\ position'.quantity = position.quantity + s
          /\ (position'.quantity = 0 => position' = NotOpen)
          /\ NetPnl(q) + Carried(position') = Carried(position) - cost
      BY <1>1, <1>10, <2>1, <2>2, <2>5, <3>1, ReversalIsExact
    <3> HIDE DEF q
    <3>3. Kept /\ TotalPnl(closed') + trimmed' = T + NetPnl(q)
      BY <3>1, <3>2, RetireKeepsSums
    <3>4. NetPnl(q) \in Int /\ Carried(position') \in Int
      BY <3>2, NetPnlIsInt, ShownFields
    <3>5. TotalPnl(closed') + trimmed' + Carried(position') - (T + Carried(position)) + cost = 0
      <4> HIDE DEF T, cost
      <4>1. (T + NetPnl(q)) + Carried(position') - (T + Carried(position)) + cost = 0
        BY <1>3, <1>4, <3>2, <3>4
      <4>2. QED BY <3>3, <4>1
    <3>6. QED
      BY <1>5, <1>6, <3>2, <3>3, <3>5
  <2>6. QED
    BY <2>4, <2>5
<1>11. QED
  BY <1>8, <1>9, <1>10

LEMMA PositionsStep == PositionsInv /\ [PositionsNext]_positionVars => PositionsInv'
<1> SUFFICES ASSUME PositionsInv, [PositionsNext]_positionVars PROVE PositionsInv'
  OBVIOUS
<1>1. ASSUME NEW s \in Sizes, NEW price \in Prices, NEW fee \in Fees, OrderFills(s, price, fee)
      PROVE  PositionsInv'
  <2>1. s \in Int /\ s # 0 /\ price \in Int /\ fee \in Int
    BY PositionsAssumption
  <2>2. OnFill(s, price, fee) /\ Counted(s, price, fee) /\ Size(reported + s) <= MaxHeld
    BY <1>1 DEF OrderFills, Room
  <2>3. QED BY <2>1, <2>2, FillKeepsPositions
<1>2. ASSUME NEW s \in Sizes, OrderRests(s) PROVE PositionsInv'
  <2>1. fills' = fills + 1
        /\ UNCHANGED <<position, closed, journal, flow, reported, trimmed>>
    BY <1>2 DEF OrderRests
  <2>2. fills \in Nat /\ Size(Gap) <= fills * MaxHeld /\ MaxHeld \in Nat
    BY PositionsAssumption DEF PositionsInv
  <2>3. TotalPnl(closed) \in Int /\ Carried(position) \in Int /\ Unit * flow \in Int
        /\ trimmed \in Int
    <3>1. NotOpen \in Shown BY DEF NotOpen, Shown
    <3>2. QED BY <3>1, TotalOfMore, ShownFields, PositionsAssumption DEF PositionsInv
  <2>4. Gap \in Int /\ Gap' = Gap
    BY <2>1, <2>3 DEF Gap
  <2>5. Size(Gap') <= (fills + 1) * MaxHeld
    <3>1. Size(Gap - Gap) <= MaxHeld BY <2>2, <2>4 DEF Size
    <3>2. QED BY <2>2, <2>4, <3>1, GapGrows
  <2>6. QED
    BY <2>1, <2>2, <2>5 DEF PositionsInv
<1>3. CASE RestingEnds \/ Flatten \/ UNCHANGED positionVars
  <2>1. UNCHANGED <<position, closed, journal, fills, flow, reported, trimmed>>
    BY <1>3 DEF RestingEnds, Flatten, positionVars
  <2>2. Gap' = Gap BY <2>1 DEF Gap
  <2>3. QED BY <2>1, <2>2 DEF PositionsInv
<1>4. ASSUME NEW price \in Prices, MarkAt(price) PROVE PositionsInv'
  <2>1. /\ position' = [position EXCEPT !.mark = price] /\ position # NotOpen
        /\ UNCHANGED <<closed, journal, fills, flow, reported, trimmed>>
    BY <1>4 DEF MarkAt
  <2>2. position \in Shown /\ position.quantity # 0
    BY <2>1 DEF PositionsInv
  <2>3. price \in Int
    BY PositionsAssumption
  <2>4. /\ position' \in Shown /\ position'.quantity = position.quantity
        /\ position'.entry = position.entry /\ position'.realised = position.realised
        /\ position'.fees = position.fees
    BY <2>1, <2>2, <2>3 DEF Shown
  <2>5. Carried(position') = Carried(position)
    BY <2>4 DEF Carried
  <2>6. Gap' = Gap
    BY <2>1, <2>5 DEF Gap
  <2>7. QED
    BY <2>1, <2>2, <2>4, <2>6 DEF PositionsInv
<1>5. QED
  BY <1>1, <1>2, <1>3, <1>4 DEF PositionsNext

\* What the terminal shows as made is the cash of the fills it was told of and the
\* position at its mark, up to a fraction of a unit for each lot and fill; and the
\* journal keeps what the display trims, for every sequence of fills and marks.
THEOREM ShownStaysMade == PositionsSpec => []ShownIsMade
<1>1. PositionsInv => ShownIsMade
  <2> SUFFICES ASSUME PositionsInv PROVE ShownIsMade
    OBVIOUS
  <2>1. /\ position \in Shown /\ (position.quantity = 0 => position = NotOpen)
        /\ position.quantity = reported
        /\ closed \in Seq(Shown) /\ flow \in Int /\ trimmed \in Int
        /\ SumOf(journal) = TotalPnl(closed) + trimmed
        /\ Size(Gap) <= fills * MaxHeld
    BY DEF PositionsInv
  <2>2. TotalPnl(closed) \in Int
    <3>1. NotOpen \in Shown BY DEF NotOpen, Shown
    <3>2. QED BY <2>1, <3>1, TotalOfMore
  <2>3. /\ position.quantity \in Int /\ position.entry \in Int /\ position.realised \in Int
        /\ position.fees \in Int /\ position.mark \in Int
        /\ position.quantity * position.entry \in Int /\ Unit * position.fees \in Int
    BY <2>1, ShownFields
  <2> DEFINE value == position.quantity * position.mark
             m == position.mark
  <2>4. value \in Int /\ Unit * value \in Int /\ Unit * flow \in Int
        /\ Unit * (flow + value) = Unit * flow + Unit * value
    <3>1. value \in Int BY <2>3
    <3> HIDE DEF value
    <3>2. QED BY <2>1, <3>1, PositionsAssumption
  <2>5. UnrealisedTotal = Carried(position) + Unit * value
    <3>1. CASE position = NotOpen
      <4>1. Unit * 0 = 0 BY PositionsAssumption
      <4>2. QED BY <3>1, <4>1 DEF UnrealisedTotal, NotOpen, Carried
    <3>2. CASE position # NotOpen
      <4>1. position.quantity # 0 BY <2>1, <3>2
      <4>2. UnrealisedTotal = (position.realised + position.quantity * (m * Unit - position.entry))
                              - Unit * position.fees
        <5>1. position.quantity * (m * Unit - position.entry) \in Int
          BY <2>3, PositionsAssumption
        <5>2. QED BY <2>3, <3>2, <4>1, <5>1 DEF UnrealisedTotal, NetPnl, Unrealised
      <4>3. position.quantity * (m * Unit - position.entry)
              = Unit * value - position.quantity * position.entry
        BY <2>3, PositionsAssumption
      <4>4. Carried(position) = position.realised - position.quantity * position.entry
                                - Unit * position.fees
        BY DEF Carried
      <4> HIDE DEF m, value
      <4>5. QED BY <2>3, <2>4, <4>2, <4>3, <4>4
    <3>3. QED BY <3>1, <3>2
  <2>6. RealisedTotal + UnrealisedTotal + trimmed - Unit * (flow + value) = Gap
    <3>1. Carried(position) \in Int BY <2>1, ShownFields
    <3>2. Gap = TotalPnl(closed) + trimmed + Carried(position) - Unit * flow BY DEF Gap
    <3>3. RealisedTotal = TotalPnl(closed) BY DEF RealisedTotal
    <3> HIDE DEF value
    <3>4. QED BY <2>1, <2>2, <2>4, <2>5, <3>1, <3>2, <3>3
  <2>7. QED
    BY <2>1, <2>6 DEF ShownIsMade, RealisedTotal, SumOf
<1>2. QED
  BY PositionsInitially, PositionsStep, <1>1, PTL DEF PositionsSpec

================================================================================
