------------------------------- MODULE FleetProofs -------------------------------
(***************************************************************************)
(* Theorems about Fleet for every finite universe, cap, concurrency limit, *)
(* set of targets and number of rotations.                                 *)
(***************************************************************************)
EXTENDS Fleet, SetInduction

LEMMA BudgetIsNat == Budget \in Nat
  BY FleetAssumption DEF Budget

LEMMA BetweenIsInt ==
  ASSUME NEW m \in Int, NEW k \in Int, NEW p \in Between(m, k)
  PROVE  /\ p \in Int
         /\ (m <= p /\ p <= k) \/ (k <= p /\ p <= m)
  BY DEF Between

LEMMA LargestIsNat ==
  ASSUME NEW n \in Int
  PROVE  Largest(0, n) \in Nat /\ Largest(0, -n) \in Nat
  BY DEF Largest

LEMMA ClampWithinBudget ==
  ASSUME EngineTypes, NEW s \in Symbols, NEW w \in Int, NEW r \in Nat
  PROVE  Clamp(s, w, r) \in -Budget..Budget
<1> DEFINE budgeted == Clip(w, Budget)
           current == IF s \in engines THEN believed[s] ELSE 0
<1>1. Budget \in Nat
  BY BudgetIsNat
<1> HIDE DEF current
<1>2. budgeted \in -Budget..Budget
  BY <1>1 DEF Clip
<1> HIDE DEF budgeted
<1>3. Clip(budgeted, r) \in -Budget..Budget
  BY <1>1, <1>2 DEF Clip
<1>4. Clamp(s, w, r) = IF Magnitude(budgeted) > Magnitude(current)
                       THEN Clip(budgeted, r) ELSE budgeted
  BY DEF Clamp, budgeted, current
<1>5. QED
  BY <1>2, <1>3, <1>4

--------------------------------------------------------------------------------
(* Type correctness *)

LEMMA FleetTypesInit == Init => TypeOK
<1> SUFFICES ASSUME Init
             PROVE  TypeOK
  OBVIOUS
<1>1. EngineTypes
  BY BudgetIsNat, FleetAssumption DEF Init, EngineTypes
<1>2. FleetTypes
  <2>1. stop \in BOOLEAN /\ cancelled \in BOOLEAN
    BY DEF Init
  <2>2. scans \in 0..MaxScans
    BY FleetAssumption DEF Init
  <2>3. QED
    BY <2>1, <2>2 DEF Init, FleetTypes
<1>3. QED
  BY <1>1, <1>2 DEF TypeOK

LEMMA EngineTypesStep == TypeOK /\ [Next]_vars => EngineTypes'
<1> SUFFICES ASSUME TypeOK, [Next]_vars
             PROVE  EngineTypes'
  OBVIOUS
<1> USE DEF TypeOK, EngineTypes
<1>0. Budget \in Nat /\ 0 \in -Budget..Budget
  BY BudgetIsNat
<1>1. ASSUME NEW s \in Symbols, Decide(s) PROVE EngineTypes'
  <2>1. PICK w \in Targets, r \in 0..MaxGross : aim' = [aim EXCEPT ![s] = Clamp(s, w, r)]
    BY <1>1 DEF Decide
  <2>2. Clamp(s, w, r) \in -Budget..Budget
    BY ClampWithinBudget, FleetAssumption
  <2>3. QED
    BY <1>1, <2>1, <2>2 DEF Decide, venueVars
<1>2. ASSUME NEW s \in Symbols, Route(s) PROVE EngineTypes'
  <2>1. PICK order \in Between(0, aim[s] - pos[s]) :
          /\ order # 0 => events < MaxEvents
          /\ events' = IF order = 0 THEN events ELSE events + 1
          /\ bids' = [bids EXCEPT ![s] = @ + Largest(0, order)]
          /\ asks' = [asks EXCEPT ![s] = @ + Largest(0, -order)]
    BY <1>2 DEF Route
  <2>2. order \in Int /\ aim[s] - pos[s] \in Int
    BY <1>0, BetweenIsInt
  <2>3. bids[s] + Largest(0, order) \in Nat /\ asks[s] + Largest(0, -order) \in Nat
    BY <2>2, LargestIsNat
  <2>4. bids' \in [Symbols -> Nat] /\ asks' \in [Symbols -> Nat]
    BY <2>1, <2>3
  <2>5. events' \in 0..MaxEvents
    BY <2>1, FleetAssumption
  <2>6. QED
    BY <1>0, <1>2, <2>4, <2>5 DEF Route
<1>3. ASSUME NEW s \in Symbols, DriverHalts(s) \/ StandsDown(s) PROVE EngineTypes'
  BY <1>0, <1>3 DEF DriverHalts, StandsDown, engineVars, venueVars
<1>4. ASSUME NEW s \in Symbols, HaltEnds(s) PROVE EngineTypes'
  <2>1. PICK p \in Between(0, pos[s]), b \in 0..bids[s], a \in 0..asks[s],
             late \in IF s \in deciding THEN Between(0, aim[s] - pos[s]) ELSE {0} :
          /\ pos' = [pos EXCEPT ![s] = p]
          /\ bids' = [bids EXCEPT ![s] = b + Largest(0, late)]
          /\ asks' = [asks EXCEPT ![s] = a + Largest(0, -late)]
    BY <1>4 DEF HaltEnds
  <2>2. p \in Int /\ late \in Int
    BY <1>0, BetweenIsInt
  <2>3. b + Largest(0, late) \in Nat /\ a + Largest(0, -late) \in Nat
    BY <2>2, LargestIsNat
  <2>4. /\ pos' \in [Symbols -> Int]
        /\ bids' \in [Symbols -> Nat] /\ asks' \in [Symbols -> Nat]
    BY <2>1, <2>2, <2>3
  <2>5. QED
    BY <1>0, <1>4, <2>4 DEF HaltEnds
<1>5. ASSUME NEW s \in Symbols, NEW p \in Between(0, pos[s]), FlattenMoves(s, p),
             UNCHANGED drv
      PROVE  EngineTypes'
  <2>1. p \in Int
    BY BetweenIsInt
  <2>2. QED
    BY <1>5, <2>1 DEF FlattenMoves
<1>6. ASSUME NEW s \in Symbols, FlattenReturns(s) PROVE EngineTypes'
  BY <1>5, <1>6 DEF FlattenReturns
<1>7. ASSUME NEW s \in Symbols, FlattenRaises(s) PROVE EngineTypes'
  BY <1>5, <1>7 DEF FlattenRaises
<1>8. ASSUME NEW s \in Symbols, CancelFlatten(s) PROVE EngineTypes'
  BY <1>5, <1>8 DEF CancelFlatten
<1>9. CASE Admit
  BY <1>0, <1>9 DEF Admit, venueVars
<1>10. ASSUME NEW s \in Symbols, Teardown(s) \/ Joined(s) PROVE EngineTypes'
  BY <1>10 DEF Teardown, Joined, StopEnds, engineVars, venueVars
<1>11. CASE Start
  BY <1>11 DEF Start, Reaped, engineVars, venueVars
<1>12. CASE Poll
  BY <1>12 DEF Poll, Reaped, engineVars, venueVars
<1>13. CASE Rotate \/ Close \/ RequestStop \/ CancelAsleep \/ CancelJoin \/ UNCHANGED vars
  BY <1>13 DEF Rotate, Close, RequestStop, CancelAsleep, CancelJoin, vars, engineVars, venueVars
<1>14. ASSUME NEW s \in Symbols, RetireFlat(s) \/ FlattenBegins(s) \/ StopFlat(s)
       PROVE  EngineTypes'
  BY <1>14 DEF RetireFlat, FlattenBegins, StopFlat, engineVars, venueVars
<1>15. ASSUME NEW s \in Symbols, Fills(s) \/ Lapses(s) PROVE EngineTypes'
  BY <1>15 DEF Fills, Lapses
<1>16. ASSUME NEW s \in Symbols, Reprices(s) PROVE EngineTypes'
  <2>1. PICK p \in Moved(pos[s]), b \in Moved(bids[s]), a \in Moved(asks[s]) :
          /\ pos' = [pos EXCEPT ![s] = p]
          /\ bids' = [bids EXCEPT ![s] = b] /\ asks' = [asks EXCEPT ![s] = a]
    BY <1>16 DEF Reprices
  <2>2. p \in Int /\ b \in Nat /\ a \in Nat
    BY DEF Moved
  <2>3. events' \in 0..MaxEvents
    BY <1>16, FleetAssumption DEF Reprices
  <2>4. QED
    BY <1>16, <2>1, <2>2, <2>3 DEF Reprices
<1>17. QED
  BY <1>1, <1>2, <1>3, <1>4, <1>6, <1>7, <1>8, <1>9, <1>10, <1>11, <1>12, <1>13, <1>14,
     <1>15, <1>16 DEF Next, FleetTask, Operator

LEMMA FleetTypesStep == TypeOK /\ [Next]_vars => FleetTypes'
<1> SUFFICES ASSUME TypeOK, [Next]_vars
             PROVE  FleetTypes'
  OBVIOUS
<1> USE DEF TypeOK, FleetTypes, fleetVars, rotationVars, history
<1>1. ASSUME NEW s \in Symbols,
             \/ Decide(s) \/ Route(s) \/ StandsDown(s) \/ DriverHalts(s)
             \/ Fills(s) \/ Lapses(s) \/ Reprices(s)
      PROVE  FleetTypes'
  BY <1>1 DEF Decide, Route, StandsDown, DriverHalts, Fills, Lapses, Reprices
<1>2. ASSUME NEW s \in Symbols, HaltEnds(s) PROVE FleetTypes'
  BY <1>2 DEF HaltEnds
<1>3. CASE Poll \/ Start
  BY <1>3 DEF Poll, Start, LoopOrClose
<1>4. CASE Rotate
  BY <1>4, FleetAssumption DEF Rotate
<1>5. CASE Admit \/ Close \/ RequestStop \/ CancelJoin \/ UNCHANGED vars
  BY <1>5 DEF Admit, Close, RequestStop, CancelJoin, vars
<1>6. CASE CancelAsleep
  BY <1>6 DEF CancelAsleep, ToFinally, Drivers
<1>7. ASSUME NEW s \in Symbols, CancelFlatten(s) PROVE FleetTypes'
  BY <1>7 DEF CancelFlatten, ToFinally, Drivers
<1>8. ASSUME NEW s \in Symbols, RetireFlat(s) \/ FlattenBegins(s) \/ StopFlat(s)
      PROVE  FleetTypes'
  BY <1>8 DEF RetireFlat, FlattenBegins, StopFlat
<1>9. ASSUME NEW s \in Symbols, FlattenReturns(s) PROVE FleetTypes'
  BY <1>9 DEF FlattenReturns
<1>10. ASSUME NEW s \in Symbols, FlattenRaises(s) PROVE FleetTypes'
  BY <1>10 DEF FlattenRaises
<1>11. ASSUME NEW s \in Symbols, Teardown(s) \/ Joined(s) PROVE FleetTypes'
  BY <1>11 DEF Teardown, Joined, StopEnds
<1>12. QED
  BY <1>1, <1>2, <1>3, <1>4, <1>5, <1>6, <1>7, <1>8, <1>9, <1>10, <1>11
     DEF Next, FleetTask, Operator

\* Every variable keeps its range; of what a decision asks for that is the symbol's
\* share of the cap (clamp_target), of what the venue holds any weight at all.
THEOREM FleetTypeCorrect == Spec => []TypeOK
<1>1. Init => TypeOK
  BY FleetTypesInit
<1>2. TypeOK /\ [Next]_vars => TypeOK'
  BY EngineTypesStep, FleetTypesStep DEF TypeOK
<1>3. QED
  BY <1>1, <1>2, PTL DEF Spec

--------------------------------------------------------------------------------
(* Positions and drivers *)

\* A position, or an order, that nothing has left behind belongs to a task that
\* still runs.
PositionHasTask ==
  \A s \in Symbols : ((pos[s] # 0 \/ Rests(s)) /\ s \notin loose) => drv[s] \in {"running", "halting"}

LEMMA PositionHasTaskStep ==
  TypeOK /\ PositionHasTask /\ [Next]_vars => PositionHasTask'
<1> DEFINE Open(x) == pos[x] # 0 \/ Rests(x)
           Goal(x) == drv'[x] \in {"running", "halting"}
<1> SUFFICES ASSUME TypeOK, PositionHasTask, [Next]_vars,
                    NEW x \in Symbols, Open(x)', x \notin loose'
             PROVE  Goal(x)
  BY DEF PositionHasTask
<1> USE DEF TypeOK, EngineTypes
<1>0. Open(x) /\ x \notin loose => drv[x] \in {"running", "halting"}
  BY DEF PositionHasTask
<1>1. ASSUME Open(x), UNCHANGED drv, loose \subseteq loose' PROVE Goal(x)
  BY <1>0, <1>1
<1>2. ASSUME UNCHANGED <<pos, bids, asks>> PROVE Open(x)
  BY <1>2 DEF Rests
<1>3. ASSUME NEW s \in Symbols, Fills(s) \/ Lapses(s) \/ Reprices(s) PROVE Goal(x)
  <2>1. CASE Fills(s)
    BY <1>1, <2>1 DEF Fills, Rests, history
  <2>2. CASE Lapses(s)
    BY <1>1, <2>2 DEF Lapses, Rests, history
  <2>3. CASE Reprices(s)
    BY <1>1, <2>3 DEF Reprices, Moved, Rests
  <2>4. QED
    BY <1>3, <2>1, <2>2, <2>3
<1>4. ASSUME NEW s \in Symbols, Route(s) PROVE Goal(x)
  <2>1. x # s => Open(x)
    BY <1>4 DEF Route, Rests
  <2>2. QED
    BY <1>1, <1>4, <2>1 DEF Route
<1>5. ASSUME NEW s \in Symbols, Decide(s) \/ StandsDown(s) PROVE Goal(x)
  BY <1>1, <1>2, <1>5 DEF Decide, StandsDown, venueVars, history
<1>6. ASSUME NEW s \in Symbols, DriverHalts(s) PROVE Goal(x)
  BY <1>0, <1>2, <1>6 DEF DriverHalts, engineVars, venueVars, history
<1>7. ASSUME NEW s \in Symbols, HaltEnds(s) PROVE Goal(x)
  <2>1. CASE x = s
    <3>1. PICK p \in Between(0, pos[s]), b \in 0..bids[s], a \in 0..asks[s],
               late \in IF s \in deciding THEN Between(0, aim[s] - pos[s]) ELSE {0} :
            /\ pos' = [pos EXCEPT ![s] = p]
            /\ bids' = [bids EXCEPT ![s] = b + Largest(0, late)]
            /\ asks' = [asks EXCEPT ![s] = a + Largest(0, -late)]
            /\ IF p = 0 /\ b = 0 /\ a = 0 /\ late = 0
               THEN loose' = loose \ {s} /\ strained' = strained \ {s}
               ELSE loose' = loose \cup {s} /\ UNCHANGED strained
      BY <1>7 DEF HaltEnds
    <3>2. p = 0 /\ b = 0 /\ a = 0 /\ late = 0
      BY <2>1, <3>1
    <3>3. pos'[s] = 0 /\ bids'[s] = 0 /\ asks'[s] = 0
      BY <3>1, <3>2 DEF Largest
    <3>4. QED
      BY <2>1, <3>3 DEF Rests
  <2>2. CASE x # s
    <3>1. /\ pos'[x] = pos[x] /\ bids'[x] = bids[x] /\ asks'[x] = asks[x]
          /\ drv'[x] = drv[x] /\ x \notin loose
      BY <1>7, <2>2 DEF HaltEnds
    <3>2. Open(x)
      BY <3>1 DEF Rests
    <3>3. QED
      BY <1>0, <3>1, <3>2
  <2>3. QED
    BY <2>1, <2>2
<1>8. ASSUME NEW s \in Symbols, NEW p \in Between(0, pos[s]), FlattenMoves(s, p),
             UNCHANGED drv, loose \subseteq loose'
      PROVE  Goal(x)
  <2>1. pos[s] = 0 => p = 0
    BY DEF Between
  <2>2. Open(x)
    BY <1>8, <2>1 DEF FlattenMoves, Rests
  <2>3. QED
    BY <1>1, <1>8, <2>2
<1>9. ASSUME NEW s \in Symbols, FlattenReturns(s) PROVE Goal(x)
  BY <1>8, <1>9 DEF FlattenReturns
<1>10. ASSUME NEW s \in Symbols, FlattenRaises(s) \/ CancelFlatten(s) PROVE Goal(x)
  BY <1>8, <1>10 DEF FlattenRaises, CancelFlatten
<1>11. CASE Poll \/ Start
  BY <1>0, <1>2, <1>11 DEF Poll, Start, Reaped, Drivers, engineVars, venueVars, history
<1>12. CASE Rotate \/ Admit \/ Close \/ RequestStop \/ CancelAsleep \/ CancelJoin \/ UNCHANGED vars
  BY <1>1, <1>2, <1>12 DEF Rotate, Admit, Close, RequestStop, CancelAsleep, CancelJoin, vars,
                           engineVars, venueVars, history
<1>13. ASSUME NEW s \in Symbols, RetireFlat(s) \/ FlattenBegins(s) \/ StopFlat(s)
       PROVE  Goal(x)
  BY <1>1, <1>2, <1>13 DEF RetireFlat, FlattenBegins, StopFlat, engineVars, venueVars, history
<1>14. ASSUME NEW s \in Symbols, Teardown(s) \/ Joined(s) PROVE Goal(x)
  BY <1>0, <1>2, <1>14 DEF Teardown, Joined, StopEnds, engineVars, venueVars, history
<1>15. QED
  BY <1>3, <1>4, <1>5, <1>6, <1>7, <1>9, <1>10, <1>11, <1>12, <1>13, <1>14
     DEF Next, FleetTask, Operator

\* No position and no resting order is left without a driver that will halt it, except
\* by a flatten or a halt (_stop_symbol, _reap, WebSocketDriver._shutdown).
THEOREM PositionsHaveDrivers == Spec => []PositionHasDriver
<1>1. Init => TypeOK /\ PositionHasTask
  BY FleetTypesInit DEF Init, PositionHasTask, Rests
<1>2. TypeOK /\ PositionHasTask /\ [Next]_vars => (TypeOK /\ PositionHasTask)'
  BY EngineTypesStep, FleetTypesStep, PositionHasTaskStep DEF TypeOK
<1>3. PositionHasTask => PositionHasDriver
  BY DEF PositionHasTask, PositionHasDriver
<1>4. QED
  BY <1>1, <1>2, <1>3, PTL DEF Spec

--------------------------------------------------------------------------------
(* Drivers, engines and the loops of the fleet's task *)

\* What each loop of the fleet's task may assume of its lists.
LoopInv ==
  /\ fpc \in {"sleep", "closed"} => act = "none"
  /\ fpc = "sleep" => admitted = {} /\ todo = {}
  /\ fpc = "retire" => todo \subseteq retired /\ act \in {"none", "flatten"}
  /\ fpc = "stop" => admitted \subseteq engines
  /\ act # "none" => cur \subseteq todo
  /\ act = "flatten" => cur \subseteq engines

\* DriversAreManaged of every driver, not only of a running one.
AllManaged ==
  fpc # "closed" =>
    \A s \in Symbols :
      /\ drv[s] # "none" => s \in engines \cup (IF fpc = "retire" THEN retired ELSE todo)
      /\ s \in admitted => drv[s] = "none"

LEMMA LoopInvStep == TypeOK /\ LoopInv /\ [Next]_vars => LoopInv'
<1> SUFFICES ASSUME TypeOK, LoopInv, [Next]_vars
             PROVE  LoopInv'
  OBVIOUS
<1> USE DEF TypeOK, FleetTypes, LoopInv, fleetVars, rotationVars
<1>1. ASSUME NEW s \in Symbols,
             \/ Decide(s) \/ Route(s) \/ StandsDown(s) \/ DriverHalts(s) \/ HaltEnds(s)
             \/ Fills(s) \/ Lapses(s) \/ Reprices(s)
      PROVE  LoopInv'
  BY <1>1 DEF Decide, Route, StandsDown, DriverHalts, HaltEnds, Fills, Lapses, Reprices
<1>2. CASE Poll \/ Start
  BY <1>2 DEF Poll, Start, LoopOrClose
<1>3. CASE Rotate \/ Admit
  BY <1>3 DEF Rotate, Admit
<1>4. CASE Close \/ RequestStop \/ CancelAsleep \/ CancelJoin \/ UNCHANGED vars
  BY <1>4 DEF Close, RequestStop, CancelAsleep, CancelJoin, ToFinally, vars
<1>5. ASSUME NEW s \in Symbols, CancelFlatten(s) PROVE LoopInv'
  BY <1>5 DEF CancelFlatten, ToFinally
<1>6. ASSUME NEW s \in Symbols, RetireFlat(s) \/ FlattenBegins(s) \/ StopFlat(s)
      PROVE  LoopInv'
  BY <1>6 DEF RetireFlat, FlattenBegins, StopFlat
<1>7. ASSUME NEW s \in Symbols, FlattenReturns(s) PROVE LoopInv'
  <2>1. /\ act = "flatten" /\ fpc' = fpc /\ fpc \notin {"sleep", "closed"}
        /\ retired' = retired /\ admitted' = admitted
    BY <1>7 DEF FlattenReturns
  <2>2. CASE fpc = "retire"
    BY <1>7, <2>1, <2>2 DEF FlattenReturns
  <2>3. CASE fpc # "retire"
    BY <1>7, <2>1, <2>3 DEF FlattenReturns
  <2>4. QED
    BY <2>2, <2>3
<1>8. ASSUME NEW s \in Symbols, FlattenRaises(s) PROVE LoopInv'
  BY <1>8 DEF FlattenRaises
<1>9. ASSUME NEW s \in Symbols, Teardown(s) \/ Joined(s) PROVE LoopInv'
  BY <1>9 DEF Teardown, Joined, StopEnds
<1> HIDE DEF TypeOK, FleetTypes, LoopInv
<1>10. QED
  BY <1>1, <1>2, <1>3, <1>4, <1>5, <1>6, <1>7, <1>8, <1>9 DEF Next, FleetTask, Operator

LEMMA AllManagedStep ==
  TypeOK /\ LoopInv /\ AllManaged /\ [Next]_vars => AllManaged'
<1> DEFINE Charge == engines \cup (IF fpc = "retire" THEN retired ELSE todo)
           Goal(x) == /\ drv'[x] # "none" => x \in Charge'
                      /\ x \in admitted' => drv'[x] = "none"
<1> SUFFICES ASSUME TypeOK, LoopInv, AllManaged, [Next]_vars, fpc' # "closed",
                    NEW x \in Symbols
             PROVE  Goal(x)
  BY DEF AllManaged
<1> USE DEF TypeOK, EngineTypes, FleetTypes, fleetVars, rotationVars
<1>1. fpc # "closed" => (drv[x] # "none" => x \in Charge) /\ (x \in admitted => drv[x] = "none")
  BY DEF AllManaged
<1>2. ASSUME NEW s \in Symbols,
             \/ Decide(s) \/ Route(s) \/ StandsDown(s) \/ Fills(s) \/ Lapses(s) \/ Reprices(s)
      PROVE  Goal(x)
  BY <1>1, <1>2 DEF Decide, Route, StandsDown, Fills, Lapses, Reprices
<1>3. ASSUME NEW s \in Symbols, DriverHalts(s) \/ HaltEnds(s) PROVE Goal(x)
  BY <1>1, <1>3 DEF DriverHalts, HaltEnds
<1>4. CASE Poll
  BY <1>1, <1>4 DEF Poll, Reaped, LoopOrClose, LoopInv
<1>5. CASE Start
  <2>1. drv'[x] # "none" => drv[x] # "none" \/ x \in admitted
    BY <1>5 DEF Start, Reaped, Drivers
  <2>2. drv'[x] # "none" => x \in engines
    BY <1>1, <1>5, <2>1 DEF Start, LoopInv
  <2>3. engines' = engines /\ admitted' = {} /\ fpc' # "retire"
    BY <1>5 DEF Start, LoopOrClose
  <2>4. QED
    BY <2>2, <2>3
<1>6. CASE Rotate
  <2>1. /\ x \in engines' => x \in engines
        /\ x \in admitted' => x \notin engines
        /\ UNCHANGED <<drv, engines>> /\ fpc = "sleep"
    BY <1>6 DEF Rotate
  <2>2. drv[x] # "none" => x \in engines
    BY <1>1, <2>1 DEF LoopInv
  <2>3. QED
    BY <2>1, <2>2
<1>7. CASE Admit
  BY <1>1, <1>7 DEF Admit
<1>8. CASE Close \/ RequestStop \/ CancelAsleep \/ CancelJoin \/ UNCHANGED vars
  BY <1>1, <1>8 DEF Close, RequestStop, CancelAsleep, CancelJoin, ToFinally, Drivers, vars
<1>9. ASSUME NEW s \in Symbols, CancelFlatten(s) PROVE Goal(x)
  BY <1>1, <1>9 DEF CancelFlatten, ToFinally, Drivers
<1>10. ASSUME NEW s \in Symbols, RetireFlat(s) PROVE Goal(x)
  BY <1>1, <1>10 DEF RetireFlat, LoopInv
<1>11. ASSUME NEW s \in Symbols, FlattenBegins(s) \/ StopFlat(s) PROVE Goal(x)
  BY <1>1, <1>11 DEF FlattenBegins, StopFlat
<1>12. ASSUME NEW s \in Symbols, FlattenReturns(s) PROVE Goal(x)
  <2>1. UNCHANGED <<drv, fpc, retired, admitted>> /\ cur = {s} /\ act = "flatten"
    BY <1>12 DEF FlattenReturns
  <2>2. CASE fpc = "retire"
    BY <1>1, <1>12, <2>1, <2>2 DEF FlattenReturns, LoopInv
  <2>3. CASE fpc # "retire"
    BY <1>1, <1>12, <2>1, <2>3 DEF FlattenReturns
  <2>4. QED
    BY <2>2, <2>3
<1>13. ASSUME NEW s \in Symbols, FlattenRaises(s) PROVE Goal(x)
  BY <1>1, <1>13 DEF FlattenRaises, LoopInv
<1>14. ASSUME NEW s \in Symbols, Teardown(s) \/ Joined(s) PROVE Goal(x)
  BY <1>1, <1>14 DEF Teardown, Joined, StopEnds
<1>15. QED
  BY <1>2, <1>3, <1>4, <1>5, <1>6, <1>7, <1>8, <1>9, <1>10, <1>11, <1>12, <1>13, <1>14
     DEF Next, FleetTask, Operator

\* Every driver has an engine the supervisor counts or is on the list of those about
\* to be stopped, and no symbol is admitted over a driver of an earlier admission.
THEOREM DriversStayManaged == Spec => []DriversAreManaged
<1>1. Init => TypeOK /\ LoopInv /\ AllManaged
  BY FleetTypesInit DEF Init, LoopInv, AllManaged
<1>2. TypeOK /\ LoopInv /\ AllManaged /\ [Next]_vars => (TypeOK /\ LoopInv /\ AllManaged)'
  BY EngineTypesStep, FleetTypesStep, LoopInvStep, AllManagedStep DEF TypeOK
<1>3. AllManaged => DriversAreManaged
  BY DEF AllManaged, DriversAreManaged
<1>4. QED
  BY <1>1, <1>2, <1>3, PTL DEF Spec

--------------------------------------------------------------------------------
(* How many symbols are traded at once *)

\* The drivers whose task still runs.
Running == {s \in Symbols : drv[s] \in {"running", "halting"}}

\* The number of those that nothing has left behind, now and when the retired have
\* been stopped and the admitted started; a retired one that has been passed in the
\* list with its driver running is one that a raising flatten has left behind.
CountInv ==
  /\ Cardinality(Running \ loose) <= MaxConcurrent
  /\ fpc \in {"retire", "stop"} => Cardinality((Running \ retired) \cup admitted) <= MaxConcurrent
  /\ fpc = "stop" => Running \cap retired \subseteq todo \cup loose

AtMostConcurrent ==
  Cardinality({s \in Symbols \ loose : pos[s] # 0 \/ Rests(s)}) <= MaxConcurrent

LEMMA SubsetWithinLimit ==
  ASSUME NEW S \in SUBSET Symbols, NEW T \in SUBSET S, Cardinality(S) <= MaxConcurrent
  PROVE  Cardinality(T) <= MaxConcurrent
<1>1. IsFiniteSet(S) /\ IsFiniteSet(T)
  BY FleetAssumption, FS_Subset
<1>2. Cardinality(T) <= Cardinality(S)
  BY <1>1, FS_Subset
<1>3. Cardinality(S) \in Nat /\ Cardinality(T) \in Nat
  BY <1>1, FS_CardinalityType
<1>4. QED
  BY <1>2, <1>3, FleetAssumption

\* A step that starts no driver and leaves the rotation alone keeps the counts.
LEMMA QuietCount ==
  ASSUME TypeOK, CountInv,
         Running' \subseteq Running, Running' \ loose' \subseteq Running \ loose,
         fpc' \in {"retire", "stop"} => UNCHANGED <<retired, admitted>> /\ fpc \in {"retire", "stop"},
         fpc' = "stop" => Running' \cap retired' \subseteq todo' \cup loose'
  PROVE  CountInv'
<1>1. Cardinality(Running' \ loose') <= MaxConcurrent
  <2>1. Running \ loose \in SUBSET Symbols /\ Running' \ loose' \in SUBSET (Running \ loose)
    BY DEF Running
  <2>2. Cardinality(Running \ loose) <= MaxConcurrent
    BY DEF CountInv
  <2>3. QED
    BY <2>1, <2>2, SubsetWithinLimit
<1>2. fpc' \in {"retire", "stop"} =>
        Cardinality((Running' \ retired') \cup admitted') <= MaxConcurrent
  <2>1. SUFFICES ASSUME fpc' \in {"retire", "stop"}
                 PROVE  Cardinality((Running' \ retired') \cup admitted') <= MaxConcurrent
    OBVIOUS
  <2> DEFINE S == (Running \ retired) \cup admitted
             T == (Running' \ retired') \cup admitted'
  <2>2. S \in SUBSET Symbols /\ T \in SUBSET S
    BY <2>1 DEF Running, TypeOK, FleetTypes
  <2>3. Cardinality(S) <= MaxConcurrent
    BY <2>1 DEF CountInv
  <2>4. QED
    BY <2>2, <2>3, SubsetWithinLimit
<1>3. QED
  BY <1>1, <1>2 DEF CountInv

LEMMA CountInvStep ==
  TypeOK /\ LoopInv /\ AllManaged /\ CountInv /\ [Next]_vars => CountInv'
<1> SUFFICES ASSUME TypeOK, LoopInv, AllManaged, CountInv, [Next]_vars
             PROVE  CountInv'
  OBVIOUS
<1> USE DEF fleetVars, rotationVars, history
<1>0. fpc = "stop" => Running \cap retired \subseteq todo \cup loose
  BY DEF CountInv
<1>1. ASSUME UNCHANGED <<drv, fpc, retired, admitted, todo>>, loose \subseteq loose'
      PROVE  CountInv'
  <2>1. Running' = Running
    BY <1>1 DEF Running
  <2>2. QED
    BY <1>0, <1>1, <2>1, QuietCount
<1>2. ASSUME NEW s \in Symbols,
             \/ Decide(s) \/ Route(s) \/ StandsDown(s) \/ Fills(s) \/ Lapses(s) \/ Reprices(s)
      PROVE  CountInv'
  BY <1>1, <1>2 DEF Decide, Route, StandsDown, Fills, Lapses, Reprices
<1>3. ASSUME NEW s \in Symbols, DriverHalts(s) PROVE CountInv'
  <2>1. Running' = Running
    BY <1>3 DEF DriverHalts, Running, TypeOK, EngineTypes
  <2>2. QED
    BY <1>0, <1>3, <2>1, QuietCount DEF DriverHalts
<1>4. ASSUME NEW s \in Symbols, HaltEnds(s) PROVE CountInv'
  <2>1. Running' = Running \ {s}
    BY <1>4 DEF HaltEnds, Running, TypeOK, EngineTypes
  <2>2. loose \ {s} \subseteq loose'
    BY <1>4 DEF HaltEnds
  <2>3. UNCHANGED <<fpc, retired, admitted, todo>>
    BY <1>4 DEF HaltEnds
  <2>4. QED
    BY <1>0, <2>1, <2>2, <2>3, QuietCount
<1>5. ASSUME NEW s \in Symbols, FlattenRaises(s) PROVE CountInv'
  <2>1. /\ UNCHANGED <<drv, fpc, retired, admitted>>
        /\ loose' = loose \cup {s} /\ todo' = todo \ {s}
    BY <1>5 DEF FlattenRaises
  <2>2. Running' = Running
    BY <2>1 DEF Running
  <2>3. QED
    BY <1>0, <2>1, <2>2, QuietCount
<1>6. ASSUME NEW s \in Symbols, CancelFlatten(s) PROVE CountInv'
  <2>1. UNCHANGED drv /\ loose \subseteq loose' /\ fpc' \in {"close", "closed"}
    BY <1>6 DEF CancelFlatten, ToFinally
  <2>2. Running' = Running
    BY <2>1 DEF Running
  <2>3. QED
    BY <2>1, <2>2, QuietCount
<1>7. CASE Poll
  <2>1. UNCHANGED loose /\ fpc' \in {"sleep", "close"}
    BY <1>7 DEF Poll, LoopOrClose
  <2>2. Running' = Running
    BY <1>7 DEF Poll, Reaped, Running, TypeOK, EngineTypes
  <2>3. QED
    BY <2>1, <2>2, QuietCount
<1>8. CASE Rotate
  <2>1. PICK target \in SUBSET Symbols : /\ Cardinality(target) <= MaxConcurrent
                                         /\ retired' = engines \ target
                                         /\ admitted' = target \ engines
    BY <1>8 DEF Rotate
  <2>2. UNCHANGED <<drv, loose>> /\ fpc = "sleep" /\ fpc' = "retire"
    BY <1>8 DEF Rotate
  <2>3. Running' = Running
    BY <2>2 DEF Running
  <2>4. Running \subseteq engines
    BY <2>2 DEF AllManaged, LoopInv, Running, TypeOK, EngineTypes
  <2>5. (Running' \ retired') \cup admitted' \in SUBSET target
    BY <2>1, <2>3, <2>4
  <2>6. Cardinality((Running' \ retired') \cup admitted') <= MaxConcurrent
    BY <2>1, <2>5, SubsetWithinLimit
  <2>7. Cardinality(Running' \ loose') <= MaxConcurrent
    BY <2>2, <2>3 DEF CountInv
  <2>8. QED
    BY <2>2, <2>6, <2>7 DEF CountInv
<1>9. CASE Admit
  <2>1. /\ UNCHANGED <<drv, loose, retired, admitted>>
        /\ fpc = "retire" /\ fpc' = "stop" /\ todo' = retired
    BY <1>9 DEF Admit
  <2>2. Running' = Running
    BY <2>1 DEF Running
  <2>3. QED
    BY <2>1, <2>2, QuietCount
<1>10. CASE Start
  <2>1. UNCHANGED loose /\ fpc = "stop" /\ todo = {} /\ fpc' \in {"sleep", "close"}
    BY <1>10 DEF Start, LoopOrClose
  <2>2. Running' \subseteq Running \cup admitted
    BY <1>10 DEF Start, Reaped, Running, TypeOK, EngineTypes
  <2> DEFINE S == (Running \ retired) \cup admitted
  <2>3. Running' \ loose' \in SUBSET S /\ S \in SUBSET Symbols
    BY <1>0, <2>1, <2>2 DEF Running, TypeOK, FleetTypes
  <2>4. Cardinality(S) <= MaxConcurrent
    BY <2>1 DEF CountInv
  <2>5. Cardinality(Running' \ loose') <= MaxConcurrent
    BY <2>3, <2>4, SubsetWithinLimit
  <2>6. QED
    BY <2>1, <2>5 DEF CountInv
<1>11. CASE Close \/ CancelAsleep
  <2>1. UNCHANGED <<drv, loose>> /\ fpc' \in {"close", "closed"}
    BY <1>11 DEF Close, CancelAsleep, ToFinally
  <2>2. Running' = Running
    BY <2>1 DEF Running
  <2>3. QED
    BY <2>1, <2>2, QuietCount
<1>12. CASE RequestStop \/ CancelJoin \/ UNCHANGED vars
  BY <1>1, <1>12 DEF RequestStop, CancelJoin, vars
<1>13. ASSUME NEW s \in Symbols,
              RetireFlat(s) \/ FlattenReturns(s) \/ FlattenBegins(s) \/ StopFlat(s)
       PROVE  CountInv'
  <2>1. /\ UNCHANGED <<drv, fpc, retired, admitted>> /\ loose \subseteq loose'
        /\ fpc = "stop" => todo' = todo
    BY <1>13 DEF RetireFlat, FlattenReturns, FlattenBegins, StopFlat
  <2>2. Running' = Running
    BY <2>1 DEF Running
  <2>3. QED
    BY <1>0, <2>1, <2>2, QuietCount
<1>14. ASSUME NEW s \in Symbols, Teardown(s) \/ Joined(s) PROVE CountInv'
  <2>1. /\ UNCHANGED <<loose, fpc, retired, admitted>>
        /\ todo' = todo \/ (todo' = todo \ {s} /\ drv' = [drv EXCEPT ![s] = "none"])
    BY <1>14 DEF Teardown, Joined, StopEnds
  <2>2. Running' \subseteq Running
    BY <1>14 DEF Teardown, Joined, StopEnds, Running, TypeOK, EngineTypes
  <2>3. todo' = todo \/ (todo' = todo \ {s} /\ s \notin Running')
    BY <2>1 DEF Running, TypeOK, EngineTypes
  <2>4. QED
    BY <1>0, <2>1, <2>2, <2>3, QuietCount
<1>15. QED
  BY <1>2, <1>3, <1>4, <1>5, <1>6, <1>7, <1>8, <1>9, <1>10, <1>11, <1>12, <1>13, <1>14
     DEF Next, FleetTask, Operator

LEMMA CountInvInit == Init => CountInv
<1> SUFFICES ASSUME Init
             PROVE  CountInv
  OBVIOUS
<1>1. Running = {} /\ fpc = "sleep"
  BY DEF Init, Running
<1>2. Running \ loose = {}
  BY <1>1
<1>3. QED
  BY <1>1, <1>2, FS_EmptySet, FleetAssumption DEF CountInv

\* At most max_concurrent symbols have a position or an order at the venue, beside
\* those that a flatten or a halt has left behind, through every rotation: new
\* drivers start when the old have ended, and one that a raising flatten has left
\* running takes nothing from the others.
THEOREM PositionsWithinLimit == Spec => []AtMostConcurrent
<1> DEFINE Inv == TypeOK /\ LoopInv /\ AllManaged /\ CountInv /\ PositionHasTask
<1>1. Init => Inv
  BY FleetTypesInit, CountInvInit DEF Init, LoopInv, AllManaged, PositionHasTask, Rests
<1>2. Inv /\ [Next]_vars => Inv'
  BY EngineTypesStep, FleetTypesStep, LoopInvStep, AllManagedStep, CountInvStep,
     PositionHasTaskStep DEF TypeOK
<1>3. Inv => AtMostConcurrent
  <2> SUFFICES ASSUME Inv
               PROVE  AtMostConcurrent
    OBVIOUS
  <2> DEFINE open == {s \in Symbols \ loose : pos[s] # 0 \/ Rests(s)}
  <2>1. open \in SUBSET (Running \ loose) /\ Running \ loose \in SUBSET Symbols
    BY DEF PositionHasTask, Running
  <2>2. Cardinality(Running \ loose) <= MaxConcurrent
    BY DEF CountInv
  <2>3. Cardinality(open) <= MaxConcurrent
    BY <2>1, <2>2, SubsetWithinLimit
  <2>4. QED
    BY <2>3 DEF AtMostConcurrent
<1>4. QED
  BY <1>1, <1>2, <1>3, PTL DEF Spec

--------------------------------------------------------------------------------
(* The share of one symbol *)

\* What a symbol holds or may come to hold is within its share of the cap, unless it
\* has been left behind, or an order routed over another, or its weights moved.
WithinShare == \A s \in Accounted : Exposure(s) <= Budget

\* The exposure of a symbol whose decision under way is within its share.
LEMMA ReachIsExposure ==
  ASSUME TypeOK, NEW s \in Symbols
  PROVE  Exposure(s) <= Budget <=> pos[s] + bids[s] <= Budget /\ asks[s] - pos[s] <= Budget
<1>1. /\ pos[s] \in Int /\ bids[s] \in Nat /\ asks[s] \in Nat /\ Budget \in Nat
      /\ aim[s] \in -Budget..Budget
  BY BudgetIsNat DEF TypeOK, EngineTypes
<1>2. Magnitude(aim[s]) \in 0..Budget
  BY <1>1 DEF Magnitude
<1>3. QED
  BY <1>1, <1>2 DEF Exposure, Largest

LEMMA WithinShareStep ==
  TypeOK /\ TypeOK' /\ WithinShare /\ [Next]_vars => WithinShare'
<1> DEFINE Fits(x) == pos[x] + bids[x] <= Budget /\ asks[x] - pos[x] <= Budget
<1> SUFFICES ASSUME TypeOK, TypeOK', WithinShare, [Next]_vars,
                    NEW x \in Symbols, x \notin loose', x \notin strained'
             PROVE  Fits(x)'
  <2>1. Budget' = Budget
    BY DEF Budget
  <2>2. ASSUME TypeOK', NEW s \in Symbols, Fits(s)'
        PROVE  Exposure(s)' <= Budget
    <3>1. /\ pos'[s] \in Int /\ bids'[s] \in Nat /\ asks'[s] \in Nat /\ Budget \in Nat
          /\ aim'[s] \in -Budget..Budget
      BY <2>1, <2>2, BudgetIsNat DEF TypeOK, EngineTypes
    <3>2. Magnitude(aim'[s]) \in 0..Budget
      BY <3>1 DEF Magnitude
    <3>3. pos'[s] + bids'[s] <= Budget /\ asks'[s] - pos'[s] <= Budget
      BY <2>1, <2>2
    <3>4. QED
      BY <2>1, <3>1, <3>2, <3>3 DEF Exposure, Largest
  <2>3. QED
    BY <2>1, <2>2 DEF WithinShare, Accounted
<1> USE DEF TypeOK, EngineTypes
<1>0. /\ Budget \in Nat /\ Budget' = Budget
      /\ pos[x] \in Int /\ bids[x] \in Nat /\ asks[x] \in Nat
  BY BudgetIsNat DEF Budget
<1>1. x \notin loose /\ x \notin strained => Fits(x)
  BY ReachIsExposure DEF WithinShare, Accounted
<1>2. ASSUME UNCHANGED <<pos, bids, asks>>, loose \subseteq loose', strained \subseteq strained'
      PROVE  Fits(x)'
  BY <1>0, <1>1, <1>2
<1>3. ASSUME NEW s \in Symbols, Fills(s) PROVE Fits(x)'
  <2>1. Fits(x)
    BY <1>1, <1>3 DEF Fills, history
  <2>2. CASE x # s
    BY <1>0, <1>3, <2>1, <2>2 DEF Fills
  <2>3. CASE x = s
    <3>1. \/ \E k \in 1..bids[s] : /\ bids' = [bids EXCEPT ![s] = @ - k]
                                   /\ pos' = [pos EXCEPT ![s] = @ + k]
                                   /\ asks' = asks
          \/ \E k \in 1..asks[s] : /\ asks' = [asks EXCEPT ![s] = @ - k]
                                   /\ pos' = [pos EXCEPT ![s] = @ - k]
                                   /\ bids' = bids
      BY <1>3 DEF Fills
    <3>2. QED
      BY <1>0, <2>1, <2>3, <3>1
  <2>4. QED
    BY <2>2, <2>3
<1>4. ASSUME NEW s \in Symbols, Lapses(s) PROVE Fits(x)'
  <2>1. Fits(x)
    BY <1>1, <1>4 DEF Lapses, history
  <2>2. pos'[x] = pos[x] /\ bids'[x] \in 0..bids[x] /\ asks'[x] \in 0..asks[x]
    BY <1>0, <1>4 DEF Lapses
  <2>3. QED
    BY <1>0, <2>1, <2>2
<1>5. ASSUME NEW s \in Symbols, Reprices(s) PROVE Fits(x)'
  <2>1. x # s /\ x \notin loose /\ x \notin strained
    BY <1>5 DEF Reprices
  <2>2. pos'[x] = pos[x] /\ bids'[x] = bids[x] /\ asks'[x] = asks[x]
    BY <1>5, <2>1 DEF Reprices
  <2>3. QED
    BY <1>0, <1>1, <2>1, <2>2
<1>6. ASSUME NEW s \in Symbols, Route(s) PROVE Fits(x)'
  <2>1. x \notin loose
    BY <1>6 DEF Route
  <2>2. PICK order \in Between(0, aim[s] - pos[s]) :
          /\ bids' = [bids EXCEPT ![s] = @ + Largest(0, order)]
          /\ asks' = [asks EXCEPT ![s] = @ + Largest(0, -order)]
          /\ strained' = IF Rests(s)
                         THEN IF order = 0 THEN strained ELSE strained \cup {s}
                         ELSE IF Magnitude(pos[s]) <= Budget THEN strained \ {s} ELSE strained
    BY <1>6 DEF Route
  <2>3. pos' = pos
    BY <1>6 DEF Route
  <2>4. CASE x # s
    <3>1. x \notin strained /\ bids'[x] = bids[x] /\ asks'[x] = asks[x]
      BY <2>2, <2>4
    <3>2. QED
      BY <1>0, <1>1, <2>1, <2>3, <3>1
  <2>5. CASE x = s /\ Rests(s)
    <3>1. order = 0 /\ x \notin strained
      BY <2>2, <2>5
    <3>2. bids'[x] = bids[x] /\ asks'[x] = asks[x]
      BY <1>0, <2>2, <2>5, <3>1 DEF Largest
    <3>3. QED
      BY <1>0, <1>1, <2>1, <2>3, <3>1, <3>2
  <2>6. CASE x = s /\ ~Rests(s)
    <3>1. pos[x] \in -Budget..Budget
      <4>1. CASE Magnitude(pos[s]) <= Budget
        BY <1>0, <2>6, <4>1 DEF Magnitude
      <4>2. CASE ~(Magnitude(pos[s]) <= Budget)
        <5>1. Fits(x)
          BY <1>1, <2>1, <2>2, <2>6, <4>2
        <5>2. QED
          BY <1>0, <2>6, <5>1 DEF Rests
      <4>3. QED
        BY <4>1, <4>2
    <3>2. aim[x] \in -Budget..Budget
      OBVIOUS
    <3>3. /\ order \in Int
          /\ \/ 0 <= order /\ order <= aim[x] - pos[x]
             \/ aim[x] - pos[x] <= order /\ order <= 0
      <4>1. aim[x] - pos[x] \in Int /\ order \in Between(0, aim[x] - pos[x])
        BY <1>0, <2>6, <3>2
      <4>2. QED
        BY <4>1, BetweenIsInt
    <3>4. bids'[x] = Largest(0, order) /\ asks'[x] = Largest(0, -order)
      <4>1. bids[x] = 0 /\ asks[x] = 0
        BY <2>6 DEF Rests
      <4>2. Largest(0, order) \in Nat /\ Largest(0, -order) \in Nat
        BY <3>3, LargestIsNat
      <4>3. QED
        BY <2>2, <2>6, <4>1, <4>2
    <3>5. QED
      BY <1>0, <2>3, <3>1, <3>2, <3>3, <3>4 DEF Largest
  <2>7. QED
    BY <2>4, <2>5, <2>6
<1>7. ASSUME NEW s \in Symbols, HaltEnds(s) PROVE Fits(x)'
  <2>1. PICK p \in Between(0, pos[s]), b \in 0..bids[s], a \in 0..asks[s],
             late \in IF s \in deciding THEN Between(0, aim[s] - pos[s]) ELSE {0} :
          /\ pos' = [pos EXCEPT ![s] = p]
          /\ bids' = [bids EXCEPT ![s] = b + Largest(0, late)]
          /\ asks' = [asks EXCEPT ![s] = a + Largest(0, -late)]
          /\ IF p = 0 /\ b = 0 /\ a = 0 /\ late = 0
             THEN loose' = loose \ {s} /\ strained' = strained \ {s}
             ELSE loose' = loose \cup {s} /\ UNCHANGED strained
    BY <1>7 DEF HaltEnds
  <2>2. CASE x = s
    <3>1. p = 0 /\ b = 0 /\ a = 0 /\ late = 0
      BY <2>1, <2>2
    <3>2. pos'[x] = 0 /\ bids'[x] = 0 /\ asks'[x] = 0
      BY <2>1, <2>2, <3>1 DEF Largest
    <3>3. QED
      BY <1>0, <3>2
  <2>3. CASE x # s
    <3>1. /\ pos'[x] = pos[x] /\ bids'[x] = bids[x] /\ asks'[x] = asks[x]
          /\ x \notin loose /\ x \notin strained
      BY <2>1, <2>3
    <3>2. QED
      BY <1>0, <1>1, <3>1
  <2>4. QED
    BY <2>2, <2>3
<1>8. ASSUME NEW s \in Symbols, NEW p \in Between(0, pos[s]), FlattenMoves(s, p),
             \/ p = 0 /\ ~Rests(s) /\ strained' = strained \ {s} /\ UNCHANGED loose
             \/ loose' = loose \cup {s} /\ UNCHANGED strained
      PROVE  Fits(x)'
  <2>1. CASE x = s
    <3>1. p = 0 /\ ~Rests(s)
      BY <1>8, <2>1
    <3>2. pos'[x] = 0 /\ bids'[x] = 0 /\ asks'[x] = 0
      BY <1>8, <2>1, <3>1 DEF FlattenMoves, Rests
    <3>3. QED
      BY <1>0, <3>2
  <2>2. CASE x # s
    <3>1. /\ pos'[x] = pos[x] /\ bids'[x] = bids[x] /\ asks'[x] = asks[x]
          /\ x \notin loose /\ x \notin strained
      BY <1>8, <2>2 DEF FlattenMoves
    <3>2. QED
      BY <1>0, <1>1, <3>1
  <2>3. QED
    BY <2>1, <2>2
<1>9. ASSUME NEW s \in Symbols, FlattenReturns(s) PROVE Fits(x)'
  BY <1>8, <1>9 DEF FlattenReturns
<1>10. ASSUME NEW s \in Symbols, FlattenRaises(s) \/ CancelFlatten(s) PROVE Fits(x)'
  BY <1>8, <1>10 DEF FlattenRaises, CancelFlatten
<1>11. ASSUME NEW s \in Symbols,
              \/ Decide(s) \/ StandsDown(s) \/ DriverHalts(s) \/ RetireFlat(s)
              \/ FlattenBegins(s) \/ StopFlat(s) \/ Teardown(s) \/ Joined(s)
       PROVE  Fits(x)'
  BY <1>2, <1>11 DEF Decide, StandsDown, DriverHalts, RetireFlat, FlattenBegins, StopFlat,
                     Teardown, Joined, engineVars, venueVars, history
<1>12. CASE Poll \/ Start \/ Rotate \/ Admit \/ Close
  BY <1>2, <1>12 DEF Poll, Start, Rotate, Admit, Close, engineVars, venueVars, history
<1>13. CASE RequestStop \/ CancelAsleep \/ CancelJoin \/ UNCHANGED vars
  BY <1>2, <1>13 DEF RequestStop, CancelAsleep, CancelJoin, vars, engineVars, venueVars, history
<1>14. QED
  BY <1>3, <1>4, <1>5, <1>6, <1>7, <1>9, <1>10, <1>11, <1>12, <1>13 DEF Next, FleetTask, Operator

LEMMA WithinShareInit == Init => WithinShare
<1> SUFFICES ASSUME Init
             PROVE  WithinShare
  OBVIOUS
<1>1. TypeOK
  BY FleetTypesInit
<1>2. \A s \in Symbols : pos[s] = 0 /\ bids[s] = 0 /\ asks[s] = 0
  BY DEF Init
<1>3. \A s \in Symbols : pos[s] + bids[s] <= Budget /\ asks[s] - pos[s] <= Budget
  BY <1>2, BudgetIsNat
<1>4. QED
  BY <1>1, <1>3, ReachIsExposure DEF WithinShare, Accounted

\* Nothing brings a symbol beyond the cap divided by max_concurrent, orders that rest
\* included, but an order routed over one that rests, a move of price or equity, and
\* what a flatten or a halt leaves behind.
THEOREM SharesHold == Spec => []WithinShare
<1>1. Init => TypeOK /\ WithinShare
  BY FleetTypesInit, WithinShareInit
<1>2. TypeOK /\ WithinShare /\ [Next]_vars => (TypeOK /\ WithinShare)'
  BY EngineTypesStep, FleetTypesStep, WithinShareStep DEF TypeOK
<1>3. QED
  BY <1>1, <1>2, PTL DEF Spec

--------------------------------------------------------------------------------
(* The sum of the exposures *)

\* A decision that has not yet been routed belongs to a task that still runs.
DecidersRun == \A s \in deciding : drv[s] \in {"running", "halting"}

LEMMA DecidersRunStep ==
  TypeOK /\ DecidersRun /\ [Next]_vars => DecidersRun'
<1> SUFFICES ASSUME TypeOK, DecidersRun, [Next]_vars, NEW x \in deciding'
             PROVE  drv'[x] \in {"running", "halting"}
  BY DEF DecidersRun
<1> USE DEF TypeOK, EngineTypes, DecidersRun, engineVars
<1>1. ASSUME NEW s \in Symbols,
             \/ Decide(s) \/ Route(s) \/ StandsDown(s) \/ DriverHalts(s)
             \/ Fills(s) \/ Lapses(s) \/ Reprices(s)
      PROVE  drv'[x] \in {"running", "halting"}
  BY <1>1 DEF Decide, Route, StandsDown, DriverHalts, Fills, Lapses, Reprices
<1>2. ASSUME NEW s \in Symbols, HaltEnds(s) PROVE drv'[x] \in {"running", "halting"}
  BY <1>2 DEF HaltEnds
<1>3. ASSUME NEW s \in Symbols, FlattenReturns(s) \/ FlattenRaises(s) \/ CancelFlatten(s)
      PROVE  drv'[x] \in {"running", "halting"}
  BY <1>3 DEF FlattenReturns, FlattenRaises, CancelFlatten, FlattenMoves
<1>4. CASE Poll \/ Start
  BY <1>4 DEF Poll, Start, Reaped, Drivers
<1>5. CASE Rotate \/ Admit \/ Close \/ RequestStop \/ CancelAsleep \/ CancelJoin \/ UNCHANGED vars
  BY <1>5 DEF Rotate, Admit, Close, RequestStop, CancelAsleep, CancelJoin, vars
<1>6. ASSUME NEW s \in Symbols, RetireFlat(s) \/ FlattenBegins(s) \/ StopFlat(s)
      PROVE  drv'[x] \in {"running", "halting"}
  BY <1>6 DEF RetireFlat, FlattenBegins, StopFlat
<1>7. ASSUME NEW s \in Symbols, Teardown(s) \/ Joined(s)
      PROVE  drv'[x] \in {"running", "halting"}
  BY <1>7 DEF Teardown, Joined, StopEnds
<1>8. QED
  BY <1>1, <1>2, <1>3, <1>4, <1>5, <1>6, <1>7 DEF Next, FleetTask, Operator

\* What MapThenSumSet computes is the sum of SetInduction.
LEMMA ExposuresSumUp ==
  ASSUME NEW S \in SUBSET Symbols, \A s \in S : Exposure(s) \in Int
  PROVE  \E g : /\ SumsUp(g, [s \in S |-> Exposure(s)], S)
                /\ MapThenSumSet(Exposure, S) = g[S]
<1> DEFINE w == [s \in S |-> Exposure(s)]
           Eq(g) == g = [T \in SUBSET S |->
                          IF T = {} THEN 0
                          ELSE Exposure(CHOOSE x \in T : TRUE) + g[T \ {CHOOSE x \in T : TRUE}]]
           g0 == CHOOSE g : Eq(g)
<1>0. IsFiniteSet(S)
  BY FleetAssumption, FS_Subset
<1>1. \E g : SumsUp(g, w, S)
  <2> HIDE DEF w
  <2>1. \A s \in S : w[s] \in Int BY DEF w
  <2>2. QED BY <1>0, <2>1, SumExists
<1>2. ASSUME NEW g PROVE SumsUp(g, w, S) <=> Eq(g)
  <2>1. \A T \in SUBSET S : T # {} =>
          w[CHOOSE x \in T : TRUE] = Exposure(CHOOSE x \in T : TRUE)
    OBVIOUS
  <2> HIDE DEF w
  <2>2. QED BY <2>1 DEF SumsUp
<1>3. Eq(g0)
  <2> HIDE DEF Eq, w
  <2>1. \E g : Eq(g) BY <1>1, <1>2
  <2>2. QED BY <2>1
<1>4. MapThenSumSet(Exposure, S) = g0[S]
  BY DEF MapThenSumSet, MapThenFoldSet
<1>5. QED
  <2>1. SumsUp(g0, w, S)
    <3> HIDE DEF Eq, w, g0
    <3> QED BY <1>2, <1>3
  <2> HIDE DEF Eq, g0
  <2>2. QED BY <2>1, <1>4

\* The share of the cap is such that the limit of the symbols uses up no more of it.
LEMMA SharesWithinCap ==
  ASSUME NEW n \in Nat, n <= MaxConcurrent
  PROVE  Budget * n <= MaxGross
<1>1. Budget * MaxConcurrent <= MaxGross
  BY FleetAssumption DEF Budget
<1>2. Budget * n <= Budget * MaxConcurrent
  BY BudgetIsNat, FleetAssumption
<1>3. QED
  BY <1>1, <1>2, BudgetIsNat, FleetAssumption

\* What the symbols hold, what rests for them and what is being decided together stay
\* within max_gross_exposure (clamp_target), whatever the drivers decide at the same
\* time and however far behind the believed weights are.  It is said of the symbols
\* that nothing has left behind, sized over a resting order or moved since they were
\* last sized; whatever becomes of those takes nothing from the others.
THEOREM GrossStaysWithinCap == Spec => []GrossWithinCap
<1> DEFINE Inv == /\ TypeOK /\ LoopInv /\ AllManaged /\ CountInv
                  /\ PositionHasTask /\ DecidersRun /\ WithinShare
<1>1. Init => Inv
  <2> SUFFICES ASSUME Init
               PROVE  Inv
    OBVIOUS
  <2>1. TypeOK /\ LoopInv /\ AllManaged /\ PositionHasTask /\ DecidersRun
    BY FleetTypesInit DEF Init, LoopInv, AllManaged, PositionHasTask, DecidersRun, Rests
  <2>2. WithinShare /\ CountInv
    BY WithinShareInit, CountInvInit
  <2>3. QED
    BY <2>1, <2>2
<1>2. Inv /\ [Next]_vars => Inv'
  BY EngineTypesStep, FleetTypesStep, LoopInvStep, AllManagedStep, CountInvStep,
     PositionHasTaskStep, DecidersRunStep, WithinShareStep DEF TypeOK
<1>3. Inv => GrossWithinCap
  <2> SUFFICES ASSUME Inv
               PROVE  MapThenSumSet(Exposure, Accounted) <= MaxGross
    BY DEF GrossWithinCap
  <2> DEFINE w == [s \in Accounted |-> Exposure(s)]
             exposed == {s \in Accounted : w[s] # 0}
  <2>0. Accounted \in SUBSET Symbols
    BY DEF Accounted
  <2>1. \A s \in Accounted : Exposure(s) \in 0..Budget
    BY <2>0, BudgetIsNat DEF WithinShare, TypeOK, EngineTypes, Exposure, Largest, Magnitude
  <2>2. PICK g : SumsUp(g, w, Accounted) /\ MapThenSumSet(Exposure, Accounted) = g[Accounted]
    <3>1. \A s \in Accounted : Exposure(s) \in Int
      BY <2>1, BudgetIsNat
    <3>2. QED
      BY <2>0, <3>1, ExposuresSumUp, Zenon
  <2>3. exposed \in SUBSET (Running \ loose) /\ Running \ loose \in SUBSET Symbols
    <3>1. ASSUME NEW s \in Accounted, Exposure(s) # 0
          PROVE  s \in Symbols /\ s \notin loose /\ drv[s] \in {"running", "halting"}
      <4>1. s \in Symbols /\ s \notin loose
        BY DEF Accounted
      <4>2. pos[s] # 0 \/ Rests(s) \/ s \in deciding
        BY <3>1, <4>1 DEF Exposure, Rests, Largest, TypeOK, EngineTypes
      <4>3. QED
        BY <4>1, <4>2 DEF PositionHasTask, DecidersRun
    <3>2. QED
      BY <3>1 DEF Running
  <2>4. Cardinality(exposed) <= MaxConcurrent
    BY <2>3, SubsetWithinLimit DEF CountInv
  <2>5. Cardinality(exposed) \in Nat
    BY <2>0, FleetAssumption, FS_Subset, FS_CardinalityType
  <2>6. Budget * Cardinality(exposed) <= MaxGross
    BY <2>4, <2>5, SharesWithinCap
  <2>7. g[Accounted] \in Nat /\ g[Accounted] <= Budget * Cardinality(exposed)
    <3>1. \A s \in Accounted : w[s] \in 0..Budget
      BY <2>1
    <3>2. IsFiniteSet(Accounted)
      BY <2>0, FleetAssumption, FS_Subset
    <3> HIDE DEF w
    <3>3. QED
      BY <2>2, <3>1, <3>2, BudgetIsNat, SumBound
  <2>8. QED
    <3> HIDE DEF w, exposed
    <3> QED BY <2>2, <2>5, <2>6, <2>7, BudgetIsNat, FleetAssumption
<1>4. QED
  BY <1>1, <1>2, <1>3, PTL DEF Spec

================================================================================
