---------------------------------- MODULE Fleet ----------------------------------
(***************************************************************************)
(* The PortfolioSupervisor (src/src/godalgo/portfolio/supervisor.py) and   *)
(* the PortfolioDriver (src/src/godalgo/execution/portfolio_driver.py):    *)
(* one task that rotates a universe of symbols, each with an engine and a  *)
(* driver task of its own.                                                 *)
(*                                                                         *)
(* The fleet's task runs without interruption between its awaits, which    *)
(* Suspended names; the drivers take steps only then.  A driver is reduced *)
(* to what EngineDriver says of one: it decides a target, routes an order  *)
(* of the distance to it, and on any exit halts.  Orders rest until the    *)
(* venue fills them or lets them lapse, and a later decision may route one *)
(* over another.  Weights are integers, and move with price and equity.    *)
(*                                                                         *)
(* Two histories: "loose", the symbols that a flatten or a halt has left   *)
(* with a position or an order, and "strained", those that have had an     *)
(* order routed over another, or their weights moved, since they were last *)
(* sized with nothing resting or left clean.                               *)
(***************************************************************************)
EXTENDS Integers, FiniteSets, FiniteSetsExt

CONSTANTS
  Symbols,          \* what the scanner can select from
  MaxConcurrent,    \* SupervisorConfig.max_concurrent
  MaxGross,         \* SupervisorConfig.max_gross_exposure
  FlattenOnRetire,  \* SupervisorConfig.flatten_on_retire
  Targets,          \* weights an engine's strategies and risk gate may ask for
  Drifts,           \* price and equity move the weights of what is held and ordered
  MaxScans,         \* bound: rotations
  MaxEvents         \* bound: orders routed and moves of a weight

ASSUME FleetAssumption ==
  /\ IsFiniteSet(Symbols)
  /\ MaxConcurrent \in Nat \ {0} /\ MaxGross \in Nat
  /\ FlattenOnRetire \in BOOLEAN
  /\ Targets \subseteq Int /\ Drifts \in BOOLEAN
  /\ MaxScans \in Nat /\ MaxEvents \in Nat

VARIABLES
  \* per symbol
  pos,          \* the weight the venue holds
  bids, asks,   \* the weight of the buy and of the sell orders that rest there
  believed,     \* EngineState.current_weight of the symbol's engine
  aim,          \* the clamped target of the decision under way, else 0
  deciding,     \* symbols with a decision between the clamp and its order
  drv,          \* the driver's task; "none" when not in PortfolioDriver.drivers
  \* PortfolioSupervisor and PortfolioDriver
  engines,      \* keys of PortfolioSupervisor.engines
  stop,         \* PortfolioDriver._stop
  fpc,          \* which loop the fleet's task is in
  act,          \* what it is doing for cur
  cur,          \* subset of one symbol at most: the one being stopped
  todo,         \* symbols the loop has still to treat
  retired,      \* result of the rotation under way
  admitted,     \* likewise
  scans,        \* rotations so far
  \* history
  cancelled,    \* the fleet's task has been cancelled from outside
  events,       \* orders routed and weights moved so far
  loose,        \* symbols left with a position or an order
  strained      \* symbols sized over resting orders, or moved since

venueVars == <<pos, bids, asks, events>>
engineVars == <<venueVars, believed, aim, deciding>>
history == <<cancelled, loose, strained>>
rotationVars == <<retired, admitted, scans>>
fleetVars == <<fpc, act, cur, todo, rotationVars>>
vars == <<engineVars, drv, engines, stop, fleetVars, history>>

Magnitude(n) == IF n < 0 THEN -n ELSE n
Largest(m, n) == IF m < n THEN n ELSE m
Between(m, n) == IF m < n THEN m..n ELSE n..m
\* w brought into the band of the given width around zero.
Clip(w, width) == IF w > width THEN width ELSE IF w < -width THEN -width ELSE w

\* The symbols in PortfolioDriver.drivers.
Drivers == {s \in Symbols : drv[s] # "none"}

Init ==
  /\ pos = [s \in Symbols |-> 0] /\ events = 0
  /\ bids = [s \in Symbols |-> 0] /\ asks = [s \in Symbols |-> 0]
  /\ believed = [s \in Symbols |-> 0]
  /\ aim = [s \in Symbols |-> 0] /\ deciding = {}
  /\ drv = [s \in Symbols |-> "none"]
  /\ engines = {} /\ stop = FALSE
  /\ fpc = "sleep" /\ act = "none" /\ cur = {} /\ todo = {}
  /\ retired = {} /\ admitted = {} /\ scans = 0
  /\ cancelled = FALSE /\ loose = {} /\ strained = {}

\* The fleet's task is at an await, so that other tasks may run.
Suspended == fpc = "sleep" \/ act \in {"flatten", "join"}

--------------------------------------------------------------------------------
(* The venue, at any time *)

\* An order of the symbol rests.
Rests(s) == bids[s] # 0 \/ asks[s] # 0

\* An order that rests is filled, in part or whole.
Fills(s) ==
  /\ \/ \E k \in 1..bids[s] : /\ bids' = [bids EXCEPT ![s] = @ - k]
                              /\ pos' = [pos EXCEPT ![s] = @ + k]
                              /\ UNCHANGED asks
     \/ \E k \in 1..asks[s] : /\ asks' = [asks EXCEPT ![s] = @ - k]
                              /\ pos' = [pos EXCEPT ![s] = @ - k]
                              /\ UNCHANGED bids
  /\ UNCHANGED <<events, believed, aim, deciding, drv, engines, stop, fleetVars, history>>

\* The venue lets the orders of a symbol lapse.
Lapses(s) ==
  /\ Rests(s)
  /\ bids' = [bids EXCEPT ![s] = 0] /\ asks' = [asks EXCEPT ![s] = 0]
  /\ UNCHANGED <<pos, events, believed, aim, deciding, drv, engines, stop, fleetVars, history>>

\* What a move of price or equity makes of a weight, which keeps its sign.
Moved(n) == IF n = 0 THEN {0} ELSE {n - 1, n, n + 1} \ {0}

\* The weights of a symbol move: quantity times mark over equity.
Reprices(s) ==
  /\ Drifts /\ events < MaxEvents
  /\ \E p \in Moved(pos[s]), b \in Moved(bids[s]), a \in Moved(asks[s]) :
       /\ <<p, b, a>> # <<pos[s], bids[s], asks[s]>>
       /\ pos' = [pos EXCEPT ![s] = p]
       /\ bids' = [bids EXCEPT ![s] = b] /\ asks' = [asks EXCEPT ![s] = a]
  /\ events' = events + 1
  /\ strained' = strained \cup {s}
  /\ UNCHANGED <<believed, aim, deciding, drv, engines, stop, fleetVars, cancelled, loose>>

--------------------------------------------------------------------------------
(* The driver of one symbol *)

\* Mutant of Budget: the cap divided by the engines admitted so far.
BudgetOfLive == MaxGross \div Largest(1, Cardinality(engines))

\* per_symbol_budget: by the concurrency limit, not by the current count.
Budget == MaxGross \div MaxConcurrent

\* What the other engines are believed to leave of the cap.
Remaining(s) ==
  Largest(0, MaxGross - MapThenSumSet(LAMBDA o : Magnitude(believed[o]), engines \ {s}))

\* clamp_target: the budget, then what remains; a reduction always passes.
Clamp(s, w, remaining) ==
  LET budgeted == Clip(w, Budget)
      current == IF s \in engines THEN believed[s] ELSE 0
  IN IF Magnitude(budgeted) > Magnitude(current) THEN Clip(budgeted, remaining) ELSE budgeted

Decide(s) ==
  /\ Suspended /\ drv[s] = "running" /\ s \notin deciding
  /\ \E w \in Targets, remaining \in 0..MaxGross :
       /\ remaining = Remaining(s)
       /\ aim' = [aim EXCEPT ![s] = Clamp(s, w, remaining)]
  /\ deciding' = deciding \cup {s}
  /\ UNCHANGED <<venueVars, believed, drv, engines, stop, fleetVars, history>>

\* _route reads the position, so the believed weight is the one before any fill,
\* and sends an order of the distance to the target or less (the share of the
\* equity, lot sizes, a refusal).  It asks nothing of the orders that still rest.
Route(s) ==
  /\ Suspended /\ drv[s] = "running" /\ s \in deciding
  /\ believed' = [believed EXCEPT ![s] = pos[s]]
  /\ \E order \in Between(0, aim[s] - pos[s]) :
       /\ order # 0 => events < MaxEvents
       /\ events' = IF order = 0 THEN events ELSE events + 1
       /\ bids' = [bids EXCEPT ![s] = @ + Largest(0, order)]
       /\ asks' = [asks EXCEPT ![s] = @ + Largest(0, -order)]
       /\ strained' = IF Rests(s)
                      THEN IF order = 0 THEN strained ELSE strained \cup {s}
                      ELSE IF Magnitude(pos[s]) <= Budget THEN strained \ {s} ELSE strained
  /\ deciding' = deciding \ {s} /\ aim' = [aim EXCEPT ![s] = 0]
  /\ UNCHANGED <<pos, drv, engines, stop, fleetVars, cancelled, loose>>

\* _route returns before it has read the position: there is no book or it is old,
\* or the request fails.
StandsDown(s) ==
  /\ Suspended /\ drv[s] = "running" /\ s \in deciding
  /\ deciding' = deciding \ {s} /\ aim' = [aim EXCEPT ![s] = 0]
  /\ UNCHANGED <<venueVars, believed, drv, engines, stop, fleetVars, history>>

\* A terminal condition of the driver's own: risk, drift, staleness, reconnects.
DriverHalts(s) ==
  /\ Suspended /\ drv[s] = "running"
  /\ drv' = [drv EXCEPT ![s] = "halting"]
  /\ UNCHANGED <<engineVars, engines, stop, fleetVars, history>>

\* The task ends with its halt, which cancels the orders and closes the position,
\* or part of them, since either may fail or the halt be cut short; the order of a
\* decision under way may reach the venue after both.
HaltEnds(s) ==
  /\ Suspended /\ drv[s] = "halting"
  /\ \E p \in Between(0, pos[s]), b \in 0..bids[s], a \in 0..asks[s],
        late \in IF s \in deciding THEN Between(0, aim[s] - pos[s]) ELSE {0} :
       /\ pos' = [pos EXCEPT ![s] = p]
       /\ bids' = [bids EXCEPT ![s] = b + Largest(0, late)]
       /\ asks' = [asks EXCEPT ![s] = a + Largest(0, -late)]
       /\ IF p = 0 /\ b = 0 /\ a = 0 /\ late = 0
          THEN loose' = loose \ {s} /\ strained' = strained \ {s}
          ELSE loose' = loose \cup {s} /\ UNCHANGED strained
  /\ drv' = [drv EXCEPT ![s] = "ended"]
  /\ deciding' = deciding \ {s} /\ aim' = [aim EXCEPT ![s] = 0]
  /\ UNCHANGED <<events, believed, engines, stop, fleetVars, cancelled>>

--------------------------------------------------------------------------------
(* PortfolioDriver.run *)

\* The loop condition after a rotation or a poll, given the drivers left; a stop
\* goes on to _shutdown, which lists the drivers it finds.
LoopOrClose(left) ==
  /\ fpc' = IF stop THEN "close" ELSE "sleep"
  /\ todo' = IF stop THEN left ELSE {}

\* _reap: tasks that have ended leave the drivers, their engines stay.
Reaped(d) == [s \in Symbols |-> IF d[s] = "ended" THEN "none" ELSE d[s]]

\* The poll finds no scan due, or the scan raises: the fleet is unchanged.
Poll ==
  /\ fpc = "sleep"
  /\ drv' = Reaped(drv)
  /\ LoopOrClose({s \in Symbols : drv'[s] # "none"})
  /\ UNCHANGED <<engineVars, engines, stop, act, cur, rotationVars, history>>

\* The scan selects a universe.  Incumbents inside their minimum hold are part
\* of it; how long ago they were admitted is abstracted, so any will do.
Rotate ==
  /\ fpc = "sleep" /\ scans < MaxScans
  /\ \E target \in SUBSET Symbols :
       /\ Cardinality(target) <= MaxConcurrent
       /\ retired' = engines \ target
       /\ admitted' = target \ engines
  /\ todo' = retired'
  /\ fpc' = "retire"
  /\ scans' = scans + 1
  /\ UNCHANGED <<engineVars, drv, engines, stop, act, cur, history>>

\* _retire of an engine that believes itself flat, or that may be left open.
RetireFlat(s) ==
  /\ fpc = "retire" /\ act = "none" /\ s \in todo
  /\ believed[s] = 0 \/ ~FlattenOnRetire
  /\ engines' = engines \ {s}
  /\ todo' = todo \ {s}
  /\ UNCHANGED <<engineVars, drv, stop, fpc, act, cur, rotationVars, history>>

\* engine.flatten is called, by _retire or by _stop_symbol.
FlattenBegins(s) ==
  /\ fpc \in {"retire", "stop", "close"} /\ act = "none" /\ s \in todo
  /\ s \in engines /\ believed[s] # 0
  /\ fpc = "retire" => FlattenOnRetire
  /\ act' = "flatten" /\ cur' = {s}
  /\ UNCHANGED <<engineVars, drv, engines, stop, fpc, todo, rotationVars, history>>

\* What the venue makes of the market order of flatten, which cancels nothing.
FlattenMoves(s, p) ==
  /\ p \in Between(0, pos[s])
  /\ pos' = [pos EXCEPT ![s] = p]
  /\ UNCHANGED <<bids, asks, events, believed, aim, deciding>>

\* flatten returns, whatever became of its order (it may even be without a
\* book): the engine is dropped, or the driver is next.
FlattenReturns(s) ==
  /\ act = "flatten" /\ cur = {s}
  /\ \E p \in Between(0, pos[s]) :
       /\ FlattenMoves(s, p)
       /\ IF p = 0 /\ ~Rests(s)
          THEN strained' = strained \ {s} /\ UNCHANGED loose
          ELSE loose' = loose \cup {s} /\ UNCHANGED strained
  /\ IF fpc = "retire"
     THEN /\ engines' = engines \ {s}
          /\ todo' = todo \ {s} /\ act' = "none" /\ cur' = {}
     ELSE /\ act' = "teardown"
          /\ UNCHANGED <<engines, todo, cur>>
  /\ UNCHANGED <<drv, stop, fpc, rotationVars, cancelled>>

\* flatten raises: the engine is kept and its driver left running.
FlattenRaises(s) ==
  /\ act = "flatten" /\ cur = {s}
  /\ \E p \in Between(0, pos[s]) : FlattenMoves(s, p)
  /\ loose' = loose \cup {s}
  /\ todo' = todo \ {s} /\ act' = "none" /\ cur' = {}
  /\ UNCHANGED <<drv, engines, stop, fpc, rotationVars, cancelled, strained>>

\* Mutant of Admit: new drivers start while those of the retired still run.
AdmitAndStart ==
  /\ fpc = "retire" /\ act = "none" /\ todo = {}
  /\ engines' = engines \cup admitted
  /\ believed' = [s \in Symbols |-> IF s \in admitted THEN 0 ELSE believed[s]]
  /\ drv' = [s \in Symbols |-> IF s \in admitted THEN "running" ELSE drv[s]]
  /\ fpc' = "stop" /\ todo' = retired
  /\ UNCHANGED <<venueVars, aim, deciding, stop, act, cur, rotationVars, history>>

\* The supervisor's rotation ends with new engines; then the retired are stopped.
Admit ==
  /\ fpc = "retire" /\ act = "none" /\ todo = {}
  /\ engines' = engines \cup admitted
  /\ believed' = [s \in Symbols |-> IF s \in admitted THEN 0 ELSE believed[s]]
  /\ fpc' = "stop" /\ todo' = retired
  /\ UNCHANGED <<venueVars, aim, deciding, drv, stop, act, cur, rotationVars, history>>

\* _stop_symbol of a symbol without an engine, or with a flat one.
StopFlat(s) ==
  /\ fpc \in {"stop", "close"} /\ act = "none" /\ s \in todo
  /\ s \notin engines \/ believed[s] = 0
  /\ act' = "teardown" /\ cur' = {s}
  /\ UNCHANGED <<engineVars, drv, engines, stop, fpc, todo, rotationVars, history>>

StopEnds(s) ==
  /\ drv' = [drv EXCEPT ![s] = "none"]
  /\ todo' = todo \ {s} /\ act' = "none" /\ cur' = {}

\* Mutant of Teardown: the task is cancelled and forgotten, not awaited.
TeardownForgets(s) ==
  /\ act = "teardown" /\ cur = {s}
  /\ StopEnds(s)
  /\ UNCHANGED <<engineVars, engines, stop, fpc, rotationVars, history>>

\* The driver's task is cancelled, which makes a running driver halt, and awaited.
Teardown(s) ==
  /\ act = "teardown" /\ cur = {s}
  /\ IF drv[s] \in {"none", "ended"}
     THEN StopEnds(s)
     ELSE /\ drv' = [drv EXCEPT ![s] = "halting"]
          /\ act' = "join"
          /\ UNCHANGED <<todo, cur>>
  /\ UNCHANGED <<engineVars, engines, stop, fpc, rotationVars, history>>

Joined(s) ==
  /\ act = "join" /\ cur = {s} /\ drv[s] = "ended"
  /\ StopEnds(s)
  /\ UNCHANGED <<engineVars, engines, stop, fpc, rotationVars, history>>

\* The admitted symbols get drivers, ended ones are reaped, the loop goes round.
Start ==
  /\ fpc = "stop" /\ act = "none" /\ todo = {}
  /\ drv' = Reaped([s \in Symbols |-> IF s \in admitted \ Drivers THEN "running" ELSE drv[s]])
  /\ LoopOrClose({s \in Symbols : drv'[s] # "none"})
  /\ retired' = {} /\ admitted' = {}
  /\ UNCHANGED <<engineVars, engines, stop, act, cur, scans, history>>

Close ==
  /\ fpc = "close" /\ act = "none" /\ todo = {}
  /\ fpc' = "closed"
  /\ UNCHANGED <<engineVars, drv, engines, stop, act, cur, todo, rotationVars, history>>

RequestStop ==
  /\ Suspended /\ ~stop
  /\ stop' = TRUE
  /\ UNCHANGED <<engineVars, drv, engines, fleetVars, history>>

--------------------------------------------------------------------------------
(* Cancellation of the fleet's task, as asyncio.run does on an interrupt *)

\* run's finally clause begins, or has itself been cancelled.
ToFinally ==
  /\ IF fpc = "close" THEN fpc' = "closed" /\ todo' = {} ELSE fpc' = "close" /\ todo' = Drivers
  /\ act' = "none" /\ cur' = {}
  /\ retired' = {} /\ admitted' = {}

CancelAsleep ==
  /\ fpc = "sleep" /\ ~cancelled
  /\ cancelled' = TRUE
  /\ ToFinally
  /\ UNCHANGED <<engineVars, drv, engines, stop, scans, loose, strained>>

CancelFlatten(s) ==
  /\ act = "flatten" /\ cur = {s} /\ ~cancelled
  /\ cancelled' = TRUE
  /\ \E p \in Between(0, pos[s]) : FlattenMoves(s, p)
  /\ loose' = loose \cup {s}
  /\ ToFinally
  /\ UNCHANGED <<drv, engines, stop, scans, strained>>

\* Awaiting a task passes the cancellation on to it, and _stop_symbol suppresses
\* the CancelledError that comes back: the fleet goes on as if nothing had been.
CancelJoin ==
  /\ act = "join" /\ ~cancelled
  /\ cancelled' = TRUE
  /\ UNCHANGED <<engineVars, drv, engines, stop, fleetVars, loose, strained>>

--------------------------------------------------------------------------------

FleetTask ==
  \/ Poll \/ Rotate \/ Admit \/ Start \/ Close
  \/ \E s \in Symbols : \/ RetireFlat(s) \/ FlattenBegins(s) \/ FlattenReturns(s)
                        \/ FlattenRaises(s) \/ StopFlat(s) \/ Teardown(s) \/ Joined(s)

Operator == RequestStop \/ CancelAsleep \/ CancelJoin \/ \E s \in Symbols : CancelFlatten(s)

Next ==
  \/ FleetTask \/ Operator
  \/ \E s \in Symbols : \/ Fills(s) \/ Lapses(s) \/ Reprices(s)
                        \/ Decide(s) \/ Route(s) \/ StandsDown(s)
                        \/ DriverHalts(s) \/ HaltEnds(s)

\* The fleet's sleeps and broker calls end, and so does a halt that has begun.
\* Nothing is asked of the engines' decisions or of the operator.
Fairness == WF_vars(FleetTask) /\ \A s \in Symbols : WF_vars(HaltEnds(s))

Spec == Init /\ [][Next]_vars /\ Fairness

--------------------------------------------------------------------------------

EngineTypes ==
  /\ pos \in [Symbols -> Int] /\ believed \in [Symbols -> Int]
  /\ bids \in [Symbols -> Nat] /\ asks \in [Symbols -> Nat]
  /\ aim \in [Symbols -> -Budget..Budget]
  /\ deciding \subseteq Symbols
  /\ drv \in [Symbols -> {"none", "running", "halting", "ended"}]
  /\ events \in 0..MaxEvents

FleetTypes ==
  /\ engines \subseteq Symbols /\ stop \in BOOLEAN
  /\ fpc \in {"sleep", "retire", "stop", "close", "closed"}
  /\ act \in {"none", "flatten", "teardown", "join"}
  /\ cur \subseteq Symbols /\ todo \subseteq Symbols
  /\ retired \subseteq Symbols /\ admitted \subseteq Symbols
  /\ scans \in 0..MaxScans
  /\ cancelled \in BOOLEAN /\ loose \subseteq Symbols /\ strained \subseteq Symbols

\* The ranges of every variable; what clamp_target returns is within the symbol's
\* share of the cap, what the venue holds need not be.
TypeOK == EngineTypes /\ FleetTypes

\* The weight a symbol has or may reach by the orders that rest, filled in any
\* order, and by the one its decision under way asks for.
Exposure(s) ==
  LET reach == Largest(pos[s] + bids[s], asks[s] - pos[s])
  IN IF s \in deciding THEN Largest(reach, Magnitude(aim[s])) ELSE reach

\* The symbols that nothing has taken out of the supervisor's arithmetic.
Accounted == Symbols \ (loose \cup strained)

\* "Ceiling on the sum of absolute weights across every symbol", for the symbols
\* it can be said of: what they hold, what rests and what is being decided stays
\* within the cap through rotations, lagging believed weights and decisions that
\* race each other, whatever has become of the other symbols, engines that a
\* raising flatten has kept included.
GrossWithinCap == MapThenSumSet(Exposure, Accounted) <= MaxGross

\* A position, or an order that may still make one, always has a driver that will
\* halt, unless a flatten or a halt has left it behind: whatever order retirement,
\* the fills of resting orders, the driver's own end and its reaping come in.
PositionHasDriver ==
  \A s \in Symbols : ((pos[s] # 0 \/ Rests(s)) /\ s \notin loose) => drv[s] # "none"

\* A running driver trades for an engine the supervisor counts, or for one the
\* fleet is about to stop; no symbol is admitted over a driver it still has.
DriversAreManaged ==
  fpc # "closed" =>
    \A s \in Symbols :
      /\ drv[s] = "running" => s \in engines \cup (IF fpc = "retire" THEN retired ELSE todo)
      /\ s \in admitted => drv[s] = "none"

--------------------------------------------------------------------------------
(* Statements of the documentation that the code does not keep *)

\* VIOLATED: "Ceiling on the sum of absolute weights across every symbol", of every
\* symbol: an order is routed over one that rests, and both fill.
GrossIsCeiling == MapThenSumSet(LAMBDA s : Magnitude(pos[s]), Symbols) <= MaxGross

\* VIOLATED: "Runs on cancellation too, so the fleet is always torn down."
CancelCloses == cancelled ~> fpc = "closed"

================================================================================
