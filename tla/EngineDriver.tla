------------------------------ MODULE EngineDriver ------------------------------
(***************************************************************************)
(* One LiveEngine (src/src/godalgo/execution/engine.py) driven by one      *)
(* WebSocketDriver (src/src/godalgo/execution/driver.py) against a venue.  *)
(*                                                                         *)
(* The driver's asyncio tasks interleave at every await, so an action is   *)
(* the code between two awaits.  Positions and orders are integer lots;    *)
(* a strategy is a choice from Targets and the router's gates a choice to  *)
(* refuse.  The venue holds resting orders that may fill at any moment and *)
(* answers a submission late, ambiguously or not at all.                   *)
(***************************************************************************)
EXTENDS Integers, FiniteSets

CONSTANTS
  Held,           \* positions the account may hold when the engine starts
  Targets,        \* positions the strategies and the risk layer may ask for
  MaxOrders,      \* bound: orders the decision task routes
  MaxBars,        \* bound: bars the trade stream completes
  Faults,         \* halt steps that may fail: subset of {"cancel","position","flatten"}
  ReduceOnly,     \* whether the venue enforces reduce_only
  GivesUp         \* DriverConfig.max_reconnect_attempts > 0

ASSUME DriverAssumption ==
  /\ Held \subseteq Int /\ Targets \subseteq Int
  /\ MaxOrders \in Nat /\ MaxBars \in Nat
  /\ Faults \subseteq {"cancel", "position", "flatten"}
  /\ ReduceOnly \in BOOLEAN /\ GivesUp \in BOOLEAN

VARIABLES
  \* the venue
  pos,            \* position the venue records
  resting,        \* open orders
  wire,           \* the routed order still on its way to the venue, 0 if none
  \* the engine
  halted,         \* EngineState.halted
  reason,         \* EngineState.halt_reason
  believed,       \* EngineState.current_weight, in lots
  moved,          \* the mark has left the tolerance since believed was measured
  book,           \* _book: none, fresh or older than max_book_age
  target,         \* EngineState.target_weight
  marker,         \* the symbol is in OrderRouter._in_flight
  orders,         \* EngineState.orders_sent plus the one being sent
  halter,         \* the task that runs the body of halt
  hpc,            \* where that body is
  sizing,         \* the position flatten has read
  \* the driver
  pc,             \* where each task is
  barReady,       \* the _bar_ready latch
  stop,           \* the _stop event
  bar,            \* bars completed
  feed,           \* live, silent beyond max_data_staleness, or dead for good
  \* history
  seen,           \* the newest bar a decision has started from
  ambiguous,      \* a submission has come back UNKNOWN
  overlap         \* a decision or a routed order was under way when halt began

venueVars == <<pos, resting, wire>>
haltVars == <<halted, reason, halter, hpc, sizing, overlap>>
engineVars == <<believed, moved, book, target, marker, orders, ambiguous>>
feedVars == <<barReady, stop, bar, feed, seen>>
vars == <<venueVars, haltVars, engineVars, feedVars, pc>>

Streams == {"trades", "book"}
Tasks == Streams \cup {"decisions", "watchdog"}
\* The awaits of on_bar_close, all of them inside the decision timeout.
Deciding == {"equity", "reconcile", "compute", "measure", "submit"}
HaltSteps == {"cancel", "measure", "flatten"}

Magnitude(n) == IF n < 0 THEN -n ELSE n

Init ==
  /\ pos \in Held /\ resting = {} /\ wire = 0
  /\ halted = FALSE /\ reason = "none" /\ halter = "none" /\ hpc = "no" /\ sizing = 0
  /\ believed = 0 /\ moved = FALSE /\ book = "none" /\ target = 0
  /\ marker = FALSE /\ orders = 0 /\ ambiguous = FALSE /\ overlap = FALSE
  /\ pc = [t \in Tasks \cup {"run"} |->
             IF t \in Streams THEN "reading" ELSE IF t = "decisions" THEN "wait"
             ELSE IF t = "watchdog" THEN "sleep" ELSE "waiting"]
  /\ barReady = FALSE /\ stop = FALSE /\ bar = 0 /\ feed = "live" /\ seen = 0

--------------------------------------------------------------------------------
(* halt and flatten *)

\* Where a task is once halt has returned to it: the loops see halted and end.
After(t) == IF t = "run" THEN "closed" ELSE "done"

\* Task t calls halt: the first caller runs the body, a later one returns.
Halt(t, at, why) ==
  IF halted
  THEN pc' = [pc EXCEPT ![t] = After(t)] /\ UNCHANGED haltVars
  ELSE /\ halted' = TRUE /\ reason' = why /\ halter' = t /\ hpc' = "cancel"
       /\ overlap' = (wire # 0 \/ (t # "decisions" /\ pc["decisions"] \in Deciding))
       /\ pc' = [pc EXCEPT ![t] = at]
       /\ UNCHANGED sizing

HaltReturns ==
  /\ hpc' = "done"
  /\ pc' = [pc EXCEPT ![halter] = After(halter)]
  /\ UNCHANGED <<halted, reason, halter, overlap>>

\* Mutant of HaltCancels: flatten first, the resting orders are left to later.
HaltCancelsNothing ==
  /\ hpc = "cancel"
  /\ hpc' = "measure"
  /\ UNCHANGED <<pos, resting, wire, halted, reason, halter, sizing, overlap,
                 engineVars, feedVars, pc>>

\* cancel_all returns; an order still on the wire is not among those it saw.
HaltCancels ==
  /\ hpc = "cancel"
  /\ resting' \in IF "cancel" \in Faults THEN SUBSET resting ELSE {{}}
  /\ hpc' = "measure"
  /\ UNCHANGED <<pos, wire, halted, reason, halter, sizing, overlap,
                 engineVars, feedVars, pc>>

\* flatten reads the position back and stops if flat, without a book, or when
\* the read raises.
HaltMeasures ==
  /\ hpc = "measure"
  /\ \/ /\ pos = 0 \/ book = "none" \/ "position" \in Faults
        /\ HaltReturns
        /\ UNCHANGED sizing
     \/ /\ pos # 0 /\ book # "none"
        /\ sizing' = pos
        /\ hpc' = "flatten"
        /\ UNCHANGED <<halted, reason, halter, overlap, pc>>
  /\ UNCHANGED <<venueVars, engineVars, feedVars>>

\* The market order of flatten against the position it meets.
Flattened ==
  IF ~ReduceOnly THEN pos - sizing
  ELSE IF sizing > 0 /\ pos > 0 THEN (IF pos > sizing THEN pos - sizing ELSE 0)
  ELSE IF sizing < 0 /\ pos < 0 THEN (IF pos < sizing THEN pos - sizing ELSE 0)
  ELSE pos

HaltFlattens ==
  /\ hpc = "flatten"
  /\ pos' \in {Flattened} \cup (IF "flatten" \in Faults THEN {pos} ELSE {})
  /\ HaltReturns
  /\ UNCHANGED <<resting, wire, sizing, engineVars, feedVars>>

HaltStep == HaltCancels \/ HaltMeasures \/ HaltFlattens

\* The task inside halt is cancelled: the body ends where it is suspended, with
\* whatever part of the awaited call has reached the venue.
AbortHalt ==
  /\ hpc' = "aborted"
  /\ resting' \in IF hpc = "cancel" THEN SUBSET resting ELSE {resting}
  /\ pos' \in IF hpc = "flatten" THEN {pos, Flattened} ELSE {pos}
  /\ UNCHANGED <<wire, halted, reason, halter, sizing, overlap>>

--------------------------------------------------------------------------------
(* The decision task *)

Goto(at) == pc' = [pc EXCEPT !["decisions"] = at]

\* The latch is cleared before the decision runs, and on_bar_close takes its only
\* look at halted and its frame, which may be too short to decide on.
DecisionWakes ==
  /\ pc["decisions"] = "wait" /\ barReady
  /\ \/ halted /\ Goto("done")
     \/ ~halted /\ \E at \in {"equity", "wait"} : Goto(at)
  /\ barReady' = FALSE
  /\ seen' = bar
  /\ UNCHANGED <<venueVars, haltVars, engineVars, stop, bar, feed>>

\* The one-second timeout on the latch lets the loop see halted and stop.
DecisionPolls ==
  /\ pc["decisions"] = "wait" /\ (halted \/ stop)
  /\ Goto("done")
  /\ UNCHANGED <<venueVars, haltVars, engineVars, feedVars>>

\* Equity is read; a tripped risk limit halts, a due reconciliation needs a mark.
DecisionReadsEquity ==
  /\ pc["decisions"] = "equity"
  /\ \/ Halt("decisions", "haltingTimed", "risk")
     \/ Goto("reconcile") /\ book # "none" /\ UNCHANGED haltVars
     \/ Goto("compute") /\ UNCHANGED haltVars
  /\ UNCHANGED <<venueVars, engineVars, feedVars>>

\* believed is a weight: converted back at a mark that has moved it no longer
\* gives the quantity it was measured from.
Drifted == pos # believed \/ (moved /\ believed # 0)

DecisionReconciles ==
  /\ pc["decisions"] = "reconcile"
  /\ \/ Drifted /\ Halt("decisions", "haltingTimed", "drift")
     \/ ~Drifted /\ Goto("compute") /\ UNCHANGED haltVars
  /\ UNCHANGED <<venueVars, engineVars, feedVars>>

\* The worker thread returns; without a fresh book the route stands down.
DecisionComputes ==
  /\ pc["decisions"] = "compute"
  /\ target' \in Targets
  /\ Goto(IF book = "fresh" THEN "measure" ELSE "wait")
  /\ UNCHANGED <<venueVars, haltVars, believed, moved, book, marker, orders, ambiguous, feedVars>>

\* The position is read, the router refuses or a ticket for the whole difference
\* goes out and the in-flight marker is set.
DecisionMeasures ==
  /\ pc["decisions"] = "measure"
  /\ believed' = pos /\ moved' = FALSE
  /\ \/ /\ Goto("wait")
        /\ UNCHANGED <<wire, marker, orders>>
     \/ /\ target # pos /\ ~marker /\ orders < MaxOrders
        /\ wire' = target - pos
        /\ marker' = TRUE
        /\ orders' = orders + 1
        /\ Goto("submit")
  /\ UNCHANGED <<pos, resting, haltVars, book, target, ambiguous, feedVars>>

\* Mutant of DecisionAnswered: an UNKNOWN outcome is logged like a rejection.
DecisionAnsweredLightly ==
  /\ pc["decisions"] = "submit"
  /\ marker' = FALSE
  /\ Goto("wait")
  /\ ambiguous' \in {ambiguous, TRUE}
  /\ UNCHANGED <<venueVars, haltVars, believed, moved, book, target, orders, feedVars>>

\* submit returns: a definite status once the venue has dealt with the order, or
\* UNKNOWN at any time, which halts from inside the decision.
DecisionAnswered ==
  /\ pc["decisions"] = "submit"
  /\ marker' = FALSE
  /\ \/ wire = 0 /\ Goto("wait") /\ UNCHANGED <<haltVars, ambiguous>>
     \/ ambiguous' = TRUE /\ Halt("decisions", "haltingTimed", "ambiguous")
  /\ UNCHANGED <<venueVars, believed, moved, book, target, orders, feedVars>>

\* A broker call or the pipeline raises, or the decision timeout cancels it: the
\* finally clause settles the marker and the loop halts the engine.
DecisionFails ==
  /\ pc["decisions"] \in Deciding
  /\ marker' = FALSE
  /\ Halt("decisions", "halting", "decision failed")
  /\ UNCHANGED <<venueVars, believed, moved, book, target, orders, ambiguous, feedVars>>

\* The decision timeout strikes while the decision is inside halt: the handler's
\* own call of halt returns at once because halted is already set.
DecisionTimesOutInHalt ==
  /\ pc["decisions"] = "haltingTimed"
  /\ AbortHalt
  /\ Goto("done")
  /\ UNCHANGED <<engineVars, feedVars>>

Decision ==
  \/ DecisionWakes \/ DecisionPolls \/ DecisionReadsEquity \/ DecisionReconciles
  \/ DecisionComputes \/ DecisionMeasures \/ DecisionAnswered \/ DecisionFails

--------------------------------------------------------------------------------
(* The streams, the watchdog and run *)

\* Mutant of BarCompletes: a pulse instead of a latch, lost on a busy decision.
BarPulses ==
  /\ pc["trades"] = "reading" /\ feed # "dead" /\ bar < MaxBars
  /\ bar' = bar + 1 /\ barReady' = (barReady \/ pc["decisions"] = "wait") /\ feed' = "live"
  /\ UNCHANGED <<venueVars, haltVars, engineVars, stop, seen, pc>>

\* A trade closes a bar; the latch is set whatever the decision task is doing.
BarCompletes ==
  /\ pc["trades"] = "reading" /\ feed # "dead" /\ bar < MaxBars
  /\ bar' = bar + 1 /\ barReady' = TRUE /\ feed' = "live"
  /\ UNCHANGED <<venueVars, haltVars, engineVars, stop, seen, pc>>

\* A new top of book, at a mark within or beyond the reconciliation tolerance.
BookUpdates ==
  /\ pc["book"] = "reading"
  /\ book' = "fresh" /\ moved' \in {moved, TRUE}
  /\ UNCHANGED <<venueVars, haltVars, believed, target, marker, orders, ambiguous, feedVars, pc>>

BookAges ==
  /\ book = "fresh" /\ book' = "stale"
  /\ UNCHANGED <<venueVars, haltVars, believed, moved, target, marker, orders, ambiguous, feedVars, pc>>

\* No bar for max_data_staleness, for now or for ever.
FeedStops ==
  /\ feed' \in {"silent", "dead"} \ {feed} /\ feed # "dead"
  /\ UNCHANGED <<venueVars, haltVars, engineVars, barReady, stop, bar, seen, pc>>

\* A payload or an error lets the stream loop see halted or stop.
StreamEnds(t) ==
  /\ pc[t] = "reading" /\ (halted \/ stop)
  /\ pc' = [pc EXCEPT ![t] = "done"]
  /\ UNCHANGED <<venueVars, haltVars, engineVars, feedVars>>

StreamGivesUp(t) ==
  /\ GivesUp /\ pc[t] = "reading"
  /\ Halt(t, "halting", "stream")
  /\ UNCHANGED <<venueVars, engineVars, feedVars>>

Stale == feed # "live" /\ bar > 0

\* Mutant of WatchdogWakes: the check runs when a bar arrives, not on a timer.
WatchdogWakesOnData ==
  /\ pc["watchdog"] = "sleep" /\ (barReady \/ halted \/ stop)
  /\ IF Stale THEN Halt("watchdog", "halting", "stale")
     ELSE /\ pc' = [pc EXCEPT !["watchdog"] = IF halted \/ stop THEN "done" ELSE "sleep"]
          /\ UNCHANGED haltVars
  /\ UNCHANGED <<venueVars, engineVars, feedVars>>

\* The timer fires: a stale feed halts, and the loop condition is evaluated.
WatchdogWakes ==
  /\ pc["watchdog"] = "sleep" /\ (Stale \/ halted \/ stop)
  /\ IF Stale THEN Halt("watchdog", "halting", "stale")
     ELSE pc' = [pc EXCEPT !["watchdog"] = "done"] /\ UNCHANGED haltVars
  /\ UNCHANGED <<venueVars, engineVars, feedVars>>

RequestStop ==
  /\ ~stop /\ stop' = TRUE
  /\ UNCHANGED <<venueVars, haltVars, engineVars, barReady, bar, feed, seen, pc>>

\* _shutdown: every task still running is cancelled, the one inside halt too;
\* then run itself halts the engine unless halted is already set.
Teardown ==
  /\ pc' = [t \in Tasks \cup {"run"} |->
              IF t = "run" THEN (IF halted THEN "closed" ELSE "halting")
              ELSE IF pc[t] = "done" THEN "done" ELSE "cancelled"]
  /\ marker' = FALSE
  /\ IF ~halted
     THEN /\ halted' = TRUE /\ reason' = "shutdown" /\ halter' = "run" /\ hpc' = "cancel"
          /\ overlap' = (wire # 0)
          /\ UNCHANGED <<venueVars, sizing>>
     ELSE IF hpc \in HaltSteps THEN AbortHalt
     ELSE UNCHANGED <<venueVars, haltVars>>
  /\ UNCHANGED <<believed, moved, book, target, orders, ambiguous, feedVars>>

\* Mutant of RunWakes: run waits for all its tasks instead of the first.
RunWakesLast ==
  /\ pc["run"] = "waiting"
  /\ \A t \in Tasks : pc[t] = "done"
  /\ Teardown

\* asyncio.wait returns with the first task that has ended.
RunWakes ==
  /\ pc["run"] = "waiting"
  /\ \E t \in Tasks : pc[t] = "done"
  /\ Teardown

\* The task of run is cancelled from outside; its finally clause still runs.
RunCancelled ==
  /\ pc["run"] = "waiting"
  /\ Teardown

--------------------------------------------------------------------------------
(* The venue *)

VenueBooks ==
  /\ wire # 0
  /\ resting' = resting \cup {[id |-> orders, lots |-> wire]}
  /\ wire' = 0
  /\ UNCHANGED <<pos, haltVars, engineVars, feedVars, pc>>

VenueRefuses ==
  /\ wire # 0
  /\ wire' = 0
  /\ UNCHANGED <<pos, resting, haltVars, engineVars, feedVars, pc>>

Fill(o) ==
  /\ o \in resting
  /\ pos' = pos + o.lots
  /\ resting' = resting \ {o}
  /\ UNCHANGED <<wire, haltVars, engineVars, feedVars, pc>>

Venue == VenueBooks \/ VenueRefuses \/ \E o \in resting : Fill(o)

Environment ==
  \/ BarCompletes \/ BookUpdates \/ BookAges \/ FeedStops \/ RequestStop \/ RunCancelled
  \/ \E t \in Streams : StreamEnds(t) \/ StreamGivesUp(t)
  \/ DecisionTimesOutInHalt

Next == Decision \/ WatchdogWakes \/ HaltStep \/ RunWakes \/ Venue \/ Environment

\* Broker calls made by a decision end, by an answer or by the decision timeout;
\* those made by halt end by the client's request timeout; the loops' timers
\* fire.  Nothing is asked of the streams, the venue or the operator.
Fairness ==
  /\ WF_vars(Decision) /\ WF_vars(WatchdogWakes) /\ WF_vars(HaltStep) /\ WF_vars(RunWakes)

Spec == Init /\ [][Next]_vars /\ Fairness

--------------------------------------------------------------------------------

Lots == Int
OrderRecords == [id : 1..MaxOrders, lots : Lots]
PcValues == {"reading", "wait", "sleep", "waiting", "halting", "haltingTimed", "done",
             "cancelled", "closed"} \cup Deciding

HaltTypes ==
  /\ halted \in BOOLEAN /\ halted = (reason # "none")
  /\ reason \in {"none", "risk", "drift", "ambiguous", "decision failed", "stream", "stale",
                 "shutdown"}
  /\ halter \in Tasks \cup {"run", "none"}
  /\ hpc \in HaltSteps \cup {"no", "done", "aborted"}
  /\ sizing \in Lots /\ overlap \in BOOLEAN

EngineTypes ==
  /\ pos \in Lots /\ resting \subseteq OrderRecords /\ wire \in Lots
  /\ believed \in Lots /\ target \in Lots /\ orders \in 0..MaxOrders
  /\ moved \in BOOLEAN /\ marker \in BOOLEAN /\ ambiguous \in BOOLEAN
  /\ book \in {"none", "fresh", "stale"}

FeedTypes ==
  /\ barReady \in BOOLEAN /\ stop \in BOOLEAN
  /\ bar \in 0..MaxBars /\ seen \in 0..MaxBars
  /\ feed \in {"live", "silent", "dead"}

\* The ranges of every variable; an engine is halted for a reason.
TypeOK ==
  HaltTypes /\ EngineTypes /\ FeedTypes /\ pc \in [Tasks \cup {"run"} -> PcValues]

\* The in-flight marker is set exactly while a submission is being awaited:
\* leaked on an exception, a timeout or a cancellation it would block the symbol
\* for good, cleared early it would admit a second ticket.
MarkerMeansSubmitting == marker = (pc["decisions"] = "submit")

\* "Do not send anything else until the venue has been asked what actually
\* happened": after an UNKNOWN outcome no further order is routed.
NothingAfterUnknown == [][ambiguous => orders' = orders]_vars

\* A halt is final and its body runs at most once, whichever tasks race to it.
HaltIsFinal ==
  [][halted => /\ halted' /\ halter' = halter /\ reason' = reason
               /\ hpc \in {"done", "aborted"} => hpc' = hpc]_vars

\* A halt that no decision overlapped and that ran to its end leaves no resting
\* order, and no position of an engine that has traded, with a venue that never
\* fails: the orders are cancelled before the position is read.
CleanHaltLeavesNothing ==
  (hpc = "done" /\ ~overlap /\ Faults = {}) => (resting = {} /\ (orders > 0 => pos = 0))

\* The driver never closes over an engine that could still trade: on every exit
\* path halt has been called and has finished or been cut short.
ClosedMeansHalted ==
  pc["run"] = "closed" => /\ halted /\ hpc \in {"done", "aborted"}
                          /\ \A t \in Tasks : pc[t] \in {"done", "cancelled"}

\* Every halt, whoever raises it, brings the driver down, even while the market
\* data streams stay silent.
HaltStopsDriver == halted ~> pc["run"] = "closed"

\* The latch may merge bars but loses none: the newest bar is decided on unless
\* the engine stops first.
NewestBarDecided == (bar > seen) ~> (bar = seen \/ halted \/ stop \/ pc["run"] # "waiting")

\* A feed that dies for good is noticed although nothing arrives any more.
DeadFeedHalts == (feed = "dead" /\ bar > 0) ~> (halted \/ stop)

--------------------------------------------------------------------------------
(* Statements of the documentation that the code does not keep *)

\* VIOLATED: "On any exit path the engine is halted (which cancels resting orders and
\* flattens) before the socket is closed": with a venue that never fails and no
\* decision or order under way, nothing is left once the driver has closed.
ClosedMeansFlat ==
  (pc["run"] = "closed" /\ Faults = {} /\ ~overlap) => (pos = 0 /\ resting = {})

\* VIOLATED: "One order per symbol; a signal cannot become a double position."
NoDoublePosition ==
  \A n \in Targets : (\A m \in Targets : Magnitude(m) <= Magnitude(n)) =>
    Magnitude(pos) <= Magnitude(n)

\* VIOLATED: A drift halt means that the venue's position is not the one last read there.
DriftMeansMoved == [][(~halted /\ reason' = "drift") => pos # believed]_vars

================================================================================
