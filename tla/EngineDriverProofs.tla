--------------------------- MODULE EngineDriverProofs ---------------------------
(***************************************************************************)
(* Theorems about EngineDriver for every set of targets and held           *)
(* positions, every bound, every failing halt step and either kind of      *)
(* venue.                                                                  *)
(***************************************************************************)
EXTENDS EngineDriver, TLAPS

Halting == {"halting", "haltingTimed"}
Over == {"done", "cancelled"}

\* An order on the wire has been counted.
WireIsCounted == wire # 0 => orders > 0

\* Where each task can be.
PlacesOfTasks ==
  /\ pc["run"] \in {"waiting", "halting", "closed"}
  /\ \A t \in Streams : pc[t] \in {"reading", "halting"} \cup Over
  /\ pc["watchdog"] \in {"sleep", "halting"} \cup Over
  /\ pc["decisions"] \in {"wait"} \cup Deciding \cup Halting \cup Over

\* One task at most is inside halt, exactly while its body is unfinished; run is
\* past its wait only when every task is over.
OneHalter ==
  /\ halted = (hpc # "no")
  /\ halted => halter \in Tasks \cup {"run"}
  /\ \A t \in Tasks \cup {"run"} : pc[t] \in Halting => hpc \in HaltSteps /\ halter = t
  /\ hpc \in HaltSteps => pc[halter] \in Halting
  /\ pc["run"] # "waiting" => halted /\ \A t \in Tasks : pc[t] \in Over
  /\ pc["run"] = "closed" => hpc \in {"done", "aborted"}

\* A decision never goes on after an UNKNOWN outcome.
UnknownEndsDecisions == ambiguous => pc["decisions"] \in Halting \cup Over

ControlInv ==
  TypeOK /\ WireIsCounted /\ PlacesOfTasks /\ OneHalter /\ MarkerMeansSubmitting
  /\ UnknownEndsDecisions

LEMMA ControlInit == Init => ControlInv
<1> SUFFICES ASSUME Init
             PROVE  ControlInv
  OBVIOUS
<1>1. /\ pc["run"] = "waiting" /\ pc["decisions"] = "wait" /\ pc["watchdog"] = "sleep"
      /\ \A t \in Streams : pc[t] = "reading"
      /\ pc \in [Tasks \cup {"run"} -> PcValues]
  BY DEF Init, Tasks, Streams, PcValues
<1>2. /\ pos \in Lots /\ resting \subseteq OrderRecords /\ wire \in Lots /\ sizing \in Lots
      /\ believed \in Lots /\ target \in Lots /\ orders \in 0..MaxOrders
      /\ bar \in 0..MaxBars /\ seen \in 0..MaxBars
  BY DriverAssumption DEF Init, Lots
<1>3. /\ halted = FALSE /\ reason = "none" /\ halter = "none" /\ hpc = "no" /\ book = "none"
      /\ feed = "live" /\ overlap = FALSE /\ moved = FALSE /\ marker = FALSE
      /\ ambiguous = FALSE /\ barReady = FALSE /\ stop = FALSE
  BY DEF Init
<1>4. TypeOK
  BY <1>1, <1>2, <1>3 DEF TypeOK, HaltTypes, EngineTypes, FeedTypes
<1>5. WireIsCounted
  BY DEF Init, WireIsCounted
<1>6. PlacesOfTasks /\ MarkerMeansSubmitting /\ UnknownEndsDecisions
  BY <1>1, <1>3 DEF PlacesOfTasks, MarkerMeansSubmitting, UnknownEndsDecisions
<1>7. OneHalter
  BY <1>1, <1>3 DEF OneHalter, Halting, HaltSteps, Tasks, Streams
<1>8. QED
  BY <1>4, <1>5, <1>6, <1>7 DEF ControlInv

\* A task calling halt keeps the control invariant.
LEMMA HaltKeeps ==
  ASSUME ControlInv, NEW t \in Tasks, NEW at \in Halting, NEW why,
         pc[t] \notin Halting \cup Over,
         t # "decisions" => at = "halting",
         t = "decisions" => marker' = FALSE /\ pc["decisions"] \in Deciding,
         why \in {"risk", "drift", "ambiguous", "decision failed", "stream", "stale"},
         Halt(t, at, why),
         UNCHANGED <<pos, resting, wire, barReady, stop, bar, feed, seen,
                     believed, moved, book, target, orders>>,
         t # "decisions" => UNCHANGED <<marker, ambiguous>>,
         ambiguous' \in BOOLEAN
  PROVE  ControlInv'
<1> USE DEF Tasks, Streams, Halting, Over, HaltSteps
<1>1. /\ pc["run"] = "waiting"
      /\ hpc \notin HaltSteps \/ halted
  BY DEF ControlInv, TypeOK, HaltTypes, OneHalter
<1>2. PICK v \in Halting \cup Over : pc' = [pc EXCEPT ![t] = v]
                                  /\ (halted => v = "done") /\ (~halted => v = at)
  BY DEF Halt, After
<1>3. /\ pc'[t] = v
      /\ \A u \in Tasks \cup {"run"} : u # t => pc'[u] = pc[u]
  BY <1>2 DEF ControlInv, TypeOK
<1>4. TypeOK'
  <2>1. pc' \in [Tasks \cup {"run"} -> PcValues]
    BY <1>2 DEF ControlInv, TypeOK, PcValues
  <2>2. HaltTypes'
    BY DEF ControlInv, TypeOK, HaltTypes, OneHalter, Halt, haltVars
  <2>3. EngineTypes'
    BY DEF ControlInv, TypeOK, EngineTypes
  <2>4. FeedTypes'
    BY DEF ControlInv, TypeOK, FeedTypes
  <2>5. QED
    BY <2>1, <2>2, <2>3, <2>4 DEF TypeOK
<1>5. WireIsCounted'
  BY DEF ControlInv, WireIsCounted
<1>10. UnknownEndsDecisions'
  <2>1. CASE t = "decisions"
    BY <1>3, <2>1 DEF UnknownEndsDecisions
  <2>2. CASE t # "decisions"
    BY <1>3, <2>2 DEF ControlInv, UnknownEndsDecisions
  <2>3. QED
    BY <2>1, <2>2
<1>6. PlacesOfTasks'
  BY <1>2, <1>3 DEF ControlInv, PlacesOfTasks
<1>7. MarkerMeansSubmitting'
  BY <1>2, <1>3 DEF ControlInv, MarkerMeansSubmitting, Deciding
<1>8. OneHalter'
  <2>1. CASE halted
    BY <1>1, <1>2, <1>3, <2>1 DEF ControlInv, TypeOK, HaltTypes, OneHalter, Halt, haltVars
  <2>2. CASE ~halted
    BY <1>1, <1>2, <1>3, <2>2 DEF ControlInv, TypeOK, HaltTypes, OneHalter, Halt
  <2>3. QED
    BY <2>1, <2>2
<1>9. QED
  BY <1>4, <1>5, <1>6, <1>7, <1>8, <1>10 DEF ControlInv

\* A step that moves no task and leaves halt alone keeps the control invariant.
LEMMA QuietKeeps ==
  ASSUME ControlInv, EngineTypes', FeedTypes', WireIsCounted',
         pc' = pc, UNCHANGED haltVars, marker' = marker, ambiguous' = ambiguous
  PROVE  ControlInv'
<1>1. TypeOK'
  BY DEF ControlInv, TypeOK, HaltTypes, haltVars
<1>2. PlacesOfTasks' /\ MarkerMeansSubmitting' /\ UnknownEndsDecisions'
  BY DEF ControlInv, PlacesOfTasks, MarkerMeansSubmitting, UnknownEndsDecisions
<1>3. OneHalter'
  BY DEF ControlInv, OneHalter, haltVars
<1>4. QED
  BY <1>1, <1>2, <1>3 DEF ControlInv

\* A step that moves the decision task outside halt keeps it.
LEMMA MoveKeeps ==
  ASSUME ControlInv, EngineTypes', FeedTypes', WireIsCounted',
         pc["decisions"] \in {"wait"} \cup Deciding,
         NEW at \in {"wait", "done"} \cup Deciding, Goto(at), UNCHANGED haltVars,
         marker' = (at = "submit"), ambiguous' = ambiguous
  PROVE  ControlInv'
<1> USE DEF Tasks, Streams, Halting, Over, HaltSteps, Deciding
<1>1. /\ pc' \in [Tasks \cup {"run"} -> PcValues]
      /\ pc'["decisions"] = at
      /\ \A u \in Tasks \cup {"run"} : u # "decisions" => pc'[u] = pc[u]
  BY DEF ControlInv, TypeOK, Goto, PcValues
<1>2. TypeOK'
  BY <1>1 DEF ControlInv, TypeOK, HaltTypes, haltVars
<1>3. PlacesOfTasks' /\ MarkerMeansSubmitting'
  BY <1>1 DEF ControlInv, PlacesOfTasks, MarkerMeansSubmitting
<1>4. UnknownEndsDecisions'
  BY <1>1 DEF ControlInv, UnknownEndsDecisions
<1>5. OneHalter'
  BY <1>1 DEF ControlInv, OneHalter, haltVars
<1>6. QED
  BY <1>2, <1>3, <1>4, <1>5 DEF ControlInv

LEMMA DecisionKeeps == ControlInv /\ Decision => ControlInv'
<1> SUFFICES ASSUME ControlInv, Decision
             PROVE  ControlInv'
  OBVIOUS
<1> USE DEF venueVars, engineVars, feedVars
<1>a. /\ TypeOK /\ EngineTypes /\ FeedTypes /\ WireIsCounted /\ MarkerMeansSubmitting
      /\ marker \in BOOLEAN /\ ambiguous \in BOOLEAN
  BY DEF ControlInv, TypeOK, EngineTypes
<1>1. CASE DecisionWakes
  <2>1. EngineTypes' /\ FeedTypes' /\ WireIsCounted'
    BY <1>a, <1>1 DEF DecisionWakes, EngineTypes, FeedTypes, WireIsCounted
  <2>2. QED
    BY <1>a, <1>1, <2>1, MoveKeeps DEF DecisionWakes, MarkerMeansSubmitting, Deciding
<1>2. CASE DecisionPolls
  <2>1. EngineTypes' /\ FeedTypes' /\ WireIsCounted'
    BY <1>a, <1>2 DEF DecisionPolls, EngineTypes, FeedTypes, WireIsCounted
  <2>2. QED
    BY <1>a, <1>2, <2>1, MoveKeeps DEF DecisionPolls, MarkerMeansSubmitting
<1>3. CASE DecisionReadsEquity
  <2>1. EngineTypes' /\ FeedTypes' /\ WireIsCounted' /\ marker' = FALSE
    BY <1>a, <1>3 DEF DecisionReadsEquity, EngineTypes, FeedTypes, WireIsCounted,
       MarkerMeansSubmitting
  <2>2. CASE Halt("decisions", "haltingTimed", "risk")
    BY <1>a, <1>3, <2>1, <2>2, HaltKeeps
       DEF DecisionReadsEquity, Tasks, Halting, Over, Deciding
  <2>3. CASE UNCHANGED haltVars /\ (Goto("reconcile") \/ Goto("compute"))
    BY <1>a, <1>3, <2>1, <2>3, MoveKeeps DEF DecisionReadsEquity, Deciding
  <2>4. QED
    BY <1>3, <2>2, <2>3 DEF DecisionReadsEquity
<1>4. CASE DecisionReconciles
  <2>1. EngineTypes' /\ FeedTypes' /\ WireIsCounted' /\ marker' = FALSE
    BY <1>a, <1>4 DEF DecisionReconciles, EngineTypes, FeedTypes, WireIsCounted,
       MarkerMeansSubmitting
  <2>2. CASE Halt("decisions", "haltingTimed", "drift")
    BY <1>a, <1>4, <2>1, <2>2, HaltKeeps
       DEF DecisionReconciles, Tasks, Halting, Over, Deciding
  <2>3. CASE UNCHANGED haltVars /\ Goto("compute")
    BY <1>a, <1>4, <2>1, <2>3, MoveKeeps DEF DecisionReconciles, Deciding
  <2>4. QED
    BY <1>4, <2>2, <2>3 DEF DecisionReconciles
<1>5. CASE DecisionComputes
  <2>1. EngineTypes' /\ FeedTypes' /\ WireIsCounted'
    BY <1>a, <1>5, DriverAssumption
       DEF DecisionComputes, EngineTypes, FeedTypes, WireIsCounted, Lots
  <2>2. QED
    BY <1>a, <1>5, <2>1, MoveKeeps DEF DecisionComputes, MarkerMeansSubmitting, Deciding
<1>6. CASE DecisionMeasures
  <2>0. /\ wire' \in Lots /\ orders' \in 0..MaxOrders /\ believed' \in Lots
        /\ WireIsCounted'
    BY <1>a, <1>6, DriverAssumption DEF DecisionMeasures, EngineTypes, WireIsCounted, Lots
  <2>3. marker' \in BOOLEAN /\ moved' \in BOOLEAN
    BY <1>a, <1>6 DEF DecisionMeasures
  <2>1. EngineTypes' /\ FeedTypes' /\ WireIsCounted'
    BY <1>a, <1>6, <2>0, <2>3 DEF DecisionMeasures, EngineTypes, FeedTypes
  <2>2. QED
    BY <1>a, <1>6, <2>1, MoveKeeps DEF DecisionMeasures, MarkerMeansSubmitting, Deciding
<1>7. CASE DecisionAnswered
  <2>0. ambiguous' \in BOOLEAN /\ marker' = FALSE
    BY <1>a, <1>7 DEF DecisionAnswered
  <2>1. EngineTypes' /\ FeedTypes' /\ WireIsCounted'
    BY <1>a, <1>7, <2>0 DEF DecisionAnswered, EngineTypes, FeedTypes, WireIsCounted
  <2>2. CASE Halt("decisions", "haltingTimed", "ambiguous")
    BY <1>a, <1>7, <2>0, <2>1, <2>2, HaltKeeps
       DEF DecisionAnswered, Tasks, Halting, Over, Deciding
  <2>3. CASE UNCHANGED <<haltVars, ambiguous>> /\ Goto("wait")
    BY <1>a, <1>7, <2>0, <2>1, <2>3, MoveKeeps DEF DecisionAnswered, Deciding
  <2>4. QED
    BY <1>7, <2>2, <2>3 DEF DecisionAnswered
<1>8. CASE DecisionFails
  BY <1>a, <1>8, HaltKeeps DEF DecisionFails, Tasks, Halting, Over, Deciding
<1>9. QED
  BY <1>1, <1>2, <1>3, <1>4, <1>5, <1>6, <1>7, <1>8 DEF Decision

LEMMA FlattenedIsLots ==
  ASSUME pos \in Int, sizing \in Int
  PROVE  Flattened \in Int
BY DEF Flattened

\* The body of halt, until it returns to the task that called it.
LEMMA HaltStepKeeps == ControlInv /\ HaltStep => ControlInv'
<1> SUFFICES ASSUME ControlInv, HaltStep
             PROVE  ControlInv'
  OBVIOUS
<1> USE DEF venueVars, engineVars, feedVars
<1>1. ASSUME HaltReturns, EngineTypes', FeedTypes', WireIsCounted', hpc \in HaltSteps,
             sizing' = sizing, UNCHANGED <<marker, ambiguous>>
      PROVE  ControlInv'
  <2> USE DEF Tasks, Streams, Halting, Over, HaltSteps
  <2>1. /\ halted /\ halter \in Tasks \cup {"run"} /\ pc[halter] \in Halting
        /\ pc["run"] # "closed"
    BY <1>1 DEF ControlInv, TypeOK, HaltTypes, OneHalter
  <2>2. PICK v \in {"done", "closed"} : /\ pc' = [pc EXCEPT ![halter] = v]
                                        /\ v = "closed" <=> halter = "run"
    BY <1>1 DEF HaltReturns, After
  <2>3. /\ pc'[halter] = v
        /\ \A u \in Tasks \cup {"run"} : u # halter => pc'[u] = pc[u]
        /\ pc' \in [Tasks \cup {"run"} -> PcValues]
    BY <2>1, <2>2 DEF ControlInv, TypeOK, PcValues
  <2>4. TypeOK'
    BY <1>1, <2>3 DEF ControlInv, TypeOK, HaltTypes, HaltReturns
  <2>5. PlacesOfTasks'
    BY <2>1, <2>2, <2>3 DEF ControlInv, PlacesOfTasks
  <2>6. UnknownEndsDecisions'
    BY <1>1, <2>1, <2>2, <2>3 DEF ControlInv, UnknownEndsDecisions
  <2>7. MarkerMeansSubmitting'
    BY <1>1, <2>1, <2>2, <2>3 DEF ControlInv, MarkerMeansSubmitting
  <2>8. OneHalter'
    BY <1>1, <2>1, <2>2, <2>3 DEF ControlInv, TypeOK, HaltTypes, OneHalter, HaltReturns
  <2>9. QED
    BY <1>1, <2>4, <2>5, <2>6, <2>7, <2>8 DEF ControlInv
<1>2. ASSUME hpc \in HaltSteps, hpc' \in HaltSteps, EngineTypes', FeedTypes', WireIsCounted',
             sizing' \in Lots, UNCHANGED <<halted, reason, halter, overlap, pc, marker, ambiguous>>
      PROVE  ControlInv'
  <2>1. TypeOK'
    BY <1>2 DEF ControlInv, TypeOK, HaltTypes
  <2>2. PlacesOfTasks' /\ MarkerMeansSubmitting' /\ UnknownEndsDecisions'
    BY <1>2 DEF ControlInv, PlacesOfTasks, MarkerMeansSubmitting, UnknownEndsDecisions
  <2>3. OneHalter'
    BY <1>2 DEF ControlInv, OneHalter, HaltSteps, Tasks, Streams
  <2>4. QED
    BY <1>2, <2>1, <2>2, <2>3 DEF ControlInv
<1>3. CASE HaltCancels
  <2>1. resting' \subseteq resting
    BY <1>3 DEF HaltCancels
  <2>2. EngineTypes' /\ FeedTypes' /\ WireIsCounted' /\ sizing' \in Lots
    BY <1>3, <2>1
       DEF HaltCancels, ControlInv, TypeOK, HaltTypes, EngineTypes, FeedTypes, WireIsCounted
  <2>3. QED
    BY <1>2, <1>3, <2>2 DEF HaltCancels, HaltSteps
<1>4. CASE HaltMeasures
  <2>1. EngineTypes' /\ FeedTypes' /\ WireIsCounted' /\ pos \in Lots /\ sizing \in Lots
    BY <1>4 DEF HaltMeasures, ControlInv, TypeOK, HaltTypes, EngineTypes, FeedTypes,
                WireIsCounted
  <2>2. CASE HaltReturns /\ sizing' = sizing
    BY <1>1, <1>4, <2>1, <2>2 DEF HaltMeasures, HaltSteps
  <2>3. CASE sizing' = pos /\ hpc' = "flatten" /\ UNCHANGED <<halted, reason, halter, overlap, pc>>
    BY <1>2, <1>4, <2>1, <2>3 DEF HaltMeasures, HaltSteps
  <2>4. QED
    BY <1>4, <2>2, <2>3 DEF HaltMeasures
<1>5. CASE HaltFlattens
  <2>0. pos \in Int /\ sizing \in Int
    BY DEF ControlInv, TypeOK, HaltTypes, EngineTypes, Lots
  <2>1. pos' \in Lots
    BY <1>5, <2>0, FlattenedIsLots DEF HaltFlattens, Lots
  <2>2. EngineTypes' /\ FeedTypes' /\ WireIsCounted'
    BY <1>5, <2>1 DEF HaltFlattens, ControlInv, TypeOK, EngineTypes, FeedTypes, WireIsCounted
  <2>3. QED
    BY <1>1, <1>5, <2>2 DEF HaltFlattens, HaltSteps
<1>6. QED
  BY <1>3, <1>4, <1>5 DEF HaltStep

\* What the end of run does to its tasks and to an unfinished halt.
LEMMA TeardownKeeps == ControlInv /\ pc["run"] = "waiting" /\ Teardown => ControlInv'
<1> SUFFICES ASSUME ControlInv, pc["run"] = "waiting", Teardown
             PROVE  ControlInv'
  OBVIOUS
<1> USE DEF Tasks, Streams, Halting, Over, HaltSteps, venueVars, feedVars
<1>1. /\ pc' \in [Tasks \cup {"run"} -> PcValues]
      /\ pc'["run"] = IF halted THEN "closed" ELSE "halting"
      /\ \A t \in Tasks : pc'[t] \in Over
  BY DEF Teardown, PcValues
<1>2. marker' = FALSE /\ ambiguous' = ambiguous
  BY DEF Teardown
<1>0. pos \in Int /\ sizing \in Int
  BY DEF ControlInv, TypeOK, HaltTypes, EngineTypes, Lots
<1>3. /\ resting' \subseteq resting /\ pos' \in Lots /\ wire' = wire
      /\ sizing' = sizing
  BY <1>0, FlattenedIsLots DEF Teardown, AbortHalt, haltVars, Lots
<1>4. EngineTypes' /\ FeedTypes' /\ WireIsCounted'
  BY <1>2, <1>3 DEF Teardown, ControlInv, TypeOK, EngineTypes, FeedTypes, WireIsCounted
<1>5. CASE halted
  <2>1. /\ halted' = halted /\ reason' = reason /\ halter' = halter /\ overlap' = overlap
        /\ hpc' \in {"done", "aborted"}
    BY <1>5 DEF Teardown, AbortHalt, haltVars, ControlInv, TypeOK, HaltTypes, OneHalter
  <2>2. TypeOK'
    BY <1>1, <1>3, <1>4, <2>1 DEF ControlInv, TypeOK, HaltTypes
  <2>3. OneHalter'
    BY <1>1, <1>5, <2>1 DEF ControlInv, TypeOK, HaltTypes, OneHalter
  <2>4. PlacesOfTasks' /\ MarkerMeansSubmitting' /\ UnknownEndsDecisions'
    BY <1>1, <1>2, <1>5 DEF PlacesOfTasks, MarkerMeansSubmitting, UnknownEndsDecisions
  <2>5. QED
    BY <1>4, <2>2, <2>3, <2>4 DEF ControlInv
<1>6. CASE ~halted
  <2>1. halted' = TRUE /\ reason' = "shutdown" /\ halter' = "run" /\ hpc' = "cancel"
    BY <1>6 DEF Teardown
  <2>2. overlap' \in BOOLEAN
    BY <1>6 DEF Teardown
  <2>3. TypeOK'
    BY <1>1, <1>3, <1>4, <2>1, <2>2 DEF ControlInv, TypeOK, HaltTypes
  <2>4. OneHalter'
    BY <1>1, <1>6, <2>1 DEF OneHalter
  <2>5. PlacesOfTasks' /\ MarkerMeansSubmitting' /\ UnknownEndsDecisions'
    BY <1>1, <1>2, <1>6 DEF PlacesOfTasks, MarkerMeansSubmitting, UnknownEndsDecisions
  <2>6. QED
    BY <1>4, <2>3, <2>4, <2>5 DEF ControlInv
<1>7. QED
  BY <1>5, <1>6

LEMMA EnvironmentKeeps == ControlInv /\ (Environment \/ Venue) => ControlInv'
<1> SUFFICES ASSUME ControlInv, Environment \/ Venue
             PROVE  ControlInv'
  OBVIOUS
<1> USE DEF venueVars, engineVars, feedVars
<1>a. /\ TypeOK /\ EngineTypes /\ FeedTypes /\ WireIsCounted
  BY DEF ControlInv, TypeOK
<1>1. CASE BarCompletes
  <2>1. EngineTypes' /\ FeedTypes' /\ WireIsCounted'
    BY <1>a, <1>1, DriverAssumption DEF BarCompletes, EngineTypes, FeedTypes, WireIsCounted
  <2>2. QED
    BY <1>1, <2>1, QuietKeeps DEF BarCompletes
<1>2. CASE BookUpdates
  <2>1. EngineTypes' /\ FeedTypes' /\ WireIsCounted'
    BY <1>a, <1>2 DEF BookUpdates, EngineTypes, FeedTypes, WireIsCounted
  <2>2. QED
    BY <1>2, <2>1, QuietKeeps DEF BookUpdates
<1>3. CASE BookAges
  <2>1. EngineTypes' /\ FeedTypes' /\ WireIsCounted'
    BY <1>a, <1>3 DEF BookAges, EngineTypes, FeedTypes, WireIsCounted
  <2>2. QED
    BY <1>3, <2>1, QuietKeeps DEF BookAges
<1>4. CASE FeedStops
  <2>1. EngineTypes' /\ FeedTypes' /\ WireIsCounted'
    BY <1>a, <1>4 DEF FeedStops, EngineTypes, FeedTypes, WireIsCounted
  <2>2. QED
    BY <1>4, <2>1, QuietKeeps DEF FeedStops
<1>5. CASE RequestStop
  <2>1. EngineTypes' /\ FeedTypes' /\ WireIsCounted'
    BY <1>a, <1>5 DEF RequestStop, EngineTypes, FeedTypes, WireIsCounted
  <2>2. QED
    BY <1>5, <2>1, QuietKeeps DEF RequestStop
<1>6. CASE RunCancelled
  BY <1>6, TeardownKeeps DEF RunCancelled
<1>7. ASSUME NEW t \in Streams, StreamEnds(t)
      PROVE  ControlInv'
  <2> USE DEF Tasks, Streams, Halting, Over, HaltSteps
  <2>1. /\ pc' \in [Tasks \cup {"run"} -> PcValues]
        /\ pc'[t] = "done" /\ pc[t] = "reading"
        /\ \A u \in Tasks \cup {"run"} : u # t => pc'[u] = pc[u]
    BY <1>a, <1>7 DEF StreamEnds, TypeOK, PcValues
  <2>6. EngineTypes' /\ FeedTypes' /\ WireIsCounted'
    BY <1>a, <1>7 DEF StreamEnds, EngineTypes, FeedTypes, WireIsCounted
  <2>2. TypeOK'
    BY <1>a, <1>7, <2>1, <2>6 DEF StreamEnds, TypeOK, HaltTypes, haltVars
  <2>3. PlacesOfTasks' /\ MarkerMeansSubmitting' /\ UnknownEndsDecisions'
    BY <1>7, <2>1
       DEF StreamEnds, ControlInv, PlacesOfTasks, MarkerMeansSubmitting, UnknownEndsDecisions
  <2>4. OneHalter'
    BY <1>7, <2>1 DEF StreamEnds, ControlInv, OneHalter, haltVars
  <2>5. QED
    BY <2>2, <2>3, <2>4, <2>6 DEF ControlInv
<1>8. ASSUME NEW t \in Streams, StreamGivesUp(t)
      PROVE  ControlInv'
  BY <1>a, <1>8, HaltKeeps
     DEF StreamGivesUp, Streams, Tasks, Halting, Over, TypeOK, EngineTypes
<1>9. CASE DecisionTimesOutInHalt
  <2> USE DEF Tasks, Streams, Halting, Over, HaltSteps
  <2>1. /\ halted /\ hpc \in HaltSteps /\ halter = "decisions"
        /\ pc["decisions"] = "haltingTimed" /\ pc["run"] = "waiting"
    BY <1>9 DEF DecisionTimesOutInHalt, ControlInv, TypeOK, HaltTypes, PlacesOfTasks, OneHalter
  <2>2. /\ pc' \in [Tasks \cup {"run"} -> PcValues]
        /\ pc'["decisions"] = "done"
        /\ \A u \in Tasks \cup {"run"} : u # "decisions" => pc'[u] = pc[u]
    BY <1>a, <1>9 DEF DecisionTimesOutInHalt, Goto, TypeOK, PcValues
  <2>3. pos \in Int /\ sizing \in Int
    BY <1>a DEF TypeOK, HaltTypes, EngineTypes, Lots
  <2>4. pos' \in Lots /\ resting' \subseteq resting
    BY <1>9, <2>3, FlattenedIsLots DEF DecisionTimesOutInHalt, AbortHalt, Lots
  <2>5. EngineTypes' /\ FeedTypes' /\ WireIsCounted'
    BY <1>a, <1>9, <2>4
       DEF DecisionTimesOutInHalt, AbortHalt, EngineTypes, FeedTypes, WireIsCounted
  <2>6. TypeOK'
    BY <1>a, <1>9, <2>2, <2>5 DEF DecisionTimesOutInHalt, AbortHalt, TypeOK, HaltTypes
  <2>7. PlacesOfTasks' /\ MarkerMeansSubmitting' /\ UnknownEndsDecisions'
    BY <1>9, <2>1, <2>2 DEF DecisionTimesOutInHalt, AbortHalt, ControlInv, PlacesOfTasks,
       MarkerMeansSubmitting, UnknownEndsDecisions
  <2>8. OneHalter'
    BY <1>9, <2>1, <2>2 DEF DecisionTimesOutInHalt, AbortHalt, ControlInv, OneHalter
  <2>9. QED
    BY <2>5, <2>6, <2>7, <2>8 DEF ControlInv
<1>10. CASE VenueBooks
  <2>1. orders \in 1..MaxOrders
    BY <1>a, <1>10, DriverAssumption DEF VenueBooks, EngineTypes, WireIsCounted
  <2>2. resting' \subseteq OrderRecords /\ wire' = 0
    BY <1>a, <1>10, <2>1 DEF VenueBooks, EngineTypes, OrderRecords
  <2>3. EngineTypes' /\ FeedTypes' /\ WireIsCounted'
    BY <1>a, <1>10, <2>2 DEF VenueBooks, EngineTypes, FeedTypes, WireIsCounted, Lots
  <2>4. QED
    BY <1>10, <2>3, QuietKeeps DEF VenueBooks
<1>11. CASE VenueRefuses
  <2>1. EngineTypes' /\ FeedTypes' /\ WireIsCounted'
    BY <1>a, <1>11 DEF VenueRefuses, EngineTypes, FeedTypes, WireIsCounted, Lots
  <2>2. QED
    BY <1>11, <2>1, QuietKeeps DEF VenueRefuses
<1>12. ASSUME NEW o \in resting, Fill(o)
       PROVE  ControlInv'
  <2>1. pos' \in Lots /\ resting' \subseteq resting
    BY <1>a, <1>12 DEF Fill, EngineTypes, OrderRecords, Lots
  <2>2. EngineTypes' /\ FeedTypes' /\ WireIsCounted'
    BY <1>a, <1>12, <2>1 DEF Fill, EngineTypes, FeedTypes, WireIsCounted
  <2>3. QED
    BY <1>12, <2>2, QuietKeeps DEF Fill
<1>13. QED
  BY <1>1, <1>2, <1>3, <1>4, <1>5, <1>6, <1>7, <1>8, <1>9, <1>10, <1>11, <1>12
     DEF Environment, Venue

LEMMA ControlStep == ControlInv /\ [Next]_vars => ControlInv'
<1> SUFFICES ASSUME ControlInv, [Next]_vars
             PROVE  ControlInv'
  OBVIOUS
<1>1. CASE WatchdogWakes
  <2> USE DEF venueVars, engineVars, feedVars, Tasks, Streams, Halting, Over, HaltSteps
  <2>a. /\ TypeOK /\ HaltTypes /\ EngineTypes /\ FeedTypes /\ WireIsCounted
    BY DEF ControlInv, TypeOK
  <2>1. CASE Stale
    BY <1>1, <2>1, <2>a, HaltKeeps DEF WatchdogWakes, EngineTypes
  <2>2. CASE ~Stale
    <3>1. /\ pc' \in [Tasks \cup {"run"} -> PcValues]
          /\ pc'["watchdog"] = "done" /\ pc["watchdog"] = "sleep"
          /\ \A u \in Tasks \cup {"run"} : u # "watchdog" => pc'[u] = pc[u]
      BY <1>1, <2>2, <2>a DEF WatchdogWakes, TypeOK, PcValues
    <3>6. EngineTypes' /\ FeedTypes' /\ WireIsCounted'
      BY <1>1, <2>a DEF WatchdogWakes, EngineTypes, FeedTypes, WireIsCounted
    <3>2. TypeOK'
      BY <1>1, <2>2, <2>a, <3>1, <3>6 DEF WatchdogWakes, TypeOK, HaltTypes, haltVars
    <3>3. PlacesOfTasks' /\ MarkerMeansSubmitting' /\ UnknownEndsDecisions'
      BY <1>1, <2>2, <3>1 DEF WatchdogWakes, ControlInv, PlacesOfTasks, MarkerMeansSubmitting,
         UnknownEndsDecisions
    <3>4. OneHalter'
      BY <1>1, <2>2, <3>1 DEF WatchdogWakes, ControlInv, OneHalter, haltVars
    <3>5. QED
      BY <3>2, <3>3, <3>4, <3>6 DEF ControlInv
  <2>3. QED
    BY <2>1, <2>2
<1>2. CASE RunWakes
  BY <1>2, TeardownKeeps DEF RunWakes
<1>3. CASE UNCHANGED vars
  <2>1. EngineTypes' /\ FeedTypes' /\ WireIsCounted'
    BY <1>3 DEF vars, venueVars, engineVars, feedVars, ControlInv, TypeOK, EngineTypes, FeedTypes,
       WireIsCounted
  <2>2. QED
    BY <1>3, <2>1, QuietKeeps DEF vars, engineVars
<1>4. QED
  BY <1>1, <1>2, <1>3, DecisionKeeps, HaltStepKeeps, EnvironmentKeeps DEF Next

LEMMA ControlAlways == Spec => []ControlInv
BY ControlInit, ControlStep, PTL DEF Spec

\* Every variable stays in its range in every behaviour.
THEOREM DriverTypeCorrect == Spec => []TypeOK
<1>1. ControlInv => TypeOK
  BY DEF ControlInv
<1>2. QED
  BY <1>1, ControlAlways, PTL

\* The in-flight marker of the router is set exactly while a submission is
\* awaited, through every exception, timeout and cancellation.
THEOREM MarkerNeverLeaks == Spec => []MarkerMeansSubmitting
<1>1. ControlInv => MarkerMeansSubmitting
  BY DEF ControlInv
<1>2. QED
  BY <1>1, ControlAlways, PTL

\* The driver never closes over an engine that could still trade.
THEOREM ClosedIsHalted == Spec => []ClosedMeansHalted
<1>1. ControlInv => ClosedMeansHalted
  BY DEF ControlInv, ClosedMeansHalted, OneHalter, Over
<1>2. QED
  BY <1>1, ControlAlways, PTL

--------------------------------------------------------------------------------

\* While halted, no step changes what the halt says of itself, and a body that
\* has ended does not start again.
THEOREM HaltsAreFinal == Spec => HaltIsFinal
<1> DEFINE Final == halted => /\ halted' /\ halter' = halter /\ reason' = reason
                              /\ hpc \in {"done", "aborted"} => hpc' = hpc
<1>1. ControlInv /\ [Next]_vars => Final
  <2> SUFFICES ASSUME ControlInv, [Next]_vars, halted
               PROVE  halted' /\ halter' = halter /\ reason' = reason
                      /\ (hpc \in {"done", "aborted"} => hpc' = hpc)
    OBVIOUS
  <2> USE DEF haltVars, HaltSteps
  <2>1. CASE Decision
    BY <2>1 DEF Decision, DecisionWakes, DecisionPolls, DecisionReadsEquity, DecisionReconciles,
       DecisionComputes, DecisionMeasures, DecisionAnswered, DecisionFails, Halt
  <2>2. CASE WatchdogWakes \/ RunWakes \/ RunCancelled
    BY <2>2 DEF WatchdogWakes, RunWakes, RunCancelled, Teardown, AbortHalt, Halt
  <2>3. CASE HaltStep
    BY <2>3 DEF HaltStep, HaltCancels, HaltMeasures, HaltFlattens, HaltReturns
  <2>4. CASE Venue \/ BarCompletes \/ BookUpdates \/ BookAges \/ FeedStops \/ RequestStop
             \/ \E t \in Streams : StreamEnds(t)
    BY <2>4 DEF Venue, VenueBooks, VenueRefuses, Fill, BarCompletes, BookUpdates, BookAges,
       FeedStops, RequestStop, StreamEnds
  <2>5. CASE \E t \in Streams : StreamGivesUp(t)
    BY <2>5 DEF StreamGivesUp, Halt
  <2>6. CASE DecisionTimesOutInHalt
    BY <2>6 DEF DecisionTimesOutInHalt, AbortHalt, ControlInv, OneHalter, Tasks, Halting
  <2>7. CASE UNCHANGED vars
    BY <2>7 DEF vars
  <2>8. QED
    BY <2>1, <2>2, <2>3, <2>4, <2>5, <2>6, <2>7 DEF Next, Environment
<1>2. QED
  BY <1>1, ControlAlways, PTL DEF Spec, HaltIsFinal

\* Once an order has come back UNKNOWN no further order is routed.
THEOREM UnknownIsLast == Spec => NothingAfterUnknown
<1> DEFINE Quiet == ambiguous => orders' = orders
<1> USE DEF engineVars
\* Only the decision task routes, and it is on its way out.
<1>1. ASSUME ControlInv, ambiguous, Decision
      PROVE  orders' = orders
  <2>1. pc["decisions"] \in Halting \cup Over
    BY <1>1 DEF ControlInv, UnknownEndsDecisions
  <2>2. ~DecisionMeasures
    BY <2>1 DEF DecisionMeasures, Halting, Over
  <2>3. QED
    BY <1>1, <2>2 DEF Decision, DecisionWakes, DecisionPolls, DecisionReadsEquity,
       DecisionReconciles, DecisionComputes, DecisionAnswered, DecisionFails
\* No other actor routes at all.
<1>2. WatchdogWakes \/ RunWakes \/ HaltStep \/ Venue => orders' = orders
  BY DEF WatchdogWakes, RunWakes, Teardown, HaltStep, HaltCancels, HaltMeasures,
     HaltFlattens, Venue, VenueBooks, VenueRefuses, Fill
<1>3. Environment => orders' = orders
  BY DEF Environment, BarCompletes, BookUpdates, BookAges, FeedStops, RequestStop,
     RunCancelled, Teardown, StreamEnds, StreamGivesUp, DecisionTimesOutInHalt
<1>4. ControlInv /\ [Next]_vars => Quiet
  BY <1>1, <1>2, <1>3 DEF Next, vars
<1>5. QED
  BY <1>4, ControlAlways, PTL DEF Spec, NothingAfterUnknown

--------------------------------------------------------------------------------
(* Why cancelling comes before flattening *)

\* A halt that nothing overlapped cannot be joined by an order later.
NothingJoinsHalt == (halted /\ ~overlap) => (wire = 0 /\ pc["decisions"] \notin Deciding)

\* Nothing is routed or flattened before the first book.
BookFirst ==
  book = "none" => /\ orders = 0 /\ wire = 0 /\ resting = {} /\ hpc # "flatten"
                   /\ pc["decisions"] \notin {"measure", "submit"}

\* Cancelled orders stay cancelled and the position read is the position closed.
Undisturbed == halted /\ ~overlap /\ Faults = {}
CancelledFirst ==
  Undisturbed => /\ hpc \in {"measure", "flatten", "done"} => resting = {}
                 /\ hpc = "flatten" => sizing = pos

CleanInv == NothingJoinsHalt /\ BookFirst /\ CancelledFirst /\ CleanHaltLeavesNothing

\* Steps that touch neither the venue nor the halt.
LEMMA CleanFrame ==
  ASSUME CleanInv, UNCHANGED <<pos, resting, wire, orders, halted, hpc, sizing, overlap>>,
         book' = "none" => book = "none",
         (halted /\ pc'["decisions"] \in Deciding) => pc["decisions"] \in Deciding,
         pc'["decisions"] \in {"measure", "submit"} =>
           book # "none" \/ pc["decisions"] \in {"measure", "submit"}
  PROVE  CleanInv'
BY DEF CleanInv, NothingJoinsHalt, BookFirst, CancelledFirst, Undisturbed, CleanHaltLeavesNothing

LEMMA CleanHalt ==
  ASSUME ControlInv, CleanInv, NEW t \in Tasks, NEW at \in Halting, NEW why, Halt(t, at, why),
         UNCHANGED <<pos, resting, wire, orders, book>>
  PROVE  CleanInv'
<1> USE DEF Halting, Over, Deciding
<1>1. PICK v \in Halting \cup Over : pc' = [pc EXCEPT ![t] = v]
  BY DEF Halt, After, Tasks, Streams
<1>2. /\ pc'[t] = v
      /\ t # "decisions" => pc'["decisions"] = pc["decisions"]
  BY <1>1 DEF ControlInv, TypeOK, Tasks, Streams
<1>3. CASE halted
  BY <1>2, <1>3, CleanFrame DEF Halt, haltVars
<1>4. CASE ~halted
  <2>1. halted' = TRUE /\ hpc' = "cancel"
    BY <1>4 DEF Halt
  <2>2. overlap' = (wire # 0 \/ (t # "decisions" /\ pc["decisions"] \in Deciding))
    BY <1>4 DEF Halt
  <2>3. NothingJoinsHalt'
    BY <1>2, <2>1, <2>2 DEF NothingJoinsHalt
  <2>4. BookFirst'
    BY <1>2, <2>1 DEF CleanInv, BookFirst
  <2>5. CancelledFirst' /\ CleanHaltLeavesNothing'
    BY <2>1 DEF CancelledFirst, CleanHaltLeavesNothing
  <2>6. QED
    BY <2>3, <2>4, <2>5 DEF CleanInv
<1>5. QED
  BY <1>3, <1>4

LEMMA CleanDecision == ControlInv /\ CleanInv /\ Decision => CleanInv'
<1> SUFFICES ASSUME ControlInv, CleanInv, Decision
             PROVE  CleanInv'
  OBVIOUS
<1> USE DEF venueVars, feedVars, Deciding
<1>a. \A v : Goto(v) => pc'["decisions"] = v
  BY DEF Goto, ControlInv, TypeOK, Tasks, Streams
<1>1. CASE DecisionWakes
  BY <1>a, <1>1, CleanFrame DEF DecisionWakes, haltVars, engineVars
<1>2. CASE DecisionPolls
  BY <1>a, <1>2, CleanFrame DEF DecisionPolls, haltVars, engineVars
<1>3. CASE DecisionReadsEquity
  <2>1. CASE Halt("decisions", "haltingTimed", "risk")
    BY <1>3, <2>1, CleanHalt DEF DecisionReadsEquity, engineVars, Tasks, Halting
  <2>2. CASE UNCHANGED haltVars /\ (Goto("reconcile") \/ Goto("compute"))
    BY <1>a, <1>3, <2>2, CleanFrame DEF DecisionReadsEquity, engineVars, haltVars
  <2>3. QED
    BY <1>3, <2>1, <2>2 DEF DecisionReadsEquity
<1>4. CASE DecisionReconciles
  <2>1. CASE Halt("decisions", "haltingTimed", "drift")
    BY <1>4, <2>1, CleanHalt DEF DecisionReconciles, engineVars, Tasks, Halting
  <2>2. CASE UNCHANGED haltVars /\ Goto("compute")
    BY <1>a, <1>4, <2>2, CleanFrame DEF DecisionReconciles, engineVars, haltVars
  <2>3. QED
    BY <1>4, <2>1, <2>2 DEF DecisionReconciles
<1>5. CASE DecisionComputes
  BY <1>a, <1>5, CleanFrame DEF DecisionComputes, haltVars
<1>6. CASE DecisionMeasures
  <2>1. book # "none" /\ (halted => overlap)
    BY <1>6 DEF DecisionMeasures, CleanInv, NothingJoinsHalt, BookFirst
  <2>2. /\ halted' = halted /\ overlap' = overlap /\ hpc' = hpc /\ book' = book
    BY <1>6 DEF DecisionMeasures, haltVars
  <2>3. overlap \in BOOLEAN
    BY DEF ControlInv, TypeOK, HaltTypes
  <2>4. BookFirst'
    BY <2>1, <2>2 DEF BookFirst
  <2>5. ~(halted' /\ ~overlap')
    BY <2>1, <2>2
  <2>6. CleanHaltLeavesNothing'
    <3>1. hpc' = "done" => halted'
      BY <2>2 DEF ControlInv, OneHalter
    <3>2. QED
      BY <2>5, <3>1 DEF CleanHaltLeavesNothing
  <2>7. QED
    BY <2>4, <2>5, <2>6 DEF CleanInv, NothingJoinsHalt, CancelledFirst, Undisturbed
<1>7. CASE DecisionAnswered
  <2>1. CASE Halt("decisions", "haltingTimed", "ambiguous")
    BY <1>7, <2>1, CleanHalt DEF DecisionAnswered, Tasks, Halting
  <2>2. CASE UNCHANGED haltVars /\ Goto("wait")
    BY <1>a, <1>7, <2>2, CleanFrame DEF DecisionAnswered, haltVars
  <2>3. QED
    BY <1>7, <2>1, <2>2 DEF DecisionAnswered
<1>8. CASE DecisionFails
  BY <1>8, CleanHalt DEF DecisionFails, Tasks, Halting
<1>9. QED
  BY <1>1, <1>2, <1>3, <1>4, <1>5, <1>6, <1>7, <1>8 DEF Decision

LEMMA CleanHaltStep == ControlInv /\ CleanInv /\ HaltStep => CleanInv'
<1> SUFFICES ASSUME ControlInv, CleanInv, HaltStep
             PROVE  CleanInv'
  OBVIOUS
<1> USE DEF engineVars, feedVars, venueVars
<1>a. /\ halted /\ hpc \in HaltSteps /\ halter \in Tasks \cup {"run"}
  BY DEF HaltStep, HaltCancels, HaltMeasures, HaltFlattens, HaltSteps, ControlInv, TypeOK,
         HaltTypes, OneHalter
<1>b. pos \in Int /\ sizing \in Int
  BY DEF ControlInv, TypeOK, HaltTypes, EngineTypes, Lots
<1>c. /\ halted' = halted /\ overlap' = overlap /\ wire' = wire /\ book' = book
      /\ resting' \subseteq resting /\ orders' = orders
  BY DEF HaltStep, HaltCancels, HaltMeasures, HaltFlattens, HaltReturns
<1>d. pc' = pc \/ (HaltReturns /\ pc' = [pc EXCEPT ![halter] = After(halter)])
  BY DEF HaltStep, HaltCancels, HaltMeasures, HaltFlattens, HaltReturns
<1>e. pc'["decisions"] \in {pc["decisions"], "done", "closed"}
  BY <1>a, <1>d DEF After, ControlInv, TypeOK, Tasks, Streams
<1>1. NothingJoinsHalt'
  BY <1>c, <1>e DEF CleanInv, NothingJoinsHalt, Deciding
<1>2. CASE HaltCancels
  <2>1. pos' = pos /\ hpc' = "measure" /\ (Faults = {} => resting' = {})
    BY <1>2 DEF HaltCancels
  <2>2. BookFirst'
    BY <1>c, <1>e, <2>1 DEF CleanInv, BookFirst
  <2>3. CancelledFirst' /\ CleanHaltLeavesNothing'
    BY <2>1 DEF CancelledFirst, Undisturbed, CleanHaltLeavesNothing
  <2>4. QED
    BY <1>1, <2>2, <2>3 DEF CleanInv
<1>3. CASE HaltMeasures
  <2>1. pos' = pos /\ hpc = "measure" /\ resting' = resting
    BY <1>3 DEF HaltMeasures
  <2>2. BookFirst'
    BY <1>3, <1>c, <1>e, <2>1 DEF HaltMeasures, HaltReturns, CleanInv, BookFirst
  <2>3. /\ (hpc' = "flatten" => sizing' = pos)
        /\ (hpc' = "done" /\ Faults = {}) => (pos = 0 \/ book = "none")
    BY <1>3 DEF HaltMeasures, HaltReturns
  <2>4. CancelledFirst'
    BY <1>c, <2>1, <2>3 DEF CleanInv, CancelledFirst, Undisturbed
  <2>5. CleanHaltLeavesNothing'
    BY <1>a, <1>c, <2>1, <2>3
       DEF CleanInv, CancelledFirst, Undisturbed, BookFirst, CleanHaltLeavesNothing
  <2>6. QED
    BY <1>1, <2>2, <2>4, <2>5 DEF CleanInv
<1>4. CASE HaltFlattens
  <2>1. hpc = "flatten" /\ hpc' = "done" /\ resting' = resting
        /\ (Faults = {} => pos' = Flattened)
    BY <1>4 DEF HaltFlattens, HaltReturns
  <2>2. sizing = pos => Flattened = 0
    BY <1>b DEF Flattened
  <2>3. CancelledFirst' /\ CleanHaltLeavesNothing'
    BY <1>a, <1>c, <2>1, <2>2
       DEF CleanInv, CancelledFirst, Undisturbed, CleanHaltLeavesNothing
  <2>4. BookFirst'
    BY <1>c, <2>1 DEF CleanInv, BookFirst
  <2>5. QED
    BY <1>1, <2>3, <2>4 DEF CleanInv
<1>5. QED
  BY <1>2, <1>3, <1>4 DEF HaltStep

LEMMA CleanTeardown == ControlInv /\ CleanInv /\ Teardown => CleanInv'
<1> SUFFICES ASSUME ControlInv, CleanInv, Teardown
             PROVE  CleanInv'
  OBVIOUS
<1> USE DEF venueVars
<1>1. /\ pc'["decisions"] \in Over /\ book' = book /\ orders' = orders
  BY DEF Teardown, Tasks, Streams, Over
<1>2. CASE ~halted
  <2>1. /\ hpc' = "cancel" /\ overlap' = (wire # 0)
        /\ wire' = wire /\ pos' = pos /\ resting' = resting
    BY <1>2 DEF Teardown
  <2>2. QED
    BY <1>1, <2>1 DEF CleanInv, NothingJoinsHalt, BookFirst, CancelledFirst, Undisturbed,
       CleanHaltLeavesNothing, Over, Deciding
<1>3. CASE halted /\ hpc \in HaltSteps
  <2>1. /\ hpc' = "aborted" /\ wire' = wire /\ resting' \subseteq resting
        /\ halted' = halted /\ overlap' = overlap
        /\ hpc # "flatten" => pos' = pos
    BY <1>3 DEF Teardown, AbortHalt
  <2>2. QED
    BY <1>1, <2>1 DEF CleanInv, NothingJoinsHalt, BookFirst, CancelledFirst, Undisturbed,
       CleanHaltLeavesNothing, Over, Deciding
<1>4. CASE halted /\ hpc \notin HaltSteps
  BY <1>1, <1>4, CleanFrame DEF Teardown, haltVars, Over, Deciding
<1>5. QED
  BY <1>2, <1>3, <1>4

LEMMA CleanVenue == ControlInv /\ CleanInv /\ Venue => CleanInv'
<1> SUFFICES ASSUME ControlInv, CleanInv, Venue
             PROVE  CleanInv'
  OBVIOUS
<1> USE DEF engineVars, haltVars
<1>a. /\ halted' = halted /\ overlap' = overlap /\ hpc' = hpc /\ sizing' = sizing
      /\ book' = book /\ pc' = pc
      /\ hpc = "done" => halted
  BY DEF Venue, VenueBooks, VenueRefuses, Fill, ControlInv, OneHalter
<1>1. CASE VenueBooks \/ VenueRefuses
  <2>1. wire # 0 /\ wire' = 0
    BY <1>1 DEF VenueBooks, VenueRefuses
  <2>2. book # "none" /\ (halted => overlap)
    BY <2>1 DEF CleanInv, NothingJoinsHalt, BookFirst
  <2>3. QED
    BY <1>a, <2>2 DEF CleanInv, NothingJoinsHalt, BookFirst, CancelledFirst, Undisturbed,
       CleanHaltLeavesNothing
<1>2. ASSUME NEW o \in resting, Fill(o)
      PROVE  CleanInv'
  <2>1. wire' = wire /\ resting # {} /\ book # "none"
    BY <1>2 DEF Fill, CleanInv, BookFirst
  <2>2. Undisturbed => hpc \notin {"measure", "flatten", "done"}
    BY <2>1 DEF CleanInv, CancelledFirst
  <2>3. QED
    BY <1>a, <2>1, <2>2 DEF CleanInv, NothingJoinsHalt, BookFirst, CancelledFirst, Undisturbed,
       CleanHaltLeavesNothing
<1>3. QED
  BY <1>1, <1>2 DEF Venue

LEMMA CleanStep == ControlInv /\ CleanInv /\ [Next]_vars => CleanInv'
<1> SUFFICES ASSUME ControlInv, CleanInv, [Next]_vars
             PROVE  CleanInv'
  OBVIOUS
<1> USE DEF venueVars, engineVars, feedVars
<1>1. CASE WatchdogWakes
  <2>1. CASE Stale
    BY <1>1, <2>1, CleanHalt DEF WatchdogWakes, Tasks, Halting
  <2>2. CASE ~Stale
    BY <1>1, <2>2, CleanFrame DEF WatchdogWakes, haltVars, ControlInv, TypeOK, Tasks, Streams
  <2>3. QED
    BY <2>1, <2>2
<1>2. CASE RunWakes \/ RunCancelled
  BY <1>2, CleanTeardown DEF RunWakes, RunCancelled
<1>3. CASE BarCompletes \/ BookUpdates \/ BookAges \/ FeedStops \/ RequestStop
  BY <1>3, CleanFrame DEF BarCompletes, BookUpdates, BookAges, FeedStops, RequestStop, haltVars
<1>4. ASSUME NEW t \in Streams, StreamEnds(t)
      PROVE  CleanInv'
  BY <1>4, CleanFrame DEF StreamEnds, haltVars, Streams, ControlInv, TypeOK, Tasks
<1>5. ASSUME NEW t \in Streams, StreamGivesUp(t)
      PROVE  CleanInv'
  BY <1>5, CleanHalt DEF StreamGivesUp, Tasks, Halting
<1>6. CASE DecisionTimesOutInHalt
  <2>1. /\ pc'["decisions"] = "done" /\ book' = book /\ orders' = orders /\ hpc \in HaltSteps
    BY <1>6 DEF engineVars, DecisionTimesOutInHalt, Goto, ControlInv, TypeOK, OneHalter, Tasks, Halting
  <2>2. /\ hpc' = "aborted" /\ wire' = wire /\ resting' \subseteq resting
        /\ halted' = halted /\ overlap' = overlap
        /\ hpc # "flatten" => pos' = pos
    BY <1>6 DEF DecisionTimesOutInHalt, AbortHalt
  <2>3. QED
    BY <2>1, <2>2 DEF CleanInv, NothingJoinsHalt, BookFirst, CancelledFirst, Undisturbed,
       CleanHaltLeavesNothing, Deciding
<1>7. CASE UNCHANGED vars
  BY <1>7, CleanFrame DEF vars, haltVars
<1>8. QED
  BY <1>1, <1>2, <1>3, <1>4, <1>5, <1>6, <1>7, CleanDecision, CleanHaltStep, CleanVenue
     DEF Next, Environment

\* A halt that nothing overlapped, at a venue that answers, ends with no resting
\* order, and with no position once the engine has traded.
THEOREM CleanHaltIsClean == Spec => []CleanHaltLeavesNothing
<1>1. Init => CleanInv
  <2>1. Init => hpc = "no" /\ ~halted /\ pc["decisions"] = "wait"
    BY DEF Init, Tasks, Streams
  <2>2. QED
    BY <2>1 DEF Init, CleanInv, NothingJoinsHalt, BookFirst, CancelledFirst, Undisturbed,
       CleanHaltLeavesNothing
<1>2. CleanInv => CleanHaltLeavesNothing
  BY DEF CleanInv
<1>3. QED
  BY <1>1, <1>2, ControlAlways, CleanStep, PTL DEF Spec

================================================================================
