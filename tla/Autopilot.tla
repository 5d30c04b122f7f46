------------------------------ MODULE Autopilot ------------------------------
(***************************************************************************)
(* Autopilot of src/src/godalgo/evolve/autopilot.py with the gate and the  *)
(* ledger of evolve/promotion.py, beside an engine that trades.  A round   *)
(* searches in a thread, its candidate is judged on the out-of-sample      *)
(* Sharpe (in tenths) against the incumbent and on the other checks, and   *)
(* an approved one waits until the engine believes its book is flat.       *)
(***************************************************************************)
EXTENDS Integers, FiniteSets, AppendLog

CONSTANTS
  Sharpes,        \* out-of-sample Sharpe ratios a round may find, in tenths
  Floor,          \* min_oos_sharpe, in tenths
  ImprovementPct, \* min_relative_improvement, in percent
  Interval,       \* interval_hours
  Day,            \* hours in the sliding day of the budget
  MaxRounds,      \* max_rounds_per_day
  MaxHours,       \* bound: hours of the clock
  MaxRestarts     \* bound: kills and restarts

ASSUME AutopilotAssumption ==
  /\ Sharpes \subseteq Int /\ Floor \in Nat \ {0} /\ ImprovementPct \in Nat
  /\ Interval \in Nat \ {0} /\ Day \in Nat \ {0} /\ MaxRounds \in Nat \ {0}
  /\ MaxHours \in Nat /\ MaxRestarts \in Nat

Nothing == 0 - 1000

VARIABLES
  hour,
  lastRun,        \* state.last_run_at, the start of the last round
  rounds,         \* _round_times
  searching,      \* start of the round that runs in the thread, or Nothing
  incumbent,      \* state.incumbent_sharpe, Nothing while there is none
  approved,       \* _approved, by its Sharpe
  live,           \* parameters the engine trades with, by their Sharpe
  ledger,         \* the promotion ledger on disk
  position,       \* "flat", "entering" with an order at the venue, or "held"
  believed,       \* engine.current_weight is not zero
  restarts,
  \* history
  ran             \* starts of all the rounds, and the process that ran each

autopilotVars == <<hour, lastRun, rounds, searching, incumbent, approved, live,
                   ledger, position, believed, restarts, ran>>

AutopilotInit ==
  /\ hour = 0 /\ lastRun = Nothing /\ rounds = {} /\ searching = Nothing
  /\ incumbent = Nothing /\ approved = Nothing /\ live = Nothing
  /\ ledger = EmptyLog /\ position = "flat" /\ believed = FALSE
  /\ restarts = 0 /\ ran = {}

engineVars == <<position, believed>>

--------------------------------------------------------------------------------

\* due prunes the rounds that are a day old.
Recent == {t \in rounds : t > hour - Day}
IntervalOver == lastRun = Nothing \/ hour - lastRun >= Interval
Due == IntervalOver /\ Cardinality(Recent) < MaxRounds

\* apply_pending.
Applied ==
  IF approved # Nothing /\ ~believed
  THEN live' = approved /\ approved' = Nothing
  ELSE UNCHANGED <<live, approved>>

\* A poll that starts no round: none is due, or the history is too short.
PollIdle ==
  /\ searching = Nothing
  /\ rounds' = IF IntervalOver THEN Recent ELSE rounds
  /\ Applied
  /\ UNCHANGED <<hour, lastRun, searching, incumbent, ledger, engineVars, restarts, ran>>

\* A poll that starts one.
PollSearch ==
  /\ searching = Nothing /\ Due
  /\ rounds' = Recent /\ searching' = hour
  /\ UNCHANGED <<hour, lastRun, incumbent, approved, live, ledger, engineVars, restarts, ran>>

\* Mutant of Beats: a candidate is promoted whenever it is not worse.
BeatsOnTie(sharpe) == incumbent # Nothing => sharpe >= incumbent

\* beats_incumbent: the incumbent is the one last approved; one at or below zero
\* cannot set a bar.
Beats(sharpe) ==
  incumbent # Nothing =>
    sharpe * 100 >= IF incumbent <= 0 THEN Floor * 100
                    ELSE incumbent * (100 + ImprovementPct)

\* evaluate_candidate: every check must pass; sound stands for those that do not
\* depend on what was found before.
Passes(sharpe, sound) == sharpe >= Floor /\ sound /\ Beats(sharpe)

Verdict(sharpe, sound) == [sharpe |-> sharpe, promoted |-> Passes(sharpe, sound)]

Recorded(verdict) == Appended(ledger, verdict)

\* The round ends, is written to the ledger, and the poll goes on to apply_pending.
\* An approved candidate may fail to be turned into parameters.
RoundEnds(sharpe, sound, usable) ==
  /\ searching # Nothing
  /\ lastRun' = searching /\ rounds' = rounds \cup {searching}
  /\ ran' = ran \cup {[start |-> searching, process |-> restarts]}
  /\ searching' = Nothing
  /\ ledger' = Recorded(Verdict(sharpe, sound))
  /\ IF Passes(sharpe, sound) /\ usable
     THEN /\ incumbent' = sharpe
          /\ IF believed THEN approved' = sharpe /\ UNCHANGED live
                         ELSE approved' = Nothing /\ live' = sharpe
     ELSE UNCHANGED incumbent /\ Applied
  /\ UNCHANGED <<hour, engineVars, restarts>>

\* The search raises: no time is recorded, and the poll does not reach apply_pending.
RoundRaises ==
  /\ searching # Nothing
  /\ searching' = Nothing
  /\ UNCHANGED <<hour, lastRun, rounds, incumbent, approved, live, ledger, engineVars,
                 restarts, ran>>

Clock ==
  /\ hour < MaxHours /\ hour' = hour + 1
  /\ UNCHANGED <<lastRun, rounds, searching, incumbent, approved, live, ledger,
                 engineVars, restarts, ran>>

\* The engine: it reads the position at the top of a decision, sends an entry when
\* flat, and closes what it holds.
Measure ==
  /\ believed' = (position = "held")
  /\ UNCHANGED <<hour, lastRun, rounds, searching, incumbent, approved, live, ledger,
                 position, restarts, ran>>

EngineTrades ==
  /\ \/ position = "flat" /\ ~believed /\ position' = "entering"
     \/ position = "entering" /\ position' \in {"held", "flat"}
     \/ position = "held" /\ believed /\ position' = "flat"
  /\ UNCHANGED <<hour, lastRun, rounds, searching, incumbent, approved, live, ledger,
                 believed, restarts, ran>>

\* The process is killed, perhaps while it writes the ledger, and starts again with
\* the default parameters and nothing remembered.
Restart ==
  /\ restarts < MaxRestarts /\ restarts' = restarts + 1
  /\ lastRun' = Nothing /\ rounds' = {} /\ searching' = Nothing
  /\ incumbent' = Nothing /\ approved' = Nothing /\ live' = Nothing
  /\ believed' = FALSE
  /\ ledger' \in {ledger} \cup
       (IF searching = Nothing THEN {}
        ELSE UNION {Torn(ledger, Verdict(s, sound)) : s \in Sharpes, sound \in BOOLEAN})
  /\ UNCHANGED <<hour, position, ran>>

AutopilotNext ==
  \/ PollIdle \/ PollSearch \/ RoundRaises \/ Clock \/ Measure \/ EngineTrades \/ Restart
  \/ \E sharpe \in Sharpes, sound, usable \in BOOLEAN : RoundEnds(sharpe, sound, usable)

AutopilotSpec == AutopilotInit /\ [][AutopilotNext]_autopilotVars

--------------------------------------------------------------------------------

\* While the process lives, every configuration that goes live betters the one it
\* replaces by the required margin, also when several were approved before the book
\* was flat.
LiveImproves ==
  [][live' # live /\ live # Nothing /\ restarts' = restarts
       => live' * 100 >= live * (100 + ImprovementPct)]_autopilotVars

\* VIOLATED: No day holds more rounds than the budget, "so a restart loop cannot burn through
\* the trial budget".
BudgetPerDay ==
  \A r \in ran :
    Cardinality({q \in ran : q.start <= r.start /\ r.start - q.start < Day}) <= MaxRounds

\* VIOLATED: "Swaps happen flat, or not at all."
SwapsHappenFlat ==
  [][live' # live /\ restarts' = restarts => position = "flat"]_autopilotVars

\* VIOLATED: apply_pending is "called on every poll, so an approved candidate lands at the
\* first flat moment": no poll ends with a flat book and something still approved.
LandsWhenFlat ==
  [][searching # Nothing /\ searching' = Nothing /\ restarts' = restarts /\ ~believed
       => approved' = Nothing]_autopilotVars

\* VIOLATED: The ledger is read back with every decision.
LedgerReadable == Readable(ledger)

================================================================================
