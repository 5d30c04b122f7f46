------------------------------- MODULE Scanner -------------------------------
(***************************************************************************)
(* How the terminal chooses what to trade: the history refreshed symbol by *)
(* symbol (portfolio_session._refresh_history), the ranking, the filters   *)
(* and the diversification of data/scanner.py, the universe the supervisor *)
(* draws from it, and the verdict shown beside every symbol (_verdicts).   *)
(***************************************************************************)
EXTENDS Integers, Sequences, FiniteSets, SequencesExt

CONSTANTS
    Universe,        \* bridge.universe, a sequence of symbols
    Reads,           \* what an assessment can read from bars and ticker
    Alikes,          \* sets of pairs too strongly correlated
    MaxCandidates, MaxConcurrent, MaxRounds

Scannable == {Universe[i] : i \in DOMAIN Universe}

\* _assess, in its order; the first two are not applied without a ticker.
Filters == <<"illiquid", "spread too wide", "too quiet", "too volatile",
             "edge below costs", "no regime", "weak regime">>

ASSUME ScannerAssumption ==
    /\ Universe \in Seq(Scannable)
    /\ \A r \in Reads : r.score \in Nat /\ r.fails \subseteq {Filters[i] : i \in 1..7}
    /\ \A alike \in Alikes : \A pair \in alike : pair \subseteq Scannable /\ Cardinality(pair) = 2
    /\ MaxCandidates \in Nat \ {0} /\ MaxConcurrent \in Nat \ {0} /\ MaxRounds \in Nat

VARIABLES
    history,         \* _history: what the frame of each symbol would be read as
    next,            \* the symbol whose bars are requested, 0 between refreshes
    failed,          \* symbols whose request failed in this refresh
    rounds,
    scan,            \* state.last_scan
    engines          \* symbols with an engine

scannerVars == <<history, next, failed, rounds, scan, engines>>

Passed == "passed"

NoFrame == [enough |-> FALSE, read |-> [score |-> 0, fails |-> {}]]
NoScan == [selected |-> <<>>, reason |-> [s \in {} |-> Passed], alike |-> {}, stale |-> {}]

ScannerInit ==
    /\ history = [s \in Scannable |-> NoFrame]
    /\ next = 0 /\ failed = {} /\ rounds = 0 /\ scan = NoScan /\ engines = {}

-----------------------------------------------------------------------------
RefreshBegins ==
    /\ next = 0 /\ rounds < MaxRounds
    /\ rounds' = rounds + 1 /\ next' = 1 /\ failed' = {}
    /\ UNCHANGED <<history, scan, engines>>

Refreshing == next \in DOMAIN Universe

\* Too few bars leave the symbol out of the scan, whatever they would read.
BarsArrive ==
    /\ Refreshing /\ next' = next + 1
    /\ \E frame \in {NoFrame} \cup [enough : {TRUE}, read : Reads] :
           history' = [history EXCEPT ![Universe[next]] = frame]
    /\ UNCHANGED <<failed, rounds, scan, engines>>

NoRows ==
    /\ Refreshing /\ next' = next + 1
    /\ UNCHANGED <<history, failed, rounds, scan, engines>>

FetchFails ==
    /\ Refreshing /\ next' = next + 1
    /\ failed' = failed \cup {Universe[next]}
    /\ UNCHANGED <<history, rounds, scan, engines>>

-----------------------------------------------------------------------------
Assessed == {s \in Scannable : history[s].enough}

\* The first filter that the symbol fails, of those its data allow.
Reason(s, quoted) ==
    LET applied == IF quoted THEN 1..7 ELSE 3..7
        fails == {i \in applied : Filters[i] \in history[s].read.fails}
    IN  IF fails = {} THEN Passed
        ELSE Filters[CHOOSE i \in fails : \A j \in fails : i <= j]

\* Best first; symbols of one score keep the order they came in.
Rankings(survivors) ==
    {r \in SetToSeqs(survivors) :
        \A i, j \in DOMAIN r : i < j => history[r[i]].read.score >= history[r[j]].read.score}

\* Mutant of Diversified: a candidate is held against the last choice only.
DiversifiedByLast(ranked, alike) ==
    FoldLeft(LAMBDA chosen, s :
                 IF \/ Len(chosen) = MaxCandidates
                    \/ chosen # <<>> /\ {s, Last(chosen)} \in alike
                 THEN chosen ELSE Append(chosen, s),
             <<>>, ranked)

\* _diversify: the best candidate that is not yet represented.
Diversified(ranked, alike) ==
    FoldLeft(LAMBDA chosen, s :
                 IF \/ Len(chosen) = MaxCandidates
                    \/ \E i \in DOMAIN chosen : {s, chosen[i]} \in alike
                 THEN chosen ELSE Append(chosen, s),
             <<>>, ranked)

\* scan: whoever survived the filters and was not selected is "correlated".
Scanned(quoted, ranked, alike) ==
    LET selected == Diversified(ranked, alike)
    IN  [selected |-> selected,
         reason |-> [s \in Assessed |->
                        IF \E i \in DOMAIN ranked : ranked[i] = s
                        THEN IF \E i \in DOMAIN selected : selected[i] = s
                             THEN Passed ELSE "correlated with a selection"
                        ELSE Reason(s, quoted)],
         alike |-> alike,
         stale |-> failed]

\* target_universe: incumbents inside their minimum hold, then the selection.
TargetUniverse(protected, selected) ==
    LET fresh == SelectSeq(selected, LAMBDA s : s \notin protected)
        room == MaxConcurrent - Cardinality(protected)
    IN  protected \cup {fresh[i] : i \in {j \in DOMAIN fresh : j <= room}}

\* supervisor.rotate: the scan, and the universe that follows from it.
Rotate ==
    /\ next = Len(Universe) + 1 /\ next' = 0
    /\ \E alike \in Alikes, protected \in SUBSET engines, quoted \in BOOLEAN :
       \E ranked \in Rankings({s \in Assessed : Reason(s, quoted) = Passed}) :
           /\ scan' = Scanned(quoted, ranked, alike)
           /\ engines' = TargetUniverse(protected, scan'.selected)
    /\ UNCHANGED <<history, failed, rounds>>

\* The scan raises: "a bad scan is not fatal".
ScanRaises ==
    /\ next = Len(Universe) + 1 /\ next' = 0
    /\ UNCHANGED <<history, failed, rounds, scan, engines>>

ScannerNext ==
    RefreshBegins \/ BarsArrive \/ NoRows \/ FetchFails \/ Rotate \/ ScanRaises

ScannerSpec == ScannerInit /\ [][ScannerNext]_scannerVars

-----------------------------------------------------------------------------
\* _verdicts: the state shown for a symbol of the last scan.
Verdict(s) ==
    IF s \in engines THEN "trading"
    ELSE IF scan.reason[s] # Passed THEN "rejected" ELSE "selected"

Selected == {scan.selected[i] : i \in DOMAIN scan.selected}

Represented(s) == \E t \in Selected : {s, t} \in scan.alike

\* No two selections are one bet in two wrappers, and nothing that passed the
\* filters is left out while there is room, unless it is represented ("a
\* scanner that ranks purely on score will hand you that every time").
OneBetEach ==
    /\ Len(scan.selected) <= MaxCandidates
    /\ \A s, t \in Selected : {s, t} \notin scan.alike
    /\ Len(scan.selected) < MaxCandidates =>
           \A s \in DOMAIN scan.reason :
               scan.reason[s] = "correlated with a selection" => Represented(s)

\* VIOLATED: a symbol is rejected as correlated only if it is correlated
\* (_verdicts: "Reporting that as a rejection would blame the instrument for a
\* portfolio limit").  What a full list leaves out gets the same label.
LimitIsNotBlamed ==
    \A s \in DOMAIN scan.reason :
        scan.reason[s] = "correlated with a selection" => Represented(s)

\* VIOLATED: a symbol whose bars could not be fetched is not selected ("these
\* are skipped this scan and retried on the next").  Its old frame is ranked.
FailedIsSkipped == Selected \cap scan.stale = {}
=============================================================================
