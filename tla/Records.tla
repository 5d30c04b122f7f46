------------------------------- MODULE Records -------------------------------
(***************************************************************************)
(* The evidence the terminal keeps on disk: TradingJournal with its daily  *)
(* summaries (ui/journal.py) and ForwardRecord (research/forward.py), over *)
(* a process that may be killed at any moment and started again.           *)
(***************************************************************************)
EXTENDS Naturals, FiniteSets, AppendLog

CONSTANTS
  MaxDay,         \* bound: days of the clock
  MaxTrades,      \* bound: trades closed, and days recorded
  MaxKills        \* bound: kills of the process

ASSUME RecordsAssumption == MaxDay \in Nat /\ MaxTrades \in Nat /\ MaxKills \in Nat

VARIABLES
  day,            \* the UTC date
  journal,        \* journal.jsonl: trades [id, day]
  summaries,      \* daily_summaries.jsonl: [day, trades]
  currentDay,     \* _current_day; 0 is None
  forward,        \* forward.jsonl
  entries,        \* ForwardRecord.entries
  closed,         \* trades closed and days recorded so far
  kills,
  \* history: what record and append have returned from
  journalled, recorded

recordVars == <<day, journal, summaries, currentDay, forward, entries,
                closed, kills, journalled, recorded>>

RecordsInit ==
  /\ day = 1 /\ currentDay = 0
  /\ journal = EmptyLog /\ summaries = EmptyLog /\ forward = EmptyLog
  /\ entries = <<>>
  /\ closed = 0 /\ kills = 0 /\ journalled = {} /\ recorded = {}

Midnight ==
  /\ day < MaxDay /\ day' = day + 1
  /\ UNCHANGED <<journal, summaries, currentDay, forward, entries, closed, kills,
                 journalled, recorded>>

Trade == [id |-> closed + 1, day |-> day]

\* UIBridge.record_fill of a round trip, and TradingJournal.record.
RecordTrade ==
  /\ closed < MaxTrades /\ closed' = closed + 1
  /\ journal' = Appended(journal, Trade)
  /\ journalled' = journalled \cup {Trade}
  /\ UNCHANGED <<day, summaries, currentDay, forward, entries, kills, recorded>>

\* summarise: the journal is read again and filtered by the day of the close.
TradesOf(d) == {t \in {Entries(journal)[i] : i \in DOMAIN Entries(journal)} : t.day = d}

\* Mutant of Rollover: the new day is summarised, not the one that is over.
RolloverToday ==
  /\ currentDay # day
  /\ summaries' = IF currentDay = 0 THEN summaries
                  ELSE Appended(summaries, [day |-> day, trades |-> TradesOf(day)])
  /\ currentDay' = day
  /\ UNCHANGED <<day, journal, forward, entries, closed, kills, journalled, recorded>>

\* check_rollover, called while a page is open: the first call only sets the day.
Rollover ==
  /\ currentDay # day
  /\ summaries' = IF currentDay = 0 THEN summaries
                  ELSE Appended(summaries, [day |-> currentDay, trades |-> TradesOf(currentDay)])
  /\ currentDay' = day
  /\ UNCHANGED <<day, journal, forward, entries, closed, kills, journalled, recorded>>

\* record_day: in memory, then on disk.
RecordDay ==
  /\ closed < MaxTrades /\ closed' = closed + 1
  /\ entries' = Append(entries, Trade)
  /\ forward' = Appended(forward, Trade)
  /\ recorded' = recorded \cup {Trade}
  /\ UNCHANGED <<day, journal, summaries, currentDay, kills, journalled>>

\* ForwardRecord.load skips a line it cannot parse.
Loaded(log) == Entries(log)

\* The process is killed, perhaps in the middle of one append, and starts again.
Killed ==
  /\ kills < MaxKills /\ kills' = kills + 1
  /\ currentDay' = 0
  /\ \/ closed < MaxTrades /\ closed' = closed + 1
        /\ \/ journal' \in Torn(journal, Trade) /\ UNCHANGED forward
           \/ forward' \in Torn(forward, Trade) /\ UNCHANGED journal
        /\ UNCHANGED summaries
     \/ /\ summaries' \in {summaries} \cup
             (IF currentDay \in {0, day} THEN {}
              ELSE Torn(summaries, [day |-> currentDay, trades |-> TradesOf(currentDay)]))
        /\ UNCHANGED <<journal, forward, closed>>
  /\ entries' = Loaded(forward')
  /\ UNCHANGED <<day, journalled, recorded>>

RecordsNext == Midnight \/ RecordTrade \/ Rollover \/ RecordDay \/ Killed

RecordsSpec == RecordsInit /\ [][RecordsNext]_recordVars

--------------------------------------------------------------------------------

ToSetOf(s) == {s[i] : i \in DOMAIN s}

\* A kill costs at most one entry that had been written, in all the files together:
\* the one that lands on the line it has torn.
KillLosesOne ==
  Cardinality(journalled \ ToSetOf(Entries(journal)))
    + Cardinality(recorded \ ToSetOf(Entries(forward))) <= kills

\* A day is summarised with every trade the journal still holds of it.
SummaryIsWhole ==
  LET all == Entries(summaries)
  IN  \A i \in DOMAIN all : TradesOf(all[i].day) \subseteq all[i].trades

\* VIOLATED: An entry that was written stays readable: the partial line of a kill "will be
\* the last line, not the useful ones".
WrittenIsKept == recorded \subseteq ToSetOf(Entries(forward))

\* VIOLATED: The summaries can be read after any kill.
SummariesReadable == Readable(summaries)

================================================================================
