-------------------------------- MODULE Bars --------------------------------
(***************************************************************************)
(* The bars an engine decides on: fetched before it starts, in pages from   *)
(* the command line (data/feed.py) or with one request to Alpaca in the    *)
(* terminal (ui/portfolio_session.py), then aggregated from ticks          *)
(* (data/stream.py).  Time is counted in bars: `now' is the bar the market *)
(* is forming.  Prices are abstracted; a bar keeps the moments of the      *)
(* trades that it was built from.                                          *)
(***************************************************************************)
EXTENDS Integers, Sequences, FiniteSets, SequencesExt

CONSTANTS
    Limit,         \* _SEED_BARS
    Page,          \* most bars the venue answers with
    MaxRetries,    \* OHLCVFeed.max_retries
    MaxBars,       \* BarAggregator.max_bars
    Venues,        \* subset of {"ccxt", "alpaca"}
    Listed,        \* the first bar the venue has
    Delays,        \* bars by which a trade may be late
    FirstBar, MaxNow, MaxTicks

ASSUME BarsAssumption ==
    /\ Limit \in Nat \ {0} /\ Page \in Nat \ {0} /\ MaxRetries \in Nat \ {0}
    /\ MaxBars \in Nat \ {0, 1}
    /\ Venues \subseteq {"ccxt", "alpaca"}
    /\ Listed \in Nat /\ Delays \subseteq Nat
    /\ FirstBar \in Nat /\ MaxNow \in Nat /\ MaxTicks \in Nat

VARIABLES
    now,
    venue,
    fetch,         \* the request for history: where it stands and what it has
    rows,          \* BarAggregator._rows with _index
    current,       \* BarAggregator._current
    ticks,         \* ticks fed so far
    lost           \* history: ticks in the rows that were trimmed

barVars == <<now, venue, fetch, rows, current, ticks, lost>>

NoBar == [start |-> 0 - 1, trades |-> {}, partial |-> FALSE]

\* A bar as the venue answers it at this moment.
Answered(start) == [start |-> start, trades |-> {}, partial |-> start = now]

\* The bars from first to last, those the venue has.
Later(m, n) == IF m > n THEN m ELSE n
Rows(first, last) ==
    LET begin == Later(first, Listed)
    IN  [i \in 1 .. (last - begin + 1) |-> Answered(begin + i - 1)]

BarsInit ==
    /\ now = FirstBar /\ venue \in Venues
    /\ fetch = [at |-> "start", since |-> 0, got |-> <<>>, fetched |-> 0, tries |-> 0]
    /\ rows = <<>> /\ current = NoBar /\ ticks = 0 /\ lost = 0

Clock ==
    /\ now < MaxNow /\ now' = now + 1
    /\ UNCHANGED <<venue, fetch, rows, current, ticks, lost>>

-----------------------------------------------------------------------------
\* _resolve_since: a fifth more than the limit.
Span == (Limit * 6) \div 5

Ask ==
    /\ venue = "ccxt" /\ fetch.at = "start"
    /\ fetch' = [fetch EXCEPT !.at = "page", !.since = now - Span + 1]
    /\ UNCHANGED <<now, venue, rows, current, ticks, lost>>

\* The oldest bars since the moment asked for, as many as make a page.
Batch ==
    LET full == Later(fetch.since, Listed) + Page - 1
    IN  Rows(fetch.since, IF full < now THEN full ELSE now)

\* _fetch_page: a page, or a transient error that is tried again.  Each page begins
\* after the last bar of the one before, so _to_frame finds nothing to sort.
PageArrives ==
    /\ fetch.at = "page"
    /\ fetch' = IF Batch = <<>> THEN [fetch EXCEPT !.at = "ready"]
                ELSE [fetch EXCEPT !.at = "check", !.tries = 0,
                                   !.got = @ \o Batch, !.fetched = @ + Len(Batch)]
    /\ UNCHANGED <<now, venue, rows, current, ticks, lost>>

\* The last retry raises: without history no engine is made for the symbol.
PageFails ==
    /\ fetch.at = "page"
    /\ fetch' = IF fetch.tries + 1 < MaxRetries THEN [fetch EXCEPT !.tries = @ + 1]
                ELSE [fetch EXCEPT !.at = "failed"]
    /\ UNCHANGED <<now, venue, rows, current, ticks, lost>>

\* The end of the loop of fetch: enough bars, or the present is reached.
PageChecked ==
    /\ fetch.at = "check"
    /\ LET last == Last(fetch.got).start
       IN  fetch' = IF fetch.fetched >= Limit \/ last + 1 > now
                    THEN [fetch EXCEPT !.at = "ready"]
                    ELSE [fetch EXCEPT !.at = "page", !.since = last + 1]
    /\ UNCHANGED <<now, venue, rows, current, ticks, lost>>

LastN(s, n) == SubSeq(s, IF Len(s) > n THEN Len(s) - n + 1 ELSE 1, Len(s))

\* _finalise, with the partial bar dropped.
Finalised(bars) == LastN(IF Len(bars) > 1 THEN Front(bars) ELSE bars, Limit)

\* BarAggregator.seed, into an aggregator that has seen no tick.
Seeded(bars) == rows' = LastN(bars, MaxBars) /\ UNCHANGED <<current, ticks, lost>>

\* The engine is primed with what the pages brought; an empty history is refused.
SeedFromPages ==
    /\ venue = "ccxt" /\ fetch.at = "ready" /\ fetch.got # <<>>
    /\ Seeded(Finalised(fetch.got))
    /\ fetch' = [fetch EXCEPT !.at = "live"]
    /\ UNCHANGED <<now, venue>>

\* _refresh_history, of one symbol: one request, and the rows as they come.  When it
\* fails, or there are none, the symbol is not ranked.
RefreshHistory ==
    /\ venue = "alpaca" /\ fetch.at = "start"
    /\ LET answer == Rows(now - Limit + 1, now)
       IN  fetch' \in {[fetch EXCEPT !.at = "failed"]} \cup
                      IF answer = <<>> THEN {}
                      ELSE {[fetch EXCEPT !.at = "ready", !.got = answer]}
    /\ UNCHANGED <<now, venue, rows, current, ticks, lost>>

\* _seed, once the rotation has admitted the symbol.
SeedFromAlpaca ==
    /\ venue = "alpaca" /\ fetch.at = "ready"
    /\ Seeded(fetch.got)
    /\ fetch' = [fetch EXCEPT !.at = "live"]
    /\ UNCHANGED <<now, venue>>

-----------------------------------------------------------------------------
\* _append, with the oldest bar trimmed.
Completed(bar) ==
    LET all == Append(rows, bar)
    IN  IF Len(all) > MaxBars
        THEN rows' = Tail(all) /\ lost' = lost + Cardinality(Head(all).trades)
        ELSE rows' = all /\ UNCHANGED lost

TradeAt(moment) == [at |-> moment, number |-> ticks + 1]

BarOf(moment) == [start |-> moment, trades |-> {TradeAt(moment)}, partial |-> FALSE]

WithTrade(moment) == [current EXCEPT !.trades = @ \cup {TradeAt(moment)}]

\* Mutant of Folded: the tick that completes a bar is counted in it as well.
FoldedLate(moment) ==
    IF current # NoBar /\ moment > current.start
    THEN Completed(WithTrade(moment)) /\ current' = BarOf(moment)
    ELSE /\ current' = IF current = NoBar THEN BarOf(moment) ELSE WithTrade(moment)
         /\ UNCHANGED <<rows, lost>>

\* on_tick: a later bucket completes the bar; an earlier one is folded into it.
Folded(moment) ==
    IF current # NoBar /\ moment > current.start
    THEN Completed(current) /\ current' = BarOf(moment)
    ELSE /\ current' = IF current = NoBar THEN BarOf(moment) ELSE WithTrade(moment)
         /\ UNCHANGED <<rows, lost>>

\* A trade arrives, perhaps a bar late.
OnTick(moment) ==
    /\ fetch.at = "live" /\ ticks < MaxTicks
    /\ ticks' = ticks + 1
    /\ Folded(moment)
    /\ UNCHANGED <<now, venue, fetch>>

BarsNext ==
    \/ Clock \/ Ask \/ PageArrives \/ PageFails \/ PageChecked
    \/ SeedFromPages \/ RefreshHistory \/ SeedFromAlpaca
    \/ \E delay \in Delays : OnTick(now - delay)

BarsSpec == BarsInit /\ [][BarsNext]_barVars

-----------------------------------------------------------------------------
Bars == IF current = NoBar THEN rows ELSE Append(rows, current)

\* Every tick is in exactly one bar, no bar has a trade of a later one, and
\* what was aggregated is what was fed (frame: "Excludes the forming bar by
\* construction -- handing that to a strategy would be a lookahead").
TicksCountOnce ==
    /\ \A i, j \in DOMAIN Bars : i # j => Bars[i].trades \cap Bars[j].trades = {}
    /\ \A i \in DOMAIN Bars : \A t \in Bars[i].trades : t.at <= Bars[i].start
    /\ Cardinality(UNION {Bars[i].trades : i \in DOMAIN Bars}) + lost = ticks

\* VIOLATED: the same bar is never in the frame twice (feed._to_frame:
\* "duplicates silently corrupt every rolling calculation downstream").  The
\* rows of Alpaca include the bar that is forming, and its ticks form it again.
NoDuplicates ==
    \A i, j \in DOMAIN Bars : i # j => Bars[i].start # Bars[j].start

\* VIOLATED: what is seeded is complete (drop_partial: "Drop the final,
\* still-forming candle").  A bar that ends between the page that brought it
\* and the comparison with the clock is followed by another page.
SeedIsComplete == venue = "ccxt" => \A i \in DOMAIN rows : ~rows[i].partial

\* VIOLATED: a venue without gaps leaves as many bars as were asked for
\* (_resolve_since: "Over-fetch by 20% so that dropping the partial bar and any
\* exchange-side gaps still leaves `limit` usable bars").  The pages stop at the
\* limit, before the present, and the last bar is dropped all the same.
LimitIsUsable ==
    (fetch.at = "live" /\ ticks = 0 /\ rows # <<>> /\ venue = "ccxt") => Len(rows) >= Limit
=============================================================================
