------------------------------ MODULE DayTrades ------------------------------
(***************************************************************************)
(* risk/venue_rules.py: an account that asks check_tradeable before every  *)
(* equity order, and a broker that counts the day trades and restricts it  *)
(* when the fourth falls in its window.  The module is used from src/ only *)
(* through VenueState; whoever places the orders is external.              *)
(***************************************************************************)
EXTENDS Integers, FiniteSets

CONSTANTS
    Stocks,          \* equity symbols
    PdtWindow,       \* _PDT_WINDOW
    Reserve,         \* check_tradeable's reserve
    MaxSessions,     \* bound: sessions in a behaviour
    MaxUsed          \* bound: day trades in one window

ASSUME DayTradesAssumption ==
    /\ IsFiniteSet(Stocks)
    /\ PdtWindow \in Nat /\ Reserve \in Nat /\ MaxSessions \in Nat /\ MaxUsed \in Nat

VARIABLES
    open,            \* symbols held
    today,           \* of those, opened in this session
    used,            \* day_trades_used, the broker's count
    rich,            \* equity at or above PDT_EQUITY_FLOOR
    marketOpen,
    session,
    restricted,      \* history: the broker has restricted the account
    everRich         \* history: the equity was at or above the floor

dayTradeVars == <<open, today, used, rich, marketOpen, session, restricted, everRich>>

DayTradesInit ==
    /\ open = {} /\ today = {} /\ used = 0
    /\ rich \in BOOLEAN /\ everRich = rich
    /\ marketOpen = TRUE /\ session = 0
    /\ restricted = FALSE

Left == IF rich THEN 99 ELSE IF PdtWindow - 1 - used > 0 THEN PdtWindow - 1 - used ELSE 0

\* Mutant of MayOpen: the last one may be spent too.
MayOpenLast == marketOpen /\ ~restricted /\ (rich \/ Left > 0)

\* check_tradeable for an equity, opening or closing.
MayOpen == marketOpen /\ ~restricted /\ (rich \/ Left > Reserve)
MayClose == marketOpen /\ ~restricted

OpenPosition(s) ==
    /\ s \notin open /\ MayOpen
    /\ open' = open \cup {s} /\ today' = today \cup {s}
    /\ UNCHANGED <<used, rich, marketOpen, session, restricted, everRich>>

\* Closing what was opened today is a day trade.
ClosePosition(s) ==
    /\ s \in open /\ MayClose /\ used < MaxUsed
    /\ open' = open \ {s} /\ today' = today \ {s}
    /\ used' = IF s \in today THEN used + 1 ELSE used
    /\ restricted' = (s \in today /\ ~rich /\ used + 1 >= PdtWindow)
    /\ UNCHANGED <<rich, marketOpen, session, everRich>>

MarketCloses ==
    /\ marketOpen
    /\ marketOpen' = FALSE /\ today' = {}
    /\ UNCHANGED <<open, used, rich, session, restricted, everRich>>

\* The next session: day trades older than five sessions drop out.
MarketOpens(n) ==
    /\ ~marketOpen /\ session < MaxSessions
    /\ marketOpen' = TRUE /\ session' = session + 1
    /\ n <= used /\ used' = n
    /\ UNCHANGED <<open, today, rich, restricted, everRich>>

EquityMoves ==
    /\ rich' = ~rich
    /\ everRich' = TRUE
    /\ UNCHANGED <<open, today, used, marketOpen, session, restricted>>

DayTradesNext ==
    \/ \E s \in Stocks : OpenPosition(s) \/ ClosePosition(s)
    \/ MarketCloses
    \/ \E n \in 0 .. MaxUsed : MarketOpens(n)
    \/ EquityMoves

DayTradesSpec == DayTradesInit /\ [][DayTradesNext]_dayTradeVars

-----------------------------------------------------------------------------
\* An account below the floor that holds no more positions at once than the
\* window leaves beyond the reserve is never restricted: a position opened today
\* can still be closed today (check_tradeable: "without the closing trade being
\* the one that trips the rule").
ReserveIsEnough ==
    (Cardinality(Stocks) <= Reserve + 1 /\ ~everRich) => ~restricted

\* VIOLATED with three positions open at once: the reserve is held back for each
\* opening, not for all that are open.
NeverRestricted == ~everRich => ~restricted
=============================================================================
