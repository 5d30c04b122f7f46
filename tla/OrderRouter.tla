------------------------------ MODULE OrderRouter ------------------------------
(***************************************************************************)
(* OrderRouter of src/src/godalgo/execution/router.py for one symbol, with *)
(* the venue rules of execution/market.py: the gates of decide in the      *)
(* order of the code, the throttle, the in-flight marker and the memory of *)
(* accepted tickets.  A weight is a number of lots at the current mark, a  *)
(* price and a spread are integers, and time is counted in ticks.          *)
(***************************************************************************)
EXTENDS Integers, FiniteSets

CONSTANTS
  MaxPerMinute,   \* RoutingConfig.max_orders_per_minute
  Minute,         \* ticks in the 60 seconds of the throttle
  Window,         \* duplicate_window_seconds in ticks, 0 is off
  BandPct,        \* min_relative_change in percent
  MaxSpread,      \* max_spread_bps, as a price difference
  RequiredEdge,   \* round-trip cost times min_edge_multiple
  Step,           \* MarketSpec.amount_step in lots
  MinNotional     \* MarketSpec.min_notional

ASSUME RouterAssumption ==
  /\ MaxPerMinute \in Nat /\ Minute \in Nat \ {0} /\ Window \in Nat
  /\ BandPct \in 0..99 /\ MaxSpread \in Nat /\ RequiredEdge \in Nat
  /\ Step \in Nat \ {0} /\ MinNotional \in Nat

VARIABLES
  now,            \* time.monotonic()
  submissions,    \* _submission_times, numbered so that two may share a time
  inFlight,       \* the symbol has an entry in _in_flight
  accepted        \* _accepted: pairs of a signed amount and its time

routerVars == <<submissions, inFlight, accepted>>

Abs(n) == IF n < 0 THEN -n ELSE n
Bigger(m, n) == IF m > n THEN m ELSE n
Sign(n) == IF n >= 0 THEN 1 ELSE -1

RouterInit == now = 0 /\ submissions = {} /\ inFlight = FALSE /\ accepted = {}

\* A moment less than span ticks ago.
Within(t, span) == now - t < span

ThrottleAllows == Cardinality({s \in submissions : Within(s.at, Minute)}) < MaxPerMinute

\* _recent_ticket compares the sign of the accepted amount with the sign of the
\* target weight, not with the side of the order that would be sent.
RecentTicket(target) ==
  /\ Window > 0
  /\ \E a \in accepted : now - a.at <= Window /\ Sign(a.amount) = Sign(target)

\* round_amount rounds down to the lot size of the venue.
RoundAmount(lots) == (lots \div Step) * Step

\* A buy rests at the bid and a sell at the ask.
LimitPrice(book, delta) == IF delta > 0 THEN book.bid ELSE book.ask

IsTradeable(amount, price) == amount > 0 /\ amount * price >= MinNotional

\* An order towards target on the side of current, or to flat.
IsReducing(target, current) ==
  /\ Abs(target) < Abs(current)
  /\ target = 0 \/ (target > 0) = (current > 0)

InBand(target, current) ==
  /\ target # 0
  /\ 100 * Abs(target - current) < BandPct * Bigger(Abs(target), Abs(current))

\* decide: the name of the first gate that refuses, or "ok".
Decide(target, current, book, edge) ==
  LET delta == target - current
      price == LimitPrice(book, delta)
  IN  IF delta = 0 THEN "floor"
      ELSE IF InBand(target, current) THEN "band"
      ELSE IF book.ask - book.bid > MaxSpread THEN "spread"
      ELSE IF inFlight THEN "in flight"
      ELSE IF RecentTicket(target) THEN "already placed"
      ELSE IF ~ThrottleAllows THEN "throttle"
      ELSE IF ~IsReducing(target, current) /\ edge < RequiredEdge THEN "edge"
      ELSE IF ~IsTradeable(RoundAmount(Abs(delta)), price) THEN "minimum"
      ELSE "ok"

\* The post-only order of an accepted decision.
OrderFor(target, current, book) ==
  LET delta == target - current
  IN  [signed |-> Sign(delta) * RoundAmount(Abs(delta)),
       price |-> LimitPrice(book, delta),
       reduceOnly |-> IsReducing(target, current)]

\* What decide leaves of the lists it prunes on the way to a verdict.
PrunedTickets == IF Window > 0 THEN {a \in accepted : now - a.at <= Window} ELSE accepted
PrunedSubmissions == {s \in submissions : Within(s.at, Minute)}

\* mark_submitted, the call of the broker and mark_settled of _route: the broker
\* of this composition answers without suspending, so the marker is set and
\* cleared within the action.
Mark(signed) ==
  /\ submissions' = PrunedSubmissions
                      \cup {[at |-> now, n |-> Cardinality(PrunedSubmissions)]}
  /\ accepted' = {a \in PrunedTickets : a.amount # signed} \cup {[amount |-> signed, at |-> now]}
  /\ inFlight' = FALSE

================================================================================
