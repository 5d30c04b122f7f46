------------------------------ MODULE PaperTrading ------------------------------
(***************************************************************************)
(* PaperBroker of src/src/godalgo/execution/broker.py behind the routing   *)
(* step of LiveEngine, for one symbol: resting post-only orders that fill  *)
(* when the market trades through them, taker orders that pay the spread   *)
(* and slippage, the position with its average entry, and the equity the   *)
(* risk layer reads.  No method of this broker suspends, so a whole        *)
(* decision is one action.                                                 *)
(*                                                                         *)
(* An average entry is exact: entry and realised P&L are kept as integers  *)
(* over a common denominator of the account, which grows as entries blend. *)
(***************************************************************************)
EXTENDS OrderRouter, Sequences, SequencesExt

CONSTANTS
  Books,          \* top-of-book snapshots the market may show
  Targets,        \* positions the strategies and the risk layer may ask for
  Edges,          \* expected edges a signal may come with
  Fee,            \* fee per lot, maker and taker alike
  Slip,           \* taker slippage per lot
  Start,          \* starting equity
  Wired,          \* whether the market data also reach PaperBroker.on_book
  MaxTime,        \* bound: ticks of the clock
  MaxOrders       \* bound: orders sent

ASSUME PaperAssumption ==
  /\ Books \subseteq [bid : Nat \ {0}, ask : Nat \ {0}]
  /\ \A b \in Books : b.bid <= b.ask
  /\ Targets \subseteq Int /\ Edges \subseteq Nat
  /\ Fee \in Nat /\ Slip \in Nat /\ Start \in Nat /\ Wired \in BOOLEAN
  /\ MaxTime \in Nat /\ MaxOrders \in Nat

VARIABLES
  engineBook,     \* LiveEngine._book
  book,           \* PaperBroker._books
  account,        \* _equity, realised_pnl, _positions and _entry; den is the denominator
                  \* of the realised P&L and of the entry
  resting,        \* _resting, in the order of insertion
  counter,        \* _counter
  sent,           \* orders submitted
  status,         \* the answer to the last submission
  halted,
  \* history
  flow,           \* cash paid and received by the fills, fees included
  crossed         \* a fill has turned the position through zero

brokerVars == <<book, account, resting, counter, flow, crossed>>
paperVars == <<now, routerVars, engineBook, brokerVars, sent, status, halted>>

NoBook == [bid |-> 0, ask |-> 0]

\* Every record of the account, with the history kept beside it and the orders that
\* on_book has left resting.
State == [account |-> account, flow |-> flow, crossed |-> crossed, left |-> <<>>]

PaperInit ==
  /\ RouterInit
  /\ engineBook = NoBook /\ book = NoBook
  /\ account = [cash |-> Start, realised |-> 0, quantity |-> 0, entry |-> 0, den |-> 1]
  /\ resting = <<>> /\ counter = 0 /\ sent = 0 /\ status = "none" /\ halted = FALSE
  /\ flow = 0 /\ crossed = FALSE

--------------------------------------------------------------------------------

SameSide(m, n) == (m > 0) = (n > 0)
Lesser(m, n) == IF m < n THEN m ELSE n

\* Mutant of Realised: a partial exit realises the whole position.
RealisedWhole(a, signed, price) ==
  IF a.quantity # 0 /\ ~SameSide(a.quantity, signed)
  THEN a.quantity * (price * a.den - a.entry)
  ELSE 0

\* P&L on the portion of the trade that reduces the position.
Realised(a, signed, price) ==
  IF a.quantity # 0 /\ ~SameSide(a.quantity, signed)
  THEN Sign(a.quantity) * Lesser(Abs(signed), Abs(a.quantity)) * (price * a.den - a.entry)
  ELSE 0

\* The entry after a fill: dropped when flat, blended when opening or adding, and
\* otherwise left alone, also when the fill has turned the position over.
EntryAfter(a, signed, price) ==
  LET total == Abs(a.quantity) + Abs(signed)
      gained == a.realised + Realised(a, signed, price)
  IN  IF a.quantity + signed = 0 THEN [entry |-> 0, realised |-> gained, den |-> a.den]
      ELSE IF a.quantity = 0 \/ SameSide(a.quantity, signed)
           THEN [entry |-> Abs(a.quantity) * a.entry + Abs(signed) * (price * a.den),
                 realised |-> gained * total, den |-> a.den * total]
           ELSE [entry |-> a.entry, realised |-> gained, den |-> a.den]

\* _fill of one order at a price.
Filled(st, order, price) ==
  LET q == st.account.quantity
      after == EntryAfter(st.account, order.signed, price)
  IN  [account |-> [cash |-> st.account.cash - Fee * Abs(order.signed),
                    realised |-> after.realised, quantity |-> q + order.signed,
                    entry |-> after.entry, den |-> after.den],
       flow |-> st.flow - order.signed * price - Fee * Abs(order.signed),
       crossed |-> \/ st.crossed
                   \/ q # 0 /\ ~SameSide(q, order.signed) /\ Abs(order.signed) > Abs(q),
       left |-> st.left]

\* The market has traded through the price of a resting order.
Crosses(order, b) ==
  IF order.signed > 0 THEN b.ask < order.price ELSE b.bid > order.price

\* A post-only order that would take.
WouldCross(order, b) ==
  IF order.signed > 0 THEN order.price >= b.ask ELSE order.price <= b.bid

Become(st) ==
  /\ account' = st.account
  /\ flow' = st.flow
  /\ crossed' = st.crossed

\* One round of the loop of on_book: the order fills at its own price or stays.
Visited(st, order, b) ==
  IF Crosses(order, b) THEN Filled(st, order, order.price)
  ELSE [st EXCEPT !.left = Append(@, order)]

\* The loop of on_book over the resting orders, oldest first.
Swept(b) ==
  LET Visit(st, order) == Visited(st, order, b)
  IN  FoldLeft(Visit, State, resting)

\* on_book: the market moves, then the orders it has traded through fill.
OnBook(b) ==
  /\ book' = b
  /\ Become(Swept(b))
  /\ resting' = Swept(b).left
  /\ UNCHANGED counter

TakerPrice(signed, b) == IF signed > 0 THEN b.ask + Slip ELSE b.bid - Slip

Reject == status' = "rejected" /\ UNCHANGED <<account, flow, crossed, resting>>

\* submit of a post-only limit order.
SubmitLimit(order) ==
  /\ UNCHANGED book
  /\ IF book = NoBook
     THEN Reject /\ UNCHANGED counter
     ELSE /\ counter' = counter + 1
          /\ IF WouldCross(order, book) THEN Reject
             ELSE /\ resting' = Append(resting, order)
                  /\ status' = "open"
                  /\ UNCHANGED <<account, flow, crossed>>

\* submit of a market order: it fills at the touch plus the slippage.
SubmitMarket(signed) ==
  IF book = NoBook
  THEN status' = "rejected" /\ UNCHANGED <<account, flow, crossed, counter>>
  ELSE /\ counter' = counter + 1
       /\ Become(Filled(State, [signed |-> signed], TakerPrice(signed, book)))
       /\ status' = "filled"

\* equity: what PaperBroker reports, at the mid, in halves of the denominator.
Equity == 2 * (account.cash * account.den + account.realised)
            + account.quantity * ((book.bid + book.ask) * account.den - 2 * account.entry)

--------------------------------------------------------------------------------

\* The market shows a new book.  The driver hands it to the engine; only a caller
\* that also feeds the broker makes a paper market.
Quote(b) ==
  /\ engineBook' = b
  /\ IF Wired THEN OnBook(b) ELSE UNCHANGED brokerVars
  /\ UNCHANGED <<now, routerVars, sent, status, halted>>

\* _route of one bar: no book, no order; otherwise the gates, then the submission.
Route(target, edge) ==
  /\ ~halted /\ sent < MaxOrders
  /\ engineBook # NoBook
  /\ LET current == account.quantity
         order == OrderFor(target, current, engineBook)
     IN  IF Decide(target, current, engineBook, edge) = "ok"
         THEN /\ Mark(order.signed)
              /\ SubmitLimit(order)
              /\ sent' = sent + 1
         ELSE /\ submissions' = PrunedSubmissions
              /\ accepted' = PrunedTickets
              /\ UNCHANGED <<inFlight, brokerVars, sent, status>>
  /\ UNCHANGED <<now, engineBook, halted>>

\* halt: cancel_all empties the broker's book of orders, then flatten closes what
\* is held with a market order.
Halt ==
  /\ ~halted
  /\ halted' = TRUE
  /\ resting' = <<>>
  /\ IF account.quantity # 0 /\ engineBook # NoBook
     THEN SubmitMarket(-account.quantity)
     ELSE UNCHANGED <<account, flow, crossed, counter, status>>
  /\ UNCHANGED <<now, routerVars, engineBook, book, sent>>

Tick ==
  /\ now < MaxTime
  /\ now' = now + 1
  /\ UNCHANGED <<routerVars, engineBook, brokerVars, sent, status, halted>>

PaperNext ==
  \/ \E b \in Books : Quote(b)
  \/ \E target \in Targets, edge \in Edges : Route(target, edge)
  \/ Halt
  \/ Tick

PaperSpec == PaperInit /\ [][PaperNext]_paperVars

--------------------------------------------------------------------------------

\* The equity the risk layer acts on is the cash that went in and out plus the
\* position at the mark, as long as no fill has turned the position over.
EquityIsMarkToMarket ==
  ~crossed => Equity = account.den * (2 * (Start + flow)
                                       + account.quantity * (book.bid + book.ask))

\* VIOLATED when nothing feeds the broker's book: An order that was priced from a book is not refused for want of a book: paper
\* mode is to "simulate fills against real market data".
QuotedIsTaken == sent > 0 => counter > 0

================================================================================
