------------------------------ MODULE Positions ------------------------------
(***************************************************************************)
(* What the terminal shows of the trading (ui/state.py PositionTracker),   *)
(* beside what the broker holds: the engine reports the fill it is told of *)
(* by submit (_notify_fill), the session routes it into the tracker and    *)
(* the journal.  One symbol; prices are multiples of Unit, so that average *)
(* entries keep their fractions.                                           *)
(***************************************************************************)
EXTENDS Integers, Sequences, SequencesExt

CONSTANTS
    Sizes,         \* signed quantities an engine orders
    Prices, Fees,
    Unit,
    MaxClosed,     \* PositionTracker.max_closed
    MaxFills, MaxHeld

ASSUME PositionsAssumption ==
    /\ Sizes \subseteq Int \ {0} /\ Prices \subseteq Nat \ {0} /\ Fees \subseteq Nat
    /\ Unit \in Nat \ {0} /\ MaxClosed \in Nat /\ MaxFills \in Nat /\ MaxHeld \in Nat

VARIABLES
    position,  \* open_positions of the symbol, NotOpen while there is none
    closed,    \* closed_positions
    journal,   \* net result of each round trip that was journalled
    broker,    \* quantity the broker holds
    resting,   \* quantity of an order that rests at the broker
    fills,
    flow,      \* history: cash of the fills that were reported, fees included
    reported,  \* history: net quantity of those fills
    trimmed    \* history: net result of the positions that were trimmed

positionVars == <<position, closed, journal, broker, resting, fills, flow, reported, trimmed>>

Size(n) == IF n < 0 THEN 0 - n ELSE n
Sign(n) == IF n < 0 THEN 0 - 1 ELSE 1
Smaller(m, n) == IF m < n THEN m ELSE n

NotOpen == [quantity |-> 0, entry |-> 0, realised |-> 0, fees |-> 0, mark |-> 0]

PositionsInit ==
    /\ position = NotOpen /\ closed = <<>> /\ journal = <<>>
    /\ broker = 0 /\ resting = 0 /\ fills = 0
    /\ flow = 0 /\ reported = 0 /\ trimmed = 0

\* The quantity keeps its sign here; the code keeps it in side.
Opened(signed, price, fee) ==
    [quantity |-> signed, entry |-> price * Unit, realised |-> 0, fees |-> fee, mark |-> price]

Unrealised(p) == p.quantity * (p.mark * Unit - p.entry)
NetPnl(p) == p.realised + (IF p.quantity = 0 THEN 0 ELSE Unrealised(p)) - Unit * p.fees

-----------------------------------------------------------------------------
SameSide(m, n) == (m > 0) = (n > 0)

ScaledIn(p, signed, price, fee) ==
    [p EXCEPT !.quantity = @ + signed,
              !.entry = (Size(p.quantity) * @ + Size(signed) * price * Unit)
                            \div (Size(p.quantity) + Size(signed)),
              !.fees = @ + fee, !.mark = price]

Closing(p, signed) == Smaller(Size(signed), Size(p.quantity))

\* Mutant of Realised: the whole position is booked at the exit price.
RealisedWhole(p, signed, price) == p.quantity * (price * Unit - p.entry)

\* Profit on the part that closes.
Realised(p, signed, price) ==
    Sign(p.quantity) * Closing(p, signed) * (price * Unit - p.entry)

\* What is left of the position after an opposing fill; nothing of a whole one.
Reduced(p, signed, price, fee) ==
    [p EXCEPT !.quantity = Sign(@) * (Size(@) - Closing(p, signed)),
              !.realised = @ + Realised(p, signed, price),
              !.fees = @ + fee, !.mark = price]

\* _retire: the oldest history is trimmed.
Retire(p) ==
    /\ closed' = LET all == Append(closed, p)
                 IN  SubSeq(all, IF Len(all) > MaxClosed THEN Len(all) - MaxClosed + 1 ELSE 1,
                            Len(all))
    /\ trimmed' = trimmed + (IF Len(closed) = MaxClosed
                             THEN NetPnl((closed \o <<p>>)[1]) ELSE 0)
    /\ journal' = Append(journal, NetPnl(p))

Surplus(p, signed, price) ==
    IF Size(signed) = Closing(p, signed) THEN NotOpen
    ELSE Opened(Sign(signed) * (Size(signed) - Closing(p, signed)), price, 0)

\* on_fill, and the journal entry of record_fill when it closes a round trip.
OnFill(signed, price, fee) ==
    IF position = NotOpen
    THEN position' = Opened(signed, price, fee) /\ UNCHANGED <<closed, journal, trimmed>>
    ELSE IF SameSide(position.quantity, signed)
    THEN position' = ScaledIn(position, signed, price, fee) /\ UNCHANGED <<closed, journal, trimmed>>
    ELSE LET p == Reduced(position, signed, price, fee)
         IN  IF p.quantity # 0
             THEN position' = p /\ UNCHANGED <<closed, journal, trimmed>>
             ELSE Retire(p) /\ position' = Surplus(position, signed, price)

Counted(signed, price, fee) ==
    /\ fills' = fills + 1
    /\ flow' = flow - signed * price - fee
    /\ reported' = reported + signed

Room(signed) ==
    /\ fills < MaxFills
    /\ Size(broker + signed) <= MaxHeld /\ Size(reported + signed) <= MaxHeld

\* submit reports the fill, and _notify_fill passes it on.
OrderFills(signed, price, fee) ==
    /\ Room(signed)
    /\ broker' = broker + signed
    /\ OnFill(signed, price, fee)
    /\ Counted(signed, price, fee)
    /\ UNCHANGED resting

\* submit reports an order that rests: _notify_fill has nothing to pass on.
OrderRests(signed) ==
    /\ resting = 0 /\ Room(signed)
    /\ resting' = signed /\ fills' = fills + 1
    /\ UNCHANGED <<position, closed, journal, broker, flow, reported, trimmed>>

\* It fills later, or a halt cancels it.
RestingEnds ==
    /\ resting # 0 /\ resting' = 0
    /\ broker' \in {broker, broker + resting}
    /\ UNCHANGED <<position, closed, journal, fills, flow, reported, trimmed>>

\* flatten sends a market order and reports it to nobody.
Flatten ==
    /\ broker # 0 /\ broker' = 0
    /\ UNCHANGED <<position, closed, journal, resting, fills, flow, reported, trimmed>>

\* mark: once a second, from the prices of the watchlist.
MarkAt(price) ==
    /\ position # NotOpen
    /\ position' = [position EXCEPT !.mark = price]
    /\ UNCHANGED <<closed, journal, broker, resting, fills, flow, reported, trimmed>>

PositionsNext ==
    \/ \E signed \in Sizes, price \in Prices, fee \in Fees : OrderFills(signed, price, fee)
    \/ \E signed \in Sizes : OrderRests(signed)
    \/ RestingEnds \/ Flatten
    \/ \E price \in Prices : MarkAt(price)

PositionsSpec == PositionsInit /\ [][PositionsNext]_positionVars

-----------------------------------------------------------------------------
TotalPnl(ps) == FoldLeft(LAMBDA sum, p : sum + NetPnl(p), 0, ps)

\* snapshot: realised_total and unrealised_total.
RealisedTotal == TotalPnl(closed)
UnrealisedTotal == IF position = NotOpen THEN 0 ELSE NetPnl(position)

\* What is shown as made is the cash of the fills that were reported and the
\* position at its mark, through scaling in, partial exits and reversals, up to
\* the fraction of a unit that an average of entries loses ("Marking the whole
\* position at the exit price would book profit on the part still open"); and what
\* trimming takes from the display, the journal keeps ("The journal keeps the
\* durable record").
ShownIsMade ==
    /\ position.quantity = reported
    /\ Size(RealisedTotal + UnrealisedTotal + trimmed
            - Unit * (flow + position.quantity * position.mark)) <= fills * MaxHeld
    /\ FoldLeft(LAMBDA sum, n : sum + n, 0, journal) = RealisedTotal + trimmed

\* VIOLATED: the terminal shows the position the broker holds ("a display that
\* disagrees with the broker, which is worse than no display").  A resting
\* order that fills later and the order of a halt are reported to nobody.
ShownIsHeld == resting = 0 => position.quantity = broker
=============================================================================
