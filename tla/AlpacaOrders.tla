----------------------------- MODULE AlpacaOrders -----------------------------
(***************************************************************************)
(* An engine leaves its position at Alpaca: the halt that cancels and      *)
(* flattens, or a reduce-only exit sent while another order rests          *)
(* (engine.halt and flatten through venues/alpaca_broker.py).  The venue   *)
(* has no reduce-only: submit clamps the quantity to the position it reads *)
(* just before.  Each request is a step, and between two of them the       *)
(* resting orders fill.                                                    *)
(***************************************************************************)
EXTENDS Integers, FiniteSets

CONSTANTS
    Positions,        \* what is held at first
    Orders,           \* signed amounts of the orders that may rest
    Troubles,         \* subset of {"transport", "refused", "gateway"}
    HasBook           \* the engine has a book snapshot

ASSUME AlpacaAssumption ==
    /\ Positions \subseteq Int /\ Orders \subseteq Int \ {0}
    /\ Troubles \subseteq {"transport", "refused", "gateway"} /\ HasBook \in BOOLEAN

VARIABLES
    kind,     \* "halt" or "exit"
    held,     \* position at the venue
    rests,    \* orders at the venue
    at,
    todo,     \* orders that cancel_all has still to cancel
    amount,   \* signed amount of the order to submit
    copies,   \* orders the venue made of the submission
    answer,   \* the class of the status returned
    trouble,  \* history: a request of this exit failed
    turned    \* history: the order took the position through flat

alpacaVars == <<kind, held, rests, at, todo, amount, copies, answer, trouble, turned>>

Size(n) == IF n < 0 THEN 0 - n ELSE n
Opposing(order, position) == (position > 0) # (order > 0)
Toward(order, size) == IF order > 0 THEN size ELSE 0 - size

AlpacaInit ==
    /\ held \in Positions /\ rests \in SUBSET Orders
    /\ todo = {} /\ copies = 0 /\ answer = "none" /\ trouble = FALSE /\ turned = FALSE
    /\ \/ kind = "halt" /\ at = "list" /\ amount = 0
       \/ kind = "exit" /\ at = "clamp" /\ held # 0 /\ amount = 0 - held

\* The venue fills a resting order, whole.
RestingFills(order) ==
    /\ order \in rests
    /\ held' = held + order /\ rests' = rests \ {order}
    /\ UNCHANGED <<kind, at, todo, amount, copies, answer, trouble, turned>>

Fails == "transport" \in Troubles /\ trouble' = TRUE

\* open_orders: an error is an empty list.
ListOrders ==
    /\ at = "list" /\ at' = "cancel"
    /\ \/ todo' = rests /\ UNCHANGED trouble
       \/ Fails /\ todo' = {}
    /\ UNCHANGED <<kind, held, rests, amount, copies, answer, turned>>

\* cancel: an order that is gone already (404) counts as cancelled.
Cancel(order) ==
    /\ at = "cancel" /\ order \in todo /\ todo' = todo \ {order}
    /\ \/ rests' = rests \ {order} /\ UNCHANGED trouble
       \/ Fails /\ UNCHANGED rests
    /\ UNCHANGED <<kind, held, at, amount, copies, answer, turned>>

\* Mutant of FlattenReads: the cancellations are not waited for.
FlattenReadsEarly ==
    /\ at = "cancel"
    /\ \/ UNCHANGED trouble /\ amount' = 0 - held
       \/ Fails /\ amount' = 0
    /\ at' = IF amount' = 0 \/ ~HasBook THEN "done" ELSE "clamp"
    /\ UNCHANGED <<kind, held, rests, todo, copies, answer, turned>>

\* position, as flatten asks: an error reads as flat, and flat ends the halt.
FlattenReads ==
    /\ at = "cancel" /\ todo = {}
    /\ \/ UNCHANGED trouble /\ amount' = 0 - held
       \/ Fails /\ amount' = 0
    /\ at' = IF amount' = 0 \/ ~HasBook THEN "done" ELSE "clamp"
    /\ UNCHANGED <<kind, held, rests, todo, copies, answer, turned>>

\* _clamped_to_position.
Clamped(position) ==
    IF position = 0 \/ ~Opposing(amount, position) THEN 0
    ELSE Toward(amount, IF Size(amount) < Size(position) THEN Size(amount) ELSE Size(position))

\* submit reads the position again; with nothing to reduce nothing is sent.
Clamp ==
    /\ at = "clamp"
    /\ \/ UNCHANGED trouble /\ amount' = Clamped(held)
       \/ Fails /\ amount' = Clamped(0)
    /\ IF amount' = 0 THEN at' = "done" /\ answer' = "REJECTED"
       ELSE at' = "post" /\ UNCHANGED answer
    /\ UNCHANGED <<kind, held, rests, todo, copies, turned>>

\* The request reaches the venue and a market order fills there, or not all of
\* it: what an IOC leaves is cancelled.
Post ==
    /\ at = "post" /\ at' = "sent" /\ copies' = 1
    /\ \E size \in 1 .. Size(amount) :
           /\ held' = held + Toward(amount, size)
           /\ trouble' = (trouble \/ size < Size(amount))
    /\ turned' = (held = 0 \/ ~Opposing(amount, held) \/ Size(amount) > Size(held))
    /\ UNCHANGED <<kind, rests, todo, amount, answer>>

PostLost ==
    /\ at = "post" /\ at' = "lost" /\ Fails
    /\ UNCHANGED <<kind, held, rests, todo, amount, copies, answer, turned>>

PostRefused ==
    /\ at = "post" /\ "refused" \in Troubles
    /\ at' = "done" /\ answer' = "REJECTED" /\ trouble' = TRUE
    /\ UNCHANGED <<kind, held, rests, todo, amount, copies, turned>>

\* Mutant of Unanswered: a request without an answer counts as refused.
UnansweredRejects == answer' = "REJECTED"

\* status 0: "saying rejected here would be a guess".
Unanswered == answer' = "UNKNOWN"

\* The answer to the POST: the order, no answer, or an answer of 500 and above
\* from what stands before the venue.
PostAnswered ==
    /\ at \in {"sent", "lost"} /\ at' = "done"
    /\ \/ at = "sent" /\ answer' \in {"ACCEPTED", "UNKNOWN"}
       \/ "transport" \in Troubles /\ Unanswered
       \/ "gateway" \in Troubles /\ answer' = "REJECTED"
    /\ UNCHANGED <<kind, held, rests, todo, amount, copies, trouble, turned>>

AlpacaNext ==
    \/ \E order \in Orders : RestingFills(order) \/ Cancel(order)
    \/ ListOrders \/ FlattenReads \/ Clamp
    \/ Post \/ PostLost \/ PostRefused \/ PostAnswered

AlpacaSpec == AlpacaInit /\ [][AlpacaNext]_alpacaVars

-----------------------------------------------------------------------------
\* The answer is what OrderOutcome promises of it: REJECTED only when the venue
\* has no such order ("Anything unlisted is deliberately UNKNOWN rather than
\* assumed dead").
Promised == INSTANCE OrderOutcome
AnswerIsHonest == Promised!Spec

\* A halt whose requests all succeed, and whose order fills, ends flat with
\* nothing resting, whatever filled while it went on ("Flattening while orders
\* rest lets those orders re-open a position on a halted bot").
HaltEndsFlat ==
    (kind = "halt" /\ at = "done" /\ ~trouble) => held = 0 /\ rests = {} /\ ~turned

\* VIOLATED: a reduce-only order does not take the position through flat ("an
\* exit racing a signal flip cannot overshoot through flat and open the
\* opposite position").  A resting order fills between the clamp and the POST.
NeverThroughFlat == ~turned

\* VIOLATED: a halt that sends nothing has found the venue flat (Broker.position:
\* "Current position as the venue reports it, never as we infer it").  A
\* position that cannot be read is reported as flat.
SilentMeansFlat == [][at = "cancel" /\ at' = "done" => held = 0]_alpacaVars
=============================================================================
