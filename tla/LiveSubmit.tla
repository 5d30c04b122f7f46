------------------------------- MODULE LiveSubmit -------------------------------
(***************************************************************************)
(* One call of LiveBroker.submit (src/src/godalgo/execution/live.py): the  *)
(* notional backstop, the retry loop around create_order, the lookup by    *)
(* client order id after an ambiguous send, and the venue at the other end *)
(* of a network that may lose the request or the reply or deliver a        *)
(* request after its sender has given up on it.                            *)
(*                                                                         *)
(* A request is named by the attempt that sent it.  Every await of the     *)
(* code is the boundary of an action.                                      *)
(***************************************************************************)
EXTENDS Naturals, FiniteSets

CONSTANTS
  MaxRetries,     \* LiveBrokerConfig.max_retries
  Networks        \* the networks and venues a call may meet

\* late: a request may reach the venue after its timeout.  lookupFails: the
\* fetches of the lookup may raise.  slips: an order may leave the fifty most
\* recent closed ones.  dedup: the venue refuses a client order id it has seen.
Network == [late : BOOLEAN, lookupFails : BOOLEAN, slips : BOOLEAN, dedup : BOOLEAN]

ASSUME SubmitAssumption == MaxRetries \in Nat /\ Networks \subseteq Network

VARIABLES
  net,            \* the network and venue of this call
  pc,             \* where submit is suspended
  attempt,        \* the loop variable
  wire,           \* requests between the client and the venue
  booked,         \* requests the venue has turned into an order
  open,           \* those of booked that fetch_open_orders returns
  recent,         \* those of booked that fetch_closed_orders(limit=50) returns
  reply,          \* the venue's verdict on each request, while it can be read
  result          \* the status returned, "none" before the return

submitVars == <<net, pc, attempt, wire, booked, open, recent, reply, result>>
venueVars == <<wire, booked, open, recent, reply>>

Attempts == 0..MaxRetries
Verdicts == {"none", "accepted", "refused"}
\* ACCEPTED is any status of an order the venue knows: OPEN, PARTIALLY_FILLED,
\* FILLED, CANCELED or EXPIRED.  A raw order whose status ccxt leaves out or
\* cannot name is read as UNKNOWN.
ReadAs == {"ACCEPTED", "UNKNOWN"}

Init ==
  /\ net \in Networks
  /\ pc = "backstop"
  /\ attempt = 0
  /\ wire = {} /\ booked = {} /\ open = {} /\ recent = {}
  /\ reply = [a \in Attempts |-> "none"]
  /\ result = "none"

Return(r) == pc' = "done" /\ result' = r

\* A priced order above max_order_notional never leaves the process.
Backstop ==
  /\ pc = "backstop"
  /\ \/ Return("REJECTED")
     \/ pc' = "create" /\ UNCHANGED result
  /\ UNCHANGED <<net, attempt, venueVars>>

\* create_order puts its request on the wire.
Send ==
  /\ pc = "create"
  /\ pc' = "await"
  /\ wire' = wire \cup {attempt}
  /\ UNCHANGED <<net, attempt, booked, open, recent, reply, result>>

\* A request the venue can still act on; cancelling the task that sent it does
\* not call it back.
Deliverable(a) ==
  a \in wire /\ (net.late \/ (pc \in {"await", "abandoned"} /\ a = attempt))

VenueBooks(a) ==
  /\ Deliverable(a)
  /\ net.dedup => booked = {}
  /\ wire' = wire \ {a}
  /\ booked' = booked \cup {a}
  /\ open' = open \cup {a}
  /\ reply' = [reply EXCEPT ![a] = "accepted"]
  /\ UNCHANGED <<net, pc, attempt, recent, result>>

\* A rule of the venue, missing funds, or a client order id seen before.
VenueRefuses(a) ==
  /\ Deliverable(a)
  /\ wire' = wire \ {a}
  /\ reply' = [reply EXCEPT ![a] = "refused"]
  /\ UNCHANGED <<net, pc, attempt, booked, open, recent, result>>

\* An open order is executed or cancelled at the venue.
OrderCloses(a) ==
  /\ a \in open
  /\ open' = open \ {a}
  /\ recent' = recent \cup {a}
  /\ UNCHANGED <<net, pc, attempt, wire, booked, reply, result>>

\* Fifty later orders push it out of the lookup's window.
OrderAges(a) ==
  /\ net.slips
  /\ a \in recent
  /\ recent' = recent \ {a}
  /\ UNCHANGED <<net, pc, attempt, wire, booked, open, reply, result>>

ReadAccepted ==
  /\ pc = "await"
  /\ reply[attempt] = "accepted"
  /\ \E r \in ReadAs : Return(r)
  /\ UNCHANGED <<net, attempt, venueVars>>

\* InvalidOrder, InsufficientFunds and any other ExchangeError.
ReadRefused ==
  /\ pc = "await"
  /\ reply[attempt] = "refused"
  /\ Return("REJECTED")
  /\ UNCHANGED <<net, attempt, venueVars>>

\* Mutant of TimeOut: an ambiguous send is reported as a failed one.
TimeOutRejects ==
  /\ pc = "await"
  /\ Return("REJECTED")
  /\ UNCHANGED <<net, attempt, venueVars>>

\* RequestTimeout or NetworkError: the request or its reply is lost, or late.
TimeOut ==
  /\ pc = "await"
  /\ pc' = "open"
  /\ wire' = IF net.late THEN wire ELSE wire \ {attempt}
  /\ UNCHANGED <<net, attempt, booked, open, recent, reply, result>>

\* _lookup returned None, for whatever reason.
NotFound ==
  IF attempt < MaxRetries THEN pc' = "backoff" /\ UNCHANGED result ELSE Return("UNKNOWN")

\* Mutant of LookupOpen: the closed orders are never asked for.
LookupOpenOnly ==
  /\ pc = "open"
  /\ IF open # {} THEN \E r \in ReadAs : Return(r) ELSE NotFound
  /\ UNCHANGED <<net, attempt, venueVars>>

LookupOpen ==
  /\ pc = "open"
  /\ \/ open # {} /\ \E r \in ReadAs : Return(r)
     \/ open = {} /\ pc' = "closed" /\ UNCHANGED result
     \/ net.lookupFails /\ NotFound
  /\ UNCHANGED <<net, attempt, venueVars>>

LookupClosed ==
  /\ pc = "closed"
  /\ \/ recent # {} /\ \E r \in ReadAs : Return(r)
     \/ recent = {} /\ NotFound
     \/ net.lookupFails /\ NotFound
  /\ UNCHANGED <<net, attempt, venueVars>>

\* Mutant of Retry: the attempt counter is not advanced.
RetryForever ==
  /\ pc = "backoff"
  /\ pc' = "create"
  /\ UNCHANGED <<net, attempt, result, venueVars>>

\* The sleep of 2 ** attempt seconds ends and the loop goes round.
Retry ==
  /\ pc = "backoff"
  /\ pc' = "create"
  /\ attempt' = attempt + 1
  /\ UNCHANGED <<net, result, venueVars>>

\* The decision timeout or the shutdown of the driver cancels the task that is
\* suspended in submit: no status is returned.
Abandon ==
  /\ pc \notin {"backstop", "create", "done", "abandoned"}
  /\ pc' = "abandoned"
  /\ UNCHANGED <<net, attempt, result, venueVars>>

Client ==
  \/ Backstop \/ Send \/ ReadAccepted \/ ReadRefused \/ TimeOut
  \/ LookupOpen \/ LookupClosed \/ Retry

Venue ==
  \E a \in Attempts : VenueBooks(a) \/ VenueRefuses(a) \/ OrderCloses(a) \/ OrderAges(a)

Next == Client \/ Venue \/ Abandon

\* The client's own steps always come: every request has a timeout and every
\* sleep ends.  Nothing is asked of the venue.
Spec == Init /\ [][Next]_submitVars /\ WF_submitVars(Client)

--------------------------------------------------------------------------------

\* The control state, and what the sets of requests range over.
TypeOK ==
  /\ net \in Networks
  /\ pc \in {"backstop", "create", "await", "open", "closed", "backoff", "done", "abandoned"}
  /\ attempt \in Attempts
  /\ wire \subseteq Attempts /\ booked \subseteq Attempts
  /\ open \subseteq booked /\ recent \subseteq booked
  /\ reply \in [Attempts -> Verdicts]
  /\ result \in {"none", "ACCEPTED", "REJECTED", "UNKNOWN"}

\* No request outlives its timeout, and the lookups answer and reach far enough.
Exact == ~net.late /\ ~net.lookupFails /\ ~net.slips

\* Whatever the network and the lookups do, a status that says the order exists
\* is only returned for an order the venue has booked.
AcceptedMeansBooked == result = "ACCEPTED" => booked # {}

\* A rejection of the first attempt is definite even on the worst network: only
\* a resend can make REJECTED wrong.
FirstRejectionIsDefinite ==
  (result = "REJECTED" /\ attempt = 0) => booked = {}

\* Over an exact network no number of retries books an order twice.
ExactBooksOnce == Exact => Cardinality(booked) <= 1

\* Over an exact network a rejected submission left nothing at the venue.
ExactRejectionHolds == Exact => (result = "REJECTED" => booked = {})

\* Every call ends, with a status or by cancellation, after at most
\* max_retries + 1 sends.
Answered == <>(pc \in {"done", "abandoned"})

\* The whole promise, as a refinement of OrderOutcome for the calls made over an
\* exact network.
Outcome == INSTANCE OrderOutcome
             WITH copies <- IF Exact THEN Cardinality(booked) ELSE 0,
                  answer <- IF Exact THEN result ELSE "none"
OutcomeSpec == Outcome!Spec

--------------------------------------------------------------------------------

\* VIOLATED: "Resubmitting blind here is how a position silently doubles": one submission
\* is booked at most once, whatever the network.
AtMostOnce == Cardinality(booked) <= 1

================================================================================
