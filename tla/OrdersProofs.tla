----------------------------- MODULE OrdersProofs -----------------------------
(***************************************************************************)
(* Theorems about the orders that leave the program: one call of           *)
(* LiveBroker.submit (LiveSubmit), for every retry budget, and the halt and*)
(* the submit of AlpacaOrders, for every position and every set of resting *)
(* orders, both against what OrderOutcome promises; and the account of     *)
(* PaperTrading, for every sequence of fills.                              *)
(***************************************************************************)
EXTENDS LiveSubmit, AlpacaOrders, PaperTrading, SetInduction

(* LiveSubmit *)

\* Each attempt is sent once and answered once: a request on the wire has no
\* verdict and no order, and nothing exists of an attempt not yet made.
OneRequestPerAttempt ==
  /\ \A a \in wire : reply[a] = "none" /\ a \notin booked
  /\ \A a \in Attempts : reply[a] = "accepted" => a \in booked
  /\ \A a \in Attempts : reply[a] = "refused" => a \notin booked
  /\ \A a \in wire \cup booked : a <= attempt
  /\ \A a \in Attempts : a > attempt => reply[a] = "none"
  /\ pc \in {"backstop", "create"} =>
       attempt \notin wire /\ attempt \notin booked /\ reply[attempt] = "none"
  /\ pc = "backstop" => attempt = 0
  /\ pc = "backoff" => attempt < MaxRetries

\* What an answer says about the attempt it was given in.
AnswerMeans ==
  /\ pc # "done" => result = "none"
  /\ result = "ACCEPTED" => booked # {}
  /\ (result = "REJECTED") => (attempt \notin wire /\ attempt \notin booked)

SubmitInv == TypeOK /\ OneRequestPerAttempt /\ AnswerMeans

LEMMA SubmitInit == Init => SubmitInv
BY SubmitAssumption
   DEF Init, SubmitInv, TypeOK, OneRequestPerAttempt, AnswerMeans, Attempts, Verdicts

LEMMA ClientStep == SubmitInv /\ Client => SubmitInv'
<1> SUFFICES ASSUME SubmitInv, Client
             PROVE  SubmitInv'
  OBVIOUS
<1> USE SubmitAssumption
        DEF SubmitInv, TypeOK, OneRequestPerAttempt, AnswerMeans, Attempts, Verdicts,
            venueVars, Return
<1>1. CASE Backstop
  BY <1>1 DEF Backstop
<1>2. CASE Send
  BY <1>2 DEF Send
<1>3. CASE ReadAccepted
  BY <1>3 DEF ReadAccepted, ReadAs
<1>4. CASE ReadRefused
  BY <1>4 DEF ReadRefused
<1>5. CASE TimeOut
  BY <1>5 DEF TimeOut
<1>6. CASE LookupOpen
  BY <1>6 DEF LookupOpen, NotFound, ReadAs
<1>7. CASE LookupClosed
  BY <1>7 DEF LookupClosed, NotFound, ReadAs
<1>8. CASE Retry
  BY <1>8 DEF Retry
<1>9. QED
  BY <1>1, <1>2, <1>3, <1>4, <1>5, <1>6, <1>7, <1>8 DEF Client

LEMMA VenueStep == SubmitInv /\ Venue => SubmitInv'
<1> SUFFICES ASSUME SubmitInv, NEW a \in Attempts,
                    VenueBooks(a) \/ VenueRefuses(a) \/ OrderCloses(a) \/ OrderAges(a)
             PROVE  SubmitInv'
  BY DEF Venue
<1> USE SubmitAssumption
        DEF SubmitInv, TypeOK, OneRequestPerAttempt, AnswerMeans, Attempts, Verdicts
<1>1. CASE VenueBooks(a)
  BY <1>1 DEF VenueBooks, Deliverable
<1>2. CASE VenueRefuses(a)
  BY <1>2 DEF VenueRefuses, Deliverable
<1>3. CASE OrderCloses(a)
  BY <1>3 DEF OrderCloses
<1>4. CASE OrderAges(a)
  BY <1>4 DEF OrderAges
<1>5. QED BY <1>1, <1>2, <1>3, <1>4

LEMMA SubmitStep == SubmitInv /\ [Next]_submitVars => SubmitInv'
<1> SUFFICES ASSUME SubmitInv, [Next]_submitVars
             PROVE  SubmitInv'
  OBVIOUS
<1>1. CASE Client
  BY <1>1, ClientStep
<1>2. CASE Venue
  BY <1>2, VenueStep
<1>3. CASE Abandon
  BY <1>3 DEF Abandon, venueVars, SubmitInv, TypeOK, OneRequestPerAttempt, AnswerMeans
<1>4. CASE UNCHANGED submitVars
  BY <1>4 DEF submitVars, SubmitInv, TypeOK, OneRequestPerAttempt, AnswerMeans
<1>5. QED BY <1>1, <1>2, <1>3, <1>4 DEF Next

LEMMA SubmitInvariant == Spec => []SubmitInv
BY SubmitInit, SubmitStep, PTL DEF Spec

\* The control state and the request sets keep their types on any network.
THEOREM SubmitTypeCorrect == Spec => []TypeOK
<1>1. SubmitInv => TypeOK
  BY DEF SubmitInv
<1>2. QED BY SubmitInvariant, <1>1, PTL

\* On any network, with any failing lookup, an order reported as existing has
\* been booked by the venue.
THEOREM AcceptedIsBooked == Spec => []AcceptedMeansBooked
<1>1. SubmitInv => AcceptedMeansBooked
  BY DEF SubmitInv, AnswerMeans, AcceptedMeansBooked
<1>2. QED BY SubmitInvariant, <1>1, PTL

\* On any network a rejection that was not preceded by a resend is definite.
THEOREM FirstRejectionHolds == Spec => []FirstRejectionIsDefinite
<1>1. SubmitInv => FirstRejectionIsDefinite
  BY SubmitAssumption
     DEF SubmitInv, TypeOK, AnswerMeans, OneRequestPerAttempt, FirstRejectionIsDefinite, Attempts
<1>2. QED BY SubmitInvariant, <1>1, PTL

--------------------------------------------------------------------------------

\* When no request outlives its timeout and both lookups answer and reach back
\* far enough, nothing of an earlier attempt is left when the next one starts.
ExactInv ==
  /\ booked \subseteq {attempt} /\ wire \subseteq {attempt}
  /\ booked = open \cup recent
  /\ wire # {} => pc \in {"await", "abandoned"}
  /\ pc \in {"backstop", "create", "backoff"} => booked = {}
  /\ pc = "closed" => open = {}
  /\ result = "REJECTED" => booked = {}
  /\ result \in {"ACCEPTED", "REJECTED"} => pc = "done"

\* The network of a call never changes while the call lasts.
LEMMA NetIsFixed == [Next]_submitVars => net' = net
BY DEF Next, Client, Venue, Backstop, Send, ReadAccepted, ReadRefused, TimeOut, LookupOpen,
       LookupClosed, Retry, Abandon, VenueBooks, VenueRefuses, OrderCloses, OrderAges, submitVars

LEMMA ExactInit == Init => (Exact => ExactInv)
BY DEF Init, ExactInv

LEMMA ExactStep == SubmitInv /\ (Exact => ExactInv) /\ [Next]_submitVars => (Exact => ExactInv)'
<1> SUFFICES ASSUME SubmitInv, Exact => ExactInv, [Next]_submitVars, Exact'
             PROVE  ExactInv'
  OBVIOUS
<1>0. Exact /\ ExactInv
  BY NetIsFixed DEF Exact
<1> USE <1>0 DEF ExactInv, SubmitInv, TypeOK, OneRequestPerAttempt, AnswerMeans, venueVars, Return
<1>1. CASE Backstop
  BY <1>1 DEF Backstop
<1>2. CASE Send
  BY <1>2 DEF Send
<1>3. CASE ReadAccepted
  BY <1>3 DEF ReadAccepted, ReadAs
<1>4. CASE ReadRefused
  BY <1>4 DEF ReadRefused
<1>5. CASE TimeOut
  BY <1>5 DEF TimeOut, Exact
<1>6. CASE LookupOpen
  BY <1>6 DEF LookupOpen, NotFound, ReadAs, Exact
<1>7. CASE LookupClosed
  BY <1>7 DEF LookupClosed, NotFound, ReadAs, Exact
<1>8. CASE Retry
  BY <1>8 DEF Retry
<1>9. CASE Venue
  <2> SUFFICES ASSUME NEW a \in Attempts,
                      VenueBooks(a) \/ VenueRefuses(a) \/ OrderCloses(a) \/ OrderAges(a)
               PROVE  ExactInv'
    BY <1>9 DEF Venue
  <2>1. CASE VenueBooks(a)
    BY <2>1 DEF VenueBooks, Deliverable, Exact
  <2>2. CASE VenueRefuses(a)
    BY <2>2 DEF VenueRefuses, Deliverable, Exact
  <2>3. CASE OrderCloses(a)
    BY <2>3 DEF OrderCloses
  <2>4. CASE OrderAges(a)
    BY <2>4 DEF OrderAges, Exact
  <2>5. QED BY <2>1, <2>2, <2>3, <2>4
<1>10. CASE Abandon
  BY <1>10 DEF Abandon
<1>11. CASE UNCHANGED submitVars
  BY <1>11 DEF submitVars
<1>12. QED
  BY <1>1, <1>2, <1>3, <1>4, <1>5, <1>6, <1>7, <1>8, <1>9, <1>10, <1>11 DEF Next, Client

LEMMA ExactInvariant == Spec => [](Exact => ExactInv)
BY ExactInit, ExactStep, SubmitInvariant, PTL DEF Spec

\* At most one request is booked, as a cardinality.
LEMMA SingletonCard ==
  ASSUME NEW S, NEW x, S \subseteq {x}
  PROVE  /\ Cardinality(S) \in {0, 1}
         /\ Cardinality(S) = 0 <=> S = {}
         /\ Cardinality(S) = 1 <=> S # {}
<1>1. S = {} \/ S = {x}
  OBVIOUS
<1>2. Cardinality({}) = 0 /\ Cardinality({x}) = 1
  BY FS_EmptySet, FS_Singleton
<1>3. QED BY <1>1, <1>2

\* With an exact network and exact lookups, retrying never books an order twice.
THEOREM ExactSubmitsOnce == Spec => []ExactBooksOnce
<1>1. (Exact => ExactInv) => ExactBooksOnce
  <2> SUFFICES ASSUME ExactInv
               PROVE  Cardinality(booked) <= 1
    BY DEF ExactBooksOnce
  <2>1. Cardinality(booked) \in {0, 1}
    BY SingletonCard DEF ExactInv
  <2>2. QED BY <2>1
<1>2. QED BY ExactInvariant, <1>1, PTL

\* With an exact network and exact lookups, a rejection means nothing is live.
THEOREM ExactRejectionIsFinal == Spec => []ExactRejectionHolds
<1>1. (Exact => ExactInv) => ExactRejectionHolds
  BY DEF ExactInv, ExactRejectionHolds
<1>2. QED BY ExactInvariant, <1>1, PTL

--------------------------------------------------------------------------------

\* Over an exact network, one step of submit is a step of the promise, or
\* invisible to it.
LEMMA OutcomeStep ==
  ASSUME Exact, Exact', SubmitInv, ExactInv, ExactInv', [Next]_submitVars
  PROVE  [Outcome!Next]_(Outcome!outcomeVars)
<1> DEFINE n == Cardinality(booked)
<1>1. /\ n \in {0, 1} /\ (n = 0 <=> booked = {}) /\ (n = 1 <=> booked # {})
      /\ n' \in {0, 1} /\ (n' = 0 <=> booked' = {}) /\ (n' = 1 <=> booked' # {})
  BY SingletonCard DEF ExactInv
<1>2. CASE booked' = booked /\ result' = result
  BY <1>2 DEF Outcome!outcomeVars
<1>3. CASE booked' = booked /\ result' # result
  <2>1. result = "none" /\ result' \in {"ACCEPTED", "REJECTED", "UNKNOWN"}
    BY <1>3 DEF Next, Client, Venue, Backstop, Send, ReadAccepted, ReadRefused, TimeOut,
       LookupOpen, LookupClosed, NotFound, Retry, Return, ReadAs, Abandon, VenueBooks,
       VenueRefuses, OrderCloses, OrderAges, submitVars, SubmitInv, AnswerMeans
  <2>2. (result' = "REJECTED" => booked = {})
    BY <1>3 DEF ExactInv
  <2>3. result' = "ACCEPTED" => booked # {}
    BY <1>3, SubmitStep DEF SubmitInv, AnswerMeans
  <2>4. n' = n
    BY <1>3
  <2> HIDE DEF n
  <2>5. Outcome!Answer(result')
    BY <1>1, <2>1, <2>2, <2>3, <2>4 DEF Outcome!Answer, n
  <2>6. QED
    BY <2>1, <2>5 DEF Outcome!Next, Outcome!Answers
<1>4. CASE booked' # booked
  <2>1. PICK a \in Attempts : VenueBooks(a)
    BY <1>4 DEF Next, Client, Venue, Backstop, Send, ReadAccepted, ReadRefused, TimeOut,
       LookupOpen, LookupClosed, Retry, Abandon, VenueRefuses, OrderCloses, OrderAges,
       submitVars, venueVars
  <2>2. a \in wire /\ wire \subseteq {attempt} /\ booked \subseteq {attempt}
    BY <2>1 DEF VenueBooks, Deliverable, ExactInv
  <2>3. a \notin booked
    BY <2>2 DEF SubmitInv, OneRequestPerAttempt
  <2>4. booked = {} /\ booked' # {} /\ result' = result
    BY <2>1, <2>2, <2>3 DEF VenueBooks
  <2>5. result = "none"
    BY <2>2 DEF ExactInv, SubmitInv, AnswerMeans
  <2>6. Outcome!Book
    BY <1>1, <2>4, <2>5 DEF Outcome!Book
  <2>7. QED BY <2>6 DEF Outcome!Next
<1>5. QED BY <1>2, <1>3, <1>4

\* The retry loop keeps the promise of OrderOutcome whenever the network and the
\* lookups are exact: every step maps to a booking, an answer or nothing.
THEOREM ExactRefinesOutcome == Spec => OutcomeSpec
<1>1. Init => Outcome!Init
  BY FS_EmptySet DEF Init, Outcome!Init
<1>2. SubmitInv /\ (Exact => ExactInv) /\ (Exact => ExactInv)' /\ [Next]_submitVars
        => [Outcome!Next]_(Outcome!outcomeVars)
  <2> SUFFICES ASSUME SubmitInv, Exact => ExactInv, (Exact => ExactInv)', [Next]_submitVars
               PROVE  [Outcome!Next]_(Outcome!outcomeVars)
    OBVIOUS
  <2>1. Exact' = Exact
    BY NetIsFixed DEF Exact
  <2>2. CASE Exact
    BY <2>1, <2>2, OutcomeStep
  <2>3. CASE ~Exact
    BY <2>1, <2>3 DEF Outcome!outcomeVars
  <2>4. QED BY <2>2, <2>3
<1>3. QED
  BY <1>1, <1>2, SubmitInvariant, ExactInvariant, PTL DEF Spec, OutcomeSpec, Outcome!Spec

--------------------------------------------------------------------------------
(* AlpacaOrders *)

\* The halt in numbers: the cancellations cover what rests, the order covers what
\* is held once nothing rests, and what it leaves is nothing.
Undisturbed ==
  /\ at = "cancel" => rests \subseteq todo
  /\ at \in {"clamp", "post"} => rests = {} /\ held # 0 /\ amount = 0 - held
  /\ at \in {"sent", "done"} => rests = {} /\ held = 0
  /\ at # "lost" /\ ~turned

HaltInv ==
  /\ held \in Int /\ amount \in Int
  /\ rests \subseteq Orders
  /\ kind = "halt" /\ ~trouble => Undisturbed

LEMMA HaltInitially == AlpacaInit => HaltInv
BY AlpacaAssumption DEF AlpacaInit, HaltInv, Undisturbed

LEMMA TowardIsInt ==
  ASSUME NEW order \in Int, NEW size \in Int
  PROVE  Toward(order, size) \in Int
BY DEF Toward

LEMMA SizeIsNat ==
  ASSUME NEW n \in Int
  PROVE  Size(n) \in Nat /\ Toward(n, Size(n)) = n
BY DEF Size, Toward

\* The clamp lets an order through whole that closes exactly what is held.
LEMMA ExactCloseUnclamped ==
  ASSUME NEW n \in Int, n # 0, amount = 0 - n
  PROVE  /\ Opposing(amount, n) /\ Size(amount) = Size(n)
         /\ Clamped(n) = amount
<1>1. amount \in Int /\ Size(amount) = Size(n) /\ Size(n) \in Nat
  BY DEF Size
<1>2. Opposing(amount, n)
  <2>1. CASE n > 0
    BY <2>1 DEF Opposing
  <2>2. CASE ~(n > 0)
    BY <2>2 DEF Opposing
  <2>3. QED BY <2>1, <2>2
<1>3. Toward(amount, Size(amount)) = amount
  BY <1>1, SizeIsNat
<1>4. Clamped(n) = Toward(amount, Size(n))
  BY <1>1, <1>2 DEF Clamped
<1>5. QED BY <1>1, <1>2, <1>3, <1>4

LEMMA ClampedIsInt ==
  ASSUME amount \in Int, NEW position \in Int
  PROVE  Clamped(position) \in Int
<1>1. Size(amount) \in Int /\ Size(position) \in Int
  BY SizeIsNat
<1>2. Toward(amount, Size(amount)) \in Int /\ Toward(amount, Size(position)) \in Int
  BY <1>1, TowardIsInt
<1>3. QED BY <1>2 DEF Clamped

LEMMA HaltStep == HasBook /\ HaltInv /\ [AlpacaNext]_alpacaVars => HaltInv'
<1> SUFFICES ASSUME HasBook, HaltInv, [AlpacaNext]_alpacaVars
             PROVE  HaltInv'
  OBVIOUS
<1> USE AlpacaAssumption
<1>1. CASE \E order \in Orders : RestingFills(order)
  <2>1. PICK order \in Orders : RestingFills(order)
    BY <1>1
  <2>2. rests # {} /\ held' \in Int
    BY <2>1 DEF RestingFills, HaltInv
  <2>3. UNCHANGED <<kind, at, todo, amount, trouble, turned>> /\ rests' \subseteq rests
    BY <2>1 DEF RestingFills
  <2>4. Undisturbed => Undisturbed'
    BY <2>2, <2>3 DEF Undisturbed
  <2>5. QED BY <2>2, <2>3, <2>4 DEF HaltInv
<1>2. CASE \E order \in Orders : Cancel(order)
  <2>1. PICK order \in Orders : Cancel(order)
    BY <1>2
  <2>2. UNCHANGED <<kind, held, at, amount, turned>> /\ rests' \subseteq rests
    BY <2>1 DEF Cancel
  <2>3. ~trouble' => ~trouble /\ (rests \subseteq todo => rests' \subseteq todo')
    BY <2>1 DEF Cancel, Fails
  <2>4. Undisturbed /\ ~trouble' => Undisturbed'
    BY <2>2, <2>3 DEF Undisturbed
  <2>5. QED BY <2>2, <2>3, <2>4 DEF HaltInv
<1>3. CASE ListOrders
  BY <1>3 DEF ListOrders, Fails, HaltInv, Undisturbed
<1>4. CASE FlattenReads
  <2>1. CASE trouble' = trouble /\ amount' = 0 - held
    BY <1>4, <2>1 DEF FlattenReads, HaltInv, Undisturbed
  <2>2. CASE trouble' = TRUE /\ amount' = 0
    BY <1>4, <2>2 DEF FlattenReads, HaltInv, Undisturbed
  <2>3. QED BY <1>4, <2>1, <2>2 DEF FlattenReads, Fails
<1>5. CASE Clamp
  <2>1. CASE trouble' = trouble /\ amount' = Clamped(held)
    <3>1. amount' \in Int
      BY <2>1, ClampedIsInt DEF HaltInv
    <3>2. held # 0 /\ amount = 0 - held => amount' = amount
      BY <2>1, ExactCloseUnclamped DEF HaltInv
    <3>3. QED BY <1>5, <2>1, <3>1, <3>2 DEF Clamp, HaltInv, Undisturbed
  <2>2. CASE trouble' = TRUE /\ amount' = Clamped(0)
    BY <1>5, <2>2, ClampedIsInt DEF Clamp, HaltInv, Undisturbed
  <2>3. QED BY <1>5, <2>1, <2>2 DEF Clamp, Fails
<1>6. CASE Post
  <2>1. PICK size \in 1 .. Size(amount) :
             /\ held' = held + Toward(amount, size)
             /\ trouble' = (trouble \/ size < Size(amount))
    BY <1>6 DEF Post
  <2>2. size \in Int /\ held' \in Int
    BY <2>1, TowardIsInt, SizeIsNat DEF HaltInv
  <2>3. ASSUME kind' = "halt", ~trouble'
        PROVE  Undisturbed'
    <3>1. kind = "halt" /\ ~trouble /\ at = "post" /\ ~(size < Size(amount))
      BY <1>6, <2>1, <2>3 DEF Post
    <3>2. rests = {} /\ held # 0 /\ amount = 0 - held
      BY <3>1 DEF HaltInv, Undisturbed
    <3>3. size = Size(amount)
      BY <2>1, <3>1, SizeIsNat DEF HaltInv
    <3>4. held' = 0
      BY <2>1, <3>2, <3>3, SizeIsNat DEF HaltInv
    <3>5. ~turned'
      <4>1. Opposing(amount, held) /\ Size(amount) = Size(held)
        BY <3>2, ExactCloseUnclamped DEF HaltInv
      <4>2. ~(Size(amount) > Size(held))
        BY <4>1, SizeIsNat DEF HaltInv
      <4>3. turned' = (held = 0 \/ ~Opposing(amount, held) \/ Size(amount) > Size(held))
        BY <1>6 DEF Post
      <4>4. QED BY <3>2, <4>1, <4>2, <4>3
    <3>6. at' = "sent" /\ rests' = {}
      BY <1>6, <3>2 DEF Post
    <3>7. QED BY <3>4, <3>5, <3>6 DEF Undisturbed
  <2>4. QED BY <1>6, <2>2, <2>3 DEF Post, HaltInv
<1>7. CASE PostLost \/ PostRefused
  BY <1>7 DEF PostLost, PostRefused, Fails, HaltInv, Undisturbed
<1>8. CASE PostAnswered
  BY <1>8 DEF PostAnswered, Unanswered, HaltInv, Undisturbed
<1>9. CASE UNCHANGED alpacaVars
  BY <1>9 DEF alpacaVars, HaltInv, Undisturbed
<1>10. QED
  BY <1>1, <1>2, <1>3, <1>4, <1>5, <1>6, <1>7, <1>8, <1>9 DEF AlpacaNext

\* An engine with a book snapshot whose requests succeed and whose order fills
\* ends its halt flat with nothing resting, whatever was held, whatever rested and
\* whatever of it filled meanwhile.  Without a snapshot flatten sends nothing.
THEOREM UndisturbedHaltEndsFlat ==
  ASSUME HasBook
  PROVE  AlpacaSpec => []HaltEndsFlat
<1>1. HaltInv => HaltEndsFlat
  BY DEF HaltInv, Undisturbed, HaltEndsFlat
<1>2. HaltInv /\ [AlpacaNext]_alpacaVars => HaltInv'
  BY HaltStep
<1>3. QED
  BY HaltInitially, <1>1, <1>2, PTL DEF AlpacaSpec

--------------------------------------------------------------------------------

\* Before the POST the venue has no order, after it it has one, and the answer
\* comes last.
AnswerInv ==
  /\ at \in {"list", "cancel", "clamp", "post", "lost"} => copies = 0 /\ answer = "none"
  /\ at = "sent" => copies = 1 /\ answer = "none"
  /\ at \in {"list", "cancel", "clamp", "post", "lost", "sent", "done"}

LEMMA AnswerStep ==
  ASSUME "gateway" \notin Troubles, AnswerInv, [AlpacaNext]_alpacaVars
  PROVE  AnswerInv' /\ [Promised!Next]_(Promised!outcomeVars)
<1>1. CASE UNCHANGED <<copies, answer>> /\ AnswerInv'
  BY <1>1 DEF Promised!outcomeVars
<1>2. CASE \E order \in Orders : RestingFills(order) \/ Cancel(order)
  BY <1>1, <1>2 DEF RestingFills, Cancel, AnswerInv
<1>3. CASE ListOrders \/ FlattenReads \/ PostLost
  BY <1>1, <1>3 DEF ListOrders, FlattenReads, PostLost, AnswerInv
<1>4. CASE Clamp
  <2>1. CASE amount' = 0
    <3>1. Promised!Answer("REJECTED") /\ AnswerInv'
      BY <1>4, <2>1 DEF Clamp, AnswerInv, Promised!Answer
    <3>2. QED BY <3>1 DEF Promised!Next, Promised!Answers
  <2>2. CASE amount' # 0
    BY <1>1, <1>4, <2>2 DEF Clamp, AnswerInv
  <2>3. QED BY <2>1, <2>2
<1>5. CASE Post
  <2>1. Promised!Book /\ AnswerInv'
    BY <1>5 DEF Post, AnswerInv, Promised!Book
  <2>2. QED BY <2>1 DEF Promised!Next
<1>6. CASE PostRefused
  <2>1. Promised!Answer("REJECTED") /\ AnswerInv'
    BY <1>6 DEF PostRefused, AnswerInv, Promised!Answer
  <2>2. QED BY <2>1 DEF Promised!Next, Promised!Answers
<1>7. CASE PostAnswered
  <2>1. Promised!Answer(answer') /\ answer' \in {"ACCEPTED", "UNKNOWN"} /\ AnswerInv'
    BY <1>7 DEF PostAnswered, Unanswered, AnswerInv, Promised!Answer
  <2>2. QED BY <2>1 DEF Promised!Next, Promised!Answers
<1>8. CASE UNCHANGED alpacaVars
  BY <1>1, <1>8 DEF alpacaVars, AnswerInv
<1>9. QED
  BY <1>2, <1>3, <1>4, <1>5, <1>6, <1>7, <1>8 DEF AlpacaNext

\* With no gateway that answers 500 for the venue, one call of submit keeps the
\* promise of OrderOutcome: a request that was lost or never answered is UNKNOWN,
\* and REJECTED is said only of an order the venue has not.
THEOREM AnswersKeepThePromise ==
  ASSUME "gateway" \notin Troubles
  PROVE  AlpacaSpec => AnswerIsHonest
<1>1. AlpacaInit => AnswerInv /\ Promised!Init
  BY DEF AlpacaInit, AnswerInv, Promised!Init
<1>2. AnswerInv /\ [AlpacaNext]_alpacaVars
        => AnswerInv' /\ [Promised!Next]_(Promised!outcomeVars)
  BY AnswerStep
<1>3. QED
  BY <1>1, <1>2, PTL DEF AlpacaSpec, AnswerIsHonest, Promised!Spec

--------------------------------------------------------------------------------
(* PaperTrading *)

OrderRecords == [signed : Int, price : Int, reduceOnly : BOOLEAN]
BookRecords == [bid : Int, ask : Int]
AccountRecords == [cash : Int, realised : Int, quantity : Int, entry : Int, den : Int]

\* What the fills have paid and realised, less what the position has cost, is what
\* went through the account, until a fill turns the position over.
Balanced(a, paid, over) ==
  ~over => a.den * (a.cash - (Start + paid)) + a.realised = a.quantity * a.entry

\* Accounts with their history that balance, and the orders that on_book leaves.
BalancedStates ==
  {st \in [account : AccountRecords, flow : Int, crossed : BOOLEAN, left : Seq(OrderRecords)] :
     Balanced(st.account, st.flow, st.crossed)}

PaperInv ==
  /\ State \in BalancedStates
  /\ resting \in Seq(OrderRecords)
  /\ book \in BookRecords /\ engineBook \in BookRecords

LEMMA Composed ==
  ASSUME NEW a \in AccountRecords, NEW paid \in Int, NEW over \in BOOLEAN,
         NEW left \in Seq(OrderRecords), Balanced(a, paid, over)
  PROVE  [account |-> a, flow |-> paid, crossed |-> over, left |-> left] \in BalancedStates
BY DEF BalancedStates

\* _fill of any order at any price keeps the balance.
LEMMA FillBalances ==
  ASSUME NEW st \in BalancedStates, NEW order, order.signed \in Int, NEW price \in Int
  PROVE  Filled(st, order, price) \in BalancedStates
<1> DEFINE a == st.account
           s == order.signed
           q == a.quantity
           k == a.cash - (Start + st.flow)
           fee == Fee * Abs(s)
           new == Filled(st, order, price)
           after == EntryAfter(a, s, price)
           b == new.account
           r == Realised(a, s, price)
<1>1. /\ a \in AccountRecords /\ st.flow \in Int /\ st.crossed \in BOOLEAN
      /\ st.left \in Seq(OrderRecords) /\ Balanced(a, st.flow, st.crossed)
      /\ st = [account |-> a, flow |-> st.flow, crossed |-> st.crossed, left |-> st.left]
  BY DEF BalancedStates
<1>2. /\ a.cash \in Int /\ a.realised \in Int /\ q \in Int /\ a.entry \in Int /\ a.den \in Int
      /\ Start \in Int /\ Fee \in Int /\ Abs(s) \in Int /\ Abs(q) \in Int /\ k \in Int
      /\ fee \in Int /\ s \in Int
  <2>1. a.cash \in Int /\ a.realised \in Int /\ q \in Int /\ a.entry \in Int /\ a.den \in Int
    <3> HIDE DEF a
    <3> QED BY <1>1 DEF AccountRecords
  <2>2. Start \in Int /\ Fee \in Int /\ s \in Int /\ st.flow \in Int
    BY <1>1, PaperAssumption
  <2>3. Abs(s) \in Int /\ Abs(q) \in Int
    BY <2>1, <2>2 DEF Abs
  <2> HIDE DEF a, s, q
  <2>4. k \in Int /\ fee \in Int BY <2>1, <2>2, <2>3
  <2>5. QED BY <2>1, <2>2, <2>3, <2>4
<1>3. /\ b = [cash |-> a.cash - fee, realised |-> after.realised, quantity |-> q + s,
              entry |-> after.entry, den |-> after.den]
      /\ new.flow = st.flow - s * price - fee
      /\ new.crossed = (\/ st.crossed \/ (q # 0 /\ ~SameSide(q, s) /\ Abs(s) > Abs(q)))
      /\ new.left = st.left
      /\ new = [account |-> b, flow |-> new.flow, crossed |-> new.crossed, left |-> new.left]
  BY DEF Filled
<1>4. s * price \in Int /\ price * a.den \in Int
  BY <1>2
<1>5. r \in Int
  <2>1. Sign(q) \in Int /\ Lesser(Abs(s), Abs(q)) \in Int /\ price * a.den - a.entry \in Int
    BY <1>2, <1>4 DEF Sign, Lesser
  <2>2. Sign(q) * Lesser(Abs(s), Abs(q)) * (price * a.den - a.entry) \in Int
    BY <2>1
  <2>3. QED BY <2>2 DEF Realised
<1>6. b.cash - (Start + new.flow) = k + s * price
  <2>1. b.cash = a.cash - fee /\ new.flow = st.flow - s * price - fee
    BY <1>3
  <2> DEFINE v == s * price
             c == a.cash
             f == st.flow
  <2>2. v \in Int /\ c \in Int /\ f \in Int /\ fee \in Int /\ Start \in Int
    BY <1>1, <1>2, <1>4
  <2>3. k = c - (Start + f) /\ b.cash = c - fee /\ new.flow = f - v - fee
    BY <2>1
  <2> HIDE DEF fee, a, s, b, new, v, c, f, k
  <2>4. (c - fee) - (Start + (f - v - fee)) = (c - (Start + f)) + v
    BY <2>2
  <2>5. b.cash - (Start + new.flow) = k + v
    BY <2>3, <2>4
  <2>6. QED BY <2>5 DEF v
<1>7. ASSUME b \in AccountRecords, ~new.crossed => Balanced(b, new.flow, new.crossed)
      PROVE  new \in BalancedStates
  <2>1. new.flow \in Int
    <3>1. new.flow = st.flow - s * price - fee BY <1>3
    <3> HIDE DEF fee, s, new
    <3> QED BY <1>1, <1>2, <1>4, <3>1
  <2>2. new.crossed \in BOOLEAN /\ new.left \in Seq(OrderRecords)
    <3> HIDE DEF fee, a, b
    <3> QED BY <1>1, <1>3 DEF SameSide
  <2>3. Balanced(b, new.flow, new.crossed)
    BY <1>7 DEF Balanced
  <2> HIDE DEF new, b
  <2>4. [account |-> b, flow |-> new.flow, crossed |-> new.crossed, left |-> new.left]
          \in BalancedStates
    BY <1>7, <2>1, <2>2, <2>3, Composed
  <2>5. QED BY <1>3, <2>4, Zenon
<1>8. ASSUME a.den * k + a.realised = q * a.entry,
              r = (-s) * (price * a.den - a.entry)
       PROVE  a.den * (k + s * price) + (a.realised + r) = (q + s) * a.entry
  <2> DEFINE d == a.den
             e == a.entry
             g == a.realised
             v == s * price
             w == price * d
  <2>1. /\ d \in Int /\ e \in Int /\ g \in Int /\ v \in Int /\ w \in Int /\ s \in Int
        /\ q \in Int /\ k \in Int /\ price \in Int /\ d * k + g = q * e
        /\ r = (-s) * (w - e)
    BY <1>2, <1>4, <1>8
  <2>2. d * v = s * w
    <3> HIDE DEF d
    <3> QED BY <2>1
  <2> HIDE DEF a, s, q, k, r, d, e, g, v, w
  <2>3. d * (k + v) = d * k + d * v /\ (-s) * (w - e) = s * e - s * w
        /\ (q + s) * e = q * e + s * e
    BY <2>1
  <2>4. /\ d * k \in Int /\ d * v \in Int /\ s * e \in Int /\ s * w \in Int /\ q * e \in Int
    BY <2>1
  <2>5. d * (k + v) + (g + r) = (q + s) * e
    BY <2>1, <2>2, <2>3, <2>4
  <2>6. QED BY <2>5 DEF d, e, g, v
<1>9. CASE q + s = 0
  <2>1. after = [entry |-> 0, realised |-> a.realised + r, den |-> a.den]
    BY <1>9 DEF EntryAfter
  <2>2. b \in AccountRecords
    BY <1>2, <1>3, <1>5, <2>1 DEF AccountRecords
  <2>3. ASSUME ~new.crossed PROVE Balanced(b, new.flow, new.crossed)
    <3>1. a.den * k + a.realised = q * a.entry
      BY <1>1, <1>3, <2>3 DEF Balanced
    <3>2. r = (-s) * (price * a.den - a.entry)
      <4>1. CASE q = 0
        <5>1. s = 0 BY <1>2, <1>9, <4>1
        <5>2. r = 0 BY <4>1 DEF Realised
        <5>3. price * a.den - a.entry \in Int BY <1>2, <1>4
        <5>4. QED BY <5>1, <5>2, <5>3
      <4>2. CASE q # 0
        <5>1. ~SameSide(q, s) BY <1>2, <1>9, <4>2 DEF SameSide
        <5>2. Sign(q) * Lesser(Abs(s), Abs(q)) = -s
          BY <1>2, <1>9, <4>2 DEF Sign, Lesser, Abs
        <5>3. QED BY <4>2, <5>1, <5>2 DEF Realised
      <4>3. QED BY <4>1, <4>2
    <3>3. a.den * (k + s * price) + (a.realised + r) = (q + s) * a.entry
      BY <3>1, <3>2, <1>8
    <3>4. (q + s) * a.entry = 0 /\ (q + s) * 0 = 0
      <4>1. a.entry \in Int /\ q + s = 0 BY <1>2, <1>9
      <4> HIDE DEF a, q, s
      <4> QED BY <4>1
    <3>5. QED BY <1>3, <1>6, <2>1, <3>3, <3>4 DEF Balanced
  <2>4. QED BY <1>7, <2>2, <2>3
<1>10. CASE q + s # 0 /\ (q = 0 \/ SameSide(q, s))
  <2> DEFINE m == Abs(q)
             n == Abs(s)
  <2>1. r = 0 BY <1>10 DEF Realised
  <2>2. after = [entry |-> m * a.entry + n * (price * a.den),
                 realised |-> (a.realised + r) * (m + n), den |-> a.den * (m + n)]
    BY <1>10 DEF EntryAfter
  <2>3. /\ m * a.entry + n * (price * a.den) \in Int /\ a.realised * (m + n) \in Int
        /\ a.den * (m + n) \in Int /\ a.realised + r = a.realised
    BY <1>2, <1>4, <2>1
  <2>4. b \in AccountRecords
    BY <1>2, <1>3, <2>2, <2>3 DEF AccountRecords
  <2>5. ASSUME ~new.crossed PROVE Balanced(b, new.flow, new.crossed)
    <3>1. a.den * k + a.realised = q * a.entry
      BY <1>1, <1>3, <2>5 DEF Balanced
    <3>2. (q + s) * m = (m + n) * q /\ (q + s) * n = (m + n) * s
      <4>1. (m = q /\ n = s) \/ (m = -q /\ n = -s) \/ (q = 0 /\ m = 0)
        <5>1. q \in Int /\ s \in Int BY <1>2
        <5> HIDE DEF q, s
        <5> QED BY <5>1, <1>10 DEF SameSide, Abs
      <4>2. CASE m = q /\ n = s BY <1>2, <4>2
      <4>3. CASE m = -q /\ n = -s BY <1>2, <4>3
      <4>4. CASE q = 0 /\ m = 0
        <5>1. n \in Int /\ s \in Int BY <1>2
        <5>2. (q + s) * m = 0 /\ (m + n) * q = 0 /\ q + s = s /\ m + n = n
          BY <4>4, <5>1
        <5>3. s * n = n * s BY <5>1
        <5>4. QED BY <5>2, <5>3
      <4>5. QED BY <4>1, <4>2, <4>3, <4>4
    <3>3. (a.den * (m + n)) * (k + s * price) + a.realised * (m + n)
            = (q + s) * (m * a.entry + n * (price * a.den))
      <4>1. /\ k \in Int /\ a.realised \in Int /\ q \in Int /\ a.entry \in Int
            /\ a.den \in Int /\ s \in Int /\ price \in Int /\ m \in Int /\ n \in Int
        BY <1>2
      <4> HIDE DEF k, m, n, a, q, s
      <4> DEFINE t == m + n
                 d == a.den
                 e == a.entry
                 g == a.realised
                 v == s * price
                 w == price * d
      <4>2. t \in Int /\ d \in Int /\ e \in Int /\ g \in Int /\ v \in Int /\ w \in Int
        BY <4>1
      <4>3. d * k + g = q * e /\ (q + s) * m = t * q /\ (q + s) * n = t * s
        BY <3>1, <3>2
      <4>4. t * (d * k + g) = (t * q) * e
        <5>1. t * (q * e) = (t * q) * e
          <6> HIDE DEF t, e
          <6> QED BY <4>1, <4>2
        <5>2. QED BY <4>3, <5>1
      <4>5. (t * s) * w = t * (v * d)
        <5> HIDE DEF t, d
        <5> QED BY <4>1, <4>2
      <4> HIDE DEF t, d, e, g, v, w
      <4>6. (q + s) * (m * e + n * w) = ((q + s) * m) * e + ((q + s) * n) * w
        BY <4>1, <4>2
      <4>7. (d * t) * (k + v) + g * t = t * (d * k + g) + t * (v * d)
        BY <4>1, <4>2
      <4>8. (d * t) * (k + v) + g * t = (q + s) * (m * e + n * w)
        BY <4>3, <4>4, <4>5, <4>6, <4>7
      <4>9. QED BY <4>8 DEF t, d, e, g, v, w
    <3>4. QED BY <1>3, <1>6, <2>2, <2>3, <3>3 DEF Balanced
  <2>6. QED BY <1>7, <2>4, <2>5
<1>11. CASE q + s # 0 /\ q # 0 /\ ~SameSide(q, s)
  <2>1. after = [entry |-> a.entry, realised |-> a.realised + r, den |-> a.den]
    BY <1>11 DEF EntryAfter
  <2>2. b \in AccountRecords
    BY <1>2, <1>3, <1>5, <2>1 DEF AccountRecords
  <2>3. ASSUME ~new.crossed PROVE Balanced(b, new.flow, new.crossed)
    <3>1. a.den * k + a.realised = q * a.entry
      BY <1>1, <1>3, <2>3 DEF Balanced
    <3>2. r = (-s) * (price * a.den - a.entry)
      <4>1. ~(Abs(s) > Abs(q)) BY <1>3, <1>11, <2>3
      <4>2. Sign(q) * Lesser(Abs(s), Abs(q)) = -s
        BY <1>2, <1>11, <4>1 DEF Sign, Lesser, Abs, SameSide
      <4>3. QED BY <1>11, <4>2 DEF Realised
    <3>3. a.den * (k + s * price) + (a.realised + r) = (q + s) * a.entry
      BY <3>1, <3>2, <1>8
    <3>4. QED BY <1>3, <1>6, <2>1, <3>3 DEF Balanced
  <2>4. QED BY <1>7, <2>2, <2>3
<1>12. QED
  BY <1>9, <1>10, <1>11


LEMMA VisitBalances ==
  ASSUME NEW st \in BalancedStates, NEW order \in OrderRecords, NEW b
  PROVE  Visited(st, order, b) \in BalancedStates
<1>1. CASE Crosses(order, b)
  <2>1. order.signed \in Int /\ order.price \in Int BY DEF OrderRecords
  <2>2. QED BY <1>1, <2>1, FillBalances DEF Visited
<1>2. CASE ~Crosses(order, b)
  <2> DEFINE a == st.account
             paid == st.flow
             over == st.crossed
             left == Append(st.left, order)
  <2>1. /\ a \in AccountRecords /\ paid \in Int /\ over \in BOOLEAN
        /\ left \in Seq(OrderRecords) /\ Balanced(a, paid, over)
    BY DEF BalancedStates
  <2>2. Visited(st, order, b) = [account |-> a, flow |-> paid, crossed |-> over, left |-> left]
    BY <1>2 DEF Visited, BalancedStates
  <2> HIDE DEF a, paid, over, left
  <2>3. [account |-> a, flow |-> paid, crossed |-> over, left |-> left] \in BalancedStates
    BY <2>1, Composed
  <2>4. QED BY <2>2, <2>3, Zenon
<1>3. QED BY <1>1, <1>2

\* The loop of on_book over any list of resting orders.
LEMMA LoopBalances ==
  ASSUME NEW b, State \in BalancedStates, resting \in Seq(OrderRecords)
  PROVE  Swept(b) \in BalancedStates
<1> DEFINE st == State
           orders == resting
           n == Len(orders)
           V == BalancedStates
           H == [i \in 1..n |-> [v \in V |-> Visited(v, orders[i], b)]]
           Fold(g) == g = [T \in SUBSET (1..n) |->
                             IF T = {} THEN st
                             ELSE Visited(g[T \ {LastOf(T)}], orders[LastOf(T)], b)]
           g0 == CHOOSE g : Fold(g)
<1>1. n \in Nat /\ st \in V /\ DOMAIN orders = 1..n
  OBVIOUS
<1>2. ASSUME NEW i \in 1..n, NEW v \in V
      PROVE  H[i][v] = Visited(v, orders[i], b) /\ H[i][v] \in V
  <2>1. orders[i] \in OrderRecords OBVIOUS
  <2>2. Visited(v, orders[i], b) \in V BY <2>1, VisitBalances
  <2>3. QED BY <2>2
<1>3. \E g : FoldSolution(g, n, V, st, H)
  <2>1. IsFold(n, V, st, H)
    BY <1>1, <1>2 DEF IsFold
  <2> HIDE DEF n, V, H
  <2>2. QED BY <2>1, FoldExists
<1>4. \E g : Fold(g)
  <2>1. PICK g \in [SUBSET (1..n) -> V] : \A T \in SUBSET (1..n) :
               g[T] = IF T = {} THEN st ELSE H[LastOf(T)][g[T \ {LastOf(T)}]]
    BY <1>3 DEF FoldSolution
  <2>2. ASSUME NEW T \in SUBSET (1..n), T # {}
        PROVE  g[T] = Visited(g[T \ {LastOf(T)}], orders[LastOf(T)], b)
    <3>1. LastOf(T) \in 1..n
      <4>1. LastOf(T) \in T BY <1>1, <2>2, LastIsThere
      <4>2. QED BY <4>1
    <3>2. g[T \ {LastOf(T)}] \in V BY <2>1
    <3>3. g[T] = H[LastOf(T)][g[T \ {LastOf(T)}]] BY <2>1, <2>2
    <3>4. QED
      <4> HIDE DEF H, V, n
      <4> QED BY <1>2, <3>1, <3>2, <3>3
  <2>3. Fold(g)
    <3> HIDE DEF H, V, n
    <3> QED BY <2>1, <2>2
  <2>4. QED BY <2>3
<1>5. Fold(g0)
  <2> HIDE DEF Fold
  <2> QED BY <1>4
<1>6. Swept(b) = g0[1..n]
  BY <1>1 DEF Swept, FoldLeft, MapThenFoldSet, Max, LastOf
<1> DEFINE K == {k \in Nat : k <= n => g0[1..k] \in V}
<1>7. 0 \in K
  <2>1. 1..0 = {} /\ {} \in SUBSET (1..n) OBVIOUS
  <2>2. g0[{}] = st
    <3> HIDE DEF g0, n
    <3> QED BY <1>5, <2>1
  <2>3. QED
    <3> HIDE DEF g0, V, n
    <3> QED BY <1>1, <2>1, <2>2
<1>8. ASSUME NEW k \in Nat, k \in K PROVE k + 1 \in K
  <2>1. SUFFICES ASSUME k + 1 <= n PROVE g0[1..(k + 1)] \in V
    OBVIOUS
  <2>2. k + 1 \in 1..n /\ 1..(k + 1) \in SUBSET (1..n) /\ 1..(k + 1) # {}
    <3> HIDE DEF n, K
    <3>1. 1 \in 1..(k + 1) /\ k + 1 \in 1..n BY <1>1, <2>1
    <3>2. \A i \in 1..(k + 1) : i \in 1..n BY <1>1, <2>1
    <3>3. QED BY <3>1, <3>2
  <2>3. LastOf(1..(k + 1)) = k + 1 /\ (1..(k + 1)) \ {k + 1} = 1..k
    BY LastOfPrefix
  <2>4. g0[1..(k + 1)] = Visited(g0[(1..(k + 1)) \ {LastOf(1..(k + 1))}],
                                 orders[LastOf(1..(k + 1))], b)
    <3> HIDE DEF n, g0
    <3> QED BY <1>5, <2>2
  <2>5. g0[1..(k + 1)] = Visited(g0[1..k], orders[k + 1], b)
    <3> HIDE DEF n, g0
    <3> QED BY <2>3, <2>4
  <2>6. g0[1..k] \in V
    <3> HIDE DEF V, g0
    <3> QED BY <1>1, <1>8, <2>1
  <2>7. orders[k + 1] \in OrderRecords BY <2>2
  <2>8. QED
    <3> HIDE DEF g0, n
    <3> QED BY <2>5, <2>6, <2>7, VisitBalances
<1>9. Nat \subseteq K
  <2> HIDE DEF K
  <2> QED BY <1>7, <1>8, SetOfAllNaturals
<1>10. QED
  <2> HIDE DEF g0, V, n
  <2>1. n \in K BY <1>1, <1>9
  <2>2. QED BY <1>1, <1>6, <2>1 DEF V

\* What a state becomes, its history becomes too.
LEMMA BecomeBalances ==
  ASSUME NEW st \in BalancedStates, Become(st)
  PROVE  State' \in BalancedStates
<1>1. /\ st.account \in AccountRecords /\ st.flow \in Int /\ st.crossed \in BOOLEAN
      /\ Balanced(st.account, st.flow, st.crossed)
  BY DEF BalancedStates
<1>2. <<>> \in Seq(OrderRecords)
  OBVIOUS
<1>3. [account |-> st.account, flow |-> st.flow, crossed |-> st.crossed, left |-> <<>>]
        \in BalancedStates
  BY <1>1, <1>2, Composed
<1>4. State' = [account |-> st.account, flow |-> st.flow, crossed |-> st.crossed,
                left |-> <<>>]
  BY DEF Become, State
<1>5. QED
  BY <1>3, <1>4, Zenon

LEMMA PaperInvInit == PaperInit => PaperInv
<1> SUFFICES ASSUME PaperInit PROVE PaperInv
  OBVIOUS
<1> DEFINE a == [cash |-> Start, realised |-> 0, quantity |-> 0, entry |-> 0, den |-> 1]
<1>1. Start \in Int BY PaperAssumption
<1>2. a \in AccountRecords BY <1>1 DEF AccountRecords
<1>3. Balanced(a, 0, FALSE) BY <1>1 DEF Balanced
<1>4. FALSE \in BOOLEAN /\ 0 \in Int /\ <<>> \in Seq(OrderRecords) OBVIOUS
<1>5. account = a /\ flow = 0 /\ crossed = FALSE /\ resting = <<>>
      /\ book = NoBook /\ engineBook = NoBook
  BY DEF PaperInit
<1>6. NoBook \in BookRecords BY DEF NoBook, BookRecords
<1> HIDE DEF a
<1>7. [account |-> a, flow |-> 0, crossed |-> FALSE, left |-> <<>>] \in BalancedStates
  BY <1>2, <1>3, <1>4, Composed
<1>8. State \in BalancedStates BY <1>5, <1>7 DEF State
<1>9. QED BY <1>4, <1>5, <1>6, <1>8 DEF PaperInv

\* Nothing that PaperInv speaks of moves.
LEMMA PaperInvStill ==
  PaperInv /\ UNCHANGED <<account, flow, crossed, resting, book, engineBook>> => PaperInv'
BY DEF PaperInv, State

LEMMA QuoteKeepsPaperInv ==
  ASSUME PaperInv, NEW b \in Books, Quote(b)
  PROVE  PaperInv'
<1>1. b \in BookRecords
  BY PaperAssumption DEF BookRecords
<1>2. engineBook' = b BY DEF Quote
<1>3. CASE Wired
  <2>1. OnBook(b) BY <1>3 DEF Quote
  <2>2. Swept(b) \in BalancedStates BY LoopBalances DEF PaperInv
  <2>3. State' \in BalancedStates BY <2>1, <2>2, BecomeBalances DEF OnBook
  <2>4. resting' \in Seq(OrderRecords) BY <2>1, <2>2 DEF OnBook, BalancedStates
  <2>5. book' = b BY <2>1 DEF OnBook
  <2>6. QED BY <1>1, <1>2, <2>3, <2>4, <2>5 DEF PaperInv
<1>4. CASE ~Wired
  <2>1. UNCHANGED <<account, flow, crossed, resting, book>>
    BY <1>4 DEF Quote, brokerVars
  <2>2. QED BY <1>1, <1>2, <2>1 DEF PaperInv, State
<1>5. QED BY <1>3, <1>4

LEMMA RouteKeepsPaperInv ==
  ASSUME PaperInv, NEW target \in Targets, NEW edge, Route(target, edge)
  PROVE  PaperInv'
<1> DEFINE current == account.quantity
           order == OrderFor(target, current, engineBook)
<1>1. order \in OrderRecords
  <2>1. target \in Int /\ current \in Int /\ Step \in Nat \ {0}
        /\ engineBook.bid \in Int /\ engineBook.ask \in Int
    BY PaperAssumption, RouterAssumption
       DEF PaperInv, State, BalancedStates, AccountRecords, BookRecords
  <2> DEFINE delta == target - current
  <2>2. delta \in Int /\ Abs(delta) \in Int /\ Sign(delta) \in Int
    BY <2>1 DEF Abs, Sign
  <2>3. (Abs(delta) \div Step) * Step \in Int
    <3>1. Abs(delta) \div Step \in Int BY <2>1, <2>2
    <3>2. QED BY <2>1, <3>1
  <2>4. Sign(delta) * RoundAmount(Abs(delta)) \in Int
    BY <2>2, <2>3 DEF RoundAmount
  <2>5. LimitPrice(engineBook, delta) \in Int
    BY <2>1 DEF LimitPrice
  <2>6. IsReducing(target, current) \in BOOLEAN
    BY DEF IsReducing
  <2>7. order = [signed |-> Sign(delta) * RoundAmount(Abs(delta)),
                 price |-> LimitPrice(engineBook, delta),
                 reduceOnly |-> IsReducing(target, current)]
    BY DEF OrderFor
  <2> HIDE DEF order, delta, current
  <2>8. QED BY <2>4, <2>5, <2>6, <2>7 DEF OrderRecords
<1>2. UNCHANGED <<account, flow, crossed, book, engineBook>>
      /\ (resting' = resting \/ resting' = Append(resting, order))
  <2> HIDE DEF order
  <2>1. UNCHANGED engineBook BY DEF Route
  <2>2. CASE SubmitLimit(order)
    BY <2>1, <2>2 DEF SubmitLimit, Reject
  <2>3. CASE UNCHANGED brokerVars
    BY <2>1, <2>3 DEF brokerVars
  <2>4. QED BY <2>2, <2>3 DEF Route, order
<1>3. resting' \in Seq(OrderRecords)
  <2> HIDE DEF order
  <2> QED BY <1>1, <1>2 DEF PaperInv
<1>4. QED BY <1>2, <1>3 DEF PaperInv, State

LEMMA HaltKeepsPaperInv ==
  ASSUME PaperInv, Halt
  PROVE  PaperInv'
<1>1. resting' \in Seq(OrderRecords) /\ UNCHANGED <<engineBook, book>>
  BY DEF Halt
<1>2. State' \in BalancedStates
  <2>1. CASE UNCHANGED <<account, flow, crossed>>
    BY <2>1 DEF PaperInv, State
  <2>2. CASE ~UNCHANGED <<account, flow, crossed>>
    <3> DEFINE signed == -account.quantity
               order == [signed |-> signed]
    <3>1. Become(Filled(State, order, TakerPrice(signed, book)))
      BY <2>2 DEF Halt, SubmitMarket
    <3>2. account.quantity \in Int /\ book.bid \in Int /\ book.ask \in Int /\ Slip \in Int
      BY PaperAssumption DEF PaperInv, State, BalancedStates, AccountRecords, BookRecords
    <3>3. order.signed \in Int /\ TakerPrice(signed, book) \in Int
      BY <3>2 DEF TakerPrice
    <3>4. State \in BalancedStates BY DEF PaperInv
    <3> HIDE DEF order, signed
    <3>5. Filled(State, order, TakerPrice(signed, book)) \in BalancedStates
      BY <3>3, <3>4, FillBalances
    <3>6. QED BY <3>1, <3>5, BecomeBalances
  <2>3. QED BY <2>1, <2>2
<1>3. QED BY <1>1, <1>2 DEF PaperInv

LEMMA BalancedEquity == PaperInv => EquityIsMarkToMarket
<1> SUFFICES ASSUME PaperInv, ~crossed
             PROVE  Equity = account.den * (2 * (Start + flow)
                                              + account.quantity * (book.bid + book.ask))
  BY DEF EquityIsMarkToMarket
<1> DEFINE d == account.den
           c == account.cash
           g == account.realised
           q == account.quantity
           e == account.entry
           m == book.bid + book.ask
           z == Start + flow
<1>1. /\ d \in Int /\ c \in Int /\ g \in Int /\ q \in Int /\ e \in Int /\ m \in Int
      /\ z \in Int
  BY PaperAssumption DEF PaperInv, State, BalancedStates, AccountRecords, BookRecords
<1>2. d * (c - z) + g = q * e
  BY DEF PaperInv, State, BalancedStates, Balanced
<1> HIDE DEF d, c, g, q, e, m, z
<1>3. d * (c - z) = d * c - d * z
  BY <1>1
<1>4. d * c + g = d * z + q * e
  <2>1. d * c \in Int /\ d * z \in Int /\ q * e \in Int BY <1>1
  <2>2. QED BY <1>1, <1>2, <1>3, <2>1
<1>5. 2 * (c * d + g) + q * (m * d - 2 * e) = 2 * (d * c + g) + q * m * d - 2 * (q * e)
  BY <1>1
<1>6. d * (2 * z + q * m) = 2 * (d * z) + q * m * d
  BY <1>1
<1>7. 2 * (c * d + g) + q * (m * d - 2 * e) = d * (2 * z + q * m)
  <2>1. d * c \in Int /\ d * z \in Int /\ q * e \in Int /\ q * m * d \in Int BY <1>1
  <2>2. QED BY <1>1, <1>4, <1>5, <1>6, <2>1
<1>8. QED
  BY <1>7 DEF Equity, d, c, g, q, e, m, z

\* Whatever orders rest, cross, add to a position, reduce it or close it, at whatever
\* prices, fees and books: until a fill turns the position over, the equity that
\* PaperBroker reports (broker.py, _fill and equity) is the money that went through
\* the account plus the position at the mark.
THEOREM EquityStaysMarkToMarket == PaperSpec => []EquityIsMarkToMarket
<1>1. PaperInit => PaperInv
  BY PaperInvInit
<1>2. PaperInv /\ [PaperNext]_paperVars => PaperInv'
  <2> SUFFICES ASSUME PaperInv, [PaperNext]_paperVars PROVE PaperInv'
    OBVIOUS
  <2>1. ASSUME NEW b \in Books, Quote(b) PROVE PaperInv'
    BY <2>1, QuoteKeepsPaperInv
  <2>2. ASSUME NEW target \in Targets, NEW edge \in Edges, Route(target, edge)
        PROVE  PaperInv'
    BY <2>2, RouteKeepsPaperInv
  <2>3. CASE Halt
    BY <2>3, HaltKeepsPaperInv
  <2>4. CASE Tick \/ UNCHANGED paperVars
    BY <2>4, PaperInvStill DEF Tick, paperVars, brokerVars
  <2>5. QED
    BY <2>1, <2>2, <2>3, <2>4 DEF PaperNext
<1>3. PaperInv => EquityIsMarkToMarket
  BY BalancedEquity
<1>4. QED
  BY <1>1, <1>2, <1>3, PTL DEF PaperSpec

================================================================================
