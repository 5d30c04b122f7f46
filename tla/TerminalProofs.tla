---------------------------- MODULE TerminalProofs ----------------------------
(***************************************************************************)
(* Theorems about the terminal: about VenuePanel for all venues, universes *)
(* and overlapping handlers, about Terminal for all symbols and            *)
(* overlapping requests, and about Launch for every number of windows and  *)
(* services.                                                               *)
(***************************************************************************)
EXTENDS Terminal, VenuePanel, Launch, SetInduction

--------------------------------------------------------------------------------
(* The watchlist of the panel *)

\* A row has the venue its price came from and its staleness.
RowsAreWhole ==
  \A s \in DOMAIN watchlist :
    watchlist[s] = [venue |-> watchlist[s].venue, stale |-> watchlist[s].stale]

WatchlistInv == RowsAreWhole /\ OneVenueOnScreen

\* update_watchlist leaves nothing fresh but what the venue has just returned.
LEMMA FoldedKeepsWatchlist ==
  ASSUME WatchlistInv, NEW rows, NEW venue, watchlist' = Folded(rows, venue)
  PROVE  WatchlistInv'
<1>1. DOMAIN watchlist' = DOMAIN watchlist \cup rows
  BY DEF Folded
<1>2. ASSUME NEW s \in rows
      PROVE  watchlist'[s] = [venue |-> venue, stale |-> FALSE]
  BY DEF Folded
<1>3. ASSUME NEW s \in DOMAIN watchlist \ rows
      PROVE  watchlist'[s] = [venue |-> watchlist[s].venue, stale |-> TRUE]
  <2>1. watchlist'[s] = [watchlist[s] EXCEPT !.stale = TRUE]
    BY DEF Folded
  <2>2. watchlist[s] = [venue |-> watchlist[s].venue, stale |-> watchlist[s].stale]
    BY DEF WatchlistInv, RowsAreWhole
  <2>3. QED
    BY <2>1, <2>2
<1>4. RowsAreWhole'
  BY <1>1, <1>2, <1>3 DEF RowsAreWhole
<1>5. \A s \in DOMAIN watchlist' : ~watchlist'[s].stale => watchlist'[s].venue = venue
  BY <1>1, <1>2, <1>3
<1>6. OneVenueOnScreen'
  BY <1>5 DEF OneVenueOnScreen
<1>7. QED
  BY <1>4, <1>6 DEF WatchlistInv

LEMMA ReturnedKeepsWatchlist ==
  ASSUME WatchlistInv, NEW venue, Returned(venue)
  PROVE  WatchlistInv'
<1>1. watchlist' = watchlist \/ watchlist' = Folded(Served(venue), venue)
  BY DEF Returned, OnFailure, OnSuccess
<1>2. CASE watchlist' = watchlist
  BY <1>2 DEF WatchlistInv, RowsAreWhole, OneVenueOnScreen
<1>3. QED
  BY <1>1, <1>2, FoldedKeepsWatchlist

LEMMA FollowsKeepsWatchlist ==
  ASSUME WatchlistInv, NEW r, NEW venue, NEW poll, Follows(r, venue, poll)
  PROVE  WatchlistInv'
<1>1. watchlist' = watchlist \/ watchlist' = [s \in {} |-> {}]
  BY DEF Follows, Chooses, bridgeVars
<1>2. QED
  BY <1>1 DEF WatchlistInv, RowsAreWhole, OneVenueOnScreen

LEMMA WatchlistStep == WatchlistInv /\ [VenueNext]_venueVars => WatchlistInv'
<1> SUFFICES ASSUME WatchlistInv, [VenueNext]_venueVars
             PROVE  WatchlistInv'
  OBVIOUS
<1>1. ASSUME watchlist' = watchlist PROVE WatchlistInv'
  BY <1>1 DEF WatchlistInv, RowsAreWhole, OneVenueOnScreen
<1>2. ASSUME NEW f, FeedFetches(f) \/ FeedEnds(f) PROVE WatchlistInv'
  BY <1>1, <1>2 DEF FeedFetches, OnFailure, FeedEnds, bridgeVars
<1>3. ASSUME NEW f, FeedReturns(f) PROVE WatchlistInv'
  BY <1>3, ReturnedKeepsWatchlist DEF FeedReturns
<1>4. ASSUME NEW r, Probed(r) PROVE WatchlistInv'
  BY <1>4, FollowsKeepsWatchlist DEF Probed
<1>5. ASSUME NEW r, NEW v, Refresh(r, v) PROVE WatchlistInv'
  BY <1>5, FollowsKeepsWatchlist DEF Refresh
<1>6. ASSUME NEW r, Polled(r) PROVE WatchlistInv'
  BY <1>1, <1>6, ReturnedKeepsWatchlist DEF Polled, OnFailure
<1>7. ASSUME NEW r, Joined(r) PROVE WatchlistInv'
  BY <1>1, <1>7 DEF Joined, bridgeVars
<1>8. ASSUME NEW r, NEW v, NEW trade, AddConnection(r, v, trade) PROVE WatchlistInv'
  BY <1>1, <1>8 DEF AddConnection, bridgeVars
<1>9. ASSUME NEW v, RemoveConnection(v) \/ Outage(v) PROVE WatchlistInv'
  BY <1>1, <1>9 DEF RemoveConnection, Outage, bridgeVars
<1>10. CASE UNCHANGED venueVars
  BY <1>1, <1>10 DEF venueVars, bridgeVars
<1>11. QED
  BY <1>2, <1>3, <1>4, <1>5, <1>6, <1>7, <1>8, <1>9, <1>10 DEF VenueNext, FeedStep, PanelStep

\* Prices that stand beside each other as fresh came from one venue, whatever feeds,
\* polls and changes of the venue overlap (update_watchlist, use_exchange).
THEOREM FreshRowsHaveOneVenue == VenueSpec => []OneVenueOnScreen
<1>1. VenueInit => WatchlistInv
  BY DEF VenueInit, WatchlistInv, RowsAreWhole, OneVenueOnScreen
<1>2. WatchlistInv /\ [VenueNext]_venueVars => WatchlistInv'
  BY WatchlistStep
<1>3. WatchlistInv => OneVenueOnScreen
  BY DEF WatchlistInv
<1>4. QED
  BY <1>1, <1>2, <1>3, PTL DEF VenueSpec

--------------------------------------------------------------------------------
(* The session: what its variables range over, and who has which number *)

Sessions == [mode : Modes, label : Modes, broker : Modes, supervisor : Nat, task : Nat,
             starts : Nat, unarmed : BOOLEAN]
Thens == [stage : {"switch"}, target : Modes] \cup [stage : {"start"}, broker : Modes]
           \cup [stage : {"close"}]
RequestPlaces == {Idle} \cup [at : {"join"}, then : Thens, loop : Nat]
  \cup [at : {"retire"}, then : Thens, supervisor : Nat, todo : SUBSET Symbols]
LoopPlaces == [at : {"tick", "history", "cancelled"}] \cup [at : {"rotate"}, supervisor : Nat]
EngineKinds == [supervisor : Nat, symbol : Symbols, broker : Modes, believed : BOOLEAN]

\* A supervisor has the number of the start that has made it: engines and scans
\* under way have one of a start that has been.
TerminalTypes ==
  /\ session \in Sessions /\ session.supervisor <= session.starts
  /\ \A l \in DOMAIN loops :
       /\ loops[l] \in LoopPlaces
       /\ loops[l].at = "rotate" => loops[l].supervisor \in 1..session.starts
  /\ \A e \in engines : e \in EngineKinds /\ e.supervisor \in 1..session.starts
  /\ request \in [Requests -> RequestPlaces]

\* Where the calls of a request that stops or starts the session lead, from a
\* session that is st: it keeps its broker, and its supervisor at most goes; or it
\* is one start further, with a supervisor that is new.
Leads(st) ==
  /\ session' \in Sessions
  /\ \/ /\ session'.starts = st.starts /\ session'.broker = st.broker
        /\ session'.supervisor \in {st.supervisor, 0}
     \/ session'.starts = st.starts + 1 /\ session'.supervisor = st.starts + 1
  /\ \A l \in DOMAIN loops' :
       \/ loops'[l] \in {Tick, [at |-> "cancelled"]}
       \/ l \in DOMAIN loops /\ loops'[l] = loops[l]
  /\ request' \in [Requests -> RequestPlaces]

LEMMA LeadsFrom ==
  ASSUME NEW st \in Sessions, NEW t \in Sessions,
         t.starts = st.starts, t.broker = st.broker, t.supervisor \in {st.supervisor, 0},
         Leads(t)
  PROVE  Leads(st)
  BY DEF Leads

LEMMA EndsLeads ==
  ASSUME TerminalTypes, NEW r \in Requests, NEW st \in Sessions, Ends(r, st)
  PROVE  Leads(st)
<1>1. Idle \in RequestPlaces
  BY DEF RequestPlaces
<1>2. request' \in [Requests -> RequestPlaces]
  BY <1>1 DEF TerminalTypes, Ends
<1>3. QED
  BY <1>2 DEF Ends, Leads

LEMMA BeginsLeads ==
  ASSUME TerminalTypes, NEW r \in Requests, NEW st \in Sessions, NEW b \in Modes,
         Begins(r, st, b)
  PROVE  Leads(st)
<1> DEFINE n == st.starts + 1
<1>0. st.starts \in Nat /\ n \in Nat
  BY DEF Sessions
<1>1. session' = [st EXCEPT !.broker = b, !.starts = n, !.unarmed = FALSE,
                           !.supervisor = n, !.task = n]
  BY DEF Begins, Started
<1>2. \A l \in DOMAIN loops' : loops'[l] = Tick \/ (l \in DOMAIN loops /\ loops'[l] = loops[l])
  <2>1. loops' = [l \in DOMAIN loops \cup {n} |-> IF l = n THEN Tick ELSE loops[l]]
    BY DEF Begins
  <2> HIDE DEF n
  <2>2. DOMAIN loops' = DOMAIN loops \cup {n}
    BY <2>1
  <2>3. \A l \in DOMAIN loops \cup {n} : loops'[l] = IF l = n THEN Tick ELSE loops[l]
    BY <2>1
  <2>4. QED
    BY <2>2, <2>3
<1>4. session' \in Sessions /\ session'.starts = n /\ session'.supervisor = n
  <2> HIDE DEF n
  <2>1. QED
    BY <1>0, <1>1 DEF Sessions
<1>3. request' \in [Requests -> RequestPlaces]
  <2>1. Idle \in RequestPlaces
    BY DEF RequestPlaces
  <2>2. QED
    BY <2>1 DEF Begins, TerminalTypes
<1>5. QED
  BY <1>2, <1>3, <1>4 DEF Leads

\* Where a request waits while stop retires the engines of a supervisor, or while it
\* joins the task it has cancelled.
Retiring(r, st, then) ==
  /\ session' = st
  /\ \E todo \in SUBSET Symbols :
       request' = [request EXCEPT ![r] =
         [at |-> "retire", then |-> then, supervisor |-> st.supervisor, todo |-> todo]]
  /\ UNCHANGED loops

Joining(r, st, then) ==
  /\ session' = [st EXCEPT !.task = 0]
  /\ loops' = Cancelled(st.task)
  /\ request' = [request EXCEPT ![r] = [at |-> "join", then |-> then, loop |-> st.task]]

LEMMA RetiringLeads ==
  ASSUME TerminalTypes, NEW r \in Requests, NEW st \in Sessions, NEW then \in Thens,
         Retiring(r, st, then)
  PROVE  Leads(st)
<1>1. request' \in [Requests -> RequestPlaces]
  <2>1. PICK todo \in SUBSET Symbols :
          request' = [request EXCEPT ![r] =
            [at |-> "retire", then |-> then, supervisor |-> st.supervisor, todo |-> todo]]
    BY DEF Retiring
  <2>2. [at |-> "retire", then |-> then, supervisor |-> st.supervisor, todo |-> todo]
          \in RequestPlaces
    BY DEF RequestPlaces, Sessions
  <2>3. QED
    BY <2>1, <2>2 DEF TerminalTypes
<1>2. QED
  BY <1>1 DEF Retiring, Leads

LEMMA JoiningLeads ==
  ASSUME TerminalTypes, NEW r \in Requests, NEW st \in Sessions, NEW then \in Thens,
         Joining(r, st, then)
  PROVE  Leads(st)
<1>1. request' \in [Requests -> RequestPlaces]
  <2>1. [at |-> "join", then |-> then, loop |-> st.task] \in RequestPlaces
    BY DEF RequestPlaces, Sessions
  <2>2. QED
    BY <2>1 DEF Joining, TerminalTypes
<1>2. session' \in Sessions /\ session'.starts = st.starts /\ session'.broker = st.broker
      /\ session'.supervisor = st.supervisor
  BY DEF Joining, Sessions
<1>3. \A l \in DOMAIN loops' :
        loops'[l] = [at |-> "cancelled"] \/ (l \in DOMAIN loops /\ loops'[l] = loops[l])
  <2>1. loops' = [loops EXCEPT ![st.task] = [at |-> "cancelled"]]
    BY DEF Joining, Cancelled
  <2>2. DOMAIN loops' = DOMAIN loops
    BY <2>1
  <2>3. \A l \in DOMAIN loops : loops'[l] = IF l = st.task THEN [at |-> "cancelled"] ELSE loops[l]
    BY <2>1
  <2>4. QED
    BY <2>2, <2>3
<1>4. QED
  BY <1>1, <1>2, <1>3 DEF Leads

\* The two of them are what stop does when it has to wait.
LEMMA StopWaits ==
  ASSUME TerminalTypes, NEW st, NEW symbols,
         symbols = {e.symbol : e \in EnginesOf(st.supervisor)}
  PROVE  symbols \in SUBSET Symbols
  BY DEF TerminalTypes, EnginesOf, EngineKinds

\* Restart is a start after a stop.
LEMMA RestartCases ==
  ASSUME TerminalTypes, NEW r \in Requests, NEW st \in Sessions, Restart(r, st)
  PROVE  LET then == [stage |-> "start", broker |-> st.mode]
             off == [st EXCEPT !.task = 0]
         IN  \/ st.task \in DOMAIN loops /\ Joining(r, st, then)
             \/ st.task \notin DOMAIN loops /\ Retiring(r, off, then)
             \/ /\ st.task \notin DOMAIN loops
                /\ Begins(r, [off EXCEPT !.supervisor = 0], st.mode)
<1> DEFINE then == [stage |-> "start", broker |-> st.mode]
           off == [st EXCEPT !.task = 0]
<1>1. CASE st.task \in DOMAIN loops
  BY <1>1 DEF Restart, Stops, Joining
<1>2. CASE st.task \notin DOMAIN loops
  <2>1. Retires(r, off, then, LAMBDA t : Restarted(r, then, t))
    BY <1>2 DEF Restart, Stops
  <2>2. CASE EnginesOf(off.supervisor) # {}
    <3> HIDE DEF off
    <3>1. {e.symbol : e \in EnginesOf(off.supervisor)} \in SUBSET Symbols
      BY StopWaits
    <3>2. Retiring(r, off, then)
      BY <2>1, <2>2, <3>1 DEF Retires, Retiring
    <3>3. QED
      BY <1>2, <3>2 DEF off
  <2>3. CASE EnginesOf(off.supervisor) = {}
    BY <1>2, <2>1, <2>3 DEF Retires, Restarted
  <2>4. QED
    BY <2>2, <2>3
<1>3. QED
  BY <1>1, <1>2

LEMMA RestartLeads ==
  ASSUME TerminalTypes, NEW r \in Requests, NEW st \in Sessions, Restart(r, st)
  PROVE  Leads(st)
<1> DEFINE then == [stage |-> "start", broker |-> st.mode]
           off == [st EXCEPT !.task = 0]
           none == [off EXCEPT !.supervisor = 0]
<1>1. then \in Thens /\ st.mode \in Modes
  BY DEF Thens, Sessions
<1>2. off \in Sessions /\ off.starts = st.starts /\ off.broker = st.broker
      /\ off.supervisor = st.supervisor
  BY DEF Sessions
<1>3. none \in Sessions /\ none.starts = st.starts /\ none.broker = st.broker
      /\ none.supervisor = 0
  BY DEF Sessions
<1>4. \/ Joining(r, st, then)
      \/ Retiring(r, off, then)
      \/ Begins(r, none, st.mode)
  BY RestartCases
<1> HIDE DEF then, off, none
<1>5. CASE Joining(r, st, then)
  BY <1>1, <1>5, JoiningLeads
<1>6. CASE Retiring(r, off, then)
  BY <1>1, <1>2, <1>6, RetiringLeads, LeadsFrom
<1>7. CASE Begins(r, none, st.mode)
  BY <1>1, <1>3, <1>7, BeginsLeads, LeadsFrom
<1>8. QED
  BY <1>4, <1>5, <1>6, <1>7

LEMMA DoneLeads ==
  ASSUME TerminalTypes, NEW r \in Requests, NEW st \in Sessions, NEW then \in Thens,
         Done(r, then, st)
  PROVE  Leads(st)
<1>1. CASE then.stage = "switch"
  <2>1. Switched(r, then, st) /\ then.target \in Modes
    BY <1>1 DEF Done, Thens
  <2>2. CASE ~Builds(then.target)
    <3> DEFINE t == [st EXCEPT !.unarmed = TRUE]
    <3>1. t \in Sessions /\ t.starts = st.starts /\ t.broker = st.broker
          /\ t.supervisor = st.supervisor
      BY DEF Sessions
    <3>2. Ends(r, t)
      BY <2>1, <2>2 DEF Switched
    <3> HIDE DEF t
    <3>3. QED
      BY <3>1, <3>2, EndsLeads, LeadsFrom
  <2>3. CASE Builds(then.target)
    <3> DEFINE t == [st EXCEPT !.mode = then.target, !.label = then.target]
    <3>1. t \in Sessions /\ t.starts = st.starts /\ t.broker = st.broker
          /\ t.supervisor = st.supervisor
      BY <2>1 DEF Sessions
    <3>2. Restart(r, t)
      BY <2>1, <2>3 DEF Switched
    <3> HIDE DEF t
    <3>3. QED
      BY <3>1, <3>2, RestartLeads, LeadsFrom
  <2>4. QED
    BY <2>2, <2>3
<1>2. CASE then.stage = "start"
  <2>1. Begins(r, st, then.broker) /\ then.broker \in Modes
    BY <1>2 DEF Done, Restarted, Thens
  <2>2. QED
    BY <2>1, BeginsLeads
<1>3. CASE then.stage = "close"
  BY <1>3, EndsLeads DEF Done
<1>4. QED
  BY <1>1, <1>2, <1>3 DEF Thens

LEMMA RetiresCases ==
  ASSUME TerminalTypes, NEW r \in Requests, NEW st \in Sessions, NEW then \in Thens,
         Retires(r, st, then, LAMBDA t : Done(r, then, t))
  PROVE  Retiring(r, st, then) \/ Done(r, then, [st EXCEPT !.supervisor = 0])
<1>1. CASE EnginesOf(st.supervisor) # {}
  <2>1. {e.symbol : e \in EnginesOf(st.supervisor)} \in SUBSET Symbols
    BY StopWaits
  <2>2. QED
    BY <1>1, <2>1 DEF Retires, Retiring
<1>2. CASE EnginesOf(st.supervisor) = {}
  BY <1>2 DEF Retires
<1>3. QED
  BY <1>1, <1>2

LEMMA RetiresLeads ==
  ASSUME TerminalTypes, NEW r \in Requests, NEW st \in Sessions, NEW then \in Thens,
         Retires(r, st, then, LAMBDA t : Done(r, then, t))
  PROVE  Leads(st)
<1> DEFINE none == [st EXCEPT !.supervisor = 0]
<1>1. none \in Sessions /\ none.starts = st.starts /\ none.broker = st.broker
      /\ none.supervisor = 0
  BY DEF Sessions
<1>2. Retiring(r, st, then) \/ Done(r, then, none)
  BY RetiresCases
<1> HIDE DEF none
<1>3. QED
  BY <1>1, <1>2, RetiringLeads, DoneLeads, LeadsFrom

\* stop, with any of the continuations it is called with.
LEMMA StopsCases ==
  ASSUME TerminalTypes, NEW r \in Requests, NEW st \in Sessions, NEW then \in Thens,
         Stops(r, st, then, LAMBDA t : Done(r, then, t))
  PROVE  LET off == [st EXCEPT !.task = 0]
         IN  \/ st.task \in DOMAIN loops /\ Joining(r, st, then)
             \/ st.task \notin DOMAIN loops /\ Retires(r, off, then, LAMBDA t : Done(r, then, t))
  BY DEF Stops, Joining

LEMMA StopsLeads ==
  ASSUME TerminalTypes, NEW r \in Requests, NEW st \in Sessions, NEW then \in Thens,
         Stops(r, st, then, LAMBDA t : Done(r, then, t))
  PROVE  Leads(st)
<1> DEFINE off == [st EXCEPT !.task = 0]
<1>1. off \in Sessions /\ off.starts = st.starts /\ off.broker = st.broker
      /\ off.supervisor = st.supervisor
  BY DEF Sessions
<1>2. Joining(r, st, then) \/ Retires(r, off, then, LAMBDA t : Done(r, then, t))
  BY StopsCases
<1> HIDE DEF off
<1>3. QED
  BY <1>1, <1>2, JoiningLeads, RetiresLeads, LeadsFrom

LEMMA SetModeCases ==
  ASSUME TerminalTypes, NEW r \in Requests, NEW target \in Modes, NEW confirmed,
         SetMode(r, target, confirmed)
  PROVE  LET then == [stage |-> "switch", target |-> target]
         IN  \/ target = session.mode /\ Restart(r, [session EXCEPT !.label = target])
             \/ /\ target # session.mode
                /\ Stops(r, session, then, LAMBDA t : Done(r, then, t))
             \/ UNCHANGED <<session, loops, request>>
<1> DEFINE then == [stage |-> "switch", target |-> target]
<1>1. CASE target = session.mode
  BY <1>1 DEF SetMode
<1>2. CASE target # session.mode /\ ~Permitted(target, confirmed)
  BY <1>2 DEF SetMode
<1>3. CASE target # session.mode /\ Permitted(target, confirmed)
  <2>1. Stops(r, session, then, LAMBDA t : Switched(r, then, t))
    BY <1>3 DEF SetMode
  <2>2. \A t : Done(r, then, t) = Switched(r, then, t)
    BY DEF Done
  <2>3. Stops(r, session, then, LAMBDA t : Done(r, then, t))
    <3> HIDE DEF then
    <3> QED BY <2>1, <2>2 DEF Stops, Retires
  <2>4. QED
    BY <1>3, <2>3
<1>4. QED
  BY <1>1, <1>2, <1>3

LEMMA ShutdownCases ==
  ASSUME NEW r \in Requests, Shutdown(r)
  PROVE  LET then == [stage |-> "close"]
         IN  Stops(r, session, then, LAMBDA t : Done(r, then, t))
<1> DEFINE then == [stage |-> "close"]
<1>1. Stops(r, session, then, LAMBDA t : Ends(r, t))
  BY DEF Shutdown
<1>2. \A t : Done(r, then, t) = Ends(r, t)
  BY DEF Done
<1>3. QED
  <2> HIDE DEF then
  <2>1. Stops(r, session, then, LAMBDA t : Done(r, then, t))
    BY <1>1, <1>2 DEF Stops, Retires
  <2>2. QED
    BY <2>1 DEF then

\* Every step of a request leads on from the session there is.
LEMMA RequestLeads ==
  ASSUME TerminalTypes, NEW r \in Requests,
         \/ \E target \in Modes, confirmed \in BOOLEAN : SetMode(r, target, confirmed)
         \/ Shutdown(r) \/ RequestStep(r)
  PROVE  \/ Leads(session)
         \/ UNCHANGED <<session, loops>> /\ request' \in [Requests -> RequestPlaces]
<1> session \in Sessions
  BY DEF TerminalTypes
<1>1. ASSUME NEW target \in Modes, NEW confirmed, SetMode(r, target, confirmed)
      PROVE  Leads(session) \/ UNCHANGED <<session, loops, request>>
  <2> DEFINE then == [stage |-> "switch", target |-> target]
             named == [session EXCEPT !.label = target]
  <2>1. \/ Restart(r, named)
        \/ Stops(r, session, then, LAMBDA t : Done(r, then, t))
        \/ UNCHANGED <<session, loops, request>>
    BY <1>1, SetModeCases
  <2>2. then \in Thens
    BY DEF Thens
  <2>3. named \in Sessions /\ named.starts = session.starts /\ named.broker = session.broker
        /\ named.supervisor = session.supervisor
    BY DEF Sessions
  <2> HIDE DEF then, named
  <2>4. CASE Restart(r, named)
    BY <2>3, <2>4, RestartLeads, LeadsFrom
  <2>5. CASE Stops(r, session, then, LAMBDA t : Done(r, then, t))
    BY <2>2, <2>5, StopsLeads
  <2>6. QED
    BY <2>1, <2>4, <2>5
<1>2. CASE Shutdown(r)
  <2> DEFINE then == [stage |-> "close"]
  <2>1. Stops(r, session, then, LAMBDA t : Done(r, then, t))
    BY <1>2, ShutdownCases
  <2>2. then \in Thens
    BY DEF Thens
  <2> HIDE DEF then
  <2>3. QED
    BY <2>1, <2>2, StopsLeads
<1>3. CASE Join(r)
  <2> DEFINE then == request[r].then
  <2>1. Retires(r, session, then, LAMBDA t : Done(r, then, t))
    BY <1>3 DEF Join
  <2>2. then \in Thens
    BY <1>3 DEF Join, TerminalTypes, RequestPlaces, Idle
  <2> HIDE DEF then
  <2>3. QED
    BY <2>1, <2>2, RetiresLeads
<1>4. ASSUME NEW symbol \in Symbols, Retire(r, symbol)
      PROVE  Leads(session) \/ (UNCHANGED <<session, loops>> /\ request' \in [Requests -> RequestPlaces])
  <2> DEFINE then == request[r].then
             rest == request[r].todo \ {symbol}
             none == [session EXCEPT !.supervisor = 0]
  <2>1. /\ request[r] \in [at : {"retire"}, then : Thens, supervisor : Nat, todo : SUBSET Symbols]
        /\ then \in Thens
    BY <1>4 DEF Retire, TerminalTypes, RequestPlaces, Idle
  <2>2. CASE rest = {}
    <3>1. Done(r, then, none)
      BY <1>4, <2>2 DEF Retire
    <3>2. none \in Sessions /\ none.starts = session.starts /\ none.broker = session.broker
          /\ none.supervisor = 0
      BY DEF Sessions
    <3> HIDE DEF then, none
    <3>3. QED
      BY <2>1, <3>1, <3>2, DoneLeads, LeadsFrom
  <2>3. CASE rest # {}
    <3>1. request' = [request EXCEPT ![r].todo = rest] /\ UNCHANGED <<session, loops>>
      BY <1>4, <2>3 DEF Retire
    <3>2. [request[r] EXCEPT !.todo = rest] \in RequestPlaces
      BY <2>1 DEF RequestPlaces
    <3>3. request' \in [Requests -> RequestPlaces]
      BY <3>1, <3>2 DEF TerminalTypes
    <3>4. QED
      BY <3>1, <3>3
  <2>4. QED
    BY <2>2, <2>3
<1>5. QED
  BY <1>1, <1>2, <1>3, <1>4 DEF RequestStep, TerminalTypes

LEMMA LeadsKeeps ==
  ASSUME TerminalTypes, EnginesTradeOneBroker, Leads(session), engines' \subseteq engines
  PROVE  TerminalTypes' /\ EnginesTradeOneBroker'
<1>1. session \in Sessions /\ session.supervisor <= session.starts
  BY DEF TerminalTypes
<1>2. session.starts \in Nat /\ session.supervisor \in Nat /\ session.broker \in Modes
  BY <1>1 DEF Sessions
<1>3. session' \in Sessions /\ session'.supervisor <= session'.starts
      /\ session.starts <= session'.starts /\ session'.starts \in Nat
  <2>1. CASE session'.starts = session.starts /\ session'.supervisor \in {session.supervisor, 0}
    BY <1>1, <1>2, <2>1 DEF Leads
  <2>2. CASE session'.starts = session.starts + 1 /\ session'.supervisor = session.starts + 1
    BY <1>2, <2>2 DEF Leads
  <2>3. QED
    BY <2>1, <2>2 DEF Leads
<1>4. ASSUME NEW l \in DOMAIN loops'
      PROVE  /\ loops'[l] \in LoopPlaces
             /\ loops'[l].at = "rotate" => loops'[l].supervisor \in 1..session'.starts
  <2>1. CASE loops'[l] \in {Tick, [at |-> "cancelled"]}
    BY <2>1 DEF Tick, LoopPlaces
  <2>2. CASE l \in DOMAIN loops /\ loops'[l] = loops[l]
    BY <1>2, <1>3, <2>2 DEF TerminalTypes
  <2>3. QED
    BY <2>1, <2>2 DEF Leads
<1>5. \A e \in engines' : e \in EngineKinds /\ e.supervisor \in 1..session'.starts
  BY <1>2, <1>3 DEF TerminalTypes
<1>6. TerminalTypes'
  BY <1>3, <1>4, <1>5 DEF TerminalTypes, Leads
<1>7. ASSUME NEW e \in engines', e.supervisor = session'.supervisor
      PROVE  e.broker = session'.broker
  <2>1. e \in engines /\ e.supervisor \in 1..session.starts
    BY DEF TerminalTypes
  <2>2. session'.supervisor # session.starts + 1 /\ session'.supervisor # 0
    BY <1>2, <1>7, <2>1
  <2>3. session'.broker = session.broker /\ session'.supervisor = session.supervisor
    BY <2>2 DEF Leads
  <2>4. QED
    BY <1>7, <2>1, <2>3 DEF EnginesTradeOneBroker, EnginesOf
<1>8. EnginesTradeOneBroker'
  BY <1>7 DEF EnginesTradeOneBroker, EnginesOf
<1>9. QED
  BY <1>6, <1>8

\* The steps of the loops, of the venue and of the keys leave the session as it is.
LEMMA LoopKeeps ==
  ASSUME TerminalTypes, EnginesTradeOneBroker, UNCHANGED <<session, request>>,
         \A l \in DOMAIN loops' :
           \/ l \in DOMAIN loops /\ loops'[l] = loops[l]
           \/ /\ loops'[l] \in LoopPlaces
              /\ loops'[l].at = "rotate" => loops'[l].supervisor \in 1..session.starts,
         \A e \in engines' :
           \/ e \in engines
           \/ /\ e \in EngineKinds /\ e.supervisor \in 1..session.starts
              /\ e.broker = session.broker
  PROVE  TerminalTypes' /\ EnginesTradeOneBroker'
<1>1. TerminalTypes'
  BY DEF TerminalTypes
<1>2. EnginesTradeOneBroker'
  BY DEF EnginesTradeOneBroker, EnginesOf
<1>3. QED
  BY <1>1, <1>2

LEMMA LoopStepKeeps ==
  ASSUME TerminalTypes, EnginesTradeOneBroker, NEW l \in DOMAIN loops, LoopStep(l)
  PROVE  TerminalTypes' /\ EnginesTradeOneBroker'
<1>0. session.supervisor \in Nat /\ session.starts \in Nat
      /\ session.supervisor <= session.starts /\ session.broker \in Modes
  BY DEF TerminalTypes, Sessions
<1> DEFINE Kept == \A e \in engines' : e \in engines
           Placed == \A k \in DOMAIN loops' :
                       \/ k \in DOMAIN loops /\ loops'[k] = loops[k]
                       \/ /\ loops'[k] \in LoopPlaces
                          /\ loops'[k].at = "rotate" => loops'[k].supervisor \in 1..session.starts
<1>1. ASSUME NEW place \in LoopPlaces, Moves(l, place),
             place.at = "rotate" => place.supervisor \in 1..session.starts
      PROVE  Placed
  <2>1. \A k \in DOMAIN loops' : k \in DOMAIN loops /\ loops'[k] = IF k = l THEN place ELSE loops[k]
    BY <1>1 DEF Moves
  <2>2. QED
    BY <1>1, <2>1
<1>2. ASSUME Gone(l) PROVE Placed
  BY <1>2 DEF Gone
<1>3. CASE ScanBegins(l)
  <2>1. Moves(l, [at |-> "history"]) /\ UNCHANGED <<session, request, engines>>
    BY <1>3 DEF ScanBegins, loopVars
  <2>2. [at |-> "history"] \in LoopPlaces
    BY DEF LoopPlaces
  <2>3. Placed
    BY <1>1, <2>1, <2>2
  <2>4. QED
    BY <2>1, <2>3, LoopKeeps
<1>4. CASE ScanRotates(l)
  <2> DEFINE place == IF session.supervisor = 0 THEN Tick
                      ELSE [at |-> "rotate", supervisor |-> session.supervisor]
  <2>1. Moves(l, place) /\ UNCHANGED <<session, request, engines>>
    BY <1>4 DEF ScanRotates, loopVars
  <2>2. place \in LoopPlaces /\ (place.at = "rotate" => place.supervisor \in 1..session.starts)
    BY <1>0 DEF LoopPlaces, Tick
  <2>3. Placed
    BY <1>1, <2>1, <2>2
  <2>4. QED
    BY <2>1, <2>3, LoopKeeps
<1>5. ASSUME NEW s \in Symbols, ScanAdmits(l, s) PROVE TerminalTypes' /\ EnginesTradeOneBroker'
  <2> DEFINE new == [supervisor |-> loops[l].supervisor, symbol |-> s,
                     broker |-> MadeFor, believed |-> FALSE]
  <2>1. /\ UNCHANGED <<session, request>> /\ (Gone(l) \/ Moves(l, Tick))
        /\ \A e \in engines' : e \in engines \/ e = new
    BY <1>5 DEF ScanAdmits, loopVars
  <2>2. Tick \in LoopPlaces /\ Tick.at # "rotate"
    BY DEF Tick, LoopPlaces
  <2>3. Placed
    BY <1>1, <1>2, <2>1, <2>2
  <2>4. loops[l].supervisor \in 1..session.starts /\ loops[l].supervisor \in Nat
    BY <1>0, <1>5 DEF ScanAdmits, At, TerminalTypes
  <2>5. new \in EngineKinds /\ new.supervisor \in 1..session.starts /\ new.broker = session.broker
    BY <1>0, <2>4 DEF EngineKinds, MadeFor
  <2> HIDE DEF new
  <2>6. QED
    BY <2>1, <2>3, <2>5, LoopKeeps
<1>6. ASSUME NEW e \in engines, Dispatch(l, e) PROVE TerminalTypes' /\ EnginesTradeOneBroker'
  <2> DEFINE new == [e EXCEPT !.believed = e.symbol \in held]
  <2>1. /\ UNCHANGED <<session, request, loops>> /\ e \in EnginesOf(session.supervisor)
        /\ \A d \in engines' : d \in engines \/ d = new
    BY <1>6 DEF Dispatch, loopVars
  <2>2. e \in EngineKinds /\ e.supervisor \in 1..session.starts
    BY DEF TerminalTypes
  <2> DEFINE holds == e.symbol \in held
  <2>3. holds \in BOOLEAN
    OBVIOUS
  <2>4. new = [e EXCEPT !.believed = holds]
    OBVIOUS
  <2>5. new \in EngineKinds /\ new.supervisor = e.supervisor /\ new.broker = e.broker
    <3> HIDE DEF new, holds
    <3> QED BY <2>2, <2>3, <2>4 DEF EngineKinds
  <2>6. e.broker = session.broker
    BY <2>1 DEF EnginesTradeOneBroker
  <2> HIDE DEF new
  <2>7. QED
    BY <2>1, <2>2, <2>5, <2>6, LoopKeeps
<1>7. CASE LoopEnds(l)
  BY <1>2, <1>7, LoopKeeps DEF LoopEnds, loopVars
<1>8. QED
  BY <1>3, <1>4, <1>5, <1>6, <1>7 DEF LoopStep

LEMMA TerminalStep ==
  TerminalTypes /\ EnginesTradeOneBroker /\ [TerminalNext]_terminalVars
    => TerminalTypes' /\ EnginesTradeOneBroker'
<1> SUFFICES ASSUME TerminalTypes, EnginesTradeOneBroker, [TerminalNext]_terminalVars
             PROVE  TerminalTypes' /\ EnginesTradeOneBroker'
  OBVIOUS
<1>1. ASSUME NEW r \in Requests,
             \/ \E target \in Modes, confirmed \in BOOLEAN : SetMode(r, target, confirmed)
             \/ Shutdown(r) \/ RequestStep(r)
      PROVE  TerminalTypes' /\ EnginesTradeOneBroker'
  <2>1. engines' \subseteq engines
    BY <1>1 DEF SetMode, Shutdown, RequestStep, Join, Retire, RetireOne
  <2>2. CASE Leads(session)
    BY <2>1, <2>2, LeadsKeeps
  <2>3. CASE UNCHANGED <<session, loops>> /\ request' \in [Requests -> RequestPlaces]
    BY <2>1, <2>3 DEF TerminalTypes, EnginesTradeOneBroker, EnginesOf
  <2>4. QED
    BY <1>1, <2>2, <2>3, RequestLeads
<1>2. ASSUME NEW s \in Symbols, Fill(s) PROVE TerminalTypes' /\ EnginesTradeOneBroker'
  BY <1>2, LoopKeeps DEF Fill, loopVars
<1>3. CASE SetTradeEnabled
  BY <1>3, LoopKeeps DEF SetTradeEnabled
<1>4. CASE UNCHANGED terminalVars
  BY <1>4, LoopKeeps DEF terminalVars
<1>5. QED
  BY <1>1, <1>2, <1>3, <1>4, LoopStepKeeps DEF TerminalNext

LEMMA TerminalTypesInit == TerminalInit => TerminalTypes
<1> SUFFICES ASSUME TerminalInit
             PROVE  TerminalTypes
  OBVIOUS
<1>1. session = [mode |-> "dry_run", label |-> "dry_run", broker |-> "dry_run",
                 supervisor |-> 1, task |-> 1, starts |-> 1, unarmed |-> FALSE]
  <2> DEFINE first == [mode |-> "dry_run", label |-> "dry_run", broker |-> "dry_run",
                       supervisor |-> 0, task |-> 0, starts |-> 0, unarmed |-> FALSE]
  <2>1. session = Started(first, "dry_run")
    BY DEF TerminalInit
  <2>2. session = [first EXCEPT !.broker = "dry_run", !.starts = 1, !.unarmed = FALSE,
                                !.supervisor = 1, !.task = 1]
    BY <2>1 DEF Started
  <2>3. QED
    BY <2>2
<1>2. session \in Sessions /\ session.supervisor <= session.starts
  BY <1>1 DEF Sessions, Modes
<1>3. \A l \in DOMAIN loops : loops[l] \in LoopPlaces /\ loops[l].at # "rotate"
  BY DEF TerminalInit, LoopPlaces
<1>4. request \in [Requests -> RequestPlaces]
  BY DEF TerminalInit, RequestPlaces
<1>5. QED
  BY <1>2, <1>3, <1>4 DEF TerminalInit, TerminalTypes

\* Whatever requests overlap, an engine the session gives prices to trades through
\* the broker of the session (_make_engine, start): the broker changes only with a
\* new supervisor, which has no engine yet.
THEOREM EnginesTradeTheSessionsBroker == TerminalSpec => []EnginesTradeOneBroker
<1>1. TerminalInit => TerminalTypes /\ EnginesTradeOneBroker
  BY TerminalTypesInit DEF TerminalInit, EnginesTradeOneBroker, EnginesOf
<1>2. TerminalTypes /\ EnginesTradeOneBroker /\ [TerminalNext]_terminalVars
        => TerminalTypes' /\ EnginesTradeOneBroker'
  BY TerminalStep
<1>3. QED
  BY <1>1, <1>2, PTL DEF TerminalSpec

--------------------------------------------------------------------------------
(* Requests that come one at a time *)

\* SessionAgrees, with the loop that runs not about to end.
Agrees ==
  /\ Running => /\ session.broker = session.mode /\ session.label = session.mode
                /\ session.supervisor = session.task /\ session.task # 0
  /\ DOMAIN loops \subseteq {session.task}
  /\ \A l \in DOMAIN loops : loops[l].at # "cancelled"
  /\ Running <=> ~(closing \/ session.unarmed)

\* A request that waits: the loop it has taken is the only one there can be, and
\* what it will do next fits the mode and the label.
InProgress(r) ==
  /\ request[r].at = "join" =>
       /\ DOMAIN loops \subseteq {request[r].loop}
       /\ \A l \in DOMAIN loops : loops[l].at = "cancelled"
  /\ request[r].at = "retire" => DOMAIN loops = {}
  /\ request[r].then.stage = "close" <=> closing
  /\ request[r].then.stage = "start" =>
       request[r].then.broker = session.mode /\ session.label = session.mode

OneAtATime ==
  ~overlapped =>
    /\ \A r, q \in Requests : request[r] # Idle /\ request[q] # Idle => r = q
    /\ Quiet => Agrees
    /\ \A r \in Requests : request[r] # Idle => InProgress(r)

Alone(r) == \A q \in Requests : q # r => request[q] = Idle

\* What a request may still have to do from st, after the step.
Suits(then, st) ==
  /\ then.stage = "close" <=> closing'
  /\ then.stage = "start" => then.broker = st.mode /\ st.label = st.mode

LEMMA EndsAgrees ==
  ASSUME TerminalTypes, NEW r \in Requests, Alone(r), DOMAIN loops = {},
         NEW st, Ends(r, st), closing' \/ st.unarmed
  PROVE  OneAtATime'
<1>1. \A q \in Requests : request'[q] = Idle
  BY DEF Ends, TerminalTypes, Alone
<1>2. session' = st /\ DOMAIN loops' = {}
  BY DEF Ends
<1>3. Agrees'
  BY <1>2 DEF Agrees, Running
<1>4. QED
  BY <1>1, <1>3 DEF OneAtATime

LEMMA BeginsAgrees ==
  ASSUME TerminalTypes, NEW r \in Requests, Alone(r), DOMAIN loops = {},
         NEW st \in Sessions, st.label = st.mode, Begins(r, st, st.mode), ~closing'
  PROVE  OneAtATime'
<1> DEFINE n == st.starts + 1
<1>1. \A q \in Requests : request'[q] = Idle
  BY DEF Begins, TerminalTypes, Alone
<1>2. session' = [st EXCEPT !.broker = st.mode, !.starts = n, !.unarmed = FALSE,
                           !.supervisor = n, !.task = n]
  BY DEF Begins, Started
<1>3. loops' = [l \in {n} |-> Tick]
  <2>1. loops' = [l \in DOMAIN loops \cup {n} |-> IF l = n THEN Tick ELSE loops[l]]
    BY DEF Begins
  <2> HIDE DEF n
  <2>2. DOMAIN loops \cup {n} = {n}
    OBVIOUS
  <2>3. QED
    BY <2>1, <2>2
<1> HIDE DEF n
<1>4. /\ session'.broker = st.mode /\ session'.mode = st.mode /\ session'.label = st.label
      /\ session'.supervisor = n /\ session'.task = n /\ session'.unarmed = FALSE
      /\ n # 0
  BY <1>2 DEF Sessions, n
<1>5. DOMAIN loops' = {n} /\ loops'[n].at = "tick"
  BY <1>3 DEF Tick
<1>6. Agrees'
  BY <1>4, <1>5 DEF Agrees, Running
<1>7. QED
  BY <1>1, <1>6 DEF OneAtATime

LEMMA WaitAgrees ==
  ASSUME TerminalTypes, NEW r \in Requests, Alone(r), NEW place, place # Idle,
         request' = [request EXCEPT ![r] = place], InProgress(r)'
  PROVE  OneAtATime'
<1>1. \A q \in Requests : request'[q] # Idle => q = r
  BY DEF TerminalTypes, Alone
<1>2. ~Quiet'
  BY DEF TerminalTypes, Quiet
<1>3. QED
  BY <1>1, <1>2 DEF OneAtATime

LEMMA RetiringAgrees ==
  ASSUME TerminalTypes, NEW r \in Requests, Alone(r), DOMAIN loops = {},
         NEW st \in Sessions, NEW then \in Thens, Suits(then, st),
         Retiring(r, st, then)
  PROVE  OneAtATime'
<1>1. PICK todo \in SUBSET Symbols :
        request' = [request EXCEPT ![r] =
          [at |-> "retire", then |-> then, supervisor |-> st.supervisor, todo |-> todo]]
  BY DEF Retiring
<1> DEFINE place == [at |-> "retire", then |-> then, supervisor |-> st.supervisor, todo |-> todo]
<1>2. place # Idle /\ place.at = "retire" /\ place.then = then
  BY DEF Idle
<1> HIDE DEF place
<1>3. request' = [request EXCEPT ![r] = place]
  BY <1>1 DEF place
<1>4. request'[r] = place
  BY <1>3 DEF TerminalTypes
<1>5. InProgress(r)'
  BY <1>2, <1>4 DEF InProgress, Suits, Retiring
<1>6. QED
  BY <1>2, <1>3, <1>5, WaitAgrees

LEMMA JoiningAgrees ==
  ASSUME TerminalTypes, NEW r \in Requests, Alone(r), NEW st \in Sessions,
         DOMAIN loops \subseteq {st.task}, NEW then \in Thens, Suits(then, st),
         Joining(r, st, then)
  PROVE  OneAtATime'
<1> DEFINE place == [at |-> "join", then |-> then, loop |-> st.task]
<1>1. place # Idle /\ place.at = "join" /\ place.then = then /\ place.loop = st.task
  BY DEF Idle
<1>2. request' = [request EXCEPT ![r] = place]
  BY DEF Joining
<1> HIDE DEF place
<1>3. request'[r] = place
  BY <1>2 DEF TerminalTypes
<1>4. session'.mode = st.mode /\ session'.label = st.label
  BY DEF Joining, Sessions
<1>5. DOMAIN loops' \subseteq {st.task} /\ \A l \in DOMAIN loops' : loops'[l].at = "cancelled"
  BY DEF Joining, Cancelled
<1>6. InProgress(r)'
  BY <1>1, <1>3, <1>4, <1>5 DEF InProgress, Suits
<1>7. QED
  BY <1>1, <1>2, <1>6, WaitAgrees

LEMMA RestartAgrees ==
  ASSUME TerminalTypes, NEW r \in Requests, Alone(r), NEW st \in Sessions,
         DOMAIN loops \subseteq {st.task}, st.label = st.mode, ~closing',
         Restart(r, st)
  PROVE  OneAtATime'
<1> DEFINE then == [stage |-> "start", broker |-> st.mode]
           off == [st EXCEPT !.task = 0]
           none == [off EXCEPT !.supervisor = 0]
<1>1. then \in Thens /\ then.stage = "start" /\ then.broker = st.mode
  BY DEF Thens, Sessions
<1>2. off \in Sessions /\ off.mode = st.mode /\ off.label = st.label
  BY DEF Sessions
<1>3. none \in Sessions /\ none.mode = st.mode /\ none.label = st.label
  BY DEF Sessions
<1>4. \/ Joining(r, st, then)
      \/ st.task \notin DOMAIN loops /\ Retiring(r, off, then)
      \/ st.task \notin DOMAIN loops /\ Begins(r, none, st.mode)
  BY RestartCases
<1>5. Suits(then, off)
  BY <1>1, <1>2 DEF Suits
<1> HIDE DEF then, off, none
<1>6. CASE Joining(r, st, then)
  <2>1. Suits(then, st)
    BY <1>1 DEF Suits
  <2>2. QED
    BY <1>1, <1>6, <2>1, JoiningAgrees
<1>7. CASE st.task \notin DOMAIN loops
  <2>1. DOMAIN loops = {}
    BY <1>7
  <2>2. CASE Retiring(r, off, then)
    BY <1>1, <1>2, <1>5, <2>1, <2>2, RetiringAgrees
  <2>3. CASE Begins(r, none, st.mode)
    BY <1>3, <2>1, <2>3, BeginsAgrees
  <2>4. CASE Joining(r, st, then)
    BY <1>6, <2>4
  <2>5. QED
    BY <1>4, <2>2, <2>3, <2>4
<1>8. QED
  BY <1>4, <1>6, <1>7

LEMMA DoneAgrees ==
  ASSUME TerminalTypes, NEW r \in Requests, Alone(r), DOMAIN loops = {},
         NEW st \in Sessions, NEW then \in Thens, Suits(then, st),
         Done(r, then, st)
  PROVE  OneAtATime'
<1>1. CASE then.stage = "switch"
  <2>1. Switched(r, then, st) /\ then.target \in Modes /\ ~closing'
    BY <1>1 DEF Done, Thens, Suits
  <2>2. CASE ~Builds(then.target)
    <3> DEFINE t == [st EXCEPT !.unarmed = TRUE]
    <3>1. Ends(r, t) /\ t.unarmed
      BY <2>1, <2>2 DEF Switched, Sessions
    <3> HIDE DEF t
    <3>2. QED
      BY <3>1, EndsAgrees
  <2>3. CASE Builds(then.target)
    <3> DEFINE t == [st EXCEPT !.mode = then.target, !.label = then.target]
    <3>1. t \in Sessions /\ t.label = t.mode
      BY <2>1 DEF Sessions
    <3>2. Restart(r, t)
      BY <2>1, <2>3 DEF Switched
    <3> HIDE DEF t
    <3>3. QED
      BY <2>1, <3>1, <3>2, RestartAgrees
  <2>4. QED
    BY <2>2, <2>3
<1>2. CASE then.stage = "start"
  <2>1. Begins(r, st, st.mode) /\ st.label = st.mode /\ ~closing'
    BY <1>2 DEF Done, Restarted, Suits
  <2>2. QED
    BY <2>1, BeginsAgrees
<1>3. CASE then.stage = "close"
  BY <1>3, EndsAgrees DEF Done, Suits
<1>4. QED
  BY <1>1, <1>2, <1>3 DEF Thens

LEMMA RetiresAgrees ==
  ASSUME TerminalTypes, NEW r \in Requests, Alone(r), DOMAIN loops = {},
         NEW st \in Sessions, NEW then \in Thens, Suits(then, st),
         Retires(r, st, then, LAMBDA t : Done(r, then, t))
  PROVE  OneAtATime'
<1> DEFINE none == [st EXCEPT !.supervisor = 0]
<1>1. none \in Sessions /\ none.mode = st.mode /\ none.label = st.label
  BY DEF Sessions
<1>2. Retiring(r, st, then) \/ Done(r, then, none)
  BY RetiresCases
<1> HIDE DEF none
<1>3. Suits(then, none)
  BY <1>1 DEF Suits
<1>4. QED
  BY <1>1, <1>2, <1>3, RetiringAgrees, DoneAgrees

LEMMA StopsAgrees ==
  ASSUME TerminalTypes, NEW r \in Requests, Alone(r), NEW st \in Sessions,
         DOMAIN loops \subseteq {st.task}, NEW then \in Thens, Suits(then, st),
         Stops(r, st, then, LAMBDA t : Done(r, then, t))
  PROVE  OneAtATime'
<1> DEFINE off == [st EXCEPT !.task = 0]
<1>1. off \in Sessions /\ off.mode = st.mode /\ off.label = st.label
  BY DEF Sessions
<1>2. \/ Joining(r, st, then)
      \/ st.task \notin DOMAIN loops /\ Retires(r, off, then, LAMBDA t : Done(r, then, t))
  BY StopsCases
<1> HIDE DEF off
<1>3. CASE Joining(r, st, then)
  BY <1>3, JoiningAgrees
<1>4. CASE st.task \notin DOMAIN loops /\ Retires(r, off, then, LAMBDA t : Done(r, then, t))
  <2>1. DOMAIN loops = {}
    BY <1>4
  <2>2. Suits(then, off)
    BY <1>1 DEF Suits
  <2>3. QED
    BY <1>1, <1>4, <2>1, <2>2, RetiresAgrees
<1>5. QED
  BY <1>2, <1>3, <1>4

LEMMA QuietAgrees ==
  ASSUME OneAtATime, ~overlapped, Quiet, NEW r \in Requests
  PROVE  Alone(r) /\ Agrees
  BY DEF OneAtATime, Quiet, Alone

LEMMA BusyAgrees ==
  ASSUME OneAtATime, ~overlapped, NEW r \in Requests, request[r] # Idle
  PROVE  Alone(r) /\ InProgress(r)
  BY DEF OneAtATime, Alone

LEMMA RequestAgrees ==
  ASSUME TerminalTypes, OneAtATime, NEW r \in Requests,
         \/ \E target \in Modes, confirmed \in BOOLEAN : SetMode(r, target, confirmed)
         \/ Shutdown(r) \/ RequestStep(r)
  PROVE  OneAtATime'
<1> SUFFICES ASSUME ~overlapped'
             PROVE  OneAtATime'
  BY DEF OneAtATime
<1>0. session \in Sessions
  BY DEF TerminalTypes
<1>1. ASSUME NEW target \in Modes, NEW confirmed, SetMode(r, target, confirmed)
      PROVE  OneAtATime'
  <2> DEFINE then == [stage |-> "switch", target |-> target]
             named == [session EXCEPT !.label = target]
  <2>1. ~overlapped /\ Quiet /\ ~closing /\ closing' = closing
    BY <1>1 DEF SetMode
  <2>2. Alone(r) /\ Agrees
    BY <2>1, QuietAgrees
  <2>3. \/ target = session.mode /\ Restart(r, named)
        \/ Stops(r, session, then, LAMBDA t : Done(r, then, t))
        \/ UNCHANGED <<session, loops, request>>
    BY <1>1, SetModeCases
  <2>4. named \in Sessions /\ named.label = target /\ named.mode = session.mode
        /\ named.task = session.task
    BY <1>0 DEF Sessions
  <2>5. then \in Thens /\ then.stage = "switch"
    BY DEF Thens
  <2> HIDE DEF then, named
  <2>6. CASE target = session.mode /\ Restart(r, named)
    <3>1. DOMAIN loops \subseteq {named.task}
      BY <2>2, <2>4 DEF Agrees
    <3>2. QED
      BY <2>1, <2>2, <2>4, <2>6, <3>1, RestartAgrees
  <2>7. CASE Stops(r, session, then, LAMBDA t : Done(r, then, t))
    <3>1. DOMAIN loops \subseteq {session.task} /\ Suits(then, session)
      BY <2>1, <2>2, <2>5 DEF Agrees, Suits
    <3>2. QED
      BY <1>0, <2>2, <2>5, <2>7, <3>1, StopsAgrees
  <2>8. CASE UNCHANGED <<session, loops, request>>
    BY <2>1, <2>8 DEF OneAtATime, Quiet, Agrees, Running, InProgress
  <2>9. QED
    BY <2>3, <2>6, <2>7, <2>8
<1>2. CASE Shutdown(r)
  <2> DEFINE then == [stage |-> "close"]
  <2>1. ~overlapped /\ Quiet /\ closing'
    BY <1>2 DEF Shutdown
  <2>2. Alone(r) /\ Agrees
    BY <2>1, QuietAgrees
  <2>3. Stops(r, session, then, LAMBDA t : Done(r, then, t))
    BY <1>2, ShutdownCases
  <2>4. then \in Thens /\ then.stage = "close"
    BY DEF Thens
  <2> HIDE DEF then
  <2>5. DOMAIN loops \subseteq {session.task} /\ Suits(then, session)
    BY <2>1, <2>2, <2>4 DEF Agrees, Suits
  <2>6. QED
    BY <1>0, <2>2, <2>3, <2>4, <2>5, StopsAgrees
<1>3. CASE Join(r)
  <2> DEFINE then == request[r].then
  <2>1. /\ Retires(r, session, then, LAMBDA t : Done(r, then, t))
        /\ request[r].at = "join" /\ request[r].loop \notin DOMAIN loops
        /\ ~overlapped /\ closing' = closing
    BY <1>3 DEF Join, Awaited
  <2>2. then \in Thens /\ request[r] # Idle
    BY <2>1 DEF TerminalTypes, RequestPlaces, Idle
  <2>3. Alone(r) /\ InProgress(r)
    BY <2>1, <2>2, BusyAgrees
  <2>4. DOMAIN loops = {} /\ Suits(then, session)
    BY <2>1, <2>3 DEF InProgress, Suits
  <2> HIDE DEF then
  <2>5. QED
    BY <1>0, <2>1, <2>2, <2>3, <2>4, RetiresAgrees
<1>4. ASSUME NEW symbol \in Symbols, Retire(r, symbol) PROVE OneAtATime'
  <2> DEFINE then == request[r].then
             rest == request[r].todo \ {symbol}
             none == [session EXCEPT !.supervisor = 0]
  <2>1. request[r].at = "retire" /\ ~overlapped /\ closing' = closing
    BY <1>4 DEF Retire
  <2>2. /\ request[r] \in [at : {"retire"}, then : Thens, supervisor : Nat, todo : SUBSET Symbols]
        /\ request[r] # Idle /\ then \in Thens
    BY <2>1 DEF TerminalTypes, RequestPlaces, Idle
  <2>3. Alone(r) /\ InProgress(r)
    BY <2>1, <2>2, BusyAgrees
  <2>4. DOMAIN loops = {} /\ Suits(then, session)
    BY <2>1, <2>3 DEF InProgress, Suits
  <2>5. CASE rest = {}
    <3>1. Done(r, then, none)
      BY <1>4, <2>5 DEF Retire
    <3>2. none \in Sessions /\ none.mode = session.mode /\ none.label = session.label
      BY <1>0 DEF Sessions
    <3> HIDE DEF then, none
    <3>3. Suits(then, none)
      BY <2>4, <3>2 DEF Suits
    <3>4. QED
      BY <2>2, <2>3, <2>4, <3>1, <3>2, <3>3, DoneAgrees
  <2>6. CASE rest # {}
    <3> DEFINE place == [request[r] EXCEPT !.todo = rest]
    <3>1. request' = [request EXCEPT ![r] = place] /\ UNCHANGED <<session, loops>>
      BY <1>4, <2>6 DEF Retire
    <3>2. place.at = "retire" /\ place.then = then /\ place # Idle
      BY <2>2 DEF Idle
    <3>3. request'[r] = place
      BY <3>1 DEF TerminalTypes
    <3> HIDE DEF place
    <3>4. InProgress(r)'
      BY <2>4, <3>1, <3>2, <3>3 DEF InProgress, Suits
    <3>5. QED
      BY <2>3, <3>1, <3>2, <3>4, WaitAgrees
  <2>7. QED
    BY <2>5, <2>6
<1>5. QED
  BY <1>1, <1>2, <1>3, <1>4 DEF RequestStep

\* A loop moves on only while no request is in progress, unless it is to end.
LEMMA LoopStepAgrees ==
  ASSUME TerminalTypes, OneAtATime, NEW l \in DOMAIN loops, LoopStep(l)
  PROVE  OneAtATime'
<1> SUFFICES ASSUME ~overlapped
             PROVE  OneAtATime'
  BY DEF OneAtATime, LoopStep, ScanBegins, ScanRotates, ScanAdmits, Dispatch, LoopEnds, loopVars
<1>1. UNCHANGED <<session, request, closing, overlapped>>
  BY DEF LoopStep, ScanBegins, ScanRotates, ScanAdmits, Dispatch, LoopEnds, loopVars
<1>2. CASE LoopEnds(l)
  <2>1. loops[l].at = "cancelled" /\ loops' = [k \in DOMAIN loops \ {l} |-> loops[k]]
    BY <1>2 DEF LoopEnds, At, Gone
  <2>2. ~Quiet
    BY <2>1 DEF OneAtATime, Agrees
  <2>3. \A r \in Requests : InProgress(r) => InProgress(r)'
    BY <1>1, <2>1 DEF InProgress
  <2>4. QED
    BY <1>1, <2>2, <2>3 DEF OneAtATime, Quiet
<1>3. CASE ~LoopEnds(l)
  <2>1. loops[l].at # "cancelled"
    BY <1>3 DEF LoopStep, ScanBegins, ScanRotates, ScanAdmits, Dispatch, At
  <2>2. ASSUME NEW r \in Requests PROVE request[r] = Idle
    <3>1. SUFFICES ASSUME request[r] # Idle PROVE FALSE
      OBVIOUS
    <3>2. request[r].at \in {"join", "retire"}
      BY <3>1 DEF TerminalTypes, RequestPlaces
    <3>3. QED
      BY <2>1, <3>1, <3>2 DEF OneAtATime, InProgress
  <2>3. Agrees
    BY <2>2 DEF OneAtATime, Quiet
  <2>4. /\ DOMAIN loops = {l} /\ session.task = l /\ session.supervisor # 0
    BY <2>3 DEF Agrees, Running
  <2>5. DOMAIN loops' = {l} /\ loops'[l].at # "cancelled"
    BY <1>3, <2>1, <2>4
       DEF LoopStep, ScanBegins, ScanRotates, ScanAdmits, Dispatch, loopVars, Moves, Tick
  <2>6. Agrees'
    BY <1>1, <2>3, <2>4, <2>5 DEF Agrees, Running
  <2>7. QED
    BY <1>1, <2>2, <2>6 DEF OneAtATime
<1>4. QED
  BY <1>2, <1>3

LEMMA OneAtATimeStep ==
  TerminalTypes /\ OneAtATime /\ [TerminalNext]_terminalVars => OneAtATime'
<1> SUFFICES ASSUME TerminalTypes, OneAtATime, [TerminalNext]_terminalVars
             PROVE  OneAtATime'
  OBVIOUS
<1>1. ASSUME UNCHANGED <<session, loops, request, closing, overlapped>>
      PROVE  OneAtATime'
  BY <1>1 DEF OneAtATime, Quiet, Agrees, Running, InProgress
<1>2. ASSUME NEW s \in Symbols, Fill(s) PROVE OneAtATime'
  BY <1>1, <1>2 DEF Fill, loopVars
<1>3. CASE SetTradeEnabled
  BY <1>1, <1>3 DEF SetTradeEnabled
<1>4. CASE UNCHANGED terminalVars
  BY <1>1, <1>4 DEF terminalVars
<1>5. QED
  BY <1>2, <1>3, <1>4, RequestAgrees, LoopStepAgrees DEF TerminalNext

\* As long as POST /api/mode requests come one at a time, between them the one loop
\* that runs, its supervisor, the broker, the mode and the label agree, and a loop
\* does run unless the terminal closes or a switch met a withdrawn permission.
THEOREM SessionStaysInAgreement == TerminalSpec => []SessionAgrees
<1> DEFINE Inv == TerminalTypes /\ EnginesTradeOneBroker /\ OneAtATime
<1>1. TerminalInit => Inv
  <2> SUFFICES ASSUME TerminalInit
               PROVE  Inv
    OBVIOUS
  <2>1. TerminalTypes /\ EnginesTradeOneBroker
    BY TerminalTypesInit DEF TerminalInit, EnginesTradeOneBroker, EnginesOf
  <2>2. /\ session.mode = "dry_run" /\ session.label = "dry_run" /\ session.broker = "dry_run"
        /\ session.supervisor = 1 /\ session.task = 1 /\ session.unarmed = FALSE
    BY DEF TerminalInit, Started
  <2>3. DOMAIN loops = {1} /\ loops[1].at = "tick"
    BY DEF TerminalInit
  <2>4. Agrees
    BY <2>2, <2>3 DEF TerminalInit, Agrees, Running
  <2>5. OneAtATime
    BY <2>4 DEF TerminalInit, OneAtATime
  <2>6. QED
    BY <2>1, <2>5
<1>2. Inv /\ [TerminalNext]_terminalVars => Inv'
  BY TerminalStep, OneAtATimeStep
<1>3. Inv => SessionAgrees
  <2>1. Agrees => (Running = ~(closing \/ session.unarmed))
    <3>1. SUFFICES ASSUME Agrees PROVE Running = ~(closing \/ session.unarmed)
      OBVIOUS
    <3>2. Running \in BOOLEAN /\ (~(closing \/ session.unarmed)) \in BOOLEAN
      BY DEF Running
    <3>3. Running <=> ~(closing \/ session.unarmed)
      BY <3>1 DEF Agrees
    <3>4. QED
      BY <3>2, <3>3
  <2> DEFINE Same == Running = ~(closing \/ session.unarmed)
  <2>2. Inv /\ ~overlapped /\ Quiet => Agrees
    BY DEF OneAtATime
  <2>3. Agrees => Same
    BY <2>1
  <2> HIDE DEF Same
  <2>4. Inv => (~overlapped /\ Quiet =>
                  /\ LabelIsBroker /\ DOMAIN loops \subseteq {session.task}
                  /\ Running => session.supervisor = session.task
                  /\ Same)
    BY <2>2, <2>3 DEF Agrees, LabelIsBroker
  <2>5. QED
    BY <2>4, Zenon DEF SessionAgrees, Same
<1>4. QED
  BY <1>1, <1>2, <1>3, PTL DEF TerminalSpec

--------------------------------------------------------------------------------
(* The processes that start.  A process is live from its begin until it has nothing *)
(* left to do but show a window; Balanced counts the live ones against the races.   *)

Places == {"off", "lock", "probe", "service", "claim", "wait", "open", "attached",
           "failed", "gone"}

LaunchTypes ==
  /\ lock \in Ports \cup {NoPort} /\ races \in Nat
  /\ holder \in [Ports -> Procs \cup {None, Other}]
  /\ main \in [Windows -> Places]
  /\ server \in [Procs -> {"off", "ask", "bind", "serving", "ended"}]
  /\ port \in [Procs -> Ports \cup {NoPort}] /\ found \in [Windows -> Ports \cup {NoPort}]

\* Who listens on a port serves it.
HoldersServe ==
  \A n \in Ports, p \in Procs : (holder[n] = p) <=> (server[p] = "serving" /\ port[p] = n)

\* A process has a server and a port from where it claims one.
ServersFollow ==
  /\ \A w \in Windows :
       /\ main[w] \in {"off", "lock", "probe", "service", "claim", "attached"} => server[w] = "off"
       /\ main[w] \in {"probe", "wait"} => found[w] \in Ports
       /\ main[w] = "gone" => server[w] = "ended"
  /\ \A p \in Procs : server[p] \in {"ask", "bind", "serving"} => port[p] \in Ports

Looking == {w \in Windows : main[w] \in {"lock", "probe", "service", "claim"}}

IsLive(p) ==
  \/ p \in Windows /\ main[p] \in {"lock", "probe", "service", "claim", "wait", "open"}
  \/ server[p] \in {"ask", "bind", "serving"}

Living == {p \in Procs : IsLive(p)}
NLiving == Cardinality(Living)

\* A window that looks now for a terminal looks where v is.
Known(v) == lock = port[v] \/ port[v] = ServicePort

\* v will serve where it is looked for, or has not yet decided to serve.
Heir(v) == v \in Looking \/ (server[v] \in {"ask", "bind", "serving"} /\ Known(v))

Finds(w, v) ==
  \/ main[w] = "lock"
  \/ main[w] = "probe" /\ (found[w] = port[v] \/ port[v] = ServicePort)
  \/ main[w] = "service" /\ port[v] = ServicePort

\* v serves, and every window that looks is about to find it.
Draws(v) == server[v] = "serving" /\ Known(v) /\ \A w \in Looking : Finds(w, v)

HeirExists == \E v \in Procs : Heir(v)
AllAttach == Looking # {} /\ \E v \in Procs : Draws(v)

\* Two more live processes than races only while windows look that will attach, one
\* more only while the next window would find it, and otherwise none.
Balanced ==
  \/ NLiving <= races
  \/ NLiving <= races + 1 /\ HeirExists
  \/ NLiving <= races + 2 /\ AllAttach

LaunchInv == LaunchTypes /\ HoldersServe /\ ServersFollow /\ Balanced

LEMMA KindsOfProcesses ==
  /\ Windows \subseteq Procs /\ Services \subseteq Procs /\ Windows \cap Services = {}
  /\ \A p \in Procs : p \in Windows \/ p \in Services
  /\ None \notin Procs /\ Other \notin Procs /\ None # Other
  /\ ServicePort \in Ports /\ NoPort \notin Ports /\ Ports \subseteq Nat
  /\ MaxRaces \in Nat /\ IsFiniteSet(Procs)
<1>1. IsFiniteSet(Windows \cup Services)
  BY LaunchAssumption, FS_Union
<1>2. QED
  BY <1>1, LaunchAssumption DEF Procs, None, Other

LEMMA LiveIsFinite ==
  /\ IsFiniteSet(Living) /\ NLiving \in Nat
  /\ IsFiniteSet(Living') /\ NLiving' \in Nat
<1>1. Living \subseteq Procs /\ Living' \subseteq Procs
  BY DEF Living
<1>2. IsFiniteSet(Living) /\ IsFiniteSet(Living')
  BY <1>1, KindsOfProcesses, FS_Subset
<1>3. QED
  BY <1>2, FS_CardinalityType DEF NLiving

\* A step that leaves every process but p live or not as it was.
OnlyLife(p) == \A q \in Procs : q # p => (IsLive(q)' <=> IsLive(q))

LEMMA LiveCount ==
  ASSUME NEW p \in Procs, OnlyLife(p)
  PROVE  /\ NLiving' <= NLiving + 1
         /\ IsLive(p) \/ ~IsLive(p)' => NLiving' <= NLiving
         /\ IsLive(p) /\ ~IsLive(p)' => NLiving' <= NLiving - 1
<1>1. \A q \in Procs : q # p => (q \in Living' <=> q \in Living)
  BY DEF OnlyLife, Living
<1>2. /\ (p \in Living <=> IsLive(p)) /\ (p \in Living' <=> IsLive(p)')
      /\ Living \subseteq Procs /\ Living' \subseteq Procs
  BY DEF Living
<1> DEFINE L == Living
           M == Living'
<1>3. IsFiniteSet(L) /\ IsFiniteSet(M) /\ Cardinality(L) = NLiving /\ Cardinality(M) = NLiving'
      /\ NLiving \in Nat /\ NLiving' \in Nat
  BY LiveIsFinite DEF NLiving
<1> HIDE DEF L, M
<1>4. CASE p \in L /\ p \notin M
  <2>1. M = L \ {p}
    BY <1>1, <1>2, <1>4 DEF L, M
  <2>2. Cardinality(M) = Cardinality(L) - 1
    BY <1>3, <1>4, <2>1, FS_RemoveElement
  <2>3. QED
    BY <1>2, <1>3, <1>4, <2>2 DEF L, M
<1>5. CASE p \notin L /\ p \in M
  <2>1. M = L \cup {p}
    BY <1>1, <1>2, <1>5 DEF L, M
  <2>2. Cardinality(M) = Cardinality(L) + 1
    BY <1>3, <1>5, <2>1, FS_AddElement
  <2>3. QED
    BY <1>2, <1>3, <1>5, <2>2 DEF L, M
<1>6. CASE p \in L <=> p \in M
  <2>1. M = L
    BY <1>1, <1>2, <1>6 DEF L, M
  <2>2. NLiving' = NLiving
    BY <1>3, <2>1
  <2>3. IsLive(p) <=> IsLive(p)'
    BY <1>2, <1>6 DEF L, M
  <2>4. QED
    BY <1>3, <2>2, <2>3
<1>7. QED
  BY <1>4, <1>5, <1>6

LEMMA PaidMargin ==
  \A n, m, k, l \in Nat : m + k + 1 <= n + l =>
    /\ n <= k + 1 => m <= l
    /\ n <= k + 2 => m <= l + 1
    /\ n <= k => n <= k + 1
OBVIOUS

LEMMA FreeMargin ==
  \A n, m, k, l \in Nat : m + k <= n + l =>
    /\ n <= k => m <= l
    /\ n <= k + 1 => m <= l + 1
    /\ n <= k + 2 => m <= l + 2
OBVIOUS

LEMMA OneForOne ==
  \A n, m, k \in Nat :
    /\ m <= n + 1 => m + k <= n + (k + 1)
    /\ m <= n => m + k <= n + k
    /\ m <= n => m + k + 1 <= n + (k + 1)
    /\ m <= n - 1 => m + k + 1 <= n + k
OBVIOUS

\* A step that comes at the wrong time, or ends a process, keeps the balance.
LEMMA PaidIsBalanced ==
  ASSUME LaunchTypes, races' \in Nat, Balanced, NLiving' + races + 1 <= NLiving + races',
         AllAttach => HeirExists'
  PROVE  Balanced'
<1>1. NLiving \in Nat /\ NLiving' \in Nat /\ races \in Nat
  BY LiveIsFinite DEF LaunchTypes
<1>2. /\ NLiving <= races + 1 => NLiving' <= races'
      /\ NLiving <= races + 2 => NLiving' <= races' + 1
      /\ NLiving <= races => NLiving <= races + 1
  BY <1>1, PaidMargin
<1>3. QED
  BY <1>2 DEF Balanced

\* So does a step that costs nothing and leaves an heir where there was one.
LEMMA FreeIsBalanced ==
  ASSUME LaunchTypes, races' \in Nat, Balanced, NLiving' + races <= NLiving + races',
         HeirExists => HeirExists', AllAttach => AllAttach'
  PROVE  Balanced'
<1>1. NLiving \in Nat /\ NLiving' \in Nat /\ races \in Nat
  BY LiveIsFinite DEF LaunchTypes
<1>2. /\ NLiving <= races => NLiving' <= races'
      /\ NLiving <= races + 1 => NLiving' <= races' + 1
      /\ NLiving <= races + 2 => NLiving' <= races' + 2
  BY <1>1, FreeMargin
<1>3. QED
  BY <1>2 DEF Balanced

LEMMA CostsNothing ==
  ASSUME LaunchTypes, races' = races, Balanced, NLiving' <= NLiving,
         HeirExists => HeirExists', AllAttach => AllAttach'
  PROVE  Balanced'
<1>1. NLiving \in Nat /\ NLiving' \in Nat /\ races \in Nat
  BY LiveIsFinite DEF LaunchTypes
<1>2. NLiving' + races <= NLiving + races
  BY <1>1, OneForOne
<1>3. QED
  BY <1>1, <1>2, FreeIsBalanced

LEMMA OneRaces ==
  ASSUME LaunchTypes, races' = races + 1, Balanced, NLiving' <= NLiving, AllAttach => HeirExists'
  PROVE  Balanced'
<1>1. NLiving \in Nat /\ NLiving' \in Nat /\ races \in Nat /\ races + 1 \in Nat
  BY LiveIsFinite DEF LaunchTypes
<1>2. NLiving' + races + 1 <= NLiving + (races + 1)
  BY <1>1, OneForOne
<1>3. QED
  BY <1>1, <1>2, PaidIsBalanced

LEMMA OneEnds ==
  ASSUME LaunchTypes, races' = races, Balanced, NLiving' <= NLiving - 1, AllAttach => HeirExists'
  PROVE  Balanced'
<1>1. NLiving \in Nat /\ NLiving' \in Nat /\ races \in Nat
  BY LiveIsFinite DEF LaunchTypes
<1>2. NLiving' + races + 1 <= NLiving + races
  BY <1>1, OneForOne
<1>3. QED
  BY <1>1, <1>2, PaidIsBalanced

\* A step of p leaves the other processes where they are.
Others(p) ==
  \A q \in Procs : q # p =>
    /\ server'[q] = server[q] /\ port'[q] = port[q]
    /\ q \in Windows => main'[q] = main[q] /\ found'[q] = found[q]

LEMMA OthersKeepLife ==
  ASSUME NEW p \in Procs, Others(p)
  PROVE  OnlyLife(p)
BY KindsOfProcesses DEF Others, OnlyLife, IsLive

LEMMA RacesCount ==
  ASSUME races \in Nat, NEW b \in BOOLEAN, Races(b)
  PROVE  races' \in Nat /\ (b => races' = races + 1) /\ (~b => races' = races)
BY DEF Races

\* A step of a window that looks on, without any other: it is an heir.
LEMMA LookerIsHeir ==
  ASSUME NEW w \in Windows, main'[w] \in {"lock", "probe", "service", "claim"}
  PROVE  HeirExists'
BY KindsOfProcesses DEF HeirExists, Heir, Looking

\* A step that neither moves a window that looks nor changes what serves.
LEMMA SameAttach ==
  ASSUME NEW p \in Procs, Others(p), lock' = lock, Looking' = Looking,
         server[p] # "serving", p \notin Looking
  PROVE  AllAttach => AllAttach'
<1>1. SUFFICES ASSUME AllAttach PROVE AllAttach'
  OBVIOUS
<1>2. PICK v \in Procs : Draws(v)
  BY <1>1 DEF AllAttach
<1>3. v # p
  BY <1>2 DEF Draws
<1>4. server'[v] = "serving" /\ port'[v] = port[v]
  BY <1>2, <1>3 DEF Draws, Others
<1>5. \A w \in Looking : w # p /\ main'[w] = main[w] /\ found'[w] = found[w]
  BY KindsOfProcesses DEF Others, Looking
<1>6. Draws(v)'
  BY <1>2, <1>4, <1>5 DEF Draws, Known, Finds
<1>7. QED
  BY <1>1, <1>6 DEF AllAttach

LEMMA WindowStarts ==
  ASSUME LaunchInv, NEW w \in Windows, WindowBegins(w)
  PROVE  LaunchInv'
<1> USE KindsOfProcesses DEF LaunchInv
<1>1. /\ main[w] = "off" /\ server[w] = "off" /\ main' = [main EXCEPT ![w] = "lock"]
      /\ UNCHANGED <<lock, holder, server, port, found>>
  BY DEF WindowBegins, ServersFollow
<1>2. /\ races' \in Nat
      /\ ~OthersSettled(w) => races' = races + 1
      /\ OthersSettled(w) => races' = races
  <2>1. (~OthersSettled(w)) \in BOOLEAN /\ Races(~OthersSettled(w)) /\ races \in Nat
    BY DEF WindowBegins, LaunchTypes
  <2>2. QED
    BY <2>1, RacesCount
<1>3. LaunchTypes' /\ HoldersServe' /\ ServersFollow' /\ Others(w) /\ main'[w] = "lock"
  BY <1>1, <1>2 DEF LaunchTypes, Places, HoldersServe, ServersFollow, Others
<1>4. NLiving' <= NLiving + 1
  BY <1>3, OthersKeepLife, LiveCount
<1>5. HeirExists'
  BY <1>3, LookerIsHeir
<1>6. Looking' = Looking \cup {w}
  BY <1>1 DEF Looking, LaunchTypes
<1>7. NLiving \in Nat /\ NLiving' \in Nat /\ races \in Nat
  BY LiveIsFinite DEF LaunchTypes
<1>8. ASSUME NEW v \in Procs, Known(v), server[v] = "serving", \A u \in Looking : Finds(u, v)
      PROVE  AllAttach'
  <2>1. server'[v] = "serving" /\ Known(v)'
    BY <1>1, <1>8 DEF Known
  <2>2. \A u \in Looking' : Finds(u, v)'
    BY <1>1, <1>3, <1>6, <1>8 DEF Finds, LaunchTypes, Looking
  <2>3. QED
    BY <1>6, <2>1, <2>2 DEF AllAttach, Draws
<1>9. CASE ~OthersSettled(w)
  <2>1. AllAttach => AllAttach'
    BY <1>8 DEF AllAttach, Draws
  <2>2. NLiving' + races <= NLiving + races'
    <3>1. NLiving' + races <= NLiving + (races + 1)
      BY <1>4, <1>7, OneForOne
    <3>2. QED
      BY <1>2, <1>9, <3>1
  <2>3. Balanced'
    BY <1>2, <1>5, <2>1, <2>2, FreeIsBalanced
  <2>4. QED
    BY <1>3, <2>3
<1>10. CASE OthersSettled(w)
  <2>1. Looking = {}
    BY <1>1, <1>10 DEF OthersSettled, Settled, Looking
  <2>2. ASSUME NEW v \in Procs, Heir(v) PROVE AllAttach'
    <3>1. server[v] \in {"ask", "bind", "serving"} /\ Known(v) /\ v # w
      BY <1>1, <2>1, <2>2 DEF Heir
    <3>2. server[v] = "serving"
      BY <1>10, <3>1 DEF OthersSettled, Settled
    <3>3. QED
      BY <1>8, <2>1, <3>1, <3>2
  <2>3. NLiving <= races \/ (NLiving <= races + 1 /\ AllAttach')
    BY <2>1, <2>2 DEF Balanced, AllAttach, HeirExists
  <2>4. NLiving <= races => NLiving' <= races' + 1
    BY <1>2, <1>4, <1>7, <1>10
  <2>5. NLiving <= races + 1 => NLiving' <= races' + 2
    BY <1>2, <1>4, <1>7, <1>10
  <2>6. Balanced'
    BY <1>5, <2>3, <2>4, <2>5 DEF Balanced
  <2>7. QED
    BY <1>3, <2>6
<1>11. QED
  BY <1>9, <1>10

LEMMA LockIsRead ==
  ASSUME LaunchInv, NEW w \in Windows, ReadLock(w)
  PROVE  LaunchInv'
<1> USE KindsOfProcesses DEF LaunchInv
<1>1. /\ main[w] = "lock" /\ server[w] = "off"
      /\ main' = [main EXCEPT ![w] = IF lock = NoPort THEN "service" ELSE "probe"]
      /\ found' = [found EXCEPT ![w] = lock]
      /\ UNCHANGED <<lock, holder, server, port, races>>
  BY DEF ReadLock, ServersFollow
<1>2. LaunchTypes' /\ HoldersServe' /\ ServersFollow' /\ Others(w)
  BY <1>1 DEF LaunchTypes, Places, HoldersServe, ServersFollow, Others
<1>3. main'[w] \in {"service", "probe"} /\ Looking' = Looking /\ w \in Looking
  BY <1>1 DEF Looking, LaunchTypes
<1>4. AllAttach => AllAttach'
  <2>1. SUFFICES ASSUME NEW v \in Procs, Draws(v) PROVE Draws(v)'
    BY <1>3 DEF AllAttach
  <2>2. server'[v] = "serving" /\ Known(v)' /\ Known(v) /\ port[v] \in Ports
    BY <1>1, <2>1 DEF Draws, Known, ServersFollow
  <2>3. Finds(w, v)'
    BY <1>1, <2>2 DEF Finds, Known, LaunchTypes
  <2>4. \A u \in Looking : u # w => Finds(u, v)'
    BY <1>1, <1>2, <2>1 DEF Draws, Finds, Others, Looking
  <2>5. QED
    BY <1>3, <2>2, <2>3, <2>4 DEF Draws
<1>5. HeirExists'
  BY <1>3, LookerIsHeir
<1>6. NLiving' <= NLiving
  <2>1. IsLive(w)'
    BY <1>3 DEF IsLive
  <2>2. IsLive(w)
    BY <1>1 DEF IsLive
  <2>3. QED
    BY <1>2, <2>2, OthersKeepLife, LiveCount
<1>7. Balanced'
  BY <1>1, <1>2, <1>4, <1>5, <1>6, CostsNothing
<1>8. QED
  BY <1>2, <1>7

\* A window asks a port and goes on to look in the next place or attaches.
LEMMA WindowAsks ==
  ASSUME LaunchInv, NEW w \in Windows, ProbeLock(w) \/ ProbeService(w)
  PROVE  LaunchInv'
<1> USE KindsOfProcesses DEF LaunchInv
<1> DEFINE n == IF main[w] = "probe" THEN found[w] ELSE ServicePort
           next == IF main[w] = "probe" THEN "service" ELSE "claim"
<1>1. /\ main[w] \in {"probe", "service"} /\ server[w] = "off" /\ n \in Ports
      /\ UNCHANGED <<lock, holder, server, port, found>>
  BY DEF ProbeLock, ProbeService, ServersFollow
<1>2. PICK owner \in Owner(n) :
        /\ Races(Missed(n, owner))
        /\ main' = [main EXCEPT ![w] = IF owner = "godalgo" THEN "attached" ELSE next]
  BY DEF ProbeLock, ProbeService
<1>3. /\ races' \in Nat
      /\ Missed(n, owner) => races' = races + 1
      /\ ~Missed(n, owner) => races' = races
  <2>1. Missed(n, owner) \in BOOLEAN /\ races \in Nat
    BY DEF Missed, LaunchTypes
  <2> HIDE DEF n
  <2>2. QED
    BY <1>2, <2>1, RacesCount
<1>4. holder[n] \in Procs => owner = "godalgo" \/ Missed(n, owner)
  BY <1>1, <1>2 DEF Owner, Missed, LaunchTypes
<1>5. LaunchTypes' /\ HoldersServe' /\ ServersFollow' /\ Others(w)
  <2>1. LaunchTypes' /\ Others(w)
    BY <1>1, <1>2, <1>3 DEF LaunchTypes, Places, Others
  <2>2. HoldersServe'
    BY <1>1 DEF HoldersServe
  <2>3. ServersFollow'
    BY <1>1, <1>2 DEF ServersFollow, LaunchTypes
  <2>4. QED
    BY <2>1, <2>2, <2>3
<1>6. IsLive(w)
  BY <1>1 DEF IsLive
<1>7. NLiving' <= NLiving
  BY <1>5, <1>6, OthersKeepLife, LiveCount
<1>8. CASE owner = "godalgo"
  <2>1. races' = races /\ ~IsLive(w)'
    BY <1>1, <1>2, <1>3, <1>8 DEF Missed, IsLive, LaunchTypes
  <2>2. NLiving' <= NLiving - 1
    BY <1>5, <1>6, <2>1, OthersKeepLife, LiveCount
  <2>3. AllAttach => HeirExists'
    <3>1. SUFFICES ASSUME NEW v \in Procs, Draws(v) PROVE Heir(v)'
      BY DEF AllAttach, HeirExists
    <3>2. QED
      BY <1>1, <3>1 DEF Draws, Heir, Known
  <2>4. Balanced'
    BY <1>5, <2>1, <2>2, <2>3, OneEnds
  <2>5. QED
    BY <1>5, <2>4
<1>9. CASE owner # "godalgo"
  <2>1. main'[w] \in {"service", "claim"} /\ Looking' = Looking
    BY <1>1, <1>2, <1>9 DEF Looking, LaunchTypes
  <2>2. HeirExists'
    BY <2>1, LookerIsHeir
  <2>3. CASE Missed(n, owner)
    <3>1. Balanced'
      BY <1>3, <1>5, <1>7, <2>2, <2>3, OneRaces
    <3>2. QED
      BY <1>5, <3>1
  <2>4. CASE ~Missed(n, owner)
    <3>1. holder[n] \notin Procs
      BY <1>4, <1>9, <2>4
    <3>2. ASSUME NEW v \in Procs, Draws(v) PROVE Draws(v)'
      <4>1. port[v] \in Ports /\ holder[port[v]] = v /\ Finds(w, v)
        BY <1>1, <3>2 DEF Draws, ServersFollow, HoldersServe, Looking
      <4>2. main[w] = "probe" /\ port[v] = ServicePort
        BY <1>1, <3>1, <4>1 DEF Finds
      <4>3. main'[w] = "service"
        BY <1>1, <1>2, <1>9, <4>2 DEF LaunchTypes
      <4>4. \A u \in Looking : u # w => Finds(u, v)'
        BY <1>1, <1>5, <3>2 DEF Draws, Finds, Others, Looking
      <4>5. Finds(w, v)'
        BY <1>1, <4>2, <4>3 DEF Finds
      <4>6. QED
        BY <1>1, <2>1, <3>2, <4>4, <4>5 DEF Draws, Known
    <3>3. AllAttach => AllAttach'
      BY <2>1, <3>2 DEF AllAttach
    <3>4. Balanced'
      BY <1>3, <1>5, <1>7, <2>2, <2>4, <3>3, CostsNothing
    <3>5. QED
      BY <1>5, <3>4
  <2>5. QED
    BY <2>3, <2>4
<1>10. QED
  BY <1>8, <1>9

LEMMA WindowClaims ==
  ASSUME LaunchInv, NEW w \in Windows, Claim(w)
  PROVE  LaunchInv'
<1> USE KindsOfProcesses DEF LaunchInv
<1>1. PICK n \in Ports \ {ServicePort} :
        /\ lock' = n /\ holder[n] = None
        /\ port' = [port EXCEPT ![w] = n] /\ found' = [found EXCEPT ![w] = n]
  BY DEF Claim
<1>2. /\ main[w] = "claim" /\ server[w] = "off"
      /\ main' = [main EXCEPT ![w] = "wait"] /\ server' = [server EXCEPT ![w] = "ask"]
      /\ UNCHANGED <<holder, races>>
  BY DEF Claim, ServersFollow
<1>3. LaunchTypes' /\ Others(w)
  BY <1>1, <1>2 DEF LaunchTypes, Places, Others
<1>4. HoldersServe'
  BY <1>1, <1>2 DEF HoldersServe, LaunchTypes
<1>5. ServersFollow'
  BY <1>1, <1>2 DEF ServersFollow, LaunchTypes
<1>6. NLiving' <= NLiving
  <2>1. IsLive(w)
    BY <1>2 DEF IsLive
  <2>2. QED
    BY <1>3, <2>1, OthersKeepLife, LiveCount
<1>7. HeirExists'
  <2>1. server'[w] = "ask" /\ port'[w] = lock'
    BY <1>1, <1>2 DEF LaunchTypes
  <2>2. QED
    BY <2>1 DEF HeirExists, Heir, Known
<1>8. ~AllAttach
  BY <1>2 DEF AllAttach, Draws, Finds, Looking
<1>9. Balanced'
  BY <1>2, <1>6, <1>7, <1>8, CostsNothing
<1>10. QED
  BY <1>3, <1>4, <1>5, <1>9

LEMMA ServiceStarts ==
  ASSUME LaunchInv, NEW s \in Services, ServiceBegins(s)
  PROVE  LaunchInv'
<1> USE KindsOfProcesses DEF LaunchInv
<1> DEFINE early == ~OthersSettled(s) \/ \E q \in Procs : server[q] = "serving"
<1>1. /\ server[s] = "off" /\ s \in Procs /\ s \notin Windows
      /\ port' = [port EXCEPT ![s] = ServicePort] /\ server' = [server EXCEPT ![s] = "ask"]
      /\ UNCHANGED <<lock, holder, main, found>>
  BY DEF ServiceBegins
<1>2. /\ races' \in Nat
      /\ early => races' = races + 1
      /\ ~early => races' = races
  <2>1. early \in BOOLEAN /\ Races(early) /\ races \in Nat
    BY DEF ServiceBegins, LaunchTypes
  <2> HIDE DEF early
  <2>2. QED
    BY <2>1, RacesCount
<1>3. LaunchTypes' /\ Others(s)
  BY <1>1, <1>2 DEF LaunchTypes, Others
<1>4. HoldersServe'
  BY <1>1 DEF HoldersServe, LaunchTypes
<1>5. ServersFollow'
  BY <1>1 DEF ServersFollow, LaunchTypes
<1>6. NLiving' <= NLiving + 1 /\ NLiving \in Nat /\ NLiving' \in Nat /\ races \in Nat
  BY <1>1, <1>3, OthersKeepLife, LiveCount, LiveIsFinite DEF LaunchTypes
<1>7. HeirExists'
  <2>1. server'[s] = "ask" /\ port'[s] = ServicePort
    BY <1>1 DEF LaunchTypes
  <2>2. QED
    BY <1>1, <2>1 DEF HeirExists, Heir, Known
<1>8. CASE early
  <2>1. AllAttach => AllAttach'
    <3>1. Looking' = Looking /\ s \notin Looking
      BY <1>1 DEF Looking
    <3>2. QED
      BY <1>1, <1>3, <3>1, SameAttach
  <2>2. NLiving' + races <= NLiving + (races + 1)
    BY <1>6, OneForOne
  <2>3. NLiving' + races <= NLiving + races'
    BY <1>2, <1>8, <2>2
  <2>4. Balanced'
    BY <1>2, <1>7, <2>1, <2>3, FreeIsBalanced
  <2>5. QED
    BY <1>3, <1>4, <1>5, <2>4
<1>9. CASE ~early
  <2>1. ASSUME NEW v \in Procs, Heir(v) PROVE FALSE
    <3>1. v \in Looking \/ server[v] \in {"ask", "bind", "serving"}
      BY <2>1 DEF Heir
    <3>2. v # s
      BY <1>1, <3>1 DEF Looking
    <3>3. Settled(v) /\ server[v] # "serving"
      BY <1>9, <3>2 DEF OthersSettled
    <3>4. QED
      BY <3>1, <3>3 DEF Settled, Looking
  <2>2. Looking = {}
    BY <2>1 DEF Heir, Looking
  <2>3. NLiving <= races
    BY <2>1, <2>2 DEF Balanced, HeirExists, AllAttach
  <2>4. NLiving' <= races' + 1
    BY <1>2, <1>6, <1>9, <2>3
  <2>5. Balanced'
    BY <1>7, <2>4 DEF Balanced
  <2>6. QED
    BY <1>3, <1>4, <1>5, <2>5
<1>10. QED
  BY <1>8, <1>9

\* A server ends because one of ours has its port: that one stands in for it.
LEMMA OtherStandsIn ==
  ASSUME LaunchTypes, HoldersServe, ServersFollow, NEW p \in Procs, Others(p), lock' = lock,
         main' = main, server[p] \in {"ask", "bind"}, holder[port[p]] \in Procs
  PROVE  HeirExists => HeirExists'
<1> USE KindsOfProcesses
<1>1. PICK y \in Procs : y = holder[port[p]]
  OBVIOUS
<1>2. port[p] \in Ports /\ p \in Procs
  BY DEF ServersFollow
<1>3. server[y] = "serving" /\ port[y] = port[p] /\ y # p
  <2>1. \A n \in Ports : (holder[n] = y) <=> (server[y] = "serving" /\ port[y] = n)
    BY DEF HoldersServe
  <2>2. server[y] = "serving" /\ port[y] = port[p]
    BY <1>1, <1>2, <2>1
  <2>3. QED
    BY <2>2
<1>4. server'[y] = "serving" /\ port'[y] = port[y]
  BY <1>3 DEF Others
<1>5. SUFFICES ASSUME NEW v \in Procs, Heir(v) PROVE HeirExists'
  BY DEF HeirExists
<1>6. CASE v # p
  <2>1. server'[v] = server[v] /\ port'[v] = port[v]
    BY <1>6 DEF Others
  <2>2. Heir(v)'
    BY <1>5, <2>1 DEF Heir, Known, Looking
  <2>3. QED
    BY <2>2 DEF HeirExists
<1>7. CASE v = p /\ v \notin Looking
  <2>1. Known(y)
    BY <1>3, <1>5, <1>7 DEF Heir, Known
  <2>2. Heir(y)'
    BY <1>4, <2>1 DEF Heir, Known
  <2>3. QED
    BY <2>2 DEF HeirExists
<1>8. CASE v \in Looking
  BY <1>8 DEF HeirExists, Heir, Looking
<1>9. QED
  BY <1>6, <1>7, <1>8

\* What a step of a server alone keeps, whatever port it goes to.
LEMMA ServerMoves ==
  ASSUME LaunchInv, NEW p \in Procs, Others(p), UNCHANGED <<lock, main, found>>,
         server[p] \in {"ask", "bind"}
  PROVE  /\ NLiving' <= NLiving
         /\ AllAttach => AllAttach'
         /\ AllAttach => HeirExists'
<1> USE KindsOfProcesses DEF LaunchInv
<1>1. IsLive(p)
  BY DEF IsLive
<1>2. NLiving' <= NLiving
  BY <1>1, OthersKeepLife, LiveCount
<1>3. Looking' = Looking /\ p \notin Looking
  BY DEF Looking, ServersFollow
<1>4. AllAttach => AllAttach'
  BY <1>3, SameAttach
<1>5. AllAttach => HeirExists'
  BY <1>3 DEF AllAttach, HeirExists, Heir, Looking
<1>6. QED
  BY <1>2, <1>4, <1>5

LEMMA ServerAsks ==
  ASSUME LaunchInv, NEW p \in Procs, Ask(p)
  PROVE  LaunchInv'
<1> USE KindsOfProcesses DEF LaunchInv
<1>1. /\ server[p] = "ask" /\ port[p] \in Ports
      /\ UNCHANGED <<lock, holder, main, found>>
  BY DEF Ask, ServersFollow
<1>2. PICK owner \in Owner(port[p]), later \in SUBSET Ports :
        /\ owner # "other" => later = {}
        /\ Races(owner = "other")
        /\ server' = [server EXCEPT ![p] =
               IF owner = "free" \/ later # {} THEN "bind" ELSE "ended"]
        /\ \/ UNCHANGED port
           \/ /\ owner = "other"
              /\ \E n \in Ports : port' = [port EXCEPT ![p] = n]
  <2>1. PICK owner \in Owner(port[p]) :
          LET later == IF owner = "other"
                       THEN {n \in Ports : n > port[p] /\ holder[n] = None} ELSE {}
          IN  /\ Races(owner = "other")
              /\ server' = [server EXCEPT ![p] =
                     IF owner = "free" \/ later # {} THEN "bind" ELSE "ended"]
              /\ IF later = {} THEN UNCHANGED port
                 ELSE port' = [port EXCEPT ![p] =
                                  CHOOSE n \in later : \A m \in later : n <= m]
    BY DEF Ask
  <2> DEFINE later == IF owner = "other"
                      THEN {n \in Ports : n > port[p] /\ holder[n] = None} ELSE {}
  <2>2. later \subseteq Ports /\ (owner # "other" => later = {})
    OBVIOUS
  <2>3. /\ Races(owner = "other")
        /\ server' = [server EXCEPT ![p] =
               IF owner = "free" \/ later # {} THEN "bind" ELSE "ended"]
        /\ IF later = {} THEN UNCHANGED port
           ELSE port' = [port EXCEPT ![p] = CHOOSE n \in later : \A m \in later : n <= m]
    BY <2>1
  <2> HIDE DEF later
  <2>4. ASSUME later # {} PROVE (CHOOSE n \in later : \A m \in later : n <= m) \in later
    <3>1. later \subseteq Nat
      BY <2>2
    <3>2. \E n \in later : \A m \in later : n <= m
      BY <2>4, <3>1, LeastNatural
    <3>3. QED
      BY <3>2
  <2>5. QED
    BY <2>2, <2>3, <2>4
<1>3. /\ races' \in Nat
      /\ owner = "other" => races' = races + 1
      /\ owner # "other" => races' = races
  <2>1. (owner = "other") \in BOOLEAN /\ races \in Nat
    BY DEF LaunchTypes
  <2>2. QED
    BY <1>2, <2>1, RacesCount
<1>4. LaunchTypes' /\ Others(p)
  BY <1>1, <1>2, <1>3 DEF LaunchTypes, Others
<1>5. HoldersServe'
  BY <1>1, <1>2, <1>4 DEF HoldersServe, LaunchTypes, Others
<1>6. ServersFollow'
  <2>1. server'[p] \in {"bind", "ended"} /\ port'[p] \in Ports
    BY <1>1, <1>2 DEF LaunchTypes
  <2>2. ASSUME NEW w \in Windows
        PROVE  /\ main'[w] \in {"off", "lock", "probe", "service", "claim", "attached"}
                     => server'[w] = "off"
               /\ main'[w] \in {"probe", "wait"} => found'[w] \in Ports
               /\ main'[w] = "gone" => server'[w] = "ended"
    BY <1>1, <1>4 DEF ServersFollow, Others
  <2>3. QED
    BY <1>4, <2>1, <2>2 DEF ServersFollow, Others
<1>7. NLiving' <= NLiving /\ (AllAttach => AllAttach') /\ (AllAttach => HeirExists')
  BY <1>1, <1>4, ServerMoves
<1>8. CASE owner = "other"
  <2>1. Balanced'
    BY <1>3, <1>7, <1>8, OneRaces
  <2>2. QED
    BY <1>4, <1>5, <1>6, <2>1
<1>9. CASE owner # "other"
  <2>1. HeirExists => HeirExists'
    <3>1. CASE owner = "free"
      <4>1. UNCHANGED port /\ server'[p] = "bind"
        BY <1>2, <3>1 DEF LaunchTypes
      <4>2. \A v \in Procs : Heir(v) => Heir(v)'
        BY <1>1, <1>4, <4>1 DEF Heir, Known, Looking, Others
      <4>3. QED
        BY <4>2 DEF HeirExists
    <3>2. CASE owner # "free"
      <4>1. holder[port[p]] \in Procs
        BY <1>1, <1>2, <1>9, <3>2 DEF Owner, LaunchTypes
      <4>2. QED
        BY <1>1, <1>4, <4>1, OtherStandsIn
    <3>3. QED
      BY <3>1, <3>2
  <2>2. Balanced'
    BY <1>3, <1>7, <1>9, <2>1, CostsNothing
  <2>3. QED
    BY <1>4, <1>5, <1>6, <2>2
<1>10. QED
  BY <1>8, <1>9

LEMMA ServerBinds ==
  ASSUME LaunchInv, NEW p \in Procs, Bind(p)
  PROVE  LaunchInv'
<1> USE KindsOfProcesses DEF LaunchInv
<1> DEFINE n == port[p]
<1>1. /\ server[p] = "bind" /\ n \in Ports
      /\ UNCHANGED <<lock, main, port, found>>
  BY DEF Bind, ServersFollow
<1>2. /\ races' \in Nat
      /\ holder[n] = Other => races' = races + 1
      /\ holder[n] # Other => races' = races
  <2>1. (holder[n] = Other) \in BOOLEAN /\ races \in Nat /\ Races(holder[n] = Other)
    BY DEF Bind, LaunchTypes
  <2>2. QED
    BY <2>1, RacesCount
<1>3. \/ /\ holder[n] = None /\ holder' = [holder EXCEPT ![n] = p]
         /\ server' = [server EXCEPT ![p] = "serving"]
      \/ /\ holder[n] # None /\ UNCHANGED holder
         /\ server' = [server EXCEPT ![p] = "ended"]
  BY DEF Bind
<1>4. LaunchTypes' /\ Others(p) /\ server'[p] \in {"serving", "ended"}
  BY <1>1, <1>2, <1>3 DEF LaunchTypes, Others
<1>5. HoldersServe'
  <2>1. CASE holder[n] = None /\ holder' = [holder EXCEPT ![n] = p]
             /\ server' = [server EXCEPT ![p] = "serving"]
    <3>1. ASSUME NEW m \in Ports, NEW q \in Procs
          PROVE  (holder'[m] = q) <=> (server'[q] = "serving" /\ port'[q] = m)
      <4>1. (holder[m] = q) <=> (server[q] = "serving" /\ port[q] = m)
        BY DEF HoldersServe
      <4>2. CASE m = n
        BY <1>1, <2>1, <4>1, <4>2 DEF LaunchTypes
      <4>3. CASE m # n
        BY <1>1, <2>1, <4>1, <4>3 DEF LaunchTypes
      <4>4. QED
        BY <4>2, <4>3
    <3>2. QED
      BY <3>1 DEF HoldersServe
  <2>2. CASE UNCHANGED holder /\ server' = [server EXCEPT ![p] = "ended"]
    BY <1>1, <2>2 DEF HoldersServe, LaunchTypes
  <2>3. QED
    BY <1>3, <2>1, <2>2
<1>6. ServersFollow'
  BY <1>1, <1>4 DEF ServersFollow, Others
<1>7. NLiving' <= NLiving /\ (AllAttach => AllAttach') /\ (AllAttach => HeirExists')
  BY <1>1, <1>4, ServerMoves
<1>8. CASE holder[n] = Other
  <2>1. Balanced'
    BY <1>2, <1>7, <1>8, OneRaces
  <2>2. QED
    BY <1>4, <1>5, <1>6, <2>1
<1>9. CASE holder[n] # Other
  <2>1. HeirExists => HeirExists'
    <3>1. CASE holder[n] = None
      <4>1. server'[p] = "serving"
        BY <1>3, <3>1 DEF LaunchTypes
      <4>2. \A v \in Procs : Heir(v) => Heir(v)'
        BY <1>1, <1>4, <4>1 DEF Heir, Known, Looking, Others
      <4>3. QED
        BY <4>2 DEF HeirExists
    <3>2. CASE holder[n] # None
      <4>1. holder[port[p]] \in Procs
        BY <1>1, <1>9, <3>2 DEF LaunchTypes
      <4>2. QED
        BY <1>1, <1>4, <4>1, OtherStandsIn
    <3>3. QED
      BY <3>1, <3>2
  <2>2. Balanced'
    BY <1>2, <1>7, <1>9, <2>1, CostsNothing
  <2>3. QED
    BY <1>4, <1>5, <1>6, <2>2
<1>10. QED
  BY <1>8, <1>9

\* A process ends: one that is live pays for what it leaves behind.
LEMMA ProcessIsGone ==
  ASSUME LaunchInv, NEW p \in Procs, ProcessEnds(p), UNCHANGED <<port, found, races>>,
         lock' \in Ports \cup {NoPort}, IsLive(p) \/ UNCHANGED lock, p \notin Looking
  PROVE  LaunchInv'
<1> USE KindsOfProcesses DEF LaunchInv
<1>1. /\ holder' = [n \in Ports |-> IF holder[n] = p THEN None ELSE holder[n]]
      /\ server' = [server EXCEPT ![p] = "ended"]
      /\ main' = IF p \in Windows THEN [main EXCEPT ![p] = "gone"] ELSE main
  BY DEF ProcessEnds
<1>2. LaunchTypes' /\ Others(p) /\ server'[p] = "ended"
  BY <1>1 DEF LaunchTypes, Places, Others
<1>3. HoldersServe'
  <2>1. ASSUME NEW n \in Ports, NEW q \in Procs
        PROVE  (holder'[n] = q) <=> (server'[q] = "serving" /\ port'[q] = n)
    <3>1. (holder[n] = q) <=> (server[q] = "serving" /\ port[q] = n)
      BY DEF HoldersServe
    <3>2. holder'[n] = IF holder[n] = p THEN None ELSE holder[n]
      BY <1>1
    <3>3. CASE q = p
      BY <1>2, <3>2, <3>3
    <3>4. CASE q # p
      BY <1>2, <3>1, <3>2, <3>4 DEF Others
    <3>5. QED
      BY <3>3, <3>4
  <2>2. QED
    BY <2>1 DEF HoldersServe
<1>4. ServersFollow'
  <2>1. p \in Windows => main'[p] = "gone"
    BY <1>1 DEF LaunchTypes
  <2>2. QED
    BY <1>2, <2>1 DEF ServersFollow, Others
<1>5. ~IsLive(p)' /\ OnlyLife(p)
  <2>1. p \in Windows => main'[p] = "gone"
    BY <1>1 DEF LaunchTypes
  <2>2. QED
    BY <1>2, <2>1, OthersKeepLife DEF IsLive
<1>6. Looking' = Looking
  BY <1>1 DEF Looking, LaunchTypes
<1>7. Balanced'
  <2>1. CASE IsLive(p)
    <3>1. NLiving' <= NLiving - 1
      BY <1>5, <2>1, LiveCount
    <3>2. AllAttach => HeirExists'
      BY <1>6 DEF AllAttach, HeirExists, Heir, Looking
    <3>3. QED
      BY <3>1, <3>2, OneEnds
  <2>2. CASE ~IsLive(p)
    <3>1. NLiving' <= NLiving
      BY <1>5, LiveCount
    <3>2. UNCHANGED lock /\ server[p] # "serving"
      BY <2>2 DEF IsLive
    <3>3. \A v \in Procs : Heir(v) => Heir(v)'
      <4>1. SUFFICES ASSUME NEW v \in Procs, Heir(v) PROVE Heir(v)'
        OBVIOUS
      <4>2. v # p
        BY <2>2, <4>1 DEF Heir, IsLive
      <4>3. server'[v] = server[v] /\ port'[v] = port[v]
        BY <1>2, <4>2 DEF Others
      <4>4. QED
        BY <1>6, <3>2, <4>1, <4>3 DEF Heir, Known
    <3>4. AllAttach => AllAttach'
      BY <1>2, <1>6, <3>2, SameAttach
    <3>5. HeirExists => HeirExists'
      BY <3>3 DEF HeirExists
    <3>6. QED
      BY <3>1, <3>4, <3>5, CostsNothing
  <2>3. QED
    BY <2>1, <2>2
<1>8. QED
  BY <1>2, <1>3, <1>4, <1>7

LEMMA LaunchEnds ==
  ASSUME LaunchInv,
         \/ \E w \in Windows : Dismiss(w) \/ Close(w)
         \/ \E p \in Procs : Crash(p)
  PROVE  LaunchInv'
<1> USE KindsOfProcesses
<1>1. LaunchTypes /\ ServersFollow
  BY DEF LaunchInv
<1>2. ASSUME NEW w \in Windows, Dismiss(w) \/ Close(w) PROVE LaunchInv'
  <2>1. /\ ProcessEnds(w) /\ UNCHANGED <<port, found, races>>
        /\ main[w] \in {"failed", "open", "attached"}
        /\ UNCHANGED lock \/ (main[w] = "open" /\ lock' = NoPort)
    BY <1>2 DEF Dismiss, Close
  <2>2. w \notin Looking /\ (IsLive(w) \/ UNCHANGED lock)
    BY <2>1 DEF Looking, IsLive
  <2>3. lock' \in Ports \cup {NoPort}
    BY <1>1, <2>1 DEF LaunchTypes
  <2>4. QED
    BY <2>1, <2>2, <2>3, ProcessIsGone
<1>3. ASSUME NEW p \in Procs, Crash(p) PROVE LaunchInv'
  <2>1. /\ ProcessEnds(p) /\ UNCHANGED <<lock, port, found, races>>
        /\ server[p] \notin {"off", "ended"}
    BY <1>3 DEF Crash
  <2>2. p \notin Looking /\ lock' \in Ports \cup {NoPort}
    BY <1>1, <2>1 DEF Looking, ServersFollow, LaunchTypes
  <2>3. QED
    BY <2>1, <2>2, ProcessIsGone
<1>4. QED
  BY <1>2, <1>3

LEMMA WindowGivesUp ==
  ASSUME LaunchInv, NEW w \in Windows, GiveUp(w)
  PROVE  LaunchInv'
<1> USE KindsOfProcesses DEF LaunchInv
<1>1. /\ main[w] = "wait" /\ main' = [main EXCEPT ![w] = "failed"] /\ lock' = NoPort
      /\ UNCHANGED <<holder, server, port, found>>
  BY DEF GiveUp
<1>2. /\ races' \in Nat
      /\ server[w] # "ended" => races' = races + 1
      /\ server[w] = "ended" => races' = races
  <2>1. (server[w] # "ended") \in BOOLEAN /\ races \in Nat /\ Races(server[w] # "ended")
    BY DEF GiveUp, LaunchTypes
  <2>2. QED
    BY <2>1, RacesCount
<1>3. LaunchTypes' /\ HoldersServe' /\ ServersFollow' /\ Others(w)
  BY <1>1, <1>2 DEF LaunchTypes, Places, HoldersServe, ServersFollow, Others
<1>4. Looking' = Looking
  BY <1>1 DEF Looking, LaunchTypes
<1>5. AllAttach => HeirExists'
  BY <1>4 DEF AllAttach, HeirExists, Heir, Looking
<1>6. IsLive(w) /\ OnlyLife(w)
  BY <1>1, <1>3, OthersKeepLife DEF IsLive
<1>7. Balanced'
  <2>1. CASE server[w] # "ended"
    <3>1. NLiving' <= NLiving
      BY <1>6, LiveCount
    <3>2. QED
      BY <1>2, <1>5, <2>1, <3>1, OneRaces
  <2>2. CASE server[w] = "ended"
    <3>1. ~IsLive(w)'
      BY <1>1, <2>2 DEF IsLive, LaunchTypes
    <3>2. NLiving' <= NLiving - 1
      BY <1>6, <3>1, LiveCount
    <3>3. QED
      BY <1>2, <1>5, <2>2, <3>2, OneEnds
  <2>3. QED
    BY <2>1, <2>2
<1>8. QED
  BY <1>3, <1>7

\* A window shows, another program takes a port, or nothing happens.
LEMMA LaunchStays ==
  ASSUME LaunchInv,
         \/ \E w \in Windows : Ready(w)
         \/ \E n \in Ports : OtherListens(n)
         \/ UNCHANGED launchVars
  PROVE  LaunchInv'
<1> USE KindsOfProcesses DEF LaunchInv
<1>1. /\ UNCHANGED <<lock, server, port, found, races>>
      /\ \/ UNCHANGED main
         \/ \E w \in Windows : main[w] = "wait" /\ main' = [main EXCEPT ![w] = "open"]
      /\ \/ UNCHANGED holder
         \/ \E n \in Ports : holder[n] = None /\ holder' = [holder EXCEPT ![n] = Other]
  BY DEF Ready, OtherListens, launchVars
<1>2. LaunchTypes' /\ ServersFollow'
  BY <1>1 DEF LaunchTypes, Places, ServersFollow
<1>3. HoldersServe'
  <2>1. ASSUME NEW n \in Ports, NEW q \in Procs PROVE (holder'[n] = q) <=> (holder[n] = q)
    BY <1>1 DEF LaunchTypes
  <2>2. QED
    BY <1>1, <2>1 DEF HoldersServe
<1>4. /\ Looking' = Looking
      /\ \A w \in Looking : main'[w] = main[w]
      /\ \A q \in Procs : IsLive(q)' <=> IsLive(q)
  BY <1>1 DEF Looking, IsLive, LaunchTypes
<1>5. NLiving' = NLiving
  <2>1. Living' = Living
    BY <1>4 DEF Living
  <2>2. QED
    BY <2>1 DEF NLiving
<1>6. \A v \in Procs : (Heir(v) => Heir(v)') /\ (Draws(v) => Draws(v)')
  BY <1>1, <1>4 DEF Heir, Draws, Known, Finds
<1>7. (HeirExists => HeirExists') /\ (AllAttach => AllAttach')
  BY <1>4, <1>6 DEF HeirExists, AllAttach
<1>8. NLiving' <= NLiving
  BY <1>5, LiveIsFinite
<1>9. Balanced'
  BY <1>1, <1>7, <1>8, CostsNothing
<1>10. QED
  BY <1>2, <1>3, <1>9

LEMMA LaunchStarts ==
  ASSUME LaunchInit
  PROVE  LaunchInv
<1> USE KindsOfProcesses DEF LaunchInit
<1>1. LaunchTypes /\ HoldersServe /\ ServersFollow
  BY DEF LaunchTypes, Places, HoldersServe, ServersFollow
<1>2. Living = {}
  BY DEF Living, IsLive
<1>3. NLiving <= races
  BY <1>2, FS_EmptySet DEF NLiving
<1>4. QED
  BY <1>1, <1>3 DEF LaunchInv, Balanced

LEMMA LaunchStep ==
  ASSUME LaunchInv, [LaunchNext]_launchVars
  PROVE  LaunchInv'
BY WindowStarts, LockIsRead, WindowAsks, WindowClaims, ServiceStarts, ServerAsks, ServerBinds,
   LaunchEnds, WindowGivesUp, LaunchStays DEF LaunchNext, WindowSteps, ServerSteps

\* Whatever windows and services start, close and crash, whichever ports other programs
\* take and however stale the lock is: beside the first bot there is at most one for each
\* time that launches overlapped, an answer of _running_port or run_server was missed, a
\* port was found taken, or a window gave up on a server that was still to come up.
THEOREM BotsNeedRaces == LaunchSpec => []BotsAreRaced
<1>1. LaunchInit => LaunchInv
  BY LaunchStarts
<1>2. LaunchInv /\ [LaunchNext]_launchVars => LaunchInv'
  BY LaunchStep
<1>3. LaunchInv => BotsAreRaced
  <2> SUFFICES ASSUME LaunchInv PROVE BotsAreRaced
    OBVIOUS
  <2> USE KindsOfProcesses
  <2>1. /\ LaunchTypes /\ ServersFollow /\ Balanced
        /\ IsFiniteSet(Living) /\ NLiving \in Nat /\ races \in Nat
    BY LiveIsFinite DEF LaunchInv, LaunchTypes
  <2>2. Bots \subseteq Living
    BY DEF Bots, Living, IsLive
  <2>3. IsFiniteSet(Bots) /\ Cardinality(Bots) \in Nat /\ Cardinality(Bots) <= NLiving
    BY <2>1, <2>2, FS_Subset, FS_CardinalityType DEF NLiving
  <2>4. CASE NLiving <= races + 1
    BY <2>1, <2>3, <2>4 DEF BotsAreRaced
  <2>5. CASE Looking # {} /\ NLiving <= races + 2
    <3>1. PICK w \in Looking : TRUE
      BY <2>5
    <3>2. w \in Living /\ w \notin Bots
      BY <2>1, <3>1 DEF Looking, Living, IsLive, Bots, ServersFollow
    <3>3. /\ IsFiniteSet(Living \ {w}) /\ Cardinality(Living \ {w}) = NLiving - 1
          /\ Bots \subseteq Living \ {w}
      BY <2>1, <2>2, <3>2, FS_RemoveElement DEF NLiving
    <3>4. Cardinality(Bots) <= NLiving - 1
      BY <3>3, FS_Subset
    <3>5. QED
      BY <2>1, <2>3, <2>5, <3>4 DEF BotsAreRaced
  <2>6. NLiving <= races => NLiving <= races + 1
    BY <2>1
  <2>7. QED
    BY <2>1, <2>4, <2>5, <2>6 DEF Balanced, AllAttach
<1>4. QED
  BY <1>1, <1>2, <1>3, PTL DEF LaunchSpec

================================================================================
