------------------------------- MODULE Terminal -------------------------------
(***************************************************************************)
(* The trading terminal: ModeController (execution/mode.py), the           *)
(* PortfolioSession it starts and stops (ui/portfolio_session.py) and the  *)
(* handlers of ui/server.py that call them.  Everything runs on one event  *)
(* loop, so a step is what one task does between two awaits; the requests  *)
(* of several browser tabs may overlap at every await.                     *)
(*                                                                         *)
(* A broker is known by its mode.  Of the accounts only the live one can   *)
(* keep a position when its broker is dropped, so only that one is kept.   *)
(***************************************************************************)
EXTENDS Naturals, FiniteSets

CONSTANTS
  Requests,        \* POST /api/mode requests that may be in progress at once
  Symbols,         \* symbols the scan may admit
  FlattenFails,    \* whether a flatten may leave its position open
  MaxRequests,     \* bound: requests made
  MaxGrants        \* bound: changes of the credential's permission

ASSUME TerminalAssumption ==
  FlattenFails \in BOOLEAN /\ MaxRequests \in Nat /\ MaxGrants \in Nat

Modes == {"dry_run", "paper", "live"}

VARIABLES
  session,         \* the controller's mode and broker, the label and the session
  loops,           \* tasks of _run: start number -> where it waits
  engines,         \* engines of the supervisors, each with its broker's mode
  held,            \* symbols with a position in the live account
  resting,         \* symbols with an order resting in the live account
  credential,      \* a stored key is permitted to place orders
  request,         \* where each request waits
  made, granted, closing,
  overlapped       \* history: a request has arrived while another was in progress

terminalVars ==
  <<session, loops, engines, held, resting, credential, request, made, granted, closing,
    overlapped>>

Live == "live"
Idle == [at |-> "idle"]
EnginesOf(s) == {e \in engines : e.supervisor = s}

\* The session as start leaves it: a new supervisor, and a loop numbered like it.
Started(st, broker) ==
  [st EXCEPT !.broker = broker, !.starts = @ + 1, !.unarmed = FALSE,
             !.supervisor = st.starts + 1, !.task = st.starts + 1]

\* build_terminal and the session the lifespan starts before it serves.
TerminalInit ==
  /\ session = Started([mode |-> "dry_run", label |-> "dry_run", broker |-> "dry_run",
                        supervisor |-> 0, task |-> 0, starts |-> 0, unarmed |-> FALSE], "dry_run")
  /\ loops = [l \in {1} |-> [at |-> "tick"]]
  /\ engines = {} /\ held = {} /\ resting = {}
  /\ credential = FALSE
  /\ request = [r \in Requests |-> Idle]
  /\ made = 0 /\ granted = 0 /\ closing = FALSE /\ overlapped = FALSE

Quiet == \A r \in Requests : request[r] = Idle
Tick == [at |-> "tick"]
Cancelled(l) == [loops EXCEPT ![l] = [at |-> "cancelled"]]
Running == session.task \in DOMAIN loops

--------------------------------------------------------------------------------
(* PortfolioSession.stop: take the task, cancel and await it, then retire the  *)
(* engines of the supervisor found afterwards, one await each, then forget it. *)
(* Done is what the caller does next, before it suspends again.                *)

Ends(r, st) ==
  /\ session' = st
  /\ request' = [request EXCEPT ![r] = Idle]
  /\ UNCHANGED loops

\* start, once its stop is over: whatever task another start has left is replaced.
Begins(r, st, broker) ==
  /\ session' = Started(st, broker)
  /\ loops' = [l \in DOMAIN loops \cup {st.starts + 1} |->
                 IF l = st.starts + 1 THEN Tick ELSE loops[l]]
  /\ request' = [request EXCEPT ![r] = Idle]

\* The part of stop after its await of the task.
Retires(r, st, then, Done(_)) ==
  IF EnginesOf(st.supervisor) # {}
  THEN /\ session' = st
       /\ request' = [request EXCEPT ![r] =
                        [at |-> "retire", then |-> then, supervisor |-> st.supervisor,
                         todo |-> {e.symbol : e \in EnginesOf(st.supervisor)}]]
       /\ UNCHANGED loops
  ELSE Done([st EXCEPT !.supervisor = 0])

Stops(r, st, then, Done(_)) ==
  IF st.task \in DOMAIN loops
  THEN /\ session' = [st EXCEPT !.task = 0]
       /\ loops' = Cancelled(st.task)
       /\ request' = [request EXCEPT ![r] = [at |-> "join", then |-> then, loop |-> st.task]]
  ELSE Retires(r, [st EXCEPT !.task = 0], then, Done)

\* What follows the stop of session.start.
Restarted(r, then, st) == Begins(r, st, then.broker)

\* Mutant of Restart: the label changes and the loop keeps its broker.
RelabelOnly(r, st) == Ends(r, st)

\* set_mode after switch: name the mode, then re-broker the running loop.
Restart(r, st) ==
  LET then == [stage |-> "start", broker |-> st.mode]
  IN  Stops(r, st, then, LAMBDA t : Restarted(r, then, t))

\* _build and the check of the broker itself: live raises an ArmingError unless the
\* credential is permitted now.
Builds(target) == target = Live => credential

\* switch after flatten: a broker that cannot be built leaves the mode as it was,
\* and the session stopped.
Switched(r, then, st) ==
  IF ~Builds(then.target) THEN Ends(r, [st EXCEPT !.unarmed = TRUE])
  ELSE Restart(r, [st EXCEPT !.mode = then.target, !.label = then.target])

Done(r, then, st) ==
  CASE then.stage = "switch" -> Switched(r, then, st)
    [] then.stage = "start" -> Restarted(r, then, st)
    [] then.stage = "close" -> Ends(r, st)

--------------------------------------------------------------------------------

\* _assert_live_permitted: consent given to a key, and the phrase typed.
Permitted(target, confirmed) == target = Live => credential /\ confirmed

\* POST /api/mode up to its first await: an unarmed live is refused, a switch to
\* the mode in force goes straight to the restart, any other flattens first.
SetMode(r, target, confirmed) ==
  /\ request[r] = Idle /\ ~closing /\ made < MaxRequests
  /\ made' = made + 1
  /\ overlapped' = (overlapped \/ ~Quiet)
  /\ LET then == [stage |-> "switch", target |-> target]
     IN  IF target = session.mode
         THEN Restart(r, [session EXCEPT !.label = target])
         ELSE IF ~Permitted(target, confirmed)
         THEN UNCHANGED <<session, loops, request>>
         ELSE Stops(r, session, then, LAMBDA t : Switched(r, then, t))
  /\ UNCHANGED <<engines, held, resting, credential, granted, closing>>

\* The lifespan ends once the requests are served.
Shutdown(r) ==
  /\ ~closing /\ Quiet
  /\ closing' = TRUE
  /\ LET then == [stage |-> "close"]
     IN  Stops(r, session, then, LAMBDA t : Ends(r, t))
  /\ UNCHANGED <<engines, held, resting, credential, made, granted, overlapped>>

\* Mutant of Awaited: stop waits for the task of the session, not for the one it took.
AwaitedCurrent(r) == session.task \notin DOMAIN loops

\* The task that stop took and cancelled has ended.
Awaited(r) == request[r].loop \notin DOMAIN loops

Join(r) ==
  /\ request[r].at = "join"
  /\ Awaited(r)
  /\ LET then == request[r].then
     IN  Retires(r, session, then, LAMBDA t : Done(r, then, t))
  /\ UNCHANGED <<engines, held, resting, credential, made, granted, closing, overlapped>>

\* _retire of the engine of one symbol, its errors suppressed: an engine that
\* believes itself flat is dropped as it is; any other sends a market order, and is
\* kept when that raises.  Nothing here cancels an order that rests.
RetireOne(mine) ==
  LET open == {e \in mine : e.believed /\ e.broker = Live}
  IN  \/ /\ engines' = engines \ mine
         /\ held' = held \ {e.symbol : e \in open}
      \/ /\ FlattenFails /\ open # {}
         /\ engines' \in {engines, engines \ mine}
         /\ UNCHANGED held

\* One await of stop's loop over the engines, and stop's end after the last.  An
\* engine that another request has retired in the meantime is not found.
Retire(r, symbol) ==
  /\ request[r].at = "retire" /\ symbol \in request[r].todo
  /\ RetireOne({e \in EnginesOf(request[r].supervisor) : e.symbol = symbol})
  /\ LET rest == request[r].todo \ {symbol}
         then == request[r].then
     IN  IF rest = {}
         THEN Done(r, then, [session EXCEPT !.supervisor = 0])
         ELSE /\ request' = [request EXCEPT ![r].todo = rest]
              /\ UNCHANGED <<session, loops>>
  /\ UNCHANGED <<resting, credential, made, granted, closing, overlapped>>

--------------------------------------------------------------------------------
(* The loop: _run with _rotate, _dispatch and the calls it makes to the engines. *)

loopVars == <<session, credential, request, made, granted, closing, overlapped>>

At(l, place) == l \in DOMAIN loops /\ loops[l].at = place
Moves(l, place) == loops' = [loops EXCEPT ![l] = place]
Gone(l) == loops' = [k \in DOMAIN loops \ {l} |-> loops[k]]

\* _rotate up to its first await, the refresh of the price history.
ScanBegins(l) ==
  /\ At(l, "tick") /\ session.supervisor # 0
  /\ Moves(l, [at |-> "history"])
  /\ UNCHANGED <<loopVars, engines, held, resting>>

\* supervisor.rotate begins on the supervisor found now; without one the scan fails,
\* is reported, and the loop goes on.
ScanRotates(l) ==
  /\ At(l, "history")
  /\ Moves(l, IF session.supervisor = 0 THEN Tick
              ELSE [at |-> "rotate", supervisor |-> session.supervisor])
  /\ UNCHANGED <<loopVars, engines, held, resting>>

\* Mutant of MadeFor: the engine asks the controller, which may have moved on.
MadeForMode == session.mode

\* _make_engine: the broker of the session at this moment.
MadeFor == session.broker

\* rotate admits a symbol: make_engine binds it to the broker.  The
\* result is then read from the session's supervisor, and the loop dies of an AttributeError if that has gone.
ScanAdmits(l, symbol) ==
  /\ At(l, "rotate")
  /\ LET mine == loops[l].supervisor
     IN  engines' = engines \cup
           (IF \E e \in EnginesOf(mine) : e.symbol = symbol THEN {}
            ELSE {[supervisor |-> mine, symbol |-> symbol,
                   broker |-> MadeFor, believed |-> FALSE]})
  /\ IF session.supervisor = 0 THEN Gone(l) ELSE Moves(l, Tick)
  /\ UNCHANGED <<loopVars, held, resting>>

\* _dispatch of a new price to a live engine: its bar reads the position, and may
\* then leave an order resting.
Dispatch(l, e) ==
  /\ At(l, "tick") /\ e \in EnginesOf(session.supervisor) /\ e.broker = Live
  /\ engines' = (engines \ {e}) \cup {[e EXCEPT !.believed = e.symbol \in held]}
  /\ resting' \in {resting, resting \cup {e.symbol}}
  /\ UNCHANGED <<loopVars, loops, held>>

\* A cancelled loop runs to the end of its task.
LoopEnds(l) ==
  /\ At(l, "cancelled")
  /\ Gone(l)
  /\ UNCHANGED <<loopVars, engines, held, resting>>

\* The venue fills an order that rests.
Fill(symbol) ==
  /\ symbol \in resting
  /\ resting' = resting \ {symbol}
  /\ held' \in {held \cup {symbol}, held \ {symbol}}
  /\ UNCHANGED <<loopVars, loops, engines>>

\* POST trade-enabled, or the removal of the key.
SetTradeEnabled ==
  /\ granted < MaxGrants
  /\ granted' = granted + 1
  /\ credential' = ~credential
  /\ UNCHANGED <<session, loops, engines, held, resting, request, made, closing,
                 overlapped>>

RequestStep(r) == Join(r) \/ \E s \in Symbols : Retire(r, s)
LoopStep(l) ==
  \/ ScanBegins(l) \/ ScanRotates(l) \/ LoopEnds(l)
  \/ \E s \in Symbols : ScanAdmits(l, s)
  \/ \E e \in engines : Dispatch(l, e)

TerminalNext ==
  \/ \E r \in Requests, target \in Modes, confirmed \in BOOLEAN : SetMode(r, target, confirmed)
  \/ \E r \in Requests : Shutdown(r)
  \/ \E r \in Requests : RequestStep(r)
  \/ \E l \in DOMAIN loops : LoopStep(l)
  \/ \E s \in Symbols : Fill(s)
  \/ SetTradeEnabled

\* The event loop resumes every task whose await is over.
TerminalFairness ==
  /\ \A r \in Requests : WF_terminalVars(RequestStep(r))
  /\ WF_terminalVars(\E l \in DOMAIN loops : LoopEnds(l))

TerminalSpec == TerminalInit /\ [][TerminalNext]_terminalVars /\ TerminalFairness

--------------------------------------------------------------------------------

\* VIOLATED: Once no request is in progress, a loop that runs trades with the broker the
\* controller and the label name ("a display that disagrees with reality on the one
\* fact that matters most" is what _mode_of is written against).
LabelIsBroker ==
  Quiet /\ Running => session.broker = session.mode /\ session.label = session.mode

\* As long as requests have come one at a time: between them the loop that runs is
\* the only one, has a supervisor to give prices to, and trades as the label says;
\* and one does run, unless the terminal closes or the last switch met a key whose
\* permission had gone.
SessionAgrees ==
  ~overlapped /\ Quiet =>
    /\ LabelIsBroker
    /\ DOMAIN loops \subseteq {session.task}
    /\ Running => session.supervisor = session.task
    /\ Running = ~(closing \/ session.unarmed)

\* Whatever requests overlap, the engines the session dispatches prices to trade
\* through its own broker, never through one a switch has replaced.
EnginesTradeOneBroker == \A e \in EnginesOf(session.supervisor) : e.broker = session.broker

\* VIOLATED: A switch leaves nothing behind in the account it leaves: "Stopping the session
\* routes through the engine's halt, which cancels resting orders and flattens".
SwitchLeavesNothing ==
  Quiet /\ session.mode # Live => held = {} /\ resting = {}

\* Every request is answered, whatever the loops and other requests do.
RequestsAreAnswered == \A r \in Requests : request[r] # Idle ~> request[r] = Idle

================================================================================
