----------------------------- MODULE MCTerminal -----------------------------
(***************************************************************************)
(* Model checking of the terminal: overlapping requests on its session,    *)
(* overlapping changes of the venue on its panel, and windows and services *)
(* that start side by side.  The parts share nothing here: focus picks the *)
(* one that runs, the others stay as they are in their initial state.      *)
(***************************************************************************)
EXTENDS Terminal, VenuePanel, Launch

VARIABLE focus

mcVars == <<terminalVars, venueVars, launchVars, focus>>

CONSTANT Parts    \* the parts a run looks at

MCInit ==
  /\ TerminalInit /\ VenueInit /\ LaunchInit
  /\ focus \in Parts

MCNext ==
  /\ UNCHANGED focus
  /\ \/ focus = "session" /\ TerminalNext /\ UNCHANGED <<venueVars, launchVars>>
     \/ focus = "panel" /\ VenueNext /\ UNCHANGED <<terminalVars, launchVars>>
     \/ focus = "launch" /\ LaunchNext /\ UNCHANGED <<terminalVars, venueVars>>

\* The fairness of Terminal and of VenuePanel, each where its part runs.
MCFairness ==
  /\ \A r \in Requests : WF_terminalVars(focus = "session" /\ RequestStep(r))
  /\ WF_terminalVars(focus = "session" /\ \E l \in DOMAIN loops : LoopEnds(l))
  /\ \A f \in 1..(MaxSwitches + 1) :
       WF_venueVars(focus = "panel" /\ f \in DOMAIN feeds /\ FeedStep(f))
  /\ \A r \in Switches : WF_venueVars(focus = "panel" /\ PanelStep(r))

MCSpec == MCInit /\ [][MCNext]_mcVars /\ MCFairness

\* Two venues, the default one asking for a key, the other quoting a symbol less.
MCQuotes == ("alpaca" :> Universe) @@ ("binance" :> {"ETH"})

================================================================================
