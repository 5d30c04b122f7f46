------------------------------ MODULE MCBrokers ------------------------------
(***************************************************************************)
(* Model checking of the two brokers behind an engine.  They share nothing *)
(* here: focus picks the one that runs, the other stays as it is in its    *)
(* initial state.                                                          *)
(*                                                                         *)
(* The paper market trades through, touches and leaves a resting order.    *)
(* At Alpaca up to four orders rest while a position of either side, or    *)
(* none, is left.                                                          *)
(***************************************************************************)
EXTENDS PaperTrading, AlpacaOrders

VARIABLE focus

mcVars == <<paperVars, alpacaVars, focus>>

MCInit ==
  /\ PaperInit /\ AlpacaInit
  /\ focus \in {"paper", "alpaca"}
  /\ focus = "paper" => kind = "halt" /\ held = 0 /\ rests = {}

MCNext ==
  /\ UNCHANGED focus
  /\ \/ focus = "paper" /\ PaperNext /\ UNCHANGED alpacaVars
     \/ focus = "alpaca" /\ AlpacaNext /\ UNCHANGED paperVars

MCSpec == MCInit /\ [][MCNext]_mcVars

MCBooks ==
  {[bid |-> 10, ask |-> 12], [bid |-> 12, ask |-> 13], [bid |-> 7, ask |-> 9],
   [bid |-> 9, ask |-> 13]}
MCTargets == {-1, 0, 1, 3}
MCEdges == {0, 5}

MCPositions == {-3, 0, 2}
MCOrders == {-2, -1, 1, 3}

================================================================================
