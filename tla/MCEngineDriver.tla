----------------------------- MODULE MCEngineDriver -----------------------------
(***************************************************************************)
(* EngineDriver with one-lot targets, from a flat account or from one that *)
(* is short.                                                               *)
(***************************************************************************)
EXTENDS EngineDriver

MCTargets == {-1, 0, 1}
MCLongOnly == {0, 1}
MCAlwaysLong == {1}
MCHeld == {-1, 0}

================================================================================
