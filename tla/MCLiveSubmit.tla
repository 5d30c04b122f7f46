----------------------------- MODULE MCLiveSubmit -----------------------------
(***************************************************************************)
(* LiveSubmit over every network, and over a prompt one whose lookups may  *)
(* fail.                                                                   *)
(***************************************************************************)
EXTENDS LiveSubmit

MCPrompt == {[late |-> FALSE, lookupFails |-> TRUE, slips |-> FALSE, dedup |-> FALSE]}

================================================================================
