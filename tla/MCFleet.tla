------------------------------- MODULE MCFleet -------------------------------
(***************************************************************************)
(* Fleet with one symbol more than may be traded at once.                  *)
(***************************************************************************)
EXTENDS Fleet, TLC

CONSTANTS a, b, c
MCSymbols == {a, b, c}
MCTargets == {0, 2}
MCSymmetry == Permutations(MCSymbols)

================================================================================
