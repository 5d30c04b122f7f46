------------------------------ MODULE OrderOutcome ------------------------------
(***************************************************************************)
(* What one call of Broker.submit promises its caller, as                  *)
(* execution/types.py and the head of execution/live.py put it: the venue  *)
(* holds at most one copy of the order, an accepted order is at the venue, *)
(* a rejected one is not and never will be, and only an answer of UNKNOWN  *)
(* leaves the question open.                                               *)
(***************************************************************************)
EXTENDS Naturals

VARIABLES
  copies,    \* orders the venue holds, or has executed, for this submission
  answer     \* the OrderStatus class returned, "none" before the return

outcomeVars == <<copies, answer>>

Answers == {"ACCEPTED", "REJECTED", "UNKNOWN"}

Init == copies = 0 /\ answer = "none"

\* The venue books the order, before the answer or behind an open question.
Book ==
  /\ copies = 0
  /\ answer \in {"none", "UNKNOWN"}
  /\ copies' = 1
  /\ UNCHANGED answer

Answer(v) ==
  /\ answer = "none"
  /\ v = "ACCEPTED" => copies = 1
  /\ v = "REJECTED" => copies = 0
  /\ answer' = v
  /\ UNCHANGED copies

Next == Book \/ \E v \in Answers : Answer(v)

Spec == Init /\ [][Next]_outcomeVars

================================================================================
