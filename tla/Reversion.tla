------------------------------ MODULE Reversion ------------------------------
(***************************************************************************)
(* The position machine of strategies/mean_reversion.py.  A z-score is an  *)
(* integer in hundredths, a conviction a percentage.                       *)
(***************************************************************************)
EXTENDS Integers

CONSTANTS
    Entry, Exit, Stop,        \* entry_zscore, exit_zscore, stop_zscore
    MinHalfLife, MaxLife      \* the tradeable band

\* MeanReversionParams.validate.
ASSUME ReversionAssumption ==
    /\ Exit \in Nat /\ Entry \in Nat /\ Stop \in Nat /\ Exit < Entry /\ Entry < Stop
    /\ MinHalfLife < MaxLife

NoScore == 99999   \* rolling_zscore has no value

Size(z) == IF z < 0 THEN -z ELSE z
Sign(n) == IF n < 0 THEN -1 ELSE IF n > 0 THEN 1 ELSE 0

Tradeable(halfLife) == halfLife \in MinHalfLife .. MaxLife

\* The distance to the exit, as a share of the span up to the stop.
Remaining(z) ==
    LET share == ((Size(z) - Exit) * 100) \div (Stop - Exit)
    IN  IF share > 100 THEN 100 ELSE share

Leaves(z) == Size(z) >= Stop \/ Size(z) <= Exit
Enters(z, ok) == ok /\ Size(z) >= Entry /\ Size(z) < Stop

\* The position after a bar with score z.
NextPosition(position, z, ok) ==
    IF z = NoScore THEN position
    ELSE IF position # 0
         THEN IF Leaves(z) THEN 0 ELSE Sign(position) * Remaining(z)
         ELSE IF Enters(z, ok) THEN -Sign(z) * Remaining(z) ELSE 0
=============================================================================
