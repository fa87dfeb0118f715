------------------------------- MODULE Clock -------------------------------
(***************************************************************************)
(* The clock the components of the test harness read: a natural that never *)
(* goes back.  0 is the code's zero time, which no clock shows.            *)
(***************************************************************************)
EXTENDS Naturals

CONSTANT MaxTime    \* bound of the clock

ASSUME ClockAssumption == MaxTime \in Nat \ {0}

VARIABLE now

ClockInit == now = 1
ClockTypeOK == now \in 1..MaxTime

Tick ==
    /\ now < MaxTime
    /\ now' = now + 1
=============================================================================
