---------------------------- MODULE HarnessVerdict ----------------------------
(***************************************************************************)
(* What the durable harness state promises whoever reads it, whatever the  *)
(* observations its writers held back and in whatever order they write:    *)
(* the tests are closed until a T8 opens them, which happens once and for  *)
(* good; and the verdict on them changes only by an observation made after *)
(* the one it rests on, so that a drift is answered by nothing older than  *)
(* itself.  Harness is shown to implement this specification.              *)
(***************************************************************************)
EXTENDS Naturals

VARIABLES
    verdict,            \* "pending", then "usable" or "unusable"
    at,                 \* when the observation it rests on was made
    opened              \* when the harness opened, 0 before that

verdictVars == <<verdict, at, opened>>

Init == verdict = "pending" /\ at = 0 /\ opened = 0

\* The T8 that opens the harness was seen before it opens.
Open ==
    /\ verdict = "pending"
    /\ verdict' = "usable"
    /\ at < at' /\ at' <= opened'

Decide(answer) ==
    /\ verdict # "pending"
    /\ verdict' = answer
    /\ at < at' /\ opened' = opened

Next == Open \/ \E answer \in {"usable", "unusable"} : Decide(answer)

Spec == Init /\ [][Next]_verdictVars
==============================================================================
