--------------------------- MODULE MCCancellation ---------------------------
(* Cancellation on a contract of two steps. *)
EXTENDS Cancellation

CONSTANTS s1, s2, d1
MCStepIDs == {s1, s2}
MCContractSteps == <<s1, s2>>
MCDecisions == {d1}
==============================================================================
