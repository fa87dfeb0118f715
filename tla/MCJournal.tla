------------------------------ MODULE MCJournal ------------------------------
(* Journal on a small instance: two steps, three instants, two attempts. *)
EXTENDS Journal

CONSTANTS s1, s2
MCStepIDs == {s1, s2}
==============================================================================
