--------------------------- MODULE MCControlStore ---------------------------
(* Instances of ControlStore for TLC. *)
EXTENDS ControlStore, TLC

CONSTANTS s1, s2

SessionSymmetry == Permutations({s1, s2})

=============================================================================
