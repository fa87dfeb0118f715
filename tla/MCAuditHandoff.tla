--------------------------- MODULE MCAuditHandoff ---------------------------
(* Instances of AuditHandoff for TLC. *)
EXTENDS AuditHandoff, TLC

CONSTANTS s1, s2

SessionSymmetry == Permutations({s1, s2})

=============================================================================
