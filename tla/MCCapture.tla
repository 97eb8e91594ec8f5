----------------------------- MODULE MCCapture -----------------------------
(* Instances of Capture for TLC.                                           *)
EXTENDS Capture, TLC

CONSTANTS c1, c2, o1, s1, s2, nil

MCOutsideReason == [o \in Outsiders |-> "browser gone"]

Symmetry == Permutations(Callers) \cup Permutations(Spids)

=============================================================================
