---------------------------- MODULE MCLadderClose ----------------------------
(* Interchangeable legs and consumers: nothing in LadderClose tells one     *)
(* from the other.  Only the run of the safety properties uses this.        *)
EXTENDS LadderClose, TLC

Symmetry == Permutations(Legs) \cup Permutations(Consumers)
=============================================================================
