---------------------------- MODULE MCLadderOpen ----------------------------
(* Two interchangeable ladders: nothing in LadderOpen tells one from the    *)
(* other, and no property of the run is a liveness property.                *)
EXTENDS LadderOpen, TLC

LadderSymmetry == Permutations(Ladders)
=============================================================================
