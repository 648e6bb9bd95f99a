--------------------------- MODULE MCForegroundDemand ---------------------------
(* Processes of one class are interchangeable.                             *)
EXTENDS ForegroundDemand, TLC

CONSTANTS f1, f2, b1, b2

MCSymmetry == Permutations(Foreground) \cup Permutations(Background)
=============================================================================
