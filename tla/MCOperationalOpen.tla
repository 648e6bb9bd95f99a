--------------------------- MODULE MCOperationalOpen ---------------------------
(* Small instances of OperationalOpen for TLC.                             *)
EXTENDS OperationalOpen, TLC

CONSTANTS i1, i2, v1, v2

MCStages == Intents \X Phases
MCSymmetry == Permutations(Intents) \cup Permutations(Variants)
===============================================================================
