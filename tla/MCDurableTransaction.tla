------------------------- MODULE MCDurableTransaction -------------------------
(* Small instances of DurableTransaction for TLC.                          *)
EXTENDS DurableTransaction, TLC

CONSTANTS e1, e2, r1, open, close, v1, v2

MCSymmetry == Permutations(Executors) \cup Permutations(Variants)
=============================================================================
