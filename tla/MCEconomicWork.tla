---------------------------- MODULE MCEconomicWork ----------------------------
(* Small instances of EconomicWork for TLC.                                *)
EXTENDS EconomicWork, TLC

CONSTANTS e1, r1, r2, open, close, v1

MCSymmetry == Permutations(Reconcilers)
=============================================================================
