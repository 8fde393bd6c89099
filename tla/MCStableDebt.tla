---------------------------- MODULE MCStableDebt ----------------------------
(* Two borrowers, a low and a high rate, a year as the unit of time.       *)
EXTENDS StableDebt, TLC

CONSTANTS alice, bob

Symmetry == Permutations(Users)
=============================================================================
