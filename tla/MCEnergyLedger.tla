--------------------------- MODULE MCEnergyLedger ---------------------------
(* Small instances of EnergyLedger for TLC. *)
EXTENDS EnergyLedger, TLC

CONSTANTS c1, c2, s1, s2

\* A coordinator is told from another by its history only, and so is a poll slot.
Permuted == Permutations(Coordinators) \cup Permutations(Slots)
=============================================================================
