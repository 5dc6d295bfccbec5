--------------------------- MODULE MCSessionVault ---------------------------
(* SessionVault for TLC: two commands contending for the store.  They are   *)
(* interchangeable, so symmetry is sound for the safety runs.               *)
EXTENDS SessionVault, TLC

ProcSymmetry == Permutations(Procs)
=============================================================================
