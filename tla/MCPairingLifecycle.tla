------------------------- MODULE MCPairingLifecycle -------------------------
(* PairingLifecycle for TLC.  Relationships a device generates are          *)
(* interchangeable: symmetry is sound for the runs that check safety only.  *)
EXTENDS PairingLifecycle, TLC

OwnSymmetry == Permutations(Own)
=============================================================================
