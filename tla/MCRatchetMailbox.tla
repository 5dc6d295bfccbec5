-------------------------- MODULE MCRatchetMailbox --------------------------
(* RatchetMailbox for TLC.  The creator may send two events (its ack is     *)
(* message 1), the joiner one (after its hello).  The ids of events are     *)
(* interchangeable: symmetry is sound for the runs that check safety only.  *)
EXTENDS RatchetMailbox, TLC

EventSymmetry == Permutations(Events)
TwoAndOne == [p \in {Creator, Joiner} |-> IF p = Creator THEN 3 ELSE 2]
=============================================================================
