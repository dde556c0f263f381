------------------------------ MODULE MCSwapper ------------------------------
(* Instances of Swapper for TLC.  The clock unit is the broadcast timeout. *)
EXTENDS Swapper, TLC

CONSTANTS k1, k2

OneSlot == {k1}
TwoSlots == {k1, k2}
SlotSymmetry == Permutations(Slots)

=============================================================================
