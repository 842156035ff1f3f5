--------------------------- MODULE MCDraftBudget ---------------------------
(* Small instances of DraftBudget for TLC. *)
EXTENDS DraftBudget, TLC

CONSTANTS t1, t2

TwoTicks == {t1, t2}
TickSymmetry == Permutations(Ticks)
=============================================================================
