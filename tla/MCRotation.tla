----------------------------- MODULE MCRotation -----------------------------
(* Values for the constants of Rotation. *)
EXTENDS Rotation

CONSTANTS a1, a2   \* articles

\* The order of PRIMARY_ALIASES.
TwoPosition == [s \in Slots |-> IF s = "openai" THEN 0 ELSE 1]
AllButOne == Slots \X Replies \ {<<"anthropic", "error">>}
=============================================================================
