-------------------------- MODULE MCDraftLifecycle --------------------------
(* Values for the constants of DraftLifecycle. *)
EXTENDS DraftLifecycle

CONSTANTS plain, weak, banned   \* texts that pass, need a fix, are forbidden

MCVerdict == [b \in Bodies |-> CASE b = plain  -> "ready_for_review"
                                 [] b = weak   -> "needs_fix"
                                 [] b = banned -> "drafting"]
\* The forbidden text lacks a figure of the pack m1.
MCSupports == [b \in Bodies |-> IF b = banned THEN {} ELSE {"m1"}]
=============================================================================
