---------------------------- MODULE MCEditLock ----------------------------
(* Values for the constants of EditLock: tab a1 of ann, b1 of bob. *)
EXTENDS EditLock

CONSTANTS ann, bob, a1, b1

MCOwner == [t \in Tabs |-> IF t = b1 THEN bob ELSE ann]
=============================================================================
