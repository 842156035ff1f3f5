------------------------------ MODULE MCIntake ------------------------------
(* Articles a, b and c tell one story, b between a and c; d, by hand, tells   *)
(* another that resembles it.                                                 *)
EXTENDS Intake

CONSTANTS a, b, c, d, rss

MCFeed == [s \in {rss} |-> {a, b}]
MCScore ==
    [i \in Items |-> [j \in Items |->
        CASE i = j -> 5
          [] {i, j} \in {{a, b}, {b, c}} -> 4
          [] {i, j} \in {{a, c}, {c, d}} -> 3
          [] {i, j} = {a, d} -> 2
          [] OTHER -> 0]]
=============================================================================
