---------------------------- MODULE MCDispatch ----------------------------
(* Small instances of Dispatch for TLC. *)
EXTENDS Dispatch, TLC

CONSTANTS c1, c2, c3, t1, t2

OneTick  == {t1}
TwoTicks == {t1, t2}
OneCluster    == {c1}
SecondCluster == {c2}
TwoClusters   == {c1, c2}
ThreeClusters == {c1, c2, c3}

\* Scores change with every filter cycle: any order may be met.
AnyRank == {r \in [Clusters -> 1..Cardinality(Clusters)] :
              \A c, d \in Clusters : c # d => r[c] # r[d]}

\* The clusters that fail have the best scores and keep them; at most one
\* cluster is of each kind.
WorstFirst == {[c \in Clusters |-> IF c \in Poison THEN 1
                                   ELSE IF c \in Flaky THEN 2 ELSE 3]}
=============================================================================
