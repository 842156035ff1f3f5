---------------------------- MODULE ReviewProofs ----------------------------
(***************************************************************************)
(* Theorems about Review, for any topics, sources, facts and answers of    *)
(* the language model: a draft that is not blocked keeps every figure it   *)
(* must keep and invents none, one that repeats its sources is blocked for *)
(* no fact, and an export shows every word of a draft.                     *)
(*                                                                         *)
(* The operators of FactDiff, TextReview and BodyFormat compute along      *)
(* sequences.  For each of them a named equation says what it computes     *)
(* step by step (Steps for FlattenSeq, Keeps for Distinct, Pairs for       *)
(* Greedy, Chooses for RequiredFacts, Deals for GroupIntoN, Merges for     *)
(* CoalesceToCount): a solution exists by Recursion, the operator is one,  *)
(* and what holds of every solution is proved by climbing (Climb) from one *)
(* index to the next.                                                      *)
(***************************************************************************)
EXTENDS Review, FiniteSetTheorems, WellFoundedInduction, TLAPS

-----------------------------------------------------------------------------
LEMMA NatMin ==
    ASSUME NEW T \in SUBSET Nat, T # {}
    PROVE  \E x \in T : \A y \in T : x <= y
  <1>1. PICK x \in T : \A y \in T : <<y, x>> \notin OpToRel(<, Nat)
    BY NatLessThanWellFounded, WFMin
  <1>2. \A y \in T : ~(y < x)
    BY <1>1 DEF OpToRel
  <1>3. QED
    BY <1>2

LEMMA Climb ==
    ASSUME NEW m \in Int, NEW N \in Int, NEW T,
           m \in T, \A n \in (m + 1)..N : n - 1 \in T => n \in T
    PROVE  \A n \in m..N : n \in T
  <1> DEFINE Missed == {k \in Nat : m + k <= N /\ m + k \notin T}
  <1>1. SUFFICES ASSUME NEW n \in m..N, n \notin T PROVE FALSE
    OBVIOUS
  <1>2. n - m \in Missed
    <2>1. m + (n - m) = n /\ n - m \in Nat
      OBVIOUS
    <2>2. QED
      BY <1>1, <2>1
  <1>3. PICK k \in Missed : \A j \in Missed : k <= j
    BY <1>2, NatMin
  <1>4. k # 0
    OBVIOUS
  <1>5. k - 1 \notin Missed
    BY <1>3, <1>4
  <1>6. m + k \in (m + 1)..N /\ (m + k) - 1 = m + (k - 1) /\ k - 1 \in Nat
    BY <1>4
  <1>7. (m + k) - 1 \in T
    BY <1>5, <1>6
  <1>8. QED
    BY <1>6, <1>7

(* f starts with b at m and goes on by h *)
Recurs(f, m, N, b, h) == f = [n \in m..N |-> IF n = m THEN b ELSE h[<<n, f[n - 1]>>]]

LEMMA Recursion ==
    ASSUME NEW m \in Int, NEW N \in Int, NEW X, NEW b \in X,
           NEW h \in [((m + 1)..N) \X X -> X]
    PROVE  \E f \in [m..N -> X] : Recurs(f, m, N, b, h)
  <1> USE DEF Recurs
  <1> DEFINE Upto(n, f) == f \in [m..n -> X] /\ f[m] = b /\ \A k \in (m + 1)..n : f[k] = h[<<k, f[k - 1]>>]
             T == {n \in m..N : \E f : Upto(n, f)}
  <1>0. CASE N < m
    <2>1. [n \in m..N |-> b] = [n \in m..N |-> IF n = m THEN b ELSE h[<<n, [k \in m..N |-> b][n - 1]>>]]
      BY <1>0
    <2>2. QED
      BY <2>1
  <1>1. CASE m <= N
    <2>1. m \in T
      <3>1. Upto(m, [k \in m..m |-> b])
        OBVIOUS
      <3>2. QED
        BY <1>1, <3>1
    <2>2. ASSUME NEW n \in (m + 1)..N, n - 1 \in T PROVE n \in T
      <3>1. PICK f : Upto(n - 1, f)
        BY <2>2
      <3> DEFINE g == [k \in m..n |-> IF k = n THEN h[<<n, f[n - 1]>>] ELSE f[k]]
      <3>2. n - 1 \in m..(n - 1) /\ f[n - 1] \in X
        BY <3>1
      <3>3. h[<<n, f[n - 1]>>] \in X
        BY <3>2
      <3>4. g \in [m..n -> X]
        BY <3>1, <3>3
      <3>5. ASSUME NEW k \in (m + 1)..n PROVE g[k] = h[<<k, g[k - 1]>>]
        <4>1. k - 1 # n /\ k - 1 \in m..n /\ k \in m..n
          OBVIOUS
        <4>2. g[k - 1] = f[k - 1]
          BY <4>1
        <4>3. k # n => k \in (m + 1)..(n - 1)
          OBVIOUS
        <4>4. QED
          BY <3>1, <4>1, <4>2, <4>3
      <3>6. g[m] = b
        BY <3>1
      <3>7. Upto(n, g)
        BY <3>4, <3>5, <3>6
      <3>8. n \in m..N
        OBVIOUS
      <3> HIDE DEF g
      <3>9. QED
        BY <3>7, <3>8
    <2> HIDE DEF T
    <2>3. N \in T
      BY <1>1, <2>1, <2>2, Climb
    <2>4. PICK f : Upto(N, f)
      BY <2>3 DEF T
    <2>5. f = [n \in m..N |-> IF n = m THEN b ELSE h[<<n, f[n - 1]>>]]
      BY <2>4
    <2>6. QED
      BY <2>4, <2>5
  <1>2. QED
    BY <1>0, <1>1

-----------------------------------------------------------------------------
(* What FlattenSeq computes step by step *)
Steps(ss, f) == f = [i \in 1..Len(ss) |-> IF i = 1 THEN ss[i] ELSE f[i - 1] \o ss[i]]

LEMMA StepsAt ==
    ASSUME NEW ss, NEW f, Steps(ss, f), NEW i \in 1..Len(ss)
    PROVE  f[i] = IF i = 1 THEN ss[i] ELSE f[i - 1] \o ss[i]
  BY Zenon DEF Steps

LEMMA StepsType ==
    ASSUME NEW S, NEW ss \in Seq(Seq(S)), NEW f, Steps(ss, f)
    PROVE  f \in [1..Len(ss) -> Seq(S)]
  <1> DEFINE T == {i \in 1..Len(ss) : f[i] \in Seq(S)}
  <1>0. Len(ss) \in Int /\ 1 \in Int /\ \A i \in 1..Len(ss) : ss[i] \in Seq(S)
    OBVIOUS
  <1>1. \A i \in 1..Len(ss) : i \in T
    <2>1. CASE Len(ss) = 0
      BY <2>1
    <2>2. CASE Len(ss) # 0
      <3>1. 1 \in T
        <4>1. 1 \in 1..Len(ss)
          BY <2>2
        <4>2. f[1] = ss[1]
          BY <4>1, StepsAt
        <4>3. QED
          BY <1>0, <4>1, <4>2
      <3>2. ASSUME NEW i \in (1 + 1)..Len(ss), i - 1 \in T PROVE i \in T
        <4>1. i \in 1..Len(ss) /\ i # 1
          OBVIOUS
        <4>2. f[i] = f[i - 1] \o ss[i]
          BY <4>1, StepsAt
        <4>3. f[i - 1] \in Seq(S) /\ ss[i] \in Seq(S)
          BY <1>0, <3>2, <4>1
        <4>4. f[i] \in Seq(S)
          BY <4>2, <4>3
        <4>5. QED
          BY <4>1, <4>4
      <3> HIDE DEF T
      <3>3. QED
        BY <1>0, <3>1, <3>2, Climb, Zenon
    <2>3. QED
      BY <2>1, <2>2
  <1>2. f = [i \in 1..Len(ss) |-> f[i]]
    <2>1. \E g : f = g /\ g = [i \in 1..Len(ss) |-> IF i = 1 THEN ss[i] ELSE f[i - 1] \o ss[i]]
      BY DEF Steps
    <2>2. QED
      BY <2>1
  <1>3. QED
    BY <1>1, <1>2

LEMMA StepsUnique ==
    ASSUME NEW ss, Len(ss) \in Nat, NEW f, NEW g, Steps(ss, f), Steps(ss, g)
    PROVE  \A i \in 1..Len(ss) : f[i] = g[i]
  <1> DEFINE T == {i \in 1..Len(ss) : f[i] = g[i]}
  <1>0. Len(ss) \in Int /\ 1 \in Int
    OBVIOUS
  <1>1. CASE Len(ss) = 0
    BY <1>1
  <1>2. CASE Len(ss) # 0
    <2>1. 1 \in T
      <3>1. 1 \in 1..Len(ss)
        BY <1>2
      <3>2. QED
        BY <3>1, StepsAt
    <2>2. ASSUME NEW i \in (1 + 1)..Len(ss), i - 1 \in T PROVE i \in T
      <3>1. i \in 1..Len(ss) /\ i # 1
        OBVIOUS
      <3>2. f[i] = f[i - 1] \o ss[i] /\ g[i] = g[i - 1] \o ss[i]
        BY <3>1, StepsAt
      <3>3. f[i - 1] = g[i - 1]
        BY <2>2
      <3>4. QED
        BY <3>1, <3>2, <3>3
    <2> HIDE DEF T
    <2>3. \A i \in 1..Len(ss) : i \in T
      BY <1>0, <2>1, <2>2, Climb, Zenon
    <2>4. QED
      BY <2>3 DEF T
  <1>3. QED
    BY <1>1, <1>2

LEMMA StepsExist ==
    ASSUME NEW S, NEW ss \in Seq(Seq(S)), Len(ss) # 0
    PROVE  \E f : Steps(ss, f)
  <1> DEFINE N == Len(ss)  X == Seq(S)
             h == [p \in ((1 + 1)..N) \X X |-> p[2] \o ss[p[1]]]
             b == ss[1]
  <1>0. N \in Int /\ N # 0 /\ 1 \in Int /\ b \in X /\ \A i \in 1..N : ss[i] \in X
    OBVIOUS
  <1>1. \A p \in ((1 + 1)..N) \X X : p[2] \o ss[p[1]] \in X
    OBVIOUS
  <1>2. h \in [((1 + 1)..N) \X X -> X]
    BY <1>1
  <1>3. PICK f \in [1..N -> X] : Recurs(f, 1, N, b, h)
    <2> HIDE DEF N, X, h, b
    <2>1. QED
      BY <1>0, <1>2, Recursion, Zenon
  <1>4. ASSUME NEW n \in 1..N
        PROVE  f[n] = IF n = 1 THEN ss[n] ELSE f[n - 1] \o ss[n]
    <2>1. f[n] = IF n = 1 THEN b ELSE h[<<n, f[n - 1]>>]
      <3> HIDE DEF b, h, N
      <3>1. QED
        BY <1>3, Zenon DEF Recurs
    <2>2. ASSUME n # 1 PROVE h[<<n, f[n - 1]>>] = f[n - 1] \o ss[n]
      <3>1. n - 1 \in 1..N /\ n \in (1 + 1)..N
        BY <1>0, <2>2
      <3>2. <<n, f[n - 1]>> \in ((1 + 1)..N) \X X
        BY <1>3, <3>1
      <3>3. QED
        BY <3>2
    <2>3. QED
      <3> HIDE DEF h
      <3>1. QED
        BY <2>1, <2>2
  <1>5. f = [n \in 1..N |-> f[n]]
    BY <1>3
  <1>6. Steps(ss, f)
    <2>1. f = [n \in 1..N |-> IF n = 1 THEN ss[n] ELSE f[n - 1] \o ss[n]]
      BY <1>4, <1>5, Zenon
    <2>2. QED
      BY <2>1, Zenon DEF Steps
  <1>7. QED
    BY <1>6

LEMMA FlattenIs ==
    ASSUME NEW S, NEW ss \in Seq(Seq(S)), Len(ss) # 0, NEW f, Steps(ss, f)
    PROVE  FlattenSeq(ss) = f[Len(ss)]
  <1> DEFINE flatten[i \in 1..Len(ss)] == IF i = 1 THEN ss[i] ELSE flatten[i - 1] \o ss[i]
  <1>1. Steps(ss, flatten)
    BY DEF Steps
  <1>2. FlattenSeq(ss) = flatten[Len(ss)]
    BY DEF FlattenSeq
  <1> HIDE DEF flatten
  <1>3. Len(ss) \in Nat /\ Len(ss) \in 1..Len(ss)
    OBVIOUS
  <1>4. flatten[Len(ss)] = f[Len(ss)]
    BY <1>1, <1>3, StepsUnique
  <1>5. QED
    BY <1>2, <1>4

LEMMA ConcatSet ==
    ASSUME NEW S, NEW a \in Seq(S), NEW b \in Seq(S)
    PROVE  ToSet(a \o b) = ToSet(a) \cup ToSet(b)
  <1>1. \A i \in DOMAIN a : i \in DOMAIN (a \o b) /\ (a \o b)[i] = a[i]
    OBVIOUS
  <1>2. \A i \in DOMAIN b : Len(a) + i \in DOMAIN (a \o b) /\ (a \o b)[Len(a) + i] = b[i]
    OBVIOUS
  <1>3. ASSUME NEW i \in DOMAIN (a \o b)
        PROVE  (a \o b)[i] \in ToSet(a) \cup ToSet(b)
    <2>1. CASE i <= Len(a)
      BY <2>1 DEF ToSet
    <2>2. CASE i > Len(a)
      <3>1. i - Len(a) \in DOMAIN b /\ (a \o b)[i] = b[i - Len(a)]
        BY <2>2
      <3>2. QED
        BY <3>1 DEF ToSet
    <2>3. QED
      BY <2>1, <2>2
  <1>4. ToSet(a \o b) \subseteq ToSet(a) \cup ToSet(b)
    BY <1>3 DEF ToSet
  <1>5. ASSUME NEW i \in DOMAIN a PROVE a[i] \in ToSet(a \o b)
    <2>1. i \in DOMAIN (a \o b) /\ (a \o b)[i] = a[i]
      BY <1>1
    <2>2. QED
      BY <2>1 DEF ToSet
  <1>6. ASSUME NEW i \in DOMAIN b PROVE b[i] \in ToSet(a \o b)
    <2>1. Len(a) + i \in DOMAIN (a \o b) /\ (a \o b)[Len(a) + i] = b[i]
      BY <1>2
    <2>2. QED
      BY <2>1 DEF ToSet
  <1>7. ToSet(a) \subseteq ToSet(a \o b) /\ ToSet(b) \subseteq ToSet(a \o b)
    <2>1. (\A x \in ToSet(a) : \E i \in DOMAIN a : x = a[i]) /\ (\A x \in ToSet(b) : \E i \in DOMAIN b : x = b[i])
      BY DEF ToSet
    <2>2. QED
      BY <1>5, <1>6, <2>1
  <1>8. QED
    BY <1>4, <1>7

LEMMA FlattenEmpty == FlattenSeq(<<>>) = <<>>
  BY DEF FlattenSeq

LEMMA FlattenType ==
    ASSUME NEW S, NEW ss \in Seq(Seq(S))
    PROVE  FlattenSeq(ss) \in Seq(S)
  <1>1. CASE Len(ss) = 0
    <2>1. ss = <<>>
      BY <1>1
    <2>2. FlattenSeq(ss) = <<>> /\ <<>> \in Seq(S)
      BY <2>1, FlattenEmpty
    <2>3. QED
      BY <2>2
  <1>2. CASE Len(ss) # 0
    <2>1. PICK f : Steps(ss, f)
      BY <1>2, StepsExist
    <2>2. f \in [1..Len(ss) -> Seq(S)] /\ FlattenSeq(ss) = f[Len(ss)]
      BY <1>2, <2>1, StepsType, FlattenIs
    <2>3. QED
      BY <1>2, <2>2
  <1>3. QED
    BY <1>1, <1>2

(* The parts of ss lie in its flattening one after the other *)
LEMMA FlattenParts ==
    ASSUME NEW S, NEW ss \in Seq(Seq(S))
    PROVE  ToSet(FlattenSeq(ss)) = UNION {ToSet(ss[i]) : i \in 1..Len(ss)}
  <1>0. \A i \in 1..Len(ss) : ss[i] \in Seq(S)
    OBVIOUS
  <1>1. CASE Len(ss) = 0
    <2>1. ss = <<>>
      BY <1>1
    <2>2. QED
      BY <1>1, <2>1, FlattenEmpty DEF ToSet
  <1>2. CASE Len(ss) # 0
    <2>1. PICK f : Steps(ss, f)
      BY <1>2, StepsExist
    <2>2. f \in [1..Len(ss) -> Seq(S)] /\ FlattenSeq(ss) = f[Len(ss)]
      BY <1>2, <2>1, StepsType, FlattenIs
    <2> DEFINE Union(n) == UNION {ToSet(ss[i]) : i \in 1..n}
               T == {n \in 1..Len(ss) : ToSet(f[n]) = Union(n)}
    <2>3. 1 \in T
      <3>1. 1 \in 1..Len(ss)
        BY <1>2
      <3>2. f[1] = ss[1]
        BY <2>1, <3>1, StepsAt
      <3>3. Union(1) = ToSet(ss[1])
        OBVIOUS
      <3>4. QED
        BY <3>1, <3>2, <3>3
    <2>4. ASSUME NEW n \in (1 + 1)..Len(ss), n - 1 \in T PROVE n \in T
      <3>1. n \in 1..Len(ss) /\ n # 1 /\ n - 1 \in 1..Len(ss)
        OBVIOUS
      <3>2. f[n] = f[n - 1] \o ss[n]
        BY <2>1, <3>1, StepsAt
      <3>6. f[n - 1] \in Seq(S) /\ ss[n] \in Seq(S)
        BY <1>0, <2>2, <3>1
      <3>3. ToSet(f[n]) = ToSet(f[n - 1]) \cup ToSet(ss[n])
        BY <3>2, <3>6, ConcatSet
      <3>4. Union(n) = Union(n - 1) \cup ToSet(ss[n])
        <4>1. 1..n = 1..(n - 1) \cup {n}
          OBVIOUS
        <4>2. QED
          BY <4>1
      <3>5. QED
        BY <2>4, <3>1, <3>3, <3>4
    <2>5. Len(ss) \in Int /\ 1 \in Int /\ Len(ss) \in 1..Len(ss)
      BY <1>2
    <2> HIDE DEF T
    <2>6. \A n \in 1..Len(ss) : n \in T
      BY <2>3, <2>4, <2>5, Climb, Zenon
    <2>7. QED
      BY <2>2, <2>5, <2>6 DEF T
  <1>3. QED
    BY <1>1, <1>2

-----------------------------------------------------------------------------
(* What Distinct computes step by step *)
Repeated(keys, n) == \E j \in 1..(n - 1) : keys[j] = keys[n]
Keeps(s, keys, f) ==
    f = [n \in 0..Len(s) |-> IF n = 0 THEN <<>>
                             ELSE IF Repeated(keys, n) THEN f[n - 1] ELSE Append(f[n - 1], s[n])]

LEMMA KeepsExist ==
    ASSUME NEW S, NEW s \in Seq(S), NEW keys
    PROVE  \E f : Keeps(s, keys, f)
  <1> DEFINE N == Len(s)  X == Seq(S)  b == <<>>
             h == [p \in ((0 + 1)..N) \X X |-> IF Repeated(keys, p[1]) THEN p[2] ELSE Append(p[2], s[p[1]])]
  <1>0. N \in Int /\ 0 \in Int /\ b \in X /\ \A i \in 1..N : s[i] \in S
    OBVIOUS
  <1>1. \A p \in ((0 + 1)..N) \X X :
            (IF Repeated(keys, p[1]) THEN p[2] ELSE Append(p[2], s[p[1]])) \in X
    OBVIOUS
  <1>2. h \in [((0 + 1)..N) \X X -> X]
    <2> HIDE DEF X, N
    <2>1. QED
      BY <1>1
  <1>3. PICK f \in [0..N -> X] : Recurs(f, 0, N, b, h)
    <2> HIDE DEF N, X, h, b
    <2>1. QED
      BY <1>0, <1>2, Recursion, Zenon
  <1>4. ASSUME NEW n \in 0..N
        PROVE  f[n] = IF n = 0 THEN <<>>
                      ELSE IF Repeated(keys, n) THEN f[n - 1] ELSE Append(f[n - 1], s[n])
    <2>1. f[n] = IF n = 0 THEN b ELSE h[<<n, f[n - 1]>>]
      <3> HIDE DEF b, h, N
      <3>1. QED
        BY <1>3, Zenon DEF Recurs
    <2>2. ASSUME n # 0
          PROVE  h[<<n, f[n - 1]>>] = IF Repeated(keys, n) THEN f[n - 1] ELSE Append(f[n - 1], s[n])
      <3>1. n - 1 \in 0..N /\ n \in (0 + 1)..N
        BY <1>0, <2>2
      <3>2. <<n, f[n - 1]>> \in ((0 + 1)..N) \X X
        BY <1>3, <3>1
      <3>3. QED
        BY <3>2
    <2>3. QED
      <3> HIDE DEF h
      <3>1. QED
        BY <2>1, <2>2
  <1>5. f = [n \in 0..N |-> f[n]]
    BY <1>3
  <1>6. Keeps(s, keys, f)
    <2>1. f = [n \in 0..N |-> IF n = 0 THEN <<>>
                              ELSE IF Repeated(keys, n) THEN f[n - 1] ELSE Append(f[n - 1], s[n])]
      BY <1>4, <1>5, Zenon
    <2>2. QED
      BY <2>1, Zenon DEF Keeps
  <1>7. QED
    BY <1>6

LEMMA DistinctKeeps ==
    ASSUME NEW S, NEW s \in Seq(S), NEW keys
    PROVE  \E f : Keeps(s, keys, f) /\ Distinct(s, keys) = f[Len(s)]
  <1> DEFINE kept[n \in 0..Len(s)] ==
                IF n = 0 THEN <<>>
                ELSE IF \E j \in 1..(n - 1) : keys[j] = keys[n] THEN kept[n - 1]
                ELSE Append(kept[n - 1], s[n])
  <1>0. \E f : Keeps(s, keys, f)
    BY KeepsExist
  <1>1. Keeps(s, keys, kept)
    BY <1>0 DEF Keeps, Repeated
  <1>2. Distinct(s, keys) = kept[Len(s)]
    BY DEF Distinct
  <1> HIDE DEF kept
  <1>3. QED
    BY <1>1, <1>2

LEMMA KeepsAt ==
    ASSUME NEW s, NEW keys, NEW f, Keeps(s, keys, f), NEW n \in 0..Len(s)
    PROVE  f[n] = IF n = 0 THEN <<>>
                  ELSE IF Repeated(keys, n) THEN f[n - 1] ELSE Append(f[n - 1], s[n])
  BY Zenon DEF Keeps

(* r consists of the first elements of s with their keys, up to the n-th *)
Picks(r, s, keys, n, at) ==
    /\ at \in [1..Len(r) -> 1..n]
    /\ \A k \in 1..Len(r) : r[k] = s[at[k]]
    /\ \A k, l \in 1..Len(r) : keys[at[k]] = keys[at[l]] => k = l
    /\ \A i \in 1..n : \E k \in 1..Len(r) : keys[at[k]] = keys[i]

LEMMA PicksOn ==
    ASSUME NEW S, NEW s \in Seq(S), NEW keys, NEW n \in 1..Len(s),
           NEW r \in Seq(S), NEW at, Picks(r, s, keys, n - 1, at)
    PROVE  \/ Repeated(keys, n) /\ Picks(r, s, keys, n, at)
           \/ /\ ~Repeated(keys, n)
              /\ \E to : Picks(Append(r, s[n]), s, keys, n, to)
  <1>0. n \in Nat /\ n # 0 /\ 1..n = 1..(n - 1) \cup {n}
    OBVIOUS
  <1>1. CASE Repeated(keys, n)
    <2>1. \E k \in 1..Len(r) : keys[at[k]] = keys[n]
      BY <1>1 DEF Repeated, Picks
    <2>2. QED
      BY <1>0, <1>1, <2>1 DEF Picks
  <1>2. CASE ~Repeated(keys, n)
    <2> DEFINE m == Len(r) + 1
               q == Append(r, s[n])
               to == [k \in 1..m |-> IF k = m THEN n ELSE at[k]]
    <2>1. Len(q) = m /\ m \in Nat /\ q[m] = s[n] /\ \A k \in 1..Len(r) : q[k] = r[k] /\ k # m
      OBVIOUS
    <2>2. 1..m = 1..Len(r) \cup {m}
      OBVIOUS
    <2> HIDE DEF m, q
    <2>3. to \in [1..m -> 1..n]
      BY <1>0, <2>2 DEF Picks
    <2>4. to[m] = n /\ \A k \in 1..Len(r) : to[k] = at[k] /\ at[k] \in 1..(n - 1)
      BY <2>1, <2>2 DEF Picks
    <2> HIDE DEF to
    <2>5. \A k \in 1..m : q[k] = s[to[k]]
      BY <2>1, <2>2, <2>4 DEF Picks
    <2>6. \A k \in 1..Len(r) : keys[to[k]] # keys[n]
      BY <1>2, <2>4 DEF Repeated
    <2>7. \A k, l \in 1..m : keys[to[k]] = keys[to[l]] => k = l
      BY <2>2, <2>4, <2>6 DEF Picks
    <2>8. ASSUME NEW i \in 1..n PROVE \E k \in 1..m : keys[to[k]] = keys[i]
      <3>1. CASE i = n
        BY <2>2, <2>4, <3>1
      <3>2. CASE i # n
        <4>1. i \in 1..(n - 1)
          BY <1>0, <3>2
        <4>2. PICK k \in 1..Len(r) : keys[at[k]] = keys[i]
          BY <4>1 DEF Picks
        <4>3. QED
          BY <2>2, <2>4, <4>2
      <3>3. QED
        BY <3>1, <3>2
    <2>9. Picks(q, s, keys, n, to)
      BY <2>1, <2>3, <2>5, <2>7, <2>8 DEF Picks
    <2>10. QED
      BY <1>2, <2>9 DEF q
  <1>3. QED
    BY <1>1, <1>2

LEMMA DistinctPicks ==
    ASSUME NEW S, NEW s \in Seq(S), NEW keys
    PROVE  /\ Distinct(s, keys) \in Seq(S)
           /\ \E at : Picks(Distinct(s, keys), s, keys, Len(s), at)
  <1>1. PICK f : Keeps(s, keys, f) /\ Distinct(s, keys) = f[Len(s)]
    BY DistinctKeeps
  <1> DEFINE T == {n \in 0..Len(s) : f[n] \in Seq(S) /\ \E at : Picks(f[n], s, keys, n, at)}
  <1>2. 0 \in T
    <2>1. 0 \in 0..Len(s)
      OBVIOUS
    <2>2. f[0] = <<>>
      BY <1>1, <2>1, KeepsAt
    <2>3. <<>> \in Seq(S) /\ Picks(<<>>, s, keys, 0, <<>>)
      BY DEF Picks
    <2>4. QED
      BY <2>1, <2>2, <2>3
  <1>3. ASSUME NEW n \in (0 + 1)..Len(s), n - 1 \in T PROVE n \in T
    <2>1. n \in 0..Len(s) /\ n \in 1..Len(s) /\ n # 0 /\ s[n] \in S
      OBVIOUS
    <2>2. f[n] = IF Repeated(keys, n) THEN f[n - 1] ELSE Append(f[n - 1], s[n])
      BY <1>1, <2>1, KeepsAt
    <2>3. f[n - 1] \in Seq(S)
      BY <1>3
    <2>4. PICK at : Picks(f[n - 1], s, keys, n - 1, at)
      BY <1>3
    <2>5. f[n] \in Seq(S)
      BY <2>1, <2>2, <2>3
    <2>6. \E to : Picks(f[n], s, keys, n, to)
      BY <2>1, <2>2, <2>3, <2>4, PicksOn
    <2>7. QED
      BY <2>1, <2>5, <2>6
  <1>4. 0 \in Int /\ Len(s) \in Int /\ Len(s) \in 0..Len(s)
    OBVIOUS
  <1> HIDE DEF T
  <1>5. \A n \in 0..Len(s) : n \in T
    BY <1>2, <1>3, <1>4, Climb, Zenon
  <1>6. QED
    BY <1>1, <1>4, <1>5 DEF T

-----------------------------------------------------------------------------
LEMMA FirstIsLeast ==
    ASSUME NEW I \in SUBSET Nat, I # {}
    PROVE  First(I) \in I /\ \A k \in I : First(I) <= k
  BY NatMin DEF First

(* What Greedy computes step by step *)
Free(fits, before, n) ==
    {f[2] : f \in {g \in fits : g[1] = n /\ \A p \in before : p[2] # g[2]}}
Took(fits, before, n) ==
    IF Free(fits, before, n) = {} \/ \E p \in before : p[1] = n THEN before
    ELSE before \cup {<<n, First(Free(fits, before, n))>>}
Pairs(count, fits, taken, f) ==
    f = [n \in 0..count |-> IF n = 0 THEN taken ELSE Took(fits, f[n - 1], n)]

LEMMA FreeOnes ==
    ASSUME NEW fits \in SUBSET (Nat \X Nat), NEW before, NEW n
    PROVE  /\ Free(fits, before, n) \subseteq Nat
           /\ \A j \in Nat : j \in Free(fits, before, n)
                             <=> <<n, j>> \in fits /\ \A p \in before : p[2] # j
  BY DEF Free

LEMMA TookType ==
    ASSUME NEW fits \in SUBSET (Nat \X Nat), NEW before \in SUBSET (Nat \X Nat),
           NEW n \in Nat
    PROVE  Took(fits, before, n) \in SUBSET (Nat \X Nat)
  <1>1. Free(fits, before, n) \subseteq Nat
    BY FreeOnes
  <1>2. Free(fits, before, n) # {} => First(Free(fits, before, n)) \in Nat
    BY <1>1, FirstIsLeast
  <1>3. QED
    BY <1>2 DEF Took

LEMMA PairsExist ==
    ASSUME NEW count \in Nat, NEW fits \in SUBSET (Nat \X Nat), NEW taken \in SUBSET (Nat \X Nat)
    PROVE  \E f \in [0..count -> SUBSET (Nat \X Nat)] : Pairs(count, fits, taken, f)
  <1> DEFINE X == SUBSET (Nat \X Nat)
             h == [p \in ((0 + 1)..count) \X X |-> Took(fits, p[2], p[1])]
  <1>0. count \in Int /\ 0 \in Int /\ taken \in X
    OBVIOUS
  <1>1. \A n \in (0 + 1)..count : \A before \in X : Took(fits, before, n) \in X
    <2>1. \A n \in (0 + 1)..count : n \in Nat
      OBVIOUS
    <2>2. QED
      BY <2>1, TookType
  <1> HIDE DEF X
  <1>2. h \in [((0 + 1)..count) \X X -> X]
    BY <1>1
  <1>3. PICK f \in [0..count -> X] : Recurs(f, 0, count, taken, h)
    <2> HIDE DEF h
    <2>1. QED
      BY <1>0, <1>2, Recursion, Zenon
  <1>4. ASSUME NEW n \in 0..count
        PROVE  f[n] = IF n = 0 THEN taken ELSE Took(fits, f[n - 1], n)
    <2>1. f[n] = IF n = 0 THEN taken ELSE h[<<n, f[n - 1]>>]
      <3> HIDE DEF h
      <3>1. QED
        BY <1>3, Zenon DEF Recurs
    <2>2. ASSUME n # 0
          PROVE  h[<<n, f[n - 1]>>] = Took(fits, f[n - 1], n)
      <3>1. n - 1 \in 0..count /\ n \in (0 + 1)..count
        BY <1>0, <2>2
      <3>2. <<n, f[n - 1]>> \in ((0 + 1)..count) \X X
        BY <1>3, <3>1
      <3>3. QED
        BY <3>2
    <2>3. QED
      <3> HIDE DEF h
      <3>1. QED
        BY <2>1, <2>2
  <1>5. f = [n \in 0..count |-> f[n]]
    BY <1>3
  <1>6. Pairs(count, fits, taken, f)
    <2>1. f = [n \in 0..count |-> IF n = 0 THEN taken ELSE Took(fits, f[n - 1], n)]
      BY <1>4, <1>5, Zenon
    <2>2. QED
      BY <2>1, Zenon DEF Pairs
  <1>7. QED
    BY <1>3, <1>6 DEF X

LEMMA PairsAt ==
    ASSUME NEW count, NEW fits, NEW taken, NEW f, Pairs(count, fits, taken, f), NEW n \in 0..count
    PROVE  f[n] = IF n = 0 THEN taken ELSE Took(fits, f[n - 1], n)
  BY Zenon DEF Pairs

LEMMA GreedyPairs ==
    ASSUME NEW count \in Nat, NEW fits \in SUBSET (Nat \X Nat), NEW taken \in SUBSET (Nat \X Nat)
    PROVE  \E f : Pairs(count, fits, taken, f) /\ Greedy(count, fits, taken) = f[count]
  <1> DEFINE pairs[n \in 0..count] ==
                IF n = 0 THEN taken
                ELSE LET before == pairs[n - 1]
                         free == {f[2] : f \in {g \in fits : g[1] = n /\ \A p \in before : p[2] # g[2]}} IN
                     IF free = {} \/ \E p \in before : p[1] = n THEN before
                     ELSE before \cup {<<n, First(free)>>}
  <1>0. \E f : Pairs(count, fits, taken, f)
    BY PairsExist
  <1>1. Pairs(count, fits, taken, pairs)
    BY <1>0 DEF Pairs, Took, Free
  <1>2. Greedy(count, fits, taken) = pairs[count]
    BY DEF Greedy
  <1> HIDE DEF pairs
  <1>3. QED
    BY <1>1, <1>2

-----------------------------------------------------------------------------
(* No left one and no right one has two partners *)
Matched(pairs) ==
    \A p, q \in pairs : (p[1] = q[1] \/ p[2] = q[2]) => p = q

LEMMA TookMatches ==
    ASSUME NEW fits \in SUBSET (Nat \X Nat), NEW before \in SUBSET (Nat \X Nat),
           NEW n \in Nat, Matched(before)
    PROVE  /\ Matched(Took(fits, before, n))
           /\ before \subseteq Took(fits, before, n)
           /\ Took(fits, before, n) \subseteq before \cup fits
  <1> DEFINE free == Free(fits, before, n)  j == First(free)
  <1>1. CASE free = {} \/ \E p \in before : p[1] = n
    <2>1. Took(fits, before, n) = before
      BY <1>1 DEF Took
    <2>2. QED
      BY <2>1
  <1>2. CASE free # {} /\ \A p \in before : p[1] # n
    <2>1. free \subseteq Nat
      BY FreeOnes
    <2>2. j \in free
      BY <1>2, <2>1, FirstIsLeast
    <2>3. <<n, j>> \in fits /\ \A p \in before : p[2] # j
      <3> HIDE DEF j
      <3>1. QED
        BY <2>1, <2>2, FreeOnes
    <2>4. Took(fits, before, n) = before \cup {<<n, j>>}
      BY <1>2 DEF Took
    <2> HIDE DEF j, free
    <2>5. Matched(before \cup {<<n, j>>})
      <3>1. ASSUME NEW p \in before \cup {<<n, j>>}, NEW q \in before \cup {<<n, j>>},
                   p[1] = q[1] \/ p[2] = q[2]
            PROVE  p = q
        <4>1. CASE p \in before /\ q \in before
          BY <3>1, <4>1 DEF Matched
        <4>2. CASE p \notin before \/ q \notin before
          BY <1>2, <2>3, <3>1, <4>2
        <4>3. QED
          BY <4>1, <4>2
      <3>2. QED
        BY <3>1 DEF Matched
    <2>6. QED
      BY <2>3, <2>4, <2>5
  <1>3. QED
    BY <1>1, <1>2

(* Greedy pairs each element at most once, only such as fit, and keeps     *)
(* what was taken before                                                   *)
LEMMA GreedyMatches ==
    ASSUME NEW count \in Nat, NEW fits \in SUBSET (Nat \X Nat), NEW taken \in SUBSET (Nat \X Nat), Matched(taken)
    PROVE  /\ Matched(Greedy(count, fits, taken))
           /\ taken \subseteq Greedy(count, fits, taken)
           /\ Greedy(count, fits, taken) \subseteq taken \cup fits
  <1>1. PICK f : Pairs(count, fits, taken, f) /\ Greedy(count, fits, taken) = f[count]
    BY GreedyPairs
  <1> DEFINE Good(pairs) == Matched(pairs) /\ taken \subseteq pairs /\ pairs \subseteq taken \cup fits
             T == {n \in 0..count : Good(f[n])}
  <1>2. 0 \in T
    <2>1. 0 \in 0..count
      OBVIOUS
    <2>2. f[0] = taken
      BY <1>1, <2>1, PairsAt
    <2>3. QED
      BY <2>1, <2>2
  <1>3. ASSUME NEW n \in (0 + 1)..count, n - 1 \in T PROVE n \in T
    <2>1. n \in 0..count /\ n \in Nat /\ n # 0
      OBVIOUS
    <2>2. f[n] = Took(fits, f[n - 1], n)
      BY <1>1, <2>1, PairsAt
    <2>3. f[n - 1] \in SUBSET (Nat \X Nat) /\ Good(f[n - 1])
      BY <1>3
    <2> DEFINE before == f[n - 1]
    <2> HIDE DEF before
    <2>6. before \in SUBSET (Nat \X Nat) /\ Matched(before)
      BY <2>3 DEF before
    <2>7. /\ Matched(Took(fits, before, n)) /\ before \subseteq Took(fits, before, n)
          /\ Took(fits, before, n) \subseteq before \cup fits
      BY <2>1, <2>6, TookMatches
    <2>4. /\ Matched(f[n]) /\ f[n - 1] \subseteq f[n]
          /\ f[n] \subseteq f[n - 1] \cup fits
      BY <2>2, <2>7 DEF before
    <2>5. QED
      BY <2>1, <2>3, <2>4
  <1>4. 0 \in Int /\ count \in Int /\ count \in 0..count
    OBVIOUS
  <1> HIDE DEF T
  <1>5. \A n \in 0..count : n \in T
    BY <1>2, <1>3, <1>4, Climb, Zenon
  <1>6. QED
    BY <1>1, <1>4, <1>5 DEF T

-----------------------------------------------------------------------------
IsSeq(s) == s \in Seq(ToSet(s))

LEMMA SeqIsSeq ==
    ASSUME NEW S, NEW s \in Seq(S)
    PROVE  IsSeq(s) /\ ToSet(s) \subseteq S /\ DOMAIN s = 1..Len(s) /\ Len(s) \in Nat
  BY DEF IsSeq, ToSet

LEMMA IsSeqIn ==
    ASSUME NEW s, IsSeq(s), NEW S, ToSet(s) \subseteq S
    PROVE  s \in Seq(S)
  <1>1. s \in [1..Len(s) -> ToSet(s)] /\ Len(s) \in Nat
    BY DEF IsSeq
  <1>2. s \in [1..Len(s) -> S]
    BY <1>1
  <1>3. QED
    BY <1>1, <1>2

LEMMA EmptyIsSeq == IsSeq(<<>>) /\ ToSet(<<>>) = {}
  BY DEF IsSeq, ToSet

LEMMA SingleIsSeq ==
    ASSUME NEW x
    PROVE  IsSeq(<<x>>) /\ ToSet(<<x>>) = {x}
  <1>1. <<x>> \in Seq({x}) /\ ToSet(<<x>>) = {x}
    BY DEF ToSet
  <1>2. QED
    BY <1>1, SeqIsSeq

LEMMA FlattenOf ==
    ASSUME NEW n \in Nat, NEW F, F = [i \in 1..n |-> F[i]], \A i \in 1..n : IsSeq(F[i])
    PROVE  /\ IsSeq(FlattenSeq(F))
           /\ ToSet(FlattenSeq(F)) = UNION {ToSet(F[i]) : i \in 1..n}
  <1> DEFINE S == UNION {ToSet(F[i]) : i \in 1..n}
  <1>1. \A i \in 1..n : F[i] \in Seq(S)
    <2>1. \A i \in 1..n : ToSet(F[i]) \subseteq S
      OBVIOUS
    <2> HIDE DEF S
    <2>2. QED
      BY <2>1, IsSeqIn
  <1>2. F \in Seq(Seq(S)) /\ Len(F) = n
    <2> HIDE DEF S
    <2>1. F \in [1..n -> Seq(S)]
      BY <1>1
    <2>2. QED
      BY <2>1
  <1>3. FlattenSeq(F) \in Seq(S)
    BY <1>2, FlattenType
  <1>4. ToSet(FlattenSeq(F)) = UNION {ToSet(F[i]) : i \in 1..Len(F)}
    <2> HIDE DEF S
    <2>1. QED
      BY <1>2, FlattenParts
  <1>5. IsSeq(FlattenSeq(F))
    <2> HIDE DEF S
    <2>1. QED
      BY <1>3, SeqIsSeq
  <1>6. QED
    BY <1>2, <1>4, <1>5

-----------------------------------------------------------------------------
(* What the extractors find in a text is a sequence *)
LEMMA UnquotedIsSeq ==
    ASSUME NEW text \in Seq(Words)
    PROVE  /\ IsSeq(Unquoted(text))
           /\ \A t \in ToSet(Unquoted(text)) : t \in ToSet(text) \/ \E w \in STRING : t = Word(w)
  <1> DEFINE F == [i \in DOMAIN text |->
                      IF text[i][1] = "quote" THEN [n \in DOMAIN text[i][2] |-> Word(text[i][2][n])]
                      ELSE <<text[i]>>]
  <1>1. DOMAIN text = 1..Len(text) /\ Len(text) \in Nat /\ \A i \in DOMAIN text : text[i] \in Words
    OBVIOUS
  <1>2. ASSUME NEW i \in DOMAIN text
        PROVE  /\ IsSeq(F[i])
               /\ \A t \in ToSet(F[i]) : t \in ToSet(text) \/ \E w \in STRING : t = Word(w)
    <2>1. CASE text[i][1] = "quote"
      <3> DEFINE q == text[i][2]
      <3>1. q \in Seq(STRING)
        BY <1>1, <2>1, TokenAssumption
      <3>2. F[i] = [n \in DOMAIN q |-> Word(q[n])]
        BY <2>1
      <3> HIDE DEF q, F
      <3> DEFINE W == {Word(w) : w \in STRING}
      <3>3. F[i] \in Seq(W)
        BY <3>1, <3>2
      <3> HIDE DEF W
      <3>4. IsSeq(F[i]) /\ ToSet(F[i]) \subseteq W
        BY <3>3, SeqIsSeq
      <3>5. QED
        BY <3>4 DEF W
    <2>2. CASE text[i][1] # "quote"
      <3>1. F[i] = <<text[i]>>
        BY <2>2
      <3>2. text[i] \in ToSet(text)
        BY DEF ToSet
      <3>3. <<text[i]>> \in Seq(ToSet(text))
        BY <3>2
      <3> HIDE DEF F
      <3>4. IsSeq(F[i]) /\ ToSet(F[i]) \subseteq ToSet(text)
        BY <3>1, <3>3, SeqIsSeq
      <3>5. QED
        BY <3>4
    <2>3. QED
      BY <2>1, <2>2
  <1>3. F = [i \in 1..Len(text) |-> F[i]]
    BY <1>1
  <1>4. Unquoted(text) = FlattenSeq(F)
    BY DEF Unquoted
  <1> HIDE DEF F
  <1>5. /\ IsSeq(FlattenSeq(F))
        /\ ToSet(FlattenSeq(F)) = UNION {ToSet(F[i]) : i \in 1..Len(text)}
    BY <1>1, <1>2, <1>3, FlattenOf
  <1>6. QED
    BY <1>1, <1>2, <1>4, <1>5

LEMMA HitsIsSeq ==
    ASSUME NEW token
    PROVE  IsSeq(HitsOf(token))
  <1>1. ASSUME NEW x PROVE IsSeq(<<x>>)
    <2>1. <<x>> \in Seq({x})
      OBVIOUS
    <2>2. QED
      BY <2>1, SeqIsSeq
  <1>2. IsSeq(<<>>)
    <2>1. <<>> \in Seq({})
      OBVIOUS
    <2>2. QED
      BY <2>1, SeqIsSeq
  <1>4. ASSUME NEW x, NEW y, NEW z PROVE IsSeq(<<x, y, z>>)
    <2>1. <<x, y, z>> \in Seq({x, y, z})
      OBVIOUS
    <2>2. QED
      BY <2>1, SeqIsSeq
  <1>5. CASE token[1] = "figure"
    <2> DEFINE kind == KindOf(token[4], token[5])
               hit == Hit(token[2], token[3] + OrderOf(token[5]), kind,
                          token[5] \in {"thousand", "k", "million", "bn", "billion"})
    <2>1. HitsOf(token) = IF kind = "plain" /\ token[3] >= MaxPlainDigits THEN <<>> ELSE <<hit>>
      BY <1>5 DEF HitsOf
    <2> HIDE DEF kind, hit
    <2>2. QED
      BY <1>1, <1>2, <2>1
  <1>6. CASE token[1] = "date" /\ token[5]
    <2>1. HitsOf(token) = <<Plain(token[4]), Plain(token[3]), Plain(token[2])>>
      BY <1>6 DEF HitsOf
    <2>2. QED
      BY <1>4, <2>1
  <1>7. CASE token[1] = "date" /\ ~token[5]
    <2> DEFINE a == IF token[2] = 0 THEN <<>> ELSE <<Plain(token[2])>>
               b == IF token[4] = 0 THEN <<>> ELSE <<Plain(token[4])>>
    <2>1. HitsOf(token) = a \o b
      BY <1>7 DEF HitsOf
    <2> DEFINE S == {Plain(token[2]), Plain(token[4])}
    <2>2. <<>> \in Seq(S) /\ <<Plain(token[2])>> \in Seq(S) /\ <<Plain(token[4])>> \in Seq(S)
      OBVIOUS
    <2> HIDE DEF S
    <2>3. a \in Seq(S) /\ b \in Seq(S)
      BY <2>2
    <2> HIDE DEF a, b
    <2>5. HitsOf(token) \in Seq(S)
      BY <2>1, <2>3
    <2>4. QED
      BY <2>5, SeqIsSeq
  <1>8. CASE token[1] \notin {"figure", "date"}
    <2>1. HitsOf(token) = <<>>
      BY <1>8 DEF HitsOf
    <2>2. QED
      BY <1>2, <2>1
  <1>9. QED
    BY <1>5, <1>6, <1>7, <1>8

LEMMA DistinctOf ==
    ASSUME NEW s, IsSeq(s), NEW keys
    PROVE  /\ IsSeq(Distinct(s, keys)) /\ ToSet(Distinct(s, keys)) \subseteq ToSet(s)
           /\ \E at : Picks(Distinct(s, keys), s, keys, Len(s), at)
  <1>1. s \in Seq(ToSet(s))
    BY DEF IsSeq
  <1>2. Distinct(s, keys) \in Seq(ToSet(s)) /\ \E at : Picks(Distinct(s, keys), s, keys, Len(s), at)
    BY <1>1, DistinctPicks
  <1>3. QED
    BY <1>2, SeqIsSeq

LEMMA NumbersOf ==
    ASSUME NEW text, IsSeq(text)
    PROVE  /\ IsSeq(Numbers(text))
           /\ \A i, j \in DOMAIN Numbers(text) :
                 HitKey(Numbers(text)[i]) = HitKey(Numbers(text)[j]) => i = j
           /\ \A h \in ToSet(Numbers(text)) : \E t \in ToSet(text) : h \in ToSet(HitsOf(t))
           /\ \A t \in ToSet(text) : \A h \in ToSet(HitsOf(t)) :
                 \E g \in ToSet(Numbers(text)) : HitKey(g) = HitKey(h)
  <1> DEFINE F == [i \in DOMAIN text |-> HitsOf(text[i])]
             hits == FlattenSeq(F)
             keys == [i \in DOMAIN hits |-> HitKey(hits[i])]
             r == Distinct(hits, keys)
  <1>1. DOMAIN text = 1..Len(text) /\ Len(text) \in Nat
    BY SeqIsSeq DEF IsSeq
  <1>2. \A i \in DOMAIN text : IsSeq(F[i]) /\ F[i] = HitsOf(text[i])
    BY HitsIsSeq
  <1>3. F = [i \in 1..Len(text) |-> F[i]]
    BY <1>1
  <1>4. Numbers(text) = r
    BY DEF Numbers
  <1> HIDE DEF F
  <1>5. IsSeq(hits) /\ ToSet(hits) = UNION {ToSet(F[i]) : i \in 1..Len(text)}
    BY <1>1, <1>2, <1>3, FlattenOf
  <1>6. \A h \in ToSet(hits) : \E t \in ToSet(text) : h \in ToSet(HitsOf(t))
    BY <1>1, <1>2, <1>5 DEF ToSet
  <1>7. \A t \in ToSet(text) : ToSet(HitsOf(t)) \subseteq ToSet(hits)
    <2>1. \A t \in ToSet(text) : \E i \in DOMAIN text : t = text[i]
      BY DEF ToSet
    <2>2. QED
      BY <1>1, <1>2, <1>5, <2>1
  <1> HIDE DEF hits
  <1>8. DOMAIN hits = 1..Len(hits)
    BY <1>5, SeqIsSeq DEF IsSeq
  <1>9. \A i \in 1..Len(hits) : keys[i] = HitKey(hits[i])
    BY <1>8
  <1> HIDE DEF keys
  <1>10. IsSeq(r) /\ ToSet(r) \subseteq ToSet(hits) /\ \E at : Picks(r, hits, keys, Len(hits), at)
    BY <1>5, DistinctOf
  <1>11. PICK at : Picks(r, hits, keys, Len(hits), at)
    BY <1>10
  <1> HIDE DEF r
  <1>12. DOMAIN r = 1..Len(r)
    BY <1>10, SeqIsSeq DEF IsSeq
  <1>13. \A k \in DOMAIN r : at[k] \in 1..Len(hits) /\ HitKey(r[k]) = keys[at[k]]
    BY <1>9, <1>11, <1>12 DEF Picks
  <1>14. \A i, j \in DOMAIN r : HitKey(r[i]) = HitKey(r[j]) => i = j
    BY <1>11, <1>12, <1>13 DEF Picks
  <1>15. ASSUME NEW h \in ToSet(hits) PROVE \E g \in ToSet(r) : HitKey(g) = HitKey(h)
    <2>1. PICK i \in 1..Len(hits) : h = hits[i]
      BY <1>8 DEF ToSet
    <2>2. PICK k \in 1..Len(r) : keys[at[k]] = keys[i]
      BY <1>11 DEF Picks
    <2>3. r[k] \in ToSet(r) /\ HitKey(r[k]) = HitKey(h)
      BY <1>9, <1>12, <1>13, <2>1, <2>2 DEF ToSet
    <2>4. QED
      BY <2>3
  <1>16. QED
    BY <1>4, <1>6, <1>7, <1>10, <1>14, <1>15

LEMMA DatesOfText ==
    ASSUME NEW text, IsSeq(text)
    PROVE  /\ IsSeq(Dates(text))
           /\ \A i, j \in DOMAIN Dates(text) :
                 DateKey(Dates(text)[i]) = DateKey(Dates(text)[j]) => i = j
           /\ \A t \in ToSet(text) : t[1] = "date" =>
                 \E d \in ToSet(Dates(text)) : DateKey(d) = DateKey(t)
           /\ \A d \in ToSet(Dates(text)) : d \in ToSet(text) /\ d[1] = "date"
  <1> DEFINE F == [i \in DOMAIN text |-> DatesOf(text[i])]
             dates == FlattenSeq(F)
             keys == [i \in DOMAIN dates |-> DateKey(dates[i])]
             r == Distinct(dates, keys)
  <1>1. DOMAIN text = 1..Len(text) /\ Len(text) \in Nat
    BY SeqIsSeq DEF IsSeq
  <1>2. ASSUME NEW i \in DOMAIN text
        PROVE  /\ IsSeq(F[i])
               /\ ToSet(F[i]) = IF text[i][1] = "date" THEN {text[i]} ELSE {}
    <2> DEFINE t == text[i]  S == IF t[1] = "date" THEN {t} ELSE {}
    <2>1. F[i] = IF t[1] = "date" THEN <<t>> ELSE <<>>
      BY DEF DatesOf
    <2> HIDE DEF t, F
    <2>2. F[i] \in Seq(S) /\ ToSet(F[i]) = S
      <3>1. CASE t[1] = "date"
        <4>1. F[i] = <<t>> /\ S = {t}
          BY <2>1, <3>1
        <4> HIDE DEF S
        <4>2. <<t>> \in Seq({t}) /\ ToSet(<<t>>) = {t}
          BY DEF ToSet
        <4>3. QED
          BY <4>1, <4>2
      <3>2. CASE t[1] # "date"
        <4>1. F[i] = <<>> /\ S = {}
          BY <2>1, <3>2
        <4> HIDE DEF S
        <4>2. <<>> \in Seq({}) /\ ToSet(<<>>) = {}
          BY DEF ToSet
        <4>3. QED
          BY <4>1, <4>2
      <3>3. QED
        BY <3>1, <3>2
    <2> HIDE DEF S
    <2>3. IsSeq(F[i])
      BY <2>2, SeqIsSeq
    <2>4. QED
      BY <2>2, <2>3 DEF S, t
  <1>3. F = [i \in 1..Len(text) |-> F[i]]
    BY <1>1
  <1>4. Dates(text) = r
    BY DEF Dates
  <1> HIDE DEF F
  <1>5. IsSeq(dates) /\ ToSet(dates) = UNION {ToSet(F[i]) : i \in 1..Len(text)}
    BY <1>1, <1>2, <1>3, FlattenOf
  <1>6. \A t : t \in ToSet(dates) <=> t \in ToSet(text) /\ t[1] = "date"
    <2>1. \A t : t \in ToSet(dates) <=> \E i \in 1..Len(text) : t \in ToSet(F[i])
      BY <1>5
    <2>2. \A t : t \in ToSet(text) <=> \E i \in 1..Len(text) : t = text[i]
      BY <1>1 DEF ToSet
    <2>3. \A i \in 1..Len(text) : \A t : t \in ToSet(F[i]) <=> t = text[i] /\ t[1] = "date"
      BY <1>1, <1>2
    <2>4. QED
      BY <2>1, <2>2, <2>3
  <1> HIDE DEF dates
  <1>8. DOMAIN dates = 1..Len(dates)
    BY <1>5, SeqIsSeq DEF IsSeq
  <1>9. \A i \in 1..Len(dates) : keys[i] = DateKey(dates[i])
    BY <1>8
  <1> HIDE DEF keys
  <1>10. IsSeq(r) /\ ToSet(r) \subseteq ToSet(dates) /\ \E at : Picks(r, dates, keys, Len(dates), at)
    BY <1>5, DistinctOf
  <1>11. PICK at : Picks(r, dates, keys, Len(dates), at)
    BY <1>10
  <1> HIDE DEF r
  <1>12. DOMAIN r = 1..Len(r)
    BY <1>10, SeqIsSeq DEF IsSeq
  <1>13. \A k \in DOMAIN r : at[k] \in 1..Len(dates) /\ DateKey(r[k]) = keys[at[k]]
    BY <1>9, <1>11, <1>12 DEF Picks
  <1>14. \A i, j \in DOMAIN r : DateKey(r[i]) = DateKey(r[j]) => i = j
    BY <1>11, <1>12, <1>13 DEF Picks
  <1>15. ASSUME NEW t \in ToSet(dates) PROVE \E d \in ToSet(r) : DateKey(d) = DateKey(t)
    <2>1. PICK i \in 1..Len(dates) : t = dates[i]
      BY <1>8 DEF ToSet
    <2>2. PICK k \in 1..Len(r) : keys[at[k]] = keys[i]
      BY <1>11 DEF Picks
    <2>3. r[k] \in ToSet(r) /\ DateKey(r[k]) = DateKey(t)
      BY <1>9, <1>12, <1>13, <2>1, <2>2 DEF ToSet
    <2>4. QED
      BY <2>3
  <1>16. QED
    BY <1>4, <1>6, <1>10, <1>14, <1>15

-----------------------------------------------------------------------------
LEMMA TokensOfFacts ==
    ASSUME NEW list \in Seq(STRING \X Seq(Words))
    PROVE  /\ IsSeq(TokensOf(list)) /\ ToSet(TokensOf(list)) \subseteq Words
           /\ \A t : t \in ToSet(TokensOf(list)) <=> \E f \in ToSet(list) : t \in ToSet(f[2])
  <1> DEFINE F == [i \in DOMAIN list |-> list[i][2]]
  <1>1. DOMAIN list = 1..Len(list) /\ Len(list) \in Nat
    OBVIOUS
  <1>2. \A i \in DOMAIN list : F[i] = list[i][2] /\ list[i][2] \in Seq(Words)
    OBVIOUS
  <1>3. F = [i \in 1..Len(list) |-> F[i]]
    BY <1>1
  <1>4. TokensOf(list) = FlattenSeq(F)
    BY DEF TokensOf
  <1> HIDE DEF F
  <1>5. \A i \in 1..Len(list) : IsSeq(F[i]) /\ ToSet(F[i]) \subseteq Words
    BY <1>1, <1>2, SeqIsSeq
  <1>6. IsSeq(FlattenSeq(F)) /\ ToSet(FlattenSeq(F)) = UNION {ToSet(F[i]) : i \in 1..Len(list)}
    BY <1>1, <1>3, <1>5, FlattenOf
  <1>7. ToSet(FlattenSeq(F)) \subseteq Words
    BY <1>5, <1>6
  <1>8. \A f : f \in ToSet(list) <=> \E i \in 1..Len(list) : f = list[i]
    BY <1>1 DEF ToSet
  <1>9. \A t : t \in ToSet(FlattenSeq(F)) <=> \E i \in 1..Len(list) : t \in ToSet(list[i][2])
    BY <1>1, <1>2, <1>6
  <1>10. QED
    BY <1>4, <1>6, <1>7, <1>8, <1>9

LEMMA NameSeqs ==
    ASSUME NEW tokens, IsSeq(tokens)
    PROVE  LET F == [i \in DOMAIN tokens |-> IF tokens[i][1] = "name" THEN <<tokens[i][2]>> ELSE <<>>] IN
           /\ IsSeq(FlattenSeq(F))
           /\ \A name \in ToSet(FlattenSeq(F)) :
                 \E t \in ToSet(tokens) : t[1] = "name" /\ name = t[2]
  <1> DEFINE F == [i \in DOMAIN tokens |-> IF tokens[i][1] = "name" THEN <<tokens[i][2]>> ELSE <<>>]
  <1>1. DOMAIN tokens = 1..Len(tokens) /\ Len(tokens) \in Nat
    BY SeqIsSeq DEF IsSeq
  <1>2. F = [i \in 1..Len(tokens) |-> F[i]]
    BY <1>1
  <1>3. ASSUME NEW i \in 1..Len(tokens)
        PROVE  /\ IsSeq(F[i])
               /\ \A name \in ToSet(F[i]) : tokens[i][1] = "name" /\ name = tokens[i][2]
    <2>1. CASE tokens[i][1] = "name"
      <3>1. F[i] = <<tokens[i][2]>>
        BY <1>1, <2>1
      <3> HIDE DEF F
      <3>2. QED
        BY <2>1, <3>1, SingleIsSeq
    <2>2. CASE tokens[i][1] # "name"
      <3>1. F[i] = <<>>
        BY <1>1, <2>2
      <3> HIDE DEF F
      <3>2. QED
        BY <3>1, EmptyIsSeq
    <2>3. QED
      BY <2>1, <2>2
  <1> HIDE DEF F
  <1>4. IsSeq(FlattenSeq(F)) /\ ToSet(FlattenSeq(F)) = UNION {ToSet(F[i]) : i \in 1..Len(tokens)}
    BY <1>1, <1>2, <1>3, FlattenOf
  <1>5. \A i \in 1..Len(tokens) : tokens[i] \in ToSet(tokens)
    BY <1>1 DEF ToSet
  <1>6. \A name \in ToSet(FlattenSeq(F)) :
           \E t \in ToSet(tokens) : t[1] = "name" /\ name = t[2]
    BY <1>3, <1>4, <1>5
  <1>7. QED
    BY <1>4, <1>6 DEF F

LEMMA WhoOfFacts ==
    ASSUME NEW list \in Seq(STRING \X Seq(Words))
    PROVE  /\ IsSeq(WhoOf(list))
           /\ \A name \in ToSet(WhoOf(list)) :
                 \E t \in ToSet(TokensOf(list)) : t[1] = "name" /\ name = t[2]
  <1> DEFINE F == [i \in DOMAIN list |-> IF list[i][1] = "who" THEN list[i][2] ELSE <<>>]
             tokens == FlattenSeq(F)
  <1>1. DOMAIN list = 1..Len(list) /\ Len(list) \in Nat
    OBVIOUS
  <1>2. ASSUME NEW i \in 1..Len(list)
        PROVE  IsSeq(F[i]) /\ \A t \in ToSet(F[i]) : t \in ToSet(TokensOf(list))
    <2>1. list[i][2] \in Seq(Words)
      OBVIOUS
    <2>2. ToSet(list[i][2]) \subseteq ToSet(TokensOf(list))
      <3>1. list[i] \in ToSet(list)
        BY <1>1 DEF ToSet
      <3>2. QED
        BY <3>1, TokensOfFacts
    <2>3. F[i] = IF list[i][1] = "who" THEN list[i][2] ELSE <<>>
      BY <1>1
    <2>6. IsSeq(list[i][2])
      BY <2>1, SeqIsSeq
    <2> HIDE DEF F
    <2>7. QED
      BY <2>2, <2>3, <2>6, EmptyIsSeq
  <1>3. F = [i \in 1..Len(list) |-> F[i]]
    BY <1>1
  <1>4. WhoOf(list) = FlattenSeq([i \in DOMAIN tokens |-> IF tokens[i][1] = "name" THEN <<tokens[i][2]>> ELSE <<>>])
    BY DEF WhoOf
  <1> HIDE DEF F
  <1>5. IsSeq(tokens) /\ ToSet(tokens) = UNION {ToSet(F[i]) : i \in 1..Len(list)}
    BY <1>1, <1>2, <1>3, FlattenOf
  <1>6. ToSet(tokens) \subseteq ToSet(TokensOf(list))
    BY <1>2, <1>5
  <1> HIDE DEF tokens
  <1>7. /\ IsSeq(WhoOf(list))
        /\ \A name \in ToSet(WhoOf(list)) : \E t \in ToSet(tokens) : t[1] = "name" /\ name = t[2]
    BY <1>4, <1>5, NameSeqs
  <1>8. QED
    BY <1>6, <1>7

LEMMA NamesOfText ==
    ASSUME NEW text, IsSeq(text), NEW who, IsSeq(who)
    PROVE  /\ IsSeq(Names(text, who))
           /\ \A name \in ToSet(Names(text, who)) :
                 \/ name \in ToSet(who)
                 \/ \E t \in ToSet(text) : t[1] = "name" /\ name = t[2] /\ Len(name) > 1
  <1> DEFINE F == [i \in DOMAIN text |-> NamesOf(text[i])]
             all == who \o FlattenSeq(F)
  <1>1. DOMAIN text = 1..Len(text) /\ Len(text) \in Nat
    BY SeqIsSeq DEF IsSeq
  <1>2. F = [i \in 1..Len(text) |-> F[i]]
    BY <1>1
  <1>3. ASSUME NEW i \in 1..Len(text)
        PROVE  /\ IsSeq(F[i])
               /\ \A name \in ToSet(F[i]) : text[i][1] = "name" /\ name = text[i][2] /\ Len(name) > 1
    <2> DEFINE x == text[i][2]
    <2>1. CASE text[i][1] = "name" /\ Len(x) > 1
      <3>1. F[i] = <<x>>
        BY <1>1, <2>1 DEF NamesOf
      <3> HIDE DEF F
      <3> HIDE DEF x
      <3>2. IsSeq(<<x>>) /\ ToSet(<<x>>) = {x}
        BY SingleIsSeq
      <3>3. QED
        BY <2>1, <3>1, <3>2 DEF x
    <2>2. CASE ~(text[i][1] = "name" /\ Len(x) > 1)
      <3>1. F[i] = <<>>
        BY <1>1, <2>2 DEF NamesOf
      <3> HIDE DEF F
      <3>2. QED
        BY <3>1, EmptyIsSeq
    <2>3. QED
      BY <2>1, <2>2
  <1>4. Names(text, who) = Distinct(all, all)
    BY DEF Names
  <1> HIDE DEF F
  <1>5. IsSeq(FlattenSeq(F)) /\ ToSet(FlattenSeq(F)) = UNION {ToSet(F[i]) : i \in 1..Len(text)}
    BY <1>1, <1>2, <1>3, FlattenOf
  <1>6. \A i \in 1..Len(text) : text[i] \in ToSet(text)
    BY <1>1 DEF ToSet
  <1>7. \A name \in ToSet(FlattenSeq(F)) :
           \E t \in ToSet(text) : t[1] = "name" /\ name = t[2] /\ Len(name) > 1
    BY <1>3, <1>5, <1>6
  <1>8. IsSeq(all) /\ ToSet(all) = ToSet(who) \cup ToSet(FlattenSeq(F))
    <2> DEFINE b == FlattenSeq(F)  S == ToSet(who) \cup ToSet(b)
    <2> HIDE DEF b
    <2>1. IsSeq(b)
      BY <1>5 DEF b
    <2>2. who \in Seq(S) /\ b \in Seq(S)
      BY <2>1, IsSeqIn
    <2> HIDE DEF S
    <2>3. who \o b \in Seq(S) /\ ToSet(who \o b) = ToSet(who) \cup ToSet(b)
      BY <2>2, ConcatSet
    <2>4. IsSeq(who \o b)
      BY <2>3, SeqIsSeq
    <2>5. QED
      BY <2>3, <2>4 DEF b
  <1> HIDE DEF all
  <1>9. IsSeq(Distinct(all, all)) /\ ToSet(Distinct(all, all)) \subseteq ToSet(all)
    BY <1>8, DistinctOf
  <1>10. QED
    BY <1>4, <1>7, <1>8, <1>9

-----------------------------------------------------------------------------
(* The facts that a rewrite must keep are some of the facts *)
LEMMA LeadingType ==
    ASSUME NEW S, NEW list \in Seq(S)
    PROVE  Leading(list) \in Seq(S)
  <1> DEFINE kinds == <<"essence", "who", "when", "number", "what">>
             Of(kind) == {i \in DOMAIN list : list[i][1] = kind}
             F == [k \in DOMAIN kinds |->
                      IF Of(kinds[k]) = {} THEN <<>> ELSE <<list[First(Of(kinds[k]))]>>]
  <1>1. DOMAIN kinds = 1..5
    OBVIOUS
  <1>2. ASSUME NEW k \in 1..5 PROVE F[k] \in Seq(S)
    <2> DEFINE I == Of(kinds[k])
    <2>1. F[k] = IF I = {} THEN <<>> ELSE <<list[First(I)]>>
      BY <1>1
    <2>2. I \subseteq DOMAIN list /\ DOMAIN list \subseteq Nat /\ \A i \in DOMAIN list : list[i] \in S
      OBVIOUS
    <2> HIDE DEF I, F
    <2>3. I # {} => First(I) \in I
      BY <2>2, FirstIsLeast
    <2>4. I # {} => list[First(I)] \in S
      BY <2>2, <2>3
    <2>5. QED
      BY <2>1, <2>4
  <1>3. F \in Seq(Seq(S))
    <2>1. F = [k \in 1..5 |-> F[k]]
      BY <1>1
    <2> DEFINE X == Seq(S)
    <2> HIDE DEF F, kinds, X
    <2>2. \A k \in 1..5 : F[k] \in X
      BY <1>2 DEF X
    <2>3. F \in [1..5 -> X]
      BY <2>1, <2>2
    <2>4. F \in Seq(X)
      <3> DEFINE m == 5
      <3>1. m \in Nat /\ F \in [1..m -> X]
        BY <2>3
      <3> HIDE DEF m
      <3>2. QED
        BY <3>1
    <2>5. QED
      BY <2>4 DEF X
  <1>4. Leading(list) = FlattenSeq(F)
    BY DEF Leading
  <1> HIDE DEF F
  <1>5. QED
    BY <1>3, <1>4, FlattenType

Chooses(list, f) ==
    f = [n \in 0..Len(list) |->
            IF n = 0 THEN IF Len(list) > FactLimit THEN Leading(list) ELSE <<>>
            ELSE IF PassedOver(list[n], f[n - 1], list) THEN f[n - 1] ELSE Append(f[n - 1], list[n])]

LEMMA ChoosesExist ==
    ASSUME NEW S, NEW list \in Seq(S)
    PROVE  \E f \in [0..Len(list) -> Seq(S)] : Chooses(list, f)
  <1> DEFINE N == Len(list)  X == Seq(S)
             b == IF Len(list) > FactLimit THEN Leading(list) ELSE <<>>
             h == [p \in ((0 + 1)..N) \X X |->
                      IF PassedOver(list[p[1]], p[2], list) THEN p[2] ELSE Append(p[2], list[p[1]])]
  <1>0. N \in Int /\ 0 \in Int /\ b \in X /\ \A i \in 1..N : list[i] \in S
    BY LeadingType
  <1>1. \A p \in ((0 + 1)..N) \X X :
            (IF PassedOver(list[p[1]], p[2], list) THEN p[2] ELSE Append(p[2], list[p[1]])) \in X
    OBVIOUS
  <1>2. h \in [((0 + 1)..N) \X X -> X]
    <2> HIDE DEF X, N
    <2>1. QED
      BY <1>1
  <1>3. PICK f \in [0..N -> X] : Recurs(f, 0, N, b, h)
    <2> HIDE DEF N, X, h, b
    <2>1. QED
      BY <1>0, <1>2, Recursion, Zenon
  <1>4. ASSUME NEW n \in 0..N
        PROVE  f[n] = IF n = 0 THEN b
                      ELSE IF PassedOver(list[n], f[n - 1], list) THEN f[n - 1] ELSE Append(f[n - 1], list[n])
    <2>1. f[n] = IF n = 0 THEN b ELSE h[<<n, f[n - 1]>>]
      <3> HIDE DEF b, h, N
      <3>1. QED
        BY <1>3, Zenon DEF Recurs
    <2> HIDE DEF b
    <2>2. ASSUME n # 0
          PROVE  h[<<n, f[n - 1]>>] =
                    IF PassedOver(list[n], f[n - 1], list) THEN f[n - 1] ELSE Append(f[n - 1], list[n])
      <3>1. n - 1 \in 0..N /\ n \in (0 + 1)..N
        BY <1>0, <2>2
      <3>2. <<n, f[n - 1]>> \in ((0 + 1)..N) \X X
        BY <1>3, <3>1
      <3>3. QED
        BY <3>2
    <2>3. QED
      <3> HIDE DEF h
      <3>1. QED
        BY <2>1, <2>2
  <1>5. f = [n \in 0..N |-> f[n]]
    BY <1>3
  <1>6. Chooses(list, f)
    <2>1. f = [n \in 0..N |-> IF n = 0 THEN b
                  ELSE IF PassedOver(list[n], f[n - 1], list) THEN f[n - 1] ELSE Append(f[n - 1], list[n])]
      BY <1>4, <1>5, Zenon
    <2>2. QED
      BY <2>1, Zenon DEF Chooses
  <1>7. QED
    BY <1>3, <1>6

LEMMA ChoosesAt ==
    ASSUME NEW list, NEW f, Chooses(list, f), NEW n \in 0..Len(list)
    PROVE  f[n] = IF n = 0 THEN IF Len(list) > FactLimit THEN Leading(list) ELSE <<>>
                  ELSE IF PassedOver(list[n], f[n - 1], list) THEN f[n - 1] ELSE Append(f[n - 1], list[n])
  BY Zenon DEF Chooses

LEMMA RequiredFactsType ==
    ASSUME NEW S, NEW list \in Seq(S)
    PROVE  RequiredFacts(list) \in Seq(S)
  <1> DEFINE chosen[n \in 0..Len(list)] ==
                IF n = 0 THEN IF Len(list) > FactLimit THEN Leading(list) ELSE <<>>
                ELSE LET before == chosen[n - 1] IN
                     IF PassedOver(list[n], before, list) THEN before ELSE Append(before, list[n])
             all == chosen[Len(list)]
  <1>1. Chooses(list, chosen)
    <2>1. \E f : Chooses(list, f)
      BY ChoosesExist
    <2>2. QED
      BY <2>1 DEF Chooses
  <1>2. RequiredFacts(list) = SubSeq(all, 1, Least(Len(all), FactLimit))
    BY DEF RequiredFacts
  <1> HIDE DEF chosen
  <1> DEFINE T == {n \in 0..Len(list) : chosen[n] \in Seq(S)}
  <1>3. 0 \in T
    <2>1. 0 \in 0..Len(list)
      OBVIOUS
    <2>2. chosen[0] = IF Len(list) > FactLimit THEN Leading(list) ELSE <<>>
      BY <1>1, <2>1, ChoosesAt
    <2>3. Leading(list) \in Seq(S) /\ <<>> \in Seq(S)
      BY LeadingType
    <2>4. QED
      BY <2>1, <2>2, <2>3
  <1>4. ASSUME NEW n \in (0 + 1)..Len(list), n - 1 \in T PROVE n \in T
    <2>1. n \in 0..Len(list) /\ n # 0 /\ list[n] \in S
      OBVIOUS
    <2>2. chosen[n] = IF PassedOver(list[n], chosen[n - 1], list) THEN chosen[n - 1]
                      ELSE Append(chosen[n - 1], list[n])
      BY <1>1, <2>1, ChoosesAt
    <2>3. chosen[n - 1] \in Seq(S)
      BY <1>4
    <2>4. Append(chosen[n - 1], list[n]) \in Seq(S)
      BY <2>1, <2>3
    <2>5. chosen[n] \in Seq(S)
      BY <2>2, <2>3, <2>4, Zenon
    <2>6. QED
      BY <2>1, <2>5
  <1>5. 0 \in Int /\ Len(list) \in Int /\ Len(list) \in 0..Len(list)
    OBVIOUS
  <1> HIDE DEF T
  <1>6. \A n \in 0..Len(list) : n \in T
    BY <1>3, <1>4, <1>5, Climb, Zenon
  <1>7. all \in Seq(S)
    BY <1>5, <1>6 DEF T
  <1> HIDE DEF all
  <1>8. Least(Len(all), FactLimit) \in 0..Len(all)
    BY <1>7, TokenAssumption DEF Least
  <1>9. QED
    BY <1>2, <1>7, <1>8

-----------------------------------------------------------------------------
LEMMA PrefixStep ==
    ASSUME NEW X, NEW p \in Seq(X), NEW i \in 1..Len(p), i # 1
    PROVE  SubSeq(p, 1, i) = SubSeq(p, 1, i - 1) \o <<p[i]>>
  <1>1. /\ SubSeq(p, 1, i) \in Seq(X) /\ Len(SubSeq(p, 1, i)) = i
        /\ SubSeq(p, 1, i - 1) \in Seq(X) /\ Len(SubSeq(p, 1, i - 1)) = i - 1
        /\ <<p[i]>> \in Seq(X)
    OBVIOUS
  <1>2. Len(SubSeq(p, 1, i - 1) \o <<p[i]>>) = i
    BY <1>1
  <1>3. \A k \in 1..i : SubSeq(p, 1, i)[k] = (SubSeq(p, 1, i - 1) \o <<p[i]>>)[k]
    OBVIOUS
  <1>4. QED
    BY <1>1, <1>2, <1>3

LEMMA FirstOnly ==
    ASSUME NEW X, NEW p \in Seq(X), Len(p) # 0
    PROVE  SubSeq(p, 1, 1) = <<p[1]>>
  <1>1. 1 \in 1..Len(p) /\ p[1] \in X
    OBVIOUS
  <1>2. SubSeq(p, 1, 1) \in Seq(X) /\ <<p[1]>> \in Seq(X) /\ Len(SubSeq(p, 1, 1)) = 1
    BY <1>1
  <1>3. SubSeq(p, 1, 1)[1] = p[1]
    BY <1>1
  <1> DEFINE a == SubSeq(p, 1, 1)  b == <<p[1]>>
  <1>4. Len(b) = 1 /\ b[1] = p[1]
    OBVIOUS
  <1> HIDE DEF a, b
  <1>5. a \in Seq(X) /\ b \in Seq(X) /\ Len(a) = 1 /\ a[1] = b[1]
    BY <1>2, <1>3, <1>4 DEF a, b
  <1>6. a = b
    <2>1. \A i \in 1..1 : a[i] = b[i]
      BY <1>5
    <2>2. a = [i \in 1..1 |-> a[i]] /\ b = [i \in 1..1 |-> b[i]]
      BY <1>4, <1>5
    <2>3. QED
      BY <2>1, <2>2
  <1>7. QED
    BY <1>6 DEF a, b

LEMMA FlattenSingles ==
    ASSUME NEW X, NEW p \in Seq(X), Len(p) # 0
    PROVE  LET split == [i \in DOMAIN p |-> <<p[i]>>] IN
           split \in Seq(Seq(X)) /\ FlattenSeq(split) = p
  <1> DEFINE n == Len(p)  Y == Seq(X)
             split == [i \in DOMAIN p |-> <<p[i]>>]
             g == [i \in 1..n |-> SubSeq(p, 1, i)]
  <1>1. n \in Nat /\ n # 0 /\ DOMAIN p = 1..n /\ \A i \in 1..n : p[i] \in X
    OBVIOUS
  <1>2. \A i \in 1..n : <<p[i]>> \in Y
    BY <1>1
  <1>3. split \in Seq(Y) /\ Len(split) = n /\ \A i \in 1..n : split[i] = <<p[i]>>
    <2>1. split = [i \in 1..n |-> <<p[i]>>]
      BY <1>1
    <2> HIDE DEF Y, n, split
    <2>2. split \in [1..n -> Y]
      BY <1>2, <2>1
    <2>3. QED
      BY <1>1, <2>1, <2>2
  <1>4. ASSUME NEW i \in 1..n
        PROVE  g[i] = IF i = 1 THEN split[i] ELSE g[i - 1] \o split[i]
    <2>1. CASE i = 1
      <3>1. SubSeq(p, 1, 1) = <<p[1]>>
        BY FirstOnly
      <3>2. QED
        BY <1>3, <2>1, <3>1
    <2>2. CASE i # 1
      <3>1. SubSeq(p, 1, i) = SubSeq(p, 1, i - 1) \o <<p[i]>>
        BY <2>2, PrefixStep
      <3>2. i - 1 \in 1..n
        BY <1>1, <2>2
      <3>3. g[i - 1] = SubSeq(p, 1, i - 1) /\ g[i] = SubSeq(p, 1, i) /\ split[i] = <<p[i]>>
        BY <1>3, <3>2
      <3> HIDE DEF g, split
      <3>4. QED
        BY <2>2, <3>1, <3>3
    <2>3. QED
      BY <2>1, <2>2
  <1>5. g[n] = p
    BY <1>1
  <1>6. g = [i \in 1..n |-> g[i]]
    OBVIOUS
  <1> HIDE DEF g, split, n
  <1>7. g = [i \in 1..n |-> IF i = 1 THEN split[i] ELSE g[i - 1] \o split[i]]
    BY <1>4, <1>6, Zenon
  <1>8. Steps(split, g)
    BY <1>3, <1>7 DEF Steps
  <1>9. FlattenSeq(split) = g[Len(split)]
    BY <1>1, <1>3, <1>8, FlattenIs
  <1>10. QED
    BY <1>3, <1>5, <1>9 DEF split

LEMMA FlattenOne ==
    ASSUME NEW X, NEW p \in Seq(X)
    PROVE  FlattenSeq(<<p>>) = p
  <1> DEFINE g == [i \in 1..1 |-> p]  ss == <<p>>
  <1>1. ss \in Seq(Seq(X)) /\ Len(ss) = 1 /\ Len(ss) # 0 /\ g[1] = p
    OBVIOUS
  <1>2. Steps(ss, g)
    BY DEF Steps
  <1> HIDE DEF g, ss
  <1>3. FlattenSeq(ss) = g[Len(ss)]
    BY <1>1, <1>2, FlattenIs
  <1>4. QED
    BY <1>1, <1>3 DEF ss

LEMMA SplitFlat ==
    ASSUME NEW W, NEW body \in Seq(Seq(Seq(W)))
    PROVE  /\ SplitParagraphs(body) \in Seq(Seq(Seq(W)))
           /\ FlattenSeq(SplitParagraphs(body)) = FlattenSeq(body)
  <1> DEFINE p == body[1]  X == Seq(W)
  <1>1. CASE ~(Len(body) = 1 /\ Len(p) > 1)
    BY <1>1 DEF SplitParagraphs
  <1>2. CASE Len(body) = 1 /\ Len(p) > 1
    <2> DEFINE split == [i \in DOMAIN p |-> <<p[i]>>]
    <2>1. SplitParagraphs(body) = split
      BY <1>2 DEF SplitParagraphs
    <2>2. p \in Seq(X) /\ body = <<p>> /\ Len(p) # 0
      <3>1. Len(p) # 0
        BY <1>2
      <3>2. body \in Seq(Seq(X)) /\ Len(body) = 1
        BY <1>2
      <3> HIDE DEF X
      <3>3. body[1] \in Seq(X)
        BY <3>2
      <3>4. body = <<body[1]>>
        <4> DEFINE q == body[1]
        <4>1. body = [i \in 1..1 |-> q]
          BY <3>2
        <4> HIDE DEF q
        <4>2. [i \in 1..1 |-> q] = <<q>>
          OBVIOUS
        <4>3. QED
          BY <4>1, <4>2 DEF q
      <3>5. QED
        BY <3>1, <3>3, <3>4
    <2> HIDE DEF p, X
    <2>3. FlattenSeq(body) = p
      BY <2>2, FlattenOne
    <2>4. split \in Seq(Seq(X)) /\ FlattenSeq(split) = p
      BY <2>2, FlattenSingles
    <2>5. QED
      BY <2>1, <2>3, <2>4 DEF X
  <1>3. QED
    BY <1>1, <1>2

LEMMA TextType ==
    ASSUME NEW title \in Seq(Words), NEW body \in Seq(Seq(Seq(Words)))
    PROVE  title \o Flat(body) \in Seq(Words)
  <1>1. FlattenSeq(body) \in Seq(Seq(Words))
    BY FlattenType
  <1>2. Flat(body) \in Seq(Words)
    BY <1>1, FlattenType DEF Flat
  <1>3. QED
    BY <1>2

-----------------------------------------------------------------------------
(* What it means that the filters find nothing critical *)
Fine(findings) == \A f \in findings : f.severity # "critical"

LEMMA NumbersKept ==
    ASSUME NEW req, NEW src, NEW rew, IsSeq(req), IsSeq(src), IsSeq(rew),
           Fine(NumberFindings(req, src, rew))
    PROVE  LET needed == {i \in DOMAIN req : req[i].kind # "plain"} IN
           \E f \in Injection(needed, DOMAIN rew) : \A i \in needed : NumbersMatch(req[i], rew[f[i]])
  <1> DEFINE needed == {i \in DOMAIN req : req[i].kind # "plain"}
             kept == Kept(req, rew)
             taken == Taken(req, rew)
  <1>1. /\ DOMAIN req = 1..Len(req) /\ Len(req) \in Nat
        /\ DOMAIN rew = 1..Len(rew) /\ Len(rew) \in Nat
    BY SeqIsSeq DEF IsSeq
  <1>2. Matching(req, rew) \in SUBSET (Nat \X Nat) /\ Distorting(req, rew) \in SUBSET (Nat \X Nat)
    BY <1>1 DEF Matching, Distorting
  <1>3. Matched(kept) /\ kept \subseteq Matching(req, rew)
    <2>1. Matched({}) /\ {} \in SUBSET (Nat \X Nat)
      BY DEF Matched
    <2>2. kept = Greedy(Len(req), Matching(req, rew), {})
      BY DEF Kept
    <2> HIDE DEF kept
    <2>3. QED
      BY <1>1, <1>2, <2>1, <2>2, GreedyMatches
  <1>4. kept \in SUBSET (Nat \X Nat)
    BY <1>2, <1>3
  <1>5. kept \subseteq taken
    <2> HIDE DEF kept
    <2>1. taken = Greedy(Len(req), Distorting(req, rew), kept)
      BY DEF Taken, kept
    <2>2. QED
      BY <1>1, <1>2, <1>3, <1>4, <2>1, GreedyMatches
  <1>6. ASSUME NEW p \in taken \ kept PROVE FALSE
    <2>1. Finding("distorted", "required", p[1], "critical") \in NumberFindings(req, src, rew)
      BY <1>6 DEF NumberFindings
    <2>2. QED
      BY <2>1 DEF Fine, Finding
  <1>7. ASSUME NEW i \in needed PROVE i \in Lefts(taken)
    <2>1. SUFFICES ASSUME i \notin Lefts(taken) PROVE FALSE
      OBVIOUS
    <2>2. Finding("missing", "figure", i, "critical") \in NumberFindings(req, src, rew)
      BY <1>7, <2>1 DEF NumberFindings
    <2>3. QED
      BY <2>2 DEF Fine, Finding
  <1> HIDE DEF kept, taken
  <1>8. taken = kept
    BY <1>5, <1>6
  <1> DEFINE f == [i \in needed |-> CHOOSE j \in DOMAIN rew : <<i, j>> \in kept]
  <1>9. ASSUME NEW i \in needed
        PROVE  f[i] \in DOMAIN rew /\ <<i, f[i]>> \in kept
    <2>1. PICK p \in kept : p[1] = i
      BY <1>7, <1>8 DEF Lefts
    <2>2. p = <<i, p[2]>> /\ p[2] \in DOMAIN rew
      BY <1>3, <2>1 DEF Matching
    <2>3. \E j \in DOMAIN rew : <<i, j>> \in kept
      BY <2>2
    <2>4. QED
      BY <2>3
  <1>10. f \in [needed -> DOMAIN rew]
    BY <1>9
  <1>11. \A i \in needed : NumbersMatch(req[i], rew[f[i]])
    <2> HIDE DEF f
    <2>1. QED
      BY <1>3, <1>9 DEF Matching
  <1>12. IsInjective(f)
    <2>1. DOMAIN f = needed
      OBVIOUS
    <2> HIDE DEF f, needed
    <2>2. \A i, k \in needed : f[i] = f[k] => i = k
      <3>1. SUFFICES ASSUME NEW i \in needed, NEW k \in needed, f[i] = f[k]
                     PROVE  i = k
        OBVIOUS
      <3>2. <<i, f[i]>> \in kept /\ <<k, f[k]>> \in kept
        BY <1>9
      <3>3. <<i, f[i]>> = <<k, f[k]>>
        BY <1>3, <3>1, <3>2 DEF Matched
      <3>4. QED
        BY <3>3
    <2>3. QED
      BY <2>1, <2>2 DEF IsInjective
  <1>13. f \in Injection(needed, DOMAIN rew)
    <2> HIDE DEF f, needed
    <2>1. QED
      BY <1>10, <1>12 DEF Injection
  <1>14. QED
    BY <1>11, <1>13

LEMMA NumbersGrounded ==
    ASSUME NEW req, NEW src, NEW rew, IsSeq(src), IsSeq(rew),
           Fine(NumberFindings(req, src, rew)), NEW r \in ToSet(rew), r.kind # "plain"
    PROVE  \E s \in ToSet(src) : NumbersMatch(s, r)
  <1>1. PICK j \in DOMAIN rew : r = rew[j]
    BY DEF ToSet
  <1> DEFINE near == {i \in DOMAIN src : NumbersMatch(src[i], r) \/ IsMagnitudeDistortion(src[i], r)}
             f == FirstRelated(src, r)
  <1>2. f # 0
    <2>1. SUFFICES ASSUME f = 0 PROVE FALSE
      OBVIOUS
    <2>2. Finding("invented", "figure", j, "critical") \in NumberFindings(req, src, rew)
      BY <1>1, <2>1 DEF NumberFindings
    <2>3. QED
      BY <2>2 DEF Fine, Finding
  <1>3. NumbersMatch(src[f], r)
    <2>1. SUFFICES ASSUME ~NumbersMatch(src[f], r) PROVE FALSE
      OBVIOUS
    <2>2. Finding("distorted", "figure", j, "critical") \in NumberFindings(req, src, rew)
      BY <1>1, <1>2, <2>1 DEF NumberFindings
    <2>3. QED
      BY <2>2 DEF Fine, Finding
  <1>4. near \subseteq DOMAIN src /\ DOMAIN src \subseteq Nat
    BY SeqIsSeq DEF IsSeq
  <1>5. f = IF near = {} THEN 0 ELSE First(near)
    BY DEF FirstRelated
  <1>6. near # {}
    BY <1>2, <1>5
  <1> HIDE DEF near
  <1>7. f \in near
    BY <1>4, <1>5, <1>6, FirstIsLeast
  <1>8. QED
    BY <1>3, <1>4, <1>7 DEF ToSet

-----------------------------------------------------------------------------
(* A draft carries the findings of its own text, made against the sources  *)
(* and facts it still has, and beside them only those of the semantic      *)
(* review.                                                                 *)
Found(text) == RunFilters(source, facts, text.title, text.body, GetBannedPhrases(banned))
FromReview(text) ==
    /\ draft.title = text.title /\ draft.body = SplitParagraphs(text.body)
    /\ Found(text) \subseteq draft.findings
    /\ \A f \in draft.findings : f \in Found(text) \/ f.filter = "semantic"
Reviewed ==
    /\ topic \in Topics
    /\ stage \in {"new", "rewriting", "drafted", "dead"}
    /\ stage # "drafted" => draft = None
    /\ stage # "new" => source \in Sources(topic) /\ facts \in Registers(topic)
    /\ draft # None => \E text \in Replies(topic, source) : FromReview(text)

LEMMA SemanticOnly ==
    ASSUME NEW answer, NEW f \in SemanticFindings(answer)
    PROVE  f.filter = "semantic"
  BY DEF SemanticFindings, Finding

LEMMA StoreReviewed ==
    ASSUME Reviewed, stage = "rewriting", NEW text \in Replies(topic, source), NEW more,
           \A f \in more : f.filter = "semantic",
           Store(text, Found(text) \cup more), UNCHANGED <<topic, source, facts, banned>>
    PROVE  Reviewed'
  <1>1. /\ topic' = topic /\ source' = source /\ facts' = facts /\ banned' = banned
        /\ stage' = "drafted" /\ draft'.title = text.title
        /\ draft'.body = SplitParagraphs(text.body) /\ draft'.findings = Found(text) \cup more
    BY DEF Store
  <1>2. Found(text)' = Found(text)
    BY <1>1 DEF Found
  <1>3. FromReview(text)'
    BY <1>1, <1>2 DEF FromReview
  <1>4. Replies(topic, source)' = Replies(topic, source)
    BY <1>1
  <1>5. \E t \in Replies(topic, source)' : FromReview(t)'
    BY <1>3, <1>4
  <1>6. QED
    BY <1>1, <1>5 DEF Reviewed

LEMMA StayReviewed ==
    ASSUME Reviewed, UNCHANGED <<topic, source, facts, draft>>,
           \/ UNCHANGED <<stage, banned>>
           \/ stage # "drafted" /\ stage # "new" /\ stage' \in {"rewriting", "dead"}
           \/ stage # "drafted" /\ stage' = stage
    PROVE  Reviewed'
  <1>1. CASE UNCHANGED <<stage, banned>>
    BY <1>1 DEF Reviewed, FromReview, Found
  <1>2. CASE stage # "drafted"
    BY <1>2 DEF Reviewed
  <1>3. QED
    BY <1>1, <1>2

LEMMA NextReviewed ==
    ASSUME Reviewed, [Next]_vars
    PROVE  Reviewed'
  <1>1. CASE Begin
    BY <1>1 DEF Begin, Reviewed, settings
  <1>2. ASSUME NEW text \in Replies(topic, source), Attempt(text) PROVE Reviewed'
    <2> DEFINE same == UNCHANGED <<topic, source, facts, banned>>
    <2>1. stage = "rewriting" /\ same
      BY <1>2 DEF Attempt, story, settings
    <2>2. CASE Retry
      <3>1. stage' \in {"rewriting", "dead"} /\ draft' = draft
        BY <2>1, <2>2 DEF Retry
      <3>2. QED
        BY <2>1, <3>1, StayReviewed
    <2>3. ASSUME NEW more, \A f \in more : f.filter = "semantic", Store(text, Found(text) \cup more)
          PROVE  Reviewed'
      BY <2>1, <2>3, StoreReviewed
    <2>4. CASE Store(text, Found(text))
      <3> DEFINE none == {}
      <3>1. Found(text) \cup none = Found(text)
        OBVIOUS
      <3>2. \A f \in none : f.filter = "semantic"
        OBVIOUS
      <3> HIDE DEF none
      <3>3. Store(text, Found(text) \cup none)
        BY <2>4, <3>1
      <3>4. QED
        BY <2>3, <3>2, <3>3
    <2>5. CASE \E answer \in Answers : Store(text, Found(text) \cup SemanticFindings(answer))
      <3>1. PICK answer \in Answers : Store(text, Found(text) \cup SemanticFindings(answer))
        BY <2>5
      <3>2. \A f \in SemanticFindings(answer) : f.filter = "semantic"
        BY SemanticOnly
      <3>3. QED
        BY <2>3, <3>1, <3>2
    <2>6. \/ Retry \/ Store(text, Found(text))
          \/ \E answer \in Answers : Store(text, Found(text) \cup SemanticFindings(answer))
      BY <1>2 DEF Attempt, Found
    <2>7. QED
      BY <2>2, <2>4, <2>5, <2>6
  <1>3. CASE SwitchGate
    BY <1>3, StayReviewed DEF SwitchGate, story
  <1>4. CASE SaveBannedPhrases
    BY <1>4, StayReviewed DEF SaveBannedPhrases, story
  <1>5. CASE SetOutputLocales
    BY <1>5, StayReviewed DEF SetOutputLocales, story
  <1>6. CASE UNCHANGED vars
    BY <1>6, StayReviewed DEF vars, story, settings
  <1>7. QED
    BY <1>1, <1>2, <1>3, <1>4, <1>5, <1>6 DEF Next

(* The findings of a draft are always those of its own text.               *)
THEOREM ReviewHolds == Spec => []Reviewed
  <1>1. Init => Reviewed
    BY DEF Init, Reviewed
  <1>2. Reviewed /\ [Next]_vars => Reviewed'
    BY NextReviewed
  <1>3. QED
    BY <1>1, <1>2, PTL DEF Spec

-----------------------------------------------------------------------------
(* The draft's text and what it is compared with are sequences of words    *)
LEMMA StoryTypes ==
    ASSUME Reviewed, draft # None
    PROVE  \E text \in Replies(topic, source) :
              /\ FromReview(text) /\ Text = text.title \o Flat(text.body)
              /\ Text \in Seq(Words) /\ source \in Seq(Words)
              /\ facts \in Seq(STRING \X Seq(Words))
  <1>1. topic \in Topics /\ source \in Sources(topic) /\ facts \in Registers(topic)
    BY DEF Reviewed
  <1>2. PICK text \in Replies(topic, source) : FromReview(text)
    BY DEF Reviewed
  <1>3. /\ source \in Seq(Words) /\ facts \in Seq(STRING \X Seq(Words))
        /\ text.title \in Seq(Words) /\ text.body \in Seq(Seq(Seq(Words)))
    BY <1>1, StoryAssumption
  <1>4. FlattenSeq(SplitParagraphs(text.body)) = FlattenSeq(text.body)
    BY <1>3, SplitFlat
  <1>5. Text = text.title \o Flat(text.body)
    BY <1>2, <1>4 DEF Text, FromReview, Flat
  <1>6. text.title \o Flat(text.body) \in Seq(Words)
    BY <1>3, TextType
  <1>7. QED
    BY <1>2, <1>3, <1>5, <1>6

LEMMA CorpusIsSeq ==
    ASSUME facts \in Seq(STRING \X Seq(Words)), source \in Seq(Words)
    PROVE  IsSeq(Corpus)
  <1>1. RequiredFacts(facts) \in Seq(STRING \X Seq(Words))
    BY RequiredFactsType
  <1>2. IsSeq(RequiredText(facts))
    BY <1>1, TokensOfFacts DEF RequiredText
  <1>3. IsSeq(Unquoted(source))
    BY UnquotedIsSeq
  <1>4. QED
    BY <1>2, <1>3 DEF Corpus

(* Filters 1 to 5 find of a draft that is not blocked nothing critical     *)
LEMMA UnblockedFine ==
    ASSUME Reviewed, Unblocked
    PROVE  /\ Fine(NumberFindings(Numbers(Corpus), Numbers(Unquoted(source)), Numbers(Unquoted(Text))))
           /\ Years(Unquoted(Text)) \subseteq Years(Unquoted(source)) \cup Years(Corpus)
           /\ Fine(QuoteFindings(source, Text))
  <1> DEFINE src == Unquoted(source)  rew == Unquoted(Text)
             years == Years(src) \cup Years(Corpus)
             compared == CompareFacts(src, rew, RequiredText(facts), WhoOf(facts)).findings
  <1>1. draft # None /\ CriticalIn(draft.findings) = {}
    <2>1. CriticalIn(draft.findings) # {} => Verdict(draft.findings) = "blocked"
      BY DEF Verdict
    <2>2. QED
      BY <2>1 DEF Unblocked
  <1>2. PICK text \in Replies(topic, source) : FromReview(text) /\ Text = text.title \o Flat(text.body)
    BY <1>1, StoryTypes
  <1>3. Fine(Found(text))
    BY <1>1, <1>2 DEF Fine, FromReview, CriticalIn
  <1>4. compared \subseteq Found(text) /\ QuoteFindings(source, Text) \subseteq Found(text)
    BY <1>2 DEF Found, RunFilters
  <1>5. /\ NumberFindings(Numbers(Corpus), Numbers(src), Numbers(rew)) \subseteq compared
        /\ {Finding("invented", "year", y, "critical") : y \in Years(rew) \ years} \subseteq compared
    BY DEF CompareFacts, Corpus
  <1>6. Years(rew) \subseteq years
    <2>1. SUFFICES ASSUME NEW y \in Years(rew), y \notin years PROVE FALSE
      OBVIOUS
    <2>2. Finding("invented", "year", y, "critical") \in Found(text)
      BY <1>4, <1>5, <2>1
    <2>3. QED
      BY <1>3, <2>2 DEF Fine, Finding
  <1>7. QED
    BY <1>3, <1>4, <1>5, <1>6 DEF Fine

LEMMA QuotesGrounded ==
    ASSUME NEW text, NEW words \in QuotedIn(text), Fine(QuoteFindings(source, text))
    PROVE  Occurs(words, Spoken(source)) \/ IsBilingual(words, source)
  <1>1. PICK i \in DOMAIN text : text[i][1] = "quote" /\ words = text[i][2]
    BY DEF QuotedIn
  <1>2. SUFFICES ASSUME ~Occurs(words, Spoken(source)), ~IsBilingual(words, source)
                 PROVE  FALSE
    OBVIOUS
  <1> DEFINE judged == QuoteJudged(words, source)
  <1>3. BestRatio(words, source) \in {"distorted", "invented"}
    BY <1>2 DEF BestRatio
  <1>4. judged \in {"distorted", "invented"}
    BY <1>2, <1>3 DEF QuoteJudged
  <1> HIDE DEF judged
  <1>5. judged # "ok" /\ judged # "bilingual"
    BY <1>4
  <1>6. Finding("quotes", judged, i, "critical") \in QuoteFindings(source, text)
    BY <1>1, <1>5 DEF QuoteFindings, judged
  <1>7. QED
    BY <1>6 DEF Fine, Finding

-----------------------------------------------------------------------------
(* A draft that is not blocked has a figure of its own for every sum, coin *)
(* amount and percentage that it must keep.                                *)
THEOREM FiguresKept == Spec => []KeptOrBlocked
  <1>1. Reviewed => KeptOrBlocked
    <2>1. SUFFICES ASSUME Reviewed, Unblocked PROVE KeptOrBlocked
      BY DEF KeptOrBlocked
    <2>2. PICK text \in Replies(topic, source) :
             Text \in Seq(Words) /\ source \in Seq(Words) /\ facts \in Seq(STRING \X Seq(Words))
      BY <2>1, StoryTypes DEF Unblocked
    <2>3. IsSeq(Corpus) /\ IsSeq(Unquoted(source)) /\ IsSeq(Unquoted(Text))
      BY <2>2, CorpusIsSeq, UnquotedIsSeq
    <2> DEFINE req == Numbers(Corpus)  src == Numbers(Unquoted(source))  rew == Numbers(Unquoted(Text))
               needed == {i \in DOMAIN req : req[i].kind # "plain"}
    <2>4. IsSeq(req) /\ IsSeq(src) /\ IsSeq(rew)
      BY <2>3, NumbersOf
    <2>5. Fine(NumberFindings(req, src, rew))
      BY <2>1, UnblockedFine
    <2>6. \E f \in Injection(needed, DOMAIN rew) : \A i \in needed : NumbersMatch(req[i], rew[f[i]])
      <3> HIDE DEF req, src, rew
      <3>1. QED
        BY <2>4, <2>5, NumbersKept
    <2>7. QED
      BY <2>6 DEF KeptOrBlocked
  <1>2. QED
    BY <1>1, ReviewHolds, PTL

(* A draft that is not blocked has no sum, no year and no quote that its   *)
(* sources do not have, but for translated quotes.                         *)
THEOREM NothingInvented == Spec => []Grounded
  <1>1. Reviewed => Grounded
    <2>1. SUFFICES ASSUME Reviewed, Unblocked PROVE Grounded
      BY DEF Grounded
    <2>2. PICK text \in Replies(topic, source) :
             Text \in Seq(Words) /\ source \in Seq(Words) /\ facts \in Seq(STRING \X Seq(Words))
      BY <2>1, StoryTypes DEF Unblocked
    <2>3. IsSeq(Unquoted(source)) /\ IsSeq(Unquoted(Text))
      BY <2>2, UnquotedIsSeq
    <2> DEFINE req == Numbers(Corpus)  src == Numbers(Unquoted(source))  rew == Numbers(Unquoted(Text))
    <2>4. IsSeq(src) /\ IsSeq(rew)
      BY <2>3, NumbersOf
    <2>5. /\ Fine(NumberFindings(req, src, rew)) /\ Fine(QuoteFindings(source, Text))
          /\ Years(Unquoted(Text)) \subseteq Years(Unquoted(source)) \cup Years(Corpus)
      BY <2>1, UnblockedFine
    <2>6. \A r \in ToSet(rew) : r.kind = "plain" \/ \E s \in ToSet(src) : NumbersMatch(s, r)
      <3> HIDE DEF req, src, rew
      <3>1. QED
        BY <2>4, <2>5, NumbersGrounded
    <2>7. \A words \in QuotedIn(Text) : Occurs(words, Spoken(source)) \/ IsBilingual(words, source)
      BY <2>5, QuotesGrounded
    <2>8. QED
      BY <2>5, <2>6, <2>7 DEF Grounded
  <1>2. QED
    BY <1>1, ReviewHolds, PTL

-----------------------------------------------------------------------------
(* Where the elements of the left side have partners in the order of the   *)
(* left side, Greedy finds one for each: the n-th takes its own partner or *)
(* an earlier one, and leaves the later ones their own.                    *)
InRow(count, own) ==
    /\ \A i \in 1..count : \E k \in Nat : <<i, k>> \in own
    /\ \A i \in 1..count : \A k, l \in Nat : <<i, k>> \in own /\ <<i, l>> \in own => k = l
    /\ \A i, j \in 1..count : i < j =>
          \E k, l \in Nat : k < l /\ <<i, k>> \in own /\ <<j, l>> \in own
(* All left ones up to n are taken, each by its own partner or before it   *)
Seated(own, n, pairs) ==
    /\ \A i \in 1..n : \E p \in pairs : p[1] = i
    /\ \A p \in pairs : p[1] \in 1..n /\ \A k \in Nat : <<p[1], k>> \in own => p[2] <= k

LEMMA TookSeats ==
    ASSUME NEW count \in Nat, NEW fits \in SUBSET (Nat \X Nat), NEW own \in SUBSET fits, InRow(count, own),
           NEW n \in 1..count, NEW before \in SUBSET (Nat \X Nat), Seated(own, n - 1, before)
    PROVE  Seated(own, n, Took(fits, before, n))
  <1>0. n \in Nat /\ 1..n = 1..(n - 1) \cup {n} /\ 1..(n - 1) \subseteq 1..count /\ n \notin 1..(n - 1)
        /\ \A i \in 1..(n - 1) : i < n
    OBVIOUS
  <1>1. PICK k \in Nat : <<n, k>> \in own
    BY DEF InRow
  <1>2. ASSUME NEW p \in before PROVE p[2] # k
    <2>1. p[1] \in 1..(n - 1) /\ \A l \in Nat : <<p[1], l>> \in own => p[2] <= l
      BY DEF Seated
    <2>2. PICK l \in Nat, m \in Nat : l < m /\ <<p[1], l>> \in own /\ <<n, m>> \in own
      BY <1>0, <2>1 DEF InRow
    <2>3. m = k
      BY <1>1, <2>2 DEF InRow
    <2>4. p[2] \in Nat /\ p[2] <= l
      BY <2>1, <2>2
    <2>5. QED
      BY <2>2, <2>3, <2>4
  <1> DEFINE free == Free(fits, before, n)  j == First(free)
  <1>3. free \subseteq Nat /\ k \in free
    BY <1>1, <1>2, FreeOnes
  <1> HIDE DEF free
  <1>4. j \in Nat /\ j <= k
    BY <1>3, FirstIsLeast
  <1> HIDE DEF j
  <1>5. ~\E p \in before : p[1] = n
    BY <1>0 DEF Seated
  <1>6. Took(fits, before, n) = before \cup {<<n, j>>}
    BY <1>3, <1>5 DEF Took, free, j
  <1>7. \A l \in Nat : <<n, l>> \in own => j <= l
    BY <1>1, <1>4 DEF InRow
  <1>8. \A i \in 1..n : \E p \in before \cup {<<n, j>>} : p[1] = i
    BY <1>0 DEF Seated
  <1>9. ASSUME NEW p \in before \cup {<<n, j>>}
        PROVE  p[1] \in 1..n /\ \A l \in Nat : <<p[1], l>> \in own => p[2] <= l
    <2>1. CASE p \in before
      BY <1>0, <2>1 DEF Seated
    <2>2. CASE p = <<n, j>>
      BY <1>0, <1>7, <2>2
    <2>3. QED
      BY <2>1, <2>2
  <1>10. QED
    BY <1>6, <1>8, <1>9 DEF Seated

LEMMA GreedyInRow ==
    ASSUME NEW count \in Nat, NEW fits \in SUBSET (Nat \X Nat), NEW own \in SUBSET fits, InRow(count, own)
    PROVE  1..count \subseteq Lefts(Greedy(count, fits, {}))
  <1> DEFINE none == {}
  <1>1. none \in SUBSET (Nat \X Nat) /\ Matched(none)
    BY DEF Matched
  <1>2. Seated(own, 0, none)
    BY DEF Seated
  <1> HIDE DEF none
  <1>3. PICK f : Pairs(count, fits, none, f) /\ Greedy(count, fits, none) = f[count]
    BY <1>1, GreedyPairs
  <1> DEFINE T == {n \in 0..count : f[n] \in SUBSET (Nat \X Nat) /\ Seated(own, n, f[n])}
  <1>4. 0 \in T
    <2>1. 0 \in 0..count
      OBVIOUS
    <2>2. f[0] = none
      BY <1>3, <2>1, PairsAt
    <2>3. QED
      BY <1>1, <1>2, <2>1, <2>2
  <1>5. ASSUME NEW n \in (0 + 1)..count, n - 1 \in T PROVE n \in T
    <2>1. n \in 0..count /\ n \in 1..count /\ n \in Nat /\ n # 0
      OBVIOUS
    <2>2. f[n] = Took(fits, f[n - 1], n)
      BY <1>3, <2>1, PairsAt
    <2>3. f[n - 1] \in SUBSET (Nat \X Nat) /\ Seated(own, n - 1, f[n - 1])
      BY <1>5
    <2> DEFINE before == f[n - 1]
    <2> HIDE DEF before
    <2>4. before \in SUBSET (Nat \X Nat) /\ Seated(own, n - 1, before)
      BY <2>3 DEF before
    <2>5. Seated(own, n, Took(fits, before, n)) /\ Took(fits, before, n) \in SUBSET (Nat \X Nat)
      BY <2>1, <2>4, TookSeats, TookType
    <2>6. QED
      BY <2>1, <2>2, <2>5 DEF before
  <1>6. 0 \in Int /\ count \in Int /\ count \in 0..count
    OBVIOUS
  <1> HIDE DEF T
  <1>7. \A n \in 0..count : n \in T
    BY <1>4, <1>5, <1>6, Climb, Zenon
  <1>8. Seated(own, count, Greedy(count, fits, none))
    BY <1>3, <1>6, <1>7 DEF T
  <1>9. QED
    BY <1>8 DEF Seated, Lefts, none

-----------------------------------------------------------------------------
(* Figures with the same key are the same figure *)
SameHit(h, g) == h.m = g.m /\ h.order = g.order
LEMMA SameKey ==
    ASSUME NEW h, NEW g, HitKey(h) = HitKey(g)
    PROVE  SameHit(h, g)
  BY DEF HitKey, SameHit
LEMMA SameHitMatches ==
    ASSUME NEW h, NEW g, SameHit(h, g)
    PROVE  /\ NumbersMatch(h, g)
           /\ \A x : IsMagnitudeDistortion(h, x) => IsMagnitudeDistortion(g, x)
  BY DEF SameHit, NumbersMatch, SameValue, IsMagnitudeDistortion, SameSignificantDigits, Printed

(* A text that has all figures of those required, in their order, and no   *)
(* two of which one may be the distortion of the other, misses none, and   *)
(* none of its own is foreign to it.                                       *)
LEMMA NumbersRepeated ==
    ASSUME NEW req, NEW src, IsSeq(req), IsSeq(src),
           \A h \in ToSet(req) : \E g \in ToSet(src) : HitKey(h) = HitKey(g),
           \A i, j \in DOMAIN src : HitKey(src[i]) = HitKey(src[j]) => i = j,
           InOrder(HitKey, req, src),
           \A i, j \in DOMAIN src : ~IsMagnitudeDistortion(src[i], src[j])
    PROVE  /\ NumberFindings(req, src, src) = {}
           /\ DOMAIN req \subseteq Lefts(Taken(req, src))
  <1>1. /\ DOMAIN req = 1..Len(req) /\ Len(req) \in Nat
        /\ DOMAIN src = 1..Len(src) /\ Len(src) \in Nat
    BY SeqIsSeq DEF IsSeq
  <1>2. \A i \in DOMAIN req : \E k \in DOMAIN src : HitKey(req[i]) = HitKey(src[k])
    BY DEF ToSet
  <1> DEFINE own == {p \in (DOMAIN req) \X (DOMAIN src) : HitKey(req[p[1]]) = HitKey(src[p[2]])}
             fits == Matching(req, src)
             kept == Kept(req, src)
             taken == Taken(req, src)
  <1>3. own \in SUBSET fits
    <2>1. \A p \in own : NumbersMatch(req[p[1]], src[p[2]])
      BY SameKey, SameHitMatches
    <2>2. QED
      BY <2>1 DEF Matching
  <1>4. \A i, k \in Nat : <<i, k>> \in own <=>
           i \in DOMAIN req /\ k \in DOMAIN src /\ HitKey(req[i]) = HitKey(src[k])
    OBVIOUS
  <1> HIDE DEF own
  <1>5. InRow(Len(req), own)
    <2>1. \A i \in 1..Len(req) : \E k \in Nat : <<i, k>> \in own
      BY <1>1, <1>2, <1>4
    <2>2. \A i \in 1..Len(req) : \A k, l \in Nat : <<i, k>> \in own /\ <<i, l>> \in own => k = l
      BY <1>1, <1>4
    <2>3. \A i, j \in 1..Len(req) : i < j =>
             \E k, l \in Nat : k < l /\ <<i, k>> \in own /\ <<j, l>> \in own
      <3>1. SUFFICES ASSUME NEW i \in 1..Len(req), NEW j \in 1..Len(req), i < j
                     PROVE  \E k, l \in Nat : k < l /\ <<i, k>> \in own /\ <<j, l>> \in own
        OBVIOUS
      <3>2. PICK k \in DOMAIN src, l \in DOMAIN src :
               k < l /\ HitKey(req[i]) = HitKey(src[k]) /\ HitKey(req[j]) = HitKey(src[l])
        BY <1>1, <3>1 DEF InOrder
      <3>3. k \in Nat /\ l \in Nat /\ i \in Nat /\ j \in Nat
        BY <1>1
      <3>4. QED
        BY <1>1, <1>4, <3>2, <3>3
    <2>4. QED
      BY <2>1, <2>2, <2>3 DEF InRow
  <1>6. fits \in SUBSET (Nat \X Nat)
    BY <1>1 DEF Matching
  <1>7. 1..Len(req) \subseteq Lefts(kept)
    <2>1. kept = Greedy(Len(req), fits, {})
      BY DEF Kept
    <2> HIDE DEF kept, fits
    <2>2. QED
      BY <1>1, <1>3, <1>5, <1>6, <2>1, GreedyInRow
  <1>8. Matched(kept) /\ kept \in SUBSET (Nat \X Nat)
    <2> DEFINE none == {}
    <2>1. kept = Greedy(Len(req), fits, none) /\ Matched(none) /\ none \in SUBSET (Nat \X Nat)
      BY DEF Kept, Matched
    <2> HIDE DEF kept, fits, none
    <2>2. Matched(kept) /\ kept \subseteq none \cup fits
      BY <1>1, <1>6, <2>1, GreedyMatches
    <2>3. QED
      BY <1>6, <2>2 DEF none
  <1>9. Distorting(req, src) = {}
    <2>1. SUFFICES ASSUME NEW i \in DOMAIN req, NEW j \in DOMAIN src,
                          IsMagnitudeDistortion(req[i], src[j])
                   PROVE  FALSE
      BY DEF Distorting
    <2>2. PICK k \in DOMAIN src : HitKey(req[i]) = HitKey(src[k])
      BY <1>2
    <2>3. IsMagnitudeDistortion(src[k], src[j])
      BY <2>1, <2>2, SameKey, SameHitMatches
    <2>4. QED
      BY <2>3
  <1>10. taken = kept
    <2> HIDE DEF kept
    <2> DEFINE none == {}
    <2>1. taken = Greedy(Len(req), none, kept) /\ none \in SUBSET (Nat \X Nat)
      BY <1>9 DEF Taken, kept
    <2> HIDE DEF taken, none
    <2>2. kept \subseteq taken /\ taken \subseteq kept \cup none
      BY <1>1, <1>8, <2>1, GreedyMatches
    <2>3. QED
      BY <2>2 DEF none
  <1>11. ASSUME NEW n \in DOMAIN src
         PROVE  FirstRelated(src, src[n]) # 0 /\ NumbersMatch(src[FirstRelated(src, src[n])], src[n])
    <2> DEFINE r == src[n]
               near == {i \in DOMAIN src : NumbersMatch(src[i], r) \/ IsMagnitudeDistortion(src[i], r)}
               f == FirstRelated(src, r)
    <2>1. NumbersMatch(r, r)
      BY DEF NumbersMatch, SameValue
    <2>2. n \in near /\ near \subseteq Nat /\ near \subseteq DOMAIN src
      BY <1>1, <2>1
    <2>3. f = First(near)
      BY <2>2 DEF FirstRelated
    <2>4. f \in near
      <3> HIDE DEF near, f
      <3>1. QED
        BY <2>2, <2>3, FirstIsLeast
    <2>5. f \in DOMAIN src /\ ~IsMagnitudeDistortion(src[f], r)
      BY <2>4
    <2>6. f # 0
      BY <1>1, <2>5
    <2>7. QED
      BY <2>4, <2>5, <2>6
  <1> HIDE DEF taken, kept, fits
  <1>12. NumberFindings(req, src, src) = {}
    <2>1. Taken(req, src) \ Kept(req, src) = {} /\ DOMAIN req \ Lefts(Taken(req, src)) = {}
      BY <1>1, <1>7, <1>10 DEF taken, kept
    <2>2. /\ {n \in DOMAIN src : FirstRelated(src, src[n]) = 0 /\ src[n].kind # "plain"} = {}
          /\ {n \in DOMAIN src : LET f == FirstRelated(src, src[n]) IN
                                 f # 0 /\ ~NumbersMatch(src[f], src[n])} = {}
      BY <1>11
    <2>3. QED
      BY <2>1, <2>2 DEF NumberFindings
  <1>13. QED
    BY <1>1, <1>7, <1>10, <1>12 DEF taken

(* The same for dates *)
LEMMA DatesRepeated ==
    ASSUME NEW req, NEW src, NEW years, IsSeq(req), IsSeq(src),
           \A d \in ToSet(req) : \E e \in ToSet(src) : DateKey(d) = DateKey(e),
           \A i, j \in DOMAIN src : DateKey(src[i]) = DateKey(src[j]) => i = j,
           InOrder(DateKey, req, src)
    PROVE  DateFindings(req, src, src, years) = {}
  <1>1. /\ DOMAIN req = 1..Len(req) /\ Len(req) \in Nat
        /\ DOMAIN src = 1..Len(src) /\ Len(src) \in Nat
    BY SeqIsSeq DEF IsSeq
  <1>2. \A i \in DOMAIN req : \E k \in DOMAIN src : DateKey(req[i]) = DateKey(src[k])
    BY DEF ToSet
  <1> DEFINE own == {p \in (DOMAIN req) \X (DOMAIN src) : DateKey(req[p[1]]) = DateKey(src[p[2]])}
             fits == Covering(req, src)
  <1>3. own \in SUBSET fits
    <2>1. ASSUME NEW d, NEW e, DateKey(d) = DateKey(e) PROVE DateCovers(d, e)
      BY <2>1 DEF DateKey, DateCovers
    <2>2. QED
      BY <2>1 DEF Covering
  <1>4. \A i, k \in Nat : <<i, k>> \in own <=>
           i \in DOMAIN req /\ k \in DOMAIN src /\ DateKey(req[i]) = DateKey(src[k])
    OBVIOUS
  <1> HIDE DEF own
  <1>5. InRow(Len(req), own)
    <2>1. \A i \in 1..Len(req) : \E k \in Nat : <<i, k>> \in own
      BY <1>1, <1>2, <1>4
    <2>2. \A i \in 1..Len(req) : \A k, l \in Nat : <<i, k>> \in own /\ <<i, l>> \in own => k = l
      BY <1>1, <1>4
    <2>3. \A i, j \in 1..Len(req) : i < j =>
             \E k, l \in Nat : k < l /\ <<i, k>> \in own /\ <<j, l>> \in own
      <3>1. SUFFICES ASSUME NEW i \in 1..Len(req), NEW j \in 1..Len(req), i < j
                     PROVE  \E k, l \in Nat : k < l /\ <<i, k>> \in own /\ <<j, l>> \in own
        OBVIOUS
      <3>2. PICK k \in DOMAIN src, l \in DOMAIN src :
               k < l /\ DateKey(req[i]) = DateKey(src[k]) /\ DateKey(req[j]) = DateKey(src[l])
        BY <1>1, <3>1 DEF InOrder
      <3>3. k \in Nat /\ l \in Nat /\ i \in Nat /\ j \in Nat
        BY <1>1
      <3>4. QED
        BY <1>1, <1>4, <3>2, <3>3
    <2>4. QED
      BY <2>1, <2>2, <2>3 DEF InRow
  <1>6. fits \in SUBSET (Nat \X Nat)
    BY <1>1 DEF Covering
  <1>7. 1..Len(req) \subseteq Lefts(Greedy(Len(req), fits, {}))
    <2> HIDE DEF fits
    <2>1. QED
      BY <1>1, <1>3, <1>5, <1>6, GreedyInRow
  <1> DEFINE covered(r) == \E s \in ToSet(src) :
                /\ DateCovers(s, r) \/ DateCovers(r, s)
                /\ r[4] # 0 /\ s[4] = 0 => r[4] \in years
  <1>8. ASSUME NEW n \in DOMAIN src PROVE covered(src[n])
    <2>1. src[n] \in ToSet(src)
      BY DEF ToSet
    <2>2. DateCovers(src[n], src[n])
      BY DEF DateCovers
    <2>3. QED
      BY <2>1, <2>2
  <1>9. DOMAIN req \ Lefts(Greedy(Len(req), Covering(req, src), {})) = {}
    BY <1>1, <1>7
  <1>10. {n \in DOMAIN src : ~covered(src[n])} = {}
    BY <1>8
  <1>11. QED
    BY <1>9, <1>10 DEF DateFindings

-----------------------------------------------------------------------------
(* The words a rewrite must keep are some of those of the facts *)
LEMMA RequiredTokens ==
    ASSUME NEW list \in Seq(STRING \X Seq(Words))
    PROVE  IsSeq(RequiredText(list)) /\ ToSet(RequiredText(list)) \subseteq ToSet(TokensOf(list))
  <1> DEFINE S == ToSet(list)  chosen == RequiredFacts(list)
  <1>1. list \in Seq(S) /\ S \subseteq STRING \X Seq(Words)
    BY SeqIsSeq DEF IsSeq
  <1> HIDE DEF S, chosen
  <1>2. chosen \in Seq(S) /\ chosen \in Seq(STRING \X Seq(Words))
    BY <1>1, RequiredFactsType DEF chosen
  <1>3. ToSet(chosen) \subseteq S
    BY <1>2, SeqIsSeq
  <1>4. IsSeq(TokensOf(chosen)) /\ ToSet(TokensOf(chosen)) \subseteq ToSet(TokensOf(list))
    BY <1>2, <1>3, TokensOfFacts DEF S
  <1>5. QED
    BY <1>4 DEF RequiredText, chosen

(* A name that is written is mentioned: its last word is one of the text's *)
LEMMA NamesMentioned ==
    ASSUME NEW text \in Seq(Words), NEW t \in ToSet(Unquoted(text)), t[1] = "name"
    PROVE  Mentioned(t[2], Unquoted(text), <<>>)
  <1>1. t \in Words
    <2>1. \A w \in STRING : t # Word(w)
      BY DEF Word
    <2>2. t \in ToSet(text)
      BY <2>1, UnquotedIsSeq
    <2>3. ToSet(text) \subseteq Words
      BY SeqIsSeq
    <2>4. QED
      BY <2>2, <2>3
  <1> DEFINE name == t[2]
  <1>2. name \in Seq(STRING) /\ name # <<>>
    <2>1. t \in Words /\ t[1] = "name"
      BY <1>1
    <2>2. t[2] # <<>> /\ t[2] \in Seq(STRING)
      BY <2>1, TokenAssumption
    <2>3. QED
      BY <2>2
  <1> HIDE DEF name
  <1>3. Last(name) \in ToSet(name)
    BY <1>2 DEF Last, ToSet
  <1>4. Last(name) \in WordsOf(Unquoted(text))
    BY <1>3 DEF WordsOf, name
  <1>5. SameWord(Last(name), Last(name))
    BY DEF SameWord
  <1>6. QED
    BY <1>4, <1>5 DEF Mentioned, name

(* Everything that is there covers everything *)
LEMMA FullCoverage ==
    ASSUME NEW anchors, NEW n \in Nat, anchors \in SUBSET (1..n), NEW names, IsSeq(names), NEW pairs,
           anchors \subseteq Lefts(pairs)
    PROVE  LET total == Cardinality(anchors) + Len(names)
               matched == Cardinality(anchors \cap Lefts(pairs)) + Len(names) - Cardinality({}) IN
           ~(total >= CoverageMinAnchors /\ 200 * matched < 2 * CoverageFloorPct * total - total + 1)
  <1>1. anchors \cap Lefts(pairs) = anchors
    OBVIOUS
  <1>2. IsFiniteSet(anchors)
    <2>1. IsFiniteSet(1..n)
      BY FS_Interval
    <2>2. QED
      BY <2>1, FS_Subset
  <1>3. Cardinality(anchors) \in Nat /\ Cardinality({}) = 0
    BY <1>2, FS_CardinalityType, FS_EmptySet
  <1>4. Len(names) \in Nat
    BY SeqIsSeq DEF IsSeq
  <1> DEFINE a == Cardinality(anchors)  k == Len(names)
  <1>5. a \in Nat /\ k \in Nat
    BY <1>3, <1>4
  <1> HIDE DEF a, k
  <1>6. ~(a + k >= 3 /\ 200 * (a + k - 0) < 2 * 35 * (a + k) - (a + k) + 1)
    BY <1>5
  <1>7. QED
    BY <1>1, <1>3, <1>6 DEF a, k, CoverageMinAnchors, CoverageFloorPct

LEMMA RepetitionCompared ==
    ASSUME NEW text \in Seq(Words), NEW list \in Seq(STRING \X Seq(Words)),
           NEW corpus, IsSeq(corpus), ToSet(corpus) \subseteq ToSet(Unquoted(text)),
           corpus = IF RequiredText(list) = <<>> THEN Unquoted(text) ELSE RequiredText(list),
           ToSet(TokensOf(list)) \subseteq ToSet(Unquoted(text)),
           InOrder(DateKey, Dates(corpus), Dates(Unquoted(text))),
           InOrder(HitKey, Numbers(corpus), Numbers(Unquoted(text))),
           \A i, j \in DOMAIN Numbers(Unquoted(text)) :
              ~IsMagnitudeDistortion(Numbers(Unquoted(text))[i], Numbers(Unquoted(text))[j]),
           NEW f \in CompareFacts(Unquoted(text), Unquoted(text), RequiredText(list), WhoOf(list)).findings
    PROVE  f.severity # "critical"
  <1> DEFINE all == Unquoted(text)  who == WhoOf(list)
             req == Numbers(corpus)  src == Numbers(all)
             names == Names(corpus, who)  mentions == Names(all, <<>>)
             years == Years(all) \cup Years(corpus)
             lost == {i \in DOMAIN names : ~Mentioned(names[i], all, <<>>)}
             anchors == {i \in DOMAIN req : req[i].kind \in Anchors}
             total == Cardinality(anchors) + Len(names)
             matched == Cardinality(anchors \cap Lefts(Taken(req, src))) + Len(names) - Cardinality(lost)
  <1>1. IsSeq(all)
    BY UnquotedIsSeq
  <1>2. IsSeq(req) /\ IsSeq(src)
    BY <1>1, NumbersOf
  <1>3. \A h \in ToSet(req) : \E g \in ToSet(src) : HitKey(h) = HitKey(g)
    <2>1. SUFFICES ASSUME NEW h \in ToSet(req) PROVE \E g \in ToSet(src) : HitKey(h) = HitKey(g)
      OBVIOUS
    <2>2. PICK t \in ToSet(corpus) : h \in ToSet(HitsOf(t))
      BY <2>1, NumbersOf
    <2>3. \E g \in ToSet(src) : HitKey(g) = HitKey(h)
      BY <1>1, <2>2, NumbersOf
    <2>4. QED
      BY <2>3
  <1>4. NumberFindings(req, src, src) = {} /\ DOMAIN req \subseteq Lefts(Taken(req, src))
    <2>1. \A i, j \in DOMAIN src : HitKey(src[i]) = HitKey(src[j]) => i = j
      BY <1>1, NumbersOf
    <2>2. InOrder(HitKey, req, src) /\ \A i, j \in DOMAIN src : ~IsMagnitudeDistortion(src[i], src[j])
      OBVIOUS
    <2> HIDE DEF req, src
    <2>3. QED
      BY <1>2, <1>3, <2>1, <2>2, NumbersRepeated
  <1>5. DateFindings(Dates(corpus), Dates(all), Dates(all), years) = {}
    <2> DEFINE reqDates == Dates(corpus)  srcDates == Dates(all)
    <2>1. IsSeq(reqDates) /\ IsSeq(srcDates)
      BY <1>1, DatesOfText
    <2>2. \A d \in ToSet(reqDates) : \E e \in ToSet(srcDates) : DateKey(d) = DateKey(e)
      <3>1. SUFFICES ASSUME NEW d \in ToSet(reqDates)
                     PROVE  \E e \in ToSet(srcDates) : DateKey(d) = DateKey(e)
        OBVIOUS
      <3>2. d \in ToSet(all) /\ d[1] = "date"
        BY <3>1, DatesOfText
      <3>3. \E e \in ToSet(srcDates) : DateKey(e) = DateKey(d)
        BY <1>1, <3>2, DatesOfText
      <3>4. QED
        BY <3>3
    <2>3. \A i, j \in DOMAIN srcDates : DateKey(srcDates[i]) = DateKey(srcDates[j]) => i = j
      BY <1>1, DatesOfText
    <2>4. InOrder(DateKey, reqDates, srcDates)
      OBVIOUS
    <2> HIDE DEF reqDates, srcDates, years
    <2>5. DateFindings(reqDates, srcDates, srcDates, years) = {}
      BY <2>1, <2>2, <2>3, <2>4, DatesRepeated
    <2>6. QED
      BY <2>5 DEF reqDates, srcDates
  <1>6. IsSeq(who) /\ IsSeq(names)
    BY WhoOfFacts, NamesOfText
  <1>7. lost = {}
    <2>1. SUFFICES ASSUME NEW name \in ToSet(names) PROVE Mentioned(name, all, <<>>)
      BY DEF ToSet
    <2>2. PICK t \in ToSet(all) : t[1] = "name" /\ name = t[2]
      <3>1. \/ name \in ToSet(who)
            \/ \E t \in ToSet(corpus) : t[1] = "name" /\ name = t[2]
        BY <1>6, <2>1, NamesOfText
      <3>2. name \in ToSet(who) => \E t \in ToSet(TokensOf(list)) : t[1] = "name" /\ name = t[2]
        BY WhoOfFacts
      <3>3. QED
        BY <3>1, <3>2
    <2>3. QED
      BY <2>2, NamesMentioned
  <1>8. DirectionFindings(all, all) = {}
    <2> HIDE DEF all
    <2>1. QED
      BY DEF DirectionFindings
  <1>9. Years(all) \ years = {}
    OBVIOUS
  <1>10. ~(total >= CoverageMinAnchors /\ 200 * matched < 2 * CoverageFloorPct * total - total + 1)
    <2>1. anchors \in SUBSET (1..Len(req)) /\ Len(req) \in Nat
      BY <1>2, SeqIsSeq DEF IsSeq
    <2>2. anchors \subseteq Lefts(Taken(req, src))
      BY <1>4
    <2> DEFINE pairs == Taken(req, src)
    <2> HIDE DEF anchors, names, req, pairs
    <2>3. ~(Cardinality(anchors) + Len(names) >= CoverageMinAnchors
            /\ 200 * (Cardinality(anchors \cap Lefts(pairs)) + Len(names) - Cardinality({}))
               < 2 * CoverageFloorPct * (Cardinality(anchors) + Len(names)) - (Cardinality(anchors) + Len(names)) + 1)
      BY <1>6, <2>1, <2>2, FullCoverage DEF pairs
    <2>4. QED
      BY <1>7, <2>3 DEF pairs
  <1>11. CompareFacts(all, all, RequiredText(list), who).findings =
            UNION {
              NumberFindings(req, src, src),
              DateFindings(Dates(corpus), Dates(all), Dates(all), years),
              {Finding("invented", "year", y, "critical") : y \in Years(all) \ years},
              DirectionFindings(all, all),
              {Finding("missing", "name", i, "critical") : i \in lost},
              {Finding("invented", "name", i, "warning") :
                  i \in {n \in DOMAIN mentions : ~Mentioned(mentions[n], all, who)}},
              IF total >= CoverageMinAnchors /\ 200 * matched < 2 * CoverageFloorPct * total - total + 1
              THEN {Finding("missing", "coverage", 0, "critical")} ELSE {}}
    BY DEF CompareFacts
  <1> DEFINE foreign == {n \in DOMAIN mentions : ~Mentioned(mentions[n], all, who)}
  <1> HIDE DEF all, who, req, src, names, mentions, years, lost, anchors, total, matched
  <1>12. f \in {Finding("invented", "name", i, "warning") : i \in foreign}
    <2>1. f \in CompareFacts(all, all, RequiredText(list), who).findings
      BY DEF all, who
    <2>2. (IF total >= CoverageMinAnchors /\ 200 * matched < 2 * CoverageFloorPct * total - total + 1
           THEN {Finding("missing", "coverage", 0, "critical")} ELSE {}) = {}
      BY <1>10
    <2>3. /\ {Finding("invented", "year", y, "critical") : y \in Years(all) \ years} = {}
          /\ {Finding("missing", "name", i, "critical") : i \in lost} = {}
      BY <1>7, <1>9
    <2>4. QED
      BY <1>4, <1>5, <1>8, <1>11, <2>1, <2>2, <2>3
  <1>13. QED
    BY <1>12 DEF Finding

-----------------------------------------------------------------------------
LEMMA OtherFilters ==
    ASSUME NEW text, NEW catalog, NEW title, NEW body,
           NEW f \in QuoteFindings(source, text) \cup BannedFindings(text, catalog) \cup TitleLeadFindings(title, body),
           f.severity = "critical"
    PROVE  f.filter \in {"quotes", "banned", "semantic"}
  <1>1. CASE f \in QuoteFindings(source, text)
    <2>1. \E what, which, severity : f = Finding("quotes", what, which, severity)
      BY <1>1, Zenon DEF QuoteFindings
    <2>2. QED
      BY <2>1 DEF Finding
  <1>2. CASE f \in BannedFindings(text, catalog)
    BY <1>2 DEF BannedFindings, Finding
  <1>3. CASE f \in TitleLeadFindings(title, body)
    <2>1. f = Finding("title_lead", "repeated", 0, "warning")
      BY <1>3 DEF TitleLeadFindings
    <2>2. QED
      BY <2>1 DEF Finding
  <1>4. QED
    BY <1>1, <1>2, <1>3

(* A draft that repeats its sources word for word is blocked for no fact.  *)
THEOREM RepetitionIsFine == Spec => []RepetitionPasses
  <1>1. Reviewed => RepetitionPasses
    <2> DEFINE all == Unquoted(source)
    <2>1. SUFFICES ASSUME Reviewed, draft # None, Text = source,
                          ToSet(TokensOf(facts)) \subseteq ToSet(all),
                          InOrder(DateKey, Dates(Corpus), Dates(all)),
                          InOrder(HitKey, Numbers(Corpus), Numbers(all)),
                          \A i, j \in DOMAIN Numbers(all) :
                             ~IsMagnitudeDistortion(Numbers(all)[i], Numbers(all)[j]),
                          NEW f \in CriticalIn(draft.findings)
                   PROVE  f.filter \in {"quotes", "banned", "semantic"}
      BY DEF RepetitionPasses
    <2>2. PICK text \in Replies(topic, source) :
             /\ FromReview(text) /\ Text = text.title \o Flat(text.body)
             /\ source \in Seq(Words) /\ facts \in Seq(STRING \X Seq(Words))
      BY <2>1, StoryTypes
    <2>3. IsSeq(Corpus) /\ ToSet(Corpus) \subseteq ToSet(all)
      BY <2>1, <2>2, CorpusIsSeq, RequiredTokens DEF Corpus
    <2>4. f \in draft.findings /\ f.severity = "critical"
      BY <2>1 DEF CriticalIn
    <2>5. CASE f.filter = "semantic"
      BY <2>5
    <2>6. CASE f \in Found(text)
      <3>1. \/ f \in CompareFacts(all, all, RequiredText(facts), WhoOf(facts)).findings
            \/ f \in QuoteFindings(source, source) \cup BannedFindings(source, GetBannedPhrases(banned))
                        \cup TitleLeadFindings(text.title, text.body)
        BY <2>1, <2>2, <2>6 DEF Found, RunFilters
      <3>2. f \notin CompareFacts(all, all, RequiredText(facts), WhoOf(facts)).findings
        <4> DEFINE corpus == Corpus
        <4>1. corpus = IF RequiredText(facts) = <<>> THEN Unquoted(source) ELSE RequiredText(facts)
          BY DEF Corpus
        <4> HIDE DEF corpus
        <4>2. /\ IsSeq(corpus) /\ ToSet(corpus) \subseteq ToSet(Unquoted(source))
              /\ InOrder(DateKey, Dates(corpus), Dates(Unquoted(source)))
              /\ InOrder(HitKey, Numbers(corpus), Numbers(Unquoted(source)))
          BY <2>1, <2>3 DEF corpus
        <4>3. QED
          BY <2>1, <2>2, <2>4, <4>1, <4>2, RepetitionCompared
      <3>3. QED
        BY <2>4, <3>1, <3>2, OtherFilters
    <2>7. QED
      BY <2>2, <2>4, <2>5, <2>6 DEF FromReview
  <1>2. QED
    BY <1>1, ReviewHolds, PTL

-----------------------------------------------------------------------------
(* Lengths are integers, so there is a shortest and a longest of them *)
LEMMA LeftmostIn ==
    ASSUME NEW N \in Nat, N # 0, NEW f \in [1..N -> Int]
    PROVE  Leftmost(f) \in 1..N
  <1> DEFINE Best(n, i) == (\A j \in 1..n : f[i] <= f[j]) /\ (\A j \in 1..(i - 1) : f[i] < f[j])
             T == {n \in 1..N : \E i \in 1..n : Best(n, i)}
  <1>1. 1 \in T
    <2>1. 1 \in 1..N /\ f[1] \in Int
      OBVIOUS
    <2>2. Best(1, 1)
      BY <2>1
    <2>3. QED
      BY <2>1, <2>2
  <1>2. ASSUME NEW n \in (1 + 1)..N, n - 1 \in T PROVE n \in T
    <2>1. PICK i \in 1..(n - 1) : Best(n - 1, i)
      BY <1>2
    <2>2. n \in 1..N /\ f[n] \in Int /\ \A j \in 1..n : f[j] \in Int
      OBVIOUS
    <2>3. CASE f[n] < f[i]
      <3>1. Best(n, n)
        BY <2>1, <2>2, <2>3
      <3>2. QED
        BY <2>2, <3>1
    <2>4. CASE ~(f[n] < f[i])
      <3>1. Best(n, i) /\ i \in 1..n
        BY <2>1, <2>2, <2>4
      <3>2. QED
        BY <2>2, <3>1
    <2>5. QED
      BY <2>3, <2>4
  <1>3. 1 \in Int /\ N \in Int /\ N \in 1..N
    OBVIOUS
  <1> HIDE DEF T
  <1>4. \A n \in 1..N : n \in T
    BY <1>1, <1>2, <1>3, Climb, Zenon
  <1>5. \E i \in 1..N : Best(N, i)
    BY <1>3, <1>4 DEF T
  <1>6. DOMAIN f = 1..N
    OBVIOUS
  <1>7. QED
    BY <1>5, <1>6 DEF Leftmost

Adds(lengths, f) == f = [n \in 0..Len(lengths) |-> IF n = 0 THEN 0 ELSE f[n - 1] + lengths[n]]

LEMMA TotalInt ==
    ASSUME NEW lengths \in Seq(Int)
    PROVE  Total(lengths) \in Int
  <1> DEFINE N == Len(lengths)
             h == [p \in ((0 + 1)..N) \X Int |-> p[2] + lengths[p[1]]]
             sum[n \in 0..Len(lengths)] == IF n = 0 THEN 0 ELSE sum[n - 1] + lengths[n]
  <1>0. N \in Int /\ 0 \in Int /\ N \in 0..N /\ \A i \in 1..N : lengths[i] \in Int
    OBVIOUS
  <1>1. h \in [((0 + 1)..N) \X Int -> Int]
    OBVIOUS
  <1>2. PICK f \in [0..N -> Int] : Recurs(f, 0, N, 0, h)
    <2> HIDE DEF N, h
    <2>1. QED
      BY <1>0, <1>1, Recursion, Zenon
  <1>3. ASSUME NEW n \in 0..N
        PROVE  f[n] = IF n = 0 THEN 0 ELSE f[n - 1] + lengths[n]
    <2>1. f[n] = IF n = 0 THEN 0 ELSE h[<<n, f[n - 1]>>]
      <3> HIDE DEF h, N
      <3>1. QED
        BY <1>2, Zenon DEF Recurs
    <2>2. ASSUME n # 0 PROVE h[<<n, f[n - 1]>>] = f[n - 1] + lengths[n]
      <3>1. n - 1 \in 0..N /\ n \in (0 + 1)..N
        BY <1>0, <2>2
      <3>2. <<n, f[n - 1]>> \in ((0 + 1)..N) \X Int
        BY <1>2, <3>1
      <3>3. QED
        BY <3>2
    <2>3. QED
      <3> HIDE DEF h
      <3>1. QED
        BY <2>1, <2>2
  <1>4. Adds(lengths, f)
    <2>1. f = [n \in 0..N |-> f[n]]
      BY <1>2
    <2>2. f = [n \in 0..N |-> IF n = 0 THEN 0 ELSE f[n - 1] + lengths[n]]
      BY <1>3, <2>1, Zenon
    <2>3. QED
      BY <2>2, Zenon DEF Adds
  <1>5. Adds(lengths, sum)
    BY <1>4 DEF Adds
  <1>6. Total(lengths) = sum[N]
    BY DEF Total
  <1> HIDE DEF sum
  <1>7. \A n \in 0..N : sum[n] = IF n = 0 THEN 0 ELSE sum[n - 1] + lengths[n]
    BY <1>5, Zenon DEF Adds
  <1> DEFINE T == {n \in 0..N : sum[n] \in Int}
  <1>8. 0 \in T
    BY <1>0, <1>7
  <1>9. ASSUME NEW n \in (0 + 1)..N, n - 1 \in T PROVE n \in T
    <2>1. n \in 0..N /\ n # 0 /\ n \in 1..N
      OBVIOUS
    <2>2. sum[n] = sum[n - 1] + lengths[n]
      BY <1>7, <2>1
    <2>3. sum[n - 1] \in Int /\ lengths[n] \in Int
      BY <1>0, <1>9, <2>1
    <2>4. QED
      BY <2>1, <2>2, <2>3
  <1> HIDE DEF T, N
  <1>10. \A n \in 0..N : n \in T
    BY <1>0, <1>8, <1>9, Climb, Zenon
  <1>11. QED
    BY <1>0, <1>6, <1>10 DEF T

LEMMA JoinedInt ==
    ASSUME NEW lengths \in Seq(Int)
    PROVE  Joined(lengths) \in Int
  BY TotalInt DEF Joined

LEMMA IsSeqOf ==
    ASSUME NEW X, NEW s, NEW N \in Nat, s = [i \in 1..N |-> s[i]], \A i \in 1..N : s[i] \in X
    PROVE  s \in Seq(X) /\ Len(s) = N
  <1>1. s \in [1..N -> X]
    OBVIOUS
  <1>2. QED
    BY <1>1

LEMMA LengthsInt ==
    /\ \A s \in Seq(Words) : WordLengths(s) \in Seq(Int) /\ Len(WordLengths(s)) = Len(s) /\ LenSentence(s) \in Int
    /\ \A p \in Seq(Seq(Words)) : /\ SentenceLengths(p) \in Seq(Int) /\ Len(SentenceLengths(p)) = Len(p)
                                  /\ LenParagraph(p) \in Int
  <1>1. ASSUME NEW s \in Seq(Words)
        PROVE  WordLengths(s) \in Seq(Int) /\ Len(WordLengths(s)) = Len(s) /\ LenSentence(s) \in Int
    <2> DEFINE l == WordLengths(s)
    <2>1. l = [i \in 1..Len(s) |-> Letters[s[i]]]
      BY DEF WordLengths
    <2>2. \A i \in 1..Len(s) : Letters[s[i]] \in Int
      BY LettersAssumption
    <2> HIDE DEF l
    <2>3. l = [i \in 1..Len(s) |-> l[i]] /\ \A i \in 1..Len(s) : l[i] \in Int
      BY <2>1, <2>2
    <2>4. l \in Seq(Int) /\ Len(l) = Len(s)
      BY <2>3, IsSeqOf
    <2>5. QED
      BY <2>4, JoinedInt DEF LenSentence, l
  <1>2. ASSUME NEW p \in Seq(Seq(Words))
        PROVE  /\ SentenceLengths(p) \in Seq(Int) /\ Len(SentenceLengths(p)) = Len(p)
               /\ LenParagraph(p) \in Int
    <2> DEFINE l == SentenceLengths(p)
    <2>1. l = [i \in 1..Len(p) |-> LenSentence(p[i])]
      BY DEF SentenceLengths
    <2>2. \A i \in 1..Len(p) : LenSentence(p[i]) \in Int
      BY <1>1
    <2> HIDE DEF l
    <2>3. l = [i \in 1..Len(p) |-> l[i]] /\ \A i \in 1..Len(p) : l[i] \in Int
      BY <2>1, <2>2
    <2>4. l \in Seq(Int) /\ Len(l) = Len(p)
      BY <2>3, IsSeqOf
    <2>5. QED
      BY <2>4, JoinedInt DEF LenParagraph, l
  <1>3. QED
    BY <1>1, <1>2

-----------------------------------------------------------------------------
(* Flattening goes along with concatenation *)
LEMMA FlattenAppend ==
    ASSUME NEW S, NEW ss \in Seq(Seq(S)), NEW s \in Seq(S)
    PROVE  FlattenSeq(Append(ss, s)) = FlattenSeq(ss) \o s
  <1> DEFINE t == Append(ss, s)  N == Len(ss)  X == Seq(S)
  <1>1. CASE N = 0
    <2>1. ss = <<>>
      BY <1>1
    <2>2. FlattenSeq(<<s>>) = s
      BY FlattenOne
    <2>3. Append(<<>>, s) = <<s>> /\ <<>> \o s = s
      OBVIOUS
    <2>4. QED
      BY <2>1, <2>2, <2>3, FlattenEmpty
  <1>2. CASE N # 0
    <2>1. /\ t \in Seq(Seq(S)) /\ Len(t) = N + 1 /\ Len(t) # 0 /\ N \in Nat
          /\ t[N + 1] = s /\ \A i \in 1..N : t[i] = ss[i]
      <3>1. ss \in Seq(X) /\ s \in X
        OBVIOUS
      <3> HIDE DEF X
      <3>2. t \in Seq(X) /\ Len(t) = N + 1 /\ Len(t) # 0 /\ N \in Nat
            /\ t[N + 1] = s /\ \A i \in 1..N : t[i] = ss[i]
        BY <3>1
      <3>3. QED
        BY <3>2 DEF X
    <2> HIDE DEF t, N
    <2>2. PICK g : Steps(t, g)
      BY <2>1, StepsExist
    <2>3. FlattenSeq(t) = g[N + 1]
      BY <2>1, <2>2, FlattenIs
    <2> DEFINE f == [i \in 1..N |-> g[i]]
    <2>4. ASSUME NEW i \in 1..N
          PROVE  f[i] = IF i = 1 THEN ss[i] ELSE f[i - 1] \o ss[i]
      <3>1. i \in 1..Len(t)
        BY <2>1
      <3>2. g[i] = IF i = 1 THEN t[i] ELSE g[i - 1] \o t[i]
        BY <2>2, <3>1, StepsAt
      <3>3. i # 1 => i - 1 \in 1..N
        BY <2>1
      <3>4. t[i] = ss[i]
        BY <2>1
      <3>5. QED
        BY <3>2, <3>3, <3>4
    <2>5. f = [i \in 1..N |-> f[i]]
      OBVIOUS
    <2> HIDE DEF f
    <2>6. f = [i \in 1..N |-> IF i = 1 THEN ss[i] ELSE f[i - 1] \o ss[i]]
      BY <2>4, <2>5, Zenon
    <2>7. Steps(ss, f)
      BY <2>6 DEF Steps, N
    <2>8. FlattenSeq(ss) = f[N]
      BY <1>2, <2>7, FlattenIs DEF N
    <2>9. N \in 1..N /\ N + 1 \in 1..Len(t) /\ N + 1 # 1 /\ (N + 1) - 1 = N
      BY <1>2, <2>1
    <2>10. g[N + 1] = g[N] \o s
      <3>1. g[N + 1] = IF N + 1 = 1 THEN t[N + 1] ELSE g[(N + 1) - 1] \o t[N + 1]
        BY <2>2, <2>9, StepsAt
      <3>2. QED
        BY <2>1, <2>9, <3>1
    <2>11. f[N] = g[N]
      BY <2>9 DEF f
    <2>12. QED
      BY <2>3, <2>8, <2>10, <2>11 DEF t
  <1>3. QED
    BY <1>1, <1>2

LEMMA Associates ==
    ASSUME NEW S, NEW a \in Seq(S), NEW b \in Seq(S), NEW c \in Seq(S)
    PROVE  (a \o b) \o c = a \o (b \o c)
  OBVIOUS

(* A property of the first n elements, from nothing to all *)
LEMMA FirstN ==
    ASSUME NEW S, NEW b \in Seq(S)
    PROVE  /\ SubSeq(b, 1, 0) = <<>> /\ SubSeq(b, 1, Len(b)) = b
           /\ \A n \in 1..Len(b) : /\ SubSeq(b, 1, n - 1) \in Seq(S) /\ b[n] \in S
                                   /\ SubSeq(b, 1, n) = Append(SubSeq(b, 1, n - 1), b[n])
  <1>1. SubSeq(b, 1, 0) = <<>> /\ SubSeq(b, 1, Len(b)) = b
    OBVIOUS
  <1>2. ASSUME NEW n \in 1..Len(b)
        PROVE  /\ SubSeq(b, 1, n - 1) \in Seq(S) /\ b[n] \in S
               /\ SubSeq(b, 1, n) = Append(SubSeq(b, 1, n - 1), b[n])
    OBVIOUS
  <1>3. QED
    BY <1>1, <1>2

LEMMA FlattenConcat ==
    ASSUME NEW S, NEW a \in Seq(Seq(S)), NEW b \in Seq(Seq(S))
    PROVE  FlattenSeq(a \o b) = FlattenSeq(a) \o FlattenSeq(b)
  <1> DEFINE X == Seq(S)  N == Len(b)
             T == {n \in 0..N : FlattenSeq(a \o SubSeq(b, 1, n)) = FlattenSeq(a) \o FlattenSeq(SubSeq(b, 1, n))}
  <1>0. a \in Seq(X) /\ b \in Seq(X) /\ N \in Nat /\ FlattenSeq(a) \in X
    BY FlattenType
  <1>1. 0 \in T
    <2>1. SubSeq(b, 1, 0) = <<>>
      BY <1>0, FirstN
    <2>2. a \o <<>> = a
      OBVIOUS
    <2>3. FlattenSeq(a) \o <<>> = FlattenSeq(a)
      BY <1>0
    <2>4. FlattenSeq(a \o SubSeq(b, 1, 0)) = FlattenSeq(a) \o FlattenSeq(SubSeq(b, 1, 0))
      BY <2>1, <2>2, <2>3, FlattenEmpty, Zenon
    <2>5. 0 \in 0..N
      BY <1>0
    <2>6. QED
      BY <2>4, <2>5
  <1>2. ASSUME NEW n \in (0 + 1)..N, n - 1 \in T PROVE n \in T
    <2> DEFINE c == SubSeq(b, 1, n - 1)  s == b[n]
    <2>1. n \in 1..N /\ n \in 0..N /\ FlattenSeq(a \o c) = FlattenSeq(a) \o FlattenSeq(c)
      BY <1>0, <1>2
    <2>2. c \in Seq(X) /\ s \in X /\ SubSeq(b, 1, n) = Append(c, s)
      <3> HIDE DEF X
      <3>1. QED
        BY <1>0, <2>1, FirstN
    <2> HIDE DEF c, s, N
    <2>3. a \o Append(c, s) = Append(a \o c, s) /\ a \o c \in Seq(X)
      <3> HIDE DEF X
      <3>1. QED
        BY <1>0, <2>2
    <2>4. FlattenSeq(Append(a \o c, s)) = FlattenSeq(a \o c) \o s
      BY <2>2, <2>3, FlattenAppend
    <2>5. FlattenSeq(Append(c, s)) = FlattenSeq(c) \o s
      BY <2>2, FlattenAppend
    <2>6. FlattenSeq(c) \in X /\ s \in X
      BY <2>2, FlattenType
    <2>7. (FlattenSeq(a) \o FlattenSeq(c)) \o s = FlattenSeq(a) \o (FlattenSeq(c) \o s)
      BY <1>0, <2>6, Associates
    <2>8. FlattenSeq(a \o SubSeq(b, 1, n)) = FlattenSeq(a) \o FlattenSeq(SubSeq(b, 1, n))
      BY <2>1, <2>2, <2>3, <2>4, <2>5, <2>7
    <2>9. QED
      BY <2>1, <2>8
  <1>3. 0 \in Int /\ N \in Int /\ N \in 0..N
    BY <1>0
  <1> HIDE DEF T
  <1>4. \A n \in 0..N : n \in T
    BY <1>1, <1>2, <1>3, Climb, Zenon
  <1>5. FlattenSeq(a \o SubSeq(b, 1, N)) = FlattenSeq(a) \o FlattenSeq(SubSeq(b, 1, N))
    BY <1>3, <1>4 DEF T
  <1>6. SubSeq(b, 1, N) = b
    BY <1>0, FirstN
  <1>7. QED
    BY <1>5, <1>6

LEMMA FlatConcat ==
    ASSUME NEW S, NEW a \in Seq(Seq(Seq(S))), NEW b \in Seq(Seq(Seq(S)))
    PROVE  /\ Flat(a \o b) = Flat(a) \o Flat(b)
           /\ Flat(a) \in Seq(S) /\ FlattenSeq(a) \in Seq(Seq(S))
  <1>1. FlattenSeq(a) \in Seq(Seq(S)) /\ FlattenSeq(b) \in Seq(Seq(S))
    BY FlattenType
  <1>2. FlattenSeq(a \o b) = FlattenSeq(a) \o FlattenSeq(b)
    BY FlattenConcat
  <1>3. FlattenSeq(FlattenSeq(a) \o FlattenSeq(b)) = FlattenSeq(FlattenSeq(a)) \o FlattenSeq(FlattenSeq(b))
    BY <1>1, FlattenConcat
  <1>4. QED
    BY <1>1, <1>2, <1>3, FlattenType DEF Flat

-----------------------------------------------------------------------------
(* Words are counted part by part *)
LEMMA CountConcat ==
    ASSUME NEW S, NEW a \in Seq(S), NEW b \in Seq(S), NEW t
    PROVE  Count(t, a \o b) = Count(t, a) + Count(t, b) /\ Count(t, a) \in Nat
  <1> DEFINE A == {i \in DOMAIN a : a[i] = t}
             B == {i \in DOMAIN b : b[i] = t}
             C == {Len(a) + i : i \in B}
             AB == {i \in DOMAIN (a \o b) : (a \o b)[i] = t}
             f == [i \in B |-> Len(a) + i]
  <1>1. /\ DOMAIN a = 1..Len(a) /\ DOMAIN b = 1..Len(b) /\ Len(a) \in Nat /\ Len(b) \in Nat
        /\ DOMAIN (a \o b) = 1..(Len(a) + Len(b))
        /\ \A i \in 1..Len(a) : (a \o b)[i] = a[i]
        /\ \A i \in 1..Len(b) : (a \o b)[Len(a) + i] = b[i]
    OBVIOUS
  <1>2. IsFiniteSet(A) /\ IsFiniteSet(B)
    <2>1. IsFiniteSet(DOMAIN a) /\ IsFiniteSet(DOMAIN b)
      BY <1>1, FS_Interval
    <2>2. QED
      BY <2>1, FS_Subset
  <1>3. AB = A \cup C
    <2>1. ASSUME NEW i \in AB PROVE i \in A \cup C
      <3>1. CASE i \in 1..Len(a)
        BY <1>1, <2>1, <3>1
      <3>2. CASE i \notin 1..Len(a)
        <4>1. i - Len(a) \in 1..Len(b) /\ Len(a) + (i - Len(a)) = i
          BY <1>1, <2>1, <3>2
        <4>2. b[i - Len(a)] = t
          BY <1>1, <2>1, <4>1
        <4>3. i - Len(a) \in B
          BY <1>1, <4>1, <4>2
        <4>4. QED
          BY <4>1, <4>3
      <3>3. QED
        BY <3>1, <3>2
    <2>2. A \subseteq AB
      BY <1>1
    <2>3. C \subseteq AB
      BY <1>1
    <2>4. QED
      BY <2>1, <2>2, <2>3
  <1>4. A \cap C = {}
    BY <1>1
  <1>5. f \in Bijection(B, C)
    <2>1. f \in [B -> C]
      OBVIOUS
    <2>2. \A i, j \in B : f[i] = f[j] => i = j
      BY <1>1
    <2>3. \A k \in C : \E i \in B : f[i] = k
      OBVIOUS
    <2> HIDE DEF f, B, C
    <2>4. QED
      BY <2>1, <2>2, <2>3 DEF Bijection, Injection, Surjection, IsInjective
  <1> HIDE DEF f
  <1>6. IsFiniteSet(C) /\ Cardinality(C) = Cardinality(B)
    <2>1. \E g : g \in Bijection(B, C)
      BY <1>5
    <2> HIDE DEF B, C
    <2>2. QED
      BY <1>2, <2>1, FS_Bijection DEF ExistsBijection
  <1> HIDE DEF A, B, C
  <1>7. Cardinality(A \cup C) = Cardinality(A) + Cardinality(C)
    <2>1. Cardinality(A \cap C) = 0
      BY <1>4, FS_EmptySet
    <2>2. Cardinality(A) \in Nat /\ Cardinality(C) \in Nat
      BY <1>2, <1>6, FS_CardinalityType
    <2>3. Cardinality(A \cup C) = Cardinality(A) + Cardinality(C) - Cardinality(A \cap C)
      BY <1>2, <1>6, FS_Union, Zenon
    <2>4. QED
      BY <2>1, <2>2, <2>3
  <1>8. Cardinality(A) \in Nat
    BY <1>2, FS_CardinalityType
  <1>9. Count(t, a \o b) = Cardinality(AB) /\ Count(t, a) = Cardinality(A) /\ Count(t, b) = Cardinality(B)
    BY DEF Count, A, B
  <1>10. QED
    BY <1>3, <1>6, <1>7, <1>8, <1>9

LEMMA CountOf ==
    ASSUME NEW t
    PROVE  Count(t, <<>>) = 0
  <1>1. {i \in DOMAIN <<>> : <<>>[i] = t} = {}
    OBVIOUS
  <1>2. QED
    BY <1>1, FS_EmptySet DEF Count

-----------------------------------------------------------------------------
(* What GroupIntoN computes step by step *)
Piles(X, count) == [1..count -> [parts : Seq(X), length : Int]]
Deals(parts, lengths, count, f) ==
    f = [n \in 0..Len(parts) |->
            IF n = 0 THEN [g \in 1..count |-> [parts |-> <<>>, length |-> 0]]
            ELSE Deal(f[n - 1], parts[n], lengths[n])]

(* One pile has one part more *)
OneGrows(before, after, part, count) ==
    \E i \in 1..count : /\ after[i].parts = Append(before[i].parts, part)
                        /\ \A j \in 1..count : j # i => after[j].parts = before[j].parts

LEMMA DealTo ==
    ASSUME NEW X, NEW count \in Nat, count # 0, NEW piles \in Piles(X, count),
           NEW part \in X, NEW length \in Int
    PROVE  /\ Deal(piles, part, length) \in Piles(X, count)
           /\ OneGrows(piles, Deal(piles, part, length), part, count)
  <1> DEFINE f == [g \in DOMAIN piles |-> piles[g].length]
             i == Leftmost(f)
             pile == [parts |-> Append(piles[i].parts, part), length |-> piles[i].length + length + 1]
             after == Deal(piles, part, length)
  <1>1. /\ DOMAIN piles = 1..count
        /\ \A g \in 1..count : piles[g].parts \in Seq(X) /\ piles[g].length \in Int
                               /\ piles[g] \in [parts : Seq(X), length : Int]
    BY DEF Piles
  <1>2. f \in [1..count -> Int]
    BY <1>1
  <1>3. i \in 1..count
    <2> HIDE DEF f
    <2>1. QED
      BY <1>2, LeftmostIn
  <1>4. after = [piles EXCEPT ![i] = pile]
    BY DEF Deal
  <1> HIDE DEF f, i, after
  <1>5. pile \in [parts : Seq(X), length : Int]
    BY <1>1, <1>3
  <1>6. pile.parts = Append(piles[i].parts, part)
    OBVIOUS
  <1> HIDE DEF pile
  <1>7. after \in Piles(X, count)
    BY <1>1, <1>3, <1>4, <1>5 DEF Piles
  <1>8. after[i] = pile /\ \A j \in 1..count : j # i => after[j] = piles[j]
    BY <1>1, <1>3, <1>4
  <1>9. QED
    BY <1>3, <1>6, <1>7, <1>8 DEF after, OneGrows

LEMMA DealsExist ==
    ASSUME NEW X, NEW parts \in Seq(X), NEW lengths \in Seq(Int), Len(lengths) = Len(parts),
           NEW count \in Nat, count # 0
    PROVE  \E f : Deals(parts, lengths, count, f)
  <1> DEFINE N == Len(parts)  P == Piles(X, count)
             b == [g \in 1..count |-> [parts |-> <<>>, length |-> 0]]
             h == [p \in ((0 + 1)..N) \X P |-> Deal(p[2], parts[p[1]], lengths[p[1]])]
  <1>0. N \in Int /\ 0 \in Int /\ \A i \in 1..N : parts[i] \in X /\ lengths[i] \in Int
    OBVIOUS
  <1>1. b \in P
    BY DEF Piles
  <1>2. \A n \in (0 + 1)..N : \A piles \in P : Deal(piles, parts[n], lengths[n]) \in P
    <2>1. \A n \in (0 + 1)..N : parts[n] \in X /\ lengths[n] \in Int
      BY <1>0
    <2> HIDE DEF N
    <2>2. QED
      BY <2>1, DealTo
  <1> HIDE DEF P
  <1>3. h \in [((0 + 1)..N) \X P -> P]
    BY <1>2
  <1>4. PICK f \in [0..N -> P] : Recurs(f, 0, N, b, h)
    <2> HIDE DEF N, h, b
    <2>1. QED
      BY <1>0, <1>1, <1>3, Recursion, Zenon
  <1>5. ASSUME NEW n \in 0..N
        PROVE  f[n] = IF n = 0 THEN b ELSE Deal(f[n - 1], parts[n], lengths[n])
    <2>1. f[n] = IF n = 0 THEN b ELSE h[<<n, f[n - 1]>>]
      <3> HIDE DEF b, h, N
      <3>1. QED
        BY <1>4, Zenon DEF Recurs
    <2> HIDE DEF b
    <2>2. ASSUME n # 0 PROVE h[<<n, f[n - 1]>>] = Deal(f[n - 1], parts[n], lengths[n])
      <3>1. n - 1 \in 0..N /\ n \in (0 + 1)..N
        BY <1>0, <2>2
      <3>2. <<n, f[n - 1]>> \in ((0 + 1)..N) \X P
        BY <1>4, <3>1
      <3>3. QED
        BY <3>2
    <2>3. QED
      <3> HIDE DEF h
      <3>1. QED
        BY <2>1, <2>2
  <1>6. f = [n \in 0..N |-> f[n]]
    BY <1>4
  <1>7. Deals(parts, lengths, count, f)
    <2>1. f = [n \in 0..N |-> IF n = 0 THEN b ELSE Deal(f[n - 1], parts[n], lengths[n])]
      BY <1>5, <1>6, Zenon
    <2>2. QED
      BY <2>1, Zenon DEF Deals
  <1>8. QED
    BY <1>7

LEMMA DealsAt ==
    ASSUME NEW parts, NEW lengths, NEW count, NEW f, Deals(parts, lengths, count, f), NEW n \in 0..Len(parts)
    PROVE  f[n] = IF n = 0 THEN [g \in 1..count |-> [parts |-> <<>>, length |-> 0]]
                  ELSE Deal(f[n - 1], parts[n], lengths[n])
  BY Zenon DEF Deals

(* A weight of sequences that is the sum of the weights of their elements, *)
(* and what the piles weigh together                                       *)
Weight(X, w, c) ==
    /\ w \in [Seq(X) -> Nat] /\ c \in [X -> Nat] /\ w[<<>>] = 0
    /\ \A s \in Seq(X), x \in X : w[Append(s, x)] = w[s] + c[x]
Together(w, f, count) == w[f[1]] + w[f[2]] + (IF count = 3 THEN w[f[3]] ELSE 0)
Parts(piles, count) == [g \in 1..count |-> piles[g].parts]

LEMMA PartsType ==
    ASSUME NEW X, NEW count \in Nat, NEW piles \in Piles(X, count)
    PROVE  Parts(piles, count) \in [1..count -> Seq(X)]
  BY DEF Parts, Piles

LEMMA DealWeighs ==
    ASSUME NEW X, NEW w, NEW c, Weight(X, w, c), NEW count \in {2, 3},
           NEW piles \in Piles(X, count), NEW part \in X, NEW length \in Int
    PROVE  Together(w, Parts(Deal(piles, part, length), count), count)
             = Together(w, Parts(piles, count), count) + c[part]
  <1> DEFINE after == Deal(piles, part, length)  a == Parts(after, count)  b == Parts(piles, count)
  <1>1. count \in Nat /\ count # 0
    OBVIOUS
  <1>2. after \in Piles(X, count) /\ OneGrows(piles, after, part, count)
    BY <1>1, DealTo
  <1> HIDE DEF after
  <1>3. PICK i \in 1..count : /\ a[i] = Append(b[i], part)
                              /\ \A j \in 1..count : j # i => a[j] = b[j]
    BY <1>2 DEF Parts, OneGrows
  <1>4. b \in [1..count -> Seq(X)]
    BY <1>1, PartsType
  <1> HIDE DEF a, b
  <1>5. w[a[i]] = w[b[i]] + c[part] /\ \A j \in 1..count : b[j] \in Seq(X) /\ w[b[j]] \in Nat
    BY <1>3, <1>4 DEF Weight
  <1>6. c[part] \in Nat
    BY DEF Weight
  <1>7. \A j \in 1..count : w[a[j]] = IF j = i THEN w[b[j]] + c[part] ELSE w[b[j]]
    BY <1>3, <1>5
  <1>8. Together(w, a, count) = Together(w, b, count) + c[part]
    <2>1. CASE count = 2
      <3>1. 1 \in 1..count /\ 2 \in 1..count /\ i \in {1, 2} /\ count # 3
        BY <2>1
      <3>2. Together(w, a, count) = w[a[1]] + w[a[2]] + 0 /\ Together(w, b, count) = w[b[1]] + w[b[2]] + 0
        BY <3>1 DEF Together
      <3>3. w[b[1]] \in Nat /\ w[b[2]] \in Nat
        BY <1>5, <3>1
      <3>4. /\ w[a[1]] = IF 1 = i THEN w[b[1]] + c[part] ELSE w[b[1]]
            /\ w[a[2]] = IF 2 = i THEN w[b[2]] + c[part] ELSE w[b[2]]
        BY <1>7, <3>1
      <3>5. QED
        BY <1>6, <3>1, <3>2, <3>3, <3>4
    <2>2. CASE count = 3
      <3>1. 1 \in 1..count /\ 2 \in 1..count /\ 3 \in 1..count /\ i \in {1, 2, 3}
        BY <2>2
      <3>2. /\ Together(w, a, count) = w[a[1]] + w[a[2]] + w[a[3]]
            /\ Together(w, b, count) = w[b[1]] + w[b[2]] + w[b[3]]
        BY <2>2 DEF Together
      <3>3. w[b[1]] \in Nat /\ w[b[2]] \in Nat /\ w[b[3]] \in Nat
        BY <1>5, <3>1
      <3>4. /\ w[a[1]] = IF 1 = i THEN w[b[1]] + c[part] ELSE w[b[1]]
            /\ w[a[2]] = IF 2 = i THEN w[b[2]] + c[part] ELSE w[b[2]]
            /\ w[a[3]] = IF 3 = i THEN w[b[3]] + c[part] ELSE w[b[3]]
        BY <1>7, <3>1
      <3>5. QED
        BY <1>6, <3>1, <3>2, <3>3, <3>4
    <2>3. QED
      BY <2>1, <2>2
  <1>9. QED
    BY <1>8 DEF a, b, after

(* The groups weigh together what the parts weigh *)
Few == {2, 3}
LEMMA DealtWeighs ==
    ASSUME NEW X, NEW w, NEW c, Weight(X, w, c), NEW count \in Few,
           NEW parts \in Seq(X), NEW lengths \in Seq(Int), Len(lengths) = Len(parts), Len(parts) > count
    PROVE  /\ GroupIntoN(parts, lengths, count) \in [1..count -> Seq(X)]
           /\ Together(w, GroupIntoN(parts, lengths, count), count) = w[parts]
  <1> DEFINE N == Len(parts)
             groups[n \in 0..Len(parts)] ==
                IF n = 0 THEN [g \in 1..count |-> [parts |-> <<>>, length |-> 0]]
                ELSE Deal(groups[n - 1], parts[n], lengths[n])
             dealt == groups[N]
             b == [g \in 1..count |-> [parts |-> <<>>, length |-> 0]]
             all == GroupIntoN(parts, lengths, count)
  <1>0. /\ count \in Nat /\ count # 0 /\ N \in Nat /\ ~(N <= count) /\ count \in {2, 3}
        /\ \A n \in 1..N : parts[n] \in X /\ lengths[n] \in Int
    BY DEF Few
  <1>1. \E f : Deals(parts, lengths, count, f)
    BY <1>0, DealsExist
  <1>2. Deals(parts, lengths, count, groups)
    BY <1>1 DEF Deals
  <1>3. all = Parts(dealt, count)
    <2>1. all = [g \in 1..count |-> dealt[g].parts]
      BY <1>0 DEF GroupIntoN
    <2>2. QED
      BY <2>1 DEF Parts
  <1> HIDE DEF groups, dealt, all
  <1>4. \A n \in 0..N : groups[n] = IF n = 0 THEN b ELSE Deal(groups[n - 1], parts[n], lengths[n])
    BY <1>2, DealsAt
  <1> DEFINE T == {n \in 0..N : /\ groups[n] \in Piles(X, count)
                                /\ Together(w, Parts(groups[n], count), count) = w[SubSeq(parts, 1, n)]}
  <1>5. 0 \in T
    <2>1. 0 \in 0..N /\ groups[0] = b
      BY <1>0, <1>4
    <2>2. b \in Piles(X, count)
      BY DEF Piles
    <2>3. \A g \in 1..count : Parts(b, count)[g] = <<>>
      BY DEF Parts
    <2>4. w[<<>>] = 0
      BY DEF Weight
    <2>5. SubSeq(parts, 1, 0) = <<>>
      BY FirstN
    <2> DEFINE e == Parts(b, count)
    <2> HIDE DEF b, e
    <2>6. e[1] = <<>> /\ e[2] = <<>> /\ (count = 3 => e[3] = <<>>)
      <3>1. 1 \in 1..count /\ 2 \in 1..count /\ (count = 3 => 3 \in 1..count)
        BY <1>0
      <3>2. QED
        BY <2>3, <3>1 DEF e
    <2>7. Together(w, e, count) = 0
      BY <2>4, <2>6 DEF Together
    <2>8. QED
      BY <2>1, <2>2, <2>4, <2>5, <2>7 DEF e
  <1>6. ASSUME NEW n \in (0 + 1)..N, n - 1 \in T PROVE n \in T
    <2> DEFINE piles == groups[n - 1]  s == SubSeq(parts, 1, n - 1)
    <2>1. n \in 0..N /\ n \in 1..N /\ n # 0
      BY <1>0
    <2>2. groups[n] = Deal(piles, parts[n], lengths[n])
      BY <1>4, <2>1
    <2>3. piles \in Piles(X, count) /\ Together(w, Parts(piles, count), count) = w[s]
      BY <1>6
    <2>4. parts[n] \in X /\ lengths[n] \in Int
      BY <1>0, <2>1
    <2>5. s \in Seq(X) /\ SubSeq(parts, 1, n) = Append(s, parts[n])
      BY <2>1, FirstN
    <2> HIDE DEF piles, s
    <2>6. Deal(piles, parts[n], lengths[n]) \in Piles(X, count)
      BY <1>0, <2>3, <2>4, DealTo
    <2>7. Together(w, Parts(Deal(piles, parts[n], lengths[n]), count), count) = w[s] + c[parts[n]]
      BY <1>0, <2>3, <2>4, DealWeighs
    <2>8. w[Append(s, parts[n])] = w[s] + c[parts[n]]
      BY <2>4, <2>5 DEF Weight
    <2>9. QED
      BY <2>1, <2>2, <2>5, <2>6, <2>7, <2>8
  <1>7. 0 \in Int /\ N \in Int /\ N \in 0..N
    BY <1>0
  <1> HIDE DEF T
  <1>8. \A n \in 0..N : n \in T
    BY <1>5, <1>6, <1>7, Climb, Zenon
  <1>9. /\ dealt \in Piles(X, count)
        /\ Together(w, Parts(dealt, count), count) = w[SubSeq(parts, 1, N)]
    BY <1>7, <1>8 DEF T, dealt
  <1>10. SubSeq(parts, 1, N) = parts
    BY FirstN
  <1>11. Parts(dealt, count) \in [1..count -> Seq(X)]
    BY <1>0, <1>9, PartsType
  <1>12. QED
    BY <1>3, <1>9, <1>10, <1>11 DEF all

-----------------------------------------------------------------------------
LEMMA CountOne ==
    ASSUME NEW t, NEW x
    PROVE  Count(t, <<x>>) = IF x = t THEN 1 ELSE 0
  <1> DEFINE I == {i \in DOMAIN <<x>> : <<x>>[i] = t}
  <1>1. DOMAIN <<x>> = {1} /\ <<x>>[1] = x
    OBVIOUS
  <1>2. CASE x = t
    <2>1. I = {1}
      BY <1>1, <1>2
    <2>2. Cardinality({1}) = 1
      BY FS_Singleton
    <2>3. QED
      BY <1>2, <2>1, <2>2 DEF Count
  <1>3. CASE x # t
    <2>1. I = {}
      BY <1>1, <1>3
    <2>2. QED
      BY <1>3, <2>1, FS_EmptySet DEF Count
  <1>4. QED
    BY <1>2, <1>3

(* How often a sentence says t, and how often a paragraph does *)
InSentence(t) == [s \in Seq(Words) |-> Count(t, s)]
InParagraph(t) == [p \in Seq(Seq(Words)) |-> Count(t, FlattenSeq(p))]

LEMMA CountNat ==
    ASSUME NEW S, NEW s \in Seq(S), NEW t
    PROVE  Count(t, s) \in Nat
  <1>1. s \o <<>> = s /\ <<>> \in Seq(S)
    OBVIOUS
  <1>2. QED
    BY <1>1, CountConcat

LEMMA SentenceWeight ==
    ASSUME NEW t
    PROVE  Weight(Words, InSentence(t), [x \in Words |-> IF x = t THEN 1 ELSE 0])
  <1> DEFINE w == InSentence(t)  c == [x \in Words |-> IF x = t THEN 1 ELSE 0]
  <1>1. w \in [Seq(Words) -> Nat]
    BY CountNat DEF InSentence
  <1>2. c \in [Words -> Nat]
    OBVIOUS
  <1>3. w[<<>>] = 0
    <2>1. <<>> \in Seq(Words)
      OBVIOUS
    <2>2. QED
      BY <2>1, CountOf DEF InSentence
  <1>4. ASSUME NEW s \in Seq(Words), NEW x \in Words
        PROVE  w[Append(s, x)] = w[s] + c[x]
    <2>1. <<x>> \in Seq(Words) /\ s \o <<x>> = Append(s, x) /\ Append(s, x) \in Seq(Words)
      OBVIOUS
    <2>2. Count(t, s \o <<x>>) = Count(t, s) + Count(t, <<x>>)
      BY <2>1, CountConcat
    <2>3. Count(t, <<x>>) = c[x]
      BY CountOne
    <2>4. QED
      BY <2>1, <2>2, <2>3 DEF InSentence
  <1> HIDE DEF w, c
  <1>5. Weight(Words, w, c)
    BY <1>1, <1>2, <1>3, <1>4 DEF Weight
  <1>6. QED
    BY <1>5 DEF w, c

LEMMA ParagraphWeight ==
    ASSUME NEW t
    PROVE  Weight(Seq(Words), InParagraph(t), InSentence(t))
  <1> DEFINE w == InParagraph(t)  c == InSentence(t)  X == Seq(Words)
  <1>1. w \in [Seq(X) -> Nat]
    <2>1. \A p \in Seq(X) : Count(t, FlattenSeq(p)) \in Nat
      BY FlattenType, CountNat
    <2>2. QED
      BY <2>1 DEF InParagraph
  <1>2. c \in [X -> Nat]
    BY CountNat DEF InSentence
  <1>3. w[<<>>] = 0
    <2>1. <<>> \in Seq(X)
      OBVIOUS
    <2>2. QED
      BY <2>1, CountOf, FlattenEmpty DEF InParagraph
  <1>4. ASSUME NEW p \in Seq(X), NEW s \in X
        PROVE  w[Append(p, s)] = w[p] + c[s]
    <2>1. Append(p, s) \in Seq(X)
      <3> HIDE DEF X
      <3>1. QED
        OBVIOUS
    <2>2. FlattenSeq(Append(p, s)) = FlattenSeq(p) \o s /\ FlattenSeq(p) \in Seq(Words)
      BY FlattenAppend, FlattenType
    <2>3. Count(t, FlattenSeq(p) \o s) = Count(t, FlattenSeq(p)) + Count(t, s)
      BY <2>2, CountConcat
    <2>4. w[Append(p, s)] = Count(t, FlattenSeq(Append(p, s))) /\ w[p] = Count(t, FlattenSeq(p))
      BY <2>1 DEF InParagraph
    <2>5. c[s] = Count(t, s)
      BY DEF InSentence
    <2>6. QED
      BY <2>2, <2>3, <2>4, <2>5
  <1> HIDE DEF w, c, X
  <1>5. Weight(X, w, c)
    BY <1>1, <1>2, <1>3, <1>4 DEF Weight
  <1>6. QED
    BY <1>5 DEF w, c, X

LEMMA FlattenFew ==
    ASSUME NEW S, NEW count \in {2, 3}, NEW g \in [1..count -> Seq(S)]
    PROVE  /\ g \in Seq(Seq(S)) /\ Len(g) = count
           /\ FlattenSeq(g) = IF count = 3 THEN (g[1] \o g[2]) \o g[3] ELSE g[1] \o g[2]
  <1> DEFINE X == Seq(S)
  <1>1. g \in Seq(X) /\ Len(g) = count /\ count \in Nat /\ count # 0
    <2>1. count \in Nat /\ count # 0
      OBVIOUS
    <2>2. g = [i \in 1..count |-> g[i]] /\ \A i \in 1..count : g[i] \in X
      OBVIOUS
    <2> HIDE DEF X
    <2>3. g \in Seq(X) /\ Len(g) = count
      BY <2>1, <2>2, IsSeqOf
    <2>4. QED
      BY <2>1, <2>3
  <1>2. PICK f : Steps(g, f)
    BY <1>1, StepsExist
  <1>3. FlattenSeq(g) = f[count]
    BY <1>1, <1>2, FlattenIs
  <1>4. \A i \in 1..count : f[i] = IF i = 1 THEN g[i] ELSE f[i - 1] \o g[i]
    BY <1>1, <1>2, StepsAt
  <1>5. f[1] = g[1] /\ f[2] = f[1] \o g[2]
    <2>1. 1 \in 1..count /\ 2 \in 1..count /\ 2 - 1 = 1 /\ 2 # 1
      BY <1>1
    <2>2. QED
      BY <1>4, <2>1
  <1>6. CASE count = 2
    BY <1>1, <1>3, <1>5, <1>6
  <1>7. CASE count = 3
    <2>1. 3 \in 1..count /\ 3 - 1 = 2 /\ 3 # 1
      BY <1>7
    <2>2. f[3] = f[2] \o g[3]
      BY <1>4, <2>1
    <2>3. QED
      BY <1>1, <1>3, <1>5, <1>7, <2>2
  <1>8. QED
    BY <1>6, <1>7

LEMMA CountFew ==
    ASSUME NEW S, NEW count \in {2, 3}, NEW g \in [1..count -> Seq(S)], NEW t
    PROVE  Count(t, FlattenSeq(g)) = Count(t, g[1]) + Count(t, g[2]) + (IF count = 3 THEN Count(t, g[3]) ELSE 0)
  <1>1. FlattenSeq(g) = IF count = 3 THEN (g[1] \o g[2]) \o g[3] ELSE g[1] \o g[2]
    BY FlattenFew
  <1>2. g[1] \in Seq(S) /\ g[2] \in Seq(S) /\ (count = 3 => g[3] \in Seq(S))
    OBVIOUS
  <1>3. /\ Count(t, g[1] \o g[2]) = Count(t, g[1]) + Count(t, g[2])
        /\ Count(t, g[1]) \in Nat /\ Count(t, g[2]) \in Nat /\ g[1] \o g[2] \in Seq(S)
    BY <1>2, CountConcat, CountNat
  <1>4. CASE count = 3
    <2>1. Count(t, (g[1] \o g[2]) \o g[3]) = Count(t, g[1] \o g[2]) + Count(t, g[3])
      BY <1>2, <1>3, <1>4, CountConcat
    <2>2. QED
      BY <1>1, <1>3, <1>4, <2>1
  <1>5. CASE count = 2
    BY <1>1, <1>3, <1>5
  <1>6. QED
    BY <1>4, <1>5

-----------------------------------------------------------------------------
LEMMA SinglesOf ==
    ASSUME NEW X, NEW p \in Seq(X), Len(p) # 0
    PROVE  LET split == [i \in DOMAIN p |-> <<p[i]>>] IN
           split \in Seq(Seq(X)) /\ Len(split) = Len(p) /\ FlattenSeq(split) = p
  <1> DEFINE split == [i \in DOMAIN p |-> <<p[i]>>]
  <1>1. split \in Seq(Seq(X)) /\ FlattenSeq(split) = p
    BY FlattenSingles
  <1>2. DOMAIN split = 1..Len(p) /\ Len(p) \in Nat
    OBVIOUS
  <1> HIDE DEF split
  <1>3. Len(split) = Len(p)
    BY <1>1, <1>2
  <1>4. QED
    BY <1>1, <1>3 DEF split

(* Grouping the words of a sentence, or the sentences of a paragraph,      *)
(* loses none and says none twice                                          *)
LEMMA GroupedWords ==
    ASSUME NEW s \in Seq(Words), NEW count \in {2, 3}, Len(s) >= count, NEW t
    PROVE  /\ GroupWords(s, count) \in Seq(Seq(Seq(Words))) /\ Len(GroupWords(s, count)) = count
           /\ Count(t, Flat(GroupWords(s, count))) = Count(t, s)
  <1> DEFINE groups == GroupIntoN(s, WordLengths(s), count)
             out == [g \in DOMAIN groups |-> <<groups[g]>>]
  <1>1. GroupWords(s, count) = out
    BY DEF GroupWords
  <1>2. WordLengths(s) \in Seq(Int) /\ Len(WordLengths(s)) = Len(s) /\ Len(s) \in Nat /\ count # 0
    BY LengthsInt
  <1>3. groups \in [1..count -> Seq(Words)] /\ Count(t, FlattenSeq(groups)) = Count(t, s)
    <2>1. CASE Len(s) = count
      <3>1. Len(s) <= count
        BY <1>2, <2>1
      <3>2. groups = [i \in DOMAIN s |-> <<s[i]>>]
        BY <3>1, Zenon DEF GroupIntoN
      <3> DEFINE split == [i \in DOMAIN s |-> <<s[i]>>]
      <3> HIDE DEF groups, split
      <3>3. Len(s) # 0
        BY <1>2, <2>1
      <3>4. split \in Seq(Seq(Words)) /\ Len(split) = Len(s) /\ FlattenSeq(split) = s
        BY <3>3, SinglesOf DEF split
      <3>5. groups \in Seq(Seq(Words)) /\ Len(groups) = count /\ FlattenSeq(groups) = s
        BY <2>1, <3>2, <3>4 DEF split
      <3>6. QED
        BY <3>5
    <2>2. CASE Len(s) > count
      <3> DEFINE w == InSentence(t)  c == [x \in Words |-> IF x = t THEN 1 ELSE 0]
      <3>7. Weight(Words, w, c) /\ count \in Few
        BY SentenceWeight DEF Few
      <3> HIDE DEF w, c
      <3>1. groups \in [1..count -> Seq(Words)] /\ Together(w, groups, count) = w[s]
        <4> DEFINE lengths == WordLengths(s)
        <4>1. lengths \in Seq(Int) /\ Len(lengths) = Len(s) /\ groups = GroupIntoN(s, lengths, count)
          BY <1>2
        <4> HIDE DEF groups, lengths
        <4>2. /\ GroupIntoN(s, lengths, count) \in [1..count -> Seq(Words)]
              /\ Together(w, GroupIntoN(s, lengths, count), count) = w[s]
          BY <2>2, <3>7, <4>1, DealtWeighs
        <4>3. QED
          BY <4>1, <4>2
      <3> HIDE DEF groups
      <3>2. Count(t, FlattenSeq(groups))
              = Count(t, groups[1]) + Count(t, groups[2]) + (IF count = 3 THEN Count(t, groups[3]) ELSE 0)
        BY <3>1, CountFew
      <3>3. groups[1] \in Seq(Words) /\ groups[2] \in Seq(Words) /\ (count = 3 => groups[3] \in Seq(Words))
        BY <3>1
      <3>4. /\ w[groups[1]] = Count(t, groups[1]) /\ w[groups[2]] = Count(t, groups[2])
            /\ count = 3 => w[groups[3]] = Count(t, groups[3])
            /\ w[s] = Count(t, s)
        BY <3>3 DEF InSentence, w
      <3>5. Together(w, groups, count)
              = w[groups[1]] + w[groups[2]] + (IF count = 3 THEN w[groups[3]] ELSE 0)
        BY DEF Together
      <3>6. QED
        BY <3>1, <3>2, <3>4, <3>5
    <2>3. QED
      BY <1>2, <2>1, <2>2
  <1> HIDE DEF groups
  <1>4. groups \in Seq(Seq(Words)) /\ Len(groups) = count
    BY <1>3, FlattenFew
  <1>5. out \in Seq(Seq(Seq(Words))) /\ Len(out) = count /\ FlattenSeq(out) = groups
    BY <1>2, <1>4, SinglesOf
  <1>6. QED
    BY <1>1, <1>3, <1>5 DEF Flat

LEMMA GroupedSentences ==
    ASSUME NEW p \in Seq(Seq(Words)), Len(p) >= 2, NEW t
    PROVE  /\ GroupSentences(p, 2) \in Seq(Seq(Seq(Words))) /\ Len(GroupSentences(p, 2)) = 2
           /\ Count(t, Flat(GroupSentences(p, 2))) = Count(t, FlattenSeq(p))
  <1> DEFINE groups == GroupIntoN(p, SentenceLengths(p), 2)  X == Seq(Words)
  <1>1. GroupSentences(p, 2) = groups
    BY DEF GroupSentences
  <1>2. SentenceLengths(p) \in Seq(Int) /\ Len(SentenceLengths(p)) = Len(p) /\ Len(p) \in Nat /\ 2 \in {2, 3}
    BY LengthsInt
  <1>3. CASE Len(p) = 2
    <2>1. groups = [i \in DOMAIN p |-> <<p[i]>>]
      BY <1>3 DEF GroupIntoN
    <2>2. p \in Seq(X) /\ Len(p) # 0
      BY <1>3
    <2> HIDE DEF X, groups
    <2>3. groups \in Seq(Seq(X)) /\ Len(groups) = 2 /\ FlattenSeq(groups) = p
      BY <1>3, <2>1, <2>2, SinglesOf
    <2>4. QED
      BY <1>1, <2>3 DEF Flat, X
  <1>4. CASE Len(p) > 2
    <2> DEFINE w == InParagraph(t)  c == InSentence(t)
    <2>11. Weight(X, w, c) /\ p \in Seq(X) /\ 2 \in Few
      BY ParagraphWeight DEF Few
    <2> HIDE DEF w, c, X
    <2>1. groups \in [1..2 -> Seq(X)] /\ Together(w, groups, 2) = w[p]
      <3> DEFINE lengths == SentenceLengths(p)  two == 2
      <3>1. /\ lengths \in Seq(Int) /\ Len(lengths) = Len(p) /\ groups = GroupIntoN(p, lengths, two)
            /\ two \in Few /\ Len(p) > two
        BY <1>2, <1>4, <2>11
      <3> HIDE DEF groups, lengths, two
      <3>2. /\ GroupIntoN(p, lengths, two) \in [1..two -> Seq(X)]
            /\ Together(w, GroupIntoN(p, lengths, two), two) = w[p]
        BY <2>11, <3>1, DealtWeighs
      <3>3. QED
        BY <3>1, <3>2 DEF two
    <2> HIDE DEF groups
    <2>2. groups \in Seq(Seq(X)) /\ Len(groups) = 2 /\ FlattenSeq(groups) = groups[1] \o groups[2]
      <3> DEFINE two == 2
      <3>1. two \in {2, 3} /\ two # 3 /\ groups \in [1..two -> Seq(X)]
        BY <2>1
      <3> HIDE DEF two
      <3>2. /\ groups \in Seq(Seq(X)) /\ Len(groups) = two
            /\ FlattenSeq(groups) = IF two = 3 THEN (groups[1] \o groups[2]) \o groups[3]
                                    ELSE groups[1] \o groups[2]
        BY <3>1, FlattenFew
      <3>3. QED
        BY <3>1, <3>2 DEF two
    <2>3. groups[1] \in Seq(X) /\ groups[2] \in Seq(X)
      BY <2>1
    <2>4. FlattenSeq(groups[1] \o groups[2]) = FlattenSeq(groups[1]) \o FlattenSeq(groups[2])
      BY <2>3, FlattenConcat DEF X
    <2>5. FlattenSeq(groups[1]) \in Seq(Words) /\ FlattenSeq(groups[2]) \in Seq(Words)
      BY <2>3, FlattenType DEF X
    <2>6. Count(t, Flat(groups)) = Count(t, FlattenSeq(groups[1])) + Count(t, FlattenSeq(groups[2]))
      BY <2>2, <2>4, <2>5, CountConcat DEF Flat
    <2>7. /\ w[groups[1]] = Count(t, FlattenSeq(groups[1])) /\ w[groups[2]] = Count(t, FlattenSeq(groups[2]))
          /\ w[p] = Count(t, FlattenSeq(p))
      BY <2>3 DEF InParagraph, w, X
    <2>8. Together(w, groups, 2) = w[groups[1]] + w[groups[2]] + 0
      BY DEF Together
    <2>9. w[groups[1]] + w[groups[2]] + 0 = w[groups[1]] + w[groups[2]]
      BY <2>5, <2>7, CountNat
    <2>10. QED
      BY <1>1, <2>1, <2>2, <2>6, <2>7, <2>8, <2>9 DEF X
  <1>5. Len(p) = 2 \/ Len(p) > 2
    <2> DEFINE n == Len(p)
    <2>1. n \in Nat /\ n >= 2
      BY <1>2
    <2> HIDE DEF n
    <2>2. n = 2 \/ n > 2
      BY <2>1
    <2>3. QED
      BY <2>2 DEF n
  <1>6. QED
    BY <1>3, <1>4, <1>5

-----------------------------------------------------------------------------
LEMMA CutAt ==
    ASSUME NEW S, NEW s \in Seq(S), NEW i \in 0..Len(s)
    PROVE  /\ SubSeq(s, 1, i) \in Seq(S) /\ Len(SubSeq(s, 1, i)) = i
           /\ SubSeq(s, i + 1, Len(s)) \in Seq(S) /\ Len(SubSeq(s, i + 1, Len(s))) = Len(s) - i
           /\ s = SubSeq(s, 1, i) \o SubSeq(s, i + 1, Len(s))
  <1> DEFINE a == SubSeq(s, 1, i)  b == SubSeq(s, i + 1, Len(s))  N == Len(s)
  <1>1. /\ a \in Seq(S) /\ Len(a) = i /\ b \in Seq(S) /\ Len(b) = Len(s) - i
        /\ \A k \in 1..i : a[k] = s[k]
        /\ \A k \in 1..(N - i) : b[k] = s[i + k]
        /\ N \in Nat /\ i \in Nat /\ i <= N
    OBVIOUS
  <1> HIDE DEF a, b
  <1>2. a \o b \in Seq(S) /\ Len(a \o b) = N
    <2>1. a \o b \in Seq(S) /\ Len(a \o b) = Len(a) + Len(b)
      BY <1>1
    <2>2. i + (N - i) = N
      BY <1>1
    <2>3. QED
      BY <1>1, <2>1, <2>2
  <1>3. ASSUME NEW k \in 1..N PROVE (a \o b)[k] = s[k]
    <2>1. CASE k <= i
      BY <1>1, <2>1
    <2>2. CASE k > i
      <3>1. k - i \in 1..(N - i) /\ i + (k - i) = k
        BY <1>1, <2>2
      <3>2. (a \o b)[k] = b[k - i]
        BY <1>1, <2>2, <3>1
      <3>3. QED
        BY <1>1, <3>1, <3>2
    <2>3. QED
      BY <1>1, <2>1, <2>2
  <1>5. s = a \o b
    <2> DEFINE c == a \o b
    <2>1. c \in Seq(S) /\ Len(c) = N /\ \A k \in 1..N : c[k] = s[k]
      BY <1>2, <1>3
    <2> HIDE DEF c
    <2>2. c = [k \in 1..N |-> c[k]] /\ s = [k \in 1..N |-> s[k]]
      BY <2>1
    <2>3. c = s
      BY <2>1, <2>2
    <2>4. QED
      BY <2>3 DEF c
  <1>6. QED
    BY <1>1, <1>5 DEF a, b

LEMMA CutAround ==
    ASSUME NEW S, NEW s \in Seq(S), NEW i \in 1..Len(s)
    PROVE  /\ SubSeq(s, 1, i - 1) \in Seq(S) /\ Len(SubSeq(s, 1, i - 1)) = i - 1
           /\ SubSeq(s, i + 1, Len(s)) \in Seq(S) /\ Len(SubSeq(s, i + 1, Len(s))) = Len(s) - i
           /\ s = (SubSeq(s, 1, i - 1) \o <<s[i]>>) \o SubSeq(s, i + 1, Len(s))
  <1>1. i \in 0..Len(s) /\ i - 1 \in 0..Len(s)
    OBVIOUS
  <1>2. /\ SubSeq(s, 1, i - 1) \in Seq(S) /\ Len(SubSeq(s, 1, i - 1)) = i - 1
        /\ SubSeq(s, i + 1, Len(s)) \in Seq(S) /\ Len(SubSeq(s, i + 1, Len(s))) = Len(s) - i
        /\ s = SubSeq(s, 1, i) \o SubSeq(s, i + 1, Len(s))
    BY <1>1, CutAt
  <1>3. SubSeq(s, 1, i) = Append(SubSeq(s, 1, i - 1), s[i]) /\ s[i] \in S
    BY FirstN
  <1>4. Append(SubSeq(s, 1, i - 1), s[i]) = SubSeq(s, 1, i - 1) \o <<s[i]>>
    BY <1>2, <1>3
  <1>5. QED
    BY <1>2, <1>3, <1>4

-----------------------------------------------------------------------------
Bodies == Seq(Seq(Seq(Words)))

LEMMA OnlyOne ==
    ASSUME NEW S, NEW s \in Seq(S), Len(s) = 1
    PROVE  s = <<s[1]>> /\ s[1] \in S
  <1> DEFINE x == s[1]
  <1>1. s = [i \in 1..1 |-> x] /\ x \in S
    <2>1. x \in S
      OBVIOUS
    <2>2. s = [i \in 1..Len(s) |-> s[i]] /\ \A i \in 1..1 : s[i] = x
      OBVIOUS
    <2>3. s = [i \in 1..1 |-> s[i]]
      BY <2>2
    <2> HIDE DEF x
    <2>4. QED
      BY <2>1, <2>2, <2>3
  <1> HIDE DEF x
  <1>2. [i \in 1..1 |-> x] = <<x>>
    OBVIOUS
  <1>3. QED
    BY <1>1, <1>2 DEF x

LEMMA LongestIn ==
    ASSUME NEW paras \in Bodies, Len(paras) # 0
    PROVE  Longest(paras) \in 1..Len(paras)
  <1> DEFINE f == [i \in DOMAIN paras |-> -LenParagraph(paras[i])]  N == Len(paras)
  <1>1. DOMAIN paras = 1..N /\ N \in Nat /\ \A i \in 1..N : paras[i] \in Seq(Seq(Words))
    BY DEF Bodies
  <1>2. \A i \in 1..N : LenParagraph(paras[i]) \in Int
    BY <1>1, LengthsInt
  <1>3. f \in [1..N -> Int]
    BY <1>1, <1>2
  <1> HIDE DEF f
  <1>4. Leftmost(f) \in 1..N
    BY <1>1, <1>3, LeftmostIn
  <1>5. QED
    BY <1>4 DEF Longest, f

(* Two paragraphs become three with the same words *)
LEMMA SplitWhole ==
    ASSUME NEW paras \in Bodies, Len(paras) = 2, Len(FlattenSeq(paras[Longest(paras)])) >= 2, NEW t
    PROVE  LET all == SplitLongestParagraph(paras) IN
           all \in Bodies /\ Len(all) = Expected /\ Count(t, Flat(all)) = Count(t, Flat(paras))
  <1> DEFINE i == Longest(paras)  p == paras[i]  P == Seq(Seq(Words))
             split == IF Len(p) > 1 THEN GroupSentences(p, 2) ELSE GroupWords(p[1], 2)
             a == SubSeq(paras, 1, i - 1)
             b == SubSeq(paras, i + 1, Len(paras))
             all == SplitLongestParagraph(paras)
  <1>1. all = (a \o split) \o b
    BY DEF SplitLongestParagraph
  <1>2. i \in 1..Len(paras) /\ paras \in Seq(P) /\ p \in P
    <2>1. Longest(paras) \in 1..Len(paras)
      <3>1. Len(paras) # 0
        OBVIOUS
      <3>2. QED
        BY <3>1, LongestIn
    <2>2. paras \in Seq(P)
      BY DEF Bodies
    <2> HIDE DEF P
    <2>3. QED
      BY <2>1, <2>2
  <1>3. /\ split \in Seq(P) /\ Len(split) = 2
        /\ Count(t, Flat(split)) = Count(t, FlattenSeq(p))
    <2>1. CASE Len(p) > 1
      <3>1. Len(p) >= 2
        BY <1>2, <2>1
      <3>2. split = GroupSentences(p, 2)
        BY <2>1
      <3> HIDE DEF p, split
      <3>3. QED
        BY <1>2, <3>1, <3>2, GroupedSentences
    <2>2. CASE ~(Len(p) > 1)
      <3> DEFINE s == p[1]
      <3>1. Len(FlattenSeq(p)) >= 2
        OBVIOUS
      <3>2. split = GroupWords(s, 2)
        BY <2>2
      <3> HIDE DEF i, split
      <3>3. Len(p) # 0
        <4>1. SUFFICES ASSUME Len(p) = 0 PROVE FALSE
          OBVIOUS
        <4>2. p = <<>>
          BY <1>2, <4>1
        <4>3. Len(FlattenSeq(p)) = 0
          BY <4>2, FlattenEmpty
        <4>4. QED
          BY <3>1, <4>3
      <3>4. Len(p) = 1
        <4>1. Len(p) \in Nat
          BY <1>2
        <4> DEFINE n == Len(p)
        <4>2. n \in Nat /\ ~(n > 1) /\ n # 0
          BY <2>2, <3>3, <4>1
        <4> HIDE DEF n
        <4>3. n = 1
          BY <4>2
        <4>4. QED
          BY <4>3 DEF n
      <3>5. p = <<s>> /\ s \in Seq(Words)
        BY <1>2, <3>4, OnlyOne
      <3>6. FlattenSeq(p) = s
        <4> HIDE DEF p, s
        <4>1. FlattenSeq(<<s>>) = s
          BY <3>5, FlattenOne
        <4>2. QED
          BY <3>5, <4>1
      <3> HIDE DEF p, s
      <3>7. Len(s) >= 2
        BY <3>1, <3>6
      <3> DEFINE two == 2
      <3>8. two \in {2, 3} /\ Len(s) >= two
        BY <3>7
      <3> HIDE DEF two
      <3>9. /\ GroupWords(s, two) \in Seq(Seq(Seq(Words))) /\ Len(GroupWords(s, two)) = two
            /\ Count(t, Flat(GroupWords(s, two))) = Count(t, s)
        BY <3>5, <3>8, GroupedWords
      <3>10. QED
        BY <3>2, <3>6, <3>9 DEF two
    <2>3. QED
      BY <2>1, <2>2
  <1>4. /\ a \in Seq(P) /\ Len(a) = i - 1 /\ b \in Seq(P) /\ Len(b) = Len(paras) - i
        /\ paras = (a \o <<p>>) \o b
    <2> HIDE DEF i, P
    <2>1. QED
      BY <1>2, CutAround
  <1>5. Len(paras) = 2 /\ i \in Int
    BY <1>2
  <1> HIDE DEF i, p, split, a, b, all
  <1>6. a \o split \in Seq(P) /\ a \o <<p>> \in Seq(P) /\ <<p>> \in Seq(P) /\ Len(a \o split) = Len(a) + 2
    <2> HIDE DEF P
    <2>1. QED
      BY <1>2, <1>3, <1>4
  <1>7. all \in Seq(P) /\ Len(all) = 3
    <2> HIDE DEF P
    <2>1. all \in Seq(P) /\ Len(all) = Len(a \o split) + Len(b)
      BY <1>1, <1>4, <1>6
    <2>2. QED
      BY <1>4, <1>5, <1>6, <2>1
  <1>8. /\ Flat(all) = (Flat(a) \o Flat(split)) \o Flat(b)
        /\ Flat(paras) = (Flat(a) \o Flat(<<p>>)) \o Flat(b)
        /\ Flat(a) \in Seq(Words) /\ Flat(b) \in Seq(Words) /\ Flat(split) \in Seq(Words)
    <2>1. Flat((a \o split) \o b) = Flat(a \o split) \o Flat(b) /\ Flat((a \o <<p>>) \o b) = Flat(a \o <<p>>) \o Flat(b)
      BY <1>4, <1>6, FlatConcat
    <2>2. Flat(a \o split) = Flat(a) \o Flat(split) /\ Flat(a \o <<p>>) = Flat(a) \o Flat(<<p>>)
      BY <1>3, <1>4, <1>6, FlatConcat
    <2>3. Flat(a) \in Seq(Words) /\ Flat(b) \in Seq(Words) /\ Flat(split) \in Seq(Words)
      BY <1>3, <1>4, FlatConcat
    <2>4. QED
      BY <1>1, <1>4, <2>1, <2>2, <2>3
  <1>9. Flat(<<p>>) = FlattenSeq(p) /\ FlattenSeq(p) \in Seq(Words)
    BY <1>2, FlattenOne, FlattenType DEF Flat
  <1>10. /\ Count(t, (Flat(a) \o Flat(split)) \o Flat(b)) = Count(t, Flat(a)) + Count(t, Flat(split)) + Count(t, Flat(b))
         /\ Count(t, (Flat(a) \o Flat(<<p>>)) \o Flat(b)) = Count(t, Flat(a)) + Count(t, Flat(<<p>>)) + Count(t, Flat(b))
    <2> DEFINE x == Flat(a)  y == Flat(split)  z == Flat(b)  u == Flat(<<p>>)
    <2>1. x \in Seq(Words) /\ y \in Seq(Words) /\ z \in Seq(Words) /\ u \in Seq(Words)
      BY <1>8, <1>9
    <2> HIDE DEF x, y, z, u
    <2>2. x \o y \in Seq(Words) /\ x \o u \in Seq(Words)
      BY <2>1
    <2>3. Count(t, x \o y) = Count(t, x) + Count(t, y) /\ Count(t, x \o u) = Count(t, x) + Count(t, u)
      BY <2>1, CountConcat
    <2>4. /\ Count(t, (x \o y) \o z) = Count(t, x \o y) + Count(t, z)
          /\ Count(t, (x \o u) \o z) = Count(t, x \o u) + Count(t, z)
      BY <2>1, <2>2, CountConcat
    <2>5. QED
      BY <2>3, <2>4 DEF x, y, z, u
  <1>11. Count(t, Flat(all)) = Count(t, Flat(paras))
    BY <1>3, <1>8, <1>9, <1>10
  <1>12. QED
    BY <1>7, <1>11 DEF all, Bodies, Expected

(* Two neighbours become one, and every word stays where it was *)
LEMMA MergeKeeps ==
    ASSUME NEW paras \in Bodies, Len(paras) >= 2
    PROVE  /\ MergeShortest(paras) \in Bodies /\ Len(MergeShortest(paras)) = Len(paras) - 1
           /\ FlattenSeq(MergeShortest(paras)) = FlattenSeq(paras)
  <1> DEFINE N == Len(paras)  P == Seq(Seq(Words))
             f == [i \in 1..(Len(paras) - 1) |-> LenParagraph(paras[i]) + LenParagraph(paras[i + 1])]
             k == Leftmost(f)  p == paras[k]  q == paras[k + 1]
             a == SubSeq(paras, 1, k - 1)
             b == SubSeq(paras, k + 2, Len(paras))
             all == MergeShortest(paras)
  <1>1. all = (a \o <<p \o q>>) \o b
    BY DEF MergeShortest
  <1>2. N \in Nat /\ N >= 2 /\ paras \in Seq(P) /\ \A i \in 1..N : paras[i] \in P
    BY DEF Bodies
  <1>3. k \in 1..(N - 1)
    <2>1. \A i \in 1..(N - 1) : i \in 1..N /\ i + 1 \in 1..N
      BY <1>2
    <2>2. \A i \in 1..N : LenParagraph(paras[i]) \in Int
      BY <1>2, LengthsInt
    <2>3. f \in [1..(N - 1) -> Int]
      BY <2>1, <2>2
    <2> HIDE DEF f
    <2>4. N - 1 \in Nat /\ N - 1 # 0
      BY <1>2
    <2>5. QED
      BY <2>3, <2>4, LeftmostIn
  <1> HIDE DEF f, k, all, P
  <1>4. k \in 1..N /\ k + 1 \in 1..N /\ k + 1 \in 0..N /\ (k + 1) - 1 = k /\ (k + 1) + 1 = k + 2
    BY <1>2, <1>3
  <1>5. p \in P /\ q \in P
    BY <1>2, <1>4
  <1>6. /\ a \in Seq(P) /\ Len(a) = k - 1 /\ SubSeq(paras, 1, k) = Append(a, p)
    BY <1>2, <1>4, FirstN, CutAround
  <1>7. SubSeq(paras, 1, k + 1) = Append(SubSeq(paras, 1, k), q)
    BY <1>2, <1>4, FirstN
  <1>8. /\ b \in Seq(P) /\ Len(b) = N - (k + 1) /\ paras = SubSeq(paras, 1, k + 1) \o b
    BY <1>2, <1>4, CutAt
  <1> HIDE DEF a, b, p, q
  <1>9. paras = Append(Append(a, p), q) \o b
    BY <1>6, <1>7, <1>8
  <1>10. /\ Append(a, p) \in Seq(P) /\ Append(Append(a, p), q) \in Seq(P)
    BY <1>5, <1>6
  <1>11. p \o q \in P
    BY <1>5 DEF P
  <1>12. /\ a \o <<p \o q>> = Append(a, p \o q) /\ Append(a, p \o q) \in Seq(P)
         /\ Len(Append(a, p \o q)) = k
    <2> DEFINE r == p \o q
    <2>1. r \in P
      BY <1>11
    <2> HIDE DEF r
    <2>2. a \o <<r>> = Append(a, r) /\ Append(a, r) \in Seq(P) /\ Len(Append(a, r)) = Len(a) + 1
      BY <1>6, <2>1
    <2>3. QED
      BY <1>4, <1>6, <2>2 DEF r
  <1>13. all \in Seq(P) /\ Len(all) = N - 1
    <2> DEFINE r == Append(a, p \o q)
    <2>1. r \in Seq(P) /\ Len(r) = k /\ all = r \o b
      BY <1>1, <1>12
    <2> HIDE DEF r
    <2>2. all \in Seq(P) /\ Len(all) = k + (N - (k + 1))
      BY <1>8, <2>1
    <2>3. k + (N - (k + 1)) = N - 1
      BY <1>2, <1>4
    <2>4. QED
      BY <2>2, <2>3
  <1>14. /\ FlattenSeq(all) = (FlattenSeq(a) \o (p \o q)) \o FlattenSeq(b)
         /\ FlattenSeq(paras) = ((FlattenSeq(a) \o p) \o q) \o FlattenSeq(b)
    <2>1. /\ FlattenSeq(Append(a, p \o q) \o b) = FlattenSeq(Append(a, p \o q)) \o FlattenSeq(b)
          /\ FlattenSeq(Append(a, p \o q)) = FlattenSeq(a) \o (p \o q)
      BY <1>6, <1>8, <1>11, <1>12, FlattenConcat, FlattenAppend DEF P
    <2>2. /\ FlattenSeq(Append(Append(a, p), q) \o b) = FlattenSeq(Append(Append(a, p), q)) \o FlattenSeq(b)
          /\ FlattenSeq(Append(Append(a, p), q)) = FlattenSeq(Append(a, p)) \o q
          /\ FlattenSeq(Append(a, p)) = FlattenSeq(a) \o p
      BY <1>5, <1>6, <1>8, <1>10, FlattenConcat, FlattenAppend DEF P
    <2>3. QED
      BY <1>1, <1>9, <1>12, <2>1, <2>2
  <1>15. (FlattenSeq(a) \o p) \o q = FlattenSeq(a) \o (p \o q)
    <2>1. FlattenSeq(a) \in P
      BY <1>6, FlattenType DEF P
    <2>2. QED
      BY <1>5, <2>1, Associates DEF P
  <1>16. QED
    BY <1>13, <1>14, <1>15 DEF all, Bodies, P

-----------------------------------------------------------------------------
(* What CoalesceToCount computes of more than three paragraphs *)
Merges(paras, f) ==
    f = [n \in 0..(Len(paras) - Expected) |-> IF n = 0 THEN paras ELSE MergeShortest(f[n - 1])]
StillWhole(paras, n, all) ==
    all \in Bodies /\ Len(all) = Len(paras) - n /\ FlattenSeq(all) = FlattenSeq(paras)

LEMMA MergeOnce ==
    ASSUME NEW paras \in Bodies, NEW n \in 1..(Len(paras) - Expected), NEW all,
           StillWhole(paras, n - 1, all)
    PROVE  Len(all) >= 2 /\ StillWhole(paras, n, MergeShortest(all))
  <1>1. Len(paras) \in Nat
    BY DEF Bodies
  <1>2. all \in Bodies /\ Len(all) = Len(paras) - (n - 1) /\ FlattenSeq(all) = FlattenSeq(paras)
    BY DEF StillWhole
  <1>3. Len(all) >= 2 /\ Len(all) - 1 = Len(paras) - n
    BY <1>1, <1>2 DEF Expected
  <1>4. /\ MergeShortest(all) \in Bodies /\ Len(MergeShortest(all)) = Len(all) - 1
        /\ FlattenSeq(MergeShortest(all)) = FlattenSeq(all)
    BY <1>2, <1>3, MergeKeeps
  <1>5. QED
    BY <1>2, <1>3, <1>4 DEF StillWhole

LEMMA MergesExist ==
    ASSUME NEW paras \in Bodies, Len(paras) >= Expected
    PROVE  \E f : Merges(paras, f)
  <1> DEFINE N == Len(paras) - Expected
             h == [p \in ((0 + 1)..N) \X Bodies |-> IF Len(p[2]) >= 2 THEN MergeShortest(p[2]) ELSE p[2]]
  <1>0. N \in Int /\ 0 \in Int /\ 0 \in 0..N /\ Len(paras) \in Nat
    BY DEF Expected, Bodies
  <1>1. h \in [((0 + 1)..N) \X Bodies -> Bodies]
    BY MergeKeeps
  <1>2. PICK f \in [0..N -> Bodies] : Recurs(f, 0, N, paras, h)
    <2> HIDE DEF N, h
    <2>1. QED
      BY <1>0, <1>1, Recursion, Zenon
  <1>3. \A n \in 0..N : f[n] = IF n = 0 THEN paras ELSE h[<<n, f[n - 1]>>]
    <2> HIDE DEF N, h
    <2>1. QED
      BY <1>2, Zenon DEF Recurs
  <1>4. ASSUME NEW n \in (0 + 1)..N
        PROVE  f[n] = IF Len(f[n - 1]) >= 2 THEN MergeShortest(f[n - 1]) ELSE f[n - 1]
    <2>1. n - 1 \in 0..N /\ n \in (0 + 1)..N /\ n \in 0..N /\ n # 0
      BY <1>0
    <2>2. f[n - 1] \in Bodies
      BY <1>2, <2>1
    <2> DEFINE before == f[n - 1]
    <2>3. f[n] = h[<<n, before>>]
      BY <1>3, <2>1
    <2> HIDE DEF before, N
    <2>4. <<n, before>> \in ((0 + 1)..N) \X Bodies
      BY <2>1, <2>2 DEF before
    <2>5. h[<<n, before>>] = IF Len(before) >= 2 THEN MergeShortest(before) ELSE before
      BY <2>4
    <2>6. QED
      BY <2>3, <2>5 DEF before
  <1> HIDE DEF h
  <1> DEFINE T == {n \in 0..N : StillWhole(paras, n, f[n])}
  <1>5. 0 \in T
    <2>1. f[0] = paras
      BY <1>0, <1>3
    <2>2. StillWhole(paras, 0, paras)
      BY <1>0 DEF StillWhole
    <2>3. QED
      BY <1>0, <2>1, <2>2
  <1>6. ASSUME NEW n \in (0 + 1)..N, n - 1 \in T PROVE n \in T
    <2>1. n \in 1..(Len(paras) - Expected) /\ n \in 0..N
      BY <1>0
    <2>2. StillWhole(paras, n - 1, f[n - 1])
      BY <1>6
    <2>3. Len(f[n - 1]) >= 2 /\ StillWhole(paras, n, MergeShortest(f[n - 1]))
      BY <2>1, <2>2, MergeOnce
    <2>4. f[n] = MergeShortest(f[n - 1])
      BY <1>4, <2>3
    <2>5. QED
      BY <2>1, <2>3, <2>4
  <1>7. \A n \in 0..N : n \in T
    <2> HIDE DEF T, N
    <2>1. QED
      BY <1>0, <1>5, <1>6, Climb, Zenon
  <1>8. ASSUME NEW n \in 0..N
        PROVE  f[n] = IF n = 0 THEN paras ELSE MergeShortest(f[n - 1])
    <2>1. CASE n = 0
      BY <1>0, <1>3, <2>1
    <2>2. CASE n # 0
      <3>1. n \in (0 + 1)..N /\ n - 1 \in 0..N /\ n \in 1..(Len(paras) - Expected)
        BY <1>0, <2>2
      <3>2. StillWhole(paras, n - 1, f[n - 1])
        BY <1>7, <3>1
      <3>3. Len(f[n - 1]) >= 2
        BY <3>1, <3>2, MergeOnce
      <3>4. QED
        BY <1>4, <2>2, <3>1, <3>3
    <2>3. QED
      BY <2>1, <2>2
  <1>9. f = [n \in 0..N |-> f[n]]
    BY <1>2
  <1>10. f = [n \in 0..N |-> IF n = 0 THEN paras ELSE MergeShortest(f[n - 1])]
    <2> HIDE DEF N, T
    <2>1. QED
      BY <1>8, <1>9, Zenon
  <1>11. Merges(paras, f)
    BY <1>10 DEF Merges
  <1>12. QED
    BY <1>11

LEMMA CoalescedWhole ==
    ASSUME NEW paras \in Bodies, Len(paras) >= Expected
    PROVE  /\ CoalesceToCount(paras) \in Bodies /\ Len(CoalesceToCount(paras)) = Expected
           /\ FlattenSeq(CoalesceToCount(paras)) = FlattenSeq(paras)
  <1> DEFINE N == Len(paras) - Expected
             merged[n \in 0..(Len(paras) - Expected)] == IF n = 0 THEN paras ELSE MergeShortest(merged[n - 1])
             T == {n \in 0..N : StillWhole(paras, n, merged[n])}
             all == CoalesceToCount(paras)
  <1>0. /\ N \in Int /\ 0 \in Int /\ 0 \in 0..N /\ N \in 0..N /\ Len(paras) \in Nat /\ Len(paras) - N = Expected
        /\ ~(Len(paras) < Expected)
    BY DEF Expected, Bodies
  <1>1. Merges(paras, merged)
    BY MergesExist DEF Merges
  <1>2. all = merged[N]
    BY <1>0 DEF CoalesceToCount
  <1> HIDE DEF merged, all
  <1>3. \A n \in 0..N : merged[n] = IF n = 0 THEN paras ELSE MergeShortest(merged[n - 1])
    BY <1>1, Zenon DEF Merges
  <1>4. 0 \in T
    <2>1. merged[0] = paras
      BY <1>0, <1>3
    <2>2. StillWhole(paras, 0, paras)
      BY <1>0 DEF StillWhole
    <2>3. QED
      BY <1>0, <2>1, <2>2
  <1>5. ASSUME NEW n \in (0 + 1)..N, n - 1 \in T PROVE n \in T
    <2>1. n \in 1..(Len(paras) - Expected) /\ n \in 0..N /\ n # 0
      BY <1>0
    <2>2. StillWhole(paras, n - 1, merged[n - 1])
      BY <1>5
    <2>3. StillWhole(paras, n, MergeShortest(merged[n - 1]))
      BY <2>1, <2>2, MergeOnce
    <2>4. merged[n] = MergeShortest(merged[n - 1])
      BY <1>3, <2>1
    <2>5. QED
      BY <2>1, <2>3, <2>4
  <1>6. \A n \in 0..N : n \in T
    <2> HIDE DEF T, N
    <2>1. QED
      BY <1>0, <1>4, <1>5, Climb, Zenon
  <1>7. StillWhole(paras, N, all)
    BY <1>0, <1>2, <1>6
  <1>8. QED
    BY <1>0, <1>7 DEF StillWhole, all

-----------------------------------------------------------------------------
(* What SplitParagraphs makes of a text it leaves alone *)
LEMMA SplitTwice ==
    ASSUME NEW body \in Bodies
    PROVE  SplitParagraphs(SplitParagraphs(body)) = SplitParagraphs(body)
  <1> DEFINE p == body[1]  X == Seq(Words)  split == [i \in DOMAIN p |-> <<p[i]>>]
  <1>1. CASE ~(Len(body) = 1 /\ Len(p) > 1)
    BY <1>1 DEF SplitParagraphs
  <1>2. CASE Len(body) = 1 /\ Len(p) > 1
    <2>1. SplitParagraphs(body) = split
      BY <1>2 DEF SplitParagraphs
    <2>2. p \in Seq(X)
      BY <1>2 DEF Bodies
    <2>3. Len(p) # 0
      BY <1>2
    <2> HIDE DEF p, X
    <2>4. Len(split) = Len(p)
      BY <2>2, <2>3, SinglesOf
    <2> HIDE DEF split
    <2>5. Len(split) # 1
      BY <1>2, <2>4
    <2>6. SplitParagraphs(split) = split
      BY <2>5 DEF SplitParagraphs
    <2>7. QED
      BY <2>1, <2>6
  <1>3. QED
    BY <1>1, <1>2

(* A body that is split into paragraphs already comes to three, with the   *)
(* same words                                                              *)
LEMMA NormalizedWhole ==
    ASSUME NEW body \in Bodies, SplitParagraphs(body) = body, ~CutInsideWord(body), NEW t
    PROVE  LET out == NormalizeBodyParagraphs(body) IN
           /\ Len(out) = Expected /\ Count(t, Flat(out)) = Count(t, Flat(body))
           /\ Len(body) >= Expected => Flat(out) = Flat(body)
  <1> DEFINE out == NormalizeBodyParagraphs(body)  n == Len(body)  X == Seq(Words)
  <1>1. n \in Nat /\ body \in Seq(Seq(X))
    BY DEF Bodies
  <1>2. ~(Len(Flat(body)) < Expected)
    BY DEF CutInsideWord
  <1>3. n # 0
    <2>1. SUFFICES ASSUME Len(body) = 0 PROVE FALSE
      OBVIOUS
    <2>2. body = <<>>
      BY <1>1, <2>1
    <2>3. Len(Flat(body)) = 0
      BY <2>2, FlattenEmpty DEF Flat
    <2>4. QED
      BY <1>2, <2>3 DEF Expected
  <1>4. CASE n = 1
    <2> DEFINE p == body[1]  s == p[1]
    <2>1. body = <<p>> /\ p \in Seq(X)
      <3>1. Len(body) = 1
        BY <1>4
      <3> HIDE DEF X
      <3>2. QED
        BY <1>1, <3>1, OnlyOne
    <2>2. FlattenSeq(body) = p
      <3> HIDE DEF p
      <3>1. FlattenSeq(<<p>>) = p
        BY <2>1, FlattenOne
      <3>2. QED
        BY <2>1, <3>1
    <2>3. Len(p) # 0
      <3>1. SUFFICES ASSUME Len(p) = 0 PROVE FALSE
        OBVIOUS
      <3>2. p = <<>>
        BY <2>1, <3>1
      <3>3. Len(Flat(body)) = 0
        BY <2>2, <3>2, FlattenEmpty DEF Flat
      <3>4. QED
        BY <1>2, <3>3 DEF Expected
    <2>4. ~(Len(p) > 1)
      <3>1. SUFFICES ASSUME Len(p) > 1 PROVE FALSE
        OBVIOUS
      <3> DEFINE split == [i \in DOMAIN p |-> <<p[i]>>]
      <3>2. SplitParagraphs(body) = split
        BY <1>4, <3>1 DEF SplitParagraphs
      <3> HIDE DEF p, X
      <3>3. Len(split) = Len(p)
        BY <2>1, <2>3, SinglesOf
      <3> HIDE DEF split
      <3>4. Len(split) = 1
        BY <1>4, <3>2
      <3>5. QED
        BY <3>1, <3>3, <3>4
    <2>5. Len(p) = 1
      <3> DEFINE k == Len(p)
      <3>1. k \in Nat /\ k # 0 /\ ~(k > 1)
        BY <2>1, <2>3, <2>4
      <3> HIDE DEF k
      <3>2. k = 1
        BY <3>1
      <3>3. QED
        BY <3>2 DEF k
    <2>6. p = <<s>> /\ s \in Seq(Words)
      <3> HIDE DEF X
      <3>1. p = <<s>> /\ s \in X
        BY <2>1, <2>5, OnlyOne
      <3>2. QED
        BY <3>1 DEF X
    <2>7. out = GroupWords(s, Expected)
      <3>1. Len(body) = 1
        BY <1>4
      <3> HIDE DEF p
      <3>2. QED
        BY <3>1 DEF NormalizeBodyParagraphs, Expected, p
    <2> HIDE DEF s
    <2>8. Flat(body) = s
      <3>1. FlattenSeq(p) = s
        <4> HIDE DEF p
        <4>1. FlattenSeq(<<s>>) = s
          BY <2>6, FlattenOne
        <4>2. QED
          BY <2>6, <4>1
      <3>2. QED
        BY <2>2, <3>1 DEF Flat
    <2> DEFINE three == Expected
    <2>9. three \in {2, 3} /\ Len(s) >= three
      BY <1>2, <2>6, <2>8 DEF Expected
    <2> HIDE DEF three, out, p
    <2>10. /\ Len(GroupWords(s, three)) = three
           /\ Count(t, Flat(GroupWords(s, three))) = Count(t, s)
      BY <2>6, <2>9, GroupedWords
    <2>11. Len(out) = Expected /\ Count(t, Flat(out)) = Count(t, Flat(body))
      BY <2>7, <2>8, <2>10 DEF three
    <2>12. ~(Len(body) >= Expected)
      BY <1>4 DEF Expected
    <2>13. QED
      BY <2>11, <2>12 DEF out
  <1>5. CASE n = 2
    <2>1. Len(body) = 2
      BY <1>5
    <2>2. out = SplitLongestParagraph(body)
      BY <2>1 DEF NormalizeBodyParagraphs, CoalesceToCount, Expected
    <2>3. Len(FlattenSeq(body[Longest(body)])) >= 2
      <3> DEFINE i == Longest(body)  words == FlattenSeq(body[i])
      <3>1. i \in 1..Len(body)
        BY <1>3, LongestIn
      <3> HIDE DEF i
      <3>2. body[i] \in Seq(X)
        BY <1>1, <3>1
      <3>3. words \in Seq(Words)
        BY <3>2, FlattenType
      <3>4. ~(Len(words) < 2)
        BY <2>1 DEF CutInsideWord, i
      <3> HIDE DEF words
      <3>5. Len(words) >= 2
        BY <3>3, <3>4
      <3>6. QED
        BY <3>5 DEF words, i
    <2>4. Len(out) = Expected /\ Count(t, Flat(out)) = Count(t, Flat(body))
      <3> HIDE DEF out
      <3>1. QED
        BY <2>1, <2>2, <2>3, SplitWhole
    <2>5. ~(Len(body) >= Expected)
      BY <1>5 DEF Expected
    <2>6. QED
      BY <2>4, <2>5
  <1>6. CASE n >= 3
    <2>1. Len(body) >= Expected
      BY <1>6 DEF Expected
    <2>2. Len(out) = Expected /\ FlattenSeq(out) = FlattenSeq(body)
      <3>1. CASE n = 3
        BY <3>1 DEF NormalizeBodyParagraphs, Expected
      <3>2. CASE n # 3
        <4>1. Len(body) \notin {0, 3} /\ Len(body) # 1
          <5>1. n \notin {0, 3} /\ n # 1
            <6> HIDE DEF n, out
            <6>1. QED
              BY <1>1, <1>6, <3>2
          <5>2. QED
            BY <5>1
        <4>2. out = CoalesceToCount(body)
          BY <4>1 DEF NormalizeBodyParagraphs, Expected
        <4> HIDE DEF out
        <4>3. QED
          BY <2>1, <4>2, CoalescedWhole
      <3>3. QED
        BY <3>1, <3>2
    <2>3. QED
      BY <2>2 DEF Flat
  <1>7. QED
    <2> HIDE DEF out
    <2>1. n = 1 \/ n = 2 \/ n >= 3
      <3> HIDE DEF n
      <3>1. QED
        BY <1>1, <1>3
    <2>2. QED
      BY <1>4, <1>5, <1>6, <2>1 DEF out

-----------------------------------------------------------------------------
(* The languages in force, those of the attempt and those of the draft are *)
(* Russian, English or both                                                *)
Languages == (SUBSET {"ru", "en"}) \ {{}}
LocalesKnown ==
    /\ locales \in Languages
    /\ stage # "new" => active \in Languages
    /\ draft # None => draft.locales \in Languages

LEMMA ParsedLocales ==
    ASSUME NEW raw
    PROVE  ParseOutputLocales(raw) \in Languages
  <1> DEFINE chosen == raw \cap {"ru", "en"}
  <1>1. chosen \in SUBSET {"ru", "en"} /\ {"ru"} \in Languages
    BY DEF Languages
  <1>2. ParseOutputLocales(raw) = IF chosen = {} THEN {"ru"} ELSE chosen
    BY DEF ParseOutputLocales
  <1> HIDE DEF chosen
  <1>3. QED
    BY <1>1, <1>2 DEF Languages

LEMMA NextLocales ==
    ASSUME LocalesKnown, [Next]_vars
    PROVE  LocalesKnown'
  <1>1. CASE Begin
    BY <1>1 DEF Begin, LocalesKnown, settings
  <1>2. ASSUME NEW text, Attempt(text) PROVE LocalesKnown'
    <2>1. stage = "rewriting" /\ active' = active /\ locales' = locales
      BY <1>2 DEF Attempt, story, settings
    <2>2. CASE Retry
      <3>1. draft' = draft
        BY <2>2 DEF Retry
      <3>2. QED
        BY <2>1, <3>1 DEF LocalesKnown
    <2>3. ASSUME NEW findings, Store(text, findings) PROVE LocalesKnown'
      <3>1. draft'.locales = active /\ stage' = "drafted"
        BY <2>3 DEF Store
      <3>2. QED
        BY <2>1, <3>1 DEF LocalesKnown
    <2>4. QED
      BY <1>2, <2>2, <2>3 DEF Attempt
  <1>3. CASE SwitchGate \/ SaveBannedPhrases
    BY <1>3 DEF SwitchGate, SaveBannedPhrases, LocalesKnown, story
  <1>4. CASE SetOutputLocales
    <2>1. PICK raw : locales' = ParseOutputLocales(raw)
      BY <1>4 DEF SetOutputLocales
    <2>2. locales' \in Languages
      BY <2>1, ParsedLocales
    <2>3. stage' = stage /\ active' = active /\ draft' = draft
      BY <1>4 DEF SetOutputLocales, story
    <2>4. QED
      BY <2>2, <2>3 DEF LocalesKnown
  <1>5. CASE UNCHANGED vars
    BY <1>5 DEF vars, LocalesKnown
  <1>6. QED
    BY <1>1, <1>2, <1>3, <1>4, <1>5 DEF Next

(* No setting, attempt or draft is ever without a language.                *)
THEOREM LocalesHold == Spec => []LocalesKnown
  <1>1. Init => LocalesKnown
    BY ParsedLocales DEF Init, LocalesKnown
  <1>2. LocalesKnown /\ [Next]_vars => LocalesKnown'
    BY NextLocales
  <1>3. QED
    BY <1>1, <1>2, PTL DEF Spec

(* An export shows all of a draft: every word as often as it is in it, in  *)
(* three paragraphs, in its order if it had three, and every language.     *)
THEOREM NothingLost == Spec => []ShownWhole
  <1>1. Reviewed /\ LocalesKnown => ShownWhole
    <2>1. SUFFICES ASSUME Reviewed, LocalesKnown, draft # None, ~CutInsideWord(draft.body)
                   PROVE  ShownWhole
      BY DEF ShownWhole
    <2> DEFINE body == draft.body
    <2>2. body \in Bodies /\ SplitParagraphs(body) = body
      <3>1. PICK text \in Replies(topic, source) : FromReview(text)
        BY <2>1 DEF Reviewed
      <3>2. text.body \in Bodies
        <4>1. topic \in Topics /\ source \in Sources(topic)
          BY <2>1, StoryTypes DEF Reviewed
        <4>2. QED
          BY <3>1, <4>1, StoryAssumption DEF Bodies
      <3>3. body = SplitParagraphs(text.body)
        BY <3>1 DEF FromReview
      <3> HIDE DEF body
      <3>4. SplitParagraphs(text.body) \in Bodies
        BY <3>2, SplitFlat DEF Bodies
      <3>5. QED
        BY <3>2, <3>3, <3>4, SplitTwice
    <2>3. /\ ExportBody = NormalizeBodyParagraphs(body)
          /\ ~CutInsideWord(body)
      BY <2>1 DEF ExportBody
    <2> HIDE DEF body
    <2>4. ASSUME NEW t
          PROVE  /\ Len(ExportBody) = Expected /\ Count(t, Flat(ExportBody)) = Count(t, Flat(body))
                 /\ Len(body) >= Expected => Flat(ExportBody) = Flat(body)
      <3> DEFINE out == NormalizeBodyParagraphs(body)
      <3>1. /\ Len(out) = Expected /\ Count(t, Flat(out)) = Count(t, Flat(body))
            /\ Len(body) >= Expected => Flat(out) = Flat(body)
        BY <2>2, <2>3, NormalizedWhole
      <3>2. QED
        BY <2>3, <3>1
    <2>5. draft.locales # {} /\ ShownLocales("all") = draft.locales
      BY <2>1 DEF LocalesKnown, Languages, ShownLocales, ExportLocales
    <2>6. QED
      BY <2>4, <2>5 DEF ShownWhole, body
  <1>2. QED
    BY <1>1, ReviewHolds, LocalesHold, PTL
=============================================================================
