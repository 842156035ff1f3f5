--------------------------- MODULE RotationProofs ---------------------------
(***************************************************************************)
(* Theorems about Rotation, for any articles, slots, keys and attempts:    *)
(* its state is well-typed, an RPC's requests are bounded, a text is by    *)
(* the slot that did the enrichment, a call gives up only after every      *)
(* slot, and the load is even while picks do not overlap.                  *)
(***************************************************************************)
EXTENDS Rotation, Integers, FiniteSetTheorems, WellFoundedInduction, TLAPS

-----------------------------------------------------------------------------
(* Numbers *)

LEMMA NatMin ==
    ASSUME NEW T \in SUBSET Nat, T # {}
    PROVE  \E x \in T : \A y \in T : x <= y
  <1>1. PICK x \in T : \A y \in T : <<y, x>> \notin OpToRel(<, Nat)
    BY NatLessThanWellFounded, WFMin
  <1>2. \A y \in T : ~(y < x)
    BY <1>1 DEF OpToRel
  <1>3. QED
    BY <1>2

LEMMA MultipleBound ==
    ASSUME NEW d \in Int, NEW k \in Nat \ {0}
    PROVE  (d >= 1 => k * d >= k) /\ (d <= -1 => k * d <= -k)
  OBVIOUS

LEMMA Division ==
    ASSUME NEW c \in Nat, NEW k \in Nat \ {0}
    PROVE  c = k * (c \div k) + (c % k) /\ c \div k \in Nat /\ c % k \in 0..(k - 1)
  OBVIOUS

LEMMA RemainderIsUnique ==
    ASSUME NEW k \in Nat \ {0}, NEW q \in Int, NEW p \in Int, NEW m \in 0..(k - 1),
           NEW n \in 0..(k - 1), k * q + m = k * p + n
    PROVE  m = n
  <1>. DEFINE z == k * (q - p)
  <1>1. z = n - m
    OBVIOUS
  <1>2. (q - p >= 1 => z >= k) /\ (q - p <= -1 => z <= -k)
    BY MultipleBound
  <1>3. ~(q - p >= 1) /\ ~(q - p <= -1)
    <2>. HIDE DEF z
    <2>. QED
      BY <1>1, <1>2
  <1>4. q = p
    BY <1>3
  <1>. QED
    BY <1>1, <1>4

\* The cursor goes round.
LEMMA NextRemainder ==
    ASSUME NEW c \in Nat, NEW k \in Nat \ {0}
    PROVE  /\ c % k \in 0..(k - 1)
           /\ (c + 1) % k = IF c % k = k - 1 THEN 0 ELSE (c % k) + 1
  <1>. DEFINE q == c \div k
              p == (c + 1) \div k
              m == c % k
              n == (c + 1) % k
  <1>1. c = k * q + m /\ q \in Nat /\ m \in 0..(k - 1)
    BY Division
  <1>2. c + 1 = k * p + n /\ p \in Nat /\ n \in 0..(k - 1)
    <2>1. c + 1 \in Nat
      OBVIOUS
    <2>. QED
      BY <2>1, Division
  <1>3. CASE m = k - 1
    <2>. HIDE DEF q, p, m, n
    <2>1. k * (q + 1) + 0 = k * p + n
      BY <1>1, <1>2, <1>3
    <2>2. 0 = n
      BY <1>1, <1>2, <2>1, RemainderIsUnique
    <2>. QED
      BY <1>1, <1>3, <2>2 DEF m, n
  <1>4. CASE m # k - 1
    <2>. HIDE DEF q, p, m, n
    <2>1. k * q + (m + 1) = k * p + n /\ m + 1 \in 0..(k - 1)
      BY <1>1, <1>2, <1>4
    <2>2. m + 1 = n
      BY <1>1, <1>2, <2>1, RemainderIsUnique
    <2>. QED
      BY <1>1, <1>4, <2>2 DEF m, n
  <1>. QED
    BY <1>3, <1>4

-----------------------------------------------------------------------------
(* Slots *)

N == Cardinality(Slots)
Rank(keys, s) == Cardinality({t \in keys : Position[t] < Position[s]})

LEMMA SlotFacts ==
    /\ N \in Nat /\ \A s \in Slots : Position[s] \in 0..(N - 1)
    /\ \A s, t \in Slots : Position[s] = Position[t] => s = t
    /\ \A K \in SUBSET Slots : IsFiniteSet(K) /\ Cardinality(K) \in Nat /\ Cardinality(K) <= N
    /\ \A K \in SUBSET Slots : K # {} => Cardinality(K) \in Nat \ {0}
  <1>1. N \in Nat
    BY RotationAssumption, FS_CardinalityType DEF N
  <1>2. \A K \in SUBSET Slots : IsFiniteSet(K) /\ Cardinality(K) \in Nat /\ Cardinality(K) <= N
    BY RotationAssumption, FS_Subset, FS_CardinalityType DEF N
  <1>3. \A K \in SUBSET Slots : K # {} => Cardinality(K) # 0
    BY <1>2, FS_EmptySet
  <1>. QED
    BY <1>1, <1>2, <1>3, RotationAssumption DEF N

\* Ranks order the slots and stay below their number.
LEMMA RankFacts ==
    ASSUME NEW K \in SUBSET Slots
    PROVE  /\ \A s \in K : Rank(K, s) \in 0..(Cardinality(K) - 1)
           /\ \A s, t \in K : Position[s] < Position[t] => Rank(K, s) < Rank(K, t)
           /\ \A s, t \in K : Rank(K, s) = Rank(K, t) => s = t
  <1>. DEFINE Below(s) == {t \in K : Position[t] < Position[s]}
  <1>1. ASSUME NEW s \in K
        PROVE  /\ IsFiniteSet(Below(s)) /\ Cardinality(Below(s)) \in Nat
               /\ Cardinality(Below(s)) < Cardinality(K)
    <2>1. Below(s) \subseteq K /\ s \notin Below(s)
      BY SlotFacts
    <2>. HIDE DEF Below
    <2>2. IsFiniteSet(K) /\ Cardinality(K) \in Nat
      BY SlotFacts
    <2>3. IsFiniteSet(Below(s)) /\ Cardinality(Below(s)) <= Cardinality(K)
          /\ Cardinality(Below(s)) # Cardinality(K)
      BY <1>1, <2>1, <2>2, FS_Subset
    <2>. QED
      BY <2>2, <2>3, FS_CardinalityType
  <1>2. ASSUME NEW s \in K, NEW t \in K, Position[s] < Position[t]
        PROVE  Cardinality(Below(s)) < Cardinality(Below(t))
    <2>1. Below(s) \subseteq Below(t) /\ s \in Below(t) /\ s \notin Below(s)
      BY <1>2, SlotFacts
    <2>2. IsFiniteSet(Below(t)) /\ Cardinality(Below(t)) \in Nat /\ Cardinality(Below(s)) \in Nat
      BY <1>1
    <2>. HIDE DEF Below
    <2>3. /\ Cardinality(Below(s)) <= Cardinality(Below(t))
          /\ Cardinality(Below(s)) # Cardinality(Below(t))
      BY <2>1, <2>2, FS_Subset
    <2>. QED
      BY <2>2, <2>3
  <1>3. \A s \in K : Rank(K, s) = Cardinality(Below(s))
    BY DEF Rank
  <1>4. \A s \in K : Position[s] \in Nat
    BY SlotFacts
  <1>5. Cardinality(K) \in Nat
    BY SlotFacts
  <1>. HIDE DEF Below
  <1>6. \A s, t \in K : Position[s] < Position[t] => Rank(K, s) < Rank(K, t)
    BY <1>2, <1>3
  <1>7. \A s, t \in K : Rank(K, s) = Rank(K, t) => s = t
    BY <1>1, <1>3, <1>4, <1>6, SlotFacts
  <1>. QED
    BY <1>1, <1>3, <1>5, <1>6, <1>7

\* Every place in the rotation is that of one slot.
LEMMA ChosenFacts ==
    ASSUME NEW K \in SUBSET Slots, K # {}, NEW i \in Nat
    PROVE  Chosen(K, i) \in K /\ Rank(K, Chosen(K, i)) = i % Cardinality(K)
  <1>. DEFINE k == Cardinality(K)
              T == 0..(k - 1)
              f == [s \in K |-> Rank(K, s)]
  <1>1. k \in Nat \ {0} /\ IsFiniteSet(K)
    BY SlotFacts
  <1>2. f \in Injection(K, T)
    BY RankFacts DEF Injection, IsInjective
  <1>3. IsFiniteSet(T) /\ Cardinality(T) = k
    BY <1>1, FS_Interval
  <1>4. f \in Surjection(K, T)
    <2>1. Cardinality(K) = Cardinality(T)
      BY <1>3
    <2>. HIDE DEF f, T, k
    <2>2. Cardinality(K) = Cardinality(T) <=> f \in Surjection(K, T)
      BY <1>2, <1>3, FS_Injection, Zenon
    <2>. QED
      BY <2>1, <2>2
  <1>5. i % k \in T
    BY <1>1, NextRemainder
  <1>6. \E s \in K : Rank(K, s) = i % k
    BY <1>4, <1>5 DEF Surjection
  <1>. QED
    BY <1>6 DEF Chosen, Rank

LEMMA NearestFacts ==
    ASSUME NEW start \in Slots, NEW left \in SUBSET Slots, left # {}
    PROVE  /\ Nearest(start, left) \in left
           /\ start \in left => Nearest(start, left) = start
  <1>1. /\ \A s \in Slots : Position[s] \in 0..(N - 1)
        /\ \A s, t \in Slots : Position[s] = Position[t] => s = t
        /\ N \in Nat /\ N = Cardinality(Slots)
    BY SlotFacts DEF N
  <1>2. \A t \in Slots : Distance(start, t) \in Nat
    BY <1>1 DEF Distance
  <1>3. \E s \in left : \A t \in left : Distance(start, s) <= Distance(start, t)
    <2>. DEFINE D == {Distance(start, t) : t \in left}
    <2>1. D \in SUBSET Nat /\ D # {}
      BY <1>2
    <2>2. \E x \in D : \A y \in D : x <= y
      <3>. HIDE DEF D
      <3>. QED
        BY <2>1, NatMin
    <2>. QED
      BY <2>2
  <1>4. /\ Nearest(start, left) \in left
        /\ \A t \in left : Distance(start, Nearest(start, left)) <= Distance(start, t)
    BY <1>3 DEF Nearest
  <1>5. Distance(start, start) = 0
    BY <1>1 DEF Distance
  <1>6. \A t \in Slots : Distance(start, t) <= 0 => t = start
    BY <1>1 DEF Distance
  <1>. QED
    BY <1>4, <1>5, <1>6

-----------------------------------------------------------------------------
(* The invariant *)

\* The calls an RPC may have completed before the one it is in: a rewrite and a
\* review per attempt, and a translation.
Units(r) ==
    CASE r.method = "enrich" -> r.attempt - 1
      [] r.method = "rewrite" /\ r.pass = "main" -> 2 * (r.attempt - 1)
      [] r.method = "rewrite" /\ r.pass = "review" -> 2 * (r.attempt - 1) + 1
      [] r.method = "rewrite" /\ r.pass = "translate" -> 2 * r.attempt

\* The types of a thread.
Thread(a) ==
    /\ pc[a] \in {"idle", "enriched"} \cup Busy \cup Results
    /\ rpc[a] \in Rpc /\ call[a] \in Call /\ failed[a] \in SUBSET Slots
    /\ pc[a] \in {"walk", "record", "judge"} =>
          call[a].slot \in call[a].left /\ call[a].left \subseteq call[a].keys

\* What a thread knows: what it paid for, which slots of its call have failed,
\* and that it is with its author until that one fails.
CallInv(a) ==
    LET c == call[a]
        r == rpc[a]
        tried == c.keys \ c.left
    IN
    /\ r.method = "enrich" => r.pass = "main"
    /\ pc[a] \in {"idle", "enriched"} \cup Results => r.paid = 0 /\ r.method = "enrich"
    /\ pc[a] \in {"call", "pick"} => r.paid <= Units(r) * N /\ failed[a] = {}
    /\ pc[a] = "pick" => c.keys # {} /\ ~Pinned(a) /\ (calm => c.keys = Configured)
    /\ pc[a] \in {"walk", "record", "judge"} /\ r.method = "rewrite" /\ r.pass = "main" =>
          c.keys = r.keys /\ (r.editing = "active" \/ r.pin \notin c.left \/ c.slot = r.pin)
    /\ pc[a] = "walk" =>
          failed[a] = tried /\ r.paid <= Units(r) * N + Cardinality(tried)
    /\ pc[a] \in {"record", "judge"} =>
          /\ failed[a] = IF c.reply = "error" THEN tried \cup {c.slot} ELSE tried
          /\ r.paid <= Units(r) * N + Cardinality(tried) + 1

\* While calm, the slots up to the cursor have been chosen once more than the
\* others.
LoadInv ==
    calm /\ Configured # {} =>
        \E q \in Nat : \A s \in Configured :
            picks[s] = IF Rank(Configured, s) < cursor % Cardinality(Configured)
                       THEN q + 1 ELSE q

IInv == TypeOK /\ (\A a \in Articles : CallInv(a)) /\ LoadInv

-----------------------------------------------------------------------------
(* The invariant says what the properties say *)

LEMMA Scale ==
    ASSUME NEW u \in Nat, NEW v \in Nat, NEW n \in Nat
    PROVE  (u <= v => u * n <= v * n) /\ (u + 1) * n = u * n + n /\ u * n \in Nat
  OBVIOUS

LEMMA ConfiguredType == TypeOK => Configured \in SUBSET Slots
  BY RotationAssumption DEF TypeOK, Configured

LEMMA UnitsType ==
    ASSUME NEW r \in Rpc
    PROVE  /\ Units(r) \in Nat
           /\ r.method = "enrich" => Units(r) + 1 <= MaxAttempts
           /\ r.method = "rewrite" => Units(r) + 1 <= MaxAttempts * 2 + 1
  <1>1. /\ r.method \in {"enrich", "rewrite"} /\ r.pass \in {"main", "review", "translate"}
        /\ r.attempt \in 1..MaxAttempts /\ MaxAttempts \in Nat \ {0}
    BY RotationAssumption DEF Rpc
  <1>2. CASE r.method = "enrich"
    BY <1>1, <1>2 DEF Units
  <1>3. CASE r.method = "rewrite" /\ r.pass = "main"
    BY <1>1, <1>3 DEF Units
  <1>4. CASE r.method = "rewrite" /\ r.pass = "review"
    BY <1>1, <1>4 DEF Units
  <1>5. CASE r.method = "rewrite" /\ r.pass = "translate"
    BY <1>1, <1>5 DEF Units
  <1>. QED
    BY <1>1, <1>2, <1>3, <1>4, <1>5

LEMMA TriedFacts ==
    ASSUME NEW K \in SUBSET Slots, NEW L \in SUBSET K, NEW s \in L
    PROVE  /\ Cardinality(K \ L) \in Nat /\ Cardinality(K \ L) + 1 <= N
           /\ Cardinality(K \ (L \ {s})) = Cardinality(K \ L) + 1
           /\ K \ (L \ {s}) = (K \ L) \cup {s}
  <1>1. IsFiniteSet(K \ L) /\ Cardinality(K \ L) \in Nat
    BY SlotFacts
  <1>2. K \ (L \ {s}) = (K \ L) \cup {s} /\ s \notin K \ L
    OBVIOUS
  <1>3. Cardinality((K \ L) \cup {s}) = Cardinality(K \ L) + 1
    BY <1>1, <1>2, FS_AddElement
  <1>4. (K \ L) \cup {s} \in SUBSET Slots
    OBVIOUS
  <1>5. Cardinality((K \ L) \cup {s}) <= N
    BY <1>4, SlotFacts
  <1>. QED
    BY <1>1, <1>2, <1>3, <1>5

LEMMA ThreadsTyped == ASSUME TypeOK, NEW a \in Articles PROVE Thread(a)
  BY DEF TypeOK, Thread

\* In a call, each slot that has been asked was paid for once.
LEMMA PaidInCall ==
    ASSUME NEW a \in Articles, Thread(a), CallInv(a)
    PROVE  /\ pc[a] \in {"walk", "record", "judge"} => rpc[a].paid <= (Units(rpc[a]) + 1) * N
           /\ pc[a] \in {"call", "pick"} => rpc[a].paid <= (Units(rpc[a]) + 1) * N
           /\ pc[a] \notin {"walk", "record", "judge", "call", "pick"} =>
                  rpc[a].paid <= (Units(rpc[a]) + 1) * N
  <1>. DEFINE u == Units(rpc[a]) * N
              v == (Units(rpc[a]) + 1) * N
  <1>1. /\ N \in Nat /\ Units(rpc[a]) \in Nat /\ rpc[a].paid \in Nat
        /\ call[a].keys \in SUBSET Slots
    BY SlotFacts, UnitsType DEF Thread, Rpc, Call
  <1>2. u \in Nat /\ v = u + N
    BY <1>1, Scale
  <1>3. CASE pc[a] \in {"walk", "record", "judge"}
    <2>. DEFINE n == Cardinality(call[a].keys \ call[a].left)
    <2>1. n \in Nat /\ n + 1 <= N
      BY <1>1, <1>3, TriedFacts DEF Thread
    <2>2. rpc[a].paid <= u + n \/ rpc[a].paid <= u + n + 1
      BY <1>3 DEF CallInv
    <2>. HIDE DEF u, v, n
    <2>3. rpc[a].paid <= v
      BY <1>1, <1>2, <2>1, <2>2
    <2>. QED
      BY <1>3, <2>3 DEF v
  <1>4. CASE pc[a] \in {"call", "pick"}
    <2>1. rpc[a].paid <= u
      BY <1>4 DEF CallInv
    <2>. HIDE DEF u, v
    <2>2. rpc[a].paid <= v
      BY <1>1, <1>2, <2>1
    <2>. QED
      BY <1>4, <2>2 DEF v
  <1>5. CASE pc[a] \notin {"walk", "record", "judge", "call", "pick"}
    <2>1. rpc[a].paid = 0
      BY <1>5 DEF CallInv, Thread, Busy
    <2>. HIDE DEF u, v
    <2>2. rpc[a].paid <= v
      BY <1>1, <1>2, <2>1
    <2>. QED
      BY <1>5, <2>2 DEF v
  <1>. QED
    BY <1>3, <1>4, <1>5

LEMMA InvSpendBounded == ASSUME IInv PROVE SpendBounded
  <1>. SUFFICES ASSUME NEW a \in Articles
                PROVE  rpc[a].paid <= IF rpc[a].method = "enrich" THEN MaxAttempts * N
                                      ELSE MaxAttempts * 2 * N + N
    BY DEF SpendBounded, N
  <1>. DEFINE u == Units(rpc[a]) + 1
              m == MaxAttempts * 2
  <1>1. Thread(a) /\ CallInv(a)
    BY ThreadsTyped DEF IInv
  <1>2. /\ u \in Nat /\ N \in Nat /\ MaxAttempts \in Nat /\ m \in Nat
        /\ rpc[a].paid \in Nat /\ rpc[a].method \in {"enrich", "rewrite"}
    BY <1>1, UnitsType, SlotFacts, RotationAssumption DEF Thread, Rpc
  <1>3. rpc[a].paid <= u * N
    BY <1>1, PaidInCall
  <1>4. /\ rpc[a].method = "enrich" => u <= MaxAttempts
        /\ rpc[a].method = "rewrite" => u <= m + 1
    BY <1>1, UnitsType DEF Thread
  <1>. HIDE DEF u, m
  <1>5. CASE rpc[a].method = "enrich"
    <2>1. u * N <= MaxAttempts * N /\ u * N \in Nat /\ MaxAttempts * N \in Nat
      BY <1>2, <1>4, <1>5, Scale
    <2>. QED
      BY <1>2, <1>3, <1>5, <2>1
  <1>6. CASE rpc[a].method = "rewrite"
    <2>1. /\ u * N <= (m + 1) * N /\ (m + 1) * N = m * N + N
          /\ u * N \in Nat /\ m * N \in Nat
      <3>1. m + 1 \in Nat
        BY <1>2
      <3>. QED
        BY <1>2, <1>4, <1>6, <3>1, Scale
    <2>2. rpc[a].paid <= m * N + N
      BY <1>2, <1>3, <2>1
    <2>. QED
      BY <1>6, <2>2 DEF m
  <1>. QED
    BY <1>2, <1>5, <1>6

LEMMA InvSameAuthor == ASSUME IInv PROVE SameAuthor
  <1>. SUFFICES ASSUME NEW a \in Articles, pc[a] = "judge", Pinned(a)
                PROVE  \/ call[a].slot = rpc[a].pin
                       \/ rpc[a].pin \in failed[a] \/ rpc[a].pin \notin rpc[a].keys
                       \/ rpc[a].editing = "active"
    BY DEF SameAuthor
  <1>. QED
    BY DEF IInv, CallInv, Pinned

LEMMA InvEvenLoad == ASSUME IInv PROVE EvenLoad
  <1>. SUFFICES ASSUME calm, NEW s \in Configured, NEW t \in Configured
                PROVE  picks[s] <= picks[t] + 1
    BY DEF EvenLoad
  <1>1. PICK q \in Nat : \A x \in Configured :
            picks[x] = IF Rank(Configured, x) < cursor % Cardinality(Configured)
                       THEN q + 1 ELSE q
    BY DEF IInv, LoadInv
  <1>. QED
    BY <1>1

-----------------------------------------------------------------------------
(* Steps *)

Only(a) ==
    /\ pc' = [pc EXCEPT ![a] = pc'[a]] /\ rpc' = [rpc EXCEPT ![a] = rpc'[a]]
    /\ call' = [call EXCEPT ![a] = call'[a]] /\ failed' = [failed EXCEPT ![a] = failed'[a]]

\* What another thread knows stays true.
LEMMA ThreadStep ==
    ASSUME IInv, NEW a \in Articles, Only(a), Thread(a)', CallInv(a)',
           cursor' \in Nat, enabled' = enabled, usage' \subseteq Slots \X Replies,
           picks' \in [Slots -> Nat], calm' \in BOOLEAN, calm' => calm
    PROVE  TypeOK' /\ \A b \in Articles : CallInv(b)'
  <1>1. TypeOK
    BY DEF IInv
  <1>2. ASSUME NEW b \in Articles, b # a
        PROVE  /\ pc'[b] = pc[b] /\ rpc'[b] = rpc[b] /\ call'[b] = call[b]
               /\ failed'[b] = failed[b]
    BY <1>1, <1>2 DEF TypeOK, Only
  <1>3. /\ pc' \in [Articles -> {"idle", "enriched"} \cup Busy \cup Results]
        /\ rpc' \in [Articles -> Rpc] /\ call' \in [Articles -> Call]
        /\ failed' \in [Articles -> SUBSET Slots]
    BY <1>1 DEF TypeOK, Only, Thread
  <1>4. \A b \in Articles : pc'[b] \in {"walk", "record", "judge"} =>
            call'[b].slot \in call'[b].left /\ call'[b].left \subseteq call'[b].keys
    BY <1>1, <1>2 DEF TypeOK, Thread
  <1>5. TypeOK'
    BY <1>1, <1>3, <1>4 DEF TypeOK
  <1>6. ASSUME NEW b \in Articles
        PROVE  CallInv(b)'
    <2>1. CASE b = a
      BY <2>1
    <2>2. CASE b # a
      <3>1. CallInv(b) /\ Configured' = Configured
        BY DEF IInv, Configured
      <3>. QED
        BY <1>2, <2>2, <3>1 DEF CallInv, Units, Pinned
    <2>. QED
      BY <2>1, <2>2
  <1>. QED
    BY <1>5, <1>6

LEMMA QuietStep ==
    ASSUME IInv, NEW a \in Articles, Only(a), Thread(a)', CallInv(a)',
           UNCHANGED <<cursor, enabled, load>>, usage' \subseteq Slots \X Replies
    PROVE  IInv'
  <1>1. TypeOK' /\ \A b \in Articles : CallInv(b)'
    BY ThreadStep DEF IInv, TypeOK, load
  <1>2. LoadInv'
    BY DEF IInv, LoadInv, load, Configured, Rank
  <1>. QED
    BY <1>1, <1>2 DEF IInv

LEMMA NoCallType == NoCall \in Call
  BY DEF NoCall, Call, Replies

LEMMA NoRpcType ==
    /\ NoRpc \in Rpc /\ NoRpc.paid = 0 /\ NoRpc.method = "enrich" /\ NoRpc.pass = "main"
    /\ Units(NoRpc) = 0
  BY RotationAssumption DEF NoRpc, Rpc, Units

LEMMA LeaveStep ==
    ASSUME IInv, NEW a \in Articles, NEW label \in {"call", "enriched"} \cup Results,
           NEW r \in Rpc, Leave(a, label, r), UNCHANGED <<cursor, enabled, load>>,
           usage' \subseteq Slots \X Replies,
           r.method = "enrich" => r.pass = "main",
           label = "call" => r.paid <= Units(r) * N,
           label # "call" => r.paid = 0 /\ r.method = "enrich"
    PROVE  IInv'
  <1>1. TypeOK
    BY DEF IInv
  <1>2. /\ pc'[a] = label /\ rpc'[a] = r /\ call'[a] = NoCall /\ failed'[a] = {} /\ Only(a)
    BY <1>1 DEF Leave, TypeOK, Only
  <1>3. Thread(a)'
    BY <1>2, NoCallType DEF Thread, Busy, Results
  <1>4. CallInv(a)'
    BY <1>2 DEF CallInv, Results
  <1>. QED
    BY <1>2, <1>3, <1>4, QuietStep

LEMMA EndStep ==
    ASSUME IInv, NEW a \in Articles, NEW result \in Results, End(a, result),
           UNCHANGED <<cursor, enabled, load>>, usage' \subseteq Slots \X Replies
    PROVE  IInv'
  <1>1. result # "call"
    BY DEF Results
  <1>. QED
    BY <1>1, NoRpcType, LeaveStep DEF End

LEMMA UsageType == ASSUME IInv PROVE usage \subseteq Slots \X Replies
  BY DEF IInv, TypeOK

LEMMA NextAttemptStep ==
    ASSUME IInv, NEW a \in Articles, pc[a] = "judge", rpc[a].pass # "translate",
           NEW editing \in {"none", "draft", "active"}, NextAttempt(a, editing),
           UNCHANGED <<shared, load>>
    PROVE  IInv'
  <1>. DEFINE r == [rpc[a] EXCEPT !.attempt = @ + 1, !.pass = "main", !.editing = editing]
  <1>1. Thread(a) /\ CallInv(a)
    BY ThreadsTyped DEF IInv
  <1>2. CASE rpc[a].attempt = MaxAttempts
    BY <1>2, EndStep, UsageType DEF NextAttempt, shared, Results
  <1>3. CASE rpc[a].attempt # MaxAttempts
    <2>1. rpc[a] \in Rpc /\ rpc[a].attempt + 1 \in 1..MaxAttempts
      <3>1. rpc[a].attempt \in 1..MaxAttempts
        BY <1>1 DEF Thread, Rpc
      <3>. QED
        BY <1>1, <1>3, <3>1, RotationAssumption DEF Thread
    <2>2. /\ r \in Rpc /\ r.attempt = rpc[a].attempt + 1 /\ r.pass = "main"
          /\ r.method = rpc[a].method /\ r.paid = rpc[a].paid
      <3>. DEFINE f == [rpc[a] EXCEPT !.attempt = @ + 1]
                  g == [f EXCEPT !.pass = "main"]
                  h == [g EXCEPT !.editing = editing]
                  Same(x) == /\ x \in Rpc /\ x.attempt = rpc[a].attempt + 1
                             /\ x.method = rpc[a].method /\ x.paid = rpc[a].paid
      <3>1. Same(f)
        BY <2>1 DEF Rpc
      <3>2. Same(g) /\ g.pass = "main"
        <4>. HIDE DEF f
        <4>. QED
          BY <3>1 DEF Rpc
      <3>3. Same(h) /\ h.pass = "main"
        <4>. HIDE DEF g
        <4>. QED
          BY <3>2 DEF Rpc
      <3>4. h = r
        BY <2>1 DEF Rpc
      <3>. HIDE DEF h, r
      <3>. QED
        BY <3>3, <3>4
    <2>3. Leave(a, "call", r)
      BY <1>3 DEF NextAttempt
    <2>. HIDE DEF r
    <2>5. Units(rpc[a]) + 1 <= Units(r)
      <3>1. /\ rpc[a].attempt \in 1..MaxAttempts /\ rpc[a].method \in {"enrich", "rewrite"}
            /\ rpc[a].pass \in {"main", "review"}
        BY <2>1 DEF Rpc
      <3>. QED
        BY <1>1, <2>2, <3>1 DEF Units, CallInv
    <2>6. r.paid <= Units(r) * N
      <3>1. rpc[a].paid <= (Units(rpc[a]) + 1) * N
        BY <1>1, PaidInCall
      <3>2. /\ Units(rpc[a]) + 1 \in Nat /\ Units(r) \in Nat /\ N \in Nat
            /\ rpc[a].paid \in Nat
        BY <2>1, <2>2, UnitsType, SlotFacts DEF Rpc
      <3>3. (Units(rpc[a]) + 1) * N <= Units(r) * N
        BY <2>5, <3>2, Scale
      <3>. QED
        BY <2>2, <3>1, <3>2, <3>3
    <2>. QED
      BY <1>1, <2>2, <2>3, <2>6, LeaveStep, UsageType DEF shared
  <1>. QED
    BY <1>2, <1>3

LEMMA NextPassStep ==
    ASSUME IInv, NEW a \in Articles, pc[a] = "judge", rpc[a].method = "rewrite",
           NEW p \in {"review", "translate"},
           rpc[a].pass = IF p = "review" THEN "main" ELSE "review",
           Leave(a, "call", [rpc[a] EXCEPT !.pass = p]), UNCHANGED <<shared, load>>
    PROVE  IInv'
  <1>. DEFINE r == [rpc[a] EXCEPT !.pass = p]
  <1>1. Thread(a) /\ CallInv(a) /\ rpc[a] \in Rpc
    BY ThreadsTyped DEF IInv, Thread
  <1>2. r \in Rpc /\ r.method = "rewrite" /\ r.paid = rpc[a].paid
    BY <1>1 DEF Rpc
  <1>3. Units(r) = Units(rpc[a]) + 1
    <2>1. rpc[a].attempt \in Nat
      BY <1>1 DEF Rpc
    <2>2. r.attempt = rpc[a].attempt /\ r.pass = p
      BY <1>1 DEF Rpc
    <2>. QED
      BY <1>2, <2>1, <2>2 DEF Units
  <1>. HIDE DEF r
  <1>4. r.paid <= Units(r) * N
    BY <1>1, <1>2, <1>3, PaidInCall
  <1>. QED
    BY <1>2, <1>4, LeaveStep, UsageType DEF shared, r

LEMMA ExhaustedStep ==
    ASSUME IInv, NEW a \in Articles, Exhausted(a), UNCHANGED <<cursor, enabled, load>>,
           usage' \subseteq Slots \X Replies
    PROVE  IInv'
  BY EndStep DEF Exhausted, Results

LEMMA StartEnrichStep ==
    ASSUME IInv, NEW a \in Articles, StartEnrich(a) PROVE IInv'
  <1>1. NoRpc.paid <= Units(NoRpc) * N
    BY NoRpcType, SlotFacts
  <1>. QED
    BY <1>1, NoRpcType, LeaveStep, UsageType DEF StartEnrich, shared

LEMMA StartRewriteStep ==
    ASSUME IInv, NEW a \in Articles, StartRewrite(a) PROVE IInv'
  <1>. DEFINE p == rpc[a].pin
              r == [NoRpc EXCEPT !.method = "rewrite", !.pin = p, !.keys = Configured]
  <1>1. Configured \in SUBSET Slots /\ p \in Slots \cup {Nothing}
    BY ConfiguredType, ThreadsTyped DEF IInv, Thread, Rpc
  <1>. HIDE DEF p
  <1>2. /\ r \in Rpc /\ r.method = "rewrite" /\ r.paid = 0 /\ r.attempt = 1
        /\ r.pass = "main"
    <2>. DEFINE f == [NoRpc EXCEPT !.method = "rewrite"]
                g == [f EXCEPT !.pin = p]
                h == [g EXCEPT !.keys = Configured]
                Fresh(x) == /\ x \in Rpc /\ x.method = "rewrite" /\ x.paid = 0
                            /\ x.attempt = 1 /\ x.pass = "main"
    <2>1. NoRpc \in Rpc /\ NoRpc.paid = 0 /\ NoRpc.attempt = 1 /\ NoRpc.pass = "main"
      BY NoRpcType DEF NoRpc
    <2>2. Fresh(f)
      BY <2>1 DEF Rpc
    <2>3. Fresh(g)
      <3>. HIDE DEF f
      <3>. QED
        BY <1>1, <2>2 DEF Rpc
    <2>4. Fresh(h)
      <3>. HIDE DEF g
      <3>. QED
        BY <1>1, <2>3 DEF Rpc
    <2>5. h = r
      BY <2>1 DEF Rpc
    <2>. HIDE DEF h, r
    <2>. QED
      BY <2>4, <2>5
  <1>3. Leave(a, "call", r)
    BY DEF StartRewrite, p
  <1>. HIDE DEF r
  <1>4. r.paid <= Units(r) * N
    <2>1. Units(r) = 0
      BY <1>2 DEF Units
    <2>. QED
      BY <1>2, <2>1, SlotFacts
  <1>. QED
    BY <1>2, <1>3, <1>4, LeaveStep, UsageType DEF StartRewrite, shared

\* A call that begins to walk the keys from start has asked nobody yet.
LEMMA WalkStep ==
    ASSUME IInv, NEW a \in Articles, pc[a] \in {"call", "pick"},
           NEW keys \in SUBSET Slots, NEW start \in keys, Walk(a, keys, start),
           UNCHANGED failed,
           Pinned(a) => keys = rpc[a].keys /\
               (rpc[a].editing = "active" \/ rpc[a].pin \notin keys \/ start = rpc[a].pin)
    PROVE  Only(a) /\ Thread(a)' /\ CallInv(a)'
  <1>. DEFINE s == Nearest(start, keys)
              c == [NoCall EXCEPT !.keys = keys, !.left = keys, !.slot = s]
  <1>1. s \in keys /\ s = start
    BY NearestFacts
  <1>2. Thread(a) /\ CallInv(a) /\ TypeOK
    BY ThreadsTyped DEF IInv
  <1>3. /\ pc'[a] = "walk" /\ call'[a] = c /\ rpc'[a] = rpc[a] /\ failed'[a] = failed[a]
        /\ Only(a)
    BY <1>2 DEF Walk, Proceed, TypeOK, Only
  <1>. HIDE DEF s
  <1>4. c \in Call /\ c.keys = keys /\ c.left = keys /\ c.slot = s
    BY <1>1 DEF NoCall, Call, Replies
  <1>. HIDE DEF c
  <1>5. Thread(a)'
    BY <1>1, <1>2, <1>3, <1>4 DEF Thread, Busy
  <1>6. Cardinality(c.keys \ c.left) = 0 /\ c.keys \ c.left = {}
    BY <1>4, FS_EmptySet
  <1>7. /\ rpc[a].paid <= Units(rpc[a]) * N /\ failed[a] = {} /\ Units(rpc[a]) * N \in Nat
    BY <1>2, UnitsType, SlotFacts, Scale DEF CallInv, Thread
  <1>8. CallInv(a)'
    <2>1. rpc[a].method = "rewrite" /\ rpc[a].pass = "main" =>
             c.keys = rpc[a].keys /\ \/ rpc[a].editing = "active" \/ rpc[a].pin \notin c.left
                                     \/ c.slot = rpc[a].pin
      BY <1>1, <1>4 DEF Pinned
    <2>2. rpc[a].method = "enrich" => rpc[a].pass = "main"
      BY <1>2 DEF CallInv
    <2>3. rpc[a].paid <= Units(rpc[a]) * N + Cardinality(c.keys \ c.left)
      BY <1>6, <1>7
    <2>4. Units(rpc[a])' = Units(rpc[a])
      BY <1>3 DEF Units
    <2>. QED
      BY <1>3, <1>6, <1>7, <2>1, <2>2, <2>3, <2>4 DEF CallInv, Results
  <1>. QED
    BY <1>3, <1>5, <1>8

LEMMA BeginCallStep ==
    ASSUME IInv, NEW a \in Articles, BeginCall(a) PROVE IInv'
  <1>. DEFINE keys == KeysFor(a)
              prefer == Prefer(a, keys)
              start == IF prefer \in keys THEN prefer ELSE First(keys)
  <1>1. /\ keys \in SUBSET Slots /\ Thread(a) /\ CallInv(a) /\ TypeOK /\ pc[a] = "call"
    BY ConfiguredType, ThreadsTyped DEF IInv, KeysFor, Thread, Rpc, BeginCall
  <1>2. CASE Exhausted(a)
    BY <1>2, ExhaustedStep, UsageType DEF BeginCall, shared
  <1>3. CASE keys # {} /\ Pinned(a) /\ Walk(a, keys, start) /\ UNCHANGED failed
    <2>1. start \in keys
      BY <1>1, <1>3, ChosenFacts DEF First
    <2>2. keys = rpc[a].keys
      BY <1>3 DEF KeysFor
    <2>3. rpc[a].editing = "active" \/ rpc[a].pin \notin keys \/ start = rpc[a].pin
      BY DEF Prefer
    <2>. HIDE DEF keys, start
    <2>4. Only(a) /\ Thread(a)' /\ CallInv(a)'
      BY <1>1, <1>3, <2>1, <2>2, <2>3, WalkStep
    <2>. QED
      BY <2>4, QuietStep, UsageType DEF BeginCall, shared
  <1>4. CASE /\ keys # {} /\ ~Pinned(a) /\ UNCHANGED failed
             /\ Proceed(a, "pick", [NoCall EXCEPT !.keys = keys, !.index = cursor])
    <2>. DEFINE c == [NoCall EXCEPT !.keys = keys, !.index = cursor]
    <2>1. keys = Configured
      BY <1>4 DEF KeysFor
    <2>2. /\ pc'[a] = "pick" /\ call'[a] = c /\ rpc'[a] = rpc[a] /\ failed'[a] = failed[a]
          /\ Only(a)
      BY <1>1, <1>4 DEF Proceed, TypeOK, Only
    <2>3. cursor \in Nat
      BY <1>1 DEF TypeOK
    <2>. HIDE DEF keys
    <2>4. c \in Call /\ c.keys = keys
      BY <1>1, <2>3 DEF NoCall, Call, Replies
    <2>. HIDE DEF c
    <2>5. Thread(a)'
      BY <1>1, <2>2, <2>4 DEF Thread, Busy
    <2>6. calm' = calm /\ Configured' = Configured
      BY DEF BeginCall, load, shared, Configured
    <2>7. CallInv(a)'
      BY <1>1, <1>4, <2>1, <2>2, <2>4, <2>6 DEF CallInv, Units, Results, Pinned
    <2>. QED
      BY <2>2, <2>5, <2>7, QuietStep, UsageType DEF BeginCall, shared
  <1>. QED
    BY <1>2, <1>3, <1>4 DEF BeginCall

\* The slot under the cursor is chosen once more: it was one of those that
\* are to be chosen next.
LEMMA PickCommitsStep ==
    ASSUME IInv, NEW a \in Articles, PickCommits(a) PROVE IInv'
  <1>. DEFINE c == call[a]
              s == Chosen(c.keys, c.index)
  <1>1. /\ Thread(a) /\ CallInv(a) /\ TypeOK /\ pc[a] = "pick" /\ c.keys # {}
        /\ c.keys \in SUBSET Slots /\ c.index \in Nat /\ ~Pinned(a)
    <2>1. Thread(a) /\ CallInv(a) /\ TypeOK /\ pc[a] = "pick"
      BY ThreadsTyped DEF IInv, PickCommits
    <2>2. c.keys \in SUBSET Slots /\ c.index \in Nat /\ c.keys # {}
      BY <2>1 DEF Thread, Call, CallInv
    <2>3. ~Pinned(a)
      BY <2>1 DEF CallInv
    <2>. QED
      BY <2>1, <2>2, <2>3
  <1>2. s \in c.keys /\ Rank(c.keys, s) = c.index % Cardinality(c.keys)
    BY <1>1, ChosenFacts
  <1>3. /\ Walk(a, c.keys, s) /\ UNCHANGED <<enabled, usage, failed>>
        /\ cursor' = c.index + 1 /\ calm' = (calm /\ cursor = c.index)
        /\ picks' = IF calm' THEN [picks EXCEPT ![s] = @ + 1] ELSE NoPicks
    BY DEF PickCommits, Advance
  <1>4. Only(a) /\ Thread(a)' /\ CallInv(a)'
    <2>. HIDE DEF c, s
    <2>. QED
      BY <1>1, <1>2, <1>3, WalkStep
  <1>5. TypeOK' /\ \A b \in Articles : CallInv(b)'
    <2>1. picks \in [Slots -> Nat] /\ s \in Slots
      BY <1>1, <1>2 DEF TypeOK
    <2>2. picks' \in [Slots -> Nat]
      <3>. HIDE DEF s
      <3>1. NoPicks \in [Slots -> Nat]
        BY DEF NoPicks
      <3>2. [picks EXCEPT ![s] = @ + 1] \in [Slots -> Nat]
        BY <2>1
      <3>. QED
        BY <1>3, <3>1, <3>2, Zenon
    <2>3. calm' \in BOOLEAN /\ (calm' => calm) /\ cursor' \in Nat
      BY <1>1, <1>3 DEF TypeOK
    <2>4. enabled' = enabled /\ usage' \subseteq Slots \X Replies
      BY <1>3, UsageType
    <2>. QED
      BY <1>4, <2>2, <2>3, <2>4, ThreadStep
  <1>6. LoadInv'
    <2>. DEFINE K == Configured
                k == Cardinality(K)
                m == cursor % k
    <2>. SUFFICES ASSUME calm', Configured' # {}
                  PROVE  \E q \in Nat : \A x \in Configured' :
                             picks'[x] = IF Rank(Configured', x) < cursor' % Cardinality(Configured')
                                         THEN q + 1 ELSE q
      BY DEF LoadInv
    <2>1. calm /\ cursor = c.index /\ c.keys = K /\ Configured' = K /\ cursor \in Nat
      <3>1. calm /\ cursor = c.index
        BY <1>3
      <3>2. c.keys = K
        BY <1>1, <3>1 DEF CallInv
      <3>3. Configured' = K
        BY <1>3 DEF Configured
      <3>. QED
        BY <1>1, <3>1, <3>2, <3>3 DEF TypeOK
    <2>2. PICK q \in Nat : \A x \in K : picks[x] = IF Rank(K, x) < m THEN q + 1 ELSE q
      BY <2>1 DEF IInv, LoadInv
    <2>3. K \in SUBSET Slots /\ k \in Nat \ {0}
      BY <1>1, <2>1, ConfiguredType, SlotFacts
    <2>4. m \in 0..(k - 1) /\ (cursor + 1) % k = IF m = k - 1 THEN 0 ELSE m + 1
      BY <2>1, <2>3, NextRemainder
    <2>5. \A x \in K : /\ Rank(K, x) \in 0..(k - 1)
                       /\ Rank(K, x) = m <=> x = s
      <3>1. \A x \in K : Rank(K, x) \in 0..(k - 1)
        BY <2>3, RankFacts
      <3>2. s \in K /\ Rank(K, s) = m
        BY <1>2, <2>1
      <3>3. \A x, y \in K : Rank(K, x) = Rank(K, y) => x = y
        BY <2>3, RankFacts
      <3>. QED
        BY <3>1, <3>2, <3>3
    <2>6. \A x \in K : picks'[x] = IF x = s THEN picks[x] + 1 ELSE picks[x]
      BY <1>1, <1>3, <2>3 DEF TypeOK
    <2>. HIDE DEF K, k, m, s
    <2>7. \A x \in K : picks'[x] = IF Rank(K, x) <= m THEN q + 1 ELSE q
      BY <2>2, <2>4, <2>5, <2>6, <2>3
    <2>8. CASE m = k - 1
      <3>1. \A x \in K : picks'[x] = IF Rank(K, x) < 0 THEN (q + 1) + 1 ELSE q + 1
        BY <2>3, <2>4, <2>5, <2>7, <2>8
      <3>2. q + 1 \in Nat /\ cursor' % k = 0
        BY <1>3, <2>1, <2>4, <2>8
      <3>. QED
        BY <2>1, <3>1, <3>2 DEF k
    <2>9. CASE m # k - 1
      <3>1. \A x \in K : picks'[x] = IF Rank(K, x) < m + 1 THEN q + 1 ELSE q
        BY <2>3, <2>4, <2>5, <2>7
      <3>2. q \in Nat /\ cursor' % k = m + 1
        BY <1>3, <2>1, <2>2, <2>4, <2>9
      <3>. QED
        BY <2>1, <3>1, <3>2 DEF k
    <2>. QED
      BY <2>8, <2>9
  <1>. QED
    BY <1>5, <1>6 DEF IInv

LEMMA SlotRepliesStep ==
    ASSUME IInv, NEW a \in Articles, NEW reply \in Replies, SlotReplies(a, reply)
    PROVE  IInv'
  <1>. DEFINE c == call[a]
              r == rpc[a]
              f == [c EXCEPT !.reply = reply]
              b == <<c.slot, reply>> \in usage
              d == [f EXCEPT !.found = b]
              e == [r EXCEPT !.paid = @ + 1]
              g == IF reply = "error" THEN failed[a] \cup {c.slot} ELSE failed[a]
              tried == c.keys \ c.left
  <1>1. /\ Thread(a) /\ CallInv(a) /\ TypeOK /\ pc[a] = "walk" /\ c \in Call /\ r \in Rpc
        /\ c.slot \in c.left /\ c.left \subseteq c.keys /\ failed[a] = tried
        /\ r.paid <= Units(r) * N + Cardinality(tried)
    BY ThreadsTyped DEF IInv, SlotReplies, Thread, CallInv
  <1>2. /\ pc'[a] = "record" /\ rpc'[a] = e /\ failed'[a] = g /\ Only(a)
        /\ call'[a] = d
    <2>1. /\ call' = [call EXCEPT ![a].reply = reply,
                                  ![a].found = <<c.slot, reply>> \in usage]
          /\ pc' = [pc EXCEPT ![a] = "record"] /\ rpc' = [rpc EXCEPT ![a].paid = @ + 1]
          /\ failed' = [failed EXCEPT ![a] = IF reply = "error" THEN @ \cup {c.slot} ELSE @]
      BY DEF SlotReplies
    <2>2. /\ call \in [Articles -> Call] /\ pc \in [Articles -> {"idle", "enriched"} \cup Busy \cup Results]
          /\ rpc \in [Articles -> Rpc] /\ failed \in [Articles -> SUBSET Slots]
      BY <1>1 DEF TypeOK
    <2>3. call'[a] = d /\ call' = [call EXCEPT ![a] = d]
      BY <2>1, <2>2
    <2>4. rpc'[a] = e /\ rpc' = [rpc EXCEPT ![a] = e]
      BY <2>1, <2>2
    <2>5. failed'[a] = g /\ failed' = [failed EXCEPT ![a] = g]
      BY <2>1, <2>2
    <2>6. pc'[a] = "record" /\ pc' = [pc EXCEPT ![a] = "record"]
      BY <2>1, <2>2
    <2>. HIDE DEF d, e, g
    <2>. QED
      BY <2>3, <2>4, <2>5, <2>6 DEF Only
  <1>3. /\ f \in Call /\ f.keys = c.keys /\ f.left = c.left /\ f.slot = c.slot
        /\ f.reply = reply
    BY <1>1 DEF Call
  <1>4. /\ d \in Call /\ d.keys = c.keys /\ d.left = c.left /\ d.slot = c.slot
        /\ d.reply = reply
    <2>1. b \in BOOLEAN
      OBVIOUS
    <2>. HIDE DEF f, b
    <2>. QED
      BY <1>3, <2>1 DEF Call
  <1>5. /\ e \in Rpc /\ e.paid = r.paid + 1 /\ e.method = r.method /\ e.pass = r.pass
        /\ e.attempt = r.attempt /\ e.pin = r.pin /\ e.editing = r.editing /\ e.keys = r.keys
    BY <1>1 DEF Rpc
  <1>6. c.slot \in Slots /\ g \in SUBSET Slots
    BY <1>1 DEF Thread, Call
  <1>. HIDE DEF d, e, f
  <1>7. Thread(a)'
    BY <1>1, <1>2, <1>4, <1>5, <1>6 DEF Thread, Busy
  <1>8. CallInv(a)'
    <2>1. Units(e) = Units(r)
      BY <1>5 DEF Units
    <2>2. e.paid <= Units(e) * N + Cardinality(tried) + 1
      <3>1. Cardinality(tried) \in Nat
        BY <1>1, TriedFacts DEF Call
      <3>2. Units(r) * N \in Nat /\ r.paid \in Nat
        BY <1>1, UnitsType, SlotFacts, Scale DEF Rpc
      <3>. QED
        BY <1>1, <1>5, <2>1, <3>1, <3>2
    <2>3. r.method = "enrich" => r.pass = "main"
      BY <1>1 DEF CallInv
    <2>4. r.method = "rewrite" /\ r.pass = "main" =>
             c.keys = r.keys /\ (r.editing = "active" \/ r.pin \notin c.left \/ c.slot = r.pin)
      BY <1>1 DEF CallInv
    <2>. QED
      BY <1>1, <1>2, <1>4, <1>5, <2>2, <2>3, <2>4 DEF CallInv, Results
  <1>. QED
    BY <1>2, <1>7, <1>8, QuietStep, UsageType DEF SlotReplies, shared

LEMMA RecordCommitsStep ==
    ASSUME IInv, NEW a \in Articles, RecordCommits(a) PROVE IInv'
  <1>. DEFINE c == call[a]
              r == rpc[a]
              left == LeftAfter(c)
              s == Nearest(c.slot, left)
              f == [c EXCEPT !.left = left]
              d == [f EXCEPT !.slot = s]
              tried == c.keys \ c.left
  <1>1. /\ Thread(a) /\ CallInv(a) /\ TypeOK /\ pc[a] = "record" /\ c \in Call /\ r \in Rpc
        /\ c.slot \in c.left /\ c.left \subseteq c.keys /\ c.keys \in SUBSET Slots
        /\ failed[a] = IF c.reply = "error" THEN tried \cup {c.slot} ELSE tried
        /\ r.paid <= Units(r) * N + Cardinality(tried) + 1
    BY ThreadsTyped DEF IInv, RecordCommits, Thread, CallInv, Call
  <1>2. usage' \subseteq Slots \X Replies /\ UNCHANGED <<cursor, enabled, load>>
    BY <1>1, UsageType DEF RecordCommits, Call
  <1>3. CASE c.reply = "success" /\ Proceed(a, "judge", c) /\ UNCHANGED failed
    <2>1. /\ pc'[a] = "judge" /\ call'[a] = c /\ rpc'[a] = r /\ failed'[a] = failed[a]
          /\ Only(a)
      BY <1>1, <1>3 DEF Proceed, TypeOK, Only
    <2>2. Thread(a)'
      BY <1>1, <2>1 DEF Thread, Busy
    <2>3. CallInv(a)'
      BY <1>1, <2>1 DEF CallInv, Units, Results
    <2>. QED
      BY <1>2, <2>1, <2>2, <2>3, QuietStep
  <1>4. CASE Exhausted(a)
    BY <1>2, <1>4, ExhaustedStep
  <1>5. CASE /\ c.reply = "error" /\ left # {} /\ UNCHANGED failed
             /\ Proceed(a, "walk", [c EXCEPT !.left = left, !.slot = s])
    <2>1. left = c.left \ {c.slot} /\ left \subseteq c.keys /\ left \in SUBSET Slots
      BY <1>1 DEF LeftAfter
    <2>2. s \in left
      BY <1>1, <1>5, <2>1, NearestFacts
    <2>3. [c EXCEPT !.left = left, !.slot = s] = d
      BY <1>1 DEF Call
    <2>. HIDE DEF left, s
    <2>4. f \in Call /\ f.keys = c.keys /\ f.left = left
      BY <1>1, <2>1 DEF Call
    <2>5. d \in Call /\ d.keys = c.keys /\ d.left = left /\ d.slot = s
      <3>1. s \in Slots
        BY <2>1, <2>2
      <3>. HIDE DEF f
      <3>. QED
        BY <2>4, <3>1 DEF Call
    <2>. HIDE DEF d
    <2>6. /\ pc'[a] = "walk" /\ call'[a] = d /\ rpc'[a] = r /\ failed'[a] = failed[a]
          /\ Only(a)
      BY <1>1, <1>5, <2>3 DEF Proceed, TypeOK, Only
    <2>7. Thread(a)'
      BY <1>1, <2>1, <2>2, <2>5, <2>6 DEF Thread, Busy
    <2>8. /\ d.keys \ d.left = tried \cup {c.slot}
          /\ Cardinality(d.keys \ d.left) = Cardinality(tried) + 1
      <3>1. /\ c.keys \ (c.left \ {c.slot}) = tried \cup {c.slot}
            /\ Cardinality(c.keys \ (c.left \ {c.slot})) = Cardinality(tried) + 1
        <4>1. c.keys \in SUBSET Slots /\ c.left \in SUBSET c.keys /\ c.slot \in c.left
          BY <1>1
        <4>. HIDE DEF c
        <4>. QED
          BY <4>1, TriedFacts, Zenon DEF tried
      <3>2. d.keys \ d.left = c.keys \ (c.left \ {c.slot})
        BY <2>1, <2>5
      <3>. QED
        BY <3>1, <3>2
    <2>9. Cardinality(tried) \in Nat /\ Units(r) * N \in Nat /\ r.paid \in Nat
      BY <1>1, TriedFacts, UnitsType, SlotFacts, Scale DEF Rpc
    <2>10. r.paid <= Units(r) * N + Cardinality(d.keys \ d.left)
      BY <1>1, <2>8, <2>9
    <2>11. r.method = "rewrite" /\ r.pass = "main" =>
             d.keys = r.keys /\ (r.editing = "active" \/ r.pin \notin d.left \/ d.slot = r.pin)
      BY <1>1, <2>1, <2>5 DEF CallInv
    <2>12. r.method = "enrich" => r.pass = "main"
      BY <1>1 DEF CallInv
    <2>13. CallInv(a)'
      <3>1. Units(rpc[a])' = Units(r)
        BY <2>6 DEF Units
      <3>. QED
        BY <1>1, <1>5, <2>6, <2>8, <2>10, <2>11, <2>12, <3>1 DEF CallInv, Results
    <2>. QED
      BY <1>2, <2>6, <2>7, <2>13, QuietStep
  <1>. QED
    BY <1>3, <1>4, <1>5 DEF RecordCommits

LEMMA LostStep ==
    ASSUME IInv, NEW a \in Articles, PickCollides(a) \/ RecordFails(a) \/ Restart(a)
    PROVE  IInv'
  BY EndStep, UsageType DEF PickCollides, RecordFails, Restart, shared, Results

LEMMA JudgeEnrichmentStep ==
    ASSUME IInv, NEW a \in Articles, JudgeEnrichment(a) PROVE IInv'
  <1>. DEFINE r == [NoRpc EXCEPT !.pin = call[a].slot]
  <1>1. Thread(a) /\ CallInv(a) /\ pc[a] = "judge" /\ rpc[a].pass # "translate"
        /\ UNCHANGED <<shared, load>>
    BY ThreadsTyped DEF IInv, JudgeEnrichment, CallInv
  <1>2. CASE Leave(a, "enriched", r)
    <2>1. call[a].slot \in Slots \cup {Nothing}
      BY <1>1 DEF Thread, Call
    <2>2. NoRpc \in Rpc /\ NoRpc.paid = 0 /\ NoRpc.method = "enrich" /\ NoRpc.pass = "main"
      BY NoRpcType
    <2>3. r \in Rpc /\ r.paid = 0 /\ r.method = "enrich" /\ r.pass = "main"
      BY <2>1, <2>2 DEF Rpc
    <2>. HIDE DEF r
    <2>. QED
      BY <1>1, <1>2, <2>3, LeaveStep, UsageType DEF shared, Results
  <1>3. CASE NextAttempt(a, "none")
    BY <1>1, <1>3, NextAttemptStep
  <1>. QED
    BY <1>2, <1>3 DEF JudgeEnrichment

LEMMA JudgeRewriteStep ==
    ASSUME IInv, NEW a \in Articles, JudgeRewrite(a) PROVE IInv'
  <1>1. pc[a] = "judge" /\ rpc[a].method = "rewrite" /\ rpc[a].pass = "main"
        /\ UNCHANGED <<shared, load>>
    BY DEF JudgeRewrite, Pinned
  <1>2. ASSUME NEW editing \in {"none", "draft", "active"}, NextAttempt(a, editing)
        PROVE  IInv'
    BY <1>1, <1>2, NextAttemptStep
  <1>3. CASE Leave(a, "call", [rpc[a] EXCEPT !.pass = "review"])
    BY <1>1, <1>3, NextPassStep
  <1>4. CASE End(a, "drafted")
    BY <1>1, <1>4, EndStep, UsageType DEF shared, Results
  <1>. QED
    BY <1>2, <1>3, <1>4 DEF JudgeRewrite

LEMMA JudgeReviewStep ==
    ASSUME IInv, NEW a \in Articles, JudgeReview(a) PROVE IInv'
  <1>1. /\ pc[a] = "judge" /\ rpc[a].pass = "review" /\ UNCHANGED <<shared, load>>
        /\ Thread(a) /\ CallInv(a)
    BY ThreadsTyped DEF JudgeReview, IInv
  <1>2. rpc[a].method = "rewrite"
    BY <1>1 DEF Thread, CallInv, Rpc
  <1>3. CASE NextAttempt(a, "active")
    BY <1>1, <1>3, NextAttemptStep
  <1>4. CASE Leave(a, "call", [rpc[a] EXCEPT !.pass = "translate"])
    BY <1>1, <1>2, <1>4, NextPassStep
  <1>5. CASE End(a, "drafted")
    BY <1>1, <1>5, EndStep, UsageType DEF shared, Results
  <1>. QED
    BY <1>3, <1>4, <1>5 DEF JudgeReview

LEMMA JudgeTranslationStep ==
    ASSUME IInv, NEW a \in Articles, JudgeTranslation(a) PROVE IInv'
  BY EndStep, UsageType DEF JudgeTranslation, shared, Results

\* Once slots were switched, calm says no more.
LEMMA SwitchSlotsStep ==
    ASSUME IInv, NEW S \in Choices, SwitchSlots(S) PROVE IInv'
  <1>1. /\ enabled' = S /\ calm' = FALSE /\ picks' = NoPicks
        /\ UNCHANGED <<cursor, usage, pc, rpc, call, failed>>
    BY DEF SwitchSlots
  <1>2. NoPicks \in [Slots -> Nat]
    BY DEF NoPicks
  <1>3. TypeOK'
    BY <1>1, <1>2 DEF IInv, TypeOK
  <1>4. ASSUME NEW a \in Articles
        PROVE  CallInv(a)'
    <2>1. CallInv(a)
      BY DEF IInv
    <2>. QED
      BY <1>1, <2>1 DEF CallInv, Units, Pinned
  <1>5. LoadInv'
    BY <1>1 DEF LoadInv
  <1>. QED
    BY <1>3, <1>4, <1>5 DEF IInv

LEMMA StutterStep == ASSUME IInv, UNCHANGED vars PROVE IInv'
  <1>1. UNCHANGED <<cursor, enabled, usage, pc, rpc, call, failed, picks, calm>>
    BY DEF vars
  <1>2. TypeOK'
    BY <1>1 DEF IInv, TypeOK
  <1>3. ASSUME NEW a \in Articles
        PROVE  CallInv(a)'
    <2>1. CallInv(a)
      BY DEF IInv
    <2>. QED
      BY <1>1, <2>1 DEF CallInv, Units, Pinned, Configured
  <1>4. LoadInv'
    BY <1>1 DEF IInv, LoadInv, Configured, Rank
  <1>. QED
    BY <1>2, <1>3, <1>4 DEF IInv

-----------------------------------------------------------------------------
(* Theorems *)

LEMMA InvInit == ASSUME Init PROVE IInv
  <1>1. /\ cursor = 0 /\ usage = Recorded /\ enabled \in Choices /\ picks = NoPicks
        /\ calm = TRUE /\ pc = [a \in Articles |-> "idle"]
        /\ rpc = [a \in Articles |-> NoRpc] /\ call = [a \in Articles |-> NoCall]
        /\ failed = [a \in Articles |-> {}]
    BY DEF Init
  <1>2. TypeOK
    BY <1>1, RotationAssumption, NoRpcType, NoCallType DEF TypeOK, NoPicks, Replies, Busy
  <1>3. ASSUME NEW a \in Articles
        PROVE  CallInv(a)
    BY <1>1, NoRpcType DEF CallInv, Results
  <1>4. LoadInv
    <2>. SUFFICES ASSUME Configured # {}
                  PROVE  \A s \in Configured :
                             picks[s] = IF Rank(Configured, s) < cursor % Cardinality(Configured)
                                        THEN 0 + 1 ELSE 0
      BY DEF LoadInv
    <2>. DEFINE k == Cardinality(Configured)
    <2>1. Configured \in SUBSET Slots /\ k \in Nat \ {0}
      BY <1>2, ConfiguredType, SlotFacts
    <2>2. \A s \in Configured : picks[s] = 0 /\ Rank(Configured, s) \in 0..(k - 1)
      BY <1>1, <2>1, RankFacts DEF NoPicks
    <2>. HIDE DEF k
    <2>3. 0 % k = 0
      BY <2>1
    <2>4. cursor % k = 0
      BY <1>1, <2>3
    <2>5. \A s \in Configured : ~(Rank(Configured, s) < 0)
      BY <2>1, <2>2
    <2>. QED
      BY <2>2, <2>4, <2>5 DEF k
  <1>. QED
    BY <1>2, <1>3, <1>4 DEF IInv

LEMMA InvNext == ASSUME IInv, [Next]_vars PROVE IInv'
  <1>1. ASSUME NEW a \in Articles, RpcStep(a)
        PROVE  IInv'
    BY <1>1, BeginCallStep, PickCommitsStep, SlotRepliesStep, RecordCommitsStep, LostStep,
       JudgeEnrichmentStep, JudgeRewriteStep, JudgeReviewStep, JudgeTranslationStep DEF RpcStep
  <1>2. ASSUME NEW a \in Articles, StartEnrich(a) \/ StartRewrite(a) \/ Restart(a)
        PROVE  IInv'
    BY <1>2, StartEnrichStep, StartRewriteStep, LostStep
  <1>3. ASSUME NEW S \in Choices, SwitchSlots(S)
        PROVE  IInv'
    BY <1>3, SwitchSlotsStep
  <1>4. CASE UNCHANGED vars
    BY <1>4, StutterStep
  <1>. QED
    BY <1>1, <1>2, <1>3, <1>4 DEF Next

\* The invariant holds in every reachable state.
THEOREM InvariantHolds == Spec => []IInv
  BY InvInit, InvNext, PTL DEF Spec

\* The rows and the threads keep their shape; a thread is always on a slot
\* that its call has left to ask.
THEOREM TypeCorrect == Spec => []TypeOK
  <1>1. IInv => TypeOK
    BY DEF IInv
  <1>. QED
    BY <1>1, InvariantHolds, PTL

\* However replies, retries and switches interleave, one RPC pays for a
\* bounded number of requests.
THEOREM SpendIsBounded == Spec => []SpendBounded
  BY InvariantHolds, InvSpendBounded, PTL

\* A text is by the slot that did the enrichment, unless that slot failed or
\* lost its key, or the text is the length editor's.
THEOREM AuthorIsKept == Spec => []SameAuthor
  BY InvariantHolds, InvSameAuthor, PTL

\* Picks that do not overlap load the configured slots evenly, whatever their
\* number and however often the cursor has gone round.
THEOREM LoadIsEven == Spec => []EvenLoad
  BY InvariantHolds, InvEvenLoad, PTL

\* A step of a thread moves no other one.
LEMMA OthersStay ==
    ASSUME TypeOK, NEW a \in Articles, NEW b \in Articles, a # b,
           StartEnrich(b) \/ StartRewrite(b) \/ RpcStep(b) \/ Restart(b)
    PROVE  pc'[a] = pc[a]
  <1>1. \A l, r : Leave(b, l, r) => \E x : pc' = [pc EXCEPT ![b] = x]
    BY DEF Leave
  <1>2. \A l, c : Proceed(b, l, c) => \E x : pc' = [pc EXCEPT ![b] = x]
    BY DEF Proceed
  <1>3. \A l : End(b, l) => \E x : pc' = [pc EXCEPT ![b] = x]
    BY <1>1 DEF End
  <1>4. \A e : NextAttempt(b, e) => \E x : pc' = [pc EXCEPT ![b] = x]
    BY <1>1, <1>3 DEF NextAttempt
  <1>5. \A k, t : Walk(b, k, t) => \E x : pc' = [pc EXCEPT ![b] = x]
    BY <1>2 DEF Walk
  <1>6. Exhausted(b) => \E x : pc' = [pc EXCEPT ![b] = x]
    BY <1>3 DEF Exhausted
  <1>7. StartEnrich(b) \/ StartRewrite(b) \/ Restart(b) \/ PickCollides(b) \/ RecordFails(b)
            => \E x : pc' = [pc EXCEPT ![b] = x]
    BY <1>1, <1>3, Zenon DEF StartEnrich, StartRewrite, Restart, PickCollides, RecordFails
  <1>8. BeginCall(b) \/ PickCommits(b) \/ RecordCommits(b)
            => \E x : pc' = [pc EXCEPT ![b] = x]
    BY <1>2, <1>5, <1>6, Zenon DEF BeginCall, PickCommits, RecordCommits
  <1>9. \A y : SlotReplies(b, y) => \E x : pc' = [pc EXCEPT ![b] = x]
    BY DEF SlotReplies
  <1>10. JudgeEnrichment(b) \/ JudgeRewrite(b) \/ JudgeReview(b) \/ JudgeTranslation(b)
            => \E x : pc' = [pc EXCEPT ![b] = x]
    BY <1>1, <1>3, <1>4, Zenon
    DEF JudgeEnrichment, JudgeRewrite, JudgeReview, JudgeTranslation
  <1>11. \E x : pc' = [pc EXCEPT ![b] = x]
    BY <1>7, <1>8, <1>9, <1>10 DEF RpcStep
  <1>. QED
    BY <1>11 DEF TypeOK

\* A call gives up only after it has called every slot that it had a key for.
THEOREM GivesUpAfterAll == Spec => ExhaustedAfterAll
  <1>. DEFINE GivesUp(a) == pc[a] = "record" /\ pc'[a] \in {"exhausted", "drafted"}
  <1>1. ASSUME IInv, Next, NEW a \in Articles, GivesUp(a)
        PROVE  failed[a] = call[a].keys
    <2>1. TypeOK /\ CallInv(a) /\ Thread(a) /\ pc'[a] # pc[a]
      BY <1>1, ThreadsTyped DEF IInv
    <2>2. PICK b \in Articles : StartEnrich(b) \/ StartRewrite(b) \/ RpcStep(b) \/ Restart(b)
      BY <1>1, <2>1 DEF Next, SwitchSlots
    <2>3. b = a
      BY <2>1, <2>2, OthersStay
    <2>4. RpcStep(a) \/ Restart(a)
      BY <1>1, <2>2, <2>3 DEF StartEnrich, StartRewrite
    <2>5. ~End(a, "lost")
      BY <1>1, <2>1 DEF End, Leave, TypeOK
    <2>6. RecordCommits(a)
      BY <1>1, <2>4, <2>5 DEF RpcStep, Restart, BeginCall, PickCommits, PickCollides,
         SlotReplies, RecordFails, JudgeEnrichment, JudgeRewrite, JudgeReview, JudgeTranslation
    <2>7. \A l, c : Proceed(a, l, c) => pc'[a] = l
      BY <2>1 DEF Proceed, TypeOK
    <2>8. call[a].reply = "error" /\ LeftAfter(call[a]) = {}
      BY <1>1, <2>6, <2>7 DEF RecordCommits
    <2>9. failed[a] = (call[a].keys \ call[a].left) \cup {call[a].slot}
      BY <1>1, <2>1, <2>8 DEF CallInv
    <2>. QED
      BY <1>1, <2>1, <2>8, <2>9 DEF LeftAfter, Thread
  <1>2. ASSUME IInv, [Next]_vars
        PROVE  [\A a \in Articles : GivesUp(a) => failed[a] = call[a].keys]_vars
    BY <1>1, <1>2
  <1>. QED
    BY <1>2, InvariantHolds, PTL DEF ExhaustedAfterAll, Spec
=============================================================================
