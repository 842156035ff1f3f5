------------------------- MODULE DraftBudgetProofs -------------------------
(***************************************************************************)
(* For every number of job instances and every limit: the daily limit is   *)
(* looked at before the slow calls and is therefore exceeded, but by fewer *)
(* drafts than there are instances; an hour exceeds its target by no more  *)
(* than the other instances have reserved; and the count of a live burst,  *)
(* made in two steps after each draft, loses a draft only to a tick that   *)
(* dies between them, never to another tick that counts at the same time.  *)
(***************************************************************************)
EXTENDS DraftBudget, FiniteSetTheorems, TLAPS

\* The part of the type invariant the argument needs.
CountsOK ==
    /\ today \in Nat /\ extra \in Nat
    /\ pc \in [Ticks -> Phase]
    /\ basis \in [Ticks -> {"limit", "burst"}]

BudgetInv == CountsOK /\ OvershootAccounted

LEMMA OnLimitFinite ==
    /\ OnLimit \subseteq Ticks
    /\ IsFiniteSet(OnLimit)
    /\ Cardinality(OnLimit) \in Nat
    /\ Cardinality(Ticks) \in Nat
    /\ Cardinality(OnLimit) <= Cardinality(Ticks)
  <1>1. OnLimit \subseteq Ticks
    BY DEF OnLimit
  <1>2. QED
    BY <1>1, FS_Subset, FS_CardinalityType, BudgetAssumption

\* A step that makes no draft and takes no candidate up on the limit.
LEMMA NoNewCandidate ==
    ASSUME BudgetInv, CountsOK', UNCHANGED <<today, extra>>,
           OnLimit' \subseteq OnLimit
    PROVE  BudgetInv'
  <1>1. Cardinality(OnLimit') \in Nat /\ Cardinality(OnLimit') <= Cardinality(OnLimit)
    BY OnLimitFinite, FS_Subset, FS_CardinalityType
  <1>2. QED
    BY <1>1, OnLimitFinite, BudgetAssumption
       DEF BudgetInv, OvershootAccounted, CountsOK

LEMMA InitBudget == Init => BudgetInv
  <1> SUFFICES ASSUME Init PROVE BudgetInv
    OBVIOUS
  <1>1. CountsOK
    BY DEF Init, CountsOK, Phase
  <1>2. OnLimit = {}
    BY DEF Init, OnLimit
  <1>3. Cardinality(OnLimit) = 0
    BY <1>2, FS_EmptySet
  <1>4. Cardinality(Ticks) \in Nat
    BY OnLimitFinite
  <1>5. QED
    BY <1>1, <1>3, <1>4, BudgetAssumption
       DEF Init, BudgetInv, OvershootAccounted

LEMMA CheckLimitKeeps ==
    ASSUME BudgetInv, NEW t \in Ticks, CheckLimit(t)
    PROVE  BudgetInv'
  <1> USE DEF Goto, LimitReached
  <1>1. CountsOK'
    BY DEF CheckLimit, BudgetInv, CountsOK, Phase, history, counters
  <1>2. UNCHANGED <<today, extra>>
    BY DEF CheckLimit, counters
  <1>3. CASE today >= EffectiveDailyLimit(t) \/ Live(Seen(t))
    <2>1. OnLimit' \subseteq OnLimit
      BY <1>3 DEF CheckLimit, BudgetInv, CountsOK, OnLimit
    <2>2. QED
      BY <1>1, <1>2, <2>1, NoNewCandidate
  <1>4. CASE ~(today >= EffectiveDailyLimit(t)) /\ ~Live(Seen(t))
    <2>1. today < DailyLimit
      BY <1>4, BudgetAssumption
         DEF EffectiveDailyLimit, BudgetInv, CountsOK
    <2>2. Cardinality(OnLimit)' \in Nat /\ Cardinality(OnLimit)' <= Cardinality(Ticks)
      <3>1. OnLimit' \subseteq Ticks
        BY DEF OnLimit
      <3>2. QED
        BY <3>1, FS_Subset, FS_CardinalityType, BudgetAssumption
    <2>3. QED
      BY <1>1, <1>2, <2>1, <2>2, OnLimitFinite, BudgetAssumption
         DEF BudgetInv, OvershootAccounted, CountsOK
  <1>5. QED
    BY <1>3, <1>4

LEMMA RewriteKeeps ==
    ASSUME BudgetInv, NEW t \in Ticks, RewriteSucceeds(t)
    PROVE  BudgetInv'
  <1> USE DEF Goto
  <1>1. CountsOK' /\ today' = today + 1
    BY DEF RewriteSucceeds, BudgetInv, CountsOK, Phase
  <1>2. OnLimit' \subseteq OnLimit \ {t}
    BY DEF RewriteSucceeds, BudgetInv, CountsOK, OnLimit
  <1>3. CASE basis[t] = "burst"
    <2>1. extra' = extra + 1
      BY <1>3 DEF RewriteSucceeds
    <2>2. Cardinality(OnLimit') \in Nat
          /\ Cardinality(OnLimit') <= Cardinality(OnLimit)
      BY <1>2, OnLimitFinite, FS_Subset, FS_CardinalityType
    <2>3. QED
      BY <1>1, <2>1, <2>2, OnLimitFinite, BudgetAssumption
         DEF BudgetInv, OvershootAccounted, CountsOK
  <1>4. CASE basis[t] # "burst"
    <2>1. extra' = extra /\ t \in OnLimit
      BY <1>4 DEF RewriteSucceeds, OnLimit, BudgetInv, CountsOK
    <2>2. /\ IsFiniteSet(OnLimit \ {t})
          /\ Cardinality(OnLimit \ {t}) = Cardinality(OnLimit) - 1
      BY <2>1, OnLimitFinite, FS_RemoveElement
    <2>3. Cardinality(OnLimit') \in Nat
          /\ Cardinality(OnLimit') <= Cardinality(OnLimit) - 1
      BY <1>2, <2>2, FS_Subset, FS_CardinalityType
    <2>4. QED
      BY <1>1, <2>1, <2>3, OnLimitFinite, BudgetAssumption
         DEF BudgetInv, OvershootAccounted, CountsOK
  <1>5. QED
    BY <1>3, <1>4

LEMMA NextBudget == BudgetInv /\ [Next]_vars => BudgetInv'
  <1> SUFFICES ASSUME BudgetInv, [Next]_vars
               PROVE  BudgetInv'
    OBVIOUS
  <1> USE DEF Goto, NextOrFinish, counters, history
  <1>1. ASSUME NEW t \in Ticks,
               \/ BeginCycle(t) \/ EnrichAnswers(t) \/ CallFails(t)
               \/ LockBurst(t) \/ CommitBurst(t) \/ CycleRaises(t)
               \/ RaiseUncounted(t) \/ FinishCycle(t)
        PROVE  BudgetInv'
    <2>0. PICK label \in Phase :
            /\ pc' = [pc EXCEPT ![t] = label]
            /\ UNCHANGED <<today, extra, basis>>
            /\ label = "rewrite" => pc[t] = "enrich"
            /\ label # "enrich"
      <3>1. CASE BeginCycle(t)
        BY <3>1, Zenon DEF BeginCycle, Phase
      <3>2. CASE EnrichAnswers(t)
        BY <3>2, Zenon DEF EnrichAnswers, Phase
      <3>3. CASE CallFails(t)
        BY <3>3, Zenon DEF CallFails, Phase
      <3>4. CASE LockBurst(t)
        BY <3>4, Zenon DEF LockBurst, Phase
      <3>5. CASE CommitBurst(t)
        BY <3>5, Zenon DEF CommitBurst, Phase
      <3>6. CASE CycleRaises(t)
        BY <3>6, Zenon DEF CycleRaises, Phase
      <3>7. CASE FinishCycle(t)
        BY <3>7, Zenon DEF FinishCycle, Phase
      <3>8. CASE RaiseUncounted(t)
        BY <3>8, Zenon DEF RaiseUncounted, Phase
      <3>9. QED
        BY <1>1, <3>1, <3>2, <3>3, <3>4, <3>5, <3>6, <3>7, <3>8
    <2>1. CountsOK' /\ UNCHANGED <<today, extra>> /\ OnLimit' \subseteq OnLimit
      BY <2>0 DEF BudgetInv, CountsOK, OnLimit
    <2>2. QED
      BY <2>1, NoNewCandidate
  <1>2. ASSUME NEW t \in Ticks, CheckLimit(t)
        PROVE  BudgetInv'
    BY <1>2, CheckLimitKeeps
  <1>3. ASSUME NEW t \in Ticks, RewriteSucceeds(t)
        PROVE  BudgetInv'
    BY <1>3, RewriteKeeps
  <1>4. CASE DayBegins
    <2>1. CountsOK' /\ today' = 0 /\ extra' = 0 /\ OnLimit' = OnLimit
      BY <1>4 DEF DayBegins, BudgetInv, CountsOK, OnLimit
    <2>2. QED
      BY <2>1, OnLimitFinite, BudgetAssumption
         DEF BudgetInv, OvershootAccounted
  <1>5. CASE Restart
    <2>1. CountsOK' /\ UNCHANGED <<today, extra>> /\ OnLimit' \subseteq OnLimit
      BY <1>5 DEF Restart, BudgetInv, CountsOK, OnLimit, Phase
    <2>2. QED
      BY <2>1, NoNewCandidate
  <1>6. CASE \/ \E q \in Quotas : RequestBurst(q)
             \/ CancelBurst \/ BurstExpires \/ HourBegins \/ LocalDayBegins
             \/ WindowChanges \/ UNCHANGED vars
    <2>1. UNCHANGED <<today, extra, pc, basis>>
      BY <1>6, Zenon
         DEF RequestBurst, CancelBurst, BurstExpires, HourBegins,
             LocalDayBegins, WindowChanges, vars
    <2>2. CountsOK' /\ OnLimit' \subseteq OnLimit
      BY <2>1 DEF BudgetInv, CountsOK, OnLimit
    <2>3. QED
      BY <2>1, <2>2, NoNewCandidate
  <1>7. QED
    BY <1>1, <1>2, <1>3, <1>4, <1>5, <1>6 DEF Next, TickStep

\* On any day the drafts that the daily limit let pass exceed it by fewer than
\* there are instances of the dispatch job.
THEOREM LimitOvershootIsBounded == Spec => []OvershootBounded
  <1>1. BudgetInv => OvershootBounded
    BY OnLimitFinite, BudgetAssumption
       DEF BudgetInv, CountsOK, OvershootAccounted, OvershootBounded
  <1>2. QED
    BY <1>1, InitBudget, NextBudget, PTL DEF Spec

-----------------------------------------------------------------------------
(***************************************************************************)
(* Types.  The loop is on a candidate only while it has one, and a cycle   *)
(* that is over has none left.                                             *)
(***************************************************************************)

LoopInv ==
    \A t \in Ticks :
        /\ pc[t] = "check" => left[t] > 0
        /\ pc[t] \in {"idle", "finish"} => left[t] = 0

LEMMA CountedType ==
    ASSUME NEW b \in Burst
    PROVE  Counted(b) \in Burst
  BY DEF Counted, Burst, NoBurst, Live

LEMMA CountingFinite ==
    /\ IsFiniteSet(Counting) /\ Cardinality(Counting) \in Nat
  <1>1. Counting \subseteq Ticks
    BY DEF Counting
  <1>2. QED
    BY <1>1, FS_Subset, FS_CardinalityType, BudgetAssumption

LEMMA CommitTypes ==
    ASSUME TypeOK, NEW t \in Ticks, Commit(t) \/ Rollback(t)
    PROVE  burst' \in Burst /\ clearing' \in [Ticks -> BOOLEAN]
  <1>1. NoBurst \in Burst
    BY DEF NoBurst, Burst
  <1>2. clearing' = [clearing EXCEPT ![t] = FALSE]
    BY DEF Commit, Rollback
  <1>3. burst' = NoBurst \/ burst' = burst
    BY DEF Commit, Rollback
  <1>4. QED
    BY <1>1, <1>2, <1>3 DEF TypeOK

\* NextOrFinish leaves the loop exactly when no candidate is left.
LEMMA NextOrFinishKeeps ==
    ASSUME TypeOK, LoopInv, NEW t \in Ticks, NextOrFinish(t), UNCHANGED left
    PROVE  pc' \in [Ticks -> Phase] /\ LoopInv'
  <1>1. CASE left[t] = 0
    BY <1>1 DEF NextOrFinish, Goto, TypeOK, LoopInv, Phase
  <1>2. CASE left[t] # 0
    <2>1. left[t] > 0
      BY <1>2 DEF TypeOK
    <2>2. pc' = [pc EXCEPT ![t] = "check"]
      BY <1>2 DEF NextOrFinish, Goto
    <2>3. QED
      BY <2>1, <2>2 DEF TypeOK, LoopInv, Phase
  <1>3. QED
    BY <1>1, <1>2

LEMMA RoomType ==
    ASSUME TypeOK, NEW t \in Ticks
    PROVE  RoomToday(t) \in Nat /\ RoomThisHour(t) \in Nat
  <1>1. Seen(t) \in Burst
    BY DEF Seen, TypeOK, Burst, NoBurst
  <1>2. Remaining(Seen(t)) \in Nat
    BY <1>1 DEF Remaining, Live, Burst
  <1>3. EffectiveDailyLimit(t) \in Nat
    BY <1>2, BudgetAssumption DEF EffectiveDailyLimit, TypeOK
  <1>4. QED
    BY <1>2, <1>3, BudgetAssumption DEF RoomToday, RoomThisHour, Largest, TypeOK

\* What a cycle may reserve: no more than a batch, nor than the hour's room.
Begun(t, n) ==
    /\ left' = [left EXCEPT ![t] = n]
    /\ pc' = [pc EXCEPT ![t] = IF n = 0 THEN "finish" ELSE "check"]

LEMMA BeginReserves ==
    ASSUME TypeOK, NEW t \in Ticks, BeginCycle(t)
    PROVE  \E n \in Nat : /\ Begun(t, n)
                          /\ n <= BatchSize
                          /\ n <= RoomThisHour(t)
  <1> DEFINE most == Least(BatchSize, Least(RoomToday(t), RoomThisHour(t)))
  <1>1. RoomToday(t) \in Nat /\ RoomThisHour(t) \in Nat
    BY RoomType
  <1>2. /\ most \in Nat
        /\ most <= BatchSize /\ most <= RoomThisHour(t)
    BY <1>1, BudgetAssumption DEF Least
  <1>3. \E n \in 0..most : Begun(t, n)
    BY Zenon DEF BeginCycle, Goto, Begun
  <1> HIDE DEF most
  <1>4. QED
    BY <1>1, <1>2, <1>3, BudgetAssumption

LEMMA InitTypes == Init => TypeOK /\ LoopInv
  <1> SUFFICES ASSUME Init PROVE TypeOK /\ LoopInv
    OBVIOUS
  <1>1. NoBurst \in Burst
    BY DEF NoBurst, Burst
  <1>2. localNext \in BOOLEAN
    BY BudgetAssumption DEF Init
  <1>3. QED
    BY <1>1, <1>2 DEF Init, TypeOK, LoopInv, Phase

LEMMA TickTypes ==
    ASSUME TypeOK, LoopInv, NEW t \in Ticks, TickStep(t)
    PROVE  TypeOK' /\ LoopInv'
  <1> USE DEF Goto, counters, history
  <1>1. CASE BeginCycle(t)
    <2>1. PICK n \in Nat : Begun(t, n)
      BY <1>1, BeginReserves
    <2> USE DEF Begun
    <2>2. /\ clearing' = [clearing EXCEPT ![t] = Clears(t)]
          /\ UNCHANGED <<counters, inHours, burst, rowLock, counted, history>>
      BY <1>1 DEF BeginCycle
    <2>3. Clears(t) \in BOOLEAN
      BY DEF Clears, TypeOK
    <2> HIDE DEF counters, history
    <2>4. clearing' \in [Ticks -> BOOLEAN]
      BY <2>2, <2>3, Zenon DEF TypeOK
    <2>5. LoopInv' /\ left' \in [Ticks -> Nat] /\ pc' \in [Ticks -> Phase]
      BY <2>1 DEF TypeOK, LoopInv, Phase
    <2>6. QED
      BY <2>2, <2>4, <2>5 DEF TypeOK, counters, history
  <1>2. CASE CheckLimit(t)
    <2>1. left[t] \in Nat /\ left[t] - 1 \in Nat
      BY <1>2 DEF CheckLimit, LoopInv, TypeOK
    <2>2. Clears(t) \in BOOLEAN
      BY DEF Clears, TypeOK
    <2>3. clearing' \in [Ticks -> BOOLEAN]
      BY <1>2, <2>2, Zenon DEF CheckLimit, TypeOK
    <2>4. UNCHANGED <<counters, inHours, burst, rowLock, counted, extra, made,
                      missed, localNext, requests, faults>>
      BY <1>2 DEF CheckLimit
    <2>5. CASE LimitReached(t)
      <3>1. /\ left' = [left EXCEPT ![t] = 0]
            /\ pc' = [pc EXCEPT ![t] = "finish"]
            /\ UNCHANGED basis
        BY <1>2, <2>5 DEF CheckLimit
      <3>2. QED
        BY <2>3, <2>4, <3>1 DEF TypeOK, LoopInv, Phase
    <2>6. CASE ~LimitReached(t)
      <3>1. /\ left' = [left EXCEPT ![t] = @ - 1]
            /\ pc' = [pc EXCEPT ![t] = "enrich"]
            /\ basis' = [basis EXCEPT
                           ![t] = IF Live(Seen(t)) THEN "burst" ELSE "limit"]
        BY <1>2, <2>6 DEF CheckLimit
      <3>2. basis' \in [Ticks -> {"limit", "burst"}]
        BY <3>1 DEF TypeOK
      <3>3. QED
        BY <2>1, <2>3, <2>4, <3>1, <3>2 DEF TypeOK, LoopInv, Phase
    <2>7. QED
      BY <2>5, <2>6
  <1>3. CASE EnrichAnswers(t)
    <2>1. burst' \in Burst /\ clearing' \in [Ticks -> BOOLEAN]
      BY <1>3, CommitTypes DEF EnrichAnswers
    <2>2. UNCHANGED <<counters, inHours, rowLock, left, counted, history>>
      BY <1>3 DEF EnrichAnswers
    <2>3. pc' \in [Ticks -> Phase] /\ LoopInv'
      <3>1. CASE Goto(t, "rewrite")
        BY <2>2, <3>1 DEF TypeOK, LoopInv, Phase
      <3>2. CASE NextOrFinish(t)
        BY <2>2, <3>2, NextOrFinishKeeps
      <3>3. QED
        BY <1>3, <3>1, <3>2 DEF EnrichAnswers
    <2>4. QED
      BY <2>1, <2>2, <2>3 DEF TypeOK
  <1>4. CASE CallFails(t)
    <2>1. burst' \in Burst /\ clearing' \in [Ticks -> BOOLEAN]
      BY <1>4, CommitTypes DEF CallFails
    <2>2. UNCHANGED <<counters, inHours, rowLock, left, counted, history>>
      BY <1>4 DEF CallFails
    <2>3. pc' \in [Ticks -> Phase] /\ LoopInv'
      BY <1>4, <2>2, NextOrFinishKeeps DEF CallFails
    <2>4. QED
      BY <2>1, <2>2, <2>3 DEF TypeOK
  <1>5. CASE RewriteSucceeds(t)
    BY <1>5 DEF RewriteSucceeds, TypeOK, LoopInv, Phase
  <1>6. CASE LockBurst(t)
    <2>1. Counted(burst) \in Burst
      BY CountedType DEF TypeOK
    <2>2. QED
      BY <1>6, <2>1 DEF LockBurst, TypeOK, LoopInv, Phase
  <1>7. CASE CommitBurst(t)
    <2>1. pc' \in [Ticks -> Phase] /\ LoopInv'
      BY <1>7, NextOrFinishKeeps DEF CommitBurst
    <2>2. NoBurst \in Burst
      BY DEF NoBurst, Burst
    <2>3. QED
      BY <1>7, <2>1, <2>2 DEF CommitBurst, TypeOK
  <1>8. CASE CycleRaises(t)
    <2>1. burst' \in Burst /\ clearing' \in [Ticks -> BOOLEAN]
      BY <1>8, CommitTypes DEF CycleRaises
    <2>2. QED
      BY <1>8, <2>1 DEF CycleRaises, TypeOK, LoopInv, Phase
  <1>9. CASE FinishCycle(t)
    <2>1. burst' \in Burst /\ clearing' \in [Ticks -> BOOLEAN]
      BY <1>9, CommitTypes DEF FinishCycle
    <2>2. QED
      BY <1>9, <2>1 DEF FinishCycle, TypeOK, LoopInv, Phase
  <1>10. CASE RaiseUncounted(t)
    <2>1. burst' \in Burst /\ clearing' \in [Ticks -> BOOLEAN]
      BY <1>10, CommitTypes DEF RaiseUncounted
    <2>2. NoBurst \in Burst
      BY DEF NoBurst, Burst
    <2>3. /\ rowLock' \in Ticks \cup {Nobody} /\ counted' \in [Ticks -> Burst]
          /\ left' = [left EXCEPT ![t] = 0] /\ pc' = [pc EXCEPT ![t] = "idle"]
          /\ missed' \in Nat /\ faults' \in Nat
      BY <1>10, <2>2 DEF RaiseUncounted, TypeOK
    <2>4. UNCHANGED <<counters, inHours, basis, extra, made, localNext, requests>>
      BY <1>10 DEF RaiseUncounted
    <2>5. QED
      BY <2>1, <2>3, <2>4 DEF TypeOK, LoopInv, Phase
  <1>11. QED
    BY <1>1, <1>2, <1>3, <1>4, <1>5, <1>6, <1>7, <1>8, <1>9, <1>10 DEF TickStep

LEMMA NextTypes == TypeOK /\ LoopInv /\ [Next]_vars => TypeOK' /\ LoopInv'
  <1> SUFFICES ASSUME TypeOK, LoopInv, [Next]_vars
               PROVE  TypeOK' /\ LoopInv'
    OBVIOUS
  <1> USE DEF counters, history
  <1>1. ASSUME NEW t \in Ticks, TickStep(t)
        PROVE  TypeOK' /\ LoopInv'
    BY <1>1, TickTypes
  <1>2. ASSUME NEW q \in Quotas, RequestBurst(q)
        PROVE  TypeOK' /\ LoopInv'
    BY <1>2, BudgetAssumption DEF RequestBurst, TypeOK, LoopInv, Burst
  <1>3. CASE CancelBurst
    BY <1>3 DEF CancelBurst, TypeOK, LoopInv, Burst, NoBurst
  <1>4. CASE BurstExpires
    <2>1. \A b \in Burst : [b EXCEPT !.expired = TRUE] \in Burst
      BY DEF Burst
    <2>2. NoBurst \in Burst
      BY DEF NoBurst, Burst
    <2>3. burst' \in Burst /\ counted' \in [Ticks -> Burst]
      BY <1>4, <2>1, <2>2 DEF BurstExpires, TypeOK
    <2>4. QED
      BY <1>4, <2>3 DEF BurstExpires, TypeOK, LoopInv
  <1>5. CASE HourBegins \/ WindowChanges \/ LocalDayBegins
    <2>1. inHours' \in BOOLEAN /\ localNext' \in BOOLEAN
      BY <1>5, Zenon DEF HourBegins, WindowChanges, LocalDayBegins, TypeOK
    <2>2. thisHour' \in Nat /\ localToday' \in Nat /\ today' \in Nat
      BY <1>5 DEF HourBegins, WindowChanges, LocalDayBegins, TypeOK
    <2>3. UNCHANGED <<burst, rowLock, pc, left, clearing, counted, basis, extra,
                      made, missed, requests, faults>>
      BY <1>5, Zenon DEF HourBegins, WindowChanges, LocalDayBegins
    <2>4. QED
      BY <2>1, <2>2, <2>3 DEF TypeOK, LoopInv
  <1>6. CASE DayBegins
    BY <1>6, BudgetAssumption DEF DayBegins, TypeOK, LoopInv
  <1>7. CASE Restart
    <2>1. NoBurst \in Burst
      BY DEF NoBurst, Burst
    <2>2. Cardinality(Counting) \in Nat
      BY CountingFinite
    <2>3. QED
      BY <1>7, <2>1, <2>2 DEF Restart, TypeOK, LoopInv, Phase
  <1>8. CASE UNCHANGED vars
    BY <1>8 DEF vars, TypeOK, LoopInv
  <1>9. QED
    BY <1>1, <1>2, <1>3, <1>4, <1>5, <1>6, <1>7, <1>8 DEF Next

\* The variables of the budget keep their types: no cycle takes a candidate it
\* does not have.
THEOREM TypesHold == Spec => []TypeOK
  BY InitTypes, NextTypes, PTL DEF Spec

-----------------------------------------------------------------------------
(***************************************************************************)
(* The hour.  Without bursts a cycle reserves no more than the hour has    *)
(* room for.  What the instances have reserved and not drafted yet is      *)
(* counted as a set of slots, one for every candidate left or under way;   *)
(* a draft gives up a slot of its tick, and a cycle that begins finds at   *)
(* most Batch slots of each of the others.                                 *)
(***************************************************************************)

Batch == Least(BatchSize, HourTarget)
Outstanding(t) == left[t] + (IF pc[t] \in {"enrich", "rewrite"} THEN 1 ELSE 0)
Slots == {s \in Ticks \X (1..Batch) : s[2] <= Outstanding(s[1])}
HourBound == HourTarget + (Cardinality(Ticks) - 1) * Batch

HourInv ==
    requests = 0 =>
        /\ burst = NoBurst
        /\ \A t \in Ticks : counted[t] = NoBurst /\ Outstanding(t) <= Batch
        /\ thisHour + Cardinality(Slots) <= HourBound


LEMMA BatchType ==
    /\ Batch \in Nat \ {0} /\ Batch <= BatchSize /\ Batch <= HourTarget
    /\ Cardinality(Ticks) \in Nat
    /\ HourBound \in Nat
  <1>1. Batch \in Nat \ {0} /\ Batch <= BatchSize /\ Batch <= HourTarget
    BY BudgetAssumption DEF Batch, Least
  <1>2. Cardinality(Ticks) \in Nat
    BY BudgetAssumption, FS_CardinalityType
  <1>3. CASE Cardinality(Ticks) = 0
    <2>1. (0 - 1) * Batch = 0 - Batch
      BY <1>1
    <2>2. QED
      BY <1>1, <1>3, <2>1, BudgetAssumption DEF HourBound
  <1>4. CASE Cardinality(Ticks) # 0
    <2> DEFINE others == Cardinality(Ticks) - 1
    <2>1. others \in Nat
      BY <1>2, <1>4
    <2> HIDE DEF others
    <2>2. others * Batch \in Nat
      BY <1>1, <2>1
    <2>3. HourBound = HourTarget + others * Batch
      BY DEF HourBound, others
    <2>4. HourBound \in Nat
      BY <2>2, <2>3, BudgetAssumption
    <2>5. QED
      BY <1>1, <1>2, <2>4
  <1>5. QED
    BY <1>1, <1>2, <1>3, <1>4

LEMMA SlotsFinite ==
    /\ IsFiniteSet(Slots) /\ Cardinality(Slots) \in Nat
    /\ \A S \in SUBSET Slots : /\ IsFiniteSet(S) /\ Cardinality(S) \in Nat
                               /\ Cardinality(S) <= Cardinality(Slots)
  <1>1. IsFiniteSet(1..Batch)
    BY BatchType, FS_Interval
  <1>2. IsFiniteSet(Ticks \X (1..Batch))
    BY <1>1, BudgetAssumption, FS_Product
  <1>3. Slots \subseteq Ticks \X (1..Batch)
    BY DEF Slots
  <1>4. QED
    BY <1>2, <1>3, FS_Subset, FS_CardinalityType

LEMMA OutstandingType ==
    ASSUME TypeOK, NEW t \in Ticks
    PROVE  Outstanding(t) \in Nat
  BY DEF Outstanding, TypeOK

\* No instance has more outstanding than before, and the hour no more drafts.
LEMMA QuietHour ==
    ASSUME TypeOK, TypeOK', HourInv, requests = 0,
           burst' = NoBurst,
           \A t \in Ticks : /\ counted'[t] = NoBurst
                            /\ Outstanding(t)' <= Outstanding(t),
           thisHour' <= thisHour
    PROVE  HourInv'
  <1>1. \A t \in Ticks : Outstanding(t) \in Nat
    BY OutstandingType
  <1>2. \A t \in Ticks : Outstanding(t)' \in Nat
    BY DEF Outstanding, TypeOK
  <1>3. Slots' \subseteq Slots
    BY <1>1, <1>2 DEF Slots
  <1>4. /\ Cardinality(Slots) \in Nat
        /\ Cardinality(Slots') \in Nat /\ Cardinality(Slots') <= Cardinality(Slots)
    BY <1>3, SlotsFinite
  <1>5. \A t \in Ticks : Outstanding(t)' <= Batch
    BY <1>1, <1>2, BatchType DEF HourInv
  <1>6. thisHour' + Cardinality(Slots') <= HourBound
    BY <1>4, BatchType DEF HourInv, TypeOK
  <1>7. QED
    BY <1>5, <1>6 DEF HourInv

\* A draft gives up the slot it came from.
LEMMA RewriteHour ==
    ASSUME TypeOK, HourInv, requests = 0, NEW t \in Ticks, RewriteSucceeds(t)
    PROVE  HourInv'
  <1> DEFINE slot == <<t, Outstanding(t)>>
  <1>1. /\ thisHour' = thisHour + 1
        /\ UNCHANGED <<burst, counted, left>>
        /\ pc' = [pc EXCEPT ![t] = "record"] /\ pc[t] = "rewrite"
    BY DEF RewriteSucceeds, Goto
  <1>2. Outstanding(t) \in 1..Batch /\ Outstanding(t)' = Outstanding(t) - 1
    BY <1>1, BatchType DEF Outstanding, HourInv, TypeOK
  <1>3. \A u \in Ticks \ {t} : Outstanding(u)' = Outstanding(u)
    BY <1>1 DEF Outstanding, TypeOK
  <1>4. slot \in Slots
    BY <1>2 DEF Slots
  <1>5. Slots' \subseteq Slots \ {slot}
    <2> SUFFICES ASSUME NEW u \in Ticks, NEW i \in 1..Batch, i <= Outstanding(u)'
                 PROVE  <<u, i>> \in Slots \ {slot}
      BY DEF Slots
    <2>1. CASE u = t
      BY <1>2, <2>1, BatchType DEF Slots
    <2>2. CASE u # t
      BY <1>3, <2>2 DEF Slots
    <2>3. QED
      BY <2>1, <2>2
  <1>6. /\ IsFiniteSet(Slots \ {slot})
        /\ Cardinality(Slots \ {slot}) = Cardinality(Slots) - 1
    BY <1>4, SlotsFinite, FS_RemoveElement
  <1>7. /\ Cardinality(Slots') \in Nat
        /\ Cardinality(Slots') <= Cardinality(Slots) - 1
    BY <1>5, <1>6, FS_Subset, FS_CardinalityType
  <1>8. thisHour' + Cardinality(Slots') <= HourBound
    BY <1>1, <1>7, SlotsFinite, BatchType DEF HourInv, TypeOK
  <1>9. \A u \in Ticks : Outstanding(u)' <= Batch
    BY <1>2, <1>3, BatchType DEF HourInv
  <1>10. QED
    BY <1>1, <1>8, <1>9 DEF HourInv

\* A cycle that begins finds no more than a batch outstanding in each other.
LEMMA BeginHour ==
    ASSUME TypeOK, TypeOK', LoopInv, HourInv, requests = 0,
           NEW t \in Ticks, BeginCycle(t)
    PROVE  HourInv'
  <1>1. PICK n \in Nat : Begun(t, n) /\ n <= BatchSize /\ n <= RoomThisHour(t)
    BY BeginReserves
  <1>2. UNCHANGED <<burst, counted, thisHour>> /\ pc[t] = "idle"
    BY DEF BeginCycle, counters
  <1>3. Outstanding(t)' = n /\ left[t] = 0
    BY <1>1, <1>2 DEF Begun, Outstanding, TypeOK, LoopInv
  <1>4. \A u \in Ticks \ {t} : Outstanding(u)' = Outstanding(u)
    BY <1>1 DEF Begun, Outstanding, TypeOK
  <1>5. RoomThisHour(t) = Largest(0, HourTarget - thisHour)
    <2>1. Remaining(Seen(t)) = 0
      BY DEF HourInv, Seen, Remaining, Live, NoBurst
    <2>2. QED
      BY <2>1, BudgetAssumption DEF RoomThisHour, Largest, TypeOK
  <1>6. CASE n = 0
    <2>1. \A u \in Ticks : Outstanding(u)' <= Outstanding(u)
      BY <1>3, <1>4, <1>6, OutstandingType
    <2>2. thisHour' <= thisHour
      BY <1>2 DEF TypeOK
    <2>3. QED
      BY <1>2, <2>1, <2>2, QuietHour DEF HourInv
  <1>7. CASE n # 0
    <2> DEFINE O == (Ticks \ {t}) \X (1..Batch)
               M == {t} \X (1..n)
               others == Cardinality(Ticks) - 1
    <2>1. thisHour + n <= HourTarget
      BY <1>1, <1>5, <1>7, BudgetAssumption DEF Largest, TypeOK
    <2>2. n <= Batch
      BY <1>1, <2>1, BudgetAssumption DEF Batch, Least, TypeOK
    <2>3. Slots' \subseteq O \cup M
      <3> SUFFICES ASSUME NEW u \in Ticks, NEW i \in 1..Batch, i <= Outstanding(u)'
                   PROVE  <<u, i>> \in O \cup M
        BY DEF Slots
      <3>1. CASE u = t
        BY <1>3, <3>1, BatchType
      <3>2. CASE u # t
        BY <3>2
      <3>3. QED
        BY <3>1, <3>2
    <2>4. /\ IsFiniteSet(O) /\ Cardinality(O) = others * Batch
      <3>1. /\ IsFiniteSet(Ticks \ {t})
            /\ Cardinality(Ticks \ {t}) = Cardinality(Ticks) - 1
        BY BudgetAssumption, FS_RemoveElement
      <3>2. IsFiniteSet(1..Batch) /\ Cardinality(1..Batch) = Batch
        BY BatchType, FS_Interval
      <3>3. /\ IsFiniteSet(O)
            /\ Cardinality(O) = Cardinality(Ticks \ {t}) * Cardinality(1..Batch)
        BY <3>1, <3>2, FS_Product, Zenon
      <3>4. Cardinality(O) = (Cardinality(Ticks) - 1) * Batch
        BY <3>1, <3>2, <3>3, Zenon
      <3>5. QED
        BY <3>3, <3>4, Zenon
    <2>5. /\ IsFiniteSet(M) /\ Cardinality(M) = n
      <3>1. IsFiniteSet({t}) /\ Cardinality({t}) = 1
        BY FS_Singleton
      <3>2. IsFiniteSet(1..n) /\ Cardinality(1..n) = n
        BY <1>7, FS_Interval
      <3>3. IsFiniteSet(M) /\ Cardinality(M) = Cardinality({t}) * Cardinality(1..n)
        BY <3>1, <3>2, FS_Product, Zenon
      <3>4. QED
        BY <3>1, <3>2, <3>3
    <2> HIDE DEF O, M
    <2>6. /\ Cardinality(O \cup M) \in Nat
          /\ Cardinality(O \cup M) <= Cardinality(O) + Cardinality(M)
          /\ IsFiniteSet(O \cup M)
      <3>1. /\ IsFiniteSet(O \cup M)
            /\ Cardinality(O \cup M)
                 = Cardinality(O) + Cardinality(M) - Cardinality(O \cap M)
        BY <2>4, <2>5, FS_Union
      <3>2. IsFiniteSet(O \cap M)
        BY <2>4, FS_Subset
      <3>3. /\ Cardinality(O \cap M) \in Nat /\ Cardinality(O \cup M) \in Nat
            /\ Cardinality(O) \in Nat /\ Cardinality(M) \in Nat
        BY <2>4, <2>5, <3>1, <3>2, FS_CardinalityType
      <3>4. QED
        BY <3>1, <3>3
    <2>7. Cardinality(Slots') \in Nat /\ Cardinality(Slots') <= Cardinality(O) + n
      <3>1. /\ Cardinality(Slots') \in Nat
            /\ Cardinality(Slots') <= Cardinality(O \cup M)
        BY <2>3, <2>6, FS_Subset, FS_CardinalityType
      <3>2. Cardinality(O) \in Nat
        BY <2>4, FS_CardinalityType
      <3>3. QED
        BY <2>5, <2>6, <3>1, <3>2
    <2>8. HourBound = HourTarget + Cardinality(O) /\ Cardinality(O) \in Nat
      BY <2>4, FS_CardinalityType DEF HourBound
    <2>9. thisHour' + Cardinality(Slots') <= HourBound
      BY <1>2, <2>1, <2>7, <2>8, BudgetAssumption DEF TypeOK
    <2>10. \A u \in Ticks : Outstanding(u)' <= Batch
      BY <1>3, <1>4, <2>2 DEF HourInv
    <2>11. QED
      BY <1>2, <2>9, <2>10 DEF HourInv
  <1>8. QED
    BY <1>6, <1>7

LEMMA InitHour == Init => HourInv
  <1> SUFFICES ASSUME Init PROVE HourInv
    OBVIOUS
  <1>1. \A t \in Ticks : Outstanding(t) = 0
    BY DEF Init, Outstanding
  <1>2. Slots = {}
    BY <1>1 DEF Slots
  <1>3. Cardinality(Slots) = 0
    BY <1>2, FS_EmptySet
  <1>4. QED
    BY <1>1, <1>3, BatchType DEF Init, HourInv

\* A tick that neither begins a cycle nor commits a draft.
LEMMA TickHour ==
    ASSUME TypeOK, TypeOK', HourInv, requests = 0, NEW t \in Ticks,
           \/ CheckLimit(t) \/ EnrichAnswers(t) \/ CallFails(t) \/ LockBurst(t)
           \/ CommitBurst(t) \/ CycleRaises(t) \/ RaiseUncounted(t)
           \/ FinishCycle(t)
    PROVE  HourInv'
  <1> USE DEF Goto, NextOrFinish, counters, history
  <1>1. thisHour' = thisHour /\ requests' = requests
    BY Zenon
       DEF CheckLimit, EnrichAnswers, CallFails, LockBurst, CommitBurst,
           CycleRaises, RaiseUncounted, FinishCycle
  <1>2. /\ burst' = burst \/ burst' = NoBurst \/ burst' = counted[t]
        /\ \A u \in Ticks : \/ counted'[u] = counted[u] \/ counted'[u] = NoBurst
                            \/ counted'[u] = Counted(burst)
    <2>1. CASE LockBurst(t) \/ CommitBurst(t) \/ RaiseUncounted(t)
      BY <2>1 DEF LockBurst, CommitBurst, RaiseUncounted, Rollback, TypeOK
    <2>2. CASE ~(LockBurst(t) \/ CommitBurst(t) \/ RaiseUncounted(t))
      <3>1. counted' = counted
        BY <2>2, Zenon
           DEF CheckLimit, EnrichAnswers, CallFails, CycleRaises, FinishCycle
      <3>2. burst' = burst \/ burst' = NoBurst
        BY <2>2
           DEF CheckLimit, EnrichAnswers, CallFails, CycleRaises, FinishCycle,
               Commit, Rollback
      <3>3. QED
        BY <3>1, <3>2
    <2>3. QED
      BY <2>1, <2>2
  <1>3. burst' = NoBurst /\ \A u \in Ticks : counted'[u] = NoBurst
    <2>1. Counted(NoBurst) = NoBurst
      BY DEF Counted, Live, NoBurst
    <2>2. QED
      BY <1>2, <2>1 DEF HourInv
  <1>4. \A u \in Ticks : Outstanding(u)' <= Outstanding(u)
    <2>0. \A u \in Ticks : left[u] \in Nat
      BY DEF TypeOK
    <2>1. CASE CheckLimit(t)
      BY <2>0, <2>1 DEF CheckLimit, Outstanding, TypeOK
    <2>2. CASE EnrichAnswers(t)
      BY <2>0, <2>2 DEF EnrichAnswers, Outstanding, TypeOK
    <2>3. CASE CallFails(t)
      BY <2>0, <2>3 DEF CallFails, Outstanding, TypeOK
    <2>4. CASE LockBurst(t)
      BY <2>0, <2>4 DEF LockBurst, Outstanding, TypeOK
    <2>5. CASE CommitBurst(t)
      BY <2>0, <2>5 DEF CommitBurst, Outstanding, TypeOK
    <2>6. CASE CycleRaises(t)
      BY <2>0, <2>6 DEF CycleRaises, Outstanding, TypeOK
    <2>7. CASE FinishCycle(t)
      BY <2>0, <2>7 DEF FinishCycle, Outstanding, TypeOK
    <2>8. CASE RaiseUncounted(t)
      BY <2>0, <2>8 DEF RaiseUncounted, Outstanding, TypeOK
    <2>9. QED
      BY <2>1, <2>2, <2>3, <2>4, <2>5, <2>6, <2>7, <2>8
  <1>5. thisHour' <= thisHour
    BY <1>1 DEF TypeOK
  <1>6. QED
    BY <1>3, <1>4, <1>5, QuietHour

LEMMA NextHour ==
    TypeOK /\ TypeOK' /\ LoopInv /\ HourInv /\ [Next]_vars => HourInv'
  <1> SUFFICES ASSUME TypeOK, TypeOK', LoopInv, HourInv, [Next]_vars
               PROVE  HourInv'
    OBVIOUS
  <1> USE DEF counters, history
  <1>0. /\ requests' = requests \/ requests' = requests + 1
        /\ requests' = requests \/ \E q \in Quotas : RequestBurst(q)
    BY Zenon
       DEF Next, TickStep, BeginCycle, CheckLimit, EnrichAnswers, CallFails,
           RewriteSucceeds, LockBurst, CommitBurst, CycleRaises,
           RaiseUncounted, FinishCycle, RequestBurst, CancelBurst, BurstExpires,
           HourBegins, DayBegins, LocalDayBegins, WindowChanges, Restart, vars
  <1>1. CASE requests' # 0
    BY <1>1 DEF HourInv
  <1>2. CASE requests' = 0
    <2>0. requests = 0 /\ ~ \E q \in Quotas : RequestBurst(q)
      BY <1>0, <1>2 DEF TypeOK, RequestBurst
    <2>1. burst = NoBurst /\ \A t \in Ticks : counted[t] = NoBurst
      BY <2>0 DEF HourInv
    <2>2. ASSUME NEW t \in Ticks, TickStep(t)
          PROVE  HourInv'
      BY <2>0, <2>2, BeginHour, RewriteHour, TickHour DEF TickStep
    <2>3. CASE HourBegins \/ DayBegins \/ LocalDayBegins \/ WindowChanges
                 \/ UNCHANGED vars
      <3>1. UNCHANGED <<burst, counted, pc, left>>
        BY <2>3, Zenon
           DEF HourBegins, DayBegins, LocalDayBegins, WindowChanges, vars
      <3>2. thisHour' <= thisHour
        BY <2>3 DEF HourBegins, DayBegins, LocalDayBegins, WindowChanges, vars, TypeOK
      <3>3. \A t \in Ticks : Outstanding(t)' <= Outstanding(t)
        BY <3>1, OutstandingType DEF Outstanding
      <3>4. QED
        BY <2>0, <2>1, <3>1, <3>2, <3>3, QuietHour
    <2>4. CASE Restart
      <3>1. \A t \in Ticks : Outstanding(t)' = 0 /\ counted'[t] = NoBurst
        BY <2>4 DEF Restart, Outstanding
      <3>2. UNCHANGED <<burst, thisHour>>
        BY <2>4 DEF Restart
      <3>3. thisHour' <= thisHour
        BY <3>2 DEF TypeOK
      <3>4. \A t \in Ticks : Outstanding(t)' <= Outstanding(t)
        BY <3>1, OutstandingType
      <3>5. QED
        BY <2>0, <2>1, <3>1, <3>2, <3>3, <3>4, QuietHour
    <2>5. ~CancelBurst /\ ~BurstExpires
      BY <2>1 DEF CancelBurst, BurstExpires
    <2>6. QED
      BY <2>0, <2>2, <2>3, <2>4, <2>5 DEF Next
  <1>3. QED
    BY <1>1, <1>2

\* In an hour without bursts the drafts exceed the target by no more than what
\* the other instances had reserved when the last of them looked.
THEOREM HourOvershootIsBounded == Spec => []HourOvershootBounded
  <1>1. TypeOK /\ HourInv => HourOvershootBounded
    <2> SUFFICES ASSUME TypeOK, HourInv, requests = 0
                 PROVE  thisHour <= HourTarget
                          + (Cardinality(Ticks) - 1) * Least(BatchSize, HourTarget)
      BY DEF HourOvershootBounded
    <2>1. thisHour + Cardinality(Slots) <= HourBound
      BY DEF HourInv
    <2>2. thisHour <= HourBound
      BY <2>1, SlotsFinite, BatchType DEF TypeOK
    <2>3. QED
      BY <2>2 DEF HourBound, Batch
  <1>2. QED
    BY <1>1, InitTypes, NextTypes, InitHour, NextHour, PTL DEF Spec

-----------------------------------------------------------------------------
(***************************************************************************)
(* The burst row.  A tick that is about to write the row back holds its    *)
(* lock, and what it will write is the row with one more draft, unless it  *)
(* writes a row that is dead.                                              *)
(***************************************************************************)

RowInv ==
    \A t \in Ticks :
        pc[t] = "recording" =>
            /\ rowLock = t
            /\ Live(counted[t]) => /\ Live(burst)
                                   /\ counted[t].created = burst.created + 1

\* The row and the draft counter stay, and no tick that still has to count
\* stops to be one.
LEMMA QuietRow ==
    ASSUME TypeOK, RowInv, NoIncrementLost,
           \/ ~Live(burst')
           \/ UNCHANGED <<burst, made, missed>>,
           Counting \subseteq Counting', Counting' \subseteq Ticks,
           \A t \in Ticks : pc'[t] = "recording" =>
               /\ rowLock' = t
               /\ Live(counted'[t]) => /\ Live(burst')
                                       /\ counted'[t].created = burst'.created + 1
    PROVE  RowInv' /\ NoIncrementLost'
  <1>1. RowInv'
    BY DEF RowInv
  <1>2. NoIncrementLost'
    <2> SUFFICES ASSUME Live(burst')
                 PROVE  made' <= burst'.created + Cardinality(Counting') + missed'
      BY DEF NoIncrementLost, Counting
    <2>1. UNCHANGED <<burst, made, missed>>
      OBVIOUS
    <2>2. made <= burst.created + Cardinality(Counting) + missed
      BY <2>1 DEF NoIncrementLost
    <2>3. /\ Cardinality(Counting) \in Nat /\ Cardinality(Counting') \in Nat
          /\ Cardinality(Counting) <= Cardinality(Counting')
      BY CountingFinite, FS_Subset, FS_CardinalityType, BudgetAssumption
    <2>4. burst.created \in Nat /\ made \in Nat /\ missed \in Nat
      BY DEF TypeOK, Burst
    <2>5. QED
      BY <2>1, <2>2, <2>3, <2>4
  <1>3. QED
    BY <1>1, <1>2

\* A draft of the burst is one more to count.
LEMMA RewriteRow ==
    ASSUME TypeOK, RowInv, NoIncrementLost, NEW t \in Ticks, RewriteSucceeds(t)
    PROVE  RowInv' /\ NoIncrementLost'
  <1>1. /\ UNCHANGED <<burst, rowLock, counted, missed>>
        /\ made' = IF Live(burst) THEN made + 1 ELSE made
        /\ pc[t] = "rewrite" /\ pc' = [pc EXCEPT ![t] = "record"]
    BY DEF RewriteSucceeds, Goto
  <1>2. RowInv'
    BY <1>1 DEF RowInv, TypeOK
  <1>3. Counting' = Counting \cup {t} /\ t \notin Counting
    BY <1>1 DEF Counting, TypeOK
  <1>4. Cardinality(Counting') = Cardinality(Counting) + 1
    BY <1>3, CountingFinite, FS_AddElement
  <1>5. burst.created \in Nat /\ made \in Nat /\ missed \in Nat
    BY DEF TypeOK, Burst
  <1>6. NoIncrementLost'
    BY <1>1, <1>4, <1>5, CountingFinite DEF NoIncrementLost
  <1>7. QED
    BY <1>2, <1>6

\* Counting a draft moves it from the ticks that have to count to the row.
LEMMA CommitRow ==
    ASSUME TypeOK, RowInv, NoIncrementLost, NEW t \in Ticks, CommitBurst(t)
    PROVE  RowInv' /\ NoIncrementLost'
  <1>1. /\ pc[t] = "recording" /\ burst' = counted[t]
        /\ UNCHANGED <<made, missed>>
        /\ counted' = [counted EXCEPT ![t] = NoBurst]
    BY DEF CommitBurst, history
  <1>2. PICK label \in {"finish", "check"} : pc' = [pc EXCEPT ![t] = label]
    BY DEF CommitBurst, NextOrFinish, Goto
  <1>3. \A u \in Ticks : pc'[u] # "recording"
    BY <1>1, <1>2 DEF RowInv, TypeOK
  <1>4. Counting' = Counting \ {t} /\ t \in Counting
    BY <1>1, <1>2 DEF Counting, TypeOK
  <1>5. Cardinality(Counting') = Cardinality(Counting) - 1
    BY <1>4, CountingFinite, FS_RemoveElement
  <1>6. ASSUME Live(burst')
        PROVE  made' <= burst'.created + Cardinality(Counting') + missed'
    <2>1. Live(burst) /\ burst'.created = burst.created + 1
      BY <1>1, <1>6 DEF RowInv
    <2>2. made <= burst.created + Cardinality(Counting) + missed
      BY <2>1 DEF NoIncrementLost
    <2>3. burst.created \in Nat /\ made \in Nat /\ missed \in Nat
      BY DEF TypeOK, Burst
    <2>4. QED
      BY <1>1, <1>5, <2>1, <2>2, <2>3, CountingFinite
  <1>7. QED
    BY <1>3, <1>6 DEF RowInv, NoIncrementLost

\* A tick that dies moves its draft from those to count to those missed.
LEMMA MissRow ==
    ASSUME TypeOK, RowInv, NoIncrementLost, NEW t \in Ticks, RaiseUncounted(t)
    PROVE  RowInv' /\ NoIncrementLost'
  <1>1. /\ pc[t] \in {"record", "recording"}
        /\ pc' = [pc EXCEPT ![t] = "idle"]
        /\ counted' = [counted EXCEPT ![t] = NoBurst]
        /\ rowLock' = IF rowLock = t THEN Nobody ELSE rowLock
        /\ missed' = missed + 1 /\ UNCHANGED <<burst, made>>
    BY DEF RaiseUncounted, Rollback, Goto
  <1>2. RowInv'
    BY <1>1 DEF RowInv, TypeOK
  <1>3. Counting' = Counting \ {t} /\ t \in Counting
    BY <1>1 DEF Counting, TypeOK
  <1>4. Cardinality(Counting') = Cardinality(Counting) - 1
    BY <1>3, CountingFinite, FS_RemoveElement
  <1>5. burst.created \in Nat /\ made \in Nat /\ missed \in Nat
    BY DEF TypeOK, Burst
  <1>6. NoIncrementLost'
    BY <1>1, <1>4, <1>5, CountingFinite DEF NoIncrementLost
  <1>7. QED
    BY <1>2, <1>6

LEMMA LockRow ==
    ASSUME TypeOK, RowInv, NoIncrementLost, NEW t \in Ticks, LockBurst(t)
    PROVE  RowInv' /\ NoIncrementLost'
  <1>1. /\ pc[t] = "record" /\ rowLock = Nobody /\ rowLock' = t
        /\ counted' = [counted EXCEPT ![t] = Counted(burst)]
        /\ pc' = [pc EXCEPT ![t] = "recording"]
        /\ UNCHANGED <<burst, made, missed>>
    BY DEF LockBurst, Goto, history
  <1>2. \A u \in Ticks : pc'[u] = "recording" => u = t
    BY <1>1, BudgetAssumption DEF RowInv, TypeOK
  <1>3. Live(Counted(burst)) => /\ Live(burst)
                                /\ Counted(burst).created = burst.created + 1
    BY DEF Counted, Live, NoBurst, TypeOK, Burst
  <1>4. counted'[t] = Counted(burst)
    BY <1>1 DEF TypeOK
  <1>5. Counting' = Counting
    BY <1>1 DEF Counting, TypeOK
  <1>6. Counting' \subseteq Ticks
    BY DEF Counting
  <1>7. QED
    BY <1>1, <1>2, <1>3, <1>4, <1>5, <1>6, QuietRow

\* Every other step of a tick writes the row only to end a dead burst, and only
\* when no other tick holds it.
LEMMA TickRow ==
    ASSUME TypeOK, RowInv, NoIncrementLost, NEW t \in Ticks,
           \/ BeginCycle(t) \/ CheckLimit(t) \/ EnrichAnswers(t) \/ CallFails(t)
           \/ CycleRaises(t) \/ FinishCycle(t)
    PROVE  RowInv' /\ NoIncrementLost'
  <1> USE DEF Goto, NextOrFinish, history
  <1>1. PICK label \in Phase \ {"record", "recording"} :
          pc' = [pc EXCEPT ![t] = label]
    BY Zenon
       DEF BeginCycle, CheckLimit, EnrichAnswers, CallFails, CycleRaises,
           FinishCycle, Phase
  <1>2. pc[t] \notin {"record", "recording"} /\ UNCHANGED <<rowLock, counted, made, missed>>
    BY DEF BeginCycle, CheckLimit, EnrichAnswers, CallFails, CycleRaises,
           FinishCycle
  <1>3. burst' = burst \/ (burst' = NoBurst /\ rowLock = Nobody)
    BY DEF BeginCycle, CheckLimit, EnrichAnswers, CallFails, CycleRaises,
           FinishCycle, Commit, Rollback
  <1>4. ~Live(NoBurst)
    BY DEF Live, NoBurst
  <1>5. Counting' = Counting /\ Counting' \subseteq Ticks
    BY <1>1, <1>2 DEF Counting, TypeOK
  <1>6. \A u \in Ticks : pc'[u] = "recording" => pc[u] = "recording"
    BY <1>1 DEF TypeOK
  <1>7. \A u \in Ticks : pc[u] = "recording" => burst' = burst
    BY <1>3, BudgetAssumption DEF RowInv
  <1>8. QED
    BY <1>2, <1>3, <1>4, <1>5, <1>6, <1>7, QuietRow DEF RowInv

LEMMA NextRow ==
    TypeOK /\ RowInv /\ NoIncrementLost /\ [Next]_vars
        => RowInv' /\ NoIncrementLost'
  <1> SUFFICES ASSUME TypeOK, RowInv, NoIncrementLost, [Next]_vars
               PROVE  RowInv' /\ NoIncrementLost'
    OBVIOUS
  <1> USE DEF counters, history
  <1>0. Counting \subseteq Ticks
    BY DEF Counting
  <1>1. ASSUME NEW t \in Ticks, TickStep(t)
        PROVE  RowInv' /\ NoIncrementLost'
    BY <1>1, TickRow, RewriteRow, LockRow, CommitRow, MissRow DEF TickStep
  <1>2. CASE CancelBurst \/ \E q \in Quotas : RequestBurst(q)
    <2>1. UNCHANGED <<pc, counted, rowLock>> /\ rowLock = Nobody
      BY <1>2, Zenon DEF CancelBurst, RequestBurst
    <2>2. \A t \in Ticks : pc[t] # "recording"
      BY <2>1, BudgetAssumption DEF RowInv
    <2>3. ~Live(burst') \/ (made' = 0 /\ burst'.created = 0 /\ missed' = 0)
      BY <1>2 DEF CancelBurst, RequestBurst, Live, NoBurst
    <2>4. NoIncrementLost'
      <3>1. Counting' = Counting
        BY <2>1 DEF Counting
      <3>2. QED
        BY <2>3, <3>1, CountingFinite DEF NoIncrementLost
    <2>5. QED
      BY <2>1, <2>2, <2>4 DEF RowInv
  <1>3. CASE BurstExpires
    <2>1. UNCHANGED <<pc, rowLock>> /\ burst' = [burst EXCEPT !.expired = TRUE]
      BY <1>3 DEF BurstExpires
    <2>2. \A b \in Burst : ~Live([b EXCEPT !.expired = TRUE])
      BY DEF Live, Burst
    <2>3. ~Live(NoBurst)
      BY DEF Live, NoBurst
    <2>4. \A t \in Ticks : ~Live(counted'[t])
      BY <1>3, <2>2, <2>3 DEF BurstExpires, TypeOK
    <2>5. ~Live(burst')
      BY <2>1, <2>2 DEF TypeOK
    <2>6. QED
      BY <2>1, <2>4, <2>5 DEF RowInv, NoIncrementLost
  <1>4. CASE HourBegins \/ DayBegins \/ LocalDayBegins \/ WindowChanges
               \/ UNCHANGED vars
    <2>1. UNCHANGED <<burst, made, missed, pc, counted, rowLock>>
      BY <1>4, Zenon
         DEF HourBegins, DayBegins, LocalDayBegins, WindowChanges, vars
    <2>2. QED
      BY <2>1 DEF RowInv, NoIncrementLost, Counting
  <1>5. CASE Restart
    <2>1. \A t \in Ticks : pc'[t] = "idle"
      BY <1>5 DEF Restart
    <2>2. UNCHANGED <<burst, made>> /\ missed' = missed + Cardinality(Counting)
      BY <1>5 DEF Restart
    <2>3. Counting' = {}
      BY <2>1 DEF Counting
    <2>4. /\ Cardinality(Counting') = 0
          /\ burst.created \in Nat /\ made \in Nat /\ missed \in Nat
      BY <2>3, FS_EmptySet DEF TypeOK, Burst
    <2>5. NoIncrementLost'
      BY <2>2, <2>4, CountingFinite DEF NoIncrementLost
    <2>6. QED
      BY <2>1, <2>5 DEF RowInv
  <1>6. QED
    BY <1>1, <1>2, <1>3, <1>4, <1>5 DEF Next

LEMMA InitRow == Init => RowInv /\ NoIncrementLost
  BY DEF Init, RowInv, NoIncrementLost, Live, NoBurst

\* However many ticks count at once, and whatever expires, is cancelled,
\* replaced or cleared in between: the count of a live burst lacks a draft only
\* while its tick is about to count it, or because that tick died first.
THEOREM NoIncrementIsLost == Spec => []NoIncrementLost
  BY InitTypes, NextTypes, InitRow, NextRow, PTL DEF Spec
=============================================================================
