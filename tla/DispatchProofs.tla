--------------------------- MODULE DispatchProofs ---------------------------
(***************************************************************************)
(* What holds of Dispatch for every number of clusters, job instances and  *)
(* candidates per cycle: its types, which reservations can outlive their   *)
(* tick, that the duplicates the reservation cannot prevent are bounded by *)
(* the number of instances, and what alone can end a deferral.             *)
(***************************************************************************)
EXTENDS Dispatch, FiniteSetTheorems, TLAPS

-----------------------------------------------------------------------------
\* Types.

LEMMA StruckType ==
    ASSUME NEW queue \in [Clusters -> QueueEntry], NEW c \in Clusters
    PROVE  Struck(queue, c) \in [Clusters -> QueueEntry]
  BY DEF Struck, QueueEntry, DeferAfter

LEMMA CleanType ==
    ASSUME TypeOK, NEW t \in Ticks, Clean(t)
    PROVE  /\ queueRead' \in [Ticks -> [Clusters -> QueueEntry]]
           /\ struck' \in [Ticks -> Clusters \cup {None}]
  <1>1. EmptyQueue \in [Clusters -> QueueEntry]
    BY DEF EmptyQueue, QueueEntry, DeferAfter
  <1>2. QED
    BY <1>1 DEF TypeOK, Clean

LEMMA CommitType ==
    ASSUME TypeOK, NEW t \in Ticks, Commit(t)
    PROVE  /\ failedQueue' \in [Clusters -> QueueEntry]
           /\ queueRead' \in [Ticks -> [Clusters -> QueueEntry]]
           /\ struck' \in [Ticks -> Clusters \cup {None}]
           /\ expired' \in [Ticks -> BOOLEAN]
  <1>1. struck[t] # None => Struck(queueRead[t], struck[t]) \in [Clusters -> QueueEntry]
    BY StruckType DEF TypeOK
  <1>2. failedQueue' \in [Clusters -> QueueEntry]
    BY <1>1 DEF Commit, TypeOK
  <1>3. QED
    BY <1>2, CleanType DEF Commit, TypeOK

LEMMA FailureType ==
    ASSUME TypeOK, NEW t \in Ticks, NEW c \in Clusters,
           RollbackAndRecordFailure(t, c)
    PROVE  /\ failedQueue' \in [Clusters -> QueueEntry]
           /\ queueRead' \in [Ticks -> [Clusters -> QueueEntry]]
           /\ struck' \in [Ticks -> Clusters \cup {None}]
           /\ expired' \in [Ticks -> BOOLEAN]
  BY DEF TypeOK, RollbackAndRecordFailure

-----------------------------------------------------------------------------
\* Where a tick stands tells what it holds: candidates from Reserve to the
\* outer finally, and a current one, not finished yet, while it works.
LoopInv ==
    \A t \in Ticks :
        /\ todo[t] \subseteq batch[t]
        /\ pc[t] \in {"idle", "reserve", "finish"} => batch[t] = {}
        /\ pc[t] \in Calling \cup {"record", "release", "raising"}
             => current[t] \in todo[t]

LEMMA InitTypeLoop == Init => TypeOK /\ LoopInv
  <1>1. EmptyQueue \in [Clusters -> QueueEntry]
    BY DEF EmptyQueue, QueueEntry, DeferAfter
  <1>3. Init => TypeOK
    <2> SUFFICES ASSUME Init PROVE TypeOK
      OBVIOUS
    <2>1. /\ drafts \in [Clusters -> Nat]
          /\ quarantine \in [Clusters -> {"none", "active", "released"}]
          /\ inFlight \subseteq Clusters
      BY DEF Init
    <2>2. /\ failedQueue \in [Clusters -> QueueEntry]
          /\ queueRead \in [Ticks -> [Clusters -> QueueEntry]]
      BY <1>1 DEF Init
    <2>3. /\ pc \in [Ticks -> Phase]
          /\ excluded \in [Ticks -> SUBSET Clusters]
          /\ batch \in [Ticks -> SUBSET Clusters]
          /\ todo \in [Ticks -> SUBSET Clusters]
      BY DEF Init, Phase
    <2>4. /\ current \in [Ticks -> Clusters \cup {None}]
          /\ struck \in [Ticks -> Clusters \cup {None}]
          /\ expired \in [Ticks -> BOOLEAN]
          /\ stranded \subseteq inFlight
      BY DEF Init
    <2>5. QED
      BY <2>1, <2>2, <2>3, <2>4 DEF TypeOK
  <1>4. Init => LoopInv
    BY DEF Init, LoopInv, Calling
  <1>5. QED
    BY <1>3, <1>4

LEMMA ReserveTakes ==
    ASSUME NEW t \in Ticks, Reserve(t)
    PROVE  \E reserved \in SUBSET Clusters :
             /\ pc[t] = "reserve"
             /\ batch' = [batch EXCEPT ![t] = reserved]
             /\ todo' = [todo EXCEPT ![t] = reserved]
             /\ inFlight' = inFlight \cup reserved
             /\ excluded' = [excluded EXCEPT ![t] = {}]
             /\ Goto(t, IF reserved = {} THEN "finish" ELSE "check")
             /\ UNCHANGED <<database, session, current, stranded>>
  BY Zenon DEF Reserve, Top

LEMMA NextTypeLoop == TypeOK /\ LoopInv /\ [Next]_vars => TypeOK' /\ LoopInv'
  <1> SUFFICES ASSUME TypeOK, LoopInv, [Next]_vars
               PROVE  TypeOK' /\ LoopInv'
    OBVIOUS
  <1> USE DEF Goto, Calling, Phase, database, session
  <1>e. EmptyQueue \in [Clusters -> QueueEntry]
    BY DEF EmptyQueue, QueueEntry, DeferAfter
  <1>1. ASSUME NEW t \in Ticks, BeginCycle(t)
        PROVE  TypeOK' /\ LoopInv'
    <2>1. AlreadyDrafted \cup ActiveQuarantined \cup Deferred \in SUBSET Clusters
      BY DEF AlreadyDrafted, ActiveQuarantined, Deferred
    <2>2. QED
      BY <1>1, <2>1 DEF BeginCycle, TypeOK, LoopInv
  <1>2. ASSUME NEW t \in Ticks, Reserve(t)
        PROVE  TypeOK' /\ LoopInv'
    <2>1. PICK reserved \in SUBSET Clusters :
             /\ pc[t] = "reserve"
             /\ batch' = [batch EXCEPT ![t] = reserved]
             /\ todo' = [todo EXCEPT ![t] = reserved]
             /\ inFlight' = inFlight \cup reserved
             /\ excluded' = [excluded EXCEPT ![t] = {}]
             /\ Goto(t, IF reserved = {} THEN "finish" ELSE "check")
             /\ UNCHANGED <<database, session, current, stranded>>
      BY <1>2, ReserveTakes
    <2>2. QED
      BY <2>1 DEF TypeOK, LoopInv
  <1>3. ASSUME NEW t \in Ticks, NextCandidate(t)
        PROVE  TypeOK' /\ LoopInv'
    BY <1>3 DEF NextCandidate, TypeOK, LoopInv
  <1>4. ASSUME NEW t \in Ticks, CapReached(t)
        PROVE  TypeOK' /\ LoopInv'
    BY <1>4 DEF CapReached, TypeOK, LoopInv
  <1>5. ASSUME NEW t \in Ticks, Answer(t)
        PROVE  TypeOK' /\ LoopInv'
    <2>0. pc[t] \in Calling => current[t] \in Clusters
      BY DEF TypeOK, LoopInv
    <2>1. CASE EnrichSucceeds(t)
      BY <2>1, CommitType DEF EnrichSucceeds, TypeOK, LoopInv
    <2>2. CASE EnrichExcludes(t)
      BY <2>0, <2>2, CommitType DEF EnrichExcludes, TypeOK, LoopInv
    <2>3. CASE RewriteSucceeds(t)
      BY <2>0, <2>3, CommitType DEF RewriteSucceeds, TypeOK, LoopInv
    <2>4. CASE CallFails(t)
      BY <2>0, <2>4, FailureType DEF CallFails, TypeOK, LoopInv
    <2>5. CASE QualityGateFails(t)
      BY <2>0, <2>5, FailureType DEF QualityGateFails, TypeOK, LoopInv
    <2>6. QED
      BY <1>5, <2>1, <2>2, <2>3, <2>4, <2>5 DEF Answer
  <1>6. ASSUME NEW t \in Ticks, Raise(t) \/ BurstRecorded(t)
        PROVE  TypeOK' /\ LoopInv'
    BY <1>6 DEF Raise, BurstRecorded, TypeOK, LoopInv
  <1>7. ASSUME NEW t \in Ticks, RaiseAfterQuarantine(t)
        PROVE  TypeOK' /\ LoopInv'
    <2>1. current[t] \in Clusters
      BY <1>7 DEF RaiseAfterQuarantine, TypeOK, LoopInv
    <2>2. QED
      BY <1>7, <2>1, CleanType DEF RaiseAfterQuarantine, TypeOK, LoopInv
  <1>8. ASSUME NEW t \in Ticks, StrandReservations(t)
        PROVE  TypeOK' /\ LoopInv'
    <2>1. inFlight' \subseteq inFlight
      BY <1>8 DEF StrandReservations
    <2>2. QED
      BY <1>8, <2>1, CleanType DEF StrandReservations, TypeOK, LoopInv
  <1>9. ASSUME NEW t \in Ticks, ReleaseCandidate(t)
        PROVE  TypeOK' /\ LoopInv'
    BY <1>9 DEF ReleaseCandidate, TypeOK, LoopInv
  <1>10. ASSUME NEW t \in Ticks, ReleaseAll(t)
         PROVE  TypeOK' /\ LoopInv'
    BY <1>10 DEF ReleaseAll, TypeOK, LoopInv
  <1>16. ASSUME NEW t \in Ticks, FinishCycle(t)
         PROVE  TypeOK' /\ LoopInv'
    BY <1>16, CommitType DEF FinishCycle, TypeOK, LoopInv
  <1>17. ASSUME NEW t \in Ticks, AbandonCycle(t)
         PROVE  TypeOK' /\ LoopInv'
    BY <1>17, CleanType DEF AbandonCycle, TypeOK, LoopInv
  <1>11. ASSUME NEW c \in Clusters, LiftQuarantine(c)
         PROVE  TypeOK' /\ LoopInv'
    BY <1>11 DEF LiftQuarantine, TypeOK, LoopInv
  <1>12. ASSUME NEW c \in Clusters, DeferralEnds(c)
         PROVE  TypeOK' /\ LoopInv'
    <2>. DEFINE Ended(q) == [q EXCEPT ![c].deferred = FALSE]
    <2>2. \A q \in [Clusters -> QueueEntry] : Ended(q) \in [Clusters -> QueueEntry]
      BY DEF QueueEntry
    <2>3. /\ failedQueue' = Ended(failedQueue)
          /\ queueRead' = [t \in Ticks |-> Ended(queueRead[t])]
      BY <1>12, Zenon DEF DeferralEnds
    <2>. HIDE DEF Ended
    <2>6. /\ failedQueue' \in [Clusters -> QueueEntry]
          /\ queueRead' \in [Ticks -> [Clusters -> QueueEntry]]
      BY <2>2, <2>3 DEF TypeOK
    <2>4. UNCHANGED <<drafts, quarantine, inFlight, pc, excluded, batch, todo,
                      current, struck, expired, stranded>>
      BY <1>12 DEF DeferralEnds
    <2>5. QED
      BY <2>6, <2>4 DEF TypeOK, LoopInv
  <1>13. ASSUME Restart
         PROVE  TypeOK' /\ LoopInv'
    BY <1>13, <1>e DEF Restart, TypeOK, LoopInv
  <1>14. CASE UNCHANGED vars
    BY <1>14 DEF vars, TypeOK, LoopInv
  <1>15. QED
    BY <1>1, <1>2, <1>3, <1>4, <1>5, <1>6, <1>7, <1>8, <1>9, <1>10, <1>11,
       <1>12, <1>13, <1>14, <1>16, <1>17 DEF Next, TickStep, LoopStep

\* The variables of the dispatcher keep their types.
THEOREM TypeCorrect == Spec => [](TypeOK /\ LoopInv)
  <1>1. QED
    BY InitTypeLoop, NextTypeLoop, PTL DEF Spec

-----------------------------------------------------------------------------
\* Reservations.

LEMMA NextNoOrphan ==
    TypeOK /\ LoopInv /\ NoOrphanReservation /\ [Next]_vars
        => NoOrphanReservation'
  <1> SUFFICES ASSUME TypeOK, LoopInv, NoOrphanReservation, [Next]_vars
               PROVE  NoOrphanReservation'
    OBVIOUS
  <1> USE DEF Goto, Calling, NoOrphanReservation, session
  <1>1. ASSUME NEW t \in Ticks, Reserve(t)
        PROVE  NoOrphanReservation'
    <2>1. PICK reserved :
             /\ todo' = [todo EXCEPT ![t] = reserved]
             /\ inFlight' = inFlight \cup reserved
             /\ UNCHANGED stranded
      BY <1>1, Zenon DEF Reserve
    <2>2. todo[t] = {}
      BY <1>1 DEF Reserve, LoopInv
    <2>3. QED
      BY <2>1, <2>2 DEF TypeOK
  <1>2. ASSUME NEW t \in Ticks, ReleaseAll(t) \/ AbandonCycle(t)
        PROVE  NoOrphanReservation'
    <2>1. /\ inFlight' = inFlight \ batch[t]
          /\ stranded' = stranded \ batch[t]
          /\ todo' = [todo EXCEPT ![t] = {}]
      BY <1>2, Zenon DEF ReleaseAll, AbandonCycle
    <2>2. todo[t] \subseteq batch[t]
      BY DEF LoopInv
    <2>3. QED
      BY <2>1, <2>2 DEF TypeOK
  <1>3. ASSUME NEW t \in Ticks, ReleaseCandidate(t)
        PROVE  NoOrphanReservation'
    BY <1>3 DEF ReleaseCandidate, TypeOK
  <1>4. ASSUME NEW t \in Ticks, StrandReservations(t)
        PROVE  NoOrphanReservation'
    <2>1. inFlight' \subseteq inFlight
      BY <1>4 DEF StrandReservations
    <2>2. /\ stranded' = (stranded \cup todo[t]) \cap inFlight'
          /\ todo' = [todo EXCEPT ![t] = {}]
      BY <1>4, Zenon DEF StrandReservations
    <2>3. QED
      BY <2>1, <2>2 DEF TypeOK
  <1>5. CASE Restart
    BY <1>5 DEF Restart
  <1>6. CASE UNCHANGED <<inFlight, todo, stranded>>
    BY <1>6
  <1>7. ASSUME NEW t \in Ticks,
               BeginCycle(t) \/ NextCandidate(t) \/ CapReached(t) \/ Answer(t)
                 \/ Raise(t) \/ RaiseAfterQuarantine(t) \/ BurstRecorded(t)
                 \/ FinishCycle(t)
        PROVE  UNCHANGED <<inFlight, todo, stranded>>
    BY <1>7, Zenon
       DEF BeginCycle, NextCandidate, CapReached, Answer, EnrichSucceeds,
           EnrichExcludes, RewriteSucceeds, CallFails, QualityGateFails, Raise,
           RaiseAfterQuarantine, BurstRecorded, FinishCycle
  <1>8. ASSUME NEW c \in Clusters, LiftQuarantine(c) \/ DeferralEnds(c)
        PROVE  UNCHANGED <<inFlight, todo, stranded>>
    BY <1>8, Zenon DEF LiftQuarantine, DeferralEnds
  <1>9. CASE UNCHANGED vars
    BY <1>9, <1>6 DEF vars
  <1>10. QED
    BY <1>1, <1>2, <1>3, <1>4, <1>5, <1>6, <1>7, <1>8, <1>9
       DEF Next, TickStep, LoopStep

\* A reservation outlives the tick that took it only if that tick ended without
\* its finally blocks.
THEOREM NoOrphans == Spec => []NoOrphanReservation
  <1>1. Init => NoOrphanReservation
    BY DEF Init, NoOrphanReservation
  <1>2. QED
    BY <1>1, NextNoOrphan, TypeCorrect, PTL DEF Spec

-----------------------------------------------------------------------------
(***************************************************************************)
(* Duplicates.  DuplicatesBounded is not inductive: a cluster with as many *)
(* drafts as there are ticks must have no tick left that could add one.    *)
(* DuplicatesAccounted counts those ticks too.  Once a cluster has a draft *)
(* their set only shrinks, for a cycle that begins later reads the draft,  *)
(* and a tick that commits a draft of the cluster leaves the set.          *)
(***************************************************************************)

LEMMA MayStillDraftFinite ==
    ASSUME NEW c
    PROVE  /\ MayStillDraft(c) \subseteq Ticks
           /\ IsFiniteSet(MayStillDraft(c))
           /\ Cardinality(MayStillDraft(c)) \in Nat
           /\ Cardinality(MayStillDraft(c)) <= Cardinality(Ticks)
           /\ Cardinality(Ticks) \in Nat
  <1>1. MayStillDraft(c) \subseteq Ticks
    BY DEF MayStillDraft
  <1>2. QED
    BY <1>1, FS_Subset, FS_CardinalityType, DispatchAssumption

LEMMA DraftsOnlyByRewrite ==
    ASSUME [Next]_vars, ~ \E t \in Ticks : RewriteSucceeds(t)
    PROVE  drafts' = drafts
  <1>1. ASSUME NEW t \in Ticks, TickStep(t), ~RewriteSucceeds(t)
        PROVE  drafts' = drafts
    BY <1>1, Zenon
       DEF TickStep, Answer, BeginCycle, Reserve, NextCandidate, CapReached,
           EnrichSucceeds, EnrichExcludes, CallFails, QualityGateFails, Raise,
           RaiseAfterQuarantine, StrandReservations, LoopStep, BurstRecorded,
           ReleaseCandidate, ReleaseAll, FinishCycle, AbandonCycle, database
  <1>2. ASSUME NEW c \in Clusters, LiftQuarantine(c) \/ DeferralEnds(c)
        PROVE  drafts' = drafts
    BY <1>2, Zenon DEF LiftQuarantine, DeferralEnds
  <1>3. CASE Restart
    BY <1>3 DEF Restart, database
  <1>4. CASE UNCHANGED vars
    BY <1>4 DEF vars
  <1>5. QED
    BY <1>1, <1>2, <1>3, <1>4 DEF Next

\* No step but a commit of a draft adds to the drafts of a cluster, and none
\* lets a tick join those that may still draft a cluster that has one.
LEMMA OtherStepsShrink ==
    ASSUME TypeOK, LoopInv, [Next]_vars,
           ~ \E t \in Ticks : RewriteSucceeds(t),
           NEW c \in Clusters, drafts[c] > 0
    PROVE  drafts' = drafts /\ MayStillDraft(c)' \subseteq MayStillDraft(c)
  <1> USE DEF Goto, Calling, session, database, MayStillDraft
  <1>1. ASSUME NEW t \in Ticks, BeginCycle(t)
        PROVE  drafts' = drafts /\ MayStillDraft(c)' \subseteq MayStillDraft(c)
    <2>1. c \in AlreadyDrafted
      BY DEF AlreadyDrafted
    <2>2. c \in excluded'[t]
      BY <1>1, <2>1 DEF BeginCycle, TypeOK
    <2>3. QED
      BY <1>1, <2>2 DEF BeginCycle, TypeOK
  <1>2. ASSUME NEW t \in Ticks, Reserve(t)
        PROVE  drafts' = drafts /\ MayStillDraft(c)' \subseteq MayStillDraft(c)
    <2>1. PICK reserved \in SUBSET (Clusters \ excluded[t]) :
             /\ pc[t] = "reserve"
             /\ todo' = [todo EXCEPT ![t] = reserved]
             /\ excluded' = [excluded EXCEPT ![t] = {}]
             /\ Goto(t, IF reserved = {} THEN "finish" ELSE "check")
             /\ UNCHANGED <<database, session, current, stranded>>
      BY <1>2, Zenon DEF Reserve, Top
    <2>2. QED
      BY <2>1 DEF TypeOK
  <1>3. ASSUME NEW t \in Ticks, NextCandidate(t)
        PROVE  drafts' = drafts /\ MayStillDraft(c)' \subseteq MayStillDraft(c)
    BY <1>3 DEF NextCandidate, TypeOK
  <1>4. ASSUME NEW t \in Ticks, CapReached(t)
        PROVE  drafts' = drafts /\ MayStillDraft(c)' \subseteq MayStillDraft(c)
    BY <1>4 DEF CapReached, TypeOK
  <1>5. ASSUME NEW t \in Ticks, Answer(t)
        PROVE  drafts' = drafts /\ MayStillDraft(c)' \subseteq MayStillDraft(c)
    <2>1. CASE EnrichSucceeds(t)
      BY <2>1 DEF EnrichSucceeds, TypeOK
    <2>2. CASE EnrichExcludes(t)
      BY <2>2 DEF EnrichExcludes, TypeOK
    <2>3. CASE CallFails(t)
      BY <2>3 DEF CallFails, TypeOK
    <2>4. CASE QualityGateFails(t)
      BY <2>4 DEF QualityGateFails, TypeOK
    <2>5. QED
      BY <1>5, <2>1, <2>2, <2>3, <2>4 DEF Answer
  <1>6. ASSUME NEW t \in Ticks,
               \/ Raise(t) \/ RaiseAfterQuarantine(t) \/ StrandReservations(t)
               \/ BurstRecorded(t)
        PROVE  drafts' = drafts /\ MayStillDraft(c)' \subseteq MayStillDraft(c)
    <2>1. CASE Raise(t)
      BY <2>1 DEF Raise, TypeOK
    <2>2. CASE RaiseAfterQuarantine(t)
      BY <2>2 DEF RaiseAfterQuarantine, TypeOK
    <2>3. CASE StrandReservations(t)
      BY <2>3 DEF StrandReservations, TypeOK
    <2>4. CASE BurstRecorded(t)
      BY <2>4 DEF BurstRecorded, TypeOK
    <2>5. QED
      BY <1>6, <2>1, <2>2, <2>3, <2>4
  <1>7. ASSUME NEW t \in Ticks, ReleaseCandidate(t)
        PROVE  drafts' = drafts /\ MayStillDraft(c)' \subseteq MayStillDraft(c)
    BY <1>7 DEF ReleaseCandidate, TypeOK
  <1>8. ASSUME NEW t \in Ticks,
               ReleaseAll(t) \/ FinishCycle(t) \/ AbandonCycle(t)
        PROVE  drafts' = drafts /\ MayStillDraft(c)' \subseteq MayStillDraft(c)
    <2>1. CASE ReleaseAll(t)
      BY <2>1 DEF ReleaseAll, TypeOK
    <2>2. CASE FinishCycle(t)
      BY <2>2 DEF FinishCycle, TypeOK
    <2>3. CASE AbandonCycle(t)
      BY <2>3 DEF AbandonCycle, TypeOK
    <2>4. QED
      BY <1>8, <2>1, <2>2, <2>3
  <1>9. ASSUME NEW d \in Clusters, LiftQuarantine(d) \/ DeferralEnds(d)
        PROVE  drafts' = drafts /\ MayStillDraft(c)' \subseteq MayStillDraft(c)
    <2>1. UNCHANGED <<drafts, pc, excluded, todo, current>>
      BY <1>9, Zenon DEF LiftQuarantine, DeferralEnds
    <2>2. QED
      BY <2>1
  <1>10. CASE Restart
    BY <1>10 DEF Restart
  <1>11. CASE UNCHANGED vars
    BY <1>11 DEF vars
  <1>12. QED
    BY <1>1, <1>2, <1>3, <1>4, <1>5, <1>6, <1>7, <1>8, <1>9, <1>10, <1>11
       DEF Next, TickStep, LoopStep

LEMMA RewriteLeaves ==
    ASSUME TypeOK, LoopInv, NEW t \in Ticks, RewriteSucceeds(t)
    PROVE  /\ current[t] \in Clusters
           /\ drafts' = [drafts EXCEPT ![current[t]] = @ + 1]
           /\ \A c \in Clusters :
                /\ MayStillDraft(c)' \subseteq MayStillDraft(c)
                /\ c = current[t] => /\ t \in MayStillDraft(c)
                                     /\ t \notin MayStillDraft(c)'
  BY DEF RewriteSucceeds, Goto, Calling, MayStillDraft, TypeOK, LoopInv

LEMMA NextAccounted ==
    TypeOK /\ LoopInv /\ DuplicatesAccounted /\ [Next]_vars
        => DuplicatesAccounted'
  <1> SUFFICES ASSUME TypeOK, LoopInv, DuplicatesAccounted, [Next]_vars,
                      NEW c \in Clusters, drafts'[c] > 0
               PROVE  drafts'[c] + Cardinality(MayStillDraft(c)')
                        <= Cardinality(Ticks)
    BY DEF DuplicatesAccounted
  <1> DEFINE M == MayStillDraft(c)
             N == Cardinality(Ticks)
  <1>1. /\ IsFiniteSet(M) /\ Cardinality(M) \in Nat
        /\ Cardinality(M) <= N /\ N \in Nat
    BY MayStillDraftFinite
  <1>2. drafts[c] \in Nat
    BY DEF TypeOK
  <1>3. drafts[c] > 0 => drafts[c] + Cardinality(M) <= N
    BY DEF DuplicatesAccounted
  <1>4. CASE ~ \E t \in Ticks : RewriteSucceeds(t)
    <2>1. drafts[c] > 0
      <3>1. SUFFICES ASSUME drafts[c] = 0 PROVE FALSE
        BY <1>2
      <3>2. drafts' = drafts
        BY <1>4, DraftsOnlyByRewrite
      <3>3. QED
        BY <3>1, <3>2
    <2>2. drafts' = drafts /\ M' \subseteq M
      BY <1>4, <2>1, OtherStepsShrink
    <2>3. Cardinality(M') \in Nat /\ Cardinality(M') <= Cardinality(M)
      BY <1>1, <2>2, FS_Subset, FS_CardinalityType
    <2>4. QED
      BY <1>1, <1>2, <1>3, <2>1, <2>2, <2>3
  <1>5. CASE \E t \in Ticks : RewriteSucceeds(t)
    <2>1. PICK t \in Ticks : RewriteSucceeds(t)
      BY <1>5
    <2>2. CASE c = current[t]
      <3>1. /\ drafts'[c] = drafts[c] + 1
            /\ t \in M /\ M' \subseteq M \ {t}
        BY <2>1, <2>2, RewriteLeaves DEF TypeOK
      <3>2. IsFiniteSet(M \ {t}) /\ Cardinality(M \ {t}) = Cardinality(M) - 1
        BY <1>1, <3>1, FS_RemoveElement
      <3>3. /\ Cardinality(M') \in Nat
            /\ Cardinality(M') <= Cardinality(M) - 1
        BY <3>1, <3>2, FS_Subset, FS_CardinalityType
      <3>4. QED
        BY <1>1, <1>2, <1>3, <3>1, <3>3
    <2>3. CASE c # current[t]
      <3>1. drafts'[c] = drafts[c] /\ M' \subseteq M
        BY <2>1, <2>3, RewriteLeaves DEF TypeOK
      <3>2. Cardinality(M') \in Nat /\ Cardinality(M') <= Cardinality(M)
        BY <1>1, <3>1, FS_Subset, FS_CardinalityType
      <3>3. QED
        BY <1>1, <1>2, <1>3, <3>1, <3>2
    <2>4. QED
      BY <2>2, <2>3
  <1>6. QED
    BY <1>4, <1>5

\* Drafts made and drafts still possible never exceed the number of instances.
THEOREM Accounted == Spec => []DuplicatesAccounted
  <1>1. Init => DuplicatesAccounted
    BY DEF Init, DuplicatesAccounted
  <1>2. QED
    BY <1>1, NextAccounted, TypeCorrect, PTL DEF Spec

\* A cluster never has more drafts than the scheduler allows instances of the
\* dispatch job.
THEOREM DuplicatesAreBounded == Spec => []DuplicatesBounded
  <1>1. TypeOK /\ DuplicatesAccounted => DuplicatesBounded
    <2> SUFFICES ASSUME TypeOK, DuplicatesAccounted, NEW c \in Clusters
                 PROVE  drafts[c] <= Cardinality(Ticks)
      BY DEF DuplicatesBounded
    <2>1. /\ Cardinality(MayStillDraft(c)) \in Nat
          /\ Cardinality(Ticks) \in Nat /\ drafts[c] \in Nat
      BY MayStillDraftFinite DEF TypeOK
    <2>2. drafts[c] > 0 => drafts[c] + Cardinality(MayStillDraft(c))
                             <= Cardinality(Ticks)
      BY DEF DuplicatesAccounted
    <2>3. QED
      BY <2>1, <2>2
  <1>2. QED
    BY <1>1, TypeCorrect, Accounted, PTL

-----------------------------------------------------------------------------
(***************************************************************************)
(* Deferrals.  A cycle writes back the whole queue row.  Counting one more *)
(* failure of a cluster defers no other one less, nor that cluster itself, *)
(* which has used up its failures if it is deferred; so a deferral that    *)
(* the cycle had read is kept.  With one instance of the job every cycle   *)
(* has read the row that it overwrites.                                    *)
(***************************************************************************)

LEMMA StruckKeeps ==
    ASSUME NEW queue \in [Clusters -> QueueEntry], NEW c \in Clusters,
           NEW d \in Clusters, queue[d].deferred
    PROVE  Struck(queue, c)[d].deferred
  BY DEF Struck, QueueEntry, DeferAfter

\* What a step may do to the row.
LEMMA StepQueue ==
    ASSUME TypeOK, [Next]_vars
    PROVE  \/ UNCHANGED failedQueue
           \/ \E t \in Ticks : Commit(t)
           \/ \E c \in Clusters : DeferralEnds(c)
  <1>1. ASSUME NEW t \in Ticks, TickStep(t)
        PROVE  UNCHANGED failedQueue \/ Commit(t)
    BY <1>1, Zenon
       DEF TickStep, LoopStep, Answer, BeginCycle, Reserve, NextCandidate,
           CapReached, BurstRecorded, ReleaseCandidate, ReleaseAll, FinishCycle,
           AbandonCycle, EnrichSucceeds, EnrichExcludes, RewriteSucceeds,
           CallFails, QualityGateFails, RollbackAndRecordFailure, Raise,
           RaiseAfterQuarantine, StrandReservations, database
  <1>2. ASSUME NEW c \in Clusters, LiftQuarantine(c)
        PROVE  UNCHANGED failedQueue
    BY <1>2, Zenon DEF LiftQuarantine
  <1>3. CASE Restart \/ UNCHANGED vars
    BY <1>3, Zenon DEF Restart, vars, database
  <1>4. QED
    BY <1>1, <1>2, <1>3, Zenon DEF Next

\* A step that undoes a deferral ends it, or stores a row read before it.
LEMMA DeferralLost ==
    ASSUME TypeOK, [Next]_vars, NEW c \in Clusters,
           failedQueue[c].deferred, ~failedQueue'[c].deferred
    PROVE  DeferralEnds(c) \/ \E t \in Ticks : Overwrites(t, c)
  <1>1. ASSUME NEW t \in Ticks, Commit(t)
        PROVE  Overwrites(t, c)
    <2>1. struck[t] \in Clusters /\ failedQueue' = Struck(queueRead[t], struck[t])
      BY <1>1 DEF Commit, TypeOK
    <2>2. ~queueRead[t][c].deferred
      BY <2>1, StruckKeeps DEF TypeOK
    <2>3. struck'[t] = None
      BY <1>1 DEF Commit, Clean, TypeOK
    <2>4. QED
      BY <2>1, <2>2, <2>3, DispatchAssumption DEF Overwrites
  <1>2. ASSUME NEW d \in Clusters, DeferralEnds(d)
        PROVE  DeferralEnds(c)
    <2>1. failedQueue' = [failedQueue EXCEPT ![d].deferred = FALSE]
      BY <1>2, Zenon DEF DeferralEnds
    <2>2. d # c => failedQueue'[c] = failedQueue[c]
      BY <2>1 DEF TypeOK
    <2>3. QED
      BY <1>2, <2>2
  <1>3. QED
    BY <1>1, <1>2, StepQueue

\* The types alone, as the runs check them.
THEOREM TypesHold == Spec => []TypeOK
  BY TypeCorrect, PTL

\* A deferred cluster stays deferred until its six hours are over, or until a
\* tick stores a row that it had read before the deferral: whoever had seen a
\* deferral keeps it.
THEOREM DeferralsHold == Spec => DeferralHolds
  <1>1. ASSUME TypeOK, [Next]_vars
        PROVE  [\A c \in Clusters :
                  failedQueue[c].deferred /\ ~failedQueue'[c].deferred
                     => DeferralEnds(c) \/ \E t \in Ticks : Overwrites(t, c)]_vars
    BY <1>1, DeferralLost
  <1>2. QED
    BY <1>1, TypeCorrect, PTL DEF Spec, DeferralHolds

\* What a session is about to overwrite is what it has read.
ReadIsRow == \A t \in Ticks : struck[t] # None => queueRead[t] = failedQueue

LEMMA NextReadIsRow ==
    ASSUME TypeOK, ReadIsRow, [Next]_vars, \A t, u \in Ticks : t = u
    PROVE  ReadIsRow'
  <1>1. ASSUME NEW t \in Ticks, Commit(t)
        PROVE  ReadIsRow'
    BY <1>1 DEF Commit, Clean, ReadIsRow, TypeOK
  <1>2. ASSUME NEW t \in Ticks, Clean(t)
        PROVE  ReadIsRow'
    BY <1>2 DEF Clean, ReadIsRow, TypeOK
  <1>3. ASSUME NEW t \in Ticks, NEW c, RollbackAndRecordFailure(t, c)
        PROVE  ReadIsRow'
    BY <1>3 DEF RollbackAndRecordFailure, ReadIsRow, TypeOK
  <1>4. ASSUME NEW c \in Clusters, DeferralEnds(c)
        PROVE  ReadIsRow'
    <2>1. /\ failedQueue' = [failedQueue EXCEPT ![c].deferred = FALSE]
          /\ queueRead' = [t \in Ticks |-> [queueRead[t] EXCEPT ![c].deferred = FALSE]]
          /\ UNCHANGED struck
      BY <1>4, Zenon DEF DeferralEnds
    <2>2. QED
      BY <2>1 DEF ReadIsRow
  <1>5. CASE Restart
    BY <1>5 DEF Restart, ReadIsRow
  <1>6. CASE UNCHANGED <<failedQueue, queueRead, struck>>
    BY <1>6 DEF ReadIsRow
  <1>7. ASSUME NEW t \in Ticks, TickStep(t)
        PROVE  \/ Commit(t) \/ Clean(t)
               \/ \E c : RollbackAndRecordFailure(t, c)
               \/ UNCHANGED <<failedQueue, queueRead, struck>>
    BY <1>7, Zenon
       DEF TickStep, LoopStep, Answer, BeginCycle, Reserve, NextCandidate,
           CapReached, BurstRecorded, ReleaseCandidate, ReleaseAll, FinishCycle,
           AbandonCycle, EnrichSucceeds, EnrichExcludes, RewriteSucceeds,
           CallFails, QualityGateFails, Raise, RaiseAfterQuarantine,
           StrandReservations, database, session
  <1>8. CASE UNCHANGED vars \/ \E c \in Clusters : LiftQuarantine(c)
    BY <1>6, <1>8, Zenon DEF vars, LiftQuarantine, session
  <1>9. QED
    BY <1>1, <1>2, <1>3, <1>4, <1>5, <1>6, <1>7, <1>8, Zenon DEF Next

\* "Defers that cluster for six hours" is true of a single instance of the job,
\* whatever fails or restarts: it takes two that overlap to lose a deferral.
THEOREM DeferralsLastAlone ==
    ASSUME \A t, u \in Ticks : t = u
    PROVE  Spec => DeferralLasts
  <1>1. Init => ReadIsRow
    BY DEF Init, ReadIsRow
  <1>2. TypeOK /\ ReadIsRow /\ [Next]_vars => ReadIsRow'
    BY NextReadIsRow
  <1>3. ASSUME TypeOK, ReadIsRow, [Next]_vars
        PROVE  [\A c \in Clusters :
                  failedQueue[c].deferred /\ ~failedQueue'[c].deferred
                     => DeferralEnds(c)]_vars
    BY <1>3, DeferralLost DEF Overwrites, ReadIsRow
  <1>4. QED
    BY <1>1, <1>2, <1>3, TypeCorrect, PTL DEF Spec, DeferralLasts
=============================================================================
