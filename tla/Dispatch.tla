------------------------------ MODULE Dispatch ------------------------------
(***************************************************************************)
(* The dispatcher of the worker (services/worker/app/dispatch/pipeline.py, *)
(* run_dispatch_cycle): up to three overlapping instances of one scheduler *)
(* job ("ticks") turn news clusters into drafts.  A tick reads which       *)
(* clusters are excluded, reserves some of the others in a process-wide    *)
(* set, and for each asks the rewrite service to enrich and then rewrite   *)
(* it, both slow calls made while no database lock is held.                *)
(*                                                                         *)
(* The failed-cluster queue is ONE json row: a tick reads the whole row,   *)
(* adds a failure, and the result reaches the database with the session's  *)
(* next commit or is thrown away by its next rollback.                     *)
(*                                                                         *)
(* Not only calls fail.  Anything the loop does may raise, and a write the *)
(* database refuses also leaves the session unusable and every loaded row  *)
(* expired: the finally blocks then cannot even read cluster.id, and the   *)
(* reservations stay (StrandReservations).                                 *)
(*                                                                         *)
(* Abstracted: how many drafts the caps still allow (any positive number:  *)
(* module DraftBudget computes it), the scores (any ranking of Ranks), the *)
(* context, content and token counters, which no step here reads.          *)
(***************************************************************************)
EXTENDS Naturals, FiniteSets

CONSTANTS
    Clusters,       \* in-topic clusters of the selection window
    Ticks,          \* instances of the rewrite_dispatch job (max_instances)
    BatchSize,      \* the setting dispatch.batch_size
    Ranks,          \* the score orders select_top_clusters may meet
    Poison,         \* clusters on which the rewrite service always fails
    Flaky,          \* clusters on which a call may fail or be excluded
    Lapsing,        \* clusters whose deferral or quarantine may end in the horizon
    MaxFailures,    \* bound: a deferral ends only below so many failures
    CapMayClose,    \* whether the daily cap may close during a cycle
    Faults,         \* whether the worker may restart or a tick may raise
    None            \* "no cluster"

ASSUME DispatchAssumption ==
    /\ IsFiniteSet(Clusters) /\ IsFiniteSet(Ticks)
    /\ BatchSize \in Nat \ {0}
    /\ Ranks \subseteq [Clusters -> Nat]
    /\ Poison \subseteq Clusters /\ Flaky \subseteq Clusters
    /\ Lapsing \subseteq Clusters /\ MaxFailures \in Nat
    /\ CapMayClose \in BOOLEAN /\ Faults \in BOOLEAN
    /\ None \notin Clusters

VARIABLES
    drafts,       \* drafts[c]: committed Draft rows of cluster c
    quarantine,   \* quarantine[c]: its ClusterQuarantine row
    failedQueue,  \* the committed row dispatch.failed_cluster_queue
    inFlight,     \* _IN_FLIGHT_CLUSTER_IDS, memory of the worker process
    pc,           \* pc[t]: where tick t stands
    excluded,     \* excluded[t]: excluded_ids, as read when the cycle began
    batch,        \* batch[t]: the candidates t reserved
    todo,         \* todo[t]: the candidates its loop has not finished
    current,      \* current[t]: the candidate its loop is on
    queueRead,    \* queueRead[t]: the row as the session of t read it last
    struck,       \* struck[t]: the cluster whose failure that session adds to
                  \* it at its next commit; None if it has not changed the row
    expired,      \* expired[t]: a rollback has expired the loaded rows of the
                  \* candidates its loop has not come to yet
    stranded      \* history: reservations left behind by a cycle that ended
                  \* without its finally blocks, and not released since

vars == <<drafts, quarantine, failedQueue, inFlight, pc, excluded, batch,
          todo, current, queueRead, struck, expired, stranded>>
database == <<drafts, quarantine, failedQueue>>
session  == <<queueRead, struck, expired>>

-----------------------------------------------------------------------------
DeferAfter == 2   \* failures at which a cluster is deferred

QueueEntry == {e \in [failures: Nat, deferred: BOOLEAN] :
                 e.deferred => e.failures >= DeferAfter}
Phase == {"idle", "reserve", "check", "enrich", "rewrite", "record", "release",
          "unwind", "finish", "raising", "raised"}
Calling == {"enrich", "rewrite"}

TypeOK ==
    /\ drafts \in [Clusters -> Nat]
    /\ quarantine \in [Clusters -> {"none", "active", "released"}]
    /\ failedQueue \in [Clusters -> QueueEntry]
    /\ inFlight \subseteq Clusters
    /\ pc \in [Ticks -> Phase]
    /\ excluded \in [Ticks -> SUBSET Clusters]
    /\ batch \in [Ticks -> SUBSET Clusters]
    /\ todo \in [Ticks -> SUBSET Clusters]
    /\ current \in [Ticks -> Clusters \cup {None}]
    /\ queueRead \in [Ticks -> [Clusters -> QueueEntry]]
    /\ struck \in [Ticks -> Clusters \cup {None}]
    /\ expired \in [Ticks -> BOOLEAN]
    /\ stranded \subseteq inFlight

EmptyQueue == [c \in Clusters |-> [failures |-> 0, deferred |-> FALSE]]

Init ==
    /\ drafts = [c \in Clusters |-> 0]
    /\ quarantine = [c \in Clusters |-> "none"]
    /\ failedQueue = EmptyQueue
    /\ inFlight = {}
    /\ pc = [t \in Ticks |-> "idle"]
    /\ excluded = [t \in Ticks |-> {}]
    /\ batch = [t \in Ticks |-> {}]
    /\ todo = [t \in Ticks |-> {}]
    /\ current = [t \in Ticks |-> None]
    /\ queueRead = [t \in Ticks |-> EmptyQueue]
    /\ struck = [t \in Ticks |-> None]
    /\ expired = [t \in Ticks |-> FALSE]
    /\ stranded = {}

-----------------------------------------------------------------------------
\* Slips of the definitions below, for the runs to notice: the query for
\* drafted clusters is dropped.
NoneDrafted == {}

AlreadyDrafted == {c \in Clusters : drafts[c] > 0}
ActiveQuarantined == {c \in Clusters : quarantine[c] = "active"}
Deferred == {c \in Clusters : failedQueue[c].deferred}

\* The n best-ranked members of S.
Top(S, n, rank) == {c \in S : Cardinality({d \in S : rank[d] < rank[c]}) < n}

\* Slips: a cluster is deferred one failure too early; its former failures
\* are forgotten; the row is rebuilt with the failed cluster alone.
StruckTooSoon(queue, c) ==
    [queue EXCEPT ![c] = [failures |-> @.failures + 1,
                         deferred |-> @.failures + 1 >= DeferAfter - 1]]
StruckOnce(queue, c) ==
    [queue EXCEPT ![c] = [failures |-> 1, deferred |-> FALSE]]
StruckAlone(queue, c) ==
    [EmptyQueue EXCEPT ![c] = [failures |-> DeferAfter, deferred |-> TRUE]]

\* The queue with one more failure of c: deferred from the second one on.
Struck(queue, c) ==
    LET failures == queue[c].failures + 1
    IN [queue EXCEPT ![c] = [failures |-> failures,
                             deferred |-> failures >= DeferAfter]]

Goto(t, label) == pc' = [pc EXCEPT ![t] = label]

\* The session has nothing to write any more.
Clean(t) ==
    /\ queueRead' = [queueRead EXCEPT ![t] = EmptyQueue]
    /\ struck' = [struck EXCEPT ![t] = None]

\* COMMIT: the row it read, with the failure it added, overwrites the row.
Commit(t) ==
    /\ failedQueue' = IF struck[t] = None THEN failedQueue
                      ELSE Struck(queueRead[t], struck[t])
    /\ Clean(t)
    /\ UNCHANGED expired

\* ROLLBACK, then _record_failed_cluster: an earlier uncommitted failure is
\* gone, and the row is read again and changed in the session.
RollbackAndRecordFailure(t, c) ==
    /\ queueRead' = [queueRead EXCEPT ![t] = failedQueue]
    /\ struck' = [struck EXCEPT ![t] = c]
    /\ expired' = [expired EXCEPT ![t] = TRUE]
    /\ UNCHANGED failedQueue

-----------------------------------------------------------------------------
\* The cycle starts: room is left, and the excluded clusters are read.
BeginCycle(t) ==
    /\ pc[t] = "idle"
    /\ excluded' = [excluded EXCEPT
                      ![t] = AlreadyDrafted \cup ActiveQuarantined \cup Deferred]
    /\ Goto(t, "reserve")
    /\ UNCHANGED <<database, session, inFlight, batch, todo, current, stranded>>

\* select_top_clusters returns the best `room` clusters not excluded when the
\* cycle began; _reserve_candidates takes the first ones not in flight.
Reserve(t) ==
    \E rank \in Ranks, room \in 1..Cardinality(Clusters) :
        LET selected == Top(Clusters \ excluded[t], room, rank)
            size     == IF room < BatchSize THEN room ELSE BatchSize
            reserved == Top(selected \ inFlight, size, rank)
        IN /\ pc[t] = "reserve"
           /\ batch' = [batch EXCEPT ![t] = reserved]
           /\ todo' = [todo EXCEPT ![t] = reserved]
           /\ inFlight' = inFlight \cup reserved
           /\ excluded' = [excluded EXCEPT ![t] = {}]
           /\ Goto(t, IF reserved = {} THEN "finish" ELSE "check")
           /\ UNCHANGED <<database, session, current, stranded>>

\* The loop takes its next candidate if the daily cap still allows one.
NextCandidate(t) ==
    /\ pc[t] = "check"
    /\ \E c \in todo[t] : current' = [current EXCEPT ![t] = c]
    /\ Goto(t, "enrich")
    /\ UNCHANGED <<database, session, inFlight, excluded, batch, todo, stranded>>

\* `break`: other ticks used the day up in the meantime.
CapReached(t) ==
    /\ pc[t] = "check"
    /\ CapMayClose
    /\ Goto(t, "unwind")
    /\ UNCHANGED <<database, session, inFlight, excluded, batch, todo,
                   current, stranded>>

-----------------------------------------------------------------------------
\* EnrichCluster answered and nothing excludes the cluster.
EnrichSucceeds(t) ==
    /\ pc[t] = "enrich"
    /\ current[t] \notin Poison
    /\ Commit(t)
    /\ Goto(t, "rewrite")
    /\ UNCHANGED <<drafts, quarantine, inFlight, excluded, batch, todo,
                   current, stranded>>

\* EnrichCluster found politics or advertising: an editorial stop.
EnrichExcludes(t) ==
    /\ pc[t] = "enrich"
    /\ current[t] \in Flaky \ Poison
    /\ quarantine' = [quarantine EXCEPT ![current[t]] = "active"]
    /\ Commit(t)
    /\ Goto(t, "release")
    /\ UNCHANGED <<drafts, inFlight, excluded, batch, todo, current, stranded>>

\* The draft and its first revision are committed together.
RewriteSucceeds(t) ==
    /\ pc[t] = "rewrite"
    /\ drafts' = [drafts EXCEPT ![current[t]] = @ + 1]
    /\ Commit(t)
    /\ Goto(t, "record")
    /\ UNCHANGED <<quarantine, inFlight, excluded, batch, todo, current,
                   stranded>>

\* The burst has counted the draft (module DraftBudget).
BurstRecorded(t) ==
    /\ pc[t] = "record"
    /\ Goto(t, "release")
    /\ UNCHANGED <<database, session, inFlight, excluded, batch, todo, current,
                   stranded>>

\* Either call fails: only the failure is recorded.
CallFails(t) ==
    /\ pc[t] \in Calling
    /\ current[t] \in Poison \cup Flaky
    /\ RollbackAndRecordFailure(t, current[t])
    /\ Goto(t, "release")
    /\ UNCHANGED <<drafts, quarantine, inFlight, excluded, batch, todo, current,
                   stranded>>

\* RewriteCluster gave up at the quality gate: quarantine at once, and a
\* failure on top of it.
QualityGateFails(t) ==
    /\ pc[t] = "rewrite"
    /\ current[t] \in Flaky
    /\ quarantine' = [quarantine EXCEPT ![current[t]] = "active"]
    /\ RollbackAndRecordFailure(t, current[t])
    /\ Goto(t, "release")
    /\ UNCHANGED <<drafts, inFlight, excluded, batch, todo, current, stranded>>

-----------------------------------------------------------------------------
\* Anything but an RpcError leaves the cycle, through both finally blocks if
\* a candidate was being worked on.
Raise(t) ==
    /\ Faults
    /\ \/ pc[t] \in Calling \cup {"record"} /\ Goto(t, "raising")
       \/ pc[t] \in {"reserve", "check", "finish"} /\ Goto(t, "raised")
    /\ UNCHANGED <<database, session, inFlight, excluded, batch, todo,
                   current, stranded>>

\* The failure of the call is not recorded any more, although its quarantine
\* is committed.
RaiseAfterQuarantine(t) ==
    /\ Faults
    /\ pc[t] = "rewrite"
    /\ current[t] \in Flaky
    /\ quarantine' = [quarantine EXCEPT ![current[t]] = "active"]
    /\ Clean(t)
    /\ expired' = [expired EXCEPT ![t] = TRUE]
    /\ Goto(t, "raising")
    /\ UNCHANGED <<drafts, failedQueue, inFlight, excluded, batch, todo,
                   current, stranded>>

\* The cycle ends and keeps the reservations of what it has not finished:
\* because a write was refused, so that reading cluster.id raises in either
\* finally block; because the database does not answer when the outer block
\* reads the rows that a rollback has expired (those it reads before are
\* released, for a second time); or because the channel is not built, which
\* is before the try.
StrandReservations(t) ==
    /\ Faults
    /\ \/ pc[t] \in Calling \cup {"record"} /\ UNCHANGED inFlight
       \/ /\ pc[t] \in {"check", "unwind", "raised"} /\ expired[t]
          /\ \E again \in SUBSET (batch[t] \ todo[t]) :
                inFlight' = inFlight \ again
       \/ pc[t] = "check" /\ todo[t] = batch[t] /\ UNCHANGED inFlight
    /\ stranded' = (stranded \cup todo[t]) \cap inFlight'
    /\ batch' = [batch EXCEPT ![t] = {}]
    /\ todo' = [todo EXCEPT ![t] = {}]
    /\ current' = [current EXCEPT ![t] = None]
    /\ Clean(t)
    /\ expired' = [expired EXCEPT ![t] = FALSE]
    /\ Goto(t, "idle")
    /\ UNCHANGED <<database, excluded>>

-----------------------------------------------------------------------------
\* The inner finally: this candidate is free again.
ReleaseCandidate(t) ==
    /\ pc[t] \in {"release", "raising"}
    /\ inFlight' = inFlight \ {current[t]}
    /\ stranded' = stranded \ {current[t]}
    /\ todo' = [todo EXCEPT ![t] = @ \ {current[t]}]
    /\ current' = [current EXCEPT ![t] = None]
    /\ Goto(t, IF pc[t] = "raising" THEN "raised"
               ELSE IF todo'[t] = {} THEN "unwind" ELSE "check")
    /\ UNCHANGED <<database, session, excluded, batch>>

\* A slip: the outer finally is dropped.
ReleaseNone(t) ==
    /\ pc[t] = "unwind"
    /\ batch' = [batch EXCEPT ![t] = {}]
    /\ todo' = [todo EXCEPT ![t] = {}]
    /\ expired' = [expired EXCEPT ![t] = FALSE]
    /\ Goto(t, "finish")
    /\ UNCHANGED <<database, queueRead, struck, inFlight, excluded, current,
                   stranded>>

\* The outer finally: every candidate of the cycle is released once more.
ReleaseAll(t) ==
    /\ pc[t] = "unwind"
    /\ inFlight' = inFlight \ batch[t]
    /\ stranded' = stranded \ batch[t]
    /\ batch' = [batch EXCEPT ![t] = {}]
    /\ todo' = [todo EXCEPT ![t] = {}]
    /\ expired' = [expired EXCEPT ![t] = FALSE]
    /\ Goto(t, "finish")
    /\ UNCHANGED <<database, queueRead, struck, excluded, current>>

\* record_dispatch_cycle_result commits the session.
FinishCycle(t) ==
    /\ pc[t] = "finish"
    /\ Commit(t)
    /\ Goto(t, "idle")
    /\ UNCHANGED <<drafts, quarantine, inFlight, excluded, batch, todo,
                   current, stranded>>

\* The outer finally of a raising cycle, then the scheduler's except: the
\* session is closed without a commit.
AbandonCycle(t) ==
    /\ pc[t] = "raised"
    /\ inFlight' = inFlight \ batch[t]
    /\ stranded' = stranded \ batch[t]
    /\ excluded' = [excluded EXCEPT ![t] = {}]
    /\ batch' = [batch EXCEPT ![t] = {}]
    /\ todo' = [todo EXCEPT ![t] = {}]
    /\ Clean(t)
    /\ expired' = [expired EXCEPT ![t] = FALSE]
    /\ Goto(t, "idle")
    /\ UNCHANGED <<database, current>>

-----------------------------------------------------------------------------
\* The single worker process restarts: its memory and sessions are gone.
Restart ==
    /\ Faults
    /\ \E t \in Ticks : pc[t] # "idle"
    /\ inFlight' = {}
    /\ pc' = [t \in Ticks |-> "idle"]
    /\ excluded' = [t \in Ticks |-> {}]
    /\ batch' = [t \in Ticks |-> {}]
    /\ todo' = [t \in Ticks |-> {}]
    /\ current' = [t \in Ticks |-> None]
    /\ queueRead' = [t \in Ticks |-> EmptyQueue]
    /\ struck' = [t \in Ticks |-> None]
    /\ expired' = [t \in Ticks |-> FALSE]
    /\ stranded' = {}
    /\ UNCHANGED database

\* An administrator lifts the quarantine of c.
LiftQuarantine(c) ==
    /\ c \in Lapsing
    /\ quarantine[c] = "active"
    /\ quarantine' = [quarantine EXCEPT ![c] = "released"]
    /\ UNCHANGED <<drafts, failedQueue, inFlight, pc, excluded, batch, todo,
                   current, session, stranded>>

\* Six hours have passed, for the entry of c and for copies of it.
DeferralEnds(c) ==
    /\ c \in Lapsing
    /\ failedQueue[c].deferred
    /\ failedQueue[c].failures < MaxFailures
    /\ failedQueue' = [failedQueue EXCEPT ![c].deferred = FALSE]
    /\ queueRead' = [t \in Ticks |-> [queueRead[t] EXCEPT ![c].deferred = FALSE]]
    /\ UNCHANGED <<drafts, quarantine, inFlight, pc, excluded, batch, todo,
                   current, struck, expired, stranded>>

-----------------------------------------------------------------------------
Answer(t) ==
    \/ EnrichSucceeds(t) \/ EnrichExcludes(t) \/ RewriteSucceeds(t)
    \/ CallFails(t) \/ QualityGateFails(t)

\* What a tick does by itself, without waiting for a call.
LoopStep(t) ==
    \/ Reserve(t) \/ NextCandidate(t) \/ CapReached(t) \/ BurstRecorded(t)
    \/ ReleaseCandidate(t) \/ ReleaseAll(t) \/ FinishCycle(t) \/ AbandonCycle(t)

TickStep(t) ==
    \/ BeginCycle(t) \/ LoopStep(t) \/ Answer(t)
    \/ Raise(t) \/ RaiseAfterQuarantine(t) \/ StrandReservations(t)

Next ==
    \/ \E t \in Ticks : TickStep(t)
    \/ \E c \in Clusters : LiftQuarantine(c) \/ DeferralEnds(c)
    \/ Restart

Spec == Init /\ [][Next]_vars

\* A running thread goes on; a call may stay without an answer for ever, for
\* the client sets no deadline.
LoopSpec == Spec /\ \A t \in Ticks : WF_vars(LoopStep(t))

\* Besides, the scheduler fires every job every minute, and each rewrite call
\* is answered or fails.
Fairness == \A t \in Ticks : WF_vars(TickStep(t))

FairSpec == Spec /\ Fairness

-----------------------------------------------------------------------------
\* A reservation is for a candidate that a running tick has not finished, or
\* it was left behind by a cycle whose finally blocks failed: neither the cap,
\* nor an exception that leaves the session usable, nor another tick's second
\* release makes a cluster invisible to every later cycle.
NoOrphanReservation ==
    inFlight \subseteq (UNION {todo[t] : t \in Ticks}) \cup stranded

\* The ticks that may still add a draft of c without reading the database
\* again: their exclusions are older than its first draft, or c is theirs.
MayStillDraft(c) ==
    {t \in Ticks :
       \/ pc[t] = "reserve" /\ c \notin excluded[t]
       \/ pc[t] \in {"check", "enrich", "rewrite"} /\ c \in todo[t]
       \/ pc[t] \in {"record", "release"} /\ c \in todo[t] /\ c # current[t]}

\* However the reads, reservations and releases of the ticks interleave, a
\* cluster never gets more drafts than there are instances of the job.
DuplicatesBounded == \A c \in Clusters : drafts[c] <= Cardinality(Ticks)

\* Why it holds: drafts made plus drafts still possible.
DuplicatesAccounted ==
    \A c \in Clusters :
        drafts[c] > 0 =>
            drafts[c] + Cardinality(MayStillDraft(c)) <= Cardinality(Ticks)

\* t stores a queue it had read before c was deferred in it.
Overwrites(t, c) ==
    struck[t] # None /\ struck'[t] = None /\ ~queueRead[t][c].deferred

\* What ends a deferral is time, or a tick that stores a queue older than it:
\* a tick that had seen the deferral keeps it, whatever it stores.
DeferralHolds ==
    [][\A c \in Clusters :
         failedQueue[c].deferred /\ ~failedQueue'[c].deferred
            => DeferralEnds(c) \/ \E t \in Ticks : Overwrites(t, c)]_vars

\* "A second failed attempt defers that cluster for six hours"
\* (pipeline.py:258): time alone ends a deferral.
DeferralLasts ==
    [][\A c \in Clusters :
         failedQueue[c].deferred /\ ~failedQueue'[c].deferred
            => DeferralEnds(c)]_vars

\* Nothing keeps a reservation for ever, whether cycles end, reach the cap,
\* raise or are cut off, but a call that is never answered and a cycle whose
\* finally blocks failed.
ReservationsEnd ==
    \A c \in Clusters :
        \/ []<>(c \notin inFlight)
        \/ <>[](\/ c \in stranded
                \/ \E t \in Ticks : pc[t] \in Calling /\ c \in todo[t])

\* A cluster that always fails does not take the dispatcher from the others:
\* each of them gets its draft.
HealthyClustersDrafted ==
    \A c \in Clusters \ (Poison \cup Flaky) : <>(drafts[c] > 0)
=============================================================================
