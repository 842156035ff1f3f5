---------------------------- MODULE DraftBudget ----------------------------
(***************************************************************************)
(* How many drafts the dispatcher may make: the daily limit, the hourly    *)
(* target, and the manual burst an administrator may request on top.       *)
(* run_dispatch_cycle computes the room when a cycle begins and looks at   *)
(* the daily limit again before each candidate; both looks are followed by *)
(* slow calls, and the draft is counted only when it is committed.         *)
(*                                                                         *)
(* The burst is one AppSetting row.  A session that finds it expired or    *)
(* used up sets it to null in memory; the null is written by that          *)
(* session's next commit, or forgotten at its next rollback.  After a      *)
(* draft the row is locked, read, incremented and committed.               *)
(*                                                                         *)
(* Abstracted: which clusters are drafted and why a call fails (module     *)
(* Dispatch).  The limits do not change while the model runs.              *)
(***************************************************************************)
EXTENDS Integers, FiniteSets

CONSTANTS
    Ticks,         \* instances of the rewrite_dispatch job (max_instances)
    DailyLimit,    \* queue.daily_limit, or the weekend limit
    HourTarget,    \* dispatch.target_per_hour
    BatchSize,     \* dispatch.batch_size
    Quotas,        \* quotas an administrator may request
    SameZone,      \* the configured time zone is the editorial one
    MaxRequests,   \* bound: bursts requested
    MaxFaults,     \* bound: restarts, and cycles that raise after a draft
    Nobody         \* "no tick"

ASSUME BudgetAssumption ==
    /\ IsFiniteSet(Ticks)
    /\ DailyLimit \in Nat \ {0} /\ HourTarget \in Nat \ {0}
    /\ BatchSize \in Nat \ {0}
    /\ Quotas \subseteq Nat \ {0}
    /\ SameZone \in BOOLEAN
    /\ MaxRequests \in Nat /\ MaxFaults \in Nat
    /\ Nobody \notin Ticks

VARIABLES
    today,        \* drafts since midnight, Europe/Minsk
    localToday,   \* drafts since midnight in the configured time zone
    thisHour,     \* drafts since the hour began
    inHours,      \* is_within_generation_hours
    burst,        \* the committed row pipeline.manual_generation_burst
    rowLock,      \* the tick that holds that row FOR UPDATE
    pc,           \* pc[t]: where tick t stands
    left,         \* left[t]: candidates its cycle has not tried
    clearing,     \* clearing[t]: its session will write null to the row
    counted,      \* counted[t]: the row it will write back, incremented
    basis,        \* history: what let its candidate pass, the limit or a burst
    extra,        \* history: drafts of today that a burst let pass
    made,         \* history: drafts since the live burst was requested
    missed,       \* history: ticks that died before they counted a draft,
                  \* since the burst was requested
    localNext,    \* history: the next midnight is the configured zone's
    requests, faults   \* the bounded counters

vars == <<today, localToday, thisHour, inHours, burst, rowLock, pc, left,
          clearing, counted, basis, extra, made, missed, localNext, requests,
          faults>>
counters == <<today, localToday, thisHour>>
history  == <<basis, extra, made, missed, localNext, requests, faults>>

-----------------------------------------------------------------------------
Burst == [quota: Nat, created: Nat, expired: BOOLEAN]
NoBurst == [quota |-> 0, created |-> 0, expired |-> FALSE]   \* null

Phase == {"idle", "check", "enrich", "rewrite", "record", "recording",
          "finish"}

TypeOK ==
    /\ today \in Nat /\ localToday \in Nat /\ thisHour \in Nat
    /\ inHours \in BOOLEAN
    /\ burst \in Burst
    /\ rowLock \in Ticks \cup {Nobody}
    /\ pc \in [Ticks -> Phase]
    /\ left \in [Ticks -> Nat]
    /\ clearing \in [Ticks -> BOOLEAN]
    /\ counted \in [Ticks -> Burst]
    /\ basis \in [Ticks -> {"limit", "burst"}]
    /\ extra \in Nat /\ made \in Nat /\ missed \in Nat
    /\ localNext \in BOOLEAN
    /\ requests \in Nat /\ faults \in Nat

Init ==
    /\ today = 0 /\ localToday = 0 /\ thisHour = 0
    /\ inHours = TRUE
    /\ burst = NoBurst
    /\ rowLock = Nobody
    /\ pc = [t \in Ticks |-> "idle"]
    /\ left = [t \in Ticks |-> 0]
    /\ clearing = [t \in Ticks |-> FALSE]
    /\ counted = [t \in Ticks |-> NoBurst]
    /\ basis = [t \in Ticks |-> "limit"]
    /\ localNext \in {FALSE, ~SameZone}
    /\ extra = 0 /\ made = 0 /\ missed = 0 /\ requests = 0 /\ faults = 0

-----------------------------------------------------------------------------
\* _parse_burst: a row counts while it is neither expired nor used up.
Live(b) == ~b.expired /\ b.created < b.quota
Remaining(b) == IF Live(b) THEN b.quota - b.created ELSE 0

Least(a, b) == IF a < b THEN a ELSE b
Largest(a, b) == IF a < b THEN b ELSE a

\* The row as the session of t sees it: its own pending null comes first.
Seen(t) == IF clearing[t] THEN NoBurst ELSE burst

\* load_manual_burst: a dead row is set to null in the session.
Clears(t) == clearing[t] \/ (burst # NoBurst /\ ~Live(burst))

\* Slips: a burst does not lift the limit; the hour forgets its drafts.
LimitWithoutBurst(t) == DailyLimit
HourWithoutDrafts(t) == HourTarget

EffectiveDailyLimit(t) ==
    IF Live(Seen(t)) THEN localToday + Remaining(Seen(t)) ELSE DailyLimit

RoomToday(t) == Largest(0, EffectiveDailyLimit(t) - today)

\* A slip: the limit is noticed one draft too late.
LimitPassed(t) == today > EffectiveDailyLimit(t)

LimitReached(t) == today >= EffectiveDailyLimit(t)

RoomThisHour(t) == Largest(Largest(0, HourTarget - thisHour), Remaining(Seen(t)))

Goto(t, label) == pc' = [pc EXCEPT ![t] = label]

\* Any commit of the session: a pending null is written over the row.
Commit(t) ==
    /\ clearing[t] => rowLock = Nobody
    /\ burst' = IF clearing[t] THEN NoBurst ELSE burst
    /\ clearing' = [clearing EXCEPT ![t] = FALSE]

Rollback(t) ==
    /\ clearing' = [clearing EXCEPT ![t] = FALSE]
    /\ UNCHANGED burst

\* A slip: the loop does not notice that its candidates are used up.
NeverFinish(t) == Goto(t, "check")

NextOrFinish(t) == Goto(t, IF left[t] = 0 THEN "finish" ELSE "check")

-----------------------------------------------------------------------------
\* _stage_enabled lets the cycle start, the room is computed, and at most
\* BatchSize candidates are reserved (fewer, or none, if few are eligible).
BeginCycle(t) ==
    LET room == Least(RoomToday(t), RoomThisHour(t)) IN
    /\ pc[t] = "idle"
    /\ inHours \/ Live(burst)
    /\ clearing' = [clearing EXCEPT ![t] = Clears(t)]
    /\ \E n \in 0..Least(BatchSize, room) :
         /\ left' = [left EXCEPT ![t] = n]
         /\ Goto(t, IF n = 0 THEN "finish" ELSE "check")
    /\ UNCHANGED <<counters, inHours, burst, rowLock, counted, history>>

\* The limit is looked at again before each candidate.
CheckLimit(t) ==
    /\ pc[t] = "check"
    /\ clearing' = [clearing EXCEPT ![t] = Clears(t)]
    /\ IF LimitReached(t)
       THEN /\ left' = [left EXCEPT ![t] = 0]
            /\ Goto(t, "finish")
            /\ UNCHANGED basis
       ELSE /\ left' = [left EXCEPT ![t] = @ - 1]
            /\ Goto(t, "enrich")
            /\ basis' = [basis EXCEPT
                           ![t] = IF Live(Seen(t)) THEN "burst" ELSE "limit"]
    /\ UNCHANGED <<counters, inHours, burst, rowLock, counted, extra, made,
                   missed, localNext, requests, faults>>

\* EnrichCluster answered: the context is committed, or a quarantine.
EnrichAnswers(t) ==
    /\ pc[t] = "enrich"
    /\ Commit(t)
    /\ Goto(t, "rewrite") \/ NextOrFinish(t)
    /\ UNCHANGED <<counters, inHours, rowLock, left, counted, history>>

\* A call failed.
CallFails(t) ==
    /\ pc[t] \in {"enrich", "rewrite"}
    /\ Rollback(t)
    /\ NextOrFinish(t)
    /\ UNCHANGED <<counters, inHours, rowLock, left, counted, history>>

\* The draft is committed.
RewriteSucceeds(t) ==
    /\ pc[t] = "rewrite"
    /\ today' = today + 1
    /\ localToday' = localToday + 1
    /\ thisHour' = thisHour + 1
    /\ extra' = IF basis[t] = "burst" THEN extra + 1 ELSE extra
    /\ made' = IF Live(burst) THEN made + 1 ELSE made
    /\ Goto(t, "record")
    /\ UNCHANGED <<inHours, burst, rowLock, left, clearing, counted, basis,
                   missed, localNext, requests, faults>>

\* The row with one more draft; null when that was the last one.
Counted(b) ==
    IF Live(b) /\ b.created + 1 < b.quota
    THEN [b EXCEPT !.created = @ + 1] ELSE NoBurst

\* A slip: the row is read without FOR UPDATE.
ReadBurst(t) ==
    /\ pc[t] = "record"
    /\ rowLock' = t
    /\ counted' = [counted EXCEPT ![t] = Counted(burst)]
    /\ Goto(t, "recording")
    /\ UNCHANGED <<counters, inHours, burst, left, clearing, history>>

\* record_manual_burst_draft: SELECT ... FOR UPDATE, then the new value.
LockBurst(t) ==
    /\ pc[t] = "record"
    /\ rowLock = Nobody
    /\ rowLock' = t
    /\ counted' = [counted EXCEPT ![t] = Counted(burst)]
    /\ Goto(t, "recording")
    /\ UNCHANGED <<counters, inHours, burst, left, clearing, history>>

CommitBurst(t) ==
    /\ pc[t] = "recording"
    /\ burst' = counted[t]
    /\ counted' = [counted EXCEPT ![t] = NoBurst]
    /\ rowLock' = Nobody
    /\ NextOrFinish(t)
    /\ UNCHANGED <<counters, inHours, left, clearing, history>>

\* Anything but an RpcError ends the cycle, and its session without a commit.
CycleRaises(t) ==
    /\ pc[t] \in {"check", "enrich", "rewrite"}
    /\ Rollback(t)
    /\ left' = [left EXCEPT ![t] = 0]
    /\ Goto(t, "idle")
    /\ UNCHANGED <<counters, inHours, rowLock, counted, history>>

\* So it does after the draft is committed: nobody counts that draft.
RaiseUncounted(t) ==
    /\ pc[t] \in {"record", "recording"}
    /\ faults < MaxFaults
    /\ faults' = faults + 1
    /\ Rollback(t)
    /\ rowLock' = IF rowLock = t THEN Nobody ELSE rowLock
    /\ counted' = [counted EXCEPT ![t] = NoBurst]
    /\ left' = [left EXCEPT ![t] = 0]
    /\ Goto(t, "idle")
    /\ missed' = missed + 1
    /\ UNCHANGED <<counters, inHours, basis, extra, made, localNext, requests>>

\* record_dispatch_cycle_result commits.
FinishCycle(t) ==
    /\ pc[t] = "finish"
    /\ Commit(t)
    /\ Goto(t, "idle")
    /\ UNCHANGED <<counters, inHours, rowLock, left, counted, history>>

-----------------------------------------------------------------------------
\* An administrator starts, or replaces, a burst: the row is overwritten.
RequestBurst(q) ==
    /\ requests < MaxRequests
    /\ requests' = requests + 1
    /\ rowLock = Nobody
    /\ burst' = [quota |-> q, created |-> 0, expired |-> FALSE]
    /\ made' = 0 /\ missed' = 0
    /\ UNCHANGED <<counters, inHours, rowLock, pc, left, clearing, counted,
                   basis, extra, localNext, faults>>

CancelBurst ==
    /\ rowLock = Nobody
    /\ burst # NoBurst
    /\ burst' = NoBurst
    /\ UNCHANGED <<counters, inHours, rowLock, pc, left, clearing, counted,
                   history>>

\* expires_at passes, for the row and for a copy about to be written.
BurstExpires ==
    /\ burst # NoBurst /\ ~burst.expired
    /\ burst' = [burst EXCEPT !.expired = TRUE]
    /\ counted' = [t \in Ticks |-> IF counted[t] = NoBurst THEN NoBurst
                                   ELSE [counted[t] EXCEPT !.expired = TRUE]]
    /\ UNCHANGED <<counters, inHours, rowLock, pc, left, clearing, history>>

HourBegins ==
    /\ thisHour > 0
    /\ thisHour' = 0
    /\ UNCHANGED <<today, localToday, inHours, burst, rowLock, pc, left,
                   clearing, counted, history>>

\* Midnight in the editorial zone, and in the configured one if they agree;
\* the midnights of two zones take turns.
DayBegins ==
    /\ ~localNext
    /\ today' = 0 /\ thisHour' = 0 /\ extra' = 0
    /\ localToday' = IF SameZone THEN 0 ELSE localToday
    /\ localNext' = ~SameZone
    /\ UNCHANGED <<inHours, burst, rowLock, pc, left, clearing, counted, basis,
                   made, missed, requests, faults>>

LocalDayBegins ==
    /\ localNext
    /\ localToday' = 0
    /\ localNext' = FALSE
    /\ UNCHANGED <<today, thisHour, inHours, burst, rowLock, pc, left, clearing,
                   counted, basis, extra, made, missed, requests, faults>>

WindowChanges ==
    /\ inHours' = ~inHours
    /\ UNCHANGED <<counters, burst, rowLock, pc, left, clearing, counted,
                   history>>

\* Ticks whose draft is committed and not counted yet.
Counting == {t \in Ticks : pc[t] \in {"record", "recording"}}

\* The worker restarts: drafts committed and not counted stay uncounted.
Restart ==
    /\ faults < MaxFaults
    /\ faults' = faults + 1
    /\ \E t \in Ticks : pc[t] # "idle"
    /\ rowLock' = Nobody
    /\ pc' = [t \in Ticks |-> "idle"]
    /\ left' = [t \in Ticks |-> 0]
    /\ clearing' = [t \in Ticks |-> FALSE]
    /\ counted' = [t \in Ticks |-> NoBurst]
    /\ missed' = missed + Cardinality(Counting)
    /\ UNCHANGED <<counters, inHours, burst, basis, extra, made, localNext,
                   requests>>

-----------------------------------------------------------------------------
TickStep(t) ==
    \/ BeginCycle(t) \/ CheckLimit(t) \/ EnrichAnswers(t) \/ CallFails(t)
    \/ RewriteSucceeds(t) \/ LockBurst(t) \/ CommitBurst(t) \/ CycleRaises(t)
    \/ RaiseUncounted(t) \/ FinishCycle(t)

Next ==
    \/ \E t \in Ticks : TickStep(t)
    \/ \E q \in Quotas : RequestBurst(q)
    \/ CancelBurst \/ BurstExpires
    \/ HourBegins \/ DayBegins \/ LocalDayBegins \/ WindowChanges
    \/ Restart

Spec == Init /\ [][Next]_vars

\* The scheduler keeps firing, calls are answered, and an answer that can
\* come again and again is one day a draft of an eligible cluster; a cycle does not
\* raise before every look at the limit.
Fairness ==
    \A t \in Ticks :
        /\ WF_vars(TickStep(t))
        /\ SF_vars(BeginCycle(t) /\ left'[t] > 0)
        /\ SF_vars(EnrichAnswers(t) /\ pc'[t] = "rewrite")
        /\ SF_vars(CheckLimit(t))
        /\ SF_vars(RewriteSucceeds(t))

FairSpec == Spec /\ Fairness

-----------------------------------------------------------------------------
\* Candidates a tick took up because the limit still had room for one.
OnLimit == {t \in Ticks : pc[t] \in {"enrich", "rewrite"} /\ basis[t] = "limit"}

\* Drafts the limit let pass exceed it by fewer than there are job instances,
\* although every instance looks at it only before its slow calls.
OvershootBounded == today - extra <= DailyLimit + Cardinality(Ticks) - 1

\* Why: each candidate under way took its place while the limit had room.
OvershootAccounted ==
    /\ extra <= today
    /\ today - extra + Cardinality(OnLimit)
         <= DailyLimit + Cardinality(Ticks) - 1

\* Each cycle asks for no more than the room of its hour, but the instances ask
\* at the same time: without bursts an hour may exceed its target by what the
\* other instances had reserved, and no more.
HourOvershootBounded ==
    requests = 0 =>
        thisHour <= HourTarget
                      + (Cardinality(Ticks) - 1) * Least(BatchSize, HourTarget)

\* "Concurrent dispatch ticks cannot lose increments": whatever expires, is
\* cancelled, replaced or cleared in between, the count of a live burst lacks
\* only drafts of the ticks about to count and of those that died before they
\* could; it is never behind because two ticks counted at the same time.
NoIncrementLost ==
    Live(burst) => made <= burst.created + Cardinality(Counting) + missed

\* A live burst is served, even with the day's limit reached and outside the
\* generation hours: it does not stay without a draft for ever.
BurstServed ==
    (Live(burst) /\ burst.created = 0) ~> ~(Live(burst) /\ burst.created = 0)
=============================================================================
