------------------------------- MODULE Intake -------------------------------
(***************************************************************************)
(* From the feeds to the clusters: the poller with its circuit breaker,    *)
(* articles added by hand, the clustering tick and the topic filter        *)
(* (services/worker/app/ingestion, dedup, filter).                         *)
(*                                                                         *)
(* The clustering tick is one transaction of one job instance, but a long  *)
(* one: it embeds a batch of articles, reads the clusters of the last      *)
(* three days, decides article after article, asking the language model    *)
(* about the doubtful ones, and commits at the end.  Polls, the filter and *)
(* the dispatcher go on meanwhile, and a restart undoes the whole tick.    *)
(*                                                                         *)
(* Abstracted: an article is what its similarity to the others is; a       *)
(* cluster is named after the article that started it, whose embedding is  *)
(* the cluster's; of time only the limits that were passed.                *)
(***************************************************************************)
EXTENDS Integers, FiniteSets

CONSTANTS
    Items,           \* articles, by source and external id
    Sources,         \* RSS sources
    Feed,            \* Feed[s]: articles of source s; the rest come by hand
    Score,           \* Score[i][j]: similarity of the embeddings
    AttachAt,        \* the larger of AUTO_ATTACH_THRESHOLD and similarity_threshold
    ConfirmAt,       \* CONFIRMATION_THRESHOLD
    MaxCandidates,   \* MAX_CONFIRMATION_CANDIDATES
    BatchLimit,      \* DEFAULT_CLUSTER_PER_TICK_LIMIT
    OnTopic,         \* articles whose text hits an active topic
    Threshold,       \* CONSECUTIVE_FAILURE_THRESHOLD
    FreshFor,        \* max_item_age_window
    Window,          \* CLUSTER_WINDOW
    MaxNow,          \* bound on the clock
    MaxFailures,     \* bound on the failures of a source in a row
    None             \* no cluster

ASSUME IntakeAssumption ==
    /\ IsFiniteSet(Items) /\ None \notin Items
    /\ Feed \in [Sources -> SUBSET Items]
    /\ \A s, t \in Sources : s # t => Feed[s] \cap Feed[t] = {}
    /\ Score \in [Items -> [Items -> Nat]]
    /\ AttachAt \in Nat /\ ConfirmAt \in 1..AttachAt
    /\ MaxCandidates \in 1..3
    /\ BatchLimit \in Nat \ {0}
    /\ OnTopic \subseteq Items
    /\ Threshold \in Nat \ {0}
    /\ MaxFailures \in Nat
    /\ FreshFor \in Nat /\ Window \in Nat /\ MaxNow \in Nat

VARIABLES
    fetched,    \* fetched[i]: the place of raw_item.fetched_at in time, 0: no row
    now,        \* the clock, in units the two windows are counted in
    at,         \* at[i]: published_at, or else fetched_at, on the clock
    home,       \* home[i]: raw_item.cluster_id, as committed
    created,    \* created[c]: news_cluster.created_at
    topic,      \* topic[c]: news_cluster.topic_status
    drafted,    \* clusters with a Draft
    failures,   \* failures[s]: source.consecutive_failures
    paused,     \* sources with paused_until in the future
    tick        \* the session of the clustering tick

clock == <<now, at>>
clusters == <<home, created, topic, drafted>>
breaker == <<failures, paused>>
vars == <<fetched, clock, clusters, breaker, tick>>

-----------------------------------------------------------------------------
Clusters == {i \in Items : home[i] = i}
Stored == {i \in Items : fetched[i] # 0}
Fresh(i) == now - at[i] <= FreshFor
Tick == [on: BOOLEAN, began: 0..MaxNow, todo: SUBSET Items,
         item: Items \cup {None}, given: [Items -> Items \cup {None}],
         flushed: SUBSET Items, known: SUBSET Items, drafted: SUBSET Items,
         seen: [Items -> SUBSET Items], asked: SUBSET Items]
Off == [on |-> FALSE, began |-> 0, todo |-> {}, item |-> None,
        given |-> [i \in Items |-> None], flushed |-> {}, known |-> {}, drafted |-> {},
        seen |-> [i \in Items |-> {}], asked |-> {}]

TypeOK ==
    /\ fetched \in [Items -> Nat]
    /\ now \in 0..MaxNow /\ at \in [Items -> 0..MaxNow]
    /\ home \in [Items -> Items \cup {None}]
    /\ \A i \in Items : home[i] # None => i \in Stored /\ home[i] \in Clusters
    /\ created \in [Items -> 0..MaxNow]
    /\ topic \in [Items -> {"pending", "in", "out"}]
    /\ drafted \subseteq Clusters
    /\ failures \in [Sources -> 0..MaxFailures] /\ paused \subseteq Sources
    /\ tick \in Tick /\ tick.flushed \subseteq {i \in Items : tick.given[i] # None}

Init ==
    /\ fetched = [i \in Items |-> 0] /\ now = 0 /\ at = [i \in Items |-> 0]
    /\ home = [i \in Items |-> None] /\ created = [i \in Items |-> 0]
    /\ topic = [i \in Items |-> "pending"] /\ drafted = {}
    /\ failures = [s \in Sources |-> 0] /\ paused = {}
    /\ tick = Off

-----------------------------------------------------------------------------
\* The poller.  record_failure and record_success:
RecordFailure(s) ==
    /\ failures' = [failures EXCEPT ![s] = @ + 1]
    /\ paused' = IF failures[s] + 1 >= Threshold THEN paused \cup {s} ELSE paused

RecordSuccess(s) ==
    /\ failures' = [failures EXCEPT ![s] = 0]
    /\ paused' = paused \ {s}

\* due_sources; poll_interval_seconds may have passed at any step.
Due(s) == s \notin paused

\* No feed, or an exception (IntegrityError included) while its entries are
\* stored: all of them are rolled back and the source is charged.
PollFails(s) ==
    /\ Due(s) /\ failures[s] < MaxFailures
    /\ RecordFailure(s)
    /\ UNCHANGED <<fetched, clock, clusters, tick>>

\* The entries poll_source stores; those the editors do not want (videos, and
\* what the publisher withholds) are no part of entries.
NewRows(entries) == entries \ Stored

\* The rows of new get one fetched_at, later than any other, and are published
\* (or fetched) at time t.
Store(new, t) ==
    /\ fetched' = [i \in Items |-> IF i \in new THEN Cardinality(Stored) + 1 ELSE fetched[i]]
    /\ at' = [i \in Items |-> IF i \in new THEN t ELSE at[i]]

\* poll_source commits the new rows of a feed in one transaction.
Poll(s, entries, t) ==
    /\ Due(s)
    /\ t <= now /\ now - t <= FreshFor
    /\ Store(NewRows(entries), t)
    /\ RecordSuccess(s)
    /\ UNCHANGED <<now, clusters, tick>>

\* paused_until passes.
PauseEnds(s) ==
    /\ s \in paused
    /\ paused' = paused \ {s}
    /\ UNCHANGED <<fetched, clock, clusters, failures, tick>>

\* inject_url: an article by hand, once per URL.
Inject(i) ==
    /\ i \notin Stored
    /\ \A s \in Sources : i \notin Feed[s]
    /\ Store({i}, now)
    /\ UNCHANGED <<now, clusters, breaker, tick>>

TimePasses ==
    /\ now < MaxNow
    /\ now' = now + 1
    /\ UNCHANGED <<fetched, at, clusters, breaker, tick>>

-----------------------------------------------------------------------------
\* The clustering tick.

\* A slip: articles of a cluster are taken again.
FreshItems == {i \in Stored : Fresh(i)}

\* fresh_unclustered_raw_items
Backlog == {i \in Stored : Fresh(i) /\ home[i] = None}

\* .order_by(RawItem.fetched_at).limit(limit)
Oldest(batch) ==
    /\ batch \subseteq Backlog
    /\ Cardinality(batch) = BatchLimit \/ (Cardinality(batch) < BatchLimit /\ batch = Backlog)
    /\ \A i \in batch : \A j \in Backlog \ batch : fetched[i] <= fetched[j]

\* A slip: handled clusters are out of the match set.
OpenCandidates == {c \in Clusters \ drafted : now - created[c] <= Window}

\* candidate_clusters
Candidates == {c \in Clusters : now - created[c] <= Window}

SourcesOf(c) == {i \in Items : home[i] = c}

\* run_clustering_cycle reads its batch, the clusters with their articles, and
\* which of them have a draft; a draft that comes between the reads counts as
\* one that comes before or after them.
TickStarts(batch) ==
    /\ ~tick.on /\ batch # {} /\ Oldest(batch)
    /\ tick' = [Off EXCEPT !.on = TRUE, !.began = now, !.todo = batch, !.known = Candidates,
                           !.drafted = drafted,
                           !.seen = [c \in Items |-> IF c \in Candidates
                                                     THEN SourcesOf(c) ELSE {}]]
    /\ UNCHANGED <<fetched, clock, clusters, breaker>>

\* _rank_matches: the cluster's embedding and those of the articles that the
\* session has loaded with it.
Compared(c) == tick.seen[c] \cup {c}

Matches(i, pool, level) ==
    {c \in pool : \E j \in Compared(c) : Score[i][j] >= level}
Strongest(i, pool) ==
    {c \in pool : \E j \in Compared(c) :
        \A d \in pool : \A k \in Compared(d) : Score[i][k] <= Score[i][j]}

Doubtful(i, pool) == Matches(i, pool, ConfirmAt) \ tick.asked

\* A slip: one question for both phases.
ThroughAtOnce(i, pool) ==
    /\ Matches(i, pool, AttachAt) = {}
    /\ Doubtful(i, pool) = {} \/ Cardinality(tick.asked) = MaxCandidates

\* _try_attach is through with a pool: nothing to attach to, nobody to ask.
Through(i, pool) ==
    /\ Matches(i, pool, AttachAt) = {}
    /\ \/ Doubtful(i, pool) = {}
       \/ Cardinality(tick.asked \cap pool) = MaxCandidates

\* cluster_raw_item: the clusters without a draft first.
Open == tick.known \ tick.drafted
Handled == tick.known \cap tick.drafted

\* A slip: handled clusters first.
HandledFirst(i) == IF Through(i, Handled) THEN Open ELSE Handled

Pool(i) == IF Through(i, Open) THEN Handled ELSE Open

\* The session's next article.  A question has loaded its candidate with the
\* articles the database has for it, those of this tick as far as they are
\* flushed; an article attached by its cluster_id is in no loaded collection.
Loaded(c) == SourcesOf(c) \cup {i \in tick.flushed : tick.given[i] = c}

NextItem(i) ==
    [tick EXCEPT !.todo = @ \ {i}, !.item = None, !.asked = {},
                 !.seen = [c \in Items |-> IF c \in tick.asked THEN Loaded(c) ELSE @[c]]]

AttachTo(i, c) == tick' = [NextItem(i) EXCEPT !.given[i] = c]

\* The oldest article left is next, until it is done with.
Current(i) ==
    /\ i \in tick.todo /\ tick.item \in {i, None}
    /\ \A j \in tick.todo : fetched[i] <= fetched[j]

\* Near-identical: attached without a question.
Attach(i, c) ==
    /\ tick.on /\ Current(i)
    /\ c \in Strongest(i, Pool(i)) \cap Matches(i, Pool(i), AttachAt)
    /\ AttachTo(i, c)
    /\ UNCHANGED <<fetched, clock, clusters, breaker>>

\* ConfirmDuplicate of the strongest doubtful match: the same event, another
\* one, or no answer, which defers the article.
Ask(i, c) ==
    /\ tick.on /\ Current(i)
    /\ Matches(i, Pool(i), AttachAt) = {} /\ ~Through(i, Pool(i))
    /\ c \in Strongest(i, Doubtful(i, Pool(i)))

Confirmed(i, c) ==
    /\ Ask(i, c)
    /\ AttachTo(i, c)
    /\ UNCHANGED <<fetched, clock, clusters, breaker>>

Refused(i, c) ==
    /\ Ask(i, c)
    /\ tick' = [tick EXCEPT !.item = i, !.asked = @ \cup {c}]
    /\ UNCHANGED <<fetched, clock, clusters, breaker>>

Deferred(i, c) ==
    /\ Ask(i, c)
    /\ tick' = NextItem(i)
    /\ UNCHANGED <<fetched, clock, clusters, breaker>>

\* A new cluster, dated by its transaction (now() of the server), is flushed
\* with everything the session has changed so far.
Found(i) ==
    /\ tick.on /\ Current(i)
    /\ Through(i, Open) /\ Through(i, Handled)
    /\ tick' = [NextItem(i) EXCEPT !.given[i] = i, !.known = @ \cup {i},
                        !.flushed = {j \in Items : tick.given[j] # None}]
    /\ UNCHANGED <<fetched, clock, clusters, breaker>>

TickCommits ==
    /\ tick.on /\ tick.todo = {}
    /\ home' = [i \in Items |-> IF tick.given[i] # None THEN tick.given[i] ELSE home[i]]
    /\ created' = [c \in Items |-> IF tick.given[c] = c THEN tick.began ELSE created[c]]
    /\ tick' = Off
    /\ UNCHANGED <<fetched, clock, topic, drafted, breaker>>

\* The tick raises, or the worker restarts.
TickLost ==
    /\ tick.on
    /\ tick' = Off
    /\ UNCHANGED <<fetched, clock, clusters, breaker>>

-----------------------------------------------------------------------------
\* classify_pending_clusters: every pending cluster, by the text of all of its
\* articles, for good.
Classify ==
    LET pending == {c \in Clusters : topic[c] = "pending"} IN
    /\ pending # {}
    /\ topic' = [c \in Items |->
                    IF c \notin pending THEN topic[c]
                    ELSE IF SourcesOf(c) \cap OnTopic # {} THEN "in" ELSE "out"]
    /\ UNCHANGED <<fetched, clock, home, created, drafted, breaker, tick>>

\* The dispatcher's commit of a draft (module Dispatch) for a cluster that
\* select_top_clusters may select.
Draft(c) ==
    /\ c \in Clusters \ drafted /\ topic[c] = "in" /\ now - created[c] <= FreshFor
    /\ \E i \in SourcesOf(c) : Fresh(i)
    /\ drafted' = drafted \cup {c}
    /\ UNCHANGED <<fetched, clock, home, created, topic, breaker, tick>>

-----------------------------------------------------------------------------
Decide(i) == Found(i) \/ \E c \in Items : Attach(i, c) \/ Confirmed(i, c) \/ Refused(i, c)

Next ==
    \/ \E s \in Sources : PollFails(s) \/ PauseEnds(s)
                          \/ \E e \in SUBSET Feed[s], t \in 0..now : Poll(s, e, t)
    \/ \E i \in Items : Inject(i) \/ Draft(i) \/ Decide(i)
                        \/ \E c \in Items : Deferred(i, c)
    \/ \E batch \in SUBSET Items : TickStarts(batch)
    \/ TickCommits \/ TickLost \/ Classify \/ TimePasses

Spec == Init /\ [][Next]_vars

-----------------------------------------------------------------------------
InWindow(j) == home[j] # None /\ now - created[home[j]] <= Window
Founds(i) == tick.given[i] = None /\ tick'.given[i] = i
Joins(i) == tick.given[i] = None /\ tick'.given[i] \notin {None, i}

\* "Follow-up RSS on an already-handled story attaches to that event": an
\* article that is near-identical to one of a recent cluster, with or without a
\* draft, never starts a cluster.
FollowUpsAttach ==
    [][\A i \in Items : Founds(i) =>
         \A j \in Items : InWindow(j) => Score[i][j] < AttachAt]_vars

\* "A failed confirmation must never turn a possible duplicate into a second
\* draft": a doubtful article starts a cluster only after the language model
\* was asked about a match at least as strong as any other, and refused it.
DoubtsAreAsked ==
    [][\A i \in Items : Founds(i) =>
         \A j \in Items : InWindow(j) /\ Score[i][j] >= ConfirmAt =>
            \E c \in tick.asked : \E k \in Compared(c) : Score[i][k] >= Score[i][j]]_vars

\* "Prefer undrafted clusters": an article joins a story that the tick knows to
\* be handled only if it is near-identical to no article of an open one.
OpenFirst ==
    [][\A i \in Items : Joins(i) /\ tick'.given[i] \in tick.drafted =>
         \A j \in Items : InWindow(j) /\ home[j] \notin tick.drafted
            => Score[i][j] < AttachAt]_vars

\* An article never leaves its cluster, so what was classified and drafted stays
\* what it was.
AttachedForGood ==
    [][\A i \in Items : home[i] # None => home'[i] = home[i]]_vars

\* "Idempotent ... same as RSS-sourced items are on (source_id, guid)": an article
\* a feed keeps showing is stored once, and does not get younger.
StoredOnce ==
    [][\A i \in Stored : fetched'[i] = fetched[i] /\ at'[i] = at[i]]_vars

\* "Pause the source instead of retrying every cycle": nothing is asked of a
\* paused source.
PausesHold == [][\A s \in paused : failures'[s] = failures[s]]_vars

\* "Return every plausible cluster, ordered by its strongest source match": an
\* article that starts a cluster is near-identical to no article of a cluster the
\* tick knows, the articles it has attached itself included.
EverySourceCompared ==
    [][\A i \in Items : Founds(i) =>
         \A j \in Items : tick.given[j] # None => Score[i][j] < AttachAt]_vars
=============================================================================
