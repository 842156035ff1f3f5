---------------------------- MODULE IntakeProofs ----------------------------
(***************************************************************************)
(* Proofs about Intake: its type invariant and its six action properties,  *)
(* for any articles, feeds, similarities, batches, windows and thresholds. *)
(*                                                                         *)
(* The transaction of the clustering tick is long, so the invariant says   *)
(* what remains true of its reads until it commits: its articles are still *)
(* in no cluster, and it has seen every recent cluster with every article  *)
(* of it.  A second one, AskedInv, says what its questions have covered.   *)
(***************************************************************************)
EXTENDS Intake, FiniteSetTheorems, TLAPS

\* What the tick works on is in no cluster; what it decided leads to a cluster
\* that it knows.
DecisionsOpen ==
    /\ \A i \in tick.todo : home[i] = None /\ tick.given[i] = None /\ i \in Stored
    /\ \A i \in Items : tick.given[i] # None =>
          home[i] = None /\ i \in Stored /\ tick.given[i] \in tick.known
    /\ \A c \in tick.known : home[c] = c \/ tick.given[c] = c

\* No recent article is missing from what the tick compares with.
RecentSeen ==
    \A j \in Items : InWindow(j) => home[j] \in tick.known /\ j \in tick.seen[home[j]]

TickInv == tick.on => DecisionsOpen /\ RecentSeen

LEMMA NowTyped ==
    ASSUME TypeOK, NEW c \in Items
    PROVE  now \in Int /\ created[c] \in Int /\ now >= 0
  BY IntakeAssumption DEF TypeOK

LEMMA StoredCounted ==
    ASSUME TypeOK
    PROVE  Cardinality(Stored) \in Nat
  <1>1. Stored \subseteq Items /\ IsFiniteSet(Items)
    BY IntakeAssumption DEF Stored
  <1>2. IsFiniteSet(Stored)
    BY <1>1, FS_Subset
  <1>3. QED
    BY <1>2, FS_CardinalityType

\* The next article of a tick: the tick stays well-typed, and what it has seen
\* of a cluster only grows.
LEMMA NextItemTyped ==
    ASSUME TypeOK, NEW i \in Items, NEW n, n = NextItem(i)
    PROVE  /\ n \in Tick
           /\ n.on = tick.on /\ n.began = tick.began /\ n.given = tick.given
           /\ n.known = tick.known /\ n.drafted = tick.drafted /\ n.flushed = tick.flushed
           /\ n.todo = tick.todo \ {i} /\ n.asked = {} /\ n.item = None
           /\ \A c \in Items : n.seen[c] = IF c \in tick.asked THEN Loaded(c) ELSE tick.seen[c]
           /\ \A c \in Items : \A j \in Items :
                 home[j] = c /\ j \in tick.seen[c] => j \in n.seen[c]
  <1> USE DEF TypeOK, Tick
  <1>1. \A c \in Items : Loaded(c) \in SUBSET Items
    BY DEF Loaded, SourcesOf
  <1>2. [c \in Items |-> IF c \in tick.asked THEN Loaded(c) ELSE tick.seen[c]]
            \in [Items -> SUBSET Items]
    BY <1>1
  <1>3. n = [tick EXCEPT !.todo = tick.todo \ {i}, !.item = None, !.asked = {},
                !.seen = [c \in Items |-> IF c \in tick.asked THEN Loaded(c) ELSE tick.seen[c]]]
    BY DEF NextItem
  <1>4. n \in Tick
    <2> DEFINE seen == [c \in Items |-> IF c \in tick.asked THEN Loaded(c) ELSE tick.seen[c]]
               n1 == [tick EXCEPT !.todo = tick.todo \ {i}]
               n2 == [n1 EXCEPT !.item = None]
               n3 == [n2 EXCEPT !.asked = {}]
    <2>1. n1 \in Tick
      OBVIOUS
    <2>2. n2 \in Tick
      BY <2>1
    <2>3. n3 \in Tick
      BY <2>2
    <2>4. [n3 EXCEPT !.seen = seen] \in Tick
      BY <2>3, <1>2
    <2>5. QED
      BY <2>4, <1>3
  <1>5. \A c \in Items : n.seen[c] = IF c \in tick.asked THEN Loaded(c) ELSE tick.seen[c]
    BY <1>2, <1>3
  <1>6. \A c \in Items : \A j \in Items :
            home[j] = c /\ j \in tick.seen[c] => j \in n.seen[c]
    BY <1>5 DEF Loaded, SourcesOf
  <1>7. QED
    BY <1>3, <1>4, <1>5, <1>6

-----------------------------------------------------------------------------
IInv == TypeOK /\ TickInv

\* Steps outside the tick leave its reads true: rows are only added, clusters
\* only grow older.
LEMMA OthersKeepTick ==
    ASSUME IInv,
           UNCHANGED <<home, created, tick>>, now' \in Int, now' >= now, Stored \subseteq Stored'
    PROVE  TickInv'
  <1>1. \A j \in Items : InWindow(j)' => InWindow(j)
    BY NowTyped, IntakeAssumption DEF IInv, TypeOK, InWindow
  <1>2. QED
    BY <1>1 DEF IInv, TickInv, DecisionsOpen, RecentSeen

\* The steps of the poller, of the editors, of the filter and of the dispatcher.
LEMMA PollFailsKeeps ==
    ASSUME IInv, NEW s \in Sources, PollFails(s)
    PROVE  IInv'
  <1> USE DEF PollFails, RecordFailure, clock, clusters, IInv
  <1>1. now \in Int
    BY IntakeAssumption DEF TypeOK
  <1>2. TickInv'
    BY <1>1, OthersKeepTick DEF Stored
  <1>3. TypeOK'
    BY IntakeAssumption DEF TypeOK, Clusters, Stored
  <1>4. QED
    BY <1>2, <1>3

LEMMA StoreKeeps ==
    ASSUME IInv, NEW new \in SUBSET Items, NEW t \in Nat, t <= now, Store(new, t),
           UNCHANGED <<now, clusters, tick>>
    PROVE  /\ TickInv'
           /\ fetched' \in [Items -> Nat] /\ at' \in [Items -> 0..MaxNow]
           /\ Stored \subseteq Stored'
  <1> USE DEF Store, clusters, IInv
  <1>1. Cardinality(Stored) \in Nat
    BY StoredCounted
  <1>2. now \in Int /\ now <= MaxNow
    BY IntakeAssumption DEF TypeOK
  <1>3. fetched' \in [Items -> Nat] /\ at' \in [Items -> 0..MaxNow]
    BY <1>1, <1>2, IntakeAssumption DEF TypeOK
  <1>4. Stored \subseteq Stored'
    BY <1>1 DEF Stored, TypeOK
  <1>5. QED
    BY <1>2, <1>3, <1>4, OthersKeepTick

LEMMA PollKeeps ==
    ASSUME IInv, NEW s \in Sources, NEW e \in SUBSET Feed[s], NEW t \in 0..now, Poll(s, e, t)
    PROVE  IInv'
  <1> USE DEF Poll, RecordSuccess, clusters
  <1>0. now \in Nat /\ t \in Nat /\ t <= now
    BY IntakeAssumption DEF IInv, TypeOK
  <1>1. NewRows(e) \in SUBSET Items
    <2>1. Feed[s] \subseteq Items
      BY IntakeAssumption
    <2>2. QED
      BY <2>1 DEF NewRows
  <1>2. /\ TickInv' /\ Stored \subseteq Stored'
        /\ fetched' \in [Items -> Nat] /\ at' \in [Items -> 0..MaxNow]
    BY <1>0, <1>1, StoreKeeps
  <1>3. TypeOK'
    BY <1>2, IntakeAssumption DEF IInv, TypeOK, Clusters
  <1>4. QED
    BY <1>2, <1>3 DEF IInv

LEMMA InjectKeeps ==
    ASSUME IInv, NEW i \in Items, Inject(i)
    PROVE  IInv'
  <1> USE DEF Inject, clusters, breaker
  <1>1. {i} \in SUBSET Items /\ now \in Nat /\ now <= now
    BY IntakeAssumption DEF IInv, TypeOK
  <1>2. /\ TickInv' /\ Stored \subseteq Stored'
        /\ fetched' \in [Items -> Nat] /\ at' \in [Items -> 0..MaxNow]
    BY <1>1, StoreKeeps
  <1>3. TypeOK'
    BY <1>2 DEF IInv, TypeOK, Clusters
  <1>4. QED
    BY <1>2, <1>3 DEF IInv

LEMMA QuietStepsKeep ==
    ASSUME IInv,
           \/ \E s \in Sources : PauseEnds(s)
           \/ TimePasses \/ Classify \/ \E c \in Items : Draft(c)
           \/ UNCHANGED vars
    PROVE  IInv'
  <1> USE DEF PauseEnds, TimePasses, Classify, Draft, vars, clock, clusters, breaker, IInv
  <1>1. now \in Int /\ now' \in Int /\ now' >= now
    BY IntakeAssumption DEF TypeOK
  <1>2. TickInv'
    BY <1>1, OthersKeepTick DEF Stored
  <1>3. CASE (\E s \in Sources : PauseEnds(s)) \/ TimePasses \/ UNCHANGED vars
    <2>1. TypeOK'
      BY <1>1, <1>3, IntakeAssumption DEF TypeOK, Clusters, Stored
    <2>2. QED
      BY <1>2, <2>1
  <1>4. CASE Classify \/ \E c \in Items : Draft(c)
    <2>1. topic' \in [Items -> {"pending", "in", "out"}] /\ drafted' \subseteq Clusters
      BY <1>4 DEF TypeOK, Clusters
    <2>2. UNCHANGED <<fetched, now, at, home, created, failures, paused, tick>>
      BY <1>4
    <2>3. TypeOK'
      BY <2>1, <2>2 DEF TypeOK, Clusters, Stored
    <2>4. QED
      BY <1>2, <2>3
  <1>5. QED
    BY <1>3, <1>4

-----------------------------------------------------------------------------
\* The steps of the tick.
LEMMA TickStartsKeeps ==
    ASSUME IInv, NEW batch \in SUBSET Items, TickStarts(batch)
    PROVE  IInv'
  <1> DEFINE seen == [c \in Items |-> IF c \in Candidates THEN SourcesOf(c) ELSE {}]
             t1 == [Off EXCEPT !.on = TRUE]
             t2 == [t1 EXCEPT !.began = now]
             t3 == [t2 EXCEPT !.todo = batch]
             t4 == [t3 EXCEPT !.known = Candidates]
             t5 == [t4 EXCEPT !.drafted = drafted]
  <1> USE DEF TickStarts, clock, clusters, breaker, IInv
  <1>1. now \in 0..MaxNow /\ Off \in Tick
    BY IntakeAssumption DEF TypeOK, Tick, Off
  <1>2. seen \in [Items -> SUBSET Items] /\ Candidates \in SUBSET Items /\ drafted \in SUBSET Items
    BY DEF SourcesOf, Candidates, Clusters, TypeOK
  <1>3. t1 \in Tick /\ t2 \in Tick
    BY <1>1 DEF Tick
  <1>4. t3 \in Tick
    BY <1>3 DEF Tick
  <1>5. t4 \in Tick
    BY <1>2, <1>4 DEF Tick
  <1>6. t5 \in Tick
    BY <1>2, <1>5 DEF Tick
  <1>7. tick' = [t5 EXCEPT !.seen = seen]
    BY DEF Off
  <1>8. tick' \in Tick
    BY <1>2, <1>6, <1>7 DEF Tick
  <1>9. /\ tick'.todo = batch /\ tick'.known = Candidates /\ tick'.seen = seen
        /\ tick'.given = [i \in Items |-> None] /\ tick'.flushed = {}
    BY DEF Off
  <1>10. TypeOK'
    BY <1>8, <1>9 DEF TypeOK, Clusters, Stored
  <1>11. DecisionsOpen'
    BY <1>9 DEF DecisionsOpen, Oldest, Backlog, Candidates, Clusters, Stored
  <1>12. ASSUME NEW j \in Items, InWindow(j)
         PROVE  home[j] \in Candidates /\ j \in SourcesOf(home[j])
    BY <1>12 DEF InWindow, Candidates, SourcesOf, TypeOK, Clusters
  <1>13. RecentSeen'
    BY <1>9, <1>12 DEF RecentSeen, InWindow, TypeOK
  <1>14. QED
    BY <1>10, <1>11, <1>13 DEF TickInv

\* The current article is one of the batch, and in no cluster.
LEMMA CurrentOpen ==
    ASSUME IInv, NEW i \in Items, tick.on, Current(i)
    PROVE  i \in tick.todo /\ home[i] = None /\ tick.given[i] = None /\ i \in Stored
  BY DEF IInv, TickInv, DecisionsOpen, Current

\* A pool is a part of the clusters the tick knows.
LEMMA PoolKnown ==
    ASSUME TypeOK, NEW i \in Items
    PROVE  Pool(i) \subseteq tick.known /\ tick.known \subseteq Items
  BY DEF Pool, Open, Handled, TypeOK, Tick

LEMMA AttachToKeeps ==
    ASSUME IInv, NEW i \in Items, NEW c \in tick.known, tick.on, Current(i), AttachTo(i, c),
           UNCHANGED <<fetched, clock, clusters, breaker>>
    PROVE  IInv'
  <1> DEFINE n == NextItem(i)
  <1> USE DEF clock, clusters, breaker
  <1>1. c \in Items /\ None \notin Items
    BY IntakeAssumption DEF IInv, TypeOK, Tick
  <1>2. /\ n \in Tick /\ n.on = tick.on /\ n.given = tick.given
        /\ n.known = tick.known /\ n.flushed = tick.flushed
        /\ n.todo = tick.todo \ {i}
        /\ \A d \in Items : \A j \in Items :
              home[j] = d /\ j \in tick.seen[d] => j \in n.seen[d]
    BY NextItemTyped DEF IInv
  <1> HIDE DEF n
  <1>3. tick' = [n EXCEPT !.given[i] = c]
    BY DEF AttachTo, n
  <1>4. tick' \in Tick
    BY <1>1, <1>2, <1>3 DEF Tick
  <1>5. /\ tick'.on = tick.on /\ tick'.known = tick.known /\ tick'.flushed = tick.flushed
        /\ tick'.todo = tick.todo \ {i} /\ tick'.seen = n.seen
        /\ tick'.given = [tick.given EXCEPT ![i] = c]
    BY <1>2, <1>3 DEF Tick
  <1>6. tick.given \in [Items -> Items \cup {None}] /\ tick.todo \subseteq Items
    BY DEF IInv, TypeOK, Tick
  <1>7. home[i] = None /\ tick.given[i] = None /\ i \in Stored
    BY CurrentOpen
  <1>8. TypeOK'
    BY <1>1, <1>4, <1>5, <1>6 DEF IInv, TypeOK, Clusters, Stored
  <1>9. DecisionsOpen'
    BY <1>1, <1>5, <1>6, <1>7 DEF IInv, TickInv, DecisionsOpen, Stored
  <1>10. RecentSeen'
    BY <1>2, <1>5 DEF IInv, TickInv, RecentSeen, InWindow, TypeOK
  <1>11. QED
    BY <1>8, <1>9, <1>10 DEF IInv, TickInv

LEMMA AttachKeeps ==
    ASSUME IInv, NEW i \in Items, NEW c \in Items, Attach(i, c) \/ Confirmed(i, c)
    PROVE  IInv'
  <1>1. c \in tick.known /\ tick.on /\ Current(i) /\ AttachTo(i, c)
    BY PoolKnown DEF IInv, Attach, Confirmed, Ask, Strongest, Doubtful, Matches
  <1>2. UNCHANGED <<fetched, clock, clusters, breaker>>
    BY DEF Attach, Confirmed
  <1>3. QED
    BY <1>1, <1>2, AttachToKeeps

LEMMA RefusedKeeps ==
    ASSUME IInv, NEW i \in Items, NEW c \in Items, Refused(i, c)
    PROVE  IInv'
  <1> DEFINE t1 == [tick EXCEPT !.item = i]
  <1> USE DEF Refused, clock, clusters, breaker
  <1>1. t1 \in Tick
    BY DEF IInv, TypeOK, Tick
  <1>2. /\ tick' = [t1 EXCEPT !.asked = tick.asked \cup {c}]
        /\ tick.asked \cup {c} \in SUBSET Items
    BY DEF IInv, TypeOK, Tick
  <1>3. tick' \in Tick
    <2> HIDE DEF t1
    <2> QED
      BY <1>1, <1>2 DEF Tick
  <1>4. /\ tick'.on = tick.on /\ tick'.known = tick.known /\ tick'.flushed = tick.flushed
        /\ tick'.todo = tick.todo /\ tick'.seen = tick.seen /\ tick'.given = tick.given
    BY DEF IInv, TypeOK, Tick
  <1>5. TypeOK'
    BY <1>3, <1>4 DEF IInv, TypeOK, Clusters, Stored
  <1>6. TickInv'
    BY <1>4 DEF IInv, TickInv, DecisionsOpen, RecentSeen, InWindow, Stored
  <1>7. QED
    BY <1>5, <1>6 DEF IInv

LEMMA DeferredKeeps ==
    ASSUME IInv, NEW i \in Items, NEW c \in Items, Deferred(i, c)
    PROVE  IInv'
  <1> USE DEF Deferred, clock, clusters, breaker
  <1>1. /\ tick' \in Tick /\ tick'.on = tick.on /\ tick'.given = tick.given
        /\ tick'.known = tick.known /\ tick'.flushed = tick.flushed
        /\ tick'.todo = tick.todo \ {i}
        /\ \A d \in Items : \A j \in Items :
              home[j] = d /\ j \in tick.seen[d] => j \in tick'.seen[d]
    BY NextItemTyped DEF IInv
  <1>2. TypeOK'
    BY <1>1 DEF IInv, TypeOK, Clusters, Stored
  <1>3. DecisionsOpen' /\ tick.on
    BY <1>1 DEF IInv, TickInv, DecisionsOpen, Stored, Ask
  <1>4. RecentSeen'
    BY <1>1, <1>3 DEF IInv, TickInv, RecentSeen, InWindow, TypeOK
  <1>5. QED
    BY <1>2, <1>3, <1>4 DEF IInv, TickInv

\* A new cluster is known to the tick, and none of the committed ones is lost.
LEMMA FoundKeeps ==
    ASSUME IInv, NEW i \in Items, Found(i)
    PROVE  IInv'
  <1> DEFINE n == NextItem(i)
             n1 == [n EXCEPT !.given[i] = i]
             n2 == [n1 EXCEPT !.known = tick.known \cup {i}]
             given == {j \in Items : tick.given[j] # None}
  <1> USE DEF Found, clock, clusters, breaker
  <1>1. None \notin Items /\ tick.known \cup {i} \in SUBSET Items /\ given \in SUBSET Items
    BY IntakeAssumption DEF IInv, TypeOK, Tick
  <1>2. /\ n \in Tick /\ n.on = tick.on /\ n.given = tick.given /\ n.known = tick.known
        /\ n.todo = tick.todo \ {i}
        /\ \A d \in Items : \A j \in Items :
              home[j] = d /\ j \in tick.seen[d] => j \in n.seen[d]
    BY NextItemTyped DEF IInv
  <1>3. tick' = [n EXCEPT !.given[i] = i, !.known = @ \cup {i}, !.flushed = given]
    OBVIOUS
  <1> HIDE DEF n, given
  <1>4. tick' = [n2 EXCEPT !.flushed = given]
    BY <1>2, <1>3 DEF Tick
  <1>5. n1 \in Tick
    BY <1>2 DEF Tick
  <1>6. /\ tick'.on = tick.on /\ tick'.known = tick.known \cup {i} /\ tick'.flushed = given
        /\ tick'.todo = tick.todo \ {i} /\ tick'.seen = n.seen
        /\ tick'.given = [tick.given EXCEPT ![i] = i]
    BY <1>2, <1>3 DEF Tick
  <1> HIDE DEF n1
  <1>7. n2 \in Tick
    BY <1>1, <1>5 DEF Tick
  <1> HIDE DEF n2
  <1>8. tick' \in Tick
    BY <1>1, <1>4, <1>7 DEF Tick
  <1>9. tick.given \in [Items -> Items \cup {None}] /\ tick.todo \subseteq Items
        /\ tick.known \subseteq Items
    BY DEF IInv, TypeOK, Tick
  <1>10. home[i] = None /\ tick.given[i] = None /\ i \in Stored
    BY CurrentOpen
  <1>11. TypeOK'
    BY <1>1, <1>6, <1>8, <1>9 DEF IInv, TypeOK, Clusters, Stored, given
  <1>12. DecisionsOpen'
    BY <1>1, <1>6, <1>9, <1>10 DEF IInv, TickInv, DecisionsOpen, Stored
  <1>13. RecentSeen'
    BY <1>2, <1>6 DEF IInv, TickInv, RecentSeen, InWindow, TypeOK
  <1>14. QED
    BY <1>11, <1>12, <1>13 DEF IInv, TickInv

\* A decision leads to a cluster that is one after the commit.
LEMMA TickCommitsKeeps ==
    ASSUME IInv, TickCommits
    PROVE  /\ IInv'
           /\ \A i \in Items : home[i] # None => home'[i] = home[i]
  <1> USE DEF TickCommits, clock, breaker
  <1>1. /\ None \notin Items /\ tick.began \in 0..MaxNow /\ tick.known \subseteq Items
        /\ tick.given \in [Items -> Items \cup {None}] /\ home \in [Items -> Items \cup {None}]
    BY IntakeAssumption DEF IInv, TypeOK, Tick
  <1>2. ASSUME NEW i \in Items, home[i] # None
        PROVE  home'[i] = home[i] /\ i \in Stored /\ home[i] \in Clusters
    BY <1>2 DEF IInv, TypeOK, TickInv, DecisionsOpen
  <1>3. ASSUME NEW i \in Items, tick.given[i] # None
        PROVE  /\ home'[i] = tick.given[i] /\ i \in Stored
               /\ tick.given[i] \in Items /\ home'[tick.given[i]] = tick.given[i]
    <2>1. home'[i] = tick.given[i] /\ i \in Stored /\ tick.given[i] \in tick.known
      BY <1>3 DEF IInv, TickInv, DecisionsOpen
    <2>2. home[tick.given[i]] = tick.given[i] \/ tick.given[tick.given[i]] = tick.given[i]
      BY <2>1 DEF IInv, TickInv, DecisionsOpen
    <2>3. QED
      BY <1>1, <1>2, <2>1, <2>2
  <1>4. \A i \in Items : tick.given[i] = None => home'[i] = home[i]
    BY <1>1
  <1>5. home' \in [Items -> Items \cup {None}] /\ created' \in [Items -> 0..MaxNow]
    BY <1>1 DEF IInv, TypeOK
  <1>6. \A i \in Items : home'[i] # None => i \in Stored' /\ home'[i] \in Clusters'
    BY <1>2, <1>3, <1>4 DEF Clusters, Stored
  <1>7. drafted' \subseteq Clusters'
    BY <1>1, <1>2 DEF IInv, TypeOK, Clusters
  <1>8. tick' \in Tick /\ ~tick'.on /\ tick'.flushed = {}
    BY IntakeAssumption DEF Off, Tick
  <1>9. IInv'
    BY <1>5, <1>6, <1>7, <1>8 DEF IInv, TypeOK, TickInv
  <1>10. QED
    BY <1>2, <1>9

LEMMA TickLostKeeps ==
    ASSUME IInv, TickLost
    PROVE  IInv'
  <1> USE DEF TickLost, clock, clusters, breaker
  <1>1. tick' \in Tick /\ ~tick'.on /\ tick'.flushed = {}
    BY IntakeAssumption DEF Off, Tick
  <1>2. QED
    BY <1>1 DEF IInv, TypeOK, TickInv, Clusters, Stored

-----------------------------------------------------------------------------
LEMMA InitInv == Init => IInv
  BY IntakeAssumption DEF Init, IInv, TypeOK, TickInv, Off, Tick, Clusters, Stored

LEMMA StepInv == IInv /\ [Next]_vars => IInv'
  <1> SUFFICES ASSUME IInv, [Next]_vars PROVE IInv'
    OBVIOUS
  <1>1. CASE \E s \in Sources : PollFails(s)
    BY <1>1, PollFailsKeeps
  <1>2. CASE \E s \in Sources : \E e \in SUBSET Feed[s], t \in 0..now : Poll(s, e, t)
    BY <1>2, PollKeeps
  <1>3. CASE \E i \in Items : Inject(i)
    BY <1>3, InjectKeeps
  <1>4. CASE \/ \E s \in Sources : PauseEnds(s)
             \/ TimePasses \/ Classify \/ \E c \in Items : Draft(c)
             \/ UNCHANGED vars
    BY <1>4, QuietStepsKeep
  <1>5. CASE \E i \in Items : Found(i)
    BY <1>5, FoundKeeps
  <1>6. CASE \E i, c \in Items : Attach(i, c) \/ Confirmed(i, c)
    BY <1>6, AttachKeeps
  <1>7. CASE \E i, c \in Items : Refused(i, c)
    BY <1>7, RefusedKeeps
  <1>8. CASE \E i, c \in Items : Deferred(i, c)
    BY <1>8, DeferredKeeps
  <1>9. CASE \E batch \in SUBSET Items : TickStarts(batch)
    BY <1>9, TickStartsKeeps
  <1>10. CASE TickCommits
    BY <1>10, TickCommitsKeeps
  <1>11. CASE TickLost
    BY <1>11, TickLostKeeps
  <1>12. QED
    BY <1>1, <1>2, <1>3, <1>4, <1>5, <1>6, <1>7, <1>8, <1>9, <1>10, <1>11 DEF Next, Decide

LEMMA Invariant == Spec => []IInv
  BY InitInv, StepInv, PTL DEF Spec

\* The state of the pipeline is well-typed: an article is in a cluster only once
\* it is stored, and the cluster is one (RawItem.cluster_id, a foreign key).
THEOREM TypeCorrect == Spec => []TypeOK
  <1>1. IInv => TypeOK
    BY DEF IInv
  <1>2. QED
    BY <1>1, Invariant, PTL

\* AttachedForGood, for every tick however long: what it decides concerns only
\* articles in no cluster, and nobody else attaches any.
THEOREM AttachedStay == Spec => AttachedForGood
  <1> DEFINE A == \A i \in Items : home[i] # None => home'[i] = home[i]
  <1>1. IInv /\ [Next]_vars => [A]_vars
    <2> SUFFICES ASSUME IInv, Next PROVE A
      BY DEF vars
    <2>1. CASE TickCommits
      BY <2>1, TickCommitsKeeps
    <2>2. CASE home' = home
      BY <2>2
    <2>3. QED
      BY <2>1, <2>2 DEF Next, Decide, PollFails, PauseEnds, Poll, Inject, Draft, TimePasses,
            Classify, TickStarts, TickLost, Found, Attach, Confirmed, Refused, Deferred, clusters
  <1>2. QED
    BY <1>1, Invariant, PTL DEF Spec, AttachedForGood

\* What the steps do to the decisions of the tick.
LEMMA GivenByStep ==
    ASSUME IInv, Next
    PROVE  \/ tick'.given = tick.given
           \/ tick'.given = [k \in Items |-> None]
           \/ \E k \in Items :
                 Found(k) /\ tick'.given = [tick.given EXCEPT ![k] = k]
           \/ \E k, c \in Items : /\ Attach(k, c) \/ Confirmed(k, c)
                                 /\ tick.on /\ Current(k) /\ c \in Pool(k)
                                 /\ tick'.given = [tick.given EXCEPT ![k] = c]
  <1>1. CASE \E k \in Items : Found(k)
    <2>1. PICK k \in Items : Found(k)
      BY <1>1
    <2> DEFINE n == NextItem(k)
    <2>2. n \in Tick /\ n.given = tick.given
      BY NextItemTyped DEF IInv
    <2>3. tick' = [n EXCEPT !.given[k] = k, !.known = @ \cup {k},
                        !.flushed = {j \in Items : tick.given[j] # None}]
      BY <2>1 DEF Found
    <2> HIDE DEF n
    <2>4. tick'.given = [tick.given EXCEPT ![k] = k]
      BY <2>2, <2>3 DEF Tick
    <2>5. QED
      BY <2>1, <2>4
  <1>2. CASE \E k, c \in Items : Attach(k, c) \/ Confirmed(k, c)
    <2>1. PICK k \in Items, c \in Items : Attach(k, c) \/ Confirmed(k, c)
      BY <1>2
    <2> DEFINE n == NextItem(k)
    <2>2. n \in Tick /\ n.given = tick.given
      BY NextItemTyped DEF IInv
    <2>3. tick' = [n EXCEPT !.given[k] = c] /\ tick.on /\ Current(k) /\ c \in Pool(k)
      BY <2>1 DEF Attach, Confirmed, AttachTo, Ask, Strongest, Doubtful, Matches
    <2> HIDE DEF n
    <2>4. tick'.given = [tick.given EXCEPT ![k] = c]
      BY <2>2, <2>3 DEF Tick
    <2>5. QED
      BY <2>1, <2>3, <2>4
  <1>3. CASE \E k, c \in Items : Refused(k, c)
    BY <1>3 DEF Refused, IInv, TypeOK, Tick
  <1>4. CASE \E k, c \in Items : Deferred(k, c)
    <2>1. PICK k \in Items : tick' = NextItem(k)
      BY <1>4 DEF Deferred
    <2>2. QED
      BY <2>1, NextItemTyped DEF IInv
  <1>5. CASE \E batch \in SUBSET Items : TickStarts(batch)
    BY <1>5 DEF TickStarts, Off
  <1>6. CASE TickCommits \/ TickLost
    BY <1>6 DEF TickCommits, TickLost, Off
  <1>7. CASE tick' = tick
    BY <1>7
  <1>8. QED
    BY <1>1, <1>2, <1>3, <1>4, <1>5, <1>6, <1>7 DEF Next, Decide, PollFails, PauseEnds, Poll,
       Inject, Draft, TimePasses, Classify

\* Only a tick that is through with both pools starts a cluster.
LEMMA FoundsByFound ==
    ASSUME IInv, Next, NEW i \in Items, Founds(i)
    PROVE  Found(i)
  <1>1. None \notin Items /\ tick.given \in [Items -> Items \cup {None}]
    BY IntakeAssumption DEF IInv, TypeOK, Tick
  <1>2. tick'.given # tick.given /\ tick'.given # [k \in Items |-> None]
    BY <1>1 DEF Founds
  <1>3. ASSUME NEW k \in Items, NEW c \in Items, tick.on, Current(k), c \in Pool(k),
               tick'.given = [tick.given EXCEPT ![k] = c]
        PROVE  FALSE
    <2>1. k = i /\ c = i
      BY <1>1, <1>3 DEF Founds
    <2>2. home[i] = None /\ tick.given[i] = None
      BY <1>3, <2>1, CurrentOpen
    <2>3. i \in tick.known
      BY <1>3, <2>1, PoolKnown DEF IInv
    <2>4. QED
      BY <1>1, <1>3, <2>2, <2>3 DEF IInv, TickInv, DecisionsOpen
  <1>4. PICK k \in Items : Found(k) /\ tick'.given = [tick.given EXCEPT ![k] = k]
    BY <1>2, <1>3, GivenByStep
  <1>5. k = i
    BY <1>1, <1>4 DEF Founds
  <1>6. QED
    BY <1>4, <1>5

\* An article joins a cluster of the pool that it is compared with.
LEMMA JoinsItsPool ==
    ASSUME IInv, Next, NEW i \in Items, Joins(i)
    PROVE  tick.on /\ tick'.given[i] \in Pool(i)
  <1>1. None \notin Items /\ tick.given \in [Items -> Items \cup {None}]
    BY IntakeAssumption DEF IInv, TypeOK, Tick
  <1>2. PICK k \in Items, c \in Items : /\ tick.on /\ c \in Pool(k)
                                       /\ tick'.given = [tick.given EXCEPT ![k] = c]
    BY <1>1, GivenByStep DEF Joins
  <1>3. k = i
    BY <1>1, <1>2 DEF Joins
  <1>4. QED
    BY <1>1, <1>2, <1>3

\* A recent article is compared with, in the pool its cluster is in.
LEMMA RecentCompared ==
    ASSUME IInv, tick.on, NEW j \in Items, InWindow(j)
    PROVE  j \in Compared(home[j]) /\ home[j] \in Open \cup Handled
  BY DEF IInv, TickInv, RecentSeen, Compared, Open, Handled

\* FollowUpsAttach, whatever the windows and however long the tick.
THEOREM FollowUps == Spec => FollowUpsAttach
  <1> DEFINE A == \A i \in Items : Founds(i) =>
                    \A j \in Items : InWindow(j) => Score[i][j] < AttachAt
  <1>1. IInv /\ [Next]_vars => [A]_vars
    <2> SUFFICES ASSUME IInv, Next, NEW i \in Items, Founds(i), NEW j \in Items, InWindow(j)
                 PROVE  Score[i][j] < AttachAt
      BY DEF vars
    <2>1. tick.on /\ Through(i, Open) /\ Through(i, Handled)
      BY FoundsByFound DEF Found
    <2>2. j \in Compared(home[j]) /\ home[j] \in Open \cup Handled
      BY <2>1, RecentCompared
    <2>3. ~ (Score[i][j] >= AttachAt)
      BY <2>1, <2>2 DEF Through, Matches
    <2>4. Score[i][j] \in Nat /\ AttachAt \in Nat
      BY IntakeAssumption
    <2>5. QED
      BY <2>3, <2>4
  <1>2. QED
    BY <1>1, Invariant, PTL DEF Spec, FollowUpsAttach

\* OpenFirst, for any scores and pools.
THEOREM OpenClustersFirst == Spec => OpenFirst
  <1> DEFINE A == \A i \in Items : Joins(i) /\ tick'.given[i] \in tick.drafted =>
                    \A j \in Items : InWindow(j) /\ home[j] \notin tick.drafted
                        => Score[i][j] < AttachAt
  <1>1. IInv /\ [Next]_vars => [A]_vars
    <2> SUFFICES ASSUME IInv, Next, NEW i \in Items, Joins(i), tick'.given[i] \in tick.drafted,
                        NEW j \in Items, InWindow(j), home[j] \notin tick.drafted
                 PROVE  Score[i][j] < AttachAt
      BY DEF vars
    <2>1. tick.on /\ tick'.given[i] \in Pool(i)
      BY JoinsItsPool
    <2>2. Through(i, Open)
      BY <2>1 DEF Pool, Open
    <2>3. j \in Compared(home[j]) /\ home[j] \in Open
      BY <2>1, RecentCompared DEF Handled
    <2>4. ~ (Score[i][j] >= AttachAt)
      BY <2>2, <2>3 DEF Through, Matches
    <2>5. Score[i][j] \in Nat /\ AttachAt \in Nat
      BY IntakeAssumption
    <2>6. QED
      BY <2>4, <2>5
  <1>2. QED
    BY <1>1, Invariant, PTL DEF Spec, OpenFirst

-----------------------------------------------------------------------------
\* Of every pool that the tick has asked about, it has asked about a strongest
\* cluster.
StrongestAsked(pool) ==
    tick.asked \cap pool = {} \/
    \E c \in tick.asked \cap pool : \E k \in Compared(c) :
        \A d \in pool : \A m \in Compared(d) : Score[tick.item][m] <= Score[tick.item][k]

AskedInv ==
    /\ tick.item = None => tick.asked = {}
    /\ StrongestAsked(Open) /\ StrongestAsked(Handled)

\* A question is about a strongest cluster of those not asked about yet.
LEMMA RefusedAsksStrongest ==
    ASSUME IInv, AskedInv, NEW i \in Items, NEW c \in Items, Refused(i, c)
    PROVE  AskedInv'
  <1> USE DEF Refused
  <1>1. /\ tick'.item = i /\ tick'.asked = tick.asked \cup {c}
        /\ tick'.known = tick.known /\ tick'.drafted = tick.drafted /\ tick'.seen = tick.seen
    BY DEF IInv, TypeOK, Tick
  <1>2. i # None /\ tick.item \in {i, None}
    BY IntakeAssumption DEF Ask, Current
  <1>3. Open' = Open /\ Handled' = Handled /\ \A d : Compared(d)' = Compared(d)
    BY <1>1 DEF Open, Handled, Compared
  <1>4. Pool(i) \in {Open, Handled} /\ Open \cap Handled = {}
    BY DEF Pool, Open, Handled
  <1>5. /\ c \in Pool(i) /\ c \in Matches(i, Pool(i), ConfirmAt)
        /\ c \in Strongest(i, Doubtful(i, Pool(i)))
    BY DEF Ask, Strongest, Doubtful, Matches
  <1>6. \A d \in Items : Compared(d) \subseteq Items
    BY DEF IInv, TypeOK, Tick, Compared
  <1>7. \A k \in Items : Score[i][k] \in Nat /\ ConfirmAt \in Nat
    BY IntakeAssumption
  <1>8. ASSUME NEW pool \in {Open, Handled}, tick.asked \cap pool = {}, pool = Pool(i)
        PROVE  \E k \in Compared(c) :
                  \A d \in pool : \A m \in Compared(d) : Score[i][m] <= Score[i][k]
    <2>1. Doubtful(i, pool) = Matches(i, pool, ConfirmAt)
      BY <1>8 DEF Doubtful, Matches
    <2>2. PICK k \in Compared(c) : \A d \in Matches(i, pool, ConfirmAt) :
                                      \A m \in Compared(d) : Score[i][m] <= Score[i][k]
      BY <1>5, <1>8, <2>1 DEF Strongest
    <2>3. PICK m \in Compared(c) : Score[i][m] >= ConfirmAt
      BY <1>5 DEF Matches
    <2>4. Score[i][m] <= Score[i][k]
      BY <1>5, <1>8, <2>2
    <2>5. pool \subseteq Items
      BY <1>8, PoolKnown DEF IInv
    <2>6. ASSUME NEW d \in pool, NEW l \in Compared(d)
          PROVE  Score[i][l] <= Score[i][k]
      <3>1. CASE d \in Matches(i, pool, ConfirmAt)
        BY <2>2, <3>1
      <3>2. CASE d \notin Matches(i, pool, ConfirmAt)
        <4>1. ~ (Score[i][l] >= ConfirmAt)
          BY <3>2 DEF Matches
        <4>2. l \in Items /\ m \in Items /\ k \in Items
          BY <1>6, <2>5
        <4>3. QED
          BY <4>1, <4>2, <1>7, <2>3, <2>4
      <3>3. QED
        BY <3>1, <3>2
    <2>7. QED
      BY <2>6
  <1>9. ASSUME NEW pool \in {Open, Handled}, StrongestAsked(pool)
        PROVE  \/ tick'.asked \cap pool = {}
               \/ \E d \in tick'.asked \cap pool : \E k \in Compared(d) :
                    \A e \in pool : \A m \in Compared(e) : Score[i][m] <= Score[i][k]
    <2>1. CASE tick.asked \cap pool = {} /\ pool = Pool(i)
      BY <1>1, <1>5, <1>8, <2>1
    <2>2. CASE tick.asked \cap pool = {} /\ pool # Pool(i)
      BY <1>1, <1>4, <1>5, <2>2
    <2>3. CASE tick.asked \cap pool # {}
      <3>1. tick.item = i
        BY <1>2, <2>3 DEF AskedInv
      <3>2. QED
        BY <1>1, <1>9, <2>3, <3>1 DEF StrongestAsked
    <2>4. QED
      BY <2>1, <2>2, <2>3
  <1>10. StrongestAsked(Open)' /\ StrongestAsked(Handled)'
    BY <1>1, <1>3, <1>9 DEF AskedInv, StrongestAsked
  <1>11. QED
    BY <1>1, <1>2, <1>10 DEF AskedInv

LEMMA NothingAsked ==
    ASSUME tick'.asked = {}
    PROVE  AskedInv'
  BY DEF AskedInv, StrongestAsked

LEMMA AskedStep ==
    ASSUME IInv, AskedInv, [Next]_vars
    PROVE  AskedInv'
  <1>1. CASE \E i, c \in Items : Refused(i, c)
    BY <1>1, RefusedAsksStrongest
  <1>2. CASE \E i \in Items : Found(i)
    <2>1. PICK i \in Items : Found(i)
      BY <1>2
    <2> DEFINE n == NextItem(i)
    <2>2. n \in Tick /\ n.asked = {}
      BY NextItemTyped DEF IInv
    <2>3. tick' = [n EXCEPT !.given[i] = i, !.known = @ \cup {i},
                        !.flushed = {j \in Items : tick.given[j] # None}]
      BY <2>1 DEF Found
    <2> HIDE DEF n
    <2>4. QED
      BY <2>2, <2>3, NothingAsked DEF Tick
  <1>3. CASE \E i, c \in Items : Attach(i, c) \/ Confirmed(i, c)
    <2>1. PICK i \in Items, c \in Items : AttachTo(i, c)
      BY <1>3 DEF Attach, Confirmed
    <2> DEFINE n == NextItem(i)
    <2>2. n \in Tick /\ n.asked = {}
      BY NextItemTyped DEF IInv
    <2>3. tick' = [n EXCEPT !.given[i] = c]
      BY <2>1 DEF AttachTo
    <2> HIDE DEF n
    <2>4. QED
      BY <2>2, <2>3, NothingAsked DEF Tick
  <1>4. CASE \E i, c \in Items : Deferred(i, c)
    <2>1. PICK i \in Items : tick' = NextItem(i)
      BY <1>4 DEF Deferred
    <2>2. QED
      BY <2>1, NextItemTyped, NothingAsked DEF IInv
  <1>5. CASE \E batch \in SUBSET Items : TickStarts(batch)
    BY <1>5, NothingAsked DEF TickStarts, Off
  <1>6. CASE TickCommits \/ TickLost
    BY <1>6, NothingAsked DEF TickCommits, TickLost, Off
  <1>7. CASE tick' = tick
    BY <1>7 DEF AskedInv, StrongestAsked, Open, Handled, Compared
  <1>8. QED
    BY <1>1, <1>2, <1>3, <1>4, <1>5, <1>6, <1>7 DEF Next, Decide, PollFails, PauseEnds, Poll,
       Inject, Draft, TimePasses, Classify, vars

LEMMA AskedInvariant == Spec => []AskedInv
  <1>1. Init => AskedInv
    BY DEF Init, Off, AskedInv, StrongestAsked
  <1>2. IInv /\ AskedInv /\ [Next]_vars => AskedInv'
    BY AskedStep
  <1>3. QED
    BY <1>1, <1>2, Invariant, PTL DEF Spec

\* DoubtsAreAsked, for any bound on the questions: where the bound ends them, a
\* strongest match of the pool has been asked about.
THEOREM DoubtsAsked == Spec => DoubtsAreAsked
  <1> DEFINE A == \A i \in Items : Founds(i) =>
                    \A j \in Items : InWindow(j) /\ Score[i][j] >= ConfirmAt =>
                       \E c \in tick.asked : \E k \in Compared(c) : Score[i][k] >= Score[i][j]
  <1>1. IInv /\ AskedInv /\ [Next]_vars => [A]_vars
    <2> SUFFICES ASSUME IInv, AskedInv, Next, NEW i \in Items, Founds(i),
                        NEW j \in Items, InWindow(j), Score[i][j] >= ConfirmAt
                 PROVE  \E c \in tick.asked : \E k \in Compared(c) : Score[i][k] >= Score[i][j]
      BY DEF vars
    <2> DEFINE h == home[j]
    <2>1. tick.on /\ Current(i) /\ Through(i, Open) /\ Through(i, Handled)
      BY FoundsByFound DEF Found
    <2>2. j \in Compared(h) /\ h \in Open \cup Handled
      BY <2>1, RecentCompared
    <2>3. PICK pool \in {Open, Handled} : h \in pool
      BY <2>2
    <2>4. Through(i, pool) /\ StrongestAsked(pool)
      BY <2>1 DEF AskedInv
    <2>5. h \in Matches(i, pool, ConfirmAt)
      BY <2>2, <2>3 DEF Matches
    <2>6. Score[i][j] >= Score[i][j]
      BY IntakeAssumption
    <2>7. CASE h \in tick.asked
      BY <2>2, <2>6, <2>7
    <2>8. CASE h \notin tick.asked
      <3>1. Cardinality(tick.asked \cap pool) = MaxCandidates
        BY <2>4, <2>5, <2>8 DEF Through, Doubtful
      <3>2. tick.asked \cap pool # {}
        <4>1. Cardinality({}) = 0
          BY FS_EmptySet
        <4>2. MaxCandidates # 0
          BY IntakeAssumption
        <4>3. QED
          BY <3>1, <4>1, <4>2
      <3>3. tick.item = i
        BY <2>1, <3>2 DEF AskedInv, Current
      <3>4. PICK c \in tick.asked \cap pool : \E k \in Compared(c) : Score[i][j] <= Score[i][k]
        BY <2>2, <2>3, <2>4, <3>2, <3>3 DEF StrongestAsked
      <3>5. Compared(c) \subseteq Items
        BY <3>4 DEF IInv, TypeOK, Tick, Compared
      <3>6. \A k \in Compared(c) : Score[i][k] \in Nat /\ Score[i][j] \in Nat
        BY <3>5, IntakeAssumption
      <3>7. QED
        BY <3>4, <3>6
    <2>9. QED
      BY <2>7, <2>8
  <1>2. QED
    BY <1>1, Invariant, AskedInvariant, PTL DEF Spec, DoubtsAreAsked

-----------------------------------------------------------------------------
\* StoredOnce: polls and injections only add rows.
THEOREM RowsStay == Spec => StoredOnce
  <1> DEFINE A == \A i \in Stored : fetched'[i] = fetched[i] /\ at'[i] = at[i]
  <1>1. TypeOK /\ [Next]_vars => [A]_vars
    <2> SUFFICES ASSUME TypeOK, Next, NEW i \in Stored
                 PROVE  fetched'[i] = fetched[i] /\ at'[i] = at[i]
      BY DEF vars
    <2>1. ASSUME NEW s \in Sources, NEW e \in SUBSET Feed[s], NEW t \in 0..now, Poll(s, e, t)
          PROVE  fetched'[i] = fetched[i] /\ at'[i] = at[i]
      BY <2>1 DEF Poll, Store, NewRows, Stored
    <2>2. ASSUME NEW j \in Items, Inject(j)
          PROVE  fetched'[i] = fetched[i] /\ at'[i] = at[i]
      BY <2>2 DEF Inject, Store, Stored
    <2>3. CASE fetched' = fetched /\ at' = at
      BY <2>3
    <2>4. QED
      BY <2>1, <2>2, <2>3 DEF Next, Decide, PollFails, PauseEnds, Draft, TimePasses, Classify,
            TickStarts, TickCommits, TickLost, Found, Attach, Confirmed, Refused, Deferred, clock
  <1>2. QED
    BY <1>1, TypeCorrect, PTL DEF Spec, StoredOnce

\* PausesHold, for any threshold.
THEOREM PausesAreKept == Spec => PausesHold
  <1> DEFINE A == \A s \in paused : failures'[s] = failures[s]
  <1>1. TypeOK /\ [Next]_vars => [A]_vars
    <2> SUFFICES ASSUME TypeOK, Next, NEW s \in paused
                 PROVE  failures'[s] = failures[s]
      BY DEF vars
    <2>1. ASSUME NEW r \in Sources, \/ PollFails(r)
                                    \/ \E e \in SUBSET Feed[r], t \in 0..now : Poll(r, e, t)
          PROVE  failures'[s] = failures[s]
      BY <2>1 DEF PollFails, Poll, Due, RecordFailure, RecordSuccess, TypeOK
    <2>2. CASE failures' = failures
      BY <2>2
    <2>3. QED
      BY <2>1, <2>2 DEF Next, Decide, Inject, PauseEnds, Draft, TimePasses, Classify, TickStarts,
            TickCommits, TickLost, Found, Attach, Confirmed, Refused, Deferred, breaker
  <1>2. QED
    BY <1>1, TypeCorrect, PTL DEF Spec, PausesHold
=============================================================================
