-------------------------- MODULE ExportFeedProofs --------------------------
(***************************************************************************)
(* Theorems about ExportFeed, for any drafts, limits, queries, defaults,   *)
(* batches and requests: its state is well-typed, no walk misses a draft   *)
(* it owes or serves a text twice, and every mark is accounted for.        *)
(***************************************************************************)
EXTENDS ExportFeed, FiniteSetTheorems, WellFoundedInduction, TLAPS

-----------------------------------------------------------------------------
(* The order of the feed *)

Spot == [at: Nat, id: Nat]

LEMMA NatMin ==
    ASSUME NEW T \in SUBSET Nat, T # {}
    PROVE  \E x \in T : \A y \in T : x <= y
  <1>1. PICK x \in T : \A y \in T : <<y, x>> \notin OpToRel(<, Nat)
    BY NatLessThanWellFounded, WFMin
  <1>2. \A y \in T : ~(y < x)
    BY <1>1 DEF OpToRel
  <1>3. QED
    BY <1>2

LEMMA BeforeIsAnOrder ==
    ASSUME NEW p \in Spot, NEW q \in Spot, NEW s \in Spot
    PROVE  /\ ~Before(p, p)
           /\ p = q \/ Before(p, q) \/ Before(q, p)
           /\ Before(p, q) => ~Before(q, p)
           /\ Before(p, q) /\ Before(q, s) => Before(p, s)
           /\ ~Before(q, p) /\ Before(q, s) => Before(p, s)
           /\ ~Before(p, q) /\ ~Before(q, s) => ~Before(p, s)
  BY DEF Spot, Before

LEMMA PlaceType ==
    ASSUME draft \in [Drafts -> Draft], NEW d \in Drafts
    PROVE  PlaceOf(d) \in Place /\ PlaceOf(d) \in Spot /\ PlaceOf(d).id = d
  BY ExportAssumption DEF PlaceOf, Draft, Place, Spot

\* A page has a last draft: the one with the oldest text, of those the one
\* with the smallest id.
LEMMA LastExists ==
    ASSUME draft \in [Drafts -> Draft], NEW P \in SUBSET Drafts, P # {}
    PROVE  /\ Last(P) \in P
           /\ \A d \in P \ {Last(P)} : Before(PlaceOf(d), PlaceOf(Last(P)))
  <1>1. \A d \in Drafts : d \in Nat /\ draft[d].generated \in Nat
    BY ExportAssumption DEF Draft
  <1>. DEFINE Ages == {draft[d].generated : d \in P}
  <1>2. PICK t \in Ages : \A u \in Ages : t <= u
    <2>1. Ages \in SUBSET Nat /\ Ages # {}
      BY <1>1
    <2>. HIDE DEF Ages
    <2>. QED
      BY <2>1, NatMin
  <1>. DEFINE Oldest == {d \in P : draft[d].generated = t}
  <1>3. PICK m \in Oldest : \A d \in Oldest : m <= d
    <2>1. Oldest \in SUBSET Nat /\ Oldest # {}
      BY <1>1, <1>2
    <2>. HIDE DEF Oldest
    <2>. QED
      BY <2>1, NatMin
  <1>4. ASSUME NEW d \in P \ {m}
        PROVE  Before(PlaceOf(d), PlaceOf(m))
    <2>1. /\ draft[m].generated = t /\ draft[d].generated \in Nat /\ t \in Nat
          /\ t <= draft[d].generated /\ m \in Nat /\ d \in Nat /\ d # m
      BY <1>1, <1>2, <1>3
    <2>2. t = draft[d].generated => m <= d
      BY <1>3
    <2>. QED
      BY <2>1, <2>2 DEF Before, PlaceOf
  <1>5. QED
    BY <1>3, <1>4 DEF Last

\* A nonempty set of drafts has a first one.
LEMMA FirstIsAlone ==
    ASSUME draft \in [Drafts -> Draft], NEW S \in SUBSET Drafts, S # {}
    PROVE  \E m \in S : {e \in S : Before(PlaceOf(e), PlaceOf(m))} = {}
  <1>. DEFINE Ahead(d) == {e \in S : Before(PlaceOf(e), PlaceOf(d))}
  <1>1. \A d \in S : IsFiniteSet(Ahead(d)) /\ Cardinality(Ahead(d)) \in Nat
    BY ExportAssumption, FS_Subset, FS_CardinalityType
  <1>. DEFINE Counts == {Cardinality(Ahead(d)) : d \in S}
  <1>2. PICK k \in Counts : \A l \in Counts : k <= l
    <2>1. Counts \in SUBSET Nat /\ Counts # {}
      BY <1>1
    <2>. HIDE DEF Counts
    <2>. QED
      BY <2>1, NatMin
  <1>3. PICK m \in S : k = Cardinality(Ahead(m))
    BY <1>2
  <1>4. ASSUME NEW e \in Ahead(m)
        PROVE  FALSE
    <2>1. Ahead(e) \subseteq Ahead(m) /\ e \notin Ahead(e) /\ e \in S
      BY <1>4, BeforeIsAnOrder, PlaceType
    <2>. HIDE DEF Ahead
    <2>2. Cardinality(Ahead(e)) <= Cardinality(Ahead(m)) /\ Ahead(e) # Ahead(m)
      BY <1>1, <1>3, <1>4, <2>1, FS_Subset
    <2>3. Cardinality(Ahead(e)) # Cardinality(Ahead(m))
      BY <1>1, <1>3, <2>1, <2>2, FS_Subset
    <2>4. QED
      BY <1>1, <1>2, <1>3, <2>1, <2>2, <2>3
  <1>5. QED
    BY <1>4

\* What comes before a draft of a page is on the page.
LEMMA FirstIsClosed ==
    ASSUME draft \in [Drafts -> Draft], NEW S \in SUBSET Drafts, NEW n \in Nat,
           NEW p \in First(S, n), NEW d \in S, Before(PlaceOf(d), PlaceOf(p))
    PROVE  d \in First(S, n)
  <1>. DEFINE Ahead(x) == {e \in S : Before(PlaceOf(e), PlaceOf(x))}
  <1>1. p \in S /\ Cardinality(Ahead(p)) < n
    BY DEF First
  <1>2. Ahead(d) \subseteq Ahead(p)
    BY <1>1, BeforeIsAnOrder, PlaceType
  <1>3. IsFiniteSet(Ahead(p))
    BY ExportAssumption, FS_Subset
  <1>4. Cardinality(Ahead(d)) \in Nat /\ Cardinality(Ahead(p)) \in Nat
           /\ Cardinality(Ahead(d)) <= Cardinality(Ahead(p))
    BY <1>2, <1>3, FS_Subset, FS_CardinalityType
  <1>5. QED
    BY <1>1, <1>4 DEF First

\* A page that is followed by more is not empty, and what is listed but not on
\* it comes after its last draft.
LEMMA PageEnds ==
    ASSUME draft \in [Drafts -> Draft], NEW f, f.limit \in Limits, HasMore(f)
    PROVE  LET page == PageOf(f) IN
           /\ page # {} /\ page \subseteq Listed(f) /\ Last(page) \in page
           /\ \A d \in page \ {Last(page)} : Before(PlaceOf(d), PlaceOf(Last(page)))
           /\ \A d \in Listed(f) \ page : Before(PlaceOf(Last(page)), PlaceOf(d))
  <1>. DEFINE page == PageOf(f)
  <1>1. /\ Listed(f) \subseteq Drafts /\ Fetched(f) \subseteq Listed(f)
        /\ page \subseteq Fetched(f) /\ f.limit \in Nat \ {0}
    BY DEF Listed, Fetched, PageOf, First, Limits
  <1>2. Fetched(f) # {}
    BY <1>1, FS_EmptySet DEF HasMore
  <1>3. page # {}
    <2>1. PICK m \in Fetched(f) :
             {e \in Fetched(f) : Before(PlaceOf(e), PlaceOf(m))} = {}
      BY <1>1, <1>2, FirstIsAlone
    <2>2. QED
      BY <1>1, <2>1, FS_EmptySet DEF PageOf, First
  <1>4. /\ Last(page) \in page
        /\ \A d \in page \ {Last(page)} : Before(PlaceOf(d), PlaceOf(Last(page)))
    BY <1>1, <1>3, LastExists
  <1>5. ASSUME NEW d \in Listed(f), d \notin page
        PROVE  Before(PlaceOf(Last(page)), PlaceOf(d))
    <2>1. ASSUME Before(PlaceOf(d), PlaceOf(Last(page)))
          PROVE  FALSE
      <3>1. d \in Fetched(f)
        BY <1>1, <1>4, <2>1, FirstIsClosed DEF Fetched
      <3>2. d \in page
        BY <1>1, <1>4, <2>1, <3>1, FirstIsClosed DEF PageOf
      <3>3. QED
        BY <1>5, <3>2
    <2>2. d # Last(page) => PlaceOf(d) # PlaceOf(Last(page))
      BY DEF PlaceOf
    <2>3. QED
      BY <1>1, <1>4, <1>5, <2>1, <2>2, BeforeIsAnOrder, PlaceType
  <1>6. QED
    BY <1>1, <1>3, <1>4, <1>5

\* The last page has all that is listed.
LEMMA LastPageIsAll ==
    ASSUME draft \in [Drafts -> Draft], NEW f, f.limit \in Limits, ~HasMore(f)
      PROVE  Listed(f) = PageOf(f)
  <1>. DEFINE n == f.limit
  <1>1. /\ Listed(f) \subseteq Drafts /\ Fetched(f) \subseteq Listed(f)
        /\ PageOf(f) \subseteq Fetched(f) /\ n \in Nat \ {0}
    BY DEF Listed, Fetched, PageOf, First, Limits
  <1>2. /\ IsFiniteSet(Listed(f)) /\ IsFiniteSet(Fetched(f))
        /\ Cardinality(Fetched(f)) \in Nat /\ Cardinality(Fetched(f)) <= n
    <2>1. IsFiniteSet(Fetched(f)) /\ IsFiniteSet(Listed(f))
      BY <1>1, ExportAssumption, FS_Subset
    <2>. QED
      BY <1>1, <2>1, FS_CardinalityType DEF HasMore
  <1>3. ASSUME NEW d \in Listed(f) \ Fetched(f)
        PROVE  FALSE
    <2>1. PICK m \in Listed(f) \ Fetched(f) :
             {e \in Listed(f) \ Fetched(f) : Before(PlaceOf(e), PlaceOf(m))} = {}
      BY <1>1, <1>3, FirstIsAlone
    <2>. DEFINE Ahead == {e \in Listed(f) : Before(PlaceOf(e), PlaceOf(m))}
    <2>2. Ahead \subseteq Fetched(f)
      BY <2>1
    <2>3. Cardinality(Ahead) \in Nat /\ Cardinality(Ahead) <= n
      <3>. HIDE DEF Ahead
      <3>1. IsFiniteSet(Ahead) /\ Cardinality(Ahead) <= Cardinality(Fetched(f))
        BY <1>2, <2>2, FS_Subset
      <3>. QED
        BY <1>1, <1>2, <3>1, FS_CardinalityType
    <2>4. m \in Fetched(f)
      BY <1>1, <2>1, <2>3 DEF Fetched, First
    <2>. QED
      BY <2>1, <2>4
  <1>4. ASSUME NEW d \in Fetched(f), d \notin PageOf(f)
        PROVE  FALSE
    <2>. DEFINE Ahead == {e \in Fetched(f) : Before(PlaceOf(e), PlaceOf(d))}
    <2>1. ~Before(PlaceOf(d), PlaceOf(d))
      BY <1>1, BeforeIsAnOrder, PlaceType
    <2>2. Ahead \subseteq Fetched(f) \ {d}
      BY <2>1
    <2>3. Cardinality(Ahead) < n /\ Cardinality(Ahead) \in Nat
      <3>. HIDE DEF Ahead
      <3>1. /\ IsFiniteSet(Fetched(f) \ {d})
            /\ Cardinality(Fetched(f) \ {d}) = Cardinality(Fetched(f)) - 1
        BY <1>2, <1>4, FS_RemoveElement
      <3>2. IsFiniteSet(Ahead) /\ Cardinality(Ahead) <= Cardinality(Fetched(f) \ {d})
        BY <2>2, <3>1, FS_Subset
      <3>. QED
        BY <1>1, <1>2, <3>1, <3>2, FS_CardinalityType
    <2>4. d \in PageOf(f)
      BY <2>3 DEF PageOf, First
    <2>. QED
      BY <1>4, <2>4
  <1>. QED
    BY <1>1, <1>3, <1>4

-----------------------------------------------------------------------------
(* Types *)

\* What a mark-consumed request knows: whom it marks are drafts of its body,
\* those it does not insert have a row already.
MarkKnows(m) ==
    /\ m.insert \subseteq m.told /\ m.fill \cap m.insert = {}
    /\ \A d \in m.told : Of(m.body, d) # {}
    /\ \A d \in m.fill : \E i \in Of(m.body, d) : m.body[i][2] # None
    /\ \A d \in m.told \ m.insert : log[d].row
MarkInv == \A r \in Requests : MarkKnows(mark[r])

LEMMA FilterType ==
    ASSUME TypeOK, NEW q \in Queries, NEW c \in Drafts \cup {None}
    PROVE  FilterOf(q, c) \in Filter
  <1>1. q \in Query /\ clock \in Nat /\ defaults \in Default /\ Fallback \in Limits
    BY ExportAssumption DEF TypeOK
  <1>2. Limit(q) \in Limits
    BY <1>1 DEF Limit, Query, Default
  <1>3. Freshness(q) \in Query
    BY <1>1, Zenon DEF Freshness, Query, Default
  <1>4. CreatedSince(Freshness(q)) \subseteq Int
    BY <1>1, ExportAssumption DEF CreatedSince
  <1>5. GeneratedSince(Freshness(q)) \subseteq Int
    BY <1>1, <1>3 DEF GeneratedSince, Query, Hours
  <1>6. (IF c = None THEN None ELSE PlaceOf(c)) \in Place \cup {None}
    BY PlaceType DEF TypeOK
  <1>7. QED
    BY <1>1, <1>2, <1>4, <1>5, <1>6 DEF FilterOf, Filter, Query

\* The references a request writes are of its body.
LEMMA MarkedType ==
    ASSUME log \in [Drafts -> Log], NEW m \in Mark, MarkKnows(m)
    PROVE  Marked(m) \in [Drafts -> Log]
  <1>1. ASSUME NEW i \in DOMAIN m.body
        PROVE  m.body[i][2] \in Refs \cup {None} /\ i \in Nat
    BY <1>1, ExportAssumption DEF Mark
  <1>2. ASSUME NEW d \in m.insert
        PROVE  Row(m.body[CHOOSE i \in Of(m.body, d) : TRUE][2]) \in Log
    BY <1>1, <1>2 DEF MarkKnows, Of, Row, Log
  <1>3. ASSUME NEW d \in m.fill
        PROVE  Row(FirstRef(m.body, d)) \in Log
    <2>. DEFINE I == {i \in Of(m.body, d) : m.body[i][2] # None}
    <2>1. I \in SUBSET Nat /\ I # {} /\ I \subseteq DOMAIN m.body
      BY <1>1, <1>3 DEF MarkKnows, Of
    <2>2. \E i \in I : \A j \in I : i <= j
      <3>. HIDE DEF I
      <3>. QED
        BY <2>1, NatMin
    <2>3. (CHOOSE i \in I : \A j \in I : i <= j) \in DOMAIN m.body
      BY <2>1, <2>2
    <2>4. FirstRef(m.body, d) \in Refs \cup {None}
      BY <1>1, <2>3 DEF FirstRef
    <2>. QED
      BY <2>4 DEF Row, Log
  <1>4. QED
    BY <1>2, <1>3 DEF Marked

LEMMA TypeInit == ASSUME Init PROVE TypeOK /\ MarkInv
  <1>1. NoFilter \in Filter
    BY ExportAssumption DEF NoFilter, Filter
  <1>2. NoWalk \in Walk /\ NoMark \in Mark
    BY <1>1 DEF NoWalk, Walk, NoMark, Mark
  <1>3. NoDraft \in Draft /\ NoRow \in Log
    BY ExportAssumption DEF NoDraft, Draft, NoRow, Log
  <1>4. MarkInv
    BY DEF Init, MarkInv, MarkKnows, NoMark
  <1>5. QED
    BY <1>2, <1>3, <1>4, ExportAssumption DEF Init, TypeOK

LEMMA RowsType ==
    ASSUME TypeOK, MarkInv, Owes, UNCHANGED <<walk, faults, marking>>,
           clock' \in 0..MaxClock, draft' \in [Drafts -> Draft], defaults' \in Defaults
    PROVE  TypeOK' /\ MarkInv'
  <1>1. due' \subseteq Drafts
    BY DEF TypeOK, Owes
  <1>2. MarkInv'
    BY DEF MarkInv, MarkKnows, marking, Of
  <1>3. QED
    BY <1>1, <1>2 DEF TypeOK, marking

LEMMA StampType == ASSUME TypeOK PROVE Stamps \subseteq 0..MaxClock
  BY ExportAssumption DEF TypeOK, Stamps

LEMMA TickType == ASSUME TypeOK, MarkInv, Tick PROVE TypeOK' /\ MarkInv'
  <1>1. clock' \in 0..MaxClock
    BY ExportAssumption DEF TypeOK, Tick
  <1>. QED
    BY <1>1, RowsType DEF Tick, TypeOK

LEMMA CreateType ==
    ASSUME TypeOK, MarkInv, NEW d \in Drafts, Create(d) PROVE TypeOK' /\ MarkInv'
  <1>1. draft' \in [Drafts -> Draft]
    BY StampType DEF TypeOK, Create, Draft
  <1>. QED
    BY <1>1, RowsType DEF Create, TypeOK

\* The two updates of a row that change more than one column.
LEMMA RowType ==
    ASSUME NEW row \in Draft, NEW g \in 0..MaxClock, NEW u \in 0..MaxClock,
           NEW x \in {"queue", "left"}
    PROVE  /\ [row EXCEPT !.status = x, !.generated = g, !.updated = u] \in Draft
           /\ [row EXCEPT !.status = x, !.updated = u] \in Draft
  <1>1. [row EXCEPT !.status = x] \in Draft
    BY DEF Draft
  <1>2. \A w \in Draft :
           [w EXCEPT !.generated = g] \in Draft /\ [w EXCEPT !.updated = u] \in Draft
    BY DEF Draft
  <1>3. /\ [row EXCEPT !.status = x, !.generated = g, !.updated = u]
             = [[[row EXCEPT !.status = x] EXCEPT !.generated = g] EXCEPT !.updated = u]
        /\ [row EXCEPT !.status = x, !.updated = u]
             = [[row EXCEPT !.status = x] EXCEPT !.updated = u]
    BY DEF Draft
  <1>. QED
    BY <1>1, <1>2, <1>3

\* What a regeneration writes into the row of its draft.
Rewritten(d, x, t) ==
    draft' = [draft EXCEPT ![d] = [@ EXCEPT !.status = x, !.generated = t, !.updated = clock]]

LEMMA RegenerateWrites ==
    ASSUME TypeOK, NEW d \in Drafts, Regenerate(d)
    PROVE  \E t \in Stamps, x \in {"queue", "left"} :
              t >= draft[d].created /\ Rewritten(d, x, t)
  <1>1. PICK t \in Stamps,
             x \in IF d \in Handled THEN {"queue", "left"} ELSE {draft[d].status} :
           t >= draft[d].created /\ Rewritten(d, x, t)
    BY DEF Regenerate, Rewritten
  <1>2. draft[d].status \in {"queue", "left"}
    BY DEF Regenerate, TypeOK, Draft
  <1>. QED
    BY <1>1, <1>2

\* Deleting a row of the log leaves no request that counts on it.
LEMMA ClearType ==
    ASSUME TypeOK, MarkInv, NEW d \in Drafts, ClearExport(d)
    PROVE  /\ log' \in [Drafts -> Log] /\ audit' \in [Drafts -> Nat]
           /\ answered' \subseteq Drafts /\ mark' \in [Requests -> Mark] /\ MarkInv'
  <1>1. log' \in [Drafts -> Log] /\ audit' \in [Drafts -> Nat] /\ answered' \subseteq Drafts
    <2>1. NoRow \in Log
      BY DEF NoRow, Log
    <2>. QED
      BY <2>1 DEF ClearExport, TypeOK
  <1>2. ASSUME NEW r \in Requests
        PROVE  mark'[r] \in Mark /\ MarkKnows(mark[r])'
    <2>. DEFINE kept == mark[r].told \ ({d} \ mark[r].insert)
    <2>1. mark[r] \in Mark /\ MarkKnows(mark[r])
      BY DEF TypeOK, MarkInv
    <2>2. mark'[r] = [mark[r] EXCEPT !.told = kept]
      BY DEF ClearExport
    <2>3. kept \subseteq Drafts
      BY <2>1 DEF Mark
    <2>4. \A e \in Drafts \ {d} : log'[e] = log[e]
      BY DEF ClearExport, TypeOK
    <2>5. /\ mark[r].insert \subseteq kept
          /\ \A e \in kept \ mark[r].insert : e # d /\ e \in mark[r].told
      BY <2>1 DEF MarkKnows
    <2>. HIDE DEF kept
    <2>6. /\ mark'[r] \in Mark /\ mark'[r].body = mark[r].body /\ mark'[r].told = kept
          /\ mark'[r].insert = mark[r].insert /\ mark'[r].fill = mark[r].fill
      BY <2>1, <2>2, <2>3 DEF Mark
    <2>7. \A e \in kept : e \in mark[r].told
      BY <2>1, <2>5 DEF MarkKnows
    <2>8. \A e \in kept \ mark[r].insert : log'[e].row
      BY <2>1, <2>3, <2>4, <2>5 DEF MarkKnows
    <2>9. MarkKnows(mark[r])'
      BY <2>1, <2>5, <2>6, <2>7, <2>8 DEF MarkKnows, Of
    <2>. QED
      BY <2>6, <2>9
  <1>3. mark' \in [Requests -> Mark]
    <2>1. \A r \in Requests : mark'[r] \in Mark
      BY <1>2
    <2>. QED
      BY <2>1 DEF ClearExport
  <1>4. MarkInv'
    BY <1>2 DEF MarkInv
  <1>. QED
    BY <1>1, <1>3, <1>4

LEMMA RegenerateType ==
    ASSUME TypeOK, MarkInv, NEW d \in Drafts, Regenerate(d) PROVE TypeOK' /\ MarkInv'
  <1>1. PICK t \in Stamps, x \in {"queue", "left"} : Rewritten(d, x, t)
    BY RegenerateWrites
  <1>2. \A e \in Drafts : draft'[e] =
           IF e = d THEN [draft[e] EXCEPT !.status = x, !.generated = t, !.updated = clock]
           ELSE draft[e]
    BY <1>1 DEF TypeOK, Rewritten
  <1>3. t \in 0..MaxClock /\ clock \in 0..MaxClock
    BY StampType DEF TypeOK
  <1>4. ASSUME NEW e \in Drafts
        PROVE  draft'[e] \in Draft
    <2>1. draft[e] \in Draft
      BY DEF TypeOK
    <2>2. [draft[e] EXCEPT !.status = x, !.generated = t, !.updated = clock] \in Draft
      BY <1>3, <2>1, RowType
    <2>. QED
      BY <1>2, <2>1, <2>2
  <1>5. draft' \in [Drafts -> Draft]
    BY <1>1, <1>4 DEF TypeOK, Rewritten
  <1>6. /\ Owes /\ UNCHANGED <<clock, defaults, walk, faults>>
        /\ ClearExport(d) \/ UNCHANGED marking
    BY DEF Regenerate
  <1>7. CASE UNCHANGED marking
    BY <1>5, <1>6, <1>7, RowsType DEF TypeOK
  <1>8. CASE ClearExport(d)
    <2>1. due' \subseteq Drafts
      BY <1>6 DEF TypeOK, Owes
    <2>2. /\ log' \in [Drafts -> Log] /\ audit' \in [Drafts -> Nat]
          /\ answered' \subseteq Drafts /\ mark' \in [Requests -> Mark] /\ MarkInv'
      BY <1>8, ClearType
    <2>. QED
      BY <1>5, <1>6, <2>1, <2>2 DEF TypeOK
  <1>. QED
    BY <1>6, <1>7, <1>8

LEMMA MoveType ==
    ASSUME TypeOK, MarkInv, NEW d \in Handled, NEW x \in {"queue", "left"}, Move(d, x)
    PROVE  TypeOK' /\ MarkInv'
  <1>2. \A e \in Drafts : draft'[e] =
           IF e = d THEN [draft[e] EXCEPT !.status = x, !.updated = clock] ELSE draft[e]
    BY ExportAssumption DEF TypeOK, Move
  <1>4. ASSUME NEW e \in Drafts
        PROVE  draft'[e] \in Draft
    <2>1. draft[e] \in Draft /\ clock \in 0..MaxClock
      BY DEF TypeOK
    <2>2. [draft[e] EXCEPT !.status = x, !.updated = clock] \in Draft
      BY <2>1, RowType
    <2>. QED
      BY <1>2, <2>1, <2>2
  <1>5. draft' \in [Drafts -> Draft]
    BY <1>4 DEF TypeOK, Move
  <1>. QED
    BY <1>5, RowsType DEF Move, TypeOK

LEMMA DefaultsType ==
    ASSUME TypeOK, MarkInv, NEW x \in Defaults, SaveDefaults(x) PROVE TypeOK' /\ MarkInv'
  BY RowsType DEF SaveDefaults, TypeOK

LEMMA MarksUnchanged ==
    ASSUME MarkInv, UNCHANGED marking
    PROVE  MarkInv'
  BY DEF MarkInv, MarkKnows, marking, Of

LEMMA BeginType ==
    ASSUME TypeOK, MarkInv, NEW q \in Queries, Begin(q) PROVE TypeOK' /\ MarkInv'
  <1>1. FilterOf(q, None) \in Filter /\ NoFilter \in Filter
    BY FilterType, ExportAssumption DEF NoFilter, Filter
  <1>2. walk' \in Walk
    BY <1>1 DEF Begin, NoWalk, Walk
  <1>. QED
    BY <1>2, MarksUnchanged DEF Begin, TypeOK, marking

LEMMA ContinueType ==
    ASSUME TypeOK, MarkInv, Continue, walk.query \in Queries PROVE TypeOK' /\ MarkInv'
  <1>1. FilterOf(walk.query, walk.cursor) \in Filter
    BY FilterType DEF TypeOK, Walk
  <1>2. walk' \in Walk
    <2>. DEFINE f == FilterOf(walk.query, walk.cursor)
                b == walk.moved \/ PlaceOf(walk.cursor) # walk.place
    <2>1. f \in Filter /\ b \in BOOLEAN
      BY <1>1 DEF TypeOK, Walk
    <2>2. walk' = [walk EXCEPT !.step = "reading", !.filter = f, !.moved = b]
      BY DEF Continue
    <2>. HIDE DEF f, b
    <2>. QED
      BY <2>1, <2>2 DEF TypeOK, Walk
  <1>. QED
    BY <1>2, MarksUnchanged DEF Continue, TypeOK, marking

LEMMA PageType ==
    ASSUME TypeOK
    PROVE  /\ PageOf(walk.filter) \subseteq Drafts /\ walk.filter.limit \in Limits
           /\ \A d \in PageOf(walk.filter) : PlaceOf(d) \in Place
           /\ Twice(PageOf(walk.filter)) \subseteq Drafts
  <1>1. PageOf(walk.filter) \subseteq Drafts
    BY DEF PageOf, Fetched, First, Listed
  <1>2. walk.filter.limit \in Limits
    BY DEF TypeOK, Walk, Filter
  <1>3. QED
    BY <1>1, <1>2, PlaceType DEF TypeOK, Twice

LEMMA AnswerType ==
    ASSUME TypeOK, MarkInv, Answer PROVE TypeOK' /\ MarkInv'
  <1>. DEFINE page == PageOf(walk.filter)
              last == Last(page)
              new == {PlaceOf(d) : d \in page}
  <1>1. last \in Drafts /\ PlaceOf(last) \in Place /\ new \subseteq Place
    BY PageType, PageEnds DEF Answer, TypeOK
  <1>2. NoFilter \in Filter
    BY ExportAssumption DEF NoFilter, Filter
  <1>3. walk' \in Walk
    <2>1. walk' = [walk EXCEPT !.step = "paging", !.filter = NoFilter, !.cursor = last,
                               !.place = PlaceOf(last), !.served = @ \cup new]
      BY DEF Answer
    <2>. HIDE DEF new, last
    <2>. QED
      BY <1>1, <1>2, <2>1 DEF TypeOK, Walk
  <1>4. faults' \in [missed: SUBSET Drafts, twice: SUBSET Drafts]
    <2>. HIDE DEF page
    <2>1. faults' = [faults EXCEPT !.twice = @ \cup Twice(page)]
      BY DEF Answer, page
    <2>2. Twice(page) \subseteq Drafts
      BY PageType DEF page
    <2>. QED
      BY <2>1, <2>2 DEF TypeOK
  <1>. QED
    BY <1>3, <1>4, MarksUnchanged DEF Answer, TypeOK, marking

LEMMA AnswerLastType ==
    ASSUME TypeOK, MarkInv, AnswerLast PROVE TypeOK' /\ MarkInv'
  <1>1. walk' \in Walk
    BY ExportAssumption DEF AnswerLast, NoWalk, Walk, NoFilter, Filter
  <1>2. faults' \in [missed: SUBSET Drafts, twice: SUBSET Drafts]
    <2>. DEFINE a == due \ (Served \cup PageOf(walk.filter))
                b == Twice(PageOf(walk.filter))
    <2>1. faults' = [faults EXCEPT !.missed = @ \cup a, !.twice = @ \cup b]
      BY DEF AnswerLast
    <2>2. a \subseteq Drafts /\ b \subseteq Drafts
      BY PageType DEF TypeOK
    <2>. HIDE DEF a, b
    <2>. QED
      BY <2>1, <2>2 DEF TypeOK
  <1>. QED
    BY <1>1, <1>2, MarksUnchanged DEF AnswerLast, TypeOK, marking

LEMMA MarkReadsType ==
    ASSUME TypeOK, MarkInv, NEW r \in Requests, NEW b \in Batches, MarkReads(r, b)
    PROVE  TypeOK' /\ MarkInv'
  <1>. DEFINE told == {d \in Drafts : Of(b, d) # {} /\ draft[d].status # "none"}
              m == [body |-> b, told |-> told, insert |-> {d \in told : ~log[d].row},
                    fill |-> {d \in told : /\ log[d] = Row(None)
                                           /\ \E i \in Of(b, d) : b[i][2] # None}]
  <1>1. m \in Mark
    BY DEF Mark
  <1>2. MarkKnows(m)
    BY DEF MarkKnows, Row
  <1>3. mark' = [mark EXCEPT ![r] = m] /\ log' = log
    BY DEF MarkReads
  <1>. HIDE DEF m
  <1>4. mark' \in [Requests -> Mark]
    BY <1>1, <1>3 DEF TypeOK
  <1>5. MarkInv'
    BY <1>2, <1>3 DEF MarkInv, MarkKnows, TypeOK, Of
  <1>. QED
    BY <1>4, <1>5 DEF MarkReads, TypeOK, walking

\* A request that commits only adds rows to the log.
LEMMA RowsStay ==
    ASSUME TypeOK, NEW m \in Mark, MarkKnows(m), ~Conflict(m), NEW d \in Drafts
    PROVE  /\ log[d].row => Marked(m)[d].row
           /\ d \in m.told => Marked(m)[d].row
           /\ d \notin m.insert => Marked(m)[d].row = log[d].row
  <1>1. CASE d \in m.insert
    BY <1>1 DEF Marked, Row
  <1>2. CASE d \notin m.insert /\ d \in m.fill
    BY <1>2 DEF Marked, Row, Conflict
  <1>3. CASE d \notin m.insert /\ d \notin m.fill
    BY <1>3 DEF Marked, MarkKnows
  <1>. QED
    BY <1>1, <1>2, <1>3

LEMMA MarkCommitsType ==
    ASSUME TypeOK, MarkInv, NEW r \in Requests, MarkCommits(r)
    PROVE  TypeOK' /\ MarkInv'
  <1>1. mark[r] \in Mark /\ MarkKnows(mark[r]) /\ ~Conflict(mark[r])
    BY DEF TypeOK, MarkInv, MarkCommits
  <1>2. log' \in [Drafts -> Log]
    BY <1>1, MarkedType DEF MarkCommits, TypeOK
  <1>3. audit' \in [Drafts -> Nat]
    BY DEF MarkCommits, TypeOK
  <1>4. NoMark \in Mark
    BY DEF NoMark, Mark
  <1>5. mark' \in [Requests -> Mark]
    BY <1>4 DEF MarkCommits, TypeOK
  <1>6. due' \subseteq Drafts /\ answered' \subseteq Drafts
    BY <1>1 DEF MarkCommits, Owes, TypeOK, Mark
  <1>7. MarkInv'
    <2>. SUFFICES ASSUME NEW x \in Requests
                  PROVE  MarkKnows(mark[x])'
      BY DEF MarkInv
    <2>1. CASE x = r
      BY <2>1 DEF MarkCommits, TypeOK, MarkKnows, NoMark
    <2>2. CASE x # r
      <3>1. mark'[x] = mark[x] /\ MarkKnows(mark[x]) /\ mark[x] \in Mark
        BY <2>2 DEF MarkCommits, TypeOK, MarkInv
      <3>2. \A d \in mark[x].told \ mark[x].insert : log'[d].row
        BY <1>1, <3>1, RowsStay DEF MarkCommits, MarkKnows, Mark
      <3>. QED
        BY <3>1, <3>2 DEF MarkKnows, Of
    <2>. QED
      BY <2>1, <2>2
  <1>. QED
    BY <1>2, <1>3, <1>5, <1>6, <1>7 DEF MarkCommits, TypeOK

LEMMA MarkFailsType ==
    ASSUME TypeOK, MarkInv, NEW r \in Requests, MarkFails(r)
    PROVE  TypeOK' /\ MarkInv'
  <1>1. NoMark \in Mark
    BY DEF NoMark, Mark
  <1>2. MarkInv'
    <2>. SUFFICES ASSUME NEW x \in Requests
                  PROVE  MarkKnows(mark[x])'
      BY DEF MarkInv
    <2>1. CASE x = r
      BY <2>1 DEF MarkFails, TypeOK, MarkKnows, NoMark
    <2>2. CASE x # r
      BY <2>2 DEF MarkFails, TypeOK, MarkInv, MarkKnows, Of
    <2>. QED
      BY <2>1, <2>2
  <1>. QED
    BY <1>1, <1>2 DEF MarkFails, TypeOK, walking

-----------------------------------------------------------------------------
(* Marks *)

LEMMA MarksStep ==
    ASSUME TypeOK, MarkInv, MarksAccounted, [Next]_vars
    PROVE  MarksAccounted'
  <1>1. CASE UNCHANGED <<log, audit, answered>>
    BY <1>1 DEF MarksAccounted
  <1>2. ASSUME NEW r \in Requests, MarkCommits(r)
        PROVE  MarksAccounted'
    <2>. DEFINE m == mark[r]
    <2>1. m \in Mark /\ MarkKnows(m) /\ ~Conflict(m)
      BY <1>2 DEF TypeOK, MarkInv, MarkCommits
    <2>2. /\ log' = Marked(m) /\ answered' = answered \cup m.told
          /\ \A d \in Drafts : audit'[d] = audit[d] + (IF d \in m.insert THEN 1 ELSE 0)
          /\ \A d \in m.insert : ~log[d].row
      BY <1>2 DEF MarkCommits, Conflict
    <2>. HIDE DEF m
    <2>3. \A d \in answered' : log'[d].row
      BY <2>1, <2>2, RowsStay DEF MarksAccounted, TypeOK, Mark
    <2>4. ASSUME NEW d \in Drafts
          PROVE  audit'[d] = IF log'[d].row THEN 1 ELSE 0
      <3>1. CASE d \in m.insert
        <4>1. log'[d].row
          BY <2>1, <2>2, <3>1, RowsStay DEF MarkKnows
        <4>. QED
          BY <2>2, <3>1, <4>1 DEF MarksAccounted
      <3>2. CASE d \notin m.insert
        <4>1. log'[d].row = log[d].row
          BY <2>1, <2>2, <3>2, RowsStay
        <4>2. audit'[d] = audit[d]
          BY <2>2, <3>2 DEF TypeOK
        <4>. QED
          BY <4>1, <4>2 DEF MarksAccounted
      <3>. QED
        BY <3>1, <3>2
    <2>. QED
      BY <2>3, <2>4 DEF MarksAccounted
  <1>3. ASSUME NEW d \in Drafts, Regenerate(d)
        PROVE  MarksAccounted'
    <2>1. CASE UNCHANGED marking
      BY <2>1 DEF marking, MarksAccounted
    <2>2. CASE ClearExport(d)
      <3>1. \A e \in Drafts \ {d} : log'[e] = log[e] /\ audit'[e] = audit[e]
        BY <2>2 DEF ClearExport, TypeOK
      <3>2. log'[d] = NoRow /\ audit'[d] = 0 /\ answered' = answered \ {d}
        BY <2>2 DEF ClearExport, TypeOK, MarksAccounted
      <3>. QED
        BY <3>1, <3>2 DEF MarksAccounted, NoRow, TypeOK
    <2>. QED
      BY <1>3, <2>1, <2>2 DEF Regenerate
  <1>. QED
    BY <1>1, <1>2, <1>3 DEF Next, vars, marking, Tick, Create, Move, SaveDefaults,
       Begin, Continue, Answer, AnswerLast, MarkReads, MarkFails

-----------------------------------------------------------------------------
(* Walks *)

\* Between two pages: what is owed and not served comes after the place at
\* which the last page ended, where the cursor was then.
PagingInv ==
    /\ walk.cursor \in Drafts /\ walk.place \in Place /\ walk.place.id = walk.cursor
    /\ draft[walk.cursor].status # "none"
    /\ \A d \in due : d \in Served \/ Before(walk.place, PlaceOf(d))
    /\ ~walk.moved => \A p \in walk.served : ~Before(walk.place, p)

\* While a page is selected: what is owed passes the filter, is served or comes
\* after the cursor, before which everything served had been.
ReadingInv ==
    LET f == walk.filter IN
    /\ f.statuses = walk.query.statuses /\ f.consumed = walk.query.consumed
    /\ f.since = walk.query.since
    /\ \A d \in due :
           Matches(f, d) /\ (d \in Served \/ f.after = None \/ Before(f.after, PlaceOf(d)))
    /\ f.after = None => walk.served = {}
    /\ ~walk.moved /\ f.after # None => \A p \in walk.served : ~Before(f.after, p)

WalkInv ==
    /\ walk.step = "over" => due = {}
    /\ walk.step # "over" =>
           walk.query \in Queries /\ \A d \in due : Eligible(walk.query, d)
    /\ walk.step = "paging" => PagingInv
    /\ walk.step = "reading" => ReadingInv

IInv == TypeOK /\ MarkInv /\ MarksAccounted /\ WalkInv /\ NoSkip /\ NoRepeat

LEMMA PlacesAreSpots == Place \subseteq Spot /\ None \notin Place
  <1>1. ASSUME NEW p \in Place
        PROVE  p \in Spot
    <2>1. p = [at |-> p.at, id |-> p.id] /\ p.at \in 0..MaxClock /\ p.id \in Drafts
      BY DEF Place
    <2>2. p.at \in Nat /\ p.id \in Nat
      BY <2>1, ExportAssumption
    <2>. QED
      BY <2>1, <2>2, Zenon DEF Spot
  <1>2. None \notin Spot
    BY ExportAssumption DEF Spot
  <1>. QED
    BY <1>1, <1>2

\* The filter of a later page differs in the cursor alone.
LEMMA CursorDoesNotFilter ==
    ASSUME NEW q, NEW c, NEW d
    PROVE  Matches(FilterOf(q, c), d) <=> Eligible(q, d)
  BY DEF Eligible, Matches, FilterOf

\* Rows change under a walk: they stay, as old as they are.
Grows ==
    \A d \in Drafts : draft[d].status # "none" =>
        draft'[d].status # "none" /\ draft'[d].created = draft[d].created

LEMMA OwedWithinFilter ==
    ASSUME TypeOK, TypeOK', ReadingInv, Grows, Owes, walk' = walk,
           walk.query \in Queries, NEW d \in due'
    PROVE  Matches(walk.filter, d)'
  <1>. DEFINE f == walk.filter
  <1>1. /\ d \in due /\ d \in Drafts /\ draft'[d].generated = draft[d].generated
        /\ Eligible(walk.query, d)'
    BY DEF Owes, Keeps, TypeOK
  <1>2. /\ draft'[d].status \in f.statuses
        /\ f.consumed # None => log'[d].row = f.consumed
        /\ f.since # None => draft'[d].updated >= f.since
    BY <1>1 DEF Eligible, Matches, FilterOf, ReadingInv
  <1>3. Matches(f, d) /\ f \in Filter
    BY <1>1 DEF ReadingInv, TypeOK, Walk
  <1>4. draft[d].status # "none"
    BY <1>3 DEF Matches, Filter
  <1>5. draft'[d].created = draft[d].created
    BY <1>1, <1>4 DEF Grows
  <1>. QED
    BY <1>1, <1>2, <1>3, <1>5 DEF Matches

LEMMA RowsChange ==
    ASSUME IInv, TypeOK', Grows, Owes, UNCHANGED <<walk, faults>>
    PROVE  WalkInv' /\ NoSkip' /\ NoRepeat'
  <1>1. \A d \in due' : /\ d \in due /\ d \in Drafts /\ PlaceOf(d)' = PlaceOf(d)
                        /\ Eligible(walk.query, d)'
    BY DEF Owes, Keeps, PlaceOf, IInv, TypeOK
  <1>2. ASSUME walk.step = "paging"
        PROVE  PagingInv'
    <2>1. PagingInv
      BY <1>2 DEF IInv, WalkInv
    <2>2. draft'[walk.cursor].status # "none"
      BY <2>1 DEF PagingInv, Grows
    <2>3. \A d \in due' : d \in Served' \/ Before(walk.place, PlaceOf(d))'
      BY <1>1, <2>1 DEF PagingInv, Served, Before
    <2>. QED
      BY <2>1, <2>2, <2>3 DEF PagingInv, Before
  <1>3. ASSUME walk.step = "reading"
        PROVE  ReadingInv'
    <2>1. ReadingInv /\ walk.query \in Queries
      BY <1>3 DEF IInv, WalkInv
    <2>2. \A d \in due' : Matches(walk.filter, d)'
      BY <2>1, OwedWithinFilter DEF IInv
    <2>3. \A d \in due' : \/ d \in Served' \/ walk.filter.after = None
                          \/ Before(walk.filter.after, PlaceOf(d))'
      BY <1>1, <2>1 DEF ReadingInv, Served, Before
    <2>. QED
      BY <2>1, <2>2, <2>3 DEF ReadingInv, Before
  <1>. QED
    BY <1>1, <1>2, <1>3 DEF WalkInv, IInv, NoSkip, NoRepeat

\* A step that changes neither rows nor walk.
LEMMA WalkUnchanged ==
    ASSUME IInv, UNCHANGED <<clock, draft, log, defaults, walking>>
    PROVE  WalkInv' /\ NoSkip' /\ NoRepeat'
  <1>1. \A d \in due : Eligible(walk.query, d)' <=> Eligible(walk.query, d)
    BY DEF Eligible, Matches, FilterOf, Freshness, Explicit, Limit, CreatedSince,
       GeneratedSince, PlaceOf, walking
  <1>2. PagingInv => PagingInv'
    BY DEF PagingInv, Served, Before, PlaceOf, walking
  <1>3. ReadingInv => ReadingInv'
    BY DEF ReadingInv, Served, Before, PlaceOf, Matches, walking
  <1>. QED
    BY <1>1, <1>2, <1>3 DEF WalkInv, IInv, NoSkip, NoRepeat, walking

LEMMA BeginStep ==
    ASSUME IInv, NEW q \in Queries, Begin(q)
    PROVE  WalkInv' /\ NoSkip' /\ NoRepeat'
  <1>1. /\ walk'.step = "reading" /\ walk'.query = q /\ walk'.filter = FilterOf(q, None)
        /\ walk'.served = {} /\ due' = {d \in Drafts : Eligible(q, d)}
        /\ UNCHANGED <<clock, draft, log, defaults, faults>>
    BY DEF Begin, NoWalk, marking
  <1>2. \A d \in Drafts : Eligible(q, d)' <=> Eligible(q, d)
    BY <1>1 DEF Eligible, Matches, FilterOf, Freshness, Explicit, Limit, CreatedSince,
       GeneratedSince, PlaceOf
  <1>3. \A d \in due' : Matches(walk.filter, d)'
    <2>1. \A d \in due' : Matches(FilterOf(q, None), d)
      BY <1>1 DEF Eligible
    <2>. QED
      BY <1>1, <2>1 DEF Matches
  <1>4. /\ walk'.filter.statuses = q.statuses /\ walk'.filter.consumed = q.consumed
        /\ walk'.filter.since = q.since /\ walk'.filter.after = None
    BY <1>1 DEF FilterOf
  <1>5. ReadingInv'
    BY <1>1, <1>3, <1>4 DEF ReadingInv
  <1>. QED
    BY <1>1, <1>2, <1>5 DEF WalkInv, IInv, NoSkip, NoRepeat

\* The place of the cursor is looked up again.  If it moved up, nothing owed
\* has come before it; what it jumped over when it moved down is not owed.
LEMMA ContinueStep ==
    ASSUME IInv, Continue
    PROVE  WalkInv' /\ NoSkip' /\ NoRepeat'
  <1>. DEFINE q == walk.query
              c == walk.cursor
              f == FilterOf(q, c)
              moved == walk.moved \/ PlaceOf(c) # walk.place
  <1>1. /\ PagingInv /\ q \in Queries /\ \A d \in due : d \in Drafts /\ Eligible(q, d)
        /\ draft \in [Drafts -> Draft] /\ walk \in Walk
    BY DEF Continue, IInv, WalkInv, TypeOK
  <1>2. /\ walk'.step = "reading" /\ walk'.query = q /\ walk'.filter = f
        /\ walk'.served = walk.served /\ walk'.moved = moved
        /\ due' = {d \in due : ~Jumped(d)}
        /\ UNCHANGED <<clock, draft, log, defaults, faults>>
    <2>1. walk' = [walk EXCEPT !.step = "reading", !.filter = f, !.moved = moved]
      BY DEF Continue
    <2>2. /\ due' = {d \in due : ~Jumped(d)}
          /\ UNCHANGED <<clock, draft, log, defaults, faults>>
      BY DEF Continue, marking
    <2>. HIDE DEF f, moved
    <2>. QED
      BY <1>1, <2>1, <2>2 DEF Walk
  <1>3. /\ c \in Drafts /\ c # None /\ f.after = PlaceOf(c)
        /\ PlaceOf(c) \in Spot /\ walk.place \in Spot /\ f.after # None
    <2>1. c \in Drafts /\ c # None
      BY <1>1, ExportAssumption DEF PagingInv
    <2>. QED
      BY <1>1, <2>1, PlaceType, PlacesAreSpots DEF PagingInv, FilterOf
  <1>4. \A d \in due' : d \in due /\ ~Jumped(d)
    BY <1>2
  <1>5. \A d \in due' : d \in Served \/ Before(f.after, PlaceOf(d))
    BY <1>1, <1>3, <1>4 DEF PagingInv, Jumped
  <1>6. \A d \in due : Matches(f, d)
    BY <1>1, CursorDoesNotFilter
  <1>7. ~moved => \A p \in walk.served : ~Before(f.after, p)
    BY <1>1, <1>3 DEF PagingInv
  <1>8. /\ f.statuses = q.statuses /\ f.consumed = q.consumed /\ f.since = q.since
    BY DEF FilterOf
  <1>9. ReadingInv'
    <2>. HIDE DEF f, moved
    <2>1. \A d \in due' : Matches(walk.filter, d)'
      BY <1>2, <1>4, <1>6 DEF Matches
    <2>2. \A d \in due' : d \in Served' \/ Before(walk.filter.after, PlaceOf(d))'
      BY <1>2, <1>5 DEF Served, Before, PlaceOf
    <2>. QED
      BY <1>2, <1>3, <1>7, <1>8, <2>1, <2>2 DEF ReadingInv, Before
  <1>10. \A d \in due : Eligible(q, d)' <=> Eligible(q, d)
    BY <1>2 DEF Eligible, Matches, FilterOf, Freshness, Explicit, Limit, CreatedSince,
       GeneratedSince, PlaceOf
  <1>. QED
    BY <1>1, <1>2, <1>4, <1>9, <1>10 DEF WalkInv, IInv, NoSkip, NoRepeat

\* A page repeats nothing while its cursor is where it was.
LEMMA PageIsNew ==
    ASSUME IInv, ReadingInv
    PROVE  Twice(PageOf(walk.filter)) = {}
  <1>. DEFINE f == walk.filter
  <1>1. ASSUME NEW d \in PageOf(f), ~walk.moved, PlaceOf(d) \in walk.served
        PROVE  FALSE
    <2>1. f.after # None
      BY <1>1 DEF ReadingInv
    <2>2. Before(f.after, PlaceOf(d))
      BY <2>1 DEF PageOf, Fetched, First, Listed
    <2>. QED
      BY <1>1, <2>1, <2>2 DEF ReadingInv
  <1>. QED
    BY <1>1 DEF Twice

LEMMA AnswerStep ==
    ASSUME IInv, Answer
    PROVE  WalkInv' /\ NoSkip' /\ NoRepeat'
  <1>. DEFINE f == walk.filter
              page == PageOf(f)
              last == Last(page)
              new == {PlaceOf(d) : d \in page}
  <1>1. /\ ReadingInv /\ walk.query \in Queries /\ HasMore(f) /\ f \in Filter
        /\ \A d \in due : d \in Drafts /\ Eligible(walk.query, d)
        /\ draft \in [Drafts -> Draft] /\ walk \in Walk
        /\ walk.served \subseteq Place /\ f.limit \in Limits
    BY DEF Answer, IInv, WalkInv, TypeOK, Walk, Filter
  <1>2. /\ page \subseteq Listed(f) /\ Listed(f) \subseteq Drafts /\ last \in page
        /\ \A d \in page \ {last} : Before(PlaceOf(d), PlaceOf(last))
        /\ \A d \in Listed(f) \ page : Before(PlaceOf(last), PlaceOf(d))
    BY <1>1, PageEnds DEF Listed
  <1>3. /\ walk'.step = "paging" /\ walk'.query = walk.query /\ walk'.cursor = last
        /\ walk'.place = PlaceOf(last) /\ walk'.served = walk.served \cup new
        /\ walk'.moved = walk.moved
    <2>1. walk' = [walk EXCEPT !.step = "paging", !.filter = NoFilter, !.cursor = last,
                               !.place = PlaceOf(last), !.served = @ \cup new]
      BY DEF Answer
    <2>. HIDE DEF new, last
    <2>. QED
      BY <1>1, <2>1 DEF Walk
  <1>4. UNCHANGED <<clock, draft, log, defaults, due>>
    BY DEF Answer, marking
  <1>5. NoSkip' /\ NoRepeat'
    <2>1. faults' = [faults EXCEPT !.twice = @ \cup {}]
      BY <1>1, PageIsNew DEF Answer
    <2>. QED
      BY <2>1 DEF IInv, TypeOK, NoSkip, NoRepeat
  <1>6. \A d \in Drafts : PlaceOf(d) \in Place /\ PlaceOf(d) \in Spot /\ PlaceOf(d).id = d
    BY <1>1, PlaceType
  <1>7. \A d \in due : d \in Served' \/ Before(PlaceOf(last), PlaceOf(d))
    <2>. SUFFICES ASSUME NEW d \in due
                  PROVE  d \in Served' \/ Before(PlaceOf(last), PlaceOf(d))
      OBVIOUS
    <2>1. CASE d \in Served
      BY <1>3, <2>1 DEF Served
    <2>2. CASE d \in page
      <3>1. PlaceOf(d) \in walk'.served /\ PlaceOf(d).id = d
        BY <1>1, <1>3, <1>6, <2>2
      <3>. QED
        BY <3>1 DEF Served
    <2>3. CASE d \notin Served /\ d \notin page
      <3>1. d \in Listed(f)
        BY <1>1, <2>3 DEF ReadingInv, Listed
      <3>. QED
        BY <1>2, <2>3, <3>1
    <2>. QED
      BY <2>1, <2>2, <2>3
  <1>8. ASSUME ~walk.moved, NEW p \in walk.served \cup new
        PROVE  ~Before(PlaceOf(last), p)
    <2>1. PlaceOf(last) \in Spot
      BY <1>2, <1>6
    <2>2. CASE p \in walk.served
      <3>1. f.after # None /\ ~Before(f.after, p)
        BY <1>1, <1>8, <2>2 DEF ReadingInv
      <3>2. Before(f.after, PlaceOf(last))
        BY <1>2, <3>1 DEF Listed
      <3>3. f.after \in Spot /\ p \in Spot
        BY <1>1, <2>2, <3>1, PlacesAreSpots DEF Filter
      <3>. QED
        BY <2>1, <3>1, <3>2, <3>3, BeforeIsAnOrder
    <2>3. CASE p \in new
      <3>1. PICK d \in page : p = PlaceOf(d)
        BY <2>3
      <3>2. p \in Spot
        BY <1>2, <1>6, <3>1
      <3>. QED
        BY <1>2, <2>1, <3>1, <3>2, BeforeIsAnOrder
    <2>. QED
      BY <1>8, <2>2, <2>3
  <1>9. draft[last].status # "none"
    BY <1>1, <1>2 DEF Listed, Matches, Filter
  <1>10. PagingInv'
    <2>1. last \in Drafts /\ PlaceOf(last) \in Place /\ PlaceOf(last).id = last
      BY <1>2, <1>6
    <2>. HIDE DEF last, new
    <2>2. \A d \in due' : d \in Served' \/ Before(walk.place, PlaceOf(d))'
      BY <1>3, <1>4, <1>7 DEF Before, PlaceOf
    <2>3. ~walk'.moved => \A p \in walk'.served : ~Before(walk.place, p)'
      BY <1>3, <1>8 DEF Before
    <2>. QED
      BY <1>3, <1>4, <1>9, <2>1, <2>2, <2>3 DEF PagingInv, Before
  <1>11. \A d \in due : Eligible(walk.query, d)'
    BY <1>1, <1>3, <1>4 DEF Eligible, Matches, FilterOf, Freshness, Explicit, Limit,
       CreatedSince, GeneratedSince, PlaceOf
  <1>. QED
    BY <1>1, <1>3, <1>4, <1>5, <1>10, <1>11 DEF WalkInv

LEMMA AnswerLastStep ==
    ASSUME IInv, AnswerLast
    PROVE  WalkInv' /\ NoSkip' /\ NoRepeat'
  <1>. DEFINE f == walk.filter
  <1>1. /\ ReadingInv /\ ~HasMore(f) /\ due \subseteq Drafts
        /\ draft \in [Drafts -> Draft] /\ f.limit \in Limits
    BY DEF AnswerLast, IInv, WalkInv, TypeOK, Walk, Filter
  <1>2. due \ (Served \cup PageOf(f)) = {}
    <2>1. \A d \in due : d \in Served \/ d \in Listed(f)
      BY <1>1 DEF ReadingInv, Listed
    <2>2. Listed(f) = PageOf(f)
      BY <1>1, LastPageIsAll
    <2>. QED
      BY <2>1, <2>2
  <1>3. NoSkip' /\ NoRepeat'
    <2>1. faults' = [faults EXCEPT !.missed = @ \cup {}, !.twice = @ \cup {}]
      BY <1>1, <1>2, PageIsNew DEF AnswerLast
    <2>. QED
      BY <2>1 DEF IInv, TypeOK, NoSkip, NoRepeat
  <1>. QED
    BY <1>3 DEF AnswerLast, WalkInv, NoWalk

-----------------------------------------------------------------------------
\* No change of a row removes it or its date.
LEMMA RowsGrow ==
    ASSUME TypeOK
    PROVE  /\ draft' = draft => Grows
           /\ \A d \in Drafts : Create(d) => Grows
           /\ \A d \in Drafts : Regenerate(d) => Grows
           /\ \A d \in Handled, x \in {"queue", "left"} : Move(d, x) => Grows
  <1>1. /\ \A d \in Drafts : draft[d].generated \in Nat
        /\ draft \in [Drafts -> Draft] /\ Handled \subseteq Drafts /\ Stamps \subseteq Nat
    BY ExportAssumption DEF TypeOK, Draft, Stamps
  <1>2. draft' = draft => Grows
    BY <1>1 DEF Grows
  <1>3. ASSUME NEW d \in Drafts, Create(d)
        PROVE  Grows
    <2>1. \A e \in Drafts \ {d} : draft'[e] = draft[e]
      BY <1>1, <1>3 DEF Create
    <2>. QED
      BY <1>1, <1>3, <2>1 DEF Grows, Create
  <1>4. ASSUME NEW d \in Drafts, Regenerate(d)
        PROVE  Grows
    <2>1. PICK t \in Stamps, x \in {"queue", "left"} : Rewritten(d, x, t)
      BY <1>4, RegenerateWrites
    <2>2. \A e \in Drafts \ {d} : draft'[e] = draft[e]
      BY <1>1, <2>1 DEF Rewritten
    <2>3. draft'[d].status = x /\ draft'[d].created = draft[d].created
      BY <1>1, <2>1 DEF Draft, Rewritten
    <2>. QED
      BY <1>1, <2>2, <2>3 DEF Grows
  <1>5. ASSUME NEW d \in Handled, NEW x \in {"queue", "left"}, Move(d, x)
        PROVE  Grows
    <2>1. \A e \in Drafts \ {d} : draft'[e] = draft[e]
      BY <1>1, <1>5 DEF Move
    <2>2. /\ draft'[d].status = x /\ draft'[d].created = draft[d].created
          /\ draft'[d].generated = draft[d].generated
      BY <1>1, <1>5 DEF Move, Draft
    <2>. QED
      BY <1>1, <2>1, <2>2 DEF Grows
  <1>. QED
    BY <1>2, <1>3, <1>4, <1>5

LEMMA IInvInit == ASSUME Init PROVE IInv
  <1>1. TypeOK /\ MarkInv
    BY TypeInit
  <1>2. MarksAccounted
    BY DEF Init, MarksAccounted, NoRow
  <1>3. WalkInv /\ NoSkip /\ NoRepeat
    BY DEF Init, WalkInv, NoWalk, NoSkip, NoRepeat
  <1>. QED
    BY <1>1, <1>2, <1>3 DEF IInv

LEMMA IInvNext == ASSUME IInv, [Next]_vars PROVE IInv'
  <1>. USE DEF IInv
  <1>. DEFINE Goal == TypeOK' /\ MarkInv' /\ WalkInv' /\ NoSkip' /\ NoRepeat'
  <1>1. ASSUME Tick PROVE Goal
    BY <1>1, TickType, RowsGrow, RowsChange DEF Tick
  <1>2. ASSUME NEW d \in Drafts, Create(d) PROVE Goal
    BY <1>2, CreateType, RowsGrow, RowsChange DEF Create
  <1>3. ASSUME NEW d \in Drafts, Regenerate(d) PROVE Goal
    BY <1>3, RegenerateType, RowsGrow, RowsChange DEF Regenerate
  <1>4. ASSUME NEW d \in Handled, NEW x \in {"queue", "left"}, Move(d, x) PROVE Goal
    BY <1>4, MoveType, RowsGrow, RowsChange DEF Move
  <1>5. ASSUME NEW x \in Defaults, SaveDefaults(x) PROVE Goal
    BY <1>5, DefaultsType, RowsGrow, RowsChange DEF SaveDefaults
  <1>6. ASSUME NEW q \in Queries, Begin(q) PROVE Goal
    BY <1>6, BeginType, BeginStep
  <1>7. ASSUME Continue PROVE Goal
    <2>1. walk.query \in Queries
      BY <1>7 DEF Continue, WalkInv
    <2>. QED
      BY <1>7, <2>1, ContinueType, ContinueStep
  <1>8. ASSUME Answer PROVE Goal
    BY <1>8, AnswerType, AnswerStep
  <1>9. ASSUME AnswerLast PROVE Goal
    BY <1>9, AnswerLastType, AnswerLastStep
  <1>10. ASSUME NEW r \in Requests, NEW b \in Batches, MarkReads(r, b) PROVE Goal
    BY <1>10, MarkReadsType, WalkUnchanged DEF MarkReads
  <1>11. ASSUME NEW r \in Requests, MarkCommits(r) PROVE Goal
    BY <1>11, MarkCommitsType, RowsGrow, RowsChange DEF MarkCommits
  <1>12. ASSUME NEW r \in Requests, MarkFails(r) PROVE Goal
    BY <1>12, MarkFailsType, WalkUnchanged DEF MarkFails
  <1>13. ASSUME UNCHANGED vars PROVE Goal
    <2>1. UNCHANGED <<clock, draft, log, defaults, walking>> /\ UNCHANGED marking
      BY <1>13 DEF vars, marking
    <2>2. TypeOK'
      BY <2>1 DEF TypeOK, walking, marking
    <2>. QED
      BY <2>1, <2>2, MarksUnchanged, WalkUnchanged
  <1>14. MarksAccounted'
    BY MarksStep
  <1>. HIDE DEF Goal
  <1>15. Goal
    BY <1>1, <1>2, <1>3, <1>4, <1>5, <1>6, <1>7, <1>8, <1>9, <1>10, <1>11, <1>12, <1>13
       DEF Next
  <1>. QED
    BY <1>14, <1>15 DEF Goal

LEMMA Invariance == Spec => []IInv
  BY IInvInit, IInvNext, PTL DEF Spec

\* The state of the feed is well-typed: in particular every list request has a
\* whole filter and every row of the log a reference of the request that wrote it.
THEOREM TypeCorrect == Spec => []TypeOK
  BY Invariance, PTL DEF IInv

\* For any drafts, limits, filters and defaults: a walk of list_export_drafts
\* that ends has served every draft that stayed in its filter and over which no
\* cursor jumped, because all it owes comes after its cursor (_drafts_query).
THEOREM NothingSkipped == Spec => []NoSkip
  BY Invariance, PTL DEF IInv

\* For any drafts and limits: a walk whose cursors stay where they were serves
\* no text twice, however many drafts are created or regenerated (_drafts_query).
THEOREM NothingRepeated == Spec => []NoRepeat
  BY Invariance, PTL DEF IInv

\* For any requests and batches, overlapping or naming a draft twice: one audit
\* record per row of draft_export_log, and who was told has the row (_mark_one).
THEOREM MarksAreAccounted == Spec => []MarksAccounted
  BY Invariance, PTL DEF IInv
=============================================================================
