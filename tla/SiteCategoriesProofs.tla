------------------------ MODULE SiteCategoriesProofs ------------------------
(***************************************************************************)
(* Proofs about SiteCategories: the types of rows, drafts and sessions,    *)
(* for which every CHOOSE has to find something to choose, that drafts     *)
(* follow their category when it is renamed, and that one synchronisation  *)
(* which nothing disturbs brings the replica in line with the CMS.  The    *)
(* last two rest on what a session that is not doomed holds from its reads *)
(* to its commit: it writes only rows it has loaded, hands no two rows the *)
(* same id and none the id of a new row, maps a draft by the row it        *)
(* renames whenever no other row it loaded means the old slug, before or   *)
(* after, and leaves active the slugs of the list it read.                 *)
(***************************************************************************)
EXTENDS SiteCategories, FiniteSetTheorems, NaturalsInduction, TLAPS

NoChange == <<None, None, None, None>>

\* Row j as session s writes it.
Wrote(s, j) ==
    [slug |-> Or(s.updates[j][2], s.loaded[j].slug),
     aliases |-> Or(s.updates[j][3], s.loaded[j].aliases),
     active |-> Or(s.updates[j][4], s.loaded[j].active)]

OnlyLoaded(s) == \A i \in Ids : s.loaded[i] = None => s.updates[i] = NoChange
OneTarget(s) == \A i, j \in Ids :
    s.updates[i][1] # None /\ s.updates[i][1] = s.updates[j][1] => i = j
Spared(s, j, old) ==
    s.loaded[j] = None \/ (~Means(s.loaded[j], old) /\ ~Means(Wrote(s, j), old))
Follows(s) == \A i \in Ids, d \in Drafts :
    /\ s.loaded[i] # None /\ s.loaded[i].active /\ s.updates[i][2] # None
    /\ s.found[d] = s.loaded[i].slug
    /\ \A j \in Ids \ {i} : Spared(s, j, s.loaded[i].slug)
    => s.slugs[d] = s.updates[i][2]

\* No row is handed the id of a row that the session inserts.
FreshIds(s) == \A i, k \in Ids : s.updates[i][1] = k => s.inserts[k] = None

\* The slugs that session s leaves active, if nobody else writes.
LeftActive(s) == {i \in Ids : s.loaded[i] # None /\ Wrote(s, i).active}
LeftSlugs(s) == {Wrote(s, i).slug : i \in LeftActive(s)} \cup ({s.inserts[k] : k \in Ids} \ {None})
\* It read the same list twice, no category without row has got the slug of the
\* row of another one, and it needs no default rows.
EntangledIn(s) == \E i, j \in Ids :
    /\ s.loaded[i] = None /\ s.loaded[j] # None
    /\ s.ru[i] # None /\ s.ru[j] # None /\ s.ru[i] = s.loaded[j].slug
FoundRows(s) == \/ \E i \in Ids : s.loaded[i] # None /\ s.loaded[i].active
                \/ \A d \in Drafts : s.found[d] = None
Calm(s) == s.en = s.ru /\ ~EntangledIn(s) /\ FoundRows(s)
Agrees(s) == Calm(s) => LeftSlugs(s) = SlugsIn(s.ru)

Sound(s) == s.step = "flushing" /\ ~s.doomed =>
    OnlyLoaded(s) /\ OneTarget(s) /\ Follows(s) /\ FreshIds(s) /\ Agrees(s)
Distinct == \A i, j \in Ids : cms[i] # None /\ cms[i] = cms[j] => i = j
SessionInv == TypeOK /\ Distinct /\ \A p \in Syncs : Sound(sync[p])

-----------------------------------------------------------------------------
(* Choices: what a CHOOSE of the model ranges over is never empty *)

LEMMA NatMin ==
    ASSUME NEW T \in SUBSET Nat, T # {}
    PROVE  \E x \in T : \A y \in T : x <= y
  <1>1. PICK x \in T : \A y \in T : <<y, x>> \notin OpToRel(<, Nat)
    BY NatLessThanWellFounded, WFMin
  <1>2. \A y \in T : ~(y < x)
    BY <1>1 DEF OpToRel
  <1>3. QED
    BY <1>2

LEMMA LowestIsLeast ==
    ASSUME NEW T \in SUBSET Nat, T # {}
    PROVE  Lowest(T) \in T /\ \A y \in T : Lowest(T) <= y
  BY NatMin DEF Lowest

\* A total order on a finite set has a last element: otherwise there would be a
\* smallest set without one, and it would lack one still with an element less.
Ordered(S, R) ==
    /\ \A x, y \in S : <<x, y>> \in R \/ <<y, x>> \in R
    /\ \A x, y, z \in S : <<x, y>> \in R /\ <<y, z>> \in R => <<x, z>> \in R
HasLast(T, R) == \E m \in T : \A t \in T : <<t, m>> \in R

LEMMA LastExists ==
    ASSUME NEW S, IsFiniteSet(S), S # {}, NEW R, Ordered(S, R)
    PROVE  HasLast(S, R)
  <1>. DEFINE Lacking == {T \in SUBSET S : T # {} /\ ~HasLast(T, R)}
              Sizes == {Cardinality(T) : T \in Lacking}
  <1>. SUFFICES ASSUME ~HasLast(S, R)
                PROVE  FALSE
    OBVIOUS
  <1>1. \A T \in SUBSET S : IsFiniteSet(T) /\ Cardinality(T) \in Nat
    BY FS_Subset, FS_CardinalityType
  <1>2. Sizes \in SUBSET Nat /\ Sizes # {}
    BY <1>1
  <1>3. PICK n \in Sizes : \A k \in Sizes : n <= k
    BY <1>2, NatMin
  <1>4. PICK T \in Lacking : Cardinality(T) = n
    OBVIOUS
  <1>5. PICK x \in T : TRUE
    OBVIOUS
  <1>6. Cardinality(T \ {x}) = n - 1
    BY <1>1, <1>4, <1>5, FS_RemoveElement
  <1>7. CASE T \ {x} = {}
    <2>1. T = {x}
      BY <1>5, <1>7
    <2>. QED
      BY <2>1, <1>5 DEF Ordered, HasLast
  <1>8. CASE T \ {x} # {}
    <2>1. HasLast(T \ {x}, R)
      <3>1. T \ {x} \notin Lacking
        BY <1>1, <1>2, <1>3, <1>6
      <3>. QED
        BY <3>1, <1>8
    <2>2. PICK m \in T \ {x} : \A t \in T \ {x} : <<t, m>> \in R
      BY <2>1 DEF HasLast
    <2>3. CASE <<x, m>> \in R
      BY <2>2, <2>3 DEF HasLast
    <2>4. CASE <<m, x>> \in R
      <3>1. \A t \in T : <<t, x>> \in R
        BY <2>2, <2>4 DEF Ordered
      <3>. QED
        BY <3>1 DEF HasLast
    <2>. QED
      BY <2>2, <2>3, <2>4 DEF Ordered
  <1>. QED
    BY <1>7, <1>8

LEMMA HighestExists ==
    ASSUME NEW T \in SUBSET Nat, IsFiniteSet(T), T # {}
    PROVE  \E m \in T : \A t \in T : t <= m
  <1>. DEFINE R == {q \in T \X T : q[1] <= q[2]}
  <1>1. Ordered(T, R)
    BY DEF Ordered
  <1>2. HasLast(T, R)
    BY <1>1, LastExists
  <1>. QED
    BY <1>2 DEF HasLast

-----------------------------------------------------------------------------
(* What a slug means: a resolution always ends in a slug of the view *)

Meaning == Slugs \X Slugs \X SUBSET Slugs
Seeing(view) == view \in SUBSET Meaning

LEMMA CanonicalType ==
    ASSUME CategoriesAssumption, NEW view, Seeing(view), NEW s
    PROVE  Canonical(view, s) \in Slugs \cup {None}
  <1>. DEFINE named == {v \in view : s = v[2] \/ s \in v[3]}
              keys == {v[1] : v \in named}
              last == CHOOSE v \in named : \A w \in named : v[1] >= w[1]
  <1>1. ASSUME named # {}
        PROVE  last[2] \in Slugs
    <2>1. keys \in SUBSET Slugs /\ keys # {}
      BY <1>1 DEF Seeing, Meaning
    <2>2. IsFiniteSet(keys)
      BY <2>1, FS_Subset DEF CategoriesAssumption
    <2>3. PICK m \in keys : \A t \in keys : t <= m
      BY <2>1, <2>2, HighestExists DEF CategoriesAssumption
    <2>4. PICK v \in named : v[1] = m
      OBVIOUS
    <2>5. \A w \in named : v[1] >= w[1]
      BY <2>1, <2>3, <2>4 DEF CategoriesAssumption
    <2>6. last \in named
      BY <2>5
    <2>. QED
      BY <2>6 DEF Seeing, Meaning
  <1>2. s \in DOMAIN Static => Static[s] \in Slugs
    BY DEF CategoriesAssumption
  <1>. QED
    BY <1>1, <1>2 DEF Canonical

LEMMA FallbackType ==
    ASSUME CategoriesAssumption, NEW view, Seeing(view), view # {}
    PROVE  FallbackOf(view) \in Slugs
  <1>1. Allowed(view) \in SUBSET Slugs /\ Allowed(view) # {}
    BY DEF Allowed, Seeing, Meaning
  <1>2. Lowest(Allowed(view)) \in Allowed(view)
    BY <1>1, LowestIsLeast DEF CategoriesAssumption
  <1>. QED
    BY <1>1, <1>2 DEF FallbackOf

LEMMA ResolveType ==
    ASSUME CategoriesAssumption, NEW view, Seeing(view), view # {}, NEW s, NEW hints \in Seq(Slugs)
    PROVE  Resolve(view, s, hints) \in Slugs
  <1>. DEFINE tried == {n \in DOMAIN hints : Canonical(view, hints[n]) # None}
  <1>1. tried \in SUBSET Nat
    OBVIOUS
  <1>2. tried # {} => Lowest(tried) \in tried
    BY <1>1, LowestIsLeast
  <1>. DEFINE low == Lowest(tried)
  <1>3. low \in tried => Canonical(view, hints[low]) \in Slugs
    BY CanonicalType
  <1>4. Canonical(view, s) \in Slugs \cup {None}
    BY CanonicalType
  <1>5. FallbackOf(view) \in Slugs
    BY FallbackType
  <1>. QED
    BY <1>2, <1>3, <1>4, <1>5 DEF Resolve

-----------------------------------------------------------------------------
(* What a synchronisation fetched *)

\* The order in which the slugs that came with id i were listed.
Listing(en, ru, i) == {q \in SlugsOf(en, ru, i) \X SlugsOf(en, ru, i) :
                           Earlier(Listed(en, ru, q[1]), Listed(en, ru, q[2]))}
Backwards(en, ru, i) == {q \in SlugsOf(en, ru, i) \X SlugsOf(en, ru, i) :
                             Earlier(Listed(en, ru, q[2]), Listed(en, ru, q[1]))}

LEMMA HolderType ==
    ASSUME NEW c \in Cms, NEW s \in SlugsIn(c)
    PROVE  Holder(c, s) \in Ids
  BY DEF Holder, SlugsIn

LEMMA SlugsOfType ==
    ASSUME CategoriesAssumption, NEW en \in Cms, NEW ru \in Cms, NEW i \in Ids
    PROVE  /\ SlugsOf(en, ru, i) \in SUBSET Slugs /\ IsFiniteSet(SlugsOf(en, ru, i))
           /\ Seen(en, ru) \in SUBSET Slugs
  <1>1. Seen(en, ru) \in SUBSET Slugs
    BY DEF Seen, SlugsIn, Cms
  <1>2. SlugsOf(en, ru, i) \in SUBSET Slugs
    BY <1>1 DEF SlugsOf
  <1>. QED
    BY <1>1, <1>2, FS_Subset DEF CategoriesAssumption

LEMMA ListingOrdered ==
    ASSUME CategoriesAssumption, NEW en \in Cms, NEW ru \in Cms, NEW i \in Ids
    PROVE  /\ Ordered(SlugsOf(en, ru, i), Listing(en, ru, i))
           /\ Ordered(SlugsOf(en, ru, i), Backwards(en, ru, i))
  <1>1. \A s \in Seen(en, ru) : Listed(en, ru, s) \in Nat \X Nat
    BY HolderType DEF Seen, Listed, CategoriesAssumption
  <1>. DEFINE S == SlugsOf(en, ru, i)
  <1>2. \A p, q \in Nat \X Nat : Earlier(p, q) \/ Earlier(q, p)
    BY DEF Earlier
  <1>3. \A p, q, r \in Nat \X Nat : Earlier(p, q) /\ Earlier(q, r) => Earlier(p, r)
    BY DEF Earlier
  <1>4. \A s \in S : Listed(en, ru, s) \in Nat \X Nat
    BY <1>1 DEF SlugsOf
  <1>5. \A x, y \in S : \/ Earlier(Listed(en, ru, x), Listed(en, ru, y))
                        \/ Earlier(Listed(en, ru, y), Listed(en, ru, x))
    BY <1>2, <1>4
  <1>6. \A x, y, z \in S :
            /\ Earlier(Listed(en, ru, x), Listed(en, ru, y))
            /\ Earlier(Listed(en, ru, y), Listed(en, ru, z))
            => Earlier(Listed(en, ru, x), Listed(en, ru, z))
    BY <1>3, <1>4
  <1>. QED
    BY <1>5, <1>6 DEF Ordered, Listing, Backwards

LEMMA FirstAndLast ==
    ASSUME CategoriesAssumption, NEW en \in Cms, NEW ru \in Cms, NEW i \in Ids, Named(en, ru, i)
    PROVE  /\ FirstSlug(en, ru, i) \in SlugsOf(en, ru, i) /\ FirstSlug(en, ru, i) \in Slugs
           /\ LastSlug(en, ru, i) \in SlugsOf(en, ru, i) /\ LastSlug(en, ru, i) \in Slugs
  <1>1. SlugsOf(en, ru, i) # {}
    BY DEF Named
  <1>2. HasLast(SlugsOf(en, ru, i), Listing(en, ru, i))
    BY <1>1, SlugsOfType, ListingOrdered, LastExists
  <1>3. HasLast(SlugsOf(en, ru, i), Backwards(en, ru, i))
    BY <1>1, SlugsOfType, ListingOrdered, LastExists
  <1>4. \E s \in SlugsOf(en, ru, i) : \A t \in SlugsOf(en, ru, i) :
            Earlier(Listed(en, ru, t), Listed(en, ru, s))
    BY <1>2 DEF HasLast, Listing
  <1>5. \E s \in SlugsOf(en, ru, i) : \A t \in SlugsOf(en, ru, i) :
            Earlier(Listed(en, ru, s), Listed(en, ru, t))
    BY <1>3 DEF HasLast, Backwards
  <1>6. LastSlug(en, ru, i) \in SlugsOf(en, ru, i)
    BY <1>4 DEF LastSlug
  <1>7. FirstSlug(en, ru, i) \in SlugsOf(en, ru, i)
    BY <1>5 DEF FirstSlug
  <1>. QED
    BY <1>6, <1>7, SlugsOfType

(* The rows as the session leaves them *)

LEMMA LeftType ==
    ASSUME CategoriesAssumption, TypeOK, NEW en \in Cms, NEW ru \in Cms, NEW i \in Present
    PROVE  /\ i \in Ids /\ rows[i] \in Row
           /\ Renamed(en, ru, i) \in Slugs
           /\ Merged(en, ru, i) \in SUBSET Slugs
           /\ StaysActive(en, ru, i) \in BOOLEAN
           /\ IdAfter(en, ru, i) \in Ids
  <1>1. i \in Ids /\ rows[i] \in Row
    BY DEF Present, TypeOK
  <1>2. rows[i].slug \in Slugs /\ rows[i].aliases \in SUBSET Slugs /\ rows[i].active \in BOOLEAN
    BY <1>1 DEF Row
  <1>3. Renamed(en, ru, i) \in Slugs
    BY <1>1, <1>2, FirstAndLast DEF Renamed
  <1>4. \A s : StaticOf(s) \in SUBSET Slugs
    BY DEF StaticOf, CategoriesAssumption
  <1>5. Merged(en, ru, i) \in SUBSET Slugs
    <2>. DEFINE old == rows[i].slug first == FirstSlug(en, ru, i) last == LastSlug(en, ru, i)
    <2>1. CASE Named(en, ru, i)
      <3>1. first \in Slugs
        BY <1>1, <2>1, FirstAndLast
      <3>2. UNION {StaticOf(first), StaticOf(last), {old} \ {first}, {first} \ {last}} \in SUBSET Slugs
        BY <3>1, <1>2, <1>4
      <3>3. (IF Takers(en, ru, i) # {} THEN StaticOf(old) ELSE {}) \in SUBSET Slugs
        BY <1>4
      <3>. QED
        BY <3>2, <3>3, <1>2, <2>1 DEF Merged
    <2>2. CASE ~Named(en, ru, i)
      <3>3. (IF Takers(en, ru, i) # {} THEN StaticOf(old) ELSE {}) \in SUBSET Slugs
        BY <1>4
      <3>. QED
        BY <3>3, <1>2, <2>2 DEF Merged
    <2>. QED
      BY <2>1, <2>2
  <1>6. StaysActive(en, ru, i) \in BOOLEAN
    BY DEF StaysActive
  <1>7. IdAfter(en, ru, i) \in Ids
    BY <1>1 DEF IdAfter, Takers
  <1>. QED
    BY <1>1, <1>3, <1>5, <1>6, <1>7

Column(S) == S \cup {None}
Update == Column(Ids) \X Column(Slugs) \X ({None} \cup SUBSET Slugs) \X (BOOLEAN \cup {None})

LEMMA UpdatesType ==
    ASSUME CategoriesAssumption, TypeOK, NEW en \in Cms, NEW ru \in Cms
    PROVE  Updates(en, ru) \in [Ids -> Update]
  <1>. SUFFICES ASSUME NEW i \in Ids
                PROVE  Updates(en, ru)[i] \in Update
    BY DEF Updates
  <1>1. CASE i \notin Present
    <2>1. Updates(en, ru)[i] = NoChange
      BY <1>1 DEF Updates, NoChange
    <2>. QED
      BY <2>1 DEF Update, Column, NoChange
  <1>2. CASE i \in Present
    <2>1. Diff(i, IdAfter(en, ru, i)) \in Column(Ids)
      BY <1>2, LeftType DEF Diff, Column
    <2>2. Diff(rows[i].slug, Renamed(en, ru, i)) \in Column(Slugs)
      BY <1>2, LeftType DEF Diff, Column
    <2>3. Diff(rows[i].aliases, Merged(en, ru, i)) \in {None} \cup SUBSET Slugs
      BY <1>2, LeftType DEF Diff
    <2>4. Diff(rows[i].active, StaysActive(en, ru, i)) \in BOOLEAN \cup {None}
      BY <1>2, LeftType DEF Diff
    <2>5. Updates(en, ru)[i] =
              <<Diff(i, IdAfter(en, ru, i)), Diff(rows[i].slug, Renamed(en, ru, i)),
                Diff(rows[i].aliases, Merged(en, ru, i)),
                Diff(rows[i].active, StaysActive(en, ru, i))>>
      BY <1>2 DEF Updates
    <2>. QED
      BY <2>1, <2>2, <2>3, <2>4, <2>5 DEF Update
  <1>. QED
    BY <1>1, <1>2

LEMMA InsertsType ==
    ASSUME CategoriesAssumption, TypeOK, NEW en \in Cms, NEW ru \in Cms
    PROVE  Inserts(en, ru) \in [Ids -> Column(Slugs)]
  <1>1. \A k \in Created(en, ru) : LastSlug(en, ru, k) \in Slugs
    BY FirstAndLast DEF Created
  <1>2. \A k \in DOMAIN Bootstrap : Bootstrap[k] \in Slugs
    BY DEF CategoriesAssumption
  <1>. QED
    BY <1>1, <1>2 DEF Inserts, Column

LEMMA BootViewType ==
    ASSUME CategoriesAssumption
    PROVE  Seeing(BootView) /\ BootView # {}
  <1>1. \A i \in DOMAIN Bootstrap : Bootstrap[i] \in Slugs
    BY DEF CategoriesAssumption
  <1>2. \A s : StaticOf(s) \in SUBSET Slugs
    BY DEF StaticOf, CategoriesAssumption
  <1>3. \A i \in DOMAIN Bootstrap : Entry(Bootstrap[i], Bootstrap[i], StaticOf(Bootstrap[i])) \in Meaning
    BY <1>1, <1>2 DEF Entry, Meaning
  <1>4. DOMAIN Bootstrap # {}
    BY DEF CategoriesAssumption
  <1>. QED
    BY <1>3, <1>4 DEF BootView, Seeing

LEMMA ViewType ==
    ASSUME CategoriesAssumption, TypeOK, Active # {}
    PROVE  Seeing(View) /\ View # {}
  <1>1. \A i \in Active : rows[i].slug \in Slugs /\ rows[i].aliases \in SUBSET Slugs
    BY DEF TypeOK, Active, Present, Row
  <1>2. \A i \in Active : Entry(rows[i].slug, rows[i].slug, rows[i].aliases) \in Meaning
    BY <1>1 DEF Entry, Meaning
  <1>. QED
    BY <1>2 DEF View, Seeing

LEMMA SessionViewType ==
    ASSUME CategoriesAssumption, TypeOK, NEW en \in Cms, NEW ru \in Cms, Active # {}
    PROVE  Seeing(SessionView(en, ru)) /\ SessionView(en, ru) # {}
  <1>1. \A i \in Active : rows[i].slug \in Slugs
    BY DEF TypeOK, Active, Present, Row
  <1>2. \A i \in Active : Renamed(en, ru, i) \in Slugs /\ Merged(en, ru, i) \in SUBSET Slugs
    BY LeftType DEF Active
  <1>3. \A i \in Active :
            Entry(rows[i].slug, Renamed(en, ru, i), Merged(en, ru, i)) \in Meaning
    BY <1>1, <1>2 DEF Entry, Meaning
  <1>. QED
    BY <1>3 DEF SessionView, Seeing

LEMMA FlushedViewType ==
    ASSUME CategoriesAssumption, TypeOK, NEW en \in Cms, NEW ru \in Cms
    PROVE  Seeing(FlushedView(en, ru)) /\ FlushedView(en, ru) # {}
  <1>1. \A i \in Present : Renamed(en, ru, i) \in Slugs /\ Merged(en, ru, i) \in SUBSET Slugs
    BY LeftType
  <1>2. \A k \in Created(en, ru) : LastSlug(en, ru, k) \in Slugs
    BY FirstAndLast DEF Created
  <1>3. \A s : StaticOf(s) \in SUBSET Slugs
    BY DEF StaticOf, CategoriesAssumption
  <1>4. \A i \in Present :
            Entry(Renamed(en, ru, i), Renamed(en, ru, i), Merged(en, ru, i)) \in Meaning
    BY <1>1 DEF Entry, Meaning
  <1>5. \A k \in Created(en, ru) :
            Entry(LastSlug(en, ru, k), LastSlug(en, ru, k), StaticOf(LastSlug(en, ru, k))) \in Meaning
    BY <1>2, <1>3 DEF Entry, Meaning
  <1>. QED
    BY <1>4, <1>5, BootViewType DEF FlushedView, Seeing

LEMMA ReconciledType ==
    ASSUME CategoriesAssumption, TypeOK, NEW en \in Cms, NEW ru \in Cms
    PROVE  Reconciled(en, ru) \in [Drafts -> Column(Slugs)]
  <1>. DEFINE view == IF Boots THEN FlushedView(en, ru) ELSE SessionView(en, ru)
  <1>1. ASSUME NEW d \in Drafts, pending[d] # None
        PROVE  Resolve(view, pending[d], Hints[d]) \in Slugs
    <2>1. ~Boots => Active # {}
      BY <1>1 DEF Boots
    <2>2. Seeing(view) /\ view # {}
      BY <2>1, FlushedViewType, SessionViewType
    <2>3. Hints[d] \in Seq(Slugs)
      BY DEF CategoriesAssumption
    <2>. HIDE DEF view
    <2>. QED
      BY <2>2, <2>3, ResolveType
  <1>. HIDE DEF view
  <1>2. Reconciled(en, ru) = [d \in Drafts |-> IF pending[d] = None THEN None
                                  ELSE Diff(pending[d], Resolve(view, pending[d], Hints[d]))]
    BY DEF Reconciled, view
  <1>. QED
    BY <1>1, <1>2 DEF Diff, Column

-----------------------------------------------------------------------------
(* Types *)

LEMMA OffType ==
    Off \in Session
  <1>1. NoChange \in Update
    BY DEF NoChange, Update, Column
  <1>2. NoCms \in Cms /\ NoCms \in [Ids -> Column(Slugs)] /\ NoCms \in [Ids -> Column(Row)]
    BY DEF NoCms, Cms, Column
  <1>3. [i \in Ids |-> NoChange] \in [Ids -> Update]
    BY <1>1
  <1>4. [d \in Drafts |-> None] \in [Drafts -> Column(Slugs)]
    BY DEF Column
  <1>. QED
    BY <1>2, <1>3, <1>4 DEF Off, Session, NoChange, Update, Column

LEMMA ReadType ==
    ASSUME CategoriesAssumption, TypeOK, NEW p \in Syncs, SyncReads(p)
    PROVE  sync'[p] \in Session
  <1>. DEFINE en == sync[p].en
  <1>1. en \in Cms /\ cms \in Cms
    BY DEF TypeOK, Session
  <1>3. sync'[p] = [step |-> "flushing", en |-> en, ru |-> cms,
            updates |-> Updates(en, cms), inserts |-> Inserts(en, cms),
            doomed |-> TwoRows(en, cms) \/ Clash(en, cms),
            loaded |-> rows, found |-> pending, slugs |-> Reconciled(en, cms)]
    BY DEF SyncReads, TypeOK
  <1>. HIDE DEF en
  <1>5. Updates(en, cms) \in [Ids -> Update]
    BY <1>1, UpdatesType
  <1>6. Inserts(en, cms) \in [Ids -> Column(Slugs)]
    BY <1>1, InsertsType
  <1>7. Reconciled(en, cms) \in [Drafts -> Column(Slugs)]
    BY <1>1, ReconciledType
  <1>8. (TwoRows(en, cms) \/ Clash(en, cms)) \in BOOLEAN
    OBVIOUS
  <1>9. rows \in [Ids -> Row \cup {None}] /\ pending \in [Drafts -> Slugs \cup {None}]
    BY DEF TypeOK
  <1>. QED
    BY <1>1, <1>3, <1>5, <1>6, <1>7, <1>8, <1>9 DEF Session, Update, Column

LEMMA WrittenType ==
    ASSUME CategoriesAssumption, TypeOK, NEW p \in Syncs, NEW i \in Present
    PROVE  Written(p, i) \in Row
  <1>0. i \in Ids
    BY DEF Present
  <1>1. sync[p].updates[i] \in Update
    <2>1. sync[p] \in Session
      BY DEF TypeOK
    <2>2. sync[p].updates \in [Ids -> Update]
      BY <2>1 DEF Session, Update, Column
    <2>. QED
      BY <1>0, <2>2
  <1>2. rows[i] \in Row
    BY <1>0 DEF TypeOK, Present
  <1>. DEFINE u == sync[p].updates[i]
  <1>3. u[2] \in Column(Slugs) /\ u[3] \in {None} \cup SUBSET Slugs /\ u[4] \in BOOLEAN \cup {None}
    BY <1>1 DEF Update
  <1>4. Or(u[2], rows[i].slug) \in Slugs
    BY <1>2, <1>3 DEF Or, Row, Column
  <1>5. Or(u[3], rows[i].aliases) \in SUBSET Slugs
    BY <1>2, <1>3 DEF Or, Row
  <1>6. Or(u[4], rows[i].active) \in BOOLEAN
    BY <1>2, <1>3 DEF Or, Row
  <1>. QED
    BY <1>4, <1>5, <1>6 DEF Written, Row

LEMMA NewRowsType ==
    ASSUME CategoriesAssumption, TypeOK, NEW p \in Syncs, ~Conflict(p)
    PROVE  NewRows(p) \in [Ids -> Row \cup {None}]
  <1>1. Moved(p) \subseteq Present
    BY DEF Conflict, Moved, Updated
  <1>2. \A i \in Present : Written(p, i) \in Row
    BY WrittenType
  <1>3. \A j \in Ids : (\E i \in Moved(p) : Target(p, i) = j) =>
            Mover(p, j) \in Present
    BY <1>1 DEF Mover
  <1>4. \A s : StaticOf(s) \in SUBSET Slugs
    BY DEF StaticOf, CategoriesAssumption
  <1>5. \A j \in Inserted(p) :
            [slug |-> sync[p].inserts[j], aliases |-> StaticOf(sync[p].inserts[j]), active |-> TRUE] \in Row
    BY <1>4 DEF Inserted, TypeOK, Session, Row
  <1>6. ASSUME NEW j \in Ids
        PROVE  NewRows(p)[j] \in Row \cup {None}
    <2>1. (\E i \in Moved(p) : Target(p, i) = j) => Written(p, Mover(p, j)) \in Row
      BY <1>2, <1>3
    <2>2. j \in Present \ Moved(p) => Written(p, j) \in Row
      BY <1>2
    <2>. QED
      BY <2>1, <2>2, <1>5 DEF NewRows
  <1>. QED
    BY <1>6 DEF NewRows

LEMMA InitTypes ==
    ASSUME CategoriesAssumption, Init
    PROVE  TypeOK
  <1>1. rows \in [Ids -> Row \cup {None}]
    BY DEF Init, NoCms
  <1>2. sync \in [Syncs -> Session]
    BY OffType DEF Init
  <1>3. changes \in 0..MaxChanges
    BY DEF Init, CategoriesAssumption
  <1>4. writing \in [Drafts -> [slug: Slugs \cup {None}, boot: BOOLEAN]]
    BY DEF Init, Idle
  <1>. QED
    BY <1>1, <1>2, <1>3, <1>4 DEF Init, TypeOK

LEMMA NextTypes ==
    ASSUME CategoriesAssumption, TypeOK, [Next]_vars
    PROVE  TypeOK'
  <1>1. ASSUME NEW i \in Ids, NEW s \in Slugs \cup {None}, CmsChanges(i, s)
        PROVE  TypeOK'
    <2>1. cms' \in Cms
      BY <1>1 DEF CmsChanges, TypeOK, Cms
    <2>2. changes' \in 0..MaxChanges
      BY <1>1 DEF CmsChanges, TypeOK, CategoriesAssumption
    <2>. QED
      BY <1>1, <2>1, <2>2 DEF CmsChanges, TypeOK
  <1>2. ASSUME NEW d \in Drafts, DraftResolves(d)
        PROVE  TypeOK'
    <2>. DEFINE boot == Active = {}
                view == IF boot THEN BootView ELSE View
                w == [slug |-> Resolve(view, Suggested[d], Hints[d]), boot |-> boot]
    <2>1. Seeing(view) /\ view # {}
      BY BootViewType, ViewType
    <2>2. Resolve(view, Suggested[d], Hints[d]) \in Slugs
      <3>1. Hints[d] \in Seq(Slugs)
        BY DEF CategoriesAssumption
      <3>. HIDE DEF view
      <3>. QED
        BY <2>1, <3>1, ResolveType
    <2>3. writing' = [writing EXCEPT ![d] = w]
      BY <1>2 DEF DraftResolves
    <2>4. w \in [slug: Slugs \cup {None}, boot: BOOLEAN]
      BY <2>2
    <2>. HIDE DEF w
    <2>5. writing' \in [Drafts -> [slug: Slugs \cup {None}, boot: BOOLEAN]]
      BY <2>3, <2>4 DEF TypeOK
    <2>. QED
      BY <1>2, <2>5 DEF DraftResolves, TypeOK
  <1>3. ASSUME NEW d \in Drafts, DraftCommits(d)
        PROVE  TypeOK'
    <2>1. \A i \in DOMAIN Bootstrap : BootRow(i) \in Row
      BY DEF BootRow, Row, StaticOf, CategoriesAssumption
    <2>2. rows' \in [Ids -> Row \cup {None}]
      BY <1>3, <2>1 DEF DraftCommits, TypeOK
    <2>3. pending' \in [Drafts -> Slugs \cup {None}]
      BY <1>3 DEF DraftCommits, TypeOK
    <2>4. writing' \in [Drafts -> [slug: Slugs \cup {None}, boot: BOOLEAN]]
      BY <1>3 DEF DraftCommits, TypeOK, Idle
    <2>. QED
      BY <1>3, <2>2, <2>3, <2>4 DEF DraftCommits, TypeOK
  <1>4. ASSUME NEW d \in Drafts, DraftFails(d)
        PROVE  TypeOK'
    <2>1. writing' \in [Drafts -> [slug: Slugs \cup {None}, boot: BOOLEAN]]
      BY <1>4 DEF DraftFails, TypeOK, Idle
    <2>. QED
      BY <1>4, <2>1 DEF DraftFails, TypeOK
  <1>5. ASSUME NEW p \in Syncs, SyncStarts(p)
        PROVE  TypeOK'
    <2>1. [Off EXCEPT !.step = "fetching", !.en = cms] \in Session
      BY OffType DEF TypeOK, Session
    <2>2. sync' \in [Syncs -> Session]
      BY <1>5, <2>1 DEF SyncStarts, TypeOK
    <2>. QED
      BY <1>5, <2>2 DEF SyncStarts, TypeOK
  <1>6. ASSUME NEW p \in Syncs, SyncReads(p)
        PROVE  TypeOK'
    <2>1. \A q \in Syncs \ {p} : sync'[q] = sync[q]
      BY <1>6 DEF SyncReads, TypeOK
    <2>2. sync' = [q \in Syncs |-> sync'[q]]
      BY <1>6 DEF SyncReads, TypeOK
    <2>3. sync' \in [Syncs -> Session]
      BY <1>6, <2>1, <2>2, ReadType DEF TypeOK
    <2>. QED
      BY <1>6, <2>3 DEF SyncReads, TypeOK
  <1>7. ASSUME NEW p \in Syncs, SyncCommits(p)
        PROVE  TypeOK'
    <2>1. rows' \in [Ids -> Row \cup {None}]
      BY <1>7, NewRowsType DEF SyncCommits
    <2>2. sync[p].slugs \in [Drafts -> Slugs \cup {None}]
      BY DEF TypeOK, Session
    <2>3. pending' \in [Drafts -> Slugs \cup {None}]
      BY <1>7, <2>2 DEF SyncCommits, TypeOK, Or
    <2>4. sync' \in [Syncs -> Session]
      BY <1>7, OffType DEF SyncCommits, TypeOK
    <2>. QED
      BY <1>7, <2>1, <2>3, <2>4 DEF SyncCommits, TypeOK
  <1>8. ASSUME NEW p \in Syncs, SyncFails(p)
        PROVE  TypeOK'
    <2>1. sync' \in [Syncs -> Session]
      BY <1>8, OffType DEF SyncFails, TypeOK
    <2>. QED
      BY <1>8, <2>1 DEF SyncFails, TypeOK
  <1>9. CASE ADayPasses
    BY <1>9 DEF ADayPasses, TypeOK
  <1>10. CASE UNCHANGED vars
    BY <1>10 DEF vars, TypeOK
  <1>. QED
    BY <1>1, <1>2, <1>3, <1>4, <1>5, <1>6, <1>7, <1>8, <1>9, <1>10 DEF Next

\* Rows, drafts and sessions hold what the code puts there, whatever the CMS
\* lists and however many synchronisations overlap: in particular a resolution
\* always has a slug to fall back to, and a renamed row a last slug.
THEOREM TypesHold == Spec => []TypeOK
  <1>1. CategoriesAssumption
    BY CategoriesAssumption
  <1>2. Init => TypeOK
    BY <1>1, InitTypes
  <1>3. TypeOK /\ [Next]_vars => TypeOK'
    BY <1>1, NextTypes
  <1>. QED
    BY <1>2, <1>3, PTL DEF Spec

-----------------------------------------------------------------------------
(* Drafts follow their category *)

\* What the session holds right after it has read rows and drafts.
HasRead(s, en, ru) ==
    /\ s.en = en /\ s.ru = ru
    /\ s.updates = Updates(en, ru) /\ s.inserts = Inserts(en, ru) /\ s.loaded = rows
    /\ s.found = pending /\ s.slugs = Reconciled(en, ru)

LEMMA OrDiff ==
    ASSUME NEW old, NEW new, new # None
    PROVE  Or(Diff(old, new), old) = new
  BY DEF Or, Diff

LEMMA NoneIsOutside ==
    ASSUME CategoriesAssumption
    PROVE  /\ None \notin Ids /\ None \notin Slugs /\ None \notin BOOLEAN
           /\ None \notin SUBSET Slugs /\ None \notin Row
  BY DEF CategoriesAssumption

LEMMA UpdateOfRow ==
    ASSUME NEW en, NEW ru, NEW i \in Present
    PROVE  /\ Updates(en, ru)[i][1] = Diff(i, IdAfter(en, ru, i))
           /\ Updates(en, ru)[i][2] = Diff(rows[i].slug, Renamed(en, ru, i))
           /\ Updates(en, ru)[i][3] = Diff(rows[i].aliases, Merged(en, ru, i))
           /\ Updates(en, ru)[i][4] = Diff(rows[i].active, StaysActive(en, ru, i))
  <1>1. i \in Ids
    BY DEF Present
  <1>2. Updates(en, ru)[i] =
              <<Diff(i, IdAfter(en, ru, i)), Diff(rows[i].slug, Renamed(en, ru, i)),
                Diff(rows[i].aliases, Merged(en, ru, i)),
                Diff(rows[i].active, StaysActive(en, ru, i))>>
    BY <1>1 DEF Updates
  <1>. QED
    BY <1>2

LEMMA NoUpdateOfNone ==
    ASSUME NEW en, NEW ru, NEW i \in Ids \ Present
    PROVE  Updates(en, ru)[i] = NoChange
  BY DEF Updates, NoChange

LEMMA WroteRow ==
    ASSUME CategoriesAssumption, TypeOK, NEW en \in Cms, NEW ru \in Cms, NEW s, HasRead(s, en, ru),
           NEW i \in Present
    PROVE  /\ Wrote(s, i).slug = Renamed(en, ru, i)
           /\ Wrote(s, i).aliases = Merged(en, ru, i)
           /\ Wrote(s, i).active = StaysActive(en, ru, i)
           /\ Wrote(s, i) # None
  <1>1. /\ Renamed(en, ru, i) # None /\ Merged(en, ru, i) # None /\ StaysActive(en, ru, i) # None
    BY LeftType, NoneIsOutside
  <1>2. Wrote(s, i).slug = Or(Diff(rows[i].slug, Renamed(en, ru, i)), rows[i].slug)
    BY UpdateOfRow DEF Wrote, HasRead
  <1>3. Wrote(s, i).aliases = Or(Diff(rows[i].aliases, Merged(en, ru, i)), rows[i].aliases)
    BY UpdateOfRow DEF Wrote, HasRead
  <1>4. Wrote(s, i).active = Or(Diff(rows[i].active, StaysActive(en, ru, i)), rows[i].active)
    BY UpdateOfRow DEF Wrote, HasRead
  <1>5. Wrote(s, i).slug = Renamed(en, ru, i)
    BY <1>1, <1>2, OrDiff
  <1>6. Wrote(s, i).aliases = Merged(en, ru, i)
    BY <1>1, <1>3, OrDiff
  <1>7. Wrote(s, i).active = StaysActive(en, ru, i)
    BY <1>1, <1>4 DEF Or, Diff
  <1>8. Wrote(s, i) \in Row
    BY <1>5, <1>6, <1>7, LeftType DEF Wrote, Row
  <1>. QED
    BY <1>5, <1>6, <1>7, <1>8, NoneIsOutside

LEMMA ReadsOnlyLoaded ==
    ASSUME NEW en, NEW ru, NEW s, HasRead(s, en, ru)
    PROVE  OnlyLoaded(s)
  BY NoUpdateOfNone DEF OnlyLoaded, HasRead, Present

LEMMA ReadsOneTarget ==
    ASSUME CategoriesAssumption, TypeOK, NEW en \in Cms, NEW ru \in Cms, NEW s, HasRead(s, en, ru),
           ~TwoRows(en, ru)
    PROVE  OneTarget(s)
  <1>. SUFFICES ASSUME NEW i \in Ids, NEW j \in Ids, s.updates[i][1] # None,
                       s.updates[i][1] = s.updates[j][1]
                PROVE  i = j
    BY DEF OneTarget
  <1>1. i \in Present /\ j \in Present
    BY NoUpdateOfNone DEF HasRead, NoChange
  <1>2. IdAfter(en, ru, i) # i /\ IdAfter(en, ru, j) # j /\ IdAfter(en, ru, i) = IdAfter(en, ru, j)
    <2>1. s.updates[i][1] = Diff(i, IdAfter(en, ru, i)) /\ s.updates[j][1] = Diff(j, IdAfter(en, ru, j))
      BY <1>1, UpdateOfRow DEF HasRead
    <2>. QED
      BY <2>1 DEF Diff
  <1>3. PICK k : k = IdAfter(en, ru, i)
    OBVIOUS
  <1>4. k \in Takers(en, ru, i) /\ k \in Takers(en, ru, j)
    BY <1>2, <1>3 DEF IdAfter
  <1>5. /\ k \in Ids \ Present /\ rows[i].slug \in SlugsOf(en, ru, k) /\ rows[j].slug \in SlugsOf(en, ru, k)
        /\ RowWith(rows[i].slug) = i /\ RowWith(rows[j].slug) = j
    BY <1>4 DEF Takers
  <1>6. rows[i].slug = rows[j].slug
    <2>. DEFINE S == SlugsOf(en, ru, k)
    <2>1. IsFiniteSet(S)
      BY <1>5, SlugsOfType
    <2>2. Cardinality(S) \in Nat /\ ~(Cardinality(S) > 1)
      BY <1>5, <2>1, FS_CardinalityType DEF TwoRows
    <2>3. Cardinality(S) # 0
      BY <1>5, <2>1, FS_EmptySet
    <2>4. Cardinality(S) = 1
      BY <2>2, <2>3
    <2>5. \E x : S = {x}
      BY <2>1, <2>4, FS_Singleton
    <2>. QED
      BY <1>5, <2>5
  <1>. QED
    BY <1>5, <1>6

\* A row that means a slug to the session means it before or after.
LEMMA SeenMeans ==
    ASSUME CategoriesAssumption, TypeOK, NEW en \in Cms, NEW ru \in Cms, NEW s, HasRead(s, en, ru),
           NEW j \in Active, NEW old,
           \/ old = Renamed(en, ru, j) \/ old \in Merged(en, ru, j)
           \/ old \in StaticOf(Renamed(en, ru, j))
    PROVE  ~Spared(s, j, old)
  <1>1. j \in Present /\ rows[j] # None /\ rows[j].active
    BY DEF Active, Present
  <1>2. s.loaded[j] = rows[j]
    BY DEF HasRead
  <1>3. CASE StaysActive(en, ru, j)
    <2>1. Means(Wrote(s, j), old)
      BY <1>1, <1>3, WroteRow DEF Means
    <2>. QED
      BY <1>1, <1>2, <2>1 DEF Spared
  <1>4. CASE ~StaysActive(en, ru, j)
    <2>1. ~Named(en, ru, j) /\ Takers(en, ru, j) = {}
      BY <1>4 DEF StaysActive
    <2>2. Renamed(en, ru, j) = rows[j].slug
      BY <2>1 DEF Renamed
    <2>3. Merged(en, ru, j) = rows[j].aliases
      BY <2>1 DEF Merged
    <2>4. Means(rows[j], old)
      BY <1>1, <2>2, <2>3 DEF Means
    <2>. QED
      BY <1>1, <1>2, <2>4 DEF Spared
  <1>. QED
    BY <1>3, <1>4

LEMMA ReadsFollow ==
    ASSUME CategoriesAssumption, TypeOK, NEW en \in Cms, NEW ru \in Cms, NEW s, HasRead(s, en, ru)
    PROVE  Follows(s)
  <1>. SUFFICES ASSUME NEW i \in Ids, NEW d \in Drafts,
                       s.loaded[i] # None, s.loaded[i].active, s.updates[i][2] # None,
                       s.found[d] = s.loaded[i].slug,
                       \A j \in Ids \ {i} : Spared(s, j, s.loaded[i].slug)
                PROVE  s.slugs[d] = s.updates[i][2]
    BY DEF Follows
  <1>. DEFINE old == rows[i].slug new == Renamed(en, ru, i) view == SessionView(en, ru)
  <1>1. i \in Active /\ i \in Present /\ pending[d] = old /\ s.loaded[i].slug = old
    BY DEF HasRead, Active, Present
  <1>2. old \in Slugs /\ new \in Slugs /\ old # None /\ new # None
    BY <1>1, LeftType, NoneIsOutside DEF Row
  <1>3. s.updates[i][2] = Diff(old, new)
    BY <1>1, UpdateOfRow DEF HasRead
  <1>4. new # old /\ s.updates[i][2] = new
    BY <1>3 DEF Diff
  <1>5. Named(en, ru, i) /\ new = LastSlug(en, ru, i)
    BY <1>4 DEF Renamed
  <1>6. \A j \in Active \ {i} : /\ old # Renamed(en, ru, j) /\ old \notin Merged(en, ru, j)
                                /\ old \notin StaticOf(Renamed(en, ru, j))
    <2>. SUFFICES ASSUME NEW j \in Active \ {i}
                  PROVE  /\ old # Renamed(en, ru, j) /\ old \notin Merged(en, ru, j)
                         /\ old \notin StaticOf(Renamed(en, ru, j))
      OBVIOUS
    <2>1. Spared(s, j, old)
      BY <1>1 DEF Active, Present
    <2>. QED
      BY <2>1, SeenMeans
  <1>7. old \in Merged(en, ru, i)
    <2>1. old \in ({old} \ {FirstSlug(en, ru, i)}) \cup ({FirstSlug(en, ru, i)} \ {LastSlug(en, ru, i)})
      BY <1>4, <1>5
    <2>. QED
      BY <2>1, <1>5 DEF Merged
  <1>8. Canonical(view, old) = new
    <2>. DEFINE named == {v \in view : old = v[2] \/ old \in v[3]}
                last == CHOOSE v \in named : \A w \in named : v[1] >= w[1]
                entry == Entry(old, new, Merged(en, ru, i))
    <2>1. old \in DOMAIN Static /\ Static[old] \in Allowed(view) => Static[old] = new
      <3>. SUFFICES ASSUME old \in DOMAIN Static, Static[old] \in Allowed(view)
                    PROVE  Static[old] = new
        OBVIOUS
      <3>1. PICK j \in Active : Static[old] = Renamed(en, ru, j)
        BY DEF Allowed, SessionView, Entry
      <3>2. old \in StaticOf(Renamed(en, ru, j))
        BY <3>1 DEF StaticOf
      <3>. QED
        BY <1>6, <3>1, <3>2
    <2>2. entry \in named
      BY <1>1, <1>7 DEF SessionView, Entry
    <2>3. \A v \in named : v = entry
      <3>. SUFFICES ASSUME NEW v \in named
                    PROVE  v = entry
        OBVIOUS
      <3>1. PICK j \in Active : v = Entry(rows[j].slug, Renamed(en, ru, j), Merged(en, ru, j))
        BY DEF SessionView
      <3>2. old = Renamed(en, ru, j) \/ old \in Merged(en, ru, j)
        BY <3>1 DEF Entry
      <3>. QED
        BY <1>6, <3>1, <3>2
    <2>4. entry[1] >= entry[1]
      <3>1. old \in Nat /\ entry[1] = old
        BY <1>2 DEF Entry, CategoriesAssumption
      <3>. QED
        BY <3>1
    <2>5. last = entry /\ named # {}
      <3>. HIDE DEF entry, named
      <3>1. \A w \in named : entry[1] >= w[1]
        BY <2>3, <2>4
      <3>. QED
        BY <2>2, <2>3, <3>1
    <2>6. last[2] = new
      <3>1. entry[2] = new
        BY DEF Entry
      <3>. HIDE DEF entry, named
      <3>. QED
        BY <2>5, <3>1
    <2>7. named # {}
      BY <2>5
    <2>. HIDE DEF last
    <2>8. Canonical(view, old) =
              IF old \in DOMAIN Static /\ Static[old] \in Allowed(view) THEN Static[old]
              ELSE IF named = {} THEN None ELSE last[2]
      BY DEF Canonical, last
    <2>. QED
      BY <2>1, <2>6, <2>7, <2>8
  <1>9. Resolve(view, old, Hints[d]) = new
    BY <1>2, <1>8 DEF Resolve
  <1>10. ~Boots
    BY <1>1 DEF Boots
  <1>11. Reconciled(en, ru)[d] = Diff(old, Resolve(view, old, Hints[d]))
    BY <1>1, <1>2, <1>10 DEF Reconciled
  <1>. QED
    BY <1>4, <1>9, <1>11 DEF HasRead, Diff

LEMMA ReadsFreshIds ==
    ASSUME CategoriesAssumption, TypeOK, NEW en \in Cms, NEW ru \in Cms, NEW s, HasRead(s, en, ru),
           ~Clash(en, ru)
    PROVE  FreshIds(s)
  <1>. SUFFICES ASSUME NEW i \in Ids, NEW k \in Ids, s.updates[i][1] = k
                PROVE  s.inserts[k] = None
    BY DEF FreshIds
  <1>1. i \in Present
    BY NoUpdateOfNone, NoneIsOutside DEF HasRead, NoChange
  <1>2. k = IdAfter(en, ru, i) /\ k # i
    BY <1>1, UpdateOfRow, NoneIsOutside DEF HasRead, Diff
  <1>3. k \in Takers(en, ru, i)
    BY <1>2 DEF IdAfter
  <1>4. k \notin Created(en, ru)
    BY <1>1, <1>3 DEF Takers, Created
  <1>5. ~(Boots /\ k \in DOMAIN Bootstrap)
    BY <1>1, <1>2 DEF Clash
  <1>. QED
    BY <1>4, <1>5 DEF HasRead, Inserts

\* A list that is the same in both locales names every category once.
Once(c) == \A i, j \in Ids : c[i] # None /\ c[i] = c[j] => i = j

LEMMA OneList ==
    ASSUME CategoriesAssumption, NEW c \in Cms, Once(c), NEW i \in Ids
    PROVE  /\ Seen(c, c) = SlugsIn(c)
           /\ SlugsOf(c, c, i) = {c[i]} \ {None}
           /\ c[i] # None => LastSlug(c, c, i) = c[i]
  <1>1. Seen(c, c) = SlugsIn(c)
    BY DEF Seen
  <1>2. \A s \in SlugsIn(c) : IdOf(c, c, s) \in Ids /\ c[IdOf(c, c, s)] = s
    BY DEF SlugsIn, IdOf, Holder
  <1>3. SlugsOf(c, c, i) = {c[i]} \ {None}
    <2>1. ASSUME NEW s \in SlugsOf(c, c, i)
          PROVE  s = c[i] /\ s # None
      BY <1>1, <1>2, <2>1 DEF SlugsOf, SlugsIn
    <2>2. ASSUME c[i] # None
          PROVE  c[i] \in SlugsOf(c, c, i)
      <3>1. c[i] \in SlugsIn(c)
        BY <2>2 DEF SlugsIn
      <3>2. IdOf(c, c, c[i]) = i
        BY <1>2, <2>2, <3>1 DEF Once
      <3>. QED
        BY <1>1, <3>1, <3>2 DEF SlugsOf
    <2>. QED
      BY <2>1, <2>2
  <1>4. c[i] # None => LastSlug(c, c, i) = c[i]
    BY <1>3, FirstAndLast DEF Named
  <1>. QED
    BY <1>1, <1>3, <1>4

\* A row that is left active has a slug of the list.
LEMMA LeavesListed ==
    ASSUME CategoriesAssumption, TypeOK, NEW c \in Cms, Once(c),
           NEW i \in Present, StaysActive(c, c, i)
    PROVE  Renamed(c, c, i) \in SlugsIn(c)
  <1>1. i \in Ids
    BY DEF Present
  <1>2. CASE Named(c, c, i)
    <2>1. LastSlug(c, c, i) \in Seen(c, c)
      BY <1>1, <1>2, FirstAndLast DEF SlugsOf
    <2>. QED
      BY <1>1, <1>2, <2>1, OneList DEF Renamed
  <1>3. CASE ~Named(c, c, i)
    <2>1. Renamed(c, c, i) = rows[i].slug
      BY <1>3 DEF Renamed
    <2>2. rows[i].slug \in Seen(c, c)
      BY <1>3 DEF StaysActive, Takers, SlugsOf
    <2>. QED
      BY <1>1, <2>1, <2>2, OneList
  <1>. QED
    BY <1>2, <1>3

LEMMA ReadsAgree ==
    ASSUME CategoriesAssumption, TypeOK, NEW c \in Cms, Once(c), NEW s, HasRead(s, c, c), Calm(s)
    PROVE  LeftSlugs(s) = SlugsIn(c)
  <1>1. ~Boots
    BY DEF Calm, FoundRows, HasRead, Boots, Active, Present
  <1>2. \A k \in Created(c, c) : k \in Ids /\ c[k] # None /\ s.inserts[k] = c[k]
    <2>. SUFFICES ASSUME NEW k \in Created(c, c)
                  PROVE  k \in Ids /\ c[k] # None /\ s.inserts[k] = c[k]
      OBVIOUS
    <2>1. k \in Ids /\ SlugsOf(c, c, k) # {}
      BY DEF Created, Named
    <2>2. c[k] # None /\ LastSlug(c, c, k) = c[k]
      BY <2>1, OneList
    <2>. QED
      BY <1>1, <2>1, <2>2 DEF HasRead, Inserts
  <1>3. \A k \in Ids \ Created(c, c) : s.inserts[k] = None
    BY <1>1 DEF HasRead, Inserts
  <1>4. \A i \in Present : /\ i \in Ids /\ s.loaded[i] = rows[i] /\ s.loaded[i] # None
                            /\ Wrote(s, i).slug = Renamed(c, c, i)
                            /\ Wrote(s, i).active = StaysActive(c, c, i)
    BY WroteRow DEF HasRead, Present
  <1>5. \A i \in Ids : s.loaded[i] # None => i \in Present
    BY DEF HasRead, Present
  <1>6. ASSUME NEW t \in LeftSlugs(s)
        PROVE  t \in SlugsIn(c)
    <2>1. ASSUME NEW i \in LeftActive(s), t = Wrote(s, i).slug
          PROVE  t \in SlugsIn(c)
      <3>1. i \in Present /\ StaysActive(c, c, i)
        BY <1>4, <1>5 DEF LeftActive
      <3>. QED
        BY <1>4, <2>1, <3>1, LeavesListed
    <2>2. ASSUME NEW k \in Ids, t = s.inserts[k], t # None
          PROVE  t \in SlugsIn(c)
      <3>1. t = c[k]
        BY <1>2, <1>3, <2>2
      <3>. QED
        BY <2>2, <3>1 DEF SlugsIn
    <2>. QED
      BY <1>6, <2>1, <2>2 DEF LeftSlugs
  <1>7. ASSUME NEW i \in Present, StaysActive(c, c, i)
        PROVE  Renamed(c, c, i) \in LeftSlugs(s)
    <2>1. i \in LeftActive(s)
      BY <1>4, <1>7 DEF LeftActive
    <2>. QED
      BY <1>4, <2>1 DEF LeftSlugs
  <1>8. ASSUME NEW t \in SlugsIn(c)
        PROVE  t \in LeftSlugs(s)
    <2>1. PICK i \in Ids : c[i] = t /\ t # None
      BY <1>8 DEF SlugsIn
    <2>2. /\ t \in SlugsOf(c, c, i) /\ \A x \in SlugsOf(c, c, i) : x = t
          /\ LastSlug(c, c, i) = t /\ Named(c, c, i)
      <3>1. SlugsOf(c, c, i) = {c[i]} \ {None} /\ (c[i] # None => LastSlug(c, c, i) = c[i])
        BY OneList
      <3>. QED
        BY <2>1, <3>1 DEF Named
    <2>3. CASE i \in Present
      <3>1. StaysActive(c, c, i) /\ Renamed(c, c, i) = t
        BY <2>2 DEF StaysActive, Renamed
      <3>. QED
        BY <1>7, <2>3, <3>1
    <2>4. CASE i \notin Present /\ \E j \in Present : rows[j].slug = t
      <3>. DEFINE S == {j \in Present : rows[j].slug = t}
                  j == RowWith(t)
      <3>1. S \in SUBSET Nat /\ S # {}
        BY <2>4 DEF Present, CategoriesAssumption
      <3>2. j \in S
        BY <3>1, LowestIsLeast DEF RowWith
      <3>. HIDE DEF j
      <3>3. i \in Takers(c, c, j)
        <4>1. RowWith(rows[j].slug) = j
          BY <3>2 DEF j
        <4>. QED
          BY <2>1, <2>2, <2>4, <3>2, <4>1 DEF Takers
      <3>4. c[j] = None
        <4>1. s.loaded[i] = None /\ s.loaded[j] # None /\ s.loaded[j].slug = t /\ j \in Ids
          BY <1>4, <2>1, <2>4, <3>2 DEF HasRead, Present
        <4>2. s.ru = c
          BY DEF HasRead
        <4>. QED
          BY <2>1, <4>1, <4>2 DEF Calm, EntangledIn
      <3>5. Renamed(c, c, j) = t
        <4>1. SlugsOf(c, c, j) = {c[j]} \ {None}
          BY <1>4, <3>2, OneList
        <4>2. ~Named(c, c, j)
          BY <3>4, <4>1 DEF Named
        <4>. QED
          BY <3>2, <4>2 DEF Renamed
      <3>. QED
        BY <1>7, <3>2, <3>3, <3>5 DEF StaysActive
    <2>5. CASE i \notin Present /\ ~\E j \in Present : rows[j].slug = t
      <3>1. i \in Created(c, c)
        BY <2>1, <2>2, <2>5 DEF Created
      <3>. QED
        BY <1>2, <2>1, <3>1 DEF LeftSlugs
    <2>. QED
      BY <2>3, <2>4, <2>5
  <1>. QED
    BY <1>6, <1>8

LEMMA ReadIsSound ==
    ASSUME CategoriesAssumption, TypeOK, Distinct, NEW p \in Syncs, SyncReads(p)
    PROVE  Sound(sync'[p])
  <1>. DEFINE en == sync[p].en
  <1>1. en \in Cms /\ cms \in Cms
    BY DEF TypeOK, Session
  <1>2. HasRead(sync'[p], en, cms) /\ sync'[p].doomed = (TwoRows(en, cms) \/ Clash(en, cms))
    BY DEF SyncReads, TypeOK, HasRead
  <1>. HIDE DEF en
  <1>3. Agrees(sync'[p])
    <2>1. sync'[p].en = en /\ sync'[p].ru = cms
      BY <1>2 DEF HasRead
    <2>2. Once(cms)
      BY DEF Once, Distinct
    <2>3. Calm(sync'[p]) => en = cms
      BY <2>1 DEF Calm
    <2>. QED
      BY <1>1, <1>2, <2>1, <2>2, <2>3, ReadsAgree DEF Agrees
  <1>. QED
    BY <1>1, <1>2, <1>3, ReadsOnlyLoaded, ReadsOneTarget, ReadsFollow, ReadsFreshIds DEF Sound

LEMMA InitSound ==
    ASSUME CategoriesAssumption, Init
    PROVE  SessionInv
  <1>1. Distinct
    BY DEF Init, Distinct
  <1>. QED
    BY <1>1, InitTypes DEF Init, SessionInv, Sound, Off

LEMMA NextSound ==
    ASSUME CategoriesAssumption, SessionInv, [Next]_vars
    PROVE  SessionInv'
  <1>1. TypeOK /\ TypeOK' /\ Distinct
    BY NextTypes DEF SessionInv
  <1>0. Distinct'
    <2>1. ASSUME NEW i \in Ids, NEW s \in Slugs \cup {None}, CmsChanges(i, s)
          PROVE  Distinct'
      <3>1. s = None \/ \A j \in Ids : cms[j] # s
        BY <2>1 DEF CmsChanges, CmsSlugs
      <3>2. cms' = [cms EXCEPT ![i] = s]
        BY <2>1 DEF CmsChanges
      <3>. QED
        BY <1>1, <3>1, <3>2 DEF Distinct, TypeOK, Cms
    <2>2. CASE cms' = cms
      BY <1>1, <2>2 DEF Distinct
    <2>. QED
      BY <2>1, <2>2 DEF Next, DraftResolves, DraftCommits, DraftFails, SyncStarts, SyncReads,
                        SyncCommits, SyncFails, ADayPasses, vars
  <1>2. ASSUME NEW q \in Syncs, sync'[q] = sync[q] \/ sync'[q].step # "flushing"
        PROVE  Sound(sync'[q])
    <2>1. Sound(sync[q])
      BY DEF SessionInv
    <2>. QED
      BY <1>2, <2>1 DEF Sound
  <1>3. ASSUME NEW p \in Syncs, SyncReads(p)
        PROVE  SessionInv'
    <2>1. \A q \in Syncs \ {p} : sync'[q] = sync[q]
      BY <1>1, <1>3 DEF SyncReads, TypeOK
    <2>2. \A q \in Syncs : Sound(sync'[q])
      BY <1>1, <1>2, <1>3, <2>1, ReadIsSound
    <2>. QED
      BY <1>0, <1>1, <2>2 DEF SessionInv
  <1>4. ASSUME NEW p \in Syncs, SyncStarts(p) \/ SyncCommits(p) \/ SyncFails(p)
        PROVE  \A q \in Syncs : sync'[q] = sync[q] \/ sync'[q].step # "flushing"
    <2>1. \A q \in Syncs \ {p} : sync'[q] = sync[q]
      BY <1>1, <1>4 DEF SyncStarts, SyncCommits, SyncFails, TypeOK
    <2>2. SyncStarts(p) => sync'[p].step = "fetching"
      BY <1>1 DEF SyncStarts, TypeOK, Off
    <2>3. SyncCommits(p) \/ SyncFails(p) => sync'[p].step = "off"
      BY <1>1 DEF SyncCommits, SyncFails, TypeOK, Off
    <2>. QED
      BY <1>4, <2>1, <2>2, <2>3
  <1>5. ASSUME sync' = sync \/ \E p \in Syncs : SyncStarts(p) \/ SyncCommits(p) \/ SyncFails(p)
        PROVE  SessionInv'
    <2>1. \A q \in Syncs : Sound(sync'[q])
      BY <1>2, <1>4, <1>5
    <2>. QED
      BY <1>0, <1>1, <2>1 DEF SessionInv
  <1>. QED
    BY <1>3, <1>5 DEF Next, CmsChanges, DraftResolves, DraftCommits, DraftFails, ADayPasses, vars

\* What a commit leaves of a row it had loaded, and where.
LEMMA CommitLeaves ==
    ASSUME SessionInv, NEW p \in Syncs, SyncCommits(p), UpToDate(p),
           NEW j \in Ids, sync[p].loaded[j] # None
    PROVE  /\ rows[j] = sync[p].loaded[j] /\ Written(p, j) = Wrote(sync[p], j)
           /\ j \notin Moved(p) => rows'[j] = Written(p, j)
           /\ j \in Moved(p) => /\ Target(p, j) \in Ids \ Present
                                /\ rows'[Target(p, j)] = Written(p, j)
  <1>1. rows' = NewRows(p) /\ ~Conflict(p) /\ OneTarget(sync[p]) /\ TypeOK
    BY DEF SyncCommits, SessionInv, Sound, Conflict
  <1>2. rows[j] = sync[p].loaded[j] /\ j \in Present
    BY DEF UpToDate, Present
  <1>3. Written(p, j) = Wrote(sync[p], j)
    BY <1>2 DEF Written, Wrote
  <1>4. \A i \in Moved(p) : Target(p, i) \notin Present
    BY <1>1 DEF Conflict
  <1>5. ASSUME j \notin Moved(p)
        PROVE  rows'[j] = Written(p, j)
    <2>1. ~\E i \in Moved(p) : Target(p, i) = j
      BY <1>2, <1>4
    <2>2. j \notin Inserted(p)
      BY <1>1, <1>2, <1>5 DEF Conflict
    <2>3. j \in Present \ Moved(p)
      BY <1>2, <1>5
    <2>. QED
      BY <1>1, <2>1, <2>2, <2>3 DEF NewRows
  <1>6. ASSUME j \in Moved(p)
        PROVE  Target(p, j) \in Ids \ Present /\ rows'[Target(p, j)] = Written(p, j)
    <2>. DEFINE k == Target(p, j)
                mover == Mover(p, k)
    <2>1. k \in Ids
      <3>1. sync[p] \in Session
        BY <1>1 DEF TypeOK
      <3>2. sync[p].updates \in [Ids -> Update]
        BY <3>1 DEF Session, Update, Column
      <3>3. sync[p].updates[j][1] \in Column(Ids)
        BY <3>2 DEF Update
      <3>. QED
        BY <3>3, <1>6 DEF Moved, Target, Column
    <2>2. mover \in Moved(p) /\ Target(p, mover) = k
      BY <1>6 DEF Mover
    <2>3. mover = j
      BY <1>1, <1>6, <2>2 DEF OneTarget, Moved, Target
    <2>4. rows'[k] = Written(p, mover)
      <3>1. \E i \in Moved(p) : Target(p, i) = k
        BY <1>6
      <3>. HIDE DEF k
      <3>2. NewRows(p)[k] = Written(p, mover)
        BY <2>1, <3>1 DEF NewRows, mover
      <3>. QED
        BY <1>1, <3>2
    <2>. QED
      BY <1>4, <1>6, <2>1, <2>3, <2>4
  <1>. QED
    BY <1>2, <1>3, <1>5, <1>6

\* The conjuncts of RenameFollows, for one synchronisation and one row.
Renames(p, i) == sync[p].updates[i][2] # None /\ SyncCommits(p) /\ UpToDate(p)
OnlyMeaning(i) ==
    \A j \in Ids \ {i} : ~Means(rows[j], rows[i].slug) /\ ~Means(rows'[j], rows[i].slug)

LEMMA CommitFollows ==
    ASSUME CategoriesAssumption, SessionInv, NEW p \in Syncs, NEW i \in Active,
           Renames(p, i), OnlyMeaning(i),
           NEW d \in Drafts, pending[d] = rows[i].slug, sync[p].found[d] = pending[d]
    PROVE  pending'[d] = sync[p].updates[i][2]
  <1>1. /\ SyncCommits(p) /\ UpToDate(p) /\ sync[p].updates[i][2] # None
        /\ OnlyLoaded(sync[p]) /\ Follows(sync[p])
    BY DEF Renames, SyncCommits, SessionInv, Sound, Conflict
  <1>2. i \in Ids /\ i \in Present /\ rows[i].active
    BY DEF Active, Present
  <1>3. sync[p].loaded[i] # None
    BY <1>1, <1>2 DEF OnlyLoaded, NoChange
  <1>4. sync[p].loaded[i] = rows[i]
    BY <1>1, <1>2, <1>3 DEF UpToDate
  <1>5. ASSUME NEW j \in Ids \ {i}, sync[p].loaded[j] # None
        PROVE  Spared(sync[p], j, rows[i].slug)
    <2>1. /\ rows[j] = sync[p].loaded[j] /\ Written(p, j) = Wrote(sync[p], j)
          /\ j \notin Moved(p) => rows'[j] = Written(p, j)
          /\ j \in Moved(p) => /\ Target(p, j) \in Ids \ Present
                               /\ rows'[Target(p, j)] = Written(p, j)
      BY <1>1, <1>5, CommitLeaves
    <2>2. \E k \in Ids \ {i} : rows'[k] = Wrote(sync[p], j)
      BY <1>2, <1>5, <2>1
    <2>. QED
      BY <2>1, <2>2 DEF Spared, OnlyMeaning
  <1>6. \A j \in Ids \ {i} : Spared(sync[p], j, rows[i].slug)
    BY <1>5 DEF Spared
  <1>7. sync[p].slugs[d] = sync[p].updates[i][2]
    BY <1>1, <1>2, <1>3, <1>4, <1>6 DEF Follows
  <1>8. pending'[d] = Or(sync[p].slugs[d], pending[d])
    BY <1>1 DEF SyncCommits
  <1>. QED
    BY <1>1, <1>7, <1>8 DEF Or

LEMMA StepFollows ==
    ASSUME CategoriesAssumption, SessionInv
    PROVE  \A p \in Syncs, i \in Active :
              /\ sync[p].updates[i][2] # None /\ SyncCommits(p) /\ UpToDate(p)
              /\ \A j \in Ids \ {i} : ~Means(rows[j], rows[i].slug) /\ ~Means(rows'[j], rows[i].slug)
              => \A d \in Drafts : pending[d] = rows[i].slug /\ sync[p].found[d] = pending[d] =>
                     pending'[d] = sync[p].updates[i][2]
  BY CommitFollows DEF Renames, OnlyMeaning

\* When a synchronisation commits a category's new slug over rows that are as it
\* had loaded them, every draft it had loaded with the old slug gets the new
\* one, unless the old slug means another category: for any static aliases and
\* hints, whatever the CMS answered for the two locales, whichever rows take an
\* id or a slug from one another, and however many synchronisations overlap.
THEOREM RenamesFollow == Spec => RenameFollows
  <1>1. CategoriesAssumption
    BY CategoriesAssumption
  <1>2. Init => SessionInv
    BY <1>1, InitSound
  <1>3. SessionInv /\ [Next]_vars => SessionInv'
    BY <1>1, NextSound
  <1>4. SessionInv =>
          [\A p \in Syncs, i \in Active :
              /\ sync[p].updates[i][2] # None /\ SyncCommits(p) /\ UpToDate(p)
              /\ \A j \in Ids \ {i} : ~Means(rows[j], rows[i].slug) /\ ~Means(rows'[j], rows[i].slug)
              => \A d \in Drafts : pending[d] = rows[i].slug /\ sync[p].found[d] = pending[d] =>
                     pending'[d] = sync[p].updates[i][2]]_vars
    BY <1>1, StepFollows
  <1>. QED
    BY <1>2, <1>3, <1>4, PTL DEF Spec, RenameFollows
-----------------------------------------------------------------------------
(* What one synchronisation achieves *)

\* A synchronisation that read the same list for both locales and commits over
\* the rows as it had loaded them, no category without row having the slug of
\* another one's row, and no default rows being inserted: the active rows of the
\* table then hold the slugs of the list, no more and no less.
SyncSettles ==
    [][\A p \in Syncs :
          /\ SyncCommits(p) /\ sync[p].loaded = rows /\ sync[p].en = sync[p].ru
          /\ ~\E i \in Ids \ Present, j \in Present :
                 /\ sync[p].ru[i] # None /\ sync[p].ru[j] # None
                 /\ sync[p].ru[i] = rows[j].slug
          /\ Active # {} \/ \A d \in Drafts : sync[p].found[d] = None
          => ActiveSlugs' = SlugsIn(sync[p].ru)]_vars

LEMMA CommitSettles ==
    ASSUME CategoriesAssumption, SessionInv, NEW p \in Syncs, SyncCommits(p),
           sync[p].loaded = rows
    PROVE  ActiveSlugs' = LeftSlugs(sync[p])
  <1>. DEFINE s == sync[p]
  <1>1. /\ rows' = NewRows(p) /\ OnlyLoaded(s) /\ FreshIds(s)
        /\ TypeOK /\ TypeOK' /\ UpToDate(p) /\ s \in Session
    <2>1. TypeOK
      BY DEF SessionInv
    <2>2. TypeOK'
      BY <2>1, NextTypes DEF Next
    <2>. QED
      BY <2>1, <2>2 DEF SyncCommits, SessionInv, Sound, Conflict, UpToDate, TypeOK
  <1>. HIDE DEF s
  <1>2. \A j \in Ids : rows'[j] # None /\ rows'[j].active => rows'[j].slug \in ActiveSlugs'
    BY DEF ActiveSlugs, Active, Present
  <1>3. \A j \in Ids : rows'[j] # None => rows'[j] \in Row
    BY <1>1 DEF TypeOK
  <1>4. \A i \in Present : Written(p, i) = Wrote(s, i) /\ s.loaded[i] # None /\ i \in Ids
    BY DEF Written, Wrote, Present, s
  <1>5. Moved(p) \subseteq Present
    BY <1>1 DEF Moved, OnlyLoaded, NoChange, Present, s
  <1>6. ASSUME NEW t \in ActiveSlugs'
        PROVE  t \in LeftSlugs(s)
    <2>1. PICK j \in Ids : rows'[j] # None /\ rows'[j].active /\ t = rows'[j].slug
      BY <1>6 DEF ActiveSlugs, Active, Present
    <2>2. ASSUME NEW i \in Present, rows'[j] = Written(p, i)
          PROVE  t \in LeftSlugs(s)
      BY <1>4, <2>1, <2>2 DEF LeftActive, LeftSlugs
    <2>3. CASE \E i \in Moved(p) : Target(p, i) = j
      <3>1. Mover(p, j) \in Moved(p)
        BY <2>3 DEF Mover
      <3>2. rows'[j] = Written(p, Mover(p, j))
        BY <1>1, <2>3 DEF NewRows
      <3>. QED
        BY <1>5, <2>2, <3>1, <3>2
    <2>4. CASE ~(\E i \in Moved(p) : Target(p, i) = j) /\ j \in Inserted(p)
      <3>1. rows'[j].slug = s.inserts[j] /\ s.inserts[j] # None
        BY <1>1, <2>4 DEF NewRows, Inserted, s
      <3>. QED
        BY <2>1, <3>1 DEF LeftSlugs
    <2>5. CASE ~(\E i \in Moved(p) : Target(p, i) = j) /\ j \notin Inserted(p)
      <3>1. j \in Present /\ rows'[j] = Written(p, j)
        BY <1>1, <2>1, <2>5 DEF NewRows
      <3>. QED
        BY <2>2, <3>1
    <2>. QED
      BY <2>3, <2>4, <2>5
  <1>7. ASSUME NEW i \in LeftActive(s)
        PROVE  Wrote(s, i).slug \in ActiveSlugs'
    <2>1. i \in Ids /\ i \in Present /\ s.loaded[i] # None /\ Wrote(s, i).active
      BY DEF LeftActive, Present, s
    <2>2. \E j \in Ids : rows'[j] = Wrote(s, i)
      <3>1. /\ i \notin Moved(p) => rows'[i] = Written(p, i)
            /\ i \in Moved(p) => /\ Target(p, i) \in Ids \ Present
                                 /\ rows'[Target(p, i)] = Written(p, i)
        BY <1>1, <2>1, CommitLeaves DEF s
      <3>2. Written(p, i) = Wrote(s, i)
        BY <1>4, <2>1
      <3>. QED
        BY <2>1, <3>1, <3>2
    <2>3. Written(p, i) \in Row
      BY <1>1, <2>1, WrittenType
    <2>4. Wrote(s, i) # None
      BY <1>4, <2>1, <2>3, NoneIsOutside
    <2>. QED
      BY <1>2, <2>1, <2>2, <2>4
  <1>8. ASSUME NEW k \in Ids, s.inserts[k] # None
        PROVE  s.inserts[k] \in ActiveSlugs'
    <2>. DEFINE new == [slug |-> s.inserts[k], aliases |-> StaticOf(s.inserts[k]), active |-> TRUE]
    <2>1. ~\E i \in Moved(p) : Target(p, i) = k
      BY <1>1, <1>8 DEF Moved, Target, FreshIds, s
    <2>2. k \in Inserted(p)
      BY <1>8 DEF Inserted, s
    <2>3. rows'[k] = new
      BY <1>1, <2>1, <2>2 DEF NewRows, s
    <2>4. new \in Row
      <3>1. s.inserts[k] \in Slugs
        BY <1>1, <1>8 DEF Session
      <3>2. StaticOf(s.inserts[k]) \in SUBSET Slugs
        BY DEF StaticOf, CategoriesAssumption
      <3>. QED
        BY <3>1, <3>2 DEF Row
    <2>5. new # None
      BY <2>4, NoneIsOutside
    <2>6. new.active /\ new.slug = s.inserts[k]
      OBVIOUS
    <2>. HIDE DEF new
    <2>. QED
      BY <1>2, <2>3, <2>5, <2>6
  <1>. QED
    BY <1>6, <1>7, <1>8 DEF LeftSlugs, s

LEMMA StepSettles ==
    ASSUME CategoriesAssumption, SessionInv, NEW p \in Syncs,
           SyncCommits(p), sync[p].loaded = rows, sync[p].en = sync[p].ru,
           ~\E i \in Ids \ Present, j \in Present :
               /\ sync[p].ru[i] # None /\ sync[p].ru[j] # None
               /\ sync[p].ru[i] = rows[j].slug,
           Active # {} \/ \A d \in Drafts : sync[p].found[d] = None
    PROVE  ActiveSlugs' = SlugsIn(sync[p].ru)
  <1>1. ~EntangledIn(sync[p])
    BY DEF EntangledIn, Present
  <1>2. FoundRows(sync[p])
    BY DEF FoundRows, Active, Present
  <1>3. Agrees(sync[p])
    BY DEF SyncCommits, SessionInv, Sound, Conflict
  <1>. QED
    BY <1>1, <1>2, <1>3, CommitSettles DEF Agrees, Calm

\* The safety half of Settles, for any CMS and whatever rows an earlier
\* synchronisation or draft left: one undisturbed synchronisation is enough to
\* bring the replica in line, so that only missed runs, other writers and rows
\* taken from each other can keep it apart from the CMS.
THEOREM OneSyncSettles == Spec => SyncSettles
  <1>1. CategoriesAssumption
    BY CategoriesAssumption
  <1>2. Init => SessionInv
    BY <1>1, InitSound
  <1>3. SessionInv /\ [Next]_vars => SessionInv'
    BY <1>1, NextSound
  <1>4. SessionInv =>
          [\A p \in Syncs :
              /\ SyncCommits(p) /\ sync[p].loaded = rows /\ sync[p].en = sync[p].ru
              /\ ~\E i \in Ids \ Present, j \in Present :
                     /\ sync[p].ru[i] # None /\ sync[p].ru[j] # None
                     /\ sync[p].ru[i] = rows[j].slug
              /\ Active # {} \/ \A d \in Drafts : sync[p].found[d] = None
              => ActiveSlugs' = SlugsIn(sync[p].ru)]_vars
    BY <1>1, StepSettles
  <1>. QED
    BY <1>2, <1>3, <1>4, PTL DEF Spec, SyncSettles
=============================================================================
