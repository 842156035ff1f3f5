--------------------------- MODULE SiteCategories ---------------------------
(***************************************************************************)
(* The categories of theunum.news: the replica tag_category_cache of the   *)
(* CMS, its synchronisation by the worker's job and by an administrator,   *)
(* and the category slug every draft carries (libs/common/site_categories, *)
(* site_category_sync, theunum_categories_client).                         *)
(*                                                                         *)
(* A synchronisation asks the CMS once per locale, rewrites the rows in a  *)
(* session that is not flushed, maps the slugs of all drafts and commits.  *)
(* What its queries select by is the committed row; what it reads from a   *)
(* row it holds is what it has itself assigned.                            *)
(*                                                                         *)
(* Abstracted: slugs are numbered in their alphabetical order; the hints   *)
(* in slug, topic and text of a draft are the categories they name, in the *)
(* order they are tried; names and audit records are left out.             *)
(***************************************************************************)
EXTENDS Integers, Sequences, FiniteSets

CONSTANTS
    Ids,         \* ids of the CMS, in the order of its list
    Slugs,       \* category slugs, in alphabetical order
    MayHave,     \* MayHave[i]: slugs the CMS gives category i
    Static,      \* STATIC_SLUG_ALIASES
    Bootstrap,   \* DEFAULT_BOOTSTRAP_CATEGORIES: slugs by id
    Fallback,    \* site_category.fallback_slug
    Drafts,
    Suggested,   \* Suggested[d]: the slug the language model suggests for d
    Hints,       \* Hints[d]: the categories that topic and text of d hint at
    Syncs,       \* the worker's job and the administrator
    Worker,
    MaxChanges,  \* bound on the changes in the CMS
    None

Row == [slug: Slugs, aliases: SUBSET Slugs, active: BOOLEAN]

ASSUME CategoriesAssumption ==
    /\ Ids \subseteq Nat /\ IsFiniteSet(Ids) /\ Slugs \subseteq Nat /\ IsFiniteSet(Slugs)
    /\ None \notin Nat /\ None \notin BOOLEAN /\ None \notin Row /\ \A S \in SUBSET Slugs : None # S
    /\ MayHave \in [Ids -> SUBSET Slugs]
    /\ DOMAIN Static \subseteq Slugs /\ \A a \in DOMAIN Static : Static[a] \in Slugs
    /\ DOMAIN Bootstrap \subseteq Ids /\ \A i \in DOMAIN Bootstrap : Bootstrap[i] \in MayHave[i]
    /\ DOMAIN Bootstrap # {} /\ Fallback \in Slugs
    /\ Suggested \in [Drafts -> Slugs] /\ Hints \in [Drafts -> Seq(Slugs)]
    /\ Worker \in Syncs /\ MaxChanges \in Nat

VARIABLES
    cms,       \* cms[i]: slug of category i in the CMS, or None
    changes,   \* changes in the CMS so far
    rows,      \* rows[i]: the committed row with id i, or None
    pending,   \* pending[d]: draft.pending_category_slug, None before the draft exists
    writing,   \* writing[d]: a session that is about to commit the slug of d
    due,       \* categories_sync_due
    sync       \* sync[p]: the session of a synchronisation

vars == <<cms, changes, rows, pending, writing, due, sync>>

-----------------------------------------------------------------------------
Cms == [Ids -> Slugs \cup {None}]
NoCms == [i \in Ids |-> None]
StaticOf(s) == {a \in DOMAIN Static : Static[a] = s}
Present == {i \in Ids : rows[i] # None}
Active == {i \in Present : rows[i].active}
ActiveSlugs == {rows[i].slug : i \in Active}
CmsSlugs == {cms[i] : i \in Ids} \ {None}

Lowest(S) == CHOOSE x \in S : \A y \in S : x <= y

-----------------------------------------------------------------------------
(* What a slug means, in the eyes of a session: view holds, for each row   *)
(* that is active in the table, the slug the row is ordered by and the     *)
(* slug and aliases the session reads from it.  A later row takes an alias *)
(* from an earlier one, and static aliases take all.                       *)

Entry(key, slug, aliases) == <<key, slug, aliases>>
Allowed(view) == {v[2] : v \in view}
Canonical(view, s) ==
    LET named == {v \in view : s = v[2] \/ s \in v[3]}
        last == CHOOSE v \in named : \A w \in named : v[1] >= w[1] IN
    IF s \in DOMAIN Static /\ Static[s] \in Allowed(view) THEN Static[s]
    ELSE IF named = {} THEN None ELSE last[2]
FallbackOf(view) == IF Fallback \in Allowed(view) THEN Fallback ELSE Lowest(Allowed(view))
Resolve(view, s, hints) ==
    LET tried == {n \in DOMAIN hints : Canonical(view, hints[n]) # None} IN
    CASE Canonical(view, s) # None -> Canonical(view, s)
      [] Canonical(view, s) = None /\ tried # {} -> Canonical(view, hints[Lowest(tried)])
      [] OTHER -> FallbackOf(view)

BootRow(i) == [slug |-> Bootstrap[i], aliases |-> StaticOf(Bootstrap[i]), active |-> TRUE]
View == {Entry(rows[i].slug, rows[i].slug, rows[i].aliases) : i \in Active}
BootView == {Entry(Bootstrap[i], Bootstrap[i], StaticOf(Bootstrap[i])) : i \in DOMAIN Bootstrap}

-----------------------------------------------------------------------------
(* The CMS: a category appears, goes or changes its slug *)

CmsChanges(i, s) ==
    /\ changes < MaxChanges
    /\ s # cms[i] /\ s \in MayHave[i] \cup {None}
    /\ s \notin CmsSlugs
    /\ cms' = [cms EXCEPT ![i] = s]
    /\ changes' = changes + 1
    /\ UNCHANGED <<rows, pending, writing, due, sync>>

-----------------------------------------------------------------------------
(* Drafts: the dispatcher resolves the slug of a new or regenerated draft, *)
(* with the default categories when there is none yet, and commits later   *)

Idle == [slug |-> None, boot |-> FALSE]
DraftResolves(d) ==
    LET boot == Active = {} IN
    /\ writing[d] = Idle
    /\ writing' = [writing EXCEPT ![d] =
           [slug |-> Resolve(IF boot THEN BootView ELSE View, Suggested[d], Hints[d]),
            boot |-> boot]]
    /\ UNCHANGED <<cms, changes, rows, pending, due, sync>>

DraftCommits(d) ==
    /\ writing[d] # Idle
    /\ writing[d].boot => DOMAIN Bootstrap \cap Present = {}
    /\ pending' = [pending EXCEPT ![d] = writing[d].slug]
    /\ rows' = IF writing[d].boot
               THEN [i \in Ids |-> IF i \in DOMAIN Bootstrap THEN BootRow(i) ELSE rows[i]]
               ELSE rows
    /\ writing' = [writing EXCEPT ![d] = Idle]
    /\ UNCHANGED <<cms, changes, due, sync>>

(* The same default rows were inserted meanwhile, or the dispatch failed *)
DraftFails(d) ==
    /\ writing[d] # Idle
    /\ writing' = [writing EXCEPT ![d] = Idle]
    /\ UNCHANGED <<cms, changes, rows, pending, due, sync>>

-----------------------------------------------------------------------------
(* What a synchronisation fetched: ids by slug, the later locale wins, in  *)
(* the order the slugs were first listed                                   *)

SlugsIn(c) == {c[i] : i \in Ids} \ {None}
Holder(c, s) == CHOOSE i \in Ids : c[i] = s
Seen(en, ru) == SlugsIn(en) \cup SlugsIn(ru)
IdOf(en, ru, s) == IF s \in SlugsIn(ru) THEN Holder(ru, s) ELSE Holder(en, s)
Listed(en, ru, s) == IF s \in SlugsIn(en) THEN <<0, Holder(en, s)>> ELSE <<1, Holder(ru, s)>>
Earlier(p, q) == p[1] < q[1] \/ (p[1] = q[1] /\ p[2] <= q[2])
SlugsOf(en, ru, i) == {s \in Seen(en, ru) : IdOf(en, ru, s) = i}
FirstSlug(en, ru, i) == CHOOSE s \in SlugsOf(en, ru, i) : \A t \in SlugsOf(en, ru, i) :
                            Earlier(Listed(en, ru, s), Listed(en, ru, t))
LastSlug(en, ru, i) == CHOOSE s \in SlugsOf(en, ru, i) : \A t \in SlugsOf(en, ru, i) :
                            Earlier(Listed(en, ru, t), Listed(en, ru, s))

(* A row, as the session leaves it: renamed by its id, revived, or handed  *)
(* to an id without row that comes with its slug; otherwise it stays       *)
(* active while its slug was seen.                                         *)
Named(en, ru, i) == SlugsOf(en, ru, i) # {}
RowWith(s) == Lowest({i \in Present : rows[i].slug = s})
Takers(en, ru, i) ==
    {k \in Ids \ Present : rows[i].slug \in SlugsOf(en, ru, k) /\ RowWith(rows[i].slug) = i}
Renamed(en, ru, i) == IF Named(en, ru, i) THEN LastSlug(en, ru, i) ELSE rows[i].slug
(* Mutant: a renamed row forgets its slug *)
MergedWithoutOld(en, ru, i) == rows[i].aliases \cup StaticOf(Renamed(en, ru, i))
Merged(en, ru, i) ==
    LET old == rows[i].slug first == FirstSlug(en, ru, i) last == LastSlug(en, ru, i) IN
    UNION {rows[i].aliases,
           IF Named(en, ru, i)
           THEN UNION {StaticOf(first), StaticOf(last), {old} \ {first}, {first} \ {last}}
           ELSE {},
           IF Takers(en, ru, i) # {} THEN StaticOf(old) ELSE {}}
(* Mutant: a category that is no longer listed stays active *)
ActiveForGood(en, ru, i) == Named(en, ru, i) \/ rows[i].active
StaysActive(en, ru, i) ==
    \/ Named(en, ru, i) \/ Takers(en, ru, i) # {}
    \/ rows[i].active /\ rows[i].slug \in Seen(en, ru)
IdAfter(en, ru, i) ==
    IF Takers(en, ru, i) = {} THEN i ELSE CHOOSE k \in Takers(en, ru, i) : TRUE

(* Only what changed is written: None stands for a column left alone *)
Diff(old, new) == IF old = new THEN None ELSE new
Updates(en, ru) ==
    [i \in Ids |-> IF i \notin Present THEN <<None, None, None, None>> ELSE
        <<Diff(i, IdAfter(en, ru, i)), Diff(rows[i].slug, Renamed(en, ru, i)),
          Diff(rows[i].aliases, Merged(en, ru, i)),
          Diff(rows[i].active, StaysActive(en, ru, i))>>]
Created(en, ru) ==
    {k \in Ids \ Present : Named(en, ru, k)
                           /\ \A i \in Present : rows[i].slug \notin SlugsOf(en, ru, k)}

(* One id that came with two slugs is inserted twice *)
TwoRows(en, ru) == \E k \in Ids \ Present : Cardinality(SlugsOf(en, ru, k)) > 1

(* With a draft to map and no active row in the table, the default rows    *)
(* are inserted and the session is flushed, unless one of its rows has the *)
(* id of a default row                                                     *)
Boots == Active = {} /\ \E d \in Drafts : pending[d] # None
Clash(en, ru) ==
    Boots /\ DOMAIN Bootstrap \cap (Created(en, ru) \cup {IdAfter(en, ru, i) : i \in Present}) # {}
Inserts(en, ru) ==
    [k \in Ids |-> CASE k \in Created(en, ru) -> LastSlug(en, ru, k)
                     [] Boots /\ k \in DOMAIN Bootstrap \ Created(en, ru) -> Bootstrap[k]
                     [] OTHER -> None]

(* reconcile_draft_category_slugs: rows by what is committed or flushed,   *)
(* slugs and aliases by what the session assigned                          *)
SessionView(en, ru) ==
    {Entry(rows[i].slug, Renamed(en, ru, i), Merged(en, ru, i)) : i \in Active}
FlushedView(en, ru) ==
    {Entry(Renamed(en, ru, i), Renamed(en, ru, i), Merged(en, ru, i)) :
         i \in {j \in Present : StaysActive(en, ru, j)}}
    \cup {Entry(LastSlug(en, ru, k), LastSlug(en, ru, k), StaticOf(LastSlug(en, ru, k))) :
              k \in Created(en, ru)}
    \cup BootView
Reconciled(en, ru) ==
    [d \in Drafts |-> IF pending[d] = None THEN None
                      ELSE Diff(pending[d], Resolve(IF Boots THEN FlushedView(en, ru)
                                                    ELSE SessionView(en, ru), pending[d], Hints[d]))]

-----------------------------------------------------------------------------
(* A synchronisation *)

Session == [step: {"off", "fetching", "flushing"}, en: Cms, ru: Cms,
            updates: [Ids -> (Ids \cup {None}) \X (Slugs \cup {None})
                                \X ({None} \cup SUBSET Slugs) \X (BOOLEAN \cup {None})],
            inserts: [Ids -> Slugs \cup {None}], doomed: BOOLEAN,
            loaded: [Ids -> Row \cup {None}],
            found: [Drafts -> Slugs \cup {None}], slugs: [Drafts -> Slugs \cup {None}]]
Off == [step |-> "off", en |-> NoCms, ru |-> NoCms,
        updates |-> [i \in Ids |-> <<None, None, None, None>>],
        inserts |-> NoCms, doomed |-> FALSE, loaded |-> NoCms,
        found |-> [d \in Drafts |-> None], slugs |-> [d \in Drafts |-> None]]

(* The first locale is fetched: by the job once a day, by an administrator *)
(* at any time                                                             *)
SyncStarts(p) ==
    /\ sync[p] = Off /\ (p = Worker => due)
    /\ sync' = [sync EXCEPT ![p] = [Off EXCEPT !.step = "fetching", !.en = cms]]
    /\ UNCHANGED <<cms, changes, rows, pending, writing, due>>

(* The second is, and rows and drafts are changed in the session; the two  *)
(* lists and what it had loaded are kept for the properties only           *)
SyncReads(p) ==
    LET en == sync[p].en IN
    /\ sync[p].step = "fetching" /\ Seen(en, cms) # {}
    /\ sync' = [sync EXCEPT ![p] =
           [step |-> "flushing", en |-> en, ru |-> cms,
            updates |-> Updates(en, cms), inserts |-> Inserts(en, cms),
            doomed |-> TwoRows(en, cms) \/ Clash(en, cms),
            loaded |-> rows, found |-> pending, slugs |-> Reconciled(en, cms)]]
    /\ UNCHANGED <<cms, changes, rows, pending, writing, due>>

Inserted(p) == {k \in Ids : sync[p].inserts[k] # None}
Updated(p) == {i \in Ids : \E c \in 1..4 : sync[p].updates[i][c] # None}
Moved(p) == {i \in Ids : sync[p].updates[i][1] # None}
Target(p, i) == sync[p].updates[i][1]

(* The table no longer is what the statements of the session need *)
Conflict(p) ==
    \/ sync[p].doomed
    \/ ((Inserted(p) \ Moved(p)) \cup {Target(p, i) : i \in Moved(p)}) \cap Present # {}
    \/ ~(Updated(p) \subseteq Present)

(* Mutant: columns the session left alone are overwritten too *)
OrNothing(new, old) == new
Or(new, old) == IF new = None THEN old ELSE new
Written(p, i) ==
    LET u == sync[p].updates[i] IN
    [slug |-> Or(u[2], rows[i].slug), aliases |-> Or(u[3], rows[i].aliases),
     active |-> Or(u[4], rows[i].active)]
Mover(p, j) == CHOOSE i \in Moved(p) : Target(p, i) = j
NewRows(p) ==
    [j \in Ids |->
        IF \E i \in Moved(p) : Target(p, i) = j THEN Written(p, Mover(p, j))
        ELSE IF j \in Inserted(p)
        THEN [slug |-> sync[p].inserts[j], aliases |-> StaticOf(sync[p].inserts[j]), active |-> TRUE]
        ELSE IF j \in Present \ Moved(p) THEN Written(p, j)
        ELSE None]

SyncCommits(p) ==
    /\ sync[p].step = "flushing" /\ ~Conflict(p)
    /\ rows' = NewRows(p)
    /\ pending' = [d \in Drafts |-> Or(sync[p].slugs[d], pending[d])]
    /\ due' = FALSE
    /\ sync' = [sync EXCEPT ![p] = Off]
    /\ UNCHANGED <<cms, changes, writing>>

(* A conflict is an error of the commit; otherwise the CMS gave no answer, *)
(* or an empty one, or the service was restarted                           *)
SyncFails(p) ==
    /\ sync[p] # Off
    /\ sync' = [sync EXCEPT ![p] = Off]
    /\ UNCHANGED <<cms, changes, rows, pending, writing, due>>

ADayPasses == /\ ~due /\ due' = TRUE
              /\ UNCHANGED <<cms, changes, rows, pending, writing, sync>>

-----------------------------------------------------------------------------
Init ==
    /\ cms \in {c \in Cms : /\ \A i \in Ids : c[i] \in MayHave[i] \cup {None}
                            /\ \A i, j \in Ids : i # j /\ c[i] # None => c[i] # c[j]}
    /\ changes = 0
    /\ rows = NoCms
    /\ pending = [d \in Drafts |-> None]
    /\ writing = [d \in Drafts |-> Idle]
    /\ due = TRUE
    /\ sync = [p \in Syncs |-> Off]

Next ==
    \/ \E i \in Ids, s \in Slugs \cup {None} : CmsChanges(i, s)
    \/ \E d \in Drafts : DraftResolves(d) \/ DraftCommits(d) \/ DraftFails(d)
    \/ \E p \in Syncs : SyncStarts(p) \/ SyncReads(p) \/ SyncCommits(p) \/ SyncFails(p)
    \/ ADayPasses

(* The job runs every day, the CMS answers it again and again, and a       *)
(* commit in conflict raises; of the rest nothing is assumed.              *)
Fairness ==
    /\ WF_vars(ADayPasses) /\ WF_vars(SyncStarts(Worker))
    /\ SF_vars(SyncReads(Worker)) /\ SF_vars(SyncCommits(Worker))
    /\ WF_vars(SyncFails(Worker) /\ sync[Worker].step = "flushing" /\ Conflict(Worker))

Spec == Init /\ [][Next]_vars /\ Fairness

-----------------------------------------------------------------------------
(* Rows, drafts and sessions hold what the code puts there *)
TypeOK ==
    /\ cms \in Cms /\ changes \in 0..MaxChanges /\ due \in BOOLEAN
    /\ rows \in [Ids -> Row \cup {None}]
    /\ pending \in [Drafts -> Slugs \cup {None}]
    /\ writing \in [Drafts -> [slug: Slugs \cup {None}, boot: BOOLEAN]]
    /\ sync \in [Syncs -> Session]

(* Once the CMS rests, the replica comes to hold exactly its categories,   *)
(* and every draft one of them, although the session that drops a category *)
(* maps the drafts as if it were still there (reconcile_draft_category_    *)
(* slugs selects committed rows).  The exception: a category without a row *)
(* has got the slug that the row of another one still has.  The two then   *)
(* take the row from each other, day after day (_upsert_category_row).     *)
Settled == CmsSlugs # {} =>
    /\ ActiveSlugs = CmsSlugs
    /\ \A d \in Drafts : pending[d] # None => pending[d] \in CmsSlugs
Entangled == \E i \in Ids \ Present, j \in Present :
                 cms[i] # None /\ cms[j] # None /\ cms[i] = rows[j].slug
Settles == <>[]Settled \/ []<>Entangled

(* A draft follows its category when the CMS gives it another slug: the    *)
(* synchronisation that commits the rename takes along every draft it had  *)
(* loaded with the old slug, unless that slug means another category by    *)
(* then (upsert_theunum_categories).  No other synchronisation may have    *)
(* changed the rows it loaded: then what they mean to it is out of date.   *)
Means(r, s) == r # None /\ r.active /\ s \in {r.slug} \cup r.aliases \cup StaticOf(r.slug)
UpToDate(p) == \A j \in Ids : sync[p].loaded[j] \in {None, rows[j]}
RenameFollows ==
    [][\A p \in Syncs, i \in Active :
          /\ sync[p].updates[i][2] # None /\ SyncCommits(p) /\ UpToDate(p)
          /\ \A j \in Ids \ {i} : ~Means(rows[j], rows[i].slug) /\ ~Means(rows'[j], rows[i].slug)
          => \A d \in Drafts : pending[d] = rows[i].slug /\ sync[p].found[d] = pending[d] =>
                 pending'[d] = sync[p].updates[i][2]]_vars
=============================================================================
