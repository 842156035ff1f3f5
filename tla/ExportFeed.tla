----------------------------- MODULE ExportFeed -----------------------------
(***************************************************************************)
(* The feed theunum.news reads (services/api/app/routers/                  *)
(* integration_theunum.py): a client walks the drafts page by page, newest *)
(* text first, and marks what it took as consumed, in one request or in    *)
(* batches, while drafts are created, regenerated and leave the queue and  *)
(* an administrator changes the defaults of the filters.                   *)
(*                                                                         *)
(* A cursor is only the id of the last draft served: its place in the      *)
(* order is looked up again when the next page is asked for.  The requests *)
(* are two steps each, what they read and what they answer or commit.      *)
(*                                                                         *)
(* Abstracted: the text of a draft is the time it was generated at; a day  *)
(* is Day units of the clock.  A draft is stamped before its transaction   *)
(* commits, by at most one unit.                                           *)
(***************************************************************************)
EXTENDS Integers, Sequences, FiniteSets

CONSTANTS
    Drafts,      \* draft.id, ordered
    MaxClock,    \* bound on the clock
    Day,         \* 24 hours
    Fallback,    \* FALLBACK_LIST_LIMIT
    Queries,     \* what a client asks for, the pages of one walk alike
    Defaults,    \* the rows of integration.export.*
    Handled,     \* drafts that leave the queue, and come back
    Regenerated, \* drafts that are regenerated within the horizon
    Batches,     \* bodies of mark-consumed requests: drafts and references
    Refs,        \* theunum_reference_id
    Requests,    \* mark-consumed requests in flight
    None         \* a parameter, a row or a reference that is not there

Limits == Nat \ {0}
Hours == Nat \ {0}
Query == [consumed: BOOLEAN \cup {None}, statuses: SUBSET {"queue", "left"},
          since: Nat \cup {None}, generated_since: Nat \cup {None},
          freshness: {"today", "48h", None}, max_age: Hours \cup {None},
          limit: Limits \cup {None}]
Default == [freshness: {"today", "48h", None}, max_age: Hours \cup {None},
            limit: Limits \cup {None}]

ASSUME ExportAssumption ==
    /\ Drafts \subseteq Nat /\ IsFiniteSet(Drafts)
    /\ None \notin Nat /\ None \notin [at: Nat, id: Nat]
    /\ MaxClock \in Nat /\ Day \in Nat \ {0} /\ Fallback \in Limits
    /\ Handled \subseteq Drafts /\ Regenerated \subseteq Drafts
    /\ Queries \subseteq Query /\ Defaults \subseteq Default
    /\ None \notin Refs
    /\ Batches \subseteq Seq(Drafts \X (Refs \cup {None}))

VARIABLES
    clock,
    draft,      \* draft[d]: the row, with status "none" while there is none
    log,        \* log[d]: draft_export_log, a reference or None, or "no row"
    audit,      \* audit[d]: audit_log rows theunum_consumed of d, those of
                \* before its row of log was last deleted aside
    defaults,   \* the administrator's defaults, as committed
    walk,       \* the client's walk and the list request it waits for
    due,        \* history: in the filter since the walk began, not regenerated
    faults,     \* history: drafts that walks missed, and served twice
    mark,       \* mark[r]: a mark-consumed request
    answered    \* history: drafts a request was told it had marked, whose row
                \* was not deleted since it looked

walking == <<walk, due, faults>>
marking == <<log, audit, mark, answered>>
vars == <<clock, draft, defaults, walking, marking>>

-----------------------------------------------------------------------------
NoRow == [row |-> FALSE, ref |-> None]
Row(r) == [row |-> TRUE, ref |-> r]
Log == [row: BOOLEAN, ref: Refs \cup {None}]
NoDraft == [status |-> "none", created |-> 0, generated |-> 0, updated |-> 0]
Draft == [status: {"none", "queue", "left"}, created: 0..MaxClock,
          generated: 0..MaxClock, updated: 0..MaxClock]
Place == [at: 0..MaxClock, id: Drafts]

(* A place in the order of the feed comes after another: older text, or    *)
(* text of the same age and the smaller id.                                *)
Before(p, q) == p.at > q.at \/ (p.at = q.at /\ p.id > q.id)
PlaceOf(d) == [at |-> draft[d].generated, id |-> d]

-----------------------------------------------------------------------------
(* What a list request filters by *)

Explicit(q) == q.generated_since # None \/ q.freshness # None \/ q.max_age # None
Freshness(q) == IF Explicit(q) THEN q ELSE
    [q EXCEPT !.freshness = defaults.freshness, !.max_age = defaults.max_age]
(* Mutant: no limit of the api's own *)
LimitUnset(q) == IF q.limit # None THEN q.limit ELSE defaults.limit

Limit(q) == IF q.limit # None THEN q.limit
            ELSE IF defaults.limit # None THEN defaults.limit ELSE Fallback

(* Lower bounds, of which the strictest counts.  Presets look at the age   *)
(* of the draft, the other parameters at the age of its text.              *)
CreatedSince(q) ==
    {t \in {clock - (clock % Day)} : q.freshness = "today"}
        \cup {t \in {clock - 2 * Day} : q.freshness = "48h"}
GeneratedSince(q) == {t \in {q.generated_since} : t # None}
                         \cup {clock - h : h \in {q.max_age} \ {None}}

Filter == [consumed: BOOLEAN \cup {None}, statuses: SUBSET {"queue", "left"},
           since: Nat \cup {None}, limit: Limits, created: SUBSET Int,
           generated: SUBSET Int, after: Place \cup {None}]
FilterOf(q, c) ==
    LET f == Freshness(q) IN
    [consumed |-> q.consumed, statuses |-> q.statuses, since |-> q.since,
     limit |-> Limit(q), created |-> CreatedSince(f), generated |-> GeneratedSince(f),
     after |-> IF c = None THEN None ELSE PlaceOf(c)]

Matches(f, d) ==
    /\ draft[d].status \in f.statuses
    /\ f.consumed # None => log[d].row = f.consumed
    /\ f.since # None => draft[d].updated >= f.since
    /\ \A t \in f.generated : draft[d].generated >= t
    /\ \A t \in f.created : draft[d].created >= t
Eligible(q, d) == Matches(FilterOf(q, None), d)

(* The first n drafts of S in the order of the feed, and the last of P *)
First(S, n) == {d \in S : Cardinality({e \in S : Before(PlaceOf(e), PlaceOf(d))}) < n}
Last(P) == CHOOSE d \in P : \A e \in P \ {d} : Before(PlaceOf(e), PlaceOf(d))
(* Mutants: the page after a cursor begins at the cursor; it goes by the id *)
ListedFrom(f) ==
    {d \in Drafts : Matches(f, d) /\ (f.after # None => ~Before(PlaceOf(d), f.after))}
ListedById(f) ==
    {d \in Drafts : Matches(f, d) /\ (f.after # None => f.after.id > d)}
Listed(f) ==
    {d \in Drafts : Matches(f, d) /\ (f.after # None => Before(f.after, PlaceOf(d)))}

(* What the walk still owes: drafts in its filter ever since it began, with *)
(* the text they had *)
Keeps(d) == draft'[d].generated = draft[d].generated /\ Eligible(walk.query, d)'
Owes == due' = {d \in due : Keeps(d)}

-----------------------------------------------------------------------------
(* The rows, as the rest of the system changes them *)

Stamps == {clock, clock - 1} \cap Nat

Tick == /\ clock < MaxClock
        /\ clock' = clock + 1
        /\ UNCHANGED <<draft, defaults, walk, faults, marking>>
        /\ Owes

(* A draft appears, stamped a little before it is committed *)
Create(d) ==
    /\ draft[d].status = "none"
    /\ \E t \in Stamps : draft' = [draft EXCEPT ![d] =
           [status |-> "queue", created |-> t, generated |-> t, updated |-> t]]
    /\ UNCHANGED <<clock, defaults, walk, faults, marking>>
    /\ Owes

(* clear_export deletes the row of the log; a request that found the row   *)
(* will tell of one that is gone.                                          *)
ClearExport(d) ==
    /\ log' = [log EXCEPT ![d] = NoRow]
    /\ audit' = [audit EXCEPT ![d] = IF log[d].row THEN 0 ELSE @]
    /\ answered' = answered \ {d}
    /\ mark' = [r \in Requests |->
           [mark[r] EXCEPT !.told = @ \ ({d} \ mark[r].insert)]]

(* Its text is written anew, and judged by the gate; of two regenerations  *)
(* of one draft the one stamped first may commit last.                     *)
Regenerate(d) ==
    /\ d \in Regenerated /\ draft[d].status # "none"
    /\ \E t \in Stamps,
          x \in IF d \in Handled THEN {"queue", "left"} ELSE {draft[d].status} :
           /\ t >= draft[d].created /\ t # draft[d].generated
           /\ draft' = [draft EXCEPT ![d] = [@ EXCEPT !.status = x, !.generated = t,
                                                      !.updated = clock]]
    /\ ClearExport(d) \/ UNCHANGED marking
    /\ UNCHANGED <<clock, defaults, walk, faults>>
    /\ Owes

(* It is published, rejected or snoozed, or comes back *)
Move(d, s) ==
    /\ draft[d].status \notin {"none", s}
    /\ draft' = [draft EXCEPT ![d].status = s, ![d].updated = clock]
    /\ UNCHANGED <<clock, defaults, walk, faults, marking>>
    /\ Owes

SaveDefaults(x) ==
    /\ x # defaults
    /\ defaults' = x
    /\ UNCHANGED <<clock, draft, walk, faults, marking>>
    /\ Owes

-----------------------------------------------------------------------------
(* The list requests *)

(* A walk: whether it waits for an answer, the last draft served, with its *)
(* place then, and, as history, the texts served so far and whether a      *)
(* cursor was found elsewhere than it had been.                            *)
NoFilter == [consumed |-> None, statuses |-> {}, since |-> None, limit |-> Fallback,
             created |-> {}, generated |-> {}, after |-> None]
Walk == [step: {"over", "reading", "paging"}, query: Queries \cup {None}, filter: Filter,
         cursor: Drafts \cup {None}, place: Place \cup {None},
         served: SUBSET Place, moved: BOOLEAN]
NoWalk == [step |-> "over", query |-> None, filter |-> NoFilter, cursor |-> None,
           place |-> None, served |-> {}, moved |-> FALSE]
Served == {p.id : p \in walk.served}

(* The first request of a walk has read the defaults and the clock *)
Begin(q) ==
    /\ walk.step # "reading"
    /\ walk' = [NoWalk EXCEPT !.step = "reading", !.query = q, !.filter = FilterOf(q, None)]
    /\ due' = {d \in Drafts : Eligible(q, d)}
    /\ UNCHANGED <<clock, draft, defaults, faults, marking>>

(* Texts before which the cursor was, and is no more: its draft got an     *)
(* older text than the one that was served.                                *)
Jumped(d) == Before(walk.place, PlaceOf(d)) /\ ~Before(PlaceOf(walk.cursor), PlaceOf(d))

(* A later one has read them again, and the place of the cursor *)
Continue ==
    /\ walk.step = "paging"
    /\ walk' = [walk EXCEPT !.step = "reading",
                            !.filter = FilterOf(walk.query, walk.cursor),
                            !.moved = @ \/ PlaceOf(walk.cursor) # walk.place]
    /\ due' = {d \in due : ~Jumped(d)}
    /\ UNCHANGED <<clock, draft, defaults, faults, marking>>

(* The page is selected and answered; without a next cursor the walk ends *)
Fetched(f) == First(Listed(f), f.limit + 1)
PageOf(f) == First(Fetched(f), f.limit)
HasMore(f) == Cardinality(Fetched(f)) > f.limit
Twice(page) == {d \in page : ~walk.moved /\ PlaceOf(d) \in walk.served}

Answer ==
    LET page == PageOf(walk.filter) IN
    /\ walk.step = "reading" /\ HasMore(walk.filter)
    /\ walk' = [walk EXCEPT !.step = "paging", !.filter = NoFilter,
                            !.cursor = Last(page), !.place = PlaceOf(Last(page)),
                            !.served = @ \cup {PlaceOf(d) : d \in page}]
    /\ faults' = [faults EXCEPT !.twice = @ \cup Twice(page)]
    /\ UNCHANGED <<clock, draft, defaults, due, marking>>

AnswerLast ==
    LET page == PageOf(walk.filter) IN
    /\ walk.step = "reading" /\ ~HasMore(walk.filter)
    /\ walk' = NoWalk
    /\ due' = {}
    /\ faults' = [faults EXCEPT !.missed = @ \cup (due \ (Served \cup page)),
                                !.twice = @ \cup Twice(page)]
    /\ UNCHANGED <<clock, draft, defaults, marking>>

-----------------------------------------------------------------------------
(* Marking drafts as consumed *)

Mark == [body: Batches \cup {<<>>}, insert: SUBSET Drafts, fill: SUBSET Drafts,
         told: SUBSET Drafts]
NoMark == [body |-> <<>>, insert |-> {}, fill |-> {}, told |-> {}]
Of(b, d) == {i \in DOMAIN b : b[i][1] = d}
FirstRef(b, d) ==
    LET I == {i \in Of(b, d) : b[i][2] # None} IN b[CHOOSE i \in I : \A j \in I : i <= j][2]

(* A request has looked up the drafts and the rows of its items *)
MarkReads(r, b) ==
    LET told == {d \in Drafts : Of(b, d) # {} /\ draft[d].status # "none"} IN
    /\ mark[r] = NoMark /\ b # <<>>
    /\ mark' = [mark EXCEPT ![r] =
           [body |-> b, told |-> told,
            insert |-> {d \in told : ~log[d].row},
            fill |-> {d \in told : /\ log[d] = Row(None)
                                   /\ \E i \in Of(b, d) : b[i][2] # None}]]
    /\ UNCHANGED <<clock, draft, defaults, walking, log, audit, answered>>

(* Mutant: a row inserted meanwhile is overwritten *)
ConflictIgnored(m) ==
    \/ \E d \in m.insert : Cardinality(Of(m.body, d)) > 1
    \/ \E d \in m.fill : ~log[d].row

(* One primary key twice, in the table or in the batch, undoes the whole,  *)
(* and so does a row to update that is gone                                *)
Conflict(m) ==
    \/ \E d \in m.insert : log[d].row \/ Cardinality(Of(m.body, d)) > 1
    \/ \E d \in m.fill : ~log[d].row
Marked(m) ==
    [d \in Drafts |->
        CASE d \in m.insert -> Row(m.body[CHOOSE i \in Of(m.body, d) : TRUE][2])
          [] d \in m.fill -> Row(FirstRef(m.body, d))
          [] OTHER -> log[d]]

MarkCommits(r) ==
    /\ mark[r] # NoMark /\ ~Conflict(mark[r])
    /\ log' = Marked(mark[r])
    /\ audit' = [d \in Drafts |-> audit[d] + (IF d \in mark[r].insert THEN 1 ELSE 0)]
    /\ answered' = answered \cup mark[r].told
    /\ mark' = [mark EXCEPT ![r] = NoMark]
    /\ UNCHANGED <<clock, draft, defaults, walk, faults>>
    /\ Owes

(* It is undone, by a conflict or a restart, and the client told nothing *)
MarkFails(r) ==
    /\ mark[r] # NoMark
    /\ mark' = [mark EXCEPT ![r] = NoMark]
    /\ UNCHANGED <<clock, draft, defaults, walking, log, audit, answered>>

-----------------------------------------------------------------------------
Init ==
    /\ clock = 0
    /\ draft = [d \in Drafts |-> NoDraft]
    /\ log = [d \in Drafts |-> NoRow]
    /\ audit = [d \in Drafts |-> 0]
    /\ defaults \in Defaults
    /\ walk = NoWalk
    /\ due = {}
    /\ faults = [missed |-> {}, twice |-> {}]
    /\ mark = [r \in Requests |-> NoMark]
    /\ answered = {}

Next ==
    \/ Tick
    \/ \E d \in Drafts : Create(d) \/ Regenerate(d)
    \/ \E d \in Handled : Move(d, "left") \/ Move(d, "queue")
    \/ \E x \in Defaults : SaveDefaults(x)
    \/ \E q \in Queries : Begin(q)
    \/ Continue \/ Answer \/ AnswerLast
    \/ \E r \in Requests :
           \/ \E b \in Batches : MarkReads(r, b)
           \/ MarkCommits(r) \/ MarkFails(r)

Spec == Init /\ [][Next]_vars

-----------------------------------------------------------------------------
(* Rows, walks and requests hold what the code puts there *)
TypeOK ==
    /\ clock \in 0..MaxClock
    /\ draft \in [Drafts -> Draft]
    /\ log \in [Drafts -> Log]
    /\ audit \in [Drafts -> Nat]
    /\ defaults \in Defaults
    /\ walk \in Walk
    /\ due \subseteq Drafts
    /\ faults \in [missed: SUBSET Drafts, twice: SUBSET Drafts]
    /\ mark \in [Requests -> Mark]
    /\ answered \subseteq Drafts

(* A walk that came to its end has served every draft that was in its      *)
(* filter from beginning to end and was not regenerated, whatever was      *)
(* created, regenerated, published or marked meanwhile, the draft at the   *)
(* cursor included; unless that draft got an older text, and the cursor    *)
(* jumped over those between the two (_drafts_query).                      *)
NoSkip == faults.missed = {}

(* No text is served twice in one walk, unless the draft at a cursor was   *)
(* regenerated and the walk began anew from the top (_drafts_query).       *)
NoRepeat == faults.twice = {}

(* Every row of draft_export_log has exactly one audit record of its own,  *)
(* and no request was told of a mark that was not kept until a             *)
(* regeneration cleared it: two requests for one draft, or one that names  *)
(* it twice, succeed at most once (_mark_one, regenerate_draft).           *)
MarksAccounted ==
    /\ \A d \in Drafts : audit[d] = IF log[d].row THEN 1 ELSE 0
    /\ \A d \in answered : log[d].row
=============================================================================
