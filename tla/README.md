# Scribely: specification of the news pipeline

TLA+ modules of the parts of this repository in which time matters (several
jobs, threads, editors, browser tabs and clients that read shared rows, do
something slow, and write) and of the checks by which a text is judged. Each
module is a translation of the code named in its header; TLC checks it on small
instances, and TLAPS proves every safety property for all (section 4).
`PROJECT.json` holds the inventory in detail: which definition stands for
which lines, the runs, the mutated definitions that every property was tried
on, the hazards, the divergences found and the theorems. Paths below are
relative to `src/`; `worker/`, `api/` and `rewrite/` are short for
`services/<name>/app/`.

## 1. The system

An RSS article becomes a published Russian text on this way:

    feeds --> poll --> raw_item --> cluster --> topic filter --> dispatch
                                                                  |  gRPC
                                            rewrite service <-----+
                                                                  |
    site  <-- export / tags <-- editors <-- compliance <-- draft <+

Three processes share one PostgreSQL database and nothing else: the **worker**
(APScheduler jobs in threads: poll, clustering, up to three dispatch ticks),
the **rewrite service** (a gRPC thread pool in front of the language models),
and the **api** (HTTP endpoints in threads, the editor's web sockets on one
event loop). Every job and request has its own SQLAlchemy session: rows are
loaded, changed in memory, and a commit writes the changed columns. Almost
nothing is locked; READ COMMITTED, unique constraints and the order of commits
are all that keeps concurrent writers apart.

| component | state | operations | what makes it hard | what makes it correct | module |
|---|---|---|---|---|---|
| Poller, circuit breaker, articles by hand (`worker/ingestion`, `api/routers/ingestion.py`) | `raw_item` rows; failures and pause of a `source` | poll a source, charge or clear the breaker, inject a URL | feeds repeat themselves; one bad entry undoes a whole feed | an article is stored once and keeps its date; a paused source is left alone | `Intake` |
| Clustering (`worker/dedup`) | `cluster_id`, clusters with their embeddings; a session that lives for minutes | attach, ask the model, defer, found a cluster | everything read at the start of the tick is old when it commits; the session's loaded collections; the model is silent | follow-ups never become a second story, doubts are asked, nothing moves once attached | `Intake` |
| Topic filter (`worker/filter`) | `topic_status`, priority | classify, rescore | classified once, articles come later | (inputs of the others) | `Intake`, `Dispatch` |
| Dispatcher (`worker/dispatch/pipeline.py`) | reservations in process memory, the failed-cluster row, quarantine, drafts | select, reserve, enrich, rewrite, record a failure, release | three ticks at once, calls without a deadline, rollbacks that take earlier changes with them, restarts | reservations end (those of a cycle whose `finally` blocks fail do not: section 5), duplicates are bounded, failures defer, healthy clusters get through | `Dispatch` |
| Draft budget and manual burst (`libs/common/generation_hours.py`) | counts per day and hour, the burst row | compute the room, count a draft, request, cancel, clear | checks before slow calls, a row that is cleared in memory and committed later, two time zones | the limit is overshot by less than one draft per tick, no increment is lost but by a tick that dies, a burst is served | `DraftBudget` |
| Draft lifecycle (`worker/compliance`, `worker/lifecycle`, `worker/dispatch/regenerate.py`, `api/routers/drafts.py`, `api/publish`) | the `draft` row, its revisions | gate, archive, regenerate, patch, publish, reject, return, snooze | last writer wins column by column; sessions that hold a draft for minutes | nothing forbidden is promoted, the SEO report fits the texts, what is published was filed | `DraftLifecycle` |
| Edit lock and presence (`api/websocket`, the page's script) | `draft_lock` rows, the room in memory | claim, beat, release, disconnect, report | tabs sleep and die, restarts forget the room, reports overtake each other | one editor at a time, the lock is a lease, every tab comes to show the editor | `EditLock`, `Lease` |
| Rewrite service (`rewrite/`) | round-robin cursor, enabled slots, usage rows | enrich, rewrite, review, translate; pick a slot, fail over | one thread per RPC over shared rows that are read first and written later; nested retries | load is even, one author per article, failover tries every slot, bounded spending | `Rotation` |
| Export feed for the site (`api/routers/integration_theunum.py`) | `draft_export_log`, the defaults of its filters; nothing of the client's walk | list a page, mark drafts as consumed | pages over rows that change, a cursor that is only an id, batches that are undone as a whole | a walk misses and repeats nothing, a mark is kept once and audited once | `ExportFeed` |
| Site categories (`libs/common/site_categories.py`, `site_category_sync.py`, `theunum_categories_client.py`) | a replica of the site's categories with aliases of former slugs | bootstrap, synchronise, resolve the slug of a draft, reconcile drafts | two fetches of one answer, rows found by id or by slug, drafts written meanwhile | the replica comes to agree with the site, and drafts follow a renamed category | `SiteCategories` |
| Text checks (`rewrite/rewrite/fact_diff.py`, `quote_check.py`, `banned_phrases.py`, `title_lead.py`, `schemas.py`, ...) | none, besides the settings they read | extract, match, judge, retry or store | greedy matching, tolerances, facts of several kinds in one text | what passes keeps the facts and invents none; what repeats the source passes | `FactDiff`, `TextReview`, `Review` |
| Body layout and languages (`libs/common/rewrite_body_format.py`, `rewrite_output_locales.py`, `export_language.py`) | the chosen languages | split, regroup, show | a body is cut and merged each time it is shown | nothing of a draft is lost on the way out | `BodyFormat`, `Review` |
| Statistics, administration, authentication, prompts, extraction, infrastructure | single rows or none | forms, aggregates, conversions | little | | not modelled |

How they interact: `Intake` produces the classified clusters that `Dispatch`
ranks (any ranking: `Ranks`), and its action `Draft` stands for the commit of
`Dispatch`. `Dispatch` and `DraftBudget` are two views of the same loop
`run_dispatch_cycle`: which cluster is drafted, and how many are. What
`Rotation` does inside an RPC is, for both, an answer or an error. A draft that
`Dispatch` commits enters `DraftLifecycle` as `drafting`. `EditLock` is advisory:
`publish_draft` and the others do not look at it, except the publish form of the
page, so `DraftLifecycle` does not depend on it. `ExportFeed` sees of the lifecycle
that a draft appears, is regenerated, leaves the queue and comes back. `Review` is
the other view of a `RewriteCluster` RPC: `Rotation` counts what its attempts cost,
`Review` says what they may lead to; both leave the same two ends, a draft or
none. The slug a draft of `Dispatch` carries is resolved as in `SiteCategories`.

## 2. The modules

A module `X` has the component, `MCX` the values of its constants, `XProofs`
its theorems (`DraftProofs` those of `DraftLifecycle` and of `EditLock`). Every
module says in its header what it abstracts.

**`Dispatch`.** One process per instance of the job `rewrite_dispatch`
(`max_instances`), with the program counter `pc[t]` at the statements of
`run_dispatch_cycle` that touch shared state: `BeginCycle` (the exclusions are
read), `Reserve` (`_reserve_candidates`, under the process's lock),
`NextCandidate` or `CapReached`, then the calls (`EnrichSucceeds`,
`EnrichExcludes`, `RewriteSucceeds`, `CallFails`, `QualityGateFails`), the count of
the burst (`BurstRecorded`), the two `finally` blocks (`ReleaseCandidate`,
`ReleaseAll`), `FinishCycle` or `AbandonCycle`. `failedQueue` is the JSON row as
committed, `queueRead[t]` as the session has read it and `struck[t]` the failure it
has added; `RollbackAndRecordFailure` is the exception handler with the rollback that
forgets what earlier candidates recorded. The administrator lifts quarantines, six
hours pass (`DeferralEnds`), the worker restarts (`Restart` empties the memory and
every session). What is not an `RpcError` may be raised anywhere in the cycle (`Raise`,
`RaiseAfterQuarantine`) and leaves by the `finally` blocks, unless they fail too
(`StrandReservations`): after a write that the database refuses, `cluster.id` cannot be
read; after a rollback (`expired[t]`) it is read from the database again; and a channel
that is not built fails before the `try`. `stranded` remembers what such a cycle leaves
reserved. `LoopStep` is what a thread does without waiting for an answer.

**`DraftBudget`.** The same loop seen from the counters: the room at
`BeginCycle`, the check before each candidate (`CheckLimit`), the draft
(`RewriteSucceeds`), the burst's `SELECT ... FOR UPDATE` and its commit
(`LockBurst`, `CommitBurst`). `clearing[t]` is the null that
`load_manual_burst` leaves in the session. A cycle may raise before a draft
(`CycleRaises`) or after it is committed and before the burst has counted it
(`RaiseUncounted`); a restart may fall there as well. `made` and `missed`, drafts since
the burst was requested and those nobody lived to count, are history variables. Hour, day and the configured zone's
day begin at any time; midnight of the two zones alternates.

**`DraftLifecycle`.** A session opens with a copy of the rows it loads (`Open`),
and its flush writes the columns that differ from what it loaded over the row as
it is by then (`Merge`). Writers: the poll tick's two stages, the editors'
requests in two steps (read and decide; flush and commit), and regeneration
batches, whose copies are minutes old. The version check of `patch_draft` is in
`PatchReads`, where the code has it. `overtaken[d]` is a history variable: some
session stored `d` over a version it had not read.

**`EditLock`.** One action per socket handler, since a handler runs without an
`await` until it reports; the report is sent tab by tab (`Deliver`), so reports
interleave. A tab leaves, sleeps, wakes or dies; a row expires; the api
restarts. `Lease` is the abstract specification: one holder, taken only when free,
and lost in the end by a holder who is away. `LockIsALease` is
`Lease!Spec` under the mapping `holder <- Editor, away <- Away`.

**`Rotation`.** One process per article, `StartEnrich` and then `StartRewrite`.
A call of `call_with_rotation` is `BeginCall`, the read and the commit of the
cursor (`PickCommits`, `PickCollides`: of two first picks the second may insert its row
in vain, or find the first's row by then and write over it), one `SlotReplies` per slot tried, and the
usage row (`RecordCommits`, `RecordCollides`, `RecordFails`). The verdicts on an
answer (`JudgeEnrichment`, `JudgeRewrite`, `JudgeReview`, `JudgeTranslation`) are
free choices that lead where the code's retry loops lead.

**`Intake`.** Polls (`Poll`, `PollFails`, `PauseEnds`), `Inject`, and the
clustering tick as one long transaction: `TickStarts` reads the batch, the
recent clusters, their articles and which are drafted into the record `tick`;
each decision (`Attach`, `Confirmed`, `Refused`, `Deferred`, `Found`) is one
step; `TickCommits` writes them all, `TickLost` none. `tick.seen[c]` is the
loaded collection `cluster.raw_items`: it contains what the database had, not
what the session attached by `cluster_id`, unless a question reloaded it after a
flush (`Loaded`). A cluster is named after the article that founded it.
`dedup.llm_confirm_enabled` is on, as by default.

**`ExportFeed`.** A client's walk over `list_export_drafts`: `Begin` and `Continue`
are the first half of a request (defaults, clock and the place of the cursor are
read), `Answer` and `AnswerLast` the second (the page is selected). Between two
pages rows are created, regenerated, moved out of the queue and back, and marked; a
regeneration ends in or out of the queue, as the gate says, may delete the mark
(`ClearExport`), and may commit after another one with a later stamp.
Filters are bounds on `created_at` and `content_generated_at`, as the presets and
parameters become in `resolve_export_time_cutoffs` and
`resolve_content_generated_since`. `due` is a history variable: the drafts in the
filter ever since the walk began, with the text they had, but those over which the
cursor `Jumped` because its draft got an older text. A mark-consumed request
is `MarkReads`, then `MarkCommits`, or `MarkFails` if a row is there twice, or if one
that it updates is gone.

**`SiteCategories`.** `rows` is the replica, one row per id at most besides those of
the bootstrap; `cms` is the site's own list (external), `pending` the slug of drafts
under work. A synchronisation is `SyncStarts`, `SyncReads` (the Russian and the
English list come from two requests, so `CmsChanges` may lie between; the session
then has its updates and inserts) and `SyncCommits`. What a session changes is kept
column by column (`updates`), as the ORM flushes it. A synchronisation that finds no
active row, which takes two that overlap, inserts the default rows and flushes them
before it maps the drafts (`Boots`, `Clash`). What an open session keeps of its reads,
the two lists `en` and `ru` and the rows `loaded`, is history, for the properties. `DraftResolves` and `DraftCommits` are the rewriting
session that gives a draft its category.

**`FactDiff`, `TextReview`, `Review`.** `FactDiff` is `fact_diff.py` as operators on
texts, where a text is a sequence of figures, dates, names and words: what is
extracted, when two figures match, the greedy matching of required and rewritten
ones, the findings and their severity. `TextReview` has the other filters (quotes,
banned phrases, title and lead, semantic answers), the choice of required facts,
the schema and the verdict. `Review` is `rewrite_cluster` over these: `Begin`,
`Attempt` (rejected by the schema, retried by the strict gate, or stored with its
report), the administrator's settings, and what an export then shows. Regular
expressions are not modelled: which characters are a figure or a name is given.

**`BodyFormat`.** `rewrite_body_format.py` on bodies that are sequences of
paragraphs of sentences of words with a length: each part is dealt to the shortest
group (`GroupIntoN`), the longest paragraph is split, the shortest neighbours merge.
A body that the code cuts inside a word is left out: one of less than three words, or
one of two paragraphs of which the longest is a single word
(`_split_by_char_chunks`). The premise `CutInsideWord` of `ShownWhole` names them.

The loops of these four modules are recursive functions along a sequence, of the
form in which TLAPS can reason about them.

## 3. What the runs check

| run | instance | question |
|---|---|---|
| `Dispatch` | 2 ticks, 2 clusters, a batch of 2, any ranking, failing, excluded and quarantined candidates, cap, restart, exceptions, refused writes, silent calls | whose are the reservations, do they end, and how many drafts can a cluster get |
| `Dispatch_live` | 2 fair ticks, batches of 2, 3 clusters: the best always fails, the second may | does the healthy cluster get its draft, who may end a deferral |
| `DraftBudget` | 2 ticks, limit 2, target 1, batch 2, a burst of 2, two zones, one fault | by how much are limit and target exceeded; which drafts of a burst are not counted |
| `DraftBudget_live` | 2 fair ticks, limit 1, a burst of 2, one zone | is a burst served when day and hours say no |
| `DraftLifecycle` | 1 draft, 3 texts (passing, weak, forbidden), an editor, a batch, the poll tick | gate, SEO report, filed text; fresh drafts are gated |
| `EditLock` | a tab of each of two users, one of which sleeps; restarts | one editing row, the lease, presence converges |
| `Rotation` | 2 articles, 2 slots, 2 attempts | even load, same author, bounded spending, failover tries all |
| `Intake` | a feed of 2 articles, 2 by hand, batches of 2, windows of 0 and 1, 1 question per pool | follow-ups attach, doubts are asked, open stories come first |
| `Intake_tick` | the same without the clock and without failures | *violated*: every source of a cluster is compared with |
| `ExportFeed` | 3 drafts of which one leaves the queue and is regenerated and marked, a clock of 2 days, pages of 1 or 2, 2 requests that mark it with, without and with two references | does a walk miss or repeat a draft, are marks kept and audited |
| `SiteCategories` | 2 categories with 3 slugs of which they share one, 2 changes of the site, a draft | does the replica come to agree, do drafts follow a rename |
| `Review` | stories about figures, dates, people, quotes, advice, facts to choose from, and layout; texts of up to 2 or 3 items, 2 attempts | what an unblocked draft keeps and may not invent, what is not blocked, what is shown |

**Why these bounds.** The interesting cases are pairs: two ticks of one job, an
editor and a machine, two tabs, two threads. A third instance of the dispatcher
is covered by the proofs, which are for any number. Two clusters let a batch
hold one that fails and one that does not; `Dispatch_live` needs a third so that
the healthy one ranks last. `Dispatch` lets a cluster fail three times, once more than
defers it (`MaxFailures`), and one of the two clusters come back. A limit of 2 with batches of 2 lets both ticks pass
the check with the last place. `MaxVersion` 2 leaves a draft one write that
another session does not know of; a third version repeats that situation. Two
attempts are one retry, and two slots one failover; the order in which a walk
wraps round is exercised because either slot may be first. In `Intake` the
four articles are: a near b, b near c, a only like c, and d which is like a and
c. So there are a chain that is near step by step only (the case of
`EverySourceCompared`), a doubtful match in an open and in a handled cluster, and
batches that leave articles behind. `MaxNow` 1 lets the freshness window (0) pass
but not the cluster window (1); that clusters outside the window behave is part
of the theorems, which hold for every window. Articles stored in one
transaction share `fetched_at`, and the tick may take them in either order.
`ExportFeed` needs three drafts: one served, one at the
cursor, one after it, so that a regenerated cursor can overtake and be overtaken; pages
of 1 make every draft a cursor. Two slugs per category with one in common are the
least with which a slug changes its owner, and two changes let it do so between the
two fetches of one synchronisation. The run has the worker's synchronisation alone;
that types and renames hold with an administrator's beside it is proved, for any number
of synchronisations. (With two, TLC has also been through the safety properties for 3
changes of the site and through `Settles` for one; no run of the project repeats it.)
`Review` takes each kind of fact in a story of its own, since the
checks of one kind read no other; sums are a power of ten apart, shortened, or equal
to a plain count, since those are the tolerances of `_numbers_match`; three dates are
the least with which greedy matching fails. Bodies for the layout are all divisions
of 3 to 6 words into sentences and paragraphs. The limits of the code (12 facts, 3
numbers, 3 attempts) are 2, 1 and 2.
Every bound is a CONSTANT in a `.cfg` (`MaxRequests`, `MaxFaults`, `MaxVersion`,
`MaxAttempts`, `MaxNow`, `MaxFailures`, `MaxClock`, `MaxChanges`, `FactLimit`,
`NumberLimit`).

**Fairness.** `Dispatch` assumes only that a thread goes on (`LoopSpec`): calls
may stay without an answer for ever, since the client sets no deadline
(`libs/common/grpc_client.py:11`), and no cycle has to begin. `Dispatch_live`
and `DraftBudget_live`: weak fairness of a tick's steps, since the
scheduler fires each job every minute and gRPC reports a lost connection; a peer that
accepts a call and is silent for ever is outside of it, for with every instance of the
job waiting for such a peer nothing more is drafted, whatever the code does. `Dispatch_live`
has no faults either: a cluster left reserved by a
refused write is drafted after the next restart only.
`DraftBudget_live` adds strong fairness of a cycle that finds room, of the look at
the limit, and of the answers `rewrite` and `draft`: an eligible cluster turns up, not
every cycle raises and not every call fails, without which no burst could be served by
any code. `DraftLifecycle`:
the poll tick comes every minute and each stage's commit, if it is reached again
and again, succeeds some time; editors and batches owe nothing. `EditLock`: an awake
tab beats, the event loop runs every coroutine that is ready, and time passes;
nobody has to open, leave or wake. Handlers of a socket get strong fairness because
they wait for their own report to be sent, again and again. `Rotation` and `Intake`
have no liveness properties: nothing in the code makes a language model answer.
`SiteCategories`: the job comes every day, the site answers it again and again
(strong fairness, since a failed fetch is just tried the next day), and a commit in
conflict raises. `ExportFeed` and `Review` have none: a client may stop in the middle
of its walk.

Deadlock is checked in every run but `Review`, whose story ends with a draft or a
dead cluster.

## 4. What is proved

All proofs are for arbitrary finite sets of ticks, clusters, articles, users and
for arbitrary limits, within the named assumption of each module
(`IntakeAssumption`, `DispatchAssumption`, ...), which say no more than that the
parameters have their types and that a feed's articles are its own. Those about
texts (`TokenAssumption`, `LettersAssumption`, `StoryAssumption`) say that sources,
facts and answers are made of words, that a name is a sequence of spellings and not
empty, that a word has a letter at least, and that the limits are natural numbers.

- **`DispatchProofs`**. `TypeCorrect` with `LoopInv` (what the loop knows of
  batch, todo and current at each label). `NoOrphans`: a reserved cluster is one that a
  running tick has not finished, or was left behind by a cycle whose `finally` blocks
  failed; it needs `LoopInv`, since the `finally` block releases
  the batch and not the reservations. `DuplicatesAreBounded`: at most one draft per
  cluster and job instance. By itself that is not inductive; the strengthening
  `DuplicatesAccounted` counts, besides the drafts, the ticks that may still make
  one on exclusions from before the first (`MayStillDraft`). A step can turn one of
  these into a draft (`RewriteLeaves`), and no step adds one (`OtherStepsShrink`),
  because a cycle that begins later reads the draft. `TypesHold`: an entry is deferred
  only after two failures. `DeferralsHold`: however cycles overlap, a commit that undoes
  a deferral writes a row that was read before it, since the row a session writes is the
  one it read with one failure more, and that never ends a deferral (`StruckKeeps`,
  `StepQueue`). `DeferralsLastAlone`: where the job has one instance, what its session
  has read is what the row is (`ReadIsRow`), so no deferral is lost at all; with two,
  one can be (section 5).
- **`DraftBudgetProofs`**. `LimitOvershootIsBounded`, by `OvershootAccounted`:
  drafts that the limit let pass, plus candidates under way that it let pass, are
  fewer than limit plus ticks. `HourOvershootIsBounded` needs more than a count of
  drafts: the hour's drafts and what every tick may still make of the candidates it has
  taken (`Outstanding`) together exceed the target by at most one batch for each other
  tick (`HourBound`). A draft moves one from the second to the first, a cycle that
  begins asks for no more than the target leaves, and an hour that begins forgets the
  drafts, not what is outstanding. `NoIncrementIsLost`, by `RowInv`: between
  the `SELECT ... FOR UPDATE` and the commit nobody else writes the row, so a copy that
  will be written differs from the row by the one draft it adds; a tick that dies in
  between takes its draft from those about to be counted to those missed (`MissRow`),
  and one that dies later has counted. `TypesHold`.
- **`IntakeProofs`**. All properties of the run `Intake`, and that no article leaves
  its cluster, that a stored one keeps its row, and that a paused source is not asked.
  The inductive invariant `IInv` says what remains true of a tick's reads until it
  commits: what it works on is in no cluster (`DecisionsOpen`) and no recent article is
  missing from what it compares with (`RecentSeen`): both because only the one
  tick writes `cluster_id`, and windows only close. `AttachedStay` and `FollowUps`
  follow. `DoubtsAsked` needs a second invariant, `AskedInv`: of every pool the
  tick has asked about, it has asked about a strongest cluster.
- **`ExportFeedProofs`**. All properties of the run, for any drafts, page sizes, filters and requests. The lemmas are about pages: a page followed by
  more is not empty and everything listed but not on it comes after its last draft
  (`PageEnds`); the last page has all that is listed (`LastPageIsAll`). The invariant
  `WalkInv` has two parts. Between pages (`PagingInv`), what is owed and not served
  comes after the place at which the last page ended, wherever the draft at the cursor
  is by now; what it jumps over when it is looked up again is not owed. While a page is selected
  (`ReadingInv`), what is owed passes the filter that was read, although that may be
  older than the clock and the defaults. `NothingSkipped` and `NothingRepeated` follow;
  `MarksAreAccounted` needs of a request under way that whom it does not insert has a
  row already (`MarkKnows`), which a regeneration that deletes the row takes back
  (`ClearType`).
- **`RotationProofs`**. All properties of the run `Rotation`, for any articles, slots,
  keys and attempts, and whatever the administrator enables. `IInv` has two parts.
  `CallInv` says of a thread what it has paid for: `N` requests for each call it may
  have completed (`Units`, which `NextAttempt` and the next pass raise by one at
  least), and one for each slot it has asked in this call; which slots have failed is
  what its walk has taken out of the keys; and it is with its author until that slot
  is out. `SpendIsBounded`, `AuthorIsKept` and `GivesUpAfterAll` follow. `LoadInv`
  says that, while calm, the slots whose rank is below the cursor modulo their number
  have been chosen once more than the others; a pick keeps it because the slot under
  the cursor is the one of that rank (`ChosenFacts`, by counting) and the remainder
  goes round (`NextRemainder`).
- **`DraftProofs`**. The safety properties of the run `DraftLifecycle`, for any
  drafts, texts, verdicts, editors and batches. The invariant says of every copy of
  a row that somebody holds (`Snapshot`): while no writer has overtaken another, the
  row is not older than the copy, and if it is at the copy's version it has the copy's
  texts. That is kept because every writer leaves the texts alone or takes the next
  version (`Revises`), and then a commit over the version it had read stores the texts
  it has although it only writes the columns that differ (`MergeFacts`,
  `CommitMoves`). `ReportStaysCurrent` is a part of the invariant;
  `PublishedIsFiled` and `BlockedStayBlocked` follow from what a commit that brings a
  row into a status must have meant (`FlushEnters`, `RewriteEnters`). `PublishedAreSupported`
  joins the two: a text that goes public contains the figures of its pack, because the
  report the publish guard found clean (`PublishGuarded`) is still that of the texts
  stored at the commit. Like `SyncSettles` below, `PublishedIsSupported` is stated in the
  proof module; TLC has been through it with the constants of the run, but no run repeats
  it.
  Of `EditLock`: `EditingRowIsUnique`, which is inductive with the type of the rows;
  `LockTypeOK`, for rows, rooms and reports; and `LockStepsAreLeaseSteps`: every step
  maps to a step of `Lease` or to none (the safety half of `LockIsALease`).
- **`ReviewProofs`**. All properties of the run `Review`, for sources, facts and answers
  of any length. The invariant `Reviewed` says that a draft carries the findings of its
  own text, made against the sources and facts it still has, and beside them only those
  of the semantic review; what is left is what the filters compute. They compute along
  sequences, and no induction over sequences can be cited here. So each loop gets an
  equation of its own that says what it computes step by step (`Steps`, `Keeps`,
  `Pairs`, `Chooses`, `Deals`, `Merges`); a solution exists (`Recursion`, from the
  well-foundedness of the numbers), the operator is one, and what holds of it is
  proved by climbing from one index to the next (`Climb`).
  - `FiguresKept` (`KeptOrBlocked`): the greedy matching never gives one figure to two
    (`Matched`), so where nothing is reported missing it is an injection.
    `NothingInvented` (`Grounded`): what has no partner is reported, and only figures
    without a unit are let off.
  - `RepetitionIsFine` (`RepetitionPasses`): greedy matching finds a partner for each
    if the partners come in the order of what is matched (`InRow`): the n-th takes its
    own or an earlier one, and leaves the later ones theirs (`Seated`). That is why the
    property demands the order, and that no two figures are a power of ten apart: it
    fails without (section 5).
  - `NothingLost` (`ShownWhole`): how often a word is said is a weight that
    concatenation adds up (`Weight`). Dealing a part raises the weight of one group by
    that of the part (`OneGrows`), so the groups together weigh what was dealt
    (`DealtWeighs`), whichever group is the shortest. Merging two neighbours leaves
    even the order alone (`MergeKeeps`), hence the stronger promise from three
    paragraphs on. That no language is lost needs the invariant `LocalesKnown`:
    neither the settings nor a draft are ever without one.

  `Reviewed` and `LocalesKnown` are stated in the proof module; TLC has been through
  them with the constants of the run, but no run repeats it.
- **`SiteCategoriesProofs`**. `TypesHold`: the types of rows and sessions hang on
  choices, so most of it shows that none is made from nothing. A fetched category has a
  first and a last slug, since the listings of two locales are a total order
  (`ListingOrdered`) and a finite ordered set has a last element (`LastExists`), and a
  resolution sees an active row or the default ones (`ReconciledType`). `RenamesFollow`:
  the invariant `Sound` says of an open session that it writes only rows it has loaded,
  that no two rows get one id, and that a draft is mapped by the row it renames if no
  other loaded row means the old slug, before or after (`Follows`). The last holds since
  what a session sees in a row it either leaves there or writes (`SeenMeans`), and the
  renamed row keeps its old slug as an alias. The theorem follows when the rows are still
  those it loaded (`CommitLeaves`). `OneSyncSettles` is what safety can say of `Settles`:
  a synchronisation that read one list for both locales and commits over the rows it
  had loaded leaves active exactly the slugs of the list, unless two categories are
  entangled or the default rows come in. The list and what the session will leave active
  agree from the reads on (`Agrees`: each slug is kept or set by its own row, by the row
  that is handed to its category, or by a new one), which needs that the site never has
  a slug twice (`Distinct`); the commit then leaves just that, since no row is handed the
  id of a new one (`FreshIds`). `SyncSettles` is an action property of the proof module;
  TLC has been through it for two synchronisations and two changes of the site, but no
  run repeats it.

Only model-checked: what is temporal under fairness (`ReservationsEnd`,
`HealthyClustersDrafted`, `BurstServed`, `FreshDraftsGated`, `PresenceConverges`,
`Settles`, and the liveness of `Lease` in `LockIsALease`), which this prover cannot do.
Every other property of the passing runs is a theorem (`DeferralHolds` included); of `Settles`, `OneSyncSettles`
proves the step its fairness has to bring about, and of `LockIsALease` every step is
proved.

## 5. Where code and documentation differ

Shown by a run, with the line it contradicts, in `PROJECT.json`: a second cluster
for one story (`Intake_tick`).

Met while modelling; the models contain them, so the properties above hold with
them or say where they do not:

- A cluster can be drafted twice, once per job instance, although the comment at
  `worker/dispatch/pipeline.py:57` has reservations prevent it: the exclusions a tick
  acts on are older than its reservations.
- The null of a dead burst, left in a session, is committed over a burst requested
  meanwhile (`libs/common/generation_hours.py:433`).
- A batch loads drafts of the queue once and regenerates them minutes later, also
  those published since (`worker/dispatch/regenerate.py:136`, `:156`).
- The second release of a candidate (`worker/dispatch/pipeline.py:379`) frees the
  reservation another tick has made of the same cluster meanwhile. It is why
  duplicates are bounded by the number of ticks and not by one.
- A failure recorded for one candidate is undone by the rollback of the next (`:356`),
  so a cluster may fail more than twice before it is deferred; the others are drafted
  all the same (`Dispatch_live`).
- The count of a burst misses a draft whose tick raises or dies between the two commits
  (`:351`, `:354`); `NoIncrementLost` says that it misses no other.
- When a write is refused, the session raises at `cluster.id` in both `finally` blocks
  (`:376`, `:380`), the "defensive release for exceptions outside a single RPC handler"
  (`:378`) included: the clusters of the batch stay reserved, and invisible to every
  later cycle, until the worker restarts. So they do when `build_rewrite_channel` fails,
  which is before the `try` (`:297`). `NoOrphanReservation` and `ReservationsEnd` name
  the case (`stranded`).
- The queue of failures is one row, read and stored whole (`:122`), so of two ticks that
  record failures at once the later commit undoes the deferral the earlier one has
  stored, although "a second failed attempt defers that cluster for six hours" (`:258`).
  `DeferralHolds` says that nothing else ends a deferral before its time.
- The daily limit can be exceeded by one draft less than there are ticks, although
  the comment at `:303` has it re-checked so that it is not.
- Limit and count of a burst use two time zones
  (`libs/common/generation_hours.py:369`, `pipeline.py:48`): around midnight a burst
  may find no room. `DraftBudget_live` is therefore for one zone.
- The version check of `patch_draft` (`api/routers/drafts.py:345`) reads the version
  but the update does not repeat the check, so `StaleEdit` misses a concurrent save.
- A draft can be promoted on a verdict about its former text
  (`worker/compliance/pipeline.py:73`), and archived at once when it returns from
  snooze, since its age counts from creation (`worker/lifecycle/archival.py:30`).
- A tab that is closed releases the lock of the same user's other tab
  (`api/websocket/lock_manager.py:86`).
- Two publish requests of one draft both succeed (`api/routers/drafts.py:386`).
- The cursor of the rotation is documented as advanced once per `EnrichCluster`
  (`rewrite/rewrite/rotation.py:38`), but retries, reviews and translations advance
  it too, and picks that overlap lose an advance; `EvenLoad` is about calm times.
- `AllKeysExhausted` in the semantic review discards a finished rewrite; a failed
  usage row of the translation leaves a session that the RPC cannot use any more.
- Two overlapping injections of one URL store it once, but the second answers 500
  instead of the promised no-op (`api/routers/ingestion.py:48`).
- The breaker's count survives the pause (`worker/ingestion/circuit_breaker.py:33`):
  the first failure afterwards pauses the source again.
- A client whose cursor is regenerated between two pages starts from the top again
  (`api/routers/integration_theunum.py:135` looks the cursor's place up anew); it
  misses nothing, but is served drafts twice. Only when two regenerations commit in
  reverse order (a text is stamped before the gate and the commit) the cursor moves down and the drafts between are missed; `NoSkip` names the case.
- One batch that names a draft twice, or two requests at once, end in an error and
  undo the whole batch (`:392`).
- The worker's synchronisation of categories rolls back the error it has just recorded
  (`libs/common/site_category_sync.py:195`). Two categories, of which one takes over a
  slug that the row of the other still has, take that row from each other day after day
  (`:56`); `Settles` names the case. Drafts may be mapped to a category which the same
  session has just switched off (`site_categories.py:305`), until the next day; and a
  static alias wins over an active slug of the site (`:168`).
- Nothing keeps the job's synchronisation and the administrator's apart
  (`api/routers/admin.py:1037`, `worker/sync/theunum_categories.py:19`). The columns that
  the later one writes are based on rows the earlier one has changed since: a draft may
  then stay with a slug that no category has any more, which `RenameFollows` excludes by
  `UpToDate`, and every row may end inactive, until the next day.
- A figure repeated word for word is reported as distorted when an earlier figure of
  the source is a power of ten apart, although `rewrite/rewrite/fact_diff.py:711`
  promises that the full source is an allow-list. Dates are matched greedily (`:814`):
  6 May, May and 5 May of the facts are not all found in "May, 5 May, 6 May".
  `RepetitionPasses` excludes both.
- A number followed by a word that begins with a suffix letter is multiplied
  (`fact_diff.py:286`); the coverage floor (`:17`) never decides; one distorted figure
  is counted twice; facts of the kind "who" are not capped
  (`rewrite/orchestrator.py:61`); the model's `approved` is read by nobody.
- A body of two paragraphs, or of one sentence, has its sentences or words dealt out in
  turn, so they are shown and exported in another order
  (`libs/common/rewrite_body_format.py:32`); `ShownWhole` promises the order from three
  paragraphs on, and of the others only that each word is said as often. The upper
  bound of six paragraphs can never fail, for the body is merged
  before it is counted, and two paragraphs of one letter each are merged and split for
  ever (`:84`).
- A draft written in Russian only is exported blank once the languages are switched to
  English (`libs/common/export_language.py:37`).
- `record_token_usage` is called atomic but reads, adds and writes
  (`libs/common/llm_token_totals.py:42`).

## 6. Not modelled, and why

Embeddings and scores are data: the models take the verdict of the compliance
rules, the SEO report, the similarity of two articles and the ranking of clusters as
constants or as free choices. The regular expressions that find figures, dates, names
and quotes in characters, HTML extraction, the SEO rules, the check for duplicate
texts, the cutting of one long sentence by characters
(`rewrite_body_format.py:46`), prompts, statistics, forms, tokens of authentication,
migrations and process start have no state of their own that another part reacts to.
`ConfirmDuplicate` is an answer in `Intake`. Administrative edits of settings while
a tick runs are modelled where a value is read twice or read late (slots, burst,
generation hours, export defaults, banned phrases, gate, languages), and constant
elsewhere. The schema document of the export and the endpoints that pass on to
other parts are formatting.

## 7. Plan

1. The token totals, and the administrator's updates with bounds (models enabled at
   once) as one small module of read-modify-write rows.
2. A composition of `Dispatch` and `DraftBudget` over one loop, showing that each
   implements the other's view.
