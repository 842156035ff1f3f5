--------------------------- MODULE DraftLifecycle ---------------------------
(***************************************************************************)
(* The life of a draft: one Draft row, and everybody who writes it.        *)
(*                                                                         *)
(*  - the poll tick of the worker gates fresh drafts (compliance/          *)
(*    pipeline.py) and archives old ones (lifecycle/archival.py);          *)
(*  - regeneration batches rewrite drafts of the queue with the language   *)
(*    model (dispatch/regenerate.py, dispatch/draft_apply.py);             *)
(*  - editors patch, publish, reject, return, snooze and unsnooze          *)
(*    (routers/drafts.py, publish/service.py).                             *)
(*                                                                         *)
(* None of them locks the row.  A session reads the row, decides, changes  *)
(* its copy, and its commit stores the columns whose value differs from    *)
(* the one it read: the last writer of a column wins.                      *)
(*                                                                         *)
(* Abstracted: a text is a member of Bodies, of which only the verdict of  *)
(* the compliance rules matters; the SEO pack is a member of Metas, which  *)
(* a body does or does not support; the cover licence is confirmed.        *)
(***************************************************************************)
EXTENDS Naturals

CONSTANTS
    Drafts,
    Bodies,       \* texts of a draft
    Verdict,      \* Verdict[b]: the status the compliance rules give to text b
    Metas,        \* SEO packs
    Supports,     \* Supports[b]: the packs whose figures text b contains
    Editors,      \* requests of editors that may be open at once
    EditorOps,    \* the endpoints they call
    Batches,      \* regeneration requests that may run at once
    Worker,       \* the poll tick (one instance)
    MaxVersion,   \* no edit is made beyond this version (bound)
    Nothing       \* no draft, no snapshot, no text

Queue == {"ready_for_review", "needs_fix"}   \* REGENERATABLE_STATUSES
Status == Queue \cup
    {"drafting", "published", "rejected", "snoozed", "archived"}
Decision == [publish   |-> "published",  reject |-> "rejected",
             needs_fix |-> "needs_fix",  snooze |-> "snoozed",
             unsnooze  |-> "ready_for_review"]

ASSUME LifecycleAssumption ==
    /\ Verdict \in [Bodies -> Queue \cup {"drafting"}]
    /\ Supports \in [Bodies -> SUBSET Metas]
    /\ EditorOps \subseteq DOMAIN Decision \cup {"patch"}
    /\ MaxVersion \in Nat \ {0}
    /\ Worker \notin Editors
    /\ Nothing \notin Drafts \cup Bodies

VARIABLES
    row,        \* row[d]: the committed columns of draft d
    final,      \* final[d]: text of its newest human_final revision
    txn,        \* txn[s]: the open session of an editor or of the poll tick
    page,       \* page[e][d]: the version of d that editor e has on screen
    stage,      \* the stage the poll tick is at
    regenBase,  \* regenBase[b]: the drafts batch b still has to do, as loaded
    regenNow,   \* regenNow[b]: the draft it waits for the language model on
    stale,      \* stale[d]: d was created longer ago than the archive TTL
    overtaken   \* history: a session stored d over a version it had not read

vars == <<row, final, txn, page, stage, regenBase, regenNow, stale, overtaken>>
regen == <<regenBase, regenNow>>

-----------------------------------------------------------------------------
Row == [status: Status, version: 1..MaxVersion, body: Bodies, seo: Metas,
        seoBlocked: BOOLEAN]
Sessions == Editors \cup {Worker}
Ops == DOMAIN Decision \cup {"none", "patch", "compliance", "archival"}
Loaded(f, T) == DOMAIN f \subseteq Drafts /\ f \in [DOMAIN f -> T]

TypeOK ==
    /\ row \in [Drafts -> Row]
    /\ final \in [Drafts -> Bodies \cup {Nothing}]
    /\ \A s \in Sessions :
          /\ txn[s].op \in Ops
          /\ Loaded(txn[s].base, Row) /\ Loaded(txn[s].copy, Row)
          /\ DOMAIN txn[s].base = DOMAIN txn[s].copy
    /\ page \in [Editors -> [Drafts -> 0..MaxVersion]]
    /\ stage \in {"compliance", "archival"}
    /\ \A b \in Batches : /\ Loaded(regenBase[b], Row \cup {Nothing})
                          /\ regenNow[b] \in DOMAIN regenBase[b] \cup {Nothing}
    /\ stale \in [Drafts -> BOOLEAN] /\ overtaken \in [Drafts -> BOOLEAN]

NoTxn == [op |-> "none", base |-> << >>, copy |-> << >>]

\* seo_blocking_issues(review_draft_seo(...)): a figure of the pack that the
\* text does not contain is a blocking issue.
SeoBlocked(body, seo) == seo \notin Supports[body]

\* The dispatcher has just stored the drafts, each with its own report.
Init ==
    /\ row \in {f \in [Drafts -> Row] : \A d \in Drafts :
                  /\ f[d].status = "drafting" /\ f[d].version = 1
                  /\ f[d].seoBlocked = SeoBlocked(f[d].body, f[d].seo)}
    /\ final = [d \in Drafts |-> Nothing]
    /\ txn = [s \in Sessions |-> NoTxn]
    /\ page = [e \in Editors |-> [d \in Drafts |-> 0]]
    /\ stage = "compliance"
    /\ regenBase = [b \in Batches |-> << >>]
    /\ regenNow = [b \in Batches |-> Nothing]
    /\ stale = [d \in Drafts |-> FALSE]
    /\ overtaken = [d \in Drafts |-> FALSE]

-----------------------------------------------------------------------------
\* UPDATE of the columns whose value in the copy is not the loaded one.
Merge(now, base, copy) ==
    [col \in DOMAIN now |-> IF copy[col] # base[col] THEN copy[col] ELSE now[col]]

\* The rows become these, in a session that had read the ones in loaded.
Store(rows, loaded) ==
    /\ row' = rows
    /\ overtaken' = [d \in Drafts |->
                       \/ overtaken[d]
                       \/ d \in DOMAIN loaded /\ loaded[d].version # row[d].version]

Open(s, op, D, Change(_)) ==
    /\ txn[s] = NoTxn
    /\ txn' = [txn EXCEPT ![s] = [op   |-> op,
                                  base |-> [d \in D |-> row[d]],
                                  copy |-> [d \in D |-> Change(row[d])]]]

Flush(s) ==
    LET t == txn[s] IN
    /\ t # NoTxn
    /\ Store([d \in Drafts |-> IF d \in DOMAIN t.base
                               THEN Merge(row[d], t.base[d], t.copy[d])
                               ELSE row[d]], t.base)
    /\ txn' = [txn EXCEPT ![s] = NoTxn]

WithStatus(r, status) == [r EXCEPT !.status = status]

\* A slip: what blocks a draft is only noted.
GateOpen(r) == WithStatus(r, IF Verdict[r.body] = "drafting"
                             THEN "ready_for_review" ELSE Verdict[r.body])

\* _gate_draft: a blocked draft stays in DRAFTING, the others go to the queue.
Gate(r) == WithStatus(r, Verdict[r.body])

-----------------------------------------------------------------------------
\* Slips: the worker looks at drafts only while nobody has edited them.
FreshUnedited == {d \in Drafts : row[d].status = "drafting"
                                /\ row[d].version = 1}

Fresh == {d \in Drafts : row[d].status = "drafting"}
Old == {d \in Drafts : row[d].status = "ready_for_review" /\ stale[d]}

\* run_compliance_cycle reads every DRAFTING draft; _gate_draft decides.
ComplianceReads ==
    /\ stage = "compliance"
    /\ Open(Worker, "compliance", Fresh, Gate)
    /\ UNCHANGED <<row, final, page, stage, regen, stale, overtaken>>

\* run_archival_cycle reads the READY_FOR_REVIEW drafts created before the
\* cutoff.
ArchivalReads ==
    LET Archive(r) == WithStatus(r, "archived")
    IN /\ stage = "archival"
       /\ Open(Worker, "archival", Old, Archive)
       /\ UNCHANGED <<row, final, page, stage, regen, stale, overtaken>>

\* The single commit of a stage; the poll tick goes on to its next stage.
PollCommits ==
    /\ Flush(Worker)
    /\ stage' = IF stage = "compliance" THEN "archival" ELSE "compliance"
    /\ UNCHANGED <<final, page, regen, stale>>

\* The stage raises (or the worker restarts): nothing of it is stored.
PollFails ==
    /\ txn[Worker] # NoTxn
    /\ txn' = [txn EXCEPT ![Worker] = NoTxn]
    /\ stage' = IF stage = "compliance" THEN "archival" ELSE "compliance"
    /\ UNCHANGED <<row, final, page, regen, stale, overtaken>>

-----------------------------------------------------------------------------
\* The editor e (re)loads the page of draft d.
ShowPage(e, d) ==
    /\ page' = [page EXCEPT ![e][d] = row[d].version]
    /\ page' # page
    /\ UNCHANGED <<row, final, txn, stage, regen, stale, overtaken>>

\* A slip: the report of the row is kept.
ReportKept(r, body, seo, report) == report = r.seoBlocked

\* The report is recomputed when a text of it is touched.
ReportAfter(r, body, seo, report) ==
    \/ report = SeoBlocked(body, seo)
    \/ <<body, seo, report>> = <<r.body, r.seo, r.seoBlocked>>

\* patch_draft: refused with 409 unless the row is at the version on screen.
PatchReads(e, d) ==
    \E body \in Bodies, seo \in Metas, report \in BOOLEAN :
        LET Edit(r) == [r EXCEPT !.body = body, !.seo = seo, !.seoBlocked = report,
                                 !.version = @ + 1]
        IN /\ "patch" \in EditorOps
           /\ row[d].version = page[e][d]
           /\ row[d].version < MaxVersion
           /\ ReportAfter(row[d], body, seo, report)
           /\ Open(e, "patch", {d}, Edit)
           /\ UNCHANGED <<row, final, page, stage, regen, stale, overtaken>>

\* The response shows the editor the row as stored.
PatchCommits(e) ==
    /\ txn[e].op = "patch"
    /\ Flush(e)
    /\ page' = [page EXCEPT ![e] = [d \in Drafts |->
                  IF d \in DOMAIN txn[e].base
                  THEN row'[d].version ELSE page[e][d]]]
    /\ UNCHANGED <<final, stage, regen, stale>>

\* publish_draft, reject_draft, needs_fix_draft, snooze_draft and
\* unsnooze_draft set a status; only publish has a condition.
DecisionReads(e, d, op) ==
    LET Decide(r) == WithStatus(r, Decision[op]) IN
    /\ op \in EditorOps \ {"patch"}
    /\ op = "publish" => ~row[d].seoBlocked
    /\ Open(e, op, {d}, Decide)
    /\ UNCHANGED <<row, final, page, stage, regen, stale, overtaken>>

\* A slip: only the first publication is filed.
FirstText(e, d) == IF final[d] = Nothing THEN txn[e].copy[d].body ELSE final[d]

\* approve_and_publish files the text as it was loaded as human_final, in the
\* transaction that publishes.
FinalText(e, d) == txn[e].copy[d].body

DecisionCommits(e) ==
    /\ txn[e].op \in DOMAIN Decision
    /\ Flush(e)
    /\ final' = [d \in Drafts |->
                   IF txn[e].op = "publish" /\ d \in DOMAIN txn[e].base
                   THEN FinalText(e, d) ELSE final[d]]
    /\ UNCHANGED <<page, stage, regen, stale>>

\* The request fails: get_db rolls back.
RequestFails(e) ==
    /\ txn[e] # NoTxn
    /\ txn' = [txn EXCEPT ![e] = NoTxn]
    /\ UNCHANGED <<row, final, page, stage, regen, stale, overtaken>>

-----------------------------------------------------------------------------
\* run_regenerate_batch loads the drafts it will do (limit, offset and the
\* body-length filter: any of those in the queue), once.
BatchSelects(b) ==
    /\ regenBase[b] = << >>
    /\ \E S \in SUBSET {d \in Drafts : row[d].status \in Queue} \ {{}} :
          regenBase' = [regenBase EXCEPT ![b] = [d \in S |-> row[d]]]
    /\ UNCHANGED <<row, final, txn, page, stage, regenNow, stale, overtaken>>

\* The loop reaches d.  A rollback has expired what was loaded: such a draft
\* is read again here, whatever its status is by now.
BatchTurnsTo(b, d) ==
    /\ d \in DOMAIN regenBase[b] /\ regenNow[b] = Nothing
    /\ regenNow' = [regenNow EXCEPT ![b] = d]
    /\ regenBase' = [regenBase EXCEPT ![b][d] = IF @ = Nothing THEN row[d] ELSE @]
    /\ UNCHANGED <<row, final, txn, page, stage, stale, overtaken>>

\* A slip: the version is counted by the caller as well.
RewrittenTwice(r, body, seo) ==
    Gate([r EXCEPT !.body = body, !.seo = seo, !.version = @ + 2,
                   !.seoBlocked = SeoBlocked(body, seo)])

\* apply_rewrite_content replaces the texts and the report and takes the next
\* version of the copy; _gate_draft then replaces DRAFTING by its verdict.
Rewritten(r, body, seo) ==
    Gate([r EXCEPT !.body = body, !.seo = seo, !.version = @ + 1,
                   !.seoBlocked = SeoBlocked(body, seo)])

Without(f, d) == [x \in DOMAIN f \ {d} |-> f[x]]

\* The language model answered: this draft is committed by itself.
BatchRewrites(b) ==
    LET d == regenNow[b] IN
    /\ d # Nothing
    /\ regenBase[b][d].version < MaxVersion
    /\ \E body \in Bodies, seo \in Metas :
          Store([row EXCEPT ![d] =
                   Merge(@, regenBase[b][d], Rewritten(regenBase[b][d], body, seo))],
                [x \in {d} |-> regenBase[b][x]])
    /\ regenBase' = [regenBase EXCEPT ![b] = Without(@, d)]
    /\ regenNow' = [regenNow EXCEPT ![b] = Nothing]
    /\ UNCHANGED <<final, txn, page, stage, stale>>

\* A call failed: the rollback expires every draft the session holds.
BatchCallFails(b) ==
    LET d == regenNow[b] IN
    /\ d # Nothing
    /\ regenBase' = [regenBase EXCEPT ![b] =
                       [x \in DOMAIN @ \ {d} |-> Nothing]]
    /\ regenNow' = [regenNow EXCEPT ![b] = Nothing]
    /\ UNCHANGED <<row, final, txn, page, stage, stale, overtaken>>

-----------------------------------------------------------------------------
\* The archive TTL has elapsed since d was created.
TtlElapses(d) ==
    /\ ~stale[d]
    /\ stale' = [stale EXCEPT ![d] = TRUE]
    /\ UNCHANGED <<row, final, txn, page, stage, regen, overtaken>>

-----------------------------------------------------------------------------
PollStep == ComplianceReads \/ ArchivalReads \/ PollCommits \/ PollFails

EditorStep(e) ==
    \/ \E d \in Drafts : \/ ShowPage(e, d) \/ PatchReads(e, d)
                         \/ \E op \in EditorOps : DecisionReads(e, d, op)
    \/ PatchCommits(e) \/ DecisionCommits(e) \/ RequestFails(e)

BatchStep(b) ==
    \/ BatchSelects(b) \/ \E d \in Drafts : BatchTurnsTo(b, d)
    \/ BatchRewrites(b) \/ BatchCallFails(b)

Next ==
    \/ PollStep
    \/ \E e \in Editors : EditorStep(e)
    \/ \E b \in Batches : BatchStep(b)
    \/ \E d \in Drafts : TtlElapses(d)

Spec == Init /\ [][Next]_vars

\* The scheduler repeats the poll tick every minute; a stage does not fail
\* for ever.
Fairness ==
    /\ WF_vars(ComplianceReads) /\ WF_vars(ArchivalReads)
    /\ SF_vars(PollCommits /\ stage = "compliance")
    /\ SF_vars(PollCommits /\ stage = "archival")

FairSpec == Spec /\ Fairness

-----------------------------------------------------------------------------
\* What a commit does to the row of d.
Enters(d, status) == row[d].status # status /\ row'[d].status = status
MachineStep ==
    \/ txn[Worker] # NoTxn /\ txn'[Worker] = NoTxn
    \/ \E b \in Batches : regenBase'[b] # regenBase[b]

\* "If it is blocked it stays in DRAFTING, never promoted to the review queue
\* until a human resolves it": the worker brings no draft into review whose
\* stored text the rules forbid, unless its verdict was on another version.
BlockedNotPromoted ==
    [][\A d \in Drafts :
         MachineStep /\ Enters(d, "ready_for_review") /\ ~overtaken'[d]
            => Verdict[row'[d].body] # "drafting"]_vars

\* The stored SEO report, which the publish guard trusts, is the report of the
\* stored texts while no writer overtakes another.
ReportIsCurrent ==
    \A d \in Drafts :
        overtaken[d] \/ row[d].seoBlocked = SeoBlocked(row[d].body, row[d].seo)

\* What goes public was filed: the text that becomes published is the text of
\* the human_final revision, unless it changed under the request.
PublishedTextFiled ==
    [][\A d \in Drafts :
         Enters(d, "published") /\ ~overtaken'[d]
            => final'[d] = row'[d].body]_vars

\* A draft the rules let pass does not stay ungated.
FreshDraftsGated ==
    \A d \in Drafts :
        (row[d].status = "drafting" /\ Verdict[row[d].body] # "drafting")
            ~> (row[d].status # "drafting" \/ Verdict[row[d].body] = "drafting")
=============================================================================
