----------------------------- MODULE DraftProofs -----------------------------
(***************************************************************************)
(* Theorems about DraftLifecycle, for any drafts, texts, editors and       *)
(* batches: its state is well-typed, the SEO report of a row is that of    *)
(* its texts, what is published was filed and supports its SEO pack, and   *)
(* the worker promotes no draft that its rules block, as long as no writer *)
(* overtakes another.  And about EditLock, for any users and tabs: types,  *)
(* the editing row is unique, and every step of the handlers is a step of  *)
(* a lease (the safety half of LockIsALease).                              *)
(***************************************************************************)
EXTENDS DraftLifecycle, EditLock, TLAPS

-----------------------------------------------------------------------------
(* Rows *)

SameTexts(x, y) == x.body = y.body /\ x.seo = y.seo /\ x.seoBlocked = y.seoBlocked
Reported(r) == r.seoBlocked = SeoBlocked(r.body, r.seo)

\* r was read from the row that is now: while no writer has overtaken another,
\* a row of the same version has the same texts.
Snapshot(r, now, over) ==
    over \/ (r.version <= now.version /\ (r.version = now.version => SameTexts(r, now)))

\* A writer leaves the texts alone, or takes the next version.
Revises(x, y) ==
    \/ y.version = x.version /\ SameTexts(y, x)
    \/ y.version = x.version + 1 /\ (SameTexts(y, x) \/ Reported(y))

\* What a row may become.
Moves(x, over, y, over2) ==
    over2 \/ (~over /\ x.version <= y.version /\ (x.version = y.version => SameTexts(x, y)))

LEMMA RowFields ==
    ASSUME NEW r \in Row
    PROVE  /\ r.status \in Status /\ r.version \in 1..MaxVersion /\ r.body \in Bodies
           /\ r.seo \in Metas /\ r.seoBlocked \in BOOLEAN /\ r.version \in Nat
           /\ DOMAIN r = {"status", "version", "body", "seo", "seoBlocked"}
  BY LifecycleAssumption DEF Row

LEMMA SnapshotStep ==
    ASSUME NEW r \in Row, NEW x \in Row, NEW y \in Row, NEW over, NEW over2,
           Snapshot(r, x, over), Moves(x, over, y, over2)
    PROVE  Snapshot(r, y, over2)
  <1>1. r.version \in Nat /\ x.version \in Nat /\ y.version \in Nat
    BY RowFields
  <1>. QED
    BY <1>1 DEF Snapshot, Moves, SameTexts

LEMMA ReadIsSnapshot ==
    ASSUME NEW r \in Row, NEW over
    PROVE  Snapshot(r, r, over)
  BY RowFields DEF Snapshot, SameTexts

\* A commit stores the columns that changed.
LEMMA MergeFacts ==
    ASSUME NEW now \in Row, NEW base \in Row, NEW copy \in Row
    PROVE  LET m == Merge(now, base, copy) IN
           /\ m \in Row
           /\ m.status = IF copy.status # base.status THEN copy.status ELSE now.status
           /\ m.version = IF copy.version # base.version THEN copy.version ELSE now.version
           /\ SameTexts(base, now) => SameTexts(m, copy)
  <1>. DEFINE m == Merge(now, base, copy)
              Col(col) == IF copy[col] # base[col] THEN copy[col] ELSE now[col]
  <1>1. DOMAIN now = {"status", "version", "body", "seo", "seoBlocked"}
    BY RowFields
  <1>2. /\ DOMAIN m = {"status", "version", "body", "seo", "seoBlocked"}
        /\ m.status = Col("status") /\ m.version = Col("version") /\ m.body = Col("body")
        /\ m.seo = Col("seo") /\ m.seoBlocked = Col("seoBlocked")
    BY <1>1 DEF Merge
  <1>3. m = [status |-> Col("status"), version |-> Col("version"), body |-> Col("body"),
             seo |-> Col("seo"), seoBlocked |-> Col("seoBlocked")]
    BY <1>1 DEF Merge
  <1>4. m \in Row
    <2>1. /\ Col("status") \in Status /\ Col("version") \in 1..MaxVersion
          /\ Col("body") \in Bodies /\ Col("seo") \in Metas /\ Col("seoBlocked") \in BOOLEAN
      BY RowFields
    <2>. HIDE DEF Col, m
    <2>. QED
      BY <1>3, <2>1 DEF Row
  <1>5. SameTexts(base, now) => SameTexts(m, copy)
    BY <1>2 DEF SameTexts
  <1>. QED
    BY <1>2, <1>4, <1>5

\* A commit over the version it had read stores the texts it has; over another
\* one it overtakes.
LEMMA CommitMoves ==
    ASSUME NEW now \in Row, NEW base \in Row, NEW copy \in Row, NEW over \in BOOLEAN,
           Snapshot(base, now, over), Revises(base, copy), over \/ Reported(now)
    PROVE  LET m == Merge(now, base, copy)
               over2 == over \/ base.version # now.version
           IN Moves(now, over, m, over2) /\ (over2 \/ Reported(m))
  <1>. DEFINE m == Merge(now, base, copy)
  <1>. SUFFICES ASSUME ~over, base.version = now.version
                PROVE  Moves(now, over, m, over) /\ Reported(m)
    BY DEF Moves
  <1>1. /\ m \in Row /\ SameTexts(m, copy) /\ SameTexts(base, now)
        /\ m.version = IF copy.version # base.version THEN copy.version ELSE now.version
    BY MergeFacts DEF Snapshot
  <1>2. now.version \in Nat
    BY RowFields
  <1>. HIDE DEF m
  <1>3. CASE copy.version = base.version /\ SameTexts(copy, base)
    BY <1>1, <1>2, <1>3 DEF Moves, Reported, SameTexts
  <1>4. CASE copy.version = base.version + 1 /\ (SameTexts(copy, base) \/ Reported(copy))
    BY <1>1, <1>2, <1>4 DEF Moves, Reported, SameTexts
  <1>. QED
    BY <1>3, <1>4 DEF Revises

LEMMA WithStatusFacts ==
    ASSUME NEW r \in Row, NEW status \in Status
    PROVE  /\ WithStatus(r, status) \in Row /\ WithStatus(r, status).status = status
           /\ WithStatus(r, status).version = r.version /\ SameTexts(WithStatus(r, status), r)
  BY DEF WithStatus, Row, SameTexts

LEMMA VerdictIsStatus ==
    ASSUME NEW b \in Bodies
    PROVE  Verdict[b] \in Status /\ Verdict[b] \in Queue \cup {"drafting"}
  BY LifecycleAssumption DEF Status

LEMMA GateFacts ==
    ASSUME NEW r \in Row
    PROVE  /\ Gate(r) \in Row /\ Gate(r).status = Verdict[r.body]
           /\ Gate(r).version = r.version /\ SameTexts(Gate(r), r)
  <1>1. Verdict[r.body] \in Status
    BY RowFields, VerdictIsStatus
  <1>. QED
    BY <1>1, WithStatusFacts DEF Gate

LEMMA SeoBlockedType ==
    ASSUME NEW b, NEW m
    PROVE  SeoBlocked(b, m) \in BOOLEAN
  BY DEF SeoBlocked

\* The columns that patch_draft and apply_rewrite_content replace.
Revised(r, b, m, report) ==
    [[[[r EXCEPT !.body = b] EXCEPT !.seo = m] EXCEPT !.seoBlocked = report]
        EXCEPT !.version = @ + 1]

LEMMA RevisedFacts ==
    ASSUME NEW r \in Row, NEW b \in Bodies, NEW m \in Metas, NEW report \in BOOLEAN,
           r.version < MaxVersion
    PROVE  LET x == Revised(r, b, m, report)
           IN /\ x \in Row /\ x.status = r.status /\ x.version = r.version + 1
              /\ x.body = b /\ x.seo = m /\ x.seoBlocked = report
  <1>. DEFINE f == [r EXCEPT !.body = b]
              g == [f EXCEPT !.seo = m]
              h == [g EXCEPT !.seoBlocked = report]
              x == [h EXCEPT !.version = @ + 1]
  <1>1. r.version \in 1..MaxVersion /\ r.version + 1 \in 1..MaxVersion
    BY RowFields, LifecycleAssumption
  <1>2. f \in Row /\ f.status = r.status /\ f.version = r.version /\ f.body = b
    BY DEF Row
  <1>3. g \in Row /\ g.status = r.status /\ g.version = r.version /\ g.body = b /\ g.seo = m
    <2>. HIDE DEF f
    <2>. QED
      BY <1>2 DEF Row
  <1>4. /\ h \in Row /\ h.status = r.status /\ h.version = r.version /\ h.body = b
        /\ h.seo = m /\ h.seoBlocked = report
    <2>. HIDE DEF g
    <2>. QED
      BY <1>3 DEF Row
  <1>5. /\ x \in Row /\ x.status = r.status /\ x.version = r.version + 1
        /\ x.body = b /\ x.seo = m /\ x.seoBlocked = report
    <2>. HIDE DEF h
    <2>. QED
      BY <1>1, <1>4 DEF Row
  <1>. QED
    BY <1>5, Zenon DEF Revised

-----------------------------------------------------------------------------
(* The invariant *)

\* The status that an operation gives to what it read.
StatusOf(op, r) ==
    IF op = "compliance" THEN Verdict[r.body]
    ELSE IF op = "archival" THEN "archived"
    ELSE IF op \in DOMAIN Decision THEN Decision[op] ELSE r.status

Changes(op, x, y) ==
    /\ y.status = StatusOf(op, x)
    /\ Revises(x, y)
    /\ op # "patch" => SameTexts(y, x)

\* An open session has read rows as they were, and changes what its operation
\* changes.
GoodSession(s, t, rows, over) ==
    /\ t.op \in Ops
    /\ Loaded(t.base, Row) /\ Loaded(t.copy, Row) /\ DOMAIN t.base = DOMAIN t.copy
    /\ s = Worker => t.op \in {"none", "compliance", "archival"}
    /\ \A d \in DOMAIN t.base :
          Snapshot(t.base[d], rows[d], over[d]) /\ Changes(t.op, t.base[d], t.copy[d])

\* So has a batch, of the drafts that no rollback has expired.
GoodBatch(base, now, rows, over) ==
    /\ Loaded(base, Row \cup {Nothing}) /\ now \in DOMAIN base \cup {Nothing}
    /\ \A d \in DOMAIN base : base[d] # Nothing =>
          base[d] \in Row /\ Snapshot(base[d], rows[d], over[d])
    /\ now # Nothing => base[now] \in Row /\ Snapshot(base[now], rows[now], over[now])

Shapes ==
    /\ row \in [Drafts -> Row]
    /\ final \in [Drafts -> Bodies \cup {Nothing}]
    /\ page \in [Editors -> [Drafts -> 0..MaxVersion]]
    /\ stage \in {"compliance", "archival"}
    /\ stale \in [Drafts -> BOOLEAN] /\ overtaken \in [Drafts -> BOOLEAN]
    /\ txn = [s \in Sessions |-> txn[s]]
    /\ regenBase = [b \in Batches |-> regenBase[b]]
    /\ regenNow = [b \in Batches |-> regenNow[b]]

IInv ==
    /\ Shapes
    /\ \A s \in Sessions : GoodSession(s, txn[s], row, overtaken)
    /\ \A b \in Batches : GoodBatch(regenBase[b], regenNow[b], row, overtaken)
    /\ ReportIsCurrent

LEMMA InvType == ASSUME IInv PROVE TypeOK
  BY DEF IInv, Shapes, GoodSession, GoodBatch, TypeOK

LEMMA GoodSessionStep ==
    ASSUME NEW s, NEW t, NEW rows \in [Drafts -> Row], NEW rows2 \in [Drafts -> Row],
           NEW over, NEW over2, GoodSession(s, t, rows, over),
           \A d \in Drafts : Moves(rows[d], over[d], rows2[d], over2[d])
    PROVE  GoodSession(s, t, rows2, over2)
  <1>1. \A d \in DOMAIN t.base : Snapshot(t.base[d], rows2[d], over2[d])
    BY SnapshotStep DEF GoodSession, Loaded
  <1>. QED
    BY <1>1 DEF GoodSession

LEMMA GoodBatchStep ==
    ASSUME NEW base, NEW now, NEW rows \in [Drafts -> Row], NEW rows2 \in [Drafts -> Row],
           NEW over, NEW over2, GoodBatch(base, now, rows, over),
           \A d \in Drafts : Moves(rows[d], over[d], rows2[d], over2[d])
    PROVE  GoodBatch(base, now, rows2, over2)
  <1>1. \A d \in DOMAIN base : base[d] # Nothing => Snapshot(base[d], rows2[d], over2[d])
    BY SnapshotStep DEF GoodBatch, Loaded
  <1>2. now # Nothing => Snapshot(base[now], rows2[now], over2[now])
    BY SnapshotStep DEF GoodBatch, Loaded
  <1>. QED
    BY <1>1, <1>2 DEF GoodBatch

\* Who does not take part in a step still holds good snapshots.
LEMMA StepKeeps ==
    ASSUME IInv, Shapes', ReportIsCurrent',
           \A d \in Drafts : Moves(row[d], overtaken[d], row'[d], overtaken'[d]),
           \A s \in Sessions : txn'[s] = txn[s] \/ GoodSession(s, txn'[s], row', overtaken'),
           \A b \in Batches : \/ regenBase'[b] = regenBase[b] /\ regenNow'[b] = regenNow[b]
                              \/ GoodBatch(regenBase'[b], regenNow'[b], row', overtaken')
    PROVE  IInv'
  <1>1. row \in [Drafts -> Row] /\ row' \in [Drafts -> Row]
    BY DEF IInv, Shapes
  <1>2. ASSUME NEW s \in Sessions
        PROVE  GoodSession(s, txn'[s], row', overtaken')
    <2>1. GoodSession(s, txn[s], row, overtaken)
      BY DEF IInv
    <2>2. GoodSession(s, txn[s], row', overtaken')
      BY <1>1, <2>1, GoodSessionStep
    <2>. QED
      BY <2>2
  <1>3. ASSUME NEW b \in Batches
        PROVE  GoodBatch(regenBase'[b], regenNow'[b], row', overtaken')
    <2>1. GoodBatch(regenBase[b], regenNow[b], row, overtaken)
      BY DEF IInv
    <2>2. GoodBatch(regenBase[b], regenNow[b], row', overtaken')
      BY <1>1, <2>1, GoodBatchStep
    <2>. QED
      BY <2>2
  <1>. QED
    BY <1>2, <1>3 DEF IInv

-----------------------------------------------------------------------------
(* Steps *)

LEMMA QuietMoves ==
    ASSUME IInv, UNCHANGED <<row, overtaken>>
    PROVE  /\ \A d \in Drafts : Moves(row[d], overtaken[d], row'[d], overtaken'[d])
           /\ ReportIsCurrent'
  <1>1. \A d \in Drafts : row[d] \in Row /\ overtaken[d] \in BOOLEAN
    BY DEF IInv, Shapes
  <1>2. \A r \in Row : r.version <= r.version
    BY RowFields
  <1>3. \A d \in Drafts : Moves(row[d], overtaken[d], row'[d], overtaken'[d])
    BY <1>1, <1>2 DEF Moves, SameTexts
  <1>4. ReportIsCurrent'
    BY DEF IInv, ReportIsCurrent, SeoBlocked
  <1>. QED
    BY <1>3, <1>4

LEMMA OpenStep ==
    ASSUME IInv, NEW s \in Sessions, NEW op \in Ops, NEW base, NEW copy,
           Loaded(base, Row), Loaded(copy, Row), DOMAIN base = DOMAIN copy,
           s = Worker => op \in {"none", "compliance", "archival"},
           \A d \in DOMAIN base : base[d] = row[d] /\ Changes(op, base[d], copy[d]),
           txn' = [txn EXCEPT ![s] = [op |-> op, base |-> base, copy |-> copy]],
           UNCHANGED <<row, final, page, stage, regen, stale, overtaken>>
    PROVE  IInv'
  <1>. DEFINE t == [op |-> op, base |-> base, copy |-> copy]
  <1>1. GoodSession(s, t, row', overtaken')
    <2>1. \A d \in DOMAIN base : Snapshot(base[d], row'[d], overtaken'[d])
      BY ReadIsSnapshot DEF IInv, Shapes, Loaded
    <2>. QED
      BY <2>1 DEF GoodSession
  <1>2. Shapes'
    BY DEF IInv, Shapes, regen
  <1>. HIDE DEF t
  <1>3. txn'[s] = t /\ \A x \in Sessions : x # s => txn'[x] = txn[x]
    BY DEF IInv, Shapes, t
  <1>. QED
    BY <1>1, <1>2, <1>3, QuietMoves, StepKeeps DEF regen

LEMMA NoTxnIsGood ==
    ASSUME NEW s, NEW rows, NEW over
    PROVE  GoodSession(s, NoTxn, rows, over)
  BY DEF GoodSession, NoTxn, Loaded, Ops

LEMMA CloseStep ==
    ASSUME IInv, NEW s \in Sessions, txn' = [txn EXCEPT ![s] = NoTxn],
           stage' \in {"compliance", "archival"},
           UNCHANGED <<row, final, page, regen, stale, overtaken>>
    PROVE  IInv'
  <1>1. Shapes'
    BY DEF IInv, Shapes, regen
  <1>2. txn'[s] = NoTxn /\ \A x \in Sessions : x # s => txn'[x] = txn[x]
    BY DEF IInv, Shapes
  <1>3. GoodSession(s, txn'[s], row', overtaken')
    BY <1>2, NoTxnIsGood
  <1>. QED
    BY <1>1, <1>2, <1>3, QuietMoves, StepKeeps DEF regen

\* What a commit of the session s does to each row.
LEMMA FlushFacts ==
    ASSUME IInv, NEW s \in Sessions, Flush(s)
    PROVE  /\ row' \in [Drafts -> Row] /\ overtaken' \in [Drafts -> BOOLEAN]
           /\ \A d \in Drafts : Moves(row[d], overtaken[d], row'[d], overtaken'[d])
           /\ ReportIsCurrent'
           /\ \A d \in Drafts \ DOMAIN txn[s].base : row'[d] = row[d]
           /\ \A d \in DOMAIN txn[s].base :
                 /\ d \in Drafts /\ txn[s].base[d] \in Row /\ txn[s].copy[d] \in Row
                 /\ row'[d] = Merge(row[d], txn[s].base[d], txn[s].copy[d])
                 /\ overtaken'[d] = (overtaken[d] \/ txn[s].base[d].version # row[d].version)
  <1>. DEFINE base == txn[s].base
              copy == txn[s].copy
  <1>1. /\ row' = [d \in Drafts |-> IF d \in DOMAIN base THEN Merge(row[d], base[d], copy[d])
                                    ELSE row[d]]
        /\ overtaken' = [d \in Drafts |-> overtaken[d] \/
                            (d \in DOMAIN base /\ base[d].version # row[d].version)]
    BY DEF Flush, Store
  <1>2. /\ row \in [Drafts -> Row] /\ overtaken \in [Drafts -> BOOLEAN]
        /\ GoodSession(s, txn[s], row, overtaken)
    BY DEF IInv, Shapes
  <1>3. /\ DOMAIN base \subseteq Drafts
        /\ \A d \in DOMAIN base : base[d] \in Row /\ copy[d] \in Row
        /\ \A d \in DOMAIN base : Snapshot(base[d], row[d], overtaken[d]) /\ Revises(base[d], copy[d])
    BY <1>2 DEF GoodSession, Loaded, Changes
  <1>4. \A d \in Drafts : overtaken[d] \/ Reported(row[d])
    BY DEF IInv, ReportIsCurrent, Reported
  <1>. HIDE DEF base, copy
  <1>5. overtaken' \in [Drafts -> BOOLEAN]
    BY <1>1, <1>2
  <1>6. row' \in [Drafts -> Row]
    BY <1>1, <1>2, <1>3, MergeFacts
  <1>7. ASSUME NEW d \in Drafts
        PROVE  /\ Moves(row[d], overtaken[d], row'[d], overtaken'[d])
               /\ overtaken'[d] \/ Reported(row'[d])
    <2>1. CASE d \in DOMAIN base
      <3>1. /\ row'[d] = Merge(row[d], base[d], copy[d])
            /\ overtaken'[d] = (overtaken[d] \/ base[d].version # row[d].version)
        BY <1>1, <2>1
      <3>2. row[d] \in Row /\ overtaken[d] \in BOOLEAN
        BY <1>2
      <3>3. /\ Moves(row[d], overtaken[d], Merge(row[d], base[d], copy[d]),
                     overtaken[d] \/ base[d].version # row[d].version)
            /\ \/ overtaken[d] \/ base[d].version # row[d].version
               \/ Reported(Merge(row[d], base[d], copy[d]))
        BY <1>3, <1>4, <2>1, <3>2, CommitMoves, Zenon
      <3>. QED
        BY <3>1, <3>3
    <2>2. CASE d \notin DOMAIN base
      <3>1. row'[d] = row[d] /\ overtaken'[d] = overtaken[d]
        BY <1>1, <1>2, <2>2
      <3>2. row[d].version <= row[d].version
        BY <1>2, RowFields
      <3>. QED
        BY <1>2, <1>4, <3>1, <3>2 DEF Moves, SameTexts
    <2>. QED
      BY <2>1, <2>2
  <1>8. ReportIsCurrent'
    BY <1>7 DEF ReportIsCurrent, Reported, SeoBlocked
  <1>. QED
    BY <1>1, <1>3, <1>5, <1>6, <1>7, <1>8 DEF base, copy

LEMMA FlushStep ==
    ASSUME IInv, NEW s \in Sessions, Flush(s), stage' \in {"compliance", "archival"},
           final' \in [Drafts -> Bodies \cup {Nothing}],
           page' \in [Editors -> [Drafts -> 0..MaxVersion]], UNCHANGED <<regen, stale>>
    PROVE  IInv'
  <1>1. txn' = [txn EXCEPT ![s] = NoTxn]
    BY DEF Flush
  <1>2. txn'[s] = NoTxn /\ \A x \in Sessions : x # s => txn'[x] = txn[x]
    BY <1>1 DEF IInv, Shapes
  <1>3. GoodSession(s, txn'[s], row', overtaken')
    BY <1>2, NoTxnIsGood
  <1>4. Shapes'
    BY <1>1, FlushFacts DEF IInv, Shapes, regen
  <1>. QED
    BY <1>2, <1>3, <1>4, FlushFacts, StepKeeps DEF regen

LEMMA SessionIds == Worker \in Sessions /\ \A e \in Editors : e \in Sessions /\ e # Worker
  BY LifecycleAssumption DEF Sessions

LEMMA PollStepKeeps ==
    ASSUME IInv, PollStep PROVE IInv'
  <1>1. row \in [Drafts -> Row] /\ stage \in {"compliance", "archival"}
    BY DEF IInv, Shapes
  <1>2. CASE ComplianceReads
    <2>. DEFINE base == [d \in Fresh |-> row[d]]
                copy == [d \in Fresh |-> Gate(row[d])]
    <2>1. /\ Loaded(base, Row) /\ Loaded(copy, Row) /\ DOMAIN base = DOMAIN copy
          /\ \A d \in DOMAIN base : base[d] = row[d] /\ copy[d] = Gate(base[d])
      BY <1>1, GateFacts DEF Loaded, Fresh
    <2>2. txn' = [txn EXCEPT ![Worker] = [op |-> "compliance", base |-> base, copy |-> copy]]
          /\ UNCHANGED <<row, final, page, stage, regen, stale, overtaken>>
      BY <1>2 DEF ComplianceReads, Open
    <2>. HIDE DEF base, copy
    <2>3. \A d \in DOMAIN base : Changes("compliance", base[d], copy[d])
      BY <2>1, GateFacts DEF Changes, StatusOf, Revises, Loaded
    <2>4. "compliance" \in Ops
      BY DEF Ops
    <2>. QED
      BY <2>1, <2>2, <2>3, <2>4, OpenStep, SessionIds
  <1>3. CASE ArchivalReads
    <2>. DEFINE base == [d \in Old |-> row[d]]
                copy == [d \in Old |-> WithStatus(row[d], "archived")]
    <2>1. "archived" \in Status /\ "archival" \in Ops
      BY DEF Status, Ops
    <2>2. /\ Loaded(base, Row) /\ Loaded(copy, Row) /\ DOMAIN base = DOMAIN copy
          /\ \A d \in DOMAIN base : base[d] = row[d] /\ copy[d] = WithStatus(base[d], "archived")
      BY <1>1, <2>1, WithStatusFacts DEF Loaded, Old
    <2>3. txn' = [txn EXCEPT ![Worker] = [op |-> "archival", base |-> base, copy |-> copy]]
          /\ UNCHANGED <<row, final, page, stage, regen, stale, overtaken>>
      BY <1>3 DEF ArchivalReads, Open
    <2>. HIDE DEF base, copy
    <2>4. \A d \in DOMAIN base : Changes("archival", base[d], copy[d])
      BY <2>1, <2>2, WithStatusFacts DEF Changes, StatusOf, Revises, Loaded
    <2>. QED
      BY <2>1, <2>2, <2>3, <2>4, OpenStep, SessionIds
  <1>4. CASE PollCommits
    <2>1. /\ Flush(Worker) /\ UNCHANGED <<final, page, regen, stale>>
          /\ stage' \in {"compliance", "archival"}
      BY <1>4 DEF PollCommits
    <2>2. final \in [Drafts -> Bodies \cup {Nothing}] /\ page \in [Editors -> [Drafts -> 0..MaxVersion]]
      BY DEF IInv, Shapes
    <2>. QED
      BY <2>1, <2>2, FlushStep, SessionIds
  <1>5. CASE PollFails
    BY <1>5, CloseStep, SessionIds DEF PollFails
  <1>. QED
    BY <1>2, <1>3, <1>4, <1>5 DEF PollStep

LEMMA ShowPageStep ==
    ASSUME IInv, NEW e \in Editors, NEW d \in Drafts, ShowPage(e, d) PROVE IInv'
  <1>1. page' = [page EXCEPT ![e][d] = row[d].version]
        /\ UNCHANGED <<row, final, txn, stage, regen, stale, overtaken>>
    BY DEF ShowPage
  <1>2. row[d].version \in 0..MaxVersion
    BY RowFields, LifecycleAssumption DEF IInv, Shapes
  <1>3. page \in [Editors -> [Drafts -> 0..MaxVersion]]
    BY DEF IInv, Shapes
  <1>4. page' \in [Editors -> [Drafts -> 0..MaxVersion]]
    BY <1>1, <1>2, <1>3
  <1>5. Shapes'
    BY <1>1, <1>4 DEF IInv, Shapes, regen
  <1>. QED
    BY <1>1, <1>5, QuietMoves, StepKeeps DEF regen

LEMMA EditFacts ==
    ASSUME NEW r \in Row, NEW b \in Bodies, NEW m \in Metas, NEW report \in BOOLEAN,
           r.version < MaxVersion, ReportAfter(r, b, m, report)
    PROVE  LET x == [r EXCEPT !.body = b, !.seo = m, !.seoBlocked = report, !.version = @ + 1]
           IN x \in Row /\ Changes("patch", r, x)
  <1>. DEFINE x == [r EXCEPT !.body = b, !.seo = m, !.seoBlocked = report, !.version = @ + 1]
              y == Revised(r, b, m, report)
  <1>1. x = y
    BY DEF Row, Revised
  <1>2. /\ y \in Row /\ y.status = r.status /\ y.version = r.version + 1
        /\ y.body = b /\ y.seo = m /\ y.seoBlocked = report
    BY RevisedFacts
  <1>. HIDE DEF x, y
  <1>3. SameTexts(x, r) \/ Reported(x)
    BY <1>1, <1>2 DEF ReportAfter, SameTexts, Reported
  <1>4. Changes("patch", r, x)
    BY <1>1, <1>2, <1>3 DEF Changes, StatusOf, Revises, Decision
  <1>. QED
    BY <1>1, <1>2, <1>4 DEF x

LEMMA PatchReadsStep ==
    ASSUME IInv, NEW e \in Editors, NEW d \in Drafts, PatchReads(e, d) PROVE IInv'
  <1>1. PICK body \in Bodies, seo \in Metas, report \in BOOLEAN :
            /\ row[d].version < MaxVersion /\ ReportAfter(row[d], body, seo, report)
            /\ txn' = [txn EXCEPT ![e] =
                  [op |-> "patch", base |-> [x \in {d} |-> row[x]],
                   copy |-> [x \in {d} |->
                      [row[x] EXCEPT !.body = body, !.seo = seo, !.seoBlocked = report,
                                     !.version = @ + 1]]]]
            /\ UNCHANGED <<row, final, page, stage, regen, stale, overtaken>>
    BY DEF PatchReads, Open
  <1>. DEFINE y == [row[d] EXCEPT !.body = body, !.seo = seo, !.seoBlocked = report,
                                  !.version = @ + 1]
              base == [x \in {d} |-> row[x]]
              copy == [x \in {d} |-> [row[x] EXCEPT !.body = body, !.seo = seo,
                                        !.seoBlocked = report, !.version = @ + 1]]
  <1>2. row[d] \in Row
    BY DEF IInv, Shapes
  <1>3. y \in Row /\ Changes("patch", row[d], y)
    BY <1>1, <1>2, EditFacts
  <1>4. /\ copy = [x \in {d} |-> y] /\ base = [x \in {d} |-> row[d]]
    OBVIOUS
  <1>5. txn' = [txn EXCEPT ![e] = [op |-> "patch", base |-> base, copy |-> copy]]
    BY <1>1
  <1>. HIDE DEF y, base, copy
  <1>6. /\ Loaded(base, Row) /\ Loaded(copy, Row) /\ DOMAIN base = DOMAIN copy
        /\ \A x \in DOMAIN base : base[x] = row[x] /\ Changes("patch", base[x], copy[x])
    BY <1>2, <1>3, <1>4 DEF Loaded
  <1>7. "patch" \in Ops
    BY DEF Ops
  <1>. QED
    BY <1>1, <1>5, <1>6, <1>7, OpenStep, SessionIds

LEMMA DecisionReadsStep ==
    ASSUME IInv, NEW e \in Editors, NEW d \in Drafts, NEW op \in EditorOps,
           DecisionReads(e, d, op)
    PROVE  IInv'
  <1>. DEFINE y == WithStatus(row[d], Decision[op])
              base == [x \in {d} |-> row[x]]
              copy == [x \in {d} |-> WithStatus(row[x], Decision[op])]
  <1>1. op \in DOMAIN Decision /\ op \in Ops /\ op # "patch"
    BY LifecycleAssumption DEF DecisionReads, Ops
  <1>2. Decision[op] \in Status /\ op \notin {"compliance", "archival"}
    BY <1>1 DEF Decision, Status, Queue
  <1>3. row[d] \in Row
    BY DEF IInv, Shapes
  <1>4. y \in Row /\ y.status = Decision[op] /\ y.version = row[d].version /\ SameTexts(y, row[d])
    BY <1>2, <1>3, WithStatusFacts
  <1>5. copy = [x \in {d} |-> y] /\ base = [x \in {d} |-> row[d]]
    OBVIOUS
  <1>6. txn' = [txn EXCEPT ![e] = [op |-> op, base |-> base, copy |-> copy]]
        /\ UNCHANGED <<row, final, page, stage, regen, stale, overtaken>>
    BY DEF DecisionReads, Open
  <1>. HIDE DEF y, base, copy
  <1>7. Changes(op, row[d], y)
    BY <1>1, <1>2, <1>4 DEF Changes, StatusOf, Revises
  <1>8. /\ Loaded(base, Row) /\ Loaded(copy, Row) /\ DOMAIN base = DOMAIN copy
        /\ \A x \in DOMAIN base : base[x] = row[x] /\ Changes(op, base[x], copy[x])
    BY <1>3, <1>4, <1>5, <1>7 DEF Loaded
  <1>. QED
    BY <1>1, <1>6, <1>8, OpenStep, SessionIds

LEMMA PatchCommitsStep ==
    ASSUME IInv, NEW e \in Editors, PatchCommits(e) PROVE IInv'
  <1>1. Flush(e) /\ UNCHANGED <<final, stage, regen, stale>>
        /\ page' = [page EXCEPT ![e] = [d \in Drafts |->
                      IF d \in DOMAIN txn[e].base THEN row'[d].version ELSE page[e][d]]]
    BY DEF PatchCommits
  <1>2. row' \in [Drafts -> Row]
    BY <1>1, FlushFacts, SessionIds
  <1>3. \A d \in Drafts : row'[d].version \in 0..MaxVersion
    BY <1>2, RowFields, LifecycleAssumption
  <1>4. /\ page \in [Editors -> [Drafts -> 0..MaxVersion]]
        /\ final \in [Drafts -> Bodies \cup {Nothing}] /\ stage \in {"compliance", "archival"}
    BY DEF IInv, Shapes
  <1>5. page' \in [Editors -> [Drafts -> 0..MaxVersion]]
    BY <1>1, <1>3, <1>4
  <1>. QED
    BY <1>1, <1>4, <1>5, FlushStep, SessionIds

LEMMA DecisionCommitsStep ==
    ASSUME IInv, NEW e \in Editors, DecisionCommits(e) PROVE IInv'
  <1>1. Flush(e) /\ UNCHANGED <<page, stage, regen, stale>>
        /\ final' = [d \in Drafts |-> IF txn[e].op = "publish" /\ d \in DOMAIN txn[e].base
                                      THEN FinalText(e, d) ELSE final[d]]
    BY DEF DecisionCommits
  <1>2. \A d \in DOMAIN txn[e].base : FinalText(e, d) \in Bodies
    BY <1>1, FlushFacts, SessionIds, RowFields DEF FinalText
  <1>3. /\ page \in [Editors -> [Drafts -> 0..MaxVersion]]
        /\ final \in [Drafts -> Bodies \cup {Nothing}] /\ stage \in {"compliance", "archival"}
    BY DEF IInv, Shapes
  <1>4. final' \in [Drafts -> Bodies \cup {Nothing}]
    BY <1>1, <1>2, <1>3
  <1>. QED
    BY <1>1, <1>3, <1>4, FlushStep, SessionIds

LEMMA EditorStepKeeps ==
    ASSUME IInv, NEW e \in Editors, EditorStep(e) PROVE IInv'
  <1>1. CASE RequestFails(e)
    <2>1. stage \in {"compliance", "archival"}
      BY DEF IInv, Shapes
    <2>. QED
      BY <1>1, <2>1, CloseStep, SessionIds DEF RequestFails
  <1>. QED
    BY <1>1, ShowPageStep, PatchReadsStep, DecisionReadsStep, PatchCommitsStep,
       DecisionCommitsStep DEF EditorStep

\* Sessions and the other batches are not part of a step of the batch b.
LEMMA BatchQuietStep ==
    ASSUME IInv, NEW b \in Batches,
           \A x \in Batches \ {b} : regenBase'[x] = regenBase[x] /\ regenNow'[x] = regenNow[x],
           GoodBatch(regenBase'[b], regenNow'[b], row', overtaken'), Shapes',
           UNCHANGED <<row, txn, overtaken>>
    PROVE  IInv'
  BY QuietMoves, StepKeeps

LEMMA BatchSelectsStep ==
    ASSUME IInv, NEW b \in Batches, BatchSelects(b) PROVE IInv'
  <1>1. PICK S \in SUBSET Drafts : regenBase' = [regenBase EXCEPT ![b] = [d \in S |-> row[d]]]
    BY DEF BatchSelects
  <1>. DEFINE base == [d \in S |-> row[d]]
  <1>2. row \in [Drafts -> Row] /\ GoodBatch(regenBase[b], regenNow[b], row, overtaken)
    BY DEF IInv, Shapes
  <1>3. regenBase[b] = << >> /\ UNCHANGED <<row, final, txn, page, stage, regenNow, stale, overtaken>>
    BY DEF BatchSelects
  <1>4. regenNow[b] = Nothing
    <2>1. DOMAIN regenBase[b] = {}
      BY <1>3
    <2>. QED
      BY <1>2, <2>1 DEF GoodBatch
  <1>5. GoodBatch(base, Nothing, row, overtaken)
    BY <1>2, ReadIsSnapshot DEF GoodBatch, Loaded
  <1>6. regenBase'[b] = base /\ \A x \in Batches \ {b} : regenBase'[x] = regenBase[x]
    BY <1>1 DEF IInv, Shapes
  <1>7. Shapes'
    BY <1>1, <1>3 DEF IInv, Shapes
  <1>. HIDE DEF base
  <1>. QED
    BY <1>3, <1>4, <1>5, <1>6, <1>7, BatchQuietStep

LEMMA BatchTurnsToStep ==
    ASSUME IInv, NEW b \in Batches, NEW d \in Drafts, BatchTurnsTo(b, d) PROVE IInv'
  <1>. DEFINE old == regenBase[b]
              r == IF old[d] = Nothing THEN row[d] ELSE old[d]
              base == [old EXCEPT ![d] = r]
  <1>1. /\ row \in [Drafts -> Row] /\ GoodBatch(old, regenNow[b], row, overtaken)
        /\ d \in DOMAIN old /\ d # Nothing
    BY LifecycleAssumption DEF IInv, Shapes, BatchTurnsTo
  <1>2. /\ regenNow' = [regenNow EXCEPT ![b] = d]
        /\ regenBase' = [regenBase EXCEPT ![b][d] = IF @ = Nothing THEN row[d] ELSE @]
        /\ UNCHANGED <<row, final, txn, page, stage, stale, overtaken>>
    BY DEF BatchTurnsTo
  <1>3. r \in Row /\ Snapshot(r, row[d], overtaken[d])
    BY <1>1, ReadIsSnapshot DEF GoodBatch
  <1>4. regenBase'[b] = base /\ \A x \in Batches \ {b} : regenBase'[x] = regenBase[x]
    BY <1>1, <1>2 DEF IInv, Shapes
  <1>5. regenNow'[b] = d /\ \A x \in Batches \ {b} : regenNow'[x] = regenNow[x]
    BY <1>2 DEF IInv, Shapes
  <1>6. Shapes'
    BY <1>2 DEF IInv, Shapes
  <1>. HIDE DEF r
  <1>7. /\ DOMAIN base = DOMAIN old /\ base[d] = r
        /\ \A x \in DOMAIN old \ {d} : base[x] = old[x]
        /\ base = [x \in DOMAIN base |-> base[x]]
    BY <1>1 DEF GoodBatch, Loaded
  <1>. HIDE DEF base
  <1>8. GoodBatch(base, d, row, overtaken)
    BY <1>1, <1>3, <1>7 DEF GoodBatch, Loaded
  <1>. QED
    BY <1>2, <1>4, <1>5, <1>6, <1>8, BatchQuietStep

LEMMA RewrittenFacts ==
    ASSUME NEW r \in Row, NEW b \in Bodies, NEW m \in Metas, r.version < MaxVersion
    PROVE  LET x == Rewritten(r, b, m)
           IN x \in Row /\ Revises(r, x) /\ x.status = Verdict[x.body]
  <1>. DEFINE report == SeoBlocked(b, m)
              y == [r EXCEPT !.body = b, !.seo = m, !.version = @ + 1, !.seoBlocked = report]
              z == Revised(r, b, m, report)
  <1>1. report \in BOOLEAN
    BY SeoBlockedType
  <1>2. y = z
    <2>. HIDE DEF report
    <2>. QED
      BY DEF Row, Revised
  <1>3. /\ z \in Row /\ z.version = r.version + 1 /\ z.body = b /\ z.seo = m
        /\ z.seoBlocked = report
    BY <1>1, RevisedFacts
  <1>4. Rewritten(r, b, m) = Gate(y)
    BY DEF Rewritten
  <1>. HIDE DEF y, z
  <1>5. /\ Gate(y) \in Row /\ Gate(y).status = Verdict[y.body]
        /\ Gate(y).version = r.version + 1 /\ SameTexts(Gate(y), y)
    BY <1>2, <1>3, GateFacts
  <1>6. Reported(Gate(y))
    BY <1>2, <1>3, <1>5 DEF Reported, SameTexts, report
  <1>7. Revises(r, Gate(y)) /\ Gate(y).status = Verdict[Gate(y).body]
    BY <1>5, <1>6 DEF Revises, SameTexts
  <1>. QED
    BY <1>4, <1>5, <1>7

\* What an answer of the language model does to each row.
LEMMA RewriteCommit ==
    ASSUME IInv, NEW b \in Batches, BatchRewrites(b)
    PROVE  LET d == regenNow[b]
               base == regenBase[b][d]
           IN /\ d \in Drafts /\ base \in Row
              /\ Snapshot(base, row[d], overtaken[d])
              /\ \A x \in Drafts \ {d} : row'[x] = row[x] /\ overtaken'[x] = overtaken[x]
              /\ overtaken'[d] = (overtaken[d] \/ base.version # row[d].version)
              /\ row' = [row EXCEPT ![d] = row'[d]] /\ overtaken' \in [Drafts -> BOOLEAN]
              /\ \E copy \in Row : /\ Revises(base, copy) /\ copy.status = Verdict[copy.body]
                                   /\ row'[d] = Merge(row[d], base, copy)
  <1>. DEFINE d == regenNow[b]
              base == regenBase[b][d]
  <1>1. /\ row \in [Drafts -> Row] /\ overtaken \in [Drafts -> BOOLEAN]
        /\ GoodBatch(regenBase[b], d, row, overtaken) /\ d # Nothing
    BY DEF IInv, Shapes, BatchRewrites
  <1>2. d \in Drafts /\ base \in Row /\ Snapshot(base, row[d], overtaken[d])
    BY <1>1 DEF GoodBatch, Loaded
  <1>3. PICK body \in Bodies, seo \in Metas :
            Store([row EXCEPT ![d] = Merge(@, base, Rewritten(base, body, seo))],
                  [x \in {d} |-> regenBase[b][x]])
    BY DEF BatchRewrites
  <1>4. base.version < MaxVersion
    BY DEF BatchRewrites
  <1>5. /\ row' = [row EXCEPT ![d] = Merge(@, base, Rewritten(base, body, seo))]
        /\ overtaken' = [x \in Drafts |->
              \/ overtaken[x]
              \/ x \in {d} /\ [y \in {d} |-> regenBase[b][y]][x].version # row[x].version]
    BY <1>3 DEF Store
  <1>. DEFINE copy == Rewritten(base, body, seo)
  <1>6. copy \in Row /\ Revises(base, copy) /\ copy.status = Verdict[copy.body]
    BY <1>2, <1>4, RewrittenFacts
  <1>. HIDE DEF d, copy
  <1>7. overtaken' = [x \in Drafts |-> overtaken[x] \/ (x = d /\ base.version # row[d].version)]
    BY <1>1, <1>2, <1>5
  <1>. HIDE DEF base
  <1>8. row'[d] = Merge(row[d], base, copy) /\ row' = [row EXCEPT ![d] = row'[d]]
    BY <1>1, <1>2, <1>5 DEF copy
  <1>9. \A x \in Drafts \ {d} : row'[x] = row[x] /\ overtaken'[x] = overtaken[x]
    BY <1>1, <1>7, <1>8
  <1>10. /\ overtaken'[d] = (overtaken[d] \/ base.version # row[d].version)
         /\ overtaken' \in [Drafts -> BOOLEAN]
    BY <1>1, <1>2, <1>7
  <1>. QED
    BY <1>2, <1>6, <1>8, <1>9, <1>10 DEF d, base

LEMMA WithoutIsGood ==
    ASSUME NEW base, NEW now, NEW d, NEW rows, NEW over, GoodBatch(base, now, rows, over)
    PROVE  GoodBatch(Without(base, d), Nothing, rows, over)
  <1>1. /\ DOMAIN Without(base, d) \subseteq DOMAIN base
        /\ \A x \in DOMAIN Without(base, d) : Without(base, d)[x] = base[x]
        /\ Without(base, d) = [x \in DOMAIN Without(base, d) |-> base[x]]
    BY DEF Without
  <1>. QED
    BY <1>1 DEF GoodBatch, Loaded

LEMMA BatchRewritesStep ==
    ASSUME IInv, NEW b \in Batches, BatchRewrites(b) PROVE IInv'
  <1>. DEFINE d == regenNow[b]
              base == regenBase[b][d]
  <1>1. /\ d \in Drafts /\ base \in Row /\ Snapshot(base, row[d], overtaken[d])
        /\ \A x \in Drafts \ {d} : row'[x] = row[x] /\ overtaken'[x] = overtaken[x]
        /\ overtaken'[d] = (overtaken[d] \/ base.version # row[d].version)
        /\ row' = [row EXCEPT ![d] = row'[d]] /\ overtaken' \in [Drafts -> BOOLEAN]
        /\ \E copy \in Row : Revises(base, copy) /\ row'[d] = Merge(row[d], base, copy)
    BY RewriteCommit
  <1>2. PICK copy \in Row : Revises(base, copy) /\ row'[d] = Merge(row[d], base, copy)
    BY <1>1
  <1>3. /\ regenBase' = [regenBase EXCEPT ![b] = Without(@, d)]
        /\ regenNow' = [regenNow EXCEPT ![b] = Nothing]
        /\ UNCHANGED <<final, txn, page, stage, stale>>
    BY DEF BatchRewrites
  <1>4. /\ regenBase'[b] = Without(regenBase[b], d) /\ regenNow'[b] = Nothing
        /\ \A x \in Batches \ {b} : regenBase'[x] = regenBase[x] /\ regenNow'[x] = regenNow[x]
    BY <1>3 DEF IInv, Shapes
  <1>5. /\ row \in [Drafts -> Row] /\ overtaken \in [Drafts -> BOOLEAN]
        /\ GoodBatch(regenBase[b], d, row, overtaken)
        /\ \A x \in Drafts : overtaken[x] \/ Reported(row[x])
    BY DEF IInv, Shapes, ReportIsCurrent, Reported
  <1>. HIDE DEF d, base
  <1>6. row' \in [Drafts -> Row]
    BY <1>1, <1>2, <1>5, MergeFacts
  <1>7. ASSUME NEW x \in Drafts
        PROVE  /\ Moves(row[x], overtaken[x], row'[x], overtaken'[x])
               /\ overtaken'[x] \/ Reported(row'[x])
    <2>1. CASE x = d
      <3>1. row[d] \in Row /\ overtaken[d] \in BOOLEAN
        BY <1>1, <1>5
      <3>2. /\ Moves(row[d], overtaken[d], Merge(row[d], base, copy),
                     overtaken[d] \/ base.version # row[d].version)
            /\ \/ overtaken[d] \/ base.version # row[d].version
               \/ Reported(Merge(row[d], base, copy))
        BY <1>1, <1>2, <1>5, <3>1, CommitMoves, Zenon
      <3>. QED
        BY <1>1, <1>2, <2>1, <3>2
    <2>2. CASE x # d
      <3>1. row'[x] = row[x] /\ overtaken'[x] = overtaken[x]
        BY <1>1, <2>2
      <3>2. row[x].version <= row[x].version /\ overtaken[x] \in BOOLEAN
        BY <1>5, RowFields
      <3>. QED
        BY <1>5, <3>1, <3>2 DEF Moves, SameTexts
    <2>. QED
      BY <2>1, <2>2
  <1>8. ReportIsCurrent'
    BY <1>7 DEF ReportIsCurrent, Reported, SeoBlocked
  <1>9. GoodBatch(regenBase'[b], regenNow'[b], row', overtaken')
    <2>1. GoodBatch(regenBase[b], d, row', overtaken')
      BY <1>5, <1>6, <1>7, GoodBatchStep
    <2>. QED
      BY <1>4, <2>1, WithoutIsGood
  <1>10. Shapes'
    BY <1>1, <1>3, <1>6 DEF IInv, Shapes
  <1>. QED
    BY <1>3, <1>4, <1>7, <1>8, <1>9, <1>10, StepKeeps

LEMMA BatchCallFailsStep ==
    ASSUME IInv, NEW b \in Batches, BatchCallFails(b) PROVE IInv'
  <1>. DEFINE d == regenNow[b]
              base == [x \in DOMAIN regenBase[b] \ {d} |-> Nothing]
  <1>1. /\ regenBase' = [regenBase EXCEPT ![b] = [x \in DOMAIN @ \ {d} |-> Nothing]]
        /\ regenNow' = [regenNow EXCEPT ![b] = Nothing]
        /\ UNCHANGED <<row, final, txn, page, stage, stale, overtaken>>
    BY DEF BatchCallFails
  <1>2. /\ regenBase'[b] = base /\ regenNow'[b] = Nothing
        /\ \A x \in Batches \ {b} : regenBase'[x] = regenBase[x] /\ regenNow'[x] = regenNow[x]
    BY <1>1 DEF IInv, Shapes
  <1>3. GoodBatch(regenBase[b], d, row, overtaken)
    BY DEF IInv
  <1>4. GoodBatch(base, Nothing, row, overtaken)
    BY <1>3 DEF GoodBatch, Loaded
  <1>5. Shapes'
    BY <1>1 DEF IInv, Shapes
  <1>. HIDE DEF base, d
  <1>. QED
    BY <1>1, <1>2, <1>4, <1>5, BatchQuietStep

LEMMA TtlElapsesStep ==
    ASSUME IInv, NEW d \in Drafts, TtlElapses(d) PROVE IInv'
  <1>1. Shapes'
    BY DEF IInv, Shapes, TtlElapses, regen
  <1>. QED
    BY <1>1, QuietMoves, StepKeeps DEF TtlElapses, regen

-----------------------------------------------------------------------------
(* Theorems *)

LEMMA InvInit == ASSUME Init PROVE IInv
  <1>1. \A d \in Drafts : row[d].seoBlocked = SeoBlocked(row[d].body, row[d].seo)
    BY DEF Init
  <1>2. Shapes
    BY LifecycleAssumption DEF Init, Shapes
  <1>3. \A s \in Sessions : GoodSession(s, txn[s], row, overtaken)
    BY NoTxnIsGood DEF Init
  <1>4. \A b \in Batches : GoodBatch(regenBase[b], regenNow[b], row, overtaken)
    BY DEF Init, GoodBatch, Loaded
  <1>. QED
    BY <1>1, <1>2, <1>3, <1>4 DEF IInv, ReportIsCurrent

LEMMA InvNext == ASSUME IInv, [Next]_vars PROVE IInv'
  <1>1. CASE PollStep
    BY <1>1, PollStepKeeps
  <1>2. ASSUME NEW e \in Editors, EditorStep(e)
        PROVE  IInv'
    BY <1>2, EditorStepKeeps
  <1>3. ASSUME NEW b \in Batches, BatchStep(b)
        PROVE  IInv'
    BY <1>3, BatchSelectsStep, BatchTurnsToStep, BatchRewritesStep, BatchCallFailsStep
    DEF BatchStep
  <1>4. ASSUME NEW d \in Drafts, TtlElapses(d)
        PROVE  IInv'
    BY <1>4, TtlElapsesStep
  <1>5. CASE UNCHANGED vars
    <2>1. UNCHANGED <<row, final, txn, page, stage, regenBase, regenNow, stale, overtaken>>
      BY <1>5 DEF vars
    <2>2. Shapes'
      BY <2>1 DEF IInv, Shapes
    <2>. QED
      BY <2>1, <2>2, QuietMoves, StepKeeps
  <1>. QED
    BY <1>1, <1>2, <1>3, <1>4, <1>5 DEF Next

\* The invariant holds in every reachable state.
THEOREM InvariantHolds == Spec => []IInv
  BY InvInit, InvNext, PTL DEF Spec

\* The row and what the sessions hold of it keep their shape.
THEOREM TypeCorrect == Spec => []TypeOK
  BY InvariantHolds, InvType, PTL

\* Whatever sessions and batches interleave, the report of a row is that of its
\* texts until a writer overtakes another.
THEOREM ReportStaysCurrent == Spec => []ReportIsCurrent
  <1>1. IInv => ReportIsCurrent
    BY DEF IInv
  <1>. QED
    BY <1>1, InvariantHolds, PTL

\* A session that brings a row into a status had another one and meant this.
LEMMA FlushEnters ==
    ASSUME IInv, NEW s \in Sessions, Flush(s), NEW d \in Drafts, NEW status, Enters(d, status)
    PROVE  LET t == txn[s] IN
           /\ d \in DOMAIN t.base /\ t.base[d] \in Row
           /\ StatusOf(t.op, t.base[d]) = status /\ t.base[d].status # status
           /\ t.op # "patch" => SameTexts(t.copy[d], t.base[d])
           /\ ~overtaken'[d] => SameTexts(row'[d], t.copy[d])
  <1>. DEFINE base == txn[s].base
              copy == txn[s].copy
  <1>1. d \in DOMAIN base
    BY FlushFacts DEF Enters
  <1>2. /\ base[d] \in Row /\ copy[d] \in Row /\ row[d] \in Row
        /\ row'[d] = Merge(row[d], base[d], copy[d])
        /\ overtaken'[d] = (overtaken[d] \/ base[d].version # row[d].version)
    BY <1>1, FlushFacts DEF IInv, Shapes
  <1>3. Snapshot(base[d], row[d], overtaken[d]) /\ Changes(txn[s].op, base[d], copy[d])
    BY <1>1 DEF IInv, GoodSession
  <1>. HIDE DEF base, copy
  <1>4. copy[d].status = status /\ base[d].status # status
    BY <1>2, MergeFacts DEF Enters
  <1>5. ~overtaken'[d] => SameTexts(row'[d], copy[d])
    <2>1. SameTexts(base[d], row[d]) =>
              SameTexts(Merge(row[d], base[d], copy[d]), copy[d])
      BY <1>2, MergeFacts, Zenon
    <2>. QED
      BY <1>2, <1>3, <2>1 DEF Snapshot
  <1>. QED
    BY <1>1, <1>2, <1>3, <1>4, <1>5 DEF Changes, base, copy

LEMMA RewriteEnters ==
    ASSUME IInv, NEW b \in Batches, BatchRewrites(b), NEW d \in Drafts, NEW status,
           Enters(d, status)
    PROVE  /\ status \in Queue \cup {"drafting"}
           /\ ~overtaken'[d] => status = Verdict[row'[d].body]
  <1>. DEFINE c == regenNow[b]
              base == regenBase[b][c]
  <1>1. /\ c \in Drafts /\ base \in Row /\ Snapshot(base, row[c], overtaken[c])
        /\ \A x \in Drafts \ {c} : row'[x] = row[x]
        /\ overtaken'[c] = (overtaken[c] \/ base.version # row[c].version)
        /\ \E copy \in Row : /\ Revises(base, copy) /\ copy.status = Verdict[copy.body]
                             /\ row'[c] = Merge(row[c], base, copy)
    BY RewriteCommit
  <1>2. PICK copy \in Row : copy.status = Verdict[copy.body] /\ row'[c] = Merge(row[c], base, copy)
    BY <1>1
  <1>3. row[c] \in Row
    BY <1>1 DEF IInv, Shapes
  <1>. HIDE DEF c, base
  <1>4. d = c
    BY <1>1 DEF Enters
  <1>5. copy.status = status
    BY <1>1, <1>2, <1>3, <1>4, MergeFacts DEF Enters
  <1>6. status \in Queue \cup {"drafting"}
    BY <1>2, <1>5, RowFields, VerdictIsStatus
  <1>7. ~overtaken'[d] => SameTexts(row'[d], copy)
    <2>1. SameTexts(base, row[c]) => SameTexts(Merge(row[c], base, copy), copy)
      BY <1>1, <1>3, MergeFacts, Zenon
    <2>. QED
      BY <1>1, <1>2, <1>4, <2>1 DEF Snapshot
  <1>. QED
    BY <1>2, <1>5, <1>6, <1>7 DEF SameTexts

\* Only commits and answers change rows.
LEMMA RowWriters ==
    ASSUME Next, row' # row
    PROVE  \/ PollCommits \/ \E e \in Editors : PatchCommits(e) \/ DecisionCommits(e)
           \/ \E b \in Batches : BatchRewrites(b)
  <1>1. PollStep => PollCommits
    BY DEF PollStep, ComplianceReads, ArchivalReads, PollFails
  <1>2. ASSUME NEW e \in Editors, EditorStep(e)
        PROVE  PatchCommits(e) \/ DecisionCommits(e)
    BY <1>2 DEF EditorStep, ShowPage, PatchReads, DecisionReads, RequestFails
  <1>3. ASSUME NEW b \in Batches, BatchStep(b)
        PROVE  BatchRewrites(b)
    BY <1>3 DEF BatchStep, BatchSelects, BatchTurnsTo, BatchCallFails
  <1>4. \A d \in Drafts : ~TtlElapses(d)
    BY DEF TtlElapses
  <1>. QED
    BY <1>1, <1>2, <1>3, <1>4 DEF Next

\* What the poll tick brings into a status, by its own operations.
LEMMA PollEnters ==
    ASSUME IInv, PollCommits, NEW d \in Drafts, NEW status, Enters(d, status)
    PROVE  /\ status \in Queue \cup {"drafting", "archived"}
           /\ status # "archived" /\ ~overtaken'[d] => status = Verdict[row'[d].body]
  <1>. DEFINE t == txn[Worker]
  <1>1. Flush(Worker) /\ Worker \in Sessions
    BY SessionIds DEF PollCommits
  <1>2. /\ d \in DOMAIN t.base /\ t.base[d] \in Row
        /\ StatusOf(t.op, t.base[d]) = status /\ t.base[d].status # status
        /\ t.op # "patch" => SameTexts(t.copy[d], t.base[d])
        /\ ~overtaken'[d] => SameTexts(row'[d], t.copy[d])
    BY <1>1, FlushEnters
  <1>3. t.op \in {"none", "compliance", "archival"}
    BY <1>1 DEF IInv, GoodSession
  <1>. HIDE DEF t
  <1>4. CASE t.op = "compliance"
    BY <1>2, <1>4, RowFields, VerdictIsStatus DEF StatusOf, SameTexts
  <1>5. CASE t.op = "archival"
    BY <1>2, <1>5 DEF StatusOf
  <1>6. CASE t.op = "none"
    BY <1>2, <1>6 DEF StatusOf, Decision
  <1>. QED
    BY <1>3, <1>4, <1>5, <1>6

\* What goes public was filed, whoever else writes the row meanwhile.
THEOREM PublishedIsFiled == Spec => PublishedTextFiled
  <1>1. ASSUME IInv, Next, NEW d \in Drafts, Enters(d, "published"), ~overtaken'[d]
        PROVE  final'[d] = row'[d].body
    <2>1. row' # row
      BY <1>1 DEF Enters
    <2>2. CASE PollCommits
      BY <1>1, <2>2, PollEnters DEF Queue
    <2>3. ASSUME NEW b \in Batches, BatchRewrites(b)
          PROVE  FALSE
      BY <1>1, <2>3, RewriteEnters DEF Queue
    <2>4. ASSUME NEW e \in Editors, PatchCommits(e)
          PROVE  FALSE
      <3>1. Flush(e) /\ e \in Sessions /\ txn[e].op = "patch"
        BY <2>4, SessionIds DEF PatchCommits
      <3>2. /\ StatusOf("patch", txn[e].base[d]) = "published"
            /\ txn[e].base[d].status # "published"
        BY <1>1, <3>1, FlushEnters
      <3>. QED
        BY <3>2 DEF StatusOf, Decision
    <2>5. ASSUME NEW e \in Editors, DecisionCommits(e)
          PROVE  final'[d] = row'[d].body
      <3>1. Flush(e) /\ e \in Sessions /\ txn[e].op \in DOMAIN Decision
            /\ final' = [x \in Drafts |-> IF txn[e].op = "publish" /\ x \in DOMAIN txn[e].base
                                          THEN FinalText(e, x) ELSE final[x]]
        BY <2>5, SessionIds DEF DecisionCommits
      <3>2. /\ d \in DOMAIN txn[e].base /\ StatusOf(txn[e].op, txn[e].base[d]) = "published"
            /\ SameTexts(row'[d], txn[e].copy[d])
        BY <1>1, <3>1, FlushEnters
      <3>3. txn[e].op = "publish"
        BY <3>1, <3>2 DEF StatusOf, Decision
      <3>. QED
        BY <3>1, <3>2, <3>3 DEF FinalText, SameTexts
    <2>. QED
      BY <1>1, <2>1, <2>2, <2>3, <2>4, <2>5, RowWriters
  <1>2. ASSUME IInv, [Next]_vars
        PROVE  [\A d \in Drafts : Enters(d, "published") /\ ~overtaken'[d]
                                     => final'[d] = row'[d].body]_vars
    BY <1>1, <1>2
  <1>. QED
    BY <1>2, InvariantHolds, PTL DEF PublishedTextFiled, Spec

\* Neither the gate nor a regeneration promotes a text that the rules block.
THEOREM BlockedStayBlocked == Spec => BlockedNotPromoted
  <1>1. ASSUME IInv, Next, NEW d \in Drafts, MachineStep, Enters(d, "ready_for_review"),
               ~overtaken'[d]
        PROVE  Verdict[row'[d].body] # "drafting"
    <2>1. row' # row
      BY <1>1 DEF Enters
    <2>2. CASE PollCommits
      BY <1>1, <2>2, PollEnters
    <2>3. ASSUME NEW b \in Batches, BatchRewrites(b)
          PROVE  Verdict[row'[d].body] # "drafting"
      BY <1>1, <2>3, RewriteEnters
    <2>4. ASSUME NEW e \in Editors, PatchCommits(e) \/ DecisionCommits(e)
          PROVE  FALSE
      <3>1. txn' = [txn EXCEPT ![e] = NoTxn] /\ UNCHANGED regen
        BY <2>4 DEF PatchCommits, DecisionCommits, Flush
      <3>2. txn'[Worker] = txn[Worker] /\ regenBase' = regenBase
        BY <1>1, <3>1, SessionIds DEF IInv, Shapes, regen
      <3>. QED
        BY <1>1, <3>2 DEF MachineStep
    <2>. QED
      BY <1>1, <2>1, <2>2, <2>3, <2>4, RowWriters
  <1>2. ASSUME IInv, [Next]_vars
        PROVE  [\A d \in Drafts : MachineStep /\ Enters(d, "ready_for_review") /\ ~overtaken'[d]
                                     => Verdict[row'[d].body] # "drafting"]_vars
    BY <1>1, <1>2
  <1>. QED
    BY <1>2, InvariantHolds, PTL DEF BlockedNotPromoted, Spec

-----------------------------------------------------------------------------
\* What goes public has a pack whose figures its text contains, unless it changed
\* under the request: the publish guard reads a report that others wrote.
PublishedIsSupported ==
    [][\A d \in Drafts :
         Enters(d, "published") /\ ~overtaken'[d]
            => row'[d].seo \in Supports[row'[d].body]]_vars

\* The drafts a request is about to publish were read with a clean report.
PublishGuarded ==
    \A s \in Sessions : txn[s].op = "publish" =>
        \A d \in DOMAIN txn[s].base : ~txn[s].base[d].seoBlocked

LEMMA GuardKept ==
    ASSUME IInv, PublishGuarded, [Next]_vars
    PROVE  PublishGuarded'
  <1>1. \A s \in Sessions : txn' = [txn EXCEPT ![s] = txn'[s]] =>
            \A x \in Sessions \ {s} : txn'[x] = txn[x]
    BY DEF IInv, Shapes
  <1>2. ASSUME NEW s \in Sessions, txn' = [txn EXCEPT ![s] = txn'[s]],
               txn'[s].op = "publish" => \A d \in DOMAIN txn'[s].base : ~txn'[s].base[d].seoBlocked
        PROVE  PublishGuarded'
    BY <1>1, <1>2 DEF PublishGuarded
  <1>3. \A s \in Sessions : \A t : txn' = [txn EXCEPT ![s] = t] => txn'[s] = t
    BY DEF IInv, Shapes
  <1>4. NoTxn.op # "publish"
    BY DEF NoTxn
  <1>5. ASSUME NEW s \in Sessions, NEW op, NEW D, NEW copy,
               txn' = [txn EXCEPT ![s] = [op |-> op, base |-> [d \in D |-> row[d]], copy |-> copy]],
               op = "publish" => \A d \in D : ~row[d].seoBlocked
        PROVE  PublishGuarded'
    <2>. DEFINE t == [op |-> op, base |-> [d \in D |-> row[d]], copy |-> copy]
    <2>1. t.op = op /\ DOMAIN t.base = D /\ \A d \in D : t.base[d] = row[d]
      OBVIOUS
    <2>2. txn' = [txn EXCEPT ![s] = t]
      BY <1>5
    <2>. HIDE DEF t
    <2>3. txn'[s] = t
      BY <1>3, <2>2
    <2>. QED
      BY <1>2, <1>5, <2>1, <2>2, <2>3
  <1>6. ASSUME NEW s \in Sessions, txn' = [txn EXCEPT ![s] = NoTxn]
        PROVE  PublishGuarded'
    <2>1. txn'[s] = NoTxn
      BY <1>3, <1>6
    <2>. QED
      BY <1>2, <1>4, <1>6, <2>1
  <1>7. Worker \in Sessions /\ Editors \subseteq Sessions
    BY DEF Sessions
  <1>8. CASE PollStep
    <2>1. ComplianceReads => PublishGuarded'
      BY <1>5, <1>7 DEF ComplianceReads, Open
    <2>2. ArchivalReads => PublishGuarded'
      BY <1>5, <1>7 DEF ArchivalReads, Open
    <2>3. PollCommits \/ PollFails => PublishGuarded'
      BY <1>6, <1>7 DEF PollCommits, PollFails, Flush
    <2>. QED
      BY <1>8, <2>1, <2>2, <2>3 DEF PollStep
  <1>9. ASSUME NEW e \in Editors, EditorStep(e)
        PROVE  PublishGuarded'
    <2>1. ASSUME NEW d \in Drafts, PatchReads(e, d)
          PROVE  PublishGuarded'
      <3>1. \E copy : txn' = [txn EXCEPT ![e] = [op |-> "patch", base |-> [x \in {d} |-> row[x]],
                                                copy |-> copy]]
        BY <2>1 DEF PatchReads, Open
      <3>. QED
        BY <1>5, <1>7, <3>1
    <2>2. ASSUME NEW d \in Drafts, NEW op, DecisionReads(e, d, op)
          PROVE  PublishGuarded'
      <3>1. /\ op = "publish" => ~row[d].seoBlocked
            /\ \E copy : txn' = [txn EXCEPT ![e] = [op |-> op, base |-> [x \in {d} |-> row[x]],
                                                   copy |-> copy]]
        BY <2>2 DEF DecisionReads, Open
      <3>. QED
        BY <1>5, <1>7, <3>1
    <2>3. PatchCommits(e) \/ DecisionCommits(e) \/ RequestFails(e) => PublishGuarded'
      BY <1>6, <1>7 DEF PatchCommits, DecisionCommits, RequestFails, Flush
    <2>4. ASSUME NEW d \in Drafts, ShowPage(e, d)
          PROVE  PublishGuarded'
      BY <2>4 DEF ShowPage, PublishGuarded
    <2>. QED
      BY <1>9, <2>1, <2>2, <2>3, <2>4 DEF EditorStep
  <1>10. CASE txn' = txn
    BY <1>10 DEF PublishGuarded
  <1>11. ASSUME NEW b \in Batches, BatchStep(b)
         PROVE  txn' = txn
    BY <1>11 DEF BatchStep, BatchSelects, BatchTurnsTo, BatchRewrites, BatchCallFails
  <1>. QED
    BY <1>8, <1>9, <1>10, <1>11 DEF Next, TtlElapses, vars

\* A text that others left unsupported does not go public: the report that the
\* guard read is still the one of the texts that are stored, whoever edited or
\* regenerated the draft before, and whatever a stage commits meanwhile.
THEOREM PublishedAreSupported == Spec => PublishedIsSupported
  <1>1. Init => PublishGuarded
    <2>1. NoTxn.op # "publish"
      BY DEF NoTxn
    <2>. QED
      BY <2>1 DEF Init, PublishGuarded
  <1>2. ASSUME IInv, IInv', PublishGuarded, Next, NEW d \in Drafts, Enters(d, "published"),
               ~overtaken'[d]
        PROVE  row'[d].seo \in Supports[row'[d].body]
    <2>1. row' # row
      BY <1>2 DEF Enters
    <2>2. ~PollCommits /\ \A b \in Batches : ~BatchRewrites(b)
      BY <1>2, PollEnters, RewriteEnters DEF Queue
    <2>3. PICK e \in Editors : PatchCommits(e) \/ DecisionCommits(e)
      BY <1>2, <2>1, <2>2, RowWriters
    <2>4. Flush(e) /\ e \in Sessions
      BY <2>3, SessionIds DEF PatchCommits, DecisionCommits
    <2>5. /\ d \in DOMAIN txn[e].base /\ StatusOf(txn[e].op, txn[e].base[d]) = "published"
          /\ txn[e].base[d].status # "published"
          /\ txn[e].op # "patch" => SameTexts(txn[e].copy[d], txn[e].base[d])
          /\ SameTexts(row'[d], txn[e].copy[d])
      BY <1>2, <2>4, FlushEnters
    <2>6. txn[e].op = "publish"
      BY <2>3, <2>5 DEF PatchCommits, DecisionCommits, StatusOf, Decision
    <2>7. ~txn[e].base[d].seoBlocked
      BY <1>2, <2>4, <2>5, <2>6 DEF PublishGuarded
    <2>8. ~row'[d].seoBlocked
      BY <2>5, <2>6, <2>7 DEF SameTexts
    <2>9. row'[d].seoBlocked = SeoBlocked(row'[d].body, row'[d].seo)
      BY <1>2 DEF IInv, ReportIsCurrent
    <2>. QED
      BY <2>8, <2>9 DEF SeoBlocked
  <1>3. ASSUME IInv, IInv', PublishGuarded, [Next]_vars
        PROVE  [\A d \in Drafts : Enters(d, "published") /\ ~overtaken'[d]
                                     => row'[d].seo \in Supports[row'[d].body]]_vars
    BY <1>2, <1>3
  <1>4. IInv /\ PublishGuarded /\ [Next]_vars => PublishGuarded'
    BY GuardKept
  <1>. QED
    BY <1>1, <1>3, <1>4, InvariantHolds, PTL DEF PublishedIsSupported, Spec

-----------------------------------------------------------------------------
(***************************************************************************)
(* The editing lock.  That the row is unique and the lease need no more of *)
(* the types than that of the lock rows.                                   *)
(***************************************************************************)

LockTyped == lock \in [Users -> {"none", "live", "expired"}]
LockInv == LockTyped /\ OneEditingRow

LiveRows == {u \in Users : lock[u] = "live"}

\* What any step does to the rows: it drops some, or one user takes or renews
\* a row that no other user has.
RowsDrop == \A u \in Users : /\ lock'[u] # "none" => lock[u] # "none"
                             /\ lock'[u] = "live" => lock[u] = "live"
RowTaken(w) == /\ w \in Users
               /\ LiveRows' = {w}
               /\ Holding(lock') = {w}
               /\ LiveRows \subseteq {w}
RowsChange == /\ lock' \in [Users -> {"none", "live", "expired"}]
              /\ RowsDrop \/ \E w \in Users : RowTaken(w)

LEMMA ClaimChanges ==
    ASSUME LockInv, NEW t \in Tabs, Claim(t)
    PROVE  RowsChange
  <1> DEFINE w == Owner[t]
  <1> USE DEF Holding, Purged
  <1>0. w \in Users
    BY LockAssumption
  <1>1. CASE Refused(Purged(lock), w)
    BY <1>1 DEF Claim, StartReport, LockInv, LockTyped, RowsChange, RowsDrop
  <1>2. CASE ~Refused(Purged(lock), w)
    <2>1. lock' = Purged([Purged(lock) EXCEPT ![w] = "live"])
      BY <1>2 DEF Claim, StartReport
    <2>2. Holding(Purged(lock)) \subseteq {w}
      BY <1>2 DEF Refused
    <2>3. LiveRows \subseteq {w}
      BY <2>2 DEF LiveRows
    <2>4. lock' = [u \in Users |-> IF u = w THEN "live" ELSE "none"]
      BY <1>0, <2>1, <2>2 DEF LockInv, LockTyped
    <2>5. RowTaken(w)
      BY <1>0, <2>3, <2>4 DEF RowTaken, LiveRows
    <2>6. QED
      BY <1>0, <2>4, <2>5 DEF RowsChange
  <1>3. QED
    BY <1>1, <1>2

LEMMA HeartbeatChanges ==
    ASSUME LockInv, NEW t \in Tabs, Heartbeat(t)
    PROVE  RowsChange
  <1> DEFINE w == Owner[t]
  <1> USE DEF Holding, Purged
  <1>0. w \in Users
    BY LockAssumption
  <1>1. CASE lock[w] = "none"
    BY <1>0, <1>1
       DEF Heartbeat, StartReport, LockInv, LockTyped, RowsChange, RowsDrop
  <1>2. CASE lock[w] # "none"
    <2>1. Holding(lock) = {w}
      BY <1>0, <1>2 DEF LockInv, OneEditingRow
    <2>2. lock' = [u \in Users |-> IF u = w THEN "live" ELSE "none"]
      BY <1>0, <1>2, <2>1 DEF Heartbeat, StartReport, LockInv, LockTyped
    <2>3. RowTaken(w)
      BY <1>0, <2>1, <2>2 DEF RowTaken, LiveRows
    <2>4. QED
      BY <1>0, <2>2, <2>3 DEF RowsChange
  <1>3. QED
    BY <1>1, <1>2

\* Every other step takes no row.
LEMMA StepChanges ==
    ASSUME LockInv, [LockNext]_lockVars
    PROVE  RowsChange
  <1>1. ASSUME NEW t \in Tabs, Claim(t) PROVE RowsChange
    BY <1>1, ClaimChanges
  <1>2. ASSUME NEW t \in Tabs, Heartbeat(t) PROVE RowsChange
    BY <1>2, HeartbeatChanges
  <1> USE DEF LockInv, LockTyped, RowsChange, RowsDrop, Purged
  <1>3. ASSUME NEW t \in Tabs,
               Connect(t) \/ ReleaseEditing(t) \/ Disconnect(t)
        PROVE  RowsChange
    BY <1>3 DEF Connect, ReleaseEditing, Disconnect, StartReport
  <1>4. ASSUME NEW t \in Tabs,
               Browser(t) \/ \E to \in Tabs : Deliver(t, to)
        PROVE  RowsChange
    <2>1. lock' = lock
      BY <1>4, Zenon DEF Browser, Leave, Sleep, Wake, Die, Deliver
    <2>2. QED
      BY <2>1
  <1>5. ASSUME NEW u \in Users, Expire(u)
        PROVE  RowsChange
    BY <1>5 DEF Expire
  <1>6. CASE Restart \/ UNCHANGED lockVars
    BY <1>6 DEF Restart, lockVars
  <1>7. QED
    BY <1>1, <1>2, <1>3, <1>4, <1>5, <1>6, Zenon DEF LockNext, Handle

LEMMA InitLock == LockInit => LockInv
  BY DEF LockInit, LockInv, LockTyped, OneEditingRow, Holding

LEMMA NextLock == LockInv /\ [LockNext]_lockVars => LockInv'
  <1> SUFFICES ASSUME LockInv, [LockNext]_lockVars
               PROVE  LockInv'
    OBVIOUS
  <1>1. RowsChange
    BY StepChanges
  <1>2. CASE RowsDrop
    BY <1>1, <1>2
       DEF RowsChange, RowsDrop, LockInv, LockTyped, OneEditingRow, Holding
  <1>3. CASE \E w \in Users : RowTaken(w)
    BY <1>1, <1>3
       DEF RowsChange, RowTaken, LockInv, LockTyped, OneEditingRow, Holding
  <1>4. QED
    BY <1>1, <1>2, <1>3 DEF RowsChange

\* Whatever the tabs, users, restarts and clocks do, at most one user has an
\* editing row of the draft, live or expired.
THEOREM EditingRowIsUnique == LockSpec => []OneEditingRow
  <1>1. LockInv => OneEditingRow
    BY DEF LockInv
  <1>2. QED
    BY <1>1, InitLock, NextLock, PTL DEF LockSpec

-----------------------------------------------------------------------------
\* A live row names the holder of the lease.
LiveNamed == /\ LiveRows = {} => Editor = Nobody
             /\ \A u \in LiveRows : LiveRows = {u} /\ Editor = u

LEMMA EditorIsLive == LockInv => LiveNamed
  <1> SUFFICES ASSUME LockInv PROVE LiveNamed
    OBVIOUS
  <1>1. LiveRows = {} => Editor = Nobody
    BY DEF LiveRows, Editor
  <1>2. ASSUME NEW u \in LiveRows
        PROVE  LiveRows = {u} /\ Editor = u
    <2>1. \A v \in Users : lock[v] = "live" <=> v = u
      BY <1>2 DEF LockInv, LockTyped, OneEditingRow, Holding, LiveRows
    <2>2. u \in Users /\ LiveRows = {u}
      BY <1>2, <2>1 DEF LiveRows
    <2>3. (CHOOSE v \in Users : lock[v] = "live") = u
      BY <2>1, <2>2
    <2>4. Editor = u
      BY <2>2, <2>3 DEF Editor, LiveRows
    <2>5. QED
      BY <2>2, <2>4
  <1>3. QED
    BY <1>1, <1>2 DEF LiveNamed

LEMMA LeaseStep == LockInv /\ LockInv' /\ [LockNext]_lockVars => Promise!Next
  <1> SUFFICES ASSUME LockInv, LockInv', [LockNext]_lockVars
               PROVE  Promise!Next
    OBVIOUS
  <1>0. Away' \in SUBSET Users
    BY DEF Away
  <1>1. RowsChange
    BY StepChanges
  <1>2. LiveNamed
    BY EditorIsLive
  <1>3. LiveNamed'
    BY EditorIsLive, PTL
  <1> USE DEF Promise!Next, Promise!Idle, Promise!Take, Promise!Drop,
              Promise!ComeAndGo, LiveNamed
  <1>4. CASE LiveRows' = LiveRows
    BY <1>0, <1>2, <1>3, <1>4
  <1>5. CASE LiveRows' = {} /\ LiveRows # {}
    <2>1. PICK u \in Users : u \in LiveRows
      BY <1>5 DEF LiveRows
    <2>2. QED
      BY <1>0, <1>2, <1>3, <1>5, <2>1
  <1>6. CASE LiveRows = {} /\ LiveRows' # {}
    <2>1. PICK u \in Users : u \in LiveRows'
      BY <1>6 DEF LiveRows
    <2>2. QED
      BY <1>0, <1>2, <1>3, <1>6, <2>1
  <1>7. LiveRows' = LiveRows \/ LiveRows' = {} \/ LiveRows = {}
    <2>1. CASE RowsDrop
      <3>1. LiveRows' \subseteq LiveRows
        BY <2>1 DEF RowsDrop, LiveRows
      <3>2. QED
        BY <1>2, <3>1
    <2>2. CASE \E w \in Users : RowTaken(w)
      BY <2>2 DEF RowTaken
    <2>3. QED
      BY <1>1, <2>1, <2>2 DEF RowsChange
  <1>8. QED
    BY <1>4, <1>5, <1>6, <1>7

\* The lock is safe as a lease is: it passes from one user to another only
\* through nobody, whichever handler runs.
THEOREM LockStepsAreLeaseSteps ==
    LockSpec => Promise!Init /\ [][Promise!Next]_(Promise!vars)
  <1>1. LockInit => Promise!Init
    BY DEF LockInit, Promise!Init, Editor, Away
  <1>2. LockInv /\ LockInv' /\ [LockNext]_lockVars => [Promise!Next]_(Promise!vars)
    BY LeaseStep
  <1>3. QED
    BY <1>1, <1>2, InitLock, NextLock, PTL DEF LockSpec

-----------------------------------------------------------------------------
(***************************************************************************)
(* Types: what a coroutine reports and a tab shows is always a user, nobody*)
(* or, before the first report, unknown.                                   *)
(***************************************************************************)

Rows == [Users -> {"none", "live", "expired"}]

LEMMA PurgedType ==
    ASSUME NEW rows \in Rows
    PROVE  /\ Purged(rows) \in Rows
           /\ EditorOf(Purged(rows)) \in Users \cup {Nobody}
  BY DEF Rows, Purged, EditorOf, Holding

LEMMA ReportType ==
    ASSUME LockTypeOK, NEW t \in Tabs, NEW rows \in Rows, NEW room \in SUBSET Tabs,
           StartReport(t, rows, room)
    PROVE  lock' \in Rows /\ mail' \in [Tabs -> Report]
  <1> DEFINE e == EditorOf(Purged(rows))
  <1>1. Purged(rows) \in Rows /\ e \in Users \cup {Nobody}
    BY PurgedType
  <1>2. lock' = Purged(rows) /\ mail' = [mail EXCEPT ![t] = [editor |-> e, left |-> room]]
    BY DEF StartReport
  <1> HIDE DEF e
  <1>3. QED
    BY <1>1, <1>2 DEF LockTypeOK, Report

LEMMA NextTypes == LockTypeOK /\ [LockNext]_lockVars => LockTypeOK'
  <1> SUFFICES ASSUME LockTypeOK, [LockNext]_lockVars PROVE LockTypeOK'
    OBVIOUS
  <1> USE LockAssumption DEF OpenSockets, tabs
  <1>0. lock \in Rows /\ Purged(lock) \in Rows /\ \A t \in Tabs : Owner[t] \in Users
    BY PurgedType DEF LockTypeOK, Rows
  <1>1. ASSUME NEW t \in Tabs, Connect(t)
        PROVE  LockTypeOK'
    <2>1. joined' \in SUBSET Tabs
      BY <1>1 DEF Connect, LockTypeOK
    <2>2. lock' \in Rows /\ mail' \in [Tabs -> Report]
      BY <1>0, <1>1, <2>1, ReportType DEF Connect
    <2>3. QED
      BY <1>1, <2>1, <2>2 DEF Connect, LockTypeOK, Rows
  <1>2. ASSUME NEW t \in Tabs, Claim(t)
        PROVE  LockTypeOK'
    <2> DEFINE rows == IF Refused(Purged(lock), Owner[t]) THEN Purged(lock)
                       ELSE [Purged(lock) EXCEPT ![Owner[t]] = "live"]
    <2>1. rows \in Rows
      BY <1>0 DEF Rows
    <2>2. StartReport(t, rows, joined)
      BY <1>2 DEF Claim
    <2> HIDE DEF rows
    <2>3. lock' \in Rows /\ mail' \in [Tabs -> Report]
      BY <2>1, <2>2, ReportType DEF LockTypeOK
    <2>4. QED
      BY <1>2, <2>3 DEF Claim, LockTypeOK, Rows
  <1>3. ASSUME NEW t \in Tabs, Heartbeat(t)
        PROVE  LockTypeOK'
    <2> DEFINE rows == [lock EXCEPT ![Owner[t]] = IF @ = "none" THEN @ ELSE "live"]
    <2>1. rows \in Rows
      BY <1>0 DEF Rows
    <2>2. StartReport(t, rows, joined)
      BY <1>3 DEF Heartbeat
    <2> HIDE DEF rows
    <2>3. lock' \in Rows /\ mail' \in [Tabs -> Report]
      BY <2>1, <2>2, ReportType DEF LockTypeOK
    <2>4. QED
      BY <1>3, <2>3 DEF Heartbeat, LockTypeOK, Rows
  <1>4. ASSUME NEW t \in Tabs, ReleaseEditing(t) \/ Disconnect(t)
        PROVE  LockTypeOK'
    <2> DEFINE rows == [lock EXCEPT ![Owner[t]] = "none"]
    <2>1. rows \in Rows
      BY <1>0 DEF Rows
    <2>2. joined' \in SUBSET Tabs /\ StartReport(t, rows, joined')
      BY <1>4 DEF ReleaseEditing, Disconnect, LockTypeOK
    <2> HIDE DEF rows
    <2>3. lock' \in Rows /\ mail' \in [Tabs -> Report]
      BY <2>1, <2>2, ReportType
    <2>4. QED
      BY <1>4, <2>2, <2>3 DEF ReleaseEditing, Disconnect, LockTypeOK, Rows
  <1>5. ASSUME NEW t \in Tabs, NEW to \in Tabs, Deliver(t, to)
        PROVE  LockTypeOK'
    <2>1. mail[t].editor \in Users \cup {Nobody} /\ mail[t].left \in SUBSET Tabs
      BY DEF LockTypeOK, Report
    <2>2. mail' \in [Tabs -> Report]
      BY <1>5, <2>1 DEF Deliver, LockTypeOK, Report
    <2>3. QED
      BY <1>5, <2>1, <2>2 DEF Deliver, LockTypeOK
  <1>6. ASSUME NEW t \in Tabs, Browser(t)
        PROVE  LockTypeOK'
    BY <1>6 DEF Browser, Leave, Sleep, Wake, Die, LockTypeOK
  <1>7. ASSUME NEW u \in Users, Expire(u)
        PROVE  LockTypeOK'
    BY <1>7 DEF Expire, LockTypeOK
  <1>8. CASE Restart
    <2>1. Quiet \in Report
      BY DEF Quiet, Report
    <2>2. QED
      BY <1>8, <2>1 DEF Restart, LockTypeOK
  <1>9. CASE UNCHANGED lockVars
    BY <1>9 DEF lockVars, LockTypeOK
  <1>10. QED
    BY <1>1, <1>2, <1>3, <1>4, <1>5, <1>6, <1>7, <1>8, <1>9, Zenon DEF LockNext, Handle

\* The variables of the lock and the presence line keep their types.
THEOREM TypesHold == LockSpec => []LockTypeOK
  <1>1. LockInit => LockTypeOK
    BY DEF LockInit, LockTypeOK, Quiet, Report, OpenSockets
  <1>2. QED
    BY <1>1, NextTypes, PTL DEF LockSpec
=============================================================================
