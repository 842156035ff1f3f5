SPECIFICATION FairSpec
CONSTANTS
    Drafts = {d1}
    plain = plain  weak = weak  banned = banned
    Bodies = {plain, weak, banned}
    Verdict <- MCVerdict
    Metas = {"m1"}
    Supports <- MCSupports
    Editors = {e1}
    EditorOps = {"patch", "publish", "snooze", "unsnooze"}
    Batches = {b1}
    Worker = worker
    MaxVersion = 2
    Nothing = Nothing
INVARIANTS
    TypeOK
    ReportIsCurrent
PROPERTIES
    BlockedNotPromoted
    PublishedTextFiled
    FreshDraftsGated
