SPECIFICATION Spec
CONSTANTS
    worker = worker
    admin = admin
    draft = draft
    None = None
    Ids = {1, 2}
    Slugs = {1, 2, 3, 4}
    MayHave <- MCMayHave
    Static <- MCStatic
    Bootstrap <- MCBootstrap
    Fallback = 3
    Drafts = {draft}
    Suggested <- MCSuggested
    Hints <- MCHints
    Syncs = {worker}
    Worker = worker
    MaxChanges = 2
INVARIANT
    TypeOK
PROPERTIES
    Settles
    RenameFollows
