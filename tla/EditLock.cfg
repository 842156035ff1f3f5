SPECIFICATION LockFairSpec
CONSTANTS
    ann = ann  bob = bob  a1 = a1  b1 = b1
    Users = {ann, bob}
    Tabs = {a1, b1}
    Owner <- MCOwner
    Sleepy = {a1}
    Restarts = TRUE
    Nobody = Nobody
    Unknown = Unknown
INVARIANTS
    LockTypeOK
    OneEditingRow
PROPERTIES
    LockIsALease
    PresenceConverges
