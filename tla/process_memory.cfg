\* Two requests in flight at a time, two logins, one restart.
SPECIFICATION Spec
CONSTANTS
    Slots = {s1, s2}
    Issuers = {p, q}
    Patience = 1
    MaxTime = 4
    DocTTL = 2
    StateTTL = 1
    CheckTTL = 2
    MaxLogins = 2
    MaxVersions = 2
    MaxBoots = 2
SYMMETRY MCSymmetry
CONSTRAINT Bounds
INVARIANTS
    TypeOK
    StateUsedOnce
    DocumentFresh
PROPERTIES
    ChecksSpaced
CHECK_DEADLOCK FALSE
