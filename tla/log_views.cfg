\* Three logs in any order, deleted at any time; one reader, pages of one row.
SPECIFICATION Spec
CONSTANTS
    nas = nas
    vps = vps
    check = check
    any = any
    Logs = {1, 2, 3}
    Sources = {nas, vps, check}
    Synthetic = check
    AnySource = any
    Uploads <- MCUploads
    Legacies <- MCLegacies
    Queries <- MCQueries
    Batch = 2
    Limit = 1
    DayLength = 4
    MaxExport = 2
INVARIANTS
    TypeOK
    PresentIsLastSent
    NothingSkipped
    StreakAgrees
    ReportsAgree
PROPERTIES
    SightingKept
    CursorsLeadOn
CHECK_DEADLOCK FALSE
