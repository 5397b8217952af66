SPECIFICATION FairSpec
CONSTANTS
    h1 = h1
    h2 = h2
    e1 = e1
    e2 = e2
    e3 = e3
    s1 = s1
    Hooks <- TwoHooks
    Events <- TwoEvents
    Synthetic <- SynthOne
    Sources <- OneSource
    SourceOf <- AllAboutOne
    MaxAttempts = 2
    Threshold = 2
    Overlap = 2
CHECK_DEADLOCK FALSE
INVARIANTS
    TypeOK
    NotifiedIffDelivered
    LogIsWholeStory
    CounterJustified
    PersistedBeforeNotified
    CounterIsStreak
    TripsAtThreshold
PROPERTIES
    OnlyOperatorEnables
    BreakerSpec
    DispatchEnds
