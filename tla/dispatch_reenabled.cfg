SPECIFICATION Spec
CONSTANTS
    h1 = h1
    h2 = h2
    e1 = e1
    e2 = e2
    e3 = e3
    s1 = s1
    Hooks <- OneHook
    Events <- ThreeEvents
    Synthetic <- SynthOne
    Sources <- OneSource
    SourceOf <- AllAboutOne
    MaxAttempts = 1
    Threshold = 2
    Overlap = 1
CHECK_DEADLOCK FALSE
INVARIANT CounterAsSpecified
