SPECIFICATION Spec
CONSTANTS
    nas = nas
    synthetic = synthetic
    Sources <- RealAndSynthetic
    SyntheticSource = synthetic
    Deadlines <- OneDeadline
    Window = 1
    Retention = 2
    PurgeAge = 1
    MaxTime = 4
    MaxLogs = 2
CHECK_DEADLOCK FALSE
INVARIANT RetentionPurgesSynthetic
