SPECIFICATION Spec
CONSTANTS
    WORD = 8
    telemetry_log_delta = 3
    MaxTime = 20
    MaxBoots = 1
INVARIANTS
    NoGap
    StoppedLogger
PROPERTIES
    FramesSpaced
CHECK_DEADLOCK FALSE
