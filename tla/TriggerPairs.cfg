\* Three triggers, two sessions, a frame from outside, a latency limit of one.
SPECIFICATION Spec
CONSTANTS
    MaxTriggers = 3
    MaxStarts = 2
    MaxTime = 3
    MaxLatency = 1
    SoftTriggers = TRUE
    OutsideFrames = 1
CHECK_DEADLOCK FALSE
INVARIANT TypeOK
INVARIANT OwnTrigger
INVARIANT LatencyInRange
