\* A loop that outlived its session's join saves beside the next one's.
SPECIFICATION Spec
CONSTANTS
    Requests = {r}
    Capacity = 1
    MaxSessions = 2
    MaxFrames = 2
    MaxBoots = 1
    LateLoops = TRUE
CHECK_DEADLOCK FALSE
INVARIANT SavedOnce
