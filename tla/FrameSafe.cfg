\* Two sessions, a queue of one, failures everywhere, a deletion, a restart;
\* the process may end for good, so deadlock is not checked.
SPECIFICATION FairSpec
CONSTANTS
    Requests = {r}
    Capacity = 1
    MaxSessions = 2
    MaxFrames = 2
    MaxBoots = 2
    LateLoops = FALSE
CHECK_DEADLOCK FALSE
INVARIANT TypeOK
INVARIANT SavedUnderItsSession
INVARIANT RowHasItsFile
INVARIANT ShutdownDrains
PROPERTY LoopNotBlocked
PROPERTY QueueIsServed
