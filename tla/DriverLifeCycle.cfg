\* Two threads initialize, create, probe, release and dispose; handles are reused.
SPECIFICATION FairSpec
CONSTANTS
    Threads = {a, b}
    Handles = {1, 2}
    MaxChannels = 2
    Deadline = 1
INVARIANTS
    TypeOK
    NothingOutlivesDriver
    DriverOpenedOnce
    CallbacksAreRooted
PROPERTY
    CallsReturn
