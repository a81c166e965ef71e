\* A ring of three; two adders, ids up to five; two names, two requests, a restart;
\* three frames in five units of time; two threads that raise three changes, and
\* two connections; pages of two, three images.
\* Each of the parts may stay as it is for good, so deadlock is not checked.
SPECIFICATION MCSpec
CONSTANTS
    Capacity = 3
    Events = {started, failed}
    NoEvent = none
    Adders = {a, b}
    MaxId = 5
    Names = {x, y}
    Writers = {v, w}
    MaxSaves = 3
    MaxBoots = 2
    Torn = torn
    MaxTime = 5
    MaxCount = 3
    Raisers = {p, q}
    MaxVersion = 3
    MaxStreams = 2
    PageSize = 2
    MaxImages = 3
CHECK_DEADLOCK FALSE
INVARIANT TypesOK
INVARIANT ReadsNewestFirst
INVARIANT AckedIsStored
INVARIANT AverageInRange
INVARIANT QuietMeansCurrent
INVARIANT DeletesWhatWasShown
PROPERTY LogIsHistory
PROPERTY RepositoryIsHistory
PROPERTY StaleActiveHeals
