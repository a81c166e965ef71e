\* What ends, returns and is released.
SPECIFICATION FairSpec
CONSTANTS
    Clients = {a, b}
    Starters = {a}
    Stoppers = {a}
    Hosts = {}
    Triggerers = {b}
    Tasks = {k}
    MaxChannels = 2
    MaxEvents = 1
    MaxTriggers = 1
    Targets = {1}
    Intervals = {FALSE}
    SoftTriggers = TRUE
    Errors = {"OVERRUN"}
PROPERTIES
    OverdueSessionEnds
    StopReturns
    StopFreesTriggers
