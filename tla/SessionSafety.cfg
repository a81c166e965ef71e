\* Requests, hardware, stops and a disposal around one starter.
SPECIFICATION Spec
CONSTANTS
    Clients = {a, b}
    Stoppers = {a, b}
    Starters = {a}
    Hosts = {a}
    Triggerers = {a, b}
    Tasks = {k}
    MaxChannels = 2
    MaxEvents = 1
    MaxTriggers = 1
    Targets = {0, 1}
    Intervals = {TRUE, FALSE}
    SoftTriggers = TRUE
    Errors = {"OVERRUN"}
INVARIANT TypeOK
INVARIANT StateMatchesChannel
INVARIANT TriggerBelongsToSession
INVARIANT LatestFrameIsOurs
PROPERTY OneSessionAtATime
PROPERTY NoSessionStopsUnasked
