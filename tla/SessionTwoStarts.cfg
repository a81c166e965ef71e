\* Two requests start at once.
SPECIFICATION Spec
CONSTANTS
    Clients = {a, b}
    Stoppers = {a, b}
    Starters = {a, b}
    Hosts = {}
    Triggerers = {}
    Tasks = {k}
    MaxChannels = 2
    MaxEvents = 1
    MaxTriggers = 1
    Targets = {0}
    Intervals = {FALSE}
    SoftTriggers = TRUE
    Errors = {"OVERRUN"}
INVARIANT OneChannelDelivers
