\* A release in flight while Dispose deletes the channel.
SPECIFICATION Spec
CONSTANTS
    Surfaces = {s1}
    NativeThreads = {n1}
    Room = 1
    MaxGen = 1
    EnabledSignals = {"OVERRUN", "CLUSTER_UNAVAILABLE", "FAILURE", "END"}
INVARIANT
    NoReleaseAfterDelete
