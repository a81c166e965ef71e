\* What comes back, is announced and returns.
SPECIFICATION FairSpec
CONSTANTS
    Surfaces = {s1}
    NativeThreads = {n1}
    Room = 1
    MaxGen = 2
    EnabledSignals = {"END", "CLUSTER_UNAVAILABLE"}
PROPERTIES
    SurfaceComesBack
    EndIsAnnounced
    CallReturns
