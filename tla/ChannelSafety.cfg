\* Concurrent callbacks against stops, a restart and a disposal.
SPECIFICATION Spec
CONSTANTS
    Surfaces = {s1, s2}
    NativeThreads = {n1, n2}
    Room = 1
    MaxGen = 2
    EnabledSignals = {"END"}
SYMMETRY Symmetry
INVARIANTS
    TypeOK
    SurfaceOwnership
    NoSurfaceLost
    ActiveIsServed
PROPERTY
    FrameDroppedOnlyForSignals
