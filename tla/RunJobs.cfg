\* Two runs compete for one slot; one of each kind of failure.
SPECIFICATION FairSpec
CONSTANTS
    Runs = {r1, r2}
    MaxConcurrentRuns = 1
    MaxRestarts = 1
    MaxControllerLosses = 1
    MaxFaults = 2
INVARIANTS
    TypeOK
    SlotsAccounted
    NoSilentOrphan
    ClosingEventsAgree
    UnmanagedContainersAreOver
PROPERTIES
    CancelledWhileQueuedNeverRuns
    ImplementsLifecycle
    EveryRunCloses
