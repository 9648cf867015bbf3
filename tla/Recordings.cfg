\* One recording, its poll, two requests and the sweeper; every failure.
SPECIFICATION Spec
CONSTANTS
    Recordings = {r1}
    Requests = {q1, q2}
    MaxRecordingsPerUser = 1
    MaxCode = 2
    MaxRestarts = 1
    MaxControllerLosses = 1
    MaxFaults = 2
INVARIANTS
    TypeOK
    StoppedHasFinalCode
    NoSilentOrphan
    StartFindsStarting
PROPERTIES
    SingleFlush
    ImplementsLifecycle
