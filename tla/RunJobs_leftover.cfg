\* One run whose controller dies, then a restart of the process.
SPECIFICATION Spec
CONSTANTS
    Runs = {r1}
    MaxConcurrentRuns = 1
    MaxRestarts = 1
    MaxControllerLosses = 1
    MaxFaults = 0
PROPERTY RecoveryRemovesLeftovers
