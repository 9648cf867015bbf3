\* A start still checking Docker, and a cancel; nothing else fails.
SPECIFICATION Spec
CONSTANTS
    Runs = {r1, r2}
    MaxConcurrentRuns = 1
    MaxRestarts = 1
    MaxControllerLosses = 0
    MaxFaults = 0
PROPERTY CancelStopsExecution
