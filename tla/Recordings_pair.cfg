\* Two create requests compete for the one recording a user may have active,
\* and two recordings for the sweeper.
SPECIFICATION FairSpec
CONSTANTS
    Recordings = {r1, r2}
    Requests = {q1}
    MaxRecordingsPerUser = 1
    MaxCode = 0
    MaxRestarts = 0
    MaxControllerLosses = 0
    MaxFaults = 1
INVARIANT ActiveWithinLimit
PROPERTY SweeperClosesExpired
