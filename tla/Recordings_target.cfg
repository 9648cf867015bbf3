\* Two recordings, one of which outlives its browser; nothing fails.
SPECIFICATION Spec
CONSTANTS
    Recordings = {r1, r2}
    Requests = {}
    MaxRecordingsPerUser = 2
    MaxCode = 0
    MaxRestarts = 0
    MaxControllerLosses = 0
    MaxFaults = 0
SYMMETRY RecordingSymmetry
PROPERTY MissingTargetIsAnAnswer
