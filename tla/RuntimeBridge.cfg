\* Two calls; up to two controllers are lost, and each call may find a fresh one.
SPECIFICATION FairSpec
CONSTANTS
    Calls = {c1, c2}
    MaxEvents = 1
    MaxLosses = 2
INVARIANTS
    TypeOK
    OneController
    EventsBeforeAnswer
    LeftBehindNotCarriedOut
PROPERTIES
    ImplementsCalls
    LossWakesCallers
