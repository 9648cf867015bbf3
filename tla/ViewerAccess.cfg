\* One browser; the throttle's window, the session and the re-check differ in length.
SPECIFICATION Spec
CONSTANTS
    Clients = {c1}
    SessionLifetime = 3
    Window = 4
    RateLimit = 2
    MaxDelay = 2
    CheckInterval = 2
INVARIANTS
    TypeOK
    SpanLimit
    ClosedWithinInterval
PROPERTIES
    LostAccessCloses
