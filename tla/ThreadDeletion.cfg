SPECIFICATION FairSpec
CONSTANTS
    Threads = {t1}
    Handlers = {h1}
    Requests = {d1, d2}
    Replays = {p1}
    Writers = {d1, d2, p1}
    Nobody = Nobody
    NoThread = NoThread
    NoHandler = NoHandler
    MaxAttempts = 2
    MaxFaults = 1
    MaxCrashes = 1
INVARIANTS TypeOK OnlyCommitted SuccessIsReal OneLease
PROPERTIES OwnerOutlivesProjection Fenced DispatchEnds ImplementsOutbox
