SPECIFICATION Spec
CONSTANTS
    Threads = {t1}
    Handlers = {}
    Requests = {d1, d2}
    Replays = {p1}
    Writers = {d1, d2, p1}
    Nobody = Nobody
    NoThread = NoThread
    NoHandler = NoHandler
    MaxAttempts = 2
    MaxFaults = 1
    MaxCrashes = 0

PROPERTY RetryFinalises
