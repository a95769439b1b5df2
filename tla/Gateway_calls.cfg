SPECIFICATION FairSpec
CONSTANTS
    None = None
    Replies = {r1}
    Pollers = {p1, p2}
    MaxCalls = 2
    MaxSocks = 2
    MaxReqs = 4
    MaxCrashes = 1
INVARIANTS PendingIsAwaited OneSocket OkWasSent
PROPERTIES IdentityKept 
CHECK_DEADLOCK FALSE
