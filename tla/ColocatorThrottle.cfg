\* The throttle at its cap, a ring that wraps, what is held and what never is; safety and liveness.
SPECIFICATION FairSpec
CONSTANTS
    NumClients = 2
    PolicyName = "throttle"
    Threshold = 1
    Ring = 1
    MaxOps = 2
    Kinds <- LaunchSyncMalloc
    Failures = FALSE
INVARIANTS
    ThrottleCaps CountsEverything NothingLeftBehind
PROPERTIES
    CallsReturn LaunchReturns
