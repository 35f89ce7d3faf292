\* Two clients, every branch of execute but Malloc (see ColocatorThrottle.cfg), calls and queries that may fail.
SPECIFICATION Spec
CONSTANTS
    NumClients = 2
    PolicyName = "fcfs"
    Threshold = 2
    Ring = 2
    MaxOps = 2
    Kinds = {"KernelLaunch", "Memcpy", "Free", "StreamSync", "EventRecord"}
    Failures = TRUE
INVARIANTS
    HeadsAlive ParkedAlive ReplayedInOrder SyncMeansDrained
PROPERTIES
    UntouchedOnceReleased ImplementsSolo
