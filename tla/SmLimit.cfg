\* One kind per way of routing; the client switches streams up to four times.
SPECIFICATION FairSpec
CONSTANTS
    Kinds = {"KernelLaunch", "CublasSgemm", "Memcpy", "Malloc", "Free", "StreamSync", "EventRecord"}
    MaxOps = 5
INVARIANTS
    SyncDrainsBoth EventsCoverPriorWork CursorIsExact
PROPERTIES
    StaysLinear SyncReturns
