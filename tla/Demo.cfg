\* A probe and llmdecode; run_demo's modes and two plain launches; bodies that may raise, a device that may fail.
SPECIFICATION FairSpec
CONSTANTS
    NumClients = 2
    Plans <- AllPlans
    Depth = 2
    Probes = 2
    Warmup = 3
    Timed = 3
    Resetting = {1}
    RaiseIn <- DemoBehindBarrier
    DeviceFaults = TRUE
INVARIANTS
    NoOrphanScheduler SchedulerServes
    SlotsExclusive CheckReadsItsOwn TimedTogether ModeEndsDrained
PROPERTIES
    LaunchEnds ErrorsSurface
