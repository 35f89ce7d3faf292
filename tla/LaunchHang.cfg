\* run_demo's colocated clients: one raises before the demo barrier.
SPECIFICATION FairSpec
CONSTANTS
    NumClients = 2
    Plans <- JustDemo
    Depth = 2
    Probes = 0
    Warmup = 1
    Timed = 1
    Resetting = {}
    RaiseIn <- DemoInSetup
    DeviceFaults = FALSE
PROPERTIES
    LaunchEnds
