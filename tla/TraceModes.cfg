\* An earlier mode launched a kernel that has no RUNTIME record.
SPECIFICATION Spec
CONSTANTS
    NumStreams = 1
    kMaxTracked = 1
    IssueKinds = {"cudaLaunchKernel"}
    MaxCalls = 1
    MaxOther = 1
    Failures = FALSE
    DriverLaunches = TRUE
INVARIANTS
    EarlierModesIsolated
