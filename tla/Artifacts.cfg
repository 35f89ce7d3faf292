\* Two workloads, a sweep of their three pairs, exports beside it, one fault; five earlier runs.
SPECIFICATION Spec
CONSTANTS
    NumWorkloads = 2
    Settings <- Sweeps
    ByHand <- HandRuns
    MaxSweeps = 1
    MaxFaults = 1
    MaxExports = 2
INVARIANTS
    SweepReportsTruth OneExecutionPerPage FinishedRunsShown SelectionShown ServedLinksOpen
