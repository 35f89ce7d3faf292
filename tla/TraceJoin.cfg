\* Two streams, two rows of every kind that may fail, two kernels of other threads.
SPECIFICATION Spec
CONSTANTS
    NumStreams = 2
    kMaxTracked = 2
    IssueKinds = {"cudaLaunchKernel", "cublasGemmEx", "cudaMemcpyAsync"}
    MaxCalls = 2
    MaxOther = 2
    Failures = TRUE
    DriverLaunches = FALSE
INVARIANTS
    LiveCountsDelivered DumpIsComplete KernelJoinExact MemcpyJoinExact SelfCheckSound
