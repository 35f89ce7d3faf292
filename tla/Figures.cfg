\* Four kernels on a time line of three nanoseconds: every way in which they can nest, touch, overlap or be empty;
\* two operations with host times, every place of the marks among them.
SPECIFICATION Spec
CONSTANTS
    LastTime = 4
    MaxKernels = 4
    MaxOps = 2
INVARIANTS
    ConcurrencyExact ReplayFaithful
CHECK_DEADLOCK FALSE
