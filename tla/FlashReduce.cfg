SPECIFICATION ReduceSpec
CONSTANTS
    ReduceKernels = {"flashattention"}
    NUM_WARPS = 3
    Bc = 6
INVARIANT ReductionIsRight
\* The kernel ends.
CHECK_DEADLOCK FALSE
