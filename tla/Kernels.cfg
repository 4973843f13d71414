SPECIFICATION Spec
CONSTANTS
    ReduceKernels = {"layernorm", "paged_attention", "flashattention"}
    NUM_WARPS = 4
    Bc = 6
    ARGMAX_THREADS = 4
    COLS = 5
    MAX_LOGIT = 1
    DecodeTile <- DecodeKernel
    GeneralTile <- GeneralKernel
    DECODE_M = 3
    DecodeShapes <- ModelShapes
    Launches <- ModelLaunches
INVARIANTS
    PagedReductionIsRight
    LayerNormRaceIsConfined
    ScoresComplete
    ScoreOfThisKey
    OutputIsFirstMaximum
    GemmIsTheProduct
\* The kernels end.
CHECK_DEADLOCK FALSE
