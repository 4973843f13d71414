SPECIFICATION FairSpec
CONSTANTS
    Requests = {r1, r2}
    PromptLens = {1, 2, 4}
    DEFAULT_KV_BLOCK_SIZE = 1
    GPT2_N_LAYERS = 2
    DEFAULT_TOTAL_KV_BLOCKS = 6
    DEFAULT_TOTAL_CPU_BLOCKS = 6
    MAX_SEQ = 4
    MAX_BATCH_NUM = 2
    MAX_NEW_TOKENS = 3
    MAX_FAULTS = 0
    MAY_STOP = TRUE
PROPERTIES
    StopTerminates
    ResponsesAreRead
    FittingRequestsFinish
\* The scheduler has stopped for good once stop() has returned.
CHECK_DEADLOCK FALSE
