SPECIFICATION Spec
CONSTANTS
    Requests = {r1, r2, r3}
    PromptLens = {1, 3}
    DEFAULT_KV_BLOCK_SIZE = 2
    GPT2_N_LAYERS = 2
    DEFAULT_TOTAL_KV_BLOCKS = 6
    DEFAULT_TOTAL_CPU_BLOCKS = 4
    MAX_SEQ = 6
    MAX_BATCH_NUM = 2
    MAX_NEW_TOKENS = 3
    MAX_FAULTS = 1
    MAY_STOP = FALSE
SYMMETRY Symmetry
INVARIANTS
    OneQueuePerRequest
    StateMatchesQueue
    BlocksConserved
    RunningRequestsHaveRoom
    ResponsesWellFormed
    SwapOnlyOnGlobalStall
    AtMostOneSwapped
    NoOvertakingByEqualOrLarger
PROPERTIES
    ImplementsAnswers
\* The server waits for the next client when every request is finished.
CHECK_DEADLOCK FALSE
