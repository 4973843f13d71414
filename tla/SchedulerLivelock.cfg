SPECIFICATION FairSpec
CONSTANTS
    Requests = {r1, r2}
    PromptLens = {2}
    DEFAULT_KV_BLOCK_SIZE = 2
    GPT2_N_LAYERS = 2
    DEFAULT_TOTAL_KV_BLOCKS = 4
    DEFAULT_TOTAL_CPU_BLOCKS = 8
    MAX_SEQ = 6
    MAX_BATCH_NUM = 2
    MAX_NEW_TOKENS = 2
    MAX_FAULTS = 0
    MAY_STOP = FALSE
PROPERTIES
    EveryRequestFinishes
\* The server waits for the next client when every request is finished.
CHECK_DEADLOCK FALSE
