SPECIFICATION MemSpec
CONSTANTS
    Requests = {r1, r2}
    PromptLens = {3, 4}
    DEFAULT_KV_BLOCK_SIZE = 2
    GPT2_N_LAYERS = 2
    DEFAULT_TOTAL_KV_BLOCKS = 8
    DEFAULT_TOTAL_CPU_BLOCKS = 8
    MAX_SEQ = 6
    MAX_NEW_TOKENS = 2
    MAX_FAULTS = 0
    Br = 1
    Bc = 2
    MAX_SWAPS = 2
PROPERTY SwapRestoresKv
CHECK_DEADLOCK FALSE
