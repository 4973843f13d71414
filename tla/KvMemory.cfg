SPECIFICATION MemSpec
CONSTANTS
    Requests = {r1, r2}
    PromptLens = {1, 2, 3}
    DEFAULT_KV_BLOCK_SIZE = 2
    GPT2_N_LAYERS = 2
    DEFAULT_TOTAL_KV_BLOCKS = 6
    DEFAULT_TOTAL_CPU_BLOCKS = 6
    MAX_SEQ = 6
    MAX_NEW_TOKENS = 3
    MAX_FAULTS = 0
    Br = 2
    Bc = 2
    MAX_SWAPS = 2
SYMMETRY Symmetry
INVARIANT AnswersAreFullRecompute
PROPERTY SwapRestoresSlots
\* Every request may be done.
CHECK_DEADLOCK FALSE
