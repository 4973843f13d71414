SPECIFICATION Spec
CONSTANTS
    Requests = {r1, r2}
    PromptLens = {3, 4}
    DEFAULT_KV_BLOCK_SIZE = 3
    GPT2_N_LAYERS = 2
    DEFAULT_TOTAL_KV_BLOCKS = 6
    DEFAULT_TOTAL_CPU_BLOCKS = 6
    MAX_SEQ = 6
    MAX_NEW_TOKENS = 3
    MAX_FAULTS = 1
SYMMETRY Symmetry
INVARIANTS
    TypeOK
    TablesDoNotAlias
    NoBlockLeaked
    TablesFitTokens
    CacheHoldsAllButTheLastToken
    SwapRecordsMatchResidency
    SwappedRequestsFitStaging
PROPERTY ImplementsKvAllocator
\* Every request may be done, or swapped out for good without a staging buffer.
CHECK_DEADLOCK FALSE
