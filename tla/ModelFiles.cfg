SPECIFICATION Spec
CONSTANTS
    GPT2_N_LAYERS = 2
    DEFAULT_KV_BLOCK_SIZE = 2
    DEFAULT_TOTAL_KV_BLOCKS = 20
    Br = 2
    Bc = 1
    BASE_TOKENS <- Tokens
    CaseLists <- Lists
    Prompts <- TwoPrompts
    PROMPT_LEN = 2
    MAX_SEQ = 4
    MAX_BATCH_NUM = 3
    GPT2_VOCAB_SIZE = 3
    GPT2_D_MODEL = 2
    GPT2_D_FF = 3
    MAX_RUNS = 2
CONSTRAINT NoVerdictYet
INVARIANTS
    PassMeansEveryRowIsRight
    FreshGoldenFilesPass
    LoadedWeightsAreTheModels
\* The script and the program end.
CHECK_DEADLOCK FALSE
