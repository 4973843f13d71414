SPECIFICATION Spec
CONSTANTS
    TOTAL_BLOCKS = 3
    TOTAL_CPU_BLOCKS = 2
    Callers = {c1, c2}
    MAX_N = 2
    MAX_FILL = 1
INVARIANTS
    FreeListsConsistent
    NoBlockSharedByCallers
    NoBlockLeaked
