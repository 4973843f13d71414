SPECIFICATION Spec
CONSTANTS
    Addresses = {a1, a2}
    MAX_CONNECTIONS = 2
    MAX_BYTES = 4
    MAX_NEW_TOKENS = 2
    MAX_FAULTS = 1
INVARIANT ResponsesGoToTheAsker
CHECK_DEADLOCK FALSE
