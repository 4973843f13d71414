SPECIFICATION FairSpec
CONSTANTS
    Addresses = {a1, a2}
    MAX_CONNECTIONS = 2
    MAX_BYTES = 4
    MAX_NEW_TOKENS = 2
    MAX_FAULTS = 1
INVARIANTS
    TypeOK
    OneWriteAtATime
    MapHoldsTheUnanswered
    StreamInOrder
PROPERTIES
    ResponsesAreSent
    ImplementsAnswers
\* The clients may be done.
CHECK_DEADLOCK FALSE
