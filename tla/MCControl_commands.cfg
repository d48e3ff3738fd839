SPECIFICATION Spec
CONSTANTS
    Commands <- AllCommands
    TO_SERIAL_INFT_QUEUE_SIZE = 2
    MaxCalls = 2
    MaxInits = 1
INVARIANTS
    ResultsFaithful
