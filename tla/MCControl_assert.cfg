SPECIFICATION Spec
CONSTANTS
    Commands <- OneCommand
    TO_SERIAL_INFT_QUEUE_SIZE = 1
    MaxCalls = 1
    MaxInits = 2
INVARIANTS
    AssertionHolds
