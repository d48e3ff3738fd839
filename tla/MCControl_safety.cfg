SPECIFICATION FairSpec
CONSTANTS
    Commands <- OneCommand
    TO_SERIAL_INFT_QUEUE_SIZE = 2
    MaxCalls = 3
    MaxInits = 2
PROPERTIES
    ImplementsRemoteCall
    
INVARIANTS
    NoEmptyRead
    FullQueueAnnounced
    LateAnswersBounded
    
    FreedTwiceOnlyOnFailure
