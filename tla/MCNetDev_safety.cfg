SPECIFICATION FairSpec
CONSTANTS
    IfType <- StaApSta
    NumPackets = 2
    RX_QUEUE_SIZE = 2
    TO_SLAVE_QUEUE_SIZE = 1
INVARIANTS
    BuffersOwned
    ReadFindsFrame
    NullCallOnlyWhileOpening
PROPERTIES
    StartedDelivers
    
