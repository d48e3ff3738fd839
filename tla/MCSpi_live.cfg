SPECIFICATION FairSpec
CONSTANTS
    cli = cli
    lwip = lwip
    f1 = f1
    f2 = f2
    transaction_task = transaction_task
    None = None
    Senders <- OneSender
    HostFrames <- TwoHostFrames
    IfType <- InitThenSerial
    TO_SLAVE_QUEUE_SIZE = 1
    FROM_SLAVE_QUEUE_SIZE = 1
PROPERTIES
    AcceptedFramesLeave
    
    
