SPECIFICATION SchedSpec
CONSTANTS
    cli = cli
    lwip = lwip
    f1 = f1
    f2 = f2
    transaction_task = transaction_task
    None = None
    Senders <- TwoSenders
    HostFrames <- TwoHostFrames
    IfType <- OneSerial
    TO_SLAVE_QUEUE_SIZE = 2
    FROM_SLAVE_QUEUE_SIZE = 1
PROPERTIES
    TransferOnlyWhenReady
