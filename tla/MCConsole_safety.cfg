SPECIFICATION FairSpec
CONSTANTS
    cli = cli
    other = other
    None = None
    Printers <- TwoPrinters
    TxSize = 1
    RxSize = 2
    TX_DMA_BUFFER_SIZE = 1
    Half = 1
    Retries = 2
    PrintLengths = {2}
    MaxPrinted = 2
    MaxTyped = 2
INVARIANTS
    AssertOnlyOverlap
    
    NoStrandedByte
    DeafOnlyAfterPrint
    TypedInOrder
PROPERTIES
    PrintedIsSent
    PrintReturns
    TypedIsRead
