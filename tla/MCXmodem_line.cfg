SPECIFICATION Spec
CONSTANTS
    File <- FiveBlocks
    BlockMod = 4
    SOH = 1
    EOT = 3
    CAN = 24
    Check <- PlusTen
    Garbled = 99
    RETRY_LIMIT = 3
    INITIAL = 2
    INCREMENT = 2
    SenderTries = 2
    MaxFaults = 2
INVARIANTS TypeOK SenderKnows
PROPERTY ImplementsTransfer
CHECK_DEADLOCK FALSE
