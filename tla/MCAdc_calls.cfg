\* Any program of up to 3 calls on two channels.
SPECIFICATION FairSpec
CONSTANTS
    Channels = {0, 1}
    Volt <- MCVolt
    LogCounts = {0, 1}
    LogLengths = {0, 1}
    Ops <- AllOps
    MaxCalls = 3
INVARIANTS TypeOK AverageOfRing BufferedOwn
PROPERTIES Completes
CHECK_DEADLOCK FALSE
