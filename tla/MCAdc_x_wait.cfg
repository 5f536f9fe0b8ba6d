\* Calls that set up, wait and change the bits of one channel.
SPECIFICATION FairSpec
CONSTANTS
    Channels = {0, 1}
    Volt <- MCVolt
    LogCounts = {0, 1}
    LogLengths = {0, 1}
    Ops <- AllOps
    MaxCalls = 3
PROPERTIES WaitEnds
CHECK_DEADLOCK FALSE
