SPECIFICATION Spec
CONSTANTS
    MaxHandles = 2
    MaxEntries = 1
    MaxChunks = 2
    MaxRequests = 4
    MaxLost = 1
    MaxRestarts = 1
INVARIANTS TypeOK CountedIsStored DescriptorsKnown
PROPERTY AnswerIsOwn
CHECK_DEADLOCK FALSE
