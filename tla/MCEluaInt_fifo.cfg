SPECIFICATION FairSpec
CONSTANTS
    i1 = i1
    i2 = i2
    r1 = r1
    c1 = c1
    Empty = Empty
    Main = Main
    QSize = 4
    Ids <- TwoIds
    Resnums <- OneResnum
    Coroutines <- NoCoroutine
    HandlersMayFail = FALSE
INVARIANTS TypeOK RingMatches ArmedWhileQueued NeverRunsOnEmpty
PROPERTIES ImplementsFifo EveryInterruptLeaves
