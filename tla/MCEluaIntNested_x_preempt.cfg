SPECIFICATION NestedSpec
CONSTANTS
    i1 = i1
    i2 = i2
    r1 = r1
    Empty = Empty
    Main = Main
    QSize = 2
    Ids <- TwoIds
    Resnums <- OneResnum
    Coroutines <- NoCoroutine
    HandlersMayFail = FALSE
    NLevels = 2
PROPERTIES NoOverwrite
