SPECIFICATION Spec
CONSTANTS
    i1 = i1
    i2 = i2
    r1 = r1
    c1 = c1
    Empty = Empty
    Main = Main
    QSize = 2
    Ids <- TwoIds
    Resnums <- OneResnum
    Coroutines <- OneCoroutine
    HandlersMayFail = TRUE
INVARIANTS CleanWhenClosed
PROPERTIES NoOverwrite
