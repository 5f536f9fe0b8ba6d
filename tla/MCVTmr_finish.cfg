SPECIFICATION FairSpec
CONSTANTS
    t1 = t1
    t2 = t2
    NoTimer = NoTimer
    Timers <- OneTimer
    Modulus = 6
    Periods <- TwoFive
    Types <- Both
    Ops <- WithGlobal
    LiveReconfig = FALSE
PROPERTY OpsFinish
CHECK_DEADLOCK FALSE
