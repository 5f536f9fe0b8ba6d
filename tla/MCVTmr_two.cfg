SPECIFICATION Spec
CONSTANTS
    t1 = t1
    t2 = t2
    NoTimer = NoTimer
    Timers <- TwoTimers
    Modulus = 4
    Periods <- TwoThree
    Types <- Both
    Ops <- AllOps
    LiveReconfig = FALSE
INVARIANTS TypeOK CyclicBelowLimit
PROPERTIES MatchOnTime SecondShot
