SPECIFICATION Spec
CONSTANTS
    s1 = s1
    s2 = s2
    p = p
    s1x = s1x
    s2x = s2x
    px = px
    escx = escx
    forcex = forcex
    ESC = ESC
    FORCE = FORCE
    None = None
    Services <- TwoServices
    Payload <- ThreeBytes
    Xored <- Flip
    MaxSends = 3
    MaxRestarts = 2
INVARIANTS TypeOK InOrder RestartKeepsData AgreeWhenQuiet
SYMMETRY Swap
CHECK_DEADLOCK FALSE
