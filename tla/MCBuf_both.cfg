SPECIFICATION Spec
CONSTANTS
    d1 = d1
    d2 = d2
    Junk = Junk
    Sizes <- OneTwoFour
    Data <- TwoData
    Devices <- AllDevices
INVARIANTS TypeOK Aligned NewestPerSlot AtMostOneOver ReadsOldestOrNewest CountBounded FailedIsEmpty
