SPECIFICATION FairSpec
CONSTANTS
    core = core
    options = options
    Core = core
    Order <- CoreFirst
    MaxRestarts = 1
    MaxRevivals = 2
    MaxFaults = 4
INVARIANT StraysForCause
PROPERTIES GivenUpStaysDown CoreReturns HungIsSeen
CHECK_DEADLOCK FALSE
