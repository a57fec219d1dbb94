SPECIFICATION FairSpec
CONSTANTS
    Qty = 2
    MaxRetries = 2
    MaxRequests = 3
    MaxFaults = 1
INVARIANTS ReportedWasFilled NeverShort BooksAreShares
PROPERTY EveryRequestAnswered
CHECK_DEADLOCK FALSE
