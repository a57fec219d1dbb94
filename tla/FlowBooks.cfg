SPECIFICATION Spec
CONSTANTS
    aapl = aapl
    Tickers <- OneTicker
    Qty = 2
    MaxVwap = 1
    MaxPro = 1
    MaxOrders = 2
    MaxRounds = 0
    MaxStops = 0
    MaxFaults = 1
    MaxStarts = 2
INVARIANTS TypeOK BooksAgree SlotHeld OneOwner
CHECK_DEADLOCK FALSE
