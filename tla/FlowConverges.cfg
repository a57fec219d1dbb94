SPECIFICATION FairSpec
CONSTANTS
    aapl = aapl
    Tickers <- OneTicker
    Qty = 1
    MaxVwap = 1
    MaxPro = 1
    MaxOrders = 2
    MaxRounds = 1
    MaxStops = 1
    MaxFaults = 0
    MaxStarts = 1
PROPERTY Converges
CHECK_DEADLOCK FALSE
