SPECIFICATION Spec
CONSTANTS
    aapl = aapl
    Tickers <- MCTickers
    Procs = {"Core", "Options"}
    Sides = {"BUY", "SELL"}
    MaxOrders = 2
    MaxCrashes = 1
    MaxFaults = 0
INVARIANT RecoveredIsClosed
CHECK_DEADLOCK FALSE
