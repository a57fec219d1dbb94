SPECIFICATION FairSpec
CONSTANTS
    aapl = aapl
    Tickers <- MCTickers
    Procs = {"Core"}
    Sides = {"BUY"}
    MaxOrders = 3
    MaxCrashes = 2
    MaxFaults = 1
INVARIANTS TypeOK RestartKeepsBlock
PROPERTIES GateKept LostIsClosed
CHECK_DEADLOCK FALSE
