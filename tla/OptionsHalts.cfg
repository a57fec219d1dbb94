SPECIFICATION FairSpec
CONSTANTS
    aapl = aapl
    scan1 = scan1
    ipc1 = ipc1
    bar1 = bar1
    Loop = loop
    Tickers <- MCTickers
    Execs <- MCExecs
    Ipcs <- MCIpcs
    Bars <- MCBars
    Risks = {1}
    MaxPositions = 1
    TradeBudget = 1
    Budget = 2
    LossLimit = 1
    MaxEntries = 1
    MaxCrashes = 1
    MaxFaults = 2
PROPERTIES HaltStops Managed
CHECK_DEADLOCK FALSE
