SPECIFICATION BoundedSpec
CONSTANTS
    aapl = aapl
    tsla = tsla
    scan1 = scan1
    ipc1 = ipc1
    ipc2 = ipc2
    bar1 = bar1
    Loop = loop
    Tickers <- MCTickers
    Execs <- MCExecs
    Ipcs <- MCIpcs
    Bars <- MCBars
    Risks <- MCRisks
    MaxPositions = 2
    TradeBudget = 3
    Budget = 4
    LossLimit = 1
    MaxEntries = 3
    MaxCrashes = 1
    MaxFaults = 1
INVARIANTS TypeOK CapitalCounted 
PROPERTIES NoScanAfterHalt
CHECK_DEADLOCK FALSE
