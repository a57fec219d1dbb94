SPECIFICATION FilesSpec
CONSTANTS
    aapl = aapl
    msft = msft
    flat = flat
    long = long
    Unset = Unset
    Tickers <- MCTickers
    MaxLots = 4
    MaxQty = 2
    MaxDay = 2
    MaxStarts = 2
    Texts <- MCTexts
    Procs = {"Core"}
    MaxWrites = 4
    MaxCrashes = 3
    MaxFaults = 1
    MaxDamage = 1
INVARIANTS SharesConserved OldestFirst RestartKeepsLedger UnchangedIsHeld
PROPERTY Implements
CHECK_DEADLOCK FALSE
