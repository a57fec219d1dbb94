SPECIFICATION Spec
CONSTANTS
    Bars <- MCBars
    Bids = {410}
    Bottom = 90
    Rsis = {50, 80}
    Vwaps = {420}
    Entries <- MCEntries
    Profile <- MCProfile
    Window = 1
    SwingBars = 1
    MaxAge = 1
    Risk = 100
    Gain = 200
    OrphanRisk = 100
    Atr = 50
    ByStop = TRUE
    Styles = {"core", "swing"}
    Qty = 3
    Lane = 1
    MaxFaults = 1
INVARIANT HalvedOnce
PROPERTY Ratchet
CHECK_DEADLOCK FALSE
