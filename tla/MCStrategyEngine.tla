-------------------------- MODULE MCStrategyEngine --------------------------
EXTENDS StrategyEngine

B(h, l, c) == [high |-> h, low |-> l, close |-> c]
MCBars == {B(410, 350, 410)}
MCEntries == <<200>>
MCProfile ==
    [thesis |-> "invalidation", phase1Bars |-> 1, breakeven |-> 50, cushion |-> 0,
     impulse |-> FALSE, deadBars |-> 1, deadRange |-> 20, rsi2 |-> 50, rsi3 |-> 30,
     vwapThesis |-> FALSE, vwapWidth |-> 20, partial |-> 100, width |-> 50,
     rsiTighten |-> TRUE, rsiLimit |-> 70, vwapExit |-> TRUE, vwapBars |-> 1, maxHold |-> 0]
=============================================================================
