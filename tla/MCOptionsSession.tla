-------------------------- MODULE MCOptionsSession --------------------------
(***************************************************************************)
(* OptionsSession within two different bounds, neither inside the other.      *)
(*                                                                           *)
(* In a session one thread of each kind already makes a BAR outlive its 45 s    *)
(* and a signal race a scan for a ticker; one call fails or one process dies.   *)
(* The gate takes two tickers and spreads with different risks: two entries of  *)
(* one ticker, of which one overwrites the other's risk, and one of the other   *)
(* ticker, for which the capital may no longer suffice.                       *)
(***************************************************************************)
EXTENDS OptionsSession

CONSTANTS aapl, tsla, scan1, ipc1, ipc2, bar1

MCTickers == {aapl, tsla}
MCExecs == {scan1}
MCIpcs == {ipc1, ipc2}
MCBars == {bar1}
MCRisks == {1, 3}

VARIABLE bound

\* Of aapl only, with two entries of one risk, one of them a signal.
Session ==
    /\ account[tsla] = 0 /\ risk[tsla] = 0 /\ \A x \in Threads : ~WorksOn(x, tsla)
    /\ call[ipc2] = NoCall /\ entries <= 2 /\ crashes + faults <= 1
    /\ risk[aapl] <= 1 /\ \A x \in Entrants : call[x] # NoCall => call[x].risk <= 1

\* Of both, with three signals, no BAR and no loss; the second thread takes aapl only.
Gate == /\ crashes = 0 /\ faults = 0 /\ losses = 0 /\ ~WorksOn(ipc2, tsla)
        /\ \A x \in Execs \cup Bars : call[x] = NoCall

Bounded == IF bound = "session" THEN Session ELSE Gate
BoundedSpec == /\ Init /\ bound \in {"session", "gate"}
               /\ [][Next /\ UNCHANGED bound /\ Bounded']_<<vars, bound>>
==============================================================================
