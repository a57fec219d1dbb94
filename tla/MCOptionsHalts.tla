--------------------------- MODULE MCOptionsHalts ---------------------------
(***************************************************************************)
(* OptionsSession with one thread of each kind, small enough for what must    *)
(* happen in the end.                                                         *)
(***************************************************************************)
EXTENDS OptionsSession

CONSTANTS aapl, scan1, ipc1, bar1

MCTickers == {aapl}
MCExecs == {scan1}
MCIpcs == {ipc1}
MCBars == {bar1}
==============================================================================
