---------------------------- MODULE MCOrderFlow ----------------------------
(***************************************************************************)
(* OrderFlow on one ticker: the risk engines, gates, queues and             *)
(* reconciliations meet over a single symbol, and two or three orders are   *)
(* enough for a BUY to meet the outcome of another or of a SELL.            *)
(***************************************************************************)
EXTENDS OrderFlow

CONSTANT aapl

OneTicker == {aapl}
==============================================================================
