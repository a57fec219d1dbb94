------------------------------ MODULE MCBrokers ------------------------------
(***************************************************************************)
(* Both brokers, each with an account of its own: which of them a behaviour  *)
(* is about is settled at its beginning.  Orders of two shares, so that      *)
(* partial fills exist, two attempts per BUY, and three requests, so that a  *)
(* SELL meets the leftovers of a BUY and a second SELL those of the first.   *)
(***************************************************************************)
EXTENDS BrokerAccount

VARIABLE broker     \* whose handler executes the requests

Alpaca  == INSTANCE AlpacaBroker
Tradier == INSTANCE TradierBroker

MCInit == Init /\ broker \in {"alpaca", "tradier"}

AlpacaNext  == broker = "alpaca" /\ Alpaca!Next /\ UNCHANGED broker
TradierNext == broker = "tradier" /\ Tradier!Next /\ UNCHANGED broker
MCNext == AlpacaNext \/ TradierNext

(* The ORDER_REQ worker goes on: every call to a broker has a timeout, every  *)
(* poll a deadline.                                                           *)
AlpacaWorker  == broker = "alpaca" /\ Alpaca!ClientNext /\ UNCHANGED broker
TradierWorker == broker = "tradier" /\ Tradier!ClientNext /\ UNCHANGED broker
FairSpec == /\ MCInit /\ [][MCNext]_<<vars, broker>>
            /\ WF_<<vars, broker>>(AlpacaWorker) /\ WF_<<vars, broker>>(TradierWorker)
==============================================================================
