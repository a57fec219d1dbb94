---------------------------- MODULE AlpacaBroker ----------------------------
(***************************************************************************)
(* AlpacaBroker (monitor/brokers.py): one action for each call to the        *)
(* broker's API.  A BUY is a bracket order, whose stop the exchange arms.    *)
(*                                                                          *)
(* The status tests written as str(order.status) == '...' (the check before *)
(* the cancellation, the SELL poll) may miss a fill whatever the order's    *)
(* state: they never hold when the client library returns an enum.          *)
(***************************************************************************)
EXTENDS BrokerAccount

RequestBuy == Request("BUY", Qty, "submit")
RequestSell == held > 0 /\ Request("SELL", held, "clear")

AcceptBuy == Append(orders, NewOrder("BUY", req.qty, TRUE))

-----------------------------------------------------------------------------
(* _execute_buy                                                              *)

BuySubmit ==
    /\ pc = "submit"
    /\ orders' = AcceptBuy /\ Goto("poll") /\ Works
    /\ UNCHANGED <<stop, stuck, position, client, slips>>

(* The submission raises, before or after the exchange took the order.       *)
BuySubmitRaises ==
    /\ pc = "submit" /\ Fails
    /\ orders' \in {orders, AcceptBuy}
    /\ Fail
    /\ UNCHANGED <<stop, stuck, position, client, slips>>

(* Polling sees a fill, whole or partial.                                    *)
BuyPollHit ==
    /\ pc = "poll" /\ (Partial \/ Order.st = "filled")
    /\ seen' = Order.filled
    /\ Goto(IF Partial THEN "trim" ELSE "settle")
    /\ UNCHANGED <<exchange, req, attempt, faults, slips>>

(* The deadline passes between two polls, or a poll raises.                  *)
BuyPollEnds ==
    /\ pc = "poll" /\ Goto("precheck")
    /\ UNCHANGED <<exchange, client, faults, slips>>

(* cancel_order_by_id on the current order, errors swallowed.                *)
CancelStep(step, next) ==
    /\ pc = step /\ Goto(next)
    /\ \/ Works /\ orders' = Cancelled({Cur})
       \/ Fails /\ UNCHANGED orders
    /\ UNCHANGED <<stop, stuck, position, client>>

(* The remainder of a partial fill is cancelled, then its quantity read.     *)
BuyTrim == CancelStep("trim", "recheck") /\ NoSlip

BuyRecheck ==
    /\ pc = "recheck" /\ Goto("settle")
    /\ \/ Works /\ seen' = Order.filled
       \/ Fails /\ UNCHANGED seen
    /\ UNCHANGED <<exchange, req, attempt, slips>>

(* Three lookups 200 ms apart, of which only 'filled' counts.                *)
BuySettle ==
    /\ pc = "settle" /\ Goto("restop")
    /\ \/ Works /\ seen' = IF Order.st = "filled" THEN Order.filled ELSE seen
       \/ Fails /\ UNCHANGED seen
    /\ UNCHANGED <<exchange, req, attempt, slips>>

(* Mutant: FILL carries the quantity that was asked for.                     *)
BuyReportAsked ==
    /\ pc = "restop" /\ Works /\ UNCHANGED <<exchange, client, slips>>
    /\ Emit(req.qty)

(* A partial fill loses its bracket: every open SELL and bracket order of    *)
(* the ticker is cancelled, each or none, and a stop for the filled quantity *)
(* is submitted, or not.  Then FILL.                                         *)
BuyReport ==
    /\ pc = "restop"
    /\ IF seen < req.qty
       THEN \/ /\ Works
               /\ orders' = Cancelled(DOMAIN orders)
               /\ stop' = seen
            \/ /\ Fails
               /\ \E os \in SUBSET DOMAIN orders, old \in {0, stop}, new \in {0, seen} :
                     /\ orders' = Cancelled(os)
                     /\ stop' = old + new
       ELSE Works /\ UNCHANGED <<orders, stop>>
    /\ Emit(seen)
    /\ UNCHANGED <<stuck, position, client, slips>>

(* The check between poll and cancellation: only 'filled' is recognised.     *)
BuyPrecheck ==
    /\ pc = "precheck"
    /\ \/ Order.st = "filled" /\ Emit(Order.filled)
       \/ Goto("cancel")
    /\ UNCHANGED <<exchange, client, faults, slips>>

(* What filled after the last poll is in no FILL.                            *)
BuyCancel == CancelStep("cancel", "decide") /\ Slip("late", Order.filled > 0)

(* Last attempt, no quote wanted or had, or the ask has drifted: ORDER_FAIL. *)
BuyAbandon ==
    /\ pc = "decide" /\ Fail
    /\ UNCHANGED <<exchange, client, faults, slips>>

(* The quote function is called outside any try: its exception escapes to    *)
(* the router, which fails the request over to another broker.               *)
BuyQuoteRaises ==
    /\ pc = "decide" /\ attempt < MaxRetries
    /\ Answer("RAISED", 0)
    /\ UNCHANGED <<exchange, client, faults, slips>>

BuyRetry ==
    /\ pc = "decide" /\ attempt < MaxRetries
    /\ attempt' = attempt + 1 /\ Goto("submit")
    /\ UNCHANGED <<exchange, req, seen, faults, slips>>

-----------------------------------------------------------------------------
(* _execute_sell                                                             *)

(* Mutant: nothing is cancelled before the SELL.                             *)
SellClearNothing == pc = "clear" /\ Goto("size") /\ UNCHANGED <<exchange, client, faults, slips>>

(* Stops and every open order of the ticker are cancelled; a listing or a    *)
(* cancellation that fails is logged and the SELL goes on.                   *)
SellClear ==
    /\ pc = "clear" /\ Goto("size")
    /\ \/ Works /\ orders' = Cancelled(DOMAIN orders) /\ stop' = 0
       \/ /\ Fails /\ stop' \in {0, stop}
          /\ \E os \in SUBSET DOMAIN orders : orders' = Cancelled(os)
    /\ UNCHANGED <<stuck, position, client, slips>>

(* Mutant: a SELL that finds no position returns without ORDER_FAIL.         *)
SellSizeSilent ==
    /\ pc = "size"
    /\ seen' \in {0, IF position < req.qty THEN position ELSE req.qty}
    /\ Goto(IF seen' > 0 THEN "sell" ELSE "idle")
    /\ UNCHANGED <<exchange, req, attempt, faults, slips>>

(* min(requested, position at the exchange); a lookup that fails twice       *)
(* counts as no position.                                                    *)
SellSize ==
    /\ pc = "size"
    /\ seen' \in {0, IF position < req.qty THEN position ELSE req.qty}
    /\ IF seen' > 0 THEN Goto("sell") ELSE Fail
    /\ UNCHANGED <<exchange, req, attempt, faults, slips>>

SellSubmit ==
    /\ pc = "sell" /\ Works
    /\ orders' = Accept("SELL", seen) /\ Goto("sellpoll")
    /\ UNCHANGED <<stop, stuck, position, client, slips>>

(* The submission raises; the order is then looked up by its client id.      *)
SellSubmitRaises ==
    /\ pc = "sell" /\ Fails
    /\ \/ orders' = Accept("SELL", seen) /\ Goto("lookup")
       \/ UNCHANGED orders /\ Fail
    /\ UNCHANGED <<stop, stuck, position, client, slips>>

SellPoll ==
    /\ pc = "sellpoll"
    /\ \/ Order.st = "filled" /\ Emit(Order.filled)
       \/ Goto("verify")
    /\ UNCHANGED <<exchange, client, faults, slips>>

(* Three more lookups: a fill, whole or partial, is reported, and what       *)
(* remains of a partial one stays live; anything else ends in ORDER_FAIL.    *)
SellVerify ==
    /\ pc \in {"verify", "lookup"}
    /\ \/ (Partial \/ Order.st = "filled") /\ Emit(Order.filled) /\ Slip("left", Partial)
       \/ Fail /\ Slip("left", Live(Cur) \/ Order.filled > 0)
    /\ UNCHANGED <<exchange, client, faults>>

-----------------------------------------------------------------------------
BuyNext ==
    \/ BuySubmit \/ BuySubmitRaises \/ BuyPollHit \/ BuyPollEnds \/ BuyTrim
    \/ BuyRecheck \/ BuySettle \/ BuyReport \/ BuyPrecheck \/ BuyCancel
    \/ BuyAbandon \/ BuyQuoteRaises \/ BuyRetry

SellNext ==
    \/ SellClear \/ SellSize \/ SellSubmit \/ SellSubmitRaises \/ SellPoll \/ SellVerify

ClientNext == BuyNext \/ SellNext

Next == RequestBuy \/ RequestSell \/ ClientNext \/ ExchangeNext
==============================================================================
