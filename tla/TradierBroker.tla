---------------------------- MODULE TradierBroker ----------------------------
(***************************************************************************)
(* TradierBroker (monitor/tradier_broker.py), equity orders: one action for  *)
(* each call to its REST API.  A BUY is a plain limit order; after its FILL  *)
(* a stop order of its own is submitted.  The exchange refuses a SELL of      *)
(* shares the account does not hold, and may end an order by itself.          *)
(***************************************************************************)
EXTENDS BrokerAccount

RequestBuy == Request("BUY", Qty, "submit")
RequestSell == held > 0 /\ Request("SELL", held, "size")

(* The exchange rejects or expires an order it had accepted (external).       *)
ExchangeEnds ==
    /\ pc \in {"poll", "sellpoll"} /\ Live(Cur)
    /\ orders' = Cancelled({Cur})
    /\ UNCHANGED <<stop, stuck, position, pc, client, answers, held, faults, slips>>

-----------------------------------------------------------------------------
(* _execute_buy                                                              *)

(* The loop goes on with the next attempt, or gives the request up.           *)
Again == IF attempt < MaxRetries
         THEN attempt' = attempt + 1 /\ Goto("submit")
         ELSE UNCHANGED attempt /\ Fail

BuySubmit ==
    /\ pc = "submit" /\ Works
    /\ \/ orders' = Accept("BUY", req.qty) /\ Goto("poll") /\ UNCHANGED attempt
       \/ UNCHANGED orders /\ Again
    /\ UNCHANGED <<stop, stuck, position, req, seen, slips>>

(* The POST times out, or its answer has no order id: the next attempt is a   *)
(* new order, whatever became of this one.                                    *)
BuySubmitLost ==
    /\ pc = "submit" /\ Fails
    /\ orders' \in {orders, Accept("BUY", req.qty)} /\ Again
    /\ UNCHANGED <<stop, stuck, position, req, seen, slips>>

(* _poll_fill of a BUY or a SELL: the shares it sees, or that there are none. *)
PollAs(at, trim, done) ==
    /\ pc = at /\ seen' = Order.filled
    /\ \/ Partial /\ Goto(trim)
       \/ Order.st # "live" /\ Order.filled > 0 /\ Goto(done)

BuyPoll ==
    /\ PollAs("poll", "trim", "restop")
    /\ UNCHANGED <<exchange, req, attempt, faults, slips>>

BuyPollEnds ==
    /\ pc = "poll" /\ Goto("cancel")
    /\ UNCHANGED <<exchange, client, faults, slips>>

(* _cancel_order: what it answers is not looked at.                           *)
CancelOrder(step) ==
    /\ pc = step
    /\ \/ Works /\ orders' = Cancelled({Cur})
       \/ Fails /\ UNCHANGED orders
    /\ UNCHANGED <<stop, stuck, position>>

(* Mutant: the rest of a partial fill stays live.                             *)
TrimNothing(step, next) ==
    pc = step /\ Goto(next) /\ UNCHANGED <<exchange, client, faults, slips>>

(* The rest of a partial fill is cancelled, and its quantity read again.      *)
Trim(step, next) == CancelOrder(step) /\ Goto(next) /\ UNCHANGED <<client, slips>>

Recheck(step, next) ==
    /\ pc = step /\ Goto(next)
    /\ \/ Works /\ seen' = Order.filled
       \/ Fails /\ UNCHANGED seen
    /\ UNCHANGED <<exchange, req, attempt, slips>>

BuyTrim == Trim("trim", "recheck")
BuyRecheck == Recheck("recheck", "restop")

(* Not filled, as far as the polls could tell: cancelled and tried again.     *)
BuyCancel ==
    /\ CancelOrder("cancel") /\ Again /\ Slip("late", Order.filled > 0)
    /\ UNCHANGED <<req, seen>>

(* The handler ends with a FILL, and the protective stop for its quantity.    *)
BuyReport ==
    /\ pc = "restop" /\ Emit(seen)
    /\ \/ Works /\ stop' = stop + seen
       \/ Fails /\ stop' \in {stop, stop + seen}
    /\ UNCHANGED <<orders, stuck, position, client, slips>>
-----------------------------------------------------------------------------
(* _execute_sell                                                             *)

(* The position is looked up first.  An answer that is not 200 leaves the     *)
(* quantity as it was asked, an exception ends the request.                   *)
SellSize ==
    /\ pc = "size"
    /\ \/ /\ Works /\ position > 0 /\ Goto("clear")
          /\ seen' = IF position < req.qty THEN position ELSE req.qty
       \/ Works /\ position <= 0 /\ Fail /\ UNCHANGED seen
       \/ Fails /\ (Goto("clear") \/ Fail) /\ UNCHANGED seen
    /\ UNCHANGED <<exchange, req, attempt, slips>>

(* _cancel_open_orders: the open SELLs and stops of the ticker.  A refused    *)
(* cancellation puts the order in _stale_order_ids for good; a listing that   *)
(* fails cancels nothing.                                                     *)
SellClear ==
    /\ pc = "clear" /\ Goto("sell")
    /\ LET open == {o \in DOMAIN orders : orders[o].side = "SELL" /\ ~orders[o].stuck}
       IN  \/ Works /\ orders' = Cancelled(open) /\ stop' = stuck /\ UNCHANGED stuck
           \/ Fails /\ UNCHANGED <<orders, stop, stuck>>
           \/ /\ Fails /\ stop' \in {stuck, stop} /\ stuck' = stop'
              /\ \E os \in SUBSET open :
                    orders' = [o \in DOMAIN orders |->
                                 [Cancelled(os)[o] EXCEPT !.stuck = @ \/ o \in open \ os]]
    /\ UNCHANGED <<position, client, slips>>

(* The market SELL is accepted, or refused: always, when the shares are gone. *)
SellSubmit ==
    /\ pc = "sell" /\ Works
    /\ \/ seen <= position /\ orders' = Accept("SELL", seen) /\ Goto("sellpoll")
       \/ UNCHANGED orders /\ Fail
    /\ UNCHANGED <<stop, stuck, position, client, slips>>

(* The POST raises, or its answer has no order id.                            *)
SellSubmitLost ==
    /\ pc = "sell" /\ Fails /\ Fail
    /\ orders' \in {orders} \cup {Accept("SELL", n) : n \in {seen} \cap 0..position}
    /\ UNCHANGED <<stop, stuck, position, client, slips>>

SellPoll ==
    /\ PollAs("sellpoll", "selltrim", "verify")
    /\ UNCHANGED <<exchange, req, attempt, faults, slips>>

SellTrim == Trim("selltrim", "sellrecheck")
SellRecheck == Recheck("sellrecheck", "verify")

SellReport ==
    /\ pc = "verify" /\ Emit(seen)
    /\ UNCHANGED <<exchange, client, faults, slips>>

(* Not filled: an ORDER_FAIL, and nothing cancels the SELL.                   *)
SellPollEnds ==
    /\ pc = "sellpoll" /\ Fail /\ Slip("left", Live(Cur) \/ Order.filled > 0)
    /\ UNCHANGED <<exchange, client, faults>>
-----------------------------------------------------------------------------
BuyNext ==
    \/ BuySubmit \/ BuySubmitLost \/ BuyPoll \/ BuyPollEnds \/ BuyTrim \/ BuyRecheck
    \/ BuyCancel \/ BuyReport

SellNext ==
    \/ SellSize \/ SellClear \/ SellSubmit \/ SellSubmitLost \/ SellPoll \/ SellTrim
    \/ SellRecheck \/ SellReport \/ SellPollEnds

ClientNext == BuyNext \/ SellNext

Next == RequestBuy \/ RequestSell \/ ClientNext \/ ExchangeNext \/ ExchangeEnds
==============================================================================
