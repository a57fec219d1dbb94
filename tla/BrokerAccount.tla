---------------------------- MODULE BrokerAccount ----------------------------
(***************************************************************************)
(* The account of one ticker at a broker, and the worker that executes the  *)
(* ORDER_REQs for it.  The ORDER_REQ queue has one worker, so requests run   *)
(* one after the other; between any two calls to the broker's API the        *)
(* exchange may fill orders, wholly or in part, and fire stops.  The         *)
(* exchange is external: fills, stops and what its API answers.  What the    *)
(* worker does with a request is AlpacaBroker's and TradierBroker's.         *)
(***************************************************************************)
EXTENDS Integers, Sequences

CONSTANTS
    Qty,          \* shares of a BUY request
    MaxRetries,   \* MAX_RETRIES: 2 at Alpaca, TRADIER_MAX_RETRIES (3) at Tradier
    MaxRequests,  \* bound: requests in a behaviour
    MaxFaults     \* bound: API calls that fail where the code swallows it

ASSUME BrokerAccountAssumption ==
    /\ Qty \in Nat \ {0} /\ MaxRetries \in Nat \ {0}
    /\ MaxRequests \in Nat /\ MaxFaults \in Nat

BuySteps  == {"submit", "poll", "trim", "recheck", "settle", "restop",
              "precheck", "cancel", "decide", "stop"}
SellSteps == {"clear", "size", "sell", "sellpoll", "selltrim", "sellrecheck",
              "verify", "lookup"}

VARIABLES
    orders,    \* orders the exchange has accepted, oldest first: those of the
               \* current request, and of earlier ones as long as any is live
    stop,      \* shares its live stop orders would sell
    stuck,     \* those of them in _stale_order_ids: never cancelled again
    position,  \* shares it holds for the account
    pc, req, attempt,   \* the request being executed: number, side, quantity
    seen,      \* filled_qty (BUY) or actual_qty (SELL) as the code knows it
    answers,   \* what the request has led to: FILLs, FAILs, an exception
    held,      \* what the FILLs add up to: PositionManager's quantity
    faults,
    slips      \* history: the ways in which the books have lost the account

vars == <<orders, stop, stuck, position, pc, req, attempt, seen, answers, held, faults, slips>>
exchange == <<orders, stop, stuck, position>>
client == <<req, attempt, seen>>

Cur == Len(orders)                  \* the order of the current attempt
Order == orders[Cur]
Live(o) == orders[o].st = "live"
Partial == Order.st = "live" /\ Order.filled > 0

Slip(kind, happened) == slips' = IF happened THEN slips \cup {kind} ELSE slips
NoSlip == UNCHANGED slips

-----------------------------------------------------------------------------
(* The exchange (external)                                                   *)

(* n more shares of a live order; a bracket's stop is armed once its parent   *)
(* has filled.                                                               *)
ExchangeFills(o, n) ==
    /\ Live(o) /\ n <= orders[o].qty - orders[o].filled
    /\ LET all == orders[o].filled + n = orders[o].qty
       IN  /\ orders' = [orders EXCEPT ![o].filled = @ + n,
                                       ![o].st = IF all THEN "filled" ELSE "live"]
           /\ stop' = IF all /\ orders[o].bracket THEN stop + orders[o].qty ELSE stop
    /\ position' = IF orders[o].side = "BUY" THEN position + n ELSE position - n
    /\ UNCHANGED <<stuck, pc, client, answers, held, faults, slips>>

StopFires ==
    /\ stop > 0
    /\ position' = position - stop
    /\ stop' = 0 /\ stuck' = 0 /\ Slip("stopped", TRUE)
    /\ UNCHANGED <<orders, pc, client, answers, held, faults>>

(* An API call that takes effect, or fails and is counted.                   *)
Works == UNCHANGED faults
Fails == faults < MaxFaults /\ faults' = faults + 1

NewOrder(side, n, bracket) ==
    [req |-> req.id, side |-> side, qty |-> n, filled |-> 0, st |-> "live",
     bracket |-> bracket, stuck |-> FALSE]

Accept(side, n) == Append(orders, NewOrder(side, n, FALSE))

(* A cancellation changes nothing of an order that is over.                  *)
Cancelled(os) == [o \in DOMAIN orders |->
                    IF o \in os /\ Live(o) THEN [orders[o] EXCEPT !.st = "cancelled"]
                    ELSE orders[o]]

-----------------------------------------------------------------------------
(* Answers                                                                   *)

Answer(kind, n) ==
    /\ pc' = "idle"
    /\ answers' = Append(answers, [kind |-> kind, qty |-> n, order |-> Cur])
    /\ held' = CASE kind = "FILL" /\ req.side = "BUY"  -> held + n
                 [] kind = "FILL" /\ req.side = "SELL" -> held - n
                 [] OTHER -> held

Emit(n) == Answer("FILL", n)
Fail == Answer("FAIL", 0)
Goto(step) == pc' = step /\ UNCHANGED <<answers, held>>

-----------------------------------------------------------------------------
(* The handler's beginning: a BUY of Qty, or a SELL of what the FILLs add up *)
(* to.  Once none of them is live, the orders of earlier requests are          *)
(* forgotten: one that is over has no effect.                                *)

Request(side, n, step) ==
    /\ pc = "idle" /\ req.id < MaxRequests
    /\ req' = [id |-> req.id + 1, side |-> side, qty |-> n]
    /\ attempt' = 1 /\ seen' = n
    /\ pc' = step
    /\ answers' = <<>>
    /\ orders' = IF \E o \in DOMAIN orders : Live(o) THEN orders ELSE <<>>
    /\ UNCHANGED <<stop, stuck, position, held, faults, slips>>

-----------------------------------------------------------------------------
Init ==
    /\ orders = <<>> /\ stop = 0 /\ stuck = 0 /\ position = 0
    /\ pc = "idle" /\ req = [id |-> 0, side |-> "BUY", qty |-> Qty]
    /\ attempt = 1 /\ seen = Qty /\ answers = <<>> /\ held = 0 /\ faults = 0
    /\ slips = {}

ExchangeNext == StopFires \/ \E o \in DOMAIN orders, n \in 1 .. Qty : ExchangeFills(o, n)

-----------------------------------------------------------------------------
(* Properties                                                                *)

TypeOK ==
    /\ orders \in Seq([req : 1 .. MaxRequests, side : {"BUY", "SELL"}, qty : Nat,
                       filled : Nat, st : {"live", "filled", "cancelled"},
                       bracket : BOOLEAN, stuck : BOOLEAN])
    /\ stop \in Nat /\ stuck \in 0 .. stop /\ slips \subseteq {"stopped", "late", "left"}
    /\ position \in Int /\ held \in Int /\ faults \in 0 .. MaxFaults
    /\ pc \in {"idle"} \cup BuySteps \cup SellSteps
    /\ req \in [id : 0 .. MaxRequests, side : {"BUY", "SELL"}, qty : Nat]
    /\ attempt \in 1 .. MaxRetries /\ seen \in Int
    /\ answers \in Seq([kind : {"FILL", "FAIL", "RAISED"},
                        qty : Nat, order : Nat])

(* A FILL never reports more than the order it names has filled, although    *)
(* the quantity is pieced together from up to three lookups around a         *)
(* cancellation that may not have worked (_execute_buy 280-361, SELL paths). *)
ReportedWasFilled ==
    \A i \in DOMAIN answers :
        answers[i].kind = "FILL" => answers[i].qty <= orders[answers[i].order].filled

(* While every API call takes effect, nothing the broker does can leave the  *)
(* account short: stops, leftovers of earlier requests and the SELL itself   *)
(* never add up to more than it holds ("strategy sells + bracket stop fires  *)
(* = short", _execute_sell 469-545).                                         *)
NeverShort == faults = 0 => position >= 0

(* Every request comes to an end with one answer: no path through polls,     *)
(* retries and exceptions leaves the single ORDER_REQ worker hanging or      *)
(* gives an answer twice.                                                    *)
EveryRequestAnswered ==
    \A r \in 1 .. MaxRequests :
        (req.id = r /\ pc # "idle") ~> (req.id = r /\ pc = "idle" /\ Len(answers) = 1)

(* Unless a stop has fired, an order has filled after the last look at it, or *)
(* a SELL was given up while it was live, the account holds no more than the   *)
(* books say when a request has been answered, but for one BUY for each API    *)
(* call that failed (a POST sent again because its answer was lost).  If none  *)
(* failed, it holds what the books say, nothing is left at the exchange, and   *)
(* the stops protect exactly the shares of a BUY that opened the position.     *)
BooksAreShares ==
    pc = "idle" /\ slips = {} =>
        /\ position - held <= faults * Qty
        /\ faults = 0 =>
             /\ held = position
             /\ \A o \in DOMAIN orders : ~Live(o)
             /\ \A i \in DOMAIN answers :
                   answers[i].kind = "FILL" /\ req.side = "BUY" /\ answers[i].qty = held
                     => stop = held

(* Claimed by brokers.py 363-366 of the check before the cancellation: it    *)
(* keeps the retry of a BUY whose order has filled from making a double      *)
(* position.  At most one order of a BUY request has filled.                 *)
NoDoubleEntry ==
    \A o, u \in DOMAIN orders :
        /\ orders[o].side = "BUY" /\ orders[o].filled > 0
        /\ orders[u].side = "BUY" /\ orders[u].filled > 0
        /\ orders[o].req = orders[u].req
        => o = u
==============================================================================
