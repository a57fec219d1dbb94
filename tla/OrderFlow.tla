------------------------------ MODULE OrderFlow ------------------------------
(***************************************************************************)
(* How an order travels through the Core process: the risk engines admit    *)
(* it, the gates and the SmartRouter pass it to one of two brokers, FILL,   *)
(* ORDER_FAIL and POSITION events carry the outcome back, the               *)
(* PositionManager keeps the books, and the reconciliations - at startup    *)
(* and every five minutes - compare the books with the brokers.             *)
(*                                                                          *)
(* The event bus has one worker each for ORDER_REQ, FILL, ORDER_FAIL and    *)
(* POSITION, with a FIFO queue: a worker calls the handlers of an event one *)
(* after the other, and workers overtake each other freely.  Signals come   *)
(* from several workers, one at a time per engine and ticker.               *)
(*                                                                          *)
(* The write-ahead log is what OrderWAL is proved to implement: DedupGate.  *)
(* What the brokers hold, and how a broker executes an order (AlpacaBroker  *)
(* has the detail), is external.  Clocks are not modelled: a cooldown, a    *)
(* TTL or a period may have passed between any two steps.                   *)
(***************************************************************************)
EXTENDS Integers, Sequences, FiniteSets, SequencesExt

CONSTANTS
    Tickers,
    Qty,        \* shares of a BUY
    MaxVwap,    \* RiskEngine's max_positions
    MaxPro,     \* RiskAdapter's max_positions
    MaxOrders,  \* bound: orders in a behaviour (no signal is screened after the last)
    MaxRounds,  \* bound: reconciliations that start while events are under way
    MaxStops,   \* bound: stops that fire at a broker
    MaxFaults,  \* bound: orders whose broker raises or fills what it has failed,
                \* failed lookups
    MaxStarts   \* bound: times Core starts

ASSUME OrderFlowAssumption ==
    /\ {Qty, MaxVwap, MaxPro, MaxStarts} \subseteq Nat \ {0}
    /\ {MaxOrders, MaxRounds, MaxStops, MaxFaults} \subseteq Nat
    /\ IsFiniteSet(Tickers)

Layers  == {"vwap", "pro"}
Brokers == {"alpaca", "tradier"}
Default == "alpaca"
Other(b) == IF b = "alpaca" THEN "tradier" ELSE "alpaca"
None    == "none"
Ids     == 1 .. MaxOrders
NoSplit == [b \in Brokers |-> 0]
NoPos   == [qty |-> 0, by |-> None, tag |-> None, split |-> NoSplit]
Idle    == [at |-> "idle"]

Shares   == Nat \ {0}
Order    == [id : Ids, t : Tickers, side : {"BUY", "SELL"}, qty : Shares, by : Layers \cup {None}]
Fill     == [id : Ids, t : Tickers, side : {"BUY", "SELL"}, qty : Shares, by : Layers \cup {None},
             b : Brokers]
Failure  == [t : Tickers, side : {"BUY", "SELL"}, by : Layers \cup {None},
             why : {"no healthy broker", "no position", "order"}]
LegType  == [b : Brokers, n : Shares, again : BOOLEAN]
Position == [qty : Nat, by : Layers \cup {"other", None}, tag : Brokers \cup {None},
             split : [Brokers -> Nat]]

VARIABLES
    hold,      \* external: broker -> ticker -> shares
    positions, \* PositionManager's books; by is the layer of the strategy, tag
               \* and split are _broker and _broker_qty of a reconciled one
    reclaimed, \* _reclaimed_today
    screened,  \* layer -> tickers whose BUY signal has passed the limits
    pending,   \* RiskEngine._pending_tickers
    proPos,    \* RiskAdapter._positions
    registry,  \* the registry file: ticker -> layer
    acquired,  \* RegistryGate._acquired_tickers
    brokerOf,  \* SmartRouter._position_broker
    down,      \* brokers whose circuit breaker is open
    reqQ, fillQ, failQ, closedQ, \* the queues of the four workers (of POSITION
               \* only the CLOSED events matter here)
    exec,      \* what the ORDER_REQ worker is doing
    fillAt, failAt, closedAt,    \* handlers the others have run for the head
    rec, snap, rounds, \* the live reconciliation: its phase, what it has
               \* fetched, and how often it started while events were under way
    open, admitted,              \* the write-ahead log, see DedupGate
    nextId, recovered,           \* next order id; the WAL recovery has run
    stops, faults, starts,
    slips      \* history: the known ways in which the parts lose each other

books  == <<positions, reclaimed>>
risk   == <<screened, pending, proPos>>
gates  == <<registry, acquired, brokerOf, down>>
queues == <<reqQ, fillQ, failQ, closedQ>>
at     == <<fillAt, failAt, closedAt>>
recon  == <<rec, snap, rounds>>
wal    == <<open, admitted, nextId, recovered>>
extern == <<stops, faults, starts>>
vars   == <<hold, books, risk, gates, queues, exec, at, recon, wal, extern, slips>>

Gate == INSTANCE DedupGate WITH Cids <- Ids

Held(t) == hold["alpaca"][t] + hold["tradier"][t]
IsOpen(t) == positions[t].qty > 0
MinOf(a, b) == IF a < b THEN a ELSE b
Fault == faults < MaxFaults /\ faults' = faults + 1

-----------------------------------------------------------------------------
(* Risk engines                                                              *)

VwapCount == Cardinality({t \in Tickers : IsOpen(t) /\ positions[t].by # "pro"})

(* _handle_buy up to the limits.  Pending entries older than their TTL are   *)
(* evicted first; everything after the limits (quotes, correlation, sizing)  *)
(* may still turn the signal down.                                           *)
ScreenVwap(t) ==
    /\ nextId <= MaxOrders /\ t \notin screened["vwap"]
    /\ \E stale \in SUBSET pending :
          /\ pending' = pending \ stale
          /\ VwapCount + Cardinality(pending') < MaxVwap
    /\ t \notin reclaimed
    /\ screened' = [screened EXCEPT !["vwap"] = @ \cup {t}]
    /\ UNCHANGED <<hold, books, proPos, gates, queues, exec, at, recon, wal, extern, slips>>

(* validate_and_emit up to the checks on positions.                          *)
ScreenPro(t) ==
    /\ nextId <= MaxOrders /\ t \notin screened["pro"]
    /\ Cardinality(proPos) < MaxPro /\ t \notin proPos
    /\ screened' = [screened EXCEPT !["pro"] = @ \cup {t}]
    /\ UNCHANGED <<hold, books, pending, proPos, gates, queues, exec, at, recon, wal, extern, slips>>

Request(t, side, n, l) ==
    /\ nextId <= MaxOrders
    /\ nextId' = nextId + 1
    /\ reqQ' = Append(reqQ, [id |-> nextId, t |-> t, side |-> side, qty |-> n, by |-> l])

(* Mutant: the order is placed without asking the write-ahead log.           *)
PlaceUngated(l, t) ==
    /\ t \in screened[l]
    /\ screened' = [screened EXCEPT ![l] = @ \ {t}]
    /\ Request(t, "BUY", Qty, l)
    /\ open' = [open EXCEPT ![t] = @ \cup {nextId}] /\ admitted' = admitted \cup {nextId}
    /\ pending' = IF l = "vwap" THEN pending \cup {t} ELSE pending
    /\ proPos' = IF l = "pro" THEN proPos \cup {t} ELSE proPos
    /\ slips' = IF IsOpen(t) THEN slips \cup {"late signal"} ELSE slips
    /\ UNCHANGED <<hold, books, gates, fillQ, failQ, closedQ, exec, at, recon, recovered, extern>>

(* The rest of either: check_and_intent, then ORDER_REQ.  RiskAdapter marks  *)
(* the ticker before it asks and unmarks it when refused.                    *)
Place(l, t) ==
    /\ t \in screened[l]
    /\ screened' = [screened EXCEPT ![l] = @ \ {t}]
    /\ \/ /\ Gate!Admit(t, nextId)
          /\ Request(t, "BUY", Qty, l)
          /\ pending' = IF l = "vwap" THEN pending \cup {t} ELSE pending
          /\ proPos' = IF l = "pro" THEN proPos \cup {t} ELSE proPos
          /\ slips' = IF IsOpen(t) THEN slips \cup {"late signal"} ELSE slips
       \/ /\ open[t] # {}
          /\ proPos' = IF l = "pro" THEN proPos \ {t} ELSE proPos
          /\ UNCHANGED <<open, admitted, nextId, reqQ, pending, slips>>
    /\ UNCHANGED <<hold, books, gates, fillQ, failQ, closedQ, exec, at, recon, recovered, extern>>

(* A later check turns the signal down.                                      *)
TurnDown(l, t) ==
    /\ t \in screened[l]
    /\ screened' = [screened EXCEPT ![l] = @ \ {t}]
    /\ UNCHANGED <<hold, books, pending, proPos, gates, queues, exec, at, recon, wal, extern, slips>>

(* _emit_sell_order: all of the position, or half of it.                     *)
RequestSell(t) ==
    /\ IsOpen(t)
    /\ \E n \in {positions[t].qty, positions[t].qty \div 2} \ {0} : Request(t, "SELL", n, None)
    /\ UNCHANGED <<hold, books, risk, gates, fillQ, failQ, closedQ, exec, at, recon,
                   open, admitted, recovered, extern, slips>>

-----------------------------------------------------------------------------
(* The ORDER_REQ worker: gates, router, broker                               *)

Take(o) == exec = Idle /\ reqQ # <<>> /\ o = Head(reqQ) /\ reqQ' = Tail(reqQ)

(* A BUY blocked by PortfolioRiskGate (drawdown, exposure, buying power) or  *)
(* by the registry (another layer, or full): only RISK_BLOCK is emitted.     *)
Block(o) ==
    /\ Take(o) /\ o.side = "BUY"
    /\ UNCHANGED <<hold, books, risk, gates, fillQ, failQ, closedQ, exec, at, recon, wal, extern, slips>>

(* Mutant: the registry does not look at the layer that holds a ticker.      *)
PassAnyLayer(o) ==
    /\ Take(o)
    /\ IF o.side = "BUY"
       THEN /\ registry' = [registry EXCEPT ![o.t] = o.by]
            /\ acquired' = acquired \cup {o.t}
       ELSE UNCHANGED <<registry, acquired>>
    /\ exec' = [at |-> "route", o |-> o]
    /\ UNCHANGED <<hold, books, risk, brokerOf, down, fillQ, failQ, closedQ, at, recon, wal, extern, slips>>

(* RegistryGate: a BUY acquires its ticker for its layer, a SELL passes.     *)
Pass(o) ==
    /\ Take(o)
    /\ IF o.side = "BUY"
       THEN /\ registry[o.t] \in {None, o.by}
            /\ registry' = [registry EXCEPT ![o.t] = o.by]
            /\ acquired' = acquired \cup {o.t}
       ELSE UNCHANGED <<registry, acquired>>
    /\ exec' = [at |-> "route", o |-> o]
    /\ UNCHANGED <<hold, books, risk, brokerOf, down, fillQ, failQ, closedQ, at, recon, wal, extern, slips>>

Leg(b, n, again) == [b |-> b, n |-> n, again |-> again]

(* The legs of a SELL of a position both brokers hold: the larger holding    *)
(* first, brokers that are down left out.                                    *)
SplitLegs(split, n) ==
    LET big == IF split["alpaca"] >= split["tradier"] THEN "alpaca" ELSE "tradier"
        n1  == IF big \in down THEN 0 ELSE MinOf(n, split[big])
        n2  == IF Other(big) \in down THEN 0 ELSE MinOf(n - n1, split[Other(big)])
        Part(b, k) == IF k > 0 THEN <<Leg(b, k, FALSE)>> ELSE <<>>
    IN  Part(big, n1) \o Part(Other(big), n2)

(* _select_broker: a SELL goes to the broker the map names, else to Alpaca   *)
(* (a position is only looked for there, and Alpaca is the default); a BUY   *)
(* round-robin to a healthy broker.                                          *)
Preferred(o) ==
    IF o.side = "SELL" THEN {IF brokerOf[o.t] = None THEN Default ELSE brokerOf[o.t]}
    ELSE IF down = Brokers THEN {Default} ELSE Brokers \ down

Start(legs) == exec' = IF legs = <<>> THEN Idle ELSE [at |-> "broker", o |-> exec.o, legs |-> legs]

(* The position of t is split when both brokers are entered in _broker_qty.  *)
IsSplit(t) == \A b \in Brokers : positions[t].split[b] > 0

RouteSplit ==
    /\ exec.at = "route" /\ exec.o.side = "SELL" /\ IsSplit(exec.o.t)
    /\ Start(SplitLegs(positions[exec.o.t].split, exec.o.qty))
    /\ UNCHANGED <<hold, books, risk, gates, queues, at, recon, wal, extern, slips>>

Route ==
    /\ exec.at = "route" /\ down # Brokers
    /\ exec.o.side = "SELL" => ~IsSplit(exec.o.t)
    /\ \E p \in Preferred(exec.o) :
          LET b == IF p \in down THEN Other(p) ELSE p
          IN  /\ Start(<<Leg(b, exec.o.qty, FALSE)>>)
              /\ brokerOf' = IF exec.o.side = "BUY" THEN [brokerOf EXCEPT ![exec.o.t] = b]
                             ELSE brokerOf
    /\ UNCHANGED <<hold, books, risk, registry, acquired, down, queues, at, recon, wal, extern, slips>>

Failed(o, why) == failQ' = Append(failQ, [t |-> o.t, side |-> o.side, by |-> o.by, why |-> why])

(* Nobody tells the write-ahead log.                                         *)
RouteNowhere ==
    /\ exec.at = "route" /\ down = Brokers
    /\ exec.o.side = "SELL" => ~IsSplit(exec.o.t)
    /\ Failed(exec.o, "no healthy broker")
    /\ exec' = Idle
    /\ UNCHANGED <<hold, books, risk, gates, reqQ, fillQ, closedQ, at, recon, wal, extern, slips>>

(* The second leg, if there is one and its broker is not down by now.        *)
TheLeg == Head(exec.legs)
LegDone(broken) ==
    LET rest == Tail(exec.legs)
    IN  Start(IF rest # <<>> /\ Head(rest).b \in broken THEN <<>> ELSE rest)

Executed(n) == [hold EXCEPT ![TheLeg.b][exec.o.t] =
                    IF exec.o.side = "BUY" THEN @ + n ELSE @ - MinOf(@, n)]

(* The broker buys, or sells what it holds at most, in whole or in part.     *)
BrokerFills(n) ==
    LET o == exec.o  b == TheLeg.b
    IN  /\ exec.at = "broker" /\ n <= TheLeg.n
        /\ o.side = "SELL" => n <= hold[b][o.t]
        /\ hold' = Executed(n)
        /\ fillQ' = Append(fillQ, [t |-> o.t, side |-> o.side, qty |-> n, id |-> o.id,
                                   by |-> o.by, b |-> b])
        /\ LegDone(down)
        /\ UNCHANGED <<books, risk, gates, reqQ, failQ, closedQ, at, recon, wal, extern, slips>>

(* Shares of a BUY that Core has given up on come in all the same.           *)
Stray ==
    /\ exec.o.side = "BUY"
    /\ hold' = [hold EXCEPT ![TheLeg.b][exec.o.t] = @ + TheLeg.n]
    /\ slips' = slips \cup {"stray"}

(* The broker gives up.  Only Tradier says that it holds no position, and    *)
(* then it does not log FAILED.                                              *)
BrokerFails ==
    LET o == exec.o  b == TheLeg.b
        gone == o.side = "SELL" /\ hold[b][o.t] = 0
    IN  /\ exec.at = "broker"
        /\ Failed(o, IF gone /\ b = "tradier" THEN "no position" ELSE "order")
        /\ IF o.side = "BUY" /\ o.id \in open[o.t]
           THEN Gate!Close(o.t, o.id) ELSE UNCHANGED <<open, admitted>>
        /\ UNCHANGED <<hold, slips, faults>> \/ (Stray /\ Fault)
        /\ LegDone(down)
        /\ UNCHANGED <<books, risk, gates, reqQ, fillQ, closedQ, at, recon, nextId, recovered,
                       stops, starts>>

(* Its handler raises: the failure may open its circuit breaker; the same    *)
(* event goes to the other broker, once, which may raise as well.            *)
BrokerRaises ==
    LET b == TheLeg.b
    IN  /\ exec.at = "broker"
        /\ IF TheLeg.again THEN UNCHANGED faults ELSE Fault
        /\ down' \in {down, down \cup {b}}
        /\ IF TheLeg.again \/ Other(b) \in down THEN LegDone(down')
           ELSE Start(<<Leg(Other(b), TheLeg.n, TRUE)>> \o Tail(exec.legs))
        /\ UNCHANGED <<hold, slips>> \/ Stray
        /\ UNCHANGED <<books, risk, registry, acquired, brokerOf, queues, at, recon, wal,
                       stops, starts>>

CooldownEnds(b) ==
    /\ b \in down /\ down' = down \ {b}
    /\ UNCHANGED <<hold, books, risk, registry, acquired, brokerOf, queues, exec, at, recon, wal,
                   extern, slips>>

-----------------------------------------------------------------------------
(* What Core does not see (external)                                         *)

StopFires(b, t) ==
    /\ hold[b][t] > 0 /\ stops < MaxStops /\ stops' = stops + 1
    /\ hold' = [hold EXCEPT ![b][t] = 0]
    /\ slips' = slips \cup {"stop"}
    /\ UNCHANGED <<books, risk, gates, queues, exec, at, recon, wal, faults, starts>>

-----------------------------------------------------------------------------
(* The FILL worker                                                           *)

(* RiskEngine clears the pending entry of a BUY; the router's breaker resets *)
FillClear ==
    /\ fillAt = 0 /\ fillQ # <<>> /\ fillAt' = 1
    /\ LET f == Head(fillQ)
       IN  /\ pending' = IF f.side = "BUY" THEN pending \ {f.t} ELSE pending
           /\ down' = down \ {f.b}
    /\ UNCHANGED <<hold, books, screened, proPos, registry, acquired, brokerOf, queues, exec,
                   failAt, closedAt, recon, wal, extern, slips>>

FillDone == fillAt' = 0 /\ fillQ' = Tail(fillQ)

(* _open_position: a second BUY of an open ticker is ignored.  RECORDED.     *)
FillBuy ==
    LET f == Head(fillQ)
    IN  /\ fillAt = 1 /\ f.side = "BUY" /\ FillDone
        /\ IF IsOpen(f.t)
           THEN /\ slips' = slips \cup {"duplicate"}
                /\ UNCHANGED <<books, open, admitted>>
           ELSE /\ positions' = [positions EXCEPT ![f.t] = [NoPos EXCEPT !.qty = f.qty, !.by = f.by]]
                /\ reclaimed' = reclaimed \cup {f.t}
                /\ IF f.id \in open[f.t] THEN Gate!Close(f.t, f.id) ELSE UNCHANGED <<open, admitted>>
                /\ UNCHANGED slips
        /\ UNCHANGED <<hold, risk, gates, reqQ, failQ, closedQ, exec, failAt, closedAt, recon,
                       nextId, recovered, extern>>

(* A split that one broker is left of is forgotten.                          *)
SplitAfter(split, b, n) ==
    LET rest == [split EXCEPT ![b] = @ - MinOf(@, n)]
    IN  IF split[b] = 0 THEN split
        ELSE IF \E x \in Brokers : rest[x] = 0 THEN NoSplit ELSE rest

(* Mutant: not clamped to the position.                                      *)
FillSellUnclamped ==
    LET f == Head(fillQ)
        n == f.qty
    IN  /\ fillAt = 1 /\ f.side = "SELL" /\ FillDone
        /\ IF n = positions[f.t].qty
           THEN /\ positions' = [positions EXCEPT ![f.t] = NoPos]
                /\ closedQ' = IF IsOpen(f.t) THEN Append(closedQ, f.t) ELSE closedQ
           ELSE /\ positions' = [positions EXCEPT ![f.t].qty = @ - n,
                                                  ![f.t].split = SplitAfter(@, f.b, n)]
                /\ UNCHANGED closedQ
        /\ UNCHANGED <<hold, reclaimed, risk, gates, reqQ, failQ, exec, failAt, closedAt, recon,
                       wal, extern, slips>>

(* Mutant: a partial SELL closes the position.                               *)
FillSellCloses ==
    LET f == Head(fillQ)
    IN  /\ fillAt = 1 /\ f.side = "SELL" /\ FillDone
        /\ positions' = [positions EXCEPT ![f.t] = NoPos]
        /\ closedQ' = IF IsOpen(f.t) THEN Append(closedQ, f.t) ELSE closedQ
        /\ UNCHANGED <<hold, reclaimed, risk, gates, reqQ, failQ, exec, failAt, closedAt, recon,
                       wal, extern, slips>>

(* _close_position: clamped to the position, which it reduces or closes.     *)
FillSell ==
    LET f == Head(fillQ)
        n == MinOf(f.qty, positions[f.t].qty)
    IN  /\ fillAt = 1 /\ f.side = "SELL" /\ FillDone
        /\ IF n = positions[f.t].qty
           THEN /\ positions' = [positions EXCEPT ![f.t] = NoPos]
                /\ closedQ' = IF IsOpen(f.t) THEN Append(closedQ, f.t) ELSE closedQ
           ELSE /\ positions' = [positions EXCEPT
                                   ![f.t].qty = @ - n,
                                   ![f.t].split = SplitAfter(@, f.b, n)]
                /\ UNCHANGED closedQ
        /\ UNCHANGED <<hold, reclaimed, risk, gates, reqQ, failQ, exec, failAt, closedAt, recon,
                       wal, extern, slips>>

-----------------------------------------------------------------------------
(* The ORDER_FAIL worker                                                     *)

(* Somebody's BUY of t is beyond the registry, or its position is open.      *)
Taken(t) == \/ IsOpen(t)
            \/ exec # Idle /\ exec.o.side = "BUY" /\ exec.o.t = t
            \/ \E i \in DOMAIN fillQ : fillQ[i].side = "BUY" /\ fillQ[i].t = t

Release(t) ==
    /\ registry' = [registry EXCEPT ![t] = None]
    /\ acquired' = acquired \ {t}
    /\ slips' = IF Taken(t) THEN slips \cup {"released"} ELSE slips

(* RiskEngine: the failure of a SELL clears the pending entry as well.       *)
FailClear ==
    /\ failAt = 0 /\ failQ # <<>> /\ failAt' = 1
    /\ pending' = pending \ {Head(failQ).t}
    /\ UNCHANGED <<hold, books, screened, proPos, gates, queues, exec, fillAt, closedAt, recon, wal,
                   extern, slips>>

(* RegistryGate: a BUY gives its slot back.                                  *)
FailRelease ==
    /\ failAt = 1 /\ failAt' = 2
    /\ LET f == Head(failQ)
       IN  IF f.side = "BUY" /\ f.t \in acquired THEN Release(f.t)
           ELSE UNCHANGED <<registry, acquired, slips>>
    /\ UNCHANGED <<hold, books, risk, brokerOf, down, queues, exec, fillAt, closedAt, recon, wal, extern>>

(* PositionManager: the broker says there is no position.                    *)
FailPhantom ==
    /\ failAt = 2 /\ failAt' = 3
    /\ LET f == Head(failQ)
       IN  IF f.side = "SELL" /\ f.why = "no position" /\ IsOpen(f.t)
           THEN /\ positions' = [positions EXCEPT ![f.t] = NoPos]
                /\ closedQ' = Append(closedQ, f.t)
                /\ slips' = IF Held(f.t) > 0 THEN slips \cup {"phantom"} ELSE slips
           ELSE UNCHANGED <<positions, closedQ, slips>>
    /\ UNCHANGED <<hold, reclaimed, risk, gates, reqQ, fillQ, failQ, exec, fillAt, closedAt, recon,
                   wal, extern>>

(* RiskAdapter: a Pro BUY is unmarked; "no healthy broker" names no layer.   *)
FailPro ==
    /\ failAt = 3 /\ failAt' = 0 /\ failQ' = Tail(failQ)
    /\ LET f == Head(failQ)
       IN  proPos' = IF f.side = "BUY" /\ f.by = "pro" /\ f.why = "order"
                     THEN proPos \ {f.t} ELSE proPos
    /\ UNCHANGED <<hold, books, screened, pending, gates, reqQ, fillQ, closedQ, exec, fillAt, closedAt,
                   recon, wal, extern, slips>>

-----------------------------------------------------------------------------
(* The POSITION worker                                                       *)

ClosedRouter ==
    /\ closedAt = 0 /\ closedQ # <<>> /\ closedAt' = 1
    /\ brokerOf' = [brokerOf EXCEPT ![Head(closedQ)] = None]
    /\ UNCHANGED <<hold, books, risk, registry, acquired, down, queues, exec, fillAt, failAt, recon,
                   wal, extern, slips>>

ClosedRegistry ==
    /\ closedAt = 1 /\ closedAt' = 2
    /\ Release(Head(closedQ))
    /\ UNCHANGED <<hold, books, risk, brokerOf, down, queues, exec, fillAt, failAt, recon, wal, extern>>

ClosedPro ==
    /\ closedAt = 2 /\ closedAt' = 0 /\ closedQ' = Tail(closedQ)
    /\ proPos' = proPos \ {Head(closedQ)}
    /\ UNCHANGED <<hold, books, screened, pending, gates, reqQ, fillQ, failQ, exec, fillAt, failAt,
                   recon, wal, extern, slips>>

-----------------------------------------------------------------------------
(* _live_reconcile                                                           *)

Nothing == [b \in Brokers |-> [t \in Tickers |-> 0]]

(* No event is under way.                                                    *)
Quiet == reqQ = <<>> /\ fillQ = <<>> /\ failQ = <<>> /\ closedQ = <<>> /\ exec = Idle

RecAlpaca ==
    /\ rec = "idle" /\ rec' = "alpaca"
    /\ IF Quiet THEN UNCHANGED rounds ELSE rounds < MaxRounds /\ rounds' = rounds + 1
    /\ snap' = [snap EXCEPT !["alpaca"] = hold["alpaca"]]
    /\ UNCHANGED <<hold, books, risk, gates, queues, exec, at, wal, extern, slips>>

(* A Tradier answer that is not 200 counts as no positions; an exception     *)
(* ends the round.                                                           *)
RecTradier ==
    /\ rec = "alpaca"
    /\ \/ rec' = "fetched" /\ snap' = [snap EXCEPT !["tradier"] = hold["tradier"]] /\ UNCHANGED faults
       \/ rec' = "fetched" /\ snap' = [snap EXCEPT !["tradier"] = [t \in Tickers |-> 0]] /\ Fault
       \/ rec' = "idle" /\ snap' = Nothing /\ Fault
    /\ UNCHANGED <<rounds, hold, books, risk, gates, queues, exec, at, wal, stops, starts, slips>>

Seen(t) == snap["alpaca"][t] + snap["tradier"][t]

(* Mutant: shares of a ticker without a position are not imported.           *)
ReconciledKnown(t) ==
    LET p == positions[t]
    IN  IF Seen(t) = p.qty \/ p.qty = 0 THEN p
        ELSE IF Seen(t) = 0 THEN NoPos ELSE [p EXCEPT !.qty = Seen(t)]

(* Of a ticker both brokers hold, _broker_qty gets Tradier's share only, so  *)
(* that it never splits.                                                     *)
Reconciled(t) ==
    LET p == positions[t]
        both == \A b \in Brokers : snap[b][t] > 0
        share == [NoSplit EXCEPT !["tradier"] = snap["tradier"][t]]
    IN  CASE Seen(t) = p.qty             -> p
          [] Seen(t) = 0 /\ p.qty # 0 -> NoPos
          [] Seen(t) # 0 /\ p.qty = 0 -> [qty |-> Seen(t), by |-> "other",
                                 tag |-> IF snap["tradier"][t] > 0 THEN "tradier" ELSE "alpaca",
                                 split |-> IF both THEN share ELSE NoSplit]
          [] OTHER           -> [p EXCEPT !.qty = Seen(t), !.split = IF both THEN share ELSE @]

(* A BUY of t is under way.                                                  *)
Buying(t) ==
    \/ exec # Idle /\ exec.o.side = "BUY" /\ exec.o.t = t
    \/ \E i \in DOMAIN reqQ : reqQ[i].side = "BUY" /\ reqQ[i].t = t
    \/ \E i \in DOMAIN fillQ : fillQ[i].side = "BUY" /\ fillQ[i].t = t

(* Phantoms are closed, orphans imported, quantities corrected.              *)
RecApply ==
    LET phantoms == {t \in Tickers : IsOpen(t) /\ Seen(t) = 0}
        fixed    == {t \in Tickers : Reconciled(t) # positions[t]}
    IN  /\ rec = "fetched" /\ rec' = "idle" /\ snap' = Nothing
        /\ positions' = [t \in Tickers |-> Reconciled(t)]
        /\ reclaimed' = reclaimed \cup {t \in fixed : ~IsOpen(t)}
        /\ closedQ' = closedQ \o SetToSeq(phantoms)
        /\ slips' = slips
              \cup (IF \E t \in fixed : Seen(t) # Held(t) \/ \E i \in DOMAIN fillQ : fillQ[i].t = t
                    THEN {"stale"} ELSE {})
              \cup (IF \E t \in fixed : ~IsOpen(t) /\ Buying(t) THEN {"imported"} ELSE {})
        /\ UNCHANGED <<hold, risk, gates, reqQ, fillQ, failQ, exec, at, rounds, wal, extern>>

-----------------------------------------------------------------------------
(* Core dies and starts again                                                *)

(* _import_position: n shares of a ticker at broker b, into the saved record *)
Import(p, b, n) ==
    CASE n = 0                -> p
      [] n # 0 /\ p.qty = 0 -> [NoPos EXCEPT !.qty = n, !.by = "other", !.tag = b]
      [] n # 0 /\ p.qty > 0 /\ p.tag \in {None, b} -> [p EXCEPT !.qty = n, !.tag = b]
      [] OTHER                -> [p EXCEPT
            !.qty = @ + n,
            !.tag = IF n > p.qty THEN b ELSE @,
            !.split = [(IF @ = NoSplit THEN [NoSplit EXCEPT ![p.tag] = p.qty] ELSE @) EXCEPT ![b] = n]]

(* _sync_broker_positions; a fetch that fails counts as no positions.        *)
Synced(p, a, d) == IF a = 0 /\ d = 0 THEN NoPos ELSE Import(Import(p, "alpaca", a), "tradier", d)

(* Shares of another broker than the saved one's are added to all that was    *)
(* saved, and no earlier import has replaced that by what is held: Alpaca's   *)
(* where Tradier is saved (Tradier's then replace the sum), or Tradier's      *)
(* where Alpaca is saved and holds none any more.                            *)
Merges(p, a, d) == \/ p.tag = "tradier" /\ a > 0
                   \/ p.tag = "alpaca" /\ a = 0 /\ d > 0

(* The registry is reset and nothing is acquired for open positions; the     *)
(* router's map is loaded and re-seeded.                                     *)
Restart ==
    /\ starts < MaxStarts /\ starts' = starts + 1
    /\ hold' \in {hold} \cup (IF exec.at = "broker" THEN {Executed(TheLeg.n)} ELSE {})
    /\ \E ok \in SUBSET Brokers :
          LET at0 == [b \in Brokers |-> [t \in Tickers |-> IF b \in ok THEN hold[b][t] ELSE 0]]
          IN  /\ IF ok = Brokers THEN UNCHANGED faults ELSE Fault
              /\ slips' = {"restart"} \cup (IF at0 # hold' THEN {"unseen"} ELSE {})
                         \cup (IF \E t \in Tickers : IsOpen(t)
                                      /\ Merges(positions[t], at0["alpaca"][t], at0["tradier"][t])
                               THEN {"merged"} ELSE {})
              /\ positions' = [t \in Tickers |->
                                 Synced(positions[t], at0["alpaca"][t], at0["tradier"][t])]
              /\ brokerOf' = [t \in Tickers |-> CASE at0["tradier"][t] > 0 -> "tradier"
                                                  [] at0["tradier"][t] <= 0 /\ at0["alpaca"][t] > 0
                                                       -> "alpaca"
                                                  [] OTHER -> brokerOf[t]]
    /\ reclaimed' = reclaimed \cup {t \in Tickers : ~IsOpen(t) /\ positions'[t].qty > 0}
    /\ screened' = [l \in Layers |-> {}] /\ pending' = {} /\ proPos' = {}
    /\ registry' = [t \in Tickers |-> None] /\ acquired' = {} /\ down' = {}
    /\ reqQ' = <<>> /\ fillQ' = <<>> /\ failQ' = <<>> /\ closedQ' = <<>>
    /\ fillAt' = 0 /\ failAt' = 0 /\ closedAt' = 0
    /\ exec' = Idle /\ rec' = "idle" /\ snap' = Nothing /\ recovered' = FALSE
    /\ UNCHANGED <<rounds, open, admitted, nextId, stops>>

(* The recovery of the write-ahead log closes what is incomplete, once per   *)
(* start and after trading has begun (OrderWAL has the detail).              *)
RecoverWal ==
    /\ ~recovered /\ recovered' = TRUE
    /\ open' = [t \in Tickers |-> {}]
    /\ slips' = IF exec # Idle \/ reqQ # <<>> \/ fillQ # <<>> THEN slips \cup {"swept"} ELSE slips
    /\ UNCHANGED <<hold, books, risk, gates, queues, exec, at, recon, admitted, nextId, extern>>

-----------------------------------------------------------------------------
Init ==
    /\ hold = [b \in Brokers |-> [t \in Tickers |-> 0]]
    /\ positions = [t \in Tickers |-> NoPos] /\ reclaimed = {}
    /\ screened = [l \in Layers |-> {}] /\ pending = {} /\ proPos = {}
    /\ registry = [t \in Tickers |-> None] /\ acquired = {}
    /\ brokerOf = [t \in Tickers |-> None] /\ down = {}
    /\ reqQ = <<>> /\ fillQ = <<>> /\ failQ = <<>> /\ closedQ = <<>>
    /\ exec = Idle /\ fillAt = 0 /\ failAt = 0 /\ closedAt = 0
    /\ rec = "idle" /\ snap = Nothing /\ rounds = 0
    /\ Gate!Init /\ nextId = 1 /\ recovered = FALSE
    /\ stops = 0 /\ faults = 0 /\ starts = 1 /\ slips = {}

Signals == \E t \in Tickers :
    \/ ScreenVwap(t) \/ ScreenPro(t) \/ RequestSell(t)
    \/ \E l \in Layers : Place(l, t) \/ TurnDown(l, t)

Orders ==
    \/ reqQ # <<>> /\ (Block(Head(reqQ)) \/ Pass(Head(reqQ)))
    \/ RouteSplit \/ Route \/ RouteNowhere
    \/ (\E n \in 1 .. 2 * Qty : BrokerFills(n)) \/ BrokerFails \/ BrokerRaises

Fills   == FillClear \/ FillBuy \/ FillSell
Fails   == FailClear \/ FailRelease \/ FailPhantom \/ FailPro
Closeds == ClosedRouter \/ ClosedRegistry \/ ClosedPro
Reconcile == RecAlpaca \/ RecTradier \/ RecApply

Next ==
    \/ Signals \/ Orders \/ Fills \/ Fails \/ Closeds \/ Reconcile \/ Restart \/ RecoverWal
    \/ \E b \in Brokers : CooldownEnds(b) \/ \E t \in Tickers : StopFires(b, t)

Spec == Init /\ [][Next]_vars

(* Workers go on while their queues hold events, the main loop reconciles    *)
(* every five minutes, a start runs its recovery.                            *)
FairSpec == /\ Spec
            /\ WF_vars(Orders) /\ WF_vars(Fills) /\ WF_vars(Fails) /\ WF_vars(Closeds)
            /\ WF_vars(Reconcile) /\ WF_vars(RecoverWal)

-----------------------------------------------------------------------------
(* Properties                                                                *)

HoldTyped == hold \in [Brokers -> [Tickers -> Nat]]

BooksTyped == positions \in [Tickers -> Position] /\ reclaimed \subseteq Tickers

RiskTyped ==
    /\ screened \in [Layers -> SUBSET Tickers]
    /\ pending \subseteq Tickers /\ proPos \subseteq Tickers

GatesTyped ==
    /\ registry \in [Tickers -> Layers \cup {None}] /\ acquired \subseteq Tickers
    /\ brokerOf \in [Tickers -> Brokers \cup {None}] /\ down \subseteq Brokers

QueuesTyped ==
    /\ reqQ \in Seq(Order) /\ fillQ \in Seq(Fill) /\ failQ \in Seq(Failure)
    /\ closedQ \in Seq(Tickers)

(* A BUY has one leg, a SELL one per broker at most.                         *)
ExecTyped ==
    \/ exec = Idle
    \/ exec \in [at : {"route"}, o : Order]
    \/ /\ exec \in [at : {"broker"}, o : Order, legs : Seq(LegType)]
       /\ Len(exec.legs) \in 1 .. (IF exec.o.side = "BUY" THEN 1 ELSE 2)

(* A worker between two handlers has its event.                              *)
WorkersTyped ==
    /\ fillAt \in 0 .. 1 /\ failAt \in 0 .. 3 /\ closedAt \in 0 .. 2
    /\ (fillAt > 0 => fillQ # <<>>) /\ (failAt > 0 => failQ # <<>>)
    /\ (closedAt > 0 => closedQ # <<>>)

ReconTyped ==
    /\ rec \in {"idle", "alpaca", "fetched"} /\ snap \in [Brokers -> [Tickers -> Nat]]
    /\ rounds \in 0 .. MaxRounds

WalTyped ==
    /\ open \in [Tickers -> SUBSET Ids] /\ admitted \subseteq Ids
    /\ nextId \in 1 .. MaxOrders + 1 /\ recovered \in BOOLEAN

(* Quantities stay natural numbers however fills, failures and              *)
(* reconciliations interleave, the queues hold well-formed events, and an    *)
(* order is never sent more than the legs it has.                            *)
TypeOK ==
    /\ HoldTyped /\ BooksTyped /\ RiskTyped /\ GatesTyped /\ QueuesTyped /\ ExecTyped
    /\ WorkersTyped /\ ReconTyped /\ WalTyped

(* With no event under way the books agree with the brokers.  What can make  *)
(* them differ is listed, and nothing else does: shares of an order that     *)
(* Core gave up on, a stop at the broker, a second BUY of an open ticker     *)
(* (PositionManager ignores its fill), a "no position" answer while another  *)
(* broker holds shares, a reconciliation that applied what it had fetched    *)
(* before a fill, a start that did not see what a broker held or would hold  *)
(* in a moment, and one that added to a saved position what another broker   *)
(* holds (Merges).  A start mends what went wrong before it.  In particular  *)
(* partial fills, split SELLs, failed and duplicated SELLs, failovers, open  *)
(* breakers and starts with orders on the way do not.                        *)
BooksAgree ==
    Quiet /\ slips \cap {"stray", "stop", "duplicate", "phantom", "stale", "unseen", "merged"} = {}
    => \A t \in Tickers : positions[t].qty = Held(t)

(* An open position keeps its ticker in the registry for its layer, so that  *)
(* the other layer cannot buy it, across four queues that overtake each      *)
(* other - until the late ORDER_FAIL or CLOSED of an earlier order gives the *)
(* slot back, or the registry is reset at a start.                           *)
SlotHeld ==
    \A t \in Tickers :
        IsOpen(t) /\ positions[t].by \in Layers /\ slips \cap {"released", "restart"} = {}
        => registry[t] = positions[t].by

(* No broker executes a BUY of a ticker whose position is open, unless it    *)
(* was placed when the position was open already (the engines look at the    *)
(* positions long before check_and_intent), or the position was imported     *)
(* meanwhile, or the recovery closed the BUY that opened it: the write-ahead *)
(* log keeps the ticker closed from a BUY's INTENT until its FILL is in the  *)
(* books, and across a start.                                                *)
OneOwner ==
    /\ exec.at = "broker" /\ exec.o.side = "BUY"
    /\ slips \cap {"late signal", "swept", "imported"} = {}
    => ~IsOpen(exec.o.t)

(* Whatever went wrong, the books end up agreeing with the brokers for good: *)
(* the periodic reconciliation repairs what stops, duplicates and its own    *)
(* stale rounds have done.                                                   *)
Converges == <>[](\A t \in Tickers : positions[t].qty = Held(t))

(* Claimed by _sync_broker_positions ("Broker is authoritative for: qty"):   *)
(* whatever was saved, a start that saw both brokers has their quantities,   *)
(* those of a ticker both of them hold added up.                             *)
BrokerIsAuthoritative ==
    [][starts' # starts /\ "unseen" \notin slips'
       => \A t \in Tickers : positions'[t].qty = hold'["alpaca"][t] + hold'["tradier"][t]]_vars

(* Claimed by RiskAdapter._on_position ("Only remove if this was a Pro       *)
(* position (not VWAP)"): the CLOSED of a VWAP position does not unmark a    *)
(* Pro BUY of the ticker, so that an open Pro position counts in the limit   *)
(* of Pro positions.                                                         *)
ProMarked ==
    \A t \in Tickers :
        IsOpen(t) /\ positions[t].by = "pro" /\ slips \cap {"stale", "restart"} = {}
        => t \in proPos
==============================================================================
