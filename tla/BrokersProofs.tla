--------------------------- MODULE BrokersProofs ---------------------------
(***************************************************************************)
(* What both brokers guarantee for every size of order, number of attempts   *)
(* and requests, and every number of failing calls: a FILL never reports     *)
(* more than was filled; the account exceeds the books by one BUY at most for *)
(* each failing call; while the calls take effect, the account is never       *)
(* short, and books and account agree.                                       *)
(***************************************************************************)
EXTENDS MCBrokers, SequenceTheorems, FiniteSetTheorems, TLAPS

OrderType == [req : 1 .. MaxRequests, side : {"BUY", "SELL"}, qty : Nat,
              filled : Nat, st : {"live", "filled", "cancelled"},
              bracket : BOOLEAN, stuck : BOOLEAN]

IsOrder(x, at) ==
    /\ x.qty > 0 /\ x.filled <= x.qty /\ (x.st = "filled" <=> x.filled = x.qty)
    /\ x.bracket <=> at = "alpaca" /\ x.side = "BUY"
    /\ x.side = "BUY" => x.qty = Qty

OrdersOK == orders \in Seq(OrderType) /\ \A o \in DOMAIN orders : IsOrder(orders[o], broker)

-----------------------------------------------------------------------------
(* What can happen to the orders                                             *)

LEMMA OrdersTyped ==
    ASSUME OrdersOK
    PROVE  /\ Len(orders) \in Nat /\ DOMAIN orders = 1 .. Len(orders)
           /\ orders \in [1 .. Len(orders) -> OrderType]
           /\ \A o \in DOMAIN orders : orders[o] \in OrderType
BY LenProperties DEF OrdersOK

LEMMA Rebuilt ==
    ASSUME OrdersOK, DOMAIN orders' = DOMAIN orders,
           orders' = [o \in DOMAIN orders |-> orders'[o]],
           \A o \in DOMAIN orders : orders'[o] \in OrderType /\ IsOrder(orders'[o], broker')
    PROVE  OrdersOK' /\ Len(orders') = Len(orders)
<1>1. Len(orders) \in Nat /\ DOMAIN orders = 1 .. Len(orders)
  BY OrdersTyped
<1>2. orders' \in [1 .. Len(orders) -> OrderType]
  BY <1>1
<1>3. orders' \in Seq(OrderType)
  BY <1>1, <1>2, SeqDef
<1>4. Len(orders') = Len(orders)
  BY <1>1, <1>2, <1>3, LenProperties
<1> QED BY <1>3, <1>4 DEF OrdersOK

\* One more order, of which nothing is filled.
Placed(side, n, b) ==
    /\ OrdersOK' /\ Len(orders') = Len(orders) + 1
    /\ DOMAIN orders' = DOMAIN orders \cup {Len(orders) + 1}
    /\ \A o \in DOMAIN orders : orders'[o] = orders[o]
    /\ LET x == orders'[Len(orders) + 1]
       IN  x.side = side /\ x.qty = n /\ x.filled = 0 /\ x.st = "live" /\ ~x.stuck

LEMMA Placing ==
    ASSUME OrdersOK, NEW side \in {"BUY", "SELL"}, NEW n \in Nat \ {0}, NEW b \in BOOLEAN,
           req.id \in 1 .. MaxRequests, b <=> broker = "alpaca" /\ side = "BUY",
           side = "BUY" => n = Qty, broker' = broker, orders' = Append(orders, NewOrder(side, n, b))
    PROVE  Placed(side, n, b)
<1> DEFINE x == NewOrder(side, n, b)
<1>1. x \in OrderType /\ x.side = side /\ x.qty = n /\ x.filled = 0 /\ x.st = "live" /\ ~x.stuck
      /\ x.bracket = b
  BY DEF NewOrder, OrderType
<1>2. /\ Len(orders) \in Nat /\ DOMAIN orders = 1 .. Len(orders) /\ orders \in Seq(OrderType)
  BY OrdersTyped DEF OrdersOK
<1> HIDE DEF x
<1>3. /\ orders' \in Seq(OrderType) /\ Len(orders') = Len(orders) + 1
      /\ DOMAIN orders' = 1 .. (Len(orders) + 1)
      /\ \A o \in DOMAIN orders : orders'[o] = orders[o]
      /\ orders'[Len(orders) + 1] = x
  BY <1>1, <1>2 DEF x
<1>4. DOMAIN orders' = DOMAIN orders \cup {Len(orders) + 1}
  BY <1>2, <1>3
<1>5. \A o \in DOMAIN orders' : IsOrder(orders'[o], broker')
  <2>1. \A o \in DOMAIN orders : IsOrder(orders'[o], broker')
    BY <1>3 DEF OrdersOK, IsOrder
  <2>2. IsOrder(x, broker')
    BY <1>1 DEF IsOrder
  <2> QED BY <1>3, <1>4, <2>1, <2>2
<1> QED BY <1>1, <1>3, <1>4, <1>5 DEF Placed, OrdersOK

\* Live orders among os are over; nothing else changes of any, but what is stuck.
Ended(os) ==
    /\ OrdersOK' /\ Len(orders') = Len(orders) /\ DOMAIN orders' = DOMAIN orders
    /\ \A o \in DOMAIN orders :
          LET x == orders[o]
              y == orders'[o]
          IN  /\ y.side = x.side /\ y.qty = x.qty /\ y.filled = x.filled
              /\ y.st = IF o \in os /\ x.st = "live" THEN "cancelled" ELSE x.st

SameMarks == \A o \in DOMAIN orders : orders'[o].stuck = orders[o].stuck

LEMMA Ending ==
    ASSUME OrdersOK, NEW os, broker' = broker, orders' = Cancelled(os)
    PROVE  Ended(os) /\ SameMarks
<1>1. DOMAIN orders' = DOMAIN orders /\ orders' = [o \in DOMAIN orders |-> orders'[o]]
  BY DEF Cancelled
<1>2. ASSUME NEW o \in DOMAIN orders
      PROVE  LET x == orders[o]
                 y == orders'[o]
             IN  /\ y \in OrderType /\ IsOrder(y, broker') /\ y.stuck = x.stuck
                 /\ y.side = x.side /\ y.qty = x.qty /\ y.filled = x.filled
                 /\ y.st = IF o \in os /\ x.st = "live" THEN "cancelled" ELSE x.st
  <2>1. orders[o] \in OrderType /\ IsOrder(orders[o], broker)
    BY OrdersTyped DEF OrdersOK
  <2>2. orders'[o] = IF o \in os /\ orders[o].st = "live"
                     THEN [orders[o] EXCEPT !.st = "cancelled"] ELSE orders[o]
    BY DEF Cancelled, Live
  <2>3. CASE o \in os /\ orders[o].st = "live"
    <3>1. orders'[o] = [orders[o] EXCEPT !.st = "cancelled"]
      BY <2>2, <2>3
    <3>2. /\ orders'[o] \in OrderType /\ orders'[o].st = "cancelled"
          /\ orders'[o].side = orders[o].side /\ orders'[o].qty = orders[o].qty
          /\ orders'[o].filled = orders[o].filled /\ orders'[o].bracket = orders[o].bracket
          /\ orders'[o].stuck = orders[o].stuck
      BY <2>1, <3>1 DEF OrderType
    <3> QED BY <2>1, <2>3, <3>2 DEF IsOrder
  <2>4. CASE ~(o \in os /\ orders[o].st = "live")
    <3>1. orders'[o] = orders[o]
      BY <2>2, <2>4
    <3> QED BY <2>1, <2>4, <3>1 DEF IsOrder
  <2> QED BY <2>3, <2>4
<1>3. OrdersOK' /\ Len(orders') = Len(orders)
  BY <1>1, <1>2, Rebuilt
<1> QED BY <1>1, <1>2, <1>3 DEF Ended, SameMarks

LEMMA EndingNone ==
    ASSUME OrdersOK, broker' = broker, orders' = orders
    PROVE  Ended({}) /\ SameMarks
BY DEF OrdersOK, IsOrder, Ended, SameMarks

\* n more shares of order o.
Filled(o, n) ==
    /\ OrdersOK' /\ Len(orders') = Len(orders) /\ DOMAIN orders' = DOMAIN orders
    /\ \A u \in DOMAIN orders \ {o} : orders'[u] = orders[u]
    /\ LET x == orders[o]
           y == orders'[o]
       IN  /\ y.side = x.side /\ y.qty = x.qty /\ y.filled = x.filled + n
           /\ y.st = (IF x.filled + n = x.qty THEN "filled" ELSE "live") /\ y.stuck = x.stuck

Moved(x, y, f, s) == y = [x EXCEPT !.filled = f, !.st = s]

LEMMA OrderMoved ==
    ASSUME NEW x \in OrderType, NEW f \in Nat, NEW s \in {"live", "filled", "cancelled"},
           NEW y, Moved(x, y, f, s)
    PROVE  /\ y \in OrderType /\ y.side = x.side /\ y.qty = x.qty /\ y.filled = f
           /\ y.st = s /\ y.stuck = x.stuck /\ y.bracket = x.bracket
BY DEF OrderType, Moved

LEMMA Filling ==
    ASSUME OrdersOK, NEW o \in DOMAIN orders, NEW n \in 1 .. Qty, broker' = broker,
           ExchangeFills(o, n)
    PROVE  Filled(o, n) /\ n <= orders[o].qty - orders[o].filled /\ orders[o].st = "live"
<1>1. orders[o] \in OrderType /\ IsOrder(orders[o], broker) /\ n \in Nat \ {0}
  BY OrdersTyped, BrokerAccountAssumption DEF OrdersOK
<1> DEFINE st == IF orders[o].filled + n = orders[o].qty THEN "filled" ELSE "live"
           y == [orders[o] EXCEPT !.filled = @ + n, !.st = st]
<1>2. /\ orders' = [orders EXCEPT ![o].filled = @ + n, ![o].st = st]
      /\ n <= orders[o].qty - orders[o].filled /\ orders[o].st = "live"
  BY DEF ExchangeFills, Live
<1>3. orders' = [orders EXCEPT ![o] = y]
  BY <1>2
<1>4. DOMAIN orders' = DOMAIN orders /\ orders' = [u \in DOMAIN orders |-> orders'[u]]
  BY <1>3, OrdersTyped
<1>5. orders'[o] = y /\ \A u \in DOMAIN orders \ {o} : orders'[u] = orders[u]
  BY <1>3, OrdersTyped
<1>6. st \in {"live", "filled"}
  OBVIOUS
<1>7. /\ y \in OrderType /\ y.side = orders[o].side /\ y.qty = orders[o].qty
      /\ y.filled = orders[o].filled + n /\ y.st = st /\ y.stuck = orders[o].stuck
      /\ y.bracket = orders[o].bracket
  <2>1. orders[o].filled + n \in Nat
    BY <1>1 DEF OrderType
  <2>2. Moved(orders[o], y, orders[o].filled + n, st)
    BY DEF Moved
  <2> HIDE DEF st, y
  <2> QED BY <1>1, <1>6, <2>1, <2>2, OrderMoved
<1>8. IsOrder(y, broker)
  BY <1>1, <1>2, <1>7 DEF IsOrder, OrderType
<1>9. \A u \in DOMAIN orders : orders'[u] \in OrderType /\ IsOrder(orders'[u], broker')
  BY <1>5, <1>7, <1>8, OrdersTyped DEF OrdersOK
<1> HIDE DEF y
<1> QED BY <1>2, <1>4, <1>5, <1>7, <1>9, Rebuilt DEF Filled

\* A refused cancellation only marks its order.
LEMMA Marking ==
    ASSUME OrdersOK, NEW os, NEW marked, broker' = broker,
           orders' = [o \in DOMAIN orders |->
                        [Cancelled(os)[o] EXCEPT !.stuck = @ \/ o \in marked]]
    PROVE  Ended(os)
<1>1. DOMAIN orders' = DOMAIN orders /\ orders' = [o \in DOMAIN orders |-> orders'[o]]
  OBVIOUS
<1>2. ASSUME NEW o \in DOMAIN orders
      PROVE  LET x == orders[o]
                 y == orders'[o]
             IN  /\ y \in OrderType /\ IsOrder(y, broker')
                 /\ y.side = x.side /\ y.qty = x.qty /\ y.filled = x.filled
                 /\ y.st = IF o \in os /\ x.st = "live" THEN "cancelled" ELSE x.st
  <2> DEFINE st == IF o \in os /\ orders[o].st = "live" THEN "cancelled" ELSE orders[o].st
             z == Cancelled(os)[o]
  <2>1. orders[o] \in OrderType /\ IsOrder(orders[o], broker)
    BY OrdersTyped DEF OrdersOK
  <2>2. z = IF o \in os /\ orders[o].st = "live"
            THEN [orders[o] EXCEPT !.st = "cancelled"] ELSE orders[o]
    BY DEF Cancelled, Live
  <2>3. /\ z \in OrderType /\ z.side = orders[o].side /\ z.qty = orders[o].qty
        /\ z.filled = orders[o].filled /\ z.st = st /\ z.bracket = orders[o].bracket
    <3>1. CASE o \in os /\ orders[o].st = "live"
      <4>1. z = [orders[o] EXCEPT !.st = "cancelled"] /\ st = "cancelled"
        BY <2>2, <3>1
      <4> QED BY <2>1, <4>1 DEF OrderType
    <3>2. CASE ~(o \in os /\ orders[o].st = "live")
      <4>1. z = orders[o] /\ st = orders[o].st
        BY <2>2, <3>2
      <4> QED BY <2>1, <4>1
    <3> QED BY <3>1, <3>2
  <2>4. orders'[o] = [z EXCEPT !.stuck = z.stuck \/ o \in marked]
    OBVIOUS
  <2> HIDE DEF z, st
  <2>5. /\ orders'[o] \in OrderType /\ orders'[o].side = z.side /\ orders'[o].qty = z.qty
        /\ orders'[o].filled = z.filled /\ orders'[o].st = z.st /\ orders'[o].bracket = z.bracket
    <3>1. (z.stuck \/ o \in marked) \in BOOLEAN
      OBVIOUS
    <3> QED BY <2>3, <2>4, <3>1 DEF OrderType
  <2>6. st = IF o \in os /\ orders[o].st = "live" THEN "cancelled" ELSE orders[o].st
    BY DEF st
  <2> QED BY <2>1, <2>3, <2>5, <2>6 DEF IsOrder
<1>3. OrdersOK' /\ Len(orders') = Len(orders)
  BY <1>1, <1>2, Rebuilt
<1> QED BY <1>1, <1>2, <1>3 DEF Ended

\* A request forgets the orders, or none of them.
Forgotten == OrdersOK' /\ \/ orders' = orders
                          \/ orders' = <<>> /\ Len(orders') = 0 /\ DOMAIN orders' = {}

LEMMA Forgetting ==
    ASSUME OrdersOK, broker' = broker,
           orders' = IF \E o \in DOMAIN orders : Live(o) THEN orders ELSE <<>>
    PROVE  Forgotten
<1>1. CASE orders' = orders
  BY <1>1 DEF Forgotten, OrdersOK, IsOrder
<1>2. CASE orders' = <<>>
  <2>1. orders' \in Seq(OrderType) /\ Len(orders') = 0 /\ DOMAIN orders' = {}
    BY <1>2
  <2> QED BY <1>2, <2>1 DEF Forgotten, OrdersOK
<1> QED BY <1>1, <1>2

-----------------------------------------------------------------------------
(* The request being executed                                                *)

\* The steps at which the current order belongs to the request, and those after
\* its filled quantity was read.
BuyOrder  == {"poll", "trim", "recheck", "settle", "restop", "precheck", "cancel", "decide"}
SellOrder == {"sellpoll", "selltrim", "sellrecheck", "verify", "lookup"}
Looked == {"trim", "recheck", "settle", "restop", "selltrim", "sellrecheck"}
          \cup (IF broker = "tradier" THEN {"verify"} ELSE {})

AnswerType == [kind : {"FILL", "FAIL", "RAISED"}, qty : Nat, order : Nat]

Typed ==
    /\ broker \in {"alpaca", "tradier"}
    /\ stop \in Nat /\ stuck \in 0 .. stop /\ (broker = "alpaca" => stuck = 0)
    /\ slips \subseteq {"stopped", "late", "left"}
    /\ position \in Int /\ held \in Int /\ faults \in 0 .. MaxFaults
    /\ pc \in {"idle"} \cup BuySteps \cup SellSteps
    /\ req \in [id : 0 .. MaxRequests, side : {"BUY", "SELL"}, qty : Nat]
    /\ attempt \in 1 .. MaxRetries /\ seen \in Int

Working ==
    /\ pc \in BuySteps => req.side = "BUY" /\ req.qty = Qty
    /\ pc \in SellSteps => req.side = "SELL" /\ req.qty > 0
    /\ pc \in BuyOrder \cup SellOrder => Len(orders) > 0 /\ Order.side = req.side
    /\ pc \in BuyOrder => Order.qty = Qty
    /\ pc = "sell" \/ (pc \in {"size", "clear"} /\ broker = "tradier") => seen > 0
    /\ pc \in Looked => 0 <= seen /\ seen <= Order.filled
    /\ pc # "idle" => req.id > 0

Answered ==
    /\ pc # "idle" => answers = <<>>
    /\ answers = <<>> \/ \E a \in AnswerType :
          /\ answers = <<a>>
          /\ a.kind = "FILL" => a.order \in DOMAIN orders /\ a.qty <= orders[a.order].filled

RequestInv == OrdersOK /\ Typed /\ Working /\ Answered

-----------------------------------------------------------------------------
(* While no call fails, what the account holds covers every stop and every    *)
(* live SELL, and whatever a BUY has filled without a stop besides.           *)

Bought == {"poll", "trim", "recheck", "settle", "restop", "precheck", "cancel"}
Uncovered == IF pc \in Bought /\ ~(broker = "alpaca" /\ Order.st = "filled")
             THEN Order.filled ELSE 0

LiveSell(o) == Live(o) /\ orders[o].side = "SELL"
Rest(o) == orders[o].qty - orders[o].filled

Covered ==
    /\ position - stop >= Uncovered
    /\ \A o \in DOMAIN orders : LiveSell(o) => position - stop - Uncovered >= Rest(o)

Calm ==
    /\ stuck = 0 /\ \A o \in DOMAIN orders : ~orders[o].stuck
    /\ \A o, u \in DOMAIN orders : LiveSell(o) /\ LiveSell(u) => o = u
    /\ \A o \in DOMAIN orders : Live(o) /\ orders[o].side = "BUY" =>
          o = Cur /\ pc \in {"poll", "trim", "precheck", "cancel"}
    /\ pc \in {"recheck", "settle", "restop", "sellrecheck"} => Order.st # "live"
    /\ pc \in {"settle", "restop"} => seen = Order.filled
    /\ pc = "verify" /\ broker = "tradier" => Order.st # "live" /\ seen = Order.filled
    /\ pc = "sell" \/ (pc = "size" /\ broker = "alpaca") =>
          stop = 0 /\ \A o \in DOMAIN orders : ~LiveSell(o)
    /\ pc = "sell" /\ broker = "alpaca" => seen <= position
    /\ pc # "lookup"

CoverInv == faults = 0 => Covered /\ Calm

-----------------------------------------------------------------------------
(* And as long as nothing has slipped, the books are the account.            *)

Pending == IF pc \in Bought THEN Order.filled
           ELSE IF pc \in SellOrder THEN 0 - Order.filled ELSE 0

BooksInv == faults = 0 /\ slips = {} =>
    /\ position = held + Pending
    /\ \A o \in DOMAIN orders : Live(o) =>
          o = Cur /\ pc \in {"poll", "trim", "precheck", "cancel", "sellpoll", "selltrim", "verify"}
    /\ pc \in Bought /\ broker = "alpaca" /\ held = 0 /\ Order.st = "filled" => stop = Order.qty
    /\ \A i \in DOMAIN answers :
          pc = "idle" /\ answers[i].kind = "FILL" /\ req.side = "BUY" /\ answers[i].qty = held
             => stop = held

-----------------------------------------------------------------------------
(* However many calls fail, each makes the account exceed the books by one    *)
(* BUY at most: the shares that the account holds and no FILL reports, those   *)
(* that live BUYs nobody waits for may still buy, and the order at risk.      *)

Stray(o) == Live(o) /\ orders[o].side = "BUY" /\ ~(o = Cur /\ pc \in Bought)
Loose == {p \in (DOMAIN orders) \X (1 .. Qty) : Stray(p[1]) /\ p[2] <= Rest(p[1])}

\* A trimmed order that may not be over, or whose FILL may report too little.
Unsure == \/ pc \in {"recheck", "settle", "restop"} /\ Order.st = "live"
          \/ pc \in {"settle", "restop"} /\ seen # Order.filled
Gap == position - held - Pending
Exposed == IF Unsure THEN Gap + Qty ELSE Gap

OwedInv == slips = {} => Exposed + Cardinality(Loose) <= faults * Qty

BrokersInv == RequestInv /\ CoverInv /\ BooksInv /\ OwedInv

-----------------------------------------------------------------------------
(* The two brokers speak of the account in the words of BrokerAccount.       *)

LEMMA AlpacaWords ==
    /\ Alpaca!Cur = Cur /\ Alpaca!Order = Order /\ (Alpaca!Partial <=> Partial)
    /\ \A o : Alpaca!Live(o) <=> Live(o)
    /\ \A side, n, b : Alpaca!NewOrder(side, n, b) = NewOrder(side, n, b)
    /\ \A side, n : Alpaca!Accept(side, n) = Append(orders, NewOrder(side, n, FALSE))
    /\ \A os : Alpaca!Cancelled(os) = Cancelled(os)
    /\ \A kind, n : Alpaca!Answer(kind, n) <=> Answer(kind, n)
    /\ \A n : Alpaca!Emit(n) <=> Answer("FILL", n)
    /\ Alpaca!Fail <=> Answer("FAIL", 0)
    /\ \A step : Alpaca!Goto(step) <=> Goto(step)
    /\ \A kind, h : Alpaca!Slip(kind, h) <=> Slip(kind, h)
    /\ \A side, n, step : Alpaca!Request(side, n, step) <=> Request(side, n, step)
    /\ Alpaca!ExchangeNext <=> ExchangeNext
<1> USE DEF Alpaca!Cur, Alpaca!Order, Alpaca!Partial, Alpaca!Live, Alpaca!NewOrder,
            Alpaca!Accept, Alpaca!Cancelled, Alpaca!Answer, Alpaca!Emit, Alpaca!Fail,
            Alpaca!Goto, Alpaca!Slip, Alpaca!Request, Alpaca!ExchangeNext,
            Alpaca!ExchangeFills, Alpaca!StopFires, Alpaca!client,
            Cur, Order, Partial, Live, NewOrder, Cancelled, Answer, Goto, Slip, Request,
            ExchangeNext, ExchangeFills, StopFires, client
<1> QED OBVIOUS

LEMMA TradierWords ==
    /\ Tradier!Cur = Cur /\ Tradier!Order = Order /\ (Tradier!Partial <=> Partial)
    /\ \A o : Tradier!Live(o) <=> Live(o)
    /\ \A side, n, b : Tradier!NewOrder(side, n, b) = NewOrder(side, n, b)
    /\ \A side, n : Tradier!Accept(side, n) = Append(orders, NewOrder(side, n, FALSE))
    /\ \A os : Tradier!Cancelled(os) = Cancelled(os)
    /\ \A kind, n : Tradier!Answer(kind, n) <=> Answer(kind, n)
    /\ \A n : Tradier!Emit(n) <=> Answer("FILL", n)
    /\ Tradier!Fail <=> Answer("FAIL", 0)
    /\ \A step : Tradier!Goto(step) <=> Goto(step)
    /\ \A kind, h : Tradier!Slip(kind, h) <=> Slip(kind, h)
    /\ \A side, n, step : Tradier!Request(side, n, step) <=> Request(side, n, step)
    /\ Tradier!ExchangeNext <=> ExchangeNext
<1> USE DEF Tradier!Cur, Tradier!Order, Tradier!Partial, Tradier!Live, Tradier!NewOrder,
            Tradier!Accept, Tradier!Cancelled, Tradier!Answer, Tradier!Emit, Tradier!Fail,
            Tradier!Goto, Tradier!Slip, Tradier!Request, Tradier!ExchangeNext,
            Tradier!ExchangeFills, Tradier!StopFires, Tradier!client,
            Cur, Order, Partial, Live, NewOrder, Cancelled, Answer, Goto, Slip, Request,
            ExchangeNext, ExchangeFills, StopFires, client
<1> QED OBVIOUS

LEMMA Answering ==
    ASSUME RequestInv, pc # "idle", NEW kind \in {"FILL", "FAIL", "RAISED"}, NEW n \in Nat,
           Answer(kind, n), OrdersOK', DOMAIN orders' = DOMAIN orders \/ kind # "FILL",
           kind = "FILL" => Len(orders) > 0 /\ n <= orders'[Len(orders)].filled
    PROVE  /\ Answered' /\ pc' = "idle"
           /\ answers' = <<[kind |-> kind, qty |-> n, order |-> Len(orders)]>>
           /\ held' \in Int
           /\ held' = IF kind # "FILL" THEN held
                      ELSE IF req.side = "BUY" THEN held + n ELSE held - n
<1> DEFINE a == [kind |-> kind, qty |-> n, order |-> Len(orders)]
<1>1. /\ answers = <<>> /\ Len(orders) \in Nat /\ DOMAIN orders = 1 .. Len(orders)
      /\ req.side \in {"BUY", "SELL"} /\ held \in Int
  BY OrdersTyped DEF RequestInv, Answered, Typed
<1>2. a \in AnswerType
  BY <1>1 DEF AnswerType
<1>3. answers' = Append(answers, a) /\ pc' = "idle"
  BY DEF Answer, Cur
<1>4. answers' = <<a>>
  BY <1>1, <1>3
<1>5. kind = "FILL" => a.order \in DOMAIN orders' /\ a.qty <= orders'[a.order].filled
  BY <1>1
<1>6. Answered'
  BY <1>2, <1>3, <1>4, <1>5 DEF Answered
<1>7. held' = IF kind # "FILL" THEN held
              ELSE IF req.side = "BUY" THEN held + n ELSE held - n
  BY <1>1 DEF Answer
<1> QED BY <1>1, <1>3, <1>4, <1>6, <1>7

\* A step that answers nothing.
LEMMA Unanswered ==
    ASSUME RequestInv, pc # "idle", answers' = answers
    PROVE  Answered' /\ answers' = <<>>
BY DEF RequestInv, Answered

USE DEF BuySteps, SellSteps, BuyOrder, SellOrder, Bought, Cur, Order

\* What every step below starts from.
Known ==
    /\ OrdersOK /\ Typed /\ Working /\ Answered /\ RequestInv /\ CoverInv /\ BooksInv /\ OwedInv
    /\ Len(orders) \in Nat /\ DOMAIN orders = 1 .. Len(orders)
    /\ \A o \in DOMAIN orders : orders[o] \in OrderType /\ IsOrder(orders[o], broker)
    /\ pc \in BuyOrder \cup SellOrder => Len(orders) \in DOMAIN orders
    /\ broker' = broker

LEMMA Knows == ASSUME BrokersInv, broker' = broker PROVE Known
BY OrdersTyped DEF BrokersInv, RequestInv, Working, OrdersOK, Known

\* What a slip leaves behind.
LEMMA Slipping ==
    ASSUME Known, NEW kind \in {"stopped", "late", "left"}, NEW h, Slip(kind, h)
    PROVE  /\ slips' \subseteq {"stopped", "late", "left"}
           /\ slips' = {} => slips = {} /\ ~h
<1>1. slips \subseteq {"stopped", "late", "left"}
  BY DEF Known, Typed
<1>2. CASE h
  BY <1>1, <1>2 DEF Slip
<1>3. CASE ~h
  BY <1>1, <1>3 DEF Slip
<1> QED BY <1>2, <1>3

\* What is to be shown of one.
Keeps == Typed' /\ Working' /\ Answered' /\ OrdersOK' /\ CoverInv' /\ BooksInv' /\ OwedInv'

LEMMA OrdersSame == ASSUME Known, orders' = orders PROVE OrdersOK' /\ Order' = Order
BY DEF Known, OrdersOK

\* A call that fails ends what is promised for the case that none does.
LEMMA Failing == ASSUME Known, faults' = faults + 1 PROVE CoverInv' /\ BooksInv'
BY DEF Known, Typed, CoverInv, BooksInv

\* r more shares of order c may be bought without anyone waiting for them, and
\* a failing call pays for them.
StraysFrom(c, r) ==
    \A o \in DOMAIN orders' : Stray(o)' =>
        \/ o \in DOMAIN orders /\ Stray(o) /\ Rest(o)' = Rest(o)
        \/ o = c /\ Rest(o)' <= r

Spends(r) == \/ faults' = faults /\ Exposed' + r <= Exposed
             \/ faults' = faults + 1 /\ Exposed' + r <= Exposed + Qty

LEMMA BlockSize ==
    ASSUME NEW c, NEW a \in Int, NEW b \in Int, a <= b + 1
    PROVE  IsFiniteSet({c} \X (a .. b)) /\ Cardinality({c} \X (a .. b)) = b - a + 1
<1>1. IsFiniteSet({c}) /\ Cardinality({c}) = 1
  BY FS_Singleton
<1>2. IsFiniteSet(a .. b) /\ Cardinality(a .. b) = b - a + 1
  BY FS_Interval
<1>3. /\ IsFiniteSet({c} \X (a .. b))
      /\ Cardinality({c} \X (a .. b)) = Cardinality({c}) * Cardinality(a .. b)
  BY <1>1, <1>2, FS_Product
<1> QED BY <1>1, <1>2, <1>3

LEMMA LooseFinite == OrdersOK => IsFiniteSet(Loose) /\ Cardinality(Loose) \in Nat
<1> SUFFICES ASSUME OrdersOK PROVE IsFiniteSet(Loose) /\ Cardinality(Loose) \in Nat
  OBVIOUS
<1>1. IsFiniteSet(DOMAIN orders) /\ IsFiniteSet(1 .. Qty)
  <2>1. DOMAIN orders = 1 .. Len(orders) /\ Len(orders) \in Int /\ Qty \in Int
    BY OrdersTyped, BrokerAccountAssumption
  <2> QED BY <2>1, FS_Interval
<1>2. IsFiniteSet((DOMAIN orders) \X (1 .. Qty))
  BY <1>1, FS_Product
<1>3. Loose \in SUBSET ((DOMAIN orders) \X (1 .. Qty))
  BY DEF Loose
<1> QED BY <1>2, <1>3, FS_Subset, FS_CardinalityType

LEMMA GapInt == OrdersOK /\ Typed /\ Working => Gap \in Int
<1> SUFFICES ASSUME OrdersOK, Typed, Working PROVE Gap \in Int
  OBVIOUS
<1>1. pc \in Bought \cup SellOrder => Order.filled \in Nat
  BY OrdersTyped DEF Working, OrderType
<1>2. Pending \in Int
  BY <1>1 DEF Pending
<1> QED BY <1>2 DEF Gap, Typed

LEMMA ExposedInt == OrdersOK /\ Typed /\ Working => Exposed \in Int
BY GapInt, BrokerAccountAssumption DEF Exposed

LEMMA Owing ==
    ASSUME Known, OrdersOK', Typed', Working', NEW c, NEW r \in Nat,
           slips' = {} => slips = {} /\ StraysFrom(c, r) /\ Spends(r)
    PROVE  OwedInv'
<1> SUFFICES ASSUME slips' = {} PROVE Exposed' + Cardinality(Loose)' <= faults' * Qty
  BY DEF OwedInv
<1>1. /\ StraysFrom(c, r) /\ Spends(r) /\ Exposed + Cardinality(Loose) <= faults * Qty
  BY DEF Known, OwedInv
<1>2. /\ IsFiniteSet(Loose) /\ Cardinality(Loose) \in Nat /\ Exposed \in Int
  BY LooseFinite, ExposedInt DEF Known
<1>3. IsFiniteSet(Loose)' /\ Cardinality(Loose)' \in Nat
  <2>1. (OrdersOK => IsFiniteSet(Loose) /\ Cardinality(Loose) \in Nat)'
    BY LooseFinite, PTL
  <2> QED BY <2>1
<1>4. Exposed' \in Int
  <2>1. (OrdersOK /\ Typed /\ Working => Exposed \in Int)'
    BY ExposedInt, PTL
  <2> QED BY <2>1
<1> DEFINE B == {c} \X (1 .. r)
<1>5. Loose' \subseteq Loose \cup B
  <2> SUFFICES ASSUME NEW p \in Loose' PROVE p \in Loose \cup B
    OBVIOUS
  <2>1. /\ p \in (DOMAIN orders') \X (1 .. Qty) /\ Stray(p[1])' /\ p[2] <= Rest(p[1])'
    BY DEF Loose
  <2>2. p = <<p[1], p[2]>> /\ p[1] \in DOMAIN orders' /\ p[2] \in 1 .. Qty
    BY <2>1
  <2>3. CASE p[1] \in DOMAIN orders /\ Stray(p[1]) /\ Rest(p[1])' = Rest(p[1])
    BY <2>1, <2>2, <2>3 DEF Loose
  <2>4. CASE p[1] = c /\ Rest(p[1])' <= r
    <3>1. Rest(p[1])' \in Int
      <4>1. \A o \in DOMAIN orders' : orders'[o].qty \in Nat /\ orders'[o].filled \in Nat
        <5>1. \A o \in DOMAIN orders' : orders'[o] \in OrderType
          BY LenProperties DEF OrdersOK
        <5> QED BY <5>1 DEF OrderType
      <4> QED BY <2>2, <4>1 DEF Rest
    <3>2. p[2] \in 1 .. r
      BY <2>1, <2>2, <2>4, <3>1, BrokerAccountAssumption
    <3> QED BY <2>2, <2>4, <3>2
  <2> QED BY <1>1, <2>1, <2>2, <2>3, <2>4 DEF StraysFrom
<1>6. IsFiniteSet(B) /\ Cardinality(B) = r
  <2>1. 1 \in Int /\ r \in Int /\ 1 <= r + 1 /\ r - 1 + 1 = r
    OBVIOUS
  <2>2. IsFiniteSet({c} \X (1 .. r)) /\ Cardinality({c} \X (1 .. r)) = r - 1 + 1
    BY <2>1, BlockSize
  <2> QED BY <2>1, <2>2
<1> HIDE DEF B
<1>7. IsFiniteSet(Loose \cup B) /\ Cardinality(Loose \cup B) <= Cardinality(Loose) + r
  <2>1. Cardinality(Loose \cap B) \in Nat
    BY <1>2, FS_Intersection, FS_CardinalityType
  <2> QED BY <1>2, <1>6, <2>1, FS_Union
<1>8. Cardinality(Loose)' <= Cardinality(Loose) + r
  <2>1. Cardinality(Loose') <= Cardinality(Loose \cup B)
    BY <1>5, <1>7, FS_Subset
  <2> QED BY <1>2, <1>3, <1>6, <1>7, <2>1, FS_CardinalityType
<1>9. PICK e \in Int, f \in Int, a \in Int, b \in Int, m \in Int, q \in Int :
         /\ e = Exposed /\ f = Exposed' /\ a = Cardinality(Loose) /\ b = Cardinality(Loose)'
         /\ m = faults * Qty /\ q = Qty
  <2>1. faults * Qty \in Int /\ Qty \in Int
    BY BrokerAccountAssumption DEF Known, Typed
  <2> QED BY <1>2, <1>3, <1>4, <2>1
<1>10. e + a <= m /\ b <= a + r
  BY <1>1, <1>8, <1>9
<1>11. CASE faults' = faults /\ Exposed' + r <= Exposed
  <2>1. faults' * Qty = m /\ f + r <= e
    BY <1>9, <1>11
  <2>2. f + b <= m
    BY <1>10, <2>1
  <2> QED BY <1>9, <2>1, <2>2
<1>12. CASE faults' = faults + 1 /\ Exposed' + r <= Exposed + Qty
  <2>1. faults' * Qty = m + q
    BY <1>9, <1>12, BrokerAccountAssumption DEF Known, Typed
  <2>2. f + r <= e + q
    BY <1>9, <1>12
  <2>3. f + b <= m + q
    BY <1>10, <2>2
  <2> QED BY <1>9, <2>1, <2>3
<1> QED BY <1>1, <1>11, <1>12 DEF Spends

\* No share goes astray.
LEMMA Quiet ==
    ASSUME Known, OrdersOK', Typed', Working', faults' = faults \/ faults' = faults + 1,
           slips' = {} => /\ slips = {} /\ StraysFrom(0, 0) /\ (Gap' = Gap \/ Gap' <= Gap)
                          /\ Unsure' => Unsure \/ faults' = faults + 1
    PROVE  OwedInv'
<1>1. PICK g \in Int, h \in Int, q \in Nat : g = Gap /\ h = Gap' /\ q = Qty
  <2>1. (OrdersOK /\ Typed /\ Working => Gap \in Int)'
    BY GapInt, PTL
  <2> QED BY <2>1, GapInt, BrokerAccountAssumption DEF Known
<1>2. ASSUME slips' = {} PROVE Spends(0)
  <2> DEFINE e == IF Unsure THEN g + q ELSE g
             f == IF Unsure' THEN h + q ELSE h
  <2>1. e = Exposed /\ f = Exposed'
    BY <1>1 DEF Exposed
  <2>2. h <= g
    BY <1>1, <1>2
  <2>3. CASE faults' = faults + 1
    <3>1. f + 0 <= e + q
      BY <2>1, <2>2
    <3>2. Exposed' + 0 <= Exposed + Qty
      BY <1>1, <2>1, <3>1
    <3> QED BY <2>3, <3>2 DEF Spends
  <2>4. CASE faults' = faults /\ faults' # faults + 1
    <3>1. f + 0 <= e
      BY <1>2, <2>1, <2>2, <2>4
    <3>2. Exposed' + 0 <= Exposed
      BY <2>1, <3>1
    <3> QED BY <2>4, <3>2 DEF Spends
  <2> QED BY <2>3, <2>4
<1> QED BY <1>2, Owing

\* The answer of a SELL reports no more than it has sold.
LEMMA SellAnswered ==
    ASSUME Known, OrdersOK', Typed', Working', faults' = faults \/ faults' = faults + 1,
           pc \in SellOrder, pc' = "idle", orders' = orders, position' = position,
           NEW n \in Nat, n <= Order.filled, held' = held - n, slips' = {} => slips = {}
    PROVE  OwedInv'
<1>1. Len(orders) \in DOMAIN orders
  BY DEF Known
<1>2. PICK m \in Nat : m = Order.filled
  BY <1>1 DEF Known, OrderType
<1>3. /\ held \in Int /\ position \in Int
  BY DEF Known, Typed
<1>4. Gap = position - held - (0 - m) /\ Gap' = position - (held - n) - 0
  BY <1>2 DEF Gap, Pending
<1>5. Gap' <= Gap
  <2>1. n <= m
    BY <1>2
  <2>2. position - (held - n) - 0 <= position - held - (0 - m)
    BY <1>3, <2>1
  <2> QED BY <1>4, <2>2
<1>6. StraysFrom(0, 0) /\ ~Unsure'
  BY DEF StraysFrom, Stray, Live, Rest, Unsure
<1> QED BY <1>5, <1>6, Quiet

\* A failing call leaves order c to itself.
LEMMA Abandoning ==
    ASSUME Known, OrdersOK', Typed', Working', NEW c, faults' = faults + 1,
           slips' = {} => /\ slips = {} /\ StraysFrom(c, Qty) /\ Gap' <= Gap /\ ~Unsure'
    PROVE  OwedInv'
<1>1. PICK g \in Int, h \in Int, q \in Nat : g = Gap /\ h = Gap' /\ q = Qty
  <2>1. (OrdersOK /\ Typed /\ Working => Gap \in Int)'
    BY GapInt, PTL
  <2> QED BY <2>1, GapInt, BrokerAccountAssumption DEF Known
<1>2. ASSUME slips' = {} PROVE Spends(Qty)
  <2>1. PICK e \in Int, f \in Int :
           /\ e = Exposed /\ f = Exposed'
           /\ e = (IF Unsure THEN g + q ELSE g) /\ f = h
    BY <1>1, <1>2 DEF Exposed
  <2>2. h <= g
    BY <1>1, <1>2
  <2>3. f + q <= e + q
    BY <2>1, <2>2
  <2>4. Exposed' + Qty <= Exposed + Qty
    BY <1>1, <2>1, <2>3
  <2> QED BY <2>4 DEF Spends
<1> QED BY <1>1, <1>2, Owing

\* The cancellation of a BUY that nobody waits for any longer.
LEMMA LettingGo ==
    ASSUME Known, OrdersOK', Typed', Working', pc = "cancel", pc' \in {"decide", "submit", "idle"},
           Slip("late", Order.filled > 0), NEW os, Ended(os), held' = held, position' = position,
           (faults' = faults /\ os = {Len(orders)}) \/ faults' = faults + 1
    PROVE  OwedInv'
<1> SUFFICES ASSUME slips' = {} PROVE OwedInv'
  BY DEF OwedInv
<1>1. /\ Len(orders) \in DOMAIN orders /\ Order \in OrderType /\ Order.qty = Qty
      /\ Order.filled \in Nat /\ Qty \in Nat
  BY BrokerAccountAssumption DEF Known, Working, OrderType
<1>2. slips = {} /\ ~(Order.filled > 0)
  BY Slipping
<1>3. Order.filled = 0
  BY <1>1, <1>2
<1>4. Gap' = Gap /\ ~Unsure'
  <2>1. Pending = 0 /\ Pending' = 0
    BY <1>3 DEF Pending
  <2> QED BY <2>1 DEF Gap, Unsure
<1>5. CASE faults' = faults /\ os = {Len(orders)}
  <2>1. StraysFrom(0, 0)
    BY <1>5 DEF StraysFrom, Stray, Live, Rest, Ended
  <2> QED BY <1>2, <1>4, <1>5, <2>1, Quiet
<1>6. CASE faults' = faults + 1
  <2>1. StraysFrom(Len(orders), Qty)
    BY <1>1, <1>3 DEF StraysFrom, Stray, Live, Rest, Ended
  <2>2. Gap' <= Gap
    BY <1>4, GapInt DEF Known
  <2> QED BY <1>2, <1>4, <1>6, <2>1, <2>2, Abandoning
<1> QED BY <1>5, <1>6

\* The FILL of a BUY reports what was seen of it.
LEMMA Reporting ==
    ASSUME Known, OrdersOK', Typed', Working', faults' = faults \/ faults' = faults + 1,
           pc = "restop", pc' = "idle", NEW os, Ended(os), seen \in Nat, seen <= Order.filled,
           held' = held + seen, position' = position, slips' = slips
    PROVE  OwedInv'
<1>1. /\ Len(orders) \in DOMAIN orders /\ Order \in OrderType /\ Order.qty = Qty
      /\ Order.filled <= Order.qty /\ Order.filled \in Nat /\ Qty \in Nat
      /\ held \in Int /\ position \in Int
  BY BrokerAccountAssumption DEF Known, Typed, Working, IsOrder, OrderType
<1>2. ~Unsure' /\ Gap' = position - held - seen /\ Gap = position - held - Order.filled
  BY <1>1 DEF Unsure, Gap, Pending
<1>3. CASE Unsure
  <2> DEFINE r == Qty - Order.filled
  <2>1. StraysFrom(Len(orders), r)
    BY <1>1 DEF StraysFrom, Stray, Live, Rest, Ended
  <2> DEFINE e == position - held - Order.filled + Qty
             f == position - held - seen
  <2>2. Exposed' = f /\ Exposed = e /\ f + r <= e /\ f + r <= e + Qty
    <3>1. Exposed' = f /\ Exposed = e
      BY <1>1, <1>2, <1>3 DEF Exposed
    <3>2. PICK n \in Nat, q \in Nat : n = Order.filled /\ q = Qty
      BY <1>1
    <3>3. f + r <= e /\ f + r <= e + Qty
      BY <1>1, <3>2
    <3> QED BY <3>1, <3>3
  <2>3. Exposed' + r <= Exposed /\ Exposed' + r <= Exposed + Qty
    BY <2>2
  <2>4. r \in Nat
    BY <1>1
  <2> HIDE DEF r
  <2> QED BY <2>1, <2>2, <2>3, <2>4, Owing DEF Spends
<1>4. CASE ~Unsure
  <2>1. StraysFrom(0, 0) /\ Gap' = Gap
    BY <1>1, <1>2, <1>4 DEF StraysFrom, Stray, Live, Rest, Ended, Unsure
  <2>2. Gap \in Int
    BY GapInt DEF Known
  <2> QED BY <1>2, <2>1, <2>2, Quiet
<1> QED BY <1>3, <1>4

-----------------------------------------------------------------------------
(* AlpacaBroker                                                              *)

LEMMA AlpacaPolls ==
    ASSUME Known, broker = "alpaca", Alpaca!BuyPollHit
    PROVE  Keeps
<1>1. /\ pc = "poll" /\ (Partial \/ Order.st = "filled") /\ seen' = Order.filled
      /\ pc' = (IF Partial THEN "trim" ELSE "settle")
      /\ UNCHANGED <<answers, held, orders, stop, stuck, position, req, attempt, faults, slips>>
  BY AlpacaWords DEF Alpaca!BuyPollHit, Goto, Alpaca!exchange
<1>2. OrdersOK' /\ Order' = Order /\ Answered' /\ answers' = <<>>
  BY <1>1, OrdersSame, Unanswered DEF Known
<1>3. Typed' /\ Working'
  BY <1>1, <1>2 DEF Known, Typed, Working, Looked, OrderType
<1>4. CoverInv'
  BY <1>1, <1>2 DEF Known, CoverInv, Covered, Calm, Uncovered, LiveSell, Rest, Live, Partial
<1>5. BooksInv'
  BY <1>1, <1>2 DEF Known, BooksInv, Pending, Live, Partial
<1>6. OwedInv'
  <2>1. StraysFrom(0, 0) /\ Gap' = Gap /\ (Unsure' => Unsure)
    BY <1>1, <1>2 DEF Known, StraysFrom, Stray, Live, Rest, Unsure, Gap, Pending, Partial
  <2> QED BY <1>1, <1>2, <1>3, <2>1, Quiet
<1> QED BY <1>2, <1>3, <1>4, <1>5, <1>6 DEF Keeps

LEMMA AlpacaGoesOn ==
    ASSUME Known, broker = "alpaca",
           Alpaca!BuyPollEnds \/ Alpaca!BuyRetry \/ (Alpaca!BuyPrecheck /\ pc' # "idle")
    PROVE  Keeps
<1>1. /\ \/ pc = "poll" /\ pc' = "precheck" /\ attempt' = attempt
         \/ pc = "precheck" /\ pc' = "cancel" /\ attempt' = attempt
         \/ pc = "decide" /\ pc' = "submit" /\ attempt < MaxRetries /\ attempt' = attempt + 1
      /\ UNCHANGED <<answers, held, orders, stop, stuck, position, req, seen, faults, slips>>
  BY AlpacaWords DEF Alpaca!BuyPollEnds, Alpaca!BuyRetry, Alpaca!BuyPrecheck, Goto, Answer,
                     Alpaca!exchange, Alpaca!client
<1>2. OrdersOK' /\ Order' = Order /\ Answered' /\ answers' = <<>>
  BY <1>1, OrdersSame, Unanswered DEF Known
<1>3. Typed' /\ Working'
  BY <1>1, <1>2, BrokerAccountAssumption DEF Known, Typed, Working, Looked
<1>4. CoverInv'
  BY <1>1, <1>2 DEF Known, CoverInv, Covered, Calm, Uncovered, LiveSell, Rest, Live
<1>5. BooksInv'
  BY <1>1, <1>2 DEF Known, BooksInv, Pending, Live
<1>6. OwedInv'
  <2>1. StraysFrom(0, 0) /\ Gap' = Gap /\ (Unsure' => Unsure)
    BY <1>1, <1>2 DEF Known, StraysFrom, Stray, Live, Rest, Unsure, Gap, Pending
  <2> QED BY <1>1, <1>2, <1>3, <2>1, Quiet
<1> QED BY <1>2, <1>3, <1>4, <1>5, <1>6 DEF Keeps

LEMMA AlpacaCancels ==
    ASSUME Known, broker = "alpaca", Alpaca!BuyTrim \/ Alpaca!BuyCancel
    PROVE  Keeps
<1>1. /\ \/ pc = "trim" /\ pc' = "recheck" /\ slips' = slips
         \/ /\ pc = "cancel" /\ pc' = "decide"
            /\ Slip("late", Order.filled > 0)
      /\ \/ faults' = faults /\ orders' = Cancelled({Len(orders)})
         \/ faults < MaxFaults /\ faults' = faults + 1 /\ orders' = orders
      /\ UNCHANGED <<answers, held, stop, stuck, position, req, attempt, seen>>
  BY AlpacaWords DEF Alpaca!BuyTrim, Alpaca!BuyCancel, Alpaca!CancelStep, Goto,
                     Alpaca!NoSlip, Alpaca!Works, Alpaca!Fails, Alpaca!client
<1>2. PICK os : Ended(os) /\ SameMarks /\ (faults' = faults => os = {Len(orders)})
  <2>1. CASE faults' = faults /\ orders' = Cancelled({Len(orders)})
    BY <2>1, Ending DEF Known
  <2>2. CASE faults' = faults + 1 /\ orders' = orders
    <3>1. Ended({}) /\ SameMarks
      BY <2>2, EndingNone DEF Known
    <3>2. faults' # faults
      BY <2>2 DEF Known, Typed
    <3> QED BY <3>1, <3>2
  <2> QED BY <1>1, <2>1, <2>2
<1>3. OrdersOK' /\ Answered' /\ answers' = <<>>
  BY <1>1, <1>2, Unanswered DEF Known, Ended
<1>4. Typed'
  <2>1. slips' \subseteq {"stopped", "late", "left"}
    BY <1>1, Slipping DEF Known, Typed
  <2>2. faults' \in 0 .. MaxFaults /\ pc' \in {"idle"} \cup BuySteps
    BY <1>1, BrokerAccountAssumption DEF Known, Typed
  <2> QED BY <1>1, <2>1, <2>2 DEF Known, Typed
<1>5. /\ Len(orders') = Len(orders) /\ Len(orders) \in DOMAIN orders /\ Order \in OrderType
      /\ Order'.side = Order.side /\ Order'.qty = Order.qty /\ Order'.filled = Order.filled
      /\ Order'.st = IF Len(orders) \in os /\ Order.st = "live" THEN "cancelled" ELSE Order.st
  BY <1>1, <1>2 DEF Known, Ended
<1>6. Working'
  BY <1>1, <1>5 DEF Known, Typed, Working, Looked
<1>7. OwedInv'
  <2>1. CASE pc = "trim" /\ pc' = "recheck" /\ slips' = slips
    <3>1. StraysFrom(0, 0) /\ Gap' = Gap /\ (Unsure' => faults' = faults + 1)
      BY <1>1, <1>2, <1>3, <1>5, <2>1 DEF Known, StraysFrom, Stray, Live, Rest, Unsure, Gap, Pending, Ended
    <3> QED BY <1>1, <1>3, <1>4, <1>6, <2>1, <3>1, Quiet
  <2>2. CASE pc = "cancel" /\ pc' = "decide" /\ Slip("late", Order.filled > 0)
    BY <1>1, <1>2, <1>3, <1>4, <1>6, <2>2, LettingGo
  <2> QED BY <1>1, <2>1, <2>2
<1>8. CASE faults' = faults
  <2>1. ASSUME faults = 0 PROVE Covered' /\ Calm'
    <3>1. Covered /\ Calm /\ os = {Len(orders)} /\ position \in Int /\ stop \in Int
      BY <1>2, <1>8, <2>1 DEF Known, CoverInv, Typed
    <3>2. Uncovered' <= Uncovered
      BY <1>1, <1>5, <3>1 DEF Known, Uncovered, OrderType
    <3>3. Covered'
      BY <1>1, <1>2, <1>5, <3>1, <3>2 DEF Known, Covered, LiveSell, Rest, Live, Ended, OrderType, Uncovered
    <3>4. Calm'
      BY <1>1, <1>2, <1>5, <3>1 DEF Known, Calm, LiveSell, Live, Ended, SameMarks
    <3> QED BY <3>3, <3>4
  <2>2. CoverInv'
    BY <1>8, <2>1 DEF CoverInv
  <2>3. BooksInv'
    <3> SUFFICES ASSUME faults = 0, slips' = {} PROVE BooksInv'
      BY <1>8 DEF BooksInv
    <3>1. slips = {} /\ os = {Len(orders)} /\ (pc = "cancel" => ~(Order.filled > 0))
      BY <1>1, <1>2, <1>8, Slipping
    <3>2. pc = "cancel" => Order.filled = 0
      BY <1>5, <3>1 DEF OrderType
    <3>3. /\ position = held + Pending /\ position' = position /\ held' = held
          /\ \A o \in DOMAIN orders : Live(o) => o = Len(orders)
          /\ broker = "alpaca" /\ held = 0 /\ Order.st = "filled" /\ pc \in Bought => stop = Order.qty
      BY <1>1, <1>8, <3>1 DEF Known, BooksInv
    <3>4. Pending' = Pending
      BY <1>1, <1>5, <3>2 DEF Pending, Bought, SellOrder
    <3>5. \A o \in DOMAIN orders' : ~Live(o)'
      BY <1>2, <3>1, <3>3 DEF Live, Ended
    <3>6. pc' \in Bought /\ held' = 0 /\ Order'.st = "filled" => stop' = Order'.qty
      BY <1>1, <1>5, <3>3 DEF Bought
    <3> QED BY <1>3, <3>3, <3>4, <3>5, <3>6 DEF BooksInv
  <2> QED BY <1>3, <1>4, <1>6, <2>2, <2>3, <1>7 DEF Keeps
<1>9. CASE faults' = faults + 1
  BY <1>3, <1>4, <1>6, <1>9, <1>7, Failing DEF Keeps
<1> QED BY <1>1, <1>8, <1>9

LEMMA AlpacaRechecks ==
    ASSUME Known, broker = "alpaca", Alpaca!BuyRecheck \/ Alpaca!BuySettle
    PROVE  Keeps
<1>1. /\ \/ pc = "recheck" /\ pc' = "settle"
         \/ pc = "settle" /\ pc' = "restop"
      /\ \/ /\ faults' = faults
            /\ seen' = Order.filled \/ (pc = "settle" /\ seen' = seen)
         \/ faults < MaxFaults /\ faults' = faults + 1 /\ seen' = seen
      /\ UNCHANGED <<answers, held, orders, stop, stuck, position, req, attempt, slips>>
  BY AlpacaWords DEF Alpaca!BuyRecheck, Alpaca!BuySettle, Goto, Alpaca!Works, Alpaca!Fails,
                     Alpaca!exchange
<1>2. OrdersOK' /\ Order' = Order /\ Answered' /\ answers' = <<>>
  BY <1>1, OrdersSame, Unanswered DEF Known
<1>3. Len(orders) \in DOMAIN orders /\ Order \in OrderType
  BY <1>1 DEF Known
<1>4. Order.filled \in Nat /\ seen \in Int /\ 0 <= seen /\ seen <= Order.filled
  BY <1>1, <1>3 DEF Known, Typed, Working, Looked, OrderType
<1>5. seen' \in Int /\ 0 <= seen' /\ seen' <= Order.filled
  BY <1>1, <1>4
<1>6. Typed'
  <2>1. faults' \in 0 .. MaxFaults /\ pc' \in {"idle"} \cup BuySteps
    BY <1>1, BrokerAccountAssumption DEF Known, Typed
  <2> QED BY <1>1, <1>5, <2>1 DEF Known, Typed
<1>7. Typed' /\ Working'
  BY <1>1, <1>2, <1>5, <1>6 DEF Known, Working, Looked
<1>8. OwedInv'
  <2>1. StraysFrom(0, 0) /\ Gap' = Gap /\ (Unsure' => Unsure \/ faults' = faults + 1)
    BY <1>1, <1>2 DEF Known, StraysFrom, Stray, Live, Rest, Unsure, Gap, Pending
  <2> QED BY <1>1, <1>2, <1>7, <2>1, Quiet
<1>9. CASE faults' = faults
  <2>1. ASSUME faults = 0 PROVE Covered' /\ Calm'
    <3>1. Covered /\ Calm /\ seen' = Order.filled
      BY <1>1, <1>9, <2>1 DEF Known, CoverInv, Typed, Calm
    <3>2. Covered'
      BY <1>1, <1>2, <3>1 DEF Known, Covered, Uncovered, LiveSell, Rest, Live
    <3>3. Calm'
      BY <1>1, <1>2, <3>1 DEF Known, Calm, LiveSell, Live
    <3> QED BY <3>2, <3>3
  <2>2. CoverInv'
    BY <1>9, <2>1 DEF CoverInv
  <2>3. BooksInv'
    BY <1>1, <1>2, <1>9 DEF Known, BooksInv, Pending, Live
  <2> QED BY <1>2, <1>7, <2>2, <2>3, <1>8 DEF Keeps
<1>10. CASE faults' = faults + 1
  BY <1>2, <1>7, <1>10, <1>8, Failing DEF Keeps
<1> QED BY <1>1, <1>9, <1>10

LEMMA AlpacaSubmits ==
    ASSUME Known, broker = "alpaca", Alpaca!BuySubmit \/ Alpaca!SellSubmit
    PROVE  Keeps
<1>1. /\ \/ pc = "submit" /\ pc' = "poll" /\ orders' = Append(orders, NewOrder("BUY", req.qty, TRUE))
         \/ pc = "sell" /\ pc' = "sellpoll" /\ orders' = Append(orders, NewOrder("SELL", seen, FALSE))
      /\ UNCHANGED <<answers, held, stop, stuck, position, req, attempt, seen, faults, slips>>
  BY AlpacaWords DEF Alpaca!BuySubmit, Alpaca!SellSubmit, Alpaca!AcceptBuy, Goto, Alpaca!Works,
                     Alpaca!client
<1>2. \/ pc = "submit" /\ pc' = "poll" /\ Placed("BUY", Qty, TRUE)
      \/ pc = "sell" /\ pc' = "sellpoll" /\ Placed("SELL", seen, FALSE)
  <2>1. req.id \in 1 .. MaxRequests /\ (pc = "submit" => req.qty = Qty) /\ Qty \in Nat \ {0}
        /\ (pc = "sell" => seen \in Nat \ {0})
    <3>1. req.id \in 0 .. MaxRequests /\ MaxRequests \in Nat /\ Qty \in Nat \ {0} /\ seen \in Int
      BY BrokerAccountAssumption DEF Known, Typed
    <3>2. req.id > 0 /\ (pc = "submit" => req.qty = Qty) /\ (pc = "sell" => seen > 0)
      BY <1>1 DEF Known, Working
    <3> QED BY <3>1, <3>2
  <2>2. CASE pc = "submit"
    BY <1>1, <2>1, <2>2, Placing DEF Known
  <2>3. CASE pc = "sell"
    BY <1>1, <2>1, <2>3, Placing DEF Known
  <2> QED BY <1>1, <2>2, <2>3
<1>3. OrdersOK' /\ Answered' /\ answers' = <<>>
  BY <1>1, <1>2, Unanswered DEF Known, Placed
<1>4. Typed' /\ Working'
  BY <1>1, <1>2 DEF Known, Typed, Working, Looked, Placed
<1>5. CoverInv'
  <2> SUFFICES ASSUME faults = 0 PROVE Covered' /\ Calm'
    BY <1>1 DEF CoverInv
  <2>1. Covered /\ Calm
    BY DEF Known, CoverInv
  <2>2. Covered'
    BY <1>1, <1>2, <2>1, SMTT(30) DEF Known, Typed, Covered, Calm, Uncovered, LiveSell, Rest, Live, Placed
  <2>3. Calm'
    BY <1>1, <1>2, <2>1 DEF Known, Calm, LiveSell, Live, Placed
  <2> QED BY <2>2, <2>3
<1>6. BooksInv'
  BY <1>1, <1>2, <1>3 DEF Known, Typed, BooksInv, Pending, Live, Placed
<1>7. OwedInv'
  <2>1. StraysFrom(0, 0) /\ Gap' = Gap /\ (Unsure' => Unsure)
    BY <1>1, <1>2 DEF Known, StraysFrom, Stray, Live, Rest, Unsure, Gap, Pending, Placed
  <2> QED BY <1>1, <1>3, <1>4, <2>1, Quiet
<1> QED BY <1>3, <1>4, <1>5, <1>6, <1>7 DEF Keeps

LEMMA Finishing ==
    ASSUME Known, pc # "idle", NEW kind \in {"FILL", "FAIL", "RAISED"}, NEW n \in Nat,
           Answer(kind, n), OrdersOK', DOMAIN orders' = DOMAIN orders \/ kind # "FILL",
           kind = "FILL" => Len(orders) > 0 /\ n <= orders'[Len(orders)].filled,
           stop' \in Nat, stuck' \in 0 .. stop', broker = "alpaca" => stuck' = 0,
           slips' \subseteq {"stopped", "late", "left"}, faults' \in 0 .. MaxFaults,
           seen' \in Int, UNCHANGED <<position, req, attempt>>
    PROVE  /\ Typed' /\ Working' /\ Answered' /\ pc' = "idle" /\ held' \in Int
           /\ Len(answers') = 1 /\ DOMAIN answers' = {1}
           /\ answers'[1].kind = kind /\ answers'[1].qty = n
           /\ held' = IF kind # "FILL" THEN held
                      ELSE IF req.side = "BUY" THEN held + n ELSE held - n
<1>1. /\ Answered' /\ pc' = "idle" /\ held' \in Int
      /\ answers' = <<[kind |-> kind, qty |-> n, order |-> Len(orders)]>>
      /\ held' = IF kind # "FILL" THEN held
                 ELSE IF req.side = "BUY" THEN held + n ELSE held - n
  BY Answering DEF Known
<1>2. Typed'
  BY <1>1 DEF Known, Typed
<1>3. Working'
  BY <1>1 DEF Known, Working, Looked
<1>4. /\ Len(answers') = 1 /\ DOMAIN answers' = {1}
      /\ answers'[1].kind = kind /\ answers'[1].qty = n
  BY <1>1
<1> QED BY <1>1, <1>2, <1>3, <1>4

\* An answer for which no share moves, at the end of a request that has none left.
LEMMA AlpacaGivesUp ==
    ASSUME Known, broker = "alpaca", Alpaca!BuyAbandon \/ Alpaca!BuyQuoteRaises
    PROVE  Keeps
<1>1. PICK kind \in {"FAIL", "RAISED"} :
         /\ pc = "decide" /\ Answer(kind, 0)
         /\ UNCHANGED <<orders, stop, stuck, position, req, attempt, seen, faults, slips>>
  BY AlpacaWords DEF Alpaca!BuyAbandon, Alpaca!BuyQuoteRaises, Alpaca!exchange, Alpaca!client
<1>2. OrdersOK' /\ Order' = Order
  BY <1>1, OrdersSame
<1>3. /\ Typed' /\ Working' /\ Answered' /\ pc' = "idle" /\ held' = held
      /\ DOMAIN answers' = {1} /\ answers'[1].kind = kind
  <2>1. /\ stop \in Nat /\ stuck \in 0 .. stop /\ (broker = "alpaca" => stuck = 0)
        /\ slips \subseteq {"stopped", "late", "left"} /\ faults \in 0 .. MaxFaults /\ seen \in Int
    BY DEF Known, Typed
  <2>2. /\ stop' \in Nat /\ stuck' \in 0 .. stop' /\ (broker = "alpaca" => stuck' = 0)
        /\ slips' \subseteq {"stopped", "late", "left"} /\ faults' \in 0 .. MaxFaults /\ seen' \in Int
        /\ UNCHANGED <<position, req, attempt>> /\ pc # "idle"
    BY <1>1, <2>1
  <2> QED BY <1>1, <1>2, <2>2, Finishing
<1>4. CoverInv'
  BY <1>1, <1>2, <1>3 DEF Known, CoverInv, Covered, Calm, Uncovered, LiveSell, Rest, Live
<1>5. BooksInv'
  BY <1>1, <1>2, <1>3 DEF Known, BooksInv, Pending, Live
<1>6. OwedInv'
  <2>1. StraysFrom(0, 0) /\ Gap' = Gap /\ (Unsure' => Unsure)
    BY <1>1, <1>2, <1>3 DEF Known, StraysFrom, Stray, Live, Rest, Unsure, Gap, Pending
  <2> QED BY <1>1, <1>2, <1>3, <2>1, Quiet
<1> QED BY <1>2, <1>3, <1>4, <1>5, <1>6 DEF Keeps

\* A fill that only the check before the cancellation sees.
LEMMA AlpacaPrechecks ==
    ASSUME Known, broker = "alpaca", Alpaca!BuyPrecheck, pc' = "idle"
    PROVE  Keeps
<1>1. /\ pc = "precheck" /\ Order.st = "filled" /\ Answer("FILL", Order.filled)
      /\ UNCHANGED <<orders, stop, stuck, position, req, attempt, seen, faults, slips>>
  BY AlpacaWords DEF Alpaca!BuyPrecheck, Alpaca!exchange, Alpaca!client, Goto
<1>2. OrdersOK' /\ Order' = Order
  BY <1>1, OrdersSame
<1>3. /\ Len(orders) \in DOMAIN orders /\ Order \in OrderType /\ req.side = "BUY"
      /\ Order.filled = Order.qty /\ Order.filled \in Nat
  BY <1>1 DEF Known, Working, OrderType, IsOrder
<1>4. /\ Typed' /\ Working' /\ Answered' /\ pc' = "idle" /\ held' = held + Order.filled
      /\ DOMAIN answers' = {1} /\ answers'[1].qty = Order.filled
  <2>1. /\ stop' \in Nat /\ stuck' \in 0 .. stop' /\ stuck' = 0 /\ faults' \in 0 .. MaxFaults
        /\ slips' \subseteq {"stopped", "late", "left"} /\ seen' \in Int
    BY <1>1 DEF Known, Typed
  <2>2. DOMAIN orders' = DOMAIN orders /\ Len(orders) > 0
        /\ Order.filled <= orders'[Len(orders)].filled
    BY <1>1, <1>3 DEF Known
  <2> QED BY <1>1, <1>2, <1>3, <2>1, <2>2, Finishing
<1>5. CoverInv'
  BY <1>1, <1>2, <1>4 DEF Known, CoverInv, Covered, Calm, Uncovered, LiveSell, Rest, Live
<1>6. BooksInv'
  BY <1>1, <1>2, <1>3, <1>4 DEF Known, Typed, BooksInv, Pending, Live
<1>7. OwedInv'
  <2>1. StraysFrom(0, 0) /\ Gap' = Gap /\ (Unsure' => Unsure)
    BY <1>1, <1>2, <1>3, <1>4, SMTT(30) DEF Known, StraysFrom, Stray, Live, Rest, Unsure, Gap, Pending, Typed
  <2> QED BY <1>1, <1>2, <1>4, <2>1, Quiet
<1> QED BY <1>2, <1>4, <1>5, <1>6, <1>7 DEF Keeps

LEMMA AlpacaReports ==
    ASSUME Known, broker = "alpaca", Alpaca!BuyReport
    PROVE  Keeps
<1>1. /\ pc = "restop" /\ Answer("FILL", seen)
      /\ UNCHANGED <<stuck, position, req, attempt, seen, slips>>
      /\ \/ /\ faults' = faults /\ seen < req.qty
            /\ orders' = Cancelled(DOMAIN orders) /\ stop' = seen
         \/ /\ faults' = faults /\ ~(seen < req.qty)
            /\ orders' = orders /\ stop' = stop
         \/ /\ faults < MaxFaults /\ faults' = faults + 1
            /\ \E os : orders' = Cancelled(os)
            /\ stop' \in {0, seen, stop, stop + seen}
  <2>1. stop \in Nat /\ seen \in Int
    BY DEF Known, Typed
  <2> QED BY <2>1, AlpacaWords DEF Alpaca!BuyReport, Alpaca!client, Alpaca!Works, Alpaca!Fails
<1>2. /\ Len(orders) \in DOMAIN orders /\ Order \in OrderType /\ IsOrder(Order, broker)
      /\ req.side = "BUY" /\ req.qty = Qty /\ Order.qty = Qty
      /\ 0 <= seen /\ seen <= Order.filled /\ seen \in Nat /\ Qty \in Nat
  BY <1>1, BrokerAccountAssumption DEF Known, Typed, Working, Looked
<1>3. PICK os : /\ Ended(os) /\ SameMarks
                /\ faults' = faults /\ seen < req.qty => os = DOMAIN orders
                /\ faults' = faults /\ ~(seen < req.qty) => os = {}
  <2>1. faults \in Int
    BY DEF Known, Typed
  <2>2. CASE orders' = Cancelled(DOMAIN orders) /\ faults' = faults /\ seen < req.qty
    BY <2>2, Ending DEF Known
  <2>3. CASE orders' = orders /\ faults' = faults /\ ~(seen < req.qty)
    BY <2>3, EndingNone DEF Known
  <2>4. CASE faults' = faults + 1 /\ \E s : orders' = Cancelled(s)
    <3>1. PICK s : orders' = Cancelled(s)
      BY <2>4
    <3>2. Ended(s) /\ SameMarks
      BY <3>1, Ending DEF Known
    <3> QED BY <2>1, <2>4, <3>2
  <2> QED BY <1>1, <2>2, <2>3, <2>4
<1>4. /\ stop' \in Nat /\ stuck' = 0 /\ stuck' \in 0 .. stop' /\ faults' \in 0 .. MaxFaults
      /\ slips' \subseteq {"stopped", "late", "left"} /\ seen' \in Int
  BY <1>1, <1>2, BrokerAccountAssumption DEF Known, Typed
<1>5. /\ OrdersOK' /\ Typed' /\ Working' /\ Answered' /\ pc' = "idle" /\ held' = held + seen
      /\ DOMAIN answers' = {1} /\ answers'[1].qty = seen
  <2>1. OrdersOK' /\ DOMAIN orders' = DOMAIN orders /\ Len(orders) > 0
        /\ seen <= orders'[Len(orders)].filled
    BY <1>2, <1>3 DEF Known, Ended
  <2> QED BY <1>1, <1>2, <1>4, <2>1, Finishing
<1>6. OwedInv'
  BY <1>1, <1>2, <1>3, <1>5, Reporting
<1>7. CASE faults' = faults
  <2>1. /\ seen < req.qty => stop' = seen /\ os = DOMAIN orders
        /\ ~(seen < req.qty) => stop' = stop /\ os = {} /\ Order.st = "filled" /\ seen = Order.qty
    <3>1. faults' # faults + 1
      BY <1>7 DEF Known, Typed
    <3> QED BY <1>1, <1>2, <1>3, <1>7, <3>1 DEF IsOrder, OrderType
  <2>2. ASSUME faults = 0 PROVE Covered' /\ Calm'
    <3>1. Covered /\ Calm /\ seen = Order.filled /\ position \in Int /\ stop \in Nat
      BY <1>1, <2>2 DEF Known, CoverInv, Typed, Calm
    <3>2. position - stop' >= 0
      BY <1>1, <1>2, <2>1, <3>1 DEF Covered, Uncovered, IsOrder, OrderType
    <3>3. Covered'
      BY <1>1, <1>2, <1>3, <1>5, <2>1, <3>1, <3>2, SMTT(30)
         DEF Known, Covered, Uncovered, LiveSell, Rest, Live, Ended, OrderType
    <3>4. Calm'
      BY <1>1, <1>3, <1>5, <3>1 DEF Known, Calm, LiveSell, Live, Ended, SameMarks
    <3> QED BY <3>3, <3>4
  <2>3. CoverInv'
    BY <1>7, <2>2 DEF CoverInv
  <2>4. BooksInv'
    <3> SUFFICES ASSUME faults = 0, slips = {} PROVE BooksInv'
      BY <1>1, <1>7 DEF BooksInv
    <3>1. /\ position = held + Order.filled /\ seen = Order.filled
          /\ position \in Int /\ held \in Int /\ stop \in Nat
          /\ \A o \in DOMAIN orders : orders[o].st # "live"
          /\ held = 0 /\ Order.st = "filled" => stop = Order.qty
      BY <1>1 DEF Known, Typed, CoverInv, Calm, BooksInv, Pending, Live
    <3>2. position = held' /\ \A o \in DOMAIN orders' : ~Live(o)'
      BY <1>3, <1>5, <3>1 DEF Live, Ended
    <3>3. seen = held' => stop' = held'
      BY <1>2, <1>5, <2>1, <3>1
    <3> QED BY <1>1, <1>5, <3>2, <3>3 DEF BooksInv, Pending
  <2> QED BY <1>5, <2>3, <2>4, <1>6 DEF Keeps
<1>8. CASE faults' = faults + 1
  BY <1>5, <1>8, <1>6, Failing DEF Keeps
<1> QED BY <1>1, <1>7, <1>8

LEMMA AlpacaSubmitsRaise ==
    ASSUME Known, broker = "alpaca", Alpaca!BuySubmitRaises \/ Alpaca!SellSubmitRaises
    PROVE  Keeps
<1>1. /\ \/ /\ pc = "submit" /\ Answer("FAIL", 0)
            /\ \/ orders' = orders
               \/ orders' = Append(orders, NewOrder("BUY", req.qty, TRUE))
         \/ /\ pc = "sell" /\ Answer("FAIL", 0) /\ orders' = orders
         \/ /\ pc = "sell" /\ Goto("lookup") /\ orders' = Append(orders, NewOrder("SELL", seen, FALSE))
      /\ faults < MaxFaults /\ faults' = faults + 1
      /\ UNCHANGED <<stop, stuck, position, req, attempt, seen, slips>>
  BY AlpacaWords DEF Alpaca!BuySubmitRaises, Alpaca!SellSubmitRaises, Alpaca!AcceptBuy,
                     Alpaca!Fails, Alpaca!client
<1>2. /\ stop' \in Nat /\ stuck' \in 0 .. stop' /\ stuck' = 0 /\ faults' \in 0 .. MaxFaults
      /\ slips' \subseteq {"stopped", "late", "left"} /\ seen' \in Int
      /\ faults \in Nat /\ MaxFaults \in Nat
  BY <1>1, BrokerAccountAssumption DEF Known, Typed
<1>3. req.id \in 1 .. MaxRequests /\ (pc = "submit" => req.qty = Qty) /\ Qty \in Nat \ {0}
      /\ (pc = "sell" => seen \in Nat \ {0})
  <2>1. req.id \in 0 .. MaxRequests /\ MaxRequests \in Nat /\ Qty \in Nat \ {0} /\ seen \in Int
    BY BrokerAccountAssumption DEF Known, Typed
  <2>2. req.id > 0 /\ (pc = "submit" => req.qty = Qty) /\ (pc = "sell" => seen > 0)
    BY <1>1 DEF Known, Working
  <2> QED BY <2>1, <2>2
<1>4. CASE Answer("FAIL", 0) /\ (pc = "submit" \/ pc = "sell")
  <2>1. OrdersOK'
    <3>1. CASE orders' = orders
      BY <3>1, OrdersSame
    <3>2. CASE pc = "submit" /\ orders' = Append(orders, NewOrder("BUY", req.qty, TRUE))
      <4>1. Placed("BUY", Qty, TRUE)
        BY <1>3, <3>2, Placing DEF Known
      <4> QED BY <4>1 DEF Placed
    <3>3. CASE pc = "sell" /\ Goto("lookup")
      BY <1>4, <3>3 DEF Answer, Goto
    <3> QED BY <1>1, <3>1, <3>2, <3>3
  <2>2. Typed' /\ Working' /\ Answered'
    BY <1>1, <1>2, <1>4, <2>1, Finishing
  <2>3. OwedInv'
    <3>1. pc' = "idle" /\ held' = held
      BY <1>4 DEF Answer
    <3>2. CASE orders' = orders
      <4>1. StraysFrom(0, 0) /\ Gap' = Gap /\ ~Unsure'
        BY <1>1, <1>4, <3>1, <3>2 DEF StraysFrom, Stray, Live, Rest, Unsure, Gap, Pending
      <4> QED BY <1>1, <2>1, <2>2, <4>1, Quiet
    <3>3. CASE pc = "submit" /\ orders' = Append(orders, NewOrder("BUY", req.qty, TRUE))
      <4>1. Placed("BUY", Qty, TRUE)
        BY <1>3, <3>3, Placing DEF Known
      <4>2. Gap' = Gap /\ ~Unsure'
        BY <1>1, <3>1, <3>3 DEF Unsure, Gap, Pending
      <4>3. Gap' <= Gap
        BY <4>2, GapInt DEF Known
      <4>4. StraysFrom(Len(orders) + 1, Qty)
        <5> SUFFICES ASSUME NEW o \in DOMAIN orders', Stray(o)'
                     PROVE  \/ o \in DOMAIN orders /\ Stray(o) /\ Rest(o)' = Rest(o)
                            \/ o = Len(orders) + 1 /\ Rest(o)' <= Qty
          BY DEF StraysFrom
        <5>1. CASE o \in DOMAIN orders
          BY <3>3, <4>1, <5>1 DEF Stray, Live, Rest, Placed, Bought
        <5>2. CASE o = Len(orders) + 1
          BY <1>3, <4>1, <5>2 DEF Rest, Placed
        <5> QED BY <4>1, <5>1, <5>2 DEF Placed
      <4> QED BY <1>1, <2>1, <2>2, <4>2, <4>3, <4>4, Abandoning
    <3>4. CASE pc = "sell" /\ Goto("lookup")
      BY <3>1, <3>4 DEF Goto
    <3> QED BY <1>1, <3>2, <3>3, <3>4
  <2> QED BY <1>1, <2>1, <2>2, <2>3, Failing DEF Keeps
<1>5. CASE pc = "sell" /\ Goto("lookup") /\ orders' = Append(orders, NewOrder("SELL", seen, FALSE))
  <2>1. Placed("SELL", seen, FALSE)
    BY <1>3, <1>5, Placing DEF Known
  <2>2. OrdersOK' /\ Len(orders') = Len(orders) + 1 /\ Order'.side = "SELL"
    BY <2>1 DEF Placed
  <2>3. pc' = "lookup" /\ answers' = answers /\ held' = held
    BY <1>5 DEF Goto
  <2>4. Answered'
    BY <1>5, <2>3, Unanswered DEF Known
  <2>5. Typed'
    BY <1>1, <1>2, <2>3 DEF Known, Typed
  <2>6. Working'
    <3>1. req' = req /\ broker' = "alpaca"
      BY <1>1 DEF Known
    <3>2. req.side = "SELL" /\ req.qty > 0 /\ req.id > 0
      BY <1>5 DEF Known, Working
    <3>3. Len(orders') > 0
      BY <2>2 DEF Known
    <3> QED BY <2>2, <2>3, <3>1, <3>2, <3>3 DEF Working, Looked
  <2>7. OwedInv'
    <3>1. StraysFrom(0, 0) /\ Gap' = Gap /\ ~Unsure'
      <4>1. Len(orders') \in DOMAIN orders' /\ Order'.filled = 0
        BY <2>1 DEF Placed
      <4>2. StraysFrom(0, 0)
        BY <1>5, <2>1, <2>3 DEF StraysFrom, Stray, Live, Rest, Placed
      <4>3. Gap' = Gap /\ ~Unsure'
        <5>1. pc = "sell" /\ pc' = "lookup"
          BY <1>5, <2>3
        <5>2. Pending = 0 /\ Pending' = 0 - Order'.filled
          BY <5>1 DEF Pending, Bought, SellOrder
        <5>3. Pending' = 0
          BY <4>1, <5>2
        <5> QED BY <1>1, <2>3, <5>1, <5>2, <5>3 DEF Unsure, Gap
      <4> QED BY <4>2, <4>3
    <3> QED BY <1>1, <2>2, <2>5, <2>6, <3>1, Quiet
  <2> QED BY <1>1, <2>2, <2>4, <2>5, <2>6, <2>7, Failing DEF Keeps
<1> QED BY <1>1, <1>4, <1>5

LEMMA AlpacaClears ==
    ASSUME Known, broker = "alpaca", Alpaca!SellClear
    PROVE  Keeps
<1>1. /\ pc = "clear" /\ Goto("size")
      /\ \/ faults' = faults /\ orders' = Cancelled(DOMAIN orders) /\ stop' = 0
         \/ /\ faults < MaxFaults /\ faults' = faults + 1 /\ stop' \in {0, stop}
            /\ \E os : orders' = Cancelled(os)
      /\ UNCHANGED <<stuck, position, req, attempt, seen, slips>>
  BY AlpacaWords DEF Alpaca!SellClear, Alpaca!client, Alpaca!Works, Alpaca!Fails
<1>2. PICK os : Ended(os) /\ SameMarks /\ (faults' = faults => os = DOMAIN orders)
  <2>1. CASE orders' = Cancelled(DOMAIN orders)
    BY <2>1, Ending DEF Known
  <2>2. CASE faults' = faults + 1 /\ \E os : orders' = Cancelled(os)
    <3>1. PICK os : orders' = Cancelled(os)
      BY <2>2
    <3>2. Ended(os) /\ SameMarks /\ faults' # faults
      BY <2>2, <3>1, Ending DEF Known, Typed
    <3> QED BY <3>2
  <2> QED BY <1>1, <2>1, <2>2
<1>3. pc' = "size" /\ OrdersOK' /\ Answered' /\ answers' = <<>> /\ held' = held
  BY <1>1, <1>2, Unanswered DEF Known, Ended, Goto
<1>4. /\ stop' \in Nat /\ stuck' = 0 /\ faults' \in 0 .. MaxFaults
  BY <1>1, BrokerAccountAssumption DEF Known, Typed
<1>5. Typed'
  BY <1>1, <1>3, <1>4 DEF Known, Typed
<1>6. Working'
  <2>1. pc = "clear" /\ req' = req
    BY <1>1
  <2> QED BY <1>3, <2>1 DEF Known, Working, Looked
<1>7. OwedInv'
  <2>1. StraysFrom(0, 0) /\ Gap' = Gap /\ (Unsure' => Unsure)
    BY <1>1, <1>2, <1>3 DEF Known, StraysFrom, Stray, Live, Rest, Unsure, Gap, Pending, Ended
  <2> QED BY <1>1, <1>3, <1>5, <1>6, <2>1, Quiet
<1>8. CASE faults' = faults
  <2>1. ASSUME faults = 0 PROVE Covered' /\ Calm'
    <3>1. Covered /\ Calm /\ stop' = 0 /\ position \in Int /\ stop \in Nat
      BY <1>1, <1>8, <2>1 DEF Known, CoverInv, Typed
    <3>2. \A o \in DOMAIN orders' : ~Live(o)'
      BY <1>2, <1>8 DEF Live, Ended
    <3>3. Covered'
      BY <1>1, <1>3, <3>1, <3>2 DEF Covered, Uncovered, LiveSell
    <3>4. Calm'
      BY <1>2, <1>3, <1>4, <3>1, <3>2 DEF Calm, LiveSell, Ended, SameMarks
    <3> QED BY <3>3, <3>4
  <2>2. CoverInv'
    BY <1>8, <2>1 DEF CoverInv
  <2>3. BooksInv'
    BY <1>1, <1>2, <1>3, <1>8 DEF Known, BooksInv, Pending, Live, Ended
  <2> QED BY <1>3, <1>5, <1>6, <2>2, <2>3, <1>7 DEF Keeps
<1>9. CASE faults' = faults + 1
  BY <1>3, <1>5, <1>6, <1>9, <1>7, Failing DEF Keeps
<1> QED BY <1>1, <1>8, <1>9

LEMMA AlpacaSizes ==
    ASSUME Known, broker = "alpaca", Alpaca!SellSize
    PROVE  Keeps
<1>1. /\ pc = "size" /\ seen' \in {0, IF position < req.qty THEN position ELSE req.qty}
      /\ \/ seen' > 0 /\ Goto("sell")
         \/ Answer("FAIL", 0)
      /\ UNCHANGED <<orders, stop, stuck, position, req, attempt, faults, slips>>
  BY AlpacaWords DEF Alpaca!SellSize, Alpaca!exchange
<1>2. OrdersOK' /\ Order' = Order
  BY <1>1, OrdersSame
<1>3. /\ stop' \in Nat /\ stuck' = 0 /\ stuck' \in 0 .. stop' /\ faults' \in 0 .. MaxFaults
      /\ slips' \subseteq {"stopped", "late", "left"} /\ seen' \in Int
      /\ seen' > 0 => seen' <= position
  BY <1>1 DEF Known, Typed
<1>4. CASE seen' > 0 /\ Goto("sell")
  <2>1. pc' = "sell" /\ Answered' /\ answers' = <<>> /\ held' = held
    BY <1>1, <1>4, Unanswered DEF Known, Goto
  <2>2. Typed'
    BY <1>1, <1>3, <2>1 DEF Known, Typed
  <2>3. Working'
    BY <1>1, <1>4, <2>1 DEF Known, Working, Looked
  <2>4. OwedInv'
    <3>1. StraysFrom(0, 0) /\ Gap' = Gap /\ (Unsure' => Unsure)
      BY <1>1, <1>2, <2>1 DEF Known, StraysFrom, Stray, Live, Rest, Unsure, Gap, Pending
    <3> QED BY <1>1, <1>2, <2>1, <2>2, <2>3, <3>1, Quiet
  <2>5. CoverInv'
    BY <1>1, <1>2, <1>3, <1>4, <2>1
       DEF Known, CoverInv, Covered, Calm, Uncovered, LiveSell, Rest, Live
  <2>6. BooksInv'
    BY <1>1, <2>1 DEF Known, BooksInv, Pending, Live
  <2> QED BY <1>2, <2>1, <2>2, <2>3, <2>5, <2>6, <2>4 DEF Keeps
<1>5. CASE Answer("FAIL", 0)
  <2>1. /\ Typed' /\ Working' /\ Answered' /\ pc' = "idle" /\ held' = held
        /\ DOMAIN answers' = {1} /\ answers'[1].kind = "FAIL"
    BY <1>1, <1>2, <1>3, <1>5, Finishing
  <2>2. OwedInv'
    <3>1. StraysFrom(0, 0) /\ Gap' = Gap /\ (Unsure' => Unsure)
      BY <1>1, <1>2, <2>1 DEF Known, StraysFrom, Stray, Live, Rest, Unsure, Gap, Pending
    <3> QED BY <1>1, <1>2, <2>1, <3>1, Quiet
  <2>3. CoverInv'
    BY <1>1, <1>2, <2>1 DEF Known, CoverInv, Covered, Calm, Uncovered, LiveSell, Rest, Live
  <2>4. BooksInv'
    BY <1>1, <2>1 DEF Known, BooksInv, Pending, Live
  <2> QED BY <1>2, <2>1, <2>3, <2>4, <2>2 DEF Keeps
<1> QED BY <1>1, <1>4, <1>5

LEMMA AlpacaSellEnds ==
    ASSUME Known, broker = "alpaca", Alpaca!SellPoll \/ Alpaca!SellVerify
    PROVE  Keeps
<1>1. /\ \/ pc = "sellpoll" /\ Order.st = "filled" /\ Answer("FILL", Order.filled) /\ slips' = slips
         \/ pc = "sellpoll" /\ Goto("verify") /\ slips' = slips
         \/ /\ pc \in {"verify", "lookup"} /\ Answer("FILL", Order.filled)
            /\ Partial \/ Order.st = "filled"
            /\ Slip("left", Partial)
         \/ /\ pc \in {"verify", "lookup"} /\ Answer("FAIL", 0)
            /\ Slip("left", Order.st = "live" \/ Order.filled > 0)
      /\ UNCHANGED <<orders, stop, stuck, position, req, attempt, seen, faults>>
  BY AlpacaWords DEF Alpaca!SellPoll, Alpaca!SellVerify, Alpaca!exchange, Alpaca!client,
                     Live, Slip, Partial, Alpaca!Live, Alpaca!Slip, Alpaca!Partial,
                     Alpaca!Order, Alpaca!Cur
<1>2. /\ OrdersOK' /\ Order' = Order /\ Len(orders) \in DOMAIN orders /\ Order \in OrderType
      /\ Order.filled \in Nat /\ req.side = "SELL" /\ DOMAIN orders' = DOMAIN orders
      /\ Len(orders) > 0 /\ Order.filled <= orders'[Len(orders)].filled
  BY <1>1, OrdersSame DEF Known, Working, OrderType
<1>3. /\ stop' \in Nat /\ stuck' = 0 /\ stuck' \in 0 .. stop' /\ faults' \in 0 .. MaxFaults
      /\ slips' \subseteq {"stopped", "late", "left"} /\ seen' \in Int
  <2>1. slips' \subseteq {"stopped", "late", "left"}
    BY <1>1, Slipping DEF Known, Typed
  <2> QED BY <1>1, <2>1 DEF Known, Typed
<1>4. CASE pc = "sellpoll" /\ Goto("verify") /\ slips' = slips
  <2>1. pc' = "verify" /\ Answered' /\ answers' = <<>> /\ held' = held
    BY <1>1, <1>4, Unanswered DEF Known, Goto
  <2>2. Typed'
    BY <1>1, <1>3, <2>1 DEF Known, Typed
  <2>3. Working'
    BY <1>1, <1>2, <1>4, <2>1 DEF Known, Working, Looked
  <2>4. OwedInv'
    <3>1. StraysFrom(0, 0) /\ Gap' = Gap /\ (Unsure' => Unsure)
      BY <1>1, <1>2, <1>4, <2>1 DEF Known, StraysFrom, Stray, Live, Rest, Unsure, Gap, Pending
    <3> QED BY <1>1, <1>2, <1>4, <2>1, <2>2, <2>3, <3>1, Quiet
  <2>5. CoverInv'
    BY <1>1, <1>2, <1>4, <2>1 DEF Known, CoverInv, Covered, Calm, Uncovered, LiveSell, Rest, Live
  <2>6. BooksInv'
    BY <1>1, <1>2, <1>4, <2>1 DEF Known, BooksInv, Pending, Live
  <2> QED BY <1>2, <2>1, <2>2, <2>3, <2>5, <2>6, <2>4 DEF Keeps
<1>5. ASSUME NEW kind \in {"FILL", "FAIL"}, NEW n \in {0, Order.filled}, Answer(kind, n),
             pc \in {"sellpoll", "verify", "lookup"},
             slips' = {} => slips = {} /\ Order.st # "live" /\ n = Order.filled,
             kind = "FAIL" => n = 0
      PROVE  Keeps
  <2>1. /\ Typed' /\ Working' /\ Answered' /\ pc' = "idle" /\ DOMAIN answers' = {1}
        /\ held' = IF kind = "FILL" THEN held - n ELSE held
    BY <1>1, <1>2, <1>3, <1>5, Finishing
  <2>2. OwedInv'
    <3>1. n \in Nat /\ n <= Order.filled /\ held' = held - n
      BY <1>2, <1>5, <2>1, SMTT(30) DEF Known, Typed
    <3> QED BY <1>1, <1>2, <1>5, <2>1, <3>1, SellAnswered
  <2>3. CoverInv'
    BY <1>1, <1>2, <1>5, <2>1 DEF Known, CoverInv, Covered, Calm, Uncovered, LiveSell, Rest, Live
  <2>4. BooksInv'
    <3> SUFFICES ASSUME faults' = 0, slips' = {} PROVE BooksInv'
      BY DEF BooksInv
    <3>1. /\ faults = 0 /\ slips = {} /\ Order.st # "live" /\ n = Order.filled /\ Order.filled \in Nat
          /\ req.side = "SELL" /\ position' = position /\ held \in Int
      BY <1>1, <1>2, <1>5 DEF Known, Typed, Working, OrderType, SellSteps, SellOrder
    <3>2. /\ position = held + Pending
          /\ \A o \in DOMAIN orders : Live(o) => o = Len(orders)
      BY <3>1 DEF Known, BooksInv
    <3>3. position' = held' + Pending'
      BY <1>5, <2>1, <3>1, <3>2 DEF Pending, Bought, SellOrder
    <3>4. \A o \in DOMAIN orders' : ~Live(o)'
      BY <1>1, <1>2, <3>1, <3>2 DEF Live
    <3>5. req'.side = "SELL"
      BY <1>1, <3>1
    <3> QED BY <2>1, <3>3, <3>4, <3>5 DEF BooksInv, Bought
  <2> QED BY <1>2, <2>1, <2>3, <2>4, <2>2 DEF Keeps
<1>6. CASE Answer("FILL", Order.filled) /\ pc = "sellpoll" /\ Order.st = "filled" /\ slips' = slips
  BY <1>5, <1>6
<1>7. CASE /\ Answer("FILL", Order.filled) /\ pc \in {"verify", "lookup"}
           /\ Partial \/ Order.st = "filled"
           /\ Slip("left", Partial)
  <2>1. slips' = {} => slips = {} /\ ~Partial
    BY <1>7, Slipping
  <2>2. ~Partial => Order.st # "live"
    BY <1>7 DEF Partial
  <2> QED BY <1>5, <1>7, <2>1, <2>2
<1>8. CASE /\ Answer("FAIL", 0) /\ pc \in {"verify", "lookup"}
           /\ Slip("left", Order.st = "live" \/ Order.filled > 0)
  <2>1. slips' = {} => slips = {} /\ ~(Order.st = "live" \/ Order.filled > 0)
    BY <1>8, Slipping
  <2>2. ~(Order.filled > 0) => Order.filled = 0
    BY <1>2
  <2> QED BY <1>5, <1>8, <2>1, <2>2
<1> QED BY <1>1, <1>4, <1>6, <1>7, <1>8

-----------------------------------------------------------------------------
(* The exchange, and the beginning of a request                              *)

LEMMA Requesting ==
    ASSUME Known, NEW side \in {"BUY", "SELL"}, NEW n \in Nat \ {0}, NEW step,
           Request(side, n, step),
           \/ side = "BUY" /\ n = Qty /\ step = "submit"
           \/ side = "SELL" /\ step = "clear" /\ broker = "alpaca"
           \/ side = "SELL" /\ step = "size" /\ broker = "tradier"
    PROVE  Keeps
<1>1. /\ pc = "idle" /\ req.id < MaxRequests /\ req' = [id |-> req.id + 1, side |-> side, qty |-> n]
      /\ attempt' = 1 /\ seen' = n /\ pc' = step /\ answers' = <<>>
      /\ UNCHANGED <<stop, stuck, position, held, faults, slips>>
      /\ Forgotten
  BY Forgetting DEF Request, Known
<1>2. /\ req.id \in 0 .. MaxRequests /\ MaxRequests \in Nat /\ MaxRetries \in Nat \ {0}
  BY BrokerAccountAssumption DEF Known, Typed
<1>3. /\ req' \in [id : 0 .. MaxRequests, side : {"BUY", "SELL"}, qty : Nat] /\ req'.id > 0
      /\ req'.side = side /\ req'.qty = n /\ attempt' \in 1 .. MaxRetries
  BY <1>1, <1>2
<1>4. Typed'
  BY <1>1, <1>3 DEF Known, Typed
<1>5. Working'
  BY <1>1, <1>3 DEF Known, Working, Looked
<1>6. Answered' /\ OrdersOK' /\ DOMAIN answers' = {}
  BY <1>1 DEF Answered, Forgotten
<1>7. ASSUME faults = 0 PROVE Covered' /\ Calm'
  <2>1. Covered /\ Calm
    BY <1>7 DEF Known, CoverInv
  <2>2. CASE orders' = orders
    <3>1. Covered'
      BY <1>1, <2>1, <2>2 DEF Known, Covered, Uncovered, LiveSell, Rest, Live
    <3>2. Calm'
      BY <1>1, <2>1, <2>2 DEF Known, Calm, LiveSell, Live
    <3> QED BY <3>1, <3>2
  <2>3. CASE DOMAIN orders' = {}
    <3>1. Covered'
      BY <1>1, <2>1, <2>3 DEF Covered, Uncovered, LiveSell
    <3>2. Calm'
      BY <1>1, <2>1, <2>3 DEF Known, Calm, LiveSell
    <3> QED BY <3>1, <3>2
  <2> QED BY <1>1, <2>2, <2>3 DEF Forgotten
<1>8. CoverInv'
  BY <1>1, <1>7 DEF CoverInv
<1>9. BooksInv'
  <2>1. DOMAIN orders' = {} \/ orders' = orders
    BY <1>1 DEF Forgotten
  <2> QED BY <1>1, <1>6, <2>1 DEF Known, BooksInv, Pending, Live
<1>10. OwedInv'
  <2>1. DOMAIN orders' = {} \/ orders' = orders
    BY <1>1 DEF Forgotten
  <2>2. StraysFrom(0, 0) /\ Gap' = Gap /\ ~Unsure'
    BY <1>1, <2>1 DEF StraysFrom, Stray, Live, Rest, Unsure, Gap, Pending
  <2> QED BY <1>1, <1>4, <1>5, <1>6, <2>2, Quiet
<1> QED BY <1>4, <1>5, <1>6, <1>8, <1>9, <1>10 DEF Keeps

LEMMA Stopping ==
    ASSUME Known, StopFires
    PROVE  Keeps
<1>1. /\ stop > 0 /\ position' = position - stop /\ stop' = 0 /\ stuck' = 0 /\ slips' = slips \cup {"stopped"}
      /\ UNCHANGED <<orders, pc, req, attempt, seen, answers, held, faults>>
  BY DEF StopFires, Slip, client
<1>2. OrdersOK' /\ Order' = Order
  BY <1>1, OrdersSame
<1>3. Typed' /\ Working' /\ Answered'
  BY <1>1, <1>2 DEF Known, Typed, Working, Looked, Answered
<1>4. CoverInv'
  BY <1>1, <1>2 DEF Known, Typed, CoverInv, Covered, Calm, Uncovered, LiveSell, Rest, Live
<1>5. BooksInv'
  BY <1>1 DEF BooksInv
<1>6. OwedInv'
  BY <1>1 DEF OwedInv
<1> QED BY <1>2, <1>3, <1>4, <1>5, <1>6 DEF Keeps

LEMMA ExchangeFilling ==
    ASSUME Known, NEW o \in DOMAIN orders, NEW n \in 1 .. Qty, ExchangeFills(o, n)
    PROVE  Keeps
<1> DEFINE all == orders[o].filled + n = orders[o].qty
<1>1. /\ stop' = (IF all /\ orders[o].bracket THEN stop + orders[o].qty ELSE stop)
      /\ position' = IF orders[o].side = "BUY" THEN position + n ELSE position - n
      /\ UNCHANGED <<stuck, pc, req, attempt, seen, answers, held, faults, slips>>
  BY DEF ExchangeFills, client
<1>2. /\ Filled(o, n) /\ n <= orders[o].qty - orders[o].filled /\ orders[o].st = "live"
      /\ n \in Nat \ {0}
  BY Filling, BrokerAccountAssumption DEF Known
<1>3. /\ orders[o].qty \in Nat /\ orders[o].filled \in Nat /\ orders[o].side \in {"BUY", "SELL"}
      /\ orders[o].bracket <=> broker = "alpaca" /\ orders[o].side = "BUY"
      /\ orders[o].qty > orders[o].filled
  BY <1>2 DEF Known, IsOrder, OrderType
<1>4. /\ OrdersOK' /\ Len(orders') = Len(orders) /\ DOMAIN orders' = DOMAIN orders
      /\ \A u \in DOMAIN orders : /\ orders'[u].side = orders[u].side /\ orders'[u].qty = orders[u].qty
                                  /\ orders'[u].filled >= orders[u].filled
                                  /\ orders'[u].stuck = orders[u].stuck
                                  /\ orders'[u].st = "live" => orders[u].st = "live"
                                  /\ orders[u].st # "live" => orders'[u] = orders[u]
      /\ \A u \in DOMAIN orders \ {o} : orders'[u] = orders[u]
      /\ orders'[o].filled = orders[o].filled + n
      /\ orders'[o].st = IF all THEN "filled" ELSE "live"
  <2>1. \A u \in DOMAIN orders : orders[u].filled \in Nat
    BY DEF Known, OrderType
  <2> QED BY <1>2, <1>3, <2>1 DEF Filled
<1>5. stop' \in Nat /\ stop' >= stop /\ position' \in Int
  BY <1>1, <1>3 DEF Known, Typed
<1>6. Typed'
  BY <1>1, <1>5 DEF Known, Typed
<1>7. Working'
  <2>1. /\ pc' \in BuyOrder \cup SellOrder =>
             /\ Order'.side = Order.side /\ Order'.qty = Order.qty
             /\ Order'.filled >= Order.filled /\ Order.filled \in Nat /\ Order'.filled \in Nat
    <3>1. pc \in BuyOrder \cup SellOrder => Len(orders) \in DOMAIN orders
      BY DEF Known
    <3>2. \A u \in DOMAIN orders : orders[u].filled \in Nat
      BY DEF Known, OrderType
    <3>3. \A u \in DOMAIN orders : orders'[u].filled \in Nat
      BY <1>2, <1>3, <1>4, <3>2
    <3> QED BY <1>1, <1>4, <3>1, <3>2, <3>3
  <2> QED BY <1>1, <1>4, <2>1 DEF Known, Typed, Working, Looked
<1>8. Answered'
  <2>1. CASE answers = <<>>
    BY <1>1, <2>1 DEF Answered
  <2>2. CASE answers # <<>>
    <3>1. PICK a \in AnswerType :
             /\ answers = <<a>>
             /\ a.kind = "FILL" => a.order \in DOMAIN orders /\ a.qty <= orders[a.order].filled
      BY <2>2 DEF Known, Answered
    <3>2. a.kind = "FILL" => a.order \in DOMAIN orders' /\ a.qty <= orders'[a.order].filled
      <4>1. a.qty \in Nat /\ \A u \in DOMAIN orders : orders[u].filled \in Nat
        BY DEF Known, OrderType, AnswerType
      <4>2. \A u \in DOMAIN orders : orders'[u].filled \in Nat
        BY <1>2, <1>3, <1>4, <4>1
      <4> QED BY <1>4, <3>1, <4>1, <4>2
    <3>3. pc = "idle"
      BY <2>2 DEF Known, Answered
    <3> QED BY <1>1, <3>1, <3>2, <3>3 DEF Answered
  <2> QED BY <2>1, <2>2
<1>9. ASSUME faults = 0 PROVE Covered' /\ Calm'
  <2>1. /\ Covered /\ Calm /\ position \in Int /\ stop \in Nat
    BY <1>9 DEF Known, CoverInv, Typed
  <2>2. \A u \in DOMAIN orders : orders[u].filled \in Nat /\ orders[u].qty \in Nat
    BY DEF Known, OrderType
  <2>3. Calm'
    <3>1. pc # "sell" /\ ~(pc = "size" /\ broker = "alpaca")
      BY <1>2, <1>3, <2>1 DEF Calm, LiveSell, Live
    <3>2. broker' = broker /\ (pc \in BuyOrder \cup SellOrder => Len(orders) \in DOMAIN orders)
      BY DEF Known
    <3>3. \A u \in DOMAIN orders' : Live(u)' => Live(u)
      BY <1>4 DEF Live
    <3>4. /\ stuck' = 0 /\ \A u \in DOMAIN orders' : ~orders'[u].stuck
          /\ \A u, w \in DOMAIN orders' : LiveSell(u)' /\ LiveSell(w)' => u = w
      BY <1>1, <1>4, <2>1, <3>3 DEF Calm, LiveSell
    <3>5. \A u \in DOMAIN orders' : Live(u)' /\ orders'[u].side = "BUY" =>
               u = Len(orders') /\ pc' \in {"poll", "trim", "precheck", "cancel"}
      BY <1>1, <1>4, <2>1, <3>3 DEF Calm
    <3>6. /\ pc \in {"recheck", "settle", "restop", "sellrecheck"} => Order.st # "live"
          /\ pc \in {"settle", "restop"} => seen = Order.filled
          /\ pc = "verify" /\ broker = "tradier" => Order.st # "live" /\ seen = Order.filled
          /\ pc # "lookup"
      BY <2>1 DEF Calm
    <3>7. Order.st # "live" /\ pc \in BuyOrder \cup SellOrder => Order' = Order
      BY <1>4, <3>2
    <3> QED BY <1>1, <3>1, <3>2, <3>4, <3>5, <3>6, <3>7 DEF Calm
  <2>4. CASE orders[o].side = "BUY"
    <3>1. o = Len(orders) /\ pc \in {"poll", "trim", "precheck", "cancel"} /\ broker' = broker
      BY <1>2, <2>1, <2>4 DEF Calm, Live, Known
    <3>2. /\ Uncovered = orders[o].filled
          /\ Uncovered' = IF broker = "alpaca" /\ all THEN 0 ELSE orders[o].filled + n
      BY <1>1, <1>2, <1>4, <3>1 DEF Uncovered
    <3>3. position' - stop' - Uncovered' = position - stop - Uncovered
      BY <1>1, <1>2, <1>3, <2>1, <2>4, <3>2
    <3>4. Uncovered \in Nat /\ Uncovered' \in Nat
      BY <1>2, <1>3, <3>2
    <3>5. \A u \in DOMAIN orders' : LiveSell(u)' => LiveSell(u) /\ Rest(u)' = Rest(u)
      BY <1>4, <2>4 DEF LiveSell, Live, Rest
    <3>6. position' - stop' >= Uncovered'
      <4>1. position - stop >= Uncovered
        BY <2>1 DEF Covered
      <4> QED BY <1>1, <1>2, <1>3, <2>1, <2>4, <3>2, <4>1
    <3>7. \A u \in DOMAIN orders' : LiveSell(u)' => position' - stop' - Uncovered' >= Rest(u)'
      BY <1>4, <2>1, <3>3, <3>5 DEF Covered
    <3>8. Covered'
      BY <3>6, <3>7 DEF Covered
    <3> QED BY <2>3, <3>8
  <2>5. CASE orders[o].side = "SELL"
    <3>1. /\ LiveSell(o) /\ broker' = broker
      BY <1>2, <2>5 DEF LiveSell, Live, Known
    <3>2. pc \in Bought => Order' = Order
      BY <1>4, <2>5 DEF Known, Working
    <3>3. Uncovered' = Uncovered /\ Uncovered \in Nat
      BY <1>1, <2>2, <3>1, <3>2 DEF Uncovered, Known
    <3>4. stop' = stop /\ position' = position - n
      BY <1>1, <1>3, <2>5
    <3>5. \A u \in DOMAIN orders' : LiveSell(u)' => u = o
      BY <1>4, <2>1, <3>1 DEF LiveSell, Live, Calm
    <3>6. position - stop - Uncovered >= Rest(o) /\ Rest(o) >= n /\ Rest(o)' = Rest(o) - n
          /\ Rest(o) \in Int
      BY <1>2, <1>3, <1>4, <2>1, <3>1 DEF Covered, Rest
    <3>7. position' - stop' >= Uncovered' /\ position' - stop' - Uncovered' >= Rest(o)'
      BY <1>2, <2>1, <3>3, <3>4, <3>6
    <3>8. Covered'
      BY <3>5, <3>7 DEF Covered
    <3> QED BY <2>3, <3>8
  <2> QED BY <1>3, <2>4, <2>5
<1>10. CoverInv'
  BY <1>1, <1>9 DEF CoverInv
<1>11. BooksInv'
  <2> SUFFICES ASSUME faults = 0, slips = {} PROVE BooksInv'
    BY <1>1 DEF BooksInv
  <2>1. /\ position = held + Pending /\ held \in Int /\ position \in Int /\ stop \in Nat
        /\ o = Len(orders) /\ pc \in {"poll", "trim", "precheck", "cancel", "sellpoll", "selltrim", "verify"}
        /\ \A u \in DOMAIN orders : Live(u) => u = Len(orders)
        /\ Covered /\ Calm
    BY <1>2 DEF Known, Typed, BooksInv, CoverInv, Live
  <2>2. \A u \in DOMAIN orders' : Live(u)' => u = Len(orders') /\ pc' \in {"poll", "trim", "precheck",
                                                 "cancel", "sellpoll", "selltrim", "verify"}
    BY <1>1, <1>4, <2>1 DEF Live
  <2>3. CASE orders[o].side = "BUY"
    <3>1. pc \in {"poll", "trim", "precheck", "cancel"} /\ broker' = broker
      BY <1>2, <2>1, <2>3 DEF Calm, Live, Known
    <3>2. position' = held' + Pending'
      BY <1>1, <1>2, <1>3, <1>4, <2>1, <2>3, <3>1 DEF Pending
    <3>3. broker = "alpaca" /\ held = 0 => stop = 0
      BY <1>2, <1>3, <2>1, <3>1 DEF Covered, Uncovered, Pending
    <3>4. broker' = "alpaca" /\ held' = 0 /\ Order'.st = "filled" => stop' = Order'.qty
      BY <1>1, <1>3, <1>4, <2>1, <2>3, <3>1, <3>3
    <3> QED BY <1>1, <2>2, <3>1, <3>2, <3>4 DEF BooksInv
  <2>4. CASE orders[o].side = "SELL"
    <3>1. pc \in {"sellpoll", "selltrim", "verify"}
      BY <2>1, <2>4 DEF Known, Working
    <3>2. position' = held' + Pending'
      <4>1. Pending = 0 - Order.filled /\ Pending' = 0 - Order'.filled
        BY <1>1, <3>1 DEF Pending, Bought, SellOrder
      <4>2. position' = position - n /\ held' = held
        BY <1>1, <2>4
      <4>3. Order'.filled = Order.filled + n
        BY <1>4, <2>1
      <4>4. Order.filled \in Int /\ n \in Int /\ held \in Int
        BY <1>2, <1>3, <2>1
      <4>5. position = held - Order.filled
        BY <2>1, <4>1, <4>4, SMTT(30)
      <4> QED BY <4>1, <4>2, <4>3, <4>4, <4>5, SMTT(30)
    <3> QED BY <1>1, <2>2, <3>1, <3>2 DEF BooksInv
  <2> QED BY <1>3, <2>3, <2>4
<1>12. OwedInv'
  <2> SUFFICES ASSUME slips' = {} PROVE OwedInv'
    BY DEF OwedInv
  <2>1. slips = {} /\ faults' = faults /\ Qty \in Nat /\ position \in Int /\ held \in Int
    BY <1>1, BrokerAccountAssumption DEF Known, Typed
  <2>2. /\ pc \in BuyOrder \cup SellOrder => Len(orders) \in DOMAIN orders
        /\ \A u \in DOMAIN orders : orders[u].filled \in Nat /\ orders[u].qty \in Nat
    BY DEF Known, OrderType
  <2>3. Unsure' => Unsure
    <3>1. pc \in {"recheck", "settle", "restop"} => Len(orders) \in DOMAIN orders
      BY <2>2
    <3> QED BY <1>1, <1>4, <3>1 DEF Unsure
  <2>4. Pending \in Int /\ Pending' \in Int
    <3>1. pc \in Bought \cup SellOrder => Order.filled \in Int /\ Order'.filled \in Int
      BY <1>2, <1>3, <1>4, <2>2 DEF Bought, BuyOrder
    <3> QED BY <1>1, <3>1 DEF Pending
  <2>5. /\ pc \in BuyOrder => Order.side = "BUY"
        /\ pc \in SellOrder => Order.side = "SELL"
    BY DEF Known, Working, BuySteps, BuyOrder, SellSteps, SellOrder
  <2>6. CASE ~Stray(o)
    <3>1. StraysFrom(0, 0)
      BY <1>1, <1>4, <2>6 DEF StraysFrom, Stray, Live, Rest
    <3>2. Gap' <= Gap
      <4>1. \/ position' - Pending' = position - Pending
            \/ position' = position - n /\ Pending' = Pending
        <5>1. CASE orders[o].side = "BUY"
          <6>1. o = Len(orders) /\ pc \in Bought
            BY <1>2, <2>6, <5>1 DEF Stray, Live
          <6>2. Pending' = Pending + n /\ position' = position + n
            BY <1>1, <1>3, <1>4, <5>1, <6>1 DEF Pending
          <6> QED BY <1>2, <2>1, <2>4, <6>2
        <5>2. CASE orders[o].side = "SELL" /\ o = Len(orders) /\ pc \in SellOrder
          <6>1. Pending' = Pending - n /\ position' = position - n
            BY <1>1, <1>2, <1>3, <1>4, <5>2 DEF Pending, Bought, SellOrder
          <6> QED BY <1>2, <2>1, <2>4, <6>1
        <5>3. CASE orders[o].side = "SELL" /\ ~(o = Len(orders) /\ pc \in SellOrder)
          <6>1. pc \in Bought \cup SellOrder => Order' = Order
            BY <1>4, <2>2, <2>5, <5>3 DEF Bought, BuyOrder
          <6>2. pc' = pc
            BY <1>1
          <6>3. Pending' = Pending
            BY <6>1, <6>2 DEF Pending
          <6> QED BY <1>1, <5>3, <6>3
        <5> QED BY <1>3, <5>1, <5>2, <5>3
      <4>2. PICK a \in Int, b \in Int, x \in Int, y \in Int, h \in Int :
               a = Pending /\ b = Pending' /\ x = position /\ y = position' /\ h = held
        BY <1>5, <2>1, <2>4
      <4>3. (y - b = x - a) \/ (y = x - n /\ b = a)
        BY <4>1, <4>2
      <4>4. y - h - b <= x - h - a
        BY <1>2, <4>3
      <4>5. Gap' = y - h - b /\ Gap = x - h - a
        BY <1>1, <4>2 DEF Gap
      <4> QED BY <4>4, <4>5
    <3> QED BY <1>1, <1>4, <1>6, <1>7, <2>1, <2>3, <3>1, <3>2, Quiet
  <2>7. CASE Stray(o)
    <3>1. orders[o].side = "BUY" /\ ~(o = Len(orders) /\ pc \in BuyOrder \cap Bought) /\ orders[o].qty = Qty
      BY <2>7 DEF Stray, Known, IsOrder, BuyOrder, Bought
    <3>2. Exposed' = Exposed + n
      <4>1. pc \in BuyOrder \cup SellOrder => Order' = Order \/ (pc = "decide" /\ o = Len(orders))
        BY <1>4, <2>2, <2>5, <2>7, <3>1 DEF Stray, BuyOrder, SellOrder, Bought
      <4>2. Pending' = Pending
        BY <1>1, <4>1 DEF Pending, Bought, BuyOrder, SellOrder
      <4>3. Unsure' = Unsure
        BY <1>1, <4>1 DEF Unsure, BuyOrder, SellOrder
      <4>4. PICK a \in Int, x \in Int, y \in Int, h \in Int, q \in Int :
               /\ a = Pending /\ a = Pending' /\ x = position /\ y = position'
               /\ h = held /\ h = held' /\ q = Qty
        BY <1>1, <1>5, <2>1, <2>4, <4>2
      <4>5. y = x + n
        BY <1>1, <3>1, <4>4
      <4>6. Gap = x - h - a /\ Gap' = y - h - a
        BY <4>4 DEF Gap
      <4>7. (IF Unsure THEN y - h - a + q ELSE y - h - a) = (IF Unsure THEN x - h - a + q ELSE x - h - a) + n
        BY <1>2, <4>4, <4>5
      <4> QED BY <4>3, <4>4, <4>6, <4>7 DEF Exposed
    <3> DEFINE r == Rest(o)
               B == {o} \X (r - n + 1 .. r)
    <3>3. r \in Nat /\ n <= r /\ r <= Qty /\ Rest(o)' = r - n
      BY <1>2, <1>3, <1>4, <2>1, <3>1 DEF Rest
    <3>4. Loose' \subseteq Loose
      <4> SUFFICES ASSUME NEW p \in Loose' PROVE p \in Loose
        OBVIOUS
      <4>1. /\ p \in (DOMAIN orders) \X (1 .. Qty) /\ Stray(p[1])' /\ p[2] <= Rest(p[1])'
        BY <1>4 DEF Loose
      <4>2. p[1] \in DOMAIN orders /\ p[2] \in 1 .. Qty
        BY <4>1
      <4>3. Stray(p[1])
        BY <1>1, <1>4, <4>1, <4>2 DEF Stray, Live
      <4>4. p[2] <= Rest(p[1])
        <5>1. CASE p[1] = o
          BY <1>2, <2>1, <3>3, <4>1, <4>2, <5>1
        <5>2. CASE p[1] # o
          BY <1>4, <4>1, <4>2, <5>2 DEF Rest
        <5> QED BY <5>1, <5>2
      <4> QED BY <4>1, <4>3, <4>4 DEF Loose
    <3>5. B \subseteq Loose /\ Loose' \cap B = {}
      <4>1. ASSUME NEW p \in B PROVE p \in Loose /\ p \notin Loose'
        <5>1. p[1] = o /\ p[2] \in r - n + 1 .. r /\ p = <<p[1], p[2]>>
          OBVIOUS
        <5>2. p[2] \in 1 .. Qty /\ p[2] <= r /\ ~(p[2] <= r - n)
          BY <1>2, <2>1, <3>3, <5>1
        <5>3. p \in (DOMAIN orders) \X (1 .. Qty)
          BY <5>1, <5>2
        <5> QED BY <2>7, <3>3, <5>1, <5>2, <5>3 DEF Loose
      <4> QED BY <4>1
    <3>6. IsFiniteSet(B) /\ Cardinality(B) = n
      <4>1. r - n + 1 \in Int /\ r \in Int /\ r - n + 1 <= r + 1 /\ r - (r - n + 1) + 1 = n
        BY <1>2, <3>3
      <4>2. IsFiniteSet({o} \X (r - n + 1 .. r)) /\ Cardinality({o} \X (r - n + 1 .. r)) = r - (r - n + 1) + 1
        BY <4>1, BlockSize
      <4> QED BY <4>1, <4>2
    <3> HIDE DEF B, r
    <3>7. /\ IsFiniteSet(Loose) /\ Cardinality(Loose) \in Nat /\ Exposed \in Int
      BY LooseFinite, ExposedInt DEF Known
    <3>8. IsFiniteSet(Loose') /\ Cardinality(Loose') \in Nat
      BY <3>4, <3>7, FS_Subset, FS_CardinalityType
    <3>9. Cardinality(Loose') + n <= Cardinality(Loose)
      <4>1. /\ IsFiniteSet(Loose' \cup B)
            /\ Cardinality(Loose' \cup B) = Cardinality(Loose') + Cardinality(B) - Cardinality(Loose' \cap B)
        BY <3>6, <3>8, FS_Union
      <4>2. Cardinality(Loose' \cap B) = 0
        BY <3>5, FS_EmptySet
      <4>3. Cardinality(Loose' \cup B) <= Cardinality(Loose)
        <5>1. Loose' \cup B \subseteq Loose
          BY <3>4, <3>5
        <5> QED BY <3>7, <5>1, FS_Subset
      <4> QED BY <1>2, <3>6, <3>8, <4>1, <4>2, <4>3
    <3>10. PICK e \in Int, a \in Int, b \in Int, m \in Int :
              e = Exposed /\ a = Cardinality(Loose) /\ b = Cardinality(Loose') /\ m = faults * Qty
      <4>1. faults * Qty \in Int
        BY BrokerAccountAssumption DEF Known, Typed
      <4> QED BY <3>7, <3>8, <4>1
    <3>11. e + a <= m
      BY <2>1, <3>10 DEF Known, OwedInv
    <3>12. b + n <= a /\ Exposed' = e + n
      BY <3>2, <3>9, <3>10
    <3>13. e + n + b <= m
      BY <1>2, <3>10, <3>11, <3>12
    <3> QED BY <2>1, <3>10, <3>12, <3>13 DEF OwedInv
  <2> QED BY <2>6, <2>7
<1> QED BY <1>4, <1>6, <1>7, <1>8, <1>10, <1>11, <1>12 DEF Keeps

-----------------------------------------------------------------------------
(* TradierBroker                                                             *)

\* The next attempt, or the end of the request.
LEMMA GoingAgain ==
    ASSUME Known, broker = "tradier", pc \in {"submit", "cancel"}, Tradier!Again, OrdersOK',
           UNCHANGED <<stop, stuck, position, req, seen>>, faults' \in 0 .. MaxFaults,
           slips' \subseteq {"stopped", "late", "left"}
    PROVE  /\ Typed' /\ Working' /\ Answered' /\ pc' \in {"submit", "idle"} /\ held' = held
           /\ \A i \in DOMAIN answers' : answers'[i].kind = "FAIL"
<1>1. /\ stop' \in Nat /\ stuck' \in 0 .. stop' /\ seen' \in Int /\ broker' = "tradier"
  BY DEF Known, Typed
<1>2. \/ attempt < MaxRetries /\ attempt' = attempt + 1 /\ Goto("submit")
      \/ attempt' = attempt /\ Answer("FAIL", 0)
  BY TradierWords DEF Tradier!Again
<1>3. CASE attempt < MaxRetries /\ attempt' = attempt + 1 /\ Goto("submit")
  <2>1. pc' = "submit" /\ answers' = answers /\ held' = held
    BY <1>3 DEF Goto
  <2>2. Answered' /\ answers' = <<>>
    BY <2>1, Unanswered DEF Known
  <2>3. attempt' \in 1 .. MaxRetries
    BY <1>3, BrokerAccountAssumption DEF Known, Typed
  <2>4. Typed'
    BY <1>1, <2>1, <2>3 DEF Known, Typed
  <2>5. Working'
    BY <2>1 DEF Known, Working, Looked
  <2> QED BY <2>1, <2>2, <2>4, <2>5
<1>4. CASE attempt' = attempt /\ Answer("FAIL", 0)
  BY <1>1, <1>4, Finishing
<1> QED BY <1>2, <1>3, <1>4

LEMMA TradierSubmits ==
    ASSUME Known, broker = "tradier", Tradier!BuySubmit \/ Tradier!BuySubmitLost
    PROVE  Keeps
<1>1. /\ pc = "submit" /\ UNCHANGED <<stop, stuck, position, req, seen, slips>>
      /\ \/ /\ faults' = faults /\ Goto("poll") /\ attempt' = attempt
            /\ orders' = Append(orders, NewOrder("BUY", req.qty, FALSE))
         \/ faults' = faults /\ orders' = orders /\ Tradier!Again
         \/ /\ faults < MaxFaults /\ faults' = faults + 1 /\ Tradier!Again
            /\ orders' = orders \/ orders' = Append(orders, NewOrder("BUY", req.qty, FALSE))
  BY TradierWords DEF Tradier!BuySubmit, Tradier!BuySubmitLost, Tradier!Works, Tradier!Fails
<1>2. req.id \in 1 .. MaxRequests /\ req.qty = Qty /\ Qty \in Nat \ {0}
  <2>1. req.id \in 0 .. MaxRequests /\ MaxRequests \in Nat /\ Qty \in Nat \ {0}
    BY BrokerAccountAssumption DEF Known, Typed
  <2>2. req.id > 0 /\ req.qty = Qty
    BY <1>1 DEF Known, Working
  <2> QED BY <2>1, <2>2
<1>3. orders' = orders \/ Placed("BUY", Qty, FALSE)
  <2>1. orders' = Append(orders, NewOrder("BUY", req.qty, FALSE)) => Placed("BUY", Qty, FALSE)
    BY <1>2, Placing DEF Known
  <2> QED BY <1>1, <2>1
<1>4. OrdersOK'
  BY <1>3, OrdersSame DEF Placed
<1>5. faults' \in 0 .. MaxFaults /\ faults \in Int /\ slips' \subseteq {"stopped", "late", "left"}
  <2>1. slips' \subseteq {"stopped", "late", "left"}
    BY <1>1 DEF Known, Typed
  <2>2. \/ faults' = faults
        \/ faults < MaxFaults /\ faults' = faults + 1
    BY <1>1
  <2> QED BY <2>1, <2>2, BrokerAccountAssumption DEF Known, Typed
<1>6. CASE /\ faults' = faults /\ Goto("poll") /\ attempt' = attempt
           /\ orders' = Append(orders, NewOrder("BUY", req.qty, FALSE))
  <2>1. Placed("BUY", Qty, FALSE)
    BY <1>2, <1>6, Placing DEF Known
  <2>2. pc' = "poll" /\ Answered' /\ answers' = <<>> /\ held' = held /\ broker' = "tradier"
    BY <1>1, <1>6, Unanswered DEF Known, Goto
  <2>3. Typed'
    BY <1>1, <1>6, <2>2 DEF Known, Typed
  <2>4. /\ Len(orders') = Len(orders) + 1 /\ Len(orders) \in Nat
        /\ Order'.side = "BUY" /\ Order'.qty = Qty /\ Order'.filled = 0 /\ Order'.st = "live"
    BY <2>1 DEF Placed, Known
  <2>5. Working'
    BY <1>1, <1>2, <2>2, <2>4 DEF Known, Working, Looked
  <2>6. ASSUME faults = 0 PROVE Covered' /\ Calm'
    <3>1. Covered /\ Calm
      BY <2>6 DEF Known, CoverInv
    <3>2. Covered'
      BY <1>1, <2>1, <2>2, <2>4, <3>1 DEF Known, Typed, Covered, Uncovered, LiveSell, Rest, Live, Placed
    <3>3. Calm'
      BY <1>1, <2>1, <2>2, <2>4, <3>1 DEF Known, Calm, LiveSell, Live, Placed
    <3> QED BY <3>2, <3>3
  <2>7. CoverInv'
    BY <1>6, <2>6 DEF CoverInv
  <2>8. BooksInv'
    <3> SUFFICES ASSUME faults = 0, slips = {} PROVE BooksInv'
      BY <1>1, <1>6 DEF BooksInv
    <3>1. /\ position = held + Pending /\ Pending = 0 /\ position' = position
          /\ \A o \in DOMAIN orders : ~Live(o)
      BY <1>1 DEF Known, BooksInv, Pending, Bought, SellOrder
    <3>2. Pending' = 0
      BY <2>2, <2>4 DEF Pending
    <3>3. \A o \in DOMAIN orders' : Live(o)' => o = Len(orders')
      BY <2>1, <2>4, <3>1 DEF Live, Placed
    <3> QED BY <2>2, <2>4, <3>1, <3>2, <3>3 DEF BooksInv
  <2>9. OwedInv'
    <3>1. StraysFrom(0, 0) /\ Gap' = Gap /\ ~Unsure'
      BY <1>1, <2>1, <2>2, <2>4 DEF StraysFrom, Stray, Live, Rest, Unsure, Gap, Pending, Placed
    <3> QED BY <1>1, <1>4, <1>6, <2>3, <2>5, <3>1, Quiet
  <2> QED BY <1>4, <2>2, <2>3, <2>5, <2>7, <2>8, <2>9 DEF Keeps
<1>7. CASE Tradier!Again
  <2>1. /\ Typed' /\ Working' /\ Answered' /\ pc' \in {"submit", "idle"} /\ held' = held
        /\ \A i \in DOMAIN answers' : answers'[i].kind = "FAIL"
    BY <1>1, <1>4, <1>5, <1>7, GoingAgain
  <2>2. OwedInv'
    <3>1. Gap' = Gap /\ ~Unsure'
      BY <1>1, <2>1 DEF Gap, Pending, Unsure
    <3>2. CASE orders' = orders
      <4>1. StraysFrom(0, 0)
        BY <1>1, <2>1, <3>2 DEF StraysFrom, Stray, Live, Rest
      <4> QED BY <1>1, <1>4, <2>1, <3>1, <4>1, Quiet
    <3>3. CASE faults' = faults + 1 /\ Placed("BUY", Qty, FALSE)
      <4>1. StraysFrom(Len(orders) + 1, Qty)
        BY <1>1, <1>2, <2>1, <3>3 DEF StraysFrom, Stray, Live, Rest, Placed
      <4>2. Gap' <= Gap
        BY <3>1, GapInt DEF Known
      <4> QED BY <1>1, <1>4, <2>1, <3>1, <3>3, <4>1, <4>2, Abandoning
    <3>4. CASE Goto("poll")
      BY <2>1, <3>4 DEF Goto
    <3> QED BY <1>1, <1>3, <3>2, <3>3, <3>4
  <2>3. CASE faults' = faults + 1
    BY <1>4, <2>1, <2>3, <2>2, Failing DEF Keeps
  <2>4. CASE faults' = faults /\ orders' = orders
    <3>1. CoverInv'
      BY <1>1, <2>1, <2>4 DEF Known, CoverInv, Covered, Calm, Uncovered, LiveSell, Rest, Live
    <3>2. BooksInv'
      BY <1>1, <2>1, <2>4 DEF Known, BooksInv, Pending, Live
    <3> QED BY <1>4, <2>1, <3>1, <3>2, <2>2 DEF Keeps
  <2>5. CASE faults' = faults /\ Goto("poll")
    BY <2>1, <2>5 DEF Goto
  <2> QED BY <1>1, <2>3, <2>4, <2>5
<1> QED BY <1>1, <1>6, <1>7

LEMMA TradierPolls ==
    ASSUME Known, broker = "tradier", Tradier!BuyPoll \/ Tradier!SellPoll \/ Tradier!BuyPollEnds
    PROVE  Keeps
<1>1. /\ \/ pc = "poll" /\ pc' = "trim" /\ Partial /\ seen' = Order.filled
         \/ pc = "poll" /\ pc' = "restop" /\ Order.st # "live" /\ seen' = Order.filled
         \/ pc = "sellpoll" /\ pc' = "selltrim" /\ Partial /\ seen' = Order.filled
         \/ pc = "sellpoll" /\ pc' = "verify" /\ Order.st # "live" /\ seen' = Order.filled
         \/ pc = "poll" /\ pc' = "cancel" /\ seen' = seen
      /\ UNCHANGED <<answers, held, orders, stop, stuck, position, req, attempt, faults, slips>>
  BY TradierWords DEF Tradier!BuyPoll, Tradier!SellPoll, Tradier!BuyPollEnds, Tradier!PollAs,
                      Goto, Tradier!exchange, Tradier!client
<1>2. /\ OrdersOK' /\ Order' = Order /\ Answered' /\ answers' = <<>>
      /\ Len(orders) \in DOMAIN orders /\ Order \in OrderType /\ Order.filled \in Nat
      /\ broker' = "tradier"
  BY <1>1, OrdersSame, Unanswered DEF Known, OrderType
<1>3. Typed'
  <2>1. seen' \in Int /\ pc' \in {"idle"} \cup BuySteps \cup SellSteps
    BY <1>1, <1>2 DEF Known, Typed
  <2> QED BY <1>1, <1>2, <2>1 DEF Known, Typed
<1>4. Working'
  BY <1>1, <1>2 DEF Known, Working, Looked
<1>5. ASSUME faults = 0 PROVE Covered' /\ Calm'
  <2>1. Covered /\ Calm
    BY <1>5 DEF Known, CoverInv
  <2>2. Covered'
    BY <1>1, <1>2, <2>1 DEF Known, Covered, Uncovered, LiveSell, Rest, Live
  <2>3. Calm'
    BY <1>1, <1>2, <2>1 DEF Known, Calm, LiveSell, Live, Partial
  <2> QED BY <2>2, <2>3
<1>6. CoverInv'
  BY <1>1, <1>5 DEF CoverInv
<1>7. BooksInv'
  BY <1>1, <1>2 DEF Known, BooksInv, Pending, Live
<1>8. OwedInv'
  <2>1. StraysFrom(0, 0) /\ Gap' = Gap /\ (Unsure' => Unsure)
    BY <1>1, <1>2 DEF Known, StraysFrom, Stray, Live, Rest, Unsure, Gap, Pending, Partial
  <2> QED BY <1>1, <1>2, <1>3, <1>4, <2>1, Quiet
<1> QED BY <1>2, <1>3, <1>4, <1>6, <1>7, <1>8 DEF Keeps

LEMMA TradierTrims ==
    ASSUME Known, broker = "tradier", Tradier!BuyTrim \/ Tradier!SellTrim
    PROVE  Keeps
<1>1. /\ \/ pc = "trim" /\ pc' = "recheck"
         \/ pc = "selltrim" /\ pc' = "sellrecheck"
      /\ \/ faults' = faults /\ orders' = Cancelled({Len(orders)})
         \/ faults < MaxFaults /\ faults' = faults + 1 /\ orders' = orders
      /\ UNCHANGED <<answers, held, stop, stuck, position, req, attempt, seen, slips>>
  BY TradierWords DEF Tradier!BuyTrim, Tradier!SellTrim, Tradier!Trim, Tradier!CancelOrder, Goto,
                      Tradier!Works, Tradier!Fails, Tradier!client
<1>2. PICK os : Ended(os) /\ SameMarks /\ (faults' = faults => os = {Len(orders)})
  <2>1. CASE faults' = faults /\ orders' = Cancelled({Len(orders)})
    BY <2>1, Ending DEF Known
  <2>2. CASE faults' = faults + 1 /\ orders' = orders
    <3>1. Ended({}) /\ SameMarks
      BY <2>2, EndingNone DEF Known
    <3>2. faults' # faults
      BY <2>2 DEF Known, Typed
    <3> QED BY <3>1, <3>2
  <2> QED BY <1>1, <2>1, <2>2
<1>3. OrdersOK' /\ Answered' /\ answers' = <<>> /\ broker' = "tradier"
  BY <1>1, <1>2, Unanswered DEF Known, Ended
<1>4. Typed'
  <2>1. faults' \in 0 .. MaxFaults /\ pc' \in {"idle"} \cup BuySteps \cup SellSteps
    BY <1>1, BrokerAccountAssumption DEF Known, Typed
  <2> QED BY <1>1, <2>1 DEF Known, Typed
<1>5. /\ Len(orders') = Len(orders) /\ Len(orders) \in DOMAIN orders /\ Order \in OrderType
      /\ Order'.side = Order.side /\ Order'.qty = Order.qty /\ Order'.filled = Order.filled
      /\ Order'.st = IF Len(orders) \in os /\ Order.st = "live" THEN "cancelled" ELSE Order.st
  BY <1>1, <1>2 DEF Known, Ended
<1>6. Working'
  BY <1>1, <1>3, <1>5 DEF Known, Working, Looked
<1>7. OwedInv'
  <2>1. StraysFrom(0, 0) /\ Gap' = Gap /\ (Unsure' => faults' = faults + 1)
    BY <1>1, <1>2, <1>3, <1>5 DEF Known, StraysFrom, Stray, Live, Rest, Unsure, Gap, Pending, Ended
  <2> QED BY <1>1, <1>3, <1>4, <1>6, <2>1, Quiet
<1>8. CASE faults' = faults
  <2>1. ASSUME faults = 0 PROVE Covered' /\ Calm'
    <3>1. Covered /\ Calm /\ os = {Len(orders)} /\ position \in Int /\ stop \in Int
      BY <1>2, <1>8, <2>1 DEF Known, CoverInv, Typed
    <3>2. Uncovered' = Uncovered
      BY <1>1, <1>3, <1>5, <3>1 DEF Known, Uncovered
    <3>3. Covered'
      BY <1>1, <1>2, <1>5, <3>1, <3>2 DEF Covered, LiveSell, Rest, Live, Ended
    <3>4. Calm'
      BY <1>1, <1>2, <1>3, <1>5, <3>1 DEF Known, Calm, LiveSell, Live, Ended, SameMarks
    <3> QED BY <3>3, <3>4
  <2>2. CoverInv'
    BY <1>8, <2>1 DEF CoverInv
  <2>3. BooksInv'
    BY <1>1, <1>2, <1>3, <1>5, <1>8 DEF Known, BooksInv, Pending, Live, Ended
  <2> QED BY <1>3, <1>4, <1>6, <2>2, <2>3, <1>7 DEF Keeps
<1>9. CASE faults' = faults + 1
  BY <1>3, <1>4, <1>6, <1>9, <1>7, Failing DEF Keeps
<1> QED BY <1>1, <1>8, <1>9

LEMMA TradierRechecks ==
    ASSUME Known, broker = "tradier", Tradier!BuyRecheck \/ Tradier!SellRecheck
    PROVE  Keeps
<1>1. /\ \/ pc = "recheck" /\ pc' = "restop"
         \/ pc = "sellrecheck" /\ pc' = "verify"
      /\ \/ faults' = faults /\ seen' = Order.filled
         \/ faults < MaxFaults /\ faults' = faults + 1 /\ seen' = seen
      /\ UNCHANGED <<answers, held, orders, stop, stuck, position, req, attempt, slips>>
  BY TradierWords DEF Tradier!BuyRecheck, Tradier!SellRecheck, Tradier!Recheck, Goto,
                      Tradier!Works, Tradier!Fails, Tradier!exchange
<1>2. OrdersOK' /\ Order' = Order /\ Answered' /\ answers' = <<>> /\ broker' = "tradier"
  BY <1>1, OrdersSame, Unanswered DEF Known
<1>3. Len(orders) \in DOMAIN orders /\ Order \in OrderType
  BY <1>1 DEF Known
<1>4. Order.filled \in Nat /\ seen \in Int /\ 0 <= seen /\ seen <= Order.filled
  BY <1>1, <1>3 DEF Known, Typed, Working, Looked, OrderType
<1>5. seen' \in Int /\ 0 <= seen' /\ seen' <= Order.filled
  BY <1>1, <1>4
<1>6. Typed'
  <2>1. faults' \in 0 .. MaxFaults /\ pc' \in {"idle"} \cup BuySteps \cup SellSteps
    BY <1>1, BrokerAccountAssumption DEF Known, Typed
  <2> QED BY <1>1, <1>5, <2>1 DEF Known, Typed
<1>7. Working'
  BY <1>1, <1>2, <1>5 DEF Known, Working, Looked
<1>8. OwedInv'
  <2>1. StraysFrom(0, 0) /\ Gap' = Gap /\ (Unsure' => Unsure \/ faults' = faults + 1)
    BY <1>1, <1>2 DEF Known, StraysFrom, Stray, Live, Rest, Unsure, Gap, Pending
  <2> QED BY <1>1, <1>2, <1>6, <1>7, <2>1, Quiet
<1>9. CASE faults' = faults
  <2>1. ASSUME faults = 0 PROVE Covered' /\ Calm'
    <3>1. Covered /\ Calm /\ seen' = Order.filled
      BY <1>1, <1>9, <2>1 DEF Known, CoverInv, Typed
    <3>2. Covered'
      BY <1>1, <1>2, <3>1 DEF Known, Covered, Uncovered, LiveSell, Rest, Live
    <3>3. Calm'
      BY <1>1, <1>2, <3>1 DEF Known, Calm, LiveSell, Live
    <3> QED BY <3>2, <3>3
  <2>2. CoverInv'
    BY <1>9, <2>1 DEF CoverInv
  <2>3. BooksInv'
    <3> SUFFICES ASSUME faults = 0, slips = {} PROVE BooksInv'
      BY <1>1, <1>9 DEF BooksInv
    <3>1. pc' # "sellpoll" /\ \A o \in DOMAIN orders : ~Live(o)
      BY <1>1 DEF Known, BooksInv, CoverInv, Calm, Live
    <3> QED BY <1>1, <1>2, <3>1 DEF Known, BooksInv, Pending, Live
  <2> QED BY <1>2, <1>6, <1>7, <2>2, <2>3, <1>8 DEF Keeps
<1>10. CASE faults' = faults + 1
  BY <1>2, <1>6, <1>7, <1>10, <1>8, Failing DEF Keeps
<1> QED BY <1>1, <1>9, <1>10

LEMMA TradierCancels ==
    ASSUME Known, broker = "tradier", Tradier!BuyCancel
    PROVE  Keeps
<1>1. /\ pc = "cancel" /\ Tradier!Again /\ Slip("late", Order.filled > 0)
      /\ \/ faults' = faults /\ orders' = Cancelled({Len(orders)})
         \/ faults < MaxFaults /\ faults' = faults + 1 /\ orders' = orders
      /\ UNCHANGED <<stop, stuck, position, req, seen>>
  BY TradierWords DEF Tradier!BuyCancel, Tradier!CancelOrder, Tradier!Works, Tradier!Fails
<1>2. PICK os : Ended(os) /\ SameMarks /\ (faults' = faults => os = {Len(orders)})
  <2>1. CASE faults' = faults /\ orders' = Cancelled({Len(orders)})
    BY <2>1, Ending DEF Known
  <2>2. CASE faults' = faults + 1 /\ orders' = orders
    <3>1. Ended({}) /\ SameMarks
      BY <2>2, EndingNone DEF Known
    <3>2. faults' # faults
      BY <2>2 DEF Known, Typed
    <3> QED BY <3>1, <3>2
  <2> QED BY <1>1, <2>1, <2>2
<1>3. OrdersOK' /\ broker' = "tradier" /\ Len(orders') = Len(orders)
      /\ Len(orders) \in DOMAIN orders /\ Order \in OrderType /\ Order.filled \in Nat
  BY <1>1, <1>2 DEF Known, Ended, OrderType
<1>4. /\ slips' \subseteq {"stopped", "late", "left"}
      /\ slips' = {} => slips = {} /\ ~(Order.filled > 0)
  BY <1>1, Slipping
<1>5. faults' \in 0 .. MaxFaults
  BY <1>1, BrokerAccountAssumption DEF Known, Typed
<1>6. /\ Typed' /\ Working' /\ Answered' /\ pc' \in {"submit", "idle"} /\ held' = held
      /\ \A i \in DOMAIN answers' : answers'[i].kind = "FAIL"
  BY <1>1, <1>3, <1>4, <1>5, GoingAgain
<1>7. OwedInv'
  BY <1>1, <1>2, <1>3, <1>6, LettingGo
<1>8. CASE faults' = faults
  <2>1. ASSUME faults = 0 PROVE Covered' /\ Calm'
    <3>1. Covered /\ Calm /\ os = {Len(orders)} /\ position \in Int /\ stop \in Int
      BY <1>2, <1>8, <2>1 DEF Known, CoverInv, Typed
    <3>2. Uncovered' = 0 /\ Uncovered \in Nat
      BY <1>1, <1>3, <1>6 DEF Uncovered
    <3>3. \A o \in DOMAIN orders : orders[o].qty \in Nat /\ orders[o].filled \in Nat
      BY DEF Known, OrderType
    <3>4. Covered'
      BY <1>1, <1>2, <3>1, <3>2, <3>3 DEF Covered, LiveSell, Rest, Live, Ended
    <3>5. Calm'
      BY <1>1, <1>2, <1>3, <1>6, <3>1 DEF Known, Calm, LiveSell, Live, Ended, SameMarks
    <3> QED BY <3>4, <3>5
  <2>2. CoverInv'
    BY <1>8, <2>1 DEF CoverInv
  <2>3. BooksInv'
    <3> SUFFICES ASSUME faults = 0, slips' = {} PROVE BooksInv'
      BY <1>8 DEF BooksInv
    <3>1. slips = {} /\ os = {Len(orders)} /\ Order.filled = 0
      BY <1>2, <1>3, <1>4, <1>8
    <3> QED BY <1>1, <1>2, <1>3, <1>6, <3>1 DEF Known, Typed, BooksInv, Pending, Live, Ended
  <2> QED BY <1>3, <1>6, <2>2, <2>3, <1>7 DEF Keeps
<1>9. CASE faults' = faults + 1
  BY <1>3, <1>6, <1>9, <1>7, Failing DEF Keeps
<1> QED BY <1>1, <1>8, <1>9

LEMMA TradierReports ==
    ASSUME Known, broker = "tradier", Tradier!BuyReport
    PROVE  Keeps
<1>1. /\ pc = "restop" /\ Answer("FILL", seen)
      /\ UNCHANGED <<orders, stuck, position, req, attempt, seen, slips>>
      /\ \/ faults' = faults /\ stop' = stop + seen
         \/ faults < MaxFaults /\ faults' = faults + 1 /\ stop' \in {stop, stop + seen}
  BY TradierWords DEF Tradier!BuyReport, Tradier!client, Tradier!Works, Tradier!Fails
<1>2. /\ OrdersOK' /\ Order' = Order /\ Len(orders) \in DOMAIN orders /\ Len(orders) > 0
      /\ Order \in OrderType /\ DOMAIN orders' = DOMAIN orders /\ req.side = "BUY"
      /\ Order.filled \in Nat /\ broker' = "tradier"
  BY <1>1, OrdersSame DEF Known, Working, OrderType
<1>3. seen \in Nat /\ seen <= Order.filled /\ seen <= orders'[Len(orders)].filled
  BY <1>1, <1>2 DEF Known, Typed, Working, Looked
<1>4. /\ stop' \in Nat /\ stuck' \in 0 .. stop' /\ seen' \in Int /\ faults' \in 0 .. MaxFaults
      /\ slips' \subseteq {"stopped", "late", "left"}
  BY <1>1, <1>3, BrokerAccountAssumption DEF Known, Typed
<1>5. /\ Typed' /\ Working' /\ Answered' /\ pc' = "idle" /\ held' = held + seen
      /\ DOMAIN answers' = {1} /\ answers'[1].qty = seen
  BY <1>1, <1>2, <1>3, <1>4, Finishing
<1>6. OwedInv'
  <2>1. Ended({})
    BY <1>1, EndingNone DEF Known
  <2> QED BY <1>1, <1>2, <1>3, <1>5, <2>1, Reporting
<1>7. CASE faults' = faults
  <2>1. stop' = stop + seen
    BY <1>1, <1>7 DEF Known, Typed
  <2>2. ASSUME faults = 0 PROVE Covered' /\ Calm'
    <3>1. Covered /\ Calm /\ seen = Order.filled /\ position \in Int /\ stop \in Nat
      BY <1>1, <2>2 DEF Known, CoverInv, Typed, Calm
    <3>2. Uncovered = seen /\ Uncovered' = 0
      BY <1>1, <1>5, <3>1 DEF Uncovered
    <3>3. Covered'
      BY <1>1, <1>3, <2>1, <3>1, <3>2, SMTT(30) DEF Covered, LiveSell, Rest, Live
    <3>4. Calm'
      BY <1>1, <1>2, <1>5, <3>1 DEF Known, Calm, LiveSell, Live
    <3> QED BY <3>3, <3>4
  <2>3. CoverInv'
    BY <1>7, <2>2 DEF CoverInv
  <2>4. BooksInv'
    <3> SUFFICES ASSUME faults = 0, slips = {} PROVE BooksInv'
      BY <1>1, <1>7 DEF BooksInv
    <3>1. /\ position = held + Order.filled /\ seen = Order.filled
          /\ position \in Int /\ held \in Int /\ stop \in Nat
          /\ \A o \in DOMAIN orders : ~Live(o)
          /\ position - stop >= seen
      BY <1>1 DEF Known, Typed, CoverInv, Calm, Covered, Uncovered, BooksInv, Pending, Live
    <3>2. position' = held' /\ (\A o \in DOMAIN orders : ~Live(o))'
      BY <1>1, <1>5, <3>1 DEF Live
    <3>3. seen = held' => stop' = held'
      BY <1>3, <1>5, <2>1, <3>1
    <3>4. Pending' = 0 /\ ~(pc' \in Bought)
      BY <1>5 DEF Pending, Bought, SellOrder
    <3>5. \A i \in DOMAIN answers' : answers'[i].qty = held' => stop' = held'
      BY <1>5, <3>3
    <3>6. position' = held' + Pending'
      <4>1. position = held + seen + 0 /\ position' = position /\ held' = held + seen
        BY <1>1, <1>3, <1>5, <3>1
      <4> QED BY <3>4, <4>1
    <3> QED BY <3>2, <3>4, <3>5, <3>6 DEF BooksInv
  <2> QED BY <1>2, <1>5, <2>3, <2>4, <1>6 DEF Keeps
<1>8. CASE faults' = faults + 1
  BY <1>2, <1>5, <1>8, <1>6, Failing DEF Keeps
<1> QED BY <1>1, <1>7, <1>8

LEMMA TradierSizes ==
    ASSUME Known, broker = "tradier", Tradier!SellSize
    PROVE  Keeps
<1>1. /\ pc = "size"
      /\ \/ /\ faults' = faults /\ position > 0 /\ Goto("clear")
            /\ seen' = IF position < req.qty THEN position ELSE req.qty
         \/ faults' = faults /\ Answer("FAIL", 0) /\ seen' = seen
         \/ /\ faults < MaxFaults /\ faults' = faults + 1 /\ seen' = seen
            /\ Goto("clear") \/ Answer("FAIL", 0)
      /\ UNCHANGED <<orders, stop, stuck, position, req, attempt, slips>>
  BY TradierWords DEF Tradier!SellSize, Tradier!exchange, Tradier!Works, Tradier!Fails
<1>2. /\ OrdersOK' /\ Order' = Order /\ DOMAIN orders' = DOMAIN orders /\ broker' = "tradier"
      /\ req.side = "SELL" /\ req.qty > 0 /\ seen > 0 /\ req.id > 0
  BY <1>1, OrdersSame DEF Known, Working
<1>3. seen' \in Int /\ seen' > 0
  <2>1. req.qty \in Nat /\ seen \in Int /\ position \in Int
    BY DEF Known, Typed
  <2> QED BY <1>1, <1>2, <2>1
<1>4. /\ stop' \in Nat /\ stuck' \in 0 .. stop' /\ slips' \subseteq {"stopped", "late", "left"}
      /\ faults' \in 0 .. MaxFaults
  <2>1. faults' = faults \/ (faults < MaxFaults /\ faults' = faults + 1)
    BY <1>1
  <2> QED BY <1>1, <2>1, BrokerAccountAssumption DEF Known, Typed
<1>5. CASE Goto("clear")
  <2>1. pc' = "clear" /\ Answered' /\ answers' = <<>> /\ held' = held
    BY <1>1, <1>5, Unanswered DEF Known, Goto
  <2>2. Typed'
    BY <1>1, <1>3, <1>4, <2>1 DEF Known, Typed
  <2>3. Working'
    BY <1>1, <1>2, <1>3, <2>1 DEF Known, Working, Looked
  <2>4. OwedInv'
    <3>1. StraysFrom(0, 0) /\ Gap' = Gap /\ (Unsure' => Unsure)
      BY <1>1, <1>2, <2>1 DEF Known, StraysFrom, Stray, Live, Rest, Unsure, Gap, Pending
    <3> QED BY <1>1, <1>2, <2>1, <2>2, <2>3, <3>1, Quiet
  <2>5. CASE faults' = faults
    <3>1. CoverInv'
      BY <1>1, <1>2, <2>1, <2>5 DEF Known, CoverInv, Covered, Calm, Uncovered, LiveSell, Rest, Live
    <3>2. BooksInv'
      BY <1>1, <2>1, <2>5 DEF Known, BooksInv, Pending, Live
    <3> QED BY <1>2, <2>1, <2>2, <2>3, <3>1, <3>2, <2>4 DEF Keeps
  <2>6. CASE faults' = faults + 1
    BY <1>2, <2>1, <2>2, <2>3, <2>6, <2>4, Failing DEF Keeps
  <2> QED BY <1>1, <2>5, <2>6
<1>6. CASE Answer("FAIL", 0)
  <2>1. /\ Typed' /\ Working' /\ Answered' /\ pc' = "idle" /\ held' = held
        /\ DOMAIN answers' = {1} /\ answers'[1].kind = "FAIL"
    BY <1>1, <1>2, <1>3, <1>4, <1>6, Finishing
  <2>2. OwedInv'
    <3>1. StraysFrom(0, 0) /\ Gap' = Gap /\ (Unsure' => Unsure)
      BY <1>1, <1>2, <2>1 DEF Known, StraysFrom, Stray, Live, Rest, Unsure, Gap, Pending
    <3> QED BY <1>1, <1>2, <2>1, <3>1, Quiet
  <2>3. CASE faults' = faults
    <3>1. CoverInv'
      BY <1>1, <1>2, <2>1, <2>3 DEF Known, CoverInv, Covered, Calm, Uncovered, LiveSell, Rest, Live
    <3>2. BooksInv'
      BY <1>1, <2>1, <2>3 DEF Known, BooksInv, Pending, Live
    <3> QED BY <1>2, <2>1, <3>1, <3>2, <2>2 DEF Keeps
  <2>4. CASE faults' = faults + 1
    BY <1>2, <2>1, <2>4, <2>2, Failing DEF Keeps
  <2> QED BY <1>1, <2>3, <2>4
<1> QED BY <1>1, <1>5, <1>6

LEMMA TradierClears ==
    ASSUME Known, broker = "tradier", Tradier!SellClear
    PROVE  Keeps
<1> DEFINE open == {o \in DOMAIN orders : orders[o].side = "SELL" /\ ~orders[o].stuck}
<1>1. /\ pc = "clear" /\ pc' = "sell"
      /\ \/ faults' = faults /\ orders' = Cancelled(open) /\ stop' = stuck /\ stuck' = stuck
         \/ /\ faults < MaxFaults /\ faults' = faults + 1 /\ stuck' = stuck /\ stop' = stop
            /\ orders' = orders
         \/ /\ faults < MaxFaults /\ faults' = faults + 1 /\ stop' \in {stuck, stop} /\ stuck' = stop'
            /\ \E os, marked : orders' = [o \in DOMAIN orders |->
                                   [Cancelled(os)[o] EXCEPT !.stuck = @ \/ o \in marked]]
      /\ UNCHANGED <<answers, held, position, req, attempt, seen, slips>>
  <2> USE DEF Tradier!SellClear, Tradier!client, Tradier!Works, Tradier!Fails, Goto
  <2>1. /\ pc = "clear" /\ pc' = "sell"
        /\ UNCHANGED <<answers, held, position, req, attempt, seen, slips>>
    BY TradierWords
  <2>2. \/ faults' = faults /\ orders' = Tradier!Cancelled(open) /\ stop' = stuck /\ stuck' = stuck
        \/ /\ faults < MaxFaults /\ faults' = faults + 1 /\ stuck' = stuck /\ stop' = stop
           /\ orders' = orders
        \/ /\ faults < MaxFaults /\ faults' = faults + 1 /\ stop' \in {stuck, stop} /\ stuck' = stop'
           /\ \E os \in SUBSET open :
                 orders' = [o \in DOMAIN orders |->
                              [Tradier!Cancelled(os)[o] EXCEPT !.stuck = @ \/ o \in open \ os]]
    OBVIOUS
  <2> HIDE DEF open, Tradier!SellClear
  <2>3. \A os : Tradier!Cancelled(os) = Cancelled(os)
    BY TradierWords
  <2>4. ASSUME NEW os \in SUBSET open,
               orders' = [o \in DOMAIN orders |->
                            [Tradier!Cancelled(os)[o] EXCEPT !.stuck = @ \/ o \in open \ os]]
        PROVE  \E ended, marked :
                  orders' = [o \in DOMAIN orders |->
                               [Cancelled(ended)[o] EXCEPT !.stuck = @ \/ o \in marked]]
    <3>1. Tradier!Cancelled(os) = Cancelled(os)
      BY <2>3
    <3>2. orders' = [o \in DOMAIN orders |->
                       [Cancelled(os)[o] EXCEPT !.stuck = @ \/ o \in open \ os]]
      BY <2>4, <3>1
    <3> QED BY <3>2
  <2> QED BY <2>1, <2>2, <2>3, <2>4
<1>2. PICK os : Ended(os) /\ (faults' = faults => os = open /\ SameMarks)
  <2>1. faults \in Int
    BY DEF Known, Typed
  <2>2. CASE faults' = faults /\ orders' = Cancelled(open)
    <3> HIDE DEF open
    <3> QED BY <2>2, Ending DEF Known
  <2>3. CASE faults' = faults + 1 /\ orders' = orders
    BY <2>1, <2>3, EndingNone DEF Known
  <2>4. CASE faults' = faults + 1 /\ \E os, marked : orders' = [o \in DOMAIN orders |->
                                   [Cancelled(os)[o] EXCEPT !.stuck = @ \/ o \in marked]]
    <3>1. PICK os, marked : orders' = [o \in DOMAIN orders |->
                                   [Cancelled(os)[o] EXCEPT !.stuck = @ \/ o \in marked]]
      BY <2>4
    <3>2. Ended(os)
      BY <3>1, Marking DEF Known
    <3> QED BY <2>1, <2>4, <3>2
  <2> QED BY <1>1, <2>2, <2>3, <2>4
<1>3. /\ OrdersOK' /\ Answered' /\ answers' = <<>> /\ broker' = "tradier"
  BY <1>1, <1>2, Unanswered DEF Known, Ended
<1>4. /\ stop' \in Nat /\ stuck' \in 0 .. stop' /\ faults' \in 0 .. MaxFaults
  BY <1>1, BrokerAccountAssumption, SMTT(30) DEF Known, Typed
<1>5. Typed'
  BY <1>1, <1>3, <1>4 DEF Known, Typed
<1>6. Working'
  <2>1. req.side = "SELL" /\ req.qty > 0 /\ seen > 0 /\ req.id > 0 /\ req' = req /\ seen' = seen
    BY <1>1 DEF Known, Working
  <2> QED BY <1>1, <1>3, <2>1 DEF Working, Looked
<1>7. OwedInv'
  <2>1. StraysFrom(0, 0) /\ Gap' = Gap /\ (Unsure' => Unsure)
    BY <1>1, <1>2, <1>3 DEF Known, StraysFrom, Stray, Live, Rest, Unsure, Gap, Pending, Ended
  <2> QED BY <1>1, <1>3, <1>5, <1>6, <2>1, Quiet
<1>8. CASE faults' = faults
  <2>1. stop' = stuck /\ stuck' = stuck
    BY <1>1, <1>8 DEF Known, Typed
  <2>2. ASSUME faults = 0 PROVE Covered' /\ Calm'
    <3>1. Covered /\ Calm /\ position \in Int /\ stop \in Nat /\ stuck = 0
      BY <2>2 DEF Known, CoverInv, Typed, Calm
    <3>2. \A o \in DOMAIN orders' : ~LiveSell(o)'
      BY <1>2, <1>8, <3>1 DEF LiveSell, Live, Ended, Calm
    <3>3. Uncovered = 0 /\ Uncovered' = 0
      BY <1>1 DEF Uncovered
    <3>4. Covered'
      BY <1>1, <2>1, <3>1, <3>2, <3>3 DEF Covered
    <3>5. Calm'
      BY <1>1, <1>2, <1>3, <1>8, <2>1, <3>1, <3>2 DEF Calm, Live, Ended, SameMarks
    <3> QED BY <3>4, <3>5
  <2>3. CoverInv'
    BY <1>8, <2>2 DEF CoverInv
  <2>4. BooksInv'
    BY <1>1, <1>2, <1>3, <1>8 DEF Known, BooksInv, Pending, Live, Ended
  <2> QED BY <1>3, <1>5, <1>6, <2>3, <2>4, <1>7 DEF Keeps
<1>9. CASE faults' = faults + 1
  BY <1>3, <1>5, <1>6, <1>9, <1>7, Failing DEF Keeps
<1> QED BY <1>1, <1>8, <1>9

LEMMA TradierSells ==
    ASSUME Known, broker = "tradier", Tradier!SellSubmit \/ Tradier!SellSubmitLost
    PROVE  Keeps
<1>1. /\ pc = "sell" /\ UNCHANGED <<stop, stuck, position, req, attempt, seen, slips>>
      /\ \/ /\ faults' = faults /\ seen <= position /\ Goto("sellpoll")
            /\ orders' = Append(orders, NewOrder("SELL", seen, FALSE))
         \/ faults' = faults /\ orders' = orders /\ Answer("FAIL", 0)
         \/ /\ faults < MaxFaults /\ faults' = faults + 1 /\ Answer("FAIL", 0)
            /\ orders' = orders \/ orders' = Append(orders, NewOrder("SELL", seen, FALSE))
  BY TradierWords DEF Tradier!SellSubmit, Tradier!SellSubmitLost, Tradier!Works, Tradier!Fails,
                      Tradier!client
<1>2. req.id \in 1 .. MaxRequests /\ seen \in Nat \ {0} /\ req.side = "SELL" /\ req.qty > 0
      /\ req.id > 0 /\ broker' = "tradier"
  <2>1. req.id \in 0 .. MaxRequests /\ MaxRequests \in Nat /\ seen \in Int
    BY BrokerAccountAssumption DEF Known, Typed
  <2>2. req.id > 0 /\ seen > 0 /\ req.side = "SELL" /\ req.qty > 0 /\ broker' = "tradier"
    BY <1>1 DEF Known, Working
  <2> QED BY <2>1, <2>2
<1>3. orders' = Append(orders, NewOrder("SELL", seen, FALSE)) => Placed("SELL", seen, FALSE)
  BY <1>2, Placing DEF Known
<1>4. OrdersOK'
  BY <1>1, <1>3, OrdersSame DEF Placed
<1>5. /\ stop' \in Nat /\ stuck' \in 0 .. stop' /\ slips' \subseteq {"stopped", "late", "left"}
      /\ faults' \in 0 .. MaxFaults /\ seen' \in Int
  <2>1. faults' = faults \/ (faults < MaxFaults /\ faults' = faults + 1)
    BY <1>1
  <2>2. slips' \subseteq {"stopped", "late", "left"}
    BY <1>1 DEF Known, Typed
  <2> QED BY <1>1, <2>1, <2>2, BrokerAccountAssumption DEF Known, Typed
<1>6. CASE /\ faults' = faults /\ seen <= position /\ Goto("sellpoll")
           /\ orders' = Append(orders, NewOrder("SELL", seen, FALSE))
  <2>1. Placed("SELL", seen, FALSE)
    BY <1>3, <1>6
  <2>2. pc' = "sellpoll" /\ Answered' /\ answers' = <<>> /\ held' = held
    BY <1>1, <1>6, Unanswered DEF Known, Goto
  <2>3. Typed'
    BY <1>1, <1>2, <1>5, <2>2 DEF Known, Typed
  <2>4. /\ Len(orders') = Len(orders) + 1 /\ Len(orders) \in Nat
        /\ Order'.side = "SELL" /\ Order'.qty = seen /\ Order'.filled = 0 /\ Order'.st = "live"
    BY <2>1 DEF Placed, Known
  <2>5. Working'
    BY <1>1, <1>2, <2>2, <2>4 DEF Working, Looked
  <2>6. ASSUME faults = 0 PROVE Covered' /\ Calm'
    <3>1. /\ Covered /\ Calm /\ stop = 0 /\ \A o \in DOMAIN orders : ~LiveSell(o)
      BY <1>1, <2>6 DEF Known, CoverInv, Calm
    <3>2. Uncovered' = 0 /\ position \in Int
      BY <2>2 DEF Uncovered, Known, Typed
    <3>3. Covered'
      <4>1. position' = position /\ stop' = 0 /\ seen <= position
        BY <1>1, <1>6, <3>1
      <4>2. \A o \in DOMAIN orders' : LiveSell(o)' => Rest(o)' = seen
        BY <1>2, <2>1, <2>4, <3>1 DEF LiveSell, Live, Rest, Placed
      <4> QED BY <1>2, <3>2, <4>1, <4>2 DEF Covered
    <3>4. Calm'
      BY <1>1, <1>2, <2>1, <2>2, <2>4, <3>1 DEF Known, Calm, LiveSell, Live, Placed
    <3> QED BY <3>3, <3>4
  <2>7. CoverInv'
    BY <1>6, <2>6 DEF CoverInv
  <2>8. BooksInv'
    <3> SUFFICES ASSUME faults = 0, slips = {} PROVE BooksInv'
      BY <1>1, <1>6 DEF BooksInv
    <3>1. position = held /\ held \in Int /\ \A o \in DOMAIN orders : ~Live(o)
      BY <1>1 DEF Known, Typed, BooksInv, Pending
    <3>2. position' = held' + Pending'
      BY <1>1, <2>2, <2>4, <3>1 DEF Pending
    <3>3. \A o \in DOMAIN orders' : Live(o)' => o = Len(orders')
      BY <2>1, <2>4, <3>1 DEF Live, Placed
    <3> QED BY <2>2, <3>2, <3>3 DEF BooksInv
  <2>9. OwedInv'
    <3>1. StraysFrom(0, 0) /\ Gap' = Gap /\ ~Unsure'
      BY <1>1, <2>1, <2>2, <2>4 DEF StraysFrom, Stray, Live, Rest, Unsure, Gap, Pending, Placed
    <3> QED BY <1>1, <1>4, <1>6, <2>3, <2>5, <3>1, Quiet
  <2> QED BY <1>4, <2>2, <2>3, <2>5, <2>7, <2>8, <2>9 DEF Keeps
<1>7. CASE Answer("FAIL", 0)
  <2>1. /\ Typed' /\ Working' /\ Answered' /\ pc' = "idle" /\ held' = held
        /\ DOMAIN answers' = {1} /\ answers'[1].kind = "FAIL"
    BY <1>1, <1>2, <1>4, <1>5, <1>7, Finishing
  <2>2. OwedInv'
    <3>1. orders' = orders \/ Placed("SELL", seen, FALSE)
      BY <1>1, <1>3
    <3>2. StraysFrom(0, 0)
      BY <1>1, <2>1, <3>1 DEF StraysFrom, Stray, Live, Rest, Placed
    <3>3. Gap' = Gap /\ ~Unsure'
      BY <1>1, <2>1 DEF Gap, Pending, Unsure
    <3> QED BY <1>1, <1>4, <2>1, <3>2, <3>3, Quiet
  <2>3. CASE faults' = faults + 1
    BY <1>4, <2>1, <2>3, <2>2, Failing DEF Keeps
  <2>4. CASE faults' = faults /\ orders' = orders
    <3>1. CoverInv'
      BY <1>1, <2>1, <2>4 DEF Known, CoverInv, Covered, Calm, Uncovered, LiveSell, Rest, Live
    <3>2. BooksInv'
      BY <1>1, <2>1, <2>4 DEF Known, BooksInv, Pending, Live
    <3> QED BY <1>4, <2>1, <3>1, <3>2, <2>2 DEF Keeps
  <2>5. CASE Goto("sellpoll")
    BY <2>1, <2>5 DEF Goto
  <2> QED BY <1>1, <2>3, <2>4, <2>5
<1> QED BY <1>1, <1>6, <1>7

LEMMA TradierSellEnds ==
    ASSUME Known, broker = "tradier", Tradier!SellReport \/ Tradier!SellPollEnds
    PROVE  Keeps
<1>1. /\ \/ pc = "verify" /\ Answer("FILL", seen) /\ slips' = slips
         \/ /\ pc = "sellpoll" /\ Answer("FAIL", 0)
            /\ Slip("left", Order.st = "live" \/ Order.filled > 0)
      /\ UNCHANGED <<orders, stop, stuck, position, req, attempt, seen, faults>>
  BY TradierWords DEF Tradier!SellReport, Tradier!SellPollEnds, Tradier!exchange, Tradier!client,
                      Slip, Live, Tradier!Slip, Tradier!Live, Tradier!Order, Tradier!Cur
<1>2. /\ OrdersOK' /\ Order' = Order /\ Len(orders) \in DOMAIN orders /\ Order \in OrderType
      /\ Order.filled \in Nat /\ req.side = "SELL" /\ DOMAIN orders' = DOMAIN orders
      /\ Len(orders) > 0 /\ broker' = "tradier"
  BY <1>1, OrdersSame DEF Known, Working, OrderType
<1>3. pc = "verify" => seen \in Nat /\ seen <= orders'[Len(orders)].filled
  BY <1>1, <1>2 DEF Known, Typed, Working, Looked
<1>4. /\ stop' \in Nat /\ stuck' \in 0 .. stop' /\ faults' \in 0 .. MaxFaults
      /\ slips' \subseteq {"stopped", "late", "left"} /\ seen' \in Int
  <2>1. slips' \subseteq {"stopped", "late", "left"}
    BY <1>1, Slipping DEF Known, Typed
  <2> QED BY <1>1, <2>1 DEF Known, Typed
<1>5. CASE pc = "verify" /\ Answer("FILL", seen) /\ slips' = slips
  <2>1. /\ Typed' /\ Working' /\ Answered' /\ pc' = "idle" /\ DOMAIN answers' = {1}
        /\ held' = held - seen
    BY <1>1, <1>2, <1>3, <1>4, <1>5, Finishing
  <2>2. OwedInv'
    BY <1>1, <1>2, <1>3, <1>5, <2>1, SellAnswered DEF Known, Typed
  <2>3. CoverInv'
    BY <1>1, <1>2, <1>5, <2>1 DEF Known, CoverInv, Covered, Calm, Uncovered, LiveSell, Rest, Live
  <2>4. BooksInv'
    <3> SUFFICES ASSUME faults = 0, slips = {} PROVE BooksInv'
      BY <1>1, <1>5 DEF BooksInv
    <3>1. /\ position = held - Order.filled /\ seen = Order.filled /\ held \in Int
          /\ \A o \in DOMAIN orders : ~Live(o)
      BY <1>2, <1>5 DEF Known, Typed, CoverInv, Calm, BooksInv, Pending, Live
    <3> QED BY <1>1, <1>2, <2>1, <3>1 DEF BooksInv, Pending, Live
  <2> QED BY <1>2, <2>1, <2>3, <2>4, <2>2 DEF Keeps
<1>6. CASE /\ pc = "sellpoll" /\ Answer("FAIL", 0)
           /\ Slip("left", Order.st = "live" \/ Order.filled > 0)
  <2>1. /\ Typed' /\ Working' /\ Answered' /\ pc' = "idle" /\ DOMAIN answers' = {1}
        /\ held' = held
    BY <1>1, <1>2, <1>4, <1>6, Finishing
  <2>2. OwedInv'
    <3>1. slips' = {} => slips = {}
      BY <1>6, Slipping
    <3>2. held' = held - 0 /\ 0 <= Order.filled
      BY <1>2, <2>1, SMTT(30) DEF Known, Typed
    <3> QED BY <1>1, <1>2, <1>6, <2>1, <3>1, <3>2, SellAnswered
  <2>3. CoverInv'
    BY <1>1, <1>2, <1>6, <2>1 DEF Known, CoverInv, Covered, Calm, Uncovered, LiveSell, Rest, Live
  <2>4. slips' = {} => slips = {} /\ ~(Order.st = "live" \/ Order.filled > 0)
    BY <1>6, Slipping
  <2>5. BooksInv'
    BY <1>1, <1>2, <1>6, <2>1, <2>4 DEF Known, Typed, BooksInv, Pending, Live
  <2> QED BY <1>2, <2>1, <2>3, <2>5, <2>2 DEF Keeps
<1> QED BY <1>1, <1>5, <1>6

LEMMA TradierExchangeEnds ==
    ASSUME Known, broker = "tradier", Tradier!ExchangeEnds
    PROVE  Keeps
<1>1. /\ pc \in {"poll", "sellpoll"} /\ orders' = Cancelled({Len(orders)})
      /\ UNCHANGED <<stop, stuck, position, pc, req, attempt, seen, answers, held, faults, slips>>
  BY TradierWords DEF Tradier!ExchangeEnds, Tradier!client
<1>2. Ended({Len(orders)}) /\ SameMarks
  BY <1>1, Ending DEF Known
<1>3. OrdersOK' /\ Answered' /\ answers' = <<>> /\ broker' = "tradier"
  BY <1>1, <1>2, Unanswered DEF Known, Ended
<1>4. Typed'
  BY <1>1 DEF Known, Typed
<1>5. /\ Len(orders') = Len(orders) /\ Len(orders) \in DOMAIN orders /\ Order \in OrderType
      /\ Order'.side = Order.side /\ Order'.qty = Order.qty /\ Order'.filled = Order.filled
  BY <1>1, <1>2 DEF Known, Ended
<1>6. Working'
  BY <1>1, <1>3, <1>5 DEF Known, Working, Looked
<1>7. ASSUME faults = 0 PROVE Covered' /\ Calm'
  <2>1. Covered /\ Calm /\ Uncovered' = Uncovered
    BY <1>1, <1>3, <1>5, <1>7 DEF Known, CoverInv, Uncovered
  <2>3. \A o \in DOMAIN orders' : /\ o \in DOMAIN orders /\ (Live(o)' => Live(o))
                                   /\ (LiveSell(o)' => LiveSell(o))
    BY <1>2 DEF Live, LiveSell, Ended
  <2>5. \A o \in DOMAIN orders' : Rest(o)' = Rest(o)
    BY <1>2 DEF Rest, Ended
  <2>2. Covered'
    BY <1>1, <2>1, <2>3, <2>5 DEF Covered
  <2>4. Calm'
    BY <1>1, <1>2, <1>3, <1>5, <2>1, <2>3 DEF Calm, Ended, SameMarks
  <2> QED BY <2>2, <2>4
<1>8. CoverInv'
  BY <1>1, <1>7 DEF CoverInv
<1>9. BooksInv'
  BY <1>1, <1>2, <1>3, <1>5 DEF Known, BooksInv, Pending, Live, Ended
<1>10. OwedInv'
  <2>1. StraysFrom(0, 0) /\ Gap' = Gap /\ (Unsure' => Unsure)
    BY <1>1, <1>2, <1>3, <1>5 DEF Known, StraysFrom, Stray, Live, Rest, Unsure, Gap, Pending, Ended
  <2> QED BY <1>1, <1>3, <1>4, <1>6, <2>1, Quiet
<1> QED BY <1>3, <1>4, <1>6, <1>8, <1>9, <1>10 DEF Keeps

-----------------------------------------------------------------------------
(* The theorems                                                              *)

LEMMA Starting == MCInit => BrokersInv
<1> SUFFICES ASSUME MCInit PROVE BrokersInv
  OBVIOUS
<1>1. /\ orders = <<>> /\ DOMAIN orders = {} /\ Len(orders) = 0 /\ answers = <<>> /\ DOMAIN answers = {}
      /\ pc = "idle" /\ stop = 0 /\ stuck = 0 /\ position = 0 /\ held = 0 /\ slips = {} /\ faults = 0
  BY DEF MCInit, Init
<1>2. OrdersOK /\ Working /\ Answered
  BY <1>1 DEF OrdersOK, Working, Looked, Answered
<1>3. Typed
  BY <1>1, BrokerAccountAssumption DEF MCInit, Init, Typed
<1>4. CoverInv
  BY <1>1 DEF CoverInv, Covered, Calm, Uncovered, LiveSell
<1>5. BooksInv
  BY <1>1 DEF BooksInv, Pending
<1>6. OwedInv
  <2>1. Loose = {} /\ Exposed = 0
    BY <1>1 DEF Loose, Exposed, Gap, Pending, Unsure
  <2> QED BY <1>1, <2>1, FS_EmptySet, BrokerAccountAssumption DEF OwedInv
<1> QED BY <1>2, <1>3, <1>4, <1>5, <1>6 DEF BrokersInv, RequestInv

LEMMA Kept == ASSUME Keeps PROVE BrokersInv'
BY DEF Keeps, BrokersInv, RequestInv

\* What the two have in common.
LEMMA ExchangeKeeps == ASSUME Known, ExchangeNext PROVE Keeps
BY Stopping, ExchangeFilling DEF ExchangeNext

LEMMA AlpacaKeeps == ASSUME Known, broker = "alpaca", Alpaca!Next PROVE Keeps
<1>1. CASE Alpaca!RequestBuy
  BY <1>1, AlpacaWords, Requesting, BrokerAccountAssumption DEF Alpaca!RequestBuy
<1>2. CASE Alpaca!RequestSell
  <2>1. held \in Nat \ {0} /\ Request("SELL", held, "clear")
    BY <1>2, AlpacaWords DEF Alpaca!RequestSell, Known, Typed
  <2> QED BY <2>1, Requesting
<1>3. CASE Alpaca!BuyNext
  <2>1. CASE Alpaca!BuyPrecheck
    BY <2>1, AlpacaPrechecks, AlpacaGoesOn
  <2>2. CASE ~Alpaca!BuyPrecheck
    BY <1>3, <2>2, AlpacaSubmits, AlpacaSubmitsRaise, AlpacaPolls, AlpacaGoesOn, AlpacaCancels,
       AlpacaRechecks, AlpacaReports, AlpacaGivesUp DEF Alpaca!BuyNext
  <2> QED BY <2>1, <2>2
<1>4. CASE Alpaca!SellNext
  BY <1>4, AlpacaClears, AlpacaSizes, AlpacaSubmits, AlpacaSubmitsRaise, AlpacaSellEnds
     DEF Alpaca!SellNext
<1>5. CASE Alpaca!ExchangeNext
  BY <1>5, AlpacaWords, ExchangeKeeps
<1> QED BY <1>1, <1>2, <1>3, <1>4, <1>5 DEF Alpaca!Next, Alpaca!ClientNext

LEMMA TradierKeeps == ASSUME Known, broker = "tradier", Tradier!Next PROVE Keeps
<1>1. CASE Tradier!RequestBuy
  BY <1>1, TradierWords, Requesting, BrokerAccountAssumption DEF Tradier!RequestBuy
<1>2. CASE Tradier!RequestSell
  <2>1. held \in Nat \ {0} /\ Request("SELL", held, "size")
    BY <1>2, TradierWords DEF Tradier!RequestSell, Known, Typed
  <2> QED BY <2>1, Requesting
<1>3. CASE Tradier!BuyNext
  BY <1>3, TradierSubmits, TradierPolls, TradierTrims, TradierRechecks, TradierCancels,
     TradierReports DEF Tradier!BuyNext
<1>4. CASE Tradier!SellNext
  BY <1>4, TradierSizes, TradierClears, TradierSells, TradierPolls, TradierTrims,
     TradierRechecks, TradierSellEnds DEF Tradier!SellNext
<1>5. CASE Tradier!ExchangeNext
  BY <1>5, TradierWords, ExchangeKeeps
<1>6. CASE Tradier!ExchangeEnds
  BY <1>6, TradierExchangeEnds
<1> QED BY <1>1, <1>2, <1>3, <1>4, <1>5, <1>6 DEF Tradier!Next, Tradier!ClientNext

LEMMA BrokersInvKept == BrokersInv /\ [MCNext]_<<vars, broker>> => BrokersInv'
<1> SUFFICES ASSUME BrokersInv, [MCNext]_<<vars, broker>> PROVE BrokersInv'
  OBVIOUS
<1>1. CASE AlpacaNext
  BY <1>1, Knows, AlpacaKeeps, Kept DEF AlpacaNext
<1>2. CASE TradierNext
  BY <1>2, Knows, TradierKeeps, Kept DEF TradierNext
<1>3. CASE UNCHANGED <<vars, broker>>
  <2>1. /\ UNCHANGED <<orders, stop, stuck, position, pc, req, attempt, seen, answers, held, faults,
                       slips, broker>>
        /\ Known
    BY <1>3, Knows DEF vars
  <2>2. OrdersOK' /\ Order' = Order
    BY <2>1, OrdersSame
  <2>3. Typed' /\ Working' /\ Answered'
    BY <2>1, <2>2 DEF Known, Typed, Working, Looked, Answered
  <2>4. StraysFrom(0, 0) /\ Gap' = Gap /\ (Unsure' => Unsure)
    BY <2>1, <2>2 DEF Known, StraysFrom, Stray, Live, Rest, Unsure, Gap, Pending
  <2>5. OwedInv'
    BY <2>1, <2>2, <2>3, <2>4, Quiet
  <2>6. CoverInv' /\ BooksInv'
    BY <2>1, <2>2 DEF Known, CoverInv, Covered, Calm, Uncovered, LiveSell, Rest, Live, BooksInv, Pending
  <2> QED BY <2>2, <2>3, <2>5, <2>6, Kept DEF Keeps
<1> QED BY <1>1, <1>2, <1>3 DEF MCNext

LEMMA BrokersInvHolds == FairSpec => []BrokersInv
BY Starting, BrokersInvKept, PTL DEF FairSpec

(* Both brokers: a FILL never reports more than the order it names has       *)
(* filled, with any number of calls failing, whatever becomes of the          *)
(* cancellation between the lookups (_execute_buy, _execute_sell).           *)
THEOREM ReportedFills == FairSpec => []ReportedWasFilled
<1>1. BrokersInv => ReportedWasFilled
  <2> SUFFICES ASSUME BrokersInv, NEW i \in DOMAIN answers, answers[i].kind = "FILL"
               PROVE  answers[i].qty <= orders[answers[i].order].filled
    BY DEF ReportedWasFilled
  <2>1. PICK a \in AnswerType :
           answers = <<a>> /\ (a.kind = "FILL" => a.qty <= orders[a.order].filled)
    BY DEF BrokersInv, RequestInv, Answered
  <2>2. answers[i] = a
    BY <2>1
  <2> QED BY <2>1, <2>2
<1> QED BY <1>1, BrokersInvHolds, PTL

(* Both brokers: while every API call takes effect, stops, leftovers of       *)
(* earlier requests and the SELL itself never leave the account short.       *)
THEOREM NeverSoldShort == FairSpec => []NeverShort
<1>1. BrokersInv => NeverShort
  <2> SUFFICES ASSUME BrokersInv, faults = 0 PROVE position >= 0
    BY DEF NeverShort
  <2>1. position - stop >= Uncovered /\ position \in Int /\ stop \in Nat
    BY DEF BrokersInv, RequestInv, CoverInv, Covered, Typed
  <2>2. Uncovered \in Nat
    BY Knows, OrdersTyped DEF BrokersInv, RequestInv, Working, Uncovered, OrderType
  <2> QED BY <2>1, <2>2
<1> QED BY <1>1, BrokersInvHolds, PTL

(* Both brokers, when a request has been answered and nothing has slipped:    *)
(* the account holds at most one BUY more than the books for each call that    *)
(* failed; if none did, it holds what the books say, nothing is left at the   *)
(* exchange and the stops of a BUY that opened the position cover it exactly. *)
THEOREM BooksHoldTheAccount == FairSpec => []BooksAreShares
<1>1. BrokersInv => BooksAreShares
  <2> SUFFICES ASSUME BrokersInv, pc = "idle", slips = {}
               PROVE  /\ position - held <= faults * Qty
                      /\ faults = 0 =>
                           /\ held = position
                           /\ \A o \in DOMAIN orders : ~Live(o)
                           /\ \A i \in DOMAIN answers :
                                 answers[i].kind = "FILL" /\ req.side = "BUY" /\ answers[i].qty = held
                                   => stop = held
    BY DEF BooksAreShares
  <2>1. OrdersOK /\ Typed /\ Working /\ BooksInv /\ OwedInv
    BY DEF BrokersInv, RequestInv
  <2>2. position \in Int /\ held \in Int
    BY <2>1 DEF Typed
  <2>3. Pending = 0 /\ ~Unsure
    BY DEF Pending, Unsure, Bought, SellOrder
  <2>4. position - held <= faults * Qty
    <3>1. PICK e \in Int, c \in Nat, m \in Int :
             e = Exposed /\ c = Cardinality(Loose) /\ m = faults * Qty
      <4>1. faults * Qty \in Int
        BY <2>1, BrokerAccountAssumption DEF Typed
      <4> QED BY <2>1, <4>1, LooseFinite, ExposedInt
    <3>2. e + c <= m
      BY <2>1, <3>1 DEF OwedInv
    <3>3. e = position - held
      BY <2>2, <2>3, <3>1 DEF Exposed, Gap
    <3> QED BY <2>2, <3>1, <3>2, <3>3
  <2>5. faults = 0 => held = position
    BY <2>1, <2>2, <2>3 DEF BooksInv
  <2> QED BY <2>1, <2>4, <2>5 DEF BooksInv
<1> QED BY <1>1, BrokersInvHolds, PTL

(* Both brokers: the variables of the account and of the worker keep their    *)
(* types; the attempts stay within MAX_RETRIES and one request has at most     *)
(* one answer.                                                               *)
THEOREM TypeCorrect == FairSpec => []TypeOK
<1>1. BrokersInv => TypeOK
  <2> SUFFICES ASSUME BrokersInv PROVE TypeOK
    OBVIOUS
  <2>1. orders \in Seq(OrderType) /\ Typed
    BY DEF BrokersInv, RequestInv, OrdersOK
  <2>2. answers \in Seq(AnswerType)
    <3>1. answers = <<>> \/ \E a \in AnswerType : answers = <<a>>
      BY DEF BrokersInv, RequestInv, Answered
    <3>2. CASE answers = <<>>
      BY <3>2
    <3>3. CASE \E a \in AnswerType : answers = <<a>>
      <4>1. PICK a \in AnswerType : answers = <<a>>
        BY <3>3
      <4>2. <<a>> \in Seq(AnswerType)
        OBVIOUS
      <4> QED BY <4>1, <4>2
    <3> QED BY <3>1, <3>2, <3>3
  <2> QED BY <2>1, <2>2 DEF TypeOK, Typed, OrderType, AnswerType
<1> QED BY <1>1, BrokersInvHolds, PTL
=============================================================================
