-------------------------- MODULE OrderFlowProofs --------------------------
(***************************************************************************)
(* Types, books, registry slots and the exclusion of BUYs in OrderFlow, for *)
(* any set of tickers, any limits of the engines and any number of orders,  *)
(* faults, stops, reconciliations and starts.                               *)
(***************************************************************************)
EXTENDS OrderFlow, SequenceTheorems, FiniteSetTheorems, TLAPS

LEMMA Limits ==
    /\ Qty \in Nat \ {0} /\ MaxOrders \in Nat /\ MaxRounds \in Nat
    /\ Ids \subseteq Nat \ {0}
BY OrderFlowAssumption DEF Ids

LEMMA MinIs ==
    \A a, b \in Nat : /\ MinOf(a, b) \in Nat /\ MinOf(a, b) <= a /\ MinOf(a, b) <= b
                      /\ a <= b => MinOf(a, b) = a
                      /\ MinOf(a, b) = a \/ MinOf(a, b) = b
BY DEF MinOf

\* The CLOSED events of a reconciliation are for tickers.
LEMMA PhantomsInOrder ==
    ASSUME NEW S \in SUBSET Tickers
    PROVE  SetToSeq(S) \in Seq(Tickers)
<1>1. IsFiniteSet(S)
  BY OrderFlowAssumption, FS_Subset
<1>2. /\ Cardinality(S) \in Nat
      /\ \E f \in [1 .. Cardinality(S) -> S] : IsInjective(f)
  BY <1>1, FS_CardinalityType DEF ExistsBijection, Bijection, Injection
<1>3. SetToSeq(S) \in [1 .. Cardinality(S) -> S]
  BY <1>2 DEF SetToSeq
<1>4. SetToSeq(S) \in [1 .. Cardinality(S) -> Tickers]
  BY <1>3
<1> QED BY <1>2, <1>4, IsASeq
------------------------------------------------------------------------------
(* Types                                                                     *)

\* What a step leaves alone keeps its type.
LEMMA Unchanging ==
    ASSUME TypeOK
    PROVE  /\ hold' = hold => HoldTyped'
           /\ UNCHANGED books => BooksTyped'
           /\ UNCHANGED risk => RiskTyped'
           /\ UNCHANGED gates => GatesTyped'
           /\ UNCHANGED queues => QueuesTyped'
           /\ exec' = exec => ExecTyped'
           /\ UNCHANGED <<queues, at>> => WorkersTyped'
           /\ UNCHANGED recon => ReconTyped'
           /\ UNCHANGED wal => WalTyped'
<1>1. hold' = hold => HoldTyped'
  BY DEF TypeOK, HoldTyped
<1>2. UNCHANGED books => BooksTyped'
  BY DEF TypeOK, BooksTyped, books
<1>3. UNCHANGED risk => RiskTyped'
  BY DEF TypeOK, RiskTyped, risk
<1>4. UNCHANGED gates => GatesTyped'
  BY DEF TypeOK, GatesTyped, gates
<1>5. UNCHANGED queues => QueuesTyped'
  BY DEF TypeOK, QueuesTyped, queues
<1>6. exec' = exec => ExecTyped'
  BY DEF TypeOK, ExecTyped
<1>7. UNCHANGED <<queues, at>> => WorkersTyped'
  BY DEF TypeOK, WorkersTyped, queues, at
<1>8. UNCHANGED recon => ReconTyped'
  BY DEF TypeOK, ReconTyped, recon
<1>9. UNCHANGED wal => WalTyped'
  BY DEF TypeOK, WalTyped, wal
<1> QED BY <1>1, <1>2, <1>3, <1>4, <1>5, <1>6, <1>7, <1>8, <1>9

\* An event is put into a queue, or taken from one whose worker is done.
LEMMA Enqueue ==
    ASSUME TypeOK, UNCHANGED at
    PROVE  /\ \A o \in Order : /\ reqQ' = Append(reqQ, o) /\ UNCHANGED <<fillQ, failQ, closedQ>>
                                  => QueuesTyped' /\ WorkersTyped'
           /\ \A f \in Fill : /\ fillQ' = Append(fillQ, f) /\ UNCHANGED <<reqQ, failQ, closedQ>>
                                  => QueuesTyped' /\ WorkersTyped'
           /\ \A f \in Failure : /\ failQ' = Append(failQ, f) /\ UNCHANGED <<reqQ, fillQ, closedQ>>
                                  => QueuesTyped' /\ WorkersTyped'
<1>1. ASSUME NEW o \in Order, reqQ' = Append(reqQ, o), UNCHANGED <<fillQ, failQ, closedQ>>
      PROVE  QueuesTyped' /\ WorkersTyped'
  <2>1. reqQ' \in Seq(Order)
    BY <1>1, AppendProperties DEF TypeOK, QueuesTyped
  <2> QED BY <1>1, <2>1 DEF TypeOK, QueuesTyped, WorkersTyped, at
<1>2. ASSUME NEW f \in Fill, fillQ' = Append(fillQ, f), UNCHANGED <<reqQ, failQ, closedQ>>
      PROVE  QueuesTyped' /\ WorkersTyped'
  <2>1. fillQ' \in Seq(Fill) /\ fillQ' # <<>>
    BY <1>2, AppendProperties DEF TypeOK, QueuesTyped
  <2> QED BY <1>2, <2>1 DEF TypeOK, QueuesTyped, WorkersTyped, at
<1>3. ASSUME NEW f \in Failure, failQ' = Append(failQ, f), UNCHANGED <<reqQ, fillQ, closedQ>>
      PROVE  QueuesTyped' /\ WorkersTyped'
  <2>1. failQ' \in Seq(Failure) /\ failQ' # <<>>
    BY <1>3, AppendProperties DEF TypeOK, QueuesTyped
  <2> QED BY <1>3, <2>1 DEF TypeOK, QueuesTyped, WorkersTyped, at
<1> QED BY <1>1, <1>2, <1>3

LEMMA TypeScreenVwap ==
    ASSUME TypeOK, NEW t \in Tickers, ScreenVwap(t)
    PROVE  TypeOK'
<1>1. RiskTyped'
  BY DEF TypeOK, RiskTyped, ScreenVwap, Layers
<1> QED BY <1>1, Unchanging DEF ScreenVwap, TypeOK, queues, at

LEMMA TypeScreenPro ==
    ASSUME TypeOK, NEW t \in Tickers, ScreenPro(t)
    PROVE  TypeOK'
<1>1. RiskTyped'
  BY DEF TypeOK, RiskTyped, ScreenPro, Layers
<1> QED BY <1>1, Unchanging DEF ScreenPro, TypeOK, queues, at

LEMMA TypeTurnDown ==
    ASSUME TypeOK, NEW t \in Tickers, NEW l \in Layers, TurnDown(l, t)
    PROVE  TypeOK'
<1>1. RiskTyped'
  BY DEF TypeOK, RiskTyped, TurnDown
<1> QED BY <1>1, Unchanging DEF TurnDown, TypeOK, queues, at

\* A request draws the next id and goes to the back of its queue.
LEMMA Requesting ==
    ASSUME TypeOK, NEW t \in Tickers, NEW side \in {"BUY", "SELL"}, NEW n \in Shares,
           NEW l \in Layers \cup {None}, Request(t, side, n, l)
    PROVE  /\ nextId \in Ids /\ nextId' \in 1 .. MaxOrders + 1
           /\ [id |-> nextId, t |-> t, side |-> side, qty |-> n, by |-> l] \in Order
           /\ reqQ' = Append(reqQ, [id |-> nextId, t |-> t, side |-> side, qty |-> n, by |-> l])
<1>1. nextId \in Ids /\ nextId' \in 1 .. MaxOrders + 1
  BY Limits DEF TypeOK, WalTyped, Request, Ids
<1> QED BY <1>1 DEF Request, Order

LEMMA TypePlace ==
    ASSUME TypeOK, NEW t \in Tickers, NEW l \in Layers, Place(l, t)
    PROVE  TypeOK'
<1>1. /\ RiskTyped'
      /\ UNCHANGED <<hold, books, gates, fillQ, failQ, closedQ, exec, at, recon, recovered>>
  BY DEF TypeOK, RiskTyped, Place
<1>2. CASE Gate!Admit(t, nextId) /\ Request(t, "BUY", Qty, l)
  <2>1. nextId \in Ids /\ nextId' \in 1 .. MaxOrders + 1 /\ QueuesTyped' /\ WorkersTyped'
    <3> DEFINE o == [id |-> nextId, t |-> t, side |-> "BUY", qty |-> Qty, by |-> l]
    <3>1. nextId \in Ids /\ nextId' \in 1 .. MaxOrders + 1 /\ o \in Order /\ reqQ' = Append(reqQ, o)
      BY <1>2, Limits, Requesting DEF Shares
    <3> QED BY <1>1, <3>1, Enqueue
  <2>2. WalTyped'
    BY <1>1, <1>2, <2>1 DEF TypeOK, WalTyped, Gate!Admit
  <2> QED BY <1>1, <2>1, <2>2, Unchanging DEF TypeOK
<1>3. CASE UNCHANGED <<open, admitted, nextId, reqQ>>
  BY <1>1, <1>3, Unchanging DEF TypeOK, queues, wal
<1> QED BY <1>2, <1>3 DEF Place

LEMMA TypeRequestSell ==
    ASSUME TypeOK, NEW t \in Tickers, RequestSell(t)
    PROVE  TypeOK'
<1>1. PICK n \in {positions[t].qty, positions[t].qty \div 2} \ {0} : Request(t, "SELL", n, None)
  BY DEF RequestSell
<1>2. n \in Shares
  <2>1. positions[t].qty \in Nat
    BY DEF TypeOK, BooksTyped, Position
  <2>2. positions[t].qty \div 2 \in Nat
    BY <2>1
  <2> QED BY <2>1, <2>2 DEF Shares
<1>3. /\ UNCHANGED <<hold, books, risk, gates, fillQ, failQ, closedQ, exec, at, recon>>
      /\ UNCHANGED <<open, admitted, recovered>>
  BY DEF RequestSell
<1>4. nextId' \in 1 .. MaxOrders + 1 /\ QueuesTyped' /\ WorkersTyped'
  <2> DEFINE o == [id |-> nextId, t |-> t, side |-> "SELL", qty |-> n, by |-> None]
  <2>1. nextId' \in 1 .. MaxOrders + 1 /\ o \in Order /\ reqQ' = Append(reqQ, o)
    BY <1>1, <1>2, Requesting
  <2> QED BY <1>3, <2>1, Enqueue
<1>5. WalTyped'
  BY <1>3, <1>4 DEF TypeOK, WalTyped
<1> QED BY <1>3, <1>4, <1>5, Unchanging DEF TypeOK

\* Short sequences.
LEMMA OneElement ==
    ASSUME NEW S, NEW x \in S
    PROVE  <<x>> \in Seq(S) /\ Len(<<x>>) = 1 /\ Head(<<x>>) = x
OBVIOUS

LEMMA Nonempty ==
    ASSUME NEW S
    PROVE  /\ <<>> \in Seq(S) /\ Len(<<>>) = 0
           /\ \A s \in Seq(S) : Len(s) \in Nat /\ (s = <<>> <=> Len(s) = 0)
BY EmptySeq, LenProperties

\* The order the ORDER_REQ worker takes.
LEMMA Taking ==
    ASSUME TypeOK, NEW o, Take(o), UNCHANGED <<fillQ, failQ, closedQ, at>>
    PROVE  o \in Order /\ QueuesTyped' /\ WorkersTyped'
<1>1. o \in Order /\ reqQ' \in Seq(Order)
  BY HeadTailProperties DEF TypeOK, QueuesTyped, Take
<1> QED BY <1>1 DEF TypeOK, QueuesTyped, WorkersTyped, at

LEMMA TypeBlock ==
    ASSUME TypeOK, NEW o, Block(o)
    PROVE  TypeOK'
<1>1. QueuesTyped' /\ WorkersTyped'
  BY Taking DEF Block
<1> QED BY <1>1, Unchanging DEF Block, TypeOK, Take

LEMMA TypePass ==
    ASSUME TypeOK, NEW o, Pass(o)
    PROVE  TypeOK'
<1>1. o \in Order /\ QueuesTyped' /\ WorkersTyped'
  BY Taking DEF Pass
<1>2. ExecTyped'
  BY <1>1 DEF Pass, ExecTyped
<1>3. GatesTyped'
  <2>1. o.side = "BUY" => registry[o.t] \in {None, o.by}
    BY DEF Pass
  <2>2. o.t \in Tickers /\ o.by \in Layers \cup {None}
    BY <1>1 DEF Order
  <2> QED BY <2>2 DEF TypeOK, GatesTyped, Pass
<1> QED BY <1>1, <1>2, <1>3, Unchanging DEF Pass, TypeOK

\* The leg under way and the one after it.
LEMMA Legs ==
    ASSUME NEW s \in Seq(LegType), Len(s) \in 1 .. 2
    PROVE  /\ s # <<>> /\ Head(s) \in LegType /\ Tail(s) \in Seq(LegType)
           /\ Len(Tail(s)) <= 1 /\ (Len(s) = 1 => Tail(s) = <<>>)
<1>1. s # <<>>
  BY Nonempty
<1>2. Head(s) \in LegType /\ Tail(s) \in Seq(LegType) /\ Len(Tail(s)) = Len(s) - 1
  BY <1>1, HeadTailProperties
<1> QED BY <1>1, <1>2, Nonempty

\* What the worker holds, once it is past the gates.
LEMMA Executing ==
    ASSUME TypeOK, exec.at \in {"route", "broker"}
    PROVE  /\ exec # Idle /\ exec.o \in Order
           /\ exec.at = "broker" =>
                /\ TheLeg \in LegType /\ Tail(exec.legs) \in Seq(LegType)
                /\ Len(Tail(exec.legs)) <= 1
                /\ exec.o.side = "BUY" => Tail(exec.legs) = <<>>
<1>1. exec # Idle
  BY DEF Idle
<1>2. exec.o \in Order
  BY <1>1 DEF TypeOK, ExecTyped
<1>3. ASSUME exec.at = "broker"
      PROVE  /\ TheLeg \in LegType /\ Tail(exec.legs) \in Seq(LegType)
             /\ Len(Tail(exec.legs)) <= 1
             /\ exec.o.side = "BUY" => Tail(exec.legs) = <<>>
  <2>1. exec \notin [at : {"route"}, o : Order]
    BY <1>3
  <2>2. /\ exec \in [at : {"broker"}, o : Order, legs : Seq(LegType)]
        /\ Len(exec.legs) \in 1 .. (IF exec.o.side = "BUY" THEN 1 ELSE 2)
    BY <1>1, <2>1 DEF TypeOK, ExecTyped
  <2>3. PICK s \in Seq(LegType) :
            s = exec.legs /\ Len(s) \in 1 .. (IF exec.o.side = "BUY" THEN 1 ELSE 2)
    BY <2>2, Zenon
  <2>4. Len(s) \in 1 .. 2 /\ (exec.o.side = "BUY" => Len(s) = 1)
    <3>1. Len(s) \in Nat
      BY Nonempty
    <3>2. CASE exec.o.side = "BUY"
      <4>1. Len(s) \in 1 .. 1
        BY <2>3, <3>2, Zenon
      <4> QED BY <3>1, <4>1
    <3>3. CASE exec.o.side # "BUY"
      <4>1. Len(s) \in 1 .. 2
        BY <2>3, <3>3, Zenon
      <4> QED BY <4>1, <3>3
    <3> QED BY <3>2, <3>3
  <2> QED BY <2>3, <2>4, Legs DEF TheLeg
<1> QED BY <1>1, <1>2, <1>3

LEMMA Starting ==
    ASSUME TypeOK, exec.at \in {"route", "broker"}, NEW legs \in Seq(LegType),
           Len(legs) <= (IF exec.o.side = "BUY" THEN 1 ELSE 2), Start(legs)
    PROVE  /\ ExecTyped'
           /\ exec' = Idle \/ (exec' # Idle /\ exec'.o = exec.o)
           /\ legs = <<>> => exec' = Idle
<1>1. exec.o \in Order
  BY Executing
<1>2. CASE legs = <<>>
  BY <1>2 DEF Start, ExecTyped
<1>3. CASE legs # <<>>
  <2>1. Len(legs) \in Nat /\ Len(legs) # 0
    BY <1>3, LenProperties, Nonempty
  <2>2. exec' = [at |-> "broker", o |-> exec.o, legs |-> legs]
    BY <1>3 DEF Start
  <2>3. exec' # Idle
    BY <2>2 DEF Idle
  <2>4. Len(legs) \in 1 .. (IF exec.o.side = "BUY" THEN 1 ELSE 2)
    BY <2>1
  <2> QED BY <1>1, <1>3, <2>2, <2>3, <2>4 DEF ExecTyped
<1> QED BY <1>2, <1>3

\* After a leg comes the other one or nothing, and nothing after that of a BUY.
LEMMA NextLeg ==
    ASSUME TypeOK, exec.at = "broker", NEW broken, LegDone(broken)
    PROVE  /\ ExecTyped'
           /\ exec' = Idle \/ (exec' # Idle /\ exec'.o = exec.o)
           /\ exec.o.side = "BUY" => exec' = Idle
<1> DEFINE rest == Tail(exec.legs)
           legs == IF rest # <<>> /\ Head(rest).b \in broken THEN <<>> ELSE rest
<1>1. /\ rest \in Seq(LegType) /\ Len(rest) <= 1
      /\ exec.o.side = "BUY" => rest = <<>>
  BY Executing
<1>2. legs \in Seq(LegType) /\ Len(legs) <= 1 /\ (exec.o.side = "BUY" => legs = <<>>)
  BY <1>1, Nonempty
<1>3. Start(legs)
  BY DEF LegDone
<1>4. Len(legs) <= (IF exec.o.side = "BUY" THEN 1 ELSE 2)
  BY <1>2, Nonempty
<1> HIDE DEF legs
<1> QED BY <1>2, <1>3, <1>4, Starting

\* The legs of a SELL are for its brokers.
LEMMA SplitTyped ==
    ASSUME TypeOK, NEW split \in [Brokers -> Nat], NEW n \in Nat
    PROVE  SplitLegs(split, n) \in Seq(LegType) /\ Len(SplitLegs(split, n)) <= 2
<1> DEFINE big == IF split["alpaca"] >= split["tradier"] THEN "alpaca" ELSE "tradier"
           n1  == IF big \in down THEN 0 ELSE MinOf(n, split[big])
           n2  == IF Other(big) \in down THEN 0 ELSE MinOf(n - n1, split[Other(big)])
           Part(b, k) == IF k > 0 THEN <<Leg(b, k, FALSE)>> ELSE <<>>
<1>1. big \in Brokers /\ Other(big) \in Brokers
  BY DEF Brokers, Other
<1>2. n1 \in Nat /\ n1 <= n
  BY <1>1, MinIs
<1>3. n2 \in Nat
  <2> HIDE DEF n1, big
  <2>1. n - n1 \in Nat /\ split[Other(big)] \in Nat
    BY <1>1, <1>2
  <2> QED BY <2>1, MinIs
<1>4. ASSUME NEW b \in Brokers, NEW k \in Nat
      PROVE  Part(b, k) \in Seq(LegType) /\ Len(Part(b, k)) <= 1
  <2>1. CASE k > 0
    <3> DEFINE leg == Leg(b, k, FALSE)
    <3>1. leg \in LegType
      BY <2>1 DEF Leg, LegType, Shares
    <3>2. Part(b, k) = <<leg>>
      BY <2>1
    <3> HIDE DEF leg, Part
    <3>3. <<leg>> \in Seq(LegType) /\ Len(<<leg>>) = 1
      BY <3>1, OneElement
    <3> QED BY <3>2, <3>3
  <2>2. CASE ~(k > 0)
    <3>1. Part(b, k) = <<>>
      BY <2>2
    <3> HIDE DEF Part
    <3> QED BY <3>1, Nonempty
  <2> QED BY <2>1, <2>2
<1>5. SplitLegs(split, n) = Part(big, n1) \o Part(Other(big), n2)
  BY DEF SplitLegs
<1> HIDE DEF big, n1, n2, Part
<1>6. Part(big, n1) \in Seq(LegType) /\ Len(Part(big, n1)) <= 1
  BY <1>1, <1>2, <1>4
<1>7. Part(Other(big), n2) \in Seq(LegType) /\ Len(Part(Other(big), n2)) <= 1
  BY <1>1, <1>3, <1>4
<1> QED BY <1>5, <1>6, <1>7, ConcatProperties, LenProperties

LEMMA TypeRouteSplit ==
    ASSUME TypeOK, RouteSplit
    PROVE  TypeOK' /\ (exec' = Idle \/ (exec' # Idle /\ exec'.o = exec.o))
<1>1. exec.o \in Order /\ exec.o.qty \in Nat /\ exec.o.t \in Tickers
  BY Executing DEF RouteSplit, Order, Shares
<1> DEFINE legs == SplitLegs(positions[exec.o.t].split, exec.o.qty)
<1>2. legs \in Seq(LegType) /\ Len(legs) <= 2
  <2>1. positions[exec.o.t].split \in [Brokers -> Nat]
    BY <1>1 DEF TypeOK, BooksTyped, Position
  <2> QED BY <1>1, <2>1, SplitTyped
<1>3. Start(legs) /\ exec.at = "route" /\ exec.o.side = "SELL"
  BY DEF RouteSplit
<1>4. ExecTyped' /\ (exec' = Idle \/ (exec' # Idle /\ exec'.o = exec.o))
  <2> HIDE DEF legs
  <2> QED BY <1>2, <1>3, Starting
<1> QED BY <1>4, Unchanging DEF RouteSplit, TypeOK, queues, at

LEMMA TypeRoute ==
    ASSUME TypeOK, Route
    PROVE  TypeOK' /\ (exec' = Idle \/ (exec' # Idle /\ exec'.o = exec.o))
<1>1. exec.o \in Order /\ exec.o.qty \in Shares /\ exec.o.t \in Tickers /\ exec.at = "route"
  BY Executing DEF Route, Order
<1>2. PICK p \in Preferred(exec.o) :
          LET b == IF p \in down THEN Other(p) ELSE p
          IN  /\ Start(<<Leg(b, exec.o.qty, FALSE)>>)
              /\ brokerOf' = IF exec.o.side = "BUY" THEN [brokerOf EXCEPT ![exec.o.t] = b]
                             ELSE brokerOf
  BY DEF Route
<1> DEFINE b == IF p \in down THEN Other(p) ELSE p
           legs == <<Leg(b, exec.o.qty, FALSE)>>
<1>3. b \in Brokers
  <2>1. p \in Brokers
    BY <1>1, <1>2 DEF Preferred, Default, Brokers, TypeOK, GatesTyped, None
  <2> QED BY <2>1 DEF Other, Brokers
<1>4. legs \in Seq(LegType) /\ Len(legs) = 1
  <2>1. Leg(b, exec.o.qty, FALSE) \in LegType
    BY <1>1, <1>3 DEF Leg, LegType
  <2> QED BY <2>1, OneElement
<1>5. ExecTyped' /\ (exec' = Idle \/ (exec' # Idle /\ exec'.o = exec.o))
  <2>1. Start(legs) /\ Len(legs) <= (IF exec.o.side = "BUY" THEN 1 ELSE 2)
    BY <1>2, <1>4
  <2> HIDE DEF legs
  <2> QED BY <1>1, <1>4, <2>1, Starting
<1>6. GatesTyped'
  BY <1>2, <1>3 DEF Route, TypeOK, GatesTyped
<1> QED BY <1>5, <1>6, Unchanging DEF Route, TypeOK, queues, at

\* The failure of an order names its ticker, side and layer.
LEMMA Failing ==
    ASSUME TypeOK, exec.at \in {"route", "broker"},
           NEW why \in {"no healthy broker", "no position", "order"}, Failed(exec.o, why),
           UNCHANGED <<reqQ, fillQ, closedQ, at>>
    PROVE  QueuesTyped' /\ WorkersTyped'
<1> DEFINE f == [t |-> exec.o.t, side |-> exec.o.side, by |-> exec.o.by, why |-> why]
<1>1. exec.o \in Order
  BY Executing
<1>2. f \in Failure
  BY <1>1 DEF Order, Failure
<1>3. failQ' = Append(failQ, f)
  BY DEF Failed
<1> HIDE DEF f
<1> QED BY <1>2, <1>3, Enqueue DEF at

LEMMA TypeRouteNowhere ==
    ASSUME TypeOK, RouteNowhere
    PROVE  TypeOK'
<1>1. QueuesTyped' /\ WorkersTyped'
  BY Failing DEF RouteNowhere
<1>2. ExecTyped'
  BY DEF RouteNowhere, ExecTyped
<1> QED BY <1>1, <1>2, Unchanging DEF RouteNowhere, TypeOK

\* What a broker has done, in whole or in part.
LEMMA Executions ==
    ASSUME TypeOK, exec.at = "broker", NEW n \in Nat
    PROVE  /\ Executed(n) \in [Brokers -> [Tickers -> Nat]]
           /\ \A b \in Brokers, t \in Tickers :
                 Executed(n)[b][t] = IF b = TheLeg.b /\ t = exec.o.t
                                     THEN IF exec.o.side = "BUY" THEN hold[b][t] + n
                                          ELSE hold[b][t] - MinOf(hold[b][t], n)
                                     ELSE hold[b][t]
<1>1. TheLeg.b \in Brokers /\ exec.o.t \in Tickers
  BY Executing DEF LegType, Order
<1>2. hold \in [Brokers -> [Tickers -> Nat]]
  BY DEF TypeOK, HoldTyped
<1> DEFINE k == hold[TheLeg.b][exec.o.t]
           m == IF exec.o.side = "BUY" THEN k + n ELSE k - MinOf(k, n)
<1>3. k \in Nat
  BY <1>1, <1>2
<1>4. m \in Nat
  <2> HIDE DEF k
  <2>1. MinOf(k, n) \in Nat /\ MinOf(k, n) <= k
    BY <1>3, MinIs
  <2> QED BY <1>3, <2>1
<1>5. Executed(n) = [hold EXCEPT ![TheLeg.b][exec.o.t] = m]
  BY DEF Executed
<1> HIDE DEF m
<1>6. Executed(n) \in [Brokers -> [Tickers -> Nat]]
  BY <1>1, <1>2, <1>4, <1>5
<1>7. ASSUME NEW b \in Brokers, NEW t \in Tickers
      PROVE  Executed(n)[b][t] = IF b = TheLeg.b /\ t = exec.o.t THEN m ELSE hold[b][t]
  BY <1>1, <1>2, <1>5, <1>7
<1> QED BY <1>6, <1>7 DEF m

LEMMA TypeBrokerFills ==
    ASSUME TypeOK, NEW n \in 1 .. 2 * Qty, BrokerFills(n)
    PROVE  TypeOK'
<1> DEFINE f == [t |-> exec.o.t, side |-> exec.o.side, qty |-> n, id |-> exec.o.id,
                 by |-> exec.o.by, b |-> TheLeg.b]
<1>1. /\ exec.at = "broker" /\ hold' = Executed(n) /\ fillQ' = Append(fillQ, f) /\ LegDone(down)
      /\ UNCHANGED <<books, risk, gates, reqQ, failQ, closedQ, at, recon, wal>>
  BY DEF BrokerFills
<1>2. n \in Nat /\ n \in Shares
  BY Limits DEF Shares
<1>3. f \in Fill
  <2>1. exec.o \in Order /\ TheLeg \in LegType
    BY <1>1, Executing
  <2> QED BY <1>2, <2>1 DEF Order, LegType, Fill
<1>4. QueuesTyped' /\ WorkersTyped'
  <2> HIDE DEF f
  <2> QED BY <1>1, <1>3, Enqueue DEF at
<1>5. HoldTyped' /\ ExecTyped'
  BY <1>1, <1>2, Executions, NextLeg DEF HoldTyped
<1> QED BY <1>1, <1>4, <1>5, Unchanging DEF TypeOK

\* Stray shares stay whole.
LEMMA Strays ==
    ASSUME TypeOK, exec.at = "broker", Stray
    PROVE  HoldTyped'
<1>1. TheLeg \in LegType /\ exec.o \in Order
  BY Executing
<1>2. TheLeg.b \in Brokers /\ TheLeg.n \in Nat /\ exec.o.t \in Tickers
  BY <1>1 DEF LegType, Order, Shares
<1>3. hold' = [hold EXCEPT ![TheLeg.b][exec.o.t] = @ + TheLeg.n]
  BY DEF Stray
<1> QED BY <1>2, <1>3 DEF TypeOK, HoldTyped

LEMMA TypeBrokerFails ==
    ASSUME TypeOK, BrokerFails
    PROVE  TypeOK'
<1>1. /\ exec.at = "broker" /\ LegDone(down)
      /\ UNCHANGED <<books, risk, gates, reqQ, fillQ, closedQ, at, recon, nextId, recovered>>
      /\ hold' = hold \/ Stray
  BY DEF BrokerFails
<1>2. QueuesTyped' /\ WorkersTyped'
  <2>1. PICK why \in {"no position", "order"} : Failed(exec.o, why)
    BY DEF BrokerFails
  <2> QED BY <1>1, <2>1, Failing
<1>3. WalTyped'
  <2>1. \/ UNCHANGED <<open, admitted>>
        \/ Gate!Close(exec.o.t, exec.o.id)
    BY DEF BrokerFails
  <2> QED BY <1>1, <2>1 DEF TypeOK, WalTyped, Gate!Close
<1>4. HoldTyped' /\ ExecTyped'
  BY <1>1, Strays, Unchanging, NextLeg
<1> QED BY <1>1, <1>2, <1>3, <1>4, Unchanging DEF TypeOK

LEMMA TypeBrokerRaises ==
    ASSUME TypeOK, BrokerRaises
    PROVE  /\ TypeOK'
           /\ exec' = Idle \/ (exec' # Idle /\ exec'.o = exec.o)
<1> DEFINE second == <<Leg(Other(TheLeg.b), TheLeg.n, TRUE)>>
<1>1. /\ exec.at = "broker" /\ down' \in {down, down \cup {TheLeg.b}}
      /\ LegDone(down') \/ Start(second \o Tail(exec.legs))
      /\ hold' = hold \/ Stray
      /\ UNCHANGED <<books, risk, registry, acquired, brokerOf, queues, at, recon, wal>>
  BY DEF BrokerRaises
<1>2. TheLeg \in LegType /\ exec.o \in Order
  BY <1>1, Executing
<1>3. GatesTyped'
  BY <1>1, <1>2 DEF TypeOK, GatesTyped, LegType
<1>4. HoldTyped'
  BY <1>1, Strays, Unchanging
<1>5. ExecTyped' /\ (exec' = Idle \/ (exec' # Idle /\ exec'.o = exec.o))
  <2>1. CASE LegDone(down')
    BY <1>1, <2>1, NextLeg
  <2>2. CASE Start(second \o Tail(exec.legs))
    <3>1. second \in Seq(LegType) /\ Len(second) = 1
      <4> DEFINE leg == Leg(Other(TheLeg.b), TheLeg.n, TRUE)
      <4>1. leg \in LegType
        BY <1>2 DEF Leg, LegType, Other, Brokers
      <4> HIDE DEF leg
      <4> QED BY <4>1, OneElement DEF leg
    <3>2. /\ Tail(exec.legs) \in Seq(LegType) /\ Len(Tail(exec.legs)) <= 1
          /\ exec.o.side = "BUY" => Tail(exec.legs) = <<>>
      BY <1>1, Executing
    <3> HIDE DEF second
    <3>3. PICK rest \in Seq(LegType) : rest = Tail(exec.legs) /\ Len(rest) <= 1
      BY <3>2, Zenon
    <3>4. /\ second \o rest \in Seq(LegType) /\ Len(second \o rest) = 1 + Len(rest)
          /\ Len(rest) \in Nat
      <4>1. PICK s \in Seq(LegType) : s = second /\ Len(s) = 1
        BY <3>1, Zenon
      <4>2. s \o rest \in Seq(LegType) /\ Len(s \o rest) = 1 + Len(rest)
        BY <4>1, ConcatProperties
      <4> QED BY <4>1, <4>2, Nonempty
    <3>5. Len(second \o rest) <= (IF exec.o.side = "BUY" THEN 1 ELSE 2)
      BY <3>2, <3>3, <3>4, Nonempty
    <3> QED BY <1>1, <2>2, <3>3, <3>4, <3>5, Starting, Zenon
  <2> QED BY <1>1, <2>1, <2>2
<1> QED BY <1>1, <1>3, <1>4, <1>5, Unchanging DEF TypeOK, queues, at

LEMMA TypeCooldownEnds ==
    ASSUME TypeOK, NEW b \in Brokers, CooldownEnds(b)
    PROVE  TypeOK'
<1>1. GatesTyped'
  BY DEF TypeOK, GatesTyped, CooldownEnds
<1> QED BY <1>1, Unchanging DEF TypeOK, CooldownEnds, queues, at

LEMMA TypeStopFires ==
    ASSUME TypeOK, NEW b \in Brokers, NEW t \in Tickers, StopFires(b, t)
    PROVE  TypeOK'
<1>1. hold' = [hold EXCEPT ![b][t] = 0]
  BY DEF StopFires
<1>2. HoldTyped'
  BY <1>1 DEF TypeOK, HoldTyped
<1> QED BY <1>2, Unchanging DEF TypeOK, StopFires, queues, at

LEMMA TypeFillClear ==
    ASSUME TypeOK, FillClear
    PROVE  TypeOK'
<1>1. RiskTyped' /\ GatesTyped'
  BY DEF TypeOK, RiskTyped, GatesTyped, FillClear
<1>2. QueuesTyped' /\ WorkersTyped'
  BY DEF TypeOK, QueuesTyped, WorkersTyped, FillClear, queues
<1> QED BY <1>1, <1>2, Unchanging DEF TypeOK, FillClear

\* The fill that is handled.
LEMMA Filling ==
    ASSUME TypeOK, fillAt = 1
    PROVE  /\ fillQ # <<>> /\ Head(fillQ) \in Fill /\ Tail(fillQ) \in Seq(Fill)
           /\ Head(fillQ).t \in Tickers /\ Head(fillQ).qty \in Nat /\ Head(fillQ).qty > 0
           /\ Head(fillQ).b \in Brokers /\ Head(fillQ).by \in Layers \cup {None}
           /\ positions[Head(fillQ).t] \in Position
<1>1. fillQ # <<>> /\ fillQ \in Seq(Fill)
  BY DEF TypeOK, WorkersTyped, QueuesTyped
<1>2. Head(fillQ) \in Fill /\ Tail(fillQ) \in Seq(Fill)
  BY <1>1, HeadTailProperties
<1>3. /\ Head(fillQ).t \in Tickers /\ Head(fillQ).qty \in Shares
      /\ Head(fillQ).b \in Brokers /\ Head(fillQ).by \in Layers \cup {None}
  BY <1>2 DEF Fill
<1>4. positions[Head(fillQ).t] \in Position
  BY <1>3 DEF TypeOK, BooksTyped
<1> QED BY <1>1, <1>2, <1>3, <1>4 DEF Shares

LEMMA TypeFillBuy ==
    ASSUME TypeOK, FillBuy
    PROVE  TypeOK'
<1> DEFINE f == Head(fillQ)
<1>1. /\ fillAt = 1 /\ fillAt' = 0 /\ fillQ' = Tail(fillQ)
      /\ UNCHANGED <<hold, risk, gates, reqQ, failQ, closedQ, exec, failAt, closedAt, recon,
                     nextId, recovered>>
      /\ \/ UNCHANGED <<books, open, admitted>>
         \/ /\ positions' = [positions EXCEPT ![f.t] = [NoPos EXCEPT !.qty = f.qty, !.by = f.by]]
            /\ reclaimed' = reclaimed \cup {f.t}
            /\ Gate!Close(f.t, f.id) \/ UNCHANGED <<open, admitted>>
  BY DEF FillBuy, FillDone
<1>2. QueuesTyped' /\ WorkersTyped'
  BY <1>1, Filling DEF TypeOK, QueuesTyped, WorkersTyped
<1>3. WalTyped'
  BY <1>1 DEF TypeOK, WalTyped, Gate!Close
<1>4. BooksTyped'
  <2>1. [NoPos EXCEPT !.qty = f.qty, !.by = f.by] \in Position
    BY <1>1, Filling DEF NoPos, NoSplit, Position
  <2> QED BY <1>1, <2>1, Filling DEF TypeOK, BooksTyped, books
<1> QED BY <1>1, <1>2, <1>3, <1>4, Unchanging DEF TypeOK

\* What is sold is clamped to the position.
Clamped == MinOf(Head(fillQ).qty, positions[Head(fillQ).t].qty)

LEMMA ClampedIs ==
    ASSUME TypeOK, fillAt = 1
    PROVE  /\ Clamped \in Nat /\ Clamped <= positions[Head(fillQ).t].qty
           /\ Clamped <= Head(fillQ).qty /\ positions[Head(fillQ).t].qty \in Nat
           /\ Clamped = Head(fillQ).qty \/ Clamped = positions[Head(fillQ).t].qty
<1>1. Head(fillQ).qty \in Nat /\ positions[Head(fillQ).t].qty \in Nat
  BY Filling DEF Position
<1> DEFINE a == Head(fillQ).qty
           b == positions[Head(fillQ).t].qty
<1>2. a \in Nat /\ b \in Nat /\ Clamped = MinOf(a, b)
  BY <1>1 DEF Clamped
<1> HIDE DEF a, b
<1>3. /\ Clamped \in Nat /\ Clamped <= b /\ Clamped <= a /\ b \in Nat
      /\ Clamped = a \/ Clamped = b
  BY <1>2, MinIs
<1> QED BY <1>3 DEF a, b

LEMMA SplitStays ==
    ASSUME NEW split \in [Brokers -> Nat], NEW b \in Brokers, NEW n \in Nat
    PROVE  SplitAfter(split, b, n) \in [Brokers -> Nat]
<1>1. split[b] - MinOf(split[b], n) \in Nat
  <2>1. MinOf(split[b], n) \in Nat /\ MinOf(split[b], n) <= split[b]
    BY MinIs
  <2> QED BY <2>1
<1>2. [split EXCEPT ![b] = @ - MinOf(@, n)] \in [Brokers -> Nat]
  BY <1>1
<1>3. NoSplit \in [Brokers -> Nat]
  BY DEF NoSplit
<1> QED BY <1>2, <1>3 DEF SplitAfter

\* A SELL reduces its position or closes it.
LEMMA Selling ==
    ASSUME TypeOK, FillSell
    PROVE  LET t == Head(fillQ).t
           IN  /\ positions' \in [Tickers -> Position]
               /\ \A u \in Tickers \ {t} : positions'[u] = positions[u]
               /\ positions'[t].qty = positions[t].qty - Clamped
               /\ positions'[t].by \in {None, positions[t].by}
<1> DEFINE f == Head(fillQ)
           p == positions[f.t]
           q == [p EXCEPT !.qty = @ - Clamped, !.split = SplitAfter(@, f.b, Clamped)]
<1>1. /\ fillAt = 1
      /\ \/ Clamped = p.qty /\ positions' = [positions EXCEPT ![f.t] = NoPos]
         \/ Clamped # p.qty /\ positions' = [positions EXCEPT
                                                ![f.t].qty = @ - Clamped,
                                                ![f.t].split = SplitAfter(@, f.b, Clamped)]
  BY DEF FillSell, Clamped
<1>2. f.t \in Tickers /\ f.b \in Brokers /\ p \in Position /\ positions \in [Tickers -> Position]
  BY <1>1, Filling DEF TypeOK, BooksTyped
<1>3. Clamped \in Nat /\ Clamped <= p.qty /\ p.qty \in Nat /\ p.split \in [Brokers -> Nat]
  BY <1>1, <1>2, ClampedIs DEF Position
<1>4. CASE Clamped = p.qty
  <2>1. NoPos \in Position /\ NoPos.qty = 0 /\ NoPos.by = None
    BY DEF NoPos, NoSplit, Position
  <2>2. positions' = [positions EXCEPT ![f.t] = NoPos] /\ p.qty - Clamped = 0
    BY <1>1, <1>3, <1>4
  <2> QED BY <1>2, <2>1, <2>2
<1>5. CASE Clamped # p.qty
  <2>1. positions' = [positions EXCEPT ![f.t].qty = @ - Clamped,
                                       ![f.t].split = SplitAfter(@, f.b, Clamped)]
    BY <1>1, <1>5
  <2>2. q \in Position /\ q.qty = p.qty - Clamped /\ q.by = p.by
    <3> DEFINE split == p.split
               b == f.b
    <3>1. split \in [Brokers -> Nat] /\ b \in Brokers
      BY <1>2, <1>3
    <3> HIDE DEF split, b
    <3>2. SplitAfter(split, b, Clamped) \in [Brokers -> Nat]
      BY <1>3, <3>1, SplitStays
    <3>3. SplitAfter(p.split, f.b, Clamped) \in [Brokers -> Nat]
      BY <3>2 DEF split, b
    <3>4. p.qty - Clamped \in Nat
      BY <1>3
    <3> HIDE DEF f, p
    <3> QED BY <1>2, <3>3, <3>4 DEF Position
  <2>3. positions' = [positions EXCEPT ![f.t] = q]
    BY <1>2, <2>1
  <2> HIDE DEF q
  <2> QED BY <1>2, <2>2, <2>3
<1> QED BY <1>4, <1>5

LEMMA Closing ==
    ASSUME TypeOK, NEW t \in Tickers
    PROVE  Append(closedQ, t) \in Seq(Tickers) /\ Append(closedQ, t) # <<>>
BY AppendProperties DEF TypeOK, QueuesTyped

LEMMA TypeFillSell ==
    ASSUME TypeOK, FillSell
    PROVE  TypeOK'
<1>1. /\ fillAt = 1 /\ fillAt' = 0 /\ fillQ' = Tail(fillQ)
      /\ closedQ' = closedQ \/ closedQ' = Append(closedQ, Head(fillQ).t)
      /\ UNCHANGED <<hold, reclaimed, risk, gates, reqQ, failQ, exec, failAt, closedAt, recon, wal>>
  BY DEF FillSell, FillDone
<1>2. QueuesTyped' /\ WorkersTyped'
  <2>1. Head(fillQ).t \in Tickers /\ Tail(fillQ) \in Seq(Fill)
    BY <1>1, Filling
  <2>2. closedQ' \in Seq(Tickers) /\ (closedQ # <<>> => closedQ' # <<>>)
    BY <1>1, <2>1, Closing DEF TypeOK, QueuesTyped
  <2>3. QueuesTyped'
    BY <1>1, <2>1, <2>2 DEF TypeOK, QueuesTyped
  <2>4. WorkersTyped'
    BY <1>1, <2>2 DEF TypeOK, WorkersTyped
  <2> QED BY <2>3, <2>4
<1>3. BooksTyped'
  BY <1>1, Selling DEF TypeOK, BooksTyped
<1> QED BY <1>1, <1>2, <1>3, Unchanging DEF TypeOK

\* The failure that is handled.
LEMMA FailIsThere ==
    ASSUME TypeOK, failAt > 0
    PROVE  /\ failQ # <<>> /\ Head(failQ) \in Failure /\ Tail(failQ) \in Seq(Failure)
           /\ Head(failQ).t \in Tickers
<1>1. failQ # <<>> /\ failQ \in Seq(Failure)
  BY DEF TypeOK, WorkersTyped, QueuesTyped
<1>2. Head(failQ) \in Failure /\ Tail(failQ) \in Seq(Failure)
  BY <1>1, HeadTailProperties
<1> QED BY <1>1, <1>2 DEF Failure

LEMMA TypeFailClear ==
    ASSUME TypeOK, FailClear
    PROVE  TypeOK'
<1>1. RiskTyped'
  BY DEF TypeOK, RiskTyped, FailClear
<1>2. QueuesTyped' /\ WorkersTyped'
  BY DEF TypeOK, QueuesTyped, WorkersTyped, FailClear, queues
<1> QED BY <1>1, <1>2, Unchanging DEF TypeOK, FailClear

LEMMA TypeFailRelease ==
    ASSUME TypeOK, FailRelease
    PROVE  TypeOK'
<1>1. GatesTyped'
  BY DEF TypeOK, GatesTyped, FailRelease, Release
<1>2. QueuesTyped' /\ WorkersTyped'
  BY DEF TypeOK, QueuesTyped, WorkersTyped, FailRelease, queues
<1> QED BY <1>1, <1>2, Unchanging DEF TypeOK, FailRelease

LEMMA TypeFailPhantom ==
    ASSUME TypeOK, FailPhantom
    PROVE  TypeOK'
<1>1. /\ failAt = 2 /\ failAt' = 3
      /\ UNCHANGED <<hold, reclaimed, risk, gates, reqQ, fillQ, failQ, exec, fillAt, closedAt,
                     recon, wal>>
      /\ \/ UNCHANGED <<positions, closedQ>>
         \/ /\ positions' = [positions EXCEPT ![Head(failQ).t] = NoPos]
            /\ closedQ' = Append(closedQ, Head(failQ).t)
  BY DEF FailPhantom
<1>2. Head(failQ).t \in Tickers /\ failQ # <<>>
  <2>1. failAt > 0
    BY <1>1
  <2> QED BY <2>1, FailIsThere
<1>3. QueuesTyped' /\ WorkersTyped'
  <2>1. closedQ' \in Seq(Tickers) /\ (closedQ # <<>> => closedQ' # <<>>)
    BY <1>1, <1>2, Closing DEF TypeOK, QueuesTyped
  <2>2. QueuesTyped'
    BY <1>1, <2>1 DEF TypeOK, QueuesTyped
  <2>3. WorkersTyped'
    BY <1>1, <1>2, <2>1 DEF TypeOK, WorkersTyped
  <2> QED BY <2>2, <2>3
<1>4. BooksTyped'
  <2>1. NoPos \in Position
    BY DEF NoPos, NoSplit, Position
  <2> QED BY <1>1, <2>1 DEF TypeOK, BooksTyped
<1> QED BY <1>1, <1>3, <1>4, Unchanging DEF TypeOK

LEMMA TypeFailPro ==
    ASSUME TypeOK, FailPro
    PROVE  TypeOK'
<1>1. RiskTyped'
  BY DEF TypeOK, RiskTyped, FailPro
<1>2. QueuesTyped' /\ WorkersTyped'
  <2>1. failAt = 3 /\ failAt' = 0 /\ failQ' = Tail(failQ)
        /\ UNCHANGED <<reqQ, fillQ, closedQ, fillAt, closedAt>>
    BY DEF FailPro
  <2> QED BY <2>1, FailIsThere DEF TypeOK, QueuesTyped, WorkersTyped
<1> QED BY <1>1, <1>2, Unchanging DEF TypeOK, FailPro

LEMMA TypeClosedRouter ==
    ASSUME TypeOK, ClosedRouter
    PROVE  TypeOK'
<1>1. GatesTyped'
  BY DEF TypeOK, GatesTyped, ClosedRouter
<1>2. QueuesTyped' /\ WorkersTyped'
  BY DEF TypeOK, QueuesTyped, WorkersTyped, ClosedRouter, queues
<1> QED BY <1>1, <1>2, Unchanging DEF TypeOK, ClosedRouter

LEMMA TypeClosedRegistry ==
    ASSUME TypeOK, ClosedRegistry
    PROVE  TypeOK'
<1>1. GatesTyped'
  BY DEF TypeOK, GatesTyped, ClosedRegistry, Release
<1>2. QueuesTyped' /\ WorkersTyped'
  BY DEF TypeOK, QueuesTyped, WorkersTyped, ClosedRegistry, queues
<1> QED BY <1>1, <1>2, Unchanging DEF TypeOK, ClosedRegistry

LEMMA TypeClosedPro ==
    ASSUME TypeOK, ClosedPro
    PROVE  TypeOK'
<1>1. RiskTyped'
  BY DEF TypeOK, RiskTyped, ClosedPro
<1>2. QueuesTyped' /\ WorkersTyped'
  <2>1. closedAt = 2 /\ closedAt' = 0 /\ closedQ' = Tail(closedQ)
        /\ UNCHANGED <<reqQ, fillQ, failQ, fillAt, failAt>>
    BY DEF ClosedPro
  <2>2. closedQ # <<>> /\ closedQ \in Seq(Tickers)
    BY <2>1 DEF TypeOK, QueuesTyped, WorkersTyped
  <2> QED BY <2>1, <2>2, HeadTailProperties DEF TypeOK, QueuesTyped, WorkersTyped
<1> QED BY <1>1, <1>2, Unchanging DEF TypeOK, ClosedPro

LEMMA TypeRecAlpaca ==
    ASSUME TypeOK, RecAlpaca
    PROVE  TypeOK'
<1>1. ReconTyped'
  <2>1. rounds' \in 0 .. MaxRounds
    BY Limits DEF TypeOK, ReconTyped, RecAlpaca
  <2> QED BY <2>1 DEF TypeOK, ReconTyped, HoldTyped, RecAlpaca, Brokers
<1> QED BY <1>1, Unchanging DEF TypeOK, RecAlpaca, queues, at

LEMMA TypeRecTradier ==
    ASSUME TypeOK, RecTradier
    PROVE  TypeOK'
<1>1. ReconTyped'
  <2>1. Nothing \in [Brokers -> [Tickers -> Nat]]
    BY DEF Nothing
  <2>2. [t \in Tickers |-> 0] \in [Tickers -> Nat]
    OBVIOUS
  <2>3. hold["tradier"] \in [Tickers -> Nat]
    BY DEF TypeOK, HoldTyped, Brokers
  <2>4. /\ rounds' = rounds /\ rec' \in {"fetched", "idle"}
        /\ \/ snap' = [snap EXCEPT !["tradier"] = hold["tradier"]]
           \/ snap' = [snap EXCEPT !["tradier"] = [t \in Tickers |-> 0]]
           \/ snap' = Nothing
    BY DEF RecTradier
  <2> QED BY <2>1, <2>2, <2>3, <2>4 DEF TypeOK, ReconTyped
<1> QED BY <1>1, Unchanging DEF TypeOK, RecTradier, queues, at

\* What a reconciliation makes of a ticker.
LEMMA ReconciledIs ==
    ASSUME TypeOK, NEW t \in Tickers
    PROVE  /\ Reconciled(t) \in Position /\ Seen(t) \in Nat
           /\ \/ Seen(t) = positions[t].qty /\ Reconciled(t) = positions[t]
              \/ Seen(t) # positions[t].qty /\ Reconciled(t).qty = Seen(t)
           /\ Reconciled(t).qty > 0 /\ Reconciled(t).by \in Layers =>
                 positions[t].qty > 0 /\ Reconciled(t).by = positions[t].by
<1> DEFINE p == positions[t]
           both == \A b \in Brokers : snap[b][t] > 0
           share == [NoSplit EXCEPT !["tradier"] = snap["tradier"][t]]
           n == Seen(t)
           tag == IF snap["tradier"][t] > 0 THEN "tradier" ELSE "alpaca"
           new == IF both THEN share ELSE NoSplit
           old == IF both THEN share ELSE p.split
<1>1. p \in Position /\ snap["alpaca"][t] \in Nat /\ snap["tradier"][t] \in Nat
  BY DEF TypeOK, BooksTyped, ReconTyped, Brokers
<1>2. n \in Nat
  BY <1>1 DEF Seen
<1>3. /\ new \in [Brokers -> Nat] /\ old \in [Brokers -> Nat] /\ tag \in Brokers
  <2>1. share \in [Brokers -> Nat] /\ NoSplit \in [Brokers -> Nat] /\ p.split \in [Brokers -> Nat]
    BY <1>1 DEF NoSplit, Position
  <2>2. tag \in Brokers
    BY DEF Brokers
  <2> HIDE DEF share, both, tag
  <2> QED BY <2>1, <2>2
<1>4. /\ n = p.qty => Reconciled(t) = p
      /\ n = 0 /\ p.qty # 0 => Reconciled(t) = NoPos
      /\ n # 0 /\ p.qty = 0 => Reconciled(t) = [qty |-> n, by |-> "other", tag |-> tag, split |-> new]
      /\ n # p.qty /\ n # 0 /\ p.qty # 0 => Reconciled(t) = [p EXCEPT !.qty = n, !.split = old]
  BY DEF Reconciled
<1> HIDE DEF p, n, tag, new, old
<1>5. p.qty \in Nat
  BY <1>1 DEF Position
<1>6. CASE n = p.qty
  BY <1>1, <1>2, <1>4, <1>6 DEF p, n
<1>7. CASE n = 0 /\ p.qty # 0
  <2>1. NoPos \in Position /\ NoPos.qty = 0
    BY DEF NoPos, NoSplit, Position
  <2> QED BY <1>2, <1>4, <1>7, <2>1 DEF p, n
<1>8. CASE n # 0 /\ p.qty = 0
  <2> DEFINE q == [qty |-> n, by |-> "other", tag |-> tag, split |-> new]
  <2>1. q \in Position /\ q.qty = n /\ q.by = "other"
    BY <1>2, <1>3 DEF Position
  <2>2. "other" \notin Layers
    BY DEF Layers
  <2>3. Reconciled(t) = q
    BY <1>4, <1>8
  <2> HIDE DEF q
  <2> QED BY <1>2, <1>8, <2>1, <2>2, <2>3 DEF p, n
<1>9. CASE n # p.qty /\ n # 0 /\ p.qty # 0
  <2> DEFINE q == [p EXCEPT !.qty = n, !.split = old]
  <2>1. q \in Position /\ q.qty = n /\ q.by = p.by
    BY <1>1, <1>2, <1>3 DEF Position
  <2>2. Reconciled(t) = q
    BY <1>4, <1>9
  <2> HIDE DEF q
  <2> QED BY <1>2, <1>5, <1>9, <2>1, <2>2 DEF p, n
<1> QED BY <1>6, <1>7, <1>8, <1>9

LEMMA TypeRecApply ==
    ASSUME TypeOK, RecApply
    PROVE  TypeOK'
<1> DEFINE phantoms == {t \in Tickers : IsOpen(t) /\ Seen(t) = 0}
<1>1. /\ positions' = [t \in Tickers |-> Reconciled(t)] /\ reclaimed' \subseteq Tickers \cup reclaimed
      /\ closedQ' = closedQ \o SetToSeq(phantoms) /\ rec' = "idle" /\ snap' = Nothing
      /\ UNCHANGED <<hold, risk, gates, reqQ, fillQ, failQ, exec, at, rounds, wal>>
  BY DEF RecApply
<1>2. BooksTyped'
  BY <1>1, ReconciledIs DEF TypeOK, BooksTyped
<1>3. QueuesTyped' /\ WorkersTyped'
  <2>1. SetToSeq(phantoms) \in Seq(Tickers)
    BY PhantomsInOrder
  <2>2. closedQ \in Seq(Tickers)
    BY DEF TypeOK, QueuesTyped
  <2> HIDE DEF phantoms
  <2>3. PICK s \in Seq(Tickers) : s = SetToSeq(phantoms)
    BY <2>1, Zenon
  <2>4. closedQ \o s \in Seq(Tickers) /\ Len(closedQ \o s) = Len(closedQ) + Len(s)
    BY <2>2, ConcatProperties
  <2>5. closedQ # <<>> => closedQ \o s # <<>>
    <3>1. Len(closedQ) \in Nat /\ Len(s) \in Nat /\ (closedQ = <<>> <=> Len(closedQ) = 0)
          /\ (closedQ \o s = <<>> <=> Len(closedQ \o s) = 0)
      BY <2>2, <2>4, Nonempty
    <3> QED BY <2>4, <3>1
  <2>6. closedQ' \in Seq(Tickers) /\ (closedQ # <<>> => closedQ' # <<>>)
    BY <1>1, <2>3, <2>4, <2>5
  <2>7. QueuesTyped'
    BY <1>1, <2>6 DEF TypeOK, QueuesTyped
  <2>8. WorkersTyped'
    BY <1>1, <2>6 DEF TypeOK, WorkersTyped, at
  <2> QED BY <2>7, <2>8
<1>4. ReconTyped'
  BY <1>1 DEF TypeOK, ReconTyped, Nothing
<1> QED BY <1>1, <1>2, <1>3, <1>4, Unchanging DEF TypeOK

\* What an import makes of a record.
LEMMA ImportIs ==
    ASSUME NEW p \in Position, NEW b \in Brokers, NEW n \in Nat
    PROVE  /\ Import(p, b, n) \in Position
           /\ n = 0 => Import(p, b, n) = p
           /\ n # 0 /\ p.qty = 0 => Import(p, b, n).qty = n /\ Import(p, b, n).tag = b
           /\ n # 0 /\ p.qty > 0 /\ p.tag \in {None, b}
                => Import(p, b, n).qty = n /\ Import(p, b, n).tag = b
           /\ n # 0 /\ p.qty > 0 /\ p.tag \notin {None, b} => Import(p, b, n).qty = p.qty + n
<1> DEFINE first == IF p.split = NoSplit THEN [NoSplit EXCEPT ![p.tag] = p.qty] ELSE p.split
           both  == [first EXCEPT ![b] = n]
           sum   == p.qty + n
           big   == IF n > p.qty THEN b ELSE p.tag
<1>1. p.qty \in Nat /\ p.tag \in Brokers \cup {None} /\ p.split \in [Brokers -> Nat]
  BY DEF Position
<1>2. both \in [Brokers -> Nat]
  <2>1. [NoSplit EXCEPT ![p.tag] = p.qty] \in [Brokers -> Nat]
    BY <1>1 DEF NoSplit
  <2>2. first \in [Brokers -> Nat]
    BY <1>1, <2>1
  <2> HIDE DEF first
  <2> QED BY <2>2
<1>3. sum \in Nat /\ big \in Brokers \cup {None}
  BY <1>1
<1>4. /\ n = 0 => Import(p, b, n) = p
      /\ n # 0 /\ p.qty = 0 => Import(p, b, n) = [NoPos EXCEPT !.qty = n, !.by = "other", !.tag = b]
      /\ n # 0 /\ p.qty > 0 /\ p.tag \in {None, b}
            => Import(p, b, n) = [p EXCEPT !.qty = n, !.tag = b]
      /\ n # 0 /\ p.qty > 0 /\ p.tag \notin {None, b}
            => Import(p, b, n) = [p EXCEPT !.qty = sum, !.tag = big, !.split = both]
  BY <1>1 DEF Import
<1> DEFINE new == [NoPos EXCEPT !.qty = n, !.by = "other", !.tag = b]
           same == [p EXCEPT !.qty = n, !.tag = b]
           more == [p EXCEPT !.qty = sum, !.tag = big, !.split = both]
<1>5. new \in Position /\ new.qty = n /\ new.tag = b
  BY DEF NoPos, NoSplit, Position
<1>6. same \in Position /\ same.qty = n /\ same.tag = b
  BY DEF Position
<1> HIDE DEF sum, big, both
<1>7. more \in Position /\ more.qty = sum
  BY <1>2, <1>3 DEF Position
<1> HIDE DEF new, same, more
<1>8. n = 0 \/ (n # 0 /\ p.qty = 0) \/ (n # 0 /\ p.qty > 0 /\ p.tag \in {None, b})
      \/ (n # 0 /\ p.qty > 0 /\ p.tag \notin {None, b})
  BY <1>1
<1>9. CASE n = 0
  BY <1>4, <1>9
<1>10. CASE n # 0 /\ p.qty = 0
  <2>1. Import(p, b, n) = new /\ ~(p.qty > 0)
    BY <1>4, <1>10 DEF new
  <2> QED BY <1>5, <1>10, <2>1
<1>11. CASE n # 0 /\ p.qty > 0 /\ p.tag \in {None, b}
  <2>1. Import(p, b, n) = same /\ p.qty # 0
    BY <1>1, <1>4, <1>11 DEF same
  <2> QED BY <1>6, <1>11, <2>1
<1>12. CASE n # 0 /\ p.qty > 0 /\ p.tag \notin {None, b}
  <2>1. Import(p, b, n) = more /\ p.qty # 0
    BY <1>1, <1>4, <1>12 DEF more
  <2> QED BY <1>7, <1>12, <2>1 DEF sum
<1> QED BY <1>8, <1>9, <1>10, <1>11, <1>12

LEMMA SyncedIs ==
    ASSUME NEW p \in Position, NEW a \in Nat, NEW d \in Nat
    PROVE  /\ Synced(p, a, d) \in Position
           /\ ~(p.qty > 0 /\ Merges(p, a, d)) => Synced(p, a, d).qty = a + d
           /\ a + d = 0 => Synced(p, a, d).qty = 0
<1>1. "alpaca" \in Brokers /\ "tradier" \in Brokers /\ "alpaca" # "tradier" /\ p.qty \in Nat
      /\ p.tag \in {"alpaca", "tradier", None}
  BY DEF Brokers, Position
<1>2. PICK q \in Position : q = Import(p, "alpaca", a)
  BY <1>1, ImportIs
<1>3. PICK r \in Position : r = Import(q, "tradier", d)
  BY <1>1, ImportIs
<1>4. CASE a = 0 /\ d = 0
  <2>1. Synced(p, a, d) = NoPos
    BY <1>4 DEF Synced
  <2>2. NoPos \in Position /\ NoPos.qty = 0
    BY DEF NoPos, NoSplit, Position
  <2> QED BY <1>4, <2>1, <2>2
<1>5. CASE ~(a = 0 /\ d = 0)
  <2>1. Synced(p, a, d) = r /\ a + d # 0
    BY <1>2, <1>3, <1>5 DEF Synced
  <2>2. ASSUME ~(p.qty > 0 /\ Merges(p, a, d)) PROVE r.qty = a + d
    <3>1. q.qty \in Nat /\ r.qty \in Nat
      BY DEF Position
    <3>2. CASE a = 0
      <4>1. q = p /\ d # 0
        BY <1>1, <1>2, <1>5, <3>2, ImportIs
      <4>2. p.qty > 0 => p.tag \in {None, "tradier"}
        BY <1>1, <2>2, <3>2, <4>1 DEF Merges
      <4>3. r.qty = d
        BY <1>1, <1>3, <4>1, <4>2, ImportIs
      <4> QED BY <3>2, <4>3
    <3>3. CASE a # 0
      <4>1. p.qty > 0 => p.tag \in {None, "alpaca"}
        BY <1>1, <2>2, <3>3 DEF Merges
      <4>2. q.qty = a /\ q.tag = "alpaca"
        BY <1>1, <1>2, <3>3, <4>1, ImportIs
      <4>3. r.qty = a + d
        <5>1. CASE d = 0
          BY <1>1, <1>3, <4>2, <5>1, ImportIs
        <5>2. CASE d # 0
          <6>1. q.qty > 0 /\ q.tag \notin {None, "tradier"}
            BY <3>3, <4>2 DEF None
          <6> QED BY <1>1, <1>3, <4>2, <5>2, <6>1, ImportIs
        <5> QED BY <5>1, <5>2
      <4> QED BY <4>3
    <3> QED BY <3>2, <3>3
  <2> QED BY <2>1, <2>2
<1> QED BY <1>4, <1>5

\* What the brokers hold when Core dies, and what the start sees of it.
LEMMA HeldAtStart ==
    ASSUME TypeOK, Restart
    PROVE  HoldTyped'
<1>1. CASE hold' = hold
  BY <1>1 DEF TypeOK, HoldTyped
<1>2. CASE exec.at = "broker" /\ hold' = Executed(TheLeg.n)
  <2>1. TheLeg.n \in Nat
    BY <1>2, Executing DEF LegType, Shares
  <2>2. Executed(TheLeg.n) \in [Brokers -> [Tickers -> Nat]]
    BY <1>2, <2>1, Executions
  <2> QED BY <1>2, <2>2 DEF HoldTyped
<1> QED BY <1>1, <1>2 DEF Restart

LEMMA TypeRestart ==
    ASSUME TypeOK, Restart
    PROVE  TypeOK'
<1>1. PICK ok \in SUBSET Brokers :
          LET at0 == [b \in Brokers |-> [t \in Tickers |-> IF b \in ok THEN hold[b][t] ELSE 0]]
          IN  /\ positions' = [t \in Tickers |->
                                 Synced(positions[t], at0["alpaca"][t], at0["tradier"][t])]
              /\ brokerOf' = [t \in Tickers |-> CASE at0["tradier"][t] > 0 -> "tradier"
                                                  [] at0["tradier"][t] <= 0 /\ at0["alpaca"][t] > 0
                                                       -> "alpaca"
                                                  [] OTHER -> brokerOf[t]]
  BY DEF Restart
<1> DEFINE at0 == [b \in Brokers |-> [t \in Tickers |-> IF b \in ok THEN hold[b][t] ELSE 0]]
<1>2. \A t \in Tickers : at0["alpaca"][t] \in Nat /\ at0["tradier"][t] \in Nat
  BY DEF TypeOK, HoldTyped, Brokers
<1>3. BooksTyped'
  <2>1. \A t \in Tickers : positions'[t] = Synced(positions[t], at0["alpaca"][t], at0["tradier"][t])
    BY <1>1
  <2>2. \A t \in Tickers : positions[t] \in Position
    BY DEF TypeOK, BooksTyped
  <2>3. DOMAIN positions' = Tickers /\ positions' = [t \in Tickers |-> positions'[t]]
    BY <1>1
  <2>4. reclaimed' \subseteq Tickers
    BY DEF Restart, TypeOK, BooksTyped
  <2> HIDE DEF at0
  <2>5. \A t \in Tickers : positions'[t] \in Position
    BY <1>2, <2>1, <2>2, SyncedIs
  <2> QED BY <2>3, <2>4, <2>5 DEF BooksTyped
<1>4. GatesTyped'
  <2>1. \A t \in Tickers : brokerOf'[t] \in {"tradier", "alpaca", brokerOf[t]}
    <3> HIDE DEF at0
    <3> SUFFICES ASSUME NEW t \in Tickers PROVE brokerOf'[t] \in {"tradier", "alpaca", brokerOf[t]}
      OBVIOUS
    <3>1. at0["alpaca"][t] \in Nat /\ at0["tradier"][t] \in Nat
      BY <1>2
    <3>2. brokerOf'[t] = CASE at0["tradier"][t] > 0 -> "tradier"
                           [] at0["tradier"][t] <= 0 /\ at0["alpaca"][t] > 0 -> "alpaca"
                           [] OTHER -> brokerOf[t]
      BY <1>1 DEF at0
    <3> QED BY <3>1, <3>2
  <2>2. brokerOf' = [t \in Tickers |-> brokerOf'[t]]
    BY <1>1
  <2>3. brokerOf' \in [Tickers -> Brokers \cup {None}]
    BY <2>1, <2>2 DEF TypeOK, GatesTyped, Brokers
  <2> QED BY <2>3 DEF GatesTyped, Restart
<1>5. RiskTyped'
  BY DEF RiskTyped, Restart
<1>6. QueuesTyped' /\ WorkersTyped'
  <2>1. /\ reqQ' = <<>> /\ fillQ' = <<>> /\ failQ' = <<>> /\ closedQ' = <<>>
        /\ fillAt' = 0 /\ failAt' = 0 /\ closedAt' = 0
    BY DEF Restart
  <2> QED BY <2>1, Nonempty DEF QueuesTyped, WorkersTyped
<1>7. ExecTyped'
  BY DEF ExecTyped, Restart
<1>8. ReconTyped'
  BY DEF TypeOK, ReconTyped, Restart, Nothing
<1>9. WalTyped'
  BY DEF TypeOK, WalTyped, Restart
<1> QED BY <1>3, <1>4, <1>5, <1>6, <1>7, <1>8, <1>9, HeldAtStart DEF TypeOK

LEMMA TypeRecoverWal ==
    ASSUME TypeOK, RecoverWal
    PROVE  TypeOK'
<1>1. WalTyped'
  BY DEF TypeOK, WalTyped, RecoverWal
<1> QED BY <1>1, Unchanging DEF TypeOK, RecoverWal, queues, at

LEMMA TypeInit ==
    Init => TypeOK
<1> SUFFICES ASSUME Init PROVE TypeOK
  OBVIOUS
<1>1. HoldTyped /\ BooksTyped
  BY DEF Init, HoldTyped, BooksTyped, NoPos, NoSplit, Position
<1>2. RiskTyped /\ GatesTyped
  BY DEF Init, RiskTyped, GatesTyped
<1>3. QueuesTyped /\ WorkersTyped
  BY Nonempty DEF Init, QueuesTyped, WorkersTyped
<1>4. ExecTyped
  BY DEF Init, ExecTyped
<1>5. ReconTyped /\ WalTyped
  <2>1. 0 \in 0 .. MaxRounds /\ 1 \in 1 .. MaxOrders + 1
    BY Limits
  <2>2. snap = Nothing /\ rounds = 0 /\ rec = "idle"
    BY DEF Init
  <2>3. open = [t \in Tickers |-> {}] /\ admitted = {} /\ nextId = 1 /\ recovered = FALSE
    BY DEF Init, Gate!Init
  <2> QED BY <2>1, <2>2, <2>3 DEF ReconTyped, WalTyped, Nothing
<1> QED BY <1>1, <1>2, <1>3, <1>4, <1>5 DEF TypeOK

LEMMA TypeStep ==
    TypeOK /\ [Next]_vars => TypeOK'
<1> SUFFICES ASSUME TypeOK, [Next]_vars PROVE TypeOK'
  OBVIOUS
<1>1. CASE UNCHANGED vars
  BY <1>1, Unchanging DEF TypeOK, vars
<1>2. ASSUME NEW t \in Tickers,
             \/ ScreenVwap(t) \/ ScreenPro(t) \/ RequestSell(t)
             \/ \E l \in Layers : Place(l, t) \/ TurnDown(l, t)
      PROVE  TypeOK'
  BY <1>2, TypeScreenVwap, TypeScreenPro, TypeRequestSell, TypePlace, TypeTurnDown
<1>3. CASE Orders
  BY <1>3, TypeBlock, TypePass, TypeRouteSplit, TypeRoute, TypeRouteNowhere, TypeBrokerFills,
     TypeBrokerFails, TypeBrokerRaises DEF Orders
<1>4. CASE Fills
  BY <1>4, TypeFillClear, TypeFillBuy, TypeFillSell DEF Fills
<1>5. CASE Fails
  BY <1>5, TypeFailClear, TypeFailRelease, TypeFailPhantom, TypeFailPro DEF Fails
<1>6. CASE Closeds
  BY <1>6, TypeClosedRouter, TypeClosedRegistry, TypeClosedPro DEF Closeds
<1>7. CASE Reconcile
  BY <1>7, TypeRecAlpaca, TypeRecTradier, TypeRecApply DEF Reconcile
<1>8. ASSUME NEW b \in Brokers, CooldownEnds(b) \/ \E t \in Tickers : StopFires(b, t)
      PROVE  TypeOK'
  BY <1>8, TypeCooldownEnds, TypeStopFires
<1> QED BY <1>1, <1>2, <1>3, <1>4, <1>5, <1>6, <1>7, <1>8, TypeRestart, TypeRecoverWal
        DEF Next, Signals

(* Quantities stay natural numbers, and the queues and what the workers hold *)
(* well-formed, for any number of orders, faults, stops and starts.          *)
THEOREM TypeCorrect == Spec => []TypeOK
BY TypeInit, TypeStep, PTL DEF Spec
------------------------------------------------------------------------------
(* BUYs under way: in the queue, in execution (Now), in a FILL.  Carried is    *)
(* stated of the queues, the ids that the log holds and the open tickers, so   *)
(* that what each event does to it can be said once.                          *)

BuysIn(q) == {i \in DOMAIN q : q[i].side = "BUY"}
Now == IF exec # Idle /\ exec.o.side = "BUY" THEN {exec.o} ELSE {}
Opened == {t \in Tickers : IsOpen(t)}

\* The log holds the id of every BUY under way, and of a ticker there is one at
\* most and no position.
Carried(req, now, fill, ids, opened) ==
    /\ \A i \in BuysIn(req) : req[i].id \in ids[req[i].t] /\ req[i].t \notin opened
    /\ \A i \in BuysIn(fill) : fill[i].id \in ids[fill[i].t] /\ fill[i].t \notin opened
    /\ \A o \in now : o.id \in ids[o.t] /\ o.t \notin opened
    /\ \A i, j \in BuysIn(req) : req[i].t = req[j].t => i = j
    /\ \A i, j \in BuysIn(fill) : fill[i].t = fill[j].t => i = j
    /\ \A i \in BuysIn(req), j \in BuysIn(fill) : req[i].t # fill[j].t
    /\ \A o \in now : /\ \A i \in BuysIn(req) : req[i].t # o.t
                      /\ \A i \in BuysIn(fill) : fill[i].t # o.t

CarriedInv ==
    slips \cap {"late signal", "swept", "imported"} = {}
    => Carried(reqQ, Now, fillQ, open, Opened)

\* Every position, execution and FILL of a BUY has the slot of its ticker.
Slotted(reg, pos, now, fill) ==
    /\ \A t \in Tickers : pos[t].qty > 0 /\ pos[t].by \in Layers => reg[t] = pos[t].by
    /\ \A o \in now : reg[o.t] = o.by
    /\ \A i \in BuysIn(fill) : reg[fill[i].t] = fill[i].by

Layered ==
    /\ \A i \in BuysIn(reqQ) : reqQ[i].by \in Layers
    /\ \A o \in Now : o.by \in Layers
    /\ \A i \in BuysIn(fillQ) : fillQ[i].by \in Layers

SlotInv ==
    /\ Layered
    /\ slips \cap {"released", "restart"} = {} => Slotted(registry, positions, Now, fillQ)

\* The elements of a longer or shorter queue.
LEMMA InAppend ==
    ASSUME NEW S, NEW s \in Seq(S), NEW e \in S
    PROVE  /\ \A i \in DOMAIN Append(s, e) :
                 \/ i \in DOMAIN s /\ Append(s, e)[i] = s[i]
                 \/ i = Len(s) + 1 /\ Append(s, e)[i] = e
           /\ Append(s, e) \in Seq(S) /\ Len(s) + 1 \notin DOMAIN s
<1>1. /\ Append(s, e) \in Seq(S) /\ Len(Append(s, e)) = Len(s) + 1 /\ Len(s) \in Nat
      /\ \A i \in 1 .. Len(s) : Append(s, e)[i] = s[i]
      /\ Append(s, e)[Len(s) + 1] = e
  BY AppendProperties, LenProperties
<1>2. DOMAIN Append(s, e) = 1 .. Len(s) + 1 /\ DOMAIN s = 1 .. Len(s)
  BY <1>1, LenProperties
<1> QED BY <1>1, <1>2

LEMMA InTail ==
    ASSUME NEW S, NEW s \in Seq(S), s # <<>>
    PROVE  /\ \A i \in DOMAIN Tail(s) : i + 1 \in DOMAIN s /\ i + 1 # 1 /\ Tail(s)[i] = s[i + 1]
           /\ 1 \in DOMAIN s /\ Head(s) = s[1] /\ Head(s) \in S /\ Tail(s) \in Seq(S)
           /\ DOMAIN Tail(s) \subseteq Nat
<1>1. /\ Head(s) \in S /\ Tail(s) \in Seq(S) /\ Len(Tail(s)) = Len(s) - 1
      /\ \A i \in 1 .. Len(Tail(s)) : Tail(s)[i] = s[i + 1]
  BY HeadTailProperties
<1>2. DOMAIN Tail(s) = 1 .. Len(Tail(s)) /\ DOMAIN s = 1 .. Len(s) /\ Len(s) \in Nat /\ Len(s) # 0
  BY <1>1, LenProperties, EmptySeq
<1>3. \A i \in DOMAIN Tail(s) : i \in Nat /\ i + 1 \in DOMAIN s /\ i + 1 # 1
  BY <1>1, <1>2
<1> QED BY <1>1, <1>2, <1>3

\* BUYs of a queue that gets one more, or one less.
OneMoreBuy(q, s, e) ==
    \A i \in BuysIn(q) : \/ i \in BuysIn(s) /\ q[i] = s[i]
                         \/ i = Len(s) + 1 /\ q[i] = e /\ e.side = "BUY"

LEMMA BuysAppended ==
    ASSUME NEW S, NEW s \in Seq(S), NEW e \in S
    PROVE  OneMoreBuy(Append(s, e), s, e)
BY InAppend DEF BuysIn, OneMoreBuy

LEMMA BuysLeft ==
    ASSUME NEW S, NEW s \in Seq(S), s # <<>>
    PROVE  /\ \A i \in BuysIn(Tail(s)) : /\ i \in Nat /\ i + 1 \in BuysIn(s) /\ i + 1 # 1
                                         /\ Tail(s)[i] = s[i + 1]
           /\ Head(s) = s[1] /\ (Head(s).side = "BUY" => 1 \in BuysIn(s))
BY InTail DEF BuysIn

\* What is known of the BUYs under way.
LEMMA TheBuys ==
    ASSUME NEW req \in Seq(Order), NEW fill \in Seq(Fill)
    PROVE  /\ \A i \in BuysIn(req) : req[i] \in Order /\ req[i].t \in Tickers
           /\ \A i \in BuysIn(fill) : fill[i] \in Fill /\ fill[i].t \in Tickers
<1>1. \A i \in BuysIn(req) : req[i] \in Order
  BY ElementOfSeq, LenProperties DEF BuysIn
<1>2. \A i \in BuysIn(fill) : fill[i] \in Fill
  BY ElementOfSeq, LenProperties DEF BuysIn
<1> QED BY <1>1, <1>2 DEF Order, Fill

LEMMA CarriedAsked ==
    ASSUME NEW req \in Seq(Order), NEW now \in SUBSET Order, NEW fill \in Seq(Fill),
           NEW ids, NEW opened, Carried(req, now, fill, ids, opened),
           NEW o \in Order, NEW new,
           o.side = "BUY" => ids[o.t] = {} /\ o.t \notin opened /\ o.id \in new[o.t],
           \A t \in Tickers : new[t] = ids[t] \/ (o.side = "BUY" /\ t = o.t)
    PROVE  Carried(Append(req, o), now, fill, new, opened)
<1> DEFINE r == Append(req, o)
<1>1. OneMoreBuy(r, req, o)
  BY BuysAppended
<1>2. ASSUME NEW i \in BuysIn(req)
      PROVE  req[i].id \in new[req[i].t] /\ (o.side = "BUY" => req[i].t # o.t)
  BY TheBuys DEF Carried
<1>3. ASSUME NEW i \in BuysIn(fill)
      PROVE  fill[i].id \in new[fill[i].t] /\ (o.side = "BUY" => fill[i].t # o.t)
  BY TheBuys DEF Carried
<1>4. ASSUME NEW u \in now
      PROVE  u.id \in new[u.t] /\ (o.side = "BUY" => u.t # o.t)
  BY DEF Carried, Order
<1> HIDE DEF r
<1>5. \A i \in BuysIn(r) : r[i].id \in new[r[i].t] /\ r[i].t \notin opened
  BY <1>1, <1>2 DEF Carried, OneMoreBuy
<1>6. \A i, j \in BuysIn(r) : r[i].t = r[j].t => i = j
  BY <1>1, <1>2 DEF Carried, OneMoreBuy
<1>7. \A i \in BuysIn(r), j \in BuysIn(fill) : r[i].t # fill[j].t
  BY <1>1, <1>3 DEF Carried, OneMoreBuy
<1>8. \A u \in now, i \in BuysIn(r) : r[i].t # u.t
  BY <1>1, <1>4 DEF Carried, OneMoreBuy
<1>9. Carried(r, now, fill, new, opened)
  BY <1>3, <1>4, <1>5, <1>6, <1>7, <1>8 DEF Carried
<1> QED BY <1>9 DEF r

LEMMA CarriedTaken ==
    ASSUME NEW req \in Seq(Order), req # <<>>, NEW fill \in Seq(Fill), NEW ids, NEW opened,
           Carried(req, {}, fill, ids, opened), NEW now \in SUBSET {Head(req)},
           now # {} => Head(req).side = "BUY"
    PROVE  Carried(Tail(req), now, fill, ids, opened)
<1> DEFINE r == Tail(req)
<1>1. \A i \in BuysIn(r) : i \in Nat /\ i + 1 \in BuysIn(req) /\ i + 1 # 1 /\ r[i] = req[i + 1]
  BY BuysLeft
<1>2. ASSUME NEW o \in now PROVE 1 \in BuysIn(req) /\ o = req[1]
  BY BuysLeft
<1> HIDE DEF r
<1>3. \A i \in BuysIn(r) : r[i].id \in ids[r[i].t] /\ r[i].t \notin opened
  BY <1>1 DEF Carried
<1>4. \A i, j \in BuysIn(r) : r[i].t = r[j].t => i = j
  <2> SUFFICES ASSUME NEW i \in BuysIn(r), NEW j \in BuysIn(r), r[i].t = r[j].t PROVE i = j
    OBVIOUS
  <2>1. i + 1 = j + 1
    BY <1>1 DEF Carried
  <2> QED BY <1>1, <2>1
<1>5. \A i \in BuysIn(r), j \in BuysIn(fill) : r[i].t # fill[j].t
  BY <1>1 DEF Carried
<1>6. \A o \in now : /\ o.id \in ids[o.t] /\ o.t \notin opened
                     /\ \A i \in BuysIn(r) : r[i].t # o.t
                     /\ \A i \in BuysIn(fill) : fill[i].t # o.t
  BY <1>1, <1>2 DEF Carried
<1>7. Carried(r, now, fill, ids, opened)
  BY <1>3, <1>4, <1>5, <1>6 DEF Carried
<1> QED BY <1>7 DEF r

\* The execution ends; its id may leave the log.
LEMMA CarriedEnded ==
    ASSUME NEW req \in Seq(Order), NEW now, NEW fill \in Seq(Fill), NEW ids, NEW opened,
           Carried(req, now, fill, ids, opened), NEW new,
           \A t \in Tickers : new[t] = ids[t] \/ \E o \in now : o.t = t
    PROVE  Carried(req, {}, fill, new, opened)
<1>1. \A i \in BuysIn(req) : req[i].id \in new[req[i].t]
  BY TheBuys DEF Carried
<1>2. \A i \in BuysIn(fill) : fill[i].id \in new[fill[i].t]
  BY TheBuys DEF Carried
<1> QED BY <1>1, <1>2 DEF Carried

\* What the execution of an order has bought or sold becomes a FILL.
LEMMA CarriedFilled ==
    ASSUME NEW req \in Seq(Order), NEW now, NEW fill \in Seq(Fill), NEW ids, NEW opened,
           Carried(req, now, fill, ids, opened), NEW f \in Fill, NEW rest \in SUBSET now,
           f.side = "BUY" => rest = {} /\ \E o \in now : o.t = f.t /\ o.id = f.id
    PROVE  Carried(req, rest, Append(fill, f), ids, opened)
<1> DEFINE q == Append(fill, f)
<1>1. OneMoreBuy(q, fill, f)
  BY BuysAppended
<1>2. f.side = "BUY" => /\ f.id \in ids[f.t] /\ f.t \notin opened
                        /\ \A i \in BuysIn(fill) : fill[i].t # f.t
                        /\ \A i \in BuysIn(req) : req[i].t # f.t
  BY DEF Carried
<1> HIDE DEF q
<1>3. \A i \in BuysIn(q) : q[i].id \in ids[q[i].t] /\ q[i].t \notin opened
  BY <1>1, <1>2 DEF Carried, OneMoreBuy
<1>4. \A i, j \in BuysIn(q) : q[i].t = q[j].t => i = j
  BY <1>1, <1>2 DEF Carried, OneMoreBuy
<1>5. \A i \in BuysIn(req), j \in BuysIn(q) : req[i].t # q[j].t
  BY <1>1, <1>2 DEF Carried, OneMoreBuy
<1>6. \A o \in rest : \A i \in BuysIn(q) : q[i].t # o.t
  BY <1>1 DEF Carried, OneMoreBuy
<1>7. Carried(req, rest, q, ids, opened)
  BY <1>3, <1>4, <1>5, <1>6 DEF Carried
<1> QED BY <1>7 DEF q

\* The FILL is in the books: the position may be open and the id gone.
LEMMA CarriedBooked ==
    ASSUME NEW req \in Seq(Order), NEW now \in SUBSET Order, NEW fill \in Seq(Fill), fill # <<>>,
           NEW ids, NEW opened, Carried(req, now, fill, ids, opened), NEW new, NEW more,
           more # opened => more = opened \cup {Head(fill).t} /\ Head(fill).side = "BUY",
           \A t \in Tickers :
              new[t] = ids[t] \/ (Head(fill).side = "BUY" /\ t = Head(fill).t)
    PROVE  Carried(req, now, Tail(fill), new, more)
<1> DEFINE q == Tail(fill)
           f == Head(fill)
<1>1. \A i \in BuysIn(q) : i \in Nat /\ i + 1 \in BuysIn(fill) /\ i + 1 # 1 /\ q[i] = fill[i + 1]
  BY BuysLeft
<1>2. f.side = "BUY" => 1 \in BuysIn(fill) /\ fill[1] = f
  BY BuysLeft
<1> HIDE DEF q, f
<1>3. f.side = "BUY" => /\ \A i \in BuysIn(q) : q[i].t # f.t
                        /\ \A i \in BuysIn(req) : req[i].t # f.t
                        /\ \A o \in now : o.t # f.t
  BY <1>1, <1>2 DEF Carried
<1>4. \A i \in BuysIn(q) : q[i].t \in Tickers /\ q[i].id \in new[q[i].t] /\ q[i].t \notin more
  BY <1>1, <1>3, TheBuys DEF Carried, f
<1>5. \A i \in BuysIn(req) : req[i].id \in new[req[i].t] /\ req[i].t \notin more
  BY <1>3, TheBuys DEF Carried, f
<1>6. \A o \in now : o.id \in new[o.t] /\ o.t \notin more
  BY <1>3 DEF Carried, f, Order
<1>7. \A i, j \in BuysIn(q) : q[i].t = q[j].t => i = j
  <2> SUFFICES ASSUME NEW i \in BuysIn(q), NEW j \in BuysIn(q), q[i].t = q[j].t PROVE i = j
    OBVIOUS
  <2>1. i + 1 = j + 1
    BY <1>1 DEF Carried
  <2> QED BY <1>1, <2>1
<1>8. /\ \A i \in BuysIn(req), j \in BuysIn(q) : req[i].t # q[j].t
      /\ \A o \in now : /\ \A i \in BuysIn(req) : req[i].t # o.t
                        /\ \A i \in BuysIn(q) : q[i].t # o.t
      /\ \A i, j \in BuysIn(req) : req[i].t = req[j].t => i = j
  BY <1>1 DEF Carried
<1>9. Carried(req, now, q, new, more)
  BY <1>4, <1>5, <1>6, <1>7, <1>8 DEF Carried
<1> QED BY <1>9 DEF q

\* Positions close, or open where no BUY is under way.
LEMMA CarriedReopened ==
    ASSUME NEW req \in Seq(Order), NEW now \in SUBSET Order, NEW fill \in Seq(Fill),
           NEW ids, NEW opened, Carried(req, now, fill, ids, opened), NEW new,
           \A t \in new \ opened : /\ \A i \in BuysIn(req) : req[i].t # t
                                   /\ \A i \in BuysIn(fill) : fill[i].t # t
                                   /\ \A o \in now : o.t # t
    PROVE  Carried(req, now, fill, ids, new)
<1>1. ASSUME NEW i \in BuysIn(req) PROVE req[i].t \notin new
  <2>1. req[i].t \notin opened
    BY DEF Carried
  <2> QED BY <2>1
<1>2. ASSUME NEW i \in BuysIn(fill) PROVE fill[i].t \notin new
  <2>1. fill[i].t \notin opened
    BY DEF Carried
  <2> QED BY <2>1
<1>3. ASSUME NEW o \in now PROVE o.t \notin new
  <2>1. o.t \notin opened
    BY DEF Carried
  <2> QED BY <2>1
<1> QED BY <1>1, <1>2, <1>3 DEF Carried

LEMMA CarriedNone ==
    ASSUME NEW ids, NEW opened
    PROVE  Carried(<<>>, {}, <<>>, ids, opened)
BY DEF Carried, BuysIn

(* The books lag behind the brokers by the FILLs in the queue.  A history h   *)
(* says what was held of t before each of them: the books have h[0], or less  *)
(* when they have closed a position that was gone.                           *)

Effect(f, t) == IF f.t # t THEN 0 ELSE IF f.side = "BUY" THEN f.qty ELSE 0 - f.qty

Tracks(h, q, t, held, qty) ==
    /\ h \in [0 .. Len(q) -> Nat] /\ h[Len(q)] = held
    /\ \A i \in 1 .. Len(q) : h[i] = h[i - 1] + Effect(q[i], t)
    /\ qty <= h[0]
    /\ qty = h[0] \/ \E k \in 0 .. Len(q) : h[k] = 0

BooksInv ==
    slips \cap {"stray", "stop", "duplicate", "phantom", "stale", "unseen", "merged"} = {}
    => \A t \in Tickers : \E h : Tracks(h, fillQ, t, Held(t), positions[t].qty)

\* The broker executes one more order.
LEMMA TrackAppend ==
    ASSUME NEW q \in Seq(Fill), NEW t, NEW held \in Nat, NEW qty \in Nat,
           NEW h, Tracks(h, q, t, held, qty), NEW f \in Fill,
           NEW now \in Nat, now = held + Effect(f, t)
    PROVE  \E g : Tracks(g, Append(q, f), t, now, qty)
<1>1. /\ Append(q, f) \in Seq(Fill) /\ Len(Append(q, f)) = Len(q) + 1 /\ Len(q) \in Nat
      /\ \A i \in 1 .. Len(q) : Append(q, f)[i] = q[i]
      /\ Append(q, f)[Len(q) + 1] = f
  BY AppendProperties, LenProperties
<1> DEFINE r == Append(q, f)
           n == Len(q)
           g == [i \in 0 .. n + 1 |-> IF i = n + 1 THEN now ELSE h[i]]
<1>2. h \in [0 .. n -> Nat] /\ h[n] = held /\ qty <= h[0]
  BY DEF Tracks
<1>3. g \in [0 .. n + 1 -> Nat] /\ g[n + 1] = now /\ \A i \in 0 .. n : g[i] = h[i]
  BY <1>1, <1>2
<1>4. \A i \in 1 .. n : h[i] = h[i - 1] + Effect(q[i], t)
  BY DEF Tracks
<1>5. \A i \in 1 .. n : i - 1 \in 0 .. n /\ i \in 0 .. n
  BY <1>1
<1> HIDE DEF n, g, r
<1>6. \A i \in 1 .. n : g[i] = g[i - 1] + Effect(r[i], t)
  BY <1>1, <1>3, <1>4, <1>5 DEF n, r
<1>7. ASSUME NEW i \in 1 .. n + 1, i = n + 1
      PROVE  g[i] = g[i - 1] + Effect(r[i], t)
  <2>1. i - 1 = n /\ n \in 0 .. n
    BY <1>1, <1>7 DEF n
  <2>2. g[i - 1] = held /\ r[i] = f /\ g[i] = now
    BY <1>1, <1>2, <1>3, <1>7, <2>1 DEF n, r
  <2> QED BY <2>2
<1>8. \A i \in 1 .. n + 1 : i \in 1 .. n \/ i = n + 1
  BY <1>1 DEF n
<1>9. g[0] = h[0] /\ 0 \in 0 .. n /\ 0 .. n \subseteq 0 .. n + 1
  BY <1>1, <1>3 DEF n
<1>10. qty = g[0] \/ \E k \in 0 .. n + 1 : g[k] = 0
  <2>1. qty = h[0] \/ \E k \in 0 .. n : h[k] = 0
    BY DEF Tracks, n
  <2> QED BY <1>3, <1>9, <2>1
<1>11. \A i \in 1 .. n + 1 : g[i] = g[i - 1] + Effect(r[i], t)
  BY <1>6, <1>7, <1>8
<1>12. Len(r) = n + 1
  BY <1>1 DEF r, n
<1>13. Tracks(g, r, t, now, qty)
  BY <1>2, <1>3, <1>9, <1>10, <1>11, <1>12 DEF Tracks
<1> QED BY <1>13 DEF r

\* The books take the next FILL.
LEMMA TrackTail ==
    ASSUME NEW q \in Seq(Fill), q # <<>>, NEW t, NEW held \in Nat, NEW qty \in Nat,
           NEW h, Tracks(h, q, t, held, qty), NEW new \in Nat,
           \/ Head(q).t # t /\ new = qty
           \/ Head(q).t = t /\ Head(q).side = "BUY" /\ qty = 0 /\ new = Head(q).qty
           \/ Head(q).t = t /\ Head(q).side = "SELL" /\ new = qty - MinOf(Head(q).qty, qty)
    PROVE  \E g : Tracks(g, Tail(q), t, held, new)
<1>1. /\ Head(q) \in Fill /\ Tail(q) \in Seq(Fill) /\ Len(Tail(q)) = Len(q) - 1 /\ Head(q) = q[1]
      /\ \A i \in 1 .. Len(Tail(q)) : Tail(q)[i] = q[i + 1]
      /\ Len(q) \in Nat /\ Len(q) # 0
  BY HeadTailProperties, LenProperties, EmptySeq
<1> DEFINE r == Tail(q)
           n == Len(q) - 1
           f == Head(q)
           e == Effect(f, t)
           g == [i \in 0 .. n |-> h[i + 1]]
<1>2. n \in Nat /\ Len(q) = n + 1 /\ Len(r) = n
  BY <1>1
<1>3. h \in [0 .. n + 1 -> Nat] /\ h[n + 1] = held /\ qty <= h[0] /\ h[0] \in Nat /\ h[1] \in Nat
  BY <1>2 DEF Tracks
<1>4. \A i \in 1 .. n + 1 : h[i] = h[i - 1] + Effect(q[i], t)
  BY <1>2 DEF Tracks
<1>5. f.qty \in Nat /\ f.qty > 0
  BY <1>1 DEF Fill, Shares
<1>6. h[1] = h[0] + e
  <2>1. 1 \in 1 .. n + 1 /\ 1 - 1 = 0
    BY <1>2
  <2> QED BY <1>1, <1>4, <2>1
<1>7. qty = h[0] \/ \E k \in 1 .. n + 1 : h[k] = 0
  <2>1. qty = h[0] \/ \E k \in 0 .. n + 1 : h[k] = 0
    BY <1>2 DEF Tracks
  <2>2. h[0] = 0 => qty = h[0]
    BY <1>3
  <2> QED BY <1>2, <2>1, <2>2
<1> HIDE DEF n, r, f, e
<1>8. g \in [0 .. n -> Nat] /\ g[n] = held /\ \A i \in 0 .. n : g[i] = h[i + 1]
  BY <1>2, <1>3
<1>9. \A i \in 1 .. n : g[i] = g[i - 1] + Effect(r[i], t)
  <2> SUFFICES ASSUME NEW i \in 1 .. n PROVE g[i] = g[i - 1] + Effect(r[i], t)
    OBVIOUS
  <2>1. i \in 0 .. n /\ i - 1 \in 0 .. n /\ i + 1 \in 1 .. n + 1 /\ i + 1 - 1 = i /\ i - 1 + 1 = i
    BY <1>2
  <2>2. g[i] = h[i + 1] /\ g[i - 1] = h[i] /\ r[i] = q[i + 1]
    BY <1>1, <1>2, <1>8, <2>1 DEF r
  <2> QED BY <1>4, <2>1, <2>2
<1>10. g[0] = h[1]
  BY <1>2, <1>8
<1>11. /\ f.t # t => e = 0
       /\ f.t = t /\ f.side = "BUY" => e = f.qty
       /\ f.t = t /\ f.side = "SELL" => e = 0 - f.qty
  BY DEF Effect, e
<1>12. new <= h[1] /\ (qty = h[0] => new = h[1] \/ \E k \in 1 .. n + 1 : h[k] = 0)
  <2>1. CASE f.t # t /\ new = qty
    BY <1>3, <1>6, <1>11, <2>1
  <2>2. CASE f.t = t /\ f.side = "BUY" /\ qty = 0 /\ new = f.qty
    BY <1>3, <1>5, <1>6, <1>11, <2>2
  <2>3. CASE f.t = t /\ f.side = "SELL" /\ new = qty - MinOf(f.qty, qty)
    <3>1. \/ MinOf(f.qty, qty) = f.qty /\ f.qty <= qty
          \/ MinOf(f.qty, qty) = qty /\ qty <= f.qty
      BY <1>5 DEF MinOf
    <3>2. h[1] = h[0] - f.qty
      BY <1>3, <1>5, <1>6, <1>11, <2>3
    <3> QED BY <1>3, <1>5, <2>3, <3>1, <3>2
  <2> QED BY <2>1, <2>2, <2>3 DEF f
<1>13. new = g[0] \/ \E k \in 0 .. n : g[k] = 0
  <2>1. CASE new = h[1]
    BY <1>10, <2>1
  <2>2. CASE \E k \in 1 .. n + 1 : h[k] = 0
    <3>1. PICK k \in 1 .. n + 1 : h[k] = 0
      BY <2>2
    <3>2. k - 1 \in 0 .. n /\ k - 1 + 1 = k
      BY <1>2
    <3> QED BY <1>8, <3>1, <3>2
  <2> QED BY <1>7, <1>12, <2>1, <2>2
<1> HIDE DEF g
<1>14. Tracks(g, r, t, held, new)
  BY <1>2, <1>8, <1>9, <1>10, <1>12, <1>13 DEF Tracks
<1> QED BY <1>14 DEF r

\* The books are set to what is held, and no FILL is on its way.
LEMMA TrackFixed ==
    ASSUME NEW q \in Seq(Fill), NEW t, \A i \in DOMAIN q : q[i].t # t, NEW held \in Nat
    PROVE  \E h : Tracks(h, q, t, held, held)
<1> DEFINE h == [i \in 0 .. Len(q) |-> held]
<1>1. Len(q) \in Nat /\ DOMAIN q = 1 .. Len(q)
  BY LenProperties
<1>2. \A i \in 1 .. Len(q) : i \in 0 .. Len(q) /\ i - 1 \in 0 .. Len(q) /\ Effect(q[i], t) = 0
  BY <1>1 DEF Effect
<1>3. h \in [0 .. Len(q) -> Nat] /\ \A i \in 0 .. Len(q) : h[i] = held
  OBVIOUS
<1>4. 0 \in 0 .. Len(q) /\ Len(q) \in 0 .. Len(q)
  BY <1>1
<1> HIDE DEF h
<1>5. Tracks(h, q, t, held, held)
  BY <1>2, <1>3, <1>4 DEF Tracks
<1> QED BY <1>5

\* Nothing is held: a position can be closed whatever FILLs are on their way.
LEMMA TrackZero ==
    ASSUME NEW q \in Seq(Fill), NEW t, NEW qty, NEW h, Tracks(h, q, t, 0, qty)
    PROVE  Tracks(h, q, t, 0, 0)
<1>1. Len(q) \in 0 .. Len(q) /\ 0 \in 0 .. Len(q)
  BY LenProperties
<1>2. h[0] \in Nat
  BY <1>1 DEF Tracks
<1> QED BY <1>1, <1>2 DEF Tracks

LEMMA TrackDone ==
    ASSUME NEW t, NEW held \in Nat, NEW qty \in Nat, NEW h, Tracks(h, <<>>, t, held, qty)
    PROVE  qty = held
<1>1. Len(<<>>) = 0
  BY EmptySeq
<1>2. h[0] = held /\ qty <= h[0] /\ (qty = h[0] \/ h[0] = 0)
  BY <1>1 DEF Tracks
<1> QED BY <1>2
------------------------------------------------------------------------------
(* The slots of the registry                                                 *)

\* What decides about a slot, a BUY under way or a quantity is left alone.
Calm == UNCHANGED <<hold, positions, registry, reqQ, fillQ, exec, open, slips>>

LEMMA Calmly ==
    ASSUME Calm
    PROVE  /\ SlotInv => SlotInv'
           /\ CarriedInv => CarriedInv'
           /\ BooksInv => BooksInv'
<1>1. Now' = Now /\ Opened' = Opened /\ (Layered => Layered')
  BY DEF Calm, Now, Opened, IsOpen, Layered
<1>2. \A t \in Tickers : Held(t)' = Held(t)
  BY DEF Calm, Held
<1>3. SlotInv => SlotInv'
  BY <1>1 DEF Calm, SlotInv
<1>4. CarriedInv => CarriedInv'
  BY <1>1 DEF Calm, CarriedInv
<1>5. BooksInv => BooksInv'
  BY <1>2 DEF Calm, BooksInv
<1> QED BY <1>3, <1>4, <1>5

LEMMA CalmSteps ==
    /\ UNCHANGED vars => Calm
    /\ \A t \in Tickers : ScreenVwap(t) \/ ScreenPro(t) => Calm
    /\ \A t \in Tickers, l \in Layers : TurnDown(l, t) => Calm
    /\ FillClear \/ FailClear \/ FailPro \/ ClosedRouter \/ ClosedPro => Calm
    /\ RecAlpaca \/ RecTradier => Calm
    /\ \A b \in Brokers : CooldownEnds(b) => Calm
<1>1. UNCHANGED vars => Calm
  BY DEF Calm, vars, books, gates, queues, wal
<1>2. \A t \in Tickers : ScreenVwap(t) \/ ScreenPro(t) => Calm
  BY DEF Calm, ScreenVwap, ScreenPro, books, gates, queues, wal
<1>3. \A t \in Tickers, l \in Layers : TurnDown(l, t) => Calm
  BY DEF Calm, TurnDown, books, gates, queues, wal
<1>4. FillClear \/ FailClear \/ FailPro \/ ClosedRouter \/ ClosedPro => Calm
  BY DEF Calm, FillClear, FailClear, FailPro, ClosedRouter, ClosedPro, books, gates, queues, wal
<1>5. RecAlpaca \/ RecTradier => Calm
  BY DEF Calm, RecAlpaca, RecTradier, books, gates, queues, wal
<1>6. \A b \in Brokers : CooldownEnds(b) => Calm
  BY DEF Calm, CooldownEnds, books, gates, queues, wal
<1> QED BY <1>1, <1>2, <1>3, <1>4, <1>5, <1>6

\* The execution goes on with the same order, or ends.
GoesOn == exec' = Idle \/ (exec # Idle /\ exec'.o = exec.o)

LEMMA GoingOn ==
    ASSUME GoesOn
    PROVE  Now' \subseteq Now
BY DEF GoesOn, Now

\* Every BUY that is asked for names its layer.
LEMMA AskedFor ==
    ASSUME TypeOK, Layered
    PROVE  /\ \A o \in Order : reqQ' = Append(reqQ, o) /\ (o.side = "BUY" => o.by \in Layers)
                                  => \A i \in BuysIn(reqQ') : reqQ'[i].by \in Layers
           /\ reqQ # <<>> /\ reqQ' = Tail(reqQ)
                => /\ \A i \in BuysIn(reqQ') : reqQ'[i].by \in Layers
                   /\ Head(reqQ).side = "BUY" => Head(reqQ).by \in Layers
<1>1. reqQ \in Seq(Order)
  BY DEF TypeOK, QueuesTyped
<1>2. ASSUME NEW o \in Order, reqQ' = Append(reqQ, o), o.side = "BUY" => o.by \in Layers
      PROVE  \A i \in BuysIn(reqQ') : reqQ'[i].by \in Layers
  <2>1. OneMoreBuy(Append(reqQ, o), reqQ, o)
    BY <1>1, BuysAppended
  <2>2. OneMoreBuy(reqQ', reqQ, o)
    BY <1>2, <2>1
  <2> QED BY <1>2, <2>2 DEF OneMoreBuy, Layered
<1>3. ASSUME reqQ # <<>>, reqQ' = Tail(reqQ)
      PROVE  /\ \A i \in BuysIn(reqQ') : reqQ'[i].by \in Layers
             /\ Head(reqQ).side = "BUY" => Head(reqQ).by \in Layers
  <2>1. /\ \A i \in BuysIn(Tail(reqQ)) : i + 1 \in BuysIn(reqQ) /\ Tail(reqQ)[i] = reqQ[i + 1]
        /\ Head(reqQ) = reqQ[1] /\ (Head(reqQ).side = "BUY" => 1 \in BuysIn(reqQ))
    BY <1>1, <1>3, BuysLeft
  <2> QED BY <1>3, <2>1 DEF Layered
<1> QED BY <1>2, <1>3

\* Neither a position nor a slot changes, and no FILL comes in.
LEMMA SlotsStay ==
    ASSUME SlotInv, UNCHANGED <<positions, registry, fillQ>>, Now' \subseteq Now,
           slips \subseteq slips', \A i \in BuysIn(reqQ') : reqQ'[i].by \in Layers
    PROVE  SlotInv'
<1>1. Layered'
  BY DEF SlotInv, Layered
<1>2. ASSUME slips' \cap {"released", "restart"} = {}
      PROVE  Slotted(registry', positions', Now', fillQ')
  <2>1. Slotted(registry, positions, Now, fillQ)
    BY <1>2 DEF SlotInv
  <2> QED BY <2>1 DEF Slotted
<1> QED BY <1>1, <1>2 DEF SlotInv

LEMMA SlotPlace ==
    ASSUME TypeOK, SlotInv, NEW t \in Tickers, NEW l \in Layers, Place(l, t)
    PROVE  SlotInv'
<1>1. /\ UNCHANGED <<positions, registry, fillQ, exec>> /\ slips \subseteq slips'
      /\ reqQ' = reqQ \/ Request(t, "BUY", Qty, l)
  BY DEF Place, books, gates
<1>2. \A i \in BuysIn(reqQ') : reqQ'[i].by \in Layers
  <2>1. CASE reqQ' = reqQ
    BY <2>1 DEF SlotInv, Layered
  <2>2. CASE Request(t, "BUY", Qty, l)
    <3> DEFINE o == [id |-> nextId, t |-> t, side |-> "BUY", qty |-> Qty, by |-> l]
    <3>1. o \in Order /\ reqQ' = Append(reqQ, o)
      BY <2>2, Limits, Requesting DEF Shares
    <3>2. o.by \in Layers
      OBVIOUS
    <3> HIDE DEF o
    <3> QED BY <3>1, <3>2, AskedFor DEF SlotInv
  <2> QED BY <1>1, <2>1, <2>2
<1>3. Now' \subseteq Now
  BY <1>1 DEF Now
<1> QED BY <1>1, <1>2, <1>3, SlotsStay

\* The SELL that is asked for.
LEMMA AskedToSell ==
    ASSUME TypeOK, NEW t \in Tickers, RequestSell(t)
    PROVE  \E o \in Order : o.side = "SELL" /\ reqQ' = Append(reqQ, o)
<1>1. PICK n \in {positions[t].qty, positions[t].qty \div 2} \ {0} : Request(t, "SELL", n, None)
  BY DEF RequestSell
<1>2. n \in Shares
  <2>1. positions[t].qty \in Nat
    BY DEF TypeOK, BooksTyped, Position
  <2>2. positions[t].qty \div 2 \in Nat
    BY <2>1
  <2> QED BY <2>1, <2>2 DEF Shares
<1> DEFINE o == [id |-> nextId, t |-> t, side |-> "SELL", qty |-> n, by |-> None]
<1>3. o \in Order /\ reqQ' = Append(reqQ, o)
  BY <1>1, <1>2, Requesting
<1>4. o.side = "SELL"
  OBVIOUS
<1> HIDE DEF o
<1> QED BY <1>3, <1>4

LEMMA SlotRequestSell ==
    ASSUME TypeOK, SlotInv, NEW t \in Tickers, RequestSell(t)
    PROVE  SlotInv'
<1>1. PICK o \in Order : o.side = "SELL" /\ reqQ' = Append(reqQ, o)
  BY AskedToSell
<1>2. \A i \in BuysIn(reqQ') : reqQ'[i].by \in Layers
  BY <1>1, AskedFor DEF SlotInv
<1>3. UNCHANGED <<positions, registry, fillQ, exec, slips>>
  BY DEF RequestSell, books, gates
<1>4. Now' \subseteq Now
  BY <1>3 DEF Now
<1> QED BY <1>2, <1>3, <1>4, SlotsStay

LEMMA SlotBlock ==
    ASSUME TypeOK, SlotInv, NEW o, Block(o)
    PROVE  SlotInv'
<1>1. /\ reqQ # <<>> /\ reqQ' = Tail(reqQ) /\ UNCHANGED <<positions, registry, fillQ, exec, slips>>
  BY DEF Block, Take, books, gates
<1>2. \A i \in BuysIn(reqQ') : reqQ'[i].by \in Layers
  BY <1>1, AskedFor DEF SlotInv
<1>3. Now' \subseteq Now
  BY <1>1 DEF Now
<1> QED BY <1>1, <1>2, <1>3, SlotsStay

\* A BUY passes the gate for the layer that has the slot, or takes a free one.
LEMMA SlotPass ==
    ASSUME TypeOK, SlotInv, NEW o, Pass(o)
    PROVE  SlotInv'
<1>1. /\ exec = Idle /\ reqQ # <<>> /\ o = Head(reqQ) /\ reqQ' = Tail(reqQ)
      /\ exec' = [at |-> "route", o |-> o] /\ UNCHANGED <<positions, fillQ, slips>>
      /\ IF o.side = "BUY"
         THEN registry[o.t] \in {None, o.by} /\ registry' = [registry EXCEPT ![o.t] = o.by]
         ELSE registry' = registry
  BY DEF Pass, Take, books
<1>2. o \in Order
  BY Taking DEF Pass
<1>3. /\ \A i \in BuysIn(reqQ') : reqQ'[i].by \in Layers
      /\ o.side = "BUY" => o.by \in Layers
  BY <1>1, AskedFor DEF SlotInv
<1>4. exec' # Idle /\ exec'.o = o
  BY <1>1 DEF Idle
<1>5. Now' = IF o.side = "BUY" THEN {o} ELSE {}
  BY <1>4 DEF Now
<1>6. Layered'
  BY <1>1, <1>3, <1>5 DEF SlotInv, Layered
<1>7. ASSUME slips' \cap {"released", "restart"} = {}
      PROVE  Slotted(registry', positions', Now', fillQ')
  <2>1. Slotted(registry, positions, Now, fillQ)
    BY <1>1, <1>7 DEF SlotInv
  <2>2. CASE o.side # "BUY"
    BY <1>1, <1>5, <2>1, <2>2 DEF Slotted
  <2>3. CASE o.side = "BUY"
    <3>1. o.t \in Tickers /\ None \notin Layers /\ registry \in [Tickers -> Layers \cup {None}]
      BY <1>2 DEF Order, Layers, None, TypeOK, GatesTyped
    <3>2. ASSUME NEW l \in Layers, NEW t \in Tickers, registry[t] = l PROVE registry'[t] = l
      BY <1>1, <2>3, <3>1, <3>2
    <3>3. \A t \in Tickers : positions'[t].qty > 0 /\ positions'[t].by \in Layers
                                => registry'[t] = positions'[t].by
      BY <1>1, <2>1, <3>2 DEF Slotted
    <3>4. \A u \in Now' : registry'[u.t] = u.by
      BY <1>1, <1>5, <2>3, <3>1
    <3>5. \A i \in BuysIn(fillQ') : registry'[fillQ'[i].t] = fillQ'[i].by
      <4>1. \A i \in BuysIn(fillQ) : fillQ[i].t \in Tickers
        BY TheBuys DEF TypeOK, QueuesTyped
      <4> QED BY <1>1, <2>1, <3>2, <4>1 DEF Slotted, SlotInv, Layered
    <3> QED BY <3>3, <3>4, <3>5 DEF Slotted
  <2> QED BY <2>2, <2>3
<1> QED BY <1>6, <1>7 DEF SlotInv

LEMMA Onward ==
    ASSUME TypeOK, RouteSplit \/ Route \/ RouteNowhere \/ BrokerFails \/ BrokerRaises
    PROVE  GoesOn /\ slips \subseteq slips' /\ UNCHANGED <<positions, registry, reqQ, fillQ>>
<1>1. exec.at \in {"route", "broker"}
  BY DEF RouteSplit, Route, RouteNowhere, BrokerFails, BrokerRaises
<1>2. exec # Idle
  BY <1>1, Executing
<1>3. GoesOn
  <2>1. CASE RouteSplit \/ Route \/ BrokerRaises
    BY <1>2, <2>1, TypeRouteSplit, TypeRoute, TypeBrokerRaises DEF GoesOn
  <2>2. CASE RouteNowhere
    BY <2>2 DEF RouteNowhere, GoesOn
  <2>3. CASE BrokerFails
    <3>1. exec.at = "broker" /\ LegDone(down)
      BY <2>3 DEF BrokerFails
    <3> QED BY <1>2, <3>1, NextLeg DEF GoesOn
  <2> QED BY <2>1, <2>2, <2>3
<1>4. slips \subseteq slips'
  BY DEF RouteSplit, Route, RouteNowhere, BrokerFails, BrokerRaises, Stray
<1>5. UNCHANGED <<positions, registry, reqQ, fillQ>>
  BY DEF RouteSplit, Route, RouteNowhere, BrokerFails, BrokerRaises, books, gates, queues
<1> QED BY <1>3, <1>4, <1>5

LEMMA SlotOnward ==
    ASSUME TypeOK, SlotInv, RouteSplit \/ Route \/ RouteNowhere \/ BrokerFails \/ BrokerRaises
    PROVE  SlotInv'
<1>1. \A i \in BuysIn(reqQ') : reqQ'[i].by \in Layers
  BY Onward DEF SlotInv, Layered
<1> QED BY <1>1, Onward, GoingOn, SlotsStay

LEMMA SlotAside ==
    ASSUME SlotInv, RecoverWal \/ \E b \in Brokers, t \in Tickers : StopFires(b, t)
    PROVE  SlotInv'
<1>1. slips \subseteq slips' /\ UNCHANGED <<positions, registry, reqQ, fillQ, exec>>
  BY DEF RecoverWal, StopFires, books, gates, queues
<1>2. Now' \subseteq Now
  BY <1>1 DEF Now
<1>3. \A i \in BuysIn(reqQ') : reqQ'[i].by \in Layers
  BY <1>1 DEF SlotInv, Layered
<1> QED BY <1>1, <1>2, <1>3, SlotsStay

\* What the broker's FILL says.
Report(n) == [t |-> exec.o.t, side |-> exec.o.side, qty |-> n, id |-> exec.o.id,
              by |-> exec.o.by, b |-> TheLeg.b]

LEMMA Reporting ==
    ASSUME TypeOK, NEW n \in 1 .. 2 * Qty, BrokerFills(n)
    PROVE  /\ Report(n) \in Fill /\ fillQ' = Append(fillQ, Report(n)) /\ GoesOn
           /\ exec.o \in Order /\ n \in Nat
           /\ exec.o.side = "BUY" => exec.o \in Now /\ Now' = {}
           /\ UNCHANGED <<positions, registry, reqQ, open, slips>>
<1>1. /\ exec.at = "broker" /\ fillQ' = Append(fillQ, Report(n)) /\ LegDone(down)
      /\ UNCHANGED <<positions, registry, reqQ, open, slips>>
  BY DEF BrokerFills, Report, books, gates, wal
<1>2. exec # Idle /\ exec.o \in Order /\ TheLeg \in LegType
  BY <1>1, Executing
<1>3. n \in Nat /\ n \in Shares
  BY Limits DEF Shares
<1>4. Report(n) \in Fill
  BY <1>2, <1>3 DEF Order, LegType, Fill, Report
<1>5. GoesOn /\ (exec.o.side = "BUY" => exec' = Idle)
  BY <1>1, <1>2, NextLeg DEF GoesOn
<1>6. exec.o.side = "BUY" => exec.o \in Now /\ Now' = {}
  BY <1>2, <1>5 DEF Now
<1> QED BY <1>1, <1>2, <1>3, <1>4, <1>5, <1>6

LEMMA SlotBrokerFills ==
    ASSUME TypeOK, SlotInv, NEW n \in 1 .. 2 * Qty, BrokerFills(n)
    PROVE  SlotInv'
<1> DEFINE f == Report(n)
<1>1. /\ f \in Fill /\ fillQ' = Append(fillQ, f)
      /\ exec.o.side = "BUY" => exec.o \in Now
      /\ UNCHANGED <<positions, registry, reqQ, slips>>
  BY Reporting
<1>2. Now' \subseteq Now
  BY Reporting, GoingOn
<1>3. f.side = exec.o.side /\ f.by = exec.o.by /\ f.t = exec.o.t
  BY DEF Report
<1> HIDE DEF f
<1>4. OneMoreBuy(fillQ', fillQ, f)
  <2>1. fillQ \in Seq(Fill)
    BY DEF TypeOK, QueuesTyped
  <2>2. OneMoreBuy(Append(fillQ, f), fillQ, f)
    BY <1>1, <2>1, BuysAppended
  <2> QED BY <1>1, <2>2
<1>5. Layered'
  BY <1>1, <1>2, <1>3, <1>4 DEF SlotInv, Layered, OneMoreBuy
<1>6. ASSUME slips' \cap {"released", "restart"} = {}
      PROVE  Slotted(registry', positions', Now', fillQ')
  <2>1. Slotted(registry, positions, Now, fillQ)
    BY <1>1, <1>6 DEF SlotInv
  <2>2. \A i \in BuysIn(fillQ') : registry'[fillQ'[i].t] = fillQ'[i].by
    <3> SUFFICES ASSUME NEW i \in BuysIn(fillQ') PROVE registry'[fillQ'[i].t] = fillQ'[i].by
      OBVIOUS
    <3>1. CASE i \in BuysIn(fillQ) /\ fillQ'[i] = fillQ[i]
      BY <1>1, <2>1, <3>1 DEF Slotted
    <3>2. CASE fillQ'[i] = f /\ f.side = "BUY"
      <4>1. registry[exec.o.t] = exec.o.by
        BY <1>1, <1>3, <2>1, <3>2 DEF Slotted
      <4> QED BY <1>1, <1>3, <3>2, <4>1
    <3> QED BY <1>4, <3>1, <3>2 DEF OneMoreBuy
  <2> QED BY <1>1, <1>2, <2>1, <2>2 DEF Slotted
<1> QED BY <1>5, <1>6 DEF SlotInv

\* Positions change: what opens one is a FILL that has the slot.
LEMMA SlotsBooked ==
    ASSUME SlotInv, UNCHANGED <<registry, reqQ, exec>>, slips \subseteq slips',
           \A i \in BuysIn(fillQ') : \E j \in BuysIn(fillQ) : fillQ'[i] = fillQ[j],
           \A t \in Tickers : positions'[t].qty > 0 /\ positions'[t].by \in Layers =>
              \/ positions[t].qty > 0 /\ positions[t].by = positions'[t].by
              \/ \E j \in BuysIn(fillQ) : fillQ[j].t = t /\ fillQ[j].by = positions'[t].by
    PROVE  SlotInv'
<1>1. Now' = Now
  BY DEF Now
<1>2. Layered'
  BY <1>1 DEF SlotInv, Layered
<1>3. ASSUME slips' \cap {"released", "restart"} = {}
      PROVE  Slotted(registry', positions', Now', fillQ')
  <2>1. Slotted(registry, positions, Now, fillQ)
    BY <1>3 DEF SlotInv
  <2>2. ASSUME NEW t \in Tickers, positions'[t].qty > 0, positions'[t].by \in Layers
        PROVE  registry'[t] = positions'[t].by
    BY <2>1, <2>2 DEF Slotted
  <2>3. \A i \in BuysIn(fillQ') : registry'[fillQ'[i].t] = fillQ'[i].by
    BY <2>1 DEF Slotted
  <2> QED BY <1>1, <2>1, <2>2, <2>3 DEF Slotted
<1> QED BY <1>2, <1>3 DEF SlotInv

\* The FILLs behind the one that is handled.
LEMMA Behind ==
    ASSUME TypeOK, fillAt = 1, fillQ' = Tail(fillQ)
    PROVE  /\ \A i \in BuysIn(fillQ') : \E j \in BuysIn(fillQ) : fillQ'[i] = fillQ[j]
           /\ Head(fillQ).side = "BUY" => \E j \in BuysIn(fillQ) : Head(fillQ) = fillQ[j]
<1>1. fillQ # <<>> /\ fillQ \in Seq(Fill)
  BY Filling DEF TypeOK, QueuesTyped
<1>2. /\ \A i \in BuysIn(Tail(fillQ)) : i + 1 \in BuysIn(fillQ) /\ Tail(fillQ)[i] = fillQ[i + 1]
      /\ Head(fillQ) = fillQ[1] /\ (Head(fillQ).side = "BUY" => 1 \in BuysIn(fillQ))
  BY <1>1, BuysLeft
<1> QED BY <1>2

\* What a handled BUY leaves: a position, or the old one.
LEMMA BuyHandled ==
    ASSUME TypeOK, FillBuy
    PROVE  LET f == Head(fillQ)
           IN  /\ fillAt = 1 /\ f.side = "BUY" /\ fillQ' = Tail(fillQ) /\ f.t \in Tickers
               /\ UNCHANGED <<hold, registry, reqQ, exec>>
               /\ \/ /\ positions[f.t].qty > 0 /\ UNCHANGED <<positions, open>>
                     /\ slips' = slips \cup {"duplicate"}
                  \/ /\ positions[f.t].qty = 0 /\ UNCHANGED slips
                     /\ positions'[f.t].qty = f.qty /\ positions'[f.t].by = f.by
                     /\ \A t \in Tickers \ {f.t} : positions'[t] = positions[t]
                     /\ \A t \in Tickers \ {f.t} : open'[t] = open[t]
<1> DEFINE f == Head(fillQ)
<1>1. /\ fillAt = 1 /\ f.side = "BUY" /\ fillQ' = Tail(fillQ)
      /\ UNCHANGED <<hold, registry, reqQ, exec>>
  BY DEF FillBuy, FillDone, gates
<1>2. f.t \in Tickers /\ positions[f.t] \in Position /\ positions \in [Tickers -> Position]
  BY <1>1, Filling DEF TypeOK, BooksTyped
<1>3. CASE IsOpen(f.t)
  BY <1>1, <1>2, <1>3 DEF FillBuy, books, IsOpen
<1>4. CASE ~IsOpen(f.t)
  <2>1. positions[f.t].qty = 0 /\ UNCHANGED slips
    BY <1>2, <1>4 DEF IsOpen, Position, FillBuy
  <2>2. positions' = [positions EXCEPT ![f.t] = [NoPos EXCEPT !.qty = f.qty, !.by = f.by]]
    BY <1>4 DEF FillBuy
  <2>3. /\ positions'[f.t].qty = f.qty /\ positions'[f.t].by = f.by
        /\ \A t \in Tickers \ {f.t} : positions'[t] = positions[t]
    BY <1>2, <2>2 DEF NoPos
  <2>4. \A t \in Tickers \ {f.t} : open'[t] = open[t]
    <3>1. open' = open \/ open' = [open EXCEPT ![f.t] = @ \ {f.id}]
      BY <1>4 DEF FillBuy, Gate!Close
    <3> QED BY <1>2, <3>1 DEF TypeOK, WalTyped
  <2> QED BY <1>1, <1>2, <2>1, <2>3, <2>4
<1> QED BY <1>3, <1>4

LEMMA SlotFillBuy ==
    ASSUME TypeOK, SlotInv, FillBuy
    PROVE  SlotInv'
<1> DEFINE f == Head(fillQ)
<1>1. /\ fillAt = 1 /\ f.side = "BUY" /\ fillQ' = Tail(fillQ)
      /\ UNCHANGED <<registry, reqQ, exec>> /\ slips \subseteq slips'
      /\ \A t \in Tickers : positions'[t] = positions[t] \/ (t = f.t /\ positions'[t].by = f.by)
  BY BuyHandled
<1>2. PICK j \in BuysIn(fillQ) : f = fillQ[j]
  BY <1>1, Behind
<1>3. ASSUME NEW t \in Tickers, positions'[t].qty > 0, positions'[t].by \in Layers
      PROVE  \/ positions[t].qty > 0 /\ positions[t].by = positions'[t].by
             \/ \E i \in BuysIn(fillQ) : fillQ[i].t = t /\ fillQ[i].by = positions'[t].by
  BY <1>1, <1>2, <1>3
<1> QED BY <1>1, <1>3, Behind, SlotsBooked

LEMMA SlotFillSell ==
    ASSUME TypeOK, SlotInv, FillSell
    PROVE  SlotInv'
<1>1. /\ fillAt = 1 /\ fillQ' = Tail(fillQ) /\ UNCHANGED <<registry, reqQ, exec, slips>>
  BY DEF FillSell, FillDone, gates
<1>2. ASSUME NEW t \in Tickers, positions'[t].qty > 0, positions'[t].by \in Layers
      PROVE  positions[t].qty > 0 /\ positions[t].by = positions'[t].by
  <2>1. CASE t # Head(fillQ).t
    BY <1>2, <2>1, Selling
  <2>2. CASE t = Head(fillQ).t
    <3>1. positions'[t].qty = positions[t].qty - Clamped /\ positions'[t].by \in {None, positions[t].by}
      BY <2>2, Selling
    <3>2. Clamped \in Nat /\ positions[t].qty \in Nat /\ None \notin Layers
      BY <1>1, <2>2, ClampedIs DEF None, Layers
    <3>3. positions[t].qty > 0
      BY <1>2, <3>1, <3>2
    <3> QED BY <1>2, <3>1, <3>2, <3>3
  <2> QED BY <2>1, <2>2
<1> QED BY <1>1, <1>2, Behind, SlotsBooked

\* Slots are given back.
LEMMA SlotReleased ==
    ASSUME TypeOK, SlotInv, NEW t \in Tickers, Release(t),
           UNCHANGED <<positions, reqQ, fillQ, exec>>
    PROVE  SlotInv'
<1>1. Now' = Now
  BY DEF Now
<1>2. Layered'
  BY <1>1 DEF SlotInv, Layered
<1>3. ASSUME slips' \cap {"released", "restart"} = {}
      PROVE  Slotted(registry', positions', Now', fillQ')
  <2>1. ~Taken(t) /\ slips' = slips
    BY <1>3 DEF Release
  <2>2. Slotted(registry, positions, Now, fillQ)
    BY <1>3, <2>1 DEF SlotInv
  <2>3. \A u \in Tickers : u # t => registry'[u] = registry[u]
    BY DEF Release, TypeOK, GatesTyped
  <2>4. \A u \in Tickers : positions[u].qty > 0 => u # t
    BY <2>1 DEF Taken, IsOpen
  <2>5. \A o \in Now : o.t \in Tickers /\ o.t # t
    <3>1. \A o \in Now : o \in Order
      BY DEF Now, TypeOK, ExecTyped
    <3> QED BY <2>1, <3>1 DEF Taken, Now, Order
  <2>6. \A i \in BuysIn(fillQ) : fillQ[i].t \in Tickers /\ fillQ[i].t # t
    BY <2>1, TheBuys DEF Taken, BuysIn, TypeOK, QueuesTyped
  <2> QED BY <1>1, <2>2, <2>3, <2>4, <2>5, <2>6 DEF Slotted
<1> QED BY <1>2, <1>3 DEF SlotInv

LEMMA SlotFailRelease ==
    ASSUME TypeOK, SlotInv, FailRelease
    PROVE  SlotInv'
<1>1. UNCHANGED <<hold, positions, reqQ, fillQ, exec, open>>
  BY DEF FailRelease, books, queues, wal
<1>2. Head(failQ).t \in Tickers
  <2>1. failAt > 0
    BY DEF FailRelease
  <2> QED BY <2>1, FailIsThere
<1>3. CASE Release(Head(failQ).t)
  BY <1>1, <1>2, <1>3, SlotReleased
<1>4. CASE UNCHANGED <<registry, slips>>
  BY <1>1, <1>4, Calmly DEF Calm
<1> QED BY <1>3, <1>4 DEF FailRelease

LEMMA SlotClosedRegistry ==
    ASSUME TypeOK, SlotInv, ClosedRegistry
    PROVE  SlotInv'
<1>1. UNCHANGED <<positions, reqQ, fillQ, exec>> /\ Release(Head(closedQ)) /\ closedAt > 0
  BY DEF ClosedRegistry, books, queues
<1>2. Head(closedQ) \in Tickers
  BY <1>1, HeadTailProperties DEF TypeOK, QueuesTyped, WorkersTyped
<1> QED BY <1>1, <1>2, SlotReleased

LEMMA SlotFailPhantom ==
    ASSUME TypeOK, SlotInv, FailPhantom
    PROVE  SlotInv'
<1>1. UNCHANGED <<registry, reqQ, fillQ, exec>> /\ slips \subseteq slips'
  BY DEF FailPhantom, gates
<1>2. positions' = positions \/ positions' = [positions EXCEPT ![Head(failQ).t] = NoPos]
  BY DEF FailPhantom
<1>3. \A t \in Tickers : positions'[t].qty > 0 => positions'[t] = positions[t]
  <2>1. positions \in [Tickers -> Position]
    BY DEF TypeOK, BooksTyped
  <2>2. ~(NoPos.qty > 0)
    BY DEF NoPos
  <2> QED BY <1>2, <2>1, <2>2
<1> QED BY <1>1, <1>3, SlotsBooked

LEMMA SlotRecApply ==
    ASSUME TypeOK, SlotInv, RecApply
    PROVE  SlotInv'
<1>1. /\ UNCHANGED <<registry, reqQ, fillQ, exec>> /\ slips \subseteq slips'
      /\ \A t \in Tickers : positions'[t] = Reconciled(t)
  BY DEF RecApply, gates
<1>2. \A t \in Tickers : positions'[t].qty > 0 /\ positions'[t].by \in Layers
         => positions[t].qty > 0 /\ positions[t].by = positions'[t].by
  BY <1>1, ReconciledIs
<1> QED BY <1>1, <1>2, SlotsBooked

LEMMA SlotRestart ==
    ASSUME Restart
    PROVE  SlotInv'
<1>1. reqQ' = <<>> /\ fillQ' = <<>> /\ exec' = Idle /\ "restart" \in slips'
  BY DEF Restart
<1>2. Now' = {} /\ BuysIn(reqQ') = {} /\ BuysIn(fillQ') = {}
  BY <1>1 DEF Now, BuysIn
<1>3. Layered'
  BY <1>2 DEF Layered
<1> QED BY <1>1, <1>3 DEF SlotInv

LEMMA SlotStep ==
    TypeOK /\ SlotInv /\ [Next]_vars => SlotInv'
<1> SUFFICES ASSUME TypeOK, SlotInv, [Next]_vars PROVE SlotInv'
  OBVIOUS
<1>1. CASE Calm
  BY <1>1, Calmly
<1>2. ASSUME NEW t \in Tickers, RequestSell(t) \/ \E l \in Layers : Place(l, t)
      PROVE  SlotInv'
  BY <1>2, SlotRequestSell, SlotPlace
<1>3. CASE Orders
  BY <1>3, SlotBlock, SlotPass, SlotOnward, SlotBrokerFills DEF Orders
<1>4. CASE FillBuy \/ FillSell
  BY <1>4, SlotFillBuy, SlotFillSell
<1>5. CASE FailRelease \/ FailPhantom \/ ClosedRegistry \/ RecApply \/ Restart
  BY <1>5, SlotFailRelease, SlotFailPhantom, SlotClosedRegistry, SlotRecApply, SlotRestart
<1>6. CASE RecoverWal \/ \E b \in Brokers, t \in Tickers : StopFires(b, t)
  BY <1>6, SlotAside
<1> QED BY <1>1, <1>2, <1>3, <1>4, <1>5, <1>6, CalmSteps
        DEF Next, Signals, Fills, Fails, Closeds, Reconcile

(* An open position keeps its ticker in the registry for its layer, across   *)
(* four queues that overtake each other, until a late event gives the slot   *)
(* back or the registry is reset: every BUY past the gate has the slot too.  *)
THEOREM SlotsAreHeld == Spec => []SlotHeld
<1>1. Init => SlotInv
  <2> SUFFICES ASSUME Init PROVE SlotInv
    OBVIOUS
  <2>1. reqQ = <<>> /\ fillQ = <<>> /\ Now = {}
    BY DEF Init, Now
  <2>2. \A t \in Tickers : positions[t] = NoPos
    BY DEF Init
  <2>3. ~(NoPos.qty > 0)
    BY DEF NoPos
  <2>4. BuysIn(reqQ) = {} /\ BuysIn(fillQ) = {}
    BY <2>1 DEF BuysIn
  <2> QED BY <2>1, <2>2, <2>3, <2>4 DEF SlotInv, Layered, Slotted
<1>2. SlotInv => SlotHeld
  BY DEF SlotInv, Slotted, SlotHeld, IsOpen
<1> QED BY <1>1, <1>2, SlotStep, TypeCorrect, PTL DEF Spec
------------------------------------------------------------------------------
(* BUYs under way                                                            *)

Slipped == slips \cap {"late signal", "swept", "imported"} # {}

LEMMA Carrying ==
    /\ CarriedInv /\ ~Slipped => Carried(reqQ, Now, fillQ, open, Opened)
    /\ (~Slipped)' /\ slips \subseteq slips' => ~Slipped
    /\ ((~Slipped)' => Carried(reqQ', Now', fillQ', open', Opened')) => CarriedInv'
<1>1. CarriedInv /\ ~Slipped => Carried(reqQ, Now, fillQ, open, Opened)
  BY DEF CarriedInv, Slipped
<1>2. (~Slipped)' /\ slips \subseteq slips' => ~Slipped
  BY DEF Slipped
<1>3. ((~Slipped)' => Carried(reqQ', Now', fillQ', open', Opened')) => CarriedInv'
  BY DEF CarriedInv, Slipped
<1> QED BY <1>1, <1>2, <1>3

\* The types of what is under way.
LEMMA UnderWay ==
    ASSUME TypeOK
    PROVE  /\ reqQ \in Seq(Order) /\ fillQ \in Seq(Fill) /\ Now \in SUBSET Order
           /\ \A t \in Tickers : IsOpen(t) <=> t \in Opened
           /\ Opened \subseteq Tickers
BY DEF TypeOK, QueuesTyped, ExecTyped, Now, Opened

\* Neither a position nor the log changes, and nothing is asked for or filled.
LEMMA CarriedStays ==
    ASSUME CarriedInv, UNCHANGED <<reqQ, fillQ, open, positions>>, Now' \subseteq Now,
           slips \subseteq slips'
    PROVE  CarriedInv'
<1>1. Opened' = Opened
  BY DEF Opened, IsOpen
<1>2. Carried(reqQ, Now, fillQ, open, Opened) => Carried(reqQ', Now', fillQ', open', Opened')
  BY <1>1 DEF Carried
<1> QED BY <1>2, Carrying

LEMMA CarriedAside ==
    ASSUME TypeOK, CarriedInv,
           \/ RouteSplit \/ Route \/ RouteNowhere \/ BrokerRaises \/ FailRelease \/ ClosedRegistry
           \/ \E b \in Brokers, t \in Tickers : StopFires(b, t)
    PROVE  CarriedInv'
<1>1. CASE RouteSplit \/ Route \/ RouteNowhere \/ BrokerRaises
  <2>1. UNCHANGED open
    BY <1>1 DEF RouteSplit, Route, RouteNowhere, BrokerRaises, wal
  <2> QED BY <1>1, <2>1, Onward, GoingOn, CarriedStays
<1>2. CASE FailRelease \/ ClosedRegistry \/ \E b \in Brokers, t \in Tickers : StopFires(b, t)
  <2>1. /\ UNCHANGED <<reqQ, fillQ, open, positions, exec>>
        /\ slips \subseteq slips'
    BY <1>2 DEF FailRelease, ClosedRegistry, Release, StopFires, queues, wal, books
  <2>2. Now' \subseteq Now
    BY <2>1 DEF Now
  <2> QED BY <2>1, <2>2, CarriedStays
<1> QED BY <1>1, <1>2

\* The log admits a BUY when it has no other of its ticker.
LEMMA CarriedPlace ==
    ASSUME TypeOK, CarriedInv, NEW t \in Tickers, NEW l \in Layers, Place(l, t)
    PROVE  CarriedInv'
<1>1. /\ UNCHANGED <<hold, positions, registry, fillQ, exec>> /\ slips \subseteq slips'
      /\ \/ /\ Gate!Admit(t, nextId) /\ Request(t, "BUY", Qty, l)
            /\ IsOpen(t) => "late signal" \in slips'
         \/ UNCHANGED <<open, reqQ, slips>>
  BY DEF Place, books, gates
<1>2. CASE UNCHANGED <<open, reqQ, slips>>
  BY <1>1, <1>2, Calmly DEF Calm
<1>3. CASE /\ Gate!Admit(t, nextId) /\ Request(t, "BUY", Qty, l)
           /\ IsOpen(t) => "late signal" \in slips'
  <2> SUFFICES ASSUME (~Slipped)' PROVE Carried(reqQ', Now', fillQ', open', Opened')
    BY Carrying
  <2>1. Carried(reqQ, Now, fillQ, open, Opened) /\ t \notin Opened
    BY <1>1, <1>3, Carrying, UnderWay DEF Slipped
  <2> DEFINE o == [id |-> nextId, t |-> t, side |-> "BUY", qty |-> Qty, by |-> l]
  <2>2. o \in Order /\ reqQ' = Append(reqQ, o) /\ o.t = t /\ o.id = nextId
    BY <1>3, Limits, Requesting DEF Shares
  <2>3. /\ open[t] = {} /\ nextId \in open'[t]
        /\ \A u \in Tickers : open'[u] = open[u] \/ u = t
    BY <1>3 DEF Gate!Admit, TypeOK, WalTyped
  <2>4. Now' = Now /\ Opened' = Opened /\ fillQ' = fillQ
    BY <1>1 DEF Now, Opened, IsOpen
  <2>5. o.side = "BUY"
    OBVIOUS
  <2> HIDE DEF o
  <2>6. /\ o.side = "BUY" => open[o.t] = {} /\ o.t \notin Opened /\ o.id \in open'[o.t]
        /\ \A u \in Tickers : open'[u] = open[u] \/ (o.side = "BUY" /\ u = o.t)
    BY <2>1, <2>2, <2>3, <2>5
  <2>7. Carried(Append(reqQ, o), Now, fillQ, open', Opened)
    BY <2>1, <2>2, <2>6, UnderWay, CarriedAsked
  <2> QED BY <2>2, <2>4, <2>7
<1> QED BY <1>1, <1>2, <1>3

LEMMA CarriedRequestSell ==
    ASSUME TypeOK, CarriedInv, NEW t \in Tickers, RequestSell(t)
    PROVE  CarriedInv'
<1>1. PICK o \in Order : o.side = "SELL" /\ reqQ' = Append(reqQ, o)
  BY AskedToSell
<1>2. UNCHANGED <<positions, fillQ, exec, open, slips>>
  BY DEF RequestSell, books
<1>3. Now' = Now /\ Opened' = Opened
  BY <1>2 DEF Now, Opened, IsOpen
<1> SUFFICES ASSUME (~Slipped)' PROVE Carried(reqQ', Now', fillQ', open', Opened')
  BY Carrying
<1>4. Carried(reqQ, Now, fillQ, open, Opened)
  BY <1>2, Carrying
<1>5. Carried(Append(reqQ, o), Now, fillQ, open, Opened)
  BY <1>1, <1>4, UnderWay, CarriedAsked
<1> QED BY <1>1, <1>2, <1>3, <1>5

LEMMA CarriedTake ==
    ASSUME TypeOK, CarriedInv, NEW o, Block(o) \/ Pass(o)
    PROVE  CarriedInv'
<1>1. /\ exec = Idle /\ reqQ # <<>> /\ o = Head(reqQ) /\ reqQ' = Tail(reqQ)
      /\ exec' = exec \/ exec' = [at |-> "route", o |-> o]
      /\ UNCHANGED <<positions, fillQ, open, slips>>
  BY DEF Block, Pass, Take, books, wal
<1>2. Now = {} /\ Now' \in SUBSET {Head(reqQ)} /\ (Now' # {} => Head(reqQ).side = "BUY")
  BY <1>1 DEF Now
<1>3. Opened' = Opened
  BY <1>1 DEF Opened, IsOpen
<1> SUFFICES ASSUME (~Slipped)' PROVE Carried(reqQ', Now', fillQ', open', Opened')
  BY Carrying
<1>4. Carried(reqQ, {}, fillQ, open, Opened)
  BY <1>1, <1>2, Carrying
<1>5. Carried(Tail(reqQ), Now', fillQ, open, Opened)
  BY <1>1, <1>2, <1>4, UnderWay, CarriedTaken
<1> QED BY <1>1, <1>3, <1>5

\* The log closes the BUY that has failed, and nothing else.
LEMMA CarriedBrokerFails ==
    ASSUME TypeOK, CarriedInv, BrokerFails
    PROVE  CarriedInv'
<1>1. /\ exec.at = "broker" /\ LegDone(down) /\ UNCHANGED <<reqQ, fillQ, positions>>
      /\ \/ UNCHANGED open
         \/ exec.o.side = "BUY" /\ Gate!Close(exec.o.t, exec.o.id)
      /\ slips \subseteq slips'
  BY DEF BrokerFails, Stray, books
<1>2. CASE UNCHANGED open
  BY <1>1, <1>2, Onward, GoingOn, CarriedStays
<1>3. CASE exec.o.side = "BUY" /\ Gate!Close(exec.o.t, exec.o.id)
  <2>1. Now' = {} /\ exec.o \in Now
    BY <1>1, <1>3, Executing, NextLeg DEF Now
  <2>2. Opened' = Opened
    BY <1>1 DEF Opened, IsOpen
  <2>3. \A t \in Tickers : open'[t] = open[t] \/ exec.o.t = t
    BY <1>3 DEF Gate!Close, TypeOK, WalTyped
  <2>4. \A t \in Tickers : open'[t] = open[t] \/ \E o \in Now : o.t = t
    BY <2>1, <2>3
  <2> SUFFICES ASSUME (~Slipped)' PROVE Carried(reqQ', Now', fillQ', open', Opened')
    BY Carrying
  <2>5. Carried(reqQ, Now, fillQ, open, Opened)
    BY <1>1, Carrying
  <2>6. Carried(reqQ, {}, fillQ, open', Opened)
    BY <2>4, <2>5, UnderWay, CarriedEnded
  <2> QED BY <1>1, <2>1, <2>2, <2>6
<1> QED BY <1>1, <1>2, <1>3

LEMMA CarriedBrokerFills ==
    ASSUME TypeOK, CarriedInv, NEW n \in 1 .. 2 * Qty, BrokerFills(n)
    PROVE  CarriedInv'
<1> DEFINE f == Report(n)
<1>1. /\ f \in Fill /\ fillQ' = Append(fillQ, f)
      /\ exec.o.side = "BUY" => exec.o \in Now /\ Now' = {}
      /\ UNCHANGED <<positions, reqQ, open, slips>>
  BY Reporting
<1>2. Now' \in SUBSET Now /\ Opened' = Opened
  BY <1>1, Reporting, GoingOn DEF Opened, IsOpen
<1>3. f.side = "BUY" => Now' = {} /\ \E o \in Now : o.t = f.t /\ o.id = f.id
  BY <1>1 DEF Report
<1> HIDE DEF f
<1> SUFFICES ASSUME (~Slipped)' PROVE Carried(reqQ', Now', fillQ', open', Opened')
  BY Carrying
<1>4. Carried(reqQ, Now, fillQ, open, Opened)
  BY <1>1, Carrying
<1>5. Carried(reqQ, Now', Append(fillQ, f), open, Opened)
  BY <1>1, <1>2, <1>3, <1>4, UnderWay, CarriedFilled
<1> QED BY <1>1, <1>2, <1>5

\* The FILL opens the position and the log forgets the order: in one step.
LEMMA CarriedFillBuy ==
    ASSUME TypeOK, CarriedInv, FillBuy
    PROVE  CarriedInv'
<1> DEFINE f == Head(fillQ)
<1>1. /\ fillAt = 1 /\ f.side = "BUY" /\ fillQ' = Tail(fillQ) /\ f.t \in Tickers
      /\ UNCHANGED <<reqQ, exec>> /\ slips \subseteq slips'
  BY BuyHandled
<1>2. /\ \A t \in Tickers : t # f.t => positions'[t] = positions[t]
      /\ \A t \in Tickers : open'[t] = open[t] \/ t = f.t
      /\ f.t \in Opened => positions'[f.t] = positions[f.t]
  BY BuyHandled DEF Opened, IsOpen
<1>3. fillQ # <<>>
  BY <1>1, Filling
<1> HIDE DEF f
<1>4. Opened' # Opened => Opened' = Opened \cup {f.t}
  <2>1. \A t \in Tickers : t # f.t => (t \in Opened' <=> t \in Opened)
    BY <1>2 DEF Opened, IsOpen
  <2>2. f.t \in Opened => f.t \in Opened'
    BY <1>2 DEF Opened, IsOpen
  <2>3. Opened \subseteq Tickers /\ Opened' \subseteq Tickers
    BY DEF Opened
  <2> QED BY <1>1, <2>1, <2>2, <2>3
<1>5. Now' = Now
  BY <1>1 DEF Now
<1> SUFFICES ASSUME (~Slipped)' PROVE Carried(reqQ', Now', fillQ', open', Opened')
  BY Carrying
<1>6. Carried(reqQ, Now, fillQ, open, Opened)
  BY <1>1, Carrying
<1>7. Carried(reqQ, Now, Tail(fillQ), open', Opened')
  BY <1>1, <1>2, <1>3, <1>4, <1>6, UnderWay, CarriedBooked DEF f
<1> QED BY <1>1, <1>5, <1>7

\* Positions are closed.
LEMMA CarriedClosed ==
    ASSUME TypeOK, CarriedInv, UNCHANGED <<reqQ, exec, open>>, slips \subseteq slips',
           \/ fillQ' = fillQ
           \/ fillQ # <<>> /\ fillQ' = Tail(fillQ),
           Opened' \subseteq Opened
    PROVE  CarriedInv'
<1>1. Now' = Now
  BY DEF Now
<1> SUFFICES ASSUME (~Slipped)' PROVE Carried(reqQ', Now', fillQ', open', Opened')
  BY Carrying
<1>2. Carried(reqQ, Now, fillQ, open, Opened)
  BY Carrying
<1>3. Carried(reqQ, Now, fillQ', open, Opened)
  BY <1>2, UnderWay, CarriedBooked
<1>4. Carried(reqQ, Now, fillQ', open, Opened')
  <2>1. fillQ' \in Seq(Fill)
    BY UnderWay, HeadTailProperties
  <2> QED BY <1>3, <2>1, UnderWay, CarriedReopened
<1> QED BY <1>1, <1>4

LEMMA CarriedFillSell ==
    ASSUME TypeOK, CarriedInv, FillSell
    PROVE  CarriedInv'
<1>1. /\ fillAt = 1 /\ fillQ' = Tail(fillQ) /\ UNCHANGED <<reqQ, exec, open, slips>>
  BY DEF FillSell, FillDone, wal
<1>2. \A t \in Tickers : positions'[t].qty > 0 => positions[t].qty > 0
  <2> SUFFICES ASSUME NEW t \in Tickers, positions'[t].qty > 0 PROVE positions[t].qty > 0
    OBVIOUS
  <2>1. CASE t # Head(fillQ).t
    BY <2>1, Selling
  <2>2. CASE t = Head(fillQ).t
    <3>1. positions'[t].qty = positions[t].qty - Clamped
      BY <2>2, Selling
    <3>2. Clamped \in Nat /\ positions[t].qty \in Nat
      BY <1>1, <2>2, ClampedIs
    <3> QED BY <3>1, <3>2
  <2> QED BY <2>1, <2>2
<1>3. Opened' \subseteq Opened
  BY <1>2 DEF Opened, IsOpen
<1> QED BY <1>1, <1>3, Filling, CarriedClosed

LEMMA CarriedFailPhantom ==
    ASSUME TypeOK, CarriedInv, FailPhantom
    PROVE  CarriedInv'
<1>1. UNCHANGED <<reqQ, fillQ, exec, open>> /\ slips \subseteq slips'
  BY DEF FailPhantom, wal
<1>2. positions' = positions \/ positions' = [positions EXCEPT ![Head(failQ).t] = NoPos]
  BY DEF FailPhantom
<1>3. \A t \in Tickers : positions'[t].qty > 0 => positions'[t] = positions[t]
  <2>1. positions \in [Tickers -> Position]
    BY DEF TypeOK, BooksTyped
  <2>2. ~(NoPos.qty > 0)
    BY DEF NoPos
  <2> QED BY <1>2, <2>1, <2>2
<1>4. Opened' \subseteq Opened
  BY <1>3 DEF Opened, IsOpen
<1> QED BY <1>1, <1>4, CarriedClosed

\* What is imported while its BUY is under way is a slip.
LEMMA CarriedRecApply ==
    ASSUME TypeOK, CarriedInv, RecApply
    PROVE  CarriedInv'
<1>1. /\ UNCHANGED <<reqQ, fillQ, exec, open>> /\ slips \subseteq slips'
      /\ \A t \in Tickers : positions'[t] = Reconciled(t)
      /\ (\E t \in Tickers : Reconciled(t) # positions[t] /\ ~IsOpen(t) /\ Buying(t))
            => "imported" \in slips'
  BY DEF RecApply, wal
<1>2. Now' = Now
  BY <1>1 DEF Now
<1> SUFFICES ASSUME (~Slipped)' PROVE Carried(reqQ', Now', fillQ', open', Opened')
  BY Carrying
<1>3. Carried(reqQ, Now, fillQ, open, Opened)
  BY <1>1, Carrying
<1>4. ASSUME NEW t \in Opened' \ Opened
      PROVE  /\ \A i \in BuysIn(reqQ) : reqQ[i].t # t
             /\ \A i \in BuysIn(fillQ) : fillQ[i].t # t
             /\ \A o \in Now : o.t # t
  <2>1. t \in Tickers /\ ~IsOpen(t) /\ positions'[t] # positions[t]
    BY DEF Opened, IsOpen
  <2>2. ~Buying(t)
    BY <1>1, <2>1 DEF Slipped
  <2> QED BY <2>2 DEF Buying, BuysIn, Now
<1>5. Carried(reqQ, Now, fillQ, open, Opened')
  BY <1>3, <1>4, UnderWay, CarriedReopened
<1> QED BY <1>1, <1>2, <1>5

\* After a start nothing is under way, and the recovery sweeps only what is not.
LEMMA CarriedAnew ==
    ASSUME TypeOK, CarriedInv, Restart \/ RecoverWal
    PROVE  CarriedInv'
<1>1. CASE Restart
  <2>1. reqQ' = <<>> /\ fillQ' = <<>> /\ Now' = {}
    BY <1>1 DEF Restart, Now
  <2> QED BY <2>1, CarriedNone, Carrying
<1>2. CASE RecoverWal
  <2>1. UNCHANGED <<reqQ, fillQ, exec>>
        /\ (exec # Idle \/ reqQ # <<>> \/ fillQ # <<>> => "swept" \in slips')
    BY <1>2 DEF RecoverWal, queues
  <2> SUFFICES ASSUME (~Slipped)' PROVE Carried(reqQ', Now', fillQ', open', Opened')
    BY Carrying
  <2>2. reqQ' = <<>> /\ fillQ' = <<>> /\ Now' = {}
    BY <2>1 DEF Slipped, Now
  <2> QED BY <2>2, CarriedNone
<1> QED BY <1>1, <1>2

LEMMA CarriedStep ==
    TypeOK /\ CarriedInv /\ [Next]_vars => CarriedInv'
<1> SUFFICES ASSUME TypeOK, CarriedInv, [Next]_vars PROVE CarriedInv'
  OBVIOUS
<1>1. CASE Calm
  BY <1>1, Calmly
<1>2. ASSUME NEW t \in Tickers, RequestSell(t) \/ \E l \in Layers : Place(l, t)
      PROVE  CarriedInv'
  BY <1>2, CarriedRequestSell, CarriedPlace
<1>3. CASE Orders
  BY <1>3, CarriedTake, CarriedAside, CarriedBrokerFails, CarriedBrokerFills DEF Orders
<1>4. CASE FillBuy \/ FillSell
  BY <1>4, CarriedFillBuy, CarriedFillSell
<1>5. CASE FailRelease \/ FailPhantom \/ ClosedRegistry \/ RecApply
  BY <1>5, CarriedAside, CarriedFailPhantom, CarriedRecApply
<1>6. CASE \E b \in Brokers, t \in Tickers : StopFires(b, t)
  BY <1>6, CarriedAside
<1>7. CASE Restart \/ RecoverWal
  BY <1>7, CarriedAnew
<1> QED BY <1>1, <1>2, <1>3, <1>4, <1>5, <1>6, <1>7, CalmSteps
        DEF Next, Signals, Fills, Fails, Closeds, Reconcile

(* No broker executes a BUY of a ticker whose position is open, unless the   *)
(* BUY was placed late, its log entry swept or the position imported         *)
(* meanwhile: the log holds every BUY under way, of a ticker one at most,    *)
(* and lets it go in the step that opens the position.                       *)
THEOREM OneBuyAtATime == Spec => []OneOwner
<1>1. Init => CarriedInv
  <2> SUFFICES ASSUME Init PROVE CarriedInv
    OBVIOUS
  <2>1. reqQ = <<>> /\ fillQ = <<>> /\ Now = {}
    BY DEF Init, Now
  <2> QED BY <2>1, CarriedNone DEF CarriedInv
<1>2. TypeOK /\ CarriedInv => OneOwner
  <2> SUFFICES ASSUME TypeOK, CarriedInv, exec.at = "broker", exec.o.side = "BUY", ~Slipped
               PROVE  ~IsOpen(exec.o.t)
    BY DEF OneOwner, Slipped
  <2>1. exec # Idle /\ exec.o.t \in Tickers
    BY Executing DEF Order
  <2>2. exec.o \in Now
    BY <2>1 DEF Now
  <2>3. exec.o.t \notin Opened
    BY <2>2, Carrying DEF Carried
  <2> QED BY <2>1, <2>3, UnderWay
<1> QED BY <1>1, <1>2, CarriedStep, TypeCorrect, PTL DEF Spec
------------------------------------------------------------------------------
(* The books and the brokers                                                 *)

Astray == slips \cap {"stray", "stop", "duplicate", "phantom", "stale", "unseen", "merged"} # {}

Tracked(t) == \E h : Tracks(h, fillQ, t, Held(t), positions[t].qty)

LEMMA Tracking ==
    /\ BooksInv /\ ~Astray => \A t \in Tickers : Tracked(t)
    /\ (~Astray)' /\ slips \subseteq slips' => ~Astray
    /\ ((~Astray)' => \A t \in Tickers : Tracked(t)') => BooksInv'
<1>1. BooksInv /\ ~Astray => \A t \in Tickers : Tracked(t)
  BY DEF BooksInv, Astray, Tracked
<1>2. (~Astray)' /\ slips \subseteq slips' => ~Astray
  BY DEF Astray
<1>3. ((~Astray)' => \A t \in Tickers : Tracked(t)') => BooksInv'
  BY DEF BooksInv, Astray, Tracked
<1> QED BY <1>1, <1>2, <1>3

\* Quantities are natural numbers.
LEMMA Counted ==
    ASSUME TypeOK, NEW t \in Tickers
    PROVE  /\ hold["alpaca"][t] \in Nat /\ hold["tradier"][t] \in Nat /\ Held(t) \in Nat
           /\ positions[t].qty \in Nat /\ fillQ \in Seq(Fill)
<1>1. hold["alpaca"][t] \in Nat /\ hold["tradier"][t] \in Nat
  BY DEF TypeOK, HoldTyped, Brokers
<1>2. positions[t].qty \in Nat /\ fillQ \in Seq(Fill)
  BY DEF TypeOK, BooksTyped, QueuesTyped, Position
<1> QED BY <1>1, <1>2 DEF Held

LEMMA BooksStay ==
    ASSUME BooksInv, UNCHANGED <<hold, positions, fillQ>>, slips \subseteq slips'
    PROVE  BooksInv'
<1>1. \A t \in Tickers : Held(t)' = Held(t)
  BY DEF Held
<1>2. \A t \in Tickers : Tracked(t) => Tracked(t)'
  BY <1>1 DEF Tracked
<1> QED BY <1>2, Tracking

LEMMA BooksAside ==
    ASSUME BooksInv,
           \/ \E t \in Tickers : RequestSell(t) \/ \E l \in Layers : Place(l, t)
           \/ \E o : Block(o) \/ Pass(o)
           \/ RouteSplit \/ Route \/ RouteNowhere \/ FailRelease \/ ClosedRegistry \/ RecoverWal
    PROVE  BooksInv'
<1>1. CASE \E t \in Tickers : RequestSell(t) \/ \E l \in Layers : Place(l, t)
  <2>1. UNCHANGED <<hold, positions, fillQ>> /\ slips \subseteq slips'
    BY <1>1 DEF RequestSell, Place, books
  <2> QED BY <2>1, BooksStay
<1>2. CASE \E o : Block(o) \/ Pass(o)
  <2>1. UNCHANGED <<hold, positions, fillQ>> /\ slips \subseteq slips'
    BY <1>2 DEF Block, Pass, books
  <2> QED BY <2>1, BooksStay
<1>3. CASE RouteSplit \/ Route \/ RouteNowhere \/ FailRelease \/ ClosedRegistry \/ RecoverWal
  <2>1. UNCHANGED <<hold, positions, fillQ>> /\ slips \subseteq slips'
    BY <1>3 DEF RouteSplit, Route, RouteNowhere, FailRelease, ClosedRegistry, Release, RecoverWal,
                books, queues
  <2> QED BY <2>1, BooksStay
<1> QED BY <1>1, <1>2, <1>3

LEMMA BooksUnseen ==
    ASSUME BooksInv,
           \/ BrokerFails \/ BrokerRaises
           \/ \E b \in Brokers, t \in Tickers : StopFires(b, t)
    PROVE  BooksInv'
<1>1. CASE "stray" \in slips' \/ "stop" \in slips'
  BY <1>1, Tracking DEF Astray
<1>2. CASE UNCHANGED <<hold, positions, fillQ>> /\ slips \subseteq slips'
  BY <1>2, BooksStay
<1> QED BY <1>1, <1>2 DEF BrokerFails, BrokerRaises, Stray, StopFires, books, queues

\* What the broker reports is what it has done.
LEMMA BooksBrokerFills ==
    ASSUME TypeOK, BooksInv, NEW n \in 1 .. 2 * Qty, BrokerFills(n)
    PROVE  BooksInv'
<1> DEFINE f == Report(n)
           b == TheLeg.b
           u == exec.o.t
<1>1. /\ exec.at = "broker" /\ hold' = Executed(n)
      /\ exec.o.side = "SELL" => n <= hold[b][u]
  BY DEF BrokerFills
<1>2. /\ f \in Fill /\ fillQ' = Append(fillQ, f) /\ UNCHANGED <<positions, slips>> /\ n \in Nat
  BY Reporting
<1>3. b \in Brokers /\ u \in Tickers /\ exec.o.side \in {"BUY", "SELL"}
  BY <1>1, Executing DEF LegType, Order
<1>4. \A c \in Brokers, t \in Tickers :
         hold'[c][t] = IF c = b /\ t = u
                       THEN IF exec.o.side = "BUY" THEN hold[c][t] + n
                            ELSE hold[c][t] - MinOf(hold[c][t], n)
                       ELSE hold[c][t]
  BY <1>1, <1>2, Executions
<1>5. f.t = u /\ f.side = exec.o.side /\ f.qty = n
  BY DEF Report
<1> HIDE DEF f, b, u
<1>6. ASSUME NEW t \in Tickers
      PROVE  Held(t)' \in Nat /\ Held(t)' = Held(t) + Effect(f, t)
  <2>1. "alpaca" \in Brokers /\ "tradier" \in Brokers /\ Brokers = {"alpaca", "tradier"}
    BY DEF Brokers
  <2>2. hold["alpaca"][t] \in Nat /\ hold["tradier"][t] \in Nat
    BY Counted
  <2>3. Held(t)' = hold'["alpaca"][t] + hold'["tradier"][t]
    BY DEF Held
  <2>4. CASE t # u
    <3>1. hold'["alpaca"][t] = hold["alpaca"][t] /\ hold'["tradier"][t] = hold["tradier"][t]
      BY <1>4, <2>1, <2>4
    <3>2. Effect(f, t) = 0
      BY <1>5, <2>4 DEF Effect
    <3> QED BY <2>2, <2>3, <3>1, <3>2 DEF Held
  <2>5. CASE t = u
    <3>1. PICK c \in Brokers : c # b /\ Brokers = {b, c}
      BY <1>3, <2>1
    <3>2. hold[b][t] \in Nat /\ hold[c][t] \in Nat
      BY <1>3, <2>1, <2>2, <3>1
    <3>4. hold'[c][t] = hold[c][t]
      BY <1>4, <3>1
    <3>5. /\ hold'[b][t] = hold[b][t] + Effect(f, t) /\ hold[b][t] + Effect(f, t) \in Nat
          /\ Effect(f, t) \in Int
      <4>1. CASE exec.o.side = "BUY"
        <5>1. Effect(f, t) = n
          BY <1>5, <2>5, <4>1 DEF Effect
        <5>2. hold'[b][t] = hold[b][t] + n
          BY <1>3, <1>4, <2>5, <4>1
        <5> QED BY <1>2, <3>2, <5>1, <5>2
      <4>2. CASE exec.o.side = "SELL"
        <5>1. Effect(f, t) = 0 - n
          BY <1>5, <2>5, <4>2 DEF Effect
        <5>2. hold'[b][t] = hold[b][t] - MinOf(hold[b][t], n)
          BY <1>3, <1>4, <2>5, <4>2
        <5>3. n <= hold[b][t]
          BY <1>1, <2>5, <4>2
        <5>4. MinOf(hold[b][t], n) = n
          BY <1>2, <3>2, <5>3 DEF MinOf
        <5> QED BY <1>2, <3>2, <5>1, <5>2, <5>3, <5>4
      <4> QED BY <1>3, <4>1, <4>2
    <3>6. Held(t) = hold[b][t] + hold[c][t] /\ Held(t)' = hold'[b][t] + hold'[c][t]
      <4>1. hold'[b][t] \in Nat /\ hold'[c][t] \in Nat
        BY <3>2, <3>4, <3>5
      <4>2. \/ b = "alpaca" /\ c = "tradier"
            \/ b = "tradier" /\ c = "alpaca"
        BY <1>3, <2>1, <3>1
      <4>3. CASE b = "alpaca" /\ c = "tradier"
        BY <2>3, <4>3 DEF Held
      <4>4. CASE b = "tradier" /\ c = "alpaca"
        <5>1. /\ Held(t) = hold[c][t] + hold[b][t]
              /\ Held(t)' = hold'[c][t] + hold'[b][t]
          BY <2>3, <4>4 DEF Held
        <5> QED BY <3>2, <4>1, <5>1
      <4> QED BY <4>2, <4>3, <4>4
    <3>7. PICK x \in Nat, y \in Nat, e \in Int :
              x = hold[b][t] /\ y = hold[c][t] /\ e = Effect(f, t)
      BY <3>2, <3>5
    <3>8. Held(t) = x + y /\ Held(t)' = (x + e) + y /\ x + e \in Nat
      BY <3>4, <3>5, <3>6, <3>7
    <3> QED BY <3>7, <3>8
  <2> QED BY <2>4, <2>5
<1> SUFFICES ASSUME (~Astray)', NEW t \in Tickers PROVE Tracked(t)'
  BY Tracking
<1>7. PICK h : Tracks(h, fillQ, t, Held(t), positions[t].qty)
  BY <1>2, Tracking DEF Tracked
<1>8. PICK now \in Nat : now = Held(t)' /\ now = Held(t) + Effect(f, t)
  BY <1>6
<1>9. \E g : Tracks(g, Append(fillQ, f), t, now, positions[t].qty)
  BY <1>2, <1>7, <1>8, Counted, TrackAppend
<1> QED BY <1>2, <1>8, <1>9 DEF Tracked

\* The books take a FILL.
LEMMA BooksTake ==
    ASSUME TypeOK, BooksInv, fillAt = 1, fillQ' = Tail(fillQ), hold' = hold, slips' = slips,
           NEW qty \in [Tickers -> Nat], \A t \in Tickers : positions'[t].qty = qty[t],
           \A t \in Tickers :
              LET f == Head(fillQ)
              IN  \/ f.t # t /\ qty[t] = positions[t].qty
                  \/ f.t = t /\ f.side = "BUY" /\ positions[t].qty = 0 /\ qty[t] = f.qty
                  \/ /\ f.t = t /\ f.side = "SELL"
                     /\ qty[t] = positions[t].qty - MinOf(f.qty, positions[t].qty)
    PROVE  BooksInv'
<1> SUFFICES ASSUME (~Astray)', NEW t \in Tickers PROVE Tracked(t)'
  BY Tracking
<1>1. PICK h : Tracks(h, fillQ, t, Held(t), positions[t].qty)
  BY Tracking DEF Tracked
<1>2. fillQ # <<>> /\ qty[t] \in Nat
  BY Filling
<1>3. \E g : Tracks(g, Tail(fillQ), t, Held(t), qty[t])
  BY <1>1, <1>2, Counted, TrackTail
<1>4. Held(t)' = Held(t)
  BY DEF Held
<1> QED BY <1>3, <1>4 DEF Tracked

LEMMA BooksFillBuy ==
    ASSUME TypeOK, BooksInv, FillBuy
    PROVE  BooksInv'
<1> DEFINE f == Head(fillQ)
           qty == [t \in Tickers |-> IF t = f.t THEN f.qty ELSE positions[t].qty]
<1>1. /\ fillAt = 1 /\ f.side = "BUY" /\ fillQ' = Tail(fillQ) /\ f.t \in Tickers /\ hold' = hold
      /\ \/ "duplicate" \in slips'
         \/ /\ positions[f.t].qty = 0 /\ slips' = slips /\ positions'[f.t].qty = f.qty
            /\ \A t \in Tickers \ {f.t} : positions'[t] = positions[t]
  BY BuyHandled
<1>2. CASE "duplicate" \in slips'
  BY <1>2, Tracking DEF Astray
<1>3. CASE /\ positions[f.t].qty = 0 /\ slips' = slips /\ positions'[f.t].qty = f.qty
           /\ \A t \in Tickers \ {f.t} : positions'[t] = positions[t]
  <2>1. f.qty \in Nat
    BY <1>1, Filling
  <2> HIDE DEF f
  <2>2. qty \in [Tickers -> Nat]
    BY <2>1, Counted
  <2>3. \A t \in Tickers : /\ positions'[t].qty = qty[t]
                           /\ \/ f.t # t /\ qty[t] = positions[t].qty
                              \/ f.t = t /\ positions[t].qty = 0 /\ qty[t] = f.qty
    BY <1>1, <1>3
  <2> HIDE DEF qty
  <2>4. \A t \in Tickers :
           \/ Head(fillQ).t # t /\ qty[t] = positions[t].qty
           \/ /\ Head(fillQ).t = t /\ Head(fillQ).side = "BUY" /\ positions[t].qty = 0
              /\ qty[t] = Head(fillQ).qty
    BY <1>1, <2>3 DEF f
  <2> QED BY <1>1, <1>3, <2>2, <2>3, <2>4, BooksTake
<1> QED BY <1>1, <1>2, <1>3

LEMMA BooksFillSell ==
    ASSUME TypeOK, BooksInv, FillSell
    PROVE  BooksInv'
<1> DEFINE f == Head(fillQ)
           qty == [t \in Tickers |-> IF t = f.t THEN positions[t].qty - Clamped
                                     ELSE positions[t].qty]
<1>1. /\ fillAt = 1 /\ f.side = "SELL" /\ fillQ' = Tail(fillQ) /\ UNCHANGED <<hold, slips>>
  BY DEF FillSell, FillDone
<1>2. /\ \A t \in Tickers \ {f.t} : positions'[t] = positions[t]
      /\ positions'[f.t].qty = positions[f.t].qty - Clamped
  BY Selling
<1>3. /\ Clamped \in Nat /\ Clamped <= positions[f.t].qty /\ positions[f.t].qty \in Nat
      /\ Clamped = MinOf(f.qty, positions[f.t].qty)
  BY <1>1, ClampedIs DEF Clamped
<1> HIDE DEF f
<1>4. qty \in [Tickers -> Nat]
  BY <1>3, Counted
<1>5. \A t \in Tickers : /\ positions'[t].qty = qty[t]
                         /\ \/ f.t # t /\ qty[t] = positions[t].qty
                            \/ f.t = t /\ qty[t] = positions[t].qty - MinOf(f.qty, positions[t].qty)
  BY <1>2, <1>3
<1> HIDE DEF qty
<1>6. \A t \in Tickers :
         \/ Head(fillQ).t # t /\ qty[t] = positions[t].qty
         \/ /\ Head(fillQ).t = t /\ Head(fillQ).side = "SELL"
            /\ qty[t] = positions[t].qty - MinOf(Head(fillQ).qty, positions[t].qty)
  BY <1>1, <1>5 DEF f
<1> QED BY <1>1, <1>4, <1>5, <1>6, BooksTake

\* A position that is closed as a phantom is gone at the brokers.
LEMMA BooksFailPhantom ==
    ASSUME TypeOK, BooksInv, FailPhantom
    PROVE  BooksInv'
<1> DEFINE u == Head(failQ).t
<1>1. /\ UNCHANGED <<hold, fillQ>> /\ slips \subseteq slips'
      /\ \/ positions' = positions
         \/ /\ positions' = [positions EXCEPT ![u] = NoPos]
            /\ Held(u) > 0 => "phantom" \in slips'
  BY DEF FailPhantom
<1>2. u \in Tickers
  <2>1. failAt = 2
    BY DEF FailPhantom
  <2>2. failAt > 0
    BY <2>1
  <2> QED BY <2>2, FailIsThere
<1> HIDE DEF u
<1>3. CASE positions' = positions
  BY <1>1, <1>3, BooksStay
<1>4. CASE /\ positions' = [positions EXCEPT ![u] = NoPos]
           /\ Held(u) > 0 => "phantom" \in slips'
  <2> SUFFICES ASSUME (~Astray)', NEW t \in Tickers PROVE Tracked(t)'
    BY Tracking
  <2>1. PICK h : Tracks(h, fillQ, t, Held(t), positions[t].qty)
    BY <1>1, Tracking DEF Tracked
  <2>2. Held(t)' = Held(t)
    BY <1>1 DEF Held
  <2>3. CASE t # u
    <3>1. positions'[t] = positions[t]
      BY <1>4, <2>3 DEF TypeOK, BooksTyped
    <3> QED BY <1>1, <2>1, <2>2, <3>1 DEF Tracked
  <2>4. CASE t = u
    <3>1. Held(t) = 0
      BY <1>4, <2>4, Counted DEF Astray
    <3>2. positions'[t].qty = 0
      BY <1>2, <1>4, <2>4 DEF TypeOK, BooksTyped, NoPos
    <3>3. Tracks(h, fillQ, t, 0, 0)
      BY <2>1, <3>1, Counted, TrackZero
    <3>4. Tracks(h, fillQ', t, Held(t)', positions'[t].qty)
      BY <1>1, <2>2, <3>1, <3>2, <3>3
    <3> QED BY <3>4 DEF Tracked
  <2> QED BY <2>3, <2>4
<1> QED BY <1>1, <1>3, <1>4

\* What a reconciliation corrects it sets to what is held, with no FILL on the way.
LEMMA BooksRecApply ==
    ASSUME TypeOK, BooksInv, RecApply
    PROVE  BooksInv'
<1>1. /\ UNCHANGED <<hold, fillQ>> /\ slips \subseteq slips'
      /\ \A t \in Tickers : positions'[t] = Reconciled(t)
      /\ (\E t \in Tickers : Reconciled(t) # positions[t]
                             /\ (Seen(t) # Held(t) \/ \E i \in DOMAIN fillQ : fillQ[i].t = t))
            => "stale" \in slips'
  BY DEF RecApply
<1> SUFFICES ASSUME (~Astray)', NEW t \in Tickers PROVE Tracked(t)'
  BY Tracking
<1>2. Held(t)' = Held(t)
  BY <1>1 DEF Held
<1>3. CASE Reconciled(t) = positions[t]
  <2>1. Tracked(t)
    BY <1>1, Tracking
  <2> QED BY <1>1, <1>2, <1>3, <2>1 DEF Tracked
<1>4. CASE Reconciled(t) # positions[t]
  <2>1. Seen(t) = Held(t) /\ \A i \in DOMAIN fillQ : fillQ[i].t # t
    BY <1>1, <1>4 DEF Astray
  <2>2. positions'[t].qty = Held(t)
    BY <1>1, <1>4, <2>1, ReconciledIs
  <2>3. \E h : Tracks(h, fillQ, t, Held(t), Held(t))
    BY <2>1, Counted, TrackFixed
  <2> QED BY <1>1, <1>2, <2>2, <2>3 DEF Tracked
<1> QED BY <1>3, <1>4

\* A start has the quantities of the brokers it has seen.
LEMMA BooksRestart ==
    ASSUME TypeOK, Restart
    PROVE  BooksInv'
<1> SUFFICES ASSUME (~Astray)', NEW t \in Tickers PROVE Tracked(t)'
  BY Tracking
<1>1. PICK ok \in SUBSET Brokers :
          LET at0 == [b \in Brokers |-> [u \in Tickers |-> IF b \in ok THEN hold[b][u] ELSE 0]]
          IN  /\ at0 # hold' => "unseen" \in slips'
              /\ (\E u \in Tickers : IsOpen(u)
                      /\ Merges(positions[u], at0["alpaca"][u], at0["tradier"][u]))
                    => "merged" \in slips'
              /\ positions' = [u \in Tickers |->
                                 Synced(positions[u], at0["alpaca"][u], at0["tradier"][u])]
  BY DEF Restart
<1> DEFINE at0 == [b \in Brokers |-> [u \in Tickers |-> IF b \in ok THEN hold[b][u] ELSE 0]]
           a == at0["alpaca"][t]
           d == at0["tradier"][t]
           p == positions[t]
<1>2. a \in Nat /\ d \in Nat
  BY Counted DEF Brokers
<1>3. at0 = hold'
  BY <1>1 DEF Astray
<1>4. ~(IsOpen(t) /\ Merges(p, a, d))
  BY <1>1 DEF Astray
<1>5. positions'[t] = Synced(p, a, d)
  BY <1>1
<1>6. p \in Position
  BY DEF TypeOK, BooksTyped
<1>7. Held(t)' = a + d
  <2>1. Held(t)' = hold'["alpaca"][t] + hold'["tradier"][t]
    BY DEF Held
  <2> QED BY <1>3, <2>1
<1>8. p.qty > 0 <=> IsOpen(t)
  BY DEF IsOpen
<1> HIDE DEF a, d, p, at0
<1>9. positions'[t].qty = a + d
  BY <1>2, <1>4, <1>5, <1>6, <1>8, SyncedIs
<1>10. fillQ' = <<>>
  BY DEF Restart
<1>11. \E h : Tracks(h, <<>>, t, a + d, a + d)
  <2>1. <<>> \in Seq(Fill) /\ DOMAIN <<>> = {} /\ a + d \in Nat
    BY <1>2, Nonempty
  <2> QED BY <2>1, TrackFixed
<1> QED BY <1>7, <1>9, <1>10, <1>11 DEF Tracked

LEMMA BooksStep ==
    TypeOK /\ BooksInv /\ [Next]_vars => BooksInv'
<1> SUFFICES ASSUME TypeOK, BooksInv, [Next]_vars PROVE BooksInv'
  OBVIOUS
<1>1. CASE Calm
  BY <1>1, Calmly
<1>2. ASSUME NEW t \in Tickers, RequestSell(t) \/ \E l \in Layers : Place(l, t)
      PROVE  BooksInv'
  BY <1>2, BooksAside
<1>3. CASE Orders
  BY <1>3, BooksAside, BooksUnseen, BooksBrokerFills DEF Orders
<1>4. CASE FillBuy \/ FillSell
  BY <1>4, BooksFillBuy, BooksFillSell
<1>5. CASE FailRelease \/ FailPhantom \/ ClosedRegistry \/ RecApply
  BY <1>5, BooksAside, BooksFailPhantom, BooksRecApply
<1>6. CASE \E b \in Brokers, t \in Tickers : StopFires(b, t)
  BY <1>6, BooksUnseen
<1>7. CASE Restart \/ RecoverWal
  BY <1>7, BooksRestart, BooksAside
<1> QED BY <1>1, <1>2, <1>3, <1>4, <1>5, <1>6, <1>7, CalmSteps
        DEF Next, Signals, Fills, Fails, Closeds, Reconcile

(* With no event under way the books agree with the brokers unless one of    *)
(* the known ways to lose each other has occurred: until then the books are  *)
(* what the brokers held before the FILLs in the queue, or behind it only    *)
(* where nothing was held at some moment since.                              *)
THEOREM BooksAreTrue == Spec => []BooksAgree
<1>1. Init => BooksInv
  <2> SUFFICES ASSUME Init, NEW t \in Tickers PROVE Tracked(t)
    BY DEF BooksInv, Tracked
  <2>1. fillQ = <<>> /\ Held(t) = 0 /\ positions[t].qty = 0
    BY DEF Init, Held, NoPos, Brokers
  <2>2. \E h : Tracks(h, <<>>, t, 0, 0)
    <3>1. <<>> \in Seq(Fill) /\ DOMAIN <<>> = {} /\ 0 \in Nat
      BY Nonempty
    <3> QED BY <3>1, TrackFixed
  <2> QED BY <2>1, <2>2 DEF Tracked
<1>2. TypeOK /\ BooksInv => BooksAgree
  <2> SUFFICES ASSUME TypeOK, BooksInv, Quiet, ~Astray, NEW t \in Tickers
               PROVE  positions[t].qty = Held(t)
    BY DEF BooksAgree, Astray
  <2>1. PICK h : Tracks(h, fillQ, t, Held(t), positions[t].qty)
    BY Tracking DEF Tracked
  <2>2. Tracks(h, <<>>, t, Held(t), positions[t].qty)
    BY <2>1 DEF Quiet
  <2> QED BY <2>2, Counted, TrackDone
<1> QED BY <1>1, <1>2, BooksStep, TypeCorrect, PTL DEF Spec
==============================================================================
