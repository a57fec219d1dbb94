----------------------------- MODULE MCEventBus ----------------------------
(* An instance of EventBus: the order path in small.  Bars of two tickers  *)
(* come from two threads; the strategy turns them into order requests, the *)
(* broker those into fills, and fills also come from a stream thread.  And  *)
(* one of DualHeapQueue, the queue of a lane, that two threads fill.  They  *)
(* are explored one at a time: while one moves, the other stands at its     *)
(* start.                                                                   *)
EXTENDS EventBus, DualHeapQueue, TLC

CONSTANTS a, b, main, stream, strategy, broker, position, t1, t2, i1

MCType    == {"BAR", "ORDER_REQ", "FILL"}
MCTicker  == {a, b}
MCHandler == {strategy, broker, position}
MCSource  == {main, stream}
MCWorkers == [t \in MCType |-> 1]
MCHash    == (a :> 0) @@ (b :> 1)
MCCapacity == [t \in MCType |-> IF t = "FILL" THEN 2 ELSE 1]
MCPolicy  == [t \in MCType |-> IF t = "BAR" THEN "oldest" ELSE "block"]
MCSubscribers == ("BAR" :> <<strategy>>) @@ ("ORDER_REQ" :> <<broker>>)
                   @@ ("FILL" :> <<position>>)
MCEmits   == [h \in MCHandler |-> [t \in MCType |->
                IF h = broker THEN <<"FILL">> ELSE <<>>]]
MCScript  == (main :> <<<<"BAR", a>>, <<"ORDER_REQ", a>>>>)
               @@ (stream :> <<<<"BAR", a>>, <<"ORDER_REQ", b>>>>)
MCStopOrder == <<"FILL">>

MCPutters  == {t1, t2}
MCPayload  == {i1}
MCPriority == {0, 3, 4}

VARIABLE moving     \* the one of the two that moves; the fairness is of the bus alone

BusInit    == Init /\ HeapsInit /\ moving \in {"bus", "queue"}
BusMoves   == moving = "bus" /\ Next /\ UNCHANGED heapsVars
QueueMoves == moving = "queue" /\ HeapsNext /\ UNCHANGED vars
BusSpec    == /\ BusInit
              /\ [][(BusMoves \/ QueueMoves) /\ UNCHANGED moving]_<<vars, heapsVars, moving>>
              /\ Fairness
===========================================================================
