--------------------------- MODULE BoundedQueue ---------------------------
(***************************************************************************)
(* What a queue of the event bus promises: at most MaxSize entries; the    *)
(* most urgent one is taken first, and equals in the order they came; an   *)
(* eviction takes the least urgent, and the oldest among equals.           *)
(***************************************************************************)
EXTENDS QueueOrder, FiniteSets

CONSTANTS Payload,    \* what is queued
          Priority,   \* the priorities in use
          MaxSize     \* capacity

VARIABLES waiting,    \* the entries in the queue
          arrivals    \* number of the next arrival

Init == waiting = {} /\ arrivals = 0

Put(p, i) == /\ Cardinality(waiting) < MaxSize
             /\ waiting' = waiting \cup {[pri |-> p, seq |-> arrivals, item |-> i]}
             /\ arrivals' = arrivals + 1

Take == \E e \in waiting : /\ IsNext(e, waiting)
                           /\ waiting' = waiting \ {e}
                           /\ UNCHANGED arrivals

Evict == \E e \in waiting : /\ IsVictim(e, waiting)
                            /\ waiting' = waiting \ {e}
                            /\ UNCHANGED arrivals

Next == Take \/ Evict \/ \E p \in Priority, i \in Payload : Put(p, i)

Spec == Init /\ [][Next]_<<waiting, arrivals>>
===========================================================================
