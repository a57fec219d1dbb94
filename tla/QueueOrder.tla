---------------------------- MODULE QueueOrder ----------------------------
(***************************************************************************)
(* The two orders a bounded priority queue of the event bus keeps its      *)
(* entries in: the one events leave it for a worker, and the one they are  *)
(* sacrificed in when it is full (monitor/event_bus.py,                    *)
(* _BoundedPriorityQueue).  An entry is [pri, seq, item]; a lower pri is   *)
(* more urgent and seq numbers the arrivals.                               *)
(***************************************************************************)
EXTENDS Naturals

\* The order of _heap, a min-heap of (priority, seq): urgent first, and
\* first come first served among equals.
Before(e, f) == e.pri < f.pri \/ (e.pri = f.pri /\ e.seq < f.seq)

\* The order of _evict_heap, a min-heap of (-priority, seq): the least
\* urgent goes first, and the oldest among equals.
EvictedBefore(e, f) == e.pri > f.pri \/ (e.pri = f.pri /\ e.seq < f.seq)

IsNext(e, q)   == e \in q /\ \A f \in q \ {e} : Before(e, f)
IsVictim(e, q) == e \in q /\ \A f \in q \ {e} : EvictedBefore(e, f)
===========================================================================
