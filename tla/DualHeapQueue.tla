--------------------------- MODULE DualHeapQueue --------------------------
(***************************************************************************)
(* The bounded priority queue of the event bus as it is built              *)
(* (monitor/event_bus.py, _BoundedPriorityQueue): two heaps over the same  *)
(* entries, one for the worker and one for evictions, with lazy deletion.  *)
(* An entry that has left through one heap stays in the other as a phantom *)
(* and its number in _invalid, until the other heap meets it.              *)
(*                                                                         *)
(* Every operation holds the queue's condition lock, so that each is one   *)
(* action; what a putter does between two operations is not atomic.        *)
(***************************************************************************)
EXTENDS QueueOrder, FiniteSets

CONSTANTS Payload,    \* what is queued
          Priority,   \* the priorities in use
          MaxSize,    \* capacity
          Putters,    \* threads that put with the DROP_OLDEST policy
          MaxArrivals \* bound of a run: puts that succeed

ASSUME QueueAssumption == /\ Priority \subseteq Nat
                          /\ MaxSize \in Nat \ {0}
                          /\ MaxArrivals \in Nat

VARIABLES heap,       \* _heap
          evictHeap,  \* _evict_heap
          invalid,    \* _invalid: numbers of entries in one heap only
          count,      \* _count
          arrivals,   \* _seq
          putter      \* per thread: idle, or what it is trying to put

heapsVars == <<heap, evictHeap, invalid, count, arrivals, putter>>

Entry == [pri : Priority, seq : Nat, item : Payload]
Idle  == [at |-> "idle"]
Trying(p, i, at) == [at |-> at, pri |-> p, item |-> i]

HeapsInit ==
  /\ heap = {} /\ evictHeap = {} /\ invalid = {}
  /\ count = 0 /\ arrivals = 0
  /\ putter = [t \in Putters |-> Idle]

Seqs(s) == {e.seq : e \in s}

\* Entries of a heap that are not phantoms.
Valid(h) == {e \in h : e.seq \notin invalid}

\* put and put_nowait once there is room.
Push(p, i) ==
  LET e == [pri |-> p, seq |-> arrivals, item |-> i]
  IN  /\ count < MaxSize
      /\ heap' = heap \cup {e}
      /\ evictHeap' = evictHeap \cup {e}
      /\ count' = count + 1
      /\ arrivals' = arrivals + 1
      /\ UNCHANGED invalid
---------------------------------------------------------------------------
(* Mutant: the entry taken is not marked as a phantom of the other heap.   *)
GetUnmarked ==
  /\ count > 0
  /\ \E e \in Valid(heap) :
       LET popped == {f \in heap \ Valid(heap) : Before(f, e)}
       IN  /\ IsNext(e, Valid(heap))
           /\ heap' = heap \ (popped \cup {e})
           /\ invalid' = invalid \ Seqs(popped)
  /\ count' = count - 1
  /\ UNCHANGED <<evictHeap, arrivals, putter>>

\* get: the phantoms on top of the heap are dropped and forgotten, the
\* first valid entry is taken and becomes a phantom of the other heap.
Get ==
  /\ count > 0
  /\ \E e \in Valid(heap) :
       LET popped == {f \in heap \ Valid(heap) : Before(f, e)}
       IN  /\ IsNext(e, Valid(heap))
           /\ heap' = heap \ (popped \cup {e})
           /\ invalid' = (invalid \ Seqs(popped)) \cup {e.seq}
  /\ count' = count - 1
  /\ UNCHANGED <<evictHeap, arrivals, putter>>

(* Mutant: the phantoms dropped by a get that times out stay in _invalid.  *)
GetNothingKept ==
  /\ count = 0
  /\ heap' = Valid(heap)
  /\ UNCHANGED <<evictHeap, invalid, count, arrivals, putter>>

\* get on an empty queue: it times out, but has dropped the phantoms.
GetNothing ==
  /\ count = 0
  /\ heap' = Valid(heap)
  /\ invalid' = invalid \ Seqs(heap \ Valid(heap))
  /\ UNCHANGED <<evictHeap, count, arrivals, putter>>

\* evict_lowest_urgency, the same through the other heap; nothing is
\* returned when only phantoms are left.
EvictLowest ==
  \/ \E e \in Valid(evictHeap) :
       LET popped == {f \in evictHeap \ Valid(evictHeap) : EvictedBefore(f, e)}
       IN  /\ IsVictim(e, Valid(evictHeap))
           /\ evictHeap' = evictHeap \ (popped \cup {e})
           /\ invalid' = (invalid \ Seqs(popped)) \cup {e.seq}
           /\ count' = count - 1
           /\ UNCHANGED <<heap, arrivals>>
  \/ /\ Valid(evictHeap) = {}
     /\ evictHeap' = {}
     /\ invalid' = invalid \ Seqs(evictHeap)
     /\ UNCHANGED <<heap, count, arrivals>>
---------------------------------------------------------------------------
\* The DROP_OLDEST loop of a dispatcher's put: try, and when the queue is
\* full let go of the lock, evict, and try again.
Start(t, p, i) ==
  /\ putter[t] = Idle
  /\ arrivals < MaxArrivals
  /\ putter' = [putter EXCEPT ![t] = Trying(p, i, "put")]
  /\ UNCHANGED <<heap, evictHeap, invalid, count, arrivals>>

TryPut(t) ==
  /\ putter[t].at = "put"
  /\ Push(putter[t].pri, putter[t].item)
  /\ putter' = [putter EXCEPT ![t] = Idle]

FailPut(t) ==
  /\ putter[t].at = "put"
  /\ count >= MaxSize
  /\ putter' = [putter EXCEPT ![t].at = "evict"]
  /\ UNCHANGED <<heap, evictHeap, invalid, count, arrivals>>

EvictsFor(t) ==
  /\ putter[t].at = "evict"
  /\ EvictLowest
  /\ putter' = [putter EXCEPT ![t].at = "put"]

HeapsNext ==
  \/ Get \/ GetNothing
  \/ \E t \in Putters :
       \/ \E p \in Priority, i \in Payload : Start(t, p, i)
       \/ TryPut(t) \/ FailPut(t) \/ EvictsFor(t)

HeapsSpec == HeapsInit /\ [][HeapsNext]_heapsVars
---------------------------------------------------------------------------
\* The queue's fields have their types.
HeapsTyped ==
  /\ heap \subseteq Entry /\ evictHeap \subseteq Entry
  /\ invalid \subseteq Nat
  /\ count \in 0 .. MaxSize
  /\ arrivals \in Nat
  /\ putter \in [Putters -> {Idle} \cup
                   [at : {"put", "evict"}, pri : Priority, item : Payload]]

\* The lazy deletion keeps its books: an entry is waiting exactly when both
\* heaps hold it, _count counts those, and _invalid holds the numbers of
\* the entries of which one heap alone still has a phantom.  _count is what
\* capacity is enforced on and what get trusts before it pops, so that an
\* error here would overfill the queue or pop a phantom.
HeapsAgree ==
  /\ count = Cardinality(heap \cap evictHeap)
  /\ invalid = Seqs((heap \ evictHeap) \cup (evictHeap \ heap))
  /\ \A e \in heap \cup evictHeap : e.seq < arrivals
  /\ \A e, f \in heap \cup evictHeap : e.seq = f.seq => e = f

\* With lazy deletion the two heaps behave as one queue that takes the most
\* urgent entry, evicts the least urgent and never holds more than MaxSize.
Queue == INSTANCE BoundedQueue WITH waiting <- heap \cap evictHeap
Implements == Queue!Spec
===========================================================================
